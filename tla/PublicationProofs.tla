-------------------------- MODULE PublicationProofs --------------------------
(***************************************************************************)
(* Proofs about what is published.  A sync in a downstream repository: the *)
(* job and the users of its branches and PRs (SyncPublish), for any tags,  *)
(* days and setbacks, and the commit made from a working tree              *)
(* (SignedPayload), for any files, contents and policies.  A package: the  *)
(* checks around an npm release (Release), for any commits and any number  *)
(* of changes by others.                                                   *)
(***************************************************************************)
EXTENDS SyncPublish, SignedPayload, Release, TLAPS

(* A commit that was not rendered from an older base does not take the     *)
(* mark back, and one that was could only be made without the pin.         *)
Sound(c) == /\ ~c.stale => c.tree.mark >= c.old.mark
            /\ c.stale => pins = "no"

JobKnows ==
    /\ Rendering /\ ~job.moved => base = job.was
    /\ job.step \in {"close", "commit"} =>
         /\ job.work # job.was /\ job.work.mark >= job.was.mark
    /\ job.step \in {"ref", "publish", "pr"} => Sound(job.commit) /\ job.commit # NoCommit
    /\ job.step \notin {"wait", "verify"} => job.date \in Day
    /\ job.step # "wait" => pins # "unset"

BranchesSound == \A d \in Day : Sound(branch[d])

PublishInv == PublishTypeOK /\ JobKnows /\ BranchesSound

-----------------------------------------------------------------------------
LEMMA Shipped ==
    /\ 1 \in Stamp /\ 1 \in Day
    /\ \A t \in Stamp : t \in Nat /\ t >= 1
    /\ FirstTree \in TreeType /\ NoCommit \in CommitType /\ NoJob \in JobType
    /\ NoJob.step = "wait" /\ Sound(NoCommit)
  <1>1. /\ 1 \in Stamp /\ 1 \in Day /\ \A t \in Stamp : t \in Nat /\ t >= 1
    BY PublishAssumption DEF Day
  <1>2. FirstTree \in TreeType /\ FirstTree.mark = 0
    BY <1>1 DEF FirstTree, TreeType
  <1>3. NoCommit \in CommitType /\ Sound(NoCommit)
    BY <1>2 DEF NoCommit, CommitType, Sound
  <1>4. NoJob \in JobType /\ NoJob.step = "wait"
    BY <1>2, <1>3 DEF NoJob, JobType
  <1> QED
    BY <1>1, <1>2, <1>3, <1>4

LEMMA Marks == \A t \in TreeType : t.mark \in Nat
  BY Shipped DEF TreeType

LEMMA PublishInitInv == PublishInit => PublishInv
  <1> SUFFICES ASSUME PublishInit PROVE PublishInv
    OBVIOUS
  <1>1. PublishTypeOK
    BY Shipped DEF PublishInit, PublishTypeOK
  <1>2. JobKnows
    BY Shipped DEF PublishInit, JobKnows, Rendering
  <1>3. BranchesSound
    BY Shipped DEF PublishInit, BranchesSound, Sound
  <1> QED
    BY <1>1, <1>2, <1>3 DEF PublishInv

-----------------------------------------------------------------------------
(* The state of the job after a step, where no tree and no mark changes.   *)
KnowsJob(j) ==
    /\ j.step \in {"verify", "close", "commit"} /\ ~j.moved => base = j.was
    /\ j.step \in {"close", "commit"} => j.work # j.was /\ j.work.mark >= j.was.mark
    /\ j.step \in {"ref", "publish", "pr"} => Sound(j.commit) /\ j.commit # NoCommit
    /\ j.step \notin {"wait", "verify"} => j.date \in Day
    /\ j.step # "wait" => pins # "unset"

LEMMA WhatIsKnown == JobKnows <=> KnowsJob(job)
  BY DEF JobKnows, KnowsJob, Rendering

LEMMA NoJobKnows == KnowsJob(NoJob)
  BY Shipped DEF KnowsJob

LEMMA JobStepKeepsInv ==
    ASSUME PublishInv, NEW j \in JobType, KnowsJob(j), job' = j,
           UNCHANGED <<base, pins>>, branch' \in [Day -> CommitType],
           \A d \in Day : branch'[d] = branch[d] \/ branch'[d] = NoCommit
                          \/ Sound(branch'[d]),
           openPr' \subseteq {d \in Day : branch'[d] # NoCommit},
           syncTag' \in 1..newest', newest' \in Stamp, day' \in Day
    PROVE  PublishInv'
  <1>1. PublishTypeOK'
    BY DEF PublishInv, PublishTypeOK
  <1>2. JobKnows'
    BY DEF JobKnows, KnowsJob, Rendering, Sound
  <1>3. BranchesSound'
    BY Shipped DEF PublishInv, BranchesSound, Sound
  <1> QED
    BY <1>1, <1>2, <1>3 DEF PublishInv

(* What the invariant says of the state as it is.                          *)
LEMMA InvFacts ==
    ASSUME PublishInv
    PROVE  /\ base \in TreeType /\ syncTag \in 1..newest /\ newest \in Stamp /\ syncTag \in Stamp
           /\ branch \in [Day -> CommitType] /\ day \in Day /\ job \in JobType
           /\ pins \in {"unset", "yes", "no"}
           /\ openPr \subseteq {d \in Day : branch[d] # NoCommit}
           /\ KnowsJob(job) /\ \A d \in Day : Sound(branch[d])
  BY WhatIsKnown, PublishAssumption DEF PublishInv, PublishTypeOK, BranchesSound

LEMMA CheckoutKeepsInv ==
    ASSUME PublishInv, Checkout
    PROVE  PublishInv'
  <1> DEFINE j == [NoJob EXCEPT !.step = "verify", !.was = base, !.work = base]
  <1>1. /\ job' = j /\ pins' \in {"yes", "no"} /\ (pins # "unset" => pins' = pins)
        /\ UNCHANGED <<base, syncTag, newest, tagMoves, day, branch, openPr, setbacks>>
    BY InvFacts DEF Checkout
  <1>2. j \in JobType /\ j.step = "verify" /\ j.was = base /\ j.moved = FALSE
    BY InvFacts, Shipped DEF JobType, NoJob
  <1> HIDE DEF j
  <1>3. PublishTypeOK'
    BY <1>1, <1>2, InvFacts DEF PublishTypeOK
  <1>4. JobKnows'
    BY <1>1, <1>2 DEF JobKnows, Rendering
  <1>5. BranchesSound'
    BY <1>1, InvFacts DEF BranchesSound, Sound
  <1> QED
    BY <1>3, <1>4, <1>5 DEF PublishInv

(* The rendered tree has the checkout's mark, or a tag's that is not older.*)
LEMMA RenderTagKeepsInv ==
    ASSUME PublishInv, RenderTag
    PROVE  PublishInv'
  <1>1. UNCHANGED <<World, branch, openPr>> /\ job.step = "verify"
    BY DEF RenderTag, Step
  <1>2. job.was \in TreeType /\ job.was.mark \in Nat /\ Ships[syncTag] \in {Ships[t] : t \in Stamp}
    BY InvFacts, Marks DEF JobType
  <1>3. ASSUME NEW w \in TreeType, w.mark >= job.was.mark, AfterRender(w)
        PROVE  job' \in JobType /\ KnowsJob(job')
    <2>1. CASE w = job.was
      BY <1>3, <2>1, Shipped, NoJobKnows DEF AfterRender
    <2>2. CASE w # job.was
      <3> DEFINE j == [job EXCEPT !.step = "close", !.date = day, !.work = w]
      <3>1. job' = j
        BY <1>3, <2>2 DEF AfterRender
      <3>2. /\ j \in JobType /\ j.step = "close" /\ j.date = day /\ j.work = w
            /\ j.was = job.was /\ j.moved = job.moved
        BY <1>3, InvFacts DEF JobType
      <3> HIDE DEF j
      <3>3. KnowsJob(j)
        BY <1>1, <1>3, <2>2, <3>2, InvFacts DEF KnowsJob
      <3> QED
        BY <3>1, <3>2, <3>3
    <2> QED
      BY <2>1, <2>2
  <1>4. CASE job' = NoJob
    BY <1>1, <1>4, InvFacts, Shipped, NoJobKnows, JobStepKeepsInv DEF World
  <1>5. CASE /\ ~TooOld(syncTag, job.was.mark)
             /\ AfterRender([synced |-> Ships[syncTag], mark |-> syncTag])
    <2>1. /\ [synced |-> Ships[syncTag], mark |-> syncTag] \in TreeType
          /\ syncTag \in Nat
      BY <1>2, InvFacts, Shipped DEF TreeType
    <2>2. syncTag >= job.was.mark
      BY <1>2, <1>5, <2>1 DEF TooOld
    <2>3. job' \in JobType /\ KnowsJob(job')
      BY <1>3, <1>5, <2>1, <2>2
    <2> QED
      BY <1>1, <2>3, InvFacts, JobStepKeepsInv DEF World
  <1>6. CASE AfterRender([job.was EXCEPT !.synced = Ships[syncTag]])
    <2> DEFINE w == [job.was EXCEPT !.synced = Ships[syncTag]]
    <2>1. w \in TreeType /\ w.mark = job.was.mark
      BY <1>2 DEF TreeType
    <2>3. w.mark >= job.was.mark
      <3> HIDE DEF w
      <3> QED
        BY <1>2, <2>1
    <2>2. job' \in JobType /\ KnowsJob(job')
      BY <1>3, <1>6, <2>1, <2>3
    <2> QED
      BY <1>1, <2>2, InvFacts, JobStepKeepsInv DEF World
  <1> QED
    BY <1>4, <1>5, <1>6 DEF RenderTag

LEMMA ClosePriorKeepsInv ==
    ASSUME PublishInv, ClosePrior
    PROVE  PublishInv'
  <1>1. UNCHANGED World /\ job.step = "close"
    BY DEF ClosePrior, Step
  <1>2. ASSUME NEW d \in openPr, openPr' = openPr \ {d},
               branch' = [branch EXCEPT ![d] = NoCommit], UNCHANGED job
        PROVE  PublishInv'
    <2>1. branch' \in [Day -> CommitType]
      BY <1>2, InvFacts, Shipped
    <2>2. \A e \in Day : branch'[e] = IF e = d THEN NoCommit ELSE branch[e]
      BY <1>2, InvFacts
    <2>3. openPr' \subseteq {e \in Day : branch'[e] # NoCommit}
      BY <1>2, <2>2, InvFacts
    <2> QED
      BY <1>1, <1>2, <2>1, <2>2, <2>3, InvFacts, JobStepKeepsInv DEF World
  <1>3. CASE openPr = {} /\ Then("commit") /\ UNCHANGED <<branch, openPr>>
    <2> DEFINE j == [job EXCEPT !.step = "commit"]
    <2>1. /\ j \in JobType /\ j.step = "commit" /\ j.was = job.was /\ j.work = job.work
          /\ j.moved = job.moved /\ j.date = job.date
      BY InvFacts DEF JobType
    <2>2. job' = j
      BY <1>3 DEF Then
    <2> HIDE DEF j
    <2>3. KnowsJob(j)
      BY <1>1, <2>1, InvFacts DEF KnowsJob
    <2> QED
      BY <1>1, <1>3, <2>1, <2>2, <2>3, InvFacts, JobStepKeepsInv DEF World
  <1> QED
    BY <1>2, <1>3 DEF ClosePrior

-----------------------------------------------------------------------------
(* The commit: over a base that has not moved it is the rendered change,   *)
(* so it changes something and does not take the mark back; over one that  *)
(* has it is stale, which the pin refuses.                                 *)
LEMMA OverlayIsTree ==
    ASSUME PublishInv, NEW t \in TreeType
    PROVE  /\ Overlay(t) \in TreeType
           /\ Overlay(t).mark = IF "mark" \in Changed THEN job.work.mark ELSE t.mark
           /\ \A p \in Parts : Overlay(t)[p] = IF p \in Changed THEN job.work[p] ELSE t[p]
  <1>1. job.work \in TreeType
    BY InvFacts DEF JobType
  <1> QED
    BY <1>1 DEF Overlay, TreeType, Parts

LEMMA SomePartDiffers ==
    ASSUME NEW s \in TreeType, NEW t \in TreeType, s # t
    PROVE  \E p \in Parts : s[p] # t[p]
  BY DEF TreeType, Parts

LEMMA BuildCommitKeepsInv ==
    ASSUME PublishInv, BuildCommit
    PROVE  PublishInv'
  <1> DEFINE c == [old |-> base, tree |-> Overlay(base), stale |-> job.moved]
             j == [NoJob EXCEPT !.step = "ref", !.date = job.date, !.commit = c]
  <1>1. UNCHANGED <<World, branch, openPr>> /\ job.step = "commit"
    BY DEF BuildCommit, Step
  <1>2. CASE PinRefuses
    BY <1>1, <1>2, InvFacts, Shipped, NoJobKnows, JobStepKeepsInv DEF BuildCommit, World
  <1>3. CASE ~PinRefuses
    <2>1. job' = j
      BY <1>3 DEF BuildCommit
    <2>2. /\ job.was \in TreeType /\ job.work \in TreeType /\ job.moved \in BOOLEAN
          /\ job.date \in Day /\ job.work # job.was /\ job.work.mark >= job.was.mark
          /\ (~job.moved => base = job.was) /\ pins # "unset" /\ base \in TreeType
      BY <1>1, InvFacts DEF JobType, KnowsJob
    <2>3. c \in CommitType /\ c.stale = job.moved /\ c.tree = Overlay(base) /\ c.old = base
      BY <2>2, OverlayIsTree DEF CommitType
    <2>4. j \in JobType /\ j.step = "ref" /\ j.date = job.date /\ j.commit = c
      <3> HIDE DEF c
      <3> QED
        BY <2>2, <2>3, Shipped DEF JobType, NoJob
    <2>5. ~job.moved => Overlay(base).mark >= base.mark
      <3>1. base.mark \in Nat /\ job.work.mark \in Nat
        BY <2>2, Marks
      <3> QED
        BY <2>2, <3>1, OverlayIsTree
    <2>6. job.moved => pins = "no"
      BY <1>3, <2>2, InvFacts DEF PinRefuses
    <2>7. ~job.moved => Overlay(base) # base
      <3> SUFFICES ASSUME ~job.moved PROVE Overlay(base) # base
        OBVIOUS
      <3>1. PICK p \in Parts : job.work[p] # job.was[p]
        BY <2>2, SomePartDiffers
      <3>2. Overlay(base)[p] = job.work[p] /\ base[p] = job.was[p]
        BY <2>2, <3>1, OverlayIsTree DEF Changed
      <3> QED
        BY <3>1, <3>2
    <2> HIDE DEF c, j
    <2>8. Sound(c)
      BY <2>3, <2>5, <2>6 DEF Sound
    <2>9. c # NoCommit
      <3>1. NoCommit.stale = FALSE /\ NoCommit.tree = NoCommit.old
        BY DEF NoCommit
      <3> QED
        BY <2>3, <2>7, <3>1
    <2>10. KnowsJob(j)
      BY <2>2, <2>4, <2>8, <2>9 DEF KnowsJob
    <2> QED
      BY <1>1, <2>1, <2>4, <2>10, InvFacts, JobStepKeepsInv DEF World
  <1> QED
    BY <1>2, <1>3

(* The rest of the job carries the commit.                                 *)
LEMMA CarriesCommit ==
    ASSUME PublishInv, NEW j \in JobType, job.step \in {"ref", "publish"},
           j.step \in {"publish", "pr"}, j.commit = job.commit, j.date = job.date
    PROVE  KnowsJob(j)
  BY InvFacts DEF KnowsJob

LEMMA FindRefKeepsInv ==
    ASSUME PublishInv, FindRef
    PROVE  PublishInv'
  <1> DEFINE j == [job EXCEPT !.step = "publish", !.exists = branch[job.date] # NoCommit]
  <1>1. UNCHANGED <<World, branch, openPr>> /\ job.step = "ref" /\ job' = j
    BY DEF FindRef, Step
  <1>2. j \in JobType /\ j.step = "publish" /\ j.commit = job.commit /\ j.date = job.date
    BY InvFacts DEF JobType
  <1> HIDE DEF j
  <1>3. KnowsJob(j)
    BY <1>1, <1>2, CarriesCommit
  <1> QED
    BY <1>1, <1>2, <1>3, InvFacts, JobStepKeepsInv DEF World

LEMMA PublishRefKeepsInv ==
    ASSUME PublishInv, PublishRef
    PROVE  PublishInv'
  <1>1. UNCHANGED <<World, openPr>> /\ job.step = "publish"
    BY DEF PublishRef, Step
  <1>2. CASE CanPublish(job.exists)
    <2> DEFINE j == [job EXCEPT !.step = "pr"]
    <2>1. job' = j /\ branch' = [branch EXCEPT ![job.date] = job.commit]
      BY <1>2 DEF PublishRef, Then
    <2>2. j \in JobType /\ j.step = "pr" /\ j.commit = job.commit /\ j.date = job.date
      BY InvFacts DEF JobType
    <2> HIDE DEF j
    <2>3. KnowsJob(j)
      BY <1>1, <2>2, CarriesCommit
    <2>4. /\ job.commit \in CommitType /\ Sound(job.commit) /\ job.commit # NoCommit
          /\ job.date \in Day
      BY <1>1, InvFacts DEF JobType, KnowsJob
    <2>5. /\ branch' \in [Day -> CommitType]
          /\ \A d \in Day : branch'[d] = IF d = job.date THEN job.commit ELSE branch[d]
      BY <2>1, <2>4, InvFacts
    <2>6. openPr' \subseteq {d \in Day : branch'[d] # NoCommit}
      BY <1>1, <2>4, <2>5, InvFacts
    <2>7. \A d \in Day : branch'[d] = branch[d] \/ branch'[d] = NoCommit \/ Sound(branch'[d])
      BY <2>4, <2>5
    <2> QED
      BY <1>1, <2>1, <2>2, <2>3, <2>5, <2>6, <2>7, InvFacts, JobStepKeepsInv DEF World
  <1>3. CASE ~CanPublish(job.exists)
    BY <1>1, <1>3, InvFacts, Shipped, NoJobKnows, JobStepKeepsInv DEF PublishRef, World
  <1> QED
    BY <1>2, <1>3

LEMMA OpenPrKeepsInv ==
    ASSUME PublishInv, OpenPr
    PROVE  PublishInv'
  <1>1. UNCHANGED <<World, branch>> /\ job.step = "pr" /\ job' = NoJob
    BY DEF OpenPr, Step
  <1>2. openPr' \subseteq {d \in Day : branch[d] # NoCommit}
    BY <1>1, InvFacts DEF OpenPr, KnowsJob
  <1> QED
    BY <1>1, <1>2, InvFacts, Shipped, NoJobKnows, JobStepKeepsInv DEF World

LEMMA JobDiesKeepsInv ==
    ASSUME PublishInv, JobDies
    PROVE  PublishInv'
  BY InvFacts, Shipped, NoJobKnows, JobStepKeepsInv DEF JobDies

-----------------------------------------------------------------------------
LEMMA TagMovesKeepsInv ==
    ASSUME PublishInv, TagMoves
    PROVE  PublishInv'
  <1>1. syncTag' \in 1..newest' /\ newest' \in Stamp
    BY InvFacts, PublishAssumption DEF TagMoves
  <1> QED
    BY <1>1, InvFacts, JobStepKeepsInv DEF TagMoves

(* The base's head moves under a job that has not built its commit yet.    *)
LEMMA HeadMovesUnderJob ==
    ASSUME PublishInv, HeadMoves, UNCHANGED pins
    PROVE  job' \in JobType /\ JobKnows'
  <1>1. CASE Rendering
    <2>1. /\ job' = [job EXCEPT !.moved = TRUE] /\ job' \in JobType /\ job'.moved = TRUE
          /\ job'.step = job.step /\ job'.was = job.was /\ job'.work = job.work
          /\ job'.date = job.date
      BY <1>1, InvFacts DEF HeadMoves, JobType
    <2> QED
      BY <1>1, <2>1, InvFacts DEF JobKnows, KnowsJob, Rendering
  <1>2. CASE ~Rendering
    <2>1. job' = job
      BY <1>2 DEF HeadMoves
    <2> QED
      BY <1>2, <2>1, InvFacts DEF JobKnows, KnowsJob, Rendering, Sound
  <1> QED
    BY <1>1, <1>2

LEMMA PushKeepsInv ==
    ASSUME PublishInv, Push
    PROVE  PublishInv'
  <1>1. job' \in JobType /\ JobKnows'
    BY HeadMovesUnderJob DEF Push
  <1>2. PublishTypeOK'
    BY <1>1, InvFacts DEF Push, PublishTypeOK
  <1>3. BranchesSound'
    BY InvFacts DEF Push, BranchesSound, Sound
  <1> QED
    BY <1>1, <1>2, <1>3 DEF PublishInv

LEMMA MergedIsTree ==
    ASSUME PublishInv, NEW c \in CommitType
    PROVE  /\ Merged(c) \in TreeType
           /\ Merged(c).mark = IF c.tree.mark # c.old.mark THEN c.tree.mark ELSE base.mark
  <1>1. base \in TreeType /\ c.tree \in TreeType
    BY InvFacts DEF CommitType
  <1> QED
    BY <1>1 DEF Merged, Edits, TreeType, Parts

LEMMA MergePrKeepsInv ==
    ASSUME PublishInv, NEW d \in Day, MergePr(d)
    PROVE  PublishInv'
  <1>1. job' \in JobType /\ JobKnows'
    BY HeadMovesUnderJob DEF MergePr
  <1>2. base' \in TreeType
    BY MergedIsTree, InvFacts DEF MergePr
  <1>3. /\ branch' \in [Day -> CommitType]
        /\ \A e \in Day : branch'[e] = branch[e] \/ (e = d /\ branch'[e] = NoCommit)
    BY InvFacts, Shipped DEF MergePr
  <1>4. PublishTypeOK'
    <2>1. openPr' \subseteq {e \in Day : branch'[e] # NoCommit}
      BY <1>3, InvFacts DEF MergePr
    <2> QED
      BY <1>1, <1>2, <1>3, <2>1, InvFacts DEF MergePr, PublishTypeOK
  <1>5. BranchesSound'
    BY <1>3, InvFacts, Shipped DEF MergePr, BranchesSound, Sound
  <1> QED
    BY <1>1, <1>4, <1>5 DEF PublishInv

LEMMA TogglePrKeepsInv ==
    ASSUME PublishInv, NEW d \in Day, TogglePr(d)
    PROVE  PublishInv'
  <1>1. openPr' \subseteq {e \in Day : branch[e] # NoCommit}
    BY InvFacts DEF TogglePr
  <1> QED
    BY <1>1, InvFacts, JobStepKeepsInv DEF TogglePr, World

LEMMA NextDayKeepsInv ==
    ASSUME PublishInv, NextDay
    PROVE  PublishInv'
  <1>1. day' \in Day
    BY InvFacts, PublishAssumption DEF NextDay, Day
  <1> QED
    BY <1>1, InvFacts, JobStepKeepsInv DEF NextDay

LEMMA PublishStutterKeepsInv ==
    ASSUME PublishInv, UNCHANGED publishVars
    PROVE  PublishInv'
  BY InvFacts, JobStepKeepsInv DEF publishVars

LEMMA PublishStepKeepsInv == PublishInv /\ [PublishNext]_publishVars => PublishInv'
  <1> SUFFICES ASSUME PublishInv, [PublishNext]_publishVars PROVE PublishInv'
    OBVIOUS
  <1>1. CASE PublishStep
    BY <1>1, CheckoutKeepsInv, RenderTagKeepsInv, ClosePriorKeepsInv, BuildCommitKeepsInv,
       FindRefKeepsInv, PublishRefKeepsInv, OpenPrKeepsInv DEF PublishStep
  <1>2. CASE JobDies \/ TagMoves \/ Push \/ NextDay
    BY <1>2, JobDiesKeepsInv, TagMovesKeepsInv, PushKeepsInv, NextDayKeepsInv
  <1>3. CASE \E d \in Day : MergePr(d) \/ TogglePr(d)
    BY <1>3, MergePrKeepsInv, TogglePrKeepsInv
  <1>4. CASE UNCHANGED publishVars
    BY <1>4, PublishStutterKeepsInv
  <1> QED
    BY <1>1, <1>2, <1>3, <1>4 DEF PublishNext

LEMMA PublishInvariant == PublishSpec => []PublishInv
  <1>1. PublishInit => PublishInv
    BY PublishInitInv
  <1>2. PublishInv /\ [PublishNext]_publishVars => PublishInv'
    BY PublishStepKeepsInv
  <1> QED
    BY <1>1, <1>2, PTL DEF PublishSpec

(* The trees, tags, branches and the job keep their types, and every open  *)
(* PR has a branch.                                                        *)
THEOREM PublishTypeCorrect == PublishSpec => []PublishTypeOK
  <1>1. PublishInv => PublishTypeOK
    BY DEF PublishInv
  <1> QED
    BY <1>1, PublishInvariant, PTL

(* Only a merge changes the base, and it takes the mark back only when the *)
(* commit does so against its own parent: a stale one, made without the    *)
(* pin (create-signed-commit.py's --expected-base-sha).                    *)
LEMMA MarkStep ==
    ASSUME PublishInv, [PublishNext]_publishVars, base'.mark < base.mark
    PROVE  pins = "no" /\ \E d \in openPr \ openPr' : branch[d].stale
  <1>1. base' # base
    BY InvFacts, Marks
  <1>2. PICK d \in Day : MergePr(d)
    BY <1>1 DEF PublishNext, publishVars, PublishStep, Checkout, RenderTag, ClosePrior,
       BuildCommit, FindRef, PublishRef, OpenPr, World, JobDies, TagMoves, Push, NextDay,
       TogglePr
  <1> DEFINE c == branch[d]
  <1>3. c \in CommitType /\ base' = Merged(c) /\ Clean(c) /\ Sound(c) /\ d \in openPr \ openPr'
    BY <1>2, InvFacts DEF MergePr
  <1> HIDE DEF c
  <1>4. base.mark \in Nat /\ c.tree.mark \in Nat /\ c.old.mark \in Nat
    BY <1>3, InvFacts, Marks DEF CommitType
  <1>5. base'.mark = c.tree.mark /\ c.tree.mark # c.old.mark
    BY <1>3, <1>4, MergedIsTree
  <1>6. base.mark \in {c.old.mark, c.tree.mark}
    BY <1>3, <1>5 DEF Clean, Edits, Parts
  <1>7. c.tree.mark < c.old.mark
    BY <1>4, <1>5, <1>6
  <1>8. c.stale /\ pins = "no"
    BY <1>3, <1>4, <1>7 DEF Sound, CommitType
  <1> QED
    BY <1>3, <1>8 DEF c

(* With the pin the replay guard holds: the accepted mark goes back only   *)
(* by merging a commit of a repository that does not pin its base.         *)
THEOREM ReplayGuardHolds == PublishSpec => MarkGoesBackOnlyUnpinned
  <1>1. PublishInv /\ [PublishNext]_publishVars =>
          [base'.mark < base.mark =>
             pins = "no" /\ \E d \in openPr \ openPr' : branch[d].stale]_publishVars
    BY MarkStep
  <1> QED
    BY <1>1, PublishInvariant, PTL DEF PublishSpec, MarkGoesBackOnlyUnpinned

-----------------------------------------------------------------------------
(* The commit made from a working tree.                                    *)
PayloadInv == PayloadTypeOK /\ PublishedAsRendered /\ StaysAdmitted

LEMMA EmptyTrees == EmptyTree \in Tree3 /\ NoPolicy \in PolicyType
  BY DEF EmptyTree, Tree3, NoPolicy, PolicyType

LEMMA PayloadTrees ==
    ASSUME PayloadTypeOK
    PROVE  /\ head \in Tree3 /\ index \in Tree3 /\ worktree \in Tree3 /\ result \in Tree3
           /\ policy \in PolicyType
  BY DEF PayloadTypeOK

-----------------------------------------------------------------------------
(* What git status reports.  A file that has an entry of its own, or is    *)
(* one side of a pair, is written or deleted by the manifest.              *)
LEMMA OwnEntry ==
    ASSUME NEW renames, NEW copies, NEW f \in File, Staged(f) \cup Unstaged(f) # {},
           \A p \in renames : f \notin {p[1], p[2]}, \A p \in copies : f # p[2]
    PROVE  StatusEntry(Staged(f) \cup Unstaged(f), f, NoFile) \in Status(renames, copies)
  BY DEF Status

LEMMA EntriesCover ==
    ASSUME NEW renames, NEW copies, NEW f \in File,
           Staged(f) \cup Unstaged(f) # {} \/ Untracked(f)
    PROVE  \/ f \in Upserts(Status(renames, copies))
           \/ f \in Deletes(Status(renames, copies))
  <1> DEFINE m == Status(renames, copies)
  <1>1. CASE \E p \in renames : f = p[1]
    <2>1. PICK p \in renames : f = p[1]
      BY <1>1
    <2> DEFINE e == StatusEntry({"R"} \cup Unstaged(p[2]), p[2], p[1])
    <2>2. e \in m
      BY <2>1 DEF Status
    <2>3. "R" \in e.code /\ e.source = f
      BY <2>1 DEF StatusEntry
    <2> QED
      BY <2>2, <2>3 DEF Deletes
  <1>2. CASE \E p \in renames : f = p[2]
    <2>1. PICK p \in renames : f = p[2]
      BY <1>2
    <2> DEFINE e == StatusEntry({"R"} \cup Unstaged(p[2]), p[2], p[1])
    <2>2. e \in m
      BY <2>1 DEF Status
    <2>3. Paired(e) /\ e.file = f
      BY <2>1 DEF StatusEntry, Paired
    <2> QED
      BY <2>2, <2>3 DEF Upserts
  <1>3. CASE \E p \in copies : f = p[2]
    <2>1. PICK p \in copies : f = p[2]
      BY <1>3
    <2> DEFINE e == StatusEntry({"C"} \cup Unstaged(p[2]), p[2], p[1])
    <2>2. e \in m
      BY <2>1 DEF Status
    <2>3. Paired(e) /\ e.file = f
      BY <2>1 DEF StatusEntry, Paired
    <2> QED
      BY <2>2, <2>3 DEF Upserts
  <1>4. CASE /\ Staged(f) \cup Unstaged(f) # {}
             /\ \A p \in renames : f \notin {p[1], p[2]}
             /\ \A p \in copies : f # p[2]
    <2> DEFINE e == StatusEntry(Staged(f) \cup Unstaged(f), f, NoFile)
    <2>1. e \in m
      BY <1>4, OwnEntry
    <2>2. e.file = f
      BY DEF StatusEntry
    <2>3. Paired(e) \/ "D" \notin e.code \/ (~Paired(e) /\ "D" \in e.code)
      OBVIOUS
    <2> HIDE DEF e, m
    <2>4. f \in Upserts(m) \/ f \in Deletes(m)
      BY <2>1, <2>2, <2>3 DEF Upserts, Deletes
    <2> QED
      BY <2>4 DEF m
  <1>5. CASE Untracked(f)
    <2> DEFINE e == StatusEntry({"?"}, f, NoFile)
    <2>1. e \in m
      BY <1>5 DEF Status
    <2>2. e.file = f /\ "D" \notin e.code
      BY DEF StatusEntry
    <2> QED
      BY <2>1, <2>2 DEF Upserts
  <1> QED
    BY <1>1, <1>2, <1>3, <1>4, <1>5

LEMMA QuietFile ==
    ASSUME PayloadTypeOK, NEW f \in File, Staged(f) \cup Unstaged(f) = {}, ~Untracked(f)
    PROVE  worktree[f] = head[f]
  BY PayloadTrees DEF Staged, Unstaged, Untracked, Tree3

(* A whole manifest in which no file is both written and deleted, and that *)
(* deletes only what the working tree lacks, makes the working tree.       *)
LEMMA WholeManifestRendersAll ==
    ASSUME PayloadTypeOK, NEW renames, NEW copies,
           \A f \in File : f \in Deletes(Status(renames, copies)) => worktree[f] = NoFile
    PROVE  Applied(Status(renames, copies)) = worktree
  <1> DEFINE m == Status(renames, copies)
  <1>1. ASSUME NEW f \in File PROVE Applied(m)[f] = worktree[f]
    <2>1. f \notin Deletes(m) /\ f \notin Upserts(m) => worktree[f] = head[f]
      BY EntriesCover, QuietFile
    <2> HIDE DEF m
    <2>2. f \in Deletes(m) => worktree[f] = NoFile
      BY DEF m
    <2> QED
      BY <2>1, <2>2 DEF Applied
  <1>2. worktree = [f \in File |-> worktree[f]]
    BY PayloadTrees DEF Tree3
  <1> HIDE DEF m
  <1>3. Applied(m) = [f \in File |-> worktree[f]]
    BY <1>1 DEF Applied
  <1> QED
    BY <1>2, <1>3 DEF m

(* Every entry of the status is of one of four forms.                      *)
LEMMA StatusForms ==
    ASSUME NEW renames, NEW copies, NEW e \in Status(renames, copies)
    PROVE  \/ \E p \in renames : /\ e.code = {"R"} \cup Unstaged(p[2])
                                 /\ e.file = p[2] /\ e.source = p[1]
           \/ \E p \in copies : e.code = {"C"} \cup Unstaged(p[2]) /\ e.file = p[2]
           \/ \E f \in File : /\ e.code = Staged(f) \cup Unstaged(f) /\ e.file = f
                              /\ \A p \in renames : f \notin {p[1], p[2]}
           \/ \E f \in File : e.code = {"?"} /\ e.file = f /\ Untracked(f)
  BY DEF Status, StatusEntry

LEMMA Letters ==
    ASSUME NEW f
    PROVE  Staged(f) \subseteq {"A", "D", "M"} /\ Unstaged(f) \subseteq {"D", "M"}
  BY DEF Staged, Unstaged

(* What a status deletes is gone, or its deletion is staged.               *)
LEMMA DeletesAreGone ==
    ASSUME NEW renames \in SUBSET Pairs, NEW copies, NEW f \in File,
           f \in Deletes(Status(renames, copies))
    PROVE  worktree[f] = NoFile \/ (index[f] = NoFile /\ index[f] # head[f])
  <1> DEFINE m == Status(renames, copies)
  <1>1. PICK e \in m : \/ ~Paired(e) /\ "D" \in e.code /\ e.file = f
                       \/ "R" \in e.code /\ e.source = f
    BY DEF Deletes
  <1>2. CASE \E p \in renames : /\ e.code = {"R"} \cup Unstaged(p[2])
                                /\ e.file = p[2] /\ e.source = p[1]
    <2>1. PICK p \in renames : e.code = {"R"} \cup Unstaged(p[2]) /\ e.source = p[1]
      BY <1>2
    <2>2. Paired(e)
      BY <2>1 DEF Paired
    <2>3. Staged(p[1]) = {"D"} /\ p[1] = f
      BY <1>1, <2>1, <2>2 DEF Pairs
    <2> QED
      BY <2>3 DEF Staged
  <1>3. CASE \E p \in copies : e.code = {"C"} \cup Unstaged(p[2]) /\ e.file = p[2]
    <2>1. PICK p \in copies : e.code = {"C"} \cup Unstaged(p[2])
      BY <1>3
    <2>2. Paired(e) /\ "R" \notin e.code
      BY <2>1, Letters DEF Paired
    <2> QED
      BY <1>1, <2>2
  <1>4. CASE \E g \in File : e.code = Staged(g) \cup Unstaged(g) /\ e.file = g
    <2>1. PICK g \in File : e.code = Staged(g) \cup Unstaged(g) /\ e.file = g
      BY <1>4
    <2>2. "R" \notin e.code
      BY <2>1, Letters
    <2>3. "D" \in Staged(f) \/ "D" \in Unstaged(f)
      BY <1>1, <2>1, <2>2
    <2> QED
      BY <2>3 DEF Staged, Unstaged
  <1>5. CASE e.code = {"?"}
    BY <1>1, <1>5
  <1> QED
    BY <1>2, <1>3, <1>4, <1>5, StatusForms

(* A file whose deletion is staged and that is there again is untracked,   *)
(* so the status also writes it.                                           *)
LEMMA BackAgain ==
    ASSUME NEW renames, NEW copies, NEW f \in File, index[f] = NoFile, worktree[f] # NoFile
    PROVE  f \in Upserts(Status(renames, copies))
  <1> DEFINE e == StatusEntry({"?"}, f, NoFile)
  <1>1. e \in Status(renames, copies)
    BY DEF Status, Untracked
  <1>2. e.file = f /\ "D" \notin e.code
    BY DEF StatusEntry
  <1> QED
    BY <1>1, <1>2 DEF Upserts

LEMMA ConsumerRendersAll ==
    ASSUME PayloadTypeOK, index = head
    PROVE  Applied(Status({}, {})) = worktree
  <1>1. \A f \in File : f \in Deletes(Status({}, {})) => worktree[f] = NoFile
    BY DeletesAreGone
  <1> QED
    BY <1>1, WholeManifestRendersAll

LEMMA PayloadRendersAll ==
    ASSUME PayloadTypeOK, NEW renames \in SUBSET Pairs, NEW copies,
           PayloadAdmits(Status(renames, copies))
    PROVE  Applied(Status(renames, copies)) = worktree
  <1>1. \A f \in File : f \in Deletes(Status(renames, copies)) => worktree[f] = NoFile
    BY DeletesAreGone, BackAgain DEF PayloadAdmits
  <1> QED
    BY <1>1, WholeManifestRendersAll

-----------------------------------------------------------------------------
(* What is cut from a manifest that still parses is whole entries.         *)
LEMMA CutsOfWholeEntries ==
    ASSUME NEW full, NEW m \in Cuts(full), ~Truncated(m)
    PROVE  m \subseteq full
  <1>1. CASE m \in SUBSET full
    BY <1>1
  <1>2. ASSUME NEW e \in full, Paired(e), NEW kept \in SUBSET (full \ {e}),
               m = kept \cup {[e EXCEPT !.source = NoFile]}
        PROVE  FALSE
    <2> DEFINE c == [e EXCEPT !.source = NoFile]
    <2>1. c \in m
      BY <1>2
    <2>2. c.code = e.code
      OBVIOUS
    <2>3. c.source = NoFile
      OBVIOUS
    <2> QED
      BY <1>2, <2>1, <2>2, <2>3 DEF Truncated, Paired
  <1> DEFINE Halved(e) == {kept \cup {[e EXCEPT !.source = NoFile]} : kept \in SUBSET (full \ {e})}
             Pair == {x \in full : Paired(x)}
  <1>3. m \in SUBSET full \/ m \in UNION {Halved(e) : e \in Pair}
    BY DEF Cuts
  <1>4. m \in SUBSET full \/ \E e \in Pair : m \in Halved(e)
    <2> HIDE DEF Halved, Pair
    <2> QED
      BY <1>3
  <1> QED
    BY <1>1, <1>2, <1>4

(* The one move there is: git pairs its sides, so the manifest's entry of  *)
(* the new place, if it has one, names the old one.                        *)
LEMMA MoveTakesBoth ==
    ASSUME PayloadTypeOK, NEW renames \in SUBSET Pairs, NEW copies, Reported(renames, copies),
           NEW m, m \subseteq Status(renames, copies),
           NEW old \in File, NEW new \in File, Pairs = {<<old, new>>},
           Applied(m)[new] # NoFile
    PROVE  Applied(m)[old] = NoFile
  <1>1. renames = {<<old, new>>}
    BY DEF Reported
  <1>2. Staged(new) = {"A"}
    <2>1. <<old, new>> \in Pairs
      OBVIOUS
    <2> QED
      BY <2>1 DEF Pairs
  <1>3. head[new] = NoFile /\ index[new] # NoFile
    BY <1>2 DEF Staged
  <1>4. new \in Upserts(m)
    BY <1>3 DEF Applied
  <1>5. PICK e \in m : e.file = new /\ (Paired(e) \/ "D" \notin e.code)
    BY <1>4 DEF Upserts
  <1>6. e \in Status(renames, copies)
    BY <1>5
  <1>7. ~\E p \in copies : e.code = {"C"} \cup Unstaged(p[2]) /\ e.file = p[2]
    BY <1>1, <1>5 DEF Reported
  <1>8. ~\E f \in File : /\ e.code = Staged(f) \cup Unstaged(f) /\ e.file = f
                         /\ \A p \in renames : f \notin {p[1], p[2]}
    BY <1>1, <1>5
  <1>9. ~\E f \in File : e.code = {"?"} /\ e.file = f /\ Untracked(f)
    BY <1>3, <1>5 DEF Untracked
  <1>10. \E p \in renames : e.code = {"R"} \cup Unstaged(p[2]) /\ e.source = p[1]
    BY <1>6, <1>7, <1>8, <1>9, StatusForms
  <1>11. "R" \in e.code /\ e.source = old
    BY <1>1, <1>10
  <1>12. old \in Deletes(m)
    BY <1>5, <1>11 DEF Deletes
  <1> QED
    BY <1>12 DEF Applied

-----------------------------------------------------------------------------
LEMMA AppliedIsTree ==
    ASSUME PayloadTypeOK, NEW m
    PROVE  Applied(m) \in Tree3
  BY PayloadTrees DEF Applied, Tree3

(* What a commit leaves, whatever manifest it is made from.                *)
LEMMA CommitKeepsTypes ==
    ASSUME PayloadTypeOK, NEW m, NEW admitted \in BOOLEAN,
           NEW made \in {"checkout", "whole", "cut"}, CommitFrom(m, admitted, made)
    PROVE  /\ PayloadTypeOK'
           /\ commitPhase' = "published" =>
                ~Truncated(m) /\ admitted /\ CanCommit(m) /\ result' = Applied(m)
  <1>1. commitPhase' \in {"refused", "unchanged", "published"}
    BY DEF CommitFrom
  <1>2. result' \in Tree3
    BY AppliedIsTree, PayloadTrees DEF CommitFrom
  <1>3. PayloadTypeOK'
    BY <1>1, <1>2 DEF CommitFrom, PayloadTypeOK
  <1>4. commitPhase' = "published" =>
          ~Truncated(m) /\ admitted /\ CanCommit(m) /\ result' = Applied(m)
    BY DEF CommitFrom
  <1> QED
    BY <1>3, <1>4

LEMMA ConsumerCommitKeepsInv ==
    ASSUME PayloadInv, ConsumerCommit
    PROVE  PayloadInv'
  <1> DEFINE m == Status({}, {})
  <1>1. CommitFrom(m, TRUE, "checkout") /\ index = head /\ PayloadTypeOK
    BY DEF ConsumerCommit, PayloadInv
  <1>2. /\ PayloadTypeOK'
        /\ commitPhase' = "published" => result' = Applied(m)
    BY <1>1, CommitKeepsTypes
  <1>3. from' = "checkout" /\ UNCHANGED <<head, index, worktree, policy>>
    BY <1>1 DEF CommitFrom
  <1>4. Applied(m) = worktree
    BY <1>1, ConsumerRendersAll
  <1>5. Pairs' = {}
    <2>1. Pairs = {}
      BY <1>1 DEF Pairs, Staged
    <2>2. Pairs' = Pairs
      BY <1>3 DEF Pairs, Staged
    <2> QED
      BY <2>1, <2>2
  <1>6. PublishedAsRendered'
    BY <1>2, <1>3, <1>4, <1>5 DEF PublishedAsRendered, Moved
  <1>7. StaysAdmitted'
    BY <1>3 DEF StaysAdmitted
  <1> QED
    BY <1>2, <1>6, <1>7 DEF PayloadInv

(* An admitted manifest changes only what the policy lets it change.       *)
LEMMA AdmittedChanges ==
    ASSUME PayloadTypeOK, NEW m, PayloadAdmits(m), CanCommit(m),
           NEW f \in File, Applied(m)[f] # head[f]
    PROVE  /\ Admitted(f) /\ (f = Store => Applied(m)[f] = NoFile)
           /\ f \in Sensitive => f \in policy.granted /\ Applied(m)[f] # NoFile
  <1>1. CASE f \in Deletes(m)
    BY <1>1 DEF Applied, PayloadAdmits, DeleteAdmitted
  <1>2. CASE f \notin Deletes(m)
    <2>1. f \in Upserts(m) /\ Applied(m)[f] = worktree[f]
      BY <1>2 DEF Applied
    <2> QED
      BY <2>1 DEF PayloadAdmits, WriteAdmitted, CanCommit
  <1> QED
    BY <1>1, <1>2

LEMMA PayloadCommitKeepsInv ==
    ASSUME PayloadInv, PayloadCommit
    PROVE  PayloadInv'
  <1>1. PICK renames \in SUBSET Pairs, copies \in SUBSET Copies :
          /\ Reported(renames, copies)
          /\ \E m \in Cuts(Status(renames, copies)) :
               CommitFrom(m, PayloadAdmits(m),
                          IF m = Status(renames, copies) THEN "whole" ELSE "cut")
    BY DEF PayloadCommit
  <1> DEFINE full == Status(renames, copies)
  <1>2. PICK m \in Cuts(full) :
          CommitFrom(m, PayloadAdmits(m), IF m = full THEN "whole" ELSE "cut")
    BY <1>1
  <1>3. PayloadTypeOK /\ PayloadAdmits(m) \in BOOLEAN
    BY DEF PayloadInv, PayloadAdmits
  <1>4. /\ PayloadTypeOK'
        /\ commitPhase' = "published" =>
             ~Truncated(m) /\ PayloadAdmits(m) /\ CanCommit(m) /\ result' = Applied(m)
    <2> HIDE DEF full
    <2> QED
      BY <1>2, <1>3, CommitKeepsTypes
  <1>5. from' = (IF m = full THEN "whole" ELSE "cut") /\ UNCHANGED <<head, index, worktree, policy>>
    BY <1>2 DEF CommitFrom
  <1>6. Pairs' = Pairs
    BY <1>5 DEF Pairs, Staged
  <1>7. CASE commitPhase' = "published"
    <2>1. from' # "cut" => result' = worktree'
      BY <1>3, <1>4, <1>5, <1>7, PayloadRendersAll
    <2>2. m \subseteq full
      BY <1>4, <1>7, CutsOfWholeEntries
    <2>3. ASSUME NEW old \in File, NEW new \in File, Pairs = {<<old, new>>}, result'[new] # NoFile
          PROVE  result'[old] = NoFile
      BY <1>1, <1>3, <1>4, <1>7, <2>2, <2>3, MoveTakesBoth
    <2>4. PublishedAsRendered'
      BY <1>6, <2>1, <2>3 DEF PublishedAsRendered, Moved
    <2>5. \A f \in File : result'[f] # head[f] =>
            /\ Admitted(f) /\ (f = Store => result'[f] = NoFile)
            /\ f \in Sensitive => f \in policy.granted /\ result'[f] # NoFile
      BY <1>3, <1>4, <1>7, AdmittedChanges
    <2>6. StaysAdmitted'
      BY <1>5, <2>5 DEF StaysAdmitted, Admitted
    <2> QED
      BY <1>4, <2>4, <2>6 DEF PayloadInv
  <1>8. CASE commitPhase' # "published"
    BY <1>4, <1>8 DEF PayloadInv, PublishedAsRendered, StaysAdmitted
  <1> QED
    BY <1>7, <1>8

(* Before its commit a run has published nothing.                          *)
LEMMA WorkKeepsInv ==
    ASSUME PayloadInv, Start \/ Edit \/ Stage
    PROVE  PayloadInv'
  <1>1. commitPhase' = "render" /\ UNCHANGED <<result, from>>
    BY DEF Start, Edit, Stage
  <1>2. head' \in Tree3 /\ index' \in Tree3 /\ worktree' \in Tree3 /\ policy' \in PolicyType
    <2>1. CASE Start
      BY <2>1, PayloadAssumption DEF Start
    <2>2. CASE Edit
      <3>1. PICK f \in File, t \in Text \cup {NoFile} : worktree' = [worktree EXCEPT ![f] = t]
        BY <2>2 DEF Edit
      <3>2. worktree' \in Tree3
        BY <3>1, PayloadTrees DEF Tree3, PayloadInv
      <3> QED
        BY <2>2, <3>2, PayloadTrees DEF Edit, PayloadInv
    <2>3. CASE Stage
      <3>1. PICK f \in File : index' = [index EXCEPT ![f] = worktree[f]]
        BY <2>3 DEF Stage
      <3>2. index' \in Tree3
        BY <3>1, PayloadTrees DEF Tree3, PayloadInv
      <3> QED
        BY <2>3, <3>2, PayloadTrees DEF Stage, PayloadInv
    <2> QED
      BY <2>1, <2>2, <2>3
  <1>3. PayloadTypeOK'
    BY <1>1, <1>2 DEF PayloadInv, PayloadTypeOK
  <1> QED
    BY <1>1, <1>3 DEF PayloadInv, PublishedAsRendered, StaysAdmitted

LEMMA PayloadStepKeepsInv == PayloadInv /\ [PayloadNext]_payloadVars => PayloadInv'
  <1> SUFFICES ASSUME PayloadInv, [PayloadNext]_payloadVars PROVE PayloadInv'
    OBVIOUS
  <1>1. CASE UNCHANGED payloadVars
    BY <1>1 DEF PayloadInv, PayloadTypeOK, PublishedAsRendered, StaysAdmitted, Moved, Pairs,
       Staged, Admitted, payloadVars
  <1> QED
    BY <1>1, WorkKeepsInv, ConsumerCommitKeepsInv, PayloadCommitKeepsInv DEF PayloadNext

LEMMA PayloadInvariant == PayloadSpec => []PayloadInv
  <1>1. PayloadInit => PayloadInv
    BY EmptyTrees DEF PayloadInit, PayloadInv, PayloadTypeOK, PublishedAsRendered, StaysAdmitted
  <1>2. PayloadInv /\ [PayloadNext]_payloadVars => PayloadInv'
    BY PayloadStepKeepsInv
  <1> QED
    BY <1>1, <1>2, PTL DEF PayloadSpec

(* Git's three trees, the policy and the outcome keep their types.         *)
THEOREM PayloadTypeCorrect == PayloadSpec => []PayloadTypeOK
  <1>1. PayloadInv => PayloadTypeOK
    BY DEF PayloadInv
  <1> QED
    BY <1>1, PayloadInvariant, PTL

(* However the working tree was edited and staged, a commit made from a    *)
(* whole manifest is the tree that was rendered, and no manifest that was  *)
(* cut short publishes half of a move (parse_status_bytes).                *)
THEOREM CommitIsAsRendered == PayloadSpec => []PublishedAsRendered
  <1>1. PayloadInv => PublishedAsRendered
    BY DEF PayloadInv
  <1> QED
    BY <1>1, PayloadInvariant, PTL

(* A payload's commit differs from the base only where the consumer's      *)
(* config lets it (validate_payload_paths).                                *)
THEOREM CommitStaysAdmitted == PayloadSpec => []StaysAdmitted
  <1>1. PayloadInv => StaysAdmitted
    BY DEF PayloadInv
  <1> QED
    BY <1>1, PayloadInvariant, PTL

-----------------------------------------------------------------------------
(* The checks of a release.  What a check knows at a step is what its      *)
(* earlier commands read and nobody can have changed since: the registry's *)
(* version never changes, and the remote's tag only by force.              *)

(* The registry has one version at most, and provenance of ours was made   *)
(* by the workflow, from the commit that was published.                    *)
RegistryIsHonest ==
    /\ registry.tarball = 0 => registry = Unpublished
    /\ \A b \in registry.bundles : b.ours => b.commit = b.tarball

(* A tag the remote has had stays, unless a forced push takes it away.     *)
HeldByRemote(t) == t = remoteTag \/ t \in replaced

AtTag == {"type", "signer", "target", "object"}

PreflightKnows ==
    /\ preflight # NoTag => HeldByRemote(preflight)
    /\ checker.step \in AtTag /\ checker.phase # "none"
         => checker.tag = NoTag \/ HeldByRemote(checker.tag)
    /\ checker.step \in {"local", "remote"} => checker.phase # "none"
    /\ checker.step \in AtTag \ {"type"} => localTag # NoTag
    /\ checker.step \in {"absent", "digest"} /\ checker.phase = "publish"
         => checker.tag # NoTag /\ HeldByRemote(checker.tag)
    /\ At("digest") => report = NoCheck

(* The steps of a verification, and the later ones of them.                *)
Verifying(c) == c.step \in {"registry", "audit", "match"} \/ (c.step \in AtTag /\ c.phase = "none")
Audited(c) == c.step = "match" \/ (c.step \in AtTag /\ c.phase = "none")

VerifyKnows ==
    /\ checker.step \in {"registry", "audit"} => checker.phase = "none"
    /\ Verifying(checker)
         => checker.tarball \in Commit /\ checker.provenance \in {"required", "unavailable"}
    /\ Verifying(checker) /\ ~At("registry") => registry.tarball = checker.tarball
    /\ Audited(checker) => ProvenanceFits(checker)
    /\ At("target") => checker.retagged \/ localTag.kind = "signed"
    /\ At("object") => checker.retagged \/ Signed(localTag, checker.commit)
    /\ At("match") => /\ checker.tag # NoTag
                      /\ checker.retagged \/ Signed(checker.tag, checker.commit)

ReportIsOfPublished == report # NoCheck => report.tarball \in Commit

ReleaseInv ==
    /\ ReleaseTypeOK /\ RegistryIsHonest /\ PreflightKnows /\ VerifyKnows
    /\ ReportIsOfPublished /\ VerifiedIsTheRelease

-----------------------------------------------------------------------------
(* The tags and the empty tag are records of one shape.                    *)
LEMMA Constants ==
    /\ NoTag \in Tags \cup {NoTag} /\ NoTag \notin Tags
    /\ NoCheck \in CheckType /\ NoCheck.step = "none"
    /\ NoCheck.retagged = FALSE
  BY DEF NoTag, Tags, NoCheck, CheckType

LEMMA ReleaseInitInv == ReleaseInit => ReleaseInv
  <1> SUFFICES ASSUME ReleaseInit PROVE ReleaseInv
    OBVIOUS
  <1>1. ReleaseTypeOK
    BY ReleaseAssumption, Constants DEF ReleaseInit, ReleaseTypeOK, Unpublished, Bundle
  <1>2. RegistryIsHonest
    BY DEF ReleaseInit, RegistryIsHonest, Unpublished
  <1>3. PreflightKnows /\ VerifyKnows
    BY DEF ReleaseInit, PreflightKnows, VerifyKnows, Verifying, Audited, AtTag, At, NoCheck
  <1> QED
    BY <1>1, <1>2, <1>3 DEF ReleaseInv, ReleaseInit, ReportIsOfPublished, VerifiedIsTheRelease

(* A published version is in the registry for good.                        *)
LEMMA PublishedIsFinal ==
    ASSUME ReleaseTypeOK, RegistryIsHonest
    PROVE  /\ registry.tarball \in Commit => registry # Unpublished
           /\ registry # Unpublished => registry.tarball \in Commit
  BY ReleaseAssumption DEF ReleaseTypeOK, RegistryIsHonest, Unpublished

-----------------------------------------------------------------------------
(* The checker ends, and reports nothing new.                              *)
LEMMA RefuseKeepsInv ==
    ASSUME ReleaseInv, Refuse, UNCHANGED Outside
    PROVE  ReleaseInv'
  <1> USE DEF Refuse, Outside
  <1>1. ReleaseTypeOK' /\ RegistryIsHonest'
    BY Constants DEF ReleaseInv, ReleaseTypeOK, RegistryIsHonest
  <1>2. PreflightKnows' /\ VerifyKnows'
    BY Constants DEF ReleaseInv, PreflightKnows, VerifyKnows, Verifying, Audited, AtTag,
                     HeldByRemote, At
  <1> QED
    BY <1>1, <1>2 DEF ReleaseInv, ReportIsOfPublished, VerifiedIsTheRelease

(* It reads on, to a state c in which what it knows is true.               *)
CheckKnows(c) ==
    /\ c.step \in AtTag /\ c.phase # "none" => c.tag = NoTag \/ HeldByRemote(c.tag)
    /\ c.step \in {"local", "remote"} => c.phase # "none"
    /\ c.step \in AtTag \ {"type"} => localTag # NoTag
    /\ c.step \in {"absent", "digest"} /\ c.phase = "publish"
         => c.tag # NoTag /\ HeldByRemote(c.tag)
    /\ c.step = "digest" => report = NoCheck
    /\ c.step \in {"registry", "audit"} => c.phase = "none"
    /\ Verifying(c) => c.tarball \in Commit /\ c.provenance \in {"required", "unavailable"}
    /\ Verifying(c) /\ c.step # "registry" => registry.tarball = c.tarball
    /\ Audited(c) => ProvenanceFits(c)
    /\ c.step = "target" => c.retagged \/ localTag.kind = "signed"
    /\ c.step = "object" => c.retagged \/ Signed(localTag, c.commit)
    /\ c.step = "match" => c.tag # NoTag /\ (c.retagged \/ Signed(c.tag, c.commit))

LEMMA CheckerKnows == ReleaseInv => CheckKnows(checker)
  BY DEF ReleaseInv, PreflightKnows, VerifyKnows, CheckKnows, At

LEMMA CommandKeepsInv ==
    ASSUME ReleaseInv, NEW c \in CheckType, CheckKnows(c), checker' = c,
           UNCHANGED <<preflight, report>>, UNCHANGED Outside
    PROVE  ReleaseInv'
  <1> USE DEF Outside
  <1>1. ReleaseTypeOK' /\ RegistryIsHonest'
    BY DEF ReleaseInv, ReleaseTypeOK, RegistryIsHonest
  <1>2. PreflightKnows'
    BY DEF ReleaseInv, PreflightKnows, CheckKnows, HeldByRemote, At
  <1>3. VerifyKnows'
    BY DEF VerifyKnows, CheckKnows, Verifying, Audited, ProvenanceFits, Signed, At
  <1> QED
    BY <1>1, <1>2, <1>3 DEF ReleaseInv, ReportIsOfPublished, VerifiedIsTheRelease

(* So does a command that goes on or refuses.                              *)
LEMMA GoOnKeepsInv ==
    ASSUME ReleaseInv, NEW fits \in BOOLEAN, NEW c \in CheckType,
           fits => CheckKnows(c), GoOn(fits, c)
    PROVE  ReleaseInv'
  BY CommandKeepsInv, RefuseKeepsInv DEF GoOn

LEMMA BeginKeepsInv ==
    ASSUME ReleaseInv,
           \/ \E p \in Phases, c \in Commit : BeginPreflight(p, c)
           \/ \E c \in Commit, p \in {"required", "unavailable"} : BeginVerify(c, p)
    PROVE  ReleaseInv'
  <1> USE DEF Verifying, Audited, AtTag
  <1>1. ASSUME NEW p \in Phases, NEW c \in Commit, BeginPreflight(p, c)
        PROVE  ReleaseInv'
    <2> DEFINE d == [NoCheck EXCEPT !.step = "local", !.phase = p, !.commit = c]
    <2>1. d \in CheckType /\ d.step = "local" /\ d.phase # "none"
      BY Constants DEF CheckType, NoCheck, Phases
    <2>2. checker' = d
      BY <1>1 DEF BeginPreflight
    <2> HIDE DEF d
    <2>3. CheckKnows(d)
      BY <2>1 DEF CheckKnows
    <2> QED
      BY <1>1, <2>1, <2>2, <2>3, CommandKeepsInv DEF BeginPreflight
  <1>2. ASSUME NEW p \in {"required", "unavailable"}, NEW c \in Commit, BeginVerify(c, p)
        PROVE  ReleaseInv'
    <2> DEFINE d == [NoCheck EXCEPT !.step = "registry", !.commit = c,
                                    !.tarball = tarball, !.provenance = p]
    <2>1. /\ d \in CheckType /\ d.step = "registry" /\ d.phase = "none" /\ d.provenance = p
          /\ d.tarball \in Commit
      BY Constants DEF CheckType, NoCheck, ReleaseInv, ReleaseTypeOK
    <2>2. checker' = d
      BY <1>2 DEF BeginVerify
    <2> HIDE DEF d
    <2>3. CheckKnows(d)
      BY <2>1 DEF CheckKnows
    <2> QED
      BY <1>2, <2>1, <2>2, <2>3, CommandKeepsInv DEF BeginVerify
  <1> QED
    BY <1>1, <1>2

-----------------------------------------------------------------------------
(* A command that moves the check to a step, with the tag it read: only    *)
(* step and tag change, so what is known of the rest is known still.       *)
OnTo(step, tag) == [checker EXCEPT !.step = step, !.tag = tag]

LEMMA OnToFacts ==
    ASSUME ReleaseInv, NEW step \in {"remote", "type", "signer", "target", "object",
                                    "absent", "digest", "audit", "match"},
           NEW tag \in Tags \cup {NoTag}
    PROVE  LET c == OnTo(step, tag) IN
             /\ c \in CheckType /\ c.step = step /\ c.tag = tag /\ c.phase = checker.phase
             /\ c.tarball = checker.tarball /\ c.provenance = checker.provenance
             /\ c.commit = checker.commit /\ c.retagged = checker.retagged
             /\ ProvenanceFits(c) = ProvenanceFits(checker)
  <1> DEFINE c == OnTo(step, tag)
  <1>1. /\ c \in CheckType /\ c.step = step /\ c.tag = tag /\ c.phase = checker.phase
        /\ c.tarball = checker.tarball /\ c.provenance = checker.provenance
        /\ c.commit = checker.commit /\ c.retagged = checker.retagged
    <2>1. checker \in CheckType
      BY DEF ReleaseInv, ReleaseTypeOK
    <2>2. /\ c.step = step /\ c.tag = tag /\ c.phase = checker.phase
          /\ c.tarball = checker.tarball /\ c.provenance = checker.provenance
          /\ c.commit = checker.commit /\ c.retagged = checker.retagged
      BY <2>1 DEF OnTo, CheckType
    <2>3. c \in CheckType
      BY <2>1 DEF OnTo, CheckType
    <2> QED
      BY <2>2, <2>3
  <1> HIDE DEF c
  <1>2. ProvenanceFits(c) = ProvenanceFits(checker)
    BY <1>1 DEF ProvenanceFits, Binds
  <1> QED
    BY <1>1, <1>2 DEF c

LEMMA TagsTyped ==
    ASSUME ReleaseInv
    PROVE  /\ checker.tag \in Tags \cup {NoTag} /\ remoteTag \in Tags \cup {NoTag}
           /\ localTag \in Tags \cup {NoTag}
  BY DEF ReleaseInv, ReleaseTypeOK, CheckType

LEMMA SameTag ==
    ASSUME ReleaseInv, NEW step
    PROVE  [checker EXCEPT !.step = step] = OnTo(step, checker.tag)
  BY DEF ReleaseInv, ReleaseTypeOK, CheckType, OnTo

LEMMA FindLocalTagKeepsInv ==
    ASSUME ReleaseInv, FindLocalTag
    PROVE  ReleaseInv'
  <1> DEFINE c == OnTo("remote", checker.tag)
             fits == (localTag = NoTag) = (checker.phase = "prepare")
  <1>1. GoOn(fits, c) /\ checker.step = "local" /\ checker.phase # "none"
    BY SameTag, CheckerKnows DEF FindLocalTag, At, CheckKnows
  <1>2. c \in CheckType /\ c.step = "remote" /\ c.phase = checker.phase
    BY TagsTyped, OnToFacts
  <1> HIDE DEF c
  <1>3. fits => CheckKnows(c)
    BY <1>1, <1>2 DEF CheckKnows, Verifying, Audited, AtTag
  <1> QED
    BY <1>1, <1>2, <1>3, GoOnKeepsInv

LEMMA ReadRemoteTagKeepsInv ==
    ASSUME ReleaseInv, ReadRemoteTag
    PROVE  ReleaseInv'
  <1>1. checker.step = "remote" /\ CheckKnows(checker)
    BY CheckerKnows DEF ReadRemoteTag, At
  <1>2. CASE checker.phase = "prepare"
    <2> DEFINE c == OnTo("absent", checker.tag)
               fits == remoteTag = NoTag
    <2>1. GoOn(fits, c) /\ c \in CheckType /\ c.step = "absent" /\ c.phase = "prepare"
      BY <1>2, TagsTyped, SameTag, OnToFacts DEF ReadRemoteTag
    <2> HIDE DEF c
    <2>2. fits => CheckKnows(c)
      BY <2>1 DEF CheckKnows, Verifying, Audited, AtTag
    <2> QED
      BY <2>1, <2>2, GoOnKeepsInv
  <1>3. CASE checker.phase # "prepare"
    <2> DEFINE c == OnTo("type", remoteTag)
    <2>1. GoOn(TRUE, c)
      BY <1>3 DEF ReadRemoteTag, OnTo
    <2>2. c \in CheckType /\ c.step = "type" /\ c.phase = checker.phase /\ c.tag = remoteTag
      BY TagsTyped, OnToFacts
    <2> HIDE DEF c
    <2>3. CheckKnows(c)
      BY <1>1, <1>3, <2>2 DEF CheckKnows, Verifying, Audited, AtTag, HeldByRemote
    <2> QED
      BY <2>1, <2>2, <2>3, GoOnKeepsInv
  <1> QED
    BY <1>2, <1>3

(* While the registry has nothing, no verification has passed.             *)
LEMMA CheckAbsentKeepsInv ==
    ASSUME ReleaseInv, CheckAbsent
    PROVE  ReleaseInv'
  <1> DEFINE c == OnTo("digest", checker.tag)
             fits == registry = Unpublished
  <1>1. GoOn(fits, c) /\ checker.step = "absent" /\ CheckKnows(checker)
    BY SameTag, CheckerKnows DEF CheckAbsent, At
  <1>2. c \in CheckType /\ c.step = "digest" /\ c.tag = checker.tag /\ c.phase = checker.phase
    BY TagsTyped, OnToFacts
  <1>3. fits => report = NoCheck
    BY PublishedIsFinal DEF ReleaseInv, ReportIsOfPublished, VerifiedIsTheRelease
  <1> HIDE DEF c
  <1>4. fits => CheckKnows(c)
    BY <1>1, <1>2, <1>3 DEF CheckKnows, Verifying, Audited, AtTag
  <1> QED
    BY <1>1, <1>2, <1>4, GoOnKeepsInv

LEMMA ReportPreflightKeepsInv ==
    ASSUME ReleaseInv, ReportPreflight
    PROVE  ReleaseInv'
  <1> USE DEF ReportPreflight, Outside
  <1>1. report = NoCheck
    BY DEF ReleaseInv, PreflightKnows
  <1>2. preflight' # NoTag => HeldByRemote(preflight')
    BY DEF ReleaseInv, PreflightKnows, At
  <1>3. ReleaseTypeOK' /\ RegistryIsHonest'
    BY Constants DEF ReleaseInv, ReleaseTypeOK, CheckType, RegistryIsHonest
  <1>4. PreflightKnows' /\ VerifyKnows'
    BY <1>2, Constants DEF PreflightKnows, VerifyKnows, Verifying, Audited, AtTag, HeldByRemote, At
  <1> QED
    BY <1>1, <1>3, <1>4 DEF ReleaseInv, ReportIsOfPublished, VerifiedIsTheRelease

-----------------------------------------------------------------------------
(* The tag, in both checks: what was read of it holds of the local tag, or *)
(* this was replaced since its signer was read.                            *)
LEMMA ReadTagTypeKeepsInv ==
    ASSUME ReleaseInv, ReadTagType
    PROVE  ReleaseInv'
  <1> DEFINE c == OnTo("signer", checker.tag)
             fits == localTag.kind \in {"annotated", "signed"}
  <1>1. GoOn(fits, c) /\ checker.step = "type" /\ CheckKnows(checker)
    BY SameTag, CheckerKnows DEF ReadTagType, At
  <1>2. /\ c \in CheckType /\ c.step = "signer" /\ c.tag = checker.tag /\ c.phase = checker.phase
        /\ c.tarball = checker.tarball /\ c.provenance = checker.provenance
        /\ ProvenanceFits(c) = ProvenanceFits(checker)
    BY TagsTyped, OnToFacts
  <1> HIDE DEF c
  <1>3. fits => CheckKnows(c)
    BY <1>1, <1>2 DEF CheckKnows, Verifying, Audited, AtTag, NoTag
  <1>4. fits \in BOOLEAN
    OBVIOUS
  <1> HIDE DEF fits
  <1> QED
    BY <1>1, <1>2, <1>3, <1>4, GoOnKeepsInv

LEMMA VerifyTagSignerKeepsInv ==
    ASSUME ReleaseInv, VerifyTagSigner
    PROVE  ReleaseInv'
  <1> DEFINE c == OnTo("target", checker.tag)
             fits == (localTag.kind = "signed")
  <1>1. GoOn(fits, c) /\ checker.step = "signer" /\ CheckKnows(checker)
    BY SameTag, CheckerKnows DEF VerifyTagSigner, At
  <1>2. /\ c \in CheckType /\ c.step = "target" /\ c.tag = checker.tag /\ c.phase = checker.phase
        /\ c.tarball = checker.tarball /\ c.provenance = checker.provenance
        /\ ProvenanceFits(c) = ProvenanceFits(checker)
    BY TagsTyped, OnToFacts
  <1> HIDE DEF c
  <1>3. fits => CheckKnows(c)
    BY <1>1, <1>2 DEF CheckKnows, Verifying, Audited, AtTag
  <1> QED
    BY <1>1, <1>2, <1>3, GoOnKeepsInv

LEMMA ReadTagTargetKeepsInv ==
    ASSUME ReleaseInv, ReadTagTarget
    PROVE  ReleaseInv'
  <1> DEFINE c == OnTo("object", checker.tag)
             fits == localTag.target = checker.commit
  <1>1. GoOn(fits, c) /\ checker.step = "target" /\ CheckKnows(checker)
    BY SameTag, CheckerKnows DEF ReadTagTarget, At
  <1>2. /\ c \in CheckType /\ c.step = "object" /\ c.tag = checker.tag /\ c.phase = checker.phase
        /\ c.tarball = checker.tarball /\ c.provenance = checker.provenance
        /\ c.commit = checker.commit /\ c.retagged = checker.retagged
        /\ ProvenanceFits(c) = ProvenanceFits(checker)
    BY TagsTyped, OnToFacts
  <1> HIDE DEF c
  <1>3. fits => CheckKnows(c)
    BY <1>1, <1>2 DEF CheckKnows, Verifying, Audited, AtTag, Signed
  <1> QED
    BY <1>1, <1>2, <1>3, GoOnKeepsInv

(* In "publish" the object is the one the remote had.                      *)
LEMMA ReadTagObjectKeepsInv ==
    ASSUME ReleaseInv, ReadTagObject
    PROVE  ReleaseInv'
  <1> DEFINE next == IF checker.phase = "none" THEN "match" ELSE "absent"
             c == OnTo(next, localTag)
             fits == ObjectFits(checker.phase, checker.tag)
  <1>1. GoOn(fits, c) /\ checker.step = "object" /\ CheckKnows(checker)
    BY CheckerKnows DEF ReadTagObject, At, OnTo
  <1>2. /\ c \in CheckType /\ c.step = next /\ c.tag = localTag /\ c.phase = checker.phase
        /\ c.tarball = checker.tarball /\ c.provenance = checker.provenance
        /\ c.commit = checker.commit /\ c.retagged = checker.retagged
        /\ ProvenanceFits(c) = ProvenanceFits(checker)
    BY TagsTyped, OnToFacts
  <1>3. fits \in BOOLEAN /\ (checker.phase = "publish" /\ fits => checker.tag = localTag)
    BY DEF ObjectFits
  <1> HIDE DEF c, fits
  <1>4. fits => CheckKnows(c)
    <2>1. CASE checker.phase = "none"
      BY <2>1, <1>1, <1>2 DEF CheckKnows, Verifying, Audited, AtTag
    <2>2. CASE checker.phase # "none"
      BY <2>2, <1>1, <1>2, <1>3 DEF CheckKnows, Verifying, Audited, AtTag
    <2> QED
      BY <2>1, <2>2
  <1> QED
    BY <1>1, <1>2, <1>3, <1>4, GoOnKeepsInv

-----------------------------------------------------------------------------
(* The verification.                                                       *)
LEMMA CompareRegistryKeepsInv ==
    ASSUME ReleaseInv, CompareRegistry
    PROVE  ReleaseInv'
  <1> DEFINE c == OnTo("audit", checker.tag)
             fits == registry.tarball = checker.tarball
  <1>1. GoOn(fits, c) /\ checker.step = "registry" /\ CheckKnows(checker)
    BY SameTag, CheckerKnows DEF CompareRegistry, At
  <1>2. /\ c \in CheckType /\ c.step = "audit" /\ c.phase = checker.phase
        /\ c.tarball = checker.tarball /\ c.provenance = checker.provenance
    BY TagsTyped, OnToFacts
  <1> HIDE DEF c
  <1>3. fits => CheckKnows(c)
    BY <1>1, <1>2 DEF CheckKnows, Verifying, Audited, AtTag
  <1> QED
    BY <1>1, <1>2, <1>3, GoOnKeepsInv

LEMMA AuditKeepsInv ==
    ASSUME ReleaseInv, Audit
    PROVE  ReleaseInv'
  <1> DEFINE c == OnTo("type", checker.tag)
             fits == ProvenanceFits(checker)
  <1>1. GoOn(fits, c) /\ checker.step = "audit" /\ CheckKnows(checker)
    BY SameTag, CheckerKnows DEF Audit, At
  <1>2. /\ c \in CheckType /\ c.step = "type" /\ c.phase = checker.phase
        /\ c.tarball = checker.tarball /\ c.provenance = checker.provenance
        /\ ProvenanceFits(c) = ProvenanceFits(checker)
    BY TagsTyped, OnToFacts
  <1>3. fits \in BOOLEAN
    BY DEF ProvenanceFits
  <1> HIDE DEF c
  <1>4. fits => CheckKnows(c)
    BY <1>1, <1>2 DEF CheckKnows, Verifying, Audited, AtTag
  <1> QED
    BY <1>1, <1>2, <1>3, <1>4, GoOnKeepsInv

(* The report: the version is the registry's and bound to the commit, and  *)
(* the tag is the remote's, so the one a preflight had found there.        *)
LEMMA ReportVerifiedKeepsInv ==
    ASSUME ReleaseInv, ReportVerified
    PROVE  ReleaseInv'
  <1> USE DEF Outside
  <1>1. CASE ~RemoteMatches(checker.tag)
    BY <1>1, RefuseKeepsInv DEF ReportVerified, Refuse
  <1>2. CASE RemoteMatches(checker.tag)
    <2> DEFINE r == [checker EXCEPT !.step = "passed"]
    <2>1. /\ report' = r /\ checker' = NoCheck /\ checker.step = "match"
          /\ UNCHANGED <<Outside, preflight>>
      BY <1>2 DEF ReportVerified, At
    <2>2. /\ r \in CheckType /\ r.tag = checker.tag /\ r.tarball = checker.tarball
          /\ r.commit = checker.commit /\ r.provenance = checker.provenance
          /\ r.retagged = checker.retagged
      BY DEF ReleaseInv, ReleaseTypeOK, CheckType
    <2> HIDE DEF r
    <2>3. ReleaseTypeOK' /\ RegistryIsHonest'
      BY <2>1, <2>2, Constants DEF ReleaseInv, ReleaseTypeOK, RegistryIsHonest
    <2>4. PreflightKnows' /\ VerifyKnows'
      BY <2>1, Constants DEF ReleaseInv, PreflightKnows, VerifyKnows, Verifying, Audited, AtTag,
                             HeldByRemote, At
    <2>5. ReportIsOfPublished' /\ registry'.tarball = r.tarball
      BY <2>1, <2>2, CheckerKnows DEF CheckKnows, Verifying, ReportIsOfPublished
    <2>6. /\ r.provenance = "required" => r.tarball = r.commit
          /\ r.provenance = "unavailable" => registry.bundles = {}
      BY <2>1, <2>2, CheckerKnows DEF CheckKnows, Verifying, Audited, ProvenanceFits, Binds,
                                            ReleaseInv, RegistryIsHonest
    <2>7. r.tag # NoTag /\ (r.retagged \/ Signed(r.tag, r.commit))
      BY <2>1, <2>2, CheckerKnows DEF CheckKnows
    <2>8. r.tag = remoteTag /\ preflight \in {NoTag, r.tag} \cup replaced
      BY <1>2, <2>2 DEF ReleaseInv, PreflightKnows, HeldByRemote, RemoteMatches
    <2>9. VerifiedIsTheRelease'
      BY <2>1, <2>5, <2>6, <2>7, <2>8 DEF VerifiedIsTheRelease, Signed
    <2> QED
      BY <2>3, <2>4, <2>5, <2>9 DEF ReleaseInv
  <1> QED
    BY <1>1, <1>2

-----------------------------------------------------------------------------
(* The others.                                                             *)
LEMMA BuildKeepsInv ==
    ASSUME ReleaseInv, Build
    PROVE  ReleaseInv'
  <1> USE DEF Build, Meanwhile
  <1>1. ReleaseTypeOK' /\ RegistryIsHonest'
    BY DEF ReleaseInv, ReleaseTypeOK, RegistryIsHonest
  <1>2. PreflightKnows' /\ VerifyKnows'
    BY DEF ReleaseInv, PreflightKnows, VerifyKnows, Verifying, Audited, HeldByRemote,
           ProvenanceFits, At
  <1> QED
    BY <1>1, <1>2 DEF ReleaseInv, ReportIsOfPublished, VerifiedIsTheRelease

(* A local tag that is replaced after its signer was read is noted; before *)
(* that, a check knows of it only that it is there.                        *)
LEMMA TagHereKeepsInv ==
    ASSUME ReleaseInv, TagHere
    PROVE  ReleaseInv'
  <1> DEFINE c == IF checker.step \in {"target", "object"}
                  THEN [checker EXCEPT !.retagged = TRUE] ELSE checker
  <1>1. /\ checker' = c /\ UNCHANGED <<tarball, remoteTag, registry, replaced>>
        /\ UNCHANGED <<preflight, report>> /\ localTag' \in Tags
    BY DEF TagHere, Meanwhile
  <1>2. /\ c \in CheckType /\ c.step = checker.step /\ c.phase = checker.phase
        /\ c.tag = checker.tag /\ c.tarball = checker.tarball /\ c.commit = checker.commit
        /\ c.provenance = checker.provenance /\ (checker.retagged => c.retagged)
        /\ checker.step \in {"target", "object"} => c.retagged
    BY DEF ReleaseInv, ReleaseTypeOK, CheckType
  <1> HIDE DEF c
  <1>3. ReleaseTypeOK' /\ RegistryIsHonest'
    BY <1>1, <1>2 DEF ReleaseInv, ReleaseTypeOK, RegistryIsHonest
  <1>4. PreflightKnows'
    BY <1>1, <1>2, Constants DEF ReleaseInv, PreflightKnows, HeldByRemote, At
  <1>5. VerifyKnows'
    BY <1>1, <1>2 DEF ReleaseInv, VerifyKnows, Verifying, Audited, ProvenanceFits, Binds, Signed, At
  <1> QED
    BY <1>1, <1>3, <1>4, <1>5 DEF ReleaseInv, ReportIsOfPublished, VerifiedIsTheRelease

(* A tag that the remote held is still its tag, or was replaced.           *)
LEMMA PushTagKeepsInv ==
    ASSUME ReleaseInv, PushTag
    PROVE  ReleaseInv'
  <1> USE DEF PushTag, Meanwhile
  <1>1. ReleaseTypeOK' /\ RegistryIsHonest'
    BY DEF ReleaseInv, ReleaseTypeOK, RegistryIsHonest
  <1>2. \A t : t # NoTag /\ HeldByRemote(t) => t = remoteTag' \/ t \in replaced'
    BY DEF HeldByRemote
  <1>3. PreflightKnows'
    BY <1>2 DEF ReleaseInv, PreflightKnows, HeldByRemote, At
  <1>4. VerifyKnows'
    BY DEF ReleaseInv, VerifyKnows, Verifying, Audited, ProvenanceFits, At
  <1>5. ReportIsOfPublished' /\ VerifiedIsTheRelease'
    <2> SUFFICES ASSUME report # NoCheck
                 PROVE  /\ report.tag = remoteTag' \/ report.tag \in replaced'
                        /\ preflight \in {NoTag, report.tag} \cup replaced'
      BY DEF ReleaseInv, ReportIsOfPublished, VerifiedIsTheRelease
    <2>1. HeldByRemote(report.tag) /\ report.tag # NoTag
      BY Constants DEF ReleaseInv, ReleaseTypeOK, VerifiedIsTheRelease, HeldByRemote
    <2> QED
      BY <1>2, <2>1 DEF ReleaseInv, VerifiedIsTheRelease
  <1> QED
    BY <1>1, <1>3, <1>4, <1>5 DEF ReleaseInv

(* Only a version that is not there yet can be published, and no check     *)
(* that has seen one is running.                                           *)
LEMMA PublishKeepsInv ==
    ASSUME ReleaseInv, Publish
    PROVE  ReleaseInv'
  <1>1. /\ registry = Unpublished
        /\ UNCHANGED <<tarball, localTag, remoteTag, checker, replaced, preflight, report>>
    BY DEF Publish, Meanwhile
  <1>2. /\ registry'.tarball \in Commit /\ registry'.bundles \subseteq Bundle
        /\ \A b \in registry'.bundles : b.ours => b.commit = b.tarball
    <2>1. PICK S \in SUBSET Commit :
            \/ /\ remoteTag # NoTag
               /\ registry' = [tarball |-> remoteTag.target, bundles |->
                                 {OfWorkflow(remoteTag.target)} \cup Others(remoteTag.target, S)]
            \/ registry' = [tarball |-> tarball, bundles |-> Others(tarball, S)]
      BY DEF Publish
    <2>2. \A t \in Commit : OfWorkflow(t) \in Bundle /\ OfWorkflow(t).commit = OfWorkflow(t).tarball
      BY DEF OfWorkflow, Bundle
    <2>4. ASSUME NEW t \in Commit, NEW b \in Others(t, S) PROVE b \in Bundle /\ ~b.ours
      <3>1. PICK c \in S : b = [tarball |-> t, commit |-> c, ours |-> FALSE]
        BY <2>4 DEF Others
      <3> QED
        BY <3>1 DEF Bundle
    <2>3. tarball \in Commit /\ (remoteTag # NoTag => remoteTag.target \in Commit)
      BY DEF ReleaseInv, ReleaseTypeOK, Tags
    <2>5. ASSUME NEW t \in Commit, NEW B \in SUBSET {OfWorkflow(t)},
                 registry' = [tarball |-> t, bundles |-> B \cup Others(t, S)]
          PROVE  /\ registry'.tarball \in Commit /\ registry'.bundles \subseteq Bundle
                 /\ \A b \in registry'.bundles : b.ours => b.commit = b.tarball
      BY <2>2, <2>4, <2>5
    <2>6. CASE registry' = [tarball |-> tarball, bundles |-> Others(tarball, S)]
      <3>1. {} \cup Others(tarball, S) = Others(tarball, S) /\ {} \in SUBSET {OfWorkflow(tarball)}
        OBVIOUS
      <3> QED
        BY <2>3, <2>5, <2>6, <3>1
    <2>7. CASE ~(registry' = [tarball |-> tarball, bundles |-> Others(tarball, S)])
      <3>1. {OfWorkflow(remoteTag.target)} \in SUBSET {OfWorkflow(remoteTag.target)}
        OBVIOUS
      <3> QED
        BY <2>1, <2>3, <2>5, <2>7, <3>1
    <2> QED
      BY <2>6, <2>7
  <1>3. ReleaseTypeOK'
    BY <1>1, <1>2 DEF ReleaseInv, ReleaseTypeOK
  <1>4. RegistryIsHonest'
    BY <1>2, ReleaseAssumption DEF RegistryIsHonest
  <1>5. (Verifying(checker) => checker.step = "registry") /\ report = NoCheck
    BY <1>1, PublishedIsFinal, CheckerKnows
       DEF ReleaseInv, CheckKnows, ReportIsOfPublished, VerifiedIsTheRelease
  <1>6. PreflightKnows' /\ VerifyKnows'
    BY <1>1, <1>5 DEF ReleaseInv, PreflightKnows, VerifyKnows, Verifying, Audited, AtTag,
                      HeldByRemote, At
  <1> QED
    BY <1>1, <1>3, <1>4, <1>5, <1>6 DEF ReleaseInv, ReportIsOfPublished, VerifiedIsTheRelease

LEMMA CheckStutters ==
    ASSUME ReleaseInv, UNCHANGED releaseVars
    PROVE  ReleaseInv'
  <1> USE DEF releaseVars
  <1>1. ReleaseTypeOK' /\ RegistryIsHonest'
    BY DEF ReleaseInv, ReleaseTypeOK, RegistryIsHonest
  <1>2. PreflightKnows' /\ VerifyKnows'
    BY DEF ReleaseInv, PreflightKnows, VerifyKnows, Verifying, Audited, HeldByRemote,
           ProvenanceFits, At
  <1> QED
    BY <1>1, <1>2 DEF ReleaseInv, ReportIsOfPublished, VerifiedIsTheRelease

LEMMA ReleaseStepKeepsInv == ReleaseInv /\ [ReleaseNext]_releaseVars => ReleaseInv'
  <1> SUFFICES ASSUME ReleaseInv, [ReleaseNext]_releaseVars PROVE ReleaseInv'
    OBVIOUS
  <1>1. CASE CheckerStep
    BY <1>1, BeginKeepsInv, FindLocalTagKeepsInv, ReadRemoteTagKeepsInv, CheckAbsentKeepsInv,
       ReportPreflightKeepsInv, ReadTagTypeKeepsInv, VerifyTagSignerKeepsInv,
       ReadTagTargetKeepsInv, ReadTagObjectKeepsInv, CompareRegistryKeepsInv, AuditKeepsInv,
       ReportVerifiedKeepsInv DEF CheckerStep
  <1>2. CASE Build \/ TagHere \/ PushTag \/ Publish
    BY <1>2, BuildKeepsInv, TagHereKeepsInv, PushTagKeepsInv, PublishKeepsInv
  <1>3. CASE UNCHANGED releaseVars
    BY <1>3, CheckStutters
  <1> QED
    BY <1>1, <1>2, <1>3 DEF ReleaseNext

-----------------------------------------------------------------------------
LEMMA ReleaseInvariant == ReleaseSpec => []ReleaseInv
  <1>1. ReleaseInit => ReleaseInv
    BY ReleaseInitInv
  <1>2. ReleaseInv /\ [ReleaseNext]_releaseVars => ReleaseInv'
    BY ReleaseStepKeepsInv
  <1> QED
    BY <1>1, <1>2, PTL DEF ReleaseSpec

(* The artifact, the tags, the registry and the checks keep their types.   *)
THEOREM ReleaseTypeCorrect == ReleaseSpec => []ReleaseTypeOK
  <1>1. ReleaseInv => ReleaseTypeOK
    BY DEF ReleaseInv
  <1> QED
    BY <1>1, ReleaseInvariant, PTL

(* Whatever changes between two commands of the checks, what               *)
(* verify-published-package.py reports of a release is true and stays so:  *)
(* the published bytes, their provenance, and a tag object the remote had, *)
(* which is the preflight's unless a forced push took that from the        *)
(* remote.  That object is signed and at the commit, unless the local tag  *)
(* was replaced between the commands that read its signer and its object.  *)
THEOREM ReportedReleaseIsTheRelease == ReleaseSpec => []VerifiedIsTheRelease
  <1>1. ReleaseInv => VerifiedIsTheRelease
    BY DEF ReleaseInv
  <1> QED
    BY <1>1, ReleaseInvariant, PTL
=============================================================================
