---------------------------- MODULE SyncPublish ----------------------------
(***************************************************************************)
(* How a downstream repository publishes a sync: the daily workflow        *)
(* (sync-from-upstream.yml.template) and create-signed-commit.py.  A job   *)
(* checks out the base branch, takes the upstream tag, renders the         *)
(* upstream's content, closes the open sync PRs, builds a commit through   *)
(* the API on whatever the base is by then, publishes it on the date's     *)
(* branch, and opens the PR.  Meanwhile the tag moves, others push to the  *)
(* base and merge, close or open PRs, and every call may fail.             *)
(*                                                                         *)
(* A tree is what the sync changes: the synced content and the mark        *)
(* (.github/sync-upstream-state, the newest tag accepted).  The base's     *)
(* head only matters by whether it moved since the job's checkout.         *)
(***************************************************************************)
EXTENDS Integers, Sequences

CONSTANTS Ships,                          \* Ships[t]: the content the tag dated t ships
          MaxTagMoves, MaxSetbacks, MaxDays   \* bounds

Stamp == DOMAIN Ships
ASSUME PublishAssumption ==
    /\ Len(Ships) \in Nat \ {0} /\ Stamp = 1..Len(Ships)
    /\ MaxDays \in Nat \ {0}

VARIABLES base,      \* the tree of the base branch
          syncTag,   \* the tag object upstream's sync tag names, by its date
          newest, tagMoves,  \* the newest tag object signed so far; moves made
          branch,    \* the sync branch of each day, or no commit
          openPr,    \* the days whose sync PR is open
          day, job,
          pins,      \* do this repository's jobs pin the base, once one has run
          setbacks   \* dead jobs and pushes during a job so far

publishVars == <<base, syncTag, newest, tagMoves, branch, openPr, day, job, pins, setbacks>>

Day == 1..MaxDays
Parts == {"synced", "mark"}
FirstTree == [synced |-> Ships[1], mark |-> 0]
NoCommit == [old |-> FirstTree, tree |-> FirstTree, stale |-> FALSE]
NoJob == [step |-> "wait", was |-> FirstTree, work |-> FirstTree, moved |-> FALSE,
          date |-> 0, commit |-> NoCommit, exists |-> FALSE]

PublishInit ==
    /\ base = FirstTree
    /\ syncTag = 1 /\ newest = 1 /\ tagMoves = 0
    /\ branch = [d \in Day |-> NoCommit] /\ openPr = {}
    /\ day = 1 /\ job = NoJob /\ pins = "unset" /\ setbacks = 0

World == <<base, syncTag, newest, tagMoves, day, pins, setbacks>>
Step(s) == job.step = s
Then(s) == job' = [job EXCEPT !.step = s]

-----------------------------------------------------------------------------
(* The job.  The workflow's concurrency group runs one at a time.          *)
Checkout ==
    /\ Step("wait")
    /\ job' = [NoJob EXCEPT !.step = "verify", !.was = base, !.work = base]
    /\ pins' \in IF pins = "unset" THEN {"yes", "no"} ELSE {pins}
    /\ UNCHANGED <<base, syncTag, newest, tagMoves, day, branch, openPr, setbacks>>

TooOld_Never(t, mark) == FALSE                                     \* mutant

(* With allowed signers set, a tag older than the checkout's mark ends the *)
(* job, and the mark takes the tag's date; unset, the run is unverified.   *)
(* The engine then renders the tag's content, and a working tree equal to  *)
(* the checkout (git status) ends the job.                                 *)
TooOld(t, mark) == t < mark
Changed == {p \in Parts : job.work[p] # job.was[p]}

AfterRender(work) ==
    job' = IF work = job.was THEN NoJob
           ELSE [job EXCEPT !.step = "close", !.date = day, !.work = work]

RenderTag ==
    /\ Step("verify")
    /\ \/ TooOld(syncTag, job.was.mark) /\ job' = NoJob
       \/ /\ ~TooOld(syncTag, job.was.mark)
          /\ AfterRender([synced |-> Ships[syncTag], mark |-> syncTag])
       \/ AfterRender([job.was EXCEPT !.synced = Ships[syncTag]])
    /\ UNCHANGED <<World, branch, openPr>>

(* Every open sync PR is closed and its branch deleted, one call each,     *)
(* before there is a commit to take its place.                             *)
ClosePrior ==
    /\ Step("close")
    /\ \/ \E d \in openPr : /\ openPr' = openPr \ {d}
                            /\ branch' = [branch EXCEPT ![d] = NoCommit] /\ UNCHANGED job
       \/ openPr = {} /\ Then("commit") /\ UNCHANGED <<branch, openPr>>
    /\ UNCHANGED World

(* The base's head now is the parent, unless the job pins the head it was  *)
(* rendered from (always in payload mode, an option otherwise).  Blobs,    *)
(* tree and commit are objects only this job knows; one GitHub did not     *)
(* sign (the read-back tells) ends the job like any failed call.           *)
PinRefuses == pins = "yes" /\ job.moved
Overlay(tree) == [p \in Parts |-> IF p \in Changed THEN job.work[p] ELSE tree[p]]

BuildCommit ==
    /\ Step("commit")
    /\ job' = IF PinRefuses THEN NoJob
              ELSE [NoJob EXCEPT !.step = "ref", !.date = job.date, !.commit =
                      [old |-> base, tree |-> Overlay(base), stale |-> job.moved]]
    /\ UNCHANGED <<World, branch, openPr>>

FindRef ==
    /\ Step("ref")
    /\ job' = [job EXCEPT !.step = "publish", !.exists = branch[job.date] # NoCommit]
    /\ UNCHANGED <<World, branch, openPr>>

CanPublish_CreateOnly(exists) == ~exists /\ branch[job.date] = NoCommit   \* mutant

(* POST creates a ref and fails on one that exists; the forced PATCH fails *)
(* on one that is gone.                                                    *)
CanPublish(exists) == exists <=> branch[job.date] # NoCommit

PublishRef ==
    /\ Step("publish")
    /\ IF CanPublish(job.exists)
       THEN branch' = [branch EXCEPT ![job.date] = job.commit] /\ Then("pr")
       ELSE job' = NoJob /\ UNCHANGED branch
    /\ UNCHANGED <<World, openPr>>

(* gh pr create, or gh pr edit when the branch has a PR.                   *)
OpenPr ==
    /\ Step("pr")
    /\ openPr' = IF branch[job.date] # NoCommit THEN openPr \cup {job.date} ELSE openPr
    /\ job' = NoJob /\ UNCHANGED <<World, branch>>

PublishStep ==
    \/ Checkout
    \/ RenderTag \/ ClosePrior \/ BuildCommit \/ FindRef \/ PublishRef \/ OpenPr

(* Any call of the job fails, or its time is up: what it did stays.  A     *)
(* commit without a verified signature ends the job the same way.          *)
JobDies ==
    /\ ~Step("wait") /\ setbacks < MaxSetbacks
    /\ setbacks' = setbacks + 1 /\ job' = NoJob
    /\ UNCHANGED <<base, syncTag, newest, tagMoves, branch, openPr, day, pins>>

-----------------------------------------------------------------------------
(* Upstream releases (a new tag object) or moves the tag to an object it   *)
(* signed before.                                                          *)
TagMoves ==
    /\ tagMoves < MaxTagMoves /\ tagMoves' = tagMoves + 1
    /\ \/ newest + 1 \in Stamp /\ newest' = newest + 1 /\ syncTag' = newest + 1
       \/ syncTag' \in (1..newest) \ {syncTag} /\ UNCHANGED newest
    /\ UNCHANGED <<base, branch, openPr, day, job, setbacks, pins>>

(* Others push to the base what the sync does not touch; once the commit   *)
(* has its parent, and between jobs, that changes nothing here.            *)
Rendering == job.step \in {"verify", "close", "commit"}
HeadMoves == job' = IF Rendering THEN [job EXCEPT !.moved = TRUE] ELSE job

Push ==
    /\ Rendering /\ setbacks < MaxSetbacks
    /\ setbacks' = setbacks + 1 /\ HeadMoves
    /\ UNCHANGED <<base, syncTag, newest, tagMoves, branch, openPr, day, pins>>

(* A merge is by parts, against the commit's parent; a part both sides     *)
(* changed to different values is a conflict.  The branch may be deleted   *)
(* with it.                                                                *)
Edits(c) == {p \in Parts : c.tree[p] # c.old[p]}
Clean(c) == \A p \in Edits(c) : base[p] \in {c.old[p], c.tree[p]}
Merged(c) == [p \in Parts |-> IF p \in Edits(c) THEN c.tree[p] ELSE base[p]]

MergePr(d) ==
    /\ d \in openPr /\ Clean(branch[d])
    /\ base' = Merged(branch[d]) /\ HeadMoves /\ openPr' = openPr \ {d}
    /\ branch' \in {branch, [branch EXCEPT ![d] = NoCommit]}
    /\ UNCHANGED <<syncTag, newest, tagMoves, day, setbacks, pins>>

(* A user closes a PR, or opens one for the branch a dead job left today.  *)
TogglePr(d) ==
    /\ \/ d \in openPr /\ openPr' = openPr \ {d}
       \/ /\ d = day /\ d \notin openPr /\ branch[d] # NoCommit
          /\ Merged(branch[d]) # base /\ openPr' = openPr \cup {d}
    /\ UNCHANGED <<World, branch, job>>

NextDay == /\ Step("wait") /\ day < MaxDays /\ day' = day + 1
           /\ UNCHANGED <<base, syncTag, newest, tagMoves, branch, openPr, job, setbacks, pins>>

PublishNext ==
    \/ PublishStep \/ JobDies \/ TagMoves \/ Push \/ NextDay
    \/ \E d \in Day : MergePr(d) \/ TogglePr(d)

PublishSpec == PublishInit /\ [][PublishNext]_publishVars

-----------------------------------------------------------------------------
TreeType == [synced : {Ships[t] : t \in Stamp}, mark : {0} \cup Stamp]
CommitType == [old : TreeType, tree : TreeType, stale : BOOLEAN]
JobType == [step : {"wait", "verify", "close", "commit", "ref", "publish", "pr"},
            was : TreeType, work : TreeType, moved : BOOLEAN,
            date : Day \cup {0}, commit : CommitType, exists : BOOLEAN]

PublishTypeOK ==
    /\ base \in TreeType /\ syncTag \in 1..newest /\ newest \in Stamp
    /\ branch \in [Day -> CommitType] /\ day \in Day
    /\ job \in JobType /\ pins \in {"unset", "yes", "no"}
    /\ openPr \subseteq {d \in Day : branch[d] # NoCommit}

(* The mark of the base goes back only through a commit that did not pin   *)
(* its base and was rendered from an older one: with the pin, neither a    *)
(* tag that moves, nor merges during a job, nor a dead job undo the replay *)
(* guard.                                                                  *)
MarkGoesBackOnlyUnpinned ==
    [][base'.mark < base.mark =>
          pins = "no" /\ \E d \in openPr \ openPr' : branch[d].stale]_publishVars

(* Once calls stop failing and the tag rests, its content gets to the base *)
(* or into an open PR, unless the mark refuses the tag: a branch, a PR or  *)
(* a commit left by a dead job never blocks the jobs after it.             *)
Offered ==
    \/ TooOld(syncTag, base.mark) \/ base.synced = Ships[syncTag]
    \/ \E d \in openPr : branch[d].tree.synced = Ships[syncTag]

SyncOffered == []<>Offered
=============================================================================
