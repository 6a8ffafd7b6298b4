# A verification development of codex-platform

This directory models the parts of the repository whose behaviour depends on
order: processes that interleave, runs that are interrupted and taken up again,
state that lives on disk, in a process and on GitHub at once. The modules are
translated from the source (`.codex/skills/agent-loop/scripts/` above all, then
the sync, release, relay and issue scripts);
TLC checks small instances of them and TLAPS proves their safety properties for
every instance. `PROJECT.json` maps every definition to the lines it stands for.

## The system

`codex-platform` is the toolbox a team syncs into its repositories to let coding
agents work on GitHub issues. Its programs, the state each keeps and what is hard
about them:

| Component | State | Operations | Hard behaviour | What makes it correct |
|---|---|---|---|---|
| **agent loop, review half** (`agent-loop.sh` 847-915, 1502-3290, 3578-3680) | the shell's variables; `run-state.json`; one result file and one publication journal per engine and round; the issue worktree; the PR, its comments and its draft flag on GitHub | rounds of a Codex and a Claude pass, base integration, convergence, finalization with rollback, `--resume-run` | crashes and kills at any step, the base and the branch moving, lost replies of `gh`, an absolute deadline, a round cap | a ready PR was reviewed by one whole round at its exact head; an interrupted run loses nothing and repeats nothing it may not repeat |
| **run checkpoint** (`agent-loop-state.py`) | `run-state.json`, `batch-state.json` | create, update, show; batch create, update, show | refused writes, compare-and-set | every state it is asked to write is valid |
| **guarded publication** (`review-push.sh`) | the pass journal and its flock | validate, leased push, record; recovery of a call cut short | a crash between push and journal, two calls of one pass | one validated candidate per pass |
| **process supervisor** (`process-supervisor.py`) | the descendants of one hook, over the attempts of a worker | run, time out, terminate, clean up, retry | signals during cleanup, orphans, descendants that cannot be killed | no descendant survives; a status that means what it says |
| **agent loop, issue half** (`agent-loop.sh` 996-1500, 1637-1742, 2770-2850, 3400-3580) | the issue's assignees, the worktree, the draft PR | select, claim, roll back, set up, work, retry, publish the draft | two loops claiming one issue, retries | an issue is worked on by one loop; work is never lost |
| **ordered batch** (`agent-loop.sh` 825-845, 3299-3700) | allowlist, cursor, status and child checkpoint per issue; the batch lock | create, advance, attach, bail, resume | a crash between claim, child and cursor; the operator bailing | the cursor passes an issue only when it is finalized or bailed |
| **review ledger** (`review-ledger.js`) | threads, comments, attestations on GitHub; result files | write-result, attest, post, dispose, reopen, reconcile, verify | posting is not atomic; replies get lost; calls are repeated | each finding has exactly one thread and one disposition per occurrence |
| **local review handoff** (`local-review-handoff.py`) | runs, their results and handoffs as marked comments of a PR | start, finish, authorize a pass, hand off | a reply that is lost, a request applied late, two sessions at once; nothing locks a PR | a marker counts once; retries never make the chain of runs unreadable |
| **sync engine** (`sync-engine.py`) | the consumer's tree; the consumer's config is the consent store | admit the whole manifest, then copy, bootstrap or delete entry by entry, prune | a run killed half way, refusals behind entries that were applied, rules that depend on what earlier entries did | a refusal leaves the tree untouched; a completed run ends where an undisturbed one would; nothing sensitive changes without consent |
| **sync workflow** (`sync-from-upstream.yml.template`, `create-signed-commit.py`) | the sync branch of the day, its PR, the mark of the newest tag accepted | verify the tag, render, close prior PRs, commit through the API, publish, open the PR | calls that fail after others succeeded, a base and a tag that move meanwhile | the mark does not go back; what a dead job left blocks no later job |
| **payload commit** (`create-signed-commit.py`) | three trees of Git, a manifest handed over by another job | parse the status, admit every path, build the tree | renames, files changed after staging, a manifest cut short | the commit is what was rendered, and only where the config admits it |
| **release preflight, package verification** | none; they read tags, registry and tarball | gates by phase; verification of a published version | a tag, tarball or registry that changes between two commands | what a report calls verified is one release |
| **issue readiness** (`ready.py`), **links** (`link.py`) | dependency lines in issue bodies | list, link | four queries that are not one moment; whole-body replacement; a run cut between its two writes | the list tells what held throughout; the blocked side is written first and a repeated run repairs the link |
| guards, launchers, doctor, lints, installers, other workflows | none that outlives a call | one process each | — | not modelled, see below |

The components meet in the worktree (wrapper, hooks and helper read and move
HEAD), in the private log directory (result files and journals are the messages
between a hook and its wrapper), and on GitHub (the PR's head, draft flag and
comments are what a resumed run compares its checkpoint with). Locks are
`flock`s: one per run, one per batch, one per pass journal.

## The modules

| Module | Models | State |
|---|---|---|
| `RunState` | the fields and transitions of `run-state.json` that change, its validator, the result record, commits and base tips as numbers | none: operators on records |
| `ReviewPass` | one reviewer pass from the hook's side: commit, `review-push.sh` step by step, the result file | worktree HEAD, remote head, base, deadline, journals, results, the review processes alive, validated heads |
| `ReviewLoop` | the wrapper from the open draft PR to the ready PR, its interruptions, `--resume-run`, and the environment | program counter, memory, checkpoint, merged bases, draft flag, attestations, ledger and issue flags |
| `ReviewLoopProperties` | what is promised of it | |
| `AbstractReview` | the abstract specification of a review: what one sees who reads the PR and the checkpoint only | round, stage, the results on record, attestations, draft flag |
| `MCReviewLoop` | the instance for TLC | |
| `ReviewLoopProofs` | the theorems | |
| `BatchState` | `batch-state.json`: its validator, `batch-create` and the compare-and-set of `batch-update` | none: operators on records |
| `IssueLoop` | the main loop around the review: select, claim, roll back, work, draft PR, checkpoint, ordered batch, `--resume-batch`, `--resume-run` beside it, operator bail, for several loops in one repository | batch file, printed bail commands, wrapper of each process, worktree/PR/checkpoint per owner and issue, resumed reviews, assignees, eligibility |
| `IssueLoopProperties` | what is promised of it | |
| `IssueLoopProofs` | the theorems | |
| `OrderedQueue` | the abstract specification of an ordered batch | how each settled issue ended, the stage of the first that is not |
| `MCIssueLoop` | the instance for TLC | |
| `WorkerRun` | the attempts of one worker hook: `run_worker` and `process-supervisor.py` | each process with what it does with signals, the supervisor, the worker |
| `WorkerRunProofs` | the theorems about it | |
| `SyncEngine` | one consumer's tree under runs of `sync-engine.py` that may be killed and repeated | tree, manifest, upstream, config, the running engine |
| `SyncTemplate` | `drop_empty_placeholder_lines` | a page and what is kept of it |
| `SyncEngineProofs` | the theorems about `SyncEngine` and `SyncTemplate` | |
| `SyncPublish` | the daily job from checkout to PR, with others at work on the base, the tag and the PRs | base, tag, branch per day, open PRs, the job |
| `SignedPayload` | from `git status` or a manifest to the tree of the commit | head, index, working tree, policy, result |
| `ReviewRelay` | the comments of a PR under several sessions of `local-review-handoff.py` | thread, sessions, requests still under way, comments reported as verified |
| `ReviewRelayProofs` | the theorems about it | |
| `Release` | `release-preflight.py` and `verify-published-package.py` beside an operator and a registry | tarball, tags, registry, what the running check has read |
| `PublicationProofs` | the theorems about `SyncPublish`, `SignedPayload` and `Release` | |
| `IssueLinks` | concurrent runs of `link.py` | bodies, step and copies of each run |
| `ReadyQueue` | one run of `ready.py` while issues and PRs change | issues, PRs, the query, what held all the while |
| `IssuesProofs` | the theorems about `IssueLinks` and `ReadyQueue` | |
| `Toolbox` | one of the nine programs above, chosen at the start | which one runs |
| `MCToolbox` | the instance for TLC | |
| `ToolboxProofs` | the theorems about the programs together | |

How state and actions correspond to the code:

* `pc` is the place in `run_review_convergence`, `run_review_pass`,
  `finalize_pr` or `resume_review_run` between two effects that a crash, another
  process or GitHub could tell apart. `"stopped"` is: no wrapper runs, the
  checkpoint is on disk. `ctl` holds the shell variables (round, base of the
  round, leg, outcome signatures, `ready_finalization`, `resume_engine`) and is
  lost when the wrapper stops.
* A commit of the issue branch is a number, in the order of creation; HEAD only
  moves forward because every place that moves it requires it. A base tip is a
  number in the order of fast-forwards, `Rewritten` one that descends from none.
* The hash of a result file is the record itself, so comparing signatures is
  comparing records. Of the ledger's threads one bit remains: whether
  `verify-ledger` would pass. Of the issue's, whether `issue_is_selectable` and
  `verify_issue_for_publication` would.
* A step of the wrapper that reads GitHub several times in a row without
  writing anything between is one action, evaluated at one moment. Changes
  before and after it are the environment's actions; a change in the middle of
  such a step is not distinguished from one before it or after it.
* Checks that only refuse and that nothing in the model can make fail (Git
  configuration fingerprints, pinned executables, origin identity, private file
  modes) appear as `Fail`: any command of a step may fail and stop the wrapper.
* `Kill` is SIGKILL of the wrapper alone. The supervisor and the review process
  are in the slots `HookIds` and live on, as they do in the code, where the run
  lock's descriptor is closed before they start.
* In `IssueLoop` an owner is what one `RUN_TAG` series leaves behind: branches,
  worktrees, PRs and checkpoints (`runs`). The batch is one owner whose processes
  come and go; each loop over the ready queue is one of its own. `ReviewLoop` is
  there a single step (`MarkReady` or `ResumeReady`, then the checkpoint): what it
  guarantees from inside is checked there.
* `review[o][i]` is a `--resume-run` process; `parent` says that a resumed batch
  started it, and that it holds the batch lock it inherited even after the batch
  process was killed. A wrapper never releases the run locks of the issues it has
  worked on (`locked`), since `acquire_run_lock` opens a new descriptor each time.
* `offers` are the bail commands that were printed: the operator may run one much
  later. The operator runs only what was printed. A batch pauses at its iteration
  cap only after an issue (`MAX_ITERATIONS` is at least one).
* Users edit, relabel and assign issues at any moment (`ChangeIssue`,
  `ChangeAssignee`). One restriction: nobody but a loop takes back a claim under
  which a loop is at work; what the code does then is only to refuse.
* The journal's flock is held by the helper, by a wrapper that reset an
  interrupted journal (`ctl.lock`), and by supervisors that wrapper started.

* The nine programs of `Toolbox` share no state and are started independently,
  so a behaviour is a behaviour of one of them and the run explores their union,
  not their product.
* In `SyncEngine` a text is the upstream version it was rendered from, or the
  consumer's own; a directory exists by itself or because something is below it.
  `flaw` says which rule the shape of an entry breaks. A write is as many steps as
  a kill can tell apart: each missing directory (`MakeParent`), the temporary file
  from its creation to its `chmod` (`OpenTemp`), and `os.replace` (`PlaceEntry`);
  an error takes the temporary file away (`FailWrite`), a kill does not. `temps`
  holds the temporary files that are in the tree, with the run that made each:
  their random names are never used again, and no run looks for them.
* In `SyncPublish` a tree has two parts, the synced content and the mark. `pins`
  says whether the job gives `--expected-base-sha`: payload jobs must, the
  template does not.
* `SignedPayload` computes Git's status letters from the three trees, with the
  freedom Git has to pair additions and deletions, because the parser's cases are
  about combinations of letters.
* In `WorkerRun` what a process does with signals is a set of traits, chosen when
  it starts: it may leave the session, ignore SIGTERM, be stuck in the kernel, or
  close the output. `RETRY_ON_TIMEOUT` is on: off, fewer attempts follow.
* In `ReviewRelay` a comment is the fields of its marker and comments are equal
  when their digests are. Several sessions work for one user, so authorship is
  not distinguished.
* In `Release` every command of both checks that reads the tag by its name is an
  action: the preflight's two looks at what exists (`FindLocalTag`,
  `ReadRemoteTag`), then type, signer, target and object (`ReadTagType` to
  `ReadTagObject`), which the verification asks for in the same order, and its
  look at the remote (`ReportVerified`). `retagged` notes in a check that the
  local tag was replaced after its signer was read, `replaced` collects the tag
  objects that forced pushes took from the remote.
* In `ReadyQueue` `lasting` records what held without a break from the first
  query on: only that can be asked of an answer put together from four moments.

## The runs

The `review_` runs use `MCReviewLoop`, `toolbox` uses `MCToolbox`, the others
`MCIssueLoop`.
`CHECK_DEADLOCK FALSE`: a review really stops, refused (`"stopped"` with nothing a
resume accepts) or finished (`"done"`), and so do the loops when nothing is left
to select.

| Run | Question | Bounds |
|---|---|---|
| `review_rounds` | Do crashes, helper failures, base advances, commits between runs and the deadline leave rounds, checkpoints and publications consistent, under every resume? | 2 rounds, 3 commits, 1 base move, 3 disturbances, resumes with a cap of 1 or 2 |
| `review_publication` | Does the PR leave draft only after a converged round, and does the review implement `AbstractReview`, whatever fails while it is finalized, rolled back and resumed? | 2 rounds, 2 commits, 2 of twelve kinds of disturbance |
| `review_recovery` | Does every run end, and is a converged review published in the end? | 2 rounds, 2 commits, 2 crashes or lost replies, the deadline at any moment |
| `review_killed` | With a surviving review process beside a resumed run: is a journal closed only once, no attested pass begun again, and a converged checkpoint still about one attested round? | 2 review processes, 2 kills or helper failures |
| `review_orphan` | (violated) The same, for the claim that a converged checkpoint rests on a whole round | 2 review processes, 1 kill |
| `review_base_rewritten` | (violated) Does a rewritten base always stop the loop? | 1 rewrite |
| `review_replay` | (violated) Can the reviewer of a replayed last round publish? | 1 round, 1 crash |
| `issue_loops` | Do a batch and a queue loop, each under its own login, keep apart: one loop, one PR, one claim per issue? | 2 issues, one process each, 2 kills, edits or assignments; the queue loop runs with `--resume` |
| `ordered_batch` | Does the batch implement `OrderedQueue`, keep its locks and worktrees, and drain? | 2 issues, 2 processes of one batch, 3 kills or edits |
| `batch_child` | (violated) Can a batch still resume its issue after its run was resumed on its own? | 2 issues, 1 process, 1 kill |
| `same_login` | (violated) Does a rollback leave the claim of another loop of the same login? | 2 issues, 2 loops |
| `toolbox` | Does each program beside the loop keep its promises under kills, lost replies, and changes by others between any two of its commands? | per program, below |

Two rounds are enough to have a round that restarts and one that is the last,
and a recorded round past the cap; the resume cap of 1 makes the first round the
last. Three commits let a base merge or an operator's commit and both engines'
fixes occur in one run. Two or three disturbances allow a fault, a fault during
its recovery, and a resume of that. The status `minor` is not
accepted from round 3 on; with two rounds both statuses occur, and the theorems
hold for up to four.

For the batch, two issues are enough to have one before and one after the
cursor, and two processes to have a second resume; three disturbances are needed
for the longest story, a bail command that is printed after one interruption and
run after the batch was resumed and interrupted again. In `issue_loops` every
pair of reads and writes of the two loops interleaves; a third loop would meet
each of them in the same two ways.

The bounds of `toolbox`, program by program:

* *sync engine*: 5 paths, manifests of two different entries out of ten, 2 runs
  and one change of an input between them. Two entries are what an earlier entry
  needs to change what a later one meets (a delete that prunes the directory at
  which a bootstrap file belongs); the second run meets what a killed one left,
  a temporary file that keeps a directory from being pruned included.
* *template*: every page of up to 6 lines: three placeholders in a row between
  blank lines, or one at each edge and one inside.
* *publication*: 2 releases, 2 moves of the tag, 2 days, one dead job or push
  during a job. A job of the second day meets what the first one left.
* *payload*: 3 files (plain, sensitive, the config), 2 texts, any staging; a
  rename needs two files, a third is the bystander.
* *worker*: the hook and one other process with every set of traits, 2 attempts.
  A descendant's place can be taken again, so chains of forks occur one after
  another.
* *relay*: 2 sessions, one engine, caps of 1 and 2 rounds (the code has 2 and 4),
  3 comments, one late request; a handoff is posted on an empty thread only, as
  the posting protocol is the same for all kinds.
* *release*: 2 commits, tags of three kinds (light, annotated, signed), any set
  of foreign provenance bundles beside the workflow's, 5 changes by others: tag,
  push, publish, and two more.
* *links*: 2 runs that share an issue, 2 failures. *ready*: 2 issues, 2 PRs, 2
  changes during the query, one between each pair of queries that could hide it.

What the runs show: with crashes of the machine, every checkpoint that claims
convergence rests on one whole round at the recorded head and base, with both
results attested (`WholeRoundReviewed`), and with orphans still on the attested
passes of one round, between which there may be commits nobody attested
(`WholeRoundAttested`); what reaches the branch was validated
(`PublishedIsValidated`); even with orphans, a pass is never started in a round
that is already attested (`FreshPassUnattested`) and a journal is closed once per
pass (`OnePublicationPerPass`); the PR is ready only under a
checkpoint that says so (`ReadyOnlyAtCheckpoint`, `ReadyRecordKept`). The review as
a whole implements `AbstractReview` (`ImplementsAbstractReview`): on the PR and in
the checkpoint one sees rounds that follow each other one by one, each engine's
attestation once per round with Claude's on top of Codex's, convergence on both
attestations of the round on record, then `finalizing`, the PR out of draft,
`finalized`; a step back is the PR returned to draft, `finalized` taken back while
it is a draft, or one more round while it is a draft. `TakeBack` is allowed in every
stage, because a rollback can fail half-way; that a PR is in draft again under
`finalized` is thus possible (the hazard listed at `agent-loop.sh:2931`).

For the issue loops: assignees and the second look at them keep loops of
different logins apart (`OneLoopPerIssue`, `WorkIsClaimed`), and the readiness
check before publication keeps an issue from getting a second PR
(`OnePrPerIssue`). The batch touches an issue only when all before it are settled
(`InOrder`), its worktrees and bail commands stay safe over every interruption
(`WorktreeOutlivesRun`, `BailedHasNoChild`), one process drives it, which waits for
the one review it started, and none does beside a review whose driver was killed
(`OneBatchProcess`), and it implements `OrderedQueue`. That
specification lets a complete issue be bailed because the code does: a run that
is killed between its checkpoint and the attachment to the batch can be finished
with `--resume-run`, and the batch, which does not know the checkpoint, can then
only record it as bailed. `BatchDrains` has a premise: an issue whose checkpoint
is attached can be settled only as long as its review can be resumed, that is
the issue on GitHub is still the loop's and the worktree is there. Without it the
batch stops for good, by design in the first case and as `batch_child` shows in
the second.

For the programs of `toolbox`:

* A refused sync leaves the tree as it was, also when what is refused depends on
  what earlier entries would have done (`RefusalLeavesTree`); no run writes the
  config or, without a grant, changes a file on a sensitive path
  (`ConsentRespected`); and a run
  that completes leaves at every path the file that an undisturbed run on the
  people's own tree would have left, however many were killed before it
  (`CompletedRunConverges`, for manifests with one entry per path). Two things it
  does not promise. A run that is killed inside `write_utf8` leaves its temporary
  file, `.<name>.` with a random suffix, beside the destination, and no later run
  removes it: the property allows one such file per killed run and nothing else.
  And a run is promised nothing before it completes: a kill between a delete and
  its pruning can leave a bare directory at the destination of a later entry, and
  then every following run ends with an error until a person removes it.
* Collapsing empty placeholders leaves exactly as many runs of blank lines as the
  template had, and a blank line between any two lines it had one between
  (`CollapseIsClean`).
* The mark of the newest accepted tag goes back only through a commit that did
  not pin its base (`MarkGoesBackOnlyUnpinned`). The template is such a job: a
  newer mark that is merged while a job is between its checkout and its commit
  is put back by that job's PR, as content rendered from the older checkout is.
  A tag's content is offered in the end, whatever a dead job left (`SyncOffered`).
* A payload's commit is the rendered tree, has no half of a move, and stays within
  the config (`PublishedAsRendered`, `StaysAdmitted`).
* The supervisor always ends (`SupervisorEnds`), and a retry runs beside an older
  process only when that supervisor was killed or said that something survived
  (`RetryRunsAlone`). The first exception is real: status 137 of a killed
  supervisor is retried like that of a killed hook.
* One comment of a marker is reported as verified (`OneVerifiedComment`), and
  copies of a run never break the chain; two different runs that supersede the
  same one, started at the same time, do (`ChainBreaksOnlyByFork`).
* What the verification reports is what the registry has, with or without
  provenance as asked; the tag object it reports is one the remote held, and the
  object that a publish preflight matched unless a forced push replaced that one
  (`VerifiedIsTheRelease`). It is signed by the approved key and at the commit
  with one exception, which the property states: `verify_release_tag` reads
  signer, target and object in three commands by the tag's name, so an object that
  replaces the local tag between the first and the last of them, and is pushed, is
  reported without having been checked.
* The blocked side of a link comes first and repeating a run repairs the other
  (`BlockedSideFirst`, `LinksRepaired`), up to the replacement by a concurrent run
  that the code's comment admits; the ready list is true of whatever held
  throughout its queries (`ListIsTrue`).

### Disagreements between code and documents

* `review_orphan`: the run lock does not cover a review process whose wrapper
  was killed, so a resumed run can converge on a head that the old process then
  changed under it.
* `review_base_rewritten`: the head of a round does not check for a
  fast-forward.
* `review_replay`: the wrapper that resets an interrupted journal keeps the
  journal's lock; the reviewer of the replayed pass cannot publish.

* `batch_child`: after an interruption of a batch's review two commands are
  printed; the one for the run removes the worktree that the one for the batch
  needs.
* `same_login`: a rollback takes back the assignment to `@me`, whoever added it;
  two loops under one login are not told apart.

One more was noticed and needs no run: `SKILL.md:232` says that validation is
not repeated after the helper's, and `run_review_pass` repeats it on purpose
(`agent-loop.sh:2236-2240`).

### Fairness

`Fairness` is weak fairness of the wrapper's own steps, as long as it is alive,
and of the end of each hook: `process-supervisor.py` ends a hook at its timeout
whatever the hook does. Nothing is assumed of GitHub, the reviewers or the
faults. `ResumingSpec` adds the operator, who resumes a stopped run as often as
that is possible; it is used for `ConvergedIsPublished` alone, where a run that
nobody resumes would prove nothing about the code.

`FairSpec` of `IssueLoopProperties` is weak fairness of each loop's and each
review's own steps (a kill excepted, a process takes its next step), weak
fairness of the operator's `--resume-batch`, and strong fairness of running a bail
command that was printed: the batch lock it waits for is free only now and then.

`ToolboxFairness` has three parts. The steps of the sync job are fair, because
the schedule starts one every day and a job runs to its end; dead jobs are
bounded by `MaxSetbacks`, so `SyncOffered` is about what follows the last one.
The supervisor's own steps are fair, and so is the passing of its deadlines, as
long as it is alive; nothing is assumed of the hook and its descendants, which
may ignore every signal. A link run is fair and is repeated after a failure, as
its message asks. No user, upstream or GitHub action is fair.

## The proofs

Every module of theorems has the same outline: an inductive invariant as a
conjunction of named parts, a lemma for each part and kind of step, and the
theorems at the end. A property that a run checks and a theorem states is checked
on the instance of the run and proved for every instance that the assumptions
admit.

| Module | Properties proved | Under |
|---|---|---|
| `ReviewLoopProofs` | `TypeOK`, `RunStateValid`, `ReadyOnlyAtCheckpoint`, `RoundNeverRegresses`, `ReadyRecordKept`, `OnePublicationPerPass`, `WholeRoundAttested`, `FreshPassUnattested`, `ImplementsAbstractReview` | — |
| | `PublishedIsValidated`, `WholeRoundReviewed` | `WrapperNotKilled` |
| `IssueLoopProofs` | `TypeOK`, `OneBatchProcess`, `InOrder`, `BailedHasNoChild`, `WorktreeOutlivesRun`, `OneReviewPerRun`, `ImplementsOrderedQueue` | — |
| | `WorkIsClaimed`, `OnePrPerIssue`, `OneLoopPerIssue` | `LoginsDiffer` |
| `WorkerRunProofs` | `WorkerTypeOK`, `RetryRunsAlone` | — |
| `SyncEngineProofs` | `SyncTypeOK`, `RefusalLeavesTree`, `ConsentRespected`, `CompletedRunConverges`, `CollapseIsClean` | — |
| `PublicationProofs` | `PublishTypeOK`, `MarkGoesBackOnlyUnpinned`, `PayloadTypeOK`, `PublishedAsRendered`, `StaysAdmitted`, `ReleaseTypeOK`, `VerifiedIsTheRelease` | — |
| `ReviewRelayProofs` | `RelayTypeOK`, `OneVerifiedComment`, `ChainBreaksOnlyByFork` | — |
| `IssuesProofs` | `LinkTypeOK`, `BlockedSideFirst`, `ReadyTypeOK`, `ListIsTrue` | — |
| `ToolboxProofs` | `ToolboxTypeOK`, and the invariants and action properties of the five modules above, of `ToolboxSpec` | — |

Two hypotheses stand in the theorems that need them. `WrapperNotKilled` excludes a
SIGKILL of a wrapper alone (a crash of the machine, which takes the review process
along, stays): with such kills `WholeRoundReviewed` is false, as `review_orphan`
shows, and `PublishedIsValidated` is false once the base moves too, since an orphan
can commit between the next wrapper's validation of its base merge and the push of
it. `LoginsDiffer` (no two owners share a login) is needed as `same_login` shows. Everything else rests on the named assumptions on
constants, which TLC evaluates on every run of a module that declares them.

### The review

`ReviewLoopProofs` proves its theorems for every `MaxRounds` in 1..4 (the range
the validator accepts), every set of review processes, any number of commits, base
moves and disturbances of every kind but the one a hypothesis excludes.

`IInv` (`Invariance`) is the type invariant with four strengthenings. A review
process has a journal (`HooksJournaled`), without which the helper's writes would
not be typed. The wrapper's program counter determines which outcome signatures it
holds (`SignaturesHeld`): the converged checkpoint is valid because both are
there. The wrapper's round and the recorded one agree as far as the place
requires (`RoundsAgree`), which bounds the recorded round by the cap plus one.
And the places at which the PR is a draft for certain are known (`DraftKnown`):
every write that leaves `finalizing` or `finalized` is at one of them.
Each conjunct has one preservation lemma with a case per action that can disturb
it, over the frame lemmas `CheckpointWrites` and `DraftWrites` (which actions
write the checkpoint and the draft flag at all).

`OnePublication` needs one thing more, `JournalsOpen`: between its validation and
its last write a helper's journal is open, and no two helpers of one pass are
there, because both would hold the pass's lock. The wrapper can reset a journal
under a helper only if it gets that lock, so the argument holds with orphans.

`RoundInv` (`RoundInvariance`) is about the chain that a converged checkpoint
claims, with orphans. The signatures the wrapper holds are of this round and base
and attested, and the current leg's describes a pass from the head at its start to
one that HEAD has not fallen behind (`SigsKnown`); attestations are one per engine
and round (`OneEach`), and Claude's begins no earlier than Codex's ended
(`InOrder`). The last two carry the chain across a resume, which recovers a
signature from the attestations and not from memory. `HeadsKnown` orders the heads
of the checkpoint, of the wrapper and of the worktree: nobody ever takes HEAD back,
so a commit of an orphan can only lie ahead of what the wrapper knows.
`RoundWasAttested` follows.

`FreshInv` (`FreshInvariance`) is why a resume never repeats an attested pass,
and is the longest argument. The base never returns to one that it left
(`BasesPast`), so an attestation of the present base and head is of this very
situation, and an attested head does not contain a base that moved on since
(`MergeFirst`): a new round makes a commit first, or has a new number. Each
attestation agrees with its journal, its result and the checkpoint (`AttestsSound`,
`PassKnown`). While the round is under review the checkpoint shows which engine
attested the present head (`LiveKnown`), and `PassesFresh` says at each place that
leads to a pass that its engine has not attested yet. An orphan's commit only
makes an attestation older: once the checkpoint of a pass is written, what its
engine has attested in the round ended before that head, so it began before it,
and its journal, whose start nobody changes, does not open for the new pass.

`ReviewIsAbstractReview` is the refinement of `AbstractReview`, with orphans. On top
of `IInv` and `RoundInv` it needs `AbstractInv`: the wrapper's round is the recorded
one or the next, and the recorded one from the checkpoint of a leg on
(`RoundsClose`), so that no write skips a round; no leg goes on under a checkpoint
that claims convergence, and one that does not names no result (`ReviewingKnown`);
the PR is marked ready under `finalizing`, recorded as finished out of draft, and
that record undone in draft (`PublishingKnown`). Then each abstract variable has one
place where it moves: `AttestFollows` for the attestations, `DraftSteps` for the
draft flag, and `ReviewWrites`, which says of every write of the checkpoint what it
does to round, phase and results. `RoundNeverRegresses` is the part of it that the
cap on rounds rests on, and has a short proof of its own from `IInv` alone
(`RoundsOnlyGrow`).

Without orphans every review process has its wrapper waiting for it (`Attended`).
Then nothing but the step at hand moves HEAD while a candidate waits to be pushed
(`CandidatesValid`), which gives `PublishedWasValidated`, and the inequalities of
`RoundInv` become equalities: `SigsAtHead`, `Linked` and `HeadsAgree` say that no
commit lies between the passes of a round, nor between the round and its
checkpoint, which is what `RoundWasReviewed` adds to `RoundWasAttested`.

### The issue loops

`IssueLoopProofs` proves its theorems for every number of issues, every finite set
of batch and queue processes and disturbances of every kind.

`IInv` (`LoopInvariance`) adds to the types what the batch's writes rest on. Only
one process is past the acquisition of the batch lock (`OneHolder`), which uses
that a child started by a dead process holds the inherited lock. So a holder that has seen
an unfinished batch still finds it unfinished (`CursorHeld`). Every process, run and
review of the batch is about an issue the cursor has reached (`IssuesReached`),
from which `InOrder` follows, because the validator of the batch file lets the
cursor pass only settled rows. `BailInv` serves the late bail command: a row
with a child is active or finalized (`ChildRows`), a holder that claims an issue
finds its row active and without a child (`ClaimedRows`), and a printed command for an active
issue either comes too late, since the cursor has passed, or finds every process
of the batch where it works on no issue (`OffersQuiet`).

`RunInv` (`RunInvariance`) ties each process to the run on disk. Where a wrapper
is determines which of worktree, branch, PR and checkpoint are there (`RunsFit`), and
what is on disk is one of the shapes that a run can be interrupted in
(`RunsSound`); a review has a checkpoint (`ReviewsFit`) and a lock that nobody else
takes (`LocksHeld`); a row of the batch says no more than its run has reached
(`RowsWorked`, `RowsFit`); a queue loop takes up only issues it has not processed
(`QueuesFit`). `WorktreesOutlive` and `OneReviewer` follow. `BatchIsHeldOnce` needs
one part more, `ChildHeld`: as long as a review of the batch is alive, it is the only
one and whoever drives the batch waits for it. A process begins to drive the batch
only when the lock is free, which an orphaned review keeps (`ChildKeepsLock`), and a
review is started only by a driver that waits for none.

`BatchIsOrderedQueue` is the refinement of `OrderedQueue`: the initial states map
to its initial state, and every step of a wrapper, a review, a bail command or an
outsider maps to one of its steps or to a stutter. The cases that need `Inv` are the
moves of the stage: the abstract queue settles only its first unsettled issue, so a
step that finalizes a run must be known to be about the issue at the cursor.

`ClaimInv` (`ClaimInvariance`) is about what a verified claim is worth when logins
differ: it stays for as long as the loop works (`ClaimsHeld`), so two loops are never both past the
check (`OneClaimant`), and from the recheck on nobody else has a PR of the issue
(`FieldClear`).

### The programs beside the loop

`WorkerInv` adds to the types that the next attempt begins only when no supervisor
runs, that attempts are left then, and that no process belongs to an attempt to
come (`AttemptsInOrder`), and that a supervisor which has left, or is leaving with
an ordinary status, has nothing of the attempt left or said that something escaped
(`NothingLeft`): a status of 0, 124 or a signal is given only after a scan that
found nothing. Both are needed at `StartAttempt`, after which the processes of the
old attempt are no longer watched.

`SyncInv`, for any paths, manifests, configs and trees, says that what the passes
over the whole manifest found before the first write stays true while the entries
are applied (`ConsentKept`), so that the loop meets nothing it would have to
refuse; and that every file is the one people left or the promised one, and behind
the loop the promised one (`Converging`), over any number of killed runs. Pruning
counts as part of the entry it follows (`Reached`). Every temporary file belongs to
a run that was killed at it, or is the one being written (`TempsKept`); it is at no
path, so all it does to the files is to keep directories. `ConsentRespected` follows
from `ConsentKept` step by step: a path changes only as the destination of an
admitted entry.

`CollapseStaysClean` is about pages of any length. `CollapsedTo` says what holds of
the kept lines after each line of the page: the lines to come are all there, but for
a blank that went with the line before, the runs of blank lines are as many as
at the start, and lines that were parted still are (`DropKeepsParted`).
`DropMovesRuns` is the step for the runs. A line that does not stand between two
blanks takes no run with it and makes none (`DropAlone`); one that does goes together
with a blank neighbour, and the run of that blank passes to the line before the two
(`DropWithNext`) or was there for the other neighbour already (`DropWithPrevious`).
Because the induction theorems of the library cannot be instantiated, both the
existence of the recursive function and the induction over its turns argue from the
least line at which they would fail.

`PublishInv` follows what the job knows of the base it checked out (`JobKnows`),
and says of every commit, in the job or on a branch, that it takes the mark back
only if it was rendered from an older base and made without the pin (`Sound`,
`BranchesSound`); PRs are merged at any later time, from any branch.
`PayloadInv` goes from the parser to the tree: the admitted paths of a
status are all that differs, both ends of a move included, for any names, texts and
policies.

`RelayInv` uses that a thread only grows, so the first comment of a digest stays
the first (`VerifiedAreFirst`). A run points to an earlier one, by its first
comment (`RunsPointBack`). If the chain cannot be read, take the first run that does
not supersede the one before it but an older one, `q`: the first run after `q`
does supersede it, and these two are the fork. That there is a first one comes from
the well-foundedness of the naturals.

`ReleaseInv` says step by step what the earlier commands read and nobody can have
changed since (`PreflightKnows`, `VerifyKnows`): the registry's version never
changes, and an object the remote had is there or among the replaced. What was read
of the local tag's signer and target holds of the object read last only while
nobody replaced the tag, which is the exception the theorem states.

`LinkInv` adds that a run past its first write, or that found the line when it
started, knows the blocked side written (`StepsKnow`), and that a copy from which
a body is replaced never holds a "Blocks" line whose "Blocked by" line was not
written (`CopiesKnow`): a stale copy can bring back a line, and this is why that
does no harm. `ReadyInv` says of every query so far that its answer covers what has
lasted since the first one; the order of the two PR queries is used once, for
a PR that is merged between them.

`ToolboxIsItsPrograms` joins them: the programs share no variable, so a behaviour of
the toolbox is one of each program, and `ToolboxKeepsPromises` states of
`ToolboxSpec`, the specification of the run, what is proved of each program.

### Only model-checked

* Liveness, which is outside TLAPS's reach, as `ENABLED` is: `EveryRunEnds`,
  `ConvergedIsPublished`, `BatchDrains`, `SupervisorEnds`, `SyncOffered`,
  `LinksRepaired`.

Every invariant and every action property that a passing run checks is proved.

## The plan

In order of what matters most:

1. `ReviewLedger`: attest split into post, verify and delete; findings,
   occurrences, dispositions, reopening; calls that are repeated.
2. The start of a worker inside `IssueLoop`: `WorkerRun`'s three ways to end in
   place of the one step there is.

Abstract specifications: the review (`AbstractReview`) and the ordered batch
(`OrderedQueue`) are there; the review ledger deserves the next one.

## Not modelled

Contract versions 1 and 2 (superseded; no checkpoint). Formatting, logging,
usage reports and prompts. Command guards, launchers, config doctor, lint and
install scripts: stateless, or one process and no protocol; `config-doctor.py`
and `lint-collapse-sites.py` read files once and print. The backlog reports and
`show-handoff` read and format. The review, CI, CodeQL and DCO workflows: single
jobs that keep no state here. Symbolic links in a consumer's tree, which the
engine's own documentation puts outside its promises; the characters of paths,
patterns, templates, certificates and URLs. The sort, the `--limit` and the
assignee and priority filters of `ready.py`. GitHub
itself, the reviewers and the operator, who are the environment of the models.
