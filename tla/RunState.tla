------------------------------ MODULE RunState ------------------------------
(***************************************************************************)
(* The private checkpoint (run-state.json) that one issue's review leaves  *)
(* on disk, and the two writes the wrapper makes to it through             *)
(* agent-loop-state.py: create and update.  A write is atomic (temporary   *)
(* file, fsync, rename), so it is a single value here.  The identity       *)
(* fields that no update changes (repository, issue, branch, worktree, PR, *)
(* digests) are left out.                                                  *)
(***************************************************************************)
EXTENDS Integers

CONSTANTS
    MaxRounds,   \* review_max_rounds recorded when the run was created
    None         \* JSON null; also "no file"

ASSUME MaxRoundsAssumption == MaxRounds \in 1..4

Phases == {"draft-open", "reviewing", "converged", "finalizing", "finalized"}
Engines == {"codex", "claude"}
Statuses == {"clean", "minor", "material", "blocked"}

(* A round past the cap is recorded when the last round asks for another.  *)
Rounds == 1..(MaxRounds + 1)

(* Commits of the issue branch are numbered in the order they are made; a  *)
(* base branch tip is numbered in the order of its fast-forwards, and      *)
(* Rewritten is a tip that descends from none of the numbered ones.        *)
Rewritten == -1
Heads == Nat
Bases == Nat \cup {Rewritten}

BaseAncestor(a, b) == a = b \/ (a \in Nat /\ b \in Nat /\ a <= b)

(* The result file a review hook leaves; its SHA-256 is represented by the *)
(* contents themselves.                                                    *)
Results == [engine : Engines, round : Rounds, base : Bases,
            before : Heads, after : Heads, status : Statuses]

ASSUME NoneAssumption == None \notin Results \cup Engines \cup Nat

RunStates == [phase : Phases, round : Rounds, base : Bases, head : Heads,
              engine : Engines \cup {None},
              codex : Results \cup {None}, claude : Results \cup {None}]

LatePhases == {"converged", "finalizing", "finalized"}

(* What the validator adds to the types: every write and every read of the *)
(* file goes through it and fails when this is false.                      *)
ValidRunState(s) ==
    /\ (s.phase = "reviewing") <=> (s.engine # None)
    /\ s.phase \in LatePhases => s.codex # None /\ s.claude # None

CreateRunState(b, h) ==
    [phase |-> "draft-open", round |-> 1, base |-> b, head |-> h,
     engine |-> None, codex |-> None, claude |-> None]

(* The update command: reviewing names an engine and forgets the hashes,   *)
(* converged records both, the later phases keep them.                     *)
UpdateRunState(s, u) ==
    [phase  |-> u.phase, round |-> u.round, base |-> u.base, head |-> u.head,
     engine |-> IF u.phase = "reviewing" THEN u.engine ELSE None,
     codex  |-> CASE u.phase \in {"draft-open", "reviewing"} -> None
                  [] u.phase = "converged" -> u.codex
                  [] OTHER -> s.codex,
     claude |-> CASE u.phase \in {"draft-open", "reviewing"} -> None
                  [] u.phase = "converged" -> u.claude
                  [] OTHER -> s.claude]

(* update_run_state as the wrapper calls it, one operator per phase.       *)
ToReviewing(s, r, b, h, e) ==
    UpdateRunState(s, [phase |-> "reviewing", round |-> r, base |-> b, head |-> h,
                       engine |-> e, codex |-> None, claude |-> None])
ToConverged(s, r, b, h, c, k) ==
    UpdateRunState(s, [phase |-> "converged", round |-> r, base |-> b, head |-> h,
                       engine |-> None, codex |-> c, claude |-> k])
ToPhase_Anew(s, p, r, b, h) ==                                   \* mutant
    [CreateRunState(b, h) EXCEPT !.phase = p, !.round = r]
ToPhase(s, p, r, b, h) ==
    UpdateRunState(s, [phase |-> p, round |-> r, base |-> b, head |-> h,
                       engine |-> None, codex |-> None, claude |-> None])
=============================================================================
