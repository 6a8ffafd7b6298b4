--------------------------- MODULE SignedPayload ---------------------------
(***************************************************************************)
(* What create-signed-commit.py takes from a working tree: the entries of  *)
(* `git status` become writes and deletions over the base's tree.  In      *)
(* consumer mode the sync engine has just written the tree and staged      *)
(* nothing; in payload mode another job may have staged some of its work,  *)
(* hands over the entries in a file that may be cut short, and every path  *)
(* must be admitted by the consumer's config.                              *)
(***************************************************************************)
EXTENDS FiniteSets

CONSTANTS File,            \* repository paths
          Text,            \* contents of a file
          Sensitive,       \* files that match a sensitive pattern
          Store,           \* the file --config-destination names
          Heads,           \* bound: the base trees tried
          Policies         \* consumer configs: allowed, skipped and granted files

VARIABLES head, index, worktree,  \* git's three trees of the rendering job
          policy,
          commitPhase,              \* "new", "render", then how the commit ended
          result,             \* the tree of the published commit
          from                \* what it was made from: a "checkout", or a manifest
                              \* that was "whole" or "cut"

payloadVars == <<head, index, worktree, policy, commitPhase, result, from>>

NoFile == "absent"
Tree3 == [File -> Text \cup {NoFile}]
PolicyType == [allowed : SUBSET File, skipped : SUBSET File, granted : SUBSET File]

ASSUME PayloadAssumption ==
    /\ Sensitive \subseteq File /\ Store \in File
    /\ Heads \subseteq Tree3 /\ Policies \subseteq PolicyType

EmptyTree == [f \in File |-> NoFile]
NoPolicy == [allowed |-> {}, skipped |-> {}, granted |-> {}]

PayloadInit ==
    /\ head = EmptyTree /\ index = EmptyTree /\ worktree = EmptyTree
    /\ policy = NoPolicy /\ commitPhase = "new" /\ result = EmptyTree /\ from = "none"

-----------------------------------------------------------------------------
(* git status --porcelain -z -uall.  A file's two letters compare the      *)
(* index with the head and the working tree with the index; a file only in *)
(* the working tree is an entry of its own, also beside a staged deletion. *)
(* A staged deletion and addition of one content are a rename.             *)
Staged(f) == IF index[f] = head[f] THEN {} ELSE
             IF head[f] = NoFile THEN {"A"} ELSE
             IF index[f] = NoFile THEN {"D"} ELSE {"M"}
Unstaged(f) == IF index[f] = NoFile \/ worktree[f] = index[f] THEN {} ELSE
               IF worktree[f] = NoFile THEN {"D"} ELSE {"M"}
Untracked(f) == index[f] = NoFile /\ worktree[f] # NoFile

Pairs == {p \in File \X File : /\ Staged(p[1]) = {"D"} /\ Staged(p[2]) = {"A"}
                               /\ index[p[2]] = head[p[1]]}
(* A copy's source was changed in the index; git reports copies on demand. *)
Copies == {p \in File \X File : /\ Staged(p[1]) = {"M"} /\ Staged(p[2]) = {"A"}
                                /\ index[p[2]] = head[p[1]]}
Reported(renames, copies) ==
    /\ \A p, q \in renames : p # q => p[1] # q[1] /\ p[2] # q[2]
    /\ \A p \in Pairs : \E q \in renames : p[1] = q[1] \/ p[2] = q[2]
    /\ \A p, q \in copies : p # q => p[2] # q[2]
    /\ \A p \in copies, q \in renames : p[2] # q[2]

StatusEntry(code, f, source) == [code |-> code, file |-> f, source |-> source]

Status(renames, copies) ==
    {StatusEntry({"R"} \cup Unstaged(p[2]), p[2], p[1]) : p \in renames}
    \cup {StatusEntry({"C"} \cup Unstaged(p[2]), p[2], p[1]) : p \in copies}
    \cup {StatusEntry(Staged(f) \cup Unstaged(f), f, NoFile) :
            f \in {g \in File : /\ Staged(g) \cup Unstaged(g) # {}
                                /\ \A p \in renames : g \notin {p[1], p[2]}
                                /\ \A p \in copies : g # p[2]}}
    \cup {StatusEntry({"?"}, f, NoFile) : f \in {g \in File : Untracked(g)}}

(* Cutting the manifest short loses entries, and the source of a rename or *)
(* copy when the cut falls between its two paths.                          *)
Paired(e) == e.code \cap {"R", "C"} # {}
Cuts(entries) ==
    (SUBSET entries)
    \cup UNION {{kept \cup {[e EXCEPT !.source = NoFile]} : kept \in SUBSET (entries \ {e})}
                : e \in {x \in entries : Paired(x)}}

-----------------------------------------------------------------------------
(* parse_status_bytes.                                                     *)
Truncated(m) == \E e \in m : Paired(e) /\ e.source = NoFile
Upserts(m) == {e.file : e \in {x \in m : Paired(x) \/ "D" \notin x.code}}
Deletes_Plain(m) == {e.file : e \in {x \in m : ~Paired(x) /\ "D" \in x.code}}   \* mutant

Deletes(m) == {e.file : e \in {x \in m : ~Paired(x) /\ "D" \in x.code}}
              \cup {e.source : e \in {x \in m : "R" \in x.code}}

(* validate_payload_paths.                                                 *)
Admitted(f) == f \in policy.allowed /\ f \notin policy.skipped
WriteAdmitted(f) == Admitted(f) /\ f # Store /\ (f \in Sensitive => f \in policy.granted)
DeleteAdmitted(f) == Admitted(f) /\ f \notin Sensitive

PayloadAdmits_WritesOnly(m) == \A f \in Upserts(m) : WriteAdmitted(f)   \* mutant

PayloadAdmits(m) ==
    /\ \A f \in Upserts(m) : WriteAdmitted(f)
    /\ \A f \in Deletes(m) : DeleteAdmitted(f)
    /\ Upserts(m) \cap Deletes(m) = {}

(* main: every write must be a file of the tree; the service refuses to    *)
(* delete what the base tree does not have.                                *)
CanCommit(m) == /\ \A f \in Upserts(m) : worktree[f] # NoFile
                /\ \A f \in Deletes(m) : head[f] # NoFile
Applied(m) == [f \in File |-> IF f \in Deletes(m) THEN NoFile
                              ELSE IF f \in Upserts(m) THEN worktree[f] ELSE head[f]]

CommitFrom(m, admitted, made) ==
    /\ from' = made
    /\ commitPhase' = IF Truncated(m) \/ ~admitted \/ ~CanCommit(m) THEN "refused"
                ELSE IF m = {} THEN "unchanged" ELSE "published"
    /\ result' = IF commitPhase' = "published" THEN Applied(m) ELSE head
    /\ UNCHANGED <<head, index, worktree, policy>>

-----------------------------------------------------------------------------
Start == /\ commitPhase = "new" /\ commitPhase' = "render"
         /\ head' \in Heads /\ index' = head' /\ worktree' = head' /\ policy' \in Policies
         /\ UNCHANGED <<result, from>>

Edit == /\ commitPhase = "render"
        /\ \E f \in File, t \in Text \cup {NoFile} : worktree' = [worktree EXCEPT ![f] = t]
        /\ UNCHANGED <<head, index, policy, commitPhase, result, from>>

Stage == /\ commitPhase = "render"
         /\ \E f \in File : index' = [index EXCEPT ![f] = worktree[f]]
         /\ UNCHANGED <<head, worktree, policy, commitPhase, result, from>>

ConsumerCommit == commitPhase = "render" /\ index = head /\ CommitFrom(Status({}, {}), TRUE, "checkout")

PayloadCommit ==
    /\ commitPhase = "render"
    /\ \E renames \in SUBSET Pairs : \E copies \in SUBSET Copies :
         /\ Reported(renames, copies)
         /\ LET full == Status(renames, copies) IN
              \E m \in Cuts(full) : CommitFrom(m, PayloadAdmits(m), IF m = full THEN "whole" ELSE "cut")

PayloadNext == Start \/ Edit \/ Stage \/ ConsumerCommit \/ PayloadCommit

PayloadSpec == PayloadInit /\ [][PayloadNext]_payloadVars

-----------------------------------------------------------------------------
PayloadTypeOK ==
    /\ {head, index, worktree, result} \subseteq Tree3 /\ policy \in PolicyType
    /\ from \in {"none", "checkout", "whole", "cut"}
    /\ commitPhase \in {"new", "render", "refused", "unchanged", "published"}

(* A commit made from a whole manifest has the very tree that was          *)
(* rendered, whatever was staged and changed again after staging, and one  *)
(* made from a manifest that was cut short has no half of a move: a file   *)
(* at its new place is gone from the old one (parse_status_bytes).         *)
Moved(old, new) == Pairs = {<<old, new>>} /\ result[new] # NoFile

PublishedAsRendered ==
    commitPhase = "published" =>
        /\ from # "cut" => result = worktree
        /\ \A old, new \in File : Moved(old, new) => result[old] = NoFile

(* The published tree of a payload differs from the base only where the    *)
(* consumer's config lets it, also when a move takes a file out of a place *)
(* the config does not let go (validate_payload_paths sees both paths).    *)
StaysAdmitted ==
    commitPhase = "published" /\ from # "checkout" =>
        \A f \in File : result[f] # head[f] =>
            /\ Admitted(f) /\ (f = Store => result[f] = NoFile)
            /\ f \in Sensitive => f \in policy.granted /\ result[f] # NoFile
=============================================================================
