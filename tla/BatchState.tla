----------------------------- MODULE BatchState -----------------------------
(***************************************************************************)
(* The private checkpoint of an ordered batch (batch-state.json) and the   *)
(* two writes made to it through agent-loop-state.py: batch-create and the *)
(* compare-and-set batch-update.  Both happen under the batch lock and are *)
(* atomic.  Issues are numbered by their place in the allowlist.           *)
(***************************************************************************)
EXTENDS Integers

CONSTANTS
    N,           \* issues in the allowlist
    NoBatch      \* the file does not exist yet

ASSUME NAssumption == N \in Nat \ {0}

Issues == 1..N
RowStatuses == {"pending", "active", "finalized", "bailed"}
SettledStatuses == {"finalized", "bailed"}

(* cursor is the number of issues passed; child is a recorded              *)
(* childRunState, which always is the checkpoint of the row's own issue.   *)
Batches == [cursor : 0..N, rows : [Issues -> [status : RowStatuses, child : BOOLEAN]]]

ASSUME NoBatchAssumption == NoBatch \notin Batches

AtCursor(b, i) == b.cursor < N /\ i = b.cursor + 1

ValidBatch(b) ==
    \A i \in Issues :
        /\ i <= b.cursor => b.rows[i].status \in SettledStatuses
        /\ i > b.cursor + 1 => b.rows[i].status = "pending"
        /\ AtCursor(b, i) => b.rows[i].status \in {"pending", "active"}

NewBatch ==
    [cursor |-> 0, rows |-> [i \in Issues |-> [status |-> "pending", child |-> FALSE]]]

Transitions ==
    {<<"pending", "active">>, <<"pending", "bailed">>,
     <<"active", "active">>, <<"active", "finalized">>, <<"active", "bailed">>}

(* batch-update refuses everything but the issue at the cursor, in the     *)
(* status the caller believes it to be in.                                 *)
CanUpdate_AnyStatus(b, i, expected, status, attach) ==            \* mutant
    AtCursor(b, i) /\ <<expected, status>> \in Transitions
CanUpdate(b, i, expected, status, attach) ==
    /\ AtCursor(b, i)
    /\ b.rows[i].status = expected
    /\ <<expected, status>> \in Transitions
    /\ status = "finalized" => b.rows[i].child \/ attach

UpdateBatch_Stays(b, i, status, attach) ==                       \* mutant
    [b EXCEPT !.rows[i] = [status |-> status, child |-> @.child \/ attach]]
UpdateBatch_Eager(b, i, status, attach) ==                       \* mutant
    [cursor |-> IF b.rows[i].status = "pending" THEN b.cursor + 1 ELSE b.cursor,
     rows   |-> [b.rows EXCEPT ![i] = [status |-> status, child |-> @.child \/ attach]]]
UpdateBatch(b, i, status, attach) ==
    [cursor |-> IF status \in SettledStatuses THEN b.cursor + 1 ELSE b.cursor,
     rows   |-> [b.rows EXCEPT ![i] = [status |-> status, child |-> @.child \/ attach]]]
=============================================================================
