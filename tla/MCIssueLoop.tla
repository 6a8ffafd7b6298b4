------------------------------ MODULE MCIssueLoop ------------------------------
(* Instances of IssueLoop for TLC; the bounds are in the cfg files.          *)
EXTENDS IssueLoopProperties, TLC

CONSTANTS A, B       \* the logins of the batch and of the queue loops

LoginsOfTheirOwn == [o \in {Batch} \cup QueueProcs |-> IF o = Batch THEN A ELSE B]
OneLogin == [o \in {Batch} \cup QueueProcs |-> A]
===============================================================================
