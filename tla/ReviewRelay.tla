----------------------------- MODULE ReviewRelay -----------------------------
(***************************************************************************)
(* The ledger of a manual review relay, local-review-handoff.py: runs,     *)
(* their terminal results and handoffs are comments of one PR that only    *)
(* grow, written by several sessions of one user.  Nothing locks the PR:   *)
(* a command reads the comments, decides, posts, and reads again.          *)
(*                                                                         *)
(* A comment is the fields of its marker; two comments with equal fields   *)
(* have one digest.  "tier" stands for all the terms of a run: tier, base, *)
(* start head and authorization text.  Every command also compares the     *)
(* PR's head with its own before and after a post: a head that moved is    *)
(* one of the failures a command may end with at any step (EndSession).    *)
(***************************************************************************)
EXTENDS Integers, Sequences, FiniteSetsExt

CONSTANTS Session, Engine, Tier, TierCap, Outcome,
          MaxComments, MaxLate, MaxHandoffAt   \* bounds: comments, late posts, and
                                 \* comments there are when a handoff is posted

ASSUME RelayAssumption ==
    /\ Tier # {} /\ IsFiniteSet(Tier) /\ TierCap \in [Tier -> Nat \ {0}]
    /\ MaxComments \in Nat

VARIABLES thread,    \* the PR's comments, in the order of their ids
          session,   \* the command each session is in
          late,      \* posts whose reply was lost and that may still arrive
          lateUsed, verified  \* comments some command reported as verified

relayVars == <<thread, session, late, lateUsed, verified>>

Blank == [kind |-> "none", tier |-> "none", of |-> 0, outcome |-> "none",
          engine |-> "none", round |-> 0]
IdleSession == [step |-> "idle", comment |-> Blank, target |-> 0]
Rounds == 1..(Max({TierCap[t] : t \in Tier}) + 1)

RelayInit ==
    /\ thread = <<>> /\ session = [s \in Session |-> IdleSession]
    /\ late = {} /\ lateUsed = 0 /\ verified = {}

-----------------------------------------------------------------------------
Canonical_EveryCopy == {i \in DOMAIN thread : thread[i].kind = "run"}\* mutant

(* _run_records: the first comment of every digest, and the chain they     *)
(* must form; a later duplicate is an alias of the first.                  *)
Canonical == {i \in DOMAIN thread : /\ thread[i].kind = "run"
                                    /\ \A j \in 1..(i - 1) : thread[j] # thread[i]}
FirstOf(i) == IF i = 0 THEN 0 ELSE Min({j \in DOMAIN thread : thread[j] = thread[i]})
CanonicalBefore(i) == Max({0} \cup {j \in Canonical : j < i})
ChainHolds == \A i \in Canonical : FirstOf(thread[i].of) = CanonicalBefore(i)
CurrentRun == Max({0} \cup Canonical)

(* _run_end: more than one terminal marker of a run is refused.            *)
Ends(r) == {i \in DOMAIN thread : thread[i].kind = "end" /\ thread[i].of = r}
Ledger == ChainHolds /\ Cardinality(Ends(CurrentRun)) <= 1
Ended(r) == Ends(r) # {}

(* The passes that count for the current run: those after its comment.     *)
PassesOf(r) == {thread[i] : i \in {j \in DOMAIN thread : j > r /\ thread[j].kind = "pass"}}
HighestRound(r) == Max({0} \cup {p.round : p \in PassesOf(r)})

(* _matching_body.                                                         *)
Matches(c) == {i \in DOMAIN thread : thread[i] = c}

-----------------------------------------------------------------------------
(* A pass is one session's turn of the relay: no other command runs beside *)
(* it.  Calls of the other commands may overlap, as a call and its retry.  *)
InPass(s) == session[s].comment.kind = "pass"
MayBegin(s) == session[s].step = "idle" /\ \A r \in Session : ~InPass(r)

Enter(s, step, comment, target) ==
    /\ session' = [session EXCEPT ![s] = [step |-> step, comment |-> comment, target |-> target]]
    /\ UNCHANGED <<thread, late, lateUsed, verified>>

Report(i) == verified' = verified \cup {i} /\ UNCHANGED <<thread, session, late, lateUsed>>

(* start-run: the same run again, the first run, or an explicit restart of *)
(* a run that has ended.                                                   *)
StartRun(s) ==
    /\ MayBegin(s) /\ Ledger
    /\ \E t \in Tier, restart \in BOOLEAN :
         LET r == CurrentRun
             c == [Blank EXCEPT !.kind = "run", !.tier = t, !.of = r]
         IN \/ /\ r # 0 /\ ~restart /\ ~Ended(r) /\ thread[r].tier = t
               /\ Report(r)
            \/ r = 0 /\ Enter(s, "probe", c, 0)
            \/ r # 0 /\ restart /\ Ended(r) /\ Enter(s, "probe", c, 0)

FinishRun(s) ==
    /\ MayBegin(s) /\ Ledger /\ CurrentRun # 0
    /\ \E o \in Outcome :
         LET r == CurrentRun
             c == [Blank EXCEPT !.kind = "end", !.of = r, !.outcome = o]
         IN \/ ~Ended(r) /\ Enter(s, "probe", c, 0)
            \/ \E i \in Ends(r) : thread[i] = c /\ Report(i)

PostHandoff(s) ==
    /\ MayBegin(s) /\ Len(thread) <= MaxHandoffAt
    /\ Enter(s, "probe", [Blank EXCEPT !.kind = "handoff"], 0)

(* authorize-pass: within the tier's cap, no round skipped, none repeated. *)
PassAllowed(r, e, n) ==
    /\ n <= TierCap[thread[r].tier]
    /\ ~\E p \in PassesOf(r) : p.engine = e /\ p.round = n
    /\ n <= HighestRound(r) + 1

AuthorizePass(s) ==
    /\ \A r \in Session : session[r].step = "idle"
    /\ Ledger /\ CurrentRun # 0 /\ ~Ended(CurrentRun)
    /\ \E e \in Engine, n \in Rounds :
         /\ PassAllowed(CurrentRun, e, n)
         /\ Enter(s, "pass", [Blank EXCEPT !.kind = "pass", !.engine = e, !.round = n], 0)

(* The pass itself, recorded by the review ledger's helper.                *)
RecordPass(s) ==
    /\ session[s].step = "pass" /\ Len(thread) < MaxComments
    /\ thread' = Append(thread, session[s].comment)
    /\ session' = [session EXCEPT ![s] = IdleSession]
    /\ UNCHANGED <<late, lateUsed, verified>>

-----------------------------------------------------------------------------
Go(s, step, target) ==
    session' = [session EXCEPT ![s].step = step, ![s].target = target]
Fail(s) == session' = [session EXCEPT ![s] = IdleSession]

(* _post_issue_comment: look for the comment, post it if it is not there,  *)
(* look again if the reply is lost.                                        *)
Probe(s) ==
    /\ session[s].step \in {"probe", "reprobe"}
    /\ LET found == Matches(session[s].comment) IN
         \/ Cardinality(found) = 1 /\ Go(s, "confirm", Max(found))
         \/ found = {} /\ session[s].step = "probe" /\ Go(s, "post", 0)
         \/ /\ Cardinality(found) # 1 /\ (found = {} => session[s].step = "reprobe")
            /\ Fail(s)
    /\ UNCHANGED <<thread, late, lateUsed, verified>>

Post(s) ==
    /\ session[s].step = "post" /\ Len(thread) < MaxComments
    /\ thread' = Append(thread, session[s].comment)
    /\ Go(s, "confirm", Len(thread) + 1)
    /\ UNCHANGED <<late, lateUsed, verified>>

LoseReply(s) ==
    /\ session[s].step = "post" /\ lateUsed < MaxLate
    /\ late' = late \cup {session[s].comment} /\ lateUsed' = lateUsed + 1
    /\ Go(s, "reprobe", 0) /\ UNCHANGED <<thread, verified>>

Confirmed_Present(c, target) == target \in Matches(c)              \* mutant

(* The posted comment must be the only one with its marker.                *)
Confirmed(c, target) == Matches(c) = {target}

Confirm(s) ==
    /\ session[s].step = "confirm"
    /\ IF Confirmed(session[s].comment, session[s].target)
       THEN verified' = verified \cup {session[s].target} ELSE UNCHANGED verified
    /\ Fail(s) /\ UNCHANGED <<thread, late, lateUsed>>

ArriveLate ==
    /\ Len(thread) < MaxComments
    /\ \E c \in late : thread' = Append(thread, c) /\ late' = late \ {c}
    /\ UNCHANGED <<session, lateUsed, verified>>

EndSession(s) == session[s].step # "idle" /\ Fail(s) /\ UNCHANGED <<thread, late, lateUsed, verified>>

RelayNext ==
    \/ \E s \in Session :
         \/ StartRun(s) \/ FinishRun(s) \/ PostHandoff(s) \/ AuthorizePass(s) \/ RecordPass(s)
         \/ Probe(s) \/ Post(s) \/ LoseReply(s) \/ Confirm(s) \/ EndSession(s)
    \/ ArriveLate

RelaySpec == RelayInit /\ [][RelayNext]_relayVars

-----------------------------------------------------------------------------
Comment == [kind : {"none", "run", "end", "pass", "handoff"}, tier : Tier \cup {"none"},
            of : 0..MaxComments, outcome : Outcome \cup {"none"},
            engine : Engine \cup {"none"}, round : 0..(Max(Rounds))]

SessionType == [step : {"idle", "probe", "reprobe", "post", "confirm", "pass"},
                comment : Comment, target : 0..MaxComments]

RelayTypeOK ==
    /\ thread \in Seq(Comment) /\ Len(thread) <= MaxComments
    /\ late \subseteq Comment /\ verified \subseteq DOMAIN thread
    /\ session \in [Session -> SessionType]

(* Whatever overlaps, is lost or arrives late, at most one comment of a    *)
(* marker is ever reported as verified: a session that posted the second   *)
(* copy fails (the check at the end of _post_issue_comment).               *)
OneVerifiedComment ==
    \A i, j \in verified : thread[i] = thread[j] => i = j

(* Retries, crashes, lost and late posts never make the chain of runs      *)
(* unreadable for good, however many copies of a run they leave: only two  *)
(* different runs that supersede the same one do ("supersession chain is   *)
(* incomplete or forked").                                                 *)
ChainBreaksOnlyByFork ==
    ~ChainHolds => \E i, j \in Canonical : thread[i].of = thread[j].of /\ thread[i] # thread[j]
=============================================================================
