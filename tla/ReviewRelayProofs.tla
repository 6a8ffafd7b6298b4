-------------------------- MODULE ReviewRelayProofs --------------------------
(***************************************************************************)
(* Proofs about the ledger of a review relay, for any number of sessions,  *)
(* comments and lost posts.  A thread only grows, so the first comment of  *)
(* a digest stays the first one; the results rest on that.                 *)
(***************************************************************************)
EXTENDS ReviewRelay, WellFoundedInduction, FiniteSetTheorems, TLAPS

(* No earlier comment equals the one at i.                                 *)
IsFirst(i) == \A j \in 1..(i - 1) : thread[j] # thread[i]

VerifiedAreFirst == \A i \in verified : IsFirst(i)

(* A run names no run, or one that was there when it was begun, by its     *)
(* first comment.                                                          *)
PointsInto(c, runs) == c.kind = "run" => c.of \in {0} \cup runs
RunsPointBack ==
    /\ \A i \in DOMAIN thread :
         PointsInto(thread[i], Canonical) /\ (thread[i].kind = "run" => thread[i].of < i)
    /\ \A s \in Session : PointsInto(session[s].comment, Canonical)
    /\ \A c \in late : PointsInto(c, Canonical)

RelayInv == RelayTypeOK /\ VerifiedAreFirst /\ RunsPointBack

-----------------------------------------------------------------------------
(* Least and greatest numbers.                                             *)
LEMMA LessThan == \A x, y \in Nat : x < y => <<x, y>> \in OpToRel(<, Nat)
  BY DEF OpToRel

LEMMA LeastNumber ==
    ASSUME NEW S \in SUBSET Nat, S # {}
    PROVE  Min(S) \in S /\ \A k \in S : Min(S) <= k
  <1>1. \E m \in S : \A k \in S : <<k, m>> \notin OpToRel(<, Nat)
    BY NatLessThanWellFounded, WFMin
  <1>2. PICK m \in S : \A k \in S : <<k, m>> \notin OpToRel(<, Nat)
    BY <1>1
  <1>3. \A k \in S : ~(k < m)
    BY <1>2, LessThan, Zenon
  <1>4. \A k \in S : m <= k
    BY <1>3
  <1> QED
    BY <1>4 DEF Min

LEMMA GreatestNumber ==
    ASSUME NEW S \in SUBSET Nat, S # {}, NEW b \in Nat, \A x \in S : x <= b
    PROVE  Max(S) \in S /\ \A k \in S : k <= Max(S)
  <1> DEFINE D == {b - x : x \in S}
  <1>1. \A x \in S : x \in Nat /\ b - x \in Nat
    OBVIOUS
  <1>2. D \in SUBSET Nat /\ D # {}
    BY <1>1
  <1>30. \E m \in D : \A k \in D : m <= k
    <2> HIDE DEF D
    <2> QED
      BY <1>2, LeastNumber
  <1>3. PICK m \in D : \A k \in D : m <= k
    BY <1>30
  <1>4. PICK x \in S : m = b - x
    BY <1>3
  <1>5. \A k \in S : b - x <= b - k
    BY <1>3, <1>4
  <1>6. \A k \in S : k <= x
    BY <1>1, <1>5
  <1> QED
    BY <1>6 DEF Max

(* A finite set of numbers has a greatest: the one fewest numbers exceed.  *)
Exceeding(S, x) == {y \in S : y > x}

LEMMA GreatestOfFinite ==
    ASSUME NEW S \in SUBSET Nat, S # {}, IsFiniteSet(S)
    PROVE  Max(S) \in S /\ \A k \in S : k <= Max(S)
  <1> DEFINE C == {Cardinality(Exceeding(S, x)) : x \in S}
  <1>1. \A x \in S : IsFiniteSet(Exceeding(S, x)) /\ Cardinality(Exceeding(S, x)) \in Nat
    <2> TAKE x \in S
    <2>1. Exceeding(S, x) \in SUBSET S
      BY DEF Exceeding
    <2> QED
      BY <2>1, FS_Subset, FS_CardinalityType
  <1>2. C \in SUBSET Nat /\ C # {}
    BY <1>1
  <1>3. \E m \in C : \A k \in C : m <= k
    <2> HIDE DEF C
    <2> QED
      BY <1>2, LeastNumber
  <1>4. PICK x \in S : \A k \in C : Cardinality(Exceeding(S, x)) <= k
    BY <1>3
  <1>5. ASSUME NEW z \in S, z > x PROVE FALSE
    <2>0. ~(z > z) /\ \A y \in S : y > z => y > x
      <3> HIDE DEF C
      <3> QED
        BY <1>5
    <2>1. Exceeding(S, z) \in SUBSET Exceeding(S, x) /\ z \in Exceeding(S, x) /\ z \notin Exceeding(S, z)
      BY <1>5, <2>0, Zenon DEF Exceeding
    <2>2. /\ IsFiniteSet(Exceeding(S, x))
          /\ Cardinality(Exceeding(S, x)) \in Nat /\ Cardinality(Exceeding(S, z)) \in Nat
      BY <1>1
    <2>3. /\ Cardinality(Exceeding(S, z)) <= Cardinality(Exceeding(S, x))
          /\ Cardinality(Exceeding(S, z)) = Cardinality(Exceeding(S, x)) => Exceeding(S, z) = Exceeding(S, x)
      BY <2>1, <2>2, FS_Subset
    <2>4. Cardinality(Exceeding(S, x)) <= Cardinality(Exceeding(S, z))
      BY <1>4
    <2> QED
      BY <2>1, <2>2, <2>3, <2>4
  <1>6. \A k \in S : k <= x
    BY <1>5
  <1> QED
    BY <1>6 DEF Max

-----------------------------------------------------------------------------
(* The greatest of the tiers' caps is a cap, and a round has a number.     *)
LEMMA RoundsHaveGreatest ==
    /\ Max(Rounds) \in Nat
    /\ \A n \in Rounds : n \in Nat /\ n <= Max(Rounds)
  <1> DEFINE Caps == {TierCap[t] : t \in Tier}
  <1>1. Caps \in SUBSET Nat /\ Caps # {}
    BY RelayAssumption
  <1>2. IsFiniteSet(Caps)
    <2>1. [t \in Tier |-> TierCap[t]] \in Surjection(Tier, Caps)
      BY DEF Surjection
    <2> QED
      BY <2>1, FS_Surjection, RelayAssumption
  <1>3. Max(Caps) \in Nat
    <2> HIDE DEF Caps
    <2> QED
      BY <1>1, <1>2, GreatestOfFinite
  <1>4. Rounds = 1..(Max(Caps) + 1)
    BY DEF Rounds
  <1>5. Rounds \in SUBSET Nat /\ Rounds # {} /\ \A n \in Rounds : n <= Max(Caps) + 1
    <2> HIDE DEF Caps
    <2> QED
      BY <1>3, <1>4
  <1>6. Max(Caps) + 1 \in Nat
    <2> HIDE DEF Caps
    <2> QED
      BY <1>3
  <1> QED
    <2> HIDE DEF Caps
    <2> QED
      BY <1>3, <1>5, <1>6, GreatestNumber

(* The thread's places are numbers up to its length.                       *)
LEMMA Places ==
    ASSUME RelayTypeOK
    PROVE  /\ Len(thread) \in Nat /\ Len(thread) <= MaxComments
           /\ DOMAIN thread = 1..Len(thread)
           /\ \A i \in DOMAIN thread : thread[i] \in Comment
  BY RelayAssumption DEF RelayTypeOK

LEMMA CurrentRunIsCanonical ==
    ASSUME RelayTypeOK
    PROVE  /\ CurrentRun \in {0} \cup Canonical
           /\ CurrentRun \in 0..MaxComments
  <1> DEFINE S == {0} \cup Canonical
  <1>1. S \in SUBSET Nat /\ S # {} /\ \A x \in S : x <= Len(thread)
    BY Places DEF Canonical
  <1>2. Max(S) \in S
    <2> HIDE DEF S
    <2> QED
      BY <1>1, GreatestNumber, Places
  <1> QED
    BY <1>1, <1>2, Places, RelayAssumption DEF CurrentRun

(* The greatest run before i.                                              *)
LEMMA RunBefore ==
    ASSUME RelayTypeOK, NEW i \in Canonical
    PROVE  /\ CanonicalBefore(i) \in {0} \cup {j \in Canonical : j < i}
           /\ \A k \in {0} \cup {j \in Canonical : j < i} : k <= CanonicalBefore(i)
  <1> DEFINE S == {0} \cup {j \in Canonical : j < i}
  <1>1. S \in SUBSET Nat /\ S # {} /\ \A x \in S : x <= Len(thread)
    BY Places DEF Canonical
  <1>2. Max(S) \in S /\ \A k \in S : k <= Max(S)
    <2> HIDE DEF S
    <2> QED
      BY <1>1, GreatestNumber, Places
  <1> QED
    BY <1>2 DEF CanonicalBefore

(* A canonical comment is the first of its digest.                         *)
LEMMA FirstOfCanonical ==
    ASSUME RelayTypeOK, NEW i \in {0} \cup Canonical
    PROVE  FirstOf(i) = i
  <1>1. CASE i = 0
    BY <1>1 DEF FirstOf
  <1>2. CASE i # 0
    <2> DEFINE S == {j \in DOMAIN thread : thread[j] = thread[i]}
    <2>1. i \in Canonical
      BY <1>2
    <2>2. S \in SUBSET Nat /\ i \in S /\ i \in Nat
      BY <2>1, Places DEF Canonical
    <2>3. \A j \in S : ~(j < i)
      BY <2>1, Places DEF Canonical
    <2>4. Min(S) \in S /\ Min(S) <= i
      <3> HIDE DEF S
      <3> QED
        BY <2>2, LeastNumber
    <2>5. Min(S) = i
      <3> HIDE DEF S
      <3> QED
        <4>1. Min(S) \in Nat /\ i \in Nat /\ ~(Min(S) < i) /\ Min(S) <= i
          BY <2>2, <2>3, <2>4
        <4> QED
          BY <4>1
    <2> QED
      BY <1>2, <2>5 DEF FirstOf
  <1> QED
    BY <1>1, <1>2

-----------------------------------------------------------------------------
(* A comment that arrives is after every other, and moves none.            *)
LEMMA ThreadGrows ==
    ASSUME RelayTypeOK, NEW c \in Comment, thread' = Append(thread, c)
    PROVE  /\ thread' \in Seq(Comment) /\ Len(thread') = Len(thread) + 1
           /\ DOMAIN thread' = 1..(Len(thread) + 1)
           /\ \A i \in DOMAIN thread : i \in DOMAIN thread' /\ thread'[i] = thread[i]
           /\ thread'[Len(thread) + 1] = c
  BY DEF RelayTypeOK

LEMMA FirstStaysFirst ==
    ASSUME RelayTypeOK, NEW c \in Comment, thread' = Append(thread, c)
    PROVE  /\ \A i \in DOMAIN thread : IsFirst(i) => IsFirst(i)'
           /\ Canonical \subseteq Canonical'
           /\ Canonical \subseteq 1..Len(thread)
  BY ThreadGrows, Places DEF IsFirst, Canonical

(* What a step that posts c does to the invariant: the sessions and the    *)
(* posts that are late hold only comments that were held before.           *)
LEMMA PostingKeepsInv ==
    ASSUME RelayInv, NEW c \in Comment, PointsInto(c, Canonical),
           thread' = Append(thread, c), Len(thread) < MaxComments,
           session' \in [Session -> SessionType],
           \A s \in Session : session'[s].comment \in {session[s].comment, Blank},
           late' \subseteq late, verified' = verified
    PROVE  RelayInv'
  <1> USE DEF RelayInv
  <1>1. /\ thread' \in Seq(Comment) /\ Len(thread') = Len(thread) + 1
        /\ DOMAIN thread' = 1..(Len(thread) + 1)
        /\ \A i \in DOMAIN thread : i \in DOMAIN thread' /\ thread'[i] = thread[i]
        /\ thread'[Len(thread) + 1] = c
    BY ThreadGrows
  <1>2. /\ \A i \in DOMAIN thread : IsFirst(i) => IsFirst(i)'
        /\ Canonical \subseteq Canonical' /\ Canonical \subseteq 1..Len(thread)
    BY FirstStaysFirst
  <1>3. RelayTypeOK'
    <2>1. Len(thread') <= MaxComments
      BY <1>1, Places, RelayAssumption
    <2>2. verified' \subseteq DOMAIN thread'
      BY <1>1 DEF RelayTypeOK
    <2> QED
      BY <1>1, <2>1, <2>2 DEF RelayTypeOK
  <1>4. VerifiedAreFirst'
    BY <1>2 DEF VerifiedAreFirst, RelayTypeOK
  <1>5. \A d : PointsInto(d, Canonical) => PointsInto(d, Canonical')
    BY <1>2 DEF PointsInto
  <1>6. RunsPointBack'
    <2>1. ASSUME NEW i \in DOMAIN thread'
          PROVE  /\ PointsInto(thread'[i], Canonical')
                 /\ thread'[i].kind = "run" => thread'[i].of < i
      <3>1. CASE i \in DOMAIN thread
        BY <3>1, <1>1, <1>5, Zenon DEF RunsPointBack
      <3>2. CASE i = Len(thread) + 1
        <4>1. PointsInto(thread'[i], Canonical')
          BY <3>2, <1>1, <1>5, Zenon
        <4>2. c.kind = "run" => c.of < Len(thread) + 1
          <5>1. Len(thread) \in Nat /\ Canonical \subseteq 1..Len(thread)
            BY <1>2, Places
          <5>2. c.kind = "run" => c.of \in {0} \cup Canonical
            BY DEF PointsInto
          <5>3. c.kind = "run" => c.of \in {0} \cup (1..Len(thread))
            BY <5>1, <5>2, Zenon
          <5> QED
            BY <5>1, <5>3
        <4> QED
          BY <3>2, <4>1, <4>2, <1>1, Zenon
      <3> QED
        BY <3>1, <3>2, <1>1, <2>1, Places
    <2>2. \A s \in Session : PointsInto(session'[s].comment, Canonical')
      <3>1. PointsInto(Blank, Canonical')
        BY DEF PointsInto, Blank
      <3> QED
        BY <3>1, <1>5, Zenon DEF RunsPointBack
    <2>3. \A d \in late' : PointsInto(d, Canonical')
      BY <1>5, Zenon DEF RunsPointBack
    <2> QED
      BY <2>1, <2>2, <2>3, Zenon DEF RunsPointBack
  <1> QED
    BY <1>3, <1>4, <1>6

(* What a step that posts nothing does to it: it may hold a comment that   *)
(* points back, and verify one that is the first of its digest.            *)
LEMMA DecidingKeepsInv ==
    ASSUME RelayInv, UNCHANGED thread,
           session' \in [Session -> SessionType],
           \A s \in Session : \/ session'[s].comment = session[s].comment
                              \/ PointsInto(session'[s].comment, Canonical),
           late' \in SUBSET Comment, \A c \in late' : PointsInto(c, Canonical),
           \A i \in verified' : i \in verified \/ (i \in DOMAIN thread /\ IsFirst(i))
    PROVE  RelayInv'
  <1> USE DEF RelayInv
  <1>1. Canonical' = Canonical
    BY DEF Canonical
  <1>2. RelayTypeOK'
    BY DEF RelayTypeOK
  <1>3. VerifiedAreFirst'
    BY DEF VerifiedAreFirst, IsFirst
  <1>4. RunsPointBack'
    BY <1>1 DEF RunsPointBack
  <1> QED
    BY <1>2, <1>3, <1>4

LEMMA Blanks ==
    /\ Blank \in Comment /\ IdleSession \in SessionType
    /\ \A R : PointsInto(Blank, R)
  BY RoundsHaveGreatest, RelayAssumption
     DEF Blank, Comment, IdleSession, SessionType, PointsInto

LEMMA InitInv == RelayInit => RelayInv
  <1> SUFFICES ASSUME RelayInit PROVE RelayInv
    OBVIOUS
  <1>1. thread = <<>> /\ DOMAIN thread = {} /\ Len(thread) = 0
    BY DEF RelayInit
  <1>2. RelayTypeOK
    BY <1>1, Blanks, RelayAssumption DEF RelayInit, RelayTypeOK
  <1>3. RunsPointBack
    BY <1>1, Blanks DEF RelayInit, RunsPointBack, IdleSession
  <1> QED
    BY <1>1, <1>2, <1>3 DEF RelayInit, RelayInv, VerifiedAreFirst

(* A command begins: it holds one comment, which points back.              *)
LEMMA EnterKeepsInv ==
    ASSUME RelayInv, NEW s \in Session, NEW step \in {"probe", "pass"}, NEW c \in Comment,
           PointsInto(c, Canonical), Enter(s, step, c, 0)
    PROVE  RelayInv'
  <1>1. [step |-> step, comment |-> c, target |-> 0] \in SessionType
    BY RelayAssumption DEF SessionType
  <1>2. session' \in [Session -> SessionType]
    BY <1>1 DEF RelayInv, RelayTypeOK, Enter
  <1>3. \A r \in Session : session'[r].comment = session[r].comment
                             \/ PointsInto(session'[r].comment, Canonical)
    BY DEF RelayInv, RelayTypeOK, Enter
  <1> QED
    BY <1>2, <1>3, DecidingKeepsInv DEF Enter, RelayInv, RelayTypeOK, RunsPointBack

LEMMA ReportKeepsInv ==
    ASSUME RelayInv, NEW i \in DOMAIN thread, IsFirst(i), Report(i)
    PROVE  RelayInv'
  BY DecidingKeepsInv DEF Report, RelayInv, RelayTypeOK, RunsPointBack

(* A session's command moves on, or ends.                                  *)
LEMMA SessionMoves ==
    ASSUME RelayTypeOK, NEW s \in Session,
           \/ Fail(s)
           \/ \E step \in {"confirm", "post", "reprobe"}, k \in 0..MaxComments : Go(s, step, k)
    PROVE  /\ session' \in [Session -> SessionType]
           /\ \A r \in Session : session'[r].comment \in {session[r].comment, Blank}
  <1> USE DEF RelayTypeOK
  <1>1. CASE Fail(s)
    BY <1>1, Blanks DEF Fail, IdleSession
  <1>2. ASSUME NEW step \in {"confirm", "post", "reprobe"}, NEW k \in 0..MaxComments,
               Go(s, step, k)
        PROVE  /\ session' \in [Session -> SessionType]
               /\ \A r \in Session : session'[r].comment \in {session[r].comment, Blank}
    <2>1. session[s] \in SessionType
      OBVIOUS
    <2>2. session' = [session EXCEPT ![s] = [session[s] EXCEPT !.step = step, !.target = k]]
      BY <1>2 DEF Go
    <2>3. /\ [session[s] EXCEPT !.step = step, !.target = k] \in SessionType
          /\ [session[s] EXCEPT !.step = step, !.target = k].comment = session[s].comment
      BY <2>1 DEF SessionType
    <2> QED
      BY <2>2, <2>3
  <1> QED
    BY <1>1, <1>2

LEMMA MovingKeepsInv ==
    ASSUME RelayInv, NEW s \in Session, UNCHANGED thread,
           \/ Fail(s)
           \/ \E step \in {"confirm", "post", "reprobe"}, k \in 0..MaxComments : Go(s, step, k),
           late' \in SUBSET Comment, \A c \in late' : PointsInto(c, Canonical),
           \A i \in verified' : i \in verified \/ (i \in DOMAIN thread /\ IsFirst(i))
    PROVE  RelayInv'
  <1>1. /\ session' \in [Session -> SessionType]
        /\ \A r \in Session : session'[r].comment \in {session[r].comment, Blank}
    BY SessionMoves DEF RelayInv
  <1>2. \A r \in Session : session'[r].comment = session[r].comment
                             \/ PointsInto(session'[r].comment, Canonical)
    BY <1>1, Blanks
  <1> QED
    BY <1>1, <1>2, DecidingKeepsInv

-----------------------------------------------------------------------------
LEMMA StartRunKeepsInv ==
    ASSUME RelayInv, NEW s \in Session, StartRun(s)
    PROVE  RelayInv'
  <1> DEFINE c(t) == [Blank EXCEPT !.kind = "run", !.tier = t, !.of = CurrentRun]
  <1>1. CurrentRun \in {0} \cup Canonical /\ CurrentRun \in 0..MaxComments
    BY CurrentRunIsCanonical DEF RelayInv
  <1>2. ASSUME NEW t \in Tier
        PROVE  c(t) \in Comment /\ PointsInto(c(t), Canonical)
    BY <1>1, Blanks DEF Blank, Comment, PointsInto
  <1>3. PICK t \in Tier : \/ CurrentRun # 0 /\ Report(CurrentRun)
                          \/ Enter(s, "probe", c(t), 0)
    BY DEF StartRun
  <1>4. CASE CurrentRun # 0 /\ Report(CurrentRun)
    <2>1. CurrentRun \in DOMAIN thread /\ IsFirst(CurrentRun)
      BY <1>1, <1>4 DEF Canonical, IsFirst
    <2> QED
      BY <1>4, <2>1, ReportKeepsInv
  <1>5. CASE Enter(s, "probe", c(t), 0)
    <2> HIDE DEF c
    <2> QED
      BY <1>2, <1>5, EnterKeepsInv
  <1> QED
    BY <1>3, <1>4, <1>5

(* A run with at most one terminal comment has it once.                    *)
LEMMA OneEnd ==
    ASSUME RelayTypeOK, NEW r, Cardinality(Ends(r)) <= 1, NEW i \in Ends(r)
    PROVE  i \in DOMAIN thread /\ IsFirst(i)
  <1>1. IsFiniteSet(Ends(r))
    <2>1. Ends(r) \in SUBSET Nat /\ \A k \in Ends(r) : k <= Len(thread)
      BY Places DEF Ends
    <2> QED
      BY <2>1, FS_BoundedSetOfNaturals, Places
  <1>2. Cardinality(Ends(r)) \in Nat /\ Cardinality(Ends(r)) # 0
    BY <1>1, FS_EmptySet, FS_CardinalityType
  <1>3. PICK x : Ends(r) = {x}
    BY <1>1, <1>2, FS_Singleton
  <1> QED
    BY <1>3, Places DEF Ends, IsFirst

LEMMA FinishRunKeepsInv ==
    ASSUME RelayInv, NEW s \in Session, FinishRun(s)
    PROVE  RelayInv'
  <1> DEFINE c(o) == [Blank EXCEPT !.kind = "end", !.of = CurrentRun, !.outcome = o]
  <1>1. CurrentRun \in {0} \cup Canonical /\ CurrentRun \in 0..MaxComments
    BY CurrentRunIsCanonical DEF RelayInv
  <1>2. ASSUME NEW o \in Outcome
        PROVE  c(o) \in Comment /\ PointsInto(c(o), Canonical)
    BY <1>1, Blanks DEF Blank, Comment, PointsInto
  <1>3. PICK o \in Outcome : \/ Enter(s, "probe", c(o), 0)
                             \/ \E i \in Ends(CurrentRun) : Report(i)
    BY DEF FinishRun
  <1>4. CASE \E i \in Ends(CurrentRun) : Report(i)
    <2>1. PICK i \in Ends(CurrentRun) : Report(i)
      BY <1>4
    <2>2. i \in DOMAIN thread /\ IsFirst(i)
      BY OneEnd DEF FinishRun, Ledger, RelayInv
    <2> QED
      BY <2>1, <2>2, ReportKeepsInv
  <1>5. CASE Enter(s, "probe", c(o), 0)
    <2> HIDE DEF c
    <2> QED
      BY <1>2, <1>5, EnterKeepsInv
  <1> QED
    BY <1>3, <1>4, <1>5

LEMMA PostHandoffKeepsInv ==
    ASSUME RelayInv, NEW s \in Session, PostHandoff(s)
    PROVE  RelayInv'
  <1> DEFINE c == [Blank EXCEPT !.kind = "handoff"]
  <1>1. c \in Comment /\ PointsInto(c, Canonical) /\ Enter(s, "probe", c, 0)
    BY Blanks DEF Blank, Comment, PointsInto, PostHandoff
  <1> HIDE DEF c
  <1> QED
    BY <1>1, EnterKeepsInv

LEMMA AuthorizePassKeepsInv ==
    ASSUME RelayInv, NEW s \in Session, AuthorizePass(s)
    PROVE  RelayInv'
  <1> DEFINE c(e, n) == [Blank EXCEPT !.kind = "pass", !.engine = e, !.round = n]
  <1>1. PICK e \in Engine, n \in Rounds : Enter(s, "pass", c(e, n), 0)
    BY DEF AuthorizePass
  <1>2. n \in 0..Max(Rounds)
    BY RoundsHaveGreatest
  <1>3. c(e, n) \in Comment /\ PointsInto(c(e, n), Canonical)
    BY <1>2, Blanks DEF Blank, Comment, PointsInto
  <1> HIDE DEF c
  <1> QED
    BY <1>1, <1>3, EnterKeepsInv

-----------------------------------------------------------------------------
LEMMA RecordPassKeepsInv ==
    ASSUME RelayInv, NEW s \in Session, RecordPass(s)
    PROVE  RelayInv'
  <1>1. session[s].comment \in Comment /\ PointsInto(session[s].comment, Canonical)
    BY DEF RelayInv, RelayTypeOK, SessionType, RunsPointBack
  <1>2. Fail(s)
    BY DEF RecordPass, Fail
  <1>3. /\ session' \in [Session -> SessionType]
        /\ \A r \in Session : session'[r].comment \in {session[r].comment, Blank}
    BY <1>2, SessionMoves DEF RelayInv
  <1> QED
    BY <1>1, <1>3, PostingKeepsInv DEF RecordPass

LEMMA PostKeepsInv ==
    ASSUME RelayInv, NEW s \in Session, Post(s)
    PROVE  RelayInv'
  <1>1. session[s].comment \in Comment /\ PointsInto(session[s].comment, Canonical)
    BY DEF RelayInv, RelayTypeOK, SessionType, RunsPointBack
  <1>2. Len(thread) + 1 \in 0..MaxComments /\ Go(s, "confirm", Len(thread) + 1)
    BY Places, RelayAssumption DEF Post, RelayInv
  <1>3. /\ session' \in [Session -> SessionType]
        /\ \A r \in Session : session'[r].comment \in {session[r].comment, Blank}
    BY <1>2, SessionMoves DEF RelayInv
  <1> QED
    BY <1>1, <1>3, PostingKeepsInv DEF Post

LEMMA ArriveLateKeepsInv ==
    ASSUME RelayInv, ArriveLate
    PROVE  RelayInv'
  <1>1. PICK c \in late : thread' = Append(thread, c) /\ late' = late \ {c}
    BY DEF ArriveLate
  <1>2. c \in Comment /\ PointsInto(c, Canonical)
    BY DEF RelayInv, RelayTypeOK, RunsPointBack
  <1>3. /\ session' \in [Session -> SessionType]
        /\ \A r \in Session : session'[r].comment \in {session[r].comment, Blank}
    BY DEF RelayInv, RelayTypeOK, ArriveLate
  <1> QED
    BY <1>1, <1>2, <1>3, PostingKeepsInv DEF ArriveLate

LEMMA ProbeKeepsInv ==
    ASSUME RelayInv, NEW s \in Session, Probe(s)
    PROVE  RelayInv'
  <1> DEFINE found == Matches(session[s].comment)
  <1>1. 0 \in 0..MaxComments
    BY RelayAssumption
  <1>2. found \in SUBSET Nat /\ \A k \in found : k <= Len(thread)
    BY Places DEF RelayInv, Matches
  <1>3. IsFiniteSet(found)
    <2> HIDE DEF found
    <2> QED
      BY <1>2, FS_BoundedSetOfNaturals, Places DEF RelayInv
  <1>4. Cardinality(found) = 1 => Max(found) \in 0..MaxComments
    <2> SUFFICES ASSUME Cardinality(found) = 1 PROVE Max(found) \in 0..MaxComments
      OBVIOUS
    <2>1. found # {}
      BY <1>3, FS_EmptySet
    <2>2. Max(found) \in found
      <3> HIDE DEF found
      <3> QED
        BY <1>2, <1>3, <2>1, GreatestOfFinite
    <2>3. Len(thread) <= MaxComments /\ Len(thread) \in Nat
      BY Places DEF RelayInv
    <2>4. \A k \in found : k \in 0..MaxComments
      <3> HIDE DEF found
      <3> QED
        BY <1>2, <2>3, RelayAssumption
    <2> QED
      BY <2>2, <2>4, Zenon
  <1>5. \/ Fail(s)
        \/ \E step \in {"confirm", "post", "reprobe"}, k \in 0..MaxComments : Go(s, step, k)
    BY <1>1, <1>4 DEF Probe
  <1> QED
    BY <1>5, MovingKeepsInv DEF Probe, RelayInv, RelayTypeOK, RunsPointBack

LEMMA LoseReplyKeepsInv ==
    ASSUME RelayInv, NEW s \in Session, LoseReply(s)
    PROVE  RelayInv'
  <1>1. session[s].comment \in Comment /\ PointsInto(session[s].comment, Canonical)
    BY DEF RelayInv, RelayTypeOK, SessionType, RunsPointBack
  <1>2. 0 \in 0..MaxComments
    BY RelayAssumption
  <1>3. late' \in SUBSET Comment /\ \A c \in late' : PointsInto(c, Canonical)
    BY <1>1, Zenon DEF LoseReply, RelayInv, RelayTypeOK, RunsPointBack
  <1> QED
    BY <1>2, <1>3, MovingKeepsInv DEF LoseReply

(* A comment is verified only when it is the only copy there is.           *)
LEMMA ConfirmKeepsInv ==
    ASSUME RelayInv, NEW s \in Session, Confirm(s)
    PROVE  RelayInv'
  <1>1. Confirmed(session[s].comment, session[s].target)
          => session[s].target \in DOMAIN thread /\ IsFirst(session[s].target)
    BY Places DEF Confirmed, Matches, IsFirst, RelayInv
  <1>2. \A i \in verified' : i \in verified \/ (i \in DOMAIN thread /\ IsFirst(i))
    BY <1>1, Zenon DEF Confirm
  <1> QED
    BY <1>2, MovingKeepsInv DEF Confirm, RelayInv, RelayTypeOK, RunsPointBack

LEMMA EndSessionKeepsInv ==
    ASSUME RelayInv, NEW s \in Session, EndSession(s)
    PROVE  RelayInv'
  BY MovingKeepsInv DEF EndSession, RelayInv, RelayTypeOK, RunsPointBack

LEMMA StutterKeepsInv ==
    ASSUME RelayInv, UNCHANGED relayVars
    PROVE  RelayInv'
  BY DEF RelayInv, RelayTypeOK, VerifiedAreFirst, IsFirst, RunsPointBack, Canonical, relayVars

LEMMA StepKeepsInv == RelayInv /\ [RelayNext]_relayVars => RelayInv'
  <1> SUFFICES ASSUME RelayInv, [RelayNext]_relayVars PROVE RelayInv'
    OBVIOUS
  <1>1. ASSUME NEW s \in Session, StartRun(s) \/ FinishRun(s) \/ PostHandoff(s)
        PROVE  RelayInv'
    BY <1>1, StartRunKeepsInv, FinishRunKeepsInv, PostHandoffKeepsInv
  <1>2. ASSUME NEW s \in Session, AuthorizePass(s) \/ RecordPass(s) \/ Probe(s)
        PROVE  RelayInv'
    BY <1>2, AuthorizePassKeepsInv, RecordPassKeepsInv, ProbeKeepsInv
  <1>3. ASSUME NEW s \in Session, Post(s) \/ LoseReply(s) \/ Confirm(s) \/ EndSession(s)
        PROVE  RelayInv'
    BY <1>3, PostKeepsInv, LoseReplyKeepsInv, ConfirmKeepsInv, EndSessionKeepsInv
  <1>4. CASE ArriveLate
    BY <1>4, ArriveLateKeepsInv
  <1>5. CASE UNCHANGED relayVars
    BY <1>5, StutterKeepsInv
  <1> QED
    BY <1>1, <1>2, <1>3, <1>4, <1>5 DEF RelayNext

-----------------------------------------------------------------------------
(* A chain that does not hold is broken first at some run i, which names   *)
(* an earlier run than the one before it.  The run n that follows the one  *)
(* i names is still in order, so it names the same one: n and i fork.      *)
LEMMA BrokenChainForks == RelayInv => ChainBreaksOnlyByFork
  <1> SUFFICES ASSUME RelayInv, ~ChainHolds
               PROVE  \E i, j \in Canonical :
                        thread[i].of = thread[j].of /\ thread[i] # thread[j]
    BY DEF ChainBreaksOnlyByFork
  <1> DEFINE Broken == {i \in Canonical : FirstOf(thread[i].of) # CanonicalBefore(i)}
  <1>1. \A k \in Canonical : k \in Nat
    BY Places DEF Canonical, RelayInv
  <1>2. Broken \in SUBSET Nat /\ Broken # {}
    BY <1>1 DEF ChainHolds
  <1>3. PICK i \in Broken : \A k \in Broken : i <= k
    <2> HIDE DEF Broken
    <2> QED
      BY <1>2, LeastNumber
  <1> DEFINE q == thread[i].of
             Between == {k \in Canonical : q < k /\ k < i}
  <1>4. i \in Canonical /\ i \in DOMAIN thread /\ thread[i].kind = "run" /\ i \in Nat
    BY <1>1, <1>3 DEF Canonical
  <1>5. q \in {0} \cup Canonical /\ q < i /\ q \in Nat
    <2>1. PointsInto(thread[i], Canonical) /\ q < i
      BY <1>4 DEF RelayInv, RunsPointBack
    <2>2. q \in {0} \cup Canonical
      BY <1>4, <2>1, Zenon DEF PointsInto
    <2> QED
      BY <1>1, <2>1, <2>2
  <1>6. FirstOf(q) = q
    BY <1>5, FirstOfCanonical DEF RelayInv
  <1>7. CanonicalBefore(i) \in Between
    <2>1. /\ CanonicalBefore(i) \in {0} \cup {j \in Canonical : j < i}
          /\ q <= CanonicalBefore(i)
      BY <1>4, <1>5, RunBefore DEF RelayInv
    <2>2. CanonicalBefore(i) # q
      BY <1>3, <1>6
    <2>3. CanonicalBefore(i) \in Nat
      BY <1>1, <2>1
    <2>4. q < CanonicalBefore(i)
      <3> HIDE DEF q
      <3> QED
        BY <1>5, <2>1, <2>2, <2>3
    <2> QED
      <3> HIDE DEF q
      <3> QED
        BY <1>5, <2>1, <2>4
  <1>8. PICK n \in Between : \A k \in Between : n <= k
    <2>1. Between \in SUBSET Nat /\ Between # {}
      BY <1>1, <1>7
    <2> HIDE DEF Between
    <2> QED
      BY <2>1, LeastNumber
  <1>9. n \in Canonical /\ q < n /\ n < i /\ n \in Nat
    BY <1>1, <1>8
  <1>10. CanonicalBefore(n) = q
    <2> DEFINE m == CanonicalBefore(n)
    <2>1. m \in {0} \cup {j \in Canonical : j < n} /\ q <= m
      BY <1>5, <1>9, RunBefore DEF RelayInv
    <2>2. m \in Nat
      BY <1>1, <2>1
    <2>3. ~(q < m)
      <3> SUFFICES ASSUME q < m PROVE FALSE
        OBVIOUS
      <3> HIDE DEF q, m
      <3>1. m \in Canonical /\ m < n /\ m < i
        BY <1>4, <1>5, <1>9, <2>1, <2>2
      <3>2. n <= m
        BY <1>8, <3>1
      <3> QED
        BY <1>9, <2>2, <3>1, <3>2
    <2> HIDE DEF q, m
    <2>4. m = q
      BY <1>5, <2>1, <2>2, <2>3
    <2> QED
      BY <2>4 DEF m
  <1>11. n \notin Broken
    <2> HIDE DEF Broken
    <2> QED
      BY <1>3, <1>4, <1>9
  <1>12. FirstOf(thread[n].of) = q
    BY <1>9, <1>10, <1>11
  <1>13. thread[n].of \in {0} \cup Canonical
    BY <1>9 DEF RelayInv, RunsPointBack, PointsInto, Canonical
  <1>14. thread[n].of = q
    BY <1>12, <1>13, FirstOfCanonical DEF RelayInv
  <1>15. thread[n] # thread[i]
    <2>1. \A j \in 1..(i - 1) : thread[j] # thread[i]
      BY <1>4, Zenon DEF Canonical
    <2>2. n \in 1..(i - 1)
      <3> HIDE DEF q
      <3> QED
        BY <1>4, <1>5, <1>9
    <2> QED
      BY <2>1, <2>2, Zenon
  <1> QED
    BY <1>4, <1>9, <1>14, <1>15

-----------------------------------------------------------------------------
LEMMA RelayInvariant == RelaySpec => []RelayInv
  <1>1. RelayInit => RelayInv
    BY InitInv
  <1>2. RelayInv /\ [RelayNext]_relayVars => RelayInv'
    BY StepKeepsInv
  <1> QED
    BY <1>1, <1>2, PTL DEF RelaySpec

(* The ledger and the sessions keep their types, and no thread outgrows    *)
(* the bound on its comments.                                              *)
THEOREM RelayTypeCorrect == RelaySpec => []RelayTypeOK
  <1>1. RelayInv => RelayTypeOK
    BY DEF RelayInv
  <1> QED
    BY <1>1, RelayInvariant, PTL

(* However many sessions post, lose a reply or arrive late, at most one    *)
(* copy of a comment is ever reported as verified (_post_issue_comment):   *)
(* one that is verified is the first of its digest.                        *)
THEOREM OneCopyIsVerified == RelaySpec => []OneVerifiedComment
  <1>1. RelayInv => OneVerifiedComment
    <2> SUFFICES ASSUME RelayInv, NEW i \in verified, NEW j \in verified, thread[i] = thread[j]
                 PROVE  i = j
      BY DEF OneVerifiedComment
    <2>1. i \in 1..Len(thread) /\ j \in 1..Len(thread) /\ Len(thread) \in Nat
      BY Places DEF RelayInv, RelayTypeOK
    <2>2. IsFirst(i) /\ IsFirst(j)
      BY DEF RelayInv, VerifiedAreFirst
    <2>3. ~(i < j) /\ ~(j < i)
      BY <2>1, <2>2 DEF IsFirst
    <2> QED
      BY <2>1, <2>3
  <1> QED
    BY <1>1, RelayInvariant, PTL

(* Copies of a run, of retries and of late posts, never break the chain of *)
(* supersessions that _run_records reads: only a fork does.                *)
THEOREM OnlyForksBreakTheChain == RelaySpec => []ChainBreaksOnlyByFork
  BY BrokenChainForks, RelayInvariant, PTL
=============================================================================
