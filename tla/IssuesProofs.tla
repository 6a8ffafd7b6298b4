---------------------------- MODULE IssuesProofs ----------------------------
(***************************************************************************)
(* Proofs about the issue tools: link.py writes the blocked side first,    *)
(* for any number of runs on any issues, however they interleave, die and  *)
(* are repeated; and the list of ready.py is true, for any issues and PRs, *)
(* whatever changes between its queries.                                   *)
(***************************************************************************)
EXTENDS IssueLinks, ReadyQueue, TLAPS

(* The line "Blocked by" of l's pair has been written.                     *)
BlockedWritten(l) == Written(Blocked[l], BlockedBy(l))

(* What a run must know before it writes the blocking side; and what the   *)
(* copies it is about to put back may hold.                                *)
StepsKnow ==
    \A l \in Linker : linker[l].step \in {"copyBlocking", "writeBlocking"}
                        \/ linker[l].hasBlocked => BlockedWritten(l)

PutsBack(k, issue) == \/ linker[k].step = "writeBlocked" /\ issue = Blocked[k]
                      \/ linker[k].step = "writeBlocking" /\ issue = Blocking[k]

CopiesKnow ==
    \A k, l \in Linker : PutsBack(k, Blocking[l]) /\ Blocks(l) \in linker[k].copy
                           => BlockedWritten(l)

LinkInv == LinkTypeOK /\ StepsKnow /\ CopiesKnow /\ BlockedSideFirst

-----------------------------------------------------------------------------
(* The lines that the runs write are lines, of issues that are linked.     *)
LEMMA LinesOfRun ==
    ASSUME NEW l \in Linker
    PROVE  /\ Blocked[l] \in Linked /\ Blocking[l] \in Linked
           /\ BlockedBy(l) \in Lines /\ Blocks(l) \in Lines
  BY DEF Linked, Lines

(* The two phrases differ, and a line says which issue it names.           *)
LEMMA LinesDiffer ==
    ASSUME NEW l \in Linker, NEW k \in Linker
    PROVE  /\ Blocks(k) # BlockedBy(l)
           /\ Blocks(k) = Blocks(l) => Blocked[k] = Blocked[l]
           /\ Blocking[k] = Blocking[l] => BlockedBy(k) = BlockedBy(l)
  BY DEF Blocks, BlockedBy, LinkLine

LEMMA LinkTypeInit == LinkInit => LinkTypeOK
  BY DEF LinkInit, LinkTypeOK, RunType, NewRun

LEMMA LinkTypeStep == LinkTypeOK /\ [LinkNext]_linkVars => LinkTypeOK'
  <1> SUFFICES ASSUME LinkTypeOK, [LinkNext]_linkVars PROVE LinkTypeOK'
    OBVIOUS
  <1>1. CASE UNCHANGED linkVars
    BY <1>1 DEF LinkTypeOK, RunType, linkVars
  <1>2. ASSUME NEW l \in Linker, LinkStep(l) \/ LinkerDies(l) PROVE LinkTypeOK'
    <2>1. /\ Blocked[l] \in Linked /\ Blocking[l] \in Linked
          /\ BlockedBy(l) \in Lines /\ Blocks(l) \in Lines
      BY LinesOfRun
    <2>2. CASE FetchBlocked(l)
      <3>1. ASSUME NEW h \in BOOLEAN,
                   linker' = [linker EXCEPT ![l].step = "fetch2", ![l].hasBlocked = h]
            PROVE  linker' \in [Linker -> RunType]
        BY <3>1 DEF LinkTypeOK, RunType
      <3>2. (BlockedBy(l) \in body[Blocked[l]]) \in BOOLEAN
        OBVIOUS
      <3>3. linker' \in [Linker -> RunType]
        BY <2>2, <3>1, <3>2 DEF FetchBlocked
      <3> QED
        BY <2>2, <3>3 DEF FetchBlocked, LinkTypeOK, RunType
    <2>3. CASE FetchBlocking(l)
      BY <2>1, <2>3 DEF FetchBlocking, LinkTypeOK, RunType, AtLink, NextSide
    <2>4. CASE CopyBlocked(l)
      BY <2>1, <2>4 DEF CopyBlocked, CopySide, LinkTypeOK, RunType, AtLink, AfterBlocked
    <2>5. CASE CopyBlocking(l)
      BY <2>1, <2>5 DEF CopyBlocking, CopySide, LinkTypeOK, RunType, AtLink
    <2>6. CASE WriteBlocked(l)
      <3>1. linker[l].copy \cup {BlockedBy(l)} \in SUBSET Lines
        BY <2>1 DEF LinkTypeOK, RunType
      <3>2. body' \in [Linked -> SUBSET Lines]
        BY <2>1, <2>6, <3>1 DEF WriteBlocked, WriteSide, LinkTypeOK
      <3>3. undone' \subseteq Linked \X Lines
        BY <2>1, <2>6 DEF WriteBlocked, WriteSide, LinkTypeOK
      <3>4. linker' \in [Linker -> RunType]
        <4>1. ASSUME NEW after \in {"verify", "copyBlocking"},
                     linker' = [linker EXCEPT ![l].step = after, ![l].copy = {}]
              PROVE  linker' \in [Linker -> RunType]
          BY <4>1 DEF LinkTypeOK, RunType
        <4>2. AfterBlocked(l) \in {"verify", "copyBlocking"}
          BY DEF AfterBlocked
        <4> QED
          BY <2>6, <4>1, <4>2 DEF WriteBlocked, WriteSide
      <3> QED
        BY <3>2, <3>3, <3>4 DEF LinkTypeOK, RunType
    <2>7. CASE WriteBlocking(l)
      <3>1. linker[l].copy \cup {Blocks(l)} \in SUBSET Lines
        BY <2>1 DEF LinkTypeOK, RunType
      <3>2. body' \in [Linked -> SUBSET Lines]
        BY <2>1, <2>7, <3>1 DEF WriteBlocking, WriteSide, LinkTypeOK
      <3>3. undone' \subseteq Linked \X Lines
        BY <2>1, <2>7 DEF WriteBlocking, WriteSide, LinkTypeOK
      <3>4. linker' \in [Linker -> RunType]
        BY <2>7 DEF WriteBlocking, WriteSide, LinkTypeOK, RunType, AtLink
      <3> QED
        BY <3>2, <3>3, <3>4 DEF LinkTypeOK, RunType
    <2>8. CASE VerifyLink(l)
      BY <2>8 DEF VerifyLink, Move, LinkTypeOK, RunType, AtLink
    <2>9. CASE VerifyReciprocal(l)
      BY <2>9 DEF VerifyReciprocal, Move, LinkTypeOK, RunType, AtLink
    <2>10. CASE Repeat(l)
      BY <2>10 DEF Repeat, NewRun, LinkTypeOK, RunType
    <2>11. CASE LinkerDies(l)
      BY <2>11 DEF LinkerDies, Move, LinkTypeOK, RunType
    <2> QED
      BY <1>2, <2>2, <2>3, <2>4, <2>5, <2>6, <2>7, <2>8, <2>9, <2>10, <2>11 DEF LinkStep
  <1> QED
    BY <1>1, <1>2 DEF LinkNext

-----------------------------------------------------------------------------
(* A line that has been written is never forgotten: a replacement that     *)
(* takes it away is remembered in undone.                                  *)
LEMMA WrittenStays ==
    ASSUME LinkTypeOK, [LinkNext]_linkVars, NEW issue \in Linked, NEW line,
           Written(issue, line)
    PROVE  Written(issue, line)'
  <1>1. CASE UNCHANGED <<body, undone>>
    BY <1>1 DEF Written
  <1>2. ASSUME NEW l \in Linker, NEW at, NEW i \in Linked, NEW x, NEW after,
               WriteSide(l, at, i, x, after)
        PROVE  Written(issue, line)'
    <2>1. body' = [body EXCEPT ![i] = linker[l].copy \cup {x}]
          /\ undone' = undone \cup {<<i, y>> : y \in body[i] \ body'[i]}
      BY <1>2 DEF WriteSide
    <2> QED
      BY <2>1 DEF Written, LinkTypeOK
  <1>3. ASSUME NEW l \in Linker, LinkStep(l) \/ LinkerDies(l)
        PROVE  UNCHANGED <<body, undone>> \/ WriteBlocked(l) \/ WriteBlocking(l)
    BY <1>3 DEF LinkStep, LinkerDies, FetchBlocked, FetchBlocking, CopyBlocked, CopyBlocking,
                CopySide, VerifyLink, VerifyReciprocal, Repeat
  <1>4. ASSUME NEW l \in Linker, WriteBlocked(l) \/ WriteBlocking(l)
        PROVE  Written(issue, line)'
    BY <1>2, <1>4, LinesOfRun DEF WriteBlocked, WriteBlocking
  <1> QED
    BY <1>1, <1>3, <1>4 DEF LinkNext, linkVars

LEMMA BlockedWrittenStays ==
    ASSUME LinkTypeOK, [LinkNext]_linkVars, NEW l \in Linker, BlockedWritten(l)
    PROVE  BlockedWritten(l)'
  BY WrittenStays, LinesOfRun DEF BlockedWritten

-----------------------------------------------------------------------------
LEMMA LinkInvInit == LinkInit => LinkInv
  <1> SUFFICES ASSUME LinkInit PROVE LinkInv
    OBVIOUS
  <1>1. \A l \in Linker : linker[l] = NewRun
    BY DEF LinkInit
  <1>2. StepsKnow
    BY <1>1 DEF StepsKnow, NewRun
  <1>3. CopiesKnow
    BY <1>1 DEF CopiesKnow, NewRun
  <1>4. BlockedSideFirst
    BY LinesOfRun DEF BlockedSideFirst, LinkInit
  <1> QED
    BY <1>2, <1>3, <1>4, LinkTypeInit DEF LinkInv

(* A run learns that the blocked side is written by reading or writing it, *)
(* and goes on to the blocking side only then.                             *)
LEMMA StepsKnowStep == LinkInv /\ [LinkNext]_linkVars => StepsKnow'
  <1> SUFFICES ASSUME LinkInv, [LinkNext]_linkVars, NEW k \in Linker,
                      linker'[k].step \in {"copyBlocking", "writeBlocking"}
                        \/ linker'[k].hasBlocked
               PROVE  BlockedWritten(k)'
    BY DEF StepsKnow
  <1> USE DEF LinkInv
  <1>1. CASE BlockedWritten(k)
    BY <1>1, BlockedWrittenStays
  <1>2. CASE ~BlockedWritten(k)
    <2>1. ~(linker[k].step \in {"copyBlocking", "writeBlocking"} \/ linker[k].hasBlocked)
      BY <1>2 DEF StepsKnow
    <2>2. CASE linker'[k] = linker[k]
      BY <2>1, <2>2
    <2>3. ASSUME NEW l \in Linker, LinkStep(l) \/ LinkerDies(l), linker'[k] # linker[k]
          PROVE  BlockedWritten(k)'
      <3>1. l = k
        BY <2>3 DEF LinkStep, LinkerDies, FetchBlocked, FetchBlocking, CopyBlocked, CopyBlocking,
                    CopySide, WriteBlocked, WriteBlocking, WriteSide, VerifyLink,
                    VerifyReciprocal, Move, Repeat, LinkTypeOK
      <3>2. CASE FetchBlocked(k)
        BY <2>1, <3>2 DEF FetchBlocked, LinkTypeOK, RunType, BlockedWritten, Written
      <3>3. CASE FetchBlocking(k)
        BY <2>1, <3>3 DEF FetchBlocking, LinkTypeOK, RunType, NextSide
      <3>4. CASE CopyBlocked(k)
        BY <2>1, <3>4 DEF CopyBlocked, CopySide, LinkTypeOK, RunType, AfterBlocked,
                          BlockedWritten, Written
      <3>5. CASE CopyBlocking(k)
        BY <2>1, <3>5 DEF CopyBlocking, AtLink, CopySide
      <3>6. CASE WriteBlocked(k)
        BY <3>6, LinesOfRun DEF WriteBlocked, WriteSide, LinkTypeOK, BlockedWritten, Written
      <3>7. CASE WriteBlocking(k)
        BY <2>1, <3>7 DEF WriteBlocking, AtLink, WriteSide
      <3>8. CASE VerifyLink(k) \/ VerifyReciprocal(k) \/ LinkerDies(k)
        BY <2>1, <3>8 DEF VerifyLink, VerifyReciprocal, LinkerDies, Move, LinkTypeOK, RunType
      <3>9. CASE Repeat(k)
        BY <3>9 DEF Repeat, NewRun, LinkTypeOK
      <3> QED
        BY <2>3, <3>1, <3>2, <3>3, <3>4, <3>5, <3>6, <3>7, <3>8, <3>9 DEF LinkStep
    <2> QED
      BY <2>2, <2>3 DEF LinkNext, linkVars
  <1> QED
    BY <1>1, <1>2

(* A copy is of the body it was taken from, so that a line in it was there *)
(* at that moment, when the blocked side of its pair had been written.     *)
LEMMA CopiesKnowStep == LinkInv /\ [LinkNext]_linkVars => CopiesKnow'
  <1> SUFFICES ASSUME LinkInv, [LinkNext]_linkVars, NEW k \in Linker, NEW p \in Linker,
                      PutsBack(k, Blocking[p])', Blocks(p) \in linker'[k].copy
               PROVE  BlockedWritten(p)'
    BY DEF CopiesKnow, Blocks, LinkLine
  <1> USE DEF LinkInv
  <1>1. CASE linker'[k] = linker[k]
    <2>1. PutsBack(k, Blocking[p]) /\ Blocks(p) \in linker[k].copy
      BY <1>1 DEF PutsBack
    <2> QED
      BY <2>1, BlockedWrittenStays DEF CopiesKnow
  <1>2. ASSUME NEW l \in Linker, LinkStep(l) \/ LinkerDies(l), linker'[k] # linker[k]
        PROVE  BlockedWritten(p)'
    <2>1. l = k
      BY <1>2 DEF LinkStep, LinkerDies, FetchBlocked, FetchBlocking, CopyBlocked, CopyBlocking,
                  CopySide, WriteBlocked, WriteBlocking, WriteSide, VerifyLink,
                  VerifyReciprocal, Move, Repeat, LinkTypeOK
    <2>2. linker'[k].step \in {"writeBlocked", "writeBlocking"}
      BY DEF PutsBack
    <2>3. CASE CopyBlocked(k)
      <3>1. Blocking[p] = Blocked[k] /\ Blocks(p) \in body[Blocking[p]]
        BY <2>3 DEF CopyBlocked, CopySide, LinkTypeOK, RunType, AfterBlocked, PutsBack
      <3> QED
        BY <3>1, BlockedWrittenStays DEF BlockedSideFirst, BlockedWritten
    <2>4. CASE CopyBlocking(k)
      <3>1. Blocking[p] = Blocking[k] /\ Blocks(p) \in body[Blocking[p]]
        BY <2>4 DEF CopyBlocking, CopySide, LinkTypeOK, RunType, PutsBack
      <3> QED
        BY <3>1, BlockedWrittenStays DEF BlockedSideFirst, BlockedWritten
    <2>5. CASE FetchBlocked(k) \/ FetchBlocking(k)
      BY <2>2, <2>5 DEF FetchBlocked, FetchBlocking, NextSide, LinkTypeOK, RunType
    <2>6. CASE WriteBlocked(k) \/ WriteBlocking(k)
      BY <2>2, <2>6 DEF WriteBlocked, WriteBlocking, WriteSide, AfterBlocked, LinkTypeOK, RunType
    <2>7. CASE VerifyLink(k) \/ VerifyReciprocal(k) \/ LinkerDies(k) \/ Repeat(k)
      BY <2>2, <2>7 DEF VerifyLink, VerifyReciprocal, LinkerDies, Move, Repeat, NewRun,
                        LinkTypeOK, RunType
    <2> QED
      BY <1>2, <2>1, <2>3, <2>4, <2>5, <2>6, <2>7 DEF LinkStep
  <1> QED
    BY <1>1, <1>2 DEF LinkNext, linkVars

(* A line "Blocks" appears in a body only by a run that knows its other    *)
(* side is written, or out of a copy that had it.                          *)
LEMMA BlockedSideStep == LinkInv /\ [LinkNext]_linkVars => BlockedSideFirst'
  <1> SUFFICES ASSUME LinkInv, [LinkNext]_linkVars, NEW p \in Linker,
                      Blocks(p) \in body'[Blocking[p]]
               PROVE  BlockedWritten(p)'
    BY DEF BlockedSideFirst, BlockedWritten, Blocks, LinkLine
  <1> USE DEF LinkInv
  <1>1. CASE Blocks(p) \in body[Blocking[p]]
    BY <1>1, BlockedWrittenStays DEF BlockedSideFirst, BlockedWritten
  <1>2. ASSUME NEW k \in Linker, WriteBlocked(k), Blocks(p) \notin body[Blocking[p]]
        PROVE  BlockedWritten(p)'
    <2>1. Blocking[p] = Blocked[k] /\ Blocks(p) \in linker[k].copy \cup {BlockedBy(k)}
      BY <1>2, LinesOfRun DEF WriteBlocked, WriteSide, LinkTypeOK
    <2>2. PutsBack(k, Blocking[p]) /\ Blocks(p) \in linker[k].copy
      BY <1>2, <2>1, LinesDiffer DEF WriteBlocked, WriteSide, AtLink, PutsBack
    <2> QED
      BY <2>2, BlockedWrittenStays DEF CopiesKnow
  <1>3. ASSUME NEW k \in Linker, WriteBlocking(k), Blocks(p) \notin body[Blocking[p]]
        PROVE  BlockedWritten(p)'
    <2>1. Blocking[p] = Blocking[k] /\ Blocks(p) \in linker[k].copy \cup {Blocks(k)}
      BY <1>3, LinesOfRun DEF WriteBlocking, WriteSide, LinkTypeOK
    <2>2. CASE Blocks(p) \in linker[k].copy
      <3>1. PutsBack(k, Blocking[p])
        BY <1>3, <2>1 DEF WriteBlocking, WriteSide, AtLink, PutsBack
      <3> QED
        BY <2>2, <3>1, BlockedWrittenStays DEF CopiesKnow
    <2>3. CASE Blocks(p) = Blocks(k)
      <3>1. BlockedWritten(k)
        BY <1>3 DEF WriteBlocking, WriteSide, AtLink, StepsKnow
      <3>2. BlockedWritten(p)
        BY <2>1, <2>3, <3>1, LinesDiffer DEF BlockedWritten
      <3> QED
        BY <3>2, BlockedWrittenStays
    <2> QED
      BY <2>1, <2>2, <2>3
  <1>4. ASSUME NEW l \in Linker, LinkStep(l) \/ LinkerDies(l)
        PROVE  UNCHANGED body \/ WriteBlocked(l) \/ WriteBlocking(l)
    BY <1>4 DEF LinkStep, LinkerDies, FetchBlocked, FetchBlocking, CopyBlocked, CopyBlocking,
                CopySide, VerifyLink, VerifyReciprocal, Repeat
  <1> QED
    BY <1>1, <1>2, <1>3, <1>4 DEF LinkNext, linkVars

LEMMA LinkInvStep == LinkInv /\ [LinkNext]_linkVars => LinkInv'
  BY LinkTypeStep, StepsKnowStep, CopiesKnowStep, BlockedSideStep DEF LinkInv

(* The bodies and the runs keep their types, for every set of runs.        *)
THEOREM LinkTypeCorrect == LinkSpec => []LinkTypeOK
  <1>1. LinkInv => LinkTypeOK
    BY DEF LinkInv
  <1> QED
    BY <1>1, LinkInvInit, LinkInvStep, PTL DEF LinkSpec

(* For every set of runs and every pair of issues each of them links, no   *)
(* issue names a dependent whose own line was never written.               *)
THEOREM BlockedSideIsFirst == LinkSpec => []BlockedSideFirst
  <1>1. LinkInv => BlockedSideFirst
    BY DEF LinkInv
  <1> QED
    BY <1>1, LinkInvInit, LinkInvStep, PTL DEF LinkSpec

-----------------------------------------------------------------------------
(* What a query that has read so far knows of what has lasted.             *)
LastingHolds ==
    query.step # "none" =>
        /\ lasting.covered \subseteq Covered(pulls, query.except)
        /\ lasting.blocked \subseteq BlockedNow(open, blockers)
        /\ lasting.free \subseteq FreeNow(open, blockers, pulls, query.except)

(* A PR that was merged stays so, hence the answer to the open PRs still   *)
(* misses only what the merged ones cover.                                 *)
CoveredIsKept ==
    /\ query.step = "mergedPulls" =>
         lasting.covered \subseteq query.addressed \cup Addressed("merged")
    /\ query.step \in {"answer", "answered"} => lasting.covered \subseteq query.addressed

HasRead == query.step \notin {"none", "issues"}

BlockersAreKept ==
    HasRead => \A p \in lasting.blocked : p[2] \in query.named[p[1]] /\ p[2] \in query.open

FreeIsKept ==
    /\ HasRead => \A i \in lasting.free :
                    /\ query.named[i] = {}
                    /\ (query.filtered => i \in agent) => i \in query.issues
    /\ query.step \in {"mergedPulls", "answer", "answered"} =>
         \A i \in lasting.free : i \notin query.addressed

AnswerIsOfWhatWasRead ==
    query.step = "answered" =>
        listed = {i \in query.issues : /\ query.named[i] \cap query.open = {}
                                       /\ i \notin query.addressed}

ReadyInv == /\ ReadyTypeOK /\ LastingHolds /\ CoveredIsKept /\ BlockersAreKept
            /\ FreeIsKept /\ AnswerIsOfWhatWasRead

-----------------------------------------------------------------------------
LEMMA CoversTickets ==
    ASSUME NEW ps \in [Pull -> PullType], NEW except
    PROVE  Covered(ps, except) \subseteq Ticket
  BY DEF Covered, Covers, PullType

(* What is covered now is what the open PRs and the merged ones address.   *)
LEMMA CoveredIsAddressed ==
    Covered(pulls, query.except) = Addressed("open") \cup Addressed("merged")
  BY DEF Covered, Addressed

LEMMA AddressedTickets ==
    ASSUME ReadyTypeOK, NEW state
    PROVE  Addressed(state) \subseteq Ticket
  BY DEF ReadyTypeOK, Addressed, Covers, PullType

LEMMA ReadyInitInv == ReadyInit => ReadyInv
  <1> SUFFICES ASSUME ReadyInit PROVE ReadyInv
    OBVIOUS
  <1>1. query.step = "none" /\ query \in QueryType
    BY DEF ReadyInit, NoQuery, QueryType
  <1>2. ReadyTypeOK
    BY <1>1 DEF ReadyInit, ReadyTypeOK, NoPull, PullType, NothingLasts
  <1> QED
    BY <1>1, <1>2 DEF ReadyInv, LastingHolds, CoveredIsKept, BlockersAreKept, FreeIsKept,
       AnswerIsOfWhatWasRead, HasRead

LEMMA StartQueryKeepsInv ==
    ASSUME ReadyInv, StartQuery
    PROVE  ReadyInv'
  <1>1. PICK r \in TicketLists, ps \in PullSets, filtered \in BOOLEAN,
             except \in {{}} \cup {{p} : p \in Pull} :
         /\ open' = r.open /\ blockers' = r.blockers /\ agent' = r.agent /\ excluded' = r.excluded
         /\ pulls' = ps
         /\ query' = [NoQuery EXCEPT !.step = "issues", !.filtered = filtered, !.except = except]
         /\ lasting' = [covered |-> Covered(ps, except),
                        blocked |-> BlockedNow(r.open, r.blockers),
                        free |-> {i \in r.open \ r.excluded :
                                    r.blockers[i] = {} /\ i \notin Covered(ps, except)}]
    BY DEF StartQuery
  <1>2. r \in ListType /\ ps \in [Pull -> PullType] /\ except \in SUBSET Pull
    BY ReadyAssumption
  <1>3. query' \in QueryType /\ query'.step = "issues" /\ query'.except = except
    BY <1>1, <1>2 DEF NoQuery, QueryType
  <1>4. /\ lasting'.covered = Covered(pulls', query'.except)
        /\ lasting'.blocked = BlockedNow(open', blockers')
        /\ lasting'.free \subseteq {i \in open' : i \notin excluded' /\ blockers'[i] = {}
                                       /\ i \notin Covered(pulls', query'.except)}
    BY <1>1, <1>3
  <1>5. lasting' \in [covered : SUBSET Ticket, blocked : SUBSET (Ticket \X Ticket),
                      free : SUBSET Ticket]
    <2>1. Covered(ps, except) \in SUBSET Ticket
      BY <1>2, CoversTickets
    <2>2. BlockedNow(r.open, r.blockers) \in SUBSET (Ticket \X Ticket)
      BY DEF BlockedNow
    <2>3. r.open \in SUBSET Ticket
      BY <1>2 DEF ListType
    <2> QED
      BY <1>1, <2>1, <2>2, <2>3
  <1>6. ReadyTypeOK'
    BY <1>1, <1>2, <1>3, <1>5 DEF StartQuery, ReadyInv, ReadyTypeOK, ListType
  <1>7. LastingHolds'
    BY <1>4 DEF LastingHolds, FreeNow, Covered, BlockedNow
  <1> QED
    BY <1>3, <1>6, <1>7 DEF ReadyInv, CoveredIsKept, BlockersAreKept, FreeIsKept,
       AnswerIsOfWhatWasRead, HasRead

(* A query reads: what lasts is what it was.                               *)
LEMMA ReadKeepsInv ==
    ASSUME ReadyInv, NEW q \in QueryType, query' = q, UNCHANGED Repository,
           listed' \in SUBSET Ticket, q.except = query.except,
           query.step # "none", CoveredIsKept', BlockersAreKept', FreeIsKept',
           AnswerIsOfWhatWasRead'
    PROVE  ReadyInv'
  <1>1. ReadyTypeOK'
    BY DEF Repository, ReadyInv, ReadyTypeOK
  <1>2. LastingHolds'
    BY DEF Repository, ReadyInv, LastingHolds, FreeNow, Covered, BlockedNow
  <1> QED
    BY <1>1, <1>2 DEF ReadyInv

LEMMA QueryFacts ==
    ASSUME ReadyInv
    PROVE  /\ open \in SUBSET Ticket /\ listed \in SUBSET Ticket /\ query \in QueryType
           /\ blockers \in [Ticket -> SUBSET Ticket]
           /\ lasting.blocked \subseteq Ticket \X Ticket /\ lasting.free \subseteq Ticket
  BY DEF ReadyInv, ReadyTypeOK

LEMMA ReadIssuesKeepsInv ==
    ASSUME ReadyInv, ReadIssues
    PROVE  ReadyInv'
  <1> DEFINE is == {i \in open : query.filtered => i \in agent} \ excluded
             q == [query EXCEPT !.step = IF query.filtered THEN "open" ELSE "openPulls",
                                !.issues = is, !.named = blockers, !.open = open]
  <1>1. query' = q /\ UNCHANGED <<Repository, listed>> /\ query.step = "issues"
    BY DEF ReadIssues
  <1>2. /\ q \in QueryType /\ q.step \in {"open", "openPulls"} /\ q.except = query.except
        /\ q.issues = is /\ q.named = blockers /\ q.open = open /\ q.filtered = query.filtered
        /\ q.addressed = query.addressed
    BY QueryFacts DEF QueryType
  <1> HIDE DEF q
  <1>3. CoveredIsKept' /\ AnswerIsOfWhatWasRead'
    BY <1>1, <1>2 DEF CoveredIsKept, AnswerIsOfWhatWasRead
  <1>4. BlockersAreKept'
    <2>1. \A p \in lasting.blocked : p[2] \in blockers[p[1]] /\ p[2] \in open
      BY <1>1 DEF ReadyInv, LastingHolds, BlockedNow
    <2> QED
      BY <1>1, <1>2, <2>1 DEF BlockersAreKept, Repository
  <1>5. FreeIsKept'
    <2>1. \A i \in lasting.free : i \in open /\ i \notin excluded /\ blockers[i] = {}
      BY <1>1 DEF ReadyInv, LastingHolds, FreeNow
    <2> QED
      BY <1>1, <1>2, <2>1 DEF FreeIsKept, Repository
  <1> QED
    BY <1>1, <1>2, <1>3, <1>4, <1>5, QueryFacts, ReadKeepsInv

LEMMA ReadOpenNumbersKeepsInv ==
    ASSUME ReadyInv, ReadOpenNumbers
    PROVE  ReadyInv'
  <1> DEFINE q == [query EXCEPT !.step = "openPulls", !.open = OpenNumbers]
  <1>1. query' = q /\ UNCHANGED <<Repository, listed>> /\ query.step = "open"
    BY DEF ReadOpenNumbers
  <1>2. /\ q \in QueryType /\ q.step = "openPulls" /\ q.except = query.except
        /\ q.issues = query.issues /\ q.named = query.named /\ q.open = open
        /\ q.filtered = query.filtered
    BY QueryFacts DEF QueryType, OpenNumbers
  <1> HIDE DEF q
  <1>3. CoveredIsKept' /\ AnswerIsOfWhatWasRead'
    BY <1>1, <1>2 DEF CoveredIsKept, AnswerIsOfWhatWasRead
  <1>4. BlockersAreKept'
    <2>1. \A p \in lasting.blocked : p[2] \in open
      BY <1>1 DEF ReadyInv, LastingHolds, BlockedNow
    <2> QED
      BY <1>1, <1>2, <2>1 DEF ReadyInv, BlockersAreKept, HasRead, Repository
  <1>5. FreeIsKept'
    BY <1>1, <1>2 DEF ReadyInv, FreeIsKept, HasRead, Repository
  <1> QED
    BY <1>1, <1>2, <1>3, <1>4, <1>5, QueryFacts, ReadKeepsInv

LEMMA ReadOpenPullsKeepsInv ==
    ASSUME ReadyInv, ReadOpenPulls
    PROVE  ReadyInv'
  <1> DEFINE q == [query EXCEPT !.step = "mergedPulls", !.addressed = Addressed(FirstPulls)]
  <1>1. query' = q /\ UNCHANGED <<Repository, listed>> /\ query.step = "openPulls"
    BY DEF ReadOpenPulls
  <1>2. Addressed("open") \in SUBSET Ticket
    BY AddressedTickets DEF ReadyInv
  <1>3. /\ q \in QueryType /\ q.step = "mergedPulls" /\ q.except = query.except
        /\ q.issues = query.issues /\ q.named = query.named /\ q.open = query.open
        /\ q.filtered = query.filtered /\ q.addressed = Addressed("open")
    BY <1>2, QueryFacts DEF QueryType, FirstPulls
  <1> HIDE DEF q
  <1>4. Addressed("merged")' = Addressed("merged")
    BY <1>1, <1>3 DEF Addressed, Covers, Repository
  <1>5. CoveredIsKept'
    <2>1. lasting.covered \subseteq Addressed("open") \cup Addressed("merged")
      BY <1>1, CoveredIsAddressed DEF ReadyInv, LastingHolds
    <2> QED
      BY <1>1, <1>3, <1>4, <2>1 DEF CoveredIsKept, Repository
  <1>6. BlockersAreKept' /\ AnswerIsOfWhatWasRead'
    BY <1>1, <1>3 DEF ReadyInv, BlockersAreKept, AnswerIsOfWhatWasRead, HasRead, Repository
  <1>7. FreeIsKept'
    <2>1. \A i \in lasting.free : i \notin Addressed("open")
      BY <1>1, CoveredIsAddressed DEF ReadyInv, LastingHolds, FreeNow
    <2> QED
      BY <1>1, <1>3, <2>1 DEF ReadyInv, FreeIsKept, HasRead, Repository
  <1> QED
    BY <1>1, <1>3, <1>5, <1>6, <1>7, QueryFacts, ReadKeepsInv

LEMMA ReadMergedPullsKeepsInv ==
    ASSUME ReadyInv, ReadMergedPulls
    PROVE  ReadyInv'
  <1> DEFINE both == query.addressed \cup Addressed("merged")
             q == [query EXCEPT !.step = "answer", !.addressed = both]
  <1>1. query' = q /\ UNCHANGED <<Repository, listed>> /\ query.step = "mergedPulls"
    <2>1. {"open", "merged"} \ {FirstPulls} = {"merged"}
      BY DEF FirstPulls
    <2>2. UNION {Addressed(s) : s \in {"merged"}} = Addressed("merged")
      OBVIOUS
    <2> QED
      BY <2>1, <2>2 DEF ReadMergedPulls
  <1>2. both \in SUBSET Ticket
    BY AddressedTickets, QueryFacts DEF ReadyInv, QueryType
  <1>3. /\ q \in QueryType /\ q.step = "answer" /\ q.except = query.except
        /\ q.issues = query.issues /\ q.named = query.named /\ q.open = query.open
        /\ q.filtered = query.filtered /\ q.addressed = both
    BY <1>2, QueryFacts DEF QueryType
  <1> HIDE DEF q
  <1>4. CoveredIsKept'
    BY <1>1, <1>3 DEF ReadyInv, CoveredIsKept, Repository
  <1>5. BlockersAreKept' /\ AnswerIsOfWhatWasRead'
    BY <1>1, <1>3 DEF ReadyInv, BlockersAreKept, AnswerIsOfWhatWasRead, HasRead, Repository
  <1>6. FreeIsKept'
    <2>1. \A i \in lasting.free : i \notin Addressed("merged")
      BY <1>1, CoveredIsAddressed DEF ReadyInv, LastingHolds, FreeNow
    <2> QED
      BY <1>1, <1>3, <2>1 DEF ReadyInv, FreeIsKept, HasRead, Repository
  <1> QED
    BY <1>1, <1>3, <1>4, <1>5, <1>6, QueryFacts, ReadKeepsInv

LEMMA AnswerKeepsInv ==
    ASSUME ReadyInv, Answer
    PROVE  ReadyInv'
  <1> DEFINE q == [query EXCEPT !.step = "answered"]
  <1>1. query' = q /\ UNCHANGED Repository /\ query.step = "answer"
    BY DEF Answer
  <1>2. /\ q \in QueryType /\ q.step = "answered" /\ q.except = query.except
        /\ q.issues = query.issues /\ q.named = query.named /\ q.open = query.open
        /\ q.filtered = query.filtered /\ q.addressed = query.addressed
    BY QueryFacts DEF QueryType
  <1> HIDE DEF q
  <1>3. CoveredIsKept' /\ BlockersAreKept' /\ FreeIsKept'
    BY <1>1, <1>2 DEF ReadyInv, CoveredIsKept, BlockersAreKept, FreeIsKept, HasRead, Repository
  <1>4. AnswerIsOfWhatWasRead'
    BY <1>1, <1>2 DEF Answer, AnswerIsOfWhatWasRead
  <1>5. listed' \in SUBSET Ticket
    BY QueryFacts DEF Answer, QueryType
  <1> QED
    BY <1>1, <1>2, <1>3, <1>4, <1>5, ReadKeepsInv

-----------------------------------------------------------------------------
(* A change meanwhile ends what no longer holds, and reads nothing.        *)
LEMMA HappensKeepsInv ==
    ASSUME ReadyInv, NEW os \in SUBSET Ticket, NEW bs \in [Ticket -> SUBSET Ticket],
           NEW ps \in [Pull -> PullType], Happens(os, bs, ps),
           \A p \in Pull : pulls[p].state = "merged" => ps[p] = pulls[p]
    PROVE  ReadyInv'
  <1>1. /\ open' = os /\ blockers' = bs /\ pulls' = ps /\ query.step \notin {"none", "answered"}
        /\ lasting' = [covered |-> lasting.covered \cap Covered(ps, query.except),
                       blocked |-> lasting.blocked \cap BlockedNow(os, bs),
                       free |-> lasting.free \cap FreeNow(os, bs, ps, query.except)]
        /\ UNCHANGED <<agent, excluded, query, listed>>
    BY DEF Happens
  <1>2. /\ lasting'.covered = lasting.covered \cap Covered(ps, query.except)
        /\ lasting'.blocked = lasting.blocked \cap BlockedNow(os, bs)
        /\ lasting'.free = lasting.free \cap FreeNow(os, bs, ps, query.except)
    BY <1>1
  <1>3. lasting' \in [covered : SUBSET Ticket, blocked : SUBSET (Ticket \X Ticket),
                      free : SUBSET Ticket]
    BY <1>1 DEF ReadyInv, ReadyTypeOK
  <1>4. ReadyTypeOK'
    BY <1>1, <1>3 DEF ReadyInv, ReadyTypeOK
  <1>5. LastingHolds'
    BY <1>1, <1>2 DEF LastingHolds, FreeNow, Covered, BlockedNow
  <1>6. Addressed("merged") \subseteq Addressed("merged")'
    BY <1>1 DEF Addressed, Covers
  <1>7. CoveredIsKept'
    BY <1>1, <1>2, <1>6 DEF ReadyInv, CoveredIsKept
  <1>8. BlockersAreKept' /\ FreeIsKept' /\ AnswerIsOfWhatWasRead'
    BY <1>1, <1>2 DEF ReadyInv, BlockersAreKept, FreeIsKept, AnswerIsOfWhatWasRead, HasRead
  <1> QED
    BY <1>4, <1>5, <1>7, <1>8 DEF ReadyInv

LEMMA MeanwhileKeepsInv ==
    ASSUME ReadyInv, CloseOrReopen \/ EditBlockers \/ OpenPull \/ MergePull \/ ClosePull
    PROVE  ReadyInv'
  <1>1. /\ open \in SUBSET Ticket /\ blockers \in [Ticket -> SUBSET Ticket]
        /\ pulls \in [Pull -> PullType]
    BY DEF ReadyInv, ReadyTypeOK
  <1>2. ASSUME NEW i \in Ticket, Happens((open \ {i}) \cup ({i} \ open), blockers, pulls)
        PROVE  ReadyInv'
    <2>1. (open \ {i}) \cup ({i} \ open) \in SUBSET Ticket
      BY <1>1
    <2> QED
      BY <1>1, <1>2, <2>1, HappensKeepsInv
  <1>3. ASSUME NEW i \in Ticket, NEW bs \in SUBSET Ticket,
               Happens(open, [blockers EXCEPT ![i] = bs], pulls)
        PROVE  ReadyInv'
    <2>1. [blockers EXCEPT ![i] = bs] \in [Ticket -> SUBSET Ticket]
      BY <1>1
    <2> QED
      BY <1>1, <1>3, <2>1, HappensKeepsInv
  <1>4. ASSUME NEW p \in Pull, NEW pull \in PullType, NEW os \in SUBSET Ticket,
               pulls[p].state # "merged", Happens(os, blockers, [pulls EXCEPT ![p] = pull])
        PROVE  ReadyInv'
    <2>1. /\ [pulls EXCEPT ![p] = pull] \in [Pull -> PullType]
          /\ \A r \in Pull : pulls[r].state = "merged" => [pulls EXCEPT ![p] = pull][r] = pulls[r]
      BY <1>1, <1>4
    <2> QED
      BY <1>1, <1>4, <2>1, HappensKeepsInv
  <1>5. ASSUME NEW p \in Pull, NEW i \in Ticket, pulls[p].state = "none",
               Happens(open, blockers,
                       [pulls EXCEPT ![p] = [state |-> "open", linked |-> {}, worded |-> {i}]])
        PROVE  ReadyInv'
    <2>1. [state |-> "open", linked |-> {}, worded |-> {i}] \in PullType
      BY DEF PullType
    <2> QED
      BY <1>1, <1>4, <1>5, <2>1
  <1>6. ASSUME NEW p \in Pull, pulls[p].state = "open", NEW s \in {"merged", "closed"},
               NEW os \in SUBSET Ticket, Happens(os, blockers, [pulls EXCEPT ![p].state = s])
        PROVE  ReadyInv'
    <2>1. [pulls[p] EXCEPT !.state = s] \in PullType
      BY <1>1 DEF PullType
    <2>2. [pulls EXCEPT ![p].state = s] = [pulls EXCEPT ![p] = [pulls[p] EXCEPT !.state = s]]
      BY <1>1
    <2> QED
      BY <1>4, <1>6, <2>1, <2>2
  <1>7. ASSUME NEW p \in Pull PROVE open \ pulls[p].linked \in SUBSET Ticket
    BY <1>1
  <1> QED
    BY <1>1, <1>2, <1>3, <1>5, <1>6, <1>7
       DEF CloseOrReopen, EditBlockers, OpenPull, MergePull, ClosePull

LEMMA ReadyStutterKeepsInv ==
    ASSUME ReadyInv, UNCHANGED readyVars
    PROVE  ReadyInv'
  <1> USE DEF readyVars
  <1>1. ReadyTypeOK' /\ LastingHolds'
    BY DEF ReadyInv, ReadyTypeOK, LastingHolds, FreeNow, Covered, BlockedNow
  <1>2. CoveredIsKept'
    BY DEF ReadyInv, CoveredIsKept, Addressed
  <1> QED
    BY <1>1, <1>2 DEF ReadyInv, BlockersAreKept, FreeIsKept, AnswerIsOfWhatWasRead, HasRead

LEMMA ReadyStepKeepsInv == ReadyInv /\ [ReadyNext]_readyVars => ReadyInv'
  BY StartQueryKeepsInv, ReadIssuesKeepsInv, ReadOpenNumbersKeepsInv, ReadOpenPullsKeepsInv,
     ReadMergedPullsKeepsInv, AnswerKeepsInv, MeanwhileKeepsInv, ReadyStutterKeepsInv
     DEF ReadyNext, QueryStep

LEMMA ReadyInvariant == ReadySpec => []ReadyInv
  BY ReadyInitInv, ReadyStepKeepsInv, PTL DEF ReadySpec

(* The repository and the query keep their types.                          *)
THEOREM ReadyTypeCorrect == ReadySpec => []ReadyTypeOK
  <1>1. ReadyInv => ReadyTypeOK
    BY DEF ReadyInv
  <1> QED
    BY <1>1, ReadyInvariant, PTL

(* Whatever happens between the four queries of ready.py, its list has no  *)
(* issue that was covered or blocked all the while, and every one that was *)
(* free to be started all the while.                                       *)
THEOREM ReadyListIsTrue == ReadySpec => []ListIsTrue
  <1>1. ReadyInv => ListIsTrue
    <2> SUFFICES ASSUME ReadyInv, query.step = "answered"
                 PROVE  /\ \A i \in listed : /\ i \notin lasting.covered
                                             /\ \A b \in Ticket : <<i, b>> \notin lasting.blocked
                        /\ {i \in lasting.free : query.filtered => i \in agent} \subseteq listed
      BY DEF ListIsTrue
    <2>1. listed = {i \in query.issues : /\ query.named[i] \cap query.open = {}
                                         /\ i \notin query.addressed}
      BY DEF ReadyInv, AnswerIsOfWhatWasRead
    <2>2. \A i \in listed : i \notin lasting.covered
      BY <2>1 DEF ReadyInv, CoveredIsKept
    <2>3. ASSUME NEW i \in listed, NEW b \in Ticket, <<i, b>> \in lasting.blocked
          PROVE  FALSE
      <3>1. b \in query.named[i] /\ b \in query.open
        BY <2>3 DEF ReadyInv, BlockersAreKept, HasRead
      <3> QED
        BY <2>1, <3>1
    <2>4. {i \in lasting.free : query.filtered => i \in agent} \subseteq listed
      BY <2>1 DEF ReadyInv, FreeIsKept, HasRead
    <2> QED
      BY <2>2, <2>3, <2>4
  <1> QED
    BY <1>1, ReadyInvariant, PTL
=============================================================================
