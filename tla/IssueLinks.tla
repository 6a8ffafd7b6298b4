----------------------------- MODULE IssueLinks -----------------------------
(***************************************************************************)
(* link.py: adds "Blocked by" to one issue's body and "Blocks" to the      *)
(* other's.  A body is replaced as a whole from a copy read just before,   *)
(* so two runs that touch one issue can undo each other's line; and a run  *)
(* can die between its two writes and be repeated.                         *)
(***************************************************************************)
EXTENDS Integers, FiniteSets

CONSTANTS Linker, Blocked, Blocking,   \* each run's issues, as functions of Linker
          MaxLinkFailures              \* bound

ASSUME LinksAssumption == \A l \in Linker : Blocked[l] # Blocking[l]

VARIABLES body,     \* the dependency lines of each issue's body
          linker,   \* the step of each run, and the copies it has read
          undone,   \* lines that another run's replacement took away
          linkFailures

linkVars == <<body, linker, undone, linkFailures>>

Linked == {Blocked[l] : l \in Linker} \cup {Blocking[l] : l \in Linker}
LinkLine(phrase, issue) == [phrase |-> phrase, issue |-> issue]
BlockedBy(l) == LinkLine("Blocked by", Blocking[l])
Blocks(l) == LinkLine("Blocks", Blocked[l])
Lines == UNION {{BlockedBy(l), Blocks(l)} : l \in Linker}
NewRun == [step |-> "fetch", hasBlocked |-> FALSE, hasBlocking |-> FALSE, copy |-> {}]

LinkInit ==
    /\ body = [i \in Linked |-> {}]
    /\ linker = [l \in Linker |-> NewRun]
    /\ undone = {} /\ linkFailures = 0

AtLink(l, s) == linker[l].step = s
Move(l, s) == linker' = [linker EXCEPT ![l].step = s]

-----------------------------------------------------------------------------
(* Both bodies are read before anything is written.                        *)
FetchBlocked(l) ==
    /\ AtLink(l, "fetch")
    /\ linker' = [linker EXCEPT ![l].step = "fetch2",
                                ![l].hasBlocked = BlockedBy(l) \in body[Blocked[l]]]
    /\ UNCHANGED <<body, undone, linkFailures>>

NextSide_BlockingFirst(hasBlocked, hasBlocking) ==                 \* mutant
    CASE hasBlocked /\ hasBlocking -> "linked"
      [] ~hasBlocking              -> "copyBlocking"
      [] OTHER                     -> "copyBlocked"
NextSide_Half(hasBlocked, hasBlocking) ==                          \* mutant
    IF hasBlocked THEN "linked" ELSE "copyBlocked"

(* What is left to do: the blocked side, then the blocking side.           *)
NextSide(hasBlocked, hasBlocking) ==
    CASE hasBlocked /\ hasBlocking -> "linked"
      [] ~hasBlocked               -> "copyBlocked"
      [] OTHER                     -> "copyBlocking"

FetchBlocking(l) ==
    /\ AtLink(l, "fetch2")
    /\ LET has == Blocks(l) \in body[Blocking[l]] IN
         linker' = [linker EXCEPT ![l].hasBlocking = has,
                                  ![l].step = NextSide(linker[l].hasBlocked, has)]
    /\ UNCHANGED <<body, undone, linkFailures>>

(* Each side: a fresh copy, and the replacement if the line is not in it.  *)
CopySide(l, at, issue, line, write, skip) ==
    /\ AtLink(l, at)
    /\ linker' = [linker EXCEPT ![l].copy = body[issue],
                                ![l].step = IF line \in body[issue] THEN skip ELSE write]
    /\ UNCHANGED <<body, undone, linkFailures>>

WriteSide(l, at, issue, line, after) ==
    /\ AtLink(l, at)
    /\ body' = [body EXCEPT ![issue] = linker[l].copy \cup {line}]
    /\ undone' = undone \cup {<<issue, x>> : x \in body[issue] \ body'[issue]}
    /\ linker' = [linker EXCEPT ![l].step = after, ![l].copy = {}]
    /\ UNCHANGED linkFailures

AfterBlocked(l) == IF linker[l].hasBlocking THEN "verify" ELSE "copyBlocking"

CopyBlocked(l) == CopySide(l, "copyBlocked", Blocked[l], BlockedBy(l), "writeBlocked", AfterBlocked(l))
WriteBlocked(l) == WriteSide(l, "writeBlocked", Blocked[l], BlockedBy(l), AfterBlocked(l))
CopyBlocking(l) == CopySide(l, "copyBlocking", Blocking[l], Blocks(l), "writeBlocking", "verify")
WriteBlocking(l) == WriteSide(l, "writeBlocking", Blocking[l], Blocks(l), "verify")

(* Both lines are looked for once more; a missing one fails the run.       *)
VerifyLink(l) ==
    /\ AtLink(l, "verify")
    /\ Move(l, IF BlockedBy(l) \in body[Blocked[l]] THEN "verify2" ELSE "failed")
    /\ UNCHANGED <<body, undone, linkFailures>>

VerifyReciprocal(l) ==
    /\ AtLink(l, "verify2")
    /\ Move(l, IF Blocks(l) \in body[Blocking[l]] THEN "linked" ELSE "failed")
    /\ UNCHANGED <<body, undone, linkFailures>>

(* A call fails or times out, an edit possibly after it was applied.       *)
LinkerDies(l) ==
    /\ ~AtLink(l, "linked") /\ ~AtLink(l, "failed") /\ linkFailures < MaxLinkFailures
    /\ linkFailures' = linkFailures + 1 /\ Move(l, "failed")
    /\ UNCHANGED <<body, undone>>

(* A failed run says how to repeat it.                                     *)
Repeat(l) == /\ AtLink(l, "failed") /\ linker' = [linker EXCEPT ![l] = NewRun]
             /\ UNCHANGED <<body, undone, linkFailures>>

LinkStep(l) ==
    \/ FetchBlocked(l) \/ FetchBlocking(l) \/ CopyBlocked(l) \/ WriteBlocked(l)
    \/ CopyBlocking(l) \/ WriteBlocking(l) \/ VerifyLink(l) \/ VerifyReciprocal(l) \/ Repeat(l)

LinkNext == \E l \in Linker : LinkStep(l) \/ LinkerDies(l)

LinkSpec == LinkInit /\ [][LinkNext]_linkVars

-----------------------------------------------------------------------------
RunType == [step : {"fetch", "fetch2", "copyBlocked", "writeBlocked", "copyBlocking",
                    "writeBlocking", "verify", "verify2", "linked", "failed"},
            hasBlocked : BOOLEAN, hasBlocking : BOOLEAN, copy : SUBSET Lines]

LinkTypeOK ==
    /\ body \in [Linked -> SUBSET Lines]
    /\ undone \subseteq Linked \X Lines
    /\ linker \in [Linker -> RunType]

Written(issue, line) == line \in body[issue] \/ <<issue, line>> \in undone

(* ready.py never sees the blocking issue name a dependent that does not   *)
(* say it is blocked: a run that dies, or two runs at once, leave the      *)
(* blocked side first, unless another run's replacement took it away.      *)
BlockedSideFirst ==
    \A l \in Linker : Blocks(l) \in body[Blocking[l]] => Written(Blocked[l], BlockedBy(l))

(* A run that died between its writes is repaired by repeating it: once it *)
(* has begun, both lines come to be written (one may be lost to a write of *)
(* another run that began before it, which re-reading the body only makes  *)
(* rarer).                                                                 *)
LinksRepaired ==
    \A l \in Linker :
        ~AtLink(l, "fetch") ~>
            Written(Blocked[l], BlockedBy(l)) /\ Written(Blocking[l], Blocks(l))
=============================================================================
