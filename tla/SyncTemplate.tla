---------------------------- MODULE SyncTemplate ----------------------------
(***************************************************************************)
(* drop_empty_placeholder_lines of scripts/sync-engine.py: the lines of a  *)
(* template that hold only opted-in placeholders with empty values are     *)
(* dropped, each with at most one blank neighbour.  A line is what the     *)
(* algorithm sees of it: "blank", "vacant" (qualifies for dropping), or    *)
(* "text" for any other, a placeholder line that does not qualify included. *)
(***************************************************************************)
EXTENDS Integers, Sequences, FiniteSetsExt

CONSTANT MaxLines
ASSUME TemplateAssumption == MaxLines \in Nat

VARIABLE page   \* the template being written, and its rendering once made

templateVars == <<page>>

LineKind == {"blank", "text", "vacant"}

TemplateInit == page = [lines |-> <<>>, kept |-> {}, rendered |-> FALSE]

WriteLine ==
    /\ ~page.rendered /\ Len(page.lines) < MaxLines
    /\ \E x \in LineKind : page' = [page EXCEPT !.lines = Append(@, x)]

(* Outside the file counts as blank.                                       *)
IsBlank(lines, i) == i \notin DOMAIN lines \/ lines[i] = "blank"

PreviousKept_Adjacent(kept, i) == i - 1                            \* mutant

(* The last kept line before i, 0 when there is none.                      *)
PreviousKept(kept, i) == Max({0} \cup {j \in kept : j < i})

(* One turn of the loop: drop line i, and the blank after it (at the end   *)
(* of the file the one before it) when it stood between two blanks.        *)
DropLine(lines, kept, i) ==
    LET previous == PreviousKept(kept, i) IN
    IF ~(IsBlank(lines, previous) /\ IsBlank(lines, i + 1)) THEN kept \ {i}
    ELSE IF i < Len(lines) THEN kept \ {i, i + 1} ELSE kept \ {i, previous}

Kept(lines) ==
    LET after[i \in 0..Len(lines)] ==
          IF i = 0 THEN DOMAIN lines
          ELSE IF lines[i] = "vacant" THEN DropLine(lines, after[i - 1], i) ELSE after[i - 1]
    IN after[Len(lines)]

RenderPage ==
    /\ ~page.rendered
    /\ page' = [page EXCEPT !.kept = Kept(page.lines), !.rendered = TRUE]

TemplateNext == WriteLine \/ RenderPage

TemplateSpec == TemplateInit /\ [][TemplateNext]_templateVars

-----------------------------------------------------------------------------
(* The places where two lines of S that follow each other are both blank,  *)
(* counting the edges of the file as blank lines.                          *)
BlankRuns(lines, S) ==
    {i \in S \cup {0} : /\ IsBlank(lines, i)
                        /\ IsBlank(lines, Min({j \in S : j > i} \cup {Len(lines) + 1}))}

(* A blank line of S stands between lines j and k.                         *)
Parted(lines, S, j, k) == \E b \in S : j < b /\ b < k /\ lines[b] = "blank"

(* Collapsing loses no line of its own right, leaves no vacant line, takes *)
(* at most one blank per vacant line, and neither leaves a blank-line run  *)
(* too many nor eats one: the kept lines have exactly as many runs as the  *)
(* template, the edges of the file included ("a placeholder at either edge *)
(* does not leave a leading or trailing blank") unless nothing at all is   *)
(* left, and two kept lines that a blank line parted are still parted.     *)
CollapseIsClean ==
    page.rendered =>
        LET lines == page.lines
            dropped == DOMAIN lines \ page.kept
            vacant == {i \in DOMAIN lines : lines[i] = "vacant"}
        IN /\ vacant \subseteq dropped
           /\ \A i \in dropped \ vacant : lines[i] = "blank"
           /\ Cardinality(dropped) <= 2 * Cardinality(vacant)
           /\ page.kept # {} =>
                Cardinality(BlankRuns(lines, page.kept))
                  = Cardinality(BlankRuns(lines, DOMAIN lines))
           /\ \A j, k \in page.kept :
                lines[j] # "blank" /\ lines[k] # "blank" /\ Parted(lines, DOMAIN lines, j, k) =>
                    Parted(lines, page.kept, j, k)
=============================================================================
