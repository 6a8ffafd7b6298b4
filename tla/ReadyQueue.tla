----------------------------- MODULE ReadyQueue -----------------------------
(***************************************************************************)
(* ready.py: the list of issues an agent may start.  It is put together    *)
(* from four queries, one after another (the issues that match the         *)
(* filters, all open issues, open PRs, PRs merged lately), while users     *)
(* open, close and edit what they read.                                    *)
(***************************************************************************)
EXTENDS Integers, FiniteSets

CONSTANTS Ticket, Pull,
          TicketLists, PullSets,      \* the repositories the query starts in
          MaxTicketEvents             \* bound: changes during the query

VARIABLES open,       \* the open issues
          blockers,   \* the issues each issue's body names as its blockers
          agent,      \* the issues with the "dev: agent" label
          excluded,   \* the issues with a label that excludes them
          pulls,      \* each PR: its state, the issues it closes by GitHub's link
                      \* and by closing keywords of its body
          query,      \* the running query and what it has read
          listed,     \* the issues of the last answer
          lasting,    \* what has held without a break since the query started
          ticketEvents

readyVars == <<open, blockers, agent, excluded, pulls, query, listed, lasting, ticketEvents>>

NoPull == [state |-> "none", linked |-> {}, worded |-> {}]
NoQuery == [step |-> "none", filtered |-> FALSE, issues |-> {}, named |-> [i \in Ticket |-> {}],
            open |-> {}, addressed |-> {}, except |-> {}]
NothingLasts == [covered |-> {}, blocked |-> {}, free |-> {}]

ListType == [open : SUBSET Ticket, blockers : [Ticket -> SUBSET Ticket],
             agent : SUBSET Ticket, excluded : SUBSET Ticket]
PullType == [state : {"none", "open", "merged", "closed"},
             linked : SUBSET Ticket, worded : SUBSET Ticket]

ASSUME ReadyAssumption == TicketLists \subseteq ListType /\ PullSets \subseteq [Pull -> PullType]

ReadyInit ==
    /\ open = {} /\ blockers = [i \in Ticket |-> {}] /\ agent = {} /\ excluded = {}
    /\ pulls = [p \in Pull |-> NoPull]
    /\ query = NoQuery /\ listed = {} /\ lasting = NothingLasts /\ ticketEvents = 0

-----------------------------------------------------------------------------
(* fetch_addressed_numbers: a PR covers what GitHub links, or else what    *)
(* its body says it closes.                                                *)
Covers(pull) == IF pull.linked # {} THEN pull.linked ELSE pull.worded

(* What holds at one moment.                                               *)
Covered(ps, except) == UNION {Covers(ps[p]) : p \in {q \in Pull \ except :
                                                       ps[q].state \in {"open", "merged"}}}
BlockedNow(os, bs) == {p \in Ticket \X Ticket : p[2] \in bs[p[1]] /\ p[2] \in os}
FreeNow(os, bs, ps, except) ==
    {i \in os : i \notin excluded /\ bs[i] = {} /\ i \notin Covered(ps, except)}

-----------------------------------------------------------------------------
StartQuery ==
    /\ query.step = "none"
    /\ \E r \in TicketLists, ps \in PullSets, filtered \in BOOLEAN,
          except \in {{}} \cup {{p} : p \in Pull} :
         /\ open' = r.open /\ blockers' = r.blockers /\ agent' = r.agent /\ excluded' = r.excluded
         /\ pulls' = ps
         /\ query' = [NoQuery EXCEPT !.step = "issues", !.filtered = filtered, !.except = except]
         /\ lasting' = [covered |-> Covered(ps, except),
                        blocked |-> BlockedNow(r.open, r.blockers),
                        free |-> {i \in r.open \ r.excluded :
                                    r.blockers[i] = {} /\ i \notin Covered(ps, except)}]
    /\ UNCHANGED <<listed, ticketEvents>>

Repository == <<open, blockers, agent, excluded, pulls, lasting, ticketEvents>>

ReadIssues ==
    /\ query.step = "issues"
    /\ query' = [query EXCEPT !.step = IF query.filtered THEN "open" ELSE "openPulls",
                              !.issues = {i \in open : query.filtered => i \in agent} \ excluded,
                              !.named = blockers, !.open = open]
    /\ UNCHANGED <<Repository, listed>>

(* With a filter the blockers are looked up among all open issues.         *)
OpenNumbers == open

ReadOpenNumbers ==
    /\ query.step = "open"
    /\ query' = [query EXCEPT !.step = "openPulls", !.open = OpenNumbers]
    /\ UNCHANGED <<Repository, listed>>

Addressed(state) ==
    UNION {Covers(pulls[p]) : p \in {q \in Pull \ query.except : pulls[q].state = state}}

FirstPulls_Merged == "merged"                                      \* mutant

(* Open PRs first: a PR that is merged between the queries is in both.     *)
FirstPulls == "open"

ReadOpenPulls ==
    /\ query.step = "openPulls"
    /\ query' = [query EXCEPT !.step = "mergedPulls", !.addressed = Addressed(FirstPulls)]
    /\ UNCHANGED <<Repository, listed>>

ReadMergedPulls ==
    /\ query.step = "mergedPulls"
    /\ query' = [query EXCEPT !.step = "answer",
                              !.addressed = @ \cup UNION {Addressed(s) :
                                                s \in {"open", "merged"} \ {FirstPulls}}]
    /\ UNCHANGED <<Repository, listed>>

Answer ==
    /\ query.step = "answer"
    /\ listed' = {i \in query.issues : /\ query.named[i] \cap query.open = {}
                                       /\ i \notin query.addressed}
    /\ query' = [query EXCEPT !.step = "answered"] /\ UNCHANGED Repository

QueryStep == \/ StartQuery \/ ReadIssues \/ ReadOpenNumbers \/ ReadOpenPulls
             \/ ReadMergedPulls \/ Answer

-----------------------------------------------------------------------------
(* What users and other agents do meanwhile.                               *)
Happens(os, bs, ps) ==
    /\ query.step \notin {"none", "answered"} /\ ticketEvents < MaxTicketEvents
    /\ ticketEvents' = ticketEvents + 1
    /\ open' = os /\ blockers' = bs /\ pulls' = ps
    /\ lasting' = [covered |-> lasting.covered \cap Covered(ps, query.except),
                   blocked |-> lasting.blocked \cap BlockedNow(os, bs),
                   free |-> lasting.free \cap FreeNow(os, bs, ps, query.except)]
    /\ UNCHANGED <<agent, excluded, query, listed>>

CloseOrReopen == \E i \in Ticket : Happens((open \ {i}) \cup ({i} \ open), blockers, pulls)

EditBlockers == \E i \in Ticket, bs \in SUBSET Ticket :
                  i \notin bs /\ Happens(open, [blockers EXCEPT ![i] = bs], pulls)

OpenPull == \E p \in Pull, i \in Ticket :
              /\ pulls[p].state = "none"
              /\ Happens(open, blockers,
                         [pulls EXCEPT ![p] = [state |-> "open", linked |-> {}, worded |-> {i}]])

(* A merge closes the linked issues.                                       *)
MergePull == \E p \in Pull :
               /\ pulls[p].state = "open"
               /\ Happens(open \ pulls[p].linked, blockers, [pulls EXCEPT ![p].state = "merged"])

ClosePull == \E p \in Pull :
               /\ pulls[p].state = "open"
               /\ Happens(open, blockers, [pulls EXCEPT ![p].state = "closed"])

ReadyNext == QueryStep \/ CloseOrReopen \/ EditBlockers \/ OpenPull \/ MergePull \/ ClosePull

ReadySpec == ReadyInit /\ [][ReadyNext]_readyVars

-----------------------------------------------------------------------------
QueryType == [step : {"none", "issues", "open", "openPulls", "mergedPulls", "answer", "answered"},
              filtered : BOOLEAN, issues : SUBSET Ticket, named : [Ticket -> SUBSET Ticket],
              open : SUBSET Ticket, addressed : SUBSET Ticket, except : SUBSET Pull]

ReadyTypeOK ==
    /\ {open, agent, excluded, listed} \subseteq SUBSET Ticket
    /\ blockers \in [Ticket -> SUBSET Ticket]
    /\ pulls \in [Pull -> PullType] /\ query \in QueryType
    /\ lasting \in [covered : SUBSET Ticket, blocked : SUBSET (Ticket \X Ticket),
                    free : SUBSET Ticket]

(* Whatever happens between the four queries, the list has no issue that   *)
(* was covered by a PR, or named one open blocker, for as long as the      *)
(* query ran (a merge between the PR queries loses no PR, and a blocker    *)
(* outside the filter still blocks); and an issue that was open, matched   *)
(* the filter and had neither all the while is on it.                      *)
ListIsTrue ==
    query.step = "answered" =>
        /\ \A i \in listed : /\ i \notin lasting.covered
                             /\ \A b \in Ticket : <<i, b>> \notin lasting.blocked
        /\ {i \in lasting.free : query.filtered => i \in agent} \subseteq listed
=============================================================================
