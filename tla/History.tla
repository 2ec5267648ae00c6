------------------------------- MODULE History -------------------------------
(***************************************************************************)
(* The past reports of an account: list_history and get_report of          *)
(* src/api/history.py, behind the rate limiter.  One client of the account *)
(* walks through the pages while workers insert reports; the ids of        *)
(* reports are not in the order they are inserted in, and the walk knows   *)
(* only next_cursor.                                                       *)
(***************************************************************************)
EXTENDS RateLimit, Integers, FiniteSets

CONSTANTS
    Walker,                 \* the client that walks; the others read reports
    MaxId,                  \* bound: ids of reports, by their order
    Limits,                 \* values of the limit parameter
    HISTORY_PAGE_SIZE, HISTORY_MAX_PAGE_SIZE

ASSUME HistoryAssumption ==
    /\ Walker \in Clients /\ MaxId \in Nat /\ Limits \subseteq Int
    /\ {HISTORY_PAGE_SIZE, HISTORY_MAX_PAGE_SIZE} \subseteq Nat \ {0}

Ids == 1..MaxId

VARIABLES
    mine, foreign,  \* analyses of the account, and of others
    walk,           \* "before", "walking" or "done"
    before,         \* the cursor: what the next page is among
    present,        \* history: the account's reports when the walk began
    times           \* history: report |-> times the walk returned it

walkVars == <<walk, before, present, times>>
historyVars == <<rateVars, mine, foreign, walkVars>>

HistoryInit ==
    /\ RateInit
    /\ mine \in SUBSET Ids /\ foreign = {}
    /\ walk = "before" /\ before = Ids /\ present = {}
    /\ times = [i \in Ids |-> 0]

-----------------------------------------------------------------------------
(* A worker inserts a report. *)
Insert(i) ==
    /\ i \notin mine \cup foreign
    /\ \/ mine' = mine \cup {i} /\ UNCHANGED foreign
       \/ foreign' = foreign \cup {i} /\ UNCHANGED mine
    /\ UNCHANGED <<rateVars, walkVars>>

(* Mutant: a page may be empty. *)
PageSizeAny(limit) ==
    LET size == IF limit = 0 THEN HISTORY_PAGE_SIZE ELSE limit
    IN  IF size > HISTORY_MAX_PAGE_SIZE THEN HISTORY_MAX_PAGE_SIZE
        ELSE IF size < 0 THEN 0 ELSE size

(* max(1, min(int(limit or HISTORY_PAGE_SIZE), HISTORY_MAX_PAGE_SIZE)) *)
PageSize(limit) ==
    LET size == IF limit = 0 THEN HISTORY_PAGE_SIZE ELSE limit
    IN  IF size > HISTORY_MAX_PAGE_SIZE THEN HISTORY_MAX_PAGE_SIZE
        ELSE IF size < 1 THEN 1 ELSE size

(* The newest n of the account's reports below the cursor. *)
Newest(n) ==
    LET found == mine \cap before
    IN  {i \in found : Cardinality({j \in found : j > i}) < n}

Below(reports) == {i \in Ids : \A j \in reports : i < j}

(* Mutant: the cursor is the report after the page. *)
NextCursorAfter(documents, page) == Below(documents)

(* next_cursor, the last report of the page. *)
NextCursor(documents, page) == Below(page)

(* The walk's next page: one more than the page is read, to know whether   *)
(* another follows.                                                        *)
Page ==
    /\ step[Walker] = "endpoint"
    /\ \E limit \in Limits :
          LET documents == Newest(PageSize(limit) + 1)
              page == Newest(PageSize(limit))
              more == documents # page
          IN  /\ times' = [i \in Ids |-> times[i] + (IF i \in page THEN 1 ELSE 0)]
              /\ walk' = IF more THEN "walking" ELSE "done"
              /\ before' = IF more THEN NextCursor(documents, page) ELSE before
    /\ Return(Walker)
    /\ UNCHANGED <<failures, mine, foreign, present>>

(* The walk asks for its first page, or for the next, or again. *)
Ask ==
    /\ walk # "done"
    /\ Request(Walker)
    /\ walk' = "walking"
    /\ present' = IF walk = "before" THEN mine ELSE present
    /\ UNCHANGED <<mine, foreign, before, times>>

(* Another client of the account, with GET /history/{report_id}, at any    *)
(* time and as often as it likes.                                          *)
AskOther(c) ==
    /\ c # Walker
    /\ Request(c)
    /\ UNCHANGED <<mine, foreign, walkVars>>

(* get_report: the report, or 404. *)
GetReport(c) ==
    /\ c # Walker /\ step[c] = "endpoint"
    /\ Return(c)
    /\ UNCHANGED <<failures, mine, foreign, walkVars>>

Enforcing(c) == Limiter(c) /\ UNCHANGED <<mine, foreign, walkVars>>
Faults(c) == Fault(c) /\ UNCHANGED <<mine, foreign, walkVars>>
Time == Tick /\ UNCHANGED <<mine, foreign, walkVars>>

HistoryNext ==
    \/ Ask \/ Page
    \/ \E i \in Ids : Insert(i)
    \/ \E c \in Clients : AskOther(c) \/ GetReport(c) \/ Enforcing(c) \/ Faults(c)
    \/ Time

(* Requests go on while their process lives, time passes, and the walk     *)
(* asks again after a 429 and after an answer it did not get.              *)
HistorySpec ==
    /\ HistoryInit /\ [][HistoryNext]_historyVars
    /\ WF_historyVars(Ask) /\ WF_historyVars(Page) /\ WF_historyVars(Time)
    /\ \A c \in Clients : WF_historyVars(GetReport(c) \/ Enforcing(c))

-----------------------------------------------------------------------------
(* Types; a cursor leaves the ids below it. *)
HistoryTypeOK ==
    /\ RateTypeOK
    /\ mine \subseteq Ids /\ foreign \subseteq Ids \ mine /\ present \subseteq mine
    /\ walk \in {"before", "walking", "done"}
    /\ before \subseteq Ids /\ \A i \in before, j \in Ids : j < i => j \in before
    /\ times \in [Ids -> Nat]

(* The walk returns no report twice and none of another account, and when  *)
(* it has come to a cursor it has returned every report above it that was  *)
(* there when it began, whatever was inserted meanwhile, whatever size it  *)
(* asked for and whichever requests failed.                                *)
WalkExact ==
    /\ \A i \in Ids : times[i] > 0 => times[i] = 1 /\ i \in mine
    /\ \A i \in present \ (IF walk = "done" THEN {} ELSE before) : times[i] = 1

Advances ==
    /\ before' \subseteq before
    /\ step[Walker] = "endpoint" /\ step'[Walker] = "idle" /\ failures' = failures =>
          walk' = "done" \/ before' # before

(* A page that is answered ends the walk or brings its cursor down, and    *)
(* nothing takes the cursor back: no walk has more pages than there are    *)
(* ids to return (list_history's least page size, its next_cursor).        *)
WalkAdvances == [][Advances]_historyVars

(* The counters never refuse everybody for ever, even when the call that   *)
(* gives a counter its window failed or its process died: a walk comes to  *)
(* its end, unless other clients of the account get through again and      *)
(* again.  Between the clients the limiter is not fair (hit, enforce).     *)
NoLockout ==
    walk = "walking" ~> walk = "done" \/ \E c \in Clients \ {Walker} : step[c] = "endpoint"
=============================================================================
