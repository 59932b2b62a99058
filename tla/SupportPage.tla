----------------------------- MODULE SupportPage -----------------------------
(***************************************************************************)
(* The support desk: one page with tabs over lists that colleagues, buyers *)
(* and the expiration job change meanwhile; the tab of payments, which can *)
(* only be looked at, is left out.  The part of the server it needs is     *)
(* here too: rows of reports, filed and reviewed, and the statuses of      *)
(* reservations, whose calls module Booking models in full.  A list is the *)
(* newest DeskLimit rows that pass the filter: the page never asks for     *)
(* those after them.                                                       *)
(*                                                                         *)
(* A load reads its list on the server in one step and shows it in a later *)
(* one.  A support call reloads with the load of the moment of its click:  *)
(* the tab and the filter of that moment.  Calls are not ordered either.   *)
(***************************************************************************)
EXTENDS Naturals, FiniteSets

CONSTANTS
    DeskReports,        \* rows of reports: numbers, in the order of created_at
    DeskStays,          \* rows of reservations, likewise
    DeskLimit,          \* the rows of a list: 100
    DeskTexts,          \* answers a supporter may write
    NoText,             \* no answer: NULL, undefined and the empty text
    DeskVerdicts,       \* "reviewed" and "rejected", or one of them: alike
    DeskFilters,        \* the statuses the supporter filters by
    MaxVersion,         \* bound on the changes of a report
    MaxDeskCalls,       \* bound on the support calls in progress
    MaxOthers,          \* bound on what others do during one visit
    MaxDeskLoads        \* bound on its loads

ASSUME DeskAssumption ==
    /\ DeskReports \subseteq Nat /\ IsFiniteSet(DeskReports)
    /\ DeskStays \subseteq Nat /\ DeskLimit \in Nat
    /\ "none" \notin DeskVerdicts

VARIABLES
    deskReport,         \* reports: status, response, a count of its changes;
                        \* the status is "none" before the report is filed
    deskStay,           \* reservations.status, "none" before it is made
    deskTab, deskFilter,
    deskRows,           \* the list of reports the page holds, as it was read
    deskStayRows,       \* the list of reservations it holds
    deskLoads,          \* loads in progress
    deskStarted,        \* how many have been started
    deskRaced,          \* the last was started beside another, or for a tab
                        \* and a filter that were no longer chosen
    deskCalls,          \* support calls in progress
    deskMine,           \* the change my last answered review of a report made
    deskLoading, deskError,
    deskOthers          \* bound: what others have done in this visit

deskServer == <<deskReport, deskStay, deskOthers>>
deskLists == <<deskRows, deskStayRows>>
deskLoadVars == <<deskLoads, deskStarted, deskRaced, deskLoading, deskError>>
deskVars == <<deskServer, deskTab, deskFilter, deskLists, deskLoadVars, deskCalls, deskMine>>

ReportStatuses == {"pending"} \cup DeskVerdicts
StayStatuses == {"pending", "paid", "cancelled", "expired"}
All == "all"            \* the empty choice of the filter

Filters(tab) ==
    CASE tab = "reports" -> (ReportStatuses \cap DeskFilters) \cup {All}
      [] tab = "reservations" -> (StayStatuses \cap DeskFilters) \cup {All}

DeskInit ==
    /\ deskReport = [r \in DeskReports |->
          [status |-> "none", response |-> NoText, version |-> 0]]
    /\ deskStay = [s \in DeskStays |-> "none"]
    /\ deskOthers = 0
    /\ deskTab = "reports" /\ deskFilter = All
    /\ deskRows = <<>> /\ deskStayRows = <<>>
    /\ deskLoads = {[id |-> 0, tab |-> "reports", filter |-> All, read |-> FALSE, rows |-> <<>>]}
    /\ deskStarted = 1
    /\ deskRaced = FALSE
    /\ deskCalls = {}
    /\ deskMine = [r \in DeskReports |-> 0]
    /\ deskLoading = TRUE /\ deskError = FALSE

-----------------------------------------------------------------------------
(* The server.                                                             *)

Passes(filter, status) == status # "none" /\ (filter = All \/ status = filter)

(* A user files a report; rows become visible in any order, since each     *)
(* carries the time at which its transaction began.                        *)
ReportFiled ==
    /\ deskOthers < MaxOthers /\ deskOthers' = deskOthers + 1
    /\ \E r \in DeskReports :
          /\ deskReport[r].status = "none"
          /\ deskReport' = [deskReport EXCEPT ![r].status = "pending"]
    /\ UNCHANGED <<deskStay, deskTab, deskFilter, deskLists, deskLoadVars, deskCalls, deskMine>>

(* COALESCE: a review without an answer leaves the one there is.           *)
Fault_Overwrite(row, response) == response
ResponseAfter(row, response) == IF response = NoText THEN row.response ELSE response

Updated(row, status, response) ==
    [status |-> status,
     response |-> IF status = "pending" THEN NoText ELSE ResponseAfter(row, response),
     version |-> row.version + 1]

UpdateReport(r, status, response) ==
    /\ deskReport[r].status # "none" /\ deskReport[r].version < MaxVersion
    /\ deskReport' = [deskReport EXCEPT ![r] = Updated(@, status, response)]

(* A colleague, who may also use the API, with the validator's one rule.   *)
ColleagueReviews ==
    /\ deskOthers < MaxOthers /\ deskOthers' = deskOthers + 1
    /\ \E r \in DeskReports, status \in ReportStatuses, response \in DeskTexts \cup {NoText} :
          /\ status = "pending" => response = NoText
          /\ UpdateReport(r, status, response)
    /\ UNCHANGED <<deskStay, deskTab, deskFilter, deskLists, deskLoadVars, deskCalls, deskMine>>

(* A buyer reserves and pays, or the job expires; a support cancel takes   *)
(* paid ones too.                                                          *)
MayBecome(old, new) ==
    \/ old = "pending" /\ new \in {"paid", "expired", "cancelled"}
    \/ old = "paid" /\ new = "cancelled"

StayMoves ==
    /\ deskOthers < MaxOthers /\ deskOthers' = deskOthers + 1
    /\ \E s \in DeskStays, status \in {"pending", "paid", "expired"} :
          /\ deskStay[s] = IF status = "pending" THEN "none" ELSE "pending"
          /\ deskStay' = [deskStay EXCEPT ![s] = status]
    /\ UNCHANGED <<deskReport, deskTab, deskFilter, deskLists, deskLoadVars, deskCalls, deskMine>>

-----------------------------------------------------------------------------
(* Loads.                                                                  *)

(* ORDER BY created_at DESC LIMIT, and the first page of it only.          *)
Fault_OldestFirst(S) == {x \in S : Cardinality({y \in S : y < x}) < DeskLimit}
Newest(S) == {x \in S : Cardinality({y \in S : y > x}) < DeskLimit}

ReportList(filter) ==
    [r \in Newest({r \in DeskReports : Passes(filter, deskReport[r].status)}) |-> deskReport[r]]
StayList(filter) ==
    [s \in Newest({s \in DeskStays : Passes(filter, deskStay[s])}) |-> deskStay[s]]

StartDeskLoad(tab, filter) ==
    /\ deskStarted < MaxDeskLoads
    /\ deskStarted' = deskStarted + 1
    /\ deskLoads' = deskLoads \cup
          {[id |-> deskStarted, tab |-> tab, filter |-> filter, read |-> FALSE, rows |-> <<>>]}
    /\ deskRaced' = (deskLoads # {} \/ tab # deskTab' \/ filter # deskFilter')
    /\ deskLoading' = TRUE
    /\ deskError' = FALSE

DeskReads(l) ==
    /\ l \in deskLoads /\ ~l.read
    /\ deskLoads' = (deskLoads \ {l}) \cup
          {[l EXCEPT !.read = TRUE,
                     !.rows = IF l.tab = "reports" THEN ReportList(l.filter) ELSE StayList(l.filter)]}
    /\ UNCHANGED <<deskServer, deskTab, deskFilter, deskLists, deskStarted, deskRaced,
                   deskLoading, deskError, deskCalls, deskMine>>

DeskShows(l) ==
    /\ l \in deskLoads /\ l.read
    /\ deskLoads' = deskLoads \ {l}
    /\ deskRows' = IF l.tab = "reports" THEN l.rows ELSE deskRows
    /\ deskStayRows' = IF l.tab = "reservations" THEN l.rows ELSE deskStayRows
    /\ deskLoading' = FALSE
    /\ UNCHANGED <<deskServer, deskTab, deskFilter, deskStarted, deskRaced, deskError, deskCalls, deskMine>>

DeskLoadFails(l) ==
    /\ l \in deskLoads
    /\ deskLoads' = deskLoads \ {l}
    /\ deskError' = TRUE
    /\ deskLoading' = FALSE
    /\ UNCHANGED <<deskServer, deskTab, deskFilter, deskLists, deskStarted, deskRaced, deskCalls, deskMine>>

-----------------------------------------------------------------------------
(* What the supporter does.                                                *)

(* The effect of load, whose dependencies are the tab and the filter.      *)
Fault_TabOnly(tab, filter) == tab # deskTab
Reload(tab, filter) == tab # deskTab \/ filter # deskFilter

Choose(tab, filter) ==
    /\ <<tab, filter>> # <<deskTab, deskFilter>>
    /\ deskTab' = tab /\ deskFilter' = filter
    /\ IF Reload(tab, filter) THEN StartDeskLoad(tab, filter) ELSE UNCHANGED deskLoadVars
    /\ UNCHANGED <<deskServer, deskLists, deskCalls, deskMine>>

SwitchTab == \E tab \in {"reports", "reservations"} : Choose(tab, All)

SetFilter == \E filter \in Filters(deskTab) : Choose(deskTab, filter)

DeskRetry ==
    /\ deskError
    /\ UNCHANGED <<deskTab, deskFilter>>
    /\ StartDeskLoad(deskTab, deskFilter)
    /\ UNCHANGED <<deskServer, deskLists, deskCalls, deskMine>>

(* A call remembers the row it was made from, for the property below.      *)
Click(kind, of, status, response, seen) ==
    /\ ~deskLoading
    /\ Cardinality(deskCalls) < MaxDeskCalls
    /\ deskCalls' = deskCalls \cup
          {[kind |-> kind, of |-> of, status |-> status, response |-> response, seen |-> seen,
            tab |-> deskTab, filter |-> deskFilter, applied |-> FALSE, version |-> 0]}
    /\ UNCHANGED <<deskServer, deskTab, deskFilter, deskLists, deskLoadVars, deskMine>>

(* The prompt proposes the response of the row as it was loaded; an empty  *)
(* text is sent as none.                                                   *)
Review ==
    /\ deskTab = "reports"
    /\ \E r \in DOMAIN deskRows, status \in DeskVerdicts :
       \E response \in DeskTexts \cup {NoText, deskRows[r].response} :
          Click("review", r, status, response, deskRows[r])

ChangeStay ==
    /\ deskTab = "reservations"
    /\ \E s \in DOMAIN deskStayRows, status \in {"cancelled", "expired", "pending"} :
          /\ deskStayRows[s] = "pending"
          /\ Click(IF status = "pending" THEN "ticket" ELSE "status", s, status, NoText, NoText)

-----------------------------------------------------------------------------
(* A call is carried out, and then answered; or it is refused or not heard *)
(* of, and the page shows an error.                                        *)

DeskApplies(c) ==
    /\ c \in deskCalls /\ ~c.applied
    /\ \/ /\ c.kind = "review"
          /\ UpdateReport(c.of, c.status, c.response)
          /\ deskCalls' = (deskCalls \ {c}) \cup
                {[c EXCEPT !.applied = TRUE, !.version = deskReport'[c.of].version]}
          /\ UNCHANGED <<deskStay, deskOthers>>
       \/ /\ c.kind = "status"
          /\ MayBecome(deskStay[c.of], c.status)
          /\ deskStay' = [deskStay EXCEPT ![c.of] = c.status]
          /\ deskCalls' = (deskCalls \ {c}) \cup {[c EXCEPT !.applied = TRUE]}
          /\ UNCHANGED <<deskReport, deskOthers>>
       \/ /\ c.kind = "ticket"
          /\ deskStay[c.of] = "pending"
          /\ deskCalls' = (deskCalls \ {c}) \cup {[c EXCEPT !.applied = TRUE]}
          /\ UNCHANGED deskServer
    /\ UNCHANGED <<deskTab, deskFilter, deskLists, deskLoadVars, deskMine>>

AfterCall(c) == StartDeskLoad(c.tab, c.filter)

DeskAnswered(c) ==
    /\ c \in deskCalls /\ c.applied
    /\ deskCalls' = deskCalls \ {c}
    /\ deskMine' = IF c.kind = "review" THEN [deskMine EXCEPT ![c.of] = c.version] ELSE deskMine
    /\ UNCHANGED <<deskTab, deskFilter>>
    /\ AfterCall(c)
    /\ UNCHANGED <<deskServer, deskLists>>

DeskCallFails(c) ==
    /\ c \in deskCalls
    /\ deskCalls' = deskCalls \ {c}
    /\ deskError' = TRUE
    /\ UNCHANGED <<deskServer, deskTab, deskFilter, deskLists, deskLoads, deskStarted,
                   deskRaced, deskLoading, deskMine>>

DeskNext ==
    \/ ReportFiled
    \/ ColleagueReviews
    \/ StayMoves
    \/ \E l \in deskLoads : DeskReads(l) \/ DeskShows(l) \/ DeskLoadFails(l)
    \/ SwitchTab
    \/ SetFilter
    \/ DeskRetry
    \/ Review
    \/ ChangeStay
    \/ \E c \in deskCalls : DeskApplies(c) \/ DeskAnswered(c) \/ DeskCallFails(c)

-----------------------------------------------------------------------------
DeskAtRest == ~deskLoading /\ ~deskError /\ ~deskRaced

(* At rest the list on show was read for the tab and the filter on show,   *)
(* unless the last load was started beside another one or by a call whose  *)
(* click was made under another filter (load, its closure in review).      *)
DeskListAnswersFilter ==
    DeskAtRest =>
        /\ deskTab = "reports" =>
              \A r \in DOMAIN deskRows : Passes(deskFilter, deskRows[r].status)
        /\ deskTab = "reservations" =>
              \A s \in DOMAIN deskStayRows : Passes(deskFilter, deskStayRows[s])

(* At rest the supporter sees each of the reviews that were answered, or a *)
(* later state of its report, unless the only page that is asked for is    *)
(* full and every report on it is newer (the load awaited after            *)
(* updateReport, and the order and limit of adminReports).                 *)
DeskOwnReviewSeen ==
    (DeskAtRest /\ deskTab = "reports" /\ deskFilter = All) =>
        \A r \in DeskReports : deskMine[r] > 0 =>
            \/ r \in DOMAIN deskRows /\ deskRows[r].version >= deskMine[r]
            \/ Cardinality(DOMAIN deskRows) >= DeskLimit /\ \A q \in DOMAIN deskRows : q > r

(* A response is emptied only by reopening its report.  A review from the  *)
(* page replaces another text only if the supporter had it on the page at  *)
(* the click, or it was written after the list on the page was read: such  *)
(* a text may be lost unseen, since the prompt proposes the older one      *)
(* (updateReportStatus and review).                                        *)
DeskResponseKept ==
    [][\A r \in DeskReports :
        LET old == deskReport[r]  new == deskReport'[r]
            sent == {c \in deskCalls \ deskCalls' : c.kind = "review" /\ c.of = r}
        IN  old.response # NoText /\ new.response # old.response /\ new.status # "pending" =>
                /\ new.response # NoText
                /\ \A c \in sent : c.seen.response = old.response \/ c.seen.version < old.version]_deskVars
=============================================================================
