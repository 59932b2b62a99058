----------------------------- MODULE ReportsPage -----------------------------
(***************************************************************************)
(* The page on which a user reports a problem, with createReport and       *)
(* myReports of the server.  The list is loaded when the page is mounted;  *)
(* the button is disabled while a report is being created.                 *)
(*                                                                         *)
(* submit goes on with event.currentTarget after its first await.  React   *)
(* has set it to null by then, so the call of reset throws, and what       *)
(* follows is the catch of submit, as if the report had been refused: the  *)
(* load that would show the new report is never reached.                   *)
(***************************************************************************)
EXTENDS Naturals

CONSTANTS
    RepIds,         \* ids the user may type
    OwnStays,       \* ids of the user's reservations
    OwnPayments,    \* ids of the user's payments
    RepTickets,     \* ids of tickets
    NoId,           \* an empty input
    MaxSubmits      \* bound on the submits of one visit

ASSUME RepAssumption == NoId \notin RepIds /\ MaxSubmits \in Nat

VARIABLES
    repFiled,       \* rows of reports, by the submit that created them
    repShown,       \* the rows in the list on show
    repSubject,     \* what the report is to be about
    repStays,       \* the user's reservations: "asked", "ok" or "failed"
    repField,       \* the value of the control subjectId
    repLoad,        \* the load: "asked", "read" or "over"
    repRead,        \* the rows it read
    repCalls,       \* creations the server has not answered
    repSubmits,     \* how many there have been
    repWaiting,     \* the one submit is waiting for, 0 if none
    repAnswer,      \* what the server made of each: "none", "ok", "refused"
    repBusy, repLoading, repError,
    repOutcome,     \* how the last submit ended: "none", "ok", "failed"
    repSound        \* no request of this visit has failed so far

repServer == <<repFiled, repCalls, repAnswer>>
repControls == <<repSubject, repStays, repField>>
repLoadVars == <<repShown, repLoad, repRead, repLoading>>
repSubmitVars == <<repSubmits, repWaiting, repBusy, repOutcome>>
repVars == <<repServer, repControls, repLoadVars, repSubmitVars, repError, repSound>>

RepInit ==
    /\ repFiled = {} /\ repCalls = {}
    /\ repAnswer = [n \in 1..MaxSubmits |-> "none"]
    /\ repSubject = "reservation" /\ repStays = "asked" /\ repField = NoId
    /\ repShown = {} /\ repLoad = "asked" /\ repRead = {} /\ repLoading = TRUE
    /\ repSubmits = 0 /\ repWaiting = 0 /\ repBusy = FALSE /\ repOutcome = "none"
    /\ repError = FALSE /\ repSound = TRUE

-----------------------------------------------------------------------------
(* The control subjectId: a select of the user's reservations once they    *)
(* have arrived, otherwise an input.  React keeps the element, and what    *)
(* was typed, while its kind stays; a select starts with its first option, *)
(* the newest of them.                                                     *)

Kind(subject, stays) ==
    IF subject = "reservation" /\ stays = "ok" /\ OwnStays # {} THEN "select" ELSE "input"

FieldAfter(subject, stays) ==
    IF Kind(subject, stays) = Kind(repSubject, repStays) THEN repField
    ELSE IF Kind(subject, stays) = "input" THEN NoId
    ELSE CHOOSE first \in OwnStays : \A other \in OwnStays : first >= other

RepSubject(subject) ==
    /\ subject # repSubject
    /\ repSubject' = subject
    /\ repField' = FieldAfter(subject, repStays)
    /\ UNCHANGED <<repServer, repStays, repLoadVars, repSubmitVars, repError, repSound>>

RepStaysArrive ==
    /\ repStays = "asked"
    /\ \E outcome \in {"ok", "failed"} :
          /\ repStays' = outcome
          /\ repField' = FieldAfter(repSubject, outcome)
    /\ UNCHANGED <<repServer, repSubject, repLoadVars, repSubmitVars, repError, repSound>>

RepType ==
    /\ \E id \in IF Kind(repSubject, repStays) = "select" THEN OwnStays ELSE RepIds :
          /\ id # repField
          /\ repField' = id
    /\ UNCHANGED <<repServer, repSubject, repStays, repLoadVars, repSubmitVars, repError, repSound>>

-----------------------------------------------------------------------------
(* The list.                                                               *)

RepReads ==
    /\ repLoad = "asked"
    /\ repLoad' = "read" /\ repRead' = repFiled
    /\ UNCHANGED <<repServer, repControls, repShown, repLoading, repSubmitVars, repError, repSound>>

Fault_LoadClearsError == FALSE
ErrorAfterLoad == repError

RepShows ==
    /\ repLoad = "read"
    /\ repLoad' = "over"
    /\ repShown' = repRead /\ repLoading' = FALSE
    /\ repError' = ErrorAfterLoad
    /\ UNCHANGED <<repServer, repControls, repRead, repSubmitVars, repSound>>

RepLoadFails ==
    /\ repLoad \in {"asked", "read"}
    /\ repLoad' = "over"
    /\ repLoading' = FALSE /\ repError' = TRUE /\ repSound' = FALSE
    /\ UNCHANGED <<repServer, repControls, repShown, repRead, repSubmitVars>>

-----------------------------------------------------------------------------
(* submit.                                                                 *)

RepSubmit ==
    /\ ~repBusy                             \* the button is disabled
    /\ repField # NoId                      \* the input is required
    /\ repSubmits < MaxSubmits
    /\ repSubmits' = repSubmits + 1
    /\ repWaiting' = repSubmits'
    /\ repCalls' = repCalls \cup {[n |-> repSubmits', subject |-> repSubject, of |-> repField]}
    /\ repBusy' = TRUE /\ repError' = FALSE /\ repOutcome' = "none"
    /\ UNCHANGED <<repFiled, repAnswer, repControls, repLoadVars, repSound>>

(* createReport: what a report is about must be the user's own, or an      *)
(* existing ticket.  It may also refuse the category or the description.   *)
OwnSource(subject, id) ==
    CASE subject = "reservation" -> id \in OwnStays
      [] subject = "payment" -> id \in OwnPayments
      [] subject = "ticket" -> id \in RepTickets

RepCreates(c) ==
    /\ c \in repCalls
    /\ repCalls' = repCalls \ {c}
    /\ \/ /\ OwnSource(c.subject, c.of)
          /\ repFiled' = repFiled \cup {c.n}
          /\ repAnswer' = [repAnswer EXCEPT ![c.n] = "ok"]
       \/ /\ repAnswer' = [repAnswer EXCEPT ![c.n] = "refused"]
          /\ UNCHANGED repFiled
    /\ UNCHANGED <<repControls, repLoadVars, repSubmitVars, repError, repSound>>

(* finally: the button comes back however submit ends.                     *)
SubmitEnds(ended) ==
    /\ repWaiting' = 0
    /\ repBusy' = FALSE
    /\ repOutcome' = ended
    /\ repSound' = (repSound /\ ended = "ok")
    /\ repError' = TRUE
    /\ UNCHANGED <<repControls, repLoadVars, repSubmits>>

(* Created: reset throws, and the catch shows its message.                 *)
RepCreated ==
    /\ repWaiting # 0 /\ repAnswer[repWaiting] = "ok"
    /\ SubmitEnds("ok")
    /\ UNCHANGED repServer

RepRefused ==
    /\ repWaiting # 0 /\ repAnswer[repWaiting] = "refused"
    /\ SubmitEnds("failed")
    /\ UNCHANGED repServer

(* The answer is lost or late; the request itself may not have arrived.    *)
RepUnheard ==
    /\ repWaiting # 0
    /\ SubmitEnds("failed")
    /\ repCalls' \in {repCalls, {c \in repCalls : c.n # repWaiting}}
    /\ UNCHANGED <<repFiled, repAnswer>>

RepNext ==
    \/ \E subject \in {"reservation", "ticket", "payment"} : RepSubject(subject)
    \/ RepStaysArrive
    \/ RepType
    \/ RepReads
    \/ RepShows
    \/ RepLoadFails
    \/ RepSubmit
    \/ \E c \in repCalls : RepCreates(c)
    \/ RepCreated
    \/ RepRefused
    \/ RepUnheard

-----------------------------------------------------------------------------
(* A submit that failed is told to the user until the next one, also when  *)
(* the list arrives in between (setError in submit and in load).           *)
ReportFailureShown == repOutcome = "failed" => repError

(* "The user files a report for a reservation and sees its pending state": *)
(* while no request has failed, a report whose creation was answered is in *)
(* the list once the page has come to rest.                                *)
ReportFiledIsSeen ==
    (repSound /\ ~repBusy /\ ~repLoading) =>
        \A n \in 1..repSubmits : repAnswer[n] = "ok" => n \in repShown
=============================================================================
