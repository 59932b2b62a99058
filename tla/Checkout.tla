------------------------------ MODULE Checkout ------------------------------
(***************************************************************************)
(* One reservation seen from its owner's two tabs, the payment page and    *)
(* the list with its cancel buttons, while the clock and the expiration    *)
(* job go on.  A page that gives up waiting does not stop the server: a    *)
(* call may be carried out late, and its transaction may commit although   *)
(* the answer says that it failed, when the connection is lost during      *)
(* COMMIT.  The user may then try again, or open the page again.  To the    *)
(* page, an answer that tells of a failure, one that is lost and one that  *)
(* is late are alike; the messages it shows are left out, nothing reads    *)
(* them.                                                                   *)
(*                                                                         *)
(* The server is reduced to this reservation; module Booking has the whole *)
(* of pay, cancel and the job.  An order here has one reservation.  What a *)
(* page reads is read and shown in one step, since what it does with it    *)
(* comes later in any case.                                                *)
(***************************************************************************)
EXTENDS Integers, Sequences, FiniteSets

CONSTANTS
    Rules,          \* cancellation_policy_rules: min, max hours and percent
    Endless,        \* a rule without max_hours_before_match
    StayPrice,      \* price_at_reservation
    StartHours,     \* hours to the match at the beginning
    NoAmount,       \* no amount
    MaxPayTries, MaxCancelTries   \* bounds on the calls of each tab

ASSUME CheckoutAssumption == StayPrice \in Nat /\ StartHours \in Nat

VARIABLES
    coStatus, coCharges, coRefunds,     \* the reservation, payments, refunds
    coHours, coOverdue,                 \* hours to the match; reserved_until
    coCalls,                            \* calls at the server or answered
    coPaySent, coCancelSent,            \* how many each tab has sent
    payBusy, payShown,                  \* PaymentPage
    cardStatus, cardLoading,            \* ReservationsPage: the card's status
    cardStep,                           \* how far cancelReservation is
    cardShown,                          \* the refund told last: by the dialog,
                                        \* then by the answer to the cancel
    cardNotice                          \* "none", "cancelled" or "refunded"

coServer == <<coStatus, coCharges, coRefunds>>
coClock == <<coHours, coOverdue>>
coPayTab == <<coPaySent, payBusy, payShown>>
coCardTab == <<coCancelSent, cardStatus, cardLoading, cardStep, cardShown, cardNotice>>
coVars == <<coServer, coClock, coCalls, coPayTab, coCardTab>>

(* n tells the tries of a tab apart; shown is what the dialog promised and *)
(* amount what the answer says was refunded.                               *)
Call(op, n, shown) ==
    [op |-> op, n |-> n, shown |-> shown, state |-> "sent", amount |-> NoAmount]

CheckoutInit ==
    /\ coStatus = "pending" /\ coCharges = 0 /\ coRefunds = <<>>
    /\ coHours = StartHours /\ coOverdue = FALSE
    /\ coCalls = {Call("list", 0, NoAmount)}
    /\ coPaySent = 0 /\ payBusy = FALSE /\ payShown = FALSE
    /\ coCancelSent = 0 /\ cardStatus = "none" /\ cardLoading = TRUE
    /\ cardStep = "idle" /\ cardShown = NoAmount /\ cardNotice = "none"

-----------------------------------------------------------------------------
(* The rule that applies, and what is refunded.  Rules do not overlap      *)
(* (ex_cancellation_policy_rules_no_overlap).                              *)

Fault_MinExcluded(rule, hours) == hours > rule.min /\ (rule.max = Endless \/ hours < rule.max)
Covers(rule, hours) == hours >= rule.min /\ (rule.max = Endless \/ hours < rule.max)

PenaltyPercent(hours) ==
    LET rules == {rule \in Rules : Covers(rule, hours)}
    IN IF rules = {} THEN 0
       ELSE (CHOOSE rule \in rules : \A other \in rules : rule.min >= other.min).percent

RefundAt(hours) == StayPrice - (StayPrice * PenaltyPercent(hours) + 50) \div 100

Started == coHours <= 0

-----------------------------------------------------------------------------
(* The server.                                                             *)

(* Whether the tab still waits for the answer.                             *)
Awaited(c) ==
    CASE c.op = "pay" -> payBusy /\ c.n = coPaySent
      [] c.op = "cancel" -> cardStep = "cancelling" /\ c.n = coCancelSent

AnswerCall(c, amount) ==
    coCalls' = (coCalls \ {c}) \cup
        IF Awaited(c) THEN {[c EXCEPT !.state = "ok", !.amount = amount]} ELSE {}

Fault_AnyStatus == coStatus # "cancelled" /\ ~coOverdue
PayAllowed == coStatus = "pending" /\ ~coOverdue

ServerPays(c) ==
    /\ PayAllowed
    /\ coStatus' = "paid"
    /\ coCharges' = coCharges + 1
    /\ UNCHANGED coRefunds
    /\ AnswerCall(c, NoAmount)

CancelAllowed == coStatus \in {"pending", "paid"} /\ ~Started

ServerCancels(c) ==
    /\ CancelAllowed
    /\ coStatus' = "cancelled"
    /\ coRefunds' = IF coCharges > 0 THEN Append(coRefunds, [amount |-> RefundAt(coHours), shown |-> c.shown])
                    ELSE coRefunds
    /\ UNCHANGED coCharges
    /\ AnswerCall(c, IF coCharges > 0 THEN RefundAt(coHours) ELSE NoAmount)

(* alreadyCancelled: a second cancel succeeds and changes nothing.         *)
ServerCancelled(c) ==
    /\ coStatus = "cancelled"
    /\ AnswerCall(c, NoAmount)
    /\ UNCHANGED coServer

CheckoutServes(c) ==
    /\ c \in coCalls /\ c.state = "sent"
    /\ \/ c.op = "pay" /\ ServerPays(c)
       \/ c.op = "cancel" /\ (ServerCancels(c) \/ ServerCancelled(c))
    /\ UNCHANGED <<coClock, coPayTab, coCardTab>>

CheckoutExpires ==
    /\ coOverdue /\ coStatus = "pending"
    /\ coStatus' = "expired"
    /\ UNCHANGED <<coCharges, coRefunds, coClock, coCalls, coPayTab, coCardTab>>

CheckoutTime ==
    /\ \/ ~coOverdue /\ coOverdue' = TRUE /\ UNCHANGED coHours
       \/ ~Started /\ coHours' = coHours - 1 /\ UNCHANGED coOverdue
    /\ UNCHANGED <<coServer, coCalls, coPayTab, coCardTab>>

-----------------------------------------------------------------------------
(* The payment page.                                                       *)

Send(call) == coCalls' = coCalls \cup {call}

PayClick ==
    /\ ~payShown /\ ~payBusy
    /\ coPaySent < MaxPayTries
    /\ coPaySent' = coPaySent + 1
    /\ Send(Call("pay", coPaySent', NoAmount))
    /\ payBusy' = TRUE
    /\ UNCHANGED <<coServer, coClock, payShown, coCardTab>>

(* setPayment; refreshUser, which is awaited next, changes nothing here:   *)
(* the success card has taken the place of the button.                     *)
PayAnswered(c) ==
    /\ c \in coCalls /\ c.op = "pay" /\ c.state = "ok" /\ Awaited(c)
    /\ coCalls' = coCalls \ {c}
    /\ payShown' = TRUE
    /\ payBusy' = FALSE
    /\ UNCHANGED <<coServer, coClock, coPaySent, coCardTab>>

(* The call is refused, rolled back or lost, or its answer is: of a call   *)
(* that the server has not dealt with, a time-out may leave it under way.  *)
GiveUp(c) == coCalls' \in {coCalls \ {c}} \cup IF c.state = "sent" THEN {coCalls} ELSE {}

PayFails(c) ==
    /\ c \in coCalls /\ c.op = "pay" /\ Awaited(c)
    /\ GiveUp(c)
    /\ payBusy' = FALSE
    /\ UNCHANGED <<coServer, coClock, coPaySent, payShown, coCardTab>>

(* The page is left and opened again from the list of reservations.        *)
PayReopen ==
    /\ payBusy \/ payShown
    /\ cardStatus = "pending" /\ ~cardLoading
    /\ payBusy' = FALSE /\ payShown' = FALSE
    /\ coCalls' = {c \in coCalls : c.op # "pay" \/ c.state = "sent"}
    /\ UNCHANGED <<coServer, coClock, coPaySent, coCardTab>>

-----------------------------------------------------------------------------
(* The list of reservations: load and cancelReservation.                   *)

CardRefresh ==
    /\ ~cardLoading
    /\ cardStep # "confirm"                 \* window.confirm stops the page
    /\ ~\E c \in coCalls : c.op = "list"
    /\ Send(Call("list", 0, NoAmount))
    /\ cardLoading' = TRUE
    /\ UNCHANGED <<coServer, coClock, coPayTab, coCancelSent, cardStatus, cardStep, cardShown, cardNotice>>

CardLoaded(c) ==
    /\ c \in coCalls /\ c.op = "list"
    /\ coCalls' = coCalls \ {c}
    /\ cardStatus' \in {coStatus, cardStatus}   \* read, or failed
    /\ cardLoading' = FALSE
    /\ UNCHANGED <<coServer, coClock, coPayTab, coCancelSent, cardStep, cardShown, cardNotice>>

CancelClick ==
    /\ ~cardLoading /\ cardStep = "idle"
    /\ cardStatus \in {"pending", "paid"}
    /\ coCancelSent < MaxCancelTries
    /\ coCancelSent' = coCancelSent + 1
    /\ Send(Call("preview", coCancelSent', NoAmount))
    /\ cardStep' = "asking" /\ cardNotice' = "none"
    /\ UNCHANGED <<coServer, coClock, coPayTab, cardStatus, cardLoading, cardShown>>

CancelAsked(c) ==
    /\ c \in coCalls /\ c.op = "preview"
    /\ ~Started
    /\ coCalls' = coCalls \ {c}
    /\ cardStep' = "confirm" /\ cardShown' = RefundAt(coHours)
    /\ UNCHANGED <<coServer, coClock, coPayTab, coCancelSent, cardStatus, cardLoading, cardNotice>>

CancelDeclined ==
    /\ cardStep = "confirm"
    /\ cardStep' = "idle"
    /\ UNCHANGED <<coServer, coClock, coCalls, coPayTab, coCancelSent, cardStatus, cardLoading,
                   cardShown, cardNotice>>

CancelConfirmed ==
    /\ cardStep = "confirm"
    /\ Send(Call("cancel", coCancelSent, cardShown))
    /\ cardStep' = "cancelling"
    /\ UNCHANGED <<coServer, coClock, coPayTab, coCancelSent, cardStatus, cardLoading,
                   cardShown, cardNotice>>

(* Cancelled: the profile and the lists are asked for again, at once.      *)
CancelAnswered(c) ==
    /\ c \in coCalls /\ c.op = "cancel" /\ c.state = "ok" /\ Awaited(c)
    /\ coCalls' = (coCalls \ {c}) \cup {Call("list", coCancelSent, NoAmount)}
    /\ cardStep' = "refreshing" /\ cardShown' = c.amount
    /\ cardLoading' = TRUE
    /\ UNCHANGED <<coServer, coClock, coPayTab, coCancelSent, cardStatus, cardNotice>>

CancelNoticed ==
    /\ cardStep = "refreshing"
    /\ \A c \in coCalls : c.op = "list" => c.n # coCancelSent
    /\ cardStep' = "idle"
    /\ cardNotice' = IF cardShown = NoAmount THEN "cancelled" ELSE "refunded"
    /\ UNCHANGED <<coServer, coClock, coCalls, coPayTab, coCancelSent, cardStatus, cardLoading,
                   cardShown>>

Fault_GoOn(step) == IF step = "cancelling" THEN "refreshing" ELSE "idle"
StepAfterError(step) == "idle"

(* The preview or the cancel is refused or not heard of, or the profile    *)
(* cannot be read although the reservation is cancelled.                   *)
CancelFails ==
    /\ \/ /\ cardStep \in {"asking", "cancelling"}
          /\ \E c \in coCalls : /\ c.op \in {"preview", "cancel"} /\ c.n = coCancelSent
                               /\ IF c.op = "cancel" THEN GiveUp(c) ELSE coCalls' = coCalls \ {c}
       \/ cardStep = "refreshing" /\ UNCHANGED coCalls
    /\ cardStep' = StepAfterError(cardStep)
    /\ UNCHANGED <<coServer, coClock, coPayTab, coCancelSent, cardStatus, cardLoading, cardShown, cardNotice>>

(* What the tabs do without their user: fair, since each call is answered  *)
(* or times out.                                                           *)
PaySteps == \E c \in coCalls : PayAnswered(c) \/ PayFails(c)
CardLoads == \E c \in coCalls : CardLoaded(c)
CancelSteps ==
    \/ \E c \in coCalls : CancelAsked(c) \/ CancelAnswered(c)
    \/ CancelNoticed
    \/ CancelFails

CheckoutNext ==
    \/ \E c \in coCalls : CheckoutServes(c)
    \/ CheckoutExpires
    \/ CheckoutTime
    \/ PaySteps
    \/ CardLoads
    \/ CancelSteps
    \/ PayClick
    \/ PayReopen
    \/ CardRefresh
    \/ CancelClick
    \/ CancelDeclined
    \/ CancelConfirmed

-----------------------------------------------------------------------------
(* However often the user retries after a time-out, a lost answer or in a  *)
(* page opened again, the reservation is paid once, and the success card   *)
(* is shown only for a payment that was made; if it was paid and then      *)
(* cancelled it was refunded once, whichever of the retried or late cancels*)
(* took effect, and a kept one never (the checks of pay and cancel).       *)
CheckoutSettledOnce ==
    /\ coCharges <= 1
    /\ payShown => coCharges = 1
    /\ Len(coRefunds) = IF coStatus = "cancelled" THEN coCharges ELSE 0

(* The notice that a reservation was cancelled is true, and an amount it   *)
(* tells was refunded (cancelReservation, which goes on only from answers).*)
CheckoutNoticeTrue ==
    cardNotice # "none" =>
        /\ coStatus = "cancelled"
        /\ cardNotice = "refunded" => \E i \in DOMAIN coRefunds : coRefunds[i].amount = cardShown

(* With rules that only get stricter as the match comes near, a user is    *)
(* never refunded more than the dialog showed, however long it stood open  *)
(* (previewPenalty and cancel choose a rule each at its own time).  The    *)
(* price stays: a support ticket change in between is left out.            *)
CheckoutRefundAtMostShown ==
    \A i \in DOMAIN coRefunds : coRefunds[i].amount <= coRefunds[i].shown
=============================================================================
