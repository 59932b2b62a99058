------------------------------ MODULE Booking ------------------------------
(***************************************************************************)
(* The booking core of BookTheGame: seats, orders, reservations, payments, *)
(* cancellations and the wallet, as rows of the PostgreSQL database.       *)
(*                                                                         *)
(* Every service call runs in transaction() (config/database.ts), takes    *)
(* row locks on all it decides from, and commits or rolls back; a call is  *)
(* therefore ONE action here, on the committed rows (the README says why   *)
(* the locks justify this).  A rejected or rolled back call                *)
(* changes no row and is a stuttering step.                                *)
(*                                                                         *)
(* A reservation is named by its order and the seat it was created for, a  *)
(* payment by its order and the number of the attempt.  The unique indexes *)
(* of indexes.sql are NOT guards of the actions: they are stated as        *)
(* properties, so the code is shown never to run into them.                *)
(***************************************************************************)
EXTENDS Integers, FiniteSetsExt

CONSTANTS
    Users,          \* active accounts
    Support,        \* a member of the support staff, not in Users
    Tickets,        \* one seat of one match each
    Matches,        \* scheduled matches
    MatchOf,        \* the match of a ticket
    Price,          \* tickets.price, in the smallest unit
    Orders,         \* identities of orders, each used at most once
    MaxAttempts,    \* bound on the payment attempts of an order
    MaxPerOrder,    \* ticketIds.max(10) of createReservationSchema
    BatchSize,      \* EXPIRATION_BATCH_SIZE
    Percents,       \* penalty percents the active policy rules may yield
    Wallet0         \* wallet_balance of a user before the first call

ASSUME BookingAssumption ==
    /\ Support \notin Users
    /\ {"free", "withdrawn"} \cap Orders = {}
    /\ MatchOf \in [Tickets -> Matches]
    /\ Price \in [Tickets -> Nat]
    /\ MaxAttempts \in Nat \ {0}
    /\ MaxPerOrder \in Nat \ {0}
    /\ BatchSize \in Nat \ {0}
    /\ Percents \subseteq 0..100
    /\ Wallet0 \in [Users -> Nat]

(* A table has finitely many rows, so sums over its rows are defined.      *)
ASSUME FiniteRows == IsFiniteSet(Orders) /\ IsFiniteSet(Tickets)

Reservations == Orders \X Tickets
OrderOf(r) == r[1]
Payments == Orders \X (1..MaxAttempts)
Methods == {"wallet", "bank_card"}      \* crypto is treated as bank_card is

VARIABLES
    ticketStatus,   \* tickets.status
    orderStatus,    \* orders.status, "none" while the row does not exist
    orderUser,      \* orders.user_id
    resStatus,      \* reservations.status
    resTicket,      \* reservations.ticket_id
    resPrice,       \* reservations.price_at_reservation
    payStatus,      \* payments.status
    payAmount,      \* payments.amount
    payMethod,      \* payments.method
    approved,       \* approved cancellation_request_items of a reservation
    refunded,       \* sum of the success refunds of a reservation
    wallet,         \* users.wallet_balance
    apiDue,         \* orders whose reserved_until has passed for Date.now()
    dbDue,          \* orders whose reserved_until has passed for PostgreSQL
    started         \* matches whose match_datetime has passed

seatVars == <<ticketStatus, orderStatus, orderUser, resStatus, resTicket, resPrice>>
moneyVars == <<payStatus, payAmount, payMethod, approved, refunded, wallet>>
timeVars == <<apiDue, dbDue, started>>
vars == <<seatVars, moneyVars, timeVars>>

-----------------------------------------------------------------------------
(* What the rows say.                                                      *)

HasStatus(o, s) == {r \in Reservations : OrderOf(r) = o /\ resStatus[r] = s}
Pending(o) == HasStatus(o, "pending")
Paid(o) == HasStatus(o, "paid")
TicketsOf(R) == {resTicket[r] : r \in R}
SumOver(column, R) == MapThenSumSet(LAMBDA r : column[r], R)
Total(R) == SumOver(resPrice, R)

SuccessPayments(o) == {p \in Payments : p[1] = o /\ payStatus[p] = "success"}

(* roundMoney(price * percent / 100): half a unit rounds up (Math.round).  *)
Penalty(price, percent) == (price * percent + 50) \div 100
Refundable(price, percent) == price - Penalty(price, percent)

(* The seats pay and the job update: WHERE ticket_id = ANY(those read with *)
(* the reservations) AND status = 'reserved'.                              *)
Fault_SeatsFirstReserved(R) == {r[2] : r \in R}
SeatsToMove(R) == {t \in TicketsOf(R) : ticketStatus[t] = "reserved"}

(* Set the status of every reservation, seat or order of a set.            *)
SetStatus(f, S, s) == [x \in DOMAIN f |-> IF x \in S THEN s ELSE f[x]]

-----------------------------------------------------------------------------
Init ==
    /\ ticketStatus \in [Tickets -> {"available", "cancelled"}]
    /\ orderStatus = [o \in Orders |-> "none"]
    /\ orderUser = [o \in Orders |-> "none"]
    /\ resStatus = [r \in Reservations |-> "none"]
    /\ resTicket = [r \in Reservations |-> r[2]]
    /\ resPrice = [r \in Reservations |-> 0]
    /\ payStatus = [p \in Payments |-> "none"]
    /\ payAmount = [p \in Payments |-> 0]
    /\ payMethod = [p \in Payments |-> "bank_card"]
    /\ approved = [r \in Reservations |-> 0]
    /\ refunded = [r \in Reservations |-> 0]
    /\ wallet = Wallet0
    /\ apiDue = {} /\ dbDue = {} /\ started = {}

-----------------------------------------------------------------------------
(* Definitions named Fault_... are seeded faults: plausible slips in the   *)
(* code, each of which makes a property of this module fail.  Nothing      *)
(* refers to them.                                                         *)

(* createReservation: all the seats or none, at the price of this moment.  *)
Fault_ReserveAnyStatus(t) == MatchOf[t] \notin started
Reservable(t) == ticketStatus[t] = "available" /\ MatchOf[t] \notin started

Reserve(u, o, S) ==
    LET new == {o} \X S IN
    /\ orderStatus[o] = "none"
    /\ S # {} /\ Cardinality(S) <= MaxPerOrder
    /\ \A t \in S : Reservable(t)
    /\ orderStatus' = [orderStatus EXCEPT ![o] = "pending"]
    /\ orderUser' = [orderUser EXCEPT ![o] = u]
    /\ resStatus' = SetStatus(resStatus, new, "pending")
    /\ resPrice' = [r \in Reservations |-> IF r \in new THEN Price[r[2]] ELSE resPrice[r]]
    /\ ticketStatus' = SetStatus(ticketStatus, S, "reserved")
    /\ UNCHANGED <<resTicket, moneyVars, timeVars>>

(* pay, up to the insertion of the payment: what both outcomes require.    *)
Fault_PaidAgain(u, o) == orderStatus[o] \in {"pending", "paid"} /\ orderUser[o] = u /\ o \notin apiDue
Payable(u, o) ==
    /\ orderStatus[o] = "pending"
    /\ orderUser[o] = u
    /\ o \notin apiDue
    /\ SuccessPayments(o) = {}
    /\ Pending(o) # {}

Fault_AmountOfEveryRow(o) == Total({o} \X Tickets)
AmountDue(o) == Total(Pending(o))

InsertPayment(p, status, amount, method) ==
    /\ payStatus[p] = "none"
    /\ \A k \in 1..(p[2] - 1) : payStatus[<<p[1], k>>] # "none"
    /\ payStatus' = [payStatus EXCEPT ![p] = status]
    /\ payAmount' = [payAmount EXCEPT ![p] = amount]
    /\ payMethod' = [payMethod EXCEPT ![p] = method]

(* A simulated failure leaves the order payable and records the attempt.   *)
PayFailed(u, p, method) ==
    /\ Payable(u, p[1])
    /\ InsertPayment(p, "failed", AmountDue(p[1]), method)
    /\ UNCHANGED <<seatVars, approved, refunded, wallet, timeVars>>

Fault_NoBalanceCheck(u, amount, method) == TRUE
CanAfford(u, amount, method) == method = "wallet" => wallet[u] >= amount

Fault_ChargeAnyMethod(u, amount, method) == [wallet EXCEPT ![u] = @ - amount]
Charge(u, amount, method) ==
    IF method = "wallet" THEN [wallet EXCEPT ![u] = @ - amount] ELSE wallet

(* A success pays every pending reservation of the order, at once.         *)
PaySuccess(u, p, method) ==
    LET o == p[1]
        amount == AmountDue(o)
    IN
    /\ Payable(u, o)
    /\ CanAfford(u, amount, method)
    /\ InsertPayment(p, "success", amount, method)
    /\ wallet' = Charge(u, amount, method)
    /\ orderStatus' = [orderStatus EXCEPT ![o] = "paid"]
    /\ resStatus' = SetStatus(resStatus, Pending(o), "paid")
    /\ ticketStatus' = SetStatus(ticketStatus, SeatsToMove(Pending(o)), "sold")
    /\ UNCHANGED <<orderUser, resTicket, resPrice, approved, refunded, timeVars>>

(* The order status cancel computes from what the order still holds, now   *)
(* that r has left it.                                                     *)
Fault_AlwaysPartial(r) ==
    IF (Pending(OrderOf(r)) \cup Paid(OrderOf(r))) \ {r} = {}
    THEN "cancelled" ELSE "partially_cancelled"
StatusAfterCancel(r) ==
    LET pending == Pending(OrderOf(r)) \ {r}
        paid == Paid(OrderOf(r)) \ {r}
    IN IF pending \cup paid = {} THEN "cancelled"
       ELSE IF resStatus[r] = "pending" /\ paid = {} THEN "pending"
       ELSE "partially_cancelled"

Fault_RefundUnpaid(r, percent) == Refundable(resPrice[r], percent)
RefundOf(r, percent) ==
    IF resStatus[r] = "paid" THEN Refundable(resPrice[r], percent) ELSE 0

PaymentsToClose(r) ==
    IF resStatus[r] = "paid" /\ StatusAfterCancel(r) = "cancelled"
    THEN SuccessPayments(OrderOf(r)) ELSE {}

(* cancel, by the owner or by support.  A paid reservation is refunded to  *)
(* the wallet whatever the payment method was; the last one to leave turns *)
(* the payment into "refunded".  Cancelling a cancelled reservation        *)
(* returns what was done and changes nothing.                              *)
Cancel(r, actor, percent) ==
    LET o == OrderOf(r) IN
    /\ resStatus[r] \in {"pending", "paid"}
    /\ actor \in {orderUser[o], Support}
    /\ MatchOf[resTicket[r]] \notin started
    /\ resStatus[r] = "paid" => SuccessPayments(o) # {}
    /\ approved' = [approved EXCEPT ![r] = @ + 1]
    /\ refunded' = [refunded EXCEPT ![r] = @ + RefundOf(r, percent)]
    /\ wallet' = [wallet EXCEPT ![orderUser[o]] = @ + RefundOf(r, percent)]
    /\ resStatus' = [resStatus EXCEPT ![r] = "cancelled"]
    /\ ticketStatus' = [ticketStatus EXCEPT ![resTicket[r]] = "available"]
    /\ orderStatus' = [orderStatus EXCEPT ![o] = StatusAfterCancel(r)]
    /\ payStatus' = SetStatus(payStatus, PaymentsToClose(r), "refunded")
    /\ UNCHANGED <<orderUser, resTicket, resPrice, payAmount, payMethod, timeVars>>

(* setReservationStatus by support: "expired" releases one reservation, and *)
(* the order with the last one it holds; "paid" completes an order whose   *)
(* payment succeeded.  ("cancelled" is Cancel with the actor Support.)     *)
Reviewable(r, s) ==
    /\ resStatus[r] = "pending"
    /\ s = "paid" => SuccessPayments(OrderOf(r)) # {}

SetReservationStatus(r, s) ==
    LET o == OrderOf(r)
        moved == IF s = "paid" THEN Pending(o) ELSE {r}
        left == (Pending(o) \cup Paid(o)) \ {r}
    IN
    /\ Reviewable(r, s)
    /\ resStatus' = SetStatus(resStatus, moved, s)
    /\ ticketStatus' = IF s = "paid"
                       THEN SetStatus(ticketStatus, TicketsOf(moved \cup Paid(o)), "sold")
                       ELSE [ticketStatus EXCEPT ![resTicket[r]] = "available"]
    /\ orderStatus' = IF s = "paid" \/ left = {}
                      THEN [orderStatus EXCEPT ![o] = s] ELSE orderStatus
    /\ UNCHANGED <<orderUser, resTicket, resPrice, moneyVars, timeVars>>

(* changeReservationTicket: a pending reservation moves to a free seat of  *)
(* the same match, at that seat's price; its old seat becomes free.        *)
Fault_ReplaceByAny(r, t) == MatchOf[t] = MatchOf[resTicket[r]] /\ t # resTicket[r]
Replaceable(r, t) ==
    /\ ticketStatus[resTicket[r]] = "reserved"
    /\ ticketStatus[t] = "available"
    /\ MatchOf[t] = MatchOf[resTicket[r]]

ChangeTicket(r, t) ==
    /\ orderStatus[OrderOf(r)] = "pending"
    /\ OrderOf(r) \notin apiDue
    /\ resStatus[r] = "pending"
    /\ Replaceable(r, t)
    /\ ticketStatus' = [ticketStatus EXCEPT ![t] = "reserved", ![resTicket[r]] = "available"]
    /\ resTicket' = [resTicket EXCEPT ![r] = t]
    /\ resPrice' = [resPrice EXCEPT ![r] = Price[t]]
    /\ UNCHANGED <<orderStatus, orderUser, resStatus, moneyVars, timeVars>>

(* expireReservations: one batch of due orders.  ORDER BY reserved_until,  *)
(* LIMIT and SKIP LOCKED pick any non-empty set of at most BatchSize due   *)
(* orders, since other transactions may hold any of them.                  *)
Due == {o \in dbDue : orderStatus[o] = "pending"}

Fault_ReleaseEveryRow(B) == {r \in Reservations : OrderOf(r) \in B /\ resStatus[r] # "none"}
Fault_ReleaseOpenMatches(B) ==
    {r \in Reservations : /\ OrderOf(r) \in B /\ resStatus[r] = "pending"
                          /\ MatchOf[resTicket[r]] \notin started}
ReleasedBy(B) == {r \in Reservations : OrderOf(r) \in B /\ resStatus[r] = "pending"}

ExpireBatch(B) ==
    /\ B # {} /\ Cardinality(B) <= BatchSize
    /\ resStatus' = SetStatus(resStatus, ReleasedBy(B), "expired")
    /\ ticketStatus' = SetStatus(ticketStatus, SeatsToMove(ReleasedBy(B)), "available")
    /\ orderStatus' = SetStatus(orderStatus, B, "expired")
    /\ UNCHANGED <<orderUser, resTicket, resPrice, moneyVars, timeVars>>

(* Time passes, separately for the API process, which judges a deadline    *)
(* with Date.now(), and for PostgreSQL, which judges it with               *)
(* CURRENT_TIMESTAMP.                                                      *)
ApiDeadline(o) ==
    /\ orderStatus[o] = "pending" /\ o \notin apiDue
    /\ apiDue' = apiDue \cup {o}
    /\ UNCHANGED <<seatVars, moneyVars, dbDue, started>>

DbDeadline(o) ==
    /\ orderStatus[o] = "pending" /\ o \notin dbDue
    /\ dbDue' = dbDue \cup {o}
    /\ UNCHANGED <<seatVars, moneyVars, apiDue, started>>

MatchStarts(m) ==
    /\ m \notin started
    /\ started' = started \cup {m}
    /\ UNCHANGED <<seatVars, moneyVars, apiDue, dbDue>>

-----------------------------------------------------------------------------
UserStep ==
    \/ \E u \in Users, o \in Orders, S \in SUBSET Tickets : Reserve(u, o, S)
    \/ \E u \in Users, p \in Payments, method \in Methods :
          PayFailed(u, p, method) \/ PaySuccess(u, p, method)
    \/ \E r \in Reservations, a \in Users \cup {Support}, percent \in Percents :
          Cancel(r, a, percent)
    \/ \E r \in Reservations, s \in {"paid", "expired"} : SetReservationStatus(r, s)
    \/ \E r \in Reservations, t \in Tickets : ChangeTicket(r, t)

Job == \E B \in SUBSET Due : ExpireBatch(B)

Clock ==
    \/ \E o \in Orders : ApiDeadline(o) \/ DbDeadline(o)
    \/ \E m \in Matches : MatchStarts(m)

Next == UserStep \/ Job \/ Clock

Spec == Init /\ [][Next]_vars

(* The job is scheduled every minute by node-cron and locks are held only  *)
(* for the length of a transaction; the database clock advances.  Nothing  *)
(* forces a user or support to act.                                        *)
FairSpec ==
    /\ Spec
    /\ WF_vars(Job)
    /\ \A o \in Orders : WF_vars(DbDeadline(o))

-----------------------------------------------------------------------------
TicketStatuses == {"available", "reserved", "sold", "cancelled"}
OrderStatuses == {"none", "pending", "paid", "partially_cancelled", "cancelled", "expired"}
ResStatuses == {"none", "pending", "paid", "cancelled", "expired"}
PayStatuses == {"none", "failed", "success", "refunded"}

(* Every column of the seat tables holds a value its CHECK allows.         *)
SeatTypeOK ==
    /\ ticketStatus \in [Tickets -> TicketStatuses]
    /\ orderStatus \in [Orders -> OrderStatuses]
    /\ orderUser \in [Orders -> Users \cup {"none"}]
    /\ resStatus \in [Reservations -> ResStatuses]
    /\ resTicket \in [Reservations -> Tickets]
    /\ resPrice \in [Reservations -> Nat]
    /\ payStatus \in [Payments -> PayStatuses]
    /\ apiDue \subseteq Orders
    /\ dbDue \subseteq Orders
    /\ started \subseteq Matches

(* And every amount is one the CHECKs of the money tables allow: no        *)
(* payment, refund or wallet balance is negative.                          *)
TypeOK ==
    /\ SeatTypeOK
    /\ payAmount \in [Payments -> Nat]
    /\ payMethod \in [Payments -> Methods]
    /\ approved \in [Reservations -> 0..1]
    /\ refunded \in [Reservations -> Nat]
    /\ wallet \in [Users -> Nat]

-----------------------------------------------------------------------------
(* Safety.                                                                 *)

Active(t) == {r \in Reservations : resTicket[r] = t /\ resStatus[r] \in {"pending", "paid"}}

(* No seat is held twice: uq_active_reservation_per_ticket (indexes.sql)   *)
(* is never hit by reserve, by a ticket change or by anything else.        *)
NoDoubleBooking == \A t \in Tickets : \A r, s \in Active(t) : r = s

(* tickets.status, which reserve trusts and six calls write, agrees with   *)
(* the reservations: a seat is reserved exactly while a pending            *)
(* reservation is on it, sold exactly while a paid one is.                 *)
SeatsMatchReservations ==
    \A t \in Tickets :
        /\ ticketStatus[t] = "reserved" <=> \E r \in Active(t) : resStatus[r] = "pending"
        /\ ticketStatus[t] = "sold" <=> \E r \in Active(t) : resStatus[r] = "paid"

(* orders.status, written by four calls from different counts, agrees with *)
(* the reservations of the order.                                          *)
OrderMatchesReservations ==
    \A o \in Orders :
        /\ orderStatus[o] = "none" <=> \A r \in {o} \X Tickets : resStatus[r] = "none"
        /\ orderStatus[o] = "pending" <=> Pending(o) # {}
        /\ orderStatus[o] \in {"paid", "partially_cancelled"} <=> Paid(o) # {}
        /\ orderStatus[o] = "partially_cancelled" => HasStatus(o, "cancelled") # {}
        /\ orderStatus[o] \in {"cancelled", "expired"} => HasStatus(o, orderStatus[o]) # {}

(* An order has one success payment while it holds a paid seat and none    *)
(* otherwise; the payment is refunded exactly when a paid order has lost   *)
(* its last seat (uq_success_payment_per_order is never hit).              *)
SettledOnce ==
    \A o \in Orders :
        LET taken == {p \in Payments : p[1] = o /\ payStatus[p] \in {"success", "refunded"}}
        IN  /\ \A p, q \in taken : p = q
            /\ SuccessPayments(o) # {} <=> Paid(o) # {}
            /\ taken # {} /\ Paid(o) = {} => orderStatus[o] = "cancelled"

(* What an order got back and what it still holds paid never exceed what   *)
(* its success payment took: partial refunds, penalties and ticket changes *)
(* do not add up to more than the amount paid.                             *)
RefundsCovered ==
    \A o \in Orders :
        LET taken == {p \in Payments : p[1] = o /\ payStatus[p] \in {"success", "refunded"}}
        IN  SumOver(refunded, {o} \X Tickets) + Total(Paid(o)) <= SumOver(payAmount, taken)

(* Wallet money is conserved: a balance is the initial one less the wallet *)
(* payments that succeeded plus every refund, and each movement is counted *)
(* once although pay and cancel write it beside three other tables.        *)
WalletConserved ==
    \A u \in Users :
        LET spent == {p \in Payments : /\ orderUser[p[1]] = u /\ payMethod[p] = "wallet"
                                       /\ payStatus[p] \in {"success", "refunded"}}
            back == {r \in Reservations : orderUser[OrderOf(r)] = u}
        IN  wallet[u] = Wallet0[u] - SumOver(payAmount, spent) + SumOver(refunded, back)

-----------------------------------------------------------------------------
(* What a step may never do.                                               *)

(* A reservation becomes paid only in the step that records a new success  *)
(* payment of its order, for exactly the prices of the reservations that   *)
(* become paid in that step, and no seat of the order is left unpaid.      *)
PaidOnlyByPayment ==
    [][\A o \in Orders :
        LET became == Paid(o)' \ Paid(o) IN
        became # {} =>
            /\ Pending(o)' = {}
            /\ \E p \in Payments :
                 /\ p[1] = o /\ payStatus[p] = "none" /\ payStatus'[p] = "success"
                 /\ payAmount'[p] = Total(became)]_vars

(* Nothing leaves a final state, and a paid reservation can only be        *)
(* cancelled, with a cancellation approved: a late payment, job or review  *)
(* cannot revive an order, and no expiry or change frees a paid seat.      *)
FinalStatesStay ==
    [][/\ \A o \in Orders :
            /\ orderStatus[o] \in {"cancelled", "expired"} => orderStatus'[o] = orderStatus[o]
            /\ orderStatus[o] = "paid" => orderStatus'[o] \notin {"none", "pending", "expired"}
       /\ \A o \in Orders :
            orderStatus[o] = "partially_cancelled" =>
                orderStatus'[o] \in {"partially_cancelled", "cancelled"}
       /\ \A r \in Reservations :
            /\ resStatus[r] \in {"cancelled", "expired"} => resStatus'[r] = resStatus[r]
            /\ resStatus[r] = "paid" =>
                  \/ resStatus'[r] = "paid"
                  \/ resStatus'[r] = "cancelled" /\ approved'[r] = approved[r] + 1]_vars

-----------------------------------------------------------------------------
(* The abstract sale.  Who holds a seat is read from the reservations, not *)
(* from tickets.status, which is what the calls decide by.                 *)

HolderOf(t) ==
    IF Active(t) # {} THEN OrderOf(CHOOSE r \in Active(t) : TRUE)
    ELSE IF ticketStatus[t] = "cancelled" THEN "withdrawn" ELSE "free"

PhaseOf(o) ==
    IF orderStatus[o] = "none" THEN "new"
    ELSE IF orderStatus[o] = "pending" THEN "open" ELSE "closed"

Sale == INSTANCE SeatSale WITH
            Seats <- Tickets,
            holder <- [t \in Tickets |-> HolderOf(t)],
            bought <- {t \in Tickets : \E r \in Active(t) : resStatus[r] = "paid"},
            phase <- [o \in Orders |-> PhaseOf(o)]

(* The tables implement the abstract sale: every call moves seats between  *)
(* orders the way SeatSale allows, or not at all.                          *)
ImplementsSeatSale == Sale!Spec

-----------------------------------------------------------------------------
(* Liveness.                                                               *)

(* An order nobody pays gives its seats back: whatever happens to it       *)
(* before, partial cancellations and ticket changes included, no           *)
(* reservation stays pending for ever.                                     *)
PendingEnds ==
    \A r \in Reservations : resStatus[r] = "pending" ~> resStatus[r] # "pending"
=============================================================================
