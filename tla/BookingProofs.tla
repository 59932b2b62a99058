--------------------------- MODULE BookingProofs ---------------------------
(***************************************************************************)
(* Proofs about Booking for any sets of users, seats and orders and any    *)
(* number of payment attempts: the type of the rows; that no seat is ever  *)
(* held twice and tickets.status never disagrees with the reservations;    *)
(* that orders.status agrees with the reservations and the payments; and   *)
(* that no call leaves a final state.                                      *)
(***************************************************************************)
EXTENDS Booking, TLAPS

(* No call, no batch of the job and no tick of a clock leaves the types.   *)
LEMMA SeatTypesKept ==
    ASSUME SeatTypeOK, [Next]_vars
    PROVE  SeatTypeOK'
<1> USE BookingAssumption
<1> USE DEF SeatTypeOK
<1>1. CASE UNCHANGED vars
  BY <1>1 DEF vars, seatVars, moneyVars, timeVars
<1>2. ASSUME NEW u \in Users, NEW o \in Orders, NEW S \in SUBSET Tickets, Reserve(u, o, S)
      PROVE  SeatTypeOK'
  <2>1. orderStatus' \in [Orders -> OrderStatuses] /\ orderUser' \in [Orders -> Users \cup {"none"}]
    BY <1>2 DEF Reserve, OrderStatuses
  <2>2. resStatus' \in [Reservations -> ResStatuses]
    BY <1>2 DEF SetStatus, Reserve, ResStatuses
  <2>3. resPrice' \in [Reservations -> Nat]
    BY <1>2 DEF Reserve, Reservations
  <2>4. ticketStatus' \in [Tickets -> TicketStatuses]
    BY <1>2 DEF SetStatus, Reserve, TicketStatuses
  <2> QED
    BY <1>2, <2>1, <2>2, <2>3, <2>4 DEF Reserve, moneyVars, timeVars
<1>3. ASSUME NEW u \in Users, NEW p \in Payments, NEW method \in Methods,
             PayFailed(u, p, method)
      PROVE  SeatTypeOK'
  BY <1>3 DEF PayFailed, InsertPayment, seatVars, timeVars, PayStatuses
<1>4. ASSUME NEW u \in Users, NEW p \in Payments, NEW method \in Methods,
             PaySuccess(u, p, method)
      PROVE  SeatTypeOK'
  <2>1. p[1] \in Orders
    BY DEF Payments
  <2>2. orderStatus' \in [Orders -> OrderStatuses]
    BY <1>4, <2>1 DEF PaySuccess, OrderStatuses
  <2>3. resStatus' \in [Reservations -> ResStatuses]
    BY <1>4 DEF SetStatus, PaySuccess, ResStatuses
  <2>4. ticketStatus' \in [Tickets -> TicketStatuses]
    BY <1>4 DEF SetStatus, PaySuccess, TicketStatuses
  <2>5. payStatus' \in [Payments -> PayStatuses]
    BY <1>4 DEF PaySuccess, InsertPayment, PayStatuses
  <2> QED
    BY <1>4, <2>2, <2>3, <2>4, <2>5 DEF PaySuccess, timeVars
<1>5. ASSUME NEW r \in Reservations, NEW a, NEW percent, Cancel(r, a, percent)
      PROVE  SeatTypeOK'
  <2>1. orderStatus' \in [Orders -> OrderStatuses]
    BY <1>5 DEF Cancel, OrderStatuses, StatusAfterCancel
  <2>2. resStatus' \in [Reservations -> ResStatuses]
    BY <1>5 DEF Cancel, ResStatuses
  <2>3. ticketStatus' \in [Tickets -> TicketStatuses]
    BY <1>5 DEF Cancel, TicketStatuses
  <2>4. payStatus' \in [Payments -> PayStatuses]
    BY <1>5 DEF SetStatus, Cancel, PayStatuses
  <2> QED
    BY <1>5, <2>1, <2>2, <2>3, <2>4 DEF Cancel, timeVars
<1>6. ASSUME NEW r \in Reservations, NEW s \in {"paid", "expired"}, SetReservationStatus(r, s)
      PROVE  SeatTypeOK'
  <2>1. orderStatus' \in [Orders -> OrderStatuses]
    BY <1>6 DEF SetReservationStatus, OrderStatuses
  <2>2. resStatus' \in [Reservations -> ResStatuses]
    BY <1>6 DEF SetStatus, SetReservationStatus, ResStatuses
  <2>3. ticketStatus' \in [Tickets -> TicketStatuses]
    BY <1>6 DEF SetStatus, SetReservationStatus, TicketStatuses
  <2> QED
    BY <1>6, <2>1, <2>2, <2>3 DEF SetReservationStatus, moneyVars, timeVars
<1>7. ASSUME NEW r \in Reservations, NEW t \in Tickets, ChangeTicket(r, t)
      PROVE  SeatTypeOK'
  BY <1>7 DEF ChangeTicket, TicketStatuses, moneyVars, timeVars
<1>8. ASSUME NEW B \in SUBSET Due, ExpireBatch(B)
      PROVE  SeatTypeOK'
  <2>1. orderStatus' \in [Orders -> OrderStatuses]
    BY <1>8 DEF SetStatus, ExpireBatch, OrderStatuses
  <2>2. resStatus' \in [Reservations -> ResStatuses]
    BY <1>8 DEF SetStatus, ExpireBatch, ResStatuses
  <2>3. ticketStatus' \in [Tickets -> TicketStatuses]
    BY <1>8 DEF SetStatus, ExpireBatch, TicketStatuses
  <2> QED
    BY <1>8, <2>1, <2>2, <2>3 DEF ExpireBatch, moneyVars, timeVars
<1>9. CASE Clock
  BY <1>9 DEF Clock, ApiDeadline, DbDeadline, MatchStarts, seatVars, moneyVars
<1> QED
  BY <1>1, <1>2, <1>3, <1>4, <1>5, <1>6, <1>7, <1>8, <1>9 DEF Next, UserStep, Job

LEMMA SeatTypesStart == Init => SeatTypeOK
BY BookingAssumption
   DEF Init, SeatTypeOK, TicketStatuses, OrderStatuses, ResStatuses, PayStatuses, Reservations

(* The rows have the types of their columns at the start and after every   *)
(* call, whichever transaction commits.                                    *)
THEOREM SeatTypeCorrect == Spec => []SeatTypeOK
<1>1. Init => SeatTypeOK
  BY SeatTypesStart
<1> QED
  BY <1>1, SeatTypesKept, PTL DEF Spec

-----------------------------------------------------------------------------
(***************************************************************************)
(* Seats and reservations.  NoDoubleBooking and SeatsMatchReservations are *)
(* proved together, one conjunct per way the two tables could disagree,    *)
(* with what reserve relies on: rows that do not exist yet are blank.      *)
(***************************************************************************)

IsActive(r) == resStatus[r] \in {"pending", "paid"}

OneHolder ==
    \A r, s \in Reservations :
        IsActive(r) /\ IsActive(s) /\ resTicket[r] = resTicket[s] => r = s

PendingHoldsSeat ==
    \A r \in Reservations : resStatus[r] = "pending" => ticketStatus[resTicket[r]] = "reserved"

PaidHoldsSeat ==
    \A r \in Reservations : resStatus[r] = "paid" => ticketStatus[resTicket[r]] = "sold"

HeldSeatHasHolder ==
    \A t \in Tickets : ticketStatus[t] \in {"reserved", "sold"} =>
        \E r \in Reservations : IsActive(r) /\ resTicket[r] = t

BlankRows ==
    \A r \in Reservations :
        /\ orderStatus[OrderOf(r)] = "none" => resStatus[r] = "none"
        /\ resStatus[r] = "none" => resTicket[r] = r[2]

SeatInv == OneHolder /\ PendingHoldsSeat /\ PaidHoldsSeat /\ HeldSeatHasHolder

(* The conjuncts say what the two invariants of Booking say.               *)
LEMMA SeatInvMeaning ==
    ASSUME SeatTypeOK
    PROVE  SeatInv <=> NoDoubleBooking /\ SeatsMatchReservations
<1>1. ASSUME SeatInv PROVE NoDoubleBooking /\ SeatsMatchReservations
  BY <1>1 DEF SeatInv, OneHolder, PendingHoldsSeat, PaidHoldsSeat, HeldSeatHasHolder, IsActive,
              NoDoubleBooking, SeatsMatchReservations, Active, SeatTypeOK
<1>2. ASSUME NoDoubleBooking, SeatsMatchReservations PROVE SeatInv
  BY <1>2 DEF SeatInv, OneHolder, PendingHoldsSeat, PaidHoldsSeat, HeldSeatHasHolder, IsActive,
              NoDoubleBooking, SeatsMatchReservations, Active, SeatTypeOK
<1> QED
  BY <1>1, <1>2

(* Cancellation, review and the job all do this: reservations leave their  *)
(* seats and the seats go back on sale.                                    *)
LEMMA ReleaseKeepsSeats ==
    ASSUME SeatTypeOK, SeatInv,
           NEW R \in SUBSET Reservations, \A r \in R : IsActive(r),
           NEW s \in {"cancelled", "expired"},
           resStatus' = SetStatus(resStatus, R, s),
           ticketStatus' = SetStatus(ticketStatus, TicketsOf(R), "available"),
           resTicket' = resTicket
    PROVE  SeatInv'
<1>1. \A r \in Reservations : resStatus'[r] = IF r \in R THEN s ELSE resStatus[r]
  BY DEF SetStatus, SeatTypeOK
<1>2. \A t \in Tickets :
        ticketStatus'[t] = IF t \in TicketsOf(R) THEN "available" ELSE ticketStatus[t]
  BY DEF SetStatus, SeatTypeOK
<1>3. \A r \in Reservations : IsActive(r)' <=> IsActive(r) /\ r \notin R
  BY <1>1 DEF IsActive
<1>4. \A r \in Reservations : IsActive(r) /\ r \notin R => resTicket[r] \notin TicketsOf(R)
  BY DEF SeatInv, OneHolder, TicketsOf
<1>5. OneHolder'
  BY <1>3 DEF SeatInv, OneHolder
<1>6. PendingHoldsSeat' /\ PaidHoldsSeat'
  BY <1>1, <1>2, <1>4 DEF SeatInv, PendingHoldsSeat, PaidHoldsSeat, IsActive, SeatTypeOK
<1>7. HeldSeatHasHolder'
  <2> SUFFICES ASSUME NEW t \in Tickets, ticketStatus'[t] \in {"reserved", "sold"}
               PROVE  \E r \in Reservations : IsActive(r)' /\ resTicket'[r] = t
    BY DEF HeldSeatHasHolder, IsActive
  <2>1. t \notin TicketsOf(R) /\ ticketStatus[t] \in {"reserved", "sold"}
    BY <1>2
  <2>2. PICK r \in Reservations : IsActive(r) /\ resTicket[r] = t
    BY <2>1 DEF SeatInv, HeldSeatHasHolder
  <2> QED
    BY <2>1, <2>2, <1>3 DEF TicketsOf
<1> QED
  BY <1>5, <1>6, <1>7 DEF SeatInv

(* A success payment and a review to "paid" do this: reservations become   *)
(* paid and their seats sold.                                              *)
LEMMA SaleKeepsSeats ==
    ASSUME SeatTypeOK, SeatInv,
           NEW R \in SUBSET Reservations, \A r \in R : IsActive(r),
           resStatus' = SetStatus(resStatus, R, "paid"),
           ticketStatus' = SetStatus(ticketStatus, TicketsOf(R), "sold"),
           resTicket' = resTicket
    PROVE  SeatInv'
<1>1. \A r \in Reservations : resStatus'[r] = IF r \in R THEN "paid" ELSE resStatus[r]
  BY DEF SetStatus, SeatTypeOK
<1>2. \A t \in Tickets :
        ticketStatus'[t] = IF t \in TicketsOf(R) THEN "sold" ELSE ticketStatus[t]
  BY DEF SetStatus, SeatTypeOK
<1>3. \A r \in Reservations : IsActive(r)' <=> IsActive(r)
  BY <1>1 DEF IsActive
<1>4. \A r \in Reservations : IsActive(r) => (resTicket[r] \in TicketsOf(R) <=> r \in R)
  BY DEF SeatInv, OneHolder, TicketsOf
<1>5. OneHolder'
  BY <1>3 DEF SeatInv, OneHolder
<1>6. PendingHoldsSeat' /\ PaidHoldsSeat'
  BY <1>1, <1>2, <1>4 DEF SeatInv, PendingHoldsSeat, PaidHoldsSeat, IsActive, SeatTypeOK
<1>7. HeldSeatHasHolder'
  <2> SUFFICES ASSUME NEW t \in Tickets, ticketStatus'[t] \in {"reserved", "sold"}
               PROVE  \E r \in Reservations : IsActive(r)' /\ resTicket'[r] = t
    BY DEF HeldSeatHasHolder, IsActive
  <2>1. CASE t \in TicketsOf(R)
    BY <2>1, <1>3 DEF TicketsOf
  <2>2. CASE t \notin TicketsOf(R)
    BY <2>2, <1>2, <1>3 DEF SeatInv, HeldSeatHasHolder
  <2> QED
    BY <2>1, <2>2
<1> QED
  BY <1>5, <1>6, <1>7 DEF SeatInv

SeatIInv == SeatTypeOK /\ BlankRows /\ SeatInv

(* One lemma per call that moves seats.                                    *)

LEMMA ReserveKeepsSeats ==
    ASSUME SeatIInv, NEW u \in Users, NEW o \in Orders, NEW S \in SUBSET Tickets, Reserve(u, o, S)
    PROVE  SeatInv'
<1> DEFINE new == {o} \X S
<1> USE DEF SeatIInv
<1>1. \A r \in new : resStatus[r] = "none" /\ resTicket[r] = r[2] /\ r[2] \in S
  BY DEF Reserve, BlankRows, Reservations, OrderOf
<1>2. \A r \in Reservations : resStatus'[r] = IF r \in new THEN "pending" ELSE resStatus[r]
  BY DEF Reserve, SetStatus, SeatTypeOK
<1>3. \A t \in Tickets : ticketStatus'[t] = IF t \in S THEN "reserved" ELSE ticketStatus[t]
  BY DEF Reserve, SetStatus, SeatTypeOK
<1>4. resTicket' = resTicket
  BY DEF Reserve
<1>5. \A t \in S : ticketStatus[t] = "available"
  BY DEF Reserve, Reservable
<1>6. \A r \in Reservations : IsActive(r) => resTicket[r] \notin S /\ r \notin new
  BY <1>1, <1>5 DEF SeatInv, PendingHoldsSeat, PaidHoldsSeat, IsActive
<1>7. \A r \in Reservations : IsActive(r)' <=> IsActive(r) \/ r \in new
  BY <1>2 DEF IsActive
<1>8. \A r, s \in new : r[2] = s[2] => r = s
  OBVIOUS
<1>9. OneHolder'
  BY <1>1, <1>4, <1>6, <1>7, <1>8 DEF SeatInv, OneHolder
<1>10. PendingHoldsSeat' /\ PaidHoldsSeat'
  BY <1>1, <1>2, <1>3, <1>4, <1>6 DEF SeatInv, PendingHoldsSeat, PaidHoldsSeat, IsActive, SeatTypeOK
<1>11. HeldSeatHasHolder'
  <2> SUFFICES ASSUME NEW t \in Tickets, ticketStatus'[t] \in {"reserved", "sold"}
               PROVE  \E r \in Reservations : IsActive(r)' /\ resTicket'[r] = t
    BY DEF HeldSeatHasHolder, IsActive
  <2>1. CASE t \in S
    <3>1. <<o, t>> \in Reservations /\ <<o, t>> \in new
      BY <2>1 DEF Reservations
    <3> QED
      BY <3>1, <1>1, <1>4, <1>7
  <2>2. CASE t \notin S
    BY <2>2, <1>3, <1>4, <1>7 DEF SeatInv, HeldSeatHasHolder
  <2> QED
    BY <2>1, <2>2
<1> QED
  BY <1>9, <1>10, <1>11 DEF SeatInv

LEMMA PaySuccessKeepsSeats ==
    ASSUME SeatIInv, NEW u \in Users, NEW p \in Payments, NEW method \in Methods,
           PaySuccess(u, p, method)
    PROVE  SeatInv'
<1>1. PICK R \in SUBSET Reservations : R = Pending(p[1])
  BY DEF Pending, HasStatus
<1>2. \A r \in R : IsActive(r) /\ ticketStatus[resTicket[r]] = "reserved"
  BY <1>1 DEF Pending, HasStatus, IsActive, SeatIInv, SeatInv, PendingHoldsSeat
<1>3. SeatsToMove(R) = TicketsOf(R)
  BY <1>2 DEF SeatsToMove, TicketsOf
<1> QED
  BY <1>1, <1>2, <1>3, SaleKeepsSeats DEF PaySuccess, SeatIInv

LEMMA CancelKeepsSeats ==
    ASSUME SeatIInv, NEW r \in Reservations, NEW a, NEW percent, Cancel(r, a, percent)
    PROVE  SeatInv'
<1>1. resStatus' = SetStatus(resStatus, {r}, "cancelled")
  BY DEF Cancel, SetStatus, SeatIInv, SeatTypeOK
<1>2. ticketStatus' = SetStatus(ticketStatus, TicketsOf({r}), "available")
  BY DEF Cancel, SetStatus, TicketsOf, SeatIInv, SeatTypeOK
<1> QED
  BY <1>1, <1>2, ReleaseKeepsSeats DEF Cancel, SeatIInv, IsActive

LEMMA SetReservationStatusKeepsSeats ==
    ASSUME SeatIInv, NEW r \in Reservations, NEW s \in {"paid", "expired"},
           SetReservationStatus(r, s)
    PROVE  SeatInv'
<1>1. CASE s = "expired"
  <2>1. resStatus' = SetStatus(resStatus, {r}, "expired")
    BY <1>1 DEF SetReservationStatus
  <2>2. ticketStatus' = SetStatus(ticketStatus, TicketsOf({r}), "available")
    BY <1>1 DEF SetReservationStatus, SetStatus, TicketsOf, SeatIInv, SeatTypeOK
  <2> QED
    BY <2>1, <2>2, ReleaseKeepsSeats DEF SetReservationStatus, Reviewable, SeatIInv, IsActive
<1>2. CASE s = "paid"
  <2>1. PICK R \in SUBSET Reservations : R = Pending(OrderOf(r)) \cup Paid(OrderOf(r))
    BY DEF Pending, Paid, HasStatus
  <2>2. \A x \in R : IsActive(x)
    BY <2>1 DEF Pending, Paid, HasStatus, IsActive
  <2>3. resStatus' = SetStatus(resStatus, R, "paid")
    BY <1>2, <2>1 DEF SetReservationStatus, SetStatus, Pending, Paid, HasStatus, SeatIInv, SeatTypeOK
  <2>4. ticketStatus' = SetStatus(ticketStatus, TicketsOf(R), "sold")
    BY <1>2, <2>1 DEF SetReservationStatus
  <2> QED
    BY <2>2, <2>3, <2>4, SaleKeepsSeats DEF SetReservationStatus, SeatIInv
<1> QED
  BY <1>1, <1>2

LEMMA ChangeTicketKeepsSeats ==
    ASSUME SeatIInv, NEW r \in Reservations, NEW t \in Tickets, ChangeTicket(r, t)
    PROVE  SeatInv'
<1> DEFINE old == resTicket[r]
<1> USE DEF SeatIInv
<1>1. /\ resStatus' = resStatus /\ resStatus[r] = "pending"
      /\ ticketStatus[t] = "available" /\ ticketStatus[old] = "reserved"
      /\ old \in Tickets /\ t # old
  BY DEF ChangeTicket, Replaceable, SeatTypeOK
<1>2. \A x \in Reservations : resTicket'[x] = IF x = r THEN t ELSE resTicket[x]
  BY DEF ChangeTicket, SeatTypeOK
<1>3. \A x \in Tickets : ticketStatus'[x] = IF x = old THEN "available"
                                            ELSE IF x = t THEN "reserved" ELSE ticketStatus[x]
  BY <1>1 DEF ChangeTicket, SeatTypeOK
<1>4. \A x \in Reservations : IsActive(x)' <=> IsActive(x)
  BY <1>1 DEF IsActive
<1>5. \A x \in Reservations : IsActive(x) => resTicket[x] # t /\ (x # r => resTicket[x] # old)
  BY <1>1 DEF SeatInv, OneHolder, PendingHoldsSeat, PaidHoldsSeat, IsActive
<1>6. OneHolder'
  BY <1>2, <1>4, <1>5 DEF SeatInv, OneHolder
<1>7. PendingHoldsSeat' /\ PaidHoldsSeat'
  BY <1>1, <1>2, <1>3, <1>5 DEF SeatInv, PendingHoldsSeat, PaidHoldsSeat, IsActive, SeatTypeOK
<1>8. HeldSeatHasHolder'
  <2> SUFFICES ASSUME NEW x \in Tickets, ticketStatus'[x] \in {"reserved", "sold"}
               PROVE  \E y \in Reservations : IsActive(y)' /\ resTicket'[y] = x
    BY DEF HeldSeatHasHolder, IsActive
  <2>1. CASE x = t
    BY <2>1, <1>1, <1>2, <1>4 DEF IsActive
  <2>2. CASE x # t
    <3>1. x # old /\ ticketStatus[x] \in {"reserved", "sold"}
      BY <2>2, <1>1, <1>3
    <3>2. PICK y \in Reservations : IsActive(y) /\ resTicket[y] = x
      BY <3>1 DEF SeatInv, HeldSeatHasHolder
    <3> QED
      BY <3>1, <3>2, <1>2, <1>4
  <2> QED
    BY <2>1, <2>2
<1> QED
  BY <1>6, <1>7, <1>8 DEF SeatInv

LEMMA ExpireBatchKeepsSeats ==
    ASSUME SeatIInv, NEW B \in SUBSET Due, ExpireBatch(B)
    PROVE  SeatInv'
<1>1. PICK R \in SUBSET Reservations : R = ReleasedBy(B)
  BY DEF ReleasedBy
<1>2. \A r \in R : IsActive(r) /\ ticketStatus[resTicket[r]] = "reserved"
  BY <1>1 DEF ReleasedBy, IsActive, SeatIInv, SeatInv, PendingHoldsSeat
<1>3. SeatsToMove(R) = TicketsOf(R)
  BY <1>2 DEF SeatsToMove, TicketsOf
<1> QED
  BY <1>1, <1>2, <1>3, ReleaseKeepsSeats DEF ExpireBatch, SeatIInv

(* Rows that do not exist yet stay blank: only reserve creates rows.       *)
LEMMA BlankRowsKept ==
    ASSUME SeatIInv, [Next]_vars
    PROVE  BlankRows'
<1> USE DEF SeatIInv, BlankRows
<1>1. CASE UNCHANGED vars
  BY <1>1 DEF vars, seatVars, OrderOf
<1>2. ASSUME NEW u \in Users, NEW o \in Orders, NEW S \in SUBSET Tickets, Reserve(u, o, S)
      PROVE  BlankRows'
  BY <1>2 DEF Reserve, SetStatus, SeatTypeOK, OrderOf, Reservations
<1>3. ASSUME NEW u \in Users, NEW p \in Payments, NEW method \in Methods, PayFailed(u, p, method)
      PROVE  BlankRows'
  BY <1>3 DEF PayFailed, seatVars, OrderOf
<1>4. ASSUME NEW u \in Users, NEW p \in Payments, NEW method \in Methods, PaySuccess(u, p, method)
      PROVE  BlankRows'
  BY <1>4 DEF PaySuccess, Payable, SetStatus, Pending, HasStatus, SeatTypeOK, OrderOf, Payments
<1>5. ASSUME NEW r \in Reservations, NEW a, NEW percent, Cancel(r, a, percent)
      PROVE  BlankRows'
  BY <1>5 DEF Cancel, StatusAfterCancel, SeatTypeOK, OrderOf
<1>6. ASSUME NEW r \in Reservations, NEW s \in {"paid", "expired"}, SetReservationStatus(r, s)
      PROVE  BlankRows'
  BY <1>6 DEF SetReservationStatus, Reviewable, SetStatus, Pending, HasStatus, SeatTypeOK, OrderOf
<1>7. ASSUME NEW r \in Reservations, NEW t \in Tickets, ChangeTicket(r, t)
      PROVE  BlankRows'
  BY <1>7 DEF ChangeTicket, SeatTypeOK, OrderOf
<1>8. ASSUME NEW B \in SUBSET Due, ExpireBatch(B)
      PROVE  BlankRows'
  BY <1>8 DEF ExpireBatch, ReleasedBy, Due, SetStatus, SeatTypeOK, OrderOf, Reservations
<1>9. CASE Clock
  BY <1>9 DEF Clock, ApiDeadline, DbDeadline, MatchStarts, seatVars, OrderOf
<1> QED
  BY <1>1, <1>2, <1>3, <1>4, <1>5, <1>6, <1>7, <1>8, <1>9 DEF Next, UserStep, Job

LEMMA SeatInvKept ==
    ASSUME SeatIInv, [Next]_vars
    PROVE  SeatInv'
<1>1. CASE UNCHANGED <<ticketStatus, resStatus, resTicket>>
  BY <1>1 DEF SeatIInv, SeatInv, OneHolder, PendingHoldsSeat, PaidHoldsSeat, HeldSeatHasHolder, IsActive
<1>2. CASE UNCHANGED vars
  BY <1>1, <1>2 DEF vars, seatVars
<1>3. CASE UserStep
  <2>1. ASSUME NEW u \in Users, NEW p \in Payments, NEW method \in Methods,
               PayFailed(u, p, method)
        PROVE  SeatInv'
    BY <1>1, <2>1 DEF PayFailed, seatVars
  <2> QED
    BY <1>3, <2>1, ReserveKeepsSeats, PaySuccessKeepsSeats, CancelKeepsSeats,
       SetReservationStatusKeepsSeats, ChangeTicketKeepsSeats DEF UserStep
<1>4. CASE Job
  BY <1>4, ExpireBatchKeepsSeats DEF Job
<1>5. CASE Clock
  BY <1>1, <1>5 DEF Clock, ApiDeadline, DbDeadline, MatchStarts, seatVars
<1> QED
  BY <1>2, <1>3, <1>4, <1>5 DEF Next

LEMMA SeatIInvStarts == Init /\ SeatTypeOK => SeatIInv
BY DEF Init, SeatIInv, BlankRows, SeatInv, OneHolder, PendingHoldsSeat, PaidHoldsSeat,
       HeldSeatHasHolder, IsActive, Reservations, OrderOf

LEMMA SeatIInvHolds == Spec => []SeatIInv
<1>1. Init /\ SeatTypeOK => SeatIInv
  BY SeatIInvStarts
<1>2. SeatIInv /\ SeatTypeOK' /\ [Next]_vars => SeatIInv'
  BY BlankRowsKept, SeatInvKept DEF SeatIInv
<1> QED
  BY <1>1, <1>2, SeatTypeCorrect, PTL DEF Spec

(* No call double-books a seat, for any number of users, orders and seats: *)
(* the check that reserve makes on tickets.status is enough to protect     *)
(* every seat.                                                             *)
THEOREM NoSeatHeldTwice == Spec => []NoDoubleBooking
<1>1. SeatIInv => NoDoubleBooking
  BY SeatInvMeaning DEF SeatIInv
<1> QED
  BY <1>1, SeatIInvHolds, PTL

(* Nor does any call, a batch of the job or a review let tickets.status    *)
(* drift from the reservations.                                            *)
THEOREM SeatsConsistent == Spec => []SeatsMatchReservations
<1>1. SeatIInv => SeatsMatchReservations
  BY SeatInvMeaning DEF SeatIInv
<1> QED
  BY <1>1, SeatIInvHolds, PTL

-----------------------------------------------------------------------------
(***************************************************************************)
(* Orders.  orders.status, written by four calls from different counts,    *)
(* agrees with the reservations and the payments, and no call leaves a     *)
(* final state.                                                            *)
(***************************************************************************)

(* One order: its status and its reservations.                             *)
Some(o, s) == \E r \in Reservations : OrderOf(r) = o /\ resStatus[r] = s

OrderAgrees(o) ==
    /\ orderStatus[o] = "none" <=> \A r \in Reservations : OrderOf(r) = o => resStatus[r] = "none"
    /\ orderStatus[o] = "pending" <=> Some(o, "pending")
    /\ orderStatus[o] \in {"paid", "partially_cancelled"} <=> Some(o, "paid")
    /\ orderStatus[o] \in {"partially_cancelled", "cancelled"} => Some(o, "cancelled")
    /\ orderStatus[o] = "expired" => Some(o, "expired")

(* Its payments that took money.                                           *)
Took(p) == payStatus[p] \in {"success", "refunded"}

PaymentsAgree(o) ==
    /\ \A p, q \in Payments : p[1] = o /\ q[1] = o /\ Took(p) /\ Took(q) => p = q
    /\ Some(o, "paid") <=> \E p \in Payments : p[1] = o /\ payStatus[p] = "success"
    /\ \A p \in Payments : p[1] = o /\ Took(p) => Some(o, "paid") \/ orderStatus[o] = "cancelled"

(* uq_active_cancellation_item_per_reservation: a reservation is cancelled *)
(* once.                                                                   *)
ApprovedOnce == approved = [r \in Reservations |-> IF resStatus[r] = "cancelled" THEN 1 ELSE 0]

OrderIInv ==
    /\ SeatTypeOK
    /\ \A o \in Orders : OrderAgrees(o) /\ PaymentsAgree(o)
    /\ ApprovedOnce

LEMMA RowFacts ==
    /\ \A r \in Reservations : OrderOf(r) \in Orders
    /\ \A o \in Orders : \A r : r \in {o} \X Tickets <=> r \in Reservations /\ OrderOf(r) = o
    /\ \A p \in Payments : p[1] \in Orders
BY DEF Reservations, OrderOf, Payments

LEMMA OrderInvMeaning ==
    ASSUME \A o \in Orders : OrderAgrees(o) /\ PaymentsAgree(o)
    PROVE  OrderMatchesReservations /\ SettledOnce
<1>1. \A o \in Orders, s \in {"pending", "paid", "cancelled", "expired"} : HasStatus(o, s) # {} <=> Some(o, s)
  BY DEF HasStatus, Some
<1>2. OrderMatchesReservations
  BY <1>1, RowFacts DEF OrderAgrees, OrderMatchesReservations, Pending, Paid
<1>3. SettledOnce
  <2> SUFFICES ASSUME NEW o \in Orders
               PROVE  LET taken == {p \in Payments : p[1] = o /\ payStatus[p] \in {"success", "refunded"}}
                      IN  /\ \A p, q \in taken : p = q
                          /\ SuccessPayments(o) # {} <=> Paid(o) # {}
                          /\ taken # {} /\ Paid(o) = {} => orderStatus[o] = "cancelled"
    BY DEF SettledOnce
  <2>1. Paid(o) # {} <=> Some(o, "paid")
    BY <1>1 DEF Paid
  <2>2. SuccessPayments(o) # {} <=> \E p \in Payments : p[1] = o /\ payStatus[p] = "success"
    BY DEF SuccessPayments
  <2> QED BY <2>1, <2>2 DEF PaymentsAgree, Took
<1> QED BY <1>2, <1>3

(* What follows for a reservation that is still held.                      *)
LEMMA HeldMeans ==
    ASSUME OrderIInv, NEW r \in Reservations
    PROVE  /\ resStatus[r] = "pending" => orderStatus[OrderOf(r)] = "pending"
           /\ resStatus[r] = "paid" => orderStatus[OrderOf(r)] \in {"paid", "partially_cancelled"}
BY RowFacts DEF OrderIInv, OrderAgrees, Some

LEMMA OpenMeans ==
    ASSUME OrderIInv, NEW o \in Orders, orderStatus[o] = "pending"
    PROVE  /\ ~Some(o, "paid") /\ Some(o, "pending")
           /\ \A p \in Payments : p[1] = o => ~Took(p)
BY DEF OrderIInv, OrderAgrees, PaymentsAgree

(* An order whose rows a call leaves alone stays as it is.                 *)
LEMMA OrderUntouched ==
    ASSUME NEW o \in Orders, OrderAgrees(o), PaymentsAgree(o),
           orderStatus'[o] = orderStatus[o],
           \A r \in Reservations : OrderOf(r) = o => resStatus'[r] = resStatus[r],
           \A p \in Payments : p[1] = o => payStatus'[p] = payStatus[p]
    PROVE  OrderAgrees(o)' /\ PaymentsAgree(o)'
BY DEF OrderAgrees, PaymentsAgree, Some, Took

LEMMA ReserveKeepsOrders ==
    ASSUME OrderIInv, NEW u \in Users, NEW o \in Orders, NEW S \in SUBSET Tickets, Reserve(u, o, S)
    PROVE  (\A x \in Orders : OrderAgrees(x) /\ PaymentsAgree(x))' /\ ApprovedOnce'
<1> USE DEF OrderIInv
<1>1. /\ orderStatus[o] = "none" /\ S # {}
      /\ orderStatus' = [orderStatus EXCEPT ![o] = "pending"]
      /\ resStatus' = SetStatus(resStatus, {o} \X S, "pending")
      /\ UNCHANGED <<payStatus, approved>>
  BY DEF Reserve, moneyVars
<1>2. \A r \in Reservations : r \in {o} \X S <=> OrderOf(r) = o /\ r[2] \in S
  BY DEF Reservations, OrderOf
<1>3. \A r \in Reservations : resStatus'[r] = IF OrderOf(r) = o /\ r[2] \in S THEN "pending" ELSE resStatus[r]
  BY <1>1, <1>2 DEF SetStatus, SeatTypeOK
<1>4. \A r \in Reservations : OrderOf(r) = o => resStatus[r] = "none"
  BY <1>1 DEF OrderAgrees
<1>5. \E r \in Reservations : OrderOf(r) = o /\ r[2] \in S
  <2>1. PICK t \in S : TRUE
    BY <1>1
  <2>2. <<o, t>> \in Reservations /\ OrderOf(<<o, t>>) = o /\ <<o, t>>[2] \in S
    BY DEF Reservations, OrderOf
  <2> QED BY <2>2
<1>6. ASSUME NEW x \in Orders, x # o PROVE OrderAgrees(x)' /\ PaymentsAgree(x)'
  BY <1>1, <1>3, <1>6, OrderUntouched DEF SeatTypeOK
<1>7. OrderAgrees(o)' /\ ~Some(o, "paid")'
  BY <1>1, <1>3, <1>4, <1>5 DEF OrderAgrees, Some, SeatTypeOK
<1>8. PaymentsAgree(o)'
  BY <1>1, <1>4, <1>7 DEF PaymentsAgree, Some, Took
<1>9. ApprovedOnce'
  BY <1>1, <1>3, <1>4 DEF ApprovedOnce
<1> QED BY <1>6, <1>7, <1>8, <1>9

LEMMA PaySuccessKeepsOrders ==
    ASSUME OrderIInv, NEW u \in Users, NEW p \in Payments, NEW method \in Methods,
           PaySuccess(u, p, method)
    PROVE  (\A x \in Orders : OrderAgrees(x) /\ PaymentsAgree(x))' /\ ApprovedOnce'
<1> DEFINE o == p[1]
<1> USE DEF OrderIInv
<1>1. /\ orderStatus[o] = "pending" /\ o \in Orders
      /\ orderStatus' = [orderStatus EXCEPT ![o] = "paid"]
      /\ resStatus' = SetStatus(resStatus, Pending(o), "paid")
      /\ payStatus' = [payStatus EXCEPT ![p] = "success"]
      /\ UNCHANGED approved
  BY RowFacts DEF PaySuccess, Payable, InsertPayment
<1>2. \A r \in Reservations : resStatus'[r] =
         IF OrderOf(r) = o /\ resStatus[r] = "pending" THEN "paid" ELSE resStatus[r]
  BY <1>1 DEF SetStatus, SeatTypeOK, Pending, HasStatus
<1>3. \A q \in Payments : payStatus'[q] = IF q = p THEN "success" ELSE payStatus[q]
  BY <1>1 DEF SeatTypeOK
<1>4. /\ ~Some(o, "paid") /\ Some(o, "pending")
      /\ \A q \in Payments : q[1] = o => ~Took(q)
  BY <1>1, OpenMeans
<1> HIDE DEF o
<1>5. ASSUME NEW x \in Orders, x # o PROVE OrderAgrees(x)' /\ PaymentsAgree(x)'
  <2>1. \A q \in Payments : q[1] = x => q # p
    BY <1>5 DEF o
  <2> QED BY <1>1, <1>2, <1>3, <1>5, <2>1, OrderUntouched DEF SeatTypeOK
<1>6. OrderAgrees(o)' /\ Some(o, "paid")'
  BY <1>1, <1>2, <1>4 DEF OrderAgrees, Some, SeatTypeOK
<1>7. PaymentsAgree(o)'
  <2>1. \A q \in Payments : q[1] = o /\ Took(q)' => q = p
    BY <1>3, <1>4 DEF Took
  <2> QED BY <1>3, <1>6, <2>1 DEF PaymentsAgree, o
<1>8. ApprovedOnce'
  BY <1>1, <1>2 DEF ApprovedOnce
<1> QED BY <1>5, <1>6, <1>7, <1>8

LEMMA CancelKeepsOrders ==
    ASSUME OrderIInv, NEW r \in Reservations, NEW a, NEW percent, Cancel(r, a, percent)
    PROVE  (\A x \in Orders : OrderAgrees(x) /\ PaymentsAgree(x))' /\ ApprovedOnce'
<1> DEFINE o == OrderOf(r)
<1> USE DEF OrderIInv
<1>1. /\ resStatus[r] \in {"pending", "paid"} /\ o \in Orders
      /\ orderStatus' = [orderStatus EXCEPT ![o] = StatusAfterCancel(r)]
      /\ resStatus' = [resStatus EXCEPT ![r] = "cancelled"]
      /\ payStatus' = SetStatus(payStatus, PaymentsToClose(r), "refunded")
      /\ approved' = [approved EXCEPT ![r] = @ + 1]
  BY RowFacts DEF Cancel
<1>2. \A s \in Reservations : resStatus'[s] = IF s = r THEN "cancelled" ELSE resStatus[s]
  BY <1>1 DEF SeatTypeOK
<1>3. \A q \in Payments : payStatus'[q] = IF q \in PaymentsToClose(r) THEN "refunded" ELSE payStatus[q]
  BY <1>1 DEF SetStatus, SeatTypeOK
<1>4. \A q \in PaymentsToClose(r) : q[1] = o /\ payStatus[q] = "success"
  BY DEF PaymentsToClose, SuccessPayments
<1> HIDE DEF o
<1>5. ASSUME NEW x \in Orders, x # o PROVE OrderAgrees(x)' /\ PaymentsAgree(x)'
  <2>1. \A s \in Reservations : OrderOf(s) = x => s # r
    BY <1>5 DEF o
  <2> QED BY <1>1, <1>2, <1>3, <1>4, <1>5, <2>1, OrderUntouched DEF SeatTypeOK
<1>6. ApprovedOnce'
  BY <1>1, <1>2 DEF ApprovedOnce
<1>7. \A q \in Payments : Took(q)' <=> Took(q)
  BY <1>3, <1>4 DEF Took
<1>8. OrderOf(r) = o /\ Some(o, "cancelled")'
  BY <1>2 DEF Some, o
<1>9. CASE resStatus[r] = "pending"
  <2>1. orderStatus[o] = "pending" /\ PaymentsToClose(r) = {}
    BY <1>9, HeldMeans DEF PaymentsToClose, o
  <2>2. /\ ~Some(o, "paid")
        /\ \A q \in Payments : q[1] = o => ~Took(q)
    BY <1>1, <2>1, OpenMeans
  <2>3. ~Some(o, "paid")' /\ Paid(o) = {} /\ \A q \in Payments : q[1] = o => ~Took(q)'
    BY <1>2, <1>7, <2>2 DEF Some, Paid, HasStatus
  <2>4. Some(o, "pending")' <=> Pending(o) \ {r} # {}
    BY <1>2 DEF Some, Pending, HasStatus
  <2>5. orderStatus'[o] = IF Some(o, "pending")' THEN "pending" ELSE "cancelled"
    BY <1>1, <1>8, <1>9, <2>3, <2>4 DEF StatusAfterCancel, SeatTypeOK
  <2>6. OrderAgrees(o)'
    BY <1>2, <1>8, <2>3, <2>5 DEF OrderAgrees, Some
  <2>7. PaymentsAgree(o)'
    BY <2>3 DEF PaymentsAgree, Took
  <2> QED BY <1>5, <1>6, <2>6, <2>7
<1>10. CASE resStatus[r] = "paid"
  <2>1. orderStatus[o] \in {"paid", "partially_cancelled"} /\ Some(o, "paid")
    BY <1>8, <1>10, HeldMeans DEF Some
  <2>2. ~Some(o, "pending") /\ Pending(o) = {} /\ ~Some(o, "pending")'
    <3>1. ~Some(o, "pending")
      BY <1>1, <2>1 DEF OrderAgrees
    <3> QED BY <1>2, <3>1 DEF Some, Pending, HasStatus
  <2>3. Some(o, "paid")' <=> Paid(o) \ {r} # {}
    BY <1>2 DEF Some, Paid, HasStatus
  <2>4. orderStatus'[o] = (IF Some(o, "paid")' THEN "partially_cancelled" ELSE "cancelled")
        /\ StatusAfterCancel(r) = orderStatus'[o]
    BY <1>1, <1>8, <1>10, <2>2, <2>3 DEF StatusAfterCancel, SeatTypeOK
  <2>5. OrderAgrees(o)'
    BY <1>2, <1>8, <2>2, <2>4 DEF OrderAgrees, Some
  <2>6. CASE Some(o, "paid")'
    <3>1. PaymentsToClose(r) = {}
      BY <2>4, <2>6 DEF PaymentsToClose
    <3> QED BY <1>1, <1>3, <1>5, <1>6, <1>7, <2>1, <2>5, <2>6, <3>1 DEF PaymentsAgree
  <2>7. CASE ~Some(o, "paid")'
    <3>1. \A q \in Payments : q[1] = o => payStatus'[q] # "success"
      BY <1>3, <1>8, <1>10, <2>4, <2>7 DEF PaymentsToClose, SuccessPayments
    <3> QED BY <1>1, <1>5, <1>6, <1>7, <2>4, <2>5, <2>7, <3>1 DEF PaymentsAgree
  <2> QED BY <2>6, <2>7
<1> QED BY <1>1, <1>9, <1>10

LEMMA SetStatusKeepsOrders ==
    ASSUME OrderIInv, NEW r \in Reservations, NEW s \in {"paid", "expired"},
           SetReservationStatus(r, s)
    PROVE  (\A x \in Orders : OrderAgrees(x) /\ PaymentsAgree(x))' /\ ApprovedOnce'
<1> DEFINE o == OrderOf(r)
<1> USE DEF OrderIInv
<1>1. resStatus[r] = "pending" /\ orderStatus[o] = "pending" /\ o \in Orders
  BY HeldMeans, RowFacts DEF SetReservationStatus, Reviewable
<1>2. /\ ~Some(o, "paid")
      /\ \A q \in Payments : q[1] = o => ~Took(q)
  BY <1>1, OpenMeans
<1>3. s = "expired"
  BY <1>2 DEF SetReservationStatus, Reviewable, SuccessPayments, Took
<1>4. UNCHANGED <<payStatus, approved>>
  BY DEF SetReservationStatus, moneyVars
<1>5. \A x \in Reservations : resStatus'[x] = IF x = r THEN "expired" ELSE resStatus[x]
  BY <1>3 DEF SetReservationStatus, SetStatus, SeatTypeOK
<1>6. OrderOf(r) = o
  OBVIOUS
<1>7. /\ \A x \in Orders : x # o => orderStatus'[x] = orderStatus[x]
      /\ orderStatus'[o] = IF (Pending(o) \cup Paid(o)) \ {r} = {} THEN "expired" ELSE "pending"
  BY <1>1, <1>3 DEF SetReservationStatus, SeatTypeOK
<1> HIDE DEF o
<1>8. ASSUME NEW x \in Orders, x # o PROVE OrderAgrees(x)' /\ PaymentsAgree(x)'
  BY <1>4, <1>5, <1>6, <1>7, <1>8, OrderUntouched
<1>9. Paid(o) = {} /\ ~Some(o, "paid")' /\ Some(o, "expired")'
  BY <1>2, <1>5, <1>6 DEF Some, Paid, HasStatus
<1>10. Some(o, "pending")' <=> Pending(o) \ {r} # {}
  BY <1>5 DEF Some, Pending, HasStatus
<1>11. OrderAgrees(o)'
  <2>1. orderStatus'[o] = IF Some(o, "pending")' THEN "pending" ELSE "expired"
    BY <1>7, <1>9, <1>10
  <2>2. ~(\A x \in Reservations : OrderOf(x) = o => resStatus'[x] = "none")
    BY <1>5, <1>6
  <2> QED BY <1>9, <2>1, <2>2 DEF OrderAgrees, Some
<1>12. PaymentsAgree(o)'
  BY <1>2, <1>4, <1>9 DEF PaymentsAgree, Took
<1>13. ApprovedOnce'
  BY <1>1, <1>4, <1>5 DEF ApprovedOnce
<1> QED BY <1>8, <1>11, <1>12, <1>13

LEMMA ExpireKeepsOrders ==
    ASSUME OrderIInv, NEW B \in SUBSET Due, ExpireBatch(B)
    PROVE  (\A x \in Orders : OrderAgrees(x) /\ PaymentsAgree(x))' /\ ApprovedOnce'
<1> USE DEF OrderIInv
<1>1. UNCHANGED <<payStatus, approved>>
  BY DEF ExpireBatch, moneyVars
<1>2. \A r \in Reservations : resStatus'[r] =
         IF OrderOf(r) \in B /\ resStatus[r] = "pending" THEN "expired" ELSE resStatus[r]
  BY DEF ExpireBatch, ReleasedBy, SetStatus, SeatTypeOK
<1>3. \A x \in Orders : orderStatus'[x] = IF x \in B THEN "expired" ELSE orderStatus[x]
  BY DEF ExpireBatch, SetStatus, SeatTypeOK
<1>4. ASSUME NEW x \in Orders, x \notin B PROVE OrderAgrees(x)' /\ PaymentsAgree(x)'
  BY <1>1, <1>2, <1>3, <1>4, OrderUntouched
<1>5. ASSUME NEW x \in Orders, x \in B PROVE OrderAgrees(x)' /\ PaymentsAgree(x)'
  <2>1. orderStatus[x] = "pending"
    BY <1>5 DEF Due
  <2>2. /\ ~Some(x, "paid") /\ Some(x, "pending")
        /\ \A q \in Payments : q[1] = x => ~Took(q)
    BY <2>1, OpenMeans
  <2>3. ~Some(x, "paid")' /\ ~Some(x, "pending")' /\ Some(x, "expired")'
    BY <1>2, <1>5, <2>2 DEF Some
  <2>4. OrderAgrees(x)'
    BY <1>3, <1>5, <2>3 DEF OrderAgrees, Some
  <2>5. PaymentsAgree(x)'
    BY <1>1, <2>2, <2>3 DEF PaymentsAgree, Took
  <2> QED BY <2>4, <2>5
<1>6. ApprovedOnce'
  BY <1>1, <1>2 DEF ApprovedOnce
<1> QED BY <1>4, <1>5, <1>6

LEMMA OrderIInvKept ==
    ASSUME OrderIInv, SeatTypeOK', [Next]_vars
    PROVE  OrderIInv'
<1>1. CASE UNCHANGED <<orderStatus, resStatus, payStatus, approved>>
  BY <1>1, OrderUntouched DEF OrderIInv, ApprovedOnce
<1>2. ASSUME NEW u \in Users, NEW p \in Payments, NEW method \in Methods, PayFailed(u, p, method)
      PROVE  OrderIInv'
  <2>1. /\ UNCHANGED <<orderStatus, resStatus, approved>>
        /\ payStatus[p] = "none"
        /\ payStatus' = [payStatus EXCEPT ![p] = "failed"]
    BY <1>2 DEF PayFailed, InsertPayment, seatVars
  <2>2. \A q \in Payments : (Took(q)' <=> Took(q)) /\ (payStatus'[q] = "success" <=> payStatus[q] = "success")
    BY <2>1 DEF Took, OrderIInv, SeatTypeOK
  <2>3. \A x \in Orders : OrderAgrees(x)'
    BY <2>1 DEF OrderIInv, OrderAgrees, Some
  <2>4. \A x \in Orders : PaymentsAgree(x)'
    BY <2>1, <2>2 DEF OrderIInv, PaymentsAgree, Some
  <2> QED BY <2>1, <2>3, <2>4 DEF OrderIInv, ApprovedOnce
<1>3. CASE UserStep
  <2>1. ASSUME NEW r \in Reservations, NEW t \in Tickets, ChangeTicket(r, t)
        PROVE  OrderIInv'
    BY <1>1, <2>1 DEF ChangeTicket, moneyVars
  <2> QED
    BY <1>2, <1>3, <2>1, ReserveKeepsOrders, PaySuccessKeepsOrders, CancelKeepsOrders,
       SetStatusKeepsOrders DEF UserStep, OrderIInv
<1>4. CASE Job
  BY <1>4, ExpireKeepsOrders DEF Job, OrderIInv
<1>5. CASE Clock
  BY <1>1, <1>5 DEF Clock, ApiDeadline, DbDeadline, MatchStarts, seatVars, moneyVars
<1>6. CASE UNCHANGED vars
  BY <1>1, <1>6 DEF vars, seatVars, moneyVars
<1> QED BY <1>3, <1>4, <1>5, <1>6 DEF Next

LEMMA OrderIInvStarts == Init /\ SeatTypeOK => OrderIInv
BY DEF Init, OrderIInv, OrderAgrees, PaymentsAgree, ApprovedOnce, Some, Took

LEMMA OrderIInvHolds == Spec => []OrderIInv
<1>1. Init /\ SeatTypeOK => OrderIInv
  BY OrderIInvStarts
<1>2. OrderIInv /\ SeatTypeOK' /\ [Next]_vars => OrderIInv'
  BY OrderIInvKept
<1> QED BY <1>1, <1>2, SeatTypeCorrect, PTL DEF Spec

(* orders.status, which pay, cancel, the review and the job each compute   *)
(* in their own way, never disagrees with the reservations of the order.   *)
THEOREM OrdersConsistent == Spec => []OrderMatchesReservations
<1>1. OrderIInv => OrderMatchesReservations
  BY OrderInvMeaning DEF OrderIInv
<1> QED BY <1>1, OrderIInvHolds, PTL

(* An order is settled by one payment, however many attempts it takes,     *)
(* refunded exactly when the last paid seat is gone.                       *)
THEOREM OrdersSettled == Spec => []SettledOnce
<1>1. OrderIInv => SettledOnce
  BY OrderInvMeaning DEF OrderIInv
<1> QED BY <1>1, OrderIInvHolds, PTL

-----------------------------------------------------------------------------
(* What one step may do to the status of an order and of a reservation.    *)
FinalStep ==
    /\ \A o \in Orders :
         /\ orderStatus[o] \in {"cancelled", "expired"} => orderStatus'[o] = orderStatus[o]
         /\ orderStatus[o] = "paid" => orderStatus'[o] \notin {"none", "pending", "expired"}
    /\ \A o \in Orders :
         orderStatus[o] = "partially_cancelled" =>
             orderStatus'[o] \in {"partially_cancelled", "cancelled"}
    /\ \A r \in Reservations :
         /\ resStatus[r] \in {"cancelled", "expired"} => resStatus'[r] = resStatus[r]
         /\ resStatus[r] = "paid" =>
               \/ resStatus'[r] = "paid"
               \/ resStatus'[r] = "cancelled" /\ approved'[r] = approved[r] + 1

(* A call that starts from an order not yet paid and leaves the rows of    *)
(* other states alone is such a step.                                      *)
LEMMA OnlyOpenRowsMove ==
    ASSUME \A o \in Orders : \/ orderStatus'[o] = orderStatus[o]
                             \/ orderStatus[o] \in {"none", "pending"},
           \A r \in Reservations : \/ resStatus'[r] = resStatus[r]
                                   \/ resStatus[r] \in {"none", "pending"}
    PROVE  FinalStep
BY DEF FinalStep

LEMMA CancelIsFinalStep ==
    ASSUME OrderIInv, NEW r \in Reservations, NEW a, NEW percent, Cancel(r, a, percent)
    PROVE  FinalStep
<1> DEFINE o == OrderOf(r)
<1> USE DEF OrderIInv
<1>1. /\ resStatus[r] \in {"pending", "paid"} /\ o \in Orders
      /\ orderStatus' = [orderStatus EXCEPT ![o] = StatusAfterCancel(r)]
      /\ resStatus' = [resStatus EXCEPT ![r] = "cancelled"]
      /\ approved' = [approved EXCEPT ![r] = @ + 1]
  BY RowFacts DEF Cancel
<1>2. /\ \A x \in Orders : x # o => orderStatus'[x] = orderStatus[x]
      /\ orderStatus'[o] = StatusAfterCancel(r)
      /\ \A x \in Reservations : x # r => resStatus'[x] = resStatus[x]
      /\ resStatus'[r] = "cancelled" /\ approved'[r] = approved[r] + 1
  BY <1>1 DEF SeatTypeOK, ApprovedOnce
<1>3. orderStatus[o] = "pending" \/ orderStatus[o] \in {"paid", "partially_cancelled"}
  BY <1>1, HeldMeans
<1>4. orderStatus[o] \in {"paid", "partially_cancelled"} =>
         StatusAfterCancel(r) \in {"cancelled", "partially_cancelled"}
  <2>1. resStatus[r] = "pending" => orderStatus[o] = "pending"
    BY HeldMeans
  <2> QED BY <2>1 DEF StatusAfterCancel
<1> HIDE DEF o
<1> QED BY <1>1, <1>2, <1>3, <1>4 DEF FinalStep

LEMMA StepIsFinal ==
    ASSUME OrderIInv, [Next]_vars
    PROVE  FinalStep
<1> USE DEF OrderIInv
<1>1. CASE UNCHANGED <<orderStatus, resStatus>>
  BY <1>1, OnlyOpenRowsMove
<1>2. ASSUME NEW u \in Users, NEW o \in Orders, NEW S \in SUBSET Tickets, Reserve(u, o, S)
      PROVE  FinalStep
  <2>1. \A x \in Orders : orderStatus'[x] = orderStatus[x] \/ orderStatus[x] = "none"
    BY <1>2 DEF Reserve, SeatTypeOK
  <2>2. \A r \in Reservations : resStatus'[r] = resStatus[r] \/ resStatus[r] = "none"
    BY <1>2 DEF Reserve, SetStatus, SeatTypeOK, OrderAgrees, Reservations, OrderOf
  <2> QED BY <2>1, <2>2, OnlyOpenRowsMove
<1>3. ASSUME NEW u \in Users, NEW p \in Payments, NEW method \in Methods, PayFailed(u, p, method)
      PROVE  FinalStep
  BY <1>1, <1>3 DEF PayFailed, seatVars
<1>4. ASSUME NEW u \in Users, NEW p \in Payments, NEW method \in Methods, PaySuccess(u, p, method)
      PROVE  FinalStep
  <2>1. \A x \in Orders : orderStatus'[x] = orderStatus[x] \/ orderStatus[x] = "pending"
    BY <1>4 DEF PaySuccess, Payable, SeatTypeOK
  <2>2. \A r \in Reservations : resStatus'[r] = resStatus[r] \/ resStatus[r] = "pending"
    BY <1>4 DEF PaySuccess, SetStatus, Pending, HasStatus, SeatTypeOK
  <2> QED BY <2>1, <2>2, OnlyOpenRowsMove
<1>5. ASSUME NEW r \in Reservations, NEW s \in {"paid", "expired"}, SetReservationStatus(r, s)
      PROVE  FinalStep
  <2>1. resStatus[r] = "pending" /\ orderStatus[OrderOf(r)] = "pending"
    BY <1>5, HeldMeans DEF SetReservationStatus, Reviewable
  <2>2. \A x \in Orders : orderStatus'[x] = orderStatus[x] \/ orderStatus[x] = "pending"
    BY <1>5, <2>1 DEF SetReservationStatus, SeatTypeOK
  <2>3. \A x \in Reservations : resStatus'[x] = resStatus[x] \/ resStatus[x] = "pending"
    BY <1>5, <2>1 DEF SetReservationStatus, SetStatus, Pending, HasStatus, SeatTypeOK
  <2> QED BY <2>2, <2>3, OnlyOpenRowsMove
<1>6. ASSUME NEW B \in SUBSET Due, ExpireBatch(B)
      PROVE  FinalStep
  <2>1. \A x \in Orders : orderStatus'[x] = orderStatus[x] \/ orderStatus[x] = "pending"
    BY <1>6 DEF ExpireBatch, Due, SetStatus, SeatTypeOK
  <2>2. \A r \in Reservations : resStatus'[r] = resStatus[r] \/ resStatus[r] = "pending"
    BY <1>6 DEF ExpireBatch, ReleasedBy, SetStatus, SeatTypeOK
  <2> QED BY <2>1, <2>2, OnlyOpenRowsMove
<1>7. ASSUME NEW r \in Reservations, NEW t \in Tickets, ChangeTicket(r, t)
      PROVE  FinalStep
  BY <1>1, <1>7 DEF ChangeTicket
<1>8. CASE Clock
  BY <1>1, <1>8 DEF Clock, ApiDeadline, DbDeadline, MatchStarts, seatVars
<1>9. CASE UNCHANGED vars
  BY <1>1, <1>9 DEF vars, seatVars
<1> QED
  BY <1>2, <1>3, <1>4, <1>5, <1>6, <1>7, <1>8, <1>9, CancelIsFinalStep DEF Next, UserStep, Job

(* No payment, cancellation, review or run of the job revives a finished   *)
(* order or takes a paid seat away without an approved cancellation, in    *)
(* whatever order their transactions commit.                               *)
THEOREM FinalStatesKept == Spec => FinalStatesStay
<1>1. OrderIInv /\ [Next]_vars => FinalStep
  BY StepIsFinal
<1>2. FinalStep => [FinalStep]_vars
  OBVIOUS
<1> QED BY <1>1, OrderIInvHolds, PTL DEF Spec, FinalStatesStay, FinalStep
=============================================================================
