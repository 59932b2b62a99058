----------------------------- MODULE SaleProofs -----------------------------
(***************************************************************************)
(* The tables implement the abstract sale, for any sets of users, seats    *)
(* and orders: every call of the booking core is a step of SeatSale on the *)
(* seats' holders, the bought seats and the phases of the orders, or       *)
(* changes none of them.                                                   *)
(***************************************************************************)
EXTENDS BookingProofs

IInv == SeatIInv /\ OrderIInv

(* What the refinement mapping reads from the rows.                        *)
Bought(t) == \E r \in Active(t) : resStatus[r] = "paid"

HolderFacts ==
    /\ \A r \in Reservations : IsActive(r) => HolderOf(resTicket[r]) = OrderOf(r)
    /\ \A t \in Tickets : ticketStatus[t] = "available" => HolderOf(t) = "free"
    /\ \A t \in Tickets : ticketStatus[t] = "cancelled" => HolderOf(t) = "withdrawn"
    /\ \A t \in Tickets : Bought(t) <=> ticketStatus[t] = "sold"

LEMMA HolderFactsHold ==
    ASSUME SeatIInv
    PROVE  HolderFacts
<1> USE DEF SeatIInv
<1>1. ASSUME NEW r \in Reservations, IsActive(r) PROVE HolderOf(resTicket[r]) = OrderOf(r)
  <2> DEFINE t == resTicket[r]
  <2>1. Active(t) = {r}
    BY <1>1 DEF Active, IsActive, SeatInv, OneHolder
  <2>2. (CHOOSE x \in Active(t) : TRUE) = r
    BY <2>1
  <2> QED BY <2>1, <2>2 DEF HolderOf
<1>2. \A t \in Tickets : ticketStatus[t] \in {"available", "cancelled"} => Active(t) = {}
  BY DEF Active, SeatInv, PendingHoldsSeat, PaidHoldsSeat
<1>3. \A t \in Tickets : ticketStatus[t] = "available" => HolderOf(t) = "free"
  BY <1>2 DEF HolderOf
<1>4. \A t \in Tickets : ticketStatus[t] = "cancelled" => HolderOf(t) = "withdrawn"
  BY <1>2 DEF HolderOf
<1>5. \A t \in Tickets : Bought(t) <=> ticketStatus[t] = "sold"
  BY DEF Bought, Active, SeatInv, PendingHoldsSeat, PaidHoldsSeat, HeldSeatHasHolder, IsActive
<1> QED BY <1>1, <1>3, <1>4, <1>5 DEF HolderFacts

LEMMA HolderFactsHoldNext ==
    ASSUME SeatIInv'
    PROVE  HolderFacts'
<1> USE DEF SeatIInv
<1>1. ASSUME NEW r \in Reservations, IsActive(r)' PROVE HolderOf(resTicket[r])' = OrderOf(r)
  <2> DEFINE t == resTicket'[r]
  <2>1. Active(resTicket[r])' = {r}
    BY <1>1 DEF Active, IsActive, SeatInv, OneHolder
  <2>2. (CHOOSE x \in Active(resTicket[r]) : TRUE)' = r
    BY <2>1
  <2> QED BY <2>1, <2>2 DEF HolderOf, OrderOf
<1>2. \A t \in Tickets : ticketStatus'[t] \in {"available", "cancelled"} => Active(t)' = {}
  BY DEF Active, SeatInv, PendingHoldsSeat, PaidHoldsSeat
<1>3. \A t \in Tickets : ticketStatus'[t] = "available" => HolderOf(t)' = "free"
  BY <1>2 DEF HolderOf
<1>4. \A t \in Tickets : ticketStatus'[t] = "cancelled" => HolderOf(t)' = "withdrawn"
  BY <1>2 DEF HolderOf
<1>5. \A t \in Tickets : Bought(t)' <=> ticketStatus'[t] = "sold"
  BY DEF Bought, Active, SeatInv, PendingHoldsSeat, PaidHoldsSeat, HeldSeatHasHolder, IsActive
<1> QED BY <1>1, <1>3, <1>4, <1>5 DEF HolderFacts, OrderOf

(* A seat no reservation leaves or enters stays with its holder.           *)
LEMMA SeatUntouched ==
    ASSUME SeatIInv, SeatIInv', HolderFacts, HolderFacts', NEW t \in Tickets,
           ticketStatus'[t] = ticketStatus[t] \/ ticketStatus[t] \in {"reserved", "sold"},
           \A r \in Reservations :
              IsActive(r) /\ resTicket[r] = t => IsActive(r)' /\ resTicket'[r] = t
    PROVE  HolderOf(t)' = HolderOf(t)
<1>1. ticketStatus[t] \in {"available", "reserved", "sold", "cancelled"}
  BY DEF SeatIInv, SeatTypeOK, TicketStatuses
<1>2. CASE ticketStatus[t] \in {"reserved", "sold"}
  <2>1. PICK r \in Reservations : IsActive(r) /\ resTicket[r] = t
    BY <1>2 DEF SeatIInv, SeatInv, HeldSeatHasHolder
  <2>2. IsActive(r)' /\ resTicket'[r] = t
    BY <2>1
  <2> QED BY <2>1, <2>2 DEF HolderFacts, OrderOf
<1>3. CASE ticketStatus[t] \in {"available", "cancelled"}
  BY <1>3 DEF HolderFacts
<1> QED BY <1>1, <1>2, <1>3

(* Every step is judged between two states that satisfy both invariants.   *)
Between == IInv /\ IInv' /\ HolderFacts /\ HolderFacts'

(* The seats of an order are those its active reservations are on.         *)
LEMMA SeatsOfOrder ==
    ASSUME SeatIInv, HolderFacts, NEW o \in Orders, NEW t \in Tickets
    PROVE  HolderOf(t) = o <=> \E r \in Reservations : IsActive(r) /\ resTicket[r] = t /\ OrderOf(r) = o
<1>1. ticketStatus[t] \in {"available", "reserved", "sold", "cancelled"}
  BY DEF SeatIInv, SeatTypeOK, TicketStatuses
<1>2. CASE ticketStatus[t] \in {"reserved", "sold"}
  <2>1. PICK r \in Reservations : IsActive(r) /\ resTicket[r] = t
    BY <1>2 DEF SeatIInv, SeatInv, HeldSeatHasHolder
  <2> QED BY <2>1 DEF HolderFacts
<1>3. CASE ticketStatus[t] \in {"available", "cancelled"}
  <2>1. HolderOf(t) # o
    BY <1>3, BookingAssumption DEF HolderFacts
  <2> QED BY <2>1 DEF HolderFacts
<1> QED BY <1>1, <1>2, <1>3

LEMMA ReserveHolds ==
    ASSUME Between, NEW u \in Users, NEW o \in Orders, NEW S \in SUBSET Tickets, Reserve(u, o, S)
    PROVE  Sale!Hold(o, S)
<1> USE DEF Between, IInv
<1>1. /\ orderStatus[o] = "none" /\ S # {} /\ \A t \in S : ticketStatus[t] = "available"
      /\ orderStatus' = [orderStatus EXCEPT ![o] = "pending"]
      /\ resStatus' = SetStatus(resStatus, {o} \X S, "pending")
      /\ ticketStatus' = SetStatus(ticketStatus, S, "reserved")
      /\ resTicket' = resTicket
  BY DEF Reserve, Reservable
<1>2. \A r \in Reservations : resStatus'[r] = IF r \in {o} \X S THEN "pending" ELSE resStatus[r]
  BY <1>1 DEF SetStatus, SeatIInv, SeatTypeOK
<1>3. \A t \in Tickets : ticketStatus'[t] = IF t \in S THEN "reserved" ELSE ticketStatus[t]
  BY <1>1 DEF SetStatus, SeatIInv, SeatTypeOK
<1>4. \A t \in S : HolderOf(t) = "free"
  BY <1>1 DEF HolderFacts
<1>5. ASSUME NEW t \in S PROVE HolderOf(t)' = o
  <2>1. /\ <<o, t>> \in Reservations /\ OrderOf(<<o, t>>) = o
        /\ <<o, t>> \in {o} \X S /\ <<o, t>>[2] = t
    BY <1>5 DEF Reservations, OrderOf
  <2>2. resTicket'[<<o, t>>] = t /\ IsActive(<<o, t>>)'
    BY <1>1, <1>2, <2>1 DEF SeatIInv, BlankRows, IsActive
  <2> QED BY <2>1, <2>2 DEF HolderFacts, OrderOf
<1>6. ASSUME NEW t \in Tickets, t \notin S PROVE HolderOf(t)' = HolderOf(t)
  <2>1. \A r \in Reservations : IsActive(r) => IsActive(r)'
    BY <1>2 DEF IsActive
  <2> QED BY <1>1, <1>3, <1>6, <2>1, SeatUntouched
<1>7. \A t \in Tickets : Bought(t)' <=> Bought(t)
  BY <1>1, <1>3 DEF HolderFacts
<1>8. \A x \in Orders : PhaseOf(x)' = IF x = o THEN "open" ELSE PhaseOf(x)
  BY <1>1 DEF PhaseOf, SeatIInv, SeatTypeOK
<1>9. PhaseOf(o) = "new"
  BY <1>1 DEF PhaseOf
<1> QED
  BY <1>1, <1>4, <1>5, <1>6, <1>7, <1>8, <1>9 DEF Sale!Hold, Bought

LEMMA PaymentBuys ==
    ASSUME Between, NEW u \in Users, NEW p \in Payments, NEW method \in Methods,
           PaySuccess(u, p, method)
    PROVE  Sale!Buy(p[1])
<1> DEFINE o == p[1]
<1> USE DEF Between, IInv
<1>1. /\ orderStatus[o] = "pending" /\ o \in Orders
      /\ orderStatus' = [orderStatus EXCEPT ![o] = "paid"]
      /\ resStatus' = SetStatus(resStatus, Pending(o), "paid")
      /\ resTicket' = resTicket
  BY RowFacts DEF PaySuccess, Payable
<1>2. \A r \in Reservations : resStatus'[r] =
         IF OrderOf(r) = o /\ resStatus[r] = "pending" THEN "paid" ELSE resStatus[r]
  BY <1>1 DEF SetStatus, SeatIInv, SeatTypeOK, Pending, HasStatus
<1>3. \A t \in SeatsToMove(Pending(o)) : ticketStatus[t] = "reserved"
  BY DEF SeatsToMove
<1>4. \A t \in Tickets : ticketStatus'[t] = ticketStatus[t] \/ ticketStatus[t] = "reserved"
  BY <1>3 DEF PaySuccess, SetStatus, SeatIInv, SeatTypeOK
<1> HIDE DEF o
<1>5. \A t \in Tickets : HolderOf(t)' = HolderOf(t)
  <2>1. \A r \in Reservations : IsActive(r) => IsActive(r)'
    BY <1>2 DEF IsActive
  <2> QED BY <1>1, <1>4, <2>1, SeatUntouched
<1>6. ASSUME NEW t \in Tickets PROVE Bought(t)' <=> Bought(t) \/ HolderOf(t) = o
  <2>1. HolderOf(t) = o <=>
          \E r \in Reservations : IsActive(r) /\ resTicket[r] = t /\ OrderOf(r) = o
    BY <1>1, SeatsOfOrder
  <2>2. \A r \in Reservations : resStatus'[r] = "paid" <=>
          resStatus[r] = "paid" \/ (IsActive(r) /\ OrderOf(r) = o)
    BY <1>2 DEF IsActive
  <2> QED BY <1>1, <2>1, <2>2 DEF Bought, Active, IsActive
<1>7. \A x \in Orders : PhaseOf(x)' = IF x = o THEN "closed" ELSE PhaseOf(x)
  BY <1>1 DEF PhaseOf, SeatIInv, SeatTypeOK
<1>8. PhaseOf(o) = "open"
  BY <1>1 DEF PhaseOf
<1>9. Sale!Buy(o)
  BY <1>1, <1>5, <1>6, <1>7, <1>8 DEF Sale!Buy, Sale!SeatsOf, Bought
<1> QED BY <1>9 DEF o

(* What the job, a review and a cancellation before payment have in common: *)
(* pending reservations leave their seats, and an order closes with the    *)
(* last one it holds.                                                      *)
LEMMA ReleaseReleases ==
    ASSUME Between, NEW R \in SUBSET Reservations, R # {},
           \A r \in R : resStatus[r] = "pending",
           NEW s \in {"cancelled", "expired"},
           \A r \in Reservations : resStatus'[r] = IF r \in R THEN s ELSE resStatus[r],
           \A t \in Tickets :
              ticketStatus'[t] = IF t \in TicketsOf(R) THEN "available" ELSE ticketStatus[t],
           resTicket' = resTicket,
           \A x \in Orders : PhaseOf(x)' =
              IF /\ \E r \in R : OrderOf(r) = x
                 /\ \A r \in Reservations : IsActive(r) /\ OrderOf(r) = x => r \in R
              THEN "closed" ELSE PhaseOf(x)
    PROVE  Sale!Release(TicketsOf(R))
<1> USE DEF Between, IInv
<1> DEFINE S == TicketsOf(R)
<1>1. S \in SUBSET Tickets /\ S # {}
  BY DEF TicketsOf, SeatIInv, SeatTypeOK
<1>2. \A r \in Reservations : IsActive(r) => (resTicket[r] \in S <=> r \in R)
  BY DEF TicketsOf, SeatIInv, SeatInv, OneHolder, IsActive
<1>3. \A r \in Reservations : IsActive(r)' <=> IsActive(r) /\ r \notin R
  BY DEF IsActive
<1>4. ASSUME NEW t \in S PROVE HolderOf(t) \in Orders /\ ~Bought(t)
  <2>1. PICK r \in R : resTicket[r] = t
    BY DEF TicketsOf
  <2>2. IsActive(r) /\ ticketStatus[t] = "reserved"
    BY <2>1 DEF IsActive, SeatIInv, SeatInv, PendingHoldsSeat
  <2> QED BY <1>1, <2>1, <2>2, RowFacts DEF HolderFacts
<1>5. \A t \in Tickets : HolderOf(t)' = IF t \in S THEN "free" ELSE HolderOf(t)
  <2>1. ASSUME NEW t \in Tickets, t \in S PROVE HolderOf(t)' = "free"
    BY <2>1 DEF HolderFacts
  <2>2. ASSUME NEW t \in Tickets, t \notin S PROVE HolderOf(t)' = HolderOf(t)
    BY <1>2, <1>3, <2>2, SeatUntouched
  <2> QED BY <2>1, <2>2
<1>6. \A t \in Tickets : Bought(t)' <=> Bought(t)
  <2>1. \A t \in S : ~Bought(t) /\ ~Bought(t)'
    BY <1>1, <1>4 DEF HolderFacts
  <2> QED BY <2>1 DEF HolderFacts
<1>7. ASSUME NEW x \in Orders
      PROVE  (\E r \in R : OrderOf(r) = x) /\ (\A r \in Reservations : IsActive(r) /\ OrderOf(r) = x => r \in R)
             <=> (\E t \in Tickets : HolderOf(t) = x) /\ (\A t \in Tickets : HolderOf(t) = x => t \in S)
  <2>1. \A t \in Tickets : HolderOf(t) = x <=>
          \E r \in Reservations : IsActive(r) /\ resTicket[r] = t /\ OrderOf(r) = x
    BY SeatsOfOrder
  <2>2. \A r \in Reservations : resTicket[r] \in Tickets
    BY DEF SeatIInv, SeatTypeOK
  <2>3. \A r \in R : IsActive(r)
    BY DEF IsActive
  <2> HIDE DEF S
  <2> QED BY <1>2, <2>1, <2>2, <2>3
<1> HIDE DEF S
<1>8. \A x \in Orders : PhaseOf(x)' =
        IF (\E t \in Tickets : HolderOf(t) = x) /\ (\A t \in Tickets : HolderOf(t) = x => t \in S)
        THEN "closed" ELSE PhaseOf(x)
  BY <1>7
<1>9. Sale!Release(S)
  BY <1>1, <1>4, <1>5, <1>6, <1>8 DEF Sale!Release, Sale!SeatsOf, Bought
<1> QED BY <1>9 DEF S

LEMMA CancelReleasesOrReturns ==
    ASSUME Between, NEW r \in Reservations, NEW a, NEW percent, Cancel(r, a, percent)
    PROVE  Sale!Release(TicketsOf({r})) \/ \E t \in Tickets : Sale!Return(t)
<1> DEFINE o == OrderOf(r)
<1> USE DEF Between, IInv
<1>0. PICK t \in Tickets : t = resTicket[r]
  BY DEF SeatIInv, SeatTypeOK
<1>1. /\ resStatus[r] \in {"pending", "paid"} /\ o \in Orders /\ t \in Tickets
      /\ orderStatus' = [orderStatus EXCEPT ![o] = StatusAfterCancel(r)]
      /\ resStatus' = [resStatus EXCEPT ![r] = "cancelled"]
      /\ ticketStatus' = [ticketStatus EXCEPT ![t] = "available"]
      /\ resTicket' = resTicket
  BY <1>0, RowFacts DEF Cancel
<1>2. /\ \A x \in Reservations : resStatus'[x] = IF x = r THEN "cancelled" ELSE resStatus[x]
      /\ \A x \in Tickets : ticketStatus'[x] = IF x = t THEN "available" ELSE ticketStatus[x]
      /\ \A x \in Orders : orderStatus'[x] = IF x = o THEN StatusAfterCancel(r) ELSE orderStatus[x]
  BY <1>1 DEF SeatIInv, SeatTypeOK
<1>3. \A x \in Orders : x # o => PhaseOf(x)' = PhaseOf(x)
  BY <1>2 DEF PhaseOf
<1>4. CASE resStatus[r] = "pending"
  <2>1. orderStatus[o] = "pending"
    BY <1>4, HeldMeans
  <2>2. Paid(o) = {} /\ \A x \in Reservations : OrderOf(x) = o => resStatus[x] # "paid"
    BY <1>1, <2>1, OpenMeans DEF Paid, HasStatus, Some
  <2>3. StatusAfterCancel(r) = IF Pending(o) \ {r} = {} THEN "cancelled" ELSE "pending"
    BY <1>4, <2>2 DEF StatusAfterCancel
  <2>4. Pending(o) \ {r} = {} <=> \A x \in Reservations : IsActive(x) /\ OrderOf(x) = o => x \in {r}
    BY <2>2 DEF Pending, HasStatus, IsActive
  <2>5. PhaseOf(o)' = IF Pending(o) \ {r} = {} THEN "closed" ELSE PhaseOf(o)
    BY <1>1, <1>2, <2>1, <2>3 DEF PhaseOf
  <2>6. \A x \in Tickets : x \in TicketsOf({r}) <=> x = t
    BY <1>0 DEF TicketsOf
  <2>7. \A x \in Orders : PhaseOf(x)' =
           IF /\ \E y \in {r} : OrderOf(y) = x
              /\ \A y \in Reservations : IsActive(y) /\ OrderOf(y) = x => y \in {r}
           THEN "closed" ELSE PhaseOf(x)
    BY <1>3, <2>4, <2>5
  <2> QED BY <1>1, <1>2, <1>4, <2>6, <2>7, ReleaseReleases
<1>5. CASE resStatus[r] = "paid"
  <2>1. orderStatus[o] \in {"paid", "partially_cancelled"}
    BY <1>5, HeldMeans
  <2>2. StatusAfterCancel(r) \in {"cancelled", "partially_cancelled"}
    BY <1>5 DEF StatusAfterCancel
  <2>3. \A x \in Orders : PhaseOf(x)' = PhaseOf(x)
    BY <1>2, <1>3, <2>1, <2>2 DEF PhaseOf
  <2>4. ticketStatus[t] = "sold"
    BY <1>0, <1>5 DEF SeatIInv, SeatInv, PaidHoldsSeat
  <2>5. ASSUME NEW x \in Tickets, x # t PROVE HolderOf(x)' = HolderOf(x)
    BY <1>0, <1>1, <1>2, <2>5, SeatUntouched DEF IsActive
  <2>6. HolderOf(t)' = "free"
    BY <1>1, <1>2 DEF HolderFacts
  <2>7. \A x \in Tickets : Bought(x)' <=> Bought(x) /\ x # t
    BY <1>2 DEF HolderFacts
  <2>8. Bought(t)
    BY <1>1, <2>4 DEF HolderFacts
  <2>9. [x \in Tickets |-> HolderOf(x)'] = [[x \in Tickets |-> HolderOf(x)] EXCEPT ![t] = "free"]
    BY <2>5, <2>6
  <2>10. Sale!Return(t)
    BY <1>1, <2>3, <2>7, <2>8, <2>9 DEF Sale!Return, Bought
  <2> QED BY <2>10
<1> QED BY <1>1, <1>4, <1>5

LEMMA ReviewReleases ==
    ASSUME Between, NEW r \in Reservations, NEW s \in {"paid", "expired"},
           SetReservationStatus(r, s)
    PROVE  Sale!Release(TicketsOf({r}))
<1> DEFINE o == OrderOf(r)
<1> USE DEF Between, IInv
<1>1. /\ resStatus[r] = "pending" /\ orderStatus[o] = "pending" /\ o \in Orders
      /\ resTicket' = resTicket /\ resTicket[r] \in Tickets
  BY HeldMeans, RowFacts DEF SetReservationStatus, Reviewable, SeatIInv, SeatTypeOK
<1>2. /\ ~Some(o, "paid")
      /\ \A q \in Payments : q[1] = o => ~Took(q)
  BY <1>1, OpenMeans
<1>3. s = "expired"
  BY <1>2 DEF SetReservationStatus, Reviewable, SuccessPayments, Took
<1>4. /\ \A x \in Reservations : resStatus'[x] = IF x \in {r} THEN "expired" ELSE resStatus[x]
      /\ \A x \in Tickets : ticketStatus'[x] = IF x = resTicket[r] THEN "available" ELSE ticketStatus[x]
      /\ \A x \in Orders : orderStatus'[x] =
            IF x = o /\ (Pending(o) \cup Paid(o)) \ {r} = {} THEN "expired" ELSE orderStatus[x]
  BY <1>1, <1>3 DEF SetReservationStatus, SetStatus, SeatIInv, SeatTypeOK
<1>5. (Pending(o) \cup Paid(o)) \ {r} = {} <=>
         \A x \in Reservations : IsActive(x) /\ OrderOf(x) = o => x \in {r}
  BY DEF Pending, Paid, HasStatus, IsActive
<1>6. \A x \in Tickets : x \in TicketsOf({r}) <=> x = resTicket[r]
  BY DEF TicketsOf
<1>7. \A x \in Orders : PhaseOf(x)' =
         IF /\ \E y \in {r} : OrderOf(y) = x
            /\ \A y \in Reservations : IsActive(y) /\ OrderOf(y) = x => y \in {r}
         THEN "closed" ELSE PhaseOf(x)
  BY <1>4, <1>5 DEF PhaseOf
<1> QED BY <1>1, <1>4, <1>6, <1>7, ReleaseReleases

LEMMA JobReleases ==
    ASSUME Between, NEW B \in SUBSET Due, ExpireBatch(B)
    PROVE  Sale!Release(TicketsOf(ReleasedBy(B)))
<1> USE DEF Between, IInv
<1>1. PICK R \in SUBSET Reservations : R = ReleasedBy(B)
  BY DEF ReleasedBy
<1>2. \A r \in Reservations : r \in R <=> OrderOf(r) \in B /\ resStatus[r] = "pending"
  BY <1>1 DEF ReleasedBy
<1>3. \A x \in B : x \in Orders /\ orderStatus[x] = "pending"
  BY DEF Due, SeatIInv, SeatTypeOK
<1>4. \A x \in B : ~Some(x, "paid") /\ Some(x, "pending")
  BY <1>3, OpenMeans
<1>5. B # {} /\ R # {}
  BY <1>2, <1>4 DEF ExpireBatch, Some
<1>6. SeatsToMove(R) = TicketsOf(R)
  BY <1>2 DEF SeatsToMove, TicketsOf, SeatIInv, SeatInv, PendingHoldsSeat
<1>7. /\ \A r \in Reservations : resStatus'[r] = IF r \in R THEN "expired" ELSE resStatus[r]
      /\ \A t \in Tickets :
            ticketStatus'[t] = IF t \in TicketsOf(R) THEN "available" ELSE ticketStatus[t]
      /\ \A x \in Orders : orderStatus'[x] = IF x \in B THEN "expired" ELSE orderStatus[x]
      /\ resTicket' = resTicket
  BY <1>1, <1>6 DEF ExpireBatch, SetStatus, SeatIInv, SeatTypeOK
<1>8. \A x \in Orders : x \in B <=>
         /\ \E r \in R : OrderOf(r) = x
         /\ \A r \in Reservations : IsActive(r) /\ OrderOf(r) = x => r \in R
  BY <1>2, <1>4 DEF Some, IsActive
<1>9. \A x \in Orders : PhaseOf(x)' = IF x \in B THEN "closed" ELSE PhaseOf(x)
  BY <1>7 DEF PhaseOf
<1> QED BY <1>1, <1>2, <1>5, <1>7, <1>8, <1>9, ReleaseReleases

LEMMA ChangeSwaps ==
    ASSUME Between, NEW r \in Reservations, NEW t \in Tickets, ChangeTicket(r, t)
    PROVE  Sale!Swap(resTicket[r], t)
<1> USE DEF Between, IInv
<1>0. PICK old \in Tickets : old = resTicket[r]
  BY DEF SeatIInv, SeatTypeOK
<1>1. /\ resStatus' = resStatus /\ orderStatus' = orderStatus /\ resStatus[r] = "pending"
      /\ ticketStatus[t] = "available" /\ ticketStatus[old] = "reserved"
      /\ MatchOf[t] = MatchOf[old] /\ t # old /\ OrderOf(r) \in Orders
  BY <1>0, RowFacts DEF ChangeTicket, Replaceable, SeatIInv, SeatTypeOK
<1>2. \A x \in Reservations : resTicket'[x] = IF x = r THEN t ELSE resTicket[x]
  BY DEF ChangeTicket, SeatIInv, SeatTypeOK
<1>3. \A x \in Tickets : ticketStatus'[x] = IF x = old THEN "available"
                                            ELSE IF x = t THEN "reserved" ELSE ticketStatus[x]
  BY <1>0, <1>1 DEF ChangeTicket, SeatIInv, SeatTypeOK
<1>4. HolderOf(old) = OrderOf(r) /\ HolderOf(t) = "free" /\ HolderOf(old)' = "free"
  BY <1>0, <1>1, <1>3 DEF HolderFacts, IsActive
<1>5. HolderOf(t)' = OrderOf(r)
  BY <1>1, <1>2 DEF HolderFacts, IsActive, OrderOf
<1>6. ASSUME NEW x \in Tickets, x # old, x # t PROVE HolderOf(x)' = HolderOf(x)
  BY <1>0, <1>1, <1>2, <1>3, <1>6, SeatUntouched DEF IsActive
<1>7. (\A x \in Tickets : Bought(x)' <=> Bought(x)) /\ ~Bought(old)
  BY <1>1, <1>3 DEF HolderFacts
<1>8. \A x \in Orders : PhaseOf(x)' = PhaseOf(x)
  BY <1>1 DEF PhaseOf
<1>9. [x \in Tickets |-> HolderOf(x)'] =
         [[x \in Tickets |-> HolderOf(x)] EXCEPT ![t] = OrderOf(r), ![old] = "free"]
  BY <1>1, <1>4, <1>5, <1>6
<1>10. Sale!Swap(old, t)
  BY <1>1, <1>4, <1>7, <1>8, <1>9 DEF Sale!Swap, Bought
<1> QED BY <1>0, <1>10

LEMMA QuietStep ==
    ASSUME UNCHANGED <<ticketStatus, orderStatus, resStatus, resTicket>>
    PROVE  UNCHANGED Sale!saleVars
BY DEF Sale!saleVars, HolderOf, PhaseOf, Active, OrderOf

LEMMA StepsImplementSale ==
    ASSUME IInv, IInv', [Next]_vars
    PROVE  [Sale!Next]_(Sale!saleVars)
<1>1. Between
  BY HolderFactsHold, HolderFactsHoldNext DEF Between, IInv
<1>2. ASSUME NEW u \in Users, NEW o \in Orders, NEW S \in SUBSET Tickets, Reserve(u, o, S)
      PROVE  Sale!Next
  BY <1>1, <1>2, ReserveHolds DEF Sale!Next
<1>3. ASSUME NEW u \in Users, NEW p \in Payments, NEW method \in Methods, PayFailed(u, p, method)
      PROVE  UNCHANGED Sale!saleVars
  BY <1>3, QuietStep DEF PayFailed, seatVars
<1>4. ASSUME NEW u \in Users, NEW p \in Payments, NEW method \in Methods, PaySuccess(u, p, method)
      PROVE  Sale!Next
  BY <1>1, <1>4, PaymentBuys, RowFacts DEF Sale!Next
<1>5. \A r \in Reservations : TicketsOf({r}) \in SUBSET Tickets /\ resTicket[r] \in Tickets
  BY DEF TicketsOf, IInv, SeatIInv, SeatTypeOK
<1>6. ASSUME NEW r \in Reservations, NEW a, NEW percent, Cancel(r, a, percent)
      PROVE  Sale!Next
  BY <1>1, <1>5, <1>6, CancelReleasesOrReturns DEF Sale!Next
<1>7. ASSUME NEW r \in Reservations, NEW s \in {"paid", "expired"}, SetReservationStatus(r, s)
      PROVE  Sale!Next
  BY <1>1, <1>5, <1>7, ReviewReleases DEF Sale!Next
<1>8. ASSUME NEW r \in Reservations, NEW t \in Tickets, ChangeTicket(r, t)
      PROVE  Sale!Next
  BY <1>1, <1>5, <1>8, ChangeSwaps DEF Sale!Next
<1>9. ASSUME NEW B \in SUBSET Due, ExpireBatch(B)
      PROVE  Sale!Next
  <2>1. TicketsOf(ReleasedBy(B)) \in SUBSET Tickets
    BY DEF TicketsOf, ReleasedBy, IInv, SeatIInv, SeatTypeOK
  <2> QED BY <1>1, <1>9, <2>1, JobReleases DEF Sale!Next
<1>10. CASE Clock
  BY <1>10, QuietStep DEF Clock, ApiDeadline, DbDeadline, MatchStarts, seatVars
<1>11. CASE UNCHANGED vars
  BY <1>11, QuietStep DEF vars, seatVars
<1> QED
  BY <1>2, <1>3, <1>4, <1>6, <1>7, <1>8, <1>9, <1>10, <1>11 DEF Next, UserStep, Job

(* The tables of the booking core implement the abstract sale for every    *)
(* number of users, seats, orders and attempts: at the start the seats are *)
(* free or withdrawn, and every transaction moves them between orders the  *)
(* way SeatSale allows, or not at all.                                     *)
THEOREM TablesImplementSale == Spec => ImplementsSeatSale
<1>1. ASSUME Init PROVE Sale!Init
  <2>1. \A t \in Tickets : Active(t) = {} /\ HolderOf(t) \in {"free", "withdrawn"}
    BY <1>1 DEF Init, HolderOf, Active
  <2>2. \A o \in Orders : PhaseOf(o) = "new"
    BY <1>1 DEF Init, PhaseOf
  <2> QED BY <2>1, <2>2 DEF Sale!Init
<1>2. IInv /\ IInv' /\ [Next]_vars => [Sale!Next]_(Sale!saleVars)
  BY StepsImplementSale
<1> QED
  BY <1>1, <1>2, SeatIInvHolds, OrderIInvHolds, PTL DEF Spec, IInv, ImplementsSeatSale, Sale!Spec
=============================================================================
