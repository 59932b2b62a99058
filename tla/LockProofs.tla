----------------------------- MODULE LockProofs -----------------------------
(***************************************************************************)
(* Calls that overlap do to the rows what whole calls do, one after the    *)
(* other: BookingLocks implements Booking, for every number of calls.      *)
(*                                                                         *)
(* The inductive invariant IInv says, of every call and every statement it *)
(* may be at, what the call knows of the rows it has locked (Knows): what  *)
(* its queries returned is still so, and what it is about to write is what *)
(* Booking would write now.  A call that sleeps keeps its knowledge        *)
(* because a commit changes only rows the committing call has locked       *)
(* (WithinLocks) and no row is locked twice (Exclusive, CommitSpares); a   *)
(* call that takes a lock or makes a statement keeps it by the code of     *)
(* that statement; and a commit, by what its call knows, is a step of      *)
(* Booking (CommitIsStep), of which BookingProofs and MoneyProofs keep the *)
(* rest of the invariant.  The order in which the locks are taken is part  *)
(* of it (Legal, UserLast) and yields what is said of deadlocks.           *)
(***************************************************************************)
EXTENDS BookingLocks, FiniteSetTheorems, WellFoundedInduction, TLAPS

-----------------------------------------------------------------------------
(***************************************************************************)
(* Rows in the order of keys, as ORDER BY puts them.                       *)
(***************************************************************************)
(* Induction over the subsets of a finite set: a set of bad subsets has a  *)
(* smallest one.                                                           *)
LEMMA SmallestSubset ==
    ASSUME NEW S, IsFiniteSet(S), NEW B \in SUBSET (SUBSET S), B # {}
    PROVE  \E T \in B : \A V \in B : V \subseteq T => V = T
<1>1. IsWellFoundedOn(StrictSubsetOrdering(S), SUBSET S)
  BY FS_StrictSubsetOrderingWellFounded, FS_FiniteSubsetsOfFinite
<1>2. \E T \in B : \A V \in B : ~ (<<V, T>> \in StrictSubsetOrdering(S))
  BY <1>1, WFMin
<1> QED BY <1>2 DEF StrictSubsetOrdering

Keyed(S, key) ==
    /\ IsFiniteSet(S)
    /\ \A x \in S : key[x] \in Int
    /\ \A x, y \in S : key[x] = key[y] => x = y

Increasing(s, S, key) ==
    /\ s \in [1..Cardinality(S) -> S] /\ Range(s) = S
    /\ \A i, j \in DOMAIN s : i < j => key[s[i]] < key[s[j]]

(* A finite set, not empty, has an element with the greatest key.          *)
LEMMA LastByKey ==
    ASSUME NEW S, NEW key, Keyed(S, key), NEW U \in SUBSET S, U # {}
    PROVE  \E m \in U : \A y \in U : key[y] <= key[m]
<1> USE DEF Keyed
<1> DEFINE HasLast(T) == \E m \in T : \A y \in T : key[y] <= key[m]
           B == {T \in SUBSET S : T # {} /\ ~HasLast(T)}
<1>1. ASSUME B # {} PROVE FALSE
  <2>1. PICK T \in B : \A V \in B : V \subseteq T => V = T
    <3> HIDE DEF B
    <3>1. B \in SUBSET (SUBSET S)
      BY DEF B
    <3> QED BY <1>1, <3>1, SmallestSubset
  <2>2. PICK x \in T : TRUE
    OBVIOUS
  <2> DEFINE V == T \ {x}
  <2>3. V \in SUBSET S /\ V \notin B /\ x \in S
    BY <2>1, <2>2
  <2>4. V = {} \/ HasLast(V)
    BY <2>3
  <2>5. CASE V = {}
    <3>1. \A y \in T : key[y] <= key[x]
      BY <2>2, <2>3, <2>5
    <3> QED BY <2>2, <3>1
  <2>6. ASSUME NEW m \in V, \A y \in V : key[y] <= key[m] PROVE FALSE
    <3>1. m \in T /\ m \in S /\ key[m] \in Int /\ key[x] \in Int
      BY <2>3
    <3>2. CASE key[x] <= key[m]
      BY <2>6, <3>1, <3>2
    <3>3. CASE key[m] <= key[x]
      <4>1. \A y \in T : key[y] <= key[x]
        <5> TAKE y \in T
        <5>1. CASE y = x
          BY <3>1, <5>1
        <5>2. CASE y \in V
          <6>1. key[y] <= key[m] /\ key[y] \in Int
            BY <2>6, <5>2
          <6> QED BY <3>1, <3>3, <6>1
        <5> QED BY <5>1, <5>2
      <4> QED BY <2>2, <4>1
    <3> QED BY <3>1, <3>2, <3>3
  <2> QED BY <2>4, <2>5, <2>6
<1> QED BY <1>1

(* The rows of a finite set can be put in the order of keys that differ.   *)
LEMMA Sorts ==
    ASSUME NEW S, NEW key, Keyed(S, key)
    PROVE  Increasing(InOrder(S, key), S, key)
<1> DEFINE Sortable(T) == \E s : Increasing(s, T, key)
           B == {T \in SUBSET S : ~Sortable(T)}
<1>1. ASSUME B # {} PROVE FALSE
  <2>0. IsFiniteSet(S)
    BY DEF Keyed
  <2>1. PICK T \in B : \A V \in B : V \subseteq T => V = T
    <3> HIDE DEF B
    <3>1. B \in SUBSET (SUBSET S)
      BY DEF B
    <3> QED BY <1>1, <2>0, <3>1, SmallestSubset
  <2>2. CASE T = {}
    <3>1. Cardinality(T) = 0
      BY <2>2, FS_EmptySet
    <3>2. Increasing([i \in 1..0 |-> 0], T, key)
      BY <2>2, <3>1 DEF Increasing, Range
    <3> QED BY <2>1, <3>2
  <2>3. CASE T # {}
    <3>1. PICK m \in T : \A y \in T : key[y] <= key[m]
      BY <2>1, <2>3, LastByKey
    <3> DEFINE V == T \ {m}
    <3>2. V \in SUBSET S /\ V \notin B
      BY <2>1, <3>1
    <3>3. PICK s : Increasing(s, V, key)
      BY <3>2
    <3>4. IsFiniteSet(V) /\ IsFiniteSet(T)
      BY <2>0, <2>1, <3>2, FS_Subset
    <3>5. Cardinality(V) \in Nat /\ Cardinality(T) = Cardinality(V) + 1
      <4>1. Cardinality(V \cup {m}) = Cardinality(V) + 1
        BY <3>4, FS_AddElement
      <4>2. V \cup {m} = T
        BY <3>1
      <4> QED BY <3>4, <4>1, <4>2, FS_CardinalityType
    <3> DEFINE n == Cardinality(V)
               h == [i \in 1..(n + 1) |-> IF i = n + 1 THEN m ELSE s[i]]
    <3> HIDE DEF B, V
    <3>6. s \in [1..n -> V] /\ Range(s) = V /\ \A i, j \in 1..n : i < j => key[s[i]] < key[s[j]]
      BY <3>3 DEF Increasing
    <3>7. T = V \cup {m} /\ m \notin V /\ \A y \in V : key[y] < key[m] /\ key[y] \in Int
      <4>1. T = V \cup {m} /\ m \notin V /\ m \in S /\ T \subseteq S
        BY <2>1, <3>1 DEF V, B
      <4>2. ASSUME NEW y \in V PROVE key[y] < key[m] /\ key[y] \in Int
        <5>1. key[y] <= key[m] /\ key[y] # key[m] /\ key[y] \in Int /\ key[m] \in Int
          BY <3>1, <4>1, <4>2 DEF Keyed
        <5> QED BY <5>1
      <4> QED BY <4>1, <4>2
    <3>8. h \in [1..(n + 1) -> T]
      BY <3>5, <3>6, <3>7
    <3>9. Range(h) = T
      <4>1. h[n + 1] = m /\ \A i \in 1..n : h[i] = s[i]
        BY <3>5
      <4>2. \A x \in V : \E i \in 1..n : s[i] = x
        BY <3>6 DEF Range
      <4>3. \A x \in T : \E i \in 1..(n+1) : h[i] = x
        <5> TAKE x \in T
        <5>1. CASE x = m
          BY <3>5, <4>1, <5>1
        <5>2. CASE x \in V
          BY <3>5, <4>1, <4>2, <5>2
        <5> QED BY <3>7, <5>1, <5>2
      <4> QED BY <3>8, <4>3 DEF Range
    <3>10. \A i, j \in 1..(n+1) : i < j => key[h[i]] < key[h[j]]
      <4> SUFFICES ASSUME NEW i \in 1..(n+1), NEW j \in 1..(n+1), i < j PROVE key[h[i]] < key[h[j]]
        OBVIOUS
      <4>1. i \in 1..n /\ h[i] = s[i] /\ s[i] \in V
        BY <3>5, <3>6
      <4>2. CASE j = n + 1
        BY <3>5, <3>7, <4>1, <4>2
      <4>3. CASE j \in 1..n
        BY <3>5, <3>6, <4>1, <4>3
      <4> QED BY <3>5, <4>2, <4>3
    <3>11. Increasing(h, T, key)
      BY <3>5, <3>8, <3>9, <3>10 DEF Increasing
    <3> QED BY <2>1, <3>11 DEF B
  <2> QED BY <2>2, <2>3
<1>2. PICK s : Increasing(s, S, key)
  BY <1>1
<1> QED BY <1>2 DEF Increasing, InOrder

Res == Orders \X Tickets

LEMMA RowParts == \A kind, id : Row(kind, id)[1] = kind /\ Row(kind, id)[2] = id
BY DEF Row

(* lockTickets takes the seats of a call in the order of their ids.        *)
LEMMA SeatsInOrder ==
    ASSUME NEW S \in SUBSET Tickets, IsFiniteSet(S)
    PROVE  /\ TicketLocks(S) \in Seq({"ticket"} \X S)
           /\ Range(TicketLocks(S)) = {"ticket"} \X S
           /\ \A i \in DOMAIN TicketLocks(S) : TicketLocks(S)[i][1] = "ticket"
           /\ \A i, j \in DOMAIN TicketLocks(S) : i < j => TicketLocks(S)[i][2] < TicketLocks(S)[j][2]
<1> DEFINE n == Cardinality(S)
           key == [t \in S |-> t]
           seats == InOrder(S, key)
<1>1. Keyed(S, key)
  BY BookingLocksAssumption DEF Keyed
<1>2. n \in Nat
  BY FS_CardinalityType
<1>3. seats \in [1..n -> S] /\ Range(seats) = S /\ \A i, j \in 1..n : i < j => seats[i] < seats[j]
  <2> HIDE DEF n, seats
  <2>1. Increasing(seats, S, key)
    BY <1>1, Sorts DEF seats
  <2>2. seats \in [1..n -> S] /\ Range(seats) = S /\ \A i, j \in 1..n : i < j => key[seats[i]] < key[seats[j]]
    BY <2>1 DEF Increasing, n
  <2>3. \A i \in 1..n : seats[i] \in S /\ key[seats[i]] = seats[i]
    BY <2>2
  <2> QED BY <2>2, <2>3
<1> DEFINE T == TicketLocks(S)
<1>4. T = [i \in 1..n |-> <<"ticket", seats[i]>>]
  BY DEF TicketLocks, Row
<1> HIDE DEF n, seats, key, T
<1>5. T \in Seq({"ticket"} \X S) /\ DOMAIN T = 1..n
  BY <1>2, <1>3, <1>4
<1>6. Range(T) = {"ticket"} \X S
  <2>1. \A t \in S : \E i \in 1..n : seats[i] = t
    BY <1>3 DEF Range
  <2>2. \A x \in {"ticket"} \X S : \E i \in 1..n : T[i] = x
    BY <1>4, <2>1
  <2>3. \A i \in 1..n : T[i] \in {"ticket"} \X S
    BY <1>3, <1>4
  <2> QED BY <1>5, <2>2, <2>3 DEF Range
<1>7. \A i \in DOMAIN T : T[i][1] = "ticket" /\ T[i][2] = seats[i]
  BY <1>4
<1> QED BY <1>3, <1>5, <1>6, <1>7 DEF T

(* The queries of pay and of the job lock each reservation before its      *)
(* seat, and the seats in the order of their ids.                          *)
LEMMA ItemsInOrder ==
    ASSUME NEW R \in SUBSET Res, IsFiniteSet(R), \A r \in R : resTicket[r] \in Tickets,
           \A r, s \in R : resTicket[r] = resTicket[s] => r = s
    PROVE  /\ ItemLocks(R) \in Seq(({"reservation"} \X R) \cup ({"ticket"} \X Tickets))
           /\ \A r \in R : Row("reservation", r) \in Range(ItemLocks(R))
           /\ \A i \in DOMAIN ItemLocks(R) : ItemLocks(R)[i][1] = "reservation" =>
                /\ ItemLocks(R)[i][2] \in R /\ i < Len(ItemLocks(R))
                /\ ItemLocks(R)[i + 1] = Row("ticket", resTicket[ItemLocks(R)[i][2]])
           /\ \A i, j \in DOMAIN ItemLocks(R) :
                i < j /\ ItemLocks(R)[i][1] = "ticket" /\ ItemLocks(R)[j][1] = "ticket" =>
                    ItemLocks(R)[i][2] < ItemLocks(R)[j][2]
<1> DEFINE n == Cardinality(R)
           key == [r \in R |-> BySeat(r)]
           items == InOrder(R, key)
           T == ItemLocks(R)
<1>1. Keyed(R, key)
  <2>1. \A r \in R : key[r] = resTicket[r]
    BY DEF BySeat
  <2>2. \A r \in R : resTicket[r] \in Int
    <3>1. Tickets \subseteq Int
      BY BookingLocksAssumption
    <3> HIDE DEF key, T, items, n
    <3> QED BY <3>1
  <2> HIDE DEF key, T, items, n
  <2> QED BY <2>1, <2>2 DEF Keyed
<1>2. n \in Nat
  BY FS_CardinalityType
<1>3. /\ items \in [1..n -> R] /\ Range(items) = R
      /\ \A i, j \in 1..n : i < j => resTicket[items[i]] < resTicket[items[j]]
  <2> HIDE DEF n, items, T
  <2>1. Increasing(items, R, key)
    BY <1>1, Sorts DEF items
  <2>2. items \in [1..n -> R] /\ Range(items) = R /\ \A i, j \in 1..n : i < j => key[items[i]] < key[items[j]]
    BY <2>1 DEF Increasing, n
  <2>3. \A i \in 1..n : items[i] \in R /\ key[items[i]] = resTicket[items[i]]
    BY <2>2 DEF BySeat
  <2> QED BY <2>2, <2>3
<1>4. T = [i \in 1..(2 * n) |-> IF i % 2 = 1 THEN <<"reservation", items[(i + 1) \div 2]>>
                                           ELSE <<"ticket", resTicket[items[(i + 1) \div 2]]>>]
  BY DEF ItemLocks, Row
<1> HIDE DEF n, items, key, T
<1>5. \A i \in 1..(2 * n) : (i + 1) \div 2 \in 1..n
  BY <1>2
<1>6. DOMAIN T = 1..(2 * n) /\ T \in Seq(({"reservation"} \X R) \cup ({"ticket"} \X Tickets)) /\ Len(T) = 2 * n
  <2>1. \A i \in 1..(2 * n) : T[i] \in ({"reservation"} \X R) \cup ({"ticket"} \X Tickets)
    BY <1>3, <1>4, <1>5
  <2>2. T \in [1..(2 * n) -> ({"reservation"} \X R) \cup ({"ticket"} \X Tickets)]
    BY <1>4, <2>1
  <2>3. 2 * n \in Nat
    BY <1>2
  <2> HIDE DEF T
  <2> QED BY <2>2, <2>3
<1>7. \A r \in R : Row("reservation", r) \in Range(T)
  <2> TAKE r \in R
  <2>1. PICK k \in 1..n : items[k] = r
    BY <1>3 DEF Range
  <2>2. 2 * k - 1 \in 1..(2 * n) /\ (2 * k - 1) % 2 = 1 /\ ((2 * k - 1) + 1) \div 2 = k
    BY <1>2
  <2>3. T[2 * k - 1] = Row("reservation", r)
    BY <1>4, <2>1, <2>2 DEF Row
  <2> QED BY <1>6, <2>2, <2>3 DEF Range
<1>8. \A i \in 1..(2 * n) : T[i][1] = "reservation" =>
         T[i][2] \in R /\ i < 2 * n /\ T[i + 1] = Row("ticket", resTicket[T[i][2]])
  <2> SUFFICES ASSUME NEW i \in 1..(2 * n), T[i][1] = "reservation"
               PROVE  T[i][2] \in R /\ i < 2 * n /\ T[i + 1] = Row("ticket", resTicket[T[i][2]])
    OBVIOUS
  <2>1. i % 2 = 1
    BY <1>4
  <2>2. T[i] = <<"reservation", items[(i + 1) \div 2]>>
    BY <1>4, <2>1
  <2>3. i < 2 * n /\ i + 1 \in 1..(2 * n) /\ (i + 1) % 2 # 1 /\ ((i + 1) + 1) \div 2 = (i + 1) \div 2
    BY <1>2, <2>1
  <2>4. T[i + 1] = <<"ticket", resTicket[items[(i + 1) \div 2]]>>
    BY <1>4, <2>3
  <2> QED BY <1>3, <1>5, <2>2, <2>3, <2>4 DEF Row
<1>9. \A i, j \in 1..(2 * n) : i < j /\ T[i][1] = "ticket" /\ T[j][1] = "ticket" => T[i][2] < T[j][2]
  <2> SUFFICES ASSUME NEW i \in 1..(2 * n), NEW j \in 1..(2 * n), i < j, T[i][1] = "ticket", T[j][1] = "ticket"
               PROVE  T[i][2] < T[j][2]
    OBVIOUS
  <2>1. i % 2 # 1 /\ j % 2 # 1
    BY <1>4
  <2>2. T[i][2] = resTicket[items[(i + 1) \div 2]] /\ T[j][2] = resTicket[items[(j + 1) \div 2]]
    BY <1>4, <2>1
  <2>3. (i + 1) \div 2 < (j + 1) \div 2
    BY <1>2, <2>1
  <2> QED BY <1>3, <1>5, <2>2, <2>3
<1> QED BY <1>6, <1>7, <1>8, <1>9 DEF T

-----------------------------------------------------------------------------
(***************************************************************************)
(* The rows.  What is proved of Booking is taken over as it stands, and the *)
(* operators of its two instances agree.                                   *)
(***************************************************************************)
Whole == INSTANCE MoneyProofs

(* An INSTANCE has its own copy of the operators of FiniteSets.            *)
LEMMA SameNumbers ==
    /\ \A S : Core!Cardinality(S) = Cardinality(S) /\ Whole!Cardinality(S) = Cardinality(S)
    /\ \A S : Core!IsFiniteSet(S) <=> IsFiniteSet(S)
    /\ \A S : Whole!IsFiniteSet(S) <=> IsFiniteSet(S)
<1>1. \A S : Core!Cardinality(S) = Cardinality(S)
  BY DEF Core!Cardinality, Cardinality, Core!IsFiniteSet, IsFiniteSet
<1>2. \A S : Whole!Cardinality(S) = Cardinality(S)
  BY DEF Whole!Cardinality, Cardinality, Whole!IsFiniteSet, IsFiniteSet
<1>3. \A S : Core!IsFiniteSet(S) <=> IsFiniteSet(S)
  BY DEF Core!IsFiniteSet, IsFiniteSet
<1>4. \A S : Whole!IsFiniteSet(S) <=> IsFiniteSet(S)
  BY DEF Whole!IsFiniteSet, IsFiniteSet
<1> QED BY <1>1, <1>2, <1>3, <1>4

LEMMA WholeAssumption == Whole!BookingAssumption /\ Whole!FiniteRows
BY CoreAssumption DEF Core!BookingAssumption, Whole!BookingAssumption, Core!FiniteRows, Whole!FiniteRows,
   Core!IsFiniteSet, Whole!IsFiniteSet

(* And of the sums of Booking.                                             *)
LEMMA SameSums == \A f, R : Core!SumOver(f, R) = Whole!SumOver(f, R)
BY DEF Core!SumOver, Whole!SumOver, Core!MapThenSumSet, Whole!MapThenSumSet, Core!MapThenFoldSet, Whole!MapThenFoldSet

(* What BookingProofs and MoneyProofs establish of the rows.               *)
CoreIInv == Whole!SeatIInv /\ Whole!OrderIInv /\ Whole!MoneyIInv

(* The two instances of Booking take the same steps.                       *)
LEMMA SameSteps == [Core!Next]_coreVars => [Whole!Next]_(Whole!vars)
BY DEF Core!Next, Core!UserStep, Core!Job, Core!Clock, Core!Reserve, Core!PayFailed, Core!PaySuccess, Core!Cancel,
       Core!SetReservationStatus, Core!ChangeTicket, Core!ExpireBatch, Core!ApiDeadline, Core!DbDeadline,
       Core!MatchStarts, Core!Reservations, Core!OrderOf, Core!Payments, Core!Methods, Core!HasStatus,
       Core!Pending, Core!Paid, Core!TicketsOf, Core!SumOver, Core!Total, Core!SuccessPayments, Core!Penalty,
       Core!Refundable, Core!SeatsToMove, Core!SetStatus, Core!Reservable, Core!Payable, Core!AmountDue,
       Core!InsertPayment, Core!CanAfford, Core!Charge, Core!StatusAfterCancel, Core!RefundOf,
       Core!PaymentsToClose, Core!Reviewable, Core!Replaceable, Core!Due, Core!ReleasedBy,
       Core!seatVars, Core!moneyVars, Core!timeVars, Core!MapThenSumSet, Core!MapThenFoldSet,
       Core!Cardinality, Core!IsFiniteSet, coreVars,
       Whole!Next, Whole!UserStep, Whole!Job, Whole!Clock, Whole!Reserve, Whole!PayFailed, Whole!PaySuccess, Whole!Cancel,
       Whole!SetReservationStatus, Whole!ChangeTicket, Whole!ExpireBatch, Whole!ApiDeadline, Whole!DbDeadline,
       Whole!MatchStarts, Whole!Reservations, Whole!OrderOf, Whole!Payments, Whole!Methods, Whole!HasStatus,
       Whole!Pending, Whole!Paid, Whole!TicketsOf, Whole!SumOver, Whole!Total, Whole!SuccessPayments, Whole!Penalty,
       Whole!Refundable, Whole!SeatsToMove, Whole!SetStatus, Whole!Reservable, Whole!Payable, Whole!AmountDue,
       Whole!InsertPayment, Whole!CanAfford, Whole!Charge, Whole!StatusAfterCancel, Whole!RefundOf,
       Whole!PaymentsToClose, Whole!Reviewable, Whole!Replaceable, Whole!Due, Whole!ReleasedBy,
       Whole!seatVars, Whole!moneyVars, Whole!timeVars, Whole!vars, Whole!MapThenSumSet, Whole!MapThenFoldSet,
       Whole!Cardinality, Whole!IsFiniteSet

(* What the proofs about Booking establish of the rows is kept by a step.  *)
LEMMA CoreIInvKept ==
    ASSUME CoreIInv, [Core!Next]_coreVars
    PROVE  CoreIInv'
<1> USE WholeAssumption DEF CoreIInv
<1>1. [Whole!Next]_(Whole!vars)
  BY SameSteps
<1>2. Whole!SeatTypeOK'
  BY <1>1, Whole!SeatTypesKept DEF Whole!SeatIInv
<1>3. Whole!BlankRows'
  BY <1>1, Whole!BlankRowsKept
<1>4. Whole!SeatInv'
  BY <1>1, Whole!SeatInvKept
<1>5. Whole!SeatIInv'
  BY <1>2, <1>3, <1>4 DEF Whole!SeatIInv
<1>6. Whole!OrderIInv'
  BY <1>1, <1>2, Whole!OrderIInvKept
<1>7. Whole!MoneyIInv'
  BY <1>1, <1>6, Whole!MoneyIInvKept
<1> QED BY <1>5, <1>6, <1>7

Pays == Orders \X (1..MaxAttempts)

(* The facts about the rows that the calls rely on.                        *)
RowTypes ==
    /\ ticketStatus \in [Tickets -> Core!TicketStatuses]
    /\ orderStatus \in [Orders -> Core!OrderStatuses]
    /\ orderUser \in [Orders -> Users \cup {"none"}]
    /\ resStatus \in [Res -> Core!ResStatuses]
    /\ resTicket \in [Res -> Tickets]
    /\ resPrice \in [Res -> Nat]
    /\ payStatus \in [Pays -> Core!PayStatuses]
    /\ payAmount \in [Pays -> Nat]
    /\ payMethod \in [Pays -> Core!Methods]
    /\ approved \in [Res -> 0..1]
    /\ refunded \in [Res -> Nat]
    /\ wallet \in [Users -> Nat]
    /\ apiDue \subseteq Orders /\ dbDue \subseteq Orders

Holds(r) == resStatus[r] \in {"pending", "paid"}

(* Who holds what, and which orders are open.                              *)
RowsAgree ==
    /\ \A r, s \in Res : Holds(r) /\ Holds(s) /\ resTicket[r] = resTicket[s] => r = s
    /\ \A r \in Res : /\ orderStatus[r[1]] = "none" => resStatus[r] = "none"
                      /\ resStatus[r] = "none" => resTicket[r] = r[2]
                      /\ resStatus[r] = "pending" => orderStatus[r[1]] = "pending"
    /\ \A o \in Orders : orderStatus[o] # "none" => orderUser[o] \in Users
    /\ \A p \in Pays : payStatus[p] = "success" => orderStatus[p[1]] # "pending"

LEMMA RowsAre ==
    ASSUME CoreIInv
    PROVE  RowTypes /\ RowsAgree
<1>1. RowTypes
  BY DEF CoreIInv, RowTypes, Res, Pays, Core!Methods, Core!TicketStatuses, Core!OrderStatuses, Core!ResStatuses,
         Core!PayStatuses, Whole!Methods, Whole!TicketStatuses, Whole!OrderStatuses, Whole!ResStatuses,
         Whole!PayStatuses, Whole!SeatIInv, Whole!SeatTypeOK, Whole!OrderIInv, Whole!ApprovedOnce,
         Whole!MoneyIInv, Whole!MoneyTypes, Whole!Reservations, Whole!Payments
<1>2. /\ \A r, s \in Res : Holds(r) /\ Holds(s) /\ resTicket[r] = resTicket[s] => r = s
      /\ \A r \in Res : /\ orderStatus[r[1]] = "none" => resStatus[r] = "none"
                        /\ resStatus[r] = "none" => resTicket[r] = r[2]
  BY DEF CoreIInv, Whole!SeatIInv, Whole!SeatInv, Whole!OneHolder, Whole!IsActive, Whole!BlankRows,
         Whole!Reservations, Whole!OrderOf, Res, Holds
<1>3. \A r \in Res : resStatus[r] = "pending" => orderStatus[r[1]] = "pending"
  BY DEF CoreIInv, Whole!OrderIInv, Whole!OrderAgrees, Whole!Some, Whole!Reservations, Whole!OrderOf, Res
<1>4. \A o \in Orders : orderStatus[o] # "none" => orderUser[o] \in Users
  BY DEF CoreIInv, Whole!MoneyIInv, Whole!Owned
<1>5. \A p \in Pays : payStatus[p] = "success" => orderStatus[p[1]] # "pending"
  <2>1. \A o \in Orders : Whole!OrderAgrees(o) /\ Whole!PaymentsAgree(o)
    BY DEF CoreIInv, Whole!OrderIInv
  <2>2. \A p \in Pays : p[1] \in Orders /\ p \in Whole!Payments
    BY DEF Pays, Whole!Payments
  <2> QED BY <2>1, <2>2 DEF Whole!OrderAgrees, Whole!PaymentsAgree
<1> QED BY <1>1, <1>2, <1>3, <1>4, <1>5 DEF RowsAgree

-----------------------------------------------------------------------------
(***************************************************************************)
(* What each call knows, by its request and its statement.                 *)
(***************************************************************************)
(* The locks there are, and the statements a call may be at.               *)
Locks ==
    ({"order", "payment"} \X Orders) \cup ({"reservation"} \X Res) \cup ({"ticket"} \X Tickets)
        \cup ({"user"} \X Users)

Stages == {"idle", "first", "seats", "items", "wallet", "refund", "reservation", "commit", "done"}

CallTypes ==
    /\ request = [c \in Calls |-> request[c]]
    /\ stage \in [Calls -> Stages]
    /\ todo \in [Calls -> Seq(Locks)]
    /\ held \in [Calls -> SUBSET Locks]
    /\ rows \in [Calls -> SUBSET Res]
    /\ writes = [c \in Calls |-> writes[c]]

(* The locks a statement has still to take, after those the call holds.    *)
Legal(T, H) ==
    /\ \A i \in DOMAIN T :
         /\ T[i][1] = "order" => i = 1 /\ H = {}
         /\ T[i][1] = "reservation" =>
              Row("order", T[i][2][1]) \in H \/ (i > 1 /\ T[1] = Row("order", T[i][2][1]))
         /\ T[i][1] = "payment" => Row("order", T[i][2]) \in H
         /\ T[i][1] = "ticket" => \A l \in H : l[1] = "ticket" => l[2] < T[i][2]
         /\ T[i][1] = "user" => i = Len(T)
    /\ \A i, j \in DOMAIN T : i < j /\ T[i][1] = "ticket" /\ T[j][1] = "ticket" => T[i][2] < T[j][2]
    /\ \A l \in H :
         /\ l[1] = "reservation" => Row("order", l[2][1]) \in H
         /\ l[1] = "payment" => Row("order", l[2]) \in H

(* The row of a user is the last that a call locks, but for reserve.       *)
UserLast(c) ==
    todo[c] # <<>> /\ (\E l \in held[c] : l[1] = "user") => request[c].op = "reserve" /\ stage[c] = "seats"

(* The locks a call holds or has still to take by its statement.           *)
Got(c) == held[c] \cup Range(todo[c])

(* A call that has not begun or is over.                                   *)
Resting(c) ==
    /\ stage[c] \in {"idle", "done"} /\ request[c] = NoRequest
    /\ todo[c] = <<>> /\ held[c] = {} /\ rows[c] = {} /\ writes[c] = NoWrites

ReserveKnows(c) ==
    LET q == request[c] IN
    /\ q.op = "reserve" /\ q.user \in Users /\ q.order \in Orders
    /\ q.seats \in SUBSET Tickets /\ q.seats # {} /\ Cardinality(q.seats) <= MaxPerOrder
    /\ orderStatus[q.order] = "none" /\ rows[c] = {}
    /\ \/ stage[c] = "first" /\ Got(c) = {Row("user", q.user)}
       \/ /\ stage[c] \in {"seats", "commit"}
          /\ Got(c) = {Row("user", q.user)} \cup ({"ticket"} \X q.seats)
          /\ stage[c] = "commit" =>
               /\ todo[c] = <<>>
               /\ \A t \in q.seats : Core!Reservable(t)
               /\ writes[c] = ReserveWrites(q)

(* What a statement over the items of some orders has read of the pending  *)
(* reservations R.                                                         *)
ItemsRead(c, R) ==
    /\ rows[c] \subseteq R
    /\ \A r \in R : r \in rows[c] \/ Row("reservation", r) \in Range(todo[c])
    /\ \A r \in rows[c] : Row("ticket", resTicket[r]) \in Got(c)
    /\ \A i \in DOMAIN todo[c] : todo[c][i][1] = "reservation" =>
         /\ todo[c][i][2] \in R /\ i < Len(todo[c])
         /\ todo[c][i + 1] = Row("ticket", resTicket[todo[c][i][2]])

NoMoneyLocks(c) == \A l \in Got(c) : l[1] \notin {"user", "payment"}

PayKnows(c) ==
    LET q == request[c]  o == q.order  R == Core!Pending(o) IN
    /\ q.op = "pay" /\ o \in Orders /\ q.method \in Core!Methods /\ q.succeeds \in BOOLEAN
    /\ \/ stage[c] = "first" /\ Got(c) = {Row("order", o)} /\ rows[c] = {}
       \/ /\ stage[c] \in {"items", "wallet", "commit"}
          /\ Row("order", o) \in held[c]
          /\ orderStatus[o] = "pending" /\ o \notin apiDue /\ Core!SuccessPayments(o) = {}
          /\ ItemsRead(c, R)
          /\ stage[c] = "items" => NoMoneyLocks(c)
          /\ stage[c] = "wallet" =>
               /\ q.method = "wallet" /\ q.succeeds /\ rows[c] # {}
               /\ Row("user", orderUser[o]) \in Got(c)
               /\ Range(todo[c]) \subseteq {Row("user", orderUser[o])}
          /\ stage[c] = "commit" =>
               /\ todo[c] = <<>> /\ rows[c] # {}
               /\ writes[c] = PayWrites(q, R)
               /\ q.succeeds /\ q.method = "wallet" =>
                    /\ Row("user", orderUser[o]) \in held[c]
                    /\ wallet[orderUser[o]] >= Core!Total(R)

(* What the join of an order, a reservation and its seat has locked, and   *)
(* whether the row fitted when the last of them was.                       *)
JoinRead(c, r) ==
    \E t \in Tickets :
        \/ /\ todo[c] = <<Row("order", r[1]), Row("reservation", r), Row("ticket", t)>>
           /\ held[c] = {} /\ rows[c] = {}
        \/ /\ todo[c] = <<Row("reservation", r), Row("ticket", t)>>
           /\ held[c] = {Row("order", r[1])} /\ rows[c] = {}
        \/ /\ \/ /\ todo[c] = <<Row("ticket", t)>>
                 /\ held[c] = {Row("order", r[1]), Row("reservation", r)}
              \/ /\ todo[c] = <<>>
                 /\ held[c] = {Row("order", r[1]), Row("reservation", r), Row("ticket", t)}
           /\ rows[c] = {} \/ (rows[c] = {r} /\ resTicket[r] = t)

HasSeat(c, r) == Row("order", r[1]) \in held[c] /\ Row("ticket", resTicket[r]) \in held[c]

CancelKnows(c) ==
    LET q == request[c]  r == q.res  o == r[1] IN
    /\ q.op = "cancel" /\ r \in Res /\ q.order = o /\ q.percent \in Percents
    /\ \/ stage[c] = "first" /\ JoinRead(c, r)
       \/ /\ stage[c] = "refund" /\ rows[c] = {r} /\ HasSeat(c, r)
          /\ resStatus[r] = "paid" /\ Core!SuccessPayments(o) # {}
          /\ Range(todo[c]) \subseteq {Row("payment", o), Row("user", orderUser[o])}
          /\ Row("user", orderUser[o]) \in Got(c)
       \/ /\ stage[c] = "commit" /\ todo[c] = <<>> /\ HasSeat(c, r)
          /\ resStatus[r] \in {"pending", "paid"}
          /\ MatchOf[resTicket[r]] \notin started
          /\ resStatus[r] = "paid" => Core!SuccessPayments(o) # {} /\ Row("user", orderUser[o]) \in held[c]
          /\ writes[c] = CancelWrites(q)

ReviewKnows(c) ==
    LET q == request[c]  r == q.res IN
    /\ q.op = "review" /\ r \in Res /\ q.order = r[1] /\ q.to \in {"paid", "expired"}
    /\ \/ stage[c] = "first" /\ JoinRead(c, r)
       \/ /\ stage[c] = "commit" /\ todo[c] = <<>> /\ HasSeat(c, r)
          /\ resStatus[r] = "pending" /\ q.to = "expired"
          /\ writes[c] = ReviewWrites(q)

ChangeKnows(c) ==
    LET q == request[c]  r == q.res  t == q.seat  o == r[1] IN
    /\ q.op = "change" /\ r \in Res /\ q.order = o /\ t \in Tickets
    /\ \/ stage[c] = "first" /\ Got(c) = {Row("order", o)}
       \/ /\ stage[c] \in {"reservation", "seats", "commit"}
          /\ Row("order", o) \in held[c] /\ orderStatus[o] = "pending" /\ o \notin apiDue
          /\ stage[c] = "reservation" => Got(c) = {Row("order", o), Row("reservation", r)}
          /\ stage[c] \in {"seats", "commit"} =>
               /\ resStatus[r] = "pending"
               /\ Got(c) = {Row("order", o), Row("reservation", r), Row("ticket", t), Row("ticket", resTicket[r])}
          /\ stage[c] = "commit" =>
               todo[c] = <<>> /\ Core!Replaceable(r, t) /\ writes[c] = ChangeWrites(q)

ExpireKnows(c) ==
    LET B == OrdersOf(held[c])  R == Core!ReleasedBy(B) IN
    /\ request[c].op = "expire"
    /\ \/ stage[c] = "first" /\ Got(c) = {} /\ rows[c] = {}
       \/ /\ stage[c] \in {"items", "commit"}
          /\ B \in SUBSET Core!Due /\ B # {} /\ Cardinality(B) <= BatchSize
          /\ ItemsRead(c, R)
          /\ NoMoneyLocks(c)
          /\ stage[c] = "commit" => todo[c] = <<>> /\ writes[c] = ExpireWrites(B, R)

Working(c) ==
    ReserveKnows(c) \/ PayKnows(c) \/ CancelKnows(c) \/ ReviewKnows(c) \/ ChangeKnows(c) \/ ExpireKnows(c)

(* What a call knows of the rows it has locked, at every statement.        *)
Knows(c) ==
    /\ Resting(c) \/ Working(c)
    /\ stage[c] # "commit" => writes[c] = NoWrites
    /\ \A o \in Orders : Row("order", o) \in Got(c) => orderStatus[o] # "none"

CallKept(c) == Legal(todo[c], held[c]) /\ UserLast(c) /\ Knows(c)

(* A row is locked by one call, or shared by calls that reserve.           *)
Exclusive == \A c, d \in Calls : c # d =>
    \A l \in held[c] \cap held[d] : Shared(c, l) /\ Shared(d, l)

(* Calls that reserve insert orders of their own, unused until they commit. *)
NewOrders ==
    \A c, d \in Calls : c # d /\ request[c].op = "reserve" /\ request[d].op = "reserve" =>
         request[c].order # request[d].order

(* The attempts of an order are numbered without gaps, and those under way *)
(* have a number left.                                                     *)
AttemptsOf(o) == {k \in 1..MaxAttempts : payStatus[<<o, k>>] # "none"}
PaysOf(o) == {c \in Calls : request[c].op = "pay" /\ request[c].order = o}
AttemptsNumbered ==
    \A o \in Orders : \E n \in 0..MaxAttempts : AttemptsOf(o) = 1..n
AttemptsLeft ==
    \A o \in Orders : Cardinality(AttemptsOf(o)) + Cardinality(PaysOf(o)) <= MaxAttempts

LockIInv ==
    /\ CallTypes
    /\ \A c \in Calls : CallKept(c)
    /\ Exclusive /\ NewOrders
    /\ AttemptsNumbered /\ AttemptsLeft

(* Locks in a queue.                                                       *)
LEMMA TakeHead ==
    ASSUME NEW S, NEW T \in Seq(S), T # <<>>
    PROVE  /\ Head(T) = T[1] /\ Head(T) \in S /\ Len(T) \in Nat \ {0} /\ DOMAIN T = 1..Len(T)
           /\ Tail(T) \in Seq(S) /\ Len(Tail(T)) = Len(T) - 1 /\ DOMAIN Tail(T) = 1..(Len(T) - 1)
           /\ \A i \in 1..(Len(T) - 1) : Tail(T)[i] = T[i + 1] /\ i + 1 \in 1..Len(T)
           /\ Range(T) = {Head(T)} \cup Range(Tail(T))
<1>1. /\ Head(T) = T[1] /\ Head(T) \in S /\ Len(T) \in Nat \ {0} /\ DOMAIN T = 1..Len(T)
      /\ Tail(T) \in Seq(S) /\ Len(Tail(T)) = Len(T) - 1 /\ DOMAIN Tail(T) = 1..(Len(T) - 1)
  OBVIOUS
<1>2. \A i \in 1..(Len(T) - 1) : Tail(T)[i] = T[i + 1] /\ i + 1 \in 1..Len(T)
  BY <1>1
<1>3. Range(T) = {Head(T)} \cup Range(Tail(T))
  <2>1. \A i \in 1..Len(T) : i = 1 \/ (i - 1 \in 1..(Len(T) - 1) /\ T[i] = Tail(T)[i - 1])
    BY <1>1, <1>2
  <2>2. Range(T) \subseteq {Head(T)} \cup Range(Tail(T))
    <3>1. \A i \in 1..Len(T) : T[i] = Head(T) \/ T[i] \in Range(Tail(T))
      <4> TAKE i \in 1..Len(T)
      <4>1. CASE i = 1
        BY <1>1, <4>1
      <4>2. CASE i - 1 \in 1..(Len(T) - 1) /\ T[i] = Tail(T)[i - 1]
        BY <1>1, <4>2 DEF Range
      <4> QED BY <2>1, <4>1, <4>2
    <3> QED BY <1>1, <3>1 DEF Range
  <2>3. {Head(T)} \cup Range(Tail(T)) \subseteq Range(T)
    BY <1>1, <1>2 DEF Range
  <2> QED BY <2>2, <2>3
<1> QED BY <1>1, <1>2, <1>3

(* Taking the next lock of a statement keeps the locks in order.           *)
LEMMA TakeLegal ==
    ASSUME NEW T \in Seq(Locks), NEW H \in SUBSET Locks, T # <<>>, Legal(T, H)
    PROVE  Legal(Tail(T), H \cup {Head(T)})
<1> DEFINE U == Tail(T)
           l == Head(T)
           n == Len(T)
<1>1. /\ l = T[1] /\ n \in Nat \ {0} /\ DOMAIN T = 1..n /\ DOMAIN U = 1..(n - 1) /\ Len(U) = n - 1
      /\ \A i \in 1..(n - 1) : U[i] = T[i + 1] /\ i + 1 \in 1..n
  BY TakeHead
<1> HIDE DEF U, l, n
<1>2. 1 \in 1..n
  BY <1>1
<1>3. ASSUME NEW i \in 1..(n - 1)
      PROVE  /\ U[i][1] = "order" => i = 1 /\ H \cup {l} = {}
             /\ U[i][1] = "reservation" => Row("order", U[i][2][1]) \in H \cup {l}
             /\ U[i][1] = "payment" => Row("order", U[i][2]) \in H \cup {l}
             /\ U[i][1] = "ticket" => \A x \in H \cup {l} : x[1] = "ticket" => x[2] < U[i][2]
             /\ U[i][1] = "user" => i = Len(U)
  <2>1. U[i] = T[i + 1] /\ i + 1 \in 1..n /\ 1 < i + 1 /\ i + 1 # 1
    BY <1>1
  <2>2. U[i][1] # "order"
    BY <1>1, <2>1 DEF Legal
  <2>3. U[i][1] = "reservation" => Row("order", U[i][2][1]) \in H \cup {l}
    BY <1>1, <2>1 DEF Legal
  <2>4. U[i][1] = "payment" => Row("order", U[i][2]) \in H
    BY <1>1, <2>1 DEF Legal
  <2>5. U[i][1] = "ticket" => \A x \in H \cup {l} : x[1] = "ticket" => x[2] < U[i][2]
    BY <1>1, <1>2, <2>1 DEF Legal
  <2>6. U[i][1] = "user" => i = Len(U)
    <3>1. U[i][1] = "user" => i + 1 = n
      BY <1>1, <2>1 DEF Legal, n
    <3> QED BY <1>1, <3>1
  <2> QED BY <2>2, <2>3, <2>4, <2>5, <2>6
<1>4. \A i, j \in 1..(n - 1) : i < j /\ U[i][1] = "ticket" /\ U[j][1] = "ticket" => U[i][2] < U[j][2]
  <2> SUFFICES ASSUME NEW i \in 1..(n - 1), NEW j \in 1..(n - 1), i < j, U[i][1] = "ticket", U[j][1] = "ticket"
               PROVE  U[i][2] < U[j][2]
    OBVIOUS
  <2>1. U[i] = T[i + 1] /\ i + 1 \in 1..n /\ U[j] = T[j + 1] /\ j + 1 \in 1..n /\ i + 1 < j + 1
    BY <1>1
  <2>2. \A a, b \in 1..n : a < b /\ T[a][1] = "ticket" /\ T[b][1] = "ticket" => T[a][2] < T[b][2]
    BY <1>1 DEF Legal
  <2>3. T[i + 1][1] = "ticket" /\ T[j + 1][1] = "ticket"
    BY <2>1
  <2>4. T[i + 1][2] < T[j + 1][2]
    BY <2>1, <2>2, <2>3
  <2> QED BY <2>1, <2>4
<1>5. \A x \in H \cup {l} :
         /\ x[1] = "reservation" => Row("order", x[2][1]) \in H \cup {l}
         /\ x[1] = "payment" => Row("order", x[2]) \in H \cup {l}
  BY <1>1, <1>2 DEF Legal
<1> QED BY <1>1, <1>3, <1>4, <1>5 DEF Legal, U, l

-----------------------------------------------------------------------------
(***************************************************************************)
(* A call that sleeps: what it knows stays true while others work, since   *)
(* they leave alone the rows it has locked.                                *)
(***************************************************************************)
(* The order under the hands of a call, and the rows it goes by.           *)
OwnOrder(d, o) ==
    Row("order", o) \in held[d] \/ (request[d].op = "reserve" /\ request[d].order = o)

SameOrder(o) ==
    /\ orderStatus'[o] = orderStatus[o] /\ orderUser'[o] = orderUser[o]
    /\ \A r \in Res : r[1] = o =>
         resStatus'[r] = resStatus[r] /\ resTicket'[r] = resTicket[r] /\ resPrice'[r] = resPrice[r]
    /\ \A p \in Pays : p[1] = o => payStatus'[p] = payStatus[p]

SameRows(d) ==
    /\ \A o \in Orders : OwnOrder(d, o) => SameOrder(o)
    /\ \A t \in Tickets : Row("ticket", t) \in held[d] => ticketStatus'[t] = ticketStatus[t]
    /\ \A u \in Users : Row("user", u) \in held[d] /\ request[d].op # "reserve" => wallet'[u] = wallet[u]
    /\ \A o \in Orders : orderStatus[o] # "none" => orderStatus'[o] # "none"
    /\ UNCHANGED <<apiDue, dbDue, started>>

(* A call nobody moves.                                                    *)
SameCall(d) ==
    /\ request'[d] = request[d] /\ stage'[d] = stage[d] /\ todo'[d] = todo[d]
    /\ held'[d] = held[d] /\ rows'[d] = rows[d] /\ writes'[d] = writes[d]

(* Prices and totals of rows that stay as they are.                        *)
LEMMA SameTotals ==
    ASSUME RowTypes, NEW R \in SUBSET Res, \A r \in R : resPrice'[r] = resPrice[r]
    PROVE  Core!Total(R)' = Core!Total(R)
<1>1. IsFiniteSet(Res)
  BY CoreAssumption, SameNumbers, FS_Product DEF Core!FiniteRows, Res
<1>2. IsFiniteSet(R)
  BY <1>1, FS_Subset
<1>3. Whole!SumOver(resPrice', R) = Whole!SumOver(resPrice, R)
  BY <1>2, SameNumbers, WholeAssumption, Whole!SumSame
<1> QED BY <1>3, SameSums DEF Core!Total

(* What is read of an order whose rows stay as they are.                   *)
LEMMA SameViews ==
    ASSUME RowTypes, NEW o \in Orders, SameOrder(o)
    PROVE  /\ Core!Pending(o)' = Core!Pending(o) /\ Core!Paid(o)' = Core!Paid(o)
           /\ Core!SuccessPayments(o)' = Core!SuccessPayments(o)
           /\ NextAttempt(o)' = NextAttempt(o)
<1>1. Core!Pending(o)' = Core!Pending(o) /\ Core!Paid(o)' = Core!Paid(o)
  BY DEF SameOrder, Core!Pending, Core!Paid, Core!HasStatus, Core!Reservations, Core!OrderOf, Res
<1>2. Core!SuccessPayments(o)' = Core!SuccessPayments(o)
  BY DEF SameOrder, Core!SuccessPayments, Core!Payments, Pays
<1>3. \A k \in 1..MaxAttempts : payStatus'[<<o, k>>] = payStatus[<<o, k>>]
  BY DEF SameOrder, Pays
<1>4. NextAttempt(o)' = NextAttempt(o)
  BY <1>3 DEF NextAttempt
<1> QED BY <1>1, <1>2, <1>4

LEMMA SameGot == ASSUME NEW d, SameCall(d) PROVE Got(d)' = Got(d)
BY DEF SameCall, Got

(* What a reserve knows stays true while it sleeps.                        *)
LEMMA ReserveSleeps ==
    ASSUME RowTypes, NEW d \in Calls, SameCall(d), SameRows(d), ReserveKnows(d)
    PROVE  ReserveKnows(d)'
<1> DEFINE q == request[d]
<1>1. q' = q /\ Got(d)' = Got(d) /\ stage'[d] = stage[d] /\ rows'[d] = rows[d] /\ todo'[d] = todo[d] /\ writes'[d] = writes[d]
  BY SameGot DEF SameCall
<1>2. orderStatus'[q.order] = "none"
  BY DEF SameRows, OwnOrder, SameOrder, ReserveKnows
<1>3. ASSUME stage[d] = "commit" PROVE \A t \in q.seats : Core!Reservable(t)'
  <2> TAKE t \in q.seats
  <2>1. t \in Tickets /\ Row("ticket", t) \in Got(d) /\ todo[d] = <<>> /\ Core!Reservable(t)
    BY <1>3 DEF ReserveKnows, Row
  <2>2. Row("ticket", t) \in held[d]
    BY <2>1 DEF Got, Range
  <2> QED BY <2>1, <2>2 DEF SameRows, Core!Reservable
<1>4. ReserveWrites(q)' = ReserveWrites(q)
  BY <1>1 DEF ReserveWrites
<1> QED BY <1>1, <1>2, <1>3, <1>4 DEF ReserveKnows

(* The items of orders that stay as they are.                              *)
LEMMA ItemsSleep ==
    ASSUME NEW d \in Calls, SameCall(d), NEW R \in SUBSET Res, ItemsRead(d, R),
           \A r \in R : resTicket'[r] = resTicket[r]
    PROVE  ItemsRead(d, R)'
<1>1. Got(d)' = Got(d) /\ rows'[d] = rows[d] /\ todo'[d] = todo[d]
  BY SameGot DEF SameCall
<1> QED BY <1>1 DEF ItemsRead

(* With every lock taken, all the reservations and their seats are held.   *)
LEMMA ItemsAllRead ==
    ASSUME NEW d \in Calls, NEW R, ItemsRead(d, R), todo[d] = <<>>
    PROVE  rows[d] = R /\ \A r \in R : Row("ticket", resTicket[r]) \in held[d]
<1>1. Range(todo[d]) = {}
  BY DEF Range
<1>2. rows[d] = R
  BY <1>1 DEF ItemsRead
<1> QED BY <1>1, <1>2 DEF ItemsRead, Got

(* What a payment will write stays what it was.                            *)
LEMMA PayWritesSame ==
    ASSUME RowTypes, NEW q, q.order \in Orders, SameOrder(q.order),
           NEW R \in SUBSET Res, R = Core!Pending(q.order),
           \A r \in R : ticketStatus'[resTicket[r]] = ticketStatus[resTicket[r]]
    PROVE  PayWrites(q, R)' = PayWrites(q, R)
<1> DEFINE o == q.order
<1>1. \A r \in R : r \in Res /\ r[1] = o /\ resTicket'[r] = resTicket[r] /\ resPrice'[r] = resPrice[r]
  BY DEF Core!Pending, Core!HasStatus, Core!Reservations, Core!OrderOf, Res, SameOrder
<1>2. Core!Total(R)' = Core!Total(R)
  BY <1>1, SameTotals
<1>3. Core!SeatsToMove(R)' = Core!SeatsToMove(R)
  BY <1>1 DEF Core!SeatsToMove, Core!TicketsOf
<1>4. Core!Pending(o)' = Core!Pending(o) /\ NextAttempt(o)' = NextAttempt(o)
  BY SameViews
<1>5. orderUser'[o] = orderUser[o]
  BY DEF SameOrder
<1> QED BY <1>2, <1>3, <1>4, <1>5 DEF PayWrites

(* What a payment knows stays true while it sleeps.                        *)
LEMMA PaySleeps ==
    ASSUME RowTypes, NEW d \in Calls, SameCall(d), SameRows(d), PayKnows(d),
           \A o \in Orders : orderStatus[o] # "none" => orderUser[o] \in Users
    PROVE  PayKnows(d)'
<1> DEFINE q == request[d]
           o == q.order
           R == Core!Pending(o)
<1>1. q' = q /\ Got(d)' = Got(d) /\ SameCall(d)
  BY SameGot DEF SameCall
<1>2. CASE stage[d] = "first"
  BY <1>1, <1>2 DEF PayKnows, SameCall
<1>3. CASE stage[d] # "first"
  <2>1. /\ o \in Orders /\ Row("order", o) \in held[d] /\ orderStatus[o] = "pending" /\ o \notin apiDue
        /\ Core!SuccessPayments(o) = {} /\ ItemsRead(d, R) /\ q.op = "pay"
    BY <1>3 DEF PayKnows
  <2>2. SameOrder(o)
    BY <2>1 DEF SameRows, OwnOrder
  <2>3. R' = R /\ Core!SuccessPayments(o)' = {}
    BY <1>1, <2>1, <2>2, SameViews
  <2>4. \A r \in R : r \in Res /\ r[1] = o /\ resTicket'[r] = resTicket[r] /\ resPrice'[r] = resPrice[r]
    BY <2>2 DEF Core!Pending, Core!HasStatus, Core!Reservations, Core!OrderOf, Res, SameOrder
  <2>5. ItemsRead(d, R)'
    <3> HIDE DEF R, o, q
    <3>1. R \in SUBSET Res
      BY <2>4
    <3>2. \A S : R' = R /\ S = R => (ItemsRead(d, S)' <=> ItemsRead(d, R)')
      OBVIOUS
    <3> QED BY <2>1, <2>3, <2>4, <3>1, <3>2, ItemsSleep
  <2>6. orderStatus'[o] = "pending" /\ orderUser'[o] = orderUser[o] /\ orderUser[o] \in Users /\ o \notin apiDue'
    BY <2>1, <2>2 DEF SameOrder, SameRows
  <2>7. stage[d] = "items" => NoMoneyLocks(d)'
    BY <1>1, <1>3 DEF PayKnows, NoMoneyLocks
  <2>8. ASSUME stage[d] = "commit"
        PROVE  /\ PayWrites(q, R)' = PayWrites(q, R) /\ Core!Total(R)' = Core!Total(R)
               /\ Row("user", orderUser[o]) \in held[d] => wallet'[orderUser[o]] = wallet[orderUser[o]]
    <3>0. todo[d] = <<>>
      BY <2>8 DEF PayKnows
    <3>1. \A r \in R : Row("ticket", resTicket[r]) \in held[d] /\ resTicket[r] \in Tickets
      BY <2>1, <2>4, <3>0, ItemsAllRead DEF RowTypes
    <3>2. \A r \in R : ticketStatus'[resTicket[r]] = ticketStatus[resTicket[r]]
      BY <3>1 DEF SameRows
    <3>3. Core!Total(R)' = Core!Total(R)
      BY <2>4, <2>3, SameTotals
    <3>4. PayWrites(q, R)' = PayWrites(q, R)
      BY <2>1, <2>2, <2>3, <2>4, <3>2, <1>1, PayWritesSame
    <3> QED BY <2>1, <2>6, <3>3, <3>4 DEF SameRows
  <2> QED BY <1>1, <1>3, <2>1, <2>3, <2>5, <2>6, <2>7, <2>8 DEF PayKnows, SameCall
<1> QED BY <1>2, <1>3

(* What the join of cancel and review has read stays so.                   *)
LEMMA JoinSleeps ==
    ASSUME NEW d \in Calls, SameCall(d), SameRows(d), NEW r \in Res, JoinRead(d, r)
    PROVE  JoinRead(d, r)'
<1>1. r[1] \in Orders
  BY DEF Res
<1>2. Row("order", r[1]) \in held[d] => resTicket'[r] = resTicket[r]
  BY <1>1 DEF SameRows, OwnOrder, SameOrder
<1>3. PICK t \in Tickets :
        \/ /\ todo[d] = <<Row("order", r[1]), Row("reservation", r), Row("ticket", t)>>
           /\ held[d] = {} /\ rows[d] = {}
        \/ /\ todo[d] = <<Row("reservation", r), Row("ticket", t)>>
           /\ held[d] = {Row("order", r[1])} /\ rows[d] = {}
        \/ /\ \/ /\ todo[d] = <<Row("ticket", t)>>
                 /\ held[d] = {Row("order", r[1]), Row("reservation", r)}
              \/ /\ todo[d] = <<>>
                 /\ held[d] = {Row("order", r[1]), Row("reservation", r), Row("ticket", t)}
           /\ rows[d] = {} \/ (rows[d] = {r} /\ resTicket[r] = t)
  BY DEF JoinRead
<1>4. \/ /\ todo'[d] = <<Row("order", r[1]), Row("reservation", r), Row("ticket", t)>>
         /\ held'[d] = {} /\ rows'[d] = {}
      \/ /\ todo'[d] = <<Row("reservation", r), Row("ticket", t)>>
         /\ held'[d] = {Row("order", r[1])} /\ rows'[d] = {}
      \/ /\ \/ /\ todo'[d] = <<Row("ticket", t)>>
               /\ held'[d] = {Row("order", r[1]), Row("reservation", r)}
            \/ /\ todo'[d] = <<>>
               /\ held'[d] = {Row("order", r[1]), Row("reservation", r), Row("ticket", t)}
         /\ rows'[d] = {} \/ (rows'[d] = {r} /\ resTicket'[r] = t)
  BY <1>2, <1>3 DEF SameCall
<1> QED BY <1>4 DEF JoinRead

(* What a cancellation will write stays what it was.                       *)
LEMMA CancelWritesSame ==
    ASSUME RowTypes, NEW q, q.res \in Res, SameOrder(q.res[1])
    PROVE  CancelWrites(q)' = CancelWrites(q)
<1> DEFINE r == q.res
           o == r[1]
<1>1. o \in Orders
  BY DEF Res
<1>2. /\ resStatus'[r] = resStatus[r] /\ resTicket'[r] = resTicket[r] /\ resPrice'[r] = resPrice[r]
      /\ orderUser'[o] = orderUser[o]
  BY DEF SameOrder
<1>3. /\ Core!Pending(o)' = Core!Pending(o) /\ Core!Paid(o)' = Core!Paid(o)
      /\ Core!SuccessPayments(o)' = Core!SuccessPayments(o)
  BY <1>1, SameViews
<1>4. Core!StatusAfterCancel(r)' = Core!StatusAfterCancel(r)
  BY <1>2, <1>3 DEF Core!StatusAfterCancel, Core!OrderOf
<1>5. Core!PaymentsToClose(r)' = Core!PaymentsToClose(r)
  BY <1>2, <1>3, <1>4 DEF Core!PaymentsToClose, Core!OrderOf
<1>6. Core!RefundOf(r, q.percent)' = Core!RefundOf(r, q.percent)
  BY <1>2 DEF Core!RefundOf, Core!Refundable, Core!Penalty
<1> QED BY <1>2, <1>4, <1>5, <1>6 DEF CancelWrites

(* What a cancellation, a review, a change of seat and the job know stays  *)
(* true while they sleep.                                                  *)
LEMMA CancelSleeps ==
    ASSUME RowTypes, NEW d \in Calls, SameCall(d), SameRows(d), CancelKnows(d)
    PROVE  CancelKnows(d)'
<1> DEFINE q == request[d]
           r == q.res
           o == r[1]
<1>1. /\ q' = q /\ Got(d)' = Got(d) /\ SameCall(d) /\ r \in Res /\ o \in Orders
      /\ q.op = "cancel" /\ q.order = o /\ q.percent \in Percents
  BY SameGot DEF SameCall, CancelKnows, Res
<1>2. CASE stage[d] = "first"
  <2>1. JoinRead(d, r)
    BY <1>2 DEF CancelKnows
  <2>2. JoinRead(d, r)'
    <3> HIDE DEF r
    <3>1. \A x : r' = r /\ x = r => (JoinRead(d, x)' <=> JoinRead(d, r)')
      OBVIOUS
    <3>2. r' = r
      BY <1>1 DEF r
    <3> QED BY <1>1, <2>1, <3>1, <3>2, JoinSleeps
  <2> QED BY <1>1, <1>2, <2>2 DEF CancelKnows, SameCall
<1>3. CASE stage[d] # "first"
  <2>1. HasSeat(d, r)
    BY <1>3 DEF CancelKnows
  <2>2. SameOrder(o)
    BY <1>1, <2>1 DEF SameRows, OwnOrder, HasSeat
  <2>3. /\ resStatus'[r] = resStatus[r] /\ resTicket'[r] = resTicket[r] /\ orderUser'[o] = orderUser[o]
    BY <1>1, <2>2 DEF SameOrder
  <2>4. Core!SuccessPayments(o)' = Core!SuccessPayments(o)
    BY <1>1, <2>2, SameViews
  <2>5. CancelWrites(q)' = CancelWrites(q)
    BY <1>1, <2>2, CancelWritesSame
  <2>6. HasSeat(d, r)' /\ started' = started
    BY <1>1, <2>1, <2>3 DEF HasSeat, SameCall, SameRows
  <2> QED BY <1>1, <1>3, <2>3, <2>4, <2>5, <2>6 DEF CancelKnows, SameCall
<1> QED BY <1>2, <1>3

LEMMA ReviewSleeps ==
    ASSUME RowTypes, NEW d \in Calls, SameCall(d), SameRows(d), ReviewKnows(d)
    PROVE  ReviewKnows(d)'
<1> DEFINE q == request[d]
           r == q.res
           o == r[1]
<1>1. /\ q' = q /\ SameCall(d) /\ r \in Res /\ o \in Orders
      /\ q.op = "review" /\ q.order = o /\ q.to \in {"paid", "expired"}
  BY DEF SameCall, ReviewKnows, Res
<1>2. CASE stage[d] = "first"
  <2>1. JoinRead(d, r)
    BY <1>2 DEF ReviewKnows
  <2>2. JoinRead(d, r)'
    <3> HIDE DEF r
    <3>1. \A x : r' = r /\ x = r => (JoinRead(d, x)' <=> JoinRead(d, r)')
      OBVIOUS
    <3>2. r' = r
      BY <1>1 DEF r
    <3> QED BY <1>1, <2>1, <3>1, <3>2, JoinSleeps
  <2> QED BY <1>1, <1>2, <2>2 DEF ReviewKnows, SameCall
<1>3. CASE stage[d] # "first"
  <2>1. HasSeat(d, r)
    BY <1>3 DEF ReviewKnows
  <2>2. SameOrder(o)
    BY <1>1, <2>1 DEF SameRows, OwnOrder, HasSeat
  <2>3. resStatus'[r] = resStatus[r] /\ resTicket'[r] = resTicket[r]
    BY <1>1, <2>2 DEF SameOrder
  <2>4. Core!Pending(o)' = Core!Pending(o) /\ Core!Paid(o)' = Core!Paid(o)
    BY <1>1, <2>2, SameViews
  <2>5. q.to = "expired"
    BY <1>3 DEF ReviewKnows
  <2>6. ReviewWrites(q)' = ReviewWrites(q)
    BY <1>1, <2>3, <2>4, <2>5 DEF ReviewWrites
  <2>7. HasSeat(d, r)'
    BY <1>1, <2>1, <2>3 DEF HasSeat, SameCall
  <2> QED BY <1>1, <1>3, <2>3, <2>6, <2>7 DEF ReviewKnows, SameCall
<1> QED BY <1>2, <1>3

LEMMA ChangeSleeps ==
    ASSUME RowTypes, NEW d \in Calls, SameCall(d), SameRows(d), ChangeKnows(d)
    PROVE  ChangeKnows(d)'
<1> DEFINE q == request[d]
           r == q.res
           t == q.seat
           o == r[1]
<1>1. /\ q' = q /\ Got(d)' = Got(d) /\ SameCall(d) /\ r \in Res /\ o \in Orders /\ t \in Tickets
      /\ q.op = "change" /\ q.order = o
  BY SameGot DEF SameCall, ChangeKnows, Res
<1>2. CASE stage[d] = "first"
  BY <1>1, <1>2 DEF ChangeKnows, SameCall
<1>3. CASE stage[d] # "first"
  <2>1. Row("order", o) \in held[d] /\ orderStatus[o] = "pending" /\ o \notin apiDue
    BY <1>3 DEF ChangeKnows
  <2>2. SameOrder(o)
    BY <1>1, <2>1 DEF SameRows, OwnOrder
  <2>3. /\ resStatus'[r] = resStatus[r] /\ resTicket'[r] = resTicket[r] /\ orderStatus'[o] = "pending"
        /\ apiDue' = apiDue
    BY <1>1, <2>1, <2>2 DEF SameOrder, SameRows
  <2>4. ASSUME stage[d] = "commit" PROVE Core!Replaceable(r, t)'
    <3>1. Core!Replaceable(r, t) /\ todo[d] = <<>> /\ resTicket[r] \in Tickets
      BY <1>1, <2>4 DEF ChangeKnows, RowTypes
    <3>2. Row("ticket", t) \in held[d] /\ Row("ticket", resTicket[r]) \in held[d]
      BY <2>4, <3>1 DEF ChangeKnows, Got, Range
    <3> QED BY <1>1, <2>3, <3>1, <3>2 DEF SameRows, Core!Replaceable
  <2>5. ChangeWrites(q)' = ChangeWrites(q)
    BY <1>1, <2>3 DEF ChangeWrites
  <2> QED BY <1>1, <1>3, <2>1, <2>3, <2>4, <2>5 DEF ChangeKnows, SameCall
<1> QED BY <1>2, <1>3

(* The orders the job has locked.                                          *)
LEMMA HeldOrders ==
    ASSUME NEW H \in SUBSET Locks
    PROVE  OrdersOf(H) = {o \in Orders : Row("order", o) \in H}
<1>1. ASSUME NEW o \in OrdersOf(H) PROVE o \in Orders /\ Row("order", o) \in H
  <2>1. PICK l \in H : l[1] = "order" /\ l[2] = o
    BY DEF OrdersOf
  <2>2. l \in {"order"} \X Orders
    BY <2>1 DEF Locks
  <2> QED BY <2>1, <2>2 DEF Row
<1>2. ASSUME NEW o \in Orders, Row("order", o) \in H PROVE o \in OrdersOf(H)
  BY <1>2 DEF OrdersOf, Row
<1> QED BY <1>1, <1>2

LEMMA ExpireSleeps ==
    ASSUME CallTypes, RowTypes, NEW d \in Calls, SameCall(d), SameRows(d), ExpireKnows(d)
    PROVE  ExpireKnows(d)'
<1> DEFINE B == OrdersOf(held[d])
           R == Core!ReleasedBy(B)
<1>1. B' = B /\ Got(d)' = Got(d) /\ SameCall(d) /\ request[d].op = "expire"
  BY SameGot DEF SameCall, ExpireKnows
<1>2. CASE stage[d] = "first"
  BY <1>1, <1>2 DEF ExpireKnows, SameCall
<1>3. CASE stage[d] # "first"
  <2>1. /\ stage[d] \in {"items", "commit"} /\ B \in SUBSET Core!Due /\ B # {} /\ Cardinality(B) <= BatchSize
        /\ ItemsRead(d, R) /\ NoMoneyLocks(d)
        /\ stage[d] = "commit" => todo[d] = <<>> /\ writes[d] = ExpireWrites(B, R)
    BY <1>3 DEF ExpireKnows
  <2>2. \A o \in B : o \in Orders /\ OwnOrder(d, o)
    <3>1. \A o \in B : o \in Orders
      BY <2>1 DEF Core!Due, RowTypes
    <3>2. \A o \in B : Row("order", o) \in held[d]
      BY HeldOrders DEF CallTypes
    <3> QED BY <3>1, <3>2 DEF OwnOrder
  <2>3. \A o \in B : SameOrder(o)
    BY <2>2 DEF SameRows
  <2>4. B \in SUBSET (Core!Due')
    BY <2>1, <2>2, <2>3 DEF Core!Due, SameOrder, SameRows
  <2>5. \A r \in R : r \in Res /\ r[1] \in B /\ resTicket'[r] = resTicket[r]
    BY <2>3 DEF Core!ReleasedBy, Core!Reservations, Core!OrderOf, Res, SameOrder
  <2>6. R' = R
    BY <1>1, <2>3 DEF Core!ReleasedBy, Core!Reservations, Core!OrderOf, Res, SameOrder
  <2>7. ItemsRead(d, R)'
    <3> HIDE DEF R, B
    <3>1. R \in SUBSET Res
      BY <2>5
    <3>2. \A S : R' = R /\ S = R => (ItemsRead(d, S)' <=> ItemsRead(d, R)')
      OBVIOUS
    <3> QED BY <2>1, <2>5, <2>6, <3>1, <3>2, ItemsSleep
  <2>8. ASSUME stage[d] = "commit" PROVE ExpireWrites(B, R)' = ExpireWrites(B, R)
    <3>1. \A r \in R : Row("ticket", resTicket[r]) \in held[d] /\ resTicket[r] \in Tickets
      BY <2>1, <2>5, <2>8, ItemsAllRead DEF RowTypes
    <3>2. \A r \in R : ticketStatus'[resTicket[r]] = ticketStatus[resTicket[r]]
      BY <3>1 DEF SameRows
    <3>3. Core!SeatsToMove(R)' = Core!SeatsToMove(R)
      BY <2>5, <2>6, <3>2 DEF Core!SeatsToMove, Core!TicketsOf
    <3> QED BY <1>1, <2>6, <3>3 DEF ExpireWrites
  <2>9. NoMoneyLocks(d)'
    BY <1>1, <2>1 DEF NoMoneyLocks
  <2> QED BY <1>1, <2>1, <2>4, <2>7, <2>8, <2>9 DEF ExpireKnows, SameCall
<1> QED BY <1>2, <1>3

LEMMA CallSleeps ==
    ASSUME CallTypes, RowTypes, RowsAgree, NEW d \in Calls, SameCall(d), SameRows(d), CallKept(d)
    PROVE  CallKept(d)'
<1>1. Got(d)' = Got(d)
  BY SameGot
<1>2. Legal(todo[d], held[d])' /\ UserLast(d)'
  BY DEF CallKept, Legal, UserLast, SameCall
<1>3. Resting(d) => Resting(d)'
  BY DEF Resting, SameCall
<1>4. Working(d) => Working(d)'
  BY ReserveSleeps, PaySleeps, CancelSleeps, ReviewSleeps, ChangeSleeps, ExpireSleeps DEF Working, RowsAgree
<1>5. \A o \in Orders : Row("order", o) \in Got(d)' => orderStatus'[o] # "none"
  BY <1>1 DEF CallKept, Knows, SameRows
<1>6. stage'[d] # "commit" => writes'[d] = NoWrites
  BY DEF CallKept, Knows, SameCall
<1> QED BY <1>2, <1>3, <1>4, <1>5, <1>6 DEF CallKept, Knows

-----------------------------------------------------------------------------
(***************************************************************************)
(* A call that commits changes only rows it has locked, or its new order.  *)
(***************************************************************************)
(* The rows a commit changes are rows its call has locked.                 *)
WithinLocks(c) ==
    LET w == writes[c] IN
    /\ \A o \in Orders : o \in DOMAIN w.order \cup DOMAIN w.owner => OwnOrder(c, o)
    /\ \A o \in Orders : o \in DOMAIN w.order => w.order[o] # "none"
    /\ \A r \in Res : r \in DOMAIN w.res \cup DOMAIN w.move \cup DOMAIN w.price => OwnOrder(c, r[1])
    /\ \A p \in Pays : p \in DOMAIN w.pay \cup w.close => OwnOrder(c, p[1])
    /\ \A t \in Tickets : t \in DOMAIN w.seat => Row("ticket", t) \in held[c]
    /\ \A u \in Users : u \in DOMAIN w.gain =>
         w.gain[u] = 0 \/ (Row("user", u) \in held[c] /\ request[c].op # "reserve")

(* What each kind of call writes, column by column.                        *)
ReserveColumns(q, w) ==
    /\ w.order = All({q.order}, "pending") /\ w.owner = All({q.order}, q.user)
    /\ w.res = All({q.order} \X q.seats, "pending")
    /\ w.price = [r \in {q.order} \X q.seats |-> Price[r[2]]]
    /\ w.seat = All(q.seats, "reserved")
    /\ w.move = Nothing /\ w.pay = Nothing /\ w.refund = Nothing /\ w.gain = Nothing /\ w.close = {}

LEMMA ReserveWrote ==
    ASSUME NEW q
    PROVE  ReserveColumns(q, ReserveWrites(q))
BY DEF ReserveColumns, ReserveWrites, NoWrites

PayColumns(q, R, w) ==
    /\ w.pay = All({NextAttempt(q.order)}, [amount |-> Core!Total(R), method |-> q.method,
                                            status |-> IF q.succeeds THEN "success" ELSE "failed"])
    /\ w.order = IF q.succeeds THEN All({q.order}, "paid") ELSE Nothing
    /\ w.res = IF q.succeeds THEN All(Core!Pending(q.order), "paid") ELSE Nothing
    /\ w.seat = IF q.succeeds THEN All(Core!SeatsToMove(R), "sold") ELSE Nothing
    /\ w.gain = IF q.succeeds /\ q.method = "wallet"
                THEN All({orderUser[q.order]}, 0 - Core!Total(R)) ELSE Nothing
    /\ w.owner = Nothing /\ w.move = Nothing /\ w.price = Nothing /\ w.refund = Nothing /\ w.close = {}

LEMMA PayWrote ==
    ASSUME NEW q, NEW R
    PROVE  PayColumns(q, R, PayWrites(q, R))
<1>1. CASE q.succeeds
  BY <1>1 DEF PayColumns, PayWrites, NoWrites
<1>2. CASE ~q.succeeds
  BY <1>2 DEF PayColumns, PayWrites, NoWrites
<1> QED BY <1>1, <1>2

CancelColumns(q, w) ==
    /\ w.res = All({q.res}, "cancelled") /\ w.seat = All({resTicket[q.res]}, "available")
    /\ w.order = All({q.res[1]}, Core!StatusAfterCancel(q.res))
    /\ w.refund = All({q.res}, Core!RefundOf(q.res, q.percent))
    /\ w.gain = All({orderUser[q.res[1]]}, Core!RefundOf(q.res, q.percent))
    /\ w.close = Core!PaymentsToClose(q.res)
    /\ w.owner = Nothing /\ w.move = Nothing /\ w.price = Nothing /\ w.pay = Nothing

LEMMA CancelWrote ==
    ASSUME NEW q
    PROVE  CancelColumns(q, CancelWrites(q))
BY DEF CancelColumns, CancelWrites, NoWrites

ReviewColumns(q, w) ==
    /\ w.res = All({q.res}, "expired") /\ w.seat = All({resTicket[q.res]}, "available")
    /\ w.order = IF (Core!Pending(q.res[1]) \cup Core!Paid(q.res[1])) \ {q.res} = {}
                 THEN All({q.res[1]}, "expired") ELSE Nothing
    /\ w.owner = Nothing /\ w.move = Nothing /\ w.price = Nothing /\ w.pay = Nothing
    /\ w.refund = Nothing /\ w.gain = Nothing /\ w.close = {}

LEMMA ReviewWrote ==
    ASSUME NEW q, q.to # "paid"
    PROVE  ReviewColumns(q, ReviewWrites(q))
BY DEF ReviewColumns, ReviewWrites, NoWrites

ChangeColumns(q, w) ==
    /\ w.seat = [x \in {q.seat, resTicket[q.res]} |-> IF x = q.seat THEN "reserved" ELSE "available"]
    /\ w.move = All({q.res}, q.seat) /\ w.price = All({q.res}, Price[q.seat])
    /\ w.order = Nothing /\ w.owner = Nothing /\ w.res = Nothing /\ w.pay = Nothing
    /\ w.refund = Nothing /\ w.gain = Nothing /\ w.close = {}

LEMMA ChangeWrote ==
    ASSUME NEW q
    PROVE  ChangeColumns(q, ChangeWrites(q))
BY DEF ChangeColumns, ChangeWrites, NoWrites

ExpireColumns(B, R, w) ==
    /\ w.order = All(B, "expired") /\ w.res = All(Core!ReleasedBy(B), "expired")
    /\ w.seat = All(Core!SeatsToMove(R), "available")
    /\ w.owner = Nothing /\ w.move = Nothing /\ w.price = Nothing /\ w.pay = Nothing
    /\ w.refund = Nothing /\ w.gain = Nothing /\ w.close = {}

LEMMA ExpireWrote ==
    ASSUME NEW B, NEW R
    PROVE  ExpireColumns(B, R, ExpireWrites(B, R))
BY DEF ExpireColumns, ExpireWrites, NoWrites

LEMMA AllIs == \A S, v : DOMAIN All(S, v) = S /\ \A x \in S : All(S, v)[x] = v
BY DEF All

LEMMA NothingIs == DOMAIN Nothing = {}
BY DEF Nothing

(* Each kind of call writes within its locks.                              *)
LEMMA ReserveWithin ==
    ASSUME NEW c \in Calls, stage[c] = "commit", ReserveKnows(c)
    PROVE  WithinLocks(c)
<1> DEFINE q == request[c]
           w == writes[c]
<1>1. /\ q.op = "reserve" /\ q.seats \subseteq Tickets /\ todo[c] = <<>> /\ w = ReserveWrites(q)
      /\ Got(c) = {Row("user", q.user)} \cup ({"ticket"} \X q.seats)
  BY DEF ReserveKnows
<1>2. \A t \in q.seats : Row("ticket", t) \in held[c]
  <2>1. held[c] = Got(c)
    BY <1>1 DEF Got, Range
  <2> QED BY <1>1, <2>1 DEF Row
<1>3. /\ DOMAIN w.order = {q.order} /\ DOMAIN w.owner = {q.order} /\ w.order[q.order] = "pending"
      /\ DOMAIN w.res = {q.order} \X q.seats /\ DOMAIN w.price = {q.order} \X q.seats /\ DOMAIN w.move = {}
      /\ DOMAIN w.pay = {} /\ w.close = {} /\ DOMAIN w.seat = q.seats /\ DOMAIN w.gain = {}
  <2>1. ReserveColumns(q, w)
    BY <1>1, ReserveWrote
  <2> HIDE DEF w, q
  <2> QED BY <1>1, <2>1, AllIs, NothingIs DEF ReserveColumns
<1>4. OwnOrder(c, q.order)
  BY <1>1 DEF OwnOrder
<1> QED BY <1>2, <1>3, <1>4 DEF WithinLocks

LEMMA PayWithin ==
    ASSUME RowTypes, NEW c \in Calls, stage[c] = "commit", PayKnows(c)
    PROVE  WithinLocks(c)
<1> DEFINE q == request[c]
           w == writes[c]
           o == q.order
           R == Core!Pending(o)
<1>1. /\ q.op = "pay" /\ o \in Orders /\ OwnOrder(c, o) /\ todo[c] = <<>> /\ w = PayWrites(q, R) /\ ItemsRead(c, R)
      /\ q.succeeds /\ q.method = "wallet" => Row("user", orderUser[o]) \in held[c]
  BY DEF PayKnows, OwnOrder
<1>2. \A r \in R : Row("ticket", resTicket[r]) \in held[c]
  BY <1>1, ItemsAllRead
<1>3. \A r \in R : r[1] = o
  BY DEF Core!Pending, Core!HasStatus, Core!OrderOf
<1>4. \A t \in Core!SeatsToMove(R) : Row("ticket", t) \in held[c]
  BY <1>2 DEF Core!SeatsToMove, Core!TicketsOf
<1>5. NextAttempt(o)[1] = o
  BY DEF NextAttempt
<1>6. /\ DOMAIN w.order \subseteq {o} /\ \A x \in DOMAIN w.order : w.order[x] = "paid"
      /\ DOMAIN w.owner = {} /\ DOMAIN w.res \subseteq R /\ DOMAIN w.price = {} /\ DOMAIN w.move = {}
      /\ DOMAIN w.pay = {NextAttempt(o)} /\ w.close = {} /\ DOMAIN w.seat \subseteq Core!SeatsToMove(R)
      /\ \A u \in DOMAIN w.gain : u = orderUser[o] /\ q.succeeds /\ q.method = "wallet"
  <2>1. PayColumns(q, R, w)
    BY <1>1, PayWrote
  <2> HIDE DEF w, q
  <2> QED BY <1>1, <2>1, AllIs, NothingIs DEF PayColumns
<1> QED BY <1>1, <1>3, <1>4, <1>5, <1>6 DEF WithinLocks

LEMMA CancelWithin ==
    ASSUME RowTypes, NEW c \in Calls, stage[c] = "commit", CancelKnows(c)
    PROVE  WithinLocks(c)
<1> DEFINE q == request[c]
           w == writes[c]
           r == q.res
           o == r[1]
<1>1. /\ q.op = "cancel" /\ r \in Res /\ OwnOrder(c, o) /\ w = CancelWrites(q)
      /\ Row("ticket", resTicket[r]) \in held[c]
      /\ resStatus[r] = "paid" => Row("user", orderUser[o]) \in held[c]
  BY DEF CancelKnows, HasSeat, OwnOrder
<1>2. Core!StatusAfterCancel(r) # "none"
  BY DEF Core!StatusAfterCancel
<1>3. \A p \in Core!PaymentsToClose(r) : p[1] = o
  BY DEF Core!PaymentsToClose, Core!SuccessPayments, Core!OrderOf
<1>4. resStatus[r] # "paid" => Core!RefundOf(r, q.percent) = 0
  BY DEF Core!RefundOf
<1>5. /\ DOMAIN w.order = {o} /\ w.order[o] # "none" /\ DOMAIN w.owner = {} /\ DOMAIN w.res = {r}
      /\ DOMAIN w.price = {} /\ DOMAIN w.move = {} /\ DOMAIN w.pay = {}
      /\ w.close = Core!PaymentsToClose(r) /\ DOMAIN w.seat = {resTicket[r]}
      /\ DOMAIN w.gain = {orderUser[o]} /\ (resStatus[r] # "paid" => w.gain[orderUser[o]] = 0)
  <2>1. CancelColumns(q, w)
    BY <1>1, CancelWrote
  <2> HIDE DEF w, q
  <2> QED BY <1>1, <1>2, <1>4, <2>1, AllIs, NothingIs DEF CancelColumns
<1> QED BY <1>1, <1>3, <1>5 DEF WithinLocks

LEMMA ReviewWithin ==
    ASSUME RowTypes, NEW c \in Calls, stage[c] = "commit", ReviewKnows(c)
    PROVE  WithinLocks(c)
<1> DEFINE q == request[c]
           w == writes[c]
           r == q.res
           o == r[1]
<1>1. /\ q.to # "paid" /\ r \in Res /\ OwnOrder(c, o) /\ w = ReviewWrites(q)
      /\ Row("ticket", resTicket[r]) \in held[c]
  BY DEF ReviewKnows, HasSeat, OwnOrder
<1>2. /\ DOMAIN w.order \subseteq {o} /\ \A x \in DOMAIN w.order : w.order[x] = "expired"
      /\ DOMAIN w.owner = {} /\ DOMAIN w.res = {r} /\ DOMAIN w.price = {} /\ DOMAIN w.move = {} /\ DOMAIN w.pay = {}
      /\ w.close = {} /\ DOMAIN w.seat = {resTicket[r]} /\ DOMAIN w.gain = {}
  <2>1. ReviewColumns(q, w)
    BY <1>1, ReviewWrote
  <2> HIDE DEF w, q
  <2> QED BY <1>1, <2>1, AllIs, NothingIs DEF ReviewColumns
<1> QED BY <1>1, <1>2 DEF WithinLocks

LEMMA ChangeWithin ==
    ASSUME RowTypes, NEW c \in Calls, stage[c] = "commit", ChangeKnows(c)
    PROVE  WithinLocks(c)
<1> DEFINE q == request[c]
           w == writes[c]
           r == q.res
           o == r[1]
<1>1. /\ r \in Res /\ OwnOrder(c, o) /\ w = ChangeWrites(q) /\ todo[c] = <<>>
      /\ Got(c) = {Row("order", o), Row("reservation", r), Row("ticket", q.seat), Row("ticket", resTicket[r])}
  BY DEF ChangeKnows, OwnOrder
<1>2. Row("ticket", q.seat) \in held[c] /\ Row("ticket", resTicket[r]) \in held[c]
  BY <1>1 DEF Got, Range
<1>3. /\ DOMAIN w.order = {} /\ DOMAIN w.owner = {} /\ DOMAIN w.res = {} /\ DOMAIN w.price = {r} /\ DOMAIN w.move = {r}
      /\ DOMAIN w.pay = {} /\ w.close = {} /\ DOMAIN w.seat = {q.seat, resTicket[r]} /\ DOMAIN w.gain = {}
  <2>1. ChangeColumns(q, w)
    BY <1>1, ChangeWrote
  <2> HIDE DEF w, q
  <2> QED BY <1>1, <2>1, AllIs, NothingIs DEF ChangeColumns
<1> QED BY <1>1, <1>2, <1>3 DEF WithinLocks

LEMMA ExpireWithin ==
    ASSUME CallTypes, RowTypes, NEW c \in Calls, stage[c] = "commit", ExpireKnows(c)
    PROVE  WithinLocks(c)
<1> DEFINE B == OrdersOf(held[c])
           w == writes[c]
           R == Core!ReleasedBy(B)
<1>1. w = ExpireWrites(B, R) /\ todo[c] = <<>> /\ ItemsRead(c, R)
  BY DEF ExpireKnows
<1>2. \A o \in B : OwnOrder(c, o)
  BY HeldOrders DEF OwnOrder, CallTypes
<1>3. \A r \in R : Row("ticket", resTicket[r]) \in held[c]
  BY <1>1, ItemsAllRead
<1>4. \A t \in Core!SeatsToMove(R) : Row("ticket", t) \in held[c]
  BY <1>3 DEF Core!SeatsToMove, Core!TicketsOf
<1>5. \A r \in R : r[1] \in B
  BY DEF Core!ReleasedBy, Core!OrderOf
<1>6. /\ DOMAIN w.order = B /\ \A x \in DOMAIN w.order : w.order[x] = "expired"
      /\ DOMAIN w.owner = {} /\ DOMAIN w.res = R /\ DOMAIN w.price = {} /\ DOMAIN w.move = {} /\ DOMAIN w.pay = {}
      /\ w.close = {} /\ DOMAIN w.seat = Core!SeatsToMove(R) /\ DOMAIN w.gain = {}
  <2>1. ExpireColumns(B, R, w)
    BY <1>1, ExpireWrote
  <2> HIDE DEF w, B
  <2> QED BY <1>1, <2>1, AllIs, NothingIs DEF ExpireColumns
<1> QED BY <1>2, <1>4, <1>5, <1>6 DEF WithinLocks

LEMMA CommitWithinLocks ==
    ASSUME CallTypes, RowTypes, NEW c \in Calls, stage[c] = "commit", CallKept(c)
    PROVE  WithinLocks(c)
BY ReserveWithin, PayWithin, CancelWithin, ReviewWithin, ChangeWithin, ExpireWithin
   DEF CallKept, Knows, Working, Resting

(* No order is under the hands of two calls.                               *)
LEMMA OwnApart ==
    ASSUME Exclusive, NewOrders, NEW c \in Calls, NEW d \in Calls, c # d, CallKept(c), CallKept(d),
           NEW o \in Orders, OwnOrder(c, o)
    PROVE  ~OwnOrder(d, o)
<1>1. ASSUME NEW x \in {c, d}, Row("order", o) \in held[x] PROVE orderStatus[o] # "none"
  BY <1>1 DEF CallKept, Knows, Got
<1>2. ASSUME NEW x \in {c, d}, request[x].op = "reserve", request[x].order = o PROVE orderStatus[o] = "none"
  <2>1. request[x] # NoRequest
    BY <1>2 DEF NoRequest
  <2>2. ReserveKnows(x)
    BY <1>2, <2>1 DEF CallKept, Knows, Resting, Working, PayKnows, CancelKnows, ReviewKnows, ChangeKnows, ExpireKnows
  <2> QED BY <1>2, <2>2 DEF ReserveKnows
<1>3. ASSUME Row("order", o) \in held[c], Row("order", o) \in held[d] PROVE FALSE
  BY <1>3 DEF Exclusive, Shared, Row
<1>4. ASSUME request[c].op = "reserve", request[d].op = "reserve" PROVE request[c].order # request[d].order
  BY <1>4 DEF NewOrders
<1> QED BY <1>1, <1>2, <1>3, <1>4 DEF OwnOrder

(* A commit leaves alone what any other call has locked.                   *)
LEMMA CommitSpares ==
    ASSUME CallTypes, RowTypes, Exclusive, NewOrders, NEW c \in Calls, NEW d \in Calls, c # d,
           CallKept(c), CallKept(d), Commit(c)
    PROVE  SameRows(d)
<1> DEFINE w == writes[c]
<1>1. WithinLocks(c) /\ Apply(w)
  BY CommitWithinLocks DEF Commit
<1>2. \A o \in Orders : OwnOrder(d, o) => ~OwnOrder(c, o)
  BY OwnApart
<1> HIDE DEF w
<1>3. ASSUME NEW o \in Orders, OwnOrder(d, o) PROVE SameOrder(o)
  <2>1. o \notin DOMAIN w.order /\ o \notin DOMAIN w.owner
    BY <1>1, <1>2, <1>3 DEF WithinLocks, w
  <2>2. \A r \in Res : r[1] = o => r \notin DOMAIN w.res /\ r \notin DOMAIN w.move /\ r \notin DOMAIN w.price
    BY <1>1, <1>2, <1>3 DEF WithinLocks, w
  <2>3. \A p \in Pays : p[1] = o => p \notin DOMAIN w.pay /\ p \notin w.close
    BY <1>1, <1>2, <1>3 DEF WithinLocks, w
  <2>4. orderStatus'[o] = orderStatus[o] /\ orderUser'[o] = orderUser[o]
    BY <1>1, <2>1 DEF Apply, RowTypes
  <2>5. \A r \in Res : r[1] = o =>
          resStatus'[r] = resStatus[r] /\ resTicket'[r] = resTicket[r] /\ resPrice'[r] = resPrice[r]
    BY <1>1, <2>2 DEF Apply, RowTypes
  <2>6. \A p \in Pays : p[1] = o => payStatus'[p] = payStatus[p]
    BY <1>1, <2>3 DEF Apply, RowTypes
  <2> QED BY <2>4, <2>5, <2>6 DEF SameOrder
<1>4. ASSUME NEW t \in Tickets, Row("ticket", t) \in held[d] PROVE ticketStatus'[t] = ticketStatus[t]
  <2>1. Row("ticket", t) \notin held[c]
    BY <1>4 DEF Exclusive, Shared, Row
  <2>2. t \notin DOMAIN w.seat
    BY <1>1, <2>1 DEF WithinLocks, w
  <2> QED BY <1>1, <2>2 DEF Apply, RowTypes
<1>5. ASSUME NEW u \in Users, Row("user", u) \in held[d], request[d].op # "reserve" PROVE wallet'[u] = wallet[u]
  <2>1. Row("user", u) \notin held[c]
    BY <1>5 DEF Exclusive, Shared
  <2>2. u \in DOMAIN w.gain => w.gain[u] = 0
    BY <1>1, <2>1 DEF WithinLocks, w
  <2>3. wallet[u] + 0 = wallet[u]
    BY DEF RowTypes
  <2> QED BY <1>1, <2>2, <2>3 DEF Apply
<1>6. \A o \in Orders : orderStatus[o] # "none" => orderStatus'[o] # "none"
  <2> TAKE o \in Orders
  <2>1. orderStatus'[o] = IF o \in DOMAIN w.order THEN w.order[o] ELSE orderStatus[o]
    BY <1>1 DEF Apply, RowTypes
  <2>2. o \in DOMAIN w.order => w.order[o] # "none"
    BY <1>1 DEF WithinLocks, w
  <2> QED BY <2>1, <2>2
<1> QED BY <1>3, <1>4, <1>5, <1>6 DEF SameRows, Commit

-----------------------------------------------------------------------------
(***************************************************************************)
(* COMMIT is the step of Booking: what the call decided is still true.     *)
(***************************************************************************)
(* A column no write is about stays as it is.                              *)
LEMMA ApplySame ==
    ASSUME RowTypes, NEW w, Apply(w)
    PROVE  /\ w.order = Nothing => orderStatus' = orderStatus
           /\ w.owner = Nothing => orderUser' = orderUser
           /\ w.res = Nothing => resStatus' = resStatus
           /\ w.move = Nothing => resTicket' = resTicket
           /\ w.price = Nothing => resPrice' = resPrice
           /\ w.seat = Nothing => ticketStatus' = ticketStatus
           /\ w.pay = Nothing => payAmount' = payAmount /\ payMethod' = payMethod
           /\ w.pay = Nothing /\ w.close = {} => payStatus' = payStatus
           /\ w.refund = Nothing => approved' = approved /\ refunded' = refunded
           /\ w.gain = Nothing => wallet' = wallet
<1>1. w.order = Nothing => orderStatus' = orderStatus
  BY DEF RowTypes, Apply, Nothing
<1>2. w.owner = Nothing => orderUser' = orderUser
  BY DEF RowTypes, Apply, Nothing
<1>3. w.res = Nothing => resStatus' = resStatus
  BY DEF RowTypes, Apply, Nothing
<1>4. w.move = Nothing => resTicket' = resTicket
  BY DEF RowTypes, Apply, Nothing
<1>5. w.price = Nothing => resPrice' = resPrice
  BY DEF RowTypes, Apply, Nothing
<1>6. w.seat = Nothing => ticketStatus' = ticketStatus
  BY DEF RowTypes, Apply, Nothing
<1>7. w.pay = Nothing => payAmount' = payAmount /\ payMethod' = payMethod
  BY DEF RowTypes, Apply, Nothing
<1>8. w.pay = Nothing /\ w.close = {} => payStatus' = payStatus
  BY DEF RowTypes, Apply, Nothing
<1>9. ASSUME w.refund = Nothing PROVE approved' = approved /\ refunded' = refunded
  <2>1. \A r \in Res : approved[r] + 0 = approved[r] /\ refunded[r] + 0 = refunded[r]
    BY DEF RowTypes
  <2>2. DOMAIN approved = Res /\ DOMAIN refunded = Res /\ DOMAIN w.refund = {}
    BY <1>9 DEF RowTypes, Nothing
  <2>3. approved' = [r \in Res |-> approved[r]] /\ refunded' = [r \in Res |-> refunded[r]]
    BY <2>1, <2>2 DEF Apply
  <2> QED BY <2>3 DEF RowTypes
<1>10. ASSUME w.gain = Nothing PROVE wallet' = wallet
  <2>1. \A u \in Users : wallet[u] + 0 = wallet[u]
    BY DEF RowTypes
  <2>2. DOMAIN w.gain = {}
    BY <1>10 DEF Nothing
  <2>3. wallet' = [u \in Users |-> wallet[u]]
    BY <2>1, <2>2 DEF Apply
  <2> QED BY <2>3 DEF RowTypes
<1> QED BY <1>1, <1>2, <1>3, <1>4, <1>5, <1>6, <1>7, <1>8, <1>9, <1>10

(* A column some write is about is set by it.                              *)
LEMMA ApplySets ==
    ASSUME RowTypes, NEW w, Apply(w), NEW S, NEW v
    PROVE  /\ w.order = All(S, v) => orderStatus' = Core!SetStatus(orderStatus, S, v)
           /\ w.owner = All(S, v) => orderUser' = Core!SetStatus(orderUser, S, v)
           /\ w.res = All(S, v) => resStatus' = Core!SetStatus(resStatus, S, v)
           /\ w.seat = All(S, v) => ticketStatus' = Core!SetStatus(ticketStatus, S, v)
           /\ w.move = All(S, v) => resTicket' = Core!SetStatus(resTicket, S, v)
           /\ w.price = All(S, v) => resPrice' = Core!SetStatus(resPrice, S, v)
<1>1. w.order = All(S, v) => orderStatus' = Core!SetStatus(orderStatus, S, v)
  BY DEF Apply, All, Core!SetStatus
<1>2. w.owner = All(S, v) => orderUser' = Core!SetStatus(orderUser, S, v)
  BY DEF Apply, All, Core!SetStatus
<1>3. w.res = All(S, v) => resStatus' = Core!SetStatus(resStatus, S, v)
  BY DEF Apply, All, Core!SetStatus
<1>4. w.seat = All(S, v) => ticketStatus' = Core!SetStatus(ticketStatus, S, v)
  BY DEF Apply, All, Core!SetStatus
<1>5. w.move = All(S, v) => resTicket' = Core!SetStatus(resTicket, S, v)
  BY DEF Apply, All, Core!SetStatus
<1>6. w.price = All(S, v) => resPrice' = Core!SetStatus(resPrice, S, v)
  BY DEF Apply, All, Core!SetStatus
<1> QED BY <1>1, <1>2, <1>3, <1>4, <1>5, <1>6

LEMMA SetOne == \A f, x, v : Core!SetStatus(f, {x}, v) = [f EXCEPT ![x] = v]
BY DEF Core!SetStatus

(* The commit of each kind of call is its action of Booking.               *)
LEMMA ReserveCommits ==
    ASSUME RowTypes, NEW c \in Calls, ReserveKnows(c), Commit(c)
    PROVE  Core!Reserve(request[c].user, request[c].order, request[c].seats)
<1> DEFINE q == request[c]
           w == writes[c]
           o == q.order
           new == {o} \X q.seats
<1>1. /\ Apply(w) /\ w = ReserveWrites(q) /\ UNCHANGED <<apiDue, dbDue, started>>
      /\ orderStatus[o] = "none" /\ q.seats # {} /\ Cardinality(q.seats) <= MaxPerOrder /\ o \in Orders
      /\ q.seats \in SUBSET Tickets /\ \A t \in q.seats : Core!Reservable(t)
  BY DEF Commit, ReserveKnows
<1>2. ReserveColumns(q, w)
  BY <1>1, ReserveWrote
<1> HIDE DEF w, q
<1>3. /\ orderStatus' = [orderStatus EXCEPT ![o] = "pending"] /\ orderUser' = [orderUser EXCEPT ![o] = q.user]
      /\ resStatus' = Core!SetStatus(resStatus, new, "pending")
      /\ ticketStatus' = Core!SetStatus(ticketStatus, q.seats, "reserved")
  <2>1. /\ w.order = All({o}, "pending") /\ w.owner = All({o}, q.user)
        /\ w.res = All(new, "pending") /\ w.seat = All(q.seats, "reserved")
    BY <1>2 DEF ReserveColumns
  <2> HIDE DEF o, new
  <2>2. orderStatus' = Core!SetStatus(orderStatus, {o}, "pending") /\ orderUser' = Core!SetStatus(orderUser, {o}, q.user)
    BY <1>1, <2>1, ApplySets
  <2>3. /\ resStatus' = Core!SetStatus(resStatus, new, "pending")
        /\ ticketStatus' = Core!SetStatus(ticketStatus, q.seats, "reserved")
    BY <1>1, <2>1, ApplySets
  <2> QED BY <2>2, <2>3, SetOne
<1>4. UNCHANGED <<resTicket, payStatus, payAmount, payMethod, approved, refunded, wallet>>
  BY <1>1, <1>2, ApplySame DEF ReserveColumns
<1>5. resPrice' = [r \in Core!Reservations |-> IF r \in new THEN Price[r[2]] ELSE resPrice[r]]
  <2>1. w.price = [r \in new |-> Price[r[2]]]
    BY <1>2 DEF ReserveColumns
  <2> HIDE DEF o, new
  <2> QED BY <1>1, <2>1 DEF Apply, Core!Reservations, RowTypes, Res
<1>6. Core!Cardinality(q.seats) <= MaxPerOrder
  BY <1>1, SameNumbers
<1> QED BY <1>1, <1>3, <1>4, <1>5, <1>6 DEF Core!Reserve, Core!moneyVars, Core!timeVars, q

LEMMA PendingTotal == ASSUME RowTypes, NEW o PROVE Core!Total(Core!Pending(o)) \in Nat
<1> DEFINE R == Core!Pending(o)
<1>1. R \subseteq Res
  BY DEF Core!Pending, Core!HasStatus, Core!Reservations, Res
<1>2. IsFiniteSet(Res)
  BY CoreAssumption, SameNumbers, FS_Product DEF Core!FiniteRows, Res
<1>3. IsFiniteSet(R)
  BY <1>1, <1>2, FS_Subset
<1>4. \A r \in R : resPrice[r] \in Nat
  BY <1>1 DEF RowTypes
<1> HIDE DEF R
<1>5. Whole!SumOver(resPrice, R) \in Nat
  BY <1>3, <1>4, SameNumbers, WholeAssumption, Whole!SumIsNat
<1> QED BY <1>5, SameSums DEF Core!Total, R

LEMMA PayCommits ==
    ASSUME RowTypes, RowsAgree, NEW c \in Calls, PayKnows(c), Commit(c),
           orderStatus[request[c].order] # "none",
           NextAttempt(request[c].order) \in Core!Payments,
           payStatus[NextAttempt(request[c].order)] = "none",
           \A k \in 1..(NextAttempt(request[c].order)[2] - 1) : payStatus[<<request[c].order, k>>] # "none"
    PROVE  \E u \in Users, p \in Core!Payments, m \in Core!Methods : Core!PayFailed(u, p, m) \/ Core!PaySuccess(u, p, m)
<1> DEFINE q == request[c]
           w == writes[c]
           o == q.order
           R == Core!Pending(o)
           u == orderUser[o]
           p == NextAttempt(o)
           amount == Core!Total(R)
<1>1. /\ Apply(w) /\ w = PayWrites(q, R) /\ UNCHANGED <<apiDue, dbDue, started>> /\ rows[c] # {}
      /\ orderStatus[o] = "pending" /\ o \notin apiDue /\ Core!SuccessPayments(o) = {} /\ o \in Orders
      /\ q.method \in Core!Methods /\ q.succeeds \in BOOLEAN /\ ItemsRead(c, R)
      /\ q.succeeds /\ q.method = "wallet" => wallet[u] >= amount
  BY DEF Commit, PayKnows
<1>2. PayColumns(q, R, w)
  BY <1>1, PayWrote
<1>3. R # {}
  BY <1>1 DEF ItemsRead
<1>4. u \in Users
  BY <1>1 DEF RowsAgree
<1>5. Core!Payable(u, o) /\ Core!AmountDue(o) = amount
  BY <1>1, <1>3 DEF Core!Payable, Core!AmountDue
<1>6. p \in Core!Payments /\ p \in Pays /\ p[1] = o /\ payStatus[p] = "none"
      /\ \A k \in 1..(p[2] - 1) : payStatus[<<p[1], k>>] # "none"
  BY DEF NextAttempt, Core!Payments, Pays
<1> HIDE DEF w, q, R, u, p, amount, o
<1>7. /\ w.pay = All({p}, [amount |-> amount, method |-> q.method,
                           status |-> IF q.succeeds THEN "success" ELSE "failed"]) /\ w.close = {}
      /\ UNCHANGED <<orderUser, resTicket, resPrice, approved, refunded>>
  BY <1>1, <1>2, ApplySame DEF PayColumns, p, amount, o
<1>8. /\ payStatus' = [payStatus EXCEPT ![p] = IF q.succeeds THEN "success" ELSE "failed"]
      /\ payAmount' = [payAmount EXCEPT ![p] = amount]
      /\ payMethod' = [payMethod EXCEPT ![p] = q.method]
  <2> DEFINE v == [amount |-> amount, method |-> q.method, status |-> IF q.succeeds THEN "success" ELSE "failed"]
  <2>1. DOMAIN w.pay = {p} /\ w.pay[p] = v
    BY <1>7, AllIs
  <2>2. /\ v.status = (IF q.succeeds THEN "success" ELSE "failed") /\ v.amount = amount /\ v.method = q.method
    OBVIOUS
  <2> HIDE DEF v
  <2>3. payStatus' = [payStatus EXCEPT ![p] = IF q.succeeds THEN "success" ELSE "failed"]
    BY <1>1, <1>7, <2>1, <2>2 DEF Apply, RowTypes
  <2>4. payAmount' = [payAmount EXCEPT ![p] = amount]
    BY <1>1, <2>1, <2>2 DEF Apply, RowTypes
  <2>5. payMethod' = [payMethod EXCEPT ![p] = q.method]
    BY <1>1, <2>1, <2>2 DEF Apply, RowTypes
  <2> QED BY <2>3, <2>4, <2>5
<1>9. CASE ~q.succeeds
  <2>1. UNCHANGED <<orderStatus, resStatus, ticketStatus, wallet>>
    BY <1>1, <1>2, <1>9, ApplySame DEF PayColumns
  <2>2. Core!PayFailed(u, p, q.method)
    BY <1>1, <1>5, <1>6, <1>7, <1>8, <1>9, <2>1
       DEF Core!PayFailed, Core!InsertPayment, Core!seatVars, Core!timeVars
  <2> QED BY <1>1, <1>4, <1>6, <2>2
<1>10. CASE q.succeeds
  <2>1. /\ orderStatus' = [orderStatus EXCEPT ![o] = "paid"] /\ resStatus' = Core!SetStatus(resStatus, R, "paid")
        /\ ticketStatus' = Core!SetStatus(ticketStatus, Core!SeatsToMove(R), "sold")
    <3>1. w.order = All({o}, "paid") /\ w.res = All(R, "paid") /\ w.seat = All(Core!SeatsToMove(R), "sold")
      BY <1>2, <1>10 DEF PayColumns, R, o
    <3>2. orderStatus' = Core!SetStatus(orderStatus, {o}, "paid") /\ resStatus' = Core!SetStatus(resStatus, R, "paid")
      BY <1>1, <3>1, ApplySets
    <3>3. ticketStatus' = Core!SetStatus(ticketStatus, Core!SeatsToMove(R), "sold")
      BY <1>1, <3>1, ApplySets
    <3> QED BY <3>2, <3>3, SetOne
  <2>2. wallet' = Core!Charge(u, amount, q.method) /\ Core!CanAfford(u, amount, q.method)
    <3>1. CASE q.method = "wallet"
      <4>1. w.gain = All({u}, 0 - amount)
        BY <1>2, <1>10, <3>1 DEF PayColumns, u, amount, o
      <4>2. amount \in Int
        BY PendingTotal DEF amount, R
      <4>3. \A x \in Users : wallet[x] + 0 = wallet[x] /\ wallet[x] + (0 - amount) = wallet[x] - amount
        BY <4>2 DEF RowTypes
      <4>4. wallet' = [wallet EXCEPT ![u] = @ - amount]
        BY <1>1, <1>4, <4>1, <4>3 DEF Apply, All, RowTypes
      <4> QED BY <1>1, <1>10, <3>1, <4>4 DEF Core!Charge, Core!CanAfford
    <3>2. CASE q.method # "wallet"
      <4>1. wallet' = wallet
        BY <1>1, <1>2, <3>2, ApplySame DEF PayColumns
      <4> QED BY <3>2, <4>1 DEF Core!Charge, Core!CanAfford
    <3> QED BY <3>1, <3>2
  <2>3. Core!PaySuccess(u, p, q.method)
    BY <1>1, <1>5, <1>6, <1>7, <1>8, <1>10, <2>1, <2>2
       DEF Core!PaySuccess, Core!InsertPayment, Core!timeVars, R
  <2> QED BY <1>1, <1>4, <1>6, <2>3
<1> QED BY <1>1, <1>9, <1>10

LEMMA CancelCommits ==
    ASSUME RowTypes, RowsAgree, NEW c \in Calls, CancelKnows(c), Commit(c),
           orderStatus[request[c].res[1]] # "none"
    PROVE  Core!Cancel(request[c].res, Support, request[c].percent)
<1> DEFINE q == request[c]
           w == writes[c]
           r == q.res
           o == r[1]
           u == orderUser[o]
           back == Core!RefundOf(r, q.percent)
<1>1. /\ Apply(w) /\ w = CancelWrites(q) /\ UNCHANGED <<apiDue, dbDue, started>> /\ r \in Res /\ o \in Orders
      /\ resStatus[r] \in {"pending", "paid"} /\ MatchOf[resTicket[r]] \notin started
      /\ resStatus[r] = "paid" => Core!SuccessPayments(o) # {}
  BY DEF Commit, CancelKnows, Res
<1>2. CancelColumns(q, w)
  BY <1>1, CancelWrote
<1>3. u \in Users /\ resTicket[r] \in Tickets
  BY <1>1 DEF RowsAgree, RowTypes
<1>4. \A x \in Users : wallet[x] + 0 = wallet[x]
  BY DEF RowTypes
<1>5. \A x \in Res : approved[x] + 0 = approved[x] /\ refunded[x] + 0 = refunded[x]
  BY DEF RowTypes
<1> HIDE DEF w, q
<1>6. /\ UNCHANGED <<orderUser, resTicket, resPrice, payAmount, payMethod>>
  BY <1>1, <1>2, ApplySame DEF CancelColumns
<1>7. /\ w.res = All({r}, "cancelled") /\ w.seat = All({resTicket[r]}, "available")
      /\ w.order = All({o}, Core!StatusAfterCancel(r))
      /\ w.refund = All({r}, back) /\ w.gain = All({u}, back)
      /\ w.close = Core!PaymentsToClose(r) /\ w.pay = Nothing
  BY <1>2 DEF CancelColumns
<1> HIDE DEF r, o, u, back
<1>8. /\ resStatus' = Core!SetStatus(resStatus, {r}, "cancelled")
      /\ ticketStatus' = Core!SetStatus(ticketStatus, {resTicket[r]}, "available")
      /\ orderStatus' = Core!SetStatus(orderStatus, {o}, Core!StatusAfterCancel(r))
  BY <1>1, <1>7, ApplySets
<1>9. /\ resStatus' = [resStatus EXCEPT ![r] = "cancelled"]
      /\ ticketStatus' = [ticketStatus EXCEPT ![resTicket[r]] = "available"]
      /\ orderStatus' = [orderStatus EXCEPT ![o] = Core!StatusAfterCancel(r)]
  BY <1>8, SetOne
<1>10. payStatus' = Core!SetStatus(payStatus, Core!PaymentsToClose(r), "refunded")
  BY <1>1, <1>7, NothingIs DEF Apply, Core!SetStatus
<1>11. DOMAIN w.refund = {r} /\ w.refund[r] = back /\ DOMAIN w.gain = {u} /\ w.gain[u] = back
  BY <1>7, AllIs
<1>12. approved' = [approved EXCEPT ![r] = @ + 1]
  BY <1>1, <1>5, <1>11 DEF Apply, RowTypes
<1>13. refunded' = [refunded EXCEPT ![r] = @ + back]
  BY <1>1, <1>5, <1>11 DEF Apply, RowTypes
<1>14. wallet' = [wallet EXCEPT ![u] = @ + back]
  BY <1>1, <1>3, <1>4, <1>11 DEF Apply, RowTypes
<1>15. Core!OrderOf(r) = o
  BY DEF Core!OrderOf, o
<1> QED BY <1>1, <1>6, <1>9, <1>10, <1>12, <1>13, <1>14, <1>15
        DEF Core!Cancel, Core!timeVars, u, back, q, r

LEMMA ReviewCommits ==
    ASSUME RowTypes, NEW c \in Calls, ReviewKnows(c), Commit(c)
    PROVE  Core!SetReservationStatus(request[c].res, "expired")
<1> DEFINE q == request[c]
           w == writes[c]
           r == q.res
           o == r[1]
           left == (Core!Pending(o) \cup Core!Paid(o)) \ {r}
<1>1. /\ Apply(w) /\ w = ReviewWrites(q) /\ UNCHANGED <<apiDue, dbDue, started>> /\ r \in Res
      /\ resStatus[r] = "pending" /\ q.to # "paid"
  BY DEF Commit, ReviewKnows
<1>2. ReviewColumns(q, w)
  BY <1>1, ReviewWrote
<1> HIDE DEF w, q
<1>3. UNCHANGED <<orderUser, resTicket, resPrice, payStatus, payAmount, payMethod, approved, refunded, wallet>>
  BY <1>1, <1>2, ApplySame DEF ReviewColumns
<1>4. /\ w.res = All({r}, "expired") /\ w.seat = All({resTicket[r]}, "available")
      /\ w.order = IF left = {} THEN All({o}, "expired") ELSE Nothing
  BY <1>2 DEF ReviewColumns
<1> HIDE DEF r, o, left
<1>5. /\ resStatus' = Core!SetStatus(resStatus, {r}, "expired")
      /\ ticketStatus' = Core!SetStatus(ticketStatus, {resTicket[r]}, "available")
  BY <1>1, <1>4, ApplySets
<1>6. ticketStatus' = [ticketStatus EXCEPT ![resTicket[r]] = "available"]
  BY <1>5, SetOne
<1>7. orderStatus' = IF left = {} THEN [orderStatus EXCEPT ![o] = "expired"] ELSE orderStatus
  <2>1. CASE left = {}
    <3>1. orderStatus' = Core!SetStatus(orderStatus, {o}, "expired")
      BY <1>1, <1>4, <2>1, ApplySets
    <3> QED BY <2>1, <3>1, SetOne
  <2>2. CASE left # {}
    BY <1>1, <1>4, <2>2, ApplySame
  <2> QED BY <2>1, <2>2
<1>8. Core!OrderOf(r) = o
  BY DEF Core!OrderOf, o
<1> QED BY <1>1, <1>3, <1>5, <1>6, <1>7, <1>8
        DEF Core!SetReservationStatus, Core!Reviewable, Core!moneyVars, Core!timeVars, left, r, q

LEMMA ChangeCommits ==
    ASSUME RowTypes, NEW c \in Calls, ChangeKnows(c), stage[c] = "commit", Commit(c)
    PROVE  Core!ChangeTicket(request[c].res, request[c].seat)
<1> DEFINE q == request[c]
           w == writes[c]
           r == q.res
           t == q.seat
           old == resTicket[r]
<1>1. /\ Apply(w) /\ w = ChangeWrites(q) /\ UNCHANGED <<apiDue, dbDue, started>> /\ r \in Res /\ t \in Tickets
      /\ orderStatus[r[1]] = "pending" /\ r[1] \notin apiDue /\ resStatus[r] = "pending" /\ Core!Replaceable(r, t)
  BY DEF Commit, ChangeKnows
<1>2. ChangeColumns(q, w)
  BY <1>1, ChangeWrote
<1> HIDE DEF w, q
<1>3. UNCHANGED <<orderStatus, orderUser, resStatus, payStatus, payAmount, payMethod, approved, refunded, wallet>>
  BY <1>1, <1>2, ApplySame DEF ChangeColumns
<1>4. /\ w.seat = [x \in {t, old} |-> IF x = t THEN "reserved" ELSE "available"]
      /\ w.move = All({r}, t) /\ w.price = All({r}, Price[t])
  BY <1>2 DEF ChangeColumns
<1> HIDE DEF r, t
<1>5. resTicket' = Core!SetStatus(resTicket, {r}, t) /\ resPrice' = Core!SetStatus(resPrice, {r}, Price[t])
  BY <1>1, <1>4, ApplySets
<1>6. resTicket' = [resTicket EXCEPT ![r] = t] /\ resPrice' = [resPrice EXCEPT ![r] = Price[t]]
  BY <1>5, SetOne
<1>7. t # old
  BY <1>1 DEF Core!Replaceable
<1>8. ticketStatus' = [ticketStatus EXCEPT ![t] = "reserved", ![old] = "available"]
  <2> HIDE DEF old
  <2> QED BY <1>1, <1>4, <1>7 DEF Apply, RowTypes
<1> QED BY <1>1, <1>3, <1>6, <1>8 DEF Core!ChangeTicket, Core!OrderOf, Core!moneyVars, Core!timeVars, r, t, q

LEMMA ExpireCommits ==
    ASSUME RowTypes, NEW c \in Calls, ExpireKnows(c), stage[c] = "commit", Commit(c)
    PROVE  Core!ExpireBatch(OrdersOf(held[c]))
<1> DEFINE B == OrdersOf(held[c])
           w == writes[c]
           R == Core!ReleasedBy(B)
<1>1. /\ Apply(w) /\ w = ExpireWrites(B, R) /\ UNCHANGED <<apiDue, dbDue, started>>
      /\ B # {} /\ Cardinality(B) <= BatchSize
  BY DEF Commit, ExpireKnows
<1>2. ExpireColumns(B, R, w)
  BY <1>1, ExpireWrote
<1> HIDE DEF w, B
<1>3. UNCHANGED <<orderUser, resTicket, resPrice, payStatus, payAmount, payMethod, approved, refunded, wallet>>
  BY <1>1, <1>2, ApplySame DEF ExpireColumns
<1>4. w.order = All(B, "expired") /\ w.res = All(R, "expired") /\ w.seat = All(Core!SeatsToMove(R), "available")
  BY <1>2 DEF ExpireColumns
<1>5. /\ orderStatus' = Core!SetStatus(orderStatus, B, "expired") /\ resStatus' = Core!SetStatus(resStatus, R, "expired")
      /\ ticketStatus' = Core!SetStatus(ticketStatus, Core!SeatsToMove(R), "available")
  BY <1>1, <1>4, ApplySets
<1>6. Core!Cardinality(B) <= BatchSize
  BY <1>1, SameNumbers
<1> QED BY <1>1, <1>3, <1>5, <1>6 DEF Core!ExpireBatch, Core!moneyVars, Core!timeVars, B

(* Attempts are numbered from 1, so that the next number is free.          *)
LEMMA Attempts ==
    ASSUME AttemptsNumbered, NEW o \in Orders
    PROVE  \E n \in 0..MaxAttempts : AttemptsOf(o) = 1..n /\ Cardinality(AttemptsOf(o)) = n
<1>1. PICK n \in 0..MaxAttempts : AttemptsOf(o) = 1..n
  BY DEF AttemptsNumbered
<1>2. MaxAttempts \in Nat
  BY CoreAssumption DEF Core!BookingAssumption
<1>3. Cardinality(1..n) = n
  BY <1>2, FS_Interval
<1> QED BY <1>1, <1>3

LEMMA PaysFinite == \A o : IsFiniteSet(PaysOf(o)) /\ Cardinality(PaysOf(o)) \in Nat
BY BookingLocksAssumption, FS_Subset, FS_CardinalityType DEF PaysOf

(* A call that pays has a number left for its attempt.                     *)
LEMMA NextFree ==
    ASSUME AttemptsNumbered, AttemptsLeft, NEW c \in Calls, NEW o \in Orders,
           request[c].op = "pay", request[c].order = o
    PROVE  /\ NextAttempt(o) \in Core!Payments /\ payStatus[NextAttempt(o)] = "none"
           /\ \A k \in 1..(NextAttempt(o)[2] - 1) : payStatus[<<o, k>>] # "none"
<1>1. PICK n \in 0..MaxAttempts : AttemptsOf(o) = 1..n /\ Cardinality(AttemptsOf(o)) = n
  BY Attempts
<1>2. MaxAttempts \in Nat
  BY CoreAssumption DEF Core!BookingAssumption
<1>3. Cardinality(PaysOf(o)) \in Nat \ {0}
  <2>1. c \in PaysOf(o)
    BY DEF PaysOf
  <2> QED BY <2>1, PaysFinite, FS_EmptySet
<1>4. n + Cardinality(PaysOf(o)) <= MaxAttempts
  BY <1>1 DEF AttemptsLeft
<1>5. n + 1 \in 1..MaxAttempts /\ n + 1 \notin 1..n
  BY <1>2, <1>3, <1>4
<1>6. NextAttempt(o) = <<o, n + 1>>
  BY <1>1 DEF NextAttempt, AttemptsOf
<1>7. payStatus[<<o, n + 1>>] = "none"
  BY <1>1, <1>5 DEF AttemptsOf
<1>8. \A k \in 1..n : payStatus[<<o, k>>] # "none"
  BY <1>1 DEF AttemptsOf
<1> QED BY <1>5, <1>6, <1>7, <1>8 DEF Core!Payments

(* A commit is a step of Booking.                                          *)
LEMMA CommitIsStep ==
    ASSUME CallTypes, RowTypes, RowsAgree, AttemptsNumbered, AttemptsLeft, NEW c \in Calls, CallKept(c), Commit(c)
    PROVE  Core!Next
<1>1. \A o \in Orders : Row("order", o) \in held[c] => orderStatus[o] # "none"
  BY DEF CallKept, Knows, Got
<1>2. stage[c] = "commit" /\ Working(c)
  BY DEF CallKept, Knows, Resting, Commit
<1>3. \A r : r \in Res => r \in Core!Reservations /\ r[1] \in Orders
  BY DEF Res, Core!Reservations
<1>4. CASE ReserveKnows(c)
  <2>1. Core!Reserve(request[c].user, request[c].order, request[c].seats)
    BY <1>4, ReserveCommits
  <2>2. request[c].user \in Users /\ request[c].order \in Orders /\ request[c].seats \in SUBSET Tickets
    BY <1>4 DEF ReserveKnows
  <2> QED BY <2>1, <2>2 DEF Core!Next, Core!UserStep
<1>5. CASE PayKnows(c)
  <2>1. request[c].op = "pay" /\ request[c].order \in Orders /\ orderStatus[request[c].order] # "none"
    BY <1>2, <1>5 DEF PayKnows
  <2>2. /\ NextAttempt(request[c].order) \in Core!Payments /\ payStatus[NextAttempt(request[c].order)] = "none"
        /\ \A k \in 1..(NextAttempt(request[c].order)[2] - 1) : payStatus[<<request[c].order, k>>] # "none"
    BY <2>1, NextFree
  <2>3. \E u \in Users, p \in Core!Payments, m \in Core!Methods : Core!PayFailed(u, p, m) \/ Core!PaySuccess(u, p, m)
    BY <1>5, <2>1, <2>2, PayCommits
  <2> QED BY <2>3 DEF Core!Next, Core!UserStep
<1>6. CASE CancelKnows(c)
  <2>1. request[c].res \in Res /\ request[c].percent \in Percents /\ Row("order", request[c].res[1]) \in held[c]
    BY <1>2, <1>6 DEF CancelKnows, HasSeat
  <2>2. Core!Cancel(request[c].res, Support, request[c].percent)
    BY <1>1, <1>3, <1>6, <2>1, CancelCommits
  <2>3. \E r \in Core!Reservations, a \in Users \cup {Support}, percent \in Percents : Core!Cancel(r, a, percent)
    BY <1>3, <2>1, <2>2
  <2> QED BY <2>3 DEF Core!Next, Core!UserStep
<1>7. CASE ReviewKnows(c)
  <2>1. request[c].res \in Core!Reservations
    BY <1>3, <1>7 DEF ReviewKnows
  <2>2. Core!SetReservationStatus(request[c].res, "expired")
    BY <1>7, ReviewCommits
  <2> QED BY <2>1, <2>2 DEF Core!Next, Core!UserStep
<1>8. CASE ChangeKnows(c)
  <2>1. request[c].res \in Core!Reservations /\ request[c].seat \in Tickets
    BY <1>3, <1>8 DEF ChangeKnows
  <2>2. Core!ChangeTicket(request[c].res, request[c].seat)
    BY <1>2, <1>8, ChangeCommits
  <2> QED BY <2>1, <2>2 DEF Core!Next, Core!UserStep
<1>9. CASE ExpireKnows(c)
  <2>1. OrdersOf(held[c]) \in SUBSET Core!Due
    BY <1>2, <1>9 DEF ExpireKnows
  <2>2. Core!ExpireBatch(OrdersOf(held[c]))
    BY <1>2, <1>9, ExpireCommits
  <2> QED BY <2>1, <2>2 DEF Core!Next, Core!Job
<1> QED BY <1>2, <1>4, <1>5, <1>6, <1>7, <1>8, <1>9 DEF Working

-----------------------------------------------------------------------------
(***************************************************************************)
(* The steps of one call between BEGIN and COMMIT, which change no row.    *)
(***************************************************************************)
(* What a lock is on.                                                      *)
LEMMA LockKinds ==
    ASSUME NEW l \in Locks
    PROVE  /\ l = <<l[1], l[2]>>
           /\ l[1] \in {"order", "payment", "reservation", "ticket", "user"}
           /\ l[1] = "order" \/ l[1] = "payment" => l[2] \in Orders
           /\ l[1] = "reservation" => l[2] \in Res
           /\ l[1] = "ticket" => l[2] \in Tickets
           /\ l[1] = "user" => l[2] \in Users
BY DEF Locks

Grows(c) ==
    Head(todo[c])[1] = "reservation" /\ Len(todo[c]) > 1 /\ Fits(c, Head(todo[c])[2])

(* Take changes what one call holds and has still to take.                 *)
LEMMA TakeDoes ==
    ASSUME CallTypes, NEW c \in Calls, Take(c)
    PROVE  /\ todo[c] # <<>> /\ todo[c] \in Seq(Locks) /\ Head(todo[c]) \in Locks
           /\ request' = request /\ stage' = stage /\ writes' = writes
           /\ todo'[c] = Tail(todo[c]) /\ held'[c] = held[c] \cup {Head(todo[c])}
           /\ rows'[c] = (IF Grows(c) THEN rows[c] \cup {Head(todo[c])[2]} ELSE rows[c])
           /\ Got(c)' = Got(c) /\ CallTypes'
           /\ \A d \in Calls \ {c} : SameCall(d)
           /\ \A l \in held'[c] \ held[c] : \A d \in Calls : ~Conflict(c, d, l)
<1> DEFINE T == todo[c]
           l == Head(T)
<1>1. /\ T # <<>> /\ ~Blocked(c) /\ held' = [held EXCEPT ![c] = @ \cup {l}] /\ todo' = [todo EXCEPT ![c] = Tail(@)]
      /\ rows' = (IF Grows(c) THEN [rows EXCEPT ![c] = @ \cup {l[2]}] ELSE rows)
      /\ request' = request /\ stage' = stage /\ writes' = writes
  BY DEF Take, Grows
<1>2. T \in Seq(Locks) /\ l \in Locks /\ Tail(T) \in Seq(Locks) /\ Range(T) = {l} \cup Range(Tail(T))
  <2>1. T \in Seq(Locks)
    BY DEF CallTypes
  <2> HIDE DEF T
  <2> QED BY <1>1, <2>1, TakeHead
<1> HIDE DEF T, l
<1>3. todo'[c] = Tail(T) /\ held'[c] = held[c] \cup {l}
  BY <1>1 DEF CallTypes, T
<1>4. rows'[c] = IF Grows(c) THEN rows[c] \cup {l[2]} ELSE rows[c]
  BY <1>1 DEF CallTypes
<1>5. Got(c)' = Got(c)
  BY <1>2, <1>3 DEF Got, T
<1>6. Grows(c) => l[2] \in Res
  BY <1>2, LockKinds DEF Grows, l, T
<1>7. CallTypes'
  <2>1. todo' \in [Calls -> Seq(Locks)]
    BY <1>1, <1>2 DEF CallTypes, T
  <2>2. held' \in [Calls -> SUBSET Locks]
    BY <1>1, <1>2 DEF CallTypes
  <2>3. rows' \in [Calls -> SUBSET Res]
    BY <1>1, <1>6 DEF CallTypes
  <2> QED BY <1>1, <2>1, <2>2, <2>3 DEF CallTypes
<1>8. \A d \in Calls \ {c} : SameCall(d)
  BY <1>1 DEF SameCall, CallTypes
<1>9. \A d \in Calls : ~Conflict(c, d, l)
  BY <1>1 DEF Blocked, WaitsFor, l, T
<1> QED BY <1>1, <1>2, <1>3, <1>4, <1>5, <1>7, <1>8, <1>9 DEF l, T

(* A row of a locked query is returned when its reservation is locked.     *)
LEMMA TakeItems ==
    ASSUME CallTypes, NEW c \in Calls, Take(c), resTicket' = resTicket,
           NEW R \in SUBSET Res, ItemsRead(c, R), \A r \in R : resStatus[r] = "pending"
    PROVE  ItemsRead(c, R)'
<1> DEFINE T == todo[c]
           l == Head(T)
           U == Tail(T)
           n == Len(T)
<1>1. /\ T # <<>> /\ T \in Seq(Locks) /\ todo'[c] = U /\ Got(c)' = Got(c)
      /\ rows'[c] = (IF Grows(c) THEN rows[c] \cup {l[2]} ELSE rows[c])
  BY TakeDoes
<1>2. /\ l = T[1] /\ n \in Nat \ {0} /\ DOMAIN T = 1..n /\ DOMAIN U = 1..(n - 1) /\ Len(U) = n - 1
      /\ \A i \in 1..(n - 1) : U[i] = T[i + 1] /\ i + 1 \in 1..n
      /\ Range(T) = {l} \cup Range(U)
  <2> HIDE DEF T
  <2> QED BY <1>1, TakeHead
<1>3. \A i \in 1..n : T[i][1] = "reservation" =>
         T[i][2] \in R /\ i < n /\ T[i + 1] = Row("ticket", resTicket[T[i][2]])
  BY <1>2 DEF ItemsRead
<1>4. l[1] = "reservation" => Grows(c) /\ l[2] \in R
  <2> SUFFICES ASSUME l[1] = "reservation" PROVE Grows(c) /\ l[2] \in R
    OBVIOUS
  <2>1. 1 \in 1..n /\ l[2] \in R /\ 1 < n /\ T[2] = Row("ticket", resTicket[l[2]])
    BY <1>2, <1>3
  <2> QED BY <2>1 DEF Grows, Fits
<1>5. Grows(c) => l[1] = "reservation"
  BY DEF Grows
<1>6. \A x \in Range(T) : Row("ticket", x) \in Range(T) => Row("ticket", x) \in Got(c)
  BY DEF Got
<1>7. l[1] = "reservation" => Row("ticket", resTicket[l[2]]) \in Got(c)
  <2> SUFFICES ASSUME l[1] = "reservation" PROVE Row("ticket", resTicket[l[2]]) \in Range(T)
    BY DEF Got
  <2>1. 1 \in 1..n /\ 2 \in 1..n /\ T[2] = Row("ticket", resTicket[l[2]])
    BY <1>2, <1>3
  <2> QED BY <1>2, <2>1 DEF Range
<1> HIDE DEF T, l, U, n
<1>8. rows'[c] \subseteq R
  BY <1>1, <1>4, <1>5 DEF ItemsRead
<1>9. \A r \in R : r \in rows'[c] \/ Row("reservation", r) \in Range(U)
  <2> TAKE r \in R
  <2>1. CASE r \in rows[c]
    BY <1>1, <2>1
  <2>2. CASE Row("reservation", r) \in Range(U)
    BY <2>2
  <2>3. CASE Row("reservation", r) = l
    BY <1>1, <1>4, <2>3 DEF Row
  <2> QED BY <1>2, <2>1, <2>2, <2>3 DEF ItemsRead, T
<1>10. \A r \in rows'[c] : Row("ticket", resTicket[r]) \in Got(c)
  BY <1>1, <1>5, <1>7 DEF ItemsRead
<1>11. \A i \in 1..(n - 1) : U[i][1] = "reservation" =>
         U[i][2] \in R /\ i < n - 1 /\ U[i + 1] = Row("ticket", resTicket[U[i][2]])
  <2> SUFFICES ASSUME NEW i \in 1..(n - 1), U[i][1] = "reservation"
               PROVE  U[i][2] \in R /\ i < n - 1 /\ U[i + 1] = Row("ticket", resTicket[U[i][2]])
    OBVIOUS
  <2>1. U[i] = T[i + 1] /\ i + 1 \in 1..n
    BY <1>2
  <2>2. T[i + 1][2] \in R /\ i + 1 < n /\ T[(i + 1) + 1] = Row("ticket", resTicket[T[i + 1][2]])
    BY <1>3, <2>1
  <2>3. i + 1 \in 1..(n - 1) /\ i < n - 1
    BY <1>2, <2>2
  <2> QED BY <1>2, <2>1, <2>2, <2>3
<1> QED BY <1>1, <1>2, <1>8, <1>9, <1>10, <1>11 DEF ItemsRead

(* What is read of rows that nobody changes.                               *)
LEMMA StillViews ==
    ASSUME UNCHANGED coreVars
    PROVE  /\ \A o : /\ Core!Pending(o)' = Core!Pending(o) /\ Core!Paid(o)' = Core!Paid(o)
                     /\ Core!SuccessPayments(o)' = Core!SuccessPayments(o)
           /\ \A B : Core!ReleasedBy(B)' = Core!ReleasedBy(B)
           /\ Core!Due' = Core!Due
           /\ \A d : SameRows(d)
           /\ ticketStatus' = ticketStatus /\ orderStatus' = orderStatus /\ orderUser' = orderUser
           /\ resStatus' = resStatus /\ resTicket' = resTicket /\ wallet' = wallet
           /\ apiDue' = apiDue /\ started' = started
<1>1. /\ ticketStatus' = ticketStatus /\ orderStatus' = orderStatus /\ orderUser' = orderUser
      /\ resStatus' = resStatus /\ resTicket' = resTicket /\ resPrice' = resPrice
      /\ payStatus' = payStatus /\ wallet' = wallet
      /\ apiDue' = apiDue /\ dbDue' = dbDue /\ started' = started
  BY DEF coreVars
<1>2. \A o : Core!Pending(o)' = Core!Pending(o) /\ Core!Paid(o)' = Core!Paid(o)
  BY <1>1 DEF Core!Pending, Core!Paid, Core!HasStatus, Core!Reservations, Core!OrderOf
<1>3. \A o : Core!SuccessPayments(o)' = Core!SuccessPayments(o)
  BY <1>1 DEF Core!SuccessPayments, Core!Payments
<1>4. \A B : Core!ReleasedBy(B)' = Core!ReleasedBy(B)
  BY <1>1 DEF Core!ReleasedBy, Core!Reservations, Core!OrderOf
<1>5. Core!Due' = Core!Due
  BY <1>1 DEF Core!Due
<1>6. \A d : SameRows(d)
  BY <1>1 DEF SameRows, SameOrder
<1> QED BY <1>1, <1>2, <1>3, <1>4, <1>5, <1>6

(* A lock taken is one that was asked for.                                 *)
LEMMA TakeMore ==
    ASSUME CallTypes, NEW c \in Calls, Take(c)
    PROVE  /\ Head(todo[c]) \in Got(c) /\ held[c] \subseteq held'[c]
           /\ Range(todo'[c]) \subseteq Range(todo[c]) /\ Head(todo[c]) \in Range(todo[c])
<1>1. /\ todo[c] # <<>> /\ todo[c] \in Seq(Locks)
      /\ todo'[c] = Tail(todo[c]) /\ held'[c] = held[c] \cup {Head(todo[c])}
  BY TakeDoes
<1>2. Range(todo[c]) = {Head(todo[c])} \cup Range(Tail(todo[c]))
  BY <1>1, TakeHead
<1> QED BY <1>1, <1>2 DEF Got

(* A call of each kind that takes a lock knows what it knew.               *)
LEMMA TakeReserve ==
    ASSUME CallTypes, NEW c \in Calls, Take(c), UNCHANGED coreVars, ReserveKnows(c)
    PROVE  ReserveKnows(c)'
<1> DEFINE q == request[c]
<1>1. /\ todo[c] # <<>> /\ Head(todo[c]) \in Got(c) /\ Got(c)' = Got(c)
      /\ request' = request /\ stage' = stage /\ writes' = writes
      /\ rows'[c] = (IF Grows(c) THEN rows[c] \cup {Head(todo[c])[2]} ELSE rows[c])
  BY TakeDoes, TakeMore
<1>2. \A l \in Got(c) : l[1] # "reservation"
  BY DEF ReserveKnows, Row
<1>3. rows'[c] = rows[c]
  BY <1>1, <1>2 DEF Grows
<1>4. stage[c] # "commit"
  BY <1>1 DEF ReserveKnows
<1>5. orderStatus' = orderStatus
  BY DEF coreVars
<1> QED BY <1>1, <1>3, <1>4, <1>5 DEF ReserveKnows

LEMMA TakePay ==
    ASSUME CallTypes, NEW c \in Calls, Take(c), UNCHANGED coreVars, PayKnows(c)
    PROVE  PayKnows(c)'
<1> DEFINE q == request[c]
           o == q.order
           R == Core!Pending(o)
<1>1. /\ todo[c] # <<>> /\ Head(todo[c]) \in Got(c) /\ Got(c)' = Got(c) /\ held[c] \subseteq held'[c]
      /\ request' = request /\ stage' = stage /\ writes' = writes
      /\ Range(todo'[c]) \subseteq Range(todo[c]) /\ Head(todo[c]) \in Range(todo[c])
      /\ rows'[c] = (IF Grows(c) THEN rows[c] \cup {Head(todo[c])[2]} ELSE rows[c])
  BY TakeDoes, TakeMore
<1>2. /\ R' = R /\ Core!SuccessPayments(o)' = Core!SuccessPayments(o)
      /\ orderStatus' = orderStatus /\ orderUser' = orderUser /\ resTicket' = resTicket /\ apiDue' = apiDue
  BY <1>1, StillViews
<1>3. stage[c] # "commit"
  BY <1>1 DEF PayKnows
<1>4. CASE stage[c] = "first"
  <2>1. Got(c) = {Row("order", o)} /\ rows[c] = {}
    BY <1>4 DEF PayKnows
  <2>2. ~Grows(c)
    BY <1>1, <2>1 DEF Grows, Row
  <2> QED BY <1>1, <1>4, <2>1, <2>2 DEF PayKnows
<1>5. CASE stage[c] \in {"items", "wallet"}
  <2>1. /\ q.op = "pay" /\ o \in Orders /\ q.method \in Core!Methods /\ q.succeeds \in BOOLEAN
        /\ Row("order", o) \in held[c]
        /\ orderStatus[o] = "pending" /\ o \notin apiDue /\ Core!SuccessPayments(o) = {}
        /\ ItemsRead(c, R)
        /\ stage[c] = "items" => NoMoneyLocks(c)
        /\ stage[c] = "wallet" =>
               /\ q.method = "wallet" /\ q.succeeds /\ rows[c] # {}
               /\ Row("user", orderUser[o]) \in Got(c)
               /\ Range(todo[c]) \subseteq {Row("user", orderUser[o])}
    BY <1>5 DEF PayKnows
  <2>2. R \in SUBSET Res /\ \A r \in R : resStatus[r] = "pending"
    BY DEF Core!Pending, Core!HasStatus, Core!Reservations, Res
  <2>3. ItemsRead(c, R)'
    BY <1>2, <2>1, <2>2, TakeItems
  <2>4. stage[c] = "items" => NoMoneyLocks(c)'
    BY <1>1, <2>1 DEF NoMoneyLocks
  <2>5. rows[c] \subseteq rows'[c]
    BY <1>1
  <2>6. Row("order", o) \in held'[c]
    BY <1>1, <2>1
  <2>7. stage[c] = "wallet" => rows'[c] # {} /\ Range(todo'[c]) \subseteq {Row("user", orderUser[o])}
    BY <1>1, <2>1, <2>5
  <2>8. R' = Core!Pending(o)' /\ q' = q
    BY <1>1
  <2> QED BY <1>1, <1>2, <1>3, <1>5, <2>1, <2>3, <2>4, <2>6, <2>7 DEF PayKnows
<1> QED BY <1>3, <1>4, <1>5 DEF PayKnows

(* The join has its rows when the last of its three locks is taken.        *)
LEMMA TakeJoin ==
    ASSUME CallTypes, NEW c \in Calls, Take(c), UNCHANGED coreVars, NEW r \in Res, JoinRead(c, r)
    PROVE  JoinRead(c, r)'
<1>1. /\ todo[c] # <<>> /\ todo'[c] = Tail(todo[c]) /\ held'[c] = held[c] \cup {Head(todo[c])}
      /\ rows'[c] = (IF Grows(c) THEN rows[c] \cup {Head(todo[c])[2]} ELSE rows[c])
  BY TakeDoes
<1>2. resTicket' = resTicket
  BY StillViews
<1>3. PICK t \in Tickets :
        \/ /\ todo[c] = <<Row("order", r[1]), Row("reservation", r), Row("ticket", t)>>
           /\ held[c] = {} /\ rows[c] = {}
        \/ /\ todo[c] = <<Row("reservation", r), Row("ticket", t)>>
           /\ held[c] = {Row("order", r[1])} /\ rows[c] = {}
        \/ /\ \/ /\ todo[c] = <<Row("ticket", t)>>
                 /\ held[c] = {Row("order", r[1]), Row("reservation", r)}
              \/ /\ todo[c] = <<>>
                 /\ held[c] = {Row("order", r[1]), Row("reservation", r), Row("ticket", t)}
           /\ rows[c] = {} \/ (rows[c] = {r} /\ resTicket[r] = t)
  BY DEF JoinRead
<1>4. CASE /\ todo[c] = <<Row("order", r[1]), Row("reservation", r), Row("ticket", t)>>
           /\ held[c] = {} /\ rows[c] = {}
  <2>1. Head(todo[c]) = Row("order", r[1]) /\ Tail(todo[c]) = <<Row("reservation", r), Row("ticket", t)>>
    BY <1>4
  <2>2. ~Grows(c)
    BY <2>1 DEF Grows, Row
  <2>3. todo'[c] = <<Row("reservation", r), Row("ticket", t)>> /\ held'[c] = {Row("order", r[1])} /\ rows'[c] = {}
    BY <1>1, <1>4, <2>1, <2>2
  <2> QED BY <2>3 DEF JoinRead
<1>5. CASE /\ todo[c] = <<Row("reservation", r), Row("ticket", t)>>
           /\ held[c] = {Row("order", r[1])} /\ rows[c] = {}
  <2>1. Head(todo[c]) = Row("reservation", r) /\ Tail(todo[c]) = <<Row("ticket", t)>> /\ todo[c][2] = Row("ticket", t)
    BY <1>5
  <2>2. Grows(c) => t = resTicket[r] /\ Head(todo[c])[2] = r
    BY <2>1 DEF Grows, Fits, Row
  <2>3. /\ todo'[c] = <<Row("ticket", t)>> /\ held'[c] = {Row("order", r[1]), Row("reservation", r)}
        /\ rows'[c] = {} \/ (rows'[c] = {r} /\ resTicket'[r] = t)
    BY <1>1, <1>2, <1>5, <2>1, <2>2
  <2> QED BY <2>3 DEF JoinRead
<1>6. CASE /\ todo[c] = <<Row("ticket", t)>> /\ held[c] = {Row("order", r[1]), Row("reservation", r)}
           /\ rows[c] = {} \/ (rows[c] = {r} /\ resTicket[r] = t)
  <2>1. Head(todo[c]) = Row("ticket", t) /\ Tail(todo[c]) = <<>>
    BY <1>6
  <2>2. ~Grows(c)
    BY <2>1 DEF Grows, Row
  <2>3. /\ todo'[c] = <<>> /\ held'[c] = {Row("order", r[1]), Row("reservation", r), Row("ticket", t)}
        /\ rows'[c] = {} \/ (rows'[c] = {r} /\ resTicket'[r] = t)
    BY <1>1, <1>2, <1>6, <2>1, <2>2
  <2> QED BY <2>3 DEF JoinRead
<1> QED BY <1>1, <1>3, <1>4, <1>5, <1>6

LEMMA TakeCancel ==
    ASSUME CallTypes, NEW c \in Calls, Take(c), UNCHANGED coreVars, CancelKnows(c)
    PROVE  CancelKnows(c)'
<1> DEFINE q == request[c]
           r == q.res
           o == r[1]
<1>1. /\ todo[c] # <<>> /\ Head(todo[c]) \in Got(c) /\ Got(c)' = Got(c) /\ held[c] \subseteq held'[c]
      /\ request' = request /\ stage' = stage /\ writes' = writes
      /\ Range(todo'[c]) \subseteq Range(todo[c]) /\ Head(todo[c]) \in Range(todo[c])
      /\ rows'[c] = (IF Grows(c) THEN rows[c] \cup {Head(todo[c])[2]} ELSE rows[c])
  BY TakeDoes, TakeMore
<1>2. /\ Core!SuccessPayments(o)' = Core!SuccessPayments(o)
      /\ resStatus' = resStatus /\ orderUser' = orderUser /\ resTicket' = resTicket
  BY <1>1, StillViews
<1>3. stage[c] # "commit"
  BY <1>1 DEF CancelKnows
<1>4. q.op = "cancel" /\ r \in Res /\ q.order = o /\ q.percent \in Percents
  BY DEF CancelKnows
<1>5. CASE stage[c] = "first"
  <2>1. JoinRead(c, r)
    BY <1>5 DEF CancelKnows
  <2>2. JoinRead(c, r)'
    BY <1>1, <1>4, <2>1, TakeJoin
  <2> QED BY <1>1, <1>4, <1>5, <2>2 DEF CancelKnows
<1>6. CASE stage[c] = "refund"
  <2>1. /\ rows[c] = {r} /\ HasSeat(c, r)
        /\ resStatus[r] = "paid" /\ Core!SuccessPayments(o) # {}
        /\ Range(todo[c]) \subseteq {Row("payment", o), Row("user", orderUser[o])}
        /\ Row("user", orderUser[o]) \in Got(c)
    BY <1>6 DEF CancelKnows
  <2>2. ~Grows(c)
    BY <1>1, <2>1 DEF Grows, Row
  <2>3. HasSeat(c, r)'
    BY <1>1, <1>2, <2>1 DEF HasSeat
  <2> QED BY <1>1, <1>2, <1>4, <1>6, <2>1, <2>2, <2>3 DEF CancelKnows
<1> QED BY <1>3, <1>5, <1>6 DEF CancelKnows

LEMMA TakeReview ==
    ASSUME CallTypes, NEW c \in Calls, Take(c), UNCHANGED coreVars, ReviewKnows(c)
    PROVE  ReviewKnows(c)'
<1> DEFINE q == request[c]
           r == q.res
<1>1. todo[c] # <<>> /\ request' = request /\ stage' = stage
  BY TakeDoes
<1>2. stage[c] = "first" /\ JoinRead(c, r) /\ r \in Res
  BY <1>1 DEF ReviewKnows
<1>3. JoinRead(c, r)'
  BY <1>1, <1>2, TakeJoin
<1> QED BY <1>1, <1>2, <1>3 DEF ReviewKnows

LEMMA TakeChange ==
    ASSUME CallTypes, NEW c \in Calls, Take(c), UNCHANGED coreVars, ChangeKnows(c)
    PROVE  ChangeKnows(c)'
<1>1. /\ todo[c] # <<>> /\ Got(c)' = Got(c) /\ held[c] \subseteq held'[c]
      /\ request' = request /\ stage' = stage
  BY TakeDoes, TakeMore
<1>2. stage[c] # "commit"
  BY <1>1 DEF ChangeKnows
<1>3. orderStatus' = orderStatus /\ resStatus' = resStatus /\ resTicket' = resTicket /\ apiDue' = apiDue
  BY StillViews
<1> QED BY <1>1, <1>2, <1>3 DEF ChangeKnows

LEMMA TakeExpire ==
    ASSUME CallTypes, NEW c \in Calls, Take(c), UNCHANGED coreVars, Legal(todo[c], held[c]), ExpireKnows(c)
    PROVE  ExpireKnows(c)'
<1>1. /\ todo[c] # <<>> /\ todo[c] \in Seq(Locks) /\ Head(todo[c]) \in Got(c) /\ Got(c)' = Got(c)
      /\ request' = request /\ stage' = stage
      /\ held'[c] = held[c] \cup {Head(todo[c])} /\ Head(todo[c]) \in Locks
  BY TakeDoes, TakeMore
<1>2. stage[c] = "items"
  <2>1. Head(todo[c]) \in Range(todo[c])
    BY TakeMore
  <2> QED BY <1>1, <2>1 DEF ExpireKnows, Got
<1>3. PICK B : B = OrdersOf(held[c])
  OBVIOUS
<1>4. PICK R : R = Core!ReleasedBy(B)
  OBVIOUS
<1>5. /\ request[c].op = "expire" /\ B \in SUBSET Core!Due /\ B # {} /\ Cardinality(B) <= BatchSize
      /\ ItemsRead(c, R) /\ NoMoneyLocks(c)
  BY <1>2, <1>3, <1>4 DEF ExpireKnows
<1>6. R \in SUBSET Res /\ \A r \in R : resStatus[r] = "pending"
  BY <1>4 DEF Core!ReleasedBy, Core!Reservations, Res
<1>7. Core!ReleasedBy(B)' = R /\ resTicket' = resTicket /\ Core!Due' = Core!Due
  BY <1>4, StillViews
<1>8. ItemsRead(c, R)'
  BY <1>5, <1>6, <1>7, TakeItems
<1>9. Head(todo[c])[1] # "order"
  <2>1. held[c] # {}
    BY <1>3, <1>5 DEF OrdersOf
  <2>2. 1 \in DOMAIN todo[c] /\ Head(todo[c]) = todo[c][1]
    BY <1>1
  <2> QED BY <2>1, <2>2 DEF Legal
<1>10. OrdersOf(held'[c]) = B
  BY <1>1, <1>3, <1>9 DEF OrdersOf
<1>11. NoMoneyLocks(c)'
  BY <1>1, <1>5 DEF NoMoneyLocks
<1> QED BY <1>1, <1>2, <1>5, <1>7, <1>8, <1>10, <1>11 DEF ExpireKnows

(* A call that takes a lock knows what it knew.                            *)
LEMMA TakeKeeps ==
    ASSUME CallTypes, NEW c \in Calls, Take(c), UNCHANGED coreVars, CallKept(c)
    PROVE  CallKept(c)'
<1>1. /\ todo[c] # <<>> /\ todo[c] \in Seq(Locks) /\ held[c] \in SUBSET Locks /\ Got(c)' = Got(c)
      /\ request' = request /\ stage' = stage /\ writes' = writes
      /\ todo'[c] = Tail(todo[c]) /\ held'[c] = held[c] \cup {Head(todo[c])}
  BY TakeDoes DEF CallTypes
<1>2. Legal(Tail(todo[c]), held[c] \cup {Head(todo[c])})
  BY <1>1, TakeLegal DEF CallKept
<1>3. Legal(todo[c], held[c])'
  BY <1>1, <1>2 DEF Legal
<1>4. UserLast(c)'
  <2> SUFFICES ASSUME todo'[c] # <<>>, NEW l \in held'[c], l[1] = "user"
               PROVE  request[c].op = "reserve" /\ stage[c] = "seats"
    BY <1>1 DEF UserLast
  <2>1. CASE l \in held[c]
    BY <1>1, <2>1 DEF UserLast, CallKept
  <2>2. CASE l = Head(todo[c])
    <3>1. /\ Head(todo[c]) = todo[c][1] /\ Len(todo[c]) \in Nat \ {0} /\ DOMAIN todo[c] = 1..Len(todo[c])
          /\ Tail(todo[c]) \in Seq(Locks) /\ Len(Tail(todo[c])) = Len(todo[c]) - 1
      BY <1>1, TakeHead
    <3>2. Len(Tail(todo[c])) # 0
      <4>1. Tail(todo[c]) # <<>>
        BY <1>1
      <4>2. \A U \in Seq(Locks) : U # <<>> => Len(U) # 0
        OBVIOUS
      <4> QED BY <3>1, <4>1, <4>2
    <3>3. 1 \in DOMAIN todo[c] /\ l = todo[c][1] /\ Len(todo[c]) # 1
      BY <2>2, <3>1, <3>2
    <3> QED BY <3>3 DEF CallKept, Legal
  <2> QED BY <1>1, <2>1, <2>2
<1>5. ~Resting(c)
  BY <1>1 DEF Resting
<1>6. Working(c)'
  BY <1>5, TakeReserve, TakePay, TakeCancel, TakeReview, TakeChange, TakeExpire DEF CallKept, Knows, Working
<1>7. (stage[c] # "commit" => writes[c] = NoWrites)'
  BY <1>1 DEF CallKept, Knows
<1>8. (\A o \in Orders : Row("order", o) \in Got(c) => orderStatus[o] # "none")'
  BY <1>1, StillViews DEF CallKept, Knows
<1> QED BY <1>3, <1>4, <1>6, <1>7, <1>8 DEF CallKept, Knows

-----------------------------------------------------------------------------
(***************************************************************************)
(* The statements.                                                         *)
(***************************************************************************)
(* What Ask, Put and End do to the call.                                   *)
LEMMA AskDoes ==
    ASSUME CallTypes, NEW c \in Calls, NEW label \in Stages, NEW locks \in Seq(Locks),
           Ask(c, label, locks), UNCHANGED rows
    PROVE  /\ stage'[c] = label /\ todo'[c] = locks /\ request' = request /\ held' = held
           /\ rows' = rows /\ writes' = writes
           /\ Got(c)' = held[c] \cup Range(locks)
           /\ CallTypes' /\ \A d \in Calls \ {c} : SameCall(d)
<1>1. /\ stage' = [stage EXCEPT ![c] = label] /\ todo' = [todo EXCEPT ![c] = locks]
      /\ request' = request /\ held' = held /\ rows' = rows /\ writes' = writes
  BY DEF Ask
<1>2. stage'[c] = label /\ todo'[c] = locks
  BY <1>1 DEF CallTypes
<1>3. Got(c)' = held[c] \cup Range(locks)
  BY <1>1, <1>2 DEF Got
<1>4. CallTypes'
  BY <1>1 DEF CallTypes
<1>5. \A d \in Calls \ {c} : SameCall(d)
  BY <1>1 DEF SameCall, CallTypes
<1> QED BY <1>1, <1>2, <1>3, <1>4, <1>5

LEMMA PutDoes ==
    ASSUME CallTypes, NEW c \in Calls, NEW w, Put(c, w)
    PROVE  /\ stage'[c] = "commit" /\ writes'[c] = w /\ request' = request /\ todo' = todo /\ held' = held
           /\ rows' = rows /\ Got(c)' = Got(c)
           /\ CallTypes' /\ \A d \in Calls \ {c} : SameCall(d)
<1>1. /\ stage' = [stage EXCEPT ![c] = "commit"] /\ writes' = [writes EXCEPT ![c] = w]
      /\ request' = request /\ held' = held /\ rows' = rows /\ todo' = todo
  BY DEF Put
<1>2. stage'[c] = "commit" /\ writes'[c] = w
  BY <1>1 DEF CallTypes
<1>3. Got(c)' = Got(c)
  BY <1>1 DEF Got
<1>4. CallTypes'
  <2>1. "commit" \in Stages
    BY DEF Stages
  <2> QED BY <1>1, <2>1 DEF CallTypes
<1>5. \A d \in Calls \ {c} : SameCall(d)
  BY <1>1 DEF SameCall, CallTypes
<1> QED BY <1>1, <1>2, <1>3, <1>4, <1>5

LEMMA EndDoes ==
    ASSUME CallTypes, NEW c \in Calls, End(c)
    PROVE  /\ held'[c] = {} /\ request'[c] = NoRequest /\ CallKept(c)'
           /\ CallTypes' /\ \A d \in Calls \ {c} : SameCall(d)
<1>1. /\ stage' = [stage EXCEPT ![c] = "done"] /\ todo' = [todo EXCEPT ![c] = <<>>]
      /\ held' = [held EXCEPT ![c] = {}] /\ rows' = [rows EXCEPT ![c] = {}]
      /\ writes' = [writes EXCEPT ![c] = NoWrites] /\ request' = [request EXCEPT ![c] = NoRequest]
  BY DEF End, HeldAfterEnd
<1>2. /\ stage'[c] = "done" /\ todo'[c] = <<>> /\ held'[c] = {} /\ rows'[c] = {}
      /\ writes'[c] = NoWrites /\ request'[c] = NoRequest
  BY <1>1 DEF CallTypes
<1>3. CallTypes'
  <2>1. "done" \in Stages /\ <<>> \in Seq(Locks)
    BY DEF Stages
  <2> QED BY <1>1, <2>1 DEF CallTypes
<1>4. \A d \in Calls \ {c} : SameCall(d)
  BY <1>1 DEF SameCall, CallTypes
<1>5. Resting(c)'
  BY <1>2 DEF Resting
<1>6. Legal(todo[c], held[c])'
  <2>1. Legal(<<>>, {})
    BY DEF Legal
  <2> QED BY <1>2, <2>1
<1>7. UserLast(c)'
  BY <1>2 DEF UserLast
<1>8. Got(c)' = {}
  BY <1>2 DEF Got, Range
<1>9. Knows(c)'
  BY <1>2, <1>5, <1>8 DEF Knows
<1> QED BY <1>2, <1>3, <1>4, <1>6, <1>7, <1>9 DEF CallKept

(* A call that has taken all its locks has what it holds.                  *)
LEMMA ReadyGot ==
    ASSUME NEW c, todo[c] = <<>>
    PROVE  Got(c) = held[c]
BY DEF Got, Range

(* The locks of the items of some orders.                                  *)
LEMMA ResLocks ==
    /\ \A r \in Res : r[1] \in Orders /\ r[2] \in Tickets /\ Row("reservation", r) \in Locks
    /\ \A o \in Orders : Row("order", o) \in Locks /\ Row("payment", o) \in Locks
    /\ \A t \in Tickets : Row("ticket", t) \in Locks
    /\ \A u \in Users : Row("user", u) \in Locks
<1>1. \A r \in Res : r[1] \in Orders /\ r[2] \in Tickets
  BY DEF Res
<1> QED BY <1>1 DEF Locks, Row

LEMMA ReserveSeatsKeeps ==
    ASSUME CallTypes, NEW c \in Calls, ReserveSeats(c), UNCHANGED coreVars, CallKept(c)
    PROVE  CallKept(c)' /\ CallTypes' /\ held' = held /\ request' = request /\ \A d \in Calls \ {c} : SameCall(d)
<1> DEFINE q == request[c]
           S == q.seats
           L == TicketLocks(S)
<1>1. q.op = "reserve" /\ stage[c] = "first" /\ todo[c] = <<>> /\ Ask(c, "seats", L) /\ UNCHANGED rows
  BY DEF ReserveSeats, Ready
<1>2. ReserveKnows(c)
  BY <1>1 DEF CallKept, Knows, Working, Resting, PayKnows, CancelKnows, ReviewKnows, ChangeKnows, ExpireKnows
<1>3. held[c] = {Row("user", q.user)}
  BY <1>1, <1>2, ReadyGot DEF ReserveKnows
<1>4. S \in SUBSET Tickets /\ IsFiniteSet(S)
  BY <1>2, CoreAssumption, SameNumbers, FS_Subset DEF ReserveKnows, Core!FiniteRows
<1>5. /\ L \in Seq({"ticket"} \X S) /\ Range(L) = {"ticket"} \X S
      /\ \A i \in DOMAIN L : L[i][1] = "ticket"
      /\ \A i, j \in DOMAIN L : i < j => L[i][2] < L[j][2]
  BY <1>4, SeatsInOrder
<1>6. L \in Seq(Locks)
  BY <1>4, <1>5 DEF Locks
<1>7. "seats" \in Stages
  BY DEF Stages
<1> HIDE DEF L
<1>8. /\ stage'[c] = "seats" /\ todo'[c] = L /\ request' = request /\ held' = held
      /\ rows' = rows /\ writes' = writes
      /\ Got(c)' = held[c] \cup Range(L)
      /\ CallTypes' /\ \A d \in Calls \ {c} : SameCall(d)
  BY <1>1, <1>6, <1>7, AskDoes
<1>9. Legal(L, held[c])
  BY <1>3, <1>5 DEF Legal, Row
<1>10. UserLast(c)'
  BY <1>1, <1>8 DEF UserLast
<1>11. orderStatus' = orderStatus
  BY DEF coreVars
<1>12. ReserveKnows(c)'
  BY <1>2, <1>3, <1>5, <1>8, <1>11 DEF ReserveKnows
<1>13. (\A o \in Orders : Row("order", o) \in Got(c) => orderStatus[o] # "none")'
  BY <1>3, <1>5, <1>8 DEF Row
<1>14. Knows(c)'
  BY <1>1, <1>8, <1>12, <1>13 DEF Knows, Working, CallKept
<1> QED BY <1>8, <1>9, <1>10, <1>14 DEF CallKept, Legal

(* A statement changes the call that makes it, and leaves its locks and    *)
(* its request as they are unless the call ends.                           *)
Advances(c) ==
    /\ CallKept(c)' /\ CallTypes' /\ \A d \in Calls \ {c} : SameCall(d)
    /\ \/ held'[c] = held[c] /\ request'[c] = request[c]
       \/ held'[c] = {} /\ request'[c] = NoRequest

(* A call knows what its kind of call knows.                               *)
LEMMA KnowsByOp ==
    ASSUME NEW c, CallKept(c)
    PROVE  /\ request[c].op = "reserve" => ReserveKnows(c)
           /\ request[c].op = "pay" => PayKnows(c)
           /\ request[c].op = "cancel" => CancelKnows(c)
           /\ request[c].op = "review" => ReviewKnows(c)
           /\ request[c].op = "change" => ChangeKnows(c)
           /\ request[c].op = "expire" => ExpireKnows(c)
<1>1. Resting(c) => request[c].op = "none"
  BY DEF Resting, NoRequest
<1> QED BY <1>1 DEF CallKept, Knows, Working, ReserveKnows, PayKnows, CancelKnows, ReviewKnows, ChangeKnows, ExpireKnows

LEMMA EndAdvances == ASSUME CallTypes, NEW c \in Calls, End(c) PROVE Advances(c)
BY EndDoes DEF Advances

LEMMA ReserveSeatsAdvances ==
    ASSUME CallTypes, NEW c \in Calls, ReserveSeats(c), UNCHANGED coreVars, CallKept(c)
    PROVE  Advances(c)
BY ReserveSeatsKeeps DEF Advances

(* The pending reservations of an order.                                   *)
LEMMA PendingAre ==
    ASSUME RowTypes, RowsAgree, NEW R \in SUBSET Res, \A r \in R : resStatus[r] = "pending"
    PROVE  /\ IsFiniteSet(R) /\ \A r \in R : resTicket[r] \in Tickets
           /\ \A r, s \in R : resTicket[r] = resTicket[s] => r = s
<1>1. IsFiniteSet(Res)
  BY CoreAssumption, SameNumbers, FS_Product DEF Core!FiniteRows, Res
<1>2. IsFiniteSet(R)
  BY <1>1, FS_Subset
<1>3. \A r \in R : resTicket[r] \in Tickets
  BY DEF RowTypes
<1>4. \A r, s \in R : resTicket[r] = resTicket[s] => r = s
  BY DEF RowsAgree, Holds
<1> QED BY <1>2, <1>3, <1>4

(* The query for pending items asks for locks in the right order.          *)
LEMMA AskItems ==
    ASSUME CallTypes, RowTypes, RowsAgree, NEW R \in SUBSET Res, \A r \in R : resStatus[r] = "pending",
           NEW H \in SUBSET ({"order"} \X Orders), \A r \in R : Row("order", r[1]) \in H
    PROVE  /\ ItemLocks(R) \in Seq(Locks)
           /\ Legal(ItemLocks(R), H)
           /\ \A l \in Range(ItemLocks(R)) : l[1] \notin {"user", "payment", "order"}
           /\ \A r \in R : Row("reservation", r) \in Range(ItemLocks(R))
           /\ \A i \in DOMAIN ItemLocks(R) : ItemLocks(R)[i][1] = "reservation" =>
                /\ ItemLocks(R)[i][2] \in R /\ i < Len(ItemLocks(R))
                /\ ItemLocks(R)[i + 1] = Row("ticket", resTicket[ItemLocks(R)[i][2]])
<1> DEFINE L == ItemLocks(R)
<1>1. /\ L \in Seq(({"reservation"} \X R) \cup ({"ticket"} \X Tickets))
      /\ \A r \in R : Row("reservation", r) \in Range(L)
      /\ \A i \in DOMAIN L : L[i][1] = "reservation" =>
           /\ L[i][2] \in R /\ i < Len(L)
           /\ L[i + 1] = Row("ticket", resTicket[L[i][2]])
      /\ \A i, j \in DOMAIN L : i < j /\ L[i][1] = "ticket" /\ L[j][1] = "ticket" => L[i][2] < L[j][2]
  BY PendingAre, ItemsInOrder
<1> HIDE DEF L
<1>2. L \in Seq(Locks)
  <2>1. ({"reservation"} \X R) \cup ({"ticket"} \X Tickets) \subseteq Locks
    BY DEF Locks
  <2> QED BY <1>1, <2>1
<1>3. \A i \in DOMAIN L : L[i][1] \in {"reservation", "ticket"}
  <2>1. \A i \in DOMAIN L : L[i] \in ({"reservation"} \X R) \cup ({"ticket"} \X Tickets)
    BY <1>1
  <2>2. \A x \in ({"reservation"} \X R) \cup ({"ticket"} \X Tickets) : x[1] \in {"reservation", "ticket"}
    OBVIOUS
  <2> QED BY <2>1, <2>2
<1>4. \A l \in Range(L) : l[1] \notin {"user", "payment", "order"}
  BY <1>3 DEF Range
<1>5. \A l \in H : l[1] = "order"
  OBVIOUS
<1>6. Legal(L, H)
  <2>1. \A i \in DOMAIN L : L[i][1] = "reservation" => Row("order", L[i][2][1]) \in H
    BY <1>1
  <2>2. \A i \in DOMAIN L : L[i][1] # "order" /\ L[i][1] # "payment" /\ L[i][1] # "user"
    BY <1>3
  <2> QED BY <1>1, <1>5, <2>1, <2>2 DEF Legal
<1> QED BY <1>1, <1>2, <1>4, <1>6 DEF L

(* Each statement, by its kind of call.                                    *)
LEMMA PayItemsAdvances ==
    ASSUME CallTypes, RowTypes, RowsAgree, NEW c \in Calls, PayItems(c), UNCHANGED coreVars, CallKept(c)
    PROVE  Advances(c)
<1> DEFINE q == request[c]
           o == q.order
           R == Core!Pending(o)
           L == ItemLocks(R)
<1>1. q.op = "pay" /\ stage[c] = "first" /\ todo[c] = <<>>
  BY DEF PayItems, Ready
<1>2. /\ o \in Orders /\ q.method \in Core!Methods /\ q.succeeds \in BOOLEAN
      /\ Got(c) = {Row("order", o)} /\ rows[c] = {}
  BY <1>1, KnowsByOp DEF PayKnows
<1>3. held[c] = {Row("order", o)}
  BY <1>1, <1>2, ReadyGot
<1>4. CASE End(c)
  BY <1>4, EndAdvances
<1>5. CASE orderStatus[o] = "pending" /\ o \notin apiDue /\ Core!SuccessPayments(o) = {} /\ Ask(c, "items", L) /\ UNCHANGED rows
  <2>1. R \in SUBSET Res /\ (\A r \in R : resStatus[r] = "pending" /\ r[1] = o)
    BY DEF Core!Pending, Core!HasStatus, Core!Reservations, Core!OrderOf, Res
  <2>2. held[c] \in SUBSET ({"order"} \X Orders) /\ \A r \in R : Row("order", r[1]) \in held[c]
    BY <1>2, <1>3, <2>1 DEF Row
  <2>3. /\ L \in Seq(Locks) /\ Legal(L, held[c])
        /\ \A l \in Range(L) : l[1] \notin {"user", "payment", "order"}
        /\ \A r \in R : Row("reservation", r) \in Range(L)
        /\ \A i \in DOMAIN L : L[i][1] = "reservation" =>
             /\ L[i][2] \in R /\ i < Len(L) /\ L[i + 1] = Row("ticket", resTicket[L[i][2]])
    BY <2>1, <2>2, AskItems
  <2>4. "items" \in Stages
    BY DEF Stages
  <2> HIDE DEF L, R
  <2>5. /\ stage'[c] = "items" /\ todo'[c] = L /\ request' = request /\ held' = held
        /\ rows' = rows /\ writes' = writes /\ Got(c)' = held[c] \cup Range(L)
        /\ CallTypes' /\ \A d \in Calls \ {c} : SameCall(d)
    BY <1>5, <2>3, <2>4, AskDoes
  <2>6. /\ Core!Pending(o)' = R /\ Core!SuccessPayments(o)' = Core!SuccessPayments(o)
        /\ orderStatus' = orderStatus /\ apiDue' = apiDue /\ resTicket' = resTicket
    BY StillViews, <2>5 DEF R
  <2>7. PICK P : P = R
    OBVIOUS
  <2>8. ItemsRead(c, P)'
    <3>1. rows'[c] = {}
      BY <1>2, <2>5
    <3> QED BY <2>3, <2>5, <2>6, <2>7, <3>1 DEF ItemsRead
  <2>9. NoMoneyLocks(c)'
    BY <1>3, <2>3, <2>5 DEF NoMoneyLocks, Row
  <2>10. PayKnows(c)'
    BY <1>1, <1>2, <1>3, <1>5, <2>5, <2>6, <2>7, <2>8, <2>9 DEF PayKnows
  <2>11. UserLast(c)'
    BY <1>3, <2>5 DEF UserLast, Row
  <2>12. (\A x \in Orders : Row("order", x) \in Got(c) => orderStatus[x] # "none")'
    BY <1>3, <1>5, <2>3, <2>5, <2>6 DEF Row
  <2>13. Knows(c)'
    BY <1>1, <2>5, <2>10, <2>12 DEF Knows, Working, CallKept
  <2>14. Legal(todo[c], held[c])'
    BY <2>3, <2>5 DEF Legal
  <2> QED BY <2>5, <2>11, <2>13, <2>14 DEF CallKept, Advances
<1> QED BY <1>4, <1>5 DEF PayItems, Refuse

LEMMA PayWalletAdvances ==
    ASSUME CallTypes, RowTypes, RowsAgree, NEW c \in Calls, PayWallet(c), UNCHANGED coreVars, CallKept(c)
    PROVE  Advances(c)
<1> DEFINE q == request[c]
           o == q.order
           l == Row("user", orderUser[o])
<1>1. /\ q.op = "pay" /\ stage[c] = "items" /\ todo[c] = <<>> /\ rows[c] # {} /\ q.method = "wallet" /\ q.succeeds
      /\ Ask(c, "wallet", <<l>>) /\ UNCHANGED rows
  BY DEF PayWallet, Ready
<1>2. /\ o \in Orders /\ q.method \in Core!Methods /\ q.succeeds \in BOOLEAN
      /\ Row("order", o) \in held[c]
      /\ orderStatus[o] = "pending" /\ o \notin apiDue /\ Core!SuccessPayments(o) = {}
      /\ ItemsRead(c, Core!Pending(o)) /\ NoMoneyLocks(c)
  BY <1>1, KnowsByOp DEF PayKnows
<1>3. PICK R : R = Core!Pending(o)
  OBVIOUS
<1>4. orderUser[o] \in Users /\ l \in Locks
  <2>1. orderUser[o] \in Users
    BY <1>2 DEF RowsAgree
  <2> QED BY <2>1, ResLocks
<1>5. <<l>> \in Seq(Locks) /\ Range(<<l>>) = {l} /\ l[1] = "user" /\ "wallet" \in Stages
  BY <1>4 DEF Range, Row, Stages
<1>6. /\ stage'[c] = "wallet" /\ todo'[c] = <<l>> /\ request' = request /\ held' = held
      /\ rows' = rows /\ writes' = writes /\ Got(c)' = held[c] \cup {l}
      /\ CallTypes' /\ \A d \in Calls \ {c} : SameCall(d)
  <2> HIDE DEF l
  <2> QED BY <1>1, <1>5, AskDoes
<1>7. /\ Core!Pending(o)' = R /\ Core!SuccessPayments(o)' = Core!SuccessPayments(o)
      /\ orderStatus' = orderStatus /\ apiDue' = apiDue /\ resTicket' = resTicket /\ orderUser' = orderUser
  BY StillViews, <1>3, <1>6
<1>8. Got(c) = held[c]
  BY <1>1, ReadyGot
<1>9. rows[c] = R /\ \A r \in R : Row("ticket", resTicket[r]) \in held[c]
  BY <1>1, <1>2, <1>3, ItemsAllRead
<1>10. ItemsRead(c, R)'
  BY <1>5, <1>6, <1>7, <1>9 DEF ItemsRead, Range
<1>11. PayKnows(c)'
  BY <1>1, <1>2, <1>5, <1>6, <1>7, <1>10 DEF PayKnows
<1>12. Legal(<<l>>, held[c])
  BY <1>5 DEF CallKept, Legal
<1>13. UserLast(c)'
  BY <1>2, <1>6, <1>8 DEF UserLast, NoMoneyLocks
<1>14. (\A x \in Orders : Row("order", x) \in Got(c) => orderStatus[x] # "none")'
  BY <1>5, <1>6, <1>7, <1>8 DEF CallKept, Knows, Row
<1>15. Knows(c)'
  BY <1>1, <1>6, <1>11, <1>14 DEF Knows, Working, CallKept
<1>16. Legal(todo[c], held[c])'
  BY <1>6, <1>12 DEF Legal
<1> QED BY <1>6, <1>13, <1>15, <1>16 DEF CallKept, Advances

(* A locked join with nothing left to lock.                                *)
LEMMA JoinDone ==
    ASSUME NEW c, NEW r \in Res, JoinRead(c, r), todo[c] = <<>>
    PROVE  /\ Row("order", r[1]) \in held[c]
           /\ \A l \in held[c] : l[1] # "user"
           /\ rows[c] # {} => rows[c] = {r} /\ HasSeat(c, r)
BY DEF JoinRead, HasSeat, Row

LEMMA CancelRefundAdvances ==
    ASSUME CallTypes, RowTypes, RowsAgree, NEW c \in Calls, CancelRefund(c), UNCHANGED coreVars, CallKept(c)
    PROVE  Advances(c)
<1> DEFINE q == request[c]
           r == q.res
           o == r[1]
           l == Row("user", orderUser[o])
           p == Row("payment", o)
<1>1. /\ q.op = "cancel" /\ stage[c] = "first" /\ todo[c] = <<>> /\ rows[c] # {} /\ resStatus[r] = "paid"
  BY DEF CancelRefund, Ready
<1>2. r \in Res /\ q.order = o /\ q.percent \in Percents /\ JoinRead(c, r)
  BY <1>1, KnowsByOp DEF CancelKnows
<1>3. /\ Row("order", o) \in held[c] /\ \A x \in held[c] : x[1] # "user"
      /\ rows[c] = {r} /\ HasSeat(c, r)
  BY <1>1, <1>2, JoinDone
<1>4. CASE End(c)
  BY <1>4, EndAdvances
<1>5. CASE Core!SuccessPayments(o) # {} /\ Ask(c, "refund", <<p, l>>) /\ UNCHANGED rows
  <2>1. orderUser[o] \in Users /\ o \in Orders
    <3>1. o \in Orders
      BY <1>2, ResLocks
    <3>2. orderStatus[o] # "none"
      BY <1>1, <1>2 DEF RowsAgree
    <3> QED BY <3>1, <3>2 DEF RowsAgree
  <2>2. l \in Locks /\ p \in Locks
    BY <2>1, ResLocks
  <2>3. /\ <<p, l>> \in Seq(Locks) /\ Range(<<p, l>>) = {p, l} /\ "refund" \in Stages
        /\ l[1] = "user" /\ p[1] = "payment" /\ p[2] = o
    BY <2>2 DEF Range, Row, Stages
  <2> HIDE DEF l, p
  <2>4. /\ stage'[c] = "refund" /\ todo'[c] = <<p, l>> /\ request' = request /\ held' = held
        /\ rows' = rows /\ writes' = writes /\ Got(c)' = held[c] \cup {p, l}
        /\ CallTypes' /\ \A d \in Calls \ {c} : SameCall(d)
    BY <1>5, <2>3, AskDoes
  <2>5. /\ Core!SuccessPayments(o)' = Core!SuccessPayments(o)
        /\ orderStatus' = orderStatus /\ resStatus' = resStatus /\ resTicket' = resTicket /\ orderUser' = orderUser
    BY StillViews, <2>4
  <2>6. HasSeat(c, r)'
    BY <1>3, <2>4, <2>5 DEF HasSeat
  <2>7. CancelKnows(c)'
    <3>1. Range(todo'[c]) = {p, l} /\ l \in Got(c)'
      BY <2>3, <2>4
    <3> QED BY <1>1, <1>2, <1>3, <1>5, <2>4, <2>5, <2>6, <3>1 DEF CancelKnows, p, l
  <2>8. Legal(<<p, l>>, held[c])
    BY <1>3, <2>3 DEF CallKept, Legal
  <2>9. UserLast(c)'
    BY <1>3, <2>4 DEF UserLast
  <2>10. (\A x \in Orders : Row("order", x) \in Got(c) => orderStatus[x] # "none")'
    <3>1. Got(c) = held[c]
      BY <1>1, ReadyGot
    <3> QED BY <3>1, <2>3, <2>4, <2>5 DEF CallKept, Knows, Row
  <2>11. Knows(c)'
    BY <1>1, <2>4, <2>7, <2>10 DEF Knows, Working, CallKept
  <2>12. Legal(todo[c], held[c])'
    BY <2>4, <2>8 DEF Legal
  <2> QED BY <2>4, <2>9, <2>11, <2>12 DEF CallKept, Advances
<1> QED BY <1>4, <1>5 DEF CancelRefund, Refuse

LEMMA ChangeRowAdvances ==
    ASSUME CallTypes, NEW c \in Calls, ChangeRow(c), UNCHANGED coreVars, CallKept(c)
    PROVE  Advances(c)
<1> DEFINE q == request[c]
           r == q.res
           o == r[1]
           l == Row("reservation", r)
<1>1. /\ q.op = "change" /\ stage[c] = "first" /\ todo[c] = <<>>
  BY DEF ChangeRow, Ready
<1>2. r \in Res /\ q.order = o /\ q.seat \in Tickets /\ Got(c) = {Row("order", o)}
  BY <1>1, KnowsByOp DEF ChangeKnows
<1>3. held[c] = {Row("order", o)}
  BY <1>1, <1>2, ReadyGot
<1>4. CASE End(c)
  BY <1>4, EndAdvances
<1>5. CASE orderStatus[o] = "pending" /\ o \notin apiDue /\ Ask(c, "reservation", <<l>>) /\ UNCHANGED rows
  <2>1. /\ l \in Locks /\ <<l>> \in Seq(Locks) /\ Range(<<l>>) = {l} /\ "reservation" \in Stages
        /\ l[1] = "reservation" /\ l[2] = r
    BY <1>2, ResLocks DEF Range, Row, Stages
  <2>2. /\ stage'[c] = "reservation" /\ todo'[c] = <<l>> /\ request' = request /\ held' = held
        /\ rows' = rows /\ writes' = writes /\ Got(c)' = held[c] \cup {l}
        /\ CallTypes' /\ \A d \in Calls \ {c} : SameCall(d)
    <3> HIDE DEF l
    <3> QED BY <1>5, <2>1, AskDoes
  <2>3. orderStatus' = orderStatus /\ apiDue' = apiDue
    BY StillViews
  <2>4. ChangeKnows(c)'
    BY <1>1, <1>2, <1>3, <1>5, <2>2, <2>3 DEF ChangeKnows
  <2>5. Legal(<<l>>, held[c])
    BY <1>3, <2>1 DEF Legal, Row
  <2>6. UserLast(c)'
    BY <1>3, <2>2 DEF UserLast, Row
  <2>7. (\A x \in Orders : Row("order", x) \in Got(c) => orderStatus[x] # "none")'
    BY <1>3, <1>5, <2>1, <2>2, <2>3 DEF Row
  <2>8. Knows(c)'
    BY <1>1, <2>2, <2>4, <2>7 DEF Knows, Working, CallKept
  <2>9. Legal(todo[c], held[c])'
    BY <2>2, <2>5 DEF Legal
  <2> QED BY <2>2, <2>6, <2>8, <2>9 DEF CallKept, Advances
<1> QED BY <1>4, <1>5 DEF ChangeRow, Refuse

LEMMA ChangeSeatsAdvances ==
    ASSUME CallTypes, RowTypes, NEW c \in Calls, ChangeSeats(c), UNCHANGED coreVars, CallKept(c)
    PROVE  Advances(c)
<1> DEFINE q == request[c]
           r == q.res
           o == r[1]
           S == {resTicket[r], q.seat}
           L == TicketLocks(S)
<1>1. /\ q.op = "change" /\ stage[c] = "reservation" /\ todo[c] = <<>>
  BY DEF ChangeSeats, Ready
<1>2. /\ r \in Res /\ q.order = o /\ q.seat \in Tickets /\ Got(c) = {Row("order", o), Row("reservation", r)}
      /\ orderStatus[o] = "pending" /\ o \notin apiDue
  BY <1>1, KnowsByOp DEF ChangeKnows
<1>3. held[c] = {Row("order", o), Row("reservation", r)}
  BY <1>1, <1>2, ReadyGot
<1>4. CASE End(c)
  BY <1>4, EndAdvances
<1>5. CASE resStatus[r] = "pending" /\ Ask(c, "seats", L) /\ UNCHANGED rows
  <2>1. S \in SUBSET Tickets /\ IsFiniteSet(S)
    <3>1. S \in SUBSET Tickets
      BY <1>2 DEF RowTypes
    <3> QED BY <3>1, CoreAssumption, SameNumbers, FS_Subset DEF Core!FiniteRows
  <2>2. /\ L \in Seq({"ticket"} \X S) /\ Range(L) = {"ticket"} \X S
        /\ \A i \in DOMAIN L : L[i][1] = "ticket"
        /\ \A i, j \in DOMAIN L : i < j => L[i][2] < L[j][2]
    BY <2>1, SeatsInOrder
  <2>3. L \in Seq(Locks) /\ "seats" \in Stages
    BY <2>1, <2>2 DEF Locks, Stages
  <2> HIDE DEF L
  <2>4. /\ stage'[c] = "seats" /\ todo'[c] = L /\ request' = request /\ held' = held
        /\ rows' = rows /\ writes' = writes /\ Got(c)' = held[c] \cup Range(L)
        /\ CallTypes' /\ \A d \in Calls \ {c} : SameCall(d)
    BY <1>5, <2>3, AskDoes
  <2>5. orderStatus' = orderStatus /\ apiDue' = apiDue /\ resStatus' = resStatus /\ resTicket' = resTicket
    BY StillViews
  <2>6. Range(L) = {Row("ticket", q.seat), Row("ticket", resTicket[r])}
    BY <2>2 DEF Row
  <2>7. ChangeKnows(c)'
    <3>1. Got(c)' = {Row("order", o), Row("reservation", r), Row("ticket", q.seat), Row("ticket", resTicket[r])}
      BY <1>3, <2>4, <2>6
    <3> QED BY <1>1, <1>2, <1>3, <1>5, <2>4, <2>5, <3>1 DEF ChangeKnows
  <2>8. Legal(L, held[c])
    BY <1>3, <2>2 DEF Legal, Row
  <2>9. UserLast(c)'
    BY <1>3, <2>4 DEF UserLast, Row
  <2>10. (\A x \in Orders : Row("order", x) \in Got(c) => orderStatus[x] # "none")'
    BY <1>2, <1>3, <2>4, <2>5, <2>6 DEF Row
  <2>11. Knows(c)'
    BY <1>1, <2>4, <2>7, <2>10 DEF Knows, Working, CallKept
  <2>12. Legal(todo[c], held[c])'
    BY <2>4, <2>8 DEF Legal
  <2> QED BY <2>4, <2>9, <2>11, <2>12 DEF CallKept, Advances
<1> QED BY <1>4, <1>5 DEF ChangeSeats, ChangeLocks, Refuse

(* The orders that are due are open.                                       *)
LEMMA DueTypes ==
    ASSUME RowTypes
    PROVE  /\ Core!Due \subseteq Orders /\ IsFiniteSet(Core!Due)
           /\ \A o \in Core!Due : orderStatus[o] = "pending"
<1>1. Core!Due \subseteq Orders /\ \A o \in Core!Due : orderStatus[o] = "pending"
  BY DEF RowTypes, Core!Due
<1> QED BY <1>1, CoreAssumption, SameNumbers, FS_Subset DEF Core!FiniteRows

(* The job takes the orders it locks while nobody holds them.              *)
LEMMA ExpireOrdersDoes ==
    ASSUME CallTypes, RowTypes, RowsAgree, NEW c \in Calls, ExpireOrders(c), UNCHANGED coreVars, CallKept(c)
    PROVE  /\ CallKept(c)' /\ CallTypes' /\ \A d \in Calls \ {c} : SameCall(d)
           /\ \/ held'[c] = {} /\ request'[c] = NoRequest
              \/ /\ request'[c] = request[c]
                 /\ \A l \in held'[c], d \in Calls \ {c} : l \notin held[d]
<1>1. request[c].op = "expire" /\ stage[c] = "first" /\ todo[c] = <<>>
  BY DEF ExpireOrders, Ready
<1>2. Got(c) = {} /\ rows[c] = {}
  BY <1>1, KnowsByOp DEF ExpireKnows
<1>3. CASE End(c)
  BY <1>3, EndDoes
<1>4. ASSUME NEW B \in SUBSET Skippable(c), B # {},
             Cardinality(B) = Min({BatchSize, Cardinality(Skippable(c))}),
             held' = [held EXCEPT ![c] = {Row("order", o) : o \in B}],
             stage' = [stage EXCEPT ![c] = "items"],
             todo' = [todo EXCEPT ![c] = ItemLocks(UNION {Core!Pending(o) : o \in B})],
             UNCHANGED <<request, rows, writes>>
      PROVE  /\ CallKept(c)' /\ CallTypes' /\ \A d \in Calls \ {c} : SameCall(d)
             /\ request'[c] = request[c]
             /\ \A l \in held'[c], d \in Calls \ {c} : l \notin held[d]
  <2> DEFINE H == {Row("order", o) : o \in B}
             L == ItemLocks(UNION {Core!Pending(o) : o \in B})
  <2>1. B \subseteq Core!Due /\ B \subseteq Orders /\ \A o \in B : orderStatus[o] = "pending"
    BY DueTypes DEF Skippable
  <2>2. Cardinality(B) <= BatchSize
    <3>1. Cardinality(Skippable(c)) \in Nat
      BY DueTypes, FS_Subset, FS_CardinalityType DEF Skippable
    <3>2. BatchSize \in Nat
      BY CoreAssumption DEF Core!BookingAssumption
    <3>3. \E m \in {BatchSize, Cardinality(Skippable(c))} :
             \A x \in {BatchSize, Cardinality(Skippable(c))} : m <= x
      BY <3>1, <3>2
    <3>4. \A x \in {BatchSize, Cardinality(Skippable(c))} : Min({BatchSize, Cardinality(Skippable(c))}) <= x
      BY <3>3 DEF Min
    <3> QED BY <1>4, <3>4
  <2>3. PICK R : R = Core!ReleasedBy(B)
    OBVIOUS
  <2>4. R \in SUBSET Res /\ \A r \in R : resStatus[r] = "pending" /\ r[1] \in B
    BY <2>3 DEF Core!ReleasedBy, Core!Reservations, Core!OrderOf, Res
  <2>5. UNION {Core!Pending(o) : o \in B} = R
    BY <2>3 DEF Core!ReleasedBy, Core!Pending, Core!HasStatus
  <2>6. L = ItemLocks(R)
    BY <2>5
  <2>7. H \in SUBSET ({"order"} \X Orders) /\ \A r \in R : Row("order", r[1]) \in H
    BY <2>1, <2>4 DEF Row
  <2> HIDE DEF L
  <2>8. /\ L \in Seq(Locks) /\ Legal(L, H)
        /\ \A l \in Range(L) : l[1] \notin {"user", "payment", "order"}
        /\ \A r \in R : Row("reservation", r) \in Range(L)
        /\ \A i \in DOMAIN L : L[i][1] = "reservation" =>
             /\ L[i][2] \in R /\ i < Len(L) /\ L[i + 1] = Row("ticket", resTicket[L[i][2]])
    BY <2>4, <2>6, <2>7, AskItems
  <2>9. /\ stage'[c] = "items" /\ todo'[c] = L /\ held'[c] = H /\ request' = request /\ rows' = rows
        /\ writes' = writes
    BY <1>4 DEF CallTypes, L
  <2>10. CallTypes'
    <3>1. "items" \in Stages /\ H \in SUBSET Locks
      BY <2>7 DEF Stages, Locks
    <3> QED BY <1>4, <2>8, <3>1 DEF CallTypes, L
  <2>11. \A d \in Calls \ {c} : SameCall(d)
    BY <1>4 DEF SameCall, CallTypes
  <2>12. Got(c)' = H \cup Range(L)
    BY <2>9 DEF Got
  <2>13. Core!ReleasedBy(B)' = R /\ resTicket' = resTicket /\ Core!Due' = Core!Due /\ orderStatus' = orderStatus
    BY <2>3, StillViews
  <2>14. ItemsRead(c, R)'
    <3>1. rows'[c] = {}
      BY <1>2, <2>9
    <3> QED BY <2>8, <2>9, <2>12, <2>13, <3>1 DEF ItemsRead
  <2>16. \A l \in H : l[1] = "order"
    BY DEF Row
  <2>15. OrdersOf(held'[c]) = B
    <3>1. {h \in H : h[1] = "order"} = H
      BY <2>16
    <3>2. {l[2] : l \in H} = B
      <4>1. \A o \in B : Row("order", o) \in H /\ Row("order", o)[2] = o
        BY RowParts
      <4>2. \A l \in H : l[2] \in B
        BY RowParts
      <4> HIDE DEF H
      <4> QED BY <4>1, <4>2
    <3>3. OrdersOf(H) = {l[2] : l \in {h \in H : h[1] = "order"}}
      BY DEF OrdersOf
    <3>4. OrdersOf(H) = B
      BY <3>1, <3>2, <3>3
    <3> QED BY <2>9, <3>4
  <2>17. NoMoneyLocks(c)'
    BY <2>8, <2>12, <2>16 DEF NoMoneyLocks
  <2>18. ExpireKnows(c)'
    BY <1>1, <1>4, <2>1, <2>2, <2>9, <2>13, <2>14, <2>15, <2>17 DEF ExpireKnows
  <2>19. UserLast(c)'
    BY <2>9, <2>16 DEF UserLast
  <2>20. (\A x \in Orders : Row("order", x) \in Got(c) => orderStatus[x] # "none")'
    <3>1. \A x : Row("order", x) \in H => x \in B
      BY DEF Row
    <3>2. \A x : Row("order", x) \notin Range(L)
      BY <2>8 DEF Row
    <3> QED BY <2>1, <2>12, <2>13, <3>1, <3>2
  <2>21. Knows(c)'
    BY <1>1, <2>9, <2>18, <2>20 DEF Knows, Working, CallKept
  <2>22. Legal(todo[c], held[c])'
    BY <2>8, <2>9 DEF Legal
  <2>23. \A l \in held'[c], d \in Calls \ {c} : l \notin held[d]
    BY <2>9 DEF Skippable
  <2> QED BY <2>9, <2>10, <2>11, <2>19, <2>21, <2>22, <2>23 DEF CallKept
<1> QED BY <1>3, <1>4 DEF ExpireOrders

LEMMA PutAdvances ==
    ASSUME CallTypes, NEW c \in Calls, NEW w, Put(c, w), UNCHANGED coreVars, CallKept(c), todo[c] = <<>>, Working(c)'
    PROVE  Advances(c)
<1>1. /\ stage'[c] = "commit" /\ writes'[c] = w /\ request' = request /\ todo' = todo /\ held' = held
      /\ rows' = rows /\ Got(c)' = Got(c)
      /\ CallTypes' /\ \A d \in Calls \ {c} : SameCall(d)
  BY PutDoes
<1>2. Legal(todo[c], held[c])'
  BY <1>1 DEF CallKept, Legal
<1>3. UserLast(c)'
  BY <1>1 DEF UserLast
<1>4. (\A x \in Orders : Row("order", x) \in Got(c) => orderStatus[x] # "none")'
  BY <1>1, StillViews DEF CallKept, Knows
<1>5. Knows(c)'
  BY <1>1, <1>4 DEF Knows
<1> QED BY <1>1, <1>2, <1>3, <1>5 DEF CallKept, Advances

LEMMA StillOrders == ASSUME UNCHANGED coreVars PROVE \A o : SameOrder(o)
BY DEF coreVars, SameOrder

LEMMA ReserveDecidesAdvances ==
    ASSUME CallTypes, NEW c \in Calls, ReserveDecides(c), UNCHANGED coreVars, CallKept(c)
    PROVE  Advances(c)
<1> DEFINE q == request[c]
<1>1. q.op = "reserve" /\ stage[c] = "seats" /\ todo[c] = <<>>
  BY DEF ReserveDecides, Ready
<1>2. ReserveKnows(c)
  BY <1>1, KnowsByOp
<1>3. CASE End(c)
  BY <1>3, EndAdvances
<1>4. CASE (\A t \in q.seats : Core!Reservable(t)) /\ Put(c, ReserveWrites(q))
  <2>1. /\ stage'[c] = "commit" /\ writes'[c] = ReserveWrites(q) /\ request' = request /\ todo' = todo
        /\ rows' = rows /\ Got(c)' = Got(c)
    BY <1>4, PutDoes
  <2>2. orderStatus' = orderStatus /\ \A t : Core!Reservable(t)' = Core!Reservable(t)
    BY StillViews DEF Core!Reservable
  <2>3. ReserveWrites(q)' = ReserveWrites(q)
    BY <2>1 DEF ReserveWrites
  <2>4. ReserveKnows(c)'
    BY <1>1, <1>2, <1>4, <2>1, <2>2, <2>3 DEF ReserveKnows
  <2> QED BY <1>1, <1>4, <2>4, PutAdvances DEF Working
<1> QED BY <1>3, <1>4 DEF ReserveDecides, Refuse

LEMMA PayDecidesAdvances ==
    ASSUME CallTypes, RowTypes, NEW c \in Calls, PayDecides(c), UNCHANGED coreVars, CallKept(c)
    PROVE  Advances(c)
<1> DEFINE q == request[c]
           o == q.order
           R == Core!Pending(o)
<1>1. /\ q.op = "pay" /\ todo[c] = <<>> /\ stage[c] \in {"items", "wallet"}
      /\ stage[c] = "items" => rows[c] = {} \/ q.method # "wallet" \/ ~q.succeeds
  BY DEF PayDecides, Ready
<1>2. /\ o \in Orders /\ q.method \in Core!Methods /\ q.succeeds \in BOOLEAN
      /\ Row("order", o) \in held[c]
      /\ orderStatus[o] = "pending" /\ o \notin apiDue /\ Core!SuccessPayments(o) = {}
      /\ ItemsRead(c, R)
      /\ stage[c] = "wallet" =>
           /\ q.method = "wallet" /\ q.succeeds /\ rows[c] # {}
           /\ Row("user", orderUser[o]) \in Got(c)
  BY <1>1, KnowsByOp DEF PayKnows
<1>3. rows[c] = R /\ \A r \in R : Row("ticket", resTicket[r]) \in held[c]
  BY <1>1, <1>2, ItemsAllRead
<1>4. CASE End(c)
  BY <1>4, EndAdvances
<1>5. CASE /\ rows[c] # {} /\ ~(stage[c] = "wallet" /\ wallet[orderUser[o]] < Core!Total(rows[c]))
           /\ Put(c, PayWrites(q, rows[c]))
  <2>1. /\ stage'[c] = "commit" /\ writes'[c] = PayWrites(q, R) /\ request' = request /\ todo' = todo
        /\ rows' = rows /\ held' = held /\ Got(c)' = Got(c)
    BY <1>3, <1>5, PutDoes
  <2>2. /\ R' = R /\ Core!SuccessPayments(o)' = Core!SuccessPayments(o)
        /\ orderStatus' = orderStatus /\ apiDue' = apiDue /\ resTicket' = resTicket /\ orderUser' = orderUser
        /\ wallet' = wallet /\ ticketStatus' = ticketStatus
    BY <2>1, StillViews
  <2>3. R \in SUBSET Res /\ SameOrder(o) /\ resPrice' = resPrice
    BY StillOrders DEF Core!Pending, Core!HasStatus, Core!Reservations, Res, coreVars
  <2>4. PayWrites(q, R)' = PayWrites(q, R)
    BY <1>2, <2>1, <2>2, <2>3, PayWritesSame
  <2>5. Core!Total(R)' = Core!Total(R)
    BY <2>2, <2>3, SameTotals
  <2>6. PICK P : P = R
    OBVIOUS
  <2>7. ItemsRead(c, P)'
    BY <1>2, <2>1, <2>2, <2>6 DEF ItemsRead
  <2>8. q.succeeds /\ q.method = "wallet" =>
           Row("user", orderUser[o]) \in held[c] /\ wallet[orderUser[o]] >= Core!Total(R)
    <3> SUFFICES ASSUME q.succeeds, q.method = "wallet"
                 PROVE  Row("user", orderUser[o]) \in held[c] /\ wallet[orderUser[o]] >= Core!Total(R)
      OBVIOUS
    <3>1. stage[c] = "wallet"
      BY <1>1, <1>5
    <3>2. Row("user", orderUser[o]) \in held[c]
      BY <1>1, <1>2, <3>1, ReadyGot
    <3>3. orderUser[o] \in Users /\ wallet[orderUser[o]] \in Nat /\ Core!Total(R) \in Nat
      <4>1. Row("user", orderUser[o]) \in Locks
        BY <3>2 DEF CallTypes
      <4>2. orderUser[o] \in Users
        BY <4>1 DEF Locks, Row
      <4> QED BY <4>2, PendingTotal DEF RowTypes
    <3>4. ~(wallet[orderUser[o]] < Core!Total(R))
      BY <1>3, <1>5, <3>1
    <3> HIDE DEF R
    <3> QED BY <3>2, <3>3, <3>4
  <2>9. PayKnows(c)'
    <3>1. q' = q /\ o' = o
      BY <2>1
    <3>2. rows'[c] # {} /\ todo'[c] = <<>>
      BY <1>1, <1>5, <2>1
    <3>3. ItemsRead(c, R)'
      BY <2>2, <2>6, <2>7
    <3>4. writes'[c] = PayWrites(q, R)'
      BY <2>1, <2>4
    <3> QED BY <1>1, <1>2, <2>1, <2>2, <2>5, <2>8, <3>1, <3>2, <3>3, <3>4 DEF PayKnows
  <2> QED BY <1>1, <1>5, <2>9, PutAdvances DEF Working
<1> QED BY <1>4, <1>5 DEF PayDecides, Refuse

LEMMA CancelDecidesAdvances ==
    ASSUME CallTypes, RowTypes, NEW c \in Calls, CancelDecides(c), UNCHANGED coreVars, CallKept(c)
    PROVE  Advances(c)
<1> DEFINE q == request[c]
           r == q.res
           o == r[1]
<1>1. /\ q.op = "cancel" /\ todo[c] = <<>> /\ stage[c] \in {"refund", "first"}
      /\ stage[c] = "first" => rows[c] = {} \/ resStatus[r] # "paid" \/ MatchOf[resTicket[r]] \in started
  BY DEF CancelDecides, Ready
<1>2. /\ r \in Res /\ q.order = o /\ q.percent \in Percents
      /\ \/ stage[c] = "first" /\ JoinRead(c, r)
         \/ /\ stage[c] = "refund" /\ rows[c] = {r} /\ HasSeat(c, r)
            /\ Core!SuccessPayments(o) # {}
            /\ Row("user", orderUser[o]) \in held[c]
  BY <1>1, KnowsByOp, ReadyGot DEF CancelKnows
<1>3. CASE End(c)
  BY <1>3, EndAdvances
<1>4. CASE /\ rows[c] # {} /\ resStatus[r] \in {"pending", "paid"} /\ MatchOf[resTicket[r]] \notin started
           /\ Put(c, CancelWrites(q))
  <2>1. /\ stage'[c] = "commit" /\ writes'[c] = CancelWrites(q) /\ request' = request /\ todo' = todo
        /\ rows' = rows /\ held' = held
    BY <1>4, PutDoes
  <2>2. /\ Core!SuccessPayments(o)' = Core!SuccessPayments(o)
        /\ orderStatus' = orderStatus /\ resStatus' = resStatus /\ resTicket' = resTicket /\ orderUser' = orderUser
        /\ started' = started
    BY <2>1, StillViews
  <2>3. CancelWrites(q)' = CancelWrites(q)
    BY <1>2, <2>1, StillOrders, CancelWritesSame
  <2>4. HasSeat(c, r)
    BY <1>1, <1>2, <1>4, JoinDone
  <2>5. resStatus[r] = "paid" => Core!SuccessPayments(o) # {} /\ Row("user", orderUser[o]) \in held[c]
    BY <1>1, <1>2, <1>4
  <2>6. HasSeat(c, r)'
    BY <2>1, <2>2, <2>4 DEF HasSeat
  <2>7. CancelKnows(c)'
    BY <1>1, <1>2, <1>4, <2>1, <2>2, <2>3, <2>5, <2>6 DEF CancelKnows
  <2> QED BY <1>1, <1>4, <2>7, PutAdvances DEF Working
<1> QED BY <1>3, <1>4 DEF CancelDecides, Refuse

(* Support finds no pending reservation of an order that has been paid.    *)
LEMMA ReviewDecidesAdvances ==
    ASSUME CallTypes, RowTypes, RowsAgree, NEW c \in Calls, ReviewDecides(c), UNCHANGED coreVars, CallKept(c)
    PROVE  Advances(c)
<1> DEFINE q == request[c]
           r == q.res
           o == r[1]
<1>1. q.op = "review" /\ todo[c] = <<>> /\ stage[c] = "first"
  BY DEF ReviewDecides, Ready
<1>2. r \in Res /\ q.order = o /\ q.to \in {"paid", "expired"} /\ JoinRead(c, r)
  BY <1>1, KnowsByOp DEF ReviewKnows
<1>3. CASE End(c)
  BY <1>3, EndAdvances
<1>4. CASE rows[c] # {} /\ Core!Reviewable(r, q.to) /\ Put(c, ReviewWrites(q))
  <2>1. /\ stage'[c] = "commit" /\ writes'[c] = ReviewWrites(q) /\ request' = request /\ todo' = todo
        /\ held' = held
    BY <1>4, PutDoes
  <2>2. /\ Core!Pending(o)' = Core!Pending(o) /\ Core!Paid(o)' = Core!Paid(o)
        /\ resStatus' = resStatus /\ resTicket' = resTicket
    BY <2>1, StillViews
  <2>3. resStatus[r] = "pending"
    BY <1>4 DEF Core!Reviewable
  <2>4. Core!SuccessPayments(o) = {}
    <3>1. orderStatus[o] = "pending"
      BY <1>2, <2>3 DEF RowsAgree
    <3>2. \A p \in Core!Payments : p[1] = o => payStatus[p] # "success"
      BY <3>1 DEF RowsAgree, Pays, Core!Payments
    <3> QED BY <3>2 DEF Core!SuccessPayments
  <2>5. q.to = "expired"
    BY <1>2, <1>4, <2>4 DEF Core!Reviewable, Core!OrderOf
  <2>6. ReviewWrites(q)' = ReviewWrites(q)
    BY <2>1, <2>2, <2>5 DEF ReviewWrites
  <2>7. HasSeat(c, r)
    BY <1>1, <1>2, <1>4, JoinDone
  <2>8. HasSeat(c, r)'
    BY <2>1, <2>2, <2>7 DEF HasSeat
  <2>9. ReviewKnows(c)'
    BY <1>1, <1>2, <2>1, <2>2, <2>3, <2>5, <2>6, <2>8 DEF ReviewKnows
  <2> QED BY <1>1, <1>4, <2>9, PutAdvances DEF Working
<1> QED BY <1>3, <1>4 DEF ReviewDecides, Refuse

LEMMA ChangeDecidesAdvances ==
    ASSUME CallTypes, NEW c \in Calls, ChangeDecides(c), UNCHANGED coreVars, CallKept(c)
    PROVE  Advances(c)
<1> DEFINE q == request[c]
           r == q.res
           o == r[1]
<1>1. q.op = "change" /\ todo[c] = <<>> /\ stage[c] = "seats"
  BY DEF ChangeDecides, Ready
<1>2. ChangeKnows(c)
  BY <1>1, KnowsByOp
<1>3. CASE End(c)
  BY <1>3, EndAdvances
<1>4. CASE Core!Replaceable(r, q.seat) /\ Put(c, ChangeWrites(q))
  <2>1. /\ stage'[c] = "commit" /\ writes'[c] = ChangeWrites(q) /\ request' = request /\ todo' = todo
        /\ held' = held /\ Got(c)' = Got(c)
    BY <1>4, PutDoes
  <2>2. /\ orderStatus' = orderStatus /\ apiDue' = apiDue
        /\ resStatus' = resStatus /\ resTicket' = resTicket /\ ticketStatus' = ticketStatus
    BY StillViews
  <2>3. ChangeWrites(q)' = ChangeWrites(q)
    BY <2>1, <2>2 DEF ChangeWrites
  <2>4. Core!Replaceable(r, q.seat)' = Core!Replaceable(r, q.seat)
    BY <2>1, <2>2 DEF Core!Replaceable
  <2>5. ChangeKnows(c)'
    BY <1>1, <1>2, <1>4, <2>1, <2>2, <2>3, <2>4 DEF ChangeKnows
  <2> QED BY <1>1, <1>4, <2>5, PutAdvances DEF Working
<1> QED BY <1>3, <1>4 DEF ChangeDecides, Refuse

LEMMA ExpireDecidesAdvances ==
    ASSUME CallTypes, NEW c \in Calls, ExpireDecides(c), UNCHANGED coreVars, CallKept(c)
    PROVE  Advances(c)
<1>1. /\ request[c].op = "expire" /\ todo[c] = <<>> /\ stage[c] = "items"
      /\ Put(c, ExpireWrites(OrdersOf(held[c]), rows[c]))
  BY DEF ExpireDecides, Ready
<1>2. PICK B : B = OrdersOf(held[c])
  OBVIOUS
<1>3. PICK R : R = Core!ReleasedBy(B)
  OBVIOUS
<1>4. B \in SUBSET Core!Due /\ B # {} /\ Cardinality(B) <= BatchSize /\ ItemsRead(c, R) /\ NoMoneyLocks(c)
  BY <1>1, <1>2, <1>3, KnowsByOp DEF ExpireKnows
<1>5. rows[c] = R
  BY <1>1, <1>4, ItemsAllRead
<1>6. /\ stage'[c] = "commit" /\ writes'[c] = ExpireWrites(B, R) /\ request' = request /\ todo' = todo
      /\ held' = held /\ rows' = rows /\ Got(c)' = Got(c)
  BY <1>1, <1>2, <1>5, PutDoes
<1>7. /\ Core!ReleasedBy(B)' = R /\ Core!Due' = Core!Due /\ resTicket' = resTicket /\ ticketStatus' = ticketStatus
  BY <1>3, StillViews
<1>8. ExpireWrites(B, R)' = ExpireWrites(B, R)
  <2>1. Core!ReleasedBy(B)' = Core!ReleasedBy(B)
    BY <1>3, <1>7
  <2>2. Core!SeatsToMove(R)' = Core!SeatsToMove(R)
    BY <1>7 DEF Core!SeatsToMove, Core!TicketsOf
  <2> QED BY <2>1, <2>2 DEF ExpireWrites
<1>9. ItemsRead(c, R)' /\ NoMoneyLocks(c)'
  BY <1>4, <1>6, <1>7 DEF ItemsRead, NoMoneyLocks
<1>10. OrdersOf(held'[c]) = B
  BY <1>2, <1>6
<1>11. ExpireKnows(c)'
  BY <1>1, <1>4, <1>6, <1>7, <1>8, <1>9, <1>10 DEF ExpireKnows
<1> QED BY <1>1, <1>11, PutAdvances DEF Working

-----------------------------------------------------------------------------
(***************************************************************************)
(* BEGIN.                                                                  *)
(***************************************************************************)
(* What a request is about, when it is made.                               *)
ReserveAsked(q) ==
    /\ q.op = "reserve" /\ q.user \in Users /\ q.order \in Unused
    /\ q.seats \in SUBSET Tickets /\ q.seats # {} /\ Cardinality(q.seats) <= MaxPerOrder
    /\ \A d \in Calls : request[d].op = "reserve" => request[d].order # q.order
PayAsked(q) ==
    /\ q.op = "pay" /\ q.order \in Orders /\ orderStatus[q.order] # "none"
    /\ q.method \in Core!Methods /\ q.succeeds \in BOOLEAN
    /\ NextAttempt(q.order)[2] + Paying(q.order) <= MaxAttempts
JoinAsked(q) ==
    /\ q.op \in {"cancel", "review", "change"} /\ q.res \in Res /\ q.order = q.res[1]
    /\ orderStatus[q.order] # "none"
    /\ q.op = "cancel" => q.percent \in Percents
    /\ q.op = "review" => q.to \in {"paid", "expired"}
    /\ q.op = "change" => q.seat \in Tickets

(* Every request is of one of the six kinds.                               *)
LEMMA RequestsAre ==
    ASSUME RowTypes, RowsAgree, NEW q \in Requests
    PROVE  ReserveAsked(q) \/ PayAsked(q) \/ JoinAsked(q) \/ q = [op |-> "expire"]
<1> DEFINE taken == {request[c].order : c \in {d \in Calls : request[d].op \notin {"none", "expire"}}}
           active == {r \in Core!Reservations : resStatus[r] \in {"pending", "paid"}}
           open == {r[1] : r \in active}
           seatSets == {T \in (SUBSET Tickets) \ {{}} : Cardinality(T) <= MaxPerOrder}
           payable == {x \in open : NextAttempt(x)[2] + Paying(x) <= MaxAttempts}
           means == {<<"wallet", TRUE>>, <<"bank_card", TRUE>>, <<"bank_card", FALSE>>}
           new == First(Unused \ taken)
           RQ == {[op |-> "reserve", user |-> u, order |-> o, seats |-> S] : u \in Users, o \in new, S \in seatSets}
           PQ == {[op |-> "pay", order |-> o, method |-> m[1], succeeds |-> m[2]] : o \in payable, m \in means}
           CQ == {[op |-> "cancel", order |-> r[1], res |-> r, percent |-> p] : r \in active, p \in Percents}
           VQ == {[op |-> "review", order |-> r[1], res |-> r, to |-> s] : r \in active, s \in {"paid", "expired"}}
           HQ == {[op |-> "change", order |-> x[1][1], res |-> x[1], seat |-> x[2]] : x \in active \X Tickets}
<1>1. q \in RQ \/ q \in PQ \/ q \in CQ \/ q \in VQ \/ q \in HQ \/ q = [op |-> "expire"]
  <2>1. Requests = RQ \cup PQ \cup CQ \cup VQ \cup HQ \cup {[op |-> "expire"]}
    BY DEF Requests
  <2> HIDE DEF RQ, PQ, CQ, VQ, HQ
  <2> QED BY <2>1
<1>a. \A S \in seatSets : S \in SUBSET Tickets /\ S # {} /\ Cardinality(S) <= MaxPerOrder
  OBVIOUS
<1>b. \A m \in means : m[1] \in Core!Methods /\ m[2] \in BOOLEAN
  <2>1. means \subseteq {"wallet", "bank_card"} \X {TRUE, FALSE}
    <3>1. \A x \in {"wallet", "bank_card"}, b \in {TRUE, FALSE} : <<x, b>> \in {"wallet", "bank_card"} \X {TRUE, FALSE}
      OBVIOUS
    <3>2. \A S : <<"wallet", TRUE>> \in S /\ <<"bank_card", TRUE>> \in S /\ <<"bank_card", FALSE>> \in S => means \subseteq S
      BY Zenon
    <3> HIDE DEF means
    <3> QED BY <3>1, <3>2
  <2>2. \A m \in {"wallet", "bank_card"} \X {TRUE, FALSE} : m[1] \in Core!Methods /\ m[2] \in BOOLEAN
    BY DEF Core!Methods
  <2> HIDE DEF means
  <2> QED BY <2>1, <2>2
<1>c. \A o \in new : o \in Unused /\ o \notin taken
  BY DEF First
<1>d. \A o \in payable : o \in open /\ NextAttempt(o)[2] + Paying(o) <= MaxAttempts
  OBVIOUS
<1>e. \A d \in Calls : request[d].op = "reserve" => request[d].order \in taken
  OBVIOUS
<1>2. \A r \in active : r \in Res /\ r[1] \in Orders /\ orderStatus[r[1]] # "none"
  <2>1. \A r \in active : r \in Res /\ resStatus[r] # "none"
    BY DEF Core!Reservations, Res
  <2> QED BY <2>1, ResLocks DEF RowsAgree
<1>3. \A o \in open : o \in Orders /\ orderStatus[o] # "none"
  BY <1>2
<1> HIDE DEF taken, active, open, seatSets, payable, means, new
<1>4. CASE q \in RQ
  <2>1. PICK u \in Users, o \in new, S \in seatSets : q = [op |-> "reserve", user |-> u, order |-> o, seats |-> S]
    BY <1>4
  <2>2. q.op = "reserve" /\ q.user = u /\ q.order = o /\ q.seats = S
    BY <2>1
  <2>3. o \in Unused /\ o \notin taken
    BY <1>c
  <2>4. \A d \in Calls : request[d].op = "reserve" => request[d].order # o
    BY <1>e, <2>3
  <2> QED BY <1>a, <2>2, <2>3, <2>4 DEF ReserveAsked
<1>5. CASE q \in PQ
  <2>1. PICK o \in payable, m \in means : q = [op |-> "pay", order |-> o, method |-> m[1], succeeds |-> m[2]]
    BY <1>5
  <2>2. q.op = "pay" /\ q.order = o /\ q.method = m[1] /\ q.succeeds = m[2]
    BY <2>1
  <2>3. m[1] \in Core!Methods /\ m[2] \in BOOLEAN
    BY <1>b
  <2>4. o \in Orders /\ orderStatus[o] # "none" /\ NextAttempt(o)[2] + Paying(o) <= MaxAttempts
    BY <1>3, <1>d
  <2> QED BY <2>2, <2>3, <2>4 DEF PayAsked
<1>6. CASE q \in CQ
  <2>1. PICK r \in active, p \in Percents : q = [op |-> "cancel", order |-> r[1], res |-> r, percent |-> p]
    BY <1>6
  <2>2. q.op = "cancel" /\ q.order = r[1] /\ q.res = r /\ q.percent = p
    BY <2>1
  <2> QED BY <1>2, <2>2 DEF JoinAsked
<1>7. CASE q \in VQ
  <2>1. PICK r \in active, s \in {"paid", "expired"} : q = [op |-> "review", order |-> r[1], res |-> r, to |-> s]
    BY <1>7
  <2>2. q.op = "review" /\ q.order = r[1] /\ q.res = r /\ q.to = s
    BY <2>1
  <2> QED BY <1>2, <2>2 DEF JoinAsked
<1>8. CASE q \in HQ
  <2>1. PICK x \in active \X Tickets : q = [op |-> "change", order |-> x[1][1], res |-> x[1], seat |-> x[2]]
    BY <1>8
  <2>2. q.op = "change" /\ q.order = x[1][1] /\ q.res = x[1] /\ q.seat = x[2] /\ x[1] \in active /\ x[2] \in Tickets
    BY <2>1
  <2> QED BY <1>2, <2>2 DEF JoinAsked
<1> QED BY <1>1, <1>4, <1>5, <1>6, <1>7, <1>8

(* The first statement asks for locks in the right order.                  *)
LEMMA FirstLegal ==
    ASSUME RowTypes, RowsAgree, NEW q \in Requests
    PROVE  /\ FirstLocks(q) \in Seq(Locks) /\ Legal(FirstLocks(q), {})
           /\ q.op = "reserve" => FirstLocks(q) = <<Row("user", q.user)>>
           /\ q.op \in {"pay", "change"} => FirstLocks(q) = <<Row("order", q.order)>>
           /\ q.op \in {"cancel", "review"} => FirstLocks(q) = JoinLocks(q.res)
           /\ q.op = "expire" => FirstLocks(q) = <<>>
           /\ \A o \in Orders : Row("order", o) \in Range(FirstLocks(q)) => orderStatus[o] # "none"
<1>1. CASE ReserveAsked(q)
  <2>1. FirstLocks(q) = <<Row("user", q.user)>>
    BY <1>1 DEF ReserveAsked, FirstLocks
  <2>2. FirstLocks(q) \in Seq(Locks)
    BY <1>1, <2>1, ResLocks DEF ReserveAsked
  <2>3. Range(FirstLocks(q)) = {Row("user", q.user)}
    BY <2>1 DEF Range
  <2>4. Legal(FirstLocks(q), {})
    BY <2>1 DEF Legal, Row
  <2> QED BY <1>1, <2>1, <2>2, <2>3, <2>4 DEF ReserveAsked, Row
<1>2. CASE PayAsked(q) \/ (JoinAsked(q) /\ q.op = "change")
  <2>1. /\ FirstLocks(q) = <<Row("order", q.order)>> /\ q.op \in {"pay", "change"}
        /\ q.order \in Orders /\ orderStatus[q.order] # "none"
    BY <1>2, ResLocks DEF PayAsked, JoinAsked, FirstLocks
  <2>2. FirstLocks(q) \in Seq(Locks)
    BY <2>1, ResLocks
  <2>3. Range(FirstLocks(q)) = {Row("order", q.order)}
    BY <2>1 DEF Range
  <2>4. Legal(FirstLocks(q), {})
    BY <2>1 DEF Legal, Row
  <2> QED BY <2>1, <2>2, <2>3, <2>4 DEF Row
<1>3. CASE JoinAsked(q) /\ q.op # "change"
  <2> DEFINE r == q.res
             a == Row("order", r[1])
             b == Row("reservation", r)
             t == Row("ticket", resTicket[r])
  <2>1. FirstLocks(q) = <<a, b, t>> /\ q.op \in {"cancel", "review"} /\ r \in Res /\ orderStatus[r[1]] # "none"
        /\ FirstLocks(q) = JoinLocks(r)
    BY <1>3 DEF JoinAsked, FirstLocks, JoinLocks
  <2>2. a \in Locks /\ b \in Locks /\ t \in Locks
    <3>1. resTicket[r] \in Tickets
      BY <2>1 DEF RowTypes
    <3> QED BY <2>1, <3>1, ResLocks
  <2>3. /\ a[1] = "order" /\ a[2] = r[1] /\ b[1] = "reservation" /\ b[2] = r /\ t[1] = "ticket"
        /\ a = Row("order", b[2][1])
    BY DEF Row
  <2>3a. \A o : Row("order", o) = a => o = r[1]
    BY DEF Row
  <2>3b. \A o : Row("order", o)[1] = "order"
    BY DEF Row
  <2> HIDE DEF a, b, t
  <2>4. FirstLocks(q) \in Seq(Locks)
    BY <2>1, <2>2
  <2>5. Range(FirstLocks(q)) = {a, b, t}
    BY <2>1 DEF Range
  <2>6. Legal(<<a, b, t>>, {})
    BY <2>3 DEF Legal
  <2>7. \A o \in Orders : Row("order", o) \in {a, b, t} => orderStatus[o] # "none"
    BY <2>1, <2>3, <2>3a, <2>3b
  <2> QED BY <2>1, <2>4, <2>5, <2>6, <2>7
<1>4. CASE q = [op |-> "expire"]
  <2>1. q.op = "expire" /\ FirstLocks(q) = <<>>
    BY <1>4 DEF FirstLocks
  <2>2. Legal(<<>>, {}) /\ Range(<<>>) = {} /\ <<>> \in Seq(Locks)
    BY DEF Legal, Range
  <2> QED BY <2>1, <2>2
<1> QED BY <1>1, <1>2, <1>3, <1>4, RequestsAre

(* A call that begins knows nothing yet, and its locks are in order.       *)
LEMMA BeginKeeps ==
    ASSUME CallTypes, RowTypes, RowsAgree, NEW c \in Calls, NEW q \in Requests, MayBegin(c), Begin(c, q),
           UNCHANGED coreVars, CallKept(c)
    PROVE  /\ CallKept(c)' /\ CallTypes' /\ \A d \in Calls \ {c} : SameCall(d)
           /\ held'[c] = {} /\ request'[c] = q
<1> DEFINE L == FirstLocks(q)
<1>1. /\ stage[c] = "idle" /\ request' = [request EXCEPT ![c] = q] /\ stage' = [stage EXCEPT ![c] = "first"]
      /\ todo' = [todo EXCEPT ![c] = L] /\ held' = held /\ rows' = rows /\ writes' = writes
  BY DEF MayBegin, Begin
<1>2. /\ L \in Seq(Locks) /\ Legal(L, {})
      /\ q.op = "reserve" => L = <<Row("user", q.user)>>
      /\ q.op \in {"pay", "change"} => L = <<Row("order", q.order)>>
      /\ q.op \in {"cancel", "review"} => L = JoinLocks(q.res)
      /\ q.op = "expire" => L = <<>>
      /\ \A o \in Orders : Row("order", o) \in Range(L) => orderStatus[o] # "none"
  BY FirstLegal
<1> HIDE DEF L
<1>3. Resting(c)
  BY <1>1 DEF CallKept, Knows, Working, ReserveKnows, PayKnows, CancelKnows, ReviewKnows, ChangeKnows, ExpireKnows
<1>4. held[c] = {} /\ rows[c] = {} /\ writes[c] = NoWrites
  BY <1>3 DEF Resting
<1>5. request'[c] = q /\ stage'[c] = "first" /\ todo'[c] = L /\ held'[c] = {} /\ rows'[c] = {} /\ writes'[c] = NoWrites
  BY <1>1, <1>4 DEF CallTypes
<1>6. CallTypes'
  <2>1. "first" \in Stages
    BY DEF Stages
  <2> QED BY <1>1, <1>2, <2>1 DEF CallTypes
<1>7. \A d \in Calls \ {c} : SameCall(d)
  BY <1>1 DEF SameCall, CallTypes
<1>8. Got(c)' = Range(L)
  BY <1>5 DEF Got
<1>9. orderStatus' = orderStatus /\ resTicket' = resTicket
  BY StillViews
<1>10. Working(c)'
  <2>1. CASE ReserveAsked(q)
    <3>1. Range(L) = {Row("user", q.user)}
      BY <1>2, <2>1 DEF ReserveAsked, Range
    <3>2. ReserveKnows(c)'
      BY <1>5, <1>8, <1>9, <2>1, <3>1 DEF ReserveAsked, ReserveKnows, Unused
    <3> QED BY <3>2 DEF Working
  <2>2. CASE PayAsked(q)
    <3>1. Range(L) = {Row("order", q.order)}
      BY <1>2, <2>2 DEF PayAsked, Range
    <3>2. PayKnows(c)'
      BY <1>5, <1>8, <2>2, <3>1 DEF PayAsked, PayKnows
    <3> QED BY <3>2 DEF Working
  <2>3. CASE JoinAsked(q) /\ q.op = "change"
    <3>1. Range(L) = {Row("order", q.order)}
      BY <1>2, <2>3 DEF Range
    <3>2. ChangeKnows(c)'
      BY <1>5, <1>8, <2>3, <3>1 DEF JoinAsked, ChangeKnows
    <3> QED BY <3>2 DEF Working
  <2>4. CASE JoinAsked(q) /\ q.op \in {"cancel", "review"}
    <3>1. q.res \in Res /\ resTicket[q.res] \in Tickets
      BY <2>4 DEF JoinAsked, RowTypes
    <3>2. JoinRead(c, q.res)'
      BY <1>2, <1>5, <2>4, <3>1 DEF JoinRead, JoinLocks
    <3>3. (CancelKnows(c) \/ ReviewKnows(c))'
      BY <1>5, <2>4, <3>2 DEF JoinAsked, CancelKnows, ReviewKnows
    <3> QED BY <3>3 DEF Working
  <2>5. CASE q = [op |-> "expire"]
    <3>1. q.op = "expire" /\ Range(L) = {}
      BY <1>2, <2>5 DEF Range
    <3>2. ExpireKnows(c)'
      BY <1>5, <1>8, <3>1 DEF ExpireKnows
    <3> QED BY <3>2 DEF Working
  <2>6. JoinAsked(q) => q.op \in {"cancel", "review", "change"}
    BY DEF JoinAsked
  <2> QED BY <2>1, <2>2, <2>3, <2>4, <2>5, <2>6, RequestsAre
<1>11. UserLast(c)'
  BY <1>5 DEF UserLast
<1>12. Legal(todo[c], held[c])'
  BY <1>2, <1>5 DEF Legal
<1>13. (\A x \in Orders : Row("order", x) \in Got(c) => orderStatus[x] # "none")'
  BY <1>2, <1>8, <1>9
<1>14. Knows(c)'
  BY <1>5, <1>10, <1>13 DEF Knows
<1> QED BY <1>5, <1>6, <1>7, <1>11, <1>12, <1>14 DEF CallKept

-----------------------------------------------------------------------------
(***************************************************************************)
(* The numbers of the payment attempts.                                    *)
(***************************************************************************)
(* A step that leaves the attempts alone, and one that adds the next.      *)
SameAttempts == \A p \in Pays : payStatus'[p] = "none" <=> payStatus[p] = "none"
NewAttempt(p) ==
    /\ payStatus[p] = "none" /\ payStatus'[p] # "none"
    /\ \A k \in 1..(p[2] - 1) : payStatus[<<p[1], k>>] # "none"
    /\ \A x \in Pays : x # p => payStatus'[x] = payStatus[x]

(* A step of Booking leaves the attempts alone or adds the next of an order. *)
LEMMA PayColumnSteps ==
    ASSUME RowTypes, [Core!Next]_coreVars
    PROVE  SameAttempts \/ \E p \in Pays : NewAttempt(p)
<1>1. ASSUME payStatus' = payStatus PROVE SameAttempts
  BY <1>1 DEF SameAttempts
<1>2. ASSUME NEW p \in Core!Payments, NEW s \in {"failed", "success"}, NEW a, NEW m, Core!InsertPayment(p, s, a, m)
      PROVE  NewAttempt(p) /\ p \in Pays
  <2>1. p \in Pays /\ payStatus' = [payStatus EXCEPT ![p] = s]
    BY <1>2 DEF Core!InsertPayment, Core!Payments, Pays
  <2>2. payStatus'[p] = s /\ \A x \in Pays : x # p => payStatus'[x] = payStatus[x]
    BY <2>1 DEF RowTypes
  <2> QED BY <1>2, <2>1, <2>2 DEF NewAttempt, Core!InsertPayment
<1>3. ASSUME NEW r, NEW a, NEW p, Core!Cancel(r, a, p)
      PROVE  SameAttempts
  <2>1. payStatus' = Core!SetStatus(payStatus, Core!PaymentsToClose(r), "refunded")
    BY <1>3 DEF Core!Cancel
  <2>2. \A x \in Core!PaymentsToClose(r) : payStatus[x] = "success"
    BY DEF Core!PaymentsToClose, Core!SuccessPayments
  <2> QED BY <2>1, <2>2 DEF Core!SetStatus, SameAttempts, RowTypes
<1>4. CASE Core!UserStep
  <2>1. ASSUME NEW u \in Users, NEW o \in Orders, NEW S \in SUBSET Tickets, Core!Reserve(u, o, S)
        PROVE  SameAttempts
    <3>1. UNCHANGED Core!moneyVars
      BY <2>1 DEF Core!Reserve
    <3>2. payStatus' = payStatus
      BY <3>1 DEF Core!moneyVars
    <3> QED BY <1>1, <3>2
  <2>2. ASSUME NEW u \in Users, NEW p \in Core!Payments, NEW m \in Core!Methods, Core!PayFailed(u, p, m)
        PROVE  NewAttempt(p) /\ p \in Pays
    BY <1>2, <2>2 DEF Core!PayFailed
  <2>3. ASSUME NEW u \in Users, NEW p \in Core!Payments, NEW m \in Core!Methods, Core!PaySuccess(u, p, m)
        PROVE  NewAttempt(p) /\ p \in Pays
    <3>1. Core!InsertPayment(p, "success", Core!AmountDue(p[1]), m)
      BY <2>3 DEF Core!PaySuccess
    <3> QED BY <1>2, <3>1
  <2>4. ASSUME NEW r \in Core!Reservations, NEW s \in {"paid", "expired"}, Core!SetReservationStatus(r, s)
        PROVE  SameAttempts
    <3>1. UNCHANGED Core!moneyVars
      BY <2>4 DEF Core!SetReservationStatus
    <3>2. payStatus' = payStatus
      BY <3>1 DEF Core!moneyVars
    <3> QED BY <1>1, <3>2
  <2>5. ASSUME NEW r \in Core!Reservations, NEW t \in Tickets, Core!ChangeTicket(r, t)
        PROVE  SameAttempts
    <3>1. UNCHANGED Core!moneyVars
      BY <2>5 DEF Core!ChangeTicket
    <3>2. payStatus' = payStatus
      BY <3>1 DEF Core!moneyVars
    <3> QED BY <1>1, <3>2
  <2> QED BY <1>3, <1>4, <2>1, <2>2, <2>3, <2>4, <2>5 DEF Core!UserStep
<1>5. CASE Core!Job
  BY <1>1, <1>5 DEF Core!Job, Core!ExpireBatch, Core!moneyVars
<1>6. CASE Core!Clock
  BY <1>1, <1>6 DEF Core!Clock, Core!ApiDeadline, Core!DbDeadline, Core!MatchStarts, Core!moneyVars
<1>7. CASE UNCHANGED coreVars
  BY <1>1, <1>7 DEF coreVars
<1> QED BY <1>4, <1>5, <1>6, <1>7 DEF Core!Next

LEMMA AttemptsStayNumbered ==
    ASSUME RowTypes, [Core!Next]_coreVars, AttemptsNumbered
    PROVE  AttemptsNumbered'
<1> SUFFICES ASSUME NEW o \in Orders PROVE \E n \in 0..MaxAttempts : AttemptsOf(o)' = 1..n
  BY DEF AttemptsNumbered
<1>1. PICK n \in 0..MaxAttempts : AttemptsOf(o) = 1..n
  BY DEF AttemptsNumbered
<1>2. MaxAttempts \in Nat
  BY CoreAssumption DEF Core!BookingAssumption
<1>3. \A k \in 1..MaxAttempts : <<o, k>> \in Pays
  BY DEF Pays
<1>4. CASE SameAttempts
  <2>1. AttemptsOf(o)' = AttemptsOf(o)
    BY <1>3, <1>4 DEF SameAttempts, AttemptsOf
  <2> QED BY <1>1, <2>1
<1>5. ASSUME NEW p \in Pays, NewAttempt(p), p[1] # o
      PROVE  AttemptsOf(o)' = AttemptsOf(o)
  BY <1>3, <1>5 DEF NewAttempt, AttemptsOf
<1>6. ASSUME NEW p \in Pays, NewAttempt(p), p[1] = o
      PROVE  \E m \in 0..MaxAttempts : AttemptsOf(o)' = 1..m
  <2>1. p = <<o, p[2]>> /\ p[2] \in 1..MaxAttempts
    BY <1>6 DEF Pays
  <2>2. p[2] \notin 1..n /\ \A k \in 1..(p[2] - 1) : k \in 1..n
    <3>1. p[2] \notin AttemptsOf(o)
      BY <1>6, <2>1 DEF NewAttempt, AttemptsOf
    <3>2. \A k \in 1..(p[2] - 1) : k \in 1..MaxAttempts /\ payStatus[<<o, k>>] # "none"
      BY <1>2, <1>6, <2>1 DEF NewAttempt
    <3> QED BY <1>1, <3>1, <3>2 DEF AttemptsOf
  <2>3. p[2] = n + 1
    <3>1. ~(p[2] > n + 1)
      <4> SUFFICES ASSUME p[2] > n + 1 PROVE FALSE
        OBVIOUS
      <4>1. n + 1 \in 1..(p[2] - 1)
        BY <1>2, <2>1
      <4> QED BY <2>2, <4>1
    <3> QED BY <1>2, <2>1, <2>2, <3>1
  <2>4. AttemptsOf(o)' = AttemptsOf(o) \cup {p[2]}
    BY <1>3, <1>6, <2>1 DEF NewAttempt, AttemptsOf
  <2>5. AttemptsOf(o)' = 1..(n + 1) /\ n + 1 \in 0..MaxAttempts
    BY <1>1, <1>2, <2>1, <2>3, <2>4
  <2> QED BY <2>5
<1> QED BY <1>1, <1>4, <1>5, <1>6, PayColumnSteps

(* Only a call that pays adds an attempt, and to its order.                *)
LEMMA CommitAttempts ==
    ASSUME CallTypes, RowTypes, NEW c \in Calls, CallKept(c), Commit(c), NEW o \in Orders
    PROVE  IF request[c].op = "pay" /\ request[c].order = o
           THEN AttemptsOf(o)' \subseteq AttemptsOf(o) \cup {NextAttempt(o)[2]}
           ELSE AttemptsOf(o)' \subseteq AttemptsOf(o)
<1> DEFINE w == writes[c]
           q == request[c]
<1>1. stage[c] = "commit" /\ Working(c) /\ Apply(w)
  BY DEF CallKept, Knows, Resting, Commit
<1>2. /\ \A p \in w.close : payStatus[p] # "none"
      /\ w.pay = Nothing \/ (q.op = "pay" /\ DOMAIN w.pay = {NextAttempt(q.order)})
  <2>1. CASE ReserveKnows(c)
    <3>1. w = ReserveWrites(q)
      BY <1>1, <2>1 DEF ReserveKnows
    <3>2. ReserveColumns(q, w)
      BY <3>1, ReserveWrote
    <3> QED BY <3>2 DEF ReserveColumns
  <2>2. CASE PayKnows(c)
    <3>1. q.op = "pay" /\ w = PayWrites(q, Core!Pending(q.order))
      BY <1>1, <2>2 DEF PayKnows
    <3>2. PayColumns(q, Core!Pending(q.order), w)
      BY <3>1, PayWrote
    <3>3. w.close = {} /\ \E v : w.pay = All({NextAttempt(q.order)}, v)
      BY <3>2 DEF PayColumns
    <3> QED BY <3>1, <3>3, AllIs
  <2>3. CASE CancelKnows(c)
    <3>1. w = CancelWrites(q)
      BY <1>1, <2>3 DEF CancelKnows
    <3>2. CancelColumns(q, w)
      BY <3>1, CancelWrote
    <3>3. \A p \in Core!PaymentsToClose(q.res) : payStatus[p] = "success"
      BY DEF Core!PaymentsToClose, Core!SuccessPayments
    <3> QED BY <3>2, <3>3 DEF CancelColumns
  <2>4. CASE ReviewKnows(c)
    <3>1. w = ReviewWrites(q) /\ q.to # "paid"
      BY <1>1, <2>4 DEF ReviewKnows
    <3>2. ReviewColumns(q, w)
      BY <3>1, ReviewWrote
    <3> QED BY <3>2 DEF ReviewColumns
  <2>5. CASE ChangeKnows(c)
    <3>1. w = ChangeWrites(q)
      BY <1>1, <2>5 DEF ChangeKnows
    <3>2. ChangeColumns(q, w)
      BY <3>1, ChangeWrote
    <3> QED BY <3>2 DEF ChangeColumns
  <2>6. CASE ExpireKnows(c)
    <3>1. PICK B, R : w = ExpireWrites(B, R)
      BY <1>1, <2>6 DEF ExpireKnows
    <3>2. ExpireColumns(B, R, w)
      BY <3>1, ExpireWrote
    <3> QED BY <3>2 DEF ExpireColumns
  <2> QED BY <1>1, <2>1, <2>2, <2>3, <2>4, <2>5, <2>6 DEF Working
<1> HIDE DEF w
<1>3. \A p \in Pays : payStatus'[p] # "none" /\ payStatus[p] = "none" => q.op = "pay" /\ p = NextAttempt(q.order)
  <2> SUFFICES ASSUME NEW p \in Pays, payStatus'[p] # "none", payStatus[p] = "none"
               PROVE  q.op = "pay" /\ p = NextAttempt(q.order)
    OBVIOUS
  <2>1. payStatus'[p] = IF p \in DOMAIN w.pay THEN w.pay[p].status
                        ELSE IF p \in w.close THEN "refunded" ELSE payStatus[p]
    BY <1>1 DEF Apply, RowTypes
  <2>2. p \in DOMAIN w.pay
    BY <1>2, <2>1
  <2> QED BY <1>2, <2>2, NothingIs
<1>4. ASSUME NEW k \in AttemptsOf(o)', k \notin AttemptsOf(o)
      PROVE  q.op = "pay" /\ q.order = o /\ k = NextAttempt(o)[2]
  <2>1. <<o, k>> \in Pays /\ payStatus'[<<o, k>>] # "none" /\ payStatus[<<o, k>>] = "none"
    BY <1>4 DEF AttemptsOf, Pays
  <2>2. q.op = "pay" /\ <<o, k>> = NextAttempt(q.order)
    BY <1>3, <2>1
  <2>3. q.order = o
    BY <2>2 DEF NextAttempt
  <2> QED BY <2>2, <2>3
<1> QED BY <1>4

-----------------------------------------------------------------------------
(***************************************************************************)
(* Every step keeps the invariant.                                         *)
(***************************************************************************)
(* A step of a call between BEGIN and COMMIT, as the others see it.        *)
Moves(c) ==
    /\ CallTypes' /\ CallKept(c)' /\ \A d \in Calls \ {c} : SameCall(d)
    /\ \A l \in held'[c], d \in Calls \ {c} : l \in held[d] =>
         request'[c] = request[c] /\ (l \in held[c] \/ (Shared(c, l) /\ Shared(d, l)))
    /\ request'[c] = request[c] \/ request'[c] = NoRequest \/ request'[c] \in Requests

LEMMA AdvancesMoves == ASSUME NEW c \in Calls, Advances(c) PROVE Moves(c)
BY DEF Advances, Moves

LEMMA StatementMoves ==
    ASSUME CallTypes, RowTypes, RowsAgree, NEW c \in Calls, CallKept(c), Statement(c), UNCHANGED coreVars
    PROVE  Moves(c)
<1>1. CASE ExpireOrders(c)
  <2>1. /\ CallKept(c)' /\ CallTypes' /\ \A d \in Calls \ {c} : SameCall(d)
        /\ \/ held'[c] = {} /\ request'[c] = NoRequest
           \/ /\ request'[c] = request[c]
              /\ \A l \in held'[c], d \in Calls \ {c} : l \notin held[d]
    BY <1>1, ExpireOrdersDoes
  <2> QED BY <2>1 DEF Moves
<1>2. CASE ReserveSeats(c) \/ ReserveDecides(c)
  BY <1>2, ReserveSeatsAdvances, ReserveDecidesAdvances, AdvancesMoves
<1>3. CASE PayItems(c) \/ PayWallet(c) \/ PayDecides(c)
  BY <1>3, PayItemsAdvances, PayWalletAdvances, PayDecidesAdvances, AdvancesMoves
<1>4. CASE CancelRefund(c) \/ CancelDecides(c) \/ ReviewDecides(c)
  BY <1>4, CancelRefundAdvances, CancelDecidesAdvances, ReviewDecidesAdvances, AdvancesMoves
<1>5. CASE ChangeRow(c) \/ ChangeSeats(c) \/ ChangeDecides(c)
  BY <1>5, ChangeRowAdvances, ChangeSeatsAdvances, ChangeDecidesAdvances, AdvancesMoves
<1>6. CASE ExpireDecides(c)
  BY <1>6, ExpireDecidesAdvances, AdvancesMoves
<1> QED BY <1>1, <1>2, <1>3, <1>4, <1>5, <1>6 DEF Statement

LEMMA TakeMoves ==
    ASSUME CallTypes, NEW c \in Calls, CallKept(c), Take(c), UNCHANGED coreVars
    PROVE  Moves(c)
<1>1. /\ request' = request /\ CallTypes' /\ \A d \in Calls \ {c} : SameCall(d)
      /\ \A l \in held'[c] \ held[c] : \A d \in Calls : ~Conflict(c, d, l)
  BY TakeDoes
<1>2. CallKept(c)'
  BY TakeKeeps
<1>3. \A l \in held'[c], d \in Calls \ {c} : l \in held[d] =>
         l \in held[c] \/ (Shared(c, l) /\ Shared(d, l))
  BY <1>1 DEF Conflict
<1> QED BY <1>1, <1>2, <1>3 DEF Moves

LEMMA BeginMoves ==
    ASSUME CallTypes, RowTypes, RowsAgree, NEW c \in Calls, NEW q \in Requests, MayBegin(c), Begin(c, q),
           UNCHANGED coreVars, CallKept(c)
    PROVE  Moves(c)
<1>1. /\ CallKept(c)' /\ CallTypes' /\ \A d \in Calls \ {c} : SameCall(d)
      /\ held'[c] = {} /\ request'[c] = q
  BY BeginKeeps
<1> QED BY <1>1 DEF Moves

LEMMA EndMoves == ASSUME CallTypes, NEW c \in Calls, End(c) PROVE Moves(c)
BY EndAdvances, AdvancesMoves

(* Such a step keeps locks exclusive and new orders apart.                 *)
LEMMA MovesApart ==
    ASSUME RowTypes, RowsAgree, Exclusive, NewOrders, NEW c \in Calls, Moves(c)
    PROVE  Exclusive' /\ NewOrders'
<1>1. \A d \in Calls \ {c} : held'[d] = held[d] /\ request'[d] = request[d]
  BY DEF Moves, SameCall
<1>2. ASSUME NEW d \in Calls, d # c, NEW l \in held'[c], l \in held'[d]
      PROVE  Shared(c, l)' /\ Shared(d, l)'
  <2>1. l \in held[d] /\ request'[d] = request[d]
    BY <1>1, <1>2
  <2>2. request'[c] = request[c] /\ (l \in held[c] \/ (Shared(c, l) /\ Shared(d, l)))
    BY <1>2, <2>1 DEF Moves
  <2>3. Shared(c, l) /\ Shared(d, l)
    BY <1>2, <2>1, <2>2 DEF Exclusive
  <2> QED BY <2>1, <2>2, <2>3 DEF Shared
<1>3. ASSUME NEW x \in Calls, NEW y \in Calls, x # y, NEW l \in held'[x], l \in held'[y]
      PROVE  Shared(x, l)' /\ Shared(y, l)'
  <2>1. CASE x = c \/ y = c
    BY <1>2, <1>3, <2>1
  <2>2. CASE x # c /\ y # c
    <3>1. l \in held[x] /\ l \in held[y] /\ request'[x] = request[x] /\ request'[y] = request[y]
      BY <1>1, <1>3, <2>2
    <3>2. Shared(x, l) /\ Shared(y, l)
      BY <1>3, <3>1 DEF Exclusive
    <3> QED BY <3>1, <3>2 DEF Shared
  <2> QED BY <2>1, <2>2
<1>4. Exclusive'
  BY <1>3 DEF Exclusive
<1>5. ASSUME NEW d \in Calls, d # c, request'[c].op = "reserve", request'[d].op = "reserve"
      PROVE  request'[c].order # request'[d].order
  <2>1. request'[d] = request[d]
    BY <1>1, <1>5
  <2>2. CASE request'[c] = request[c]
    BY <1>5, <2>1, <2>2 DEF NewOrders
  <2>3. CASE request'[c] = NoRequest
    BY <1>5, <2>3 DEF NoRequest
  <2>4. CASE request'[c] \in Requests
    <3>1. ReserveAsked(request'[c])
      <4>1. PICK q \in Requests : q = request'[c]
        BY <2>4
      <4>2. ReserveAsked(q) \/ PayAsked(q) \/ JoinAsked(q) \/ q = [op |-> "expire"]
        BY RequestsAre
      <4> QED BY <1>5, <4>1, <4>2 DEF PayAsked, JoinAsked
    <3> QED BY <1>5, <2>1, <3>1 DEF ReserveAsked
  <2> QED BY <2>2, <2>3, <2>4 DEF Moves
<1>6. NewOrders'
  <2> SUFFICES ASSUME NEW x \in Calls, NEW y \in Calls, x # y, request'[x].op = "reserve", request'[y].op = "reserve"
               PROVE  request'[x].order # request'[y].order
    BY DEF NewOrders
  <2>1. CASE x = c \/ y = c
    BY <1>5, <2>1
  <2>2. CASE x # c /\ y # c
    BY <1>1, <2>2 DEF NewOrders
  <2> QED BY <2>1, <2>2
<1> QED BY <1>4, <1>6

(* The size of a set with one more element.                                *)
LEMMA AddOne ==
    ASSUME NEW S, IsFiniteSet(S), NEW x
    PROVE  /\ IsFiniteSet(S \cup {x}) /\ Cardinality(S \cup {x}) \in Nat /\ Cardinality(S) \in Nat
           /\ Cardinality(S \cup {x}) <= Cardinality(S) + 1
<1>1. /\ IsFiniteSet(S \cup {x})
      /\ Cardinality(S \cup {x}) = Cardinality(S) \/ Cardinality(S \cup {x}) = Cardinality(S) + 1
  BY FS_AddElement
<1>2. Cardinality(S) \in Nat
  BY FS_CardinalityType
<1> QED BY <1>1, <1>2

(* The payments under way have attempts left, through the steps of a call  *)
(* and its commit.                                                         *)
LEMMA MovesPays ==
    ASSUME RowTypes, RowsAgree, AttemptsLeft, AttemptsNumbered, NEW c \in Calls, Moves(c), UNCHANGED coreVars
    PROVE  AttemptsLeft'
<1> SUFFICES ASSUME NEW o \in Orders
             PROVE  (Cardinality(AttemptsOf(o)) + Cardinality(PaysOf(o)) <= MaxAttempts)'
  BY DEF AttemptsLeft
<1>1. \A d \in Calls \ {c} : request'[d] = request[d]
  BY DEF Moves, SameCall
<1>2. AttemptsOf(o)' = AttemptsOf(o)
  BY DEF coreVars, AttemptsOf
<1>3. PICK n \in 0..MaxAttempts : AttemptsOf(o) = 1..n /\ Cardinality(AttemptsOf(o)) = n
  BY Attempts
<1>4. MaxAttempts \in Nat
  BY CoreAssumption DEF Core!BookingAssumption
<1>5. /\ IsFiniteSet(PaysOf(o)) /\ Cardinality(PaysOf(o)) \in Nat
      /\ n + Cardinality(PaysOf(o)) <= MaxAttempts
  BY <1>3, PaysFinite DEF AttemptsLeft
<1>6. CASE PaysOf(o)' \subseteq PaysOf(o)
  <2>1. Cardinality(PaysOf(o)') <= Cardinality(PaysOf(o)) /\ Cardinality(PaysOf(o)') \in Nat
    BY <1>5, <1>6, FS_Subset, FS_CardinalityType
  <2> QED BY <1>2, <1>3, <1>4, <1>5, <2>1
<1>7. CASE request'[c] \in Requests /\ request'[c].op = "pay" /\ request'[c].order = o
  <2>1. PayAsked(request'[c])
    <3>1. PICK q \in Requests : q = request'[c]
      BY <1>7
    <3>2. ReserveAsked(q) \/ PayAsked(q) \/ JoinAsked(q) \/ q = [op |-> "expire"]
      BY RequestsAre
    <3> QED BY <1>7, <3>1, <3>2 DEF ReserveAsked, JoinAsked
  <2>2. NextAttempt(o)[2] + Paying(o) <= MaxAttempts
    BY <1>7, <2>1 DEF PayAsked
  <2>3. Paying(o) = Cardinality(PaysOf(o)) /\ NextAttempt(o)[2] = 1 + n
    BY <1>3 DEF Paying, PaysOf, NextAttempt, AttemptsOf
  <2>4. PaysOf(o)' \subseteq PaysOf(o) \cup {c}
    BY <1>1 DEF PaysOf
  <2>5. Cardinality(PaysOf(o)') <= Cardinality(PaysOf(o)) + 1 /\ Cardinality(PaysOf(o)') \in Nat
    <3>1. /\ IsFiniteSet(PaysOf(o) \cup {c})
          /\ Cardinality(PaysOf(o) \cup {c}) <= Cardinality(PaysOf(o)) + 1
      BY <1>5, AddOne
    <3>2. Cardinality(PaysOf(o)') <= Cardinality(PaysOf(o) \cup {c}) /\ Cardinality(PaysOf(o)') \in Nat
          /\ Cardinality(PaysOf(o) \cup {c}) \in Nat
      BY <2>4, <3>1, FS_Subset, FS_CardinalityType
    <3> QED BY <1>5, <3>1, <3>2
  <2> QED BY <1>2, <1>3, <1>4, <1>5, <2>2, <2>3, <2>5
<1>8. CASE request'[c] = request[c] \/ request'[c] = NoRequest \/ ~(request'[c].op = "pay" /\ request'[c].order = o)
  <2>1. request'[c] = request[c] \/ ~(request'[c].op = "pay" /\ request'[c].order = o)
    BY <1>8 DEF NoRequest
  <2>2. PaysOf(o)' \subseteq PaysOf(o)
    BY <1>1, <2>1 DEF PaysOf
  <2> QED BY <1>6, <2>2
<1> QED BY <1>7, <1>8 DEF Moves

LEMMA CommitPays ==
    ASSUME CallTypes, RowTypes, AttemptsLeft, AttemptsNumbered, NEW c \in Calls, CallKept(c), Commit(c)
    PROVE  AttemptsLeft'
<1> SUFFICES ASSUME NEW o \in Orders
             PROVE  (Cardinality(AttemptsOf(o)) + Cardinality(PaysOf(o)) <= MaxAttempts)'
  BY DEF AttemptsLeft
<1>1. request'[c] = NoRequest /\ \A d \in Calls \ {c} : request'[d] = request[d]
  BY EndDoes DEF Commit, SameCall
<1>2. PaysOf(o)' = PaysOf(o) \ {c}
  BY <1>1 DEF PaysOf, NoRequest
<1>3. PICK n \in 0..MaxAttempts : AttemptsOf(o) = 1..n /\ Cardinality(AttemptsOf(o)) = n
  BY Attempts
<1>4. MaxAttempts \in Nat
  BY CoreAssumption DEF Core!BookingAssumption
<1>5. /\ IsFiniteSet(PaysOf(o)) /\ Cardinality(PaysOf(o)) \in Nat
      /\ n + Cardinality(PaysOf(o)) <= MaxAttempts
  BY <1>3, PaysFinite DEF AttemptsLeft
<1>6. IsFiniteSet(AttemptsOf(o))
  BY <1>3, <1>4, FS_Interval
<1>7. CASE c \in PaysOf(o)
  <2>1. request[c].op = "pay" /\ request[c].order = o
    BY <1>7 DEF PaysOf
  <2>2. AttemptsOf(o)' \subseteq AttemptsOf(o) \cup {NextAttempt(o)[2]}
    BY <2>1, CommitAttempts
  <2>3. /\ IsFiniteSet(AttemptsOf(o) \cup {NextAttempt(o)[2]})
        /\ Cardinality(AttemptsOf(o) \cup {NextAttempt(o)[2]}) <= n + 1
    BY <1>3, <1>6, AddOne
  <2>4. /\ Cardinality(AttemptsOf(o)') <= Cardinality(AttemptsOf(o) \cup {NextAttempt(o)[2]})
        /\ Cardinality(AttemptsOf(o)') \in Nat /\ Cardinality(AttemptsOf(o) \cup {NextAttempt(o)[2]}) \in Nat
    BY <2>2, <2>3, FS_Subset, FS_CardinalityType
  <2>5. Cardinality(PaysOf(o)') = Cardinality(PaysOf(o)) - 1
    BY <1>2, <1>5, <1>7, FS_RemoveElement
  <2> QED BY <1>3, <1>4, <1>5, <2>3, <2>4, <2>5
<1>8. CASE c \notin PaysOf(o)
  <2>1. ~(request[c].op = "pay" /\ request[c].order = o)
    BY <1>8 DEF PaysOf
  <2>2. AttemptsOf(o)' \subseteq AttemptsOf(o)
    BY <2>1, CommitAttempts
  <2>3. Cardinality(AttemptsOf(o)') <= n /\ Cardinality(AttemptsOf(o)') \in Nat
    BY <1>3, <1>6, <2>2, FS_Subset, FS_CardinalityType
  <2>4. PaysOf(o)' = PaysOf(o)
    BY <1>2, <1>8
  <2> QED BY <1>3, <1>4, <1>5, <2>3, <2>4
<1> QED BY <1>7, <1>8

(* The inductive invariant.                                                *)
IInv == CoreIInv /\ LockIInv

(* Only COMMIT and the calls taken alone change the rows, and as Booking   *)
(* says.                                                                   *)
LEMMA StepsOfBooking ==
    ASSUME IInv, [Next]_vars
    PROVE  [Core!Next]_coreVars
<1>1. RowTypes /\ RowsAgree /\ CallTypes /\ AttemptsNumbered /\ AttemptsLeft
  BY RowsAre DEF IInv, LockIInv
<1>2. CASE Alone
  BY <1>2 DEF Alone
<1>3. ASSUME NEW c \in Calls, Step(c)
      PROVE  [Core!Next]_coreVars
  <2>1. CASE Commit(c)
    BY <1>1, <2>1, CommitIsStep DEF IInv, LockIInv
  <2>2. CASE UNCHANGED coreVars
    BY <2>2
  <2> QED BY <1>3, <2>1, <2>2 DEF Step
<1>4. CASE UNCHANGED vars
  BY <1>4 DEF vars
<1> QED BY <1>2, <1>3, <1>4 DEF Next

(* It holds to begin with, and every step keeps it.                        *)
LEMMA CallsStart == Init => LockIInv
<1> SUFFICES ASSUME Init PROVE LockIInv
  OBVIOUS
<1>1. /\ request = [c \in Calls |-> NoRequest] /\ stage = [c \in Calls |-> "idle"]
      /\ todo = [c \in Calls |-> <<>>] /\ held = [c \in Calls |-> {}] /\ rows = [c \in Calls |-> {}]
      /\ writes = [c \in Calls |-> NoWrites]
  BY DEF Init, All
<1>2. CallTypes
  <2>1. "idle" \in Stages /\ <<>> \in Seq(Locks)
    BY DEF Stages
  <2> QED BY <1>1, <2>1 DEF CallTypes
<1>3. \A c \in Calls : CallKept(c)
  <2> TAKE c \in Calls
  <2>1. /\ stage[c] = "idle" /\ request[c] = NoRequest /\ todo[c] = <<>> /\ held[c] = {} /\ rows[c] = {}
        /\ writes[c] = NoWrites
    BY <1>1
  <2>2. Resting(c)
    BY <2>1 DEF Resting
  <2>3. Got(c) = {}
    BY <2>1, ReadyGot
  <2>4. Legal(todo[c], held[c])
    BY <2>1 DEF Legal
  <2> QED BY <2>1, <2>2, <2>3, <2>4 DEF CallKept, UserLast, Knows
<1>4. Exclusive /\ NewOrders
  BY <1>1 DEF Exclusive, NewOrders, NoRequest
<1>5. \A o \in Orders : AttemptsOf(o) = {} /\ PaysOf(o) = {}
  BY <1>1 DEF Init, Core!Init, Core!Payments, AttemptsOf, PaysOf, NoRequest
<1>6. MaxAttempts \in Nat
  BY CoreAssumption DEF Core!BookingAssumption
<1>7. AttemptsNumbered
  <2>1. 1..0 = {} /\ 0 \in 0..MaxAttempts
    BY <1>6
  <2> QED BY <1>5, <2>1 DEF AttemptsNumbered
<1>8. AttemptsLeft
  BY <1>5, <1>6, FS_EmptySet DEF AttemptsLeft
<1> QED BY <1>2, <1>3, <1>4, <1>7, <1>8 DEF LockIInv

LEMMA AloneKeeps ==
    ASSUME IInv, Alone
    PROVE  LockIInv'
<1>1. RowTypes /\ RowsAgree /\ LockIInv
  BY RowsAre DEF IInv
<1>2. Core!Next /\ UNCHANGED callVars /\ \A c \in Calls : stage[c] = "idle"
  BY DEF Alone
<1>3. \A c \in Calls : Resting(c) /\ CallKept(c)
  BY <1>1, <1>2 DEF LockIInv, CallKept, Knows, Working, ReserveKnows, PayKnows, CancelKnows, ReviewKnows, ChangeKnows,
                    ExpireKnows
<1>4. request' = request /\ stage' = stage /\ todo' = todo /\ held' = held /\ rows' = rows /\ writes' = writes
  BY <1>2 DEF callVars
<1>5. CallTypes'
  BY <1>1, <1>4 DEF LockIInv, CallTypes
<1>6. ASSUME NEW c \in Calls PROVE CallKept(c)'
  <2>1. Resting(c) /\ Legal(todo[c], held[c]) /\ UserLast(c)
    BY <1>3 DEF CallKept
  <2>2. Resting(c)' /\ Got(c) = {}
    BY <1>4, <2>1, ReadyGot DEF Resting
  <2>3. Got(c)' = {}
    BY <1>4, <2>2 DEF Got
  <2>4. Legal(todo[c], held[c])' /\ UserLast(c)'
    BY <1>4, <2>1 DEF Legal, UserLast
  <2>5. (stage[c] # "commit" => writes[c] = NoWrites)'
    BY <2>2 DEF Resting
  <2> QED BY <2>2, <2>3, <2>4, <2>5 DEF CallKept, Knows
<1>7. Exclusive' /\ NewOrders'
  <2>1. Exclusive'
    BY <1>1, <1>4 DEF LockIInv, Exclusive, Shared
  <2>2. NewOrders'
    BY <1>1, <1>4 DEF LockIInv, NewOrders
  <2> QED BY <2>1, <2>2
<1>8. AttemptsNumbered'
  BY <1>1, <1>2, AttemptsStayNumbered DEF LockIInv
<1>9. AttemptsLeft'
  <2> SUFFICES ASSUME NEW o \in Orders
               PROVE  (Cardinality(AttemptsOf(o)) + Cardinality(PaysOf(o)) <= MaxAttempts)'
    BY DEF AttemptsLeft
  <2>1. PaysOf(o)' = {}
    <3>1. \A c \in Calls : request'[c].op = "none"
      BY <1>3, <1>4 DEF Resting, NoRequest
    <3> QED BY <3>1 DEF PaysOf
  <2>2. PICK n \in 0..MaxAttempts : AttemptsOf(o)' = 1..n
    BY <1>8 DEF AttemptsNumbered
  <2>3. MaxAttempts \in Nat
    BY CoreAssumption DEF Core!BookingAssumption
  <2>4. Cardinality(1..n) = n
    BY <2>3, FS_Interval
  <2> QED BY <2>1, <2>2, <2>3, <2>4, FS_EmptySet
<1> QED BY <1>5, <1>6, <1>7, <1>8, <1>9 DEF LockIInv

LEMMA CallStepKeeps ==
    ASSUME IInv, NEW c \in Calls, Moves(c), [Core!Next]_coreVars, AttemptsLeft',
           \A d \in Calls \ {c} : SameRows(d)
    PROVE  LockIInv'
<1>1. RowTypes /\ RowsAgree /\ LockIInv
  BY RowsAre DEF IInv
<1>2. \A d \in Calls \ {c} : CallKept(d)'
  <2> SUFFICES ASSUME NEW d \in Calls \ {c} PROVE CallKept(d)'
    OBVIOUS
  <2>1. SameCall(d) /\ SameRows(d) /\ CallKept(d) /\ CallTypes
    BY <1>1 DEF Moves, LockIInv
  <2> QED BY <1>1, <2>1, CallSleeps
<1>3. Exclusive' /\ NewOrders'
  BY <1>1, MovesApart DEF LockIInv
<1>4. AttemptsNumbered'
  BY <1>1, AttemptsStayNumbered DEF LockIInv
<1> QED BY <1>2, <1>3, <1>4 DEF LockIInv, Moves

LEMMA LockIInvKept ==
    ASSUME IInv, [Next]_vars
    PROVE  LockIInv'
<1>1. /\ RowTypes /\ RowsAgree /\ CallTypes /\ Exclusive /\ NewOrders /\ AttemptsNumbered /\ AttemptsLeft
      /\ \A c \in Calls : CallKept(c)
  BY RowsAre DEF IInv, LockIInv
<1>2. [Core!Next]_coreVars
  BY StepsOfBooking
<1>3. CASE Alone
  BY <1>3, AloneKeeps
<1>4. ASSUME NEW c \in Calls, Commit(c) PROVE LockIInv'
  <2>1. Moves(c)
    BY <1>1, <1>4, EndMoves DEF Commit
  <2>2. AttemptsLeft'
    BY <1>1, <1>4, CommitPays
  <2>3. \A d \in Calls \ {c} : SameRows(d)
    BY <1>1, <1>4, CommitSpares
  <2> QED BY <1>2, <2>1, <2>2, <2>3, CallStepKeeps
<1>5. ASSUME NEW c \in Calls, Moves(c), UNCHANGED coreVars PROVE LockIInv'
  <2>1. AttemptsLeft'
    BY <1>1, <1>5, MovesPays
  <2>2. \A d : SameRows(d)
    BY <1>5, StillViews
  <2> QED BY <1>2, <1>5, <2>1, <2>2, CallStepKeeps
<1>6. ASSUME NEW c \in Calls, Take(c) \/ Statement(c) \/ Victim(c), UNCHANGED coreVars PROVE LockIInv'
  <2>1. CASE Take(c)
    BY <1>1, <1>5, <1>6, <2>1, TakeMoves
  <2>2. CASE Statement(c)
    BY <1>1, <1>5, <1>6, <2>2, StatementMoves
  <2>3. CASE Victim(c)
    BY <1>1, <1>5, <1>6, <2>3, EndMoves DEF Victim
  <2> QED BY <1>6, <2>1, <2>2, <2>3
<1>7. ASSUME NEW c \in Calls, (MayBegin(c) /\ \E q \in Requests : Begin(c, q)) \/ Fails(c), UNCHANGED coreVars
      PROVE  LockIInv'
  <2>1. CASE MayBegin(c) /\ \E q \in Requests : Begin(c, q)
    BY <1>1, <1>5, <1>7, <2>1, BeginMoves
  <2>2. CASE Fails(c)
    BY <1>1, <1>5, <1>7, <2>2, EndMoves DEF Fails
  <2> QED BY <1>7, <2>1, <2>2
<1>8. CASE UNCHANGED vars
  <2>1. UNCHANGED coreVars /\ UNCHANGED callVars
    BY <1>8 DEF vars
  <2>2. request' = request /\ stage' = stage /\ todo' = todo /\ held' = held /\ rows' = rows /\ writes' = writes
    BY <2>1 DEF callVars
  <2>3. \A c \in Calls : SameCall(c) /\ SameRows(c)
    BY <2>1, <2>2, StillViews DEF SameCall
  <2>4. CallTypes'
    BY <1>1, <2>2 DEF CallTypes
  <2>5. \A c \in Calls : CallKept(c)'
    BY <1>1, <2>3, CallSleeps
  <2>6. Exclusive' /\ NewOrders'
    <3>1. Exclusive'
      BY <1>1, <2>2 DEF Exclusive, Shared
    <3>2. NewOrders'
      BY <1>1, <2>2 DEF NewOrders
    <3> QED BY <3>1, <3>2
  <2>7. AttemptsNumbered'
    BY <1>1, <1>2, AttemptsStayNumbered
  <2>8. AttemptsLeft'
    <3>1. \A o : AttemptsOf(o)' = AttemptsOf(o) /\ PaysOf(o)' = PaysOf(o)
      BY <2>1, <2>2 DEF coreVars, AttemptsOf, PaysOf
    <3> QED BY <1>1, <3>1 DEF AttemptsLeft
  <2> QED BY <2>4, <2>5, <2>6, <2>7, <2>8 DEF LockIInv
<1> QED BY <1>3, <1>4, <1>6, <1>7, <1>8 DEF Next, Step

(* The rows of the initial state.                                          *)
LEMMA CoreStarts == Core!Init => CoreIInv
<1> SUFFICES ASSUME Core!Init PROVE CoreIInv
  OBVIOUS
<1> USE WholeAssumption
<1>1. Whole!Init
  BY DEF Core!Init, Whole!Init, Core!Reservations, Whole!Reservations, Core!Payments, Whole!Payments
<1>2. Whole!SeatTypeOK
  BY <1>1, Whole!SeatTypesStart
<1>3. Whole!SeatIInv /\ Whole!OrderIInv
  BY <1>1, <1>2, Whole!SeatIInvStarts, Whole!OrderIInvStarts
<1>4. Whole!MoneyIInv
  BY <1>1, <1>3, Whole!MoneyIInvStarts
<1> QED BY <1>3, <1>4 DEF CoreIInv

LEMMA IInvHolds == Spec => []IInv
<1>1. Init => IInv
  BY CoreStarts, CallsStart DEF Init, IInv
<1>2. IInv /\ [Next]_vars => IInv'
  <2> SUFFICES ASSUME IInv, [Next]_vars PROVE IInv'
    OBVIOUS
  <2>1. CoreIInv'
    BY StepsOfBooking, CoreIInvKept DEF IInv
  <2> QED BY <2>1, LockIInvKept DEF IInv
<1> QED BY <1>1, <1>2, PTL DEF Spec

(* Calls that overlap, take their locks in any order the statements allow, *)
(* fail, or are ended by the deadlock detector, change the rows only as    *)
(* Booking's whole calls do: taking each call as one step is justified by  *)
(* the locks.                                                              *)
THEOREM OverlapIsInvisible == Spec => ImplementsBooking
<1>1. Init => Core!Init
  BY DEF Init
<1>2. IInv /\ [Next]_vars => [Core!Next]_(Core!vars)
  <2> SUFFICES ASSUME IInv, [Next]_vars PROVE [Core!Next]_(Core!vars)
    OBVIOUS
  <2>1. [Core!Next]_coreVars
    BY StepsOfBooking
  <2>2. UNCHANGED coreVars => UNCHANGED Core!vars
    BY DEF coreVars, Core!vars, Core!seatVars, Core!moneyVars, Core!timeVars
  <2> QED BY <2>1, <2>2
<1>3. Spec => Core!Spec
  BY <1>1, <1>2, IInvHolds, PTL DEF Spec, Core!Spec
<1> QED BY <1>3 DEF ImplementsBooking

-----------------------------------------------------------------------------
(***************************************************************************)
(* The order of the locks.                                                 *)
(***************************************************************************)
(* A call that waits, the row it wants, and the order of those rows.       *)
Stuck(x) == \E y \in Calls : <<x, y>> \in Waits
Wanted(x) == Head(todo[x])
Below(x, y) ==
    \/ Wanted(x)[1] = "order" /\ Wanted(y)[1] \in {"ticket", "user"}
    \/ Wanted(x)[1] = "ticket" /\ Wanted(y)[1] = "ticket" /\ Wanted(x)[2] < Wanted(y)[2]
    \/ Wanted(x)[1] = "ticket" /\ Wanted(y)[1] = "user"

(* The rows of an order are waited for at the order, if at all.            *)
LEMMA StuckKinds ==
    ASSUME LockIInv, NEW x \in Calls, NEW y \in Calls, <<x, y>> \in Waits
    PROVE  /\ todo[x] # <<>> /\ Wanted(x) \in held[y] /\ Wanted(x) = todo[x][1] /\ 1 \in DOMAIN todo[x]
           /\ Wanted(x)[1] \in {"order", "ticket", "user"}
           /\ Wanted(x)[1] = "ticket" => Wanted(x)[2] \in Nat
<1>1. todo[x] # <<>> /\ Conflict(x, y, Wanted(x))
  BY DEF Waits, Wanted
<1>2. x # y /\ Wanted(x) \in held[y]
  BY <1>1 DEF Conflict
<1>3. todo[x] \in Seq(Locks) /\ held[x] \in SUBSET Locks
  BY DEF LockIInv, CallTypes
<1>4. Wanted(x) = todo[x][1] /\ Wanted(x) \in Locks /\ 1 \in DOMAIN todo[x]
  BY <1>1, <1>3 DEF Wanted
<1>5. /\ Wanted(x)[1] \in {"order", "payment", "reservation", "ticket", "user"}
      /\ Wanted(x)[1] = "ticket" => Wanted(x)[2] \in Nat
  BY <1>4, LockKinds, BookingLocksAssumption
<1>6. \A l \in held[x] \cap held[y] : l[1] = "user"
  BY <1>2 DEF LockIInv, Exclusive, Shared
<1>7. Legal(todo[x], held[x]) /\ Legal(todo[y], held[y])
  BY DEF LockIInv, CallKept
<1>8. Wanted(x)[1] # "reservation"
  <2> SUFFICES ASSUME Wanted(x)[1] = "reservation" PROVE FALSE
    OBVIOUS
  <2> DEFINE l == Row("order", Wanted(x)[2][1])
  <2>1. l \in held[x]
    BY <1>4, <1>7 DEF Legal
  <2>2. l \in held[y]
    BY <1>2, <1>7 DEF Legal
  <2>3. l[1] # "user"
    BY DEF Row
  <2> QED BY <1>6, <2>1, <2>2, <2>3
<1>9. Wanted(x)[1] # "payment"
  <2> SUFFICES ASSUME Wanted(x)[1] = "payment" PROVE FALSE
    OBVIOUS
  <2> DEFINE l == Row("order", Wanted(x)[2])
  <2>1. l \in held[x]
    BY <1>4, <1>7 DEF Legal
  <2>2. l \in held[y]
    BY <1>2, <1>7 DEF Legal
  <2>3. l[1] # "user"
    BY DEF Row
  <2> QED BY <1>6, <2>1, <2>2, <2>3
<1> QED BY <1>1, <1>2, <1>4, <1>5, <1>8, <1>9

(* A call that waits for another that waits is below it, unless it is for  *)
(* the row of a user.                                                      *)
LEMMA WaitsBelow ==
    ASSUME LockIInv, NEW x \in Calls, NEW y \in Calls, <<x, y>> \in Waits, Wanted(x)[1] # "user", Stuck(y)
    PROVE  Below(x, y)
<1>1. PICK z \in Calls : <<y, z>> \in Waits
  BY DEF Stuck
<1>2. /\ Wanted(x) \in held[y] /\ Wanted(x)[1] \in {"order", "ticket"}
      /\ Wanted(y) = todo[y][1] /\ 1 \in DOMAIN todo[y] /\ Wanted(y)[1] \in {"order", "ticket", "user"}
  BY <1>1, StuckKinds
<1>3. Legal(todo[y], held[y])
  BY DEF LockIInv, CallKept
<1>4. Wanted(y)[1] # "order"
  BY <1>2, <1>3 DEF Legal
<1>5. Wanted(x)[1] = "ticket" /\ Wanted(y)[1] = "ticket" => Wanted(x)[2] < Wanted(y)[2]
  BY <1>2, <1>3 DEF Legal
<1> QED BY <1>2, <1>4, <1>5 DEF Below

(* Below is an order of the calls that wait.                               *)
LEMMA BelowOrders ==
    ASSUME LockIInv
    PROVE  /\ \A x \in Calls : Stuck(x) => ~Below(x, x)
           /\ \A x, y, z \in Calls : Stuck(x) /\ Stuck(y) /\ Stuck(z) /\ Below(x, y) /\ Below(y, z) => Below(x, z)
<1>1. \A x \in Calls : Stuck(x) /\ Wanted(x)[1] = "ticket" => Wanted(x)[2] \in Nat
  BY StuckKinds DEF Stuck
<1>2. \A x \in Calls : Stuck(x) => ~Below(x, x)
  BY <1>1 DEF Below
<1>3. \A x, y, z \in Calls : Stuck(x) /\ Stuck(y) /\ Stuck(z) /\ Below(x, y) /\ Below(y, z) => Below(x, z)
  <2> SUFFICES ASSUME NEW x \in Calls, NEW y \in Calls, NEW z \in Calls, Stuck(x), Stuck(y), Stuck(z),
                      Below(x, y), Below(y, z)
               PROVE  Below(x, z)
    OBVIOUS
  <2>1. CASE Wanted(z)[1] = "user"
    BY <2>1 DEF Below
  <2>2. CASE Wanted(z)[1] # "user" /\ Wanted(x)[1] = "order"
    BY <2>2 DEF Below
  <2>3. CASE Wanted(z)[1] # "user" /\ Wanted(x)[1] # "order"
    <3>1. /\ Wanted(x)[1] = "ticket" /\ Wanted(y)[1] = "ticket" /\ Wanted(z)[1] = "ticket"
          /\ Wanted(x)[2] < Wanted(y)[2] /\ Wanted(y)[2] < Wanted(z)[2]
      BY <2>3 DEF Below
    <3>2. Wanted(x)[2] \in Nat /\ Wanted(y)[2] \in Nat /\ Wanted(z)[2] \in Nat
      BY <1>1, <3>1
    <3>3. Wanted(x)[2] < Wanted(z)[2]
      BY <3>1, <3>2
    <3> QED BY <3>1, <3>3 DEF Below
  <2> QED BY <2>1, <2>2, <2>3
<1> QED BY <1>2, <1>3

LEMMA OrderFromInv == LockIInv => LockOrderKept
<1> SUFFICES ASSUME LockIInv PROVE LockOrderKept
  OBVIOUS
<1> DEFINE waits == {w \in Waits : Head(todo[w[1]])[1] # "user"}
           Waiter(x) == Stuck(x) /\ Wanted(x)[1] # "user"
           T == {w \in Calls \X Calls : Waiter(w[1]) /\ (Waiter(w[2]) => Below(w[1], w[2]))}
<1>1. \A x, y \in Calls : <<x, y>> \in T <=> Waiter(x) /\ (Waiter(y) => Below(x, y))
  OBVIOUS
<1>2. waits \subseteq T
  <2> SUFFICES ASSUME NEW w \in waits PROVE w \in T
    OBVIOUS
  <2>1. PICK x \in Calls, y \in Calls : w = <<x, y>>
    BY DEF Waits
  <2>2. <<x, y>> \in Waits /\ Wanted(x)[1] # "user"
    BY <2>1 DEF Wanted
  <2>3. Waiter(x) /\ (Waiter(y) => Below(x, y))
    BY <2>2, WaitsBelow DEF Stuck
  <2> HIDE DEF T, Waiter
  <2> QED BY <1>1, <2>1, <2>3
<1>3. \A x, y, z \in Calls : Waiter(x) /\ Waiter(y) /\ Waiter(z) /\ Below(x, y) /\ Below(y, z) => Below(x, z)
  BY BelowOrders
<1>4. \A x \in Calls : Waiter(x) => ~Below(x, x)
  BY BelowOrders
<1>5. T \in SUBSET (Calls \X Calls)
  OBVIOUS
<1> HIDE DEF T, Waiter
<1>6. Transitive(T)
  BY <1>1, <1>3 DEF Transitive
<1>7. \A c \in Calls : <<c, c>> \notin T
  BY <1>1, <1>4
<1>8. \A c \in Calls : ~InCycle(waits, c)
  BY <1>2, <1>5, <1>6, <1>7 DEF InCycle
<1> QED BY <1>8 DEF LockOrderKept

(* Nobody waits for the row of an order, a reservation or a seat in a      *)
(* circle, however many calls overlap and whatever they lock: orders come  *)
(* before seats, seats in the order of their ids, and a reservation or a   *)
(* payment is only ever locked under its order.                            *)
THEOREM LocksAreOrdered == Spec => []LockOrderKept
<1>1. IInv => LockOrderKept
  BY OrderFromInv DEF IInv
<1> QED BY <1>1, IInvHolds, PTL

(* The least transitive relation over who waits for whom.                  *)
Reaches == {w \in Calls \X Calls : \A T \in SUBSET (Calls \X Calls) : Waits \subseteq T /\ Transitive(T) => w \in T}

(* A reserve that waits for seats with its user locked, and the waits that *)
(* go through one.                                                         *)
Reserving(d) == request[d].op = "reserve" /\ stage[d] = "seats"
Through(x, y) == \E d \in Calls : /\ Reserving(d)
                                  /\ x = d \/ <<x, d>> \in Reaches
                                  /\ y = d \/ <<d, y>> \in Reaches

(* It is transitive, and a call is deadlocked when it reaches itself.      *)
LEMMA ReachesClosed ==
    /\ Waits \subseteq Reaches
    /\ \A x, y, z \in Calls : <<x, y>> \in Reaches /\ <<y, z>> \in Reaches => <<x, z>> \in Reaches
    /\ \A c \in Calls : Deadlocked(c) <=> <<c, c>> \in Reaches
<1>1. Waits \subseteq Reaches
  BY DEF Waits, Reaches
<1>2. \A x, y, z \in Calls : <<x, y>> \in Reaches /\ <<y, z>> \in Reaches => <<x, z>> \in Reaches
  <2> SUFFICES ASSUME NEW x \in Calls, NEW y \in Calls, NEW z \in Calls,
                      <<x, y>> \in Reaches, <<y, z>> \in Reaches,
                      NEW T \in SUBSET (Calls \X Calls), Waits \subseteq T, Transitive(T)
               PROVE  <<x, z>> \in T
    BY DEF Reaches
  <2>1. <<x, y>> \in T /\ <<y, z>> \in T
    BY DEF Reaches
  <2> QED BY <2>1 DEF Transitive
<1>3. \A c \in Calls : Deadlocked(c) <=> <<c, c>> \in Reaches
  BY DEF Deadlocked, InCycle, Reaches
<1> QED BY <1>1, <1>2, <1>3

(* A call that keeps another from the row of a user, and waits, reserves.  *)
LEMMA UserWaits ==
    ASSUME LockIInv, NEW x \in Calls, NEW y \in Calls, <<x, y>> \in Waits, Stuck(y), ~Reserving(y)
    PROVE  Wanted(x)[1] # "user"
<1>1. PICK z \in Calls : <<y, z>> \in Waits
  BY DEF Stuck
<1>2. Wanted(x) \in held[y] /\ todo[y] # <<>>
  BY <1>1, StuckKinds
<1>3. UserLast(y)
  BY DEF LockIInv, CallKept
<1> QED BY <1>2, <1>3 DEF UserLast, Reserving

LEMMA DeadlockFromInv == LockIInv => DeadlockNeedsReserve
<1> SUFFICES ASSUME LockIInv, NEW c \in Calls, Deadlocked(c)
             PROVE  \E d \in Calls : Reserving(d) /\ Deadlocked(d)
  BY DEF DeadlockNeedsReserve, Reserving
<1> DEFINE Climbs(x, y) == Stuck(x) /\ (Stuck(y) => Below(x, y))
           T == {w \in Reaches : Through(w[1], w[2]) \/ Climbs(w[1], w[2])}
<1>1. \A x, y \in Calls : <<x, y>> \in T <=> <<x, y>> \in Reaches /\ (Through(x, y) \/ Climbs(x, y))
  OBVIOUS
<1>2. T \in SUBSET (Calls \X Calls)
  BY DEF Reaches
<1>3. Waits \subseteq T
  <2> SUFFICES ASSUME NEW w \in Waits PROVE w \in T
    OBVIOUS
  <2>1. PICK x \in Calls, y \in Calls : w = <<x, y>>
    BY DEF Waits
  <2>2. <<x, y>> \in Waits /\ <<x, y>> \in Reaches /\ Stuck(x)
    BY <2>1, ReachesClosed DEF Stuck
  <2>3. CASE Reserving(y)
    <3>1. Through(x, y)
      BY <2>2, <2>3 DEF Through
    <3> HIDE DEF T, Climbs
    <3> QED BY <1>1, <2>1, <2>2, <3>1
  <2>4. CASE ~Reserving(y)
    <3>1. Climbs(x, y)
      BY <2>2, <2>4, UserWaits, WaitsBelow
    <3> HIDE DEF T, Climbs
    <3> QED BY <1>1, <2>1, <2>2, <3>1
  <2> QED BY <2>3, <2>4
<1>4. Transitive(T)
  <2> SUFFICES ASSUME NEW x \in Calls, NEW y \in Calls, NEW z \in Calls, <<x, y>> \in T, <<y, z>> \in T
               PROVE  <<x, z>> \in T
    BY DEF Transitive
  <2>1. <<x, y>> \in Reaches /\ <<y, z>> \in Reaches /\ <<x, z>> \in Reaches
    BY <1>1, ReachesClosed
  <2>2. CASE Through(x, y)
    <3>1. PICK d \in Calls : Reserving(d) /\ (x = d \/ <<x, d>> \in Reaches) /\ (y = d \/ <<d, y>> \in Reaches)
      BY <2>2 DEF Through
    <3>2. <<d, z>> \in Reaches
      BY <2>1, <3>1, ReachesClosed
    <3>3. Through(x, z)
      BY <3>1, <3>2 DEF Through
    <3> QED BY <1>1, <2>1, <3>3
  <2>3. CASE Through(y, z)
    <3>1. PICK d \in Calls : Reserving(d) /\ (y = d \/ <<y, d>> \in Reaches) /\ (z = d \/ <<d, z>> \in Reaches)
      BY <2>3 DEF Through
    <3>2. <<x, d>> \in Reaches
      BY <2>1, <3>1, ReachesClosed
    <3>3. Through(x, z)
      BY <3>1, <3>2 DEF Through
    <3> QED BY <1>1, <2>1, <3>3
  <2>4. CASE ~Through(x, y) /\ ~Through(y, z)
    <3>1. Climbs(x, y) /\ Climbs(y, z)
      BY <1>1, <2>4
    <3>2. Climbs(x, z)
      BY <3>1, BelowOrders
    <3> QED BY <1>1, <2>1, <3>2
  <2> QED BY <2>2, <2>3, <2>4
<1>5. <<c, c>> \in Reaches /\ <<c, c>> \in T
  BY <1>2, <1>3, <1>4, ReachesClosed DEF Deadlocked, InCycle
<1>6. ~Climbs(c, c)
  BY BelowOrders
<1>7. Through(c, c)
  BY <1>1, <1>5, <1>6
<1>8. PICK d \in Calls : Reserving(d) /\ (c = d \/ <<c, d>> \in Reaches) /\ (c = d \/ <<d, c>> \in Reaches)
  BY <1>7 DEF Through
<1>9. <<d, d>> \in Reaches
  BY <1>5, <1>8, ReachesClosed
<1> QED BY <1>8, <1>9, ReachesClosed

(* Calls deadlock only around a reserve that waits for a seat with its     *)
(* user's row in hand: every other call takes that row last.               *)
THEOREM DeadlocksNeedReserve == Spec => []DeadlockNeedsReserve
<1>1. IInv => DeadlockNeedsReserve
  BY DeadlockFromInv DEF IInv
<1> QED BY <1>1, IInvHolds, PTL

(* What Booking's runs check of the rows.                                  *)
RowsSafe ==
    /\ Core!NoDoubleBooking /\ Core!SeatsMatchReservations
    /\ Core!SettledOnce /\ Core!RefundsCovered /\ Core!WalletConserved

(* Whatever calls overlap, no seat is held twice, the status of a seat     *)
(* follows its reservation, an order is settled by one payment, and no     *)
(* movement of money is lost, repeated or beyond what was paid.            *)
THEOREM SafeUnderOverlap == Spec => []RowsSafe
<1>1. CoreIInv => RowsSafe
  <2> SUFFICES ASSUME CoreIInv PROVE RowsSafe
    OBVIOUS
  <2> USE WholeAssumption DEF CoreIInv
  <2>1. Whole!NoDoubleBooking /\ Whole!SeatsMatchReservations
    BY Whole!SeatInvMeaning DEF Whole!SeatIInv
  <2>2. Whole!SettledOnce
    BY Whole!OrderInvMeaning DEF Whole!OrderIInv
  <2>3. Whole!RefundsCovered /\ Whole!WalletConserved
    BY Whole!MoneyInvMeaning
  <2>4. \A t : Core!Active(t) = Whole!Active(t)
    BY DEF Core!Active, Whole!Active, Core!Reservations, Whole!Reservations, Core!HasStatus, Whole!HasStatus
  <2>5. \A o : /\ Core!SuccessPayments(o) = Whole!SuccessPayments(o) /\ Core!Paid(o) = Whole!Paid(o)
    BY DEF Core!SuccessPayments, Whole!SuccessPayments, Core!Paid, Whole!Paid, Core!HasStatus, Whole!HasStatus,
           Core!Payments, Whole!Payments, Core!Reservations, Whole!Reservations, Core!OrderOf, Whole!OrderOf
  <2>6. Core!NoDoubleBooking /\ Core!SeatsMatchReservations
    BY <2>1, <2>4 DEF Core!NoDoubleBooking, Whole!NoDoubleBooking, Core!SeatsMatchReservations, Whole!SeatsMatchReservations
  <2>7. Core!SettledOnce
    BY <2>2, <2>5 DEF Core!SettledOnce, Whole!SettledOnce, Core!Payments, Whole!Payments
  <2>8. Core!RefundsCovered
    BY <2>3, <2>5, SameSums DEF Core!RefundsCovered, Whole!RefundsCovered, Core!Payments, Whole!Payments, Core!Total, Whole!Total
  <2>9. Core!WalletConserved
    BY <2>3, SameSums DEF Core!WalletConserved, Whole!WalletConserved, Core!Payments, Whole!Payments,
       Core!Reservations, Whole!Reservations, Core!OrderOf, Whole!OrderOf
  <2> QED BY <2>6, <2>7, <2>8, <2>9 DEF RowsSafe
<1>2. IInv => RowsSafe
  BY <1>1 DEF IInv
<1> QED BY <1>2, IInvHolds, PTL
=============================================================================
