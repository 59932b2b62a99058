---------------------------- MODULE BookingLocks ----------------------------
(***************************************************************************)
(* The calls of the booking core as the transactions they are: statements  *)
(* that take row locks one by one, wait for each other, decide from what   *)
(* they read, and write.  Booking is the specification of this module: a   *)
(* call is there one step.  Here several calls are in progress, at any     *)
(* statement, and the rows change only when one of them commits.           *)
(*                                                                         *)
(* PostgreSQL works at READ COMMITTED: a statement sees what is committed  *)
(* when it starts, and a row it had to wait for is read again, joins       *)
(* included, once it is locked.  Row locks are FOR UPDATE, but for the     *)
(* user row, which reserve takes FOR SHARE and a wallet UPDATE takes       *)
(* alone.  The KEY SHARE locks of foreign keys conflict with none of them. *)
(*                                                                         *)
(* Calls that meet no other are taken whole, as Booking's steps (Alone),   *)
(* to reach the states in which calls meet.  Time stands still while calls *)
(* overlap: a call judges a deadline once, under the lock of the order.    *)
(***************************************************************************)
EXTENDS Integers, Sequences, Functions, FiniteSetsExt

CONSTANTS
    Users, Support, Tickets, Matches, MatchOf, Price, Orders, MaxAttempts,
    MaxPerOrder, BatchSize, Percents, Wallet0,      \* as in Booking
    Calls,          \* transactions that may overlap, numbered as they begin
    MaxAlone        \* bound on the steps taken before

ASSUME BookingLocksAssumption ==
    /\ Tickets \subseteq Nat
    /\ Calls \subseteq Nat /\ IsFiniteSet(Calls)
    /\ MaxAlone \in Nat

VARIABLES
    ticketStatus, orderStatus, orderUser, resStatus, resTicket, resPrice,
    payStatus, payAmount, payMethod, approved, refunded, wallet,
    apiDue, dbDue, started,     \* the committed rows and the clocks
    request,    \* what each call was asked
    stage,      \* the statement it is at
    todo,       \* the row locks that statement has still to take, in order
    held,       \* the row locks it holds
    rows,       \* the reservations its locking statement has returned
    writes,     \* what it has written and not committed
    alone       \* steps taken before calls overlapped

Core == INSTANCE Booking

ASSUME CoreAssumption == Core!BookingAssumption /\ Core!FiniteRows

coreVars == <<ticketStatus, orderStatus, orderUser, resStatus, resTicket, resPrice,
              payStatus, payAmount, payMethod, approved, refunded, wallet,
              apiDue, dbDue, started>>
callVars == <<request, stage, todo, held, rows, writes>>
vars == <<coreVars, callVars, alone>>

Row(kind, id) == <<kind, id>>
NoRequest == [op |-> "none"]

(* The rows a transaction has changed, by column, none of them to begin with. *)
Nothing == [x \in {} |-> 0]
NoWrites == [order |-> Nothing, owner |-> Nothing, res |-> Nothing, seat |-> Nothing,
             move |-> Nothing, price |-> Nothing, pay |-> Nothing, refund |-> Nothing,
             gain |-> Nothing, close |-> {}]

All(S, v) == [x \in S |-> v]

Init ==
    /\ Core!Init /\ ticketStatus = All(Tickets, "available")
    /\ request = All(Calls, NoRequest)
    /\ stage = All(Calls, "idle")
    /\ todo = All(Calls, <<>>)
    /\ held = All(Calls, {})
    /\ rows = All(Calls, {})
    /\ writes = All(Calls, NoWrites)
    /\ alone = 0

-----------------------------------------------------------------------------
(* Locks.                                                                  *)

(* ORDER BY: the elements of a set by their keys, which differ.            *)
InOrder(S, key) ==
    CHOOSE s \in [1..Cardinality(S) -> S] :
        Range(s) = S /\ \A i, j \in DOMAIN s : i < j => key[s[i]] < key[s[j]]

Shared(c, l) == request[c].op = "reserve" /\ l[1] = "user"
Conflict(c, d, l) == c # d /\ l \in held[d] /\ ~(Shared(c, l) /\ Shared(d, l))
WaitsFor(c, d, l) == todo[c] # <<>> /\ Head(todo[c]) = l /\ Conflict(c, d, l)

Blocked(c) == \E d \in Calls : WaitsFor(c, d, Head(todo[c]))

(* Statements that lock the rows of a join, one row of the result after    *)
(* the other, in the order FOR UPDATE OF names the tables.  (Definitions   *)
(* named Fault_... are plausible slips, each of which makes a property     *)
(* fail; nothing refers to them.)                                          *)
TicketLocks(S) ==
    LET seats == InOrder(S, [t \in S |-> t])           \* ORDER BY ticket_id
    IN  [i \in 1..Cardinality(S) |-> Row("ticket", seats[i])]
Fault_NewestFirst(r) == 0 - resTicket[r]
BySeat(r) == resTicket[r]                           \* ORDER BY rs.ticket_id
ItemLocks(R) ==
    LET items == InOrder(R, [r \in R |-> BySeat(r)])
    IN  [i \in 1..(2 * Cardinality(R)) |->
            LET r == items[(i + 1) \div 2]
            IN  IF i % 2 = 1 THEN Row("reservation", r) ELSE Row("ticket", resTicket[r])]
Fault_OldSeatFirst(r, t) == <<Row("ticket", resTicket[r]), Row("ticket", t)>>
ChangeLocks(r, t) == TicketLocks({resTicket[r], t})
Fault_OrderUnlocked(r) == <<Row("reservation", r), Row("ticket", resTicket[r])>>
JoinLocks(r) ==
    <<Row("order", r[1]), Row("reservation", r), Row("ticket", resTicket[r])>>

(* The call goes on to a statement that locks these rows.                  *)
Ask(c, label, locks) ==
    /\ stage' = [stage EXCEPT ![c] = label]
    /\ todo' = [todo EXCEPT ![c] = locks]
    /\ UNCHANGED <<request, held, writes>>

(* ROLLBACK or COMMIT, and the end of the call.                            *)
Fault_KeepLocks(c) == held[c]
HeldAfterEnd(c) == {}
End(c) ==
    /\ stage' = [stage EXCEPT ![c] = "done"]
    /\ todo' = [todo EXCEPT ![c] = <<>>]
    /\ held' = [held EXCEPT ![c] = HeldAfterEnd(c)]
    /\ rows' = [rows EXCEPT ![c] = {}]
    /\ writes' = [writes EXCEPT ![c] = NoWrites]
    /\ request' = [request EXCEPT ![c] = NoRequest]

Refuse(c) == End(c)

(* All the writes of a call are on rows it has locked.                     *)
Put(c, w) ==
    /\ writes' = [writes EXCEPT ![c] = w]
    /\ stage' = [stage EXCEPT ![c] = "commit"]
    /\ UNCHANGED <<request, todo, held, rows>>

-----------------------------------------------------------------------------
(* The next lock of the statement is free and taken.  A reservation of a   *)
(* set is returned only if, locked, it still fits the WHERE and the join.  *)
Fits(c, r) ==
    /\ resStatus[r] = "pending" \/ request[c].op \in {"cancel", "review"}
    /\ todo[c][2] = Row("ticket", resTicket[r])

Take(c) ==
    LET l == Head(todo[c]) IN
    /\ todo[c] # <<>> /\ ~Blocked(c)
    /\ held' = [held EXCEPT ![c] = @ \cup {l}]
    /\ todo' = [todo EXCEPT ![c] = Tail(@)]
    /\ rows' = IF l[1] = "reservation" /\ Len(todo[c]) > 1 /\ Fits(c, l[2])
               THEN [rows EXCEPT ![c] = @ \cup {l[2]}] ELSE rows
    /\ UNCHANGED <<request, stage, writes>>

Ready(c, op, label) == request[c].op = op /\ stage[c] = label /\ todo[c] = <<>>

-----------------------------------------------------------------------------
(* createReservation: the user, then the seats, then the writes.           *)
ReserveSeats(c) ==
    /\ Ready(c, "reserve", "first")
    /\ Ask(c, "seats", TicketLocks(request[c].seats)) /\ UNCHANGED rows

ReserveWrites(q) ==
    LET new == {q.order} \X q.seats
    IN  [NoWrites EXCEPT !.order = All({q.order}, "pending"),
                         !.owner = All({q.order}, q.user),
                         !.res = All(new, "pending"),
                         !.price = [r \in new |-> Price[r[2]]],
                         !.seat = All(q.seats, "reserved")]

ReserveDecides(c) ==
    LET q == request[c] IN
    /\ Ready(c, "reserve", "seats")
    /\ IF \A t \in q.seats : Core!Reservable(t) THEN Put(c, ReserveWrites(q)) ELSE Refuse(c)

NextAttempt(o) == <<o, 1 + Cardinality({k \in 1..MaxAttempts : payStatus[<<o, k>>] # "none"})>>

(* pay: the order, then its pending items, then the wallet.                *)
PayItems(c) ==
    LET o == request[c].order IN
    /\ Ready(c, "pay", "first")
    /\ IF orderStatus[o] = "pending" /\ o \notin apiDue /\ Core!SuccessPayments(o) = {}
       THEN Ask(c, "items", ItemLocks(Core!Pending(o))) /\ UNCHANGED rows
       ELSE Refuse(c)

PayWallet(c) ==
    LET q == request[c] IN
    /\ Ready(c, "pay", "items") /\ rows[c] # {} /\ q.method = "wallet" /\ q.succeeds
    /\ Ask(c, "wallet", <<Row("user", orderUser[q.order])>>) /\ UNCHANGED rows

PayWrites(q, R) ==
    LET o == q.order
        amount == Core!Total(R)
        insert(status) == [NoWrites EXCEPT !.pay = All({NextAttempt(o)},
                              [amount |-> amount, method |-> q.method, status |-> status])]
    IN  IF ~q.succeeds THEN insert("failed")
        ELSE [insert("success") EXCEPT !.order = All({o}, "paid"),
                                       !.res = All(Core!Pending(o), "paid"),
                                       !.seat = All(Core!SeatsToMove(R), "sold"),
                                       !.gain = IF q.method = "wallet"
                                                THEN All({orderUser[o]}, 0 - amount) ELSE Nothing]

PayDecides(c) ==
    LET q == request[c] IN
    /\ \/ Ready(c, "pay", "wallet")
       \/ Ready(c, "pay", "items") /\ (rows[c] = {} \/ q.method # "wallet" \/ ~q.succeeds)
    /\ IF rows[c] = {} \/ (stage[c] = "wallet" /\ wallet[orderUser[q.order]] < Core!Total(rows[c]))
       THEN Refuse(c) ELSE Put(c, PayWrites(q, rows[c]))

(* cancel and setReservationStatus: the order, the reservation and its     *)
(* seat by one statement; a refund then locks the payment and the user.    *)
CancelRefund(c) ==
    LET r == request[c].res IN
    /\ Ready(c, "cancel", "first") /\ rows[c] # {} /\ resStatus[r] = "paid"
    /\ MatchOf[resTicket[r]] \notin started
    /\ IF Core!SuccessPayments(r[1]) = {} THEN Refuse(c)
       ELSE /\ Ask(c, "refund", <<Row("payment", r[1]), Row("user", orderUser[r[1]])>>)
            /\ UNCHANGED rows

CancelWrites(q) ==
    LET r == q.res  refund == Core!RefundOf(r, q.percent)
    IN  [NoWrites EXCEPT !.res = All({r}, "cancelled"),
                         !.seat = All({resTicket[r]}, "available"),
                         !.order = All({r[1]}, Core!StatusAfterCancel(r)),
                         !.refund = All({r}, refund),
                         !.gain = All({orderUser[r[1]]}, refund),
                         !.close = Core!PaymentsToClose(r)]

CancelDecides(c) ==
    LET r == request[c].res IN
    /\ \/ Ready(c, "cancel", "refund")
       \/ Ready(c, "cancel", "first") /\ (rows[c] = {} \/ resStatus[r] # "paid"
                                           \/ MatchOf[resTicket[r]] \in started)
    /\ IF rows[c] = {} \/ resStatus[r] \notin {"pending", "paid"} \/ MatchOf[resTicket[r]] \in started
       THEN Refuse(c) ELSE Put(c, CancelWrites(request[c]))

ReviewWrites(q) ==
    LET r == q.res  o == r[1]
        open == Core!Pending(o) \cup Core!Paid(o)
    IN  IF q.to = "paid"
        THEN [NoWrites EXCEPT !.res = All(Core!Pending(o), "paid"),
                              !.seat = All(Core!TicketsOf(open), "sold"),
                              !.order = All({o}, "paid")]
        ELSE [NoWrites EXCEPT !.res = All({r}, "expired"),
                              !.seat = All({resTicket[r]}, "available"),
                              !.order = IF open \ {r} = {} THEN All({o}, "expired") ELSE Nothing]

ReviewDecides(c) ==
    LET q == request[c] IN
    /\ Ready(c, "review", "first")
    /\ IF rows[c] = {} \/ ~Core!Reviewable(q.res, q.to) THEN Refuse(c) ELSE Put(c, ReviewWrites(q))

(* changeReservationTicket: three statements.                              *)
ChangeRow(c) ==
    LET r == request[c].res IN
    /\ Ready(c, "change", "first")
    /\ IF orderStatus[r[1]] = "pending" /\ r[1] \notin apiDue
       THEN Ask(c, "reservation", <<Row("reservation", r)>>) /\ UNCHANGED rows
       ELSE Refuse(c)

ChangeSeats(c) ==
    LET r == request[c].res IN
    /\ Ready(c, "change", "reservation")
    /\ IF resStatus[r] = "pending"
       THEN Ask(c, "seats", ChangeLocks(r, request[c].seat)) /\ UNCHANGED rows
       ELSE Refuse(c)

ChangeWrites(q) ==
    LET r == q.res  t == q.seat
    IN  [NoWrites EXCEPT !.seat = [x \in {t, resTicket[r]} |-> IF x = t THEN "reserved" ELSE "available"],
                         !.move = All({r}, t), !.price = All({r}, Price[t])]

ChangeDecides(c) ==
    LET q == request[c] IN
    /\ Ready(c, "change", "seats")
    /\ IF Core!Replaceable(q.res, q.seat) THEN Put(c, ChangeWrites(q)) ELSE Refuse(c)

(* expireReservations: due orders nobody has locked, then their items.     *)
Skippable(c) == {o \in Core!Due : \A d \in Calls \ {c} : Row("order", o) \notin held[d]}

ExpireOrders(c) ==
    /\ Ready(c, "expire", "first")
    /\ \/ \E B \in SUBSET Skippable(c) :
            /\ B # {} /\ Cardinality(B) = Min({BatchSize, Cardinality(Skippable(c))})
            /\ held' = [held EXCEPT ![c] = {Row("order", o) : o \in B}]
            /\ stage' = [stage EXCEPT ![c] = "items"]
            /\ todo' = [todo EXCEPT ![c] = ItemLocks(UNION {Core!Pending(o) : o \in B})]
            /\ UNCHANGED <<request, rows, writes>>
       \/ Skippable(c) = {} /\ End(c)

OrdersOf(locks) == {l[2] : l \in {h \in locks : h[1] = "order"}}

ExpireWrites(B, R) ==
    [NoWrites EXCEPT !.order = All(B, "expired"),
                     !.res = All(Core!ReleasedBy(B), "expired"),
                     !.seat = All(Core!SeatsToMove(R), "available")]

ExpireDecides(c) ==
    /\ Ready(c, "expire", "items")
    /\ Put(c, ExpireWrites(OrdersOf(held[c]), rows[c]))

-----------------------------------------------------------------------------
(* COMMIT: the writes become the rows.  The answer may be lost on the way. *)
Apply(w) ==
    LET over(f, g) == [x \in DOMAIN g |-> IF x \in DOMAIN f THEN f[x] ELSE g[x]] IN
    /\ orderStatus' = over(w.order, orderStatus)
    /\ orderUser' = over(w.owner, orderUser)
    /\ resStatus' = over(w.res, resStatus)
    /\ resTicket' = over(w.move, resTicket)
    /\ resPrice' = over(w.price, resPrice)
    /\ ticketStatus' = over(w.seat, ticketStatus)
    /\ payStatus' = [p \in DOMAIN payStatus |->
                       IF p \in DOMAIN w.pay THEN w.pay[p].status
                       ELSE IF p \in w.close THEN "refunded" ELSE payStatus[p]]
    /\ payAmount' = over([p \in DOMAIN w.pay |-> w.pay[p].amount], payAmount)
    /\ payMethod' = over([p \in DOMAIN w.pay |-> w.pay[p].method], payMethod)
    /\ approved' = [r \in DOMAIN approved |-> approved[r] + IF r \in DOMAIN w.refund THEN 1 ELSE 0]
    /\ refunded' = [r \in DOMAIN refunded |->
                      refunded[r] + IF r \in DOMAIN w.refund THEN w.refund[r] ELSE 0]
    /\ wallet' = [u \in Users |-> wallet[u] + IF u \in DOMAIN w.gain THEN w.gain[u] ELSE 0]

Commit(c) ==
    /\ stage[c] = "commit"
    /\ Apply(writes[c]) /\ End(c)
    /\ UNCHANGED <<apiDue, dbDue, started, alone>>

(* A statement or the connection fails: ROLLBACK, and an error.            *)
Fails(c) == stage[c] \notin {"idle", "done"} /\ End(c)

(* PostgreSQL finds calls that wait for each other and ends one of them    *)
(* with an error, which the service does not retry.                        *)
Waits == {w \in Calls \X Calls :
            todo[w[1]] # <<>> /\ Conflict(w[1], w[2], Head(todo[w[1]]))}
Transitive(T) == \A x, y, z \in Calls : <<x, y>> \in T /\ <<y, z>> \in T => <<x, z>> \in T
InCycle(R, c) == \A T \in SUBSET (Calls \X Calls) : R \subseteq T /\ Transitive(T) => <<c, c>> \in T
Deadlocked(c) == InCycle(Waits, c)
Victim(c) == todo[c] # <<>> /\ Blocked(c) /\ Deadlocked(c) /\ End(c)

-----------------------------------------------------------------------------
Paying(o) == Cardinality({c \in Calls : request[c].op = "pay" /\ request[c].order = o})

(* Which of the unused identities a new row gets makes no difference.      *)
Unused == {o \in Orders : orderStatus[o] = "none"}
First(S) == {o \in S : o = CHOOSE x \in S : TRUE}

Requests ==
    LET taken == {request[c].order : c \in {d \in Calls : request[d].op \notin {"none", "expire"}}}
        active == {r \in Core!Reservations : resStatus[r] \in {"pending", "paid"}}
        open == {r[1] : r \in active}
    IN  {[op |-> "reserve", user |-> u, order |-> o, seats |-> S] :
            u \in Users, o \in First(Unused \ taken), S \in {T \in (SUBSET Tickets) \ {{}} : Cardinality(T) <= MaxPerOrder}}
        \cup {[op |-> "pay", order |-> o, method |-> m[1], succeeds |-> m[2]] :
            o \in {x \in open : NextAttempt(x)[2] + Paying(x) <= MaxAttempts},
            m \in {<<"wallet", TRUE>>, <<"bank_card", TRUE>>, <<"bank_card", FALSE>>}}
        \cup {[op |-> "cancel", order |-> r[1], res |-> r, percent |-> p] : r \in active, p \in Percents}
        \cup {[op |-> "review", order |-> r[1], res |-> r, to |-> s] :
            r \in active, s \in {"paid", "expired"}}
        \cup {[op |-> "change", order |-> x[1][1], res |-> x[1], seat |-> x[2]] : x \in active \X Tickets}
        \cup {[op |-> "expire"]}

MayBegin(c) == stage[c] = "idle" /\ \A d \in Calls : d < c => stage[d] # "idle"

(* BEGIN, and the first statement.                                         *)
FirstLocks(q) ==
    CASE q.op = "reserve" -> <<Row("user", q.user)>>
      [] q.op \in {"pay", "change"} -> <<Row("order", q.order)>>
      [] q.op \in {"cancel", "review"} -> JoinLocks(q.res)
      [] q.op = "expire" -> <<>>

Begin(c, q) ==
    /\ request' = [request EXCEPT ![c] = q]
    /\ stage' = [stage EXCEPT ![c] = "first"]
    /\ todo' = [todo EXCEPT ![c] = FirstLocks(q)]
    /\ UNCHANGED <<held, rows, writes>>

Statement(c) ==
    \/ ReserveSeats(c) \/ ReserveDecides(c)
    \/ PayItems(c) \/ PayWallet(c) \/ PayDecides(c)
    \/ CancelRefund(c) \/ CancelDecides(c) \/ ReviewDecides(c)
    \/ ChangeRow(c) \/ ChangeSeats(c) \/ ChangeDecides(c)
    \/ ExpireOrders(c) \/ ExpireDecides(c)

Step(c) ==
    \/ Commit(c)
    \/ /\ Take(c) \/ Statement(c) \/ Victim(c)
       /\ UNCHANGED <<coreVars, alone>>

Alone ==
    /\ \A c \in Calls : stage[c] = "idle"
    /\ alone < MaxAlone /\ alone' = alone + 1
    /\ Core!Next
    /\ Unused \ Unused' \subseteq First(Unused)
    /\ UNCHANGED callVars

Next ==
    \/ Alone
    \/ \E c \in Calls :
        \/ Step(c)
        \/ /\ (MayBegin(c) /\ \E q \in Requests : Begin(c, q)) \/ Fails(c)
           /\ UNCHANGED <<coreVars, alone>>

(* A call that has begun goes on; deadlock_timeout finds every deadlock.   *)
Spec == Init /\ [][Next]_vars /\ WF_vars(\E c \in Calls : Step(c))

-----------------------------------------------------------------------------
(* Whatever calls overlap, what they commit is what some order of whole    *)
(* calls does: a call decides from rows that are still true when it        *)
(* commits, so that Booking may take each call as one step.                *)
ImplementsBooking == Core!Spec

(* The calls lock orders before seats and seats in the order of their ids: *)
(* without the rows of users, of which reserve takes one first and wallet  *)
(* payments and refunds take one last, no calls could wait for each other. *)
LockOrderKept ==
    LET waits == {w \in Waits : Head(todo[w[1]])[1] # "user"}
    IN  \A c \in Calls : ~InCycle(waits, c)

(* A deadlock over a user's row needs a reserve of that very user, which   *)
(* holds the row while it waits for a seat.                                *)
DeadlockNeedsReserve ==
    \A c \in Calls : Deadlocked(c) =>
        \E d \in Calls : request[d].op = "reserve" /\ stage[d] = "seats" /\ Deadlocked(d)

(* Every call is answered: what it waits for is given back by calls that   *)
(* commit, roll back or are ended by the deadlock detector.                *)
CallsEnd == \A c \in Calls : stage[c] # "idle" ~> stage[c] = "done"
=============================================================================
