----------------------------- MODULE MCBooking -----------------------------
(* Instances of Booking for TLC.                                           *)
EXTENDS Booking, TLC

CONSTANTS alice, bob, support, t1, t2, t3, m1, m2, o1, o2

MCMatchOf == [t \in Tickets |-> IF t = t3 THEN m2 ELSE m1]
MCPrice == [t \in Tickets |-> IF t = t1 THEN 3 ELSE 2]
MCWallet0 == [u \in Users |-> IF u = alice THEN 5 ELSE 0]

(* The deadline of an order that is no longer pending is never read again, *)
(* nor is any action enabled or disabled by it: a view without it leaves   *)
(* out no step, so liveness may be checked under it too.                   *)
PendingOrders == {o \in Orders : orderStatus[o] = "pending"}
Relevant == <<seatVars, moneyVars, apiDue \cap PendingOrders, dbDue \cap PendingOrders, started>>
=============================================================================
