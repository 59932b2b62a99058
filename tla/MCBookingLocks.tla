--------------------------- MODULE MCBookingLocks ---------------------------
(* Instances of BookingLocks for TLC.                                      *)
EXTENDS BookingLocks, TLC

CONSTANTS alice, support, m1, o1, o2

MCMatchOf == [t \in Tickets |-> m1]
MCPrice == [t \in Tickets |-> t + 1]
MCWallet0 == [u \in Users |-> 5]
=============================================================================
