------------------------------ MODULE SeatSale ------------------------------
(***************************************************************************)
(* What the booking core promises, without tables: each seat is free,      *)
(* withdrawn, or with one order; an order opens by taking seats, may lose  *)
(* or swap them while it is open, and closes once, either by buying all    *)
(* the seats it still has or by losing the last of them.  A bought seat    *)
(* changes hands only by being returned.                                   *)
(***************************************************************************)
CONSTANTS Seats, Orders, Matches, MatchOf

VARIABLES
    holder,     \* the order a seat is with, or "free" or "withdrawn"
    bought,     \* the seats that are paid for
    phase       \* "new", "open" or "closed", for each order

saleVars == <<holder, bought, phase>>

SeatsOf(o) == {s \in Seats : holder[s] = o}

Init ==
    /\ holder \in [Seats -> {"free", "withdrawn"}]
    /\ bought = {}
    /\ phase = [o \in Orders |-> "new"]

Hold(o, S) ==
    /\ phase[o] = "new"
    /\ S # {} /\ \A s \in S : holder[s] = "free"
    /\ holder' = [s \in Seats |-> IF s \in S THEN o ELSE holder[s]]
    /\ phase' = [phase EXCEPT ![o] = "open"]
    /\ UNCHANGED bought

Buy(o) ==
    /\ phase[o] = "open"
    /\ bought' = bought \cup SeatsOf(o)
    /\ phase' = [phase EXCEPT ![o] = "closed"]
    /\ UNCHANGED holder

(* Seats given up before they are paid for; an order left with none        *)
(* closes.                                                                 *)
Release(S) ==
    /\ S # {} /\ \A s \in S : holder[s] \in Orders /\ s \notin bought
    /\ holder' = [s \in Seats |-> IF s \in S THEN "free" ELSE holder[s]]
    /\ phase' = [o \in Orders |->
                   IF SeatsOf(o) # {} /\ SeatsOf(o) \subseteq S THEN "closed" ELSE phase[o]]
    /\ UNCHANGED bought

Return(s) ==
    /\ s \in bought
    /\ holder' = [holder EXCEPT ![s] = "free"]
    /\ bought' = bought \ {s}
    /\ UNCHANGED phase

Swap(s, t) ==
    /\ holder[s] \in Orders /\ s \notin bought
    /\ holder[t] = "free"
    /\ MatchOf[s] = MatchOf[t]
    /\ holder' = [holder EXCEPT ![t] = holder[s], ![s] = "free"]
    /\ UNCHANGED <<bought, phase>>

Next ==
    \/ \E o \in Orders, S \in SUBSET Seats : Hold(o, S)
    \/ \E o \in Orders : Buy(o)
    \/ \E S \in SUBSET Seats : Release(S)
    \/ \E s \in Seats : Return(s)
    \/ \E s, t \in Seats : Swap(s, t)

Spec == Init /\ [][Next]_saleVars
=============================================================================
