---------------------------- MODULE MoneyProofs -----------------------------
(***************************************************************************)
(* Proofs about the money of Booking, for any sets of users, seats and     *)
(* orders, any prices and percents and any number of attempts: no amount   *)
(* or balance becomes negative, an order never gets back more than it      *)
(* paid, wallet money is conserved, and a seat becomes paid only by a      *)
(* payment of its price.                                                   *)
(***************************************************************************)
EXTENDS BookingProofs, FiniteSetTheorems

(***************************************************************************)
(* Sums over finite sets.  MapThenSumSet is a function defined by          *)
(* recursion on the subsets of a set; that it exists and what it computes  *)
(* is proved by taking a smallest subset that is an exception.             *)
(***************************************************************************)

(* The function MapThenSumSet defines by recursion.                        *)
First(S) == CHOOSE x \in S : TRUE
IsSum(g, f, U) == g = [T \in SUBSET U |-> IF T = {} THEN 0 ELSE f[First(T)] + g[T \ {First(T)}]]

LEMMA SumDef ==
    ASSUME NEW f, NEW S
    PROVE  SumOver(f, S) = (CHOOSE g : IsSum(g, f, S))[S]
BY DEF SumOver, MapThenSumSet, MapThenFoldSet, IsSum, First

LEMMA FirstIn == ASSUME NEW S, S # {} PROVE First(S) \in S
BY DEF First

(* Induction over the subsets of a finite set: a set of bad subsets has a  *)
(* smallest one.                                                           *)
LEMMA SmallestSubset ==
    ASSUME NEW S, IsFiniteSet(S), NEW B \in SUBSET (SUBSET S), B # {}
    PROVE  \E T \in B : \A V \in B : V \subseteq T => V = T
<1>1. IsWellFoundedOn(StrictSubsetOrdering(S), SUBSET S)
  BY FS_StrictSubsetOrderingWellFounded, FS_FiniteSubsetsOfFinite
<1>2. \E T \in B : \A V \in B : ~ (<<V, T>> \in StrictSubsetOrdering(S))
  BY <1>1, WFMin
<1> QED BY <1>2 DEF StrictSubsetOrdering

LEMMA SumsAgree ==
    ASSUME NEW f, NEW S, IsFiniteSet(S), NEW g, IsSum(g, f, S),
           NEW U \in SUBSET S, NEW h, IsSum(h, f, U)
    PROVE  g[U] = h[U]
<1> DEFINE B == {T \in SUBSET U : g[T] # h[T]}
<1>1. SUFFICES ASSUME B # {} PROVE FALSE
  OBVIOUS
<1>2. IsFiniteSet(U)
  BY FS_Subset
<1>3. PICK T \in B : \A V \in B : V \subseteq T => V = T
  <2> HIDE DEF B
  <2>1. B \in SUBSET (SUBSET U)
    BY DEF B
  <2> QED BY <1>1, <1>2, <2>1, SmallestSubset
<1>4. T # {}
  BY DEF IsSum
<1>5. First(T) \in T
  BY <1>4, FirstIn
<1>6. g[T \ {First(T)}] = h[T \ {First(T)}]
  BY <1>3, <1>5
<1> QED BY <1>4, <1>6 DEF IsSum

LEMMA SumExists ==
    ASSUME NEW f, NEW S, IsFiniteSet(S)
    PROVE  \E g : IsSum(g, f, S)
<1> DEFINE B == {T \in SUBSET S : ~ \E g : IsSum(g, f, T)}
<1>1. SUFFICES ASSUME B # {} PROVE FALSE
  OBVIOUS
<1>2. PICK T \in B : \A V \in B : V \subseteq T => V = T
  <2> HIDE DEF B
  <2>1. B \in SUBSET (SUBSET S)
    BY DEF B
  <2> QED BY <1>1, <2>1, SmallestSubset
<1> DEFINE Solve(V) == CHOOSE g : IsSum(g, f, V)
<1>3. \A V \in SUBSET T : V # T => IsSum(Solve(V), f, V)
  BY <1>2
<1> DEFINE h == [V \in SUBSET T |-> IF V = {} THEN 0 ELSE f[First(V)] + Solve(V \ {First(V)})[V \ {First(V)}]]
<1>4. \A W \in SUBSET T : W # T => h[W] = Solve(W)[W]
  <2> SUFFICES ASSUME NEW W \in SUBSET T, W # T PROVE h[W] = Solve(W)[W]
    OBVIOUS
  <2>1. IsSum(Solve(W), f, W)
    BY <1>3
  <2>2. CASE W = {}
    BY <2>1, <2>2 DEF IsSum
  <2>3. CASE W # {}
    <3> DEFINE V == W \ {First(W)}
    <3>1. V \in SUBSET W /\ V # T /\ V \in SUBSET T
      BY <2>3, FirstIn
    <3>2. IsSum(Solve(V), f, V)
      BY <1>3, <3>1
    <3>3. IsFiniteSet(W)
      BY FS_Subset
    <3> HIDE DEF Solve, V
    <3>4. Solve(W)[V] = Solve(V)[V]
      BY <2>1, <3>1, <3>2, <3>3, SumsAgree
    <3>5. Solve(W)[W] = f[First(W)] + Solve(W)[V]
      BY <2>1, <2>3 DEF IsSum, V
    <3>6. h[W] = f[First(W)] + Solve(V)[V]
      BY <2>3 DEF V
    <3> QED BY <3>4, <3>5, <3>6
  <2> QED BY <2>2, <2>3
<1>5. IsSum(h, f, T)
  <2>1. \A V \in SUBSET T : V # {} => h[V \ {First(V)}] = Solve(V \ {First(V)})[V \ {First(V)}]
    <3> SUFFICES ASSUME NEW V \in SUBSET T, V # {}
                 PROVE  h[V \ {First(V)}] = Solve(V \ {First(V)})[V \ {First(V)}]
      OBVIOUS
    <3>1. V \ {First(V)} \in SUBSET T /\ V \ {First(V)} # T
      BY FirstIn
    <3> HIDE DEF h, Solve
    <3> QED BY <1>4, <3>1
  <2>2. h = [V \in SUBSET T |-> IF V = {} THEN 0 ELSE f[First(V)] + h[V \ {First(V)}]]
    <3> HIDE DEF Solve
    <3> QED BY <2>1
  <2> HIDE DEF h
  <2> QED BY <2>2 DEF IsSum
<1> QED BY <1>2, <1>5

LEMMA SumByFirst ==
    ASSUME NEW f, NEW S, IsFiniteSet(S)
    PROVE  SumOver(f, S) = IF S = {} THEN 0 ELSE f[First(S)] + SumOver(f, S \ {First(S)})
<1> DEFINE Solve(V) == CHOOSE g : IsSum(g, f, V)
<1>1. IsSum(Solve(S), f, S)
  BY SumExists
<1>2. CASE S = {}
  BY <1>1, <1>2, SumDef DEF IsSum
<1>3. CASE S # {}
  <2> DEFINE V == S \ {First(S)}
  <2>1. V \in SUBSET S /\ IsFiniteSet(V)
    BY FS_Subset
  <2>2. IsSum(Solve(V), f, V)
    BY <2>1, SumExists
  <2> HIDE DEF Solve, V
  <2>3. Solve(S)[V] = Solve(V)[V]
    BY <1>1, <2>1, <2>2, SumsAgree
  <2>4. Solve(S)[S] = f[First(S)] + Solve(S)[V]
    BY <1>1, <1>3 DEF IsSum, V
  <2>5. SumOver(f, S) = Solve(S)[S] /\ SumOver(f, V) = Solve(V)[V]
    BY SumDef DEF Solve
  <2> QED BY <1>3, <2>3, <2>4, <2>5 DEF V
<1> QED BY <1>2, <1>3

-----------------------------------------------------------------------------
LEMMA SumEmpty == ASSUME NEW f PROVE SumOver(f, {}) = 0
BY FS_EmptySet, SumByFirst

LEMMA SumIsNat ==
    ASSUME NEW f, NEW S, IsFiniteSet(S), \A x \in S : f[x] \in Nat
    PROVE  SumOver(f, S) \in Nat
<1> DEFINE B == {T \in SUBSET S : SumOver(f, T) \notin Nat}
<1>1. SUFFICES ASSUME B # {} PROVE FALSE
  OBVIOUS
<1>2. PICK T \in B : \A V \in B : V \subseteq T => V = T
  <2> HIDE DEF B
  <2>1. B \in SUBSET (SUBSET S)
    BY DEF B
  <2> QED BY <1>1, <2>1, SmallestSubset
<1>3. IsFiniteSet(T)
  BY FS_Subset
<1>4. T # {}
  BY SumEmpty
<1>5. First(T) \in T
  BY <1>4, FirstIn
<1>6. SumOver(f, T \ {First(T)}) \in Nat
  BY <1>2, <1>5
<1>7. SumOver(f, T) = f[First(T)] + SumOver(f, T \ {First(T)})
  BY <1>3, <1>4, SumByFirst
<1> QED BY <1>5, <1>6, <1>7

(* The order of the elements does not matter.                              *)
LEMMA SumRemove ==
    ASSUME NEW f, NEW S, IsFiniteSet(S), \A y \in S : f[y] \in Nat, NEW x \in S
    PROVE  SumOver(f, S) = f[x] + SumOver(f, S \ {x})
<1> DEFINE B == {T \in SUBSET S : \E y \in T : SumOver(f, T) # f[y] + SumOver(f, T \ {y})}
<1>1. SUFFICES ASSUME B # {} PROVE FALSE
  OBVIOUS
<1>2. PICK T \in B : \A V \in B : V \subseteq T => V = T
  <2> HIDE DEF B
  <2>1. B \in SUBSET (SUBSET S)
    BY DEF B
  <2> QED BY <1>1, <2>1, SmallestSubset
<1>3. PICK y \in T : SumOver(f, T) # f[y] + SumOver(f, T \ {y})
  OBVIOUS
<1> DEFINE z == First(T)
<1>4. IsFiniteSet(T) /\ z \in T /\ T \subseteq S
  BY <1>3, FirstIn, FS_Subset
<1>5. SumOver(f, T) = f[z] + SumOver(f, T \ {z})
  BY <1>3, <1>4, SumByFirst
<1>6. y # z
  BY <1>3, <1>5
<1> HIDE DEF z
<1>0. \A V \in SUBSET T : \A w \in V : V # T => SumOver(f, V) = f[w] + SumOver(f, V \ {w})
  BY <1>2, <1>4
<1> HIDE DEF B
<1>7. SumOver(f, T \ {z}) = f[y] + SumOver(f, (T \ {z}) \ {y})
  BY <1>0, <1>4, <1>6
<1>8. SumOver(f, T \ {y}) = f[z] + SumOver(f, (T \ {y}) \ {z})
  BY <1>0, <1>4, <1>6
<1>9. (T \ {z}) \ {y} = (T \ {y}) \ {z}
  OBVIOUS
<1> DEFINE R == (T \ {y}) \ {z}
<1>10. SumOver(f, R) \in Nat
  <2>1. IsFiniteSet(R)
    BY <1>4, FS_Subset
  <2> QED BY <1>4, <2>1, SumIsNat
<1>11. f[y] \in Nat /\ f[z] \in Nat
  BY <1>3, <1>4
<1> HIDE DEF R
<1>12. SumOver(f, T \ {z}) = f[y] + SumOver(f, R) /\ SumOver(f, T \ {y}) = f[z] + SumOver(f, R)
  BY <1>7, <1>8, <1>9 DEF R
<1> QED BY <1>3, <1>5, <1>10, <1>11, <1>12

LEMMA SumAdd ==
    ASSUME NEW f, NEW S, IsFiniteSet(S), NEW x, x \notin S,
           \A y \in S \cup {x} : f[y] \in Nat
    PROVE  SumOver(f, S \cup {x}) = f[x] + SumOver(f, S)
<1>1. IsFiniteSet(S \cup {x}) /\ (S \cup {x}) \ {x} = S
  BY FS_AddElement
<1> QED BY <1>1, SumRemove

(* Only the values on the set matter.                                      *)
LEMMA SumSame ==
    ASSUME NEW f, NEW g, NEW S, IsFiniteSet(S), \A x \in S : f[x] = g[x]
    PROVE  SumOver(f, S) = SumOver(g, S)
<1> DEFINE B == {T \in SUBSET S : SumOver(f, T) # SumOver(g, T)}
<1>1. SUFFICES ASSUME B # {} PROVE FALSE
  OBVIOUS
<1>2. PICK T \in B : \A V \in B : V \subseteq T => V = T
  <2> HIDE DEF B
  <2>1. B \in SUBSET (SUBSET S)
    BY DEF B
  <2> QED BY <1>1, <2>1, SmallestSubset
<1>3. IsFiniteSet(T)
  BY FS_Subset
<1>4. T # {}
  BY SumEmpty
<1>5. First(T) \in T
  BY <1>4, FirstIn
<1>6. SumOver(f, T \ {First(T)}) = SumOver(g, T \ {First(T)})
  BY <1>2, <1>5
<1>7. /\ SumOver(f, T) = f[First(T)] + SumOver(f, T \ {First(T)})
      /\ SumOver(g, T) = g[First(T)] + SumOver(g, T \ {First(T)})
  BY <1>3, <1>4, SumByFirst
<1> QED BY <1>2, <1>5, <1>6, <1>7

(* One value of the set changes.                                           *)
LEMMA SumChange ==
    ASSUME NEW f, NEW g, NEW S, IsFiniteSet(S), NEW x \in S, NEW d \in Int,
           \A y \in S : f[y] \in Nat /\ g[y] \in Nat,
           \A y \in S \ {x} : g[y] = f[y],
           g[x] = f[x] + d
    PROVE  SumOver(g, S) = SumOver(f, S) + d
<1>1. IsFiniteSet(S \ {x})
  BY FS_RemoveElement
<1>2. SumOver(g, S \ {x}) = SumOver(f, S \ {x}) /\ SumOver(f, S \ {x}) \in Nat
  BY <1>1, SumSame, SumIsNat
<1>3. SumOver(f, S) = f[x] + SumOver(f, S \ {x}) /\ SumOver(g, S) = g[x] + SumOver(g, S \ {x})
  BY SumRemove
<1> QED BY <1>2, <1>3

(* Values that are zero may be left out.                                   *)
LEMMA SumZeros ==
    ASSUME NEW f, NEW S, IsFiniteSet(S), \A x \in S : f[x] = 0
    PROVE  SumOver(f, S) = 0
<1> DEFINE B == {T \in SUBSET S : SumOver(f, T) # 0}
<1>1. SUFFICES ASSUME B # {} PROVE FALSE
  OBVIOUS
<1>2. PICK T \in B : \A V \in B : V \subseteq T => V = T
  <2> HIDE DEF B
  <2>1. B \in SUBSET (SUBSET S)
    BY DEF B
  <2> QED BY <1>1, <2>1, SmallestSubset
<1>3. IsFiniteSet(T)
  BY FS_Subset
<1>4. T # {} /\ First(T) \in T
  BY SumEmpty, FirstIn
<1>5. SumOver(f, T \ {First(T)}) = 0
  BY <1>2, <1>4
<1>6. SumOver(f, T) = f[First(T)] + SumOver(f, T \ {First(T)})
  BY <1>3, <1>4, SumByFirst
<1> QED BY <1>2, <1>4, <1>5, <1>6

LEMMA SumUnion ==
    ASSUME NEW f, NEW S, IsFiniteSet(S), NEW Z, IsFiniteSet(Z), S \cap Z = {},
           \A x \in S \cup Z : f[x] \in Nat
    PROVE  SumOver(f, S \cup Z) = SumOver(f, S) + SumOver(f, Z)
<1> DEFINE B == {T \in SUBSET Z : SumOver(f, S \cup T) # SumOver(f, S) + SumOver(f, T)}
<1>1. SUFFICES ASSUME B # {} PROVE FALSE
  OBVIOUS
<1>2. PICK T \in B : \A V \in B : V \subseteq T => V = T
  <2> HIDE DEF B
  <2>1. B \in SUBSET (SUBSET Z)
    BY DEF B
  <2> QED BY <1>1, <2>1, SmallestSubset
<1>3. T # {} /\ First(T) \in T /\ First(T) \notin S
  <2>1. CASE T = {}
    <3>0. S \cup T = S
      BY <2>1
    <3>1. SumOver(f, S \cup T) = SumOver(f, S) /\ SumOver(f, S) \in Nat /\ SumOver(f, T) = 0
      BY <2>1, <3>0, SumEmpty, SumIsNat
    <3>2. SumOver(f, S \cup T) # SumOver(f, S) + SumOver(f, T)
      OBVIOUS
    <3> HIDE DEF B
    <3> QED BY <3>1, <3>2
  <2> QED BY <2>1, FirstIn
<1> DEFINE x == First(T)
           V == T \ {x}
<1>4. V \subseteq T /\ V # T /\ x \notin V /\ x \notin S \cup V /\ T = V \cup {x} /\ V \subseteq Z
  BY <1>3
<1>5. SumOver(f, S \cup V) = SumOver(f, S) + SumOver(f, V)
  BY <1>2, <1>4
<1>6. IsFiniteSet(V) /\ IsFiniteSet(S \cup V)
  BY <1>4, FS_Subset, FS_Union
<1>7. \A y \in (S \cup V) \cup {x} : f[y] \in Nat
  BY <1>3
<1>12. SumOver(f, S \cup T) # SumOver(f, S) + SumOver(f, T)
  OBVIOUS
<1> HIDE DEF x, V, B
<1>8. SumOver(f, V \cup {x}) = f[x] + SumOver(f, V)
  BY <1>4, <1>6, <1>7, SumAdd
<1>9. SumOver(f, (S \cup V) \cup {x}) = f[x] + SumOver(f, S \cup V)
  BY <1>4, <1>6, <1>7, SumAdd
<1>10. S \cup T = (S \cup V) \cup {x}
  BY <1>4
<1>13. SumOver(f, T) = f[x] + SumOver(f, V)
  BY <1>4, <1>8
<1>14. SumOver(f, S \cup T) = f[x] + SumOver(f, S \cup V)
  BY <1>9, <1>10
<1>11. f[x] \in Nat /\ SumOver(f, S) \in Nat /\ SumOver(f, V) \in Nat
  BY <1>4, <1>6, <1>7, SumIsNat
<1> QED BY <1>5, <1>11, <1>12, <1>13, <1>14

(* So may elements outside, whose values are zero.                         *)
LEMMA SumWithout ==
    ASSUME NEW f, NEW S, IsFiniteSet(S), NEW Z \in SUBSET S,
           \A x \in S : f[x] \in Nat, \A x \in S \ Z : f[x] = 0
    PROVE  SumOver(f, S) = SumOver(f, Z)
<1> DEFINE R == S \ Z
<1>1. IsFiniteSet(Z) /\ IsFiniteSet(R) /\ Z \cap R = {} /\ S = Z \cup R
  BY FS_Subset
<1>2. \A x \in R : f[x] = 0
  OBVIOUS
<1> HIDE DEF R
<1>3. SumOver(f, S) = SumOver(f, Z) + SumOver(f, R)
  BY <1>1, SumUnion
<1>4. SumOver(f, R) = 0 /\ SumOver(f, Z) \in Nat
  BY <1>1, <1>2, SumZeros, SumIsNat
<1> QED BY <1>3, <1>4

LEMMA SumSingle ==
    ASSUME NEW f, NEW x, f[x] \in Nat
    PROVE  SumOver(f, {x}) = f[x]
<1>1. IsFiniteSet({x}) /\ {x} \ {x} = {}
  BY FS_Singleton
<1>2. SumOver(f, {x}) = f[x] + SumOver(f, {x} \ {x})
  BY <1>1, SumRemove
<1> QED BY <1>1, <1>2, SumEmpty

-----------------------------------------------------------------------------
(***************************************************************************)
(* The invariant.  An order's balance and a user's are sums over rows that *)
(* four calls move; each call changes one term of one of them.             *)
(***************************************************************************)

Taken(o) == {p \in Payments : p[1] = o /\ Took(p)}
Spent(u) == {p \in Payments : orderUser[p[1]] = u /\ payMethod[p] = "wallet" /\ Took(p)}
Back(u) == {r \in Reservations : orderUser[OrderOf(r)] = u}
RowsOf(o) == {o} \X Tickets

MoneyTypes ==
    /\ payAmount \in [Payments -> Nat]
    /\ payMethod \in [Payments -> Methods]
    /\ refunded \in [Reservations -> Nat]
    /\ wallet \in [Users -> Nat]

Owned == \A o \in Orders : orderStatus[o] # "none" => orderUser[o] \in Users

(* Only an approved cancellation is refunded.                              *)
RefundedAreCancelled ==
    \A r \in Reservations : resStatus[r] # "cancelled" => refunded[r] = 0

Covered(o) == SumOver(refunded, RowsOf(o)) + Total(Paid(o)) <= SumOver(payAmount, Taken(o))

Conserved(u) ==
    wallet[u] = Wallet0[u] - SumOver(payAmount, Spent(u)) + SumOver(refunded, Back(u))

MoneyIInv ==
    /\ MoneyTypes /\ Owned /\ RefundedAreCancelled
    /\ \A o \in Orders : Covered(o)
    /\ \A u \in Users : Conserved(u)

LEMMA MoneyInvMeaning ==
    ASSUME OrderIInv, MoneyIInv
    PROVE  TypeOK /\ RefundsCovered /\ WalletConserved
<1>1. TypeOK
  BY DEF TypeOK, MoneyIInv, MoneyTypes, OrderIInv, ApprovedOnce
<1>2. RefundsCovered
  BY DEF RefundsCovered, MoneyIInv, Covered, Taken, Took, RowsOf
<1>3. WalletConserved
  BY DEF WalletConserved, MoneyIInv, Conserved, Spent, Back, Took
<1> QED BY <1>1, <1>2, <1>3

LEMMA RowsFinite ==
    /\ IsFiniteSet(Reservations) /\ IsFiniteSet(Payments)
    /\ \A S : S \subseteq Reservations \/ S \subseteq Payments => IsFiniteSet(S)
<1>1. IsFiniteSet(1..MaxAttempts)
  BY FS_Interval, BookingAssumption
<1>2. IsFiniteSet(Reservations) /\ IsFiniteSet(Payments)
  BY <1>1, FiniteRows, FS_Product DEF Reservations, Payments
<1> QED BY <1>2, FS_Subset

LEMMA RowSets ==
    /\ \A o : Taken(o) \subseteq Payments /\ Paid(o) \subseteq Reservations
              /\ Pending(o) \subseteq Reservations
    /\ \A u : Spent(u) \subseteq Payments /\ Back(u) \subseteq Reservations
    /\ \A o \in Orders : RowsOf(o) = {r \in Reservations : OrderOf(r) = o}
BY RowFacts DEF Taken, Paid, Pending, HasStatus, Spent, Back, RowsOf

(* roundMoney never refunds more than the price.                           *)
LEMMA RefundableBounded ==
    ASSUME NEW price \in Nat, NEW percent \in 0..100
    PROVE  Refundable(price, percent) \in 0..price
<1>1. price * percent \in Nat /\ price * percent <= price * 100
  BY Z3
<1> DEFINE x == price * percent
<1>2. x \in Nat /\ x <= price * 100
  BY <1>1
<1> HIDE DEF x
<1>3. (x + 50) \div 100 \in 0..price
  BY <1>2
<1> QED BY <1>3 DEF Refundable, Penalty, x

(* An order or a user none of whose rows a call moves stays balanced.      *)
LEMMA CoveredUntouched ==
    ASSUME NEW o \in Orders, Covered(o),
           Paid(o)' = Paid(o), Taken(o)' = Taken(o),
           \A r \in Paid(o) : resPrice'[r] = resPrice[r],
           \A p \in Taken(o) : payAmount'[p] = payAmount[p],
           \A r \in Reservations : OrderOf(r) = o => refunded'[r] = refunded[r]
    PROVE  Covered(o)'
<1>1. IsFiniteSet(RowsOf(o)) /\ IsFiniteSet(Paid(o)) /\ IsFiniteSet(Taken(o))
  BY RowSets, RowsFinite
<1>2. SumOver(refunded', RowsOf(o)) = SumOver(refunded, RowsOf(o))
  BY <1>1, RowSets, SumSame
<1>3. SumOver(resPrice', Paid(o)) = SumOver(resPrice, Paid(o))
  BY <1>1, SumSame
<1>4. SumOver(payAmount', Taken(o)) = SumOver(payAmount, Taken(o))
  BY <1>1, SumSame
<1> QED BY <1>2, <1>3, <1>4 DEF Covered, Total, RowsOf

LEMMA ConservedUntouched ==
    ASSUME NEW u \in Users, Conserved(u), wallet'[u] = wallet[u],
           Spent(u)' = Spent(u), Back(u)' = Back(u),
           \A p \in Spent(u) : payAmount'[p] = payAmount[p],
           \A r \in Back(u) : refunded'[r] = refunded[r]
    PROVE  Conserved(u)'
<1>1. IsFiniteSet(Spent(u)) /\ IsFiniteSet(Back(u))
  BY RowSets, RowsFinite
<1>2. SumOver(payAmount', Spent(u)) = SumOver(payAmount, Spent(u))
  BY <1>1, SumSame
<1>3. SumOver(refunded', Back(u)) = SumOver(refunded, Back(u))
  BY <1>1, SumSame
<1> QED BY <1>2, <1>3 DEF Conserved

(* A call that moves no money and pays nothing: the review to "expired",   *)
(* a ticket change, the job and the clocks.                                *)
LEMMA NoMoneyMoves ==
    ASSUME OrderIInv, MoneyIInv, UNCHANGED <<moneyVars, orderUser>>,
           \A o \in Orders : orderStatus'[o] = "none" <=> orderStatus[o] = "none",
           \A r \in Reservations : resStatus[r] \in {"paid", "cancelled"} => resStatus'[r] = resStatus[r],
           \A r \in Reservations : resStatus'[r] = "paid" => resStatus[r] = "paid",
           \A r \in Reservations : resStatus[r] = "paid" => resPrice'[r] = resPrice[r]
    PROVE  MoneyIInv'
<1> USE DEF MoneyIInv
<1>1. UNCHANGED <<payStatus, payAmount, payMethod, refunded, wallet>>
  BY DEF moneyVars
<1>2. MoneyTypes' /\ Owned'
  BY <1>1 DEF MoneyTypes, Owned
<1>3. RefundedAreCancelled'
  BY <1>1 DEF RefundedAreCancelled
<1>4. \A o \in Orders : Paid(o)' = Paid(o) /\ Taken(o)' = Taken(o)
  BY <1>1 DEF Paid, HasStatus, Taken, Took
<1>5. \A o \in Orders : \A r \in Paid(o) : resPrice'[r] = resPrice[r]
  BY DEF Paid, HasStatus
<1>6. \A o \in Orders : Covered(o)'
  BY <1>1, <1>4, <1>5, CoveredUntouched
<1>7. \A u \in Users : Spent(u)' = Spent(u) /\ Back(u)' = Back(u)
  BY <1>1 DEF Spent, Back, Took
<1>8. \A u \in Users : Conserved(u)'
  BY <1>1, <1>7, ConservedUntouched
<1> QED BY <1>2, <1>3, <1>6, <1>8

(* A new order has neither payments nor refunds, so it changes no balance. *)
LEMMA ReserveKeepsMoney ==
    ASSUME OrderIInv, MoneyIInv,
           NEW u \in Users, NEW o \in Orders, NEW S \in SUBSET Tickets, Reserve(u, o, S)
    PROVE  MoneyIInv'
<1> USE DEF MoneyIInv
<1>1. /\ orderStatus[o] = "none"
      /\ \A x \in Orders : orderStatus'[x] = IF x = o THEN "pending" ELSE orderStatus[x]
      /\ \A x \in Orders : orderUser'[x] = IF x = o THEN u ELSE orderUser[x]
      /\ UNCHANGED <<payStatus, payAmount, payMethod, refunded, wallet>>
  BY DEF Reserve, OrderIInv, SeatTypeOK, moneyVars
<1>2. \A r \in Reservations : r \in {o} \X S <=> OrderOf(r) = o /\ r[2] \in S
  BY DEF Reservations, OrderOf
<1>3. \A r \in Reservations :
        /\ resStatus'[r] = IF OrderOf(r) = o /\ r[2] \in S THEN "pending" ELSE resStatus[r]
        /\ OrderOf(r) # o => resPrice'[r] = resPrice[r]
  BY <1>2 DEF Reserve, SetStatus, OrderIInv, SeatTypeOK
<1>4. \A r \in Reservations : OrderOf(r) = o => resStatus[r] = "none" /\ refunded[r] = 0
  BY <1>1 DEF OrderIInv, OrderAgrees, RefundedAreCancelled
<1>5. \A p \in Payments : p[1] = o => ~Took(p)
  BY <1>1, <1>4 DEF OrderIInv, PaymentsAgree, Some
<1>6. MoneyTypes' /\ Owned' /\ RefundedAreCancelled'
  BY <1>1, <1>3, <1>4 DEF MoneyTypes, Owned, RefundedAreCancelled
<1>7. ASSUME NEW x \in Orders PROVE Covered(x)'
  <2>1. Paid(x)' = Paid(x) /\ \A r \in Paid(x) : OrderOf(r) # o
    BY <1>3, <1>4 DEF Paid, HasStatus
  <2>2. \A r \in Paid(x) : resPrice'[r] = resPrice[r]
    BY <1>3, <2>1, RowSets
  <2>3. Taken(x)' = Taken(x)
    BY <1>1 DEF Taken, Took
  <2> QED BY <1>1, <2>1, <2>2, <2>3, CoveredUntouched
<1>8. ASSUME NEW v \in Users PROVE Conserved(v)'
  <2>1. Spent(v)' = Spent(v)
    BY <1>1, <1>5, RowFacts DEF Spent, Took
  <2> DEFINE others == {r \in Reservations : OrderOf(r) # o /\ orderUser[OrderOf(r)] = v}
  <2>2. /\ others \subseteq Back(v) /\ others \subseteq Back(v)'
        /\ \A r \in Back(v) \cup Back(v)' : refunded[r] \in Nat /\ (r \notin others => refunded[r] = 0)
    BY <1>1, <1>4, RowFacts DEF Back, MoneyTypes
  <2>3. IsFiniteSet(Back(v)) /\ IsFiniteSet(Back(v)')
    <3>1. Back(v)' \subseteq Reservations
      BY DEF Back
    <3> QED BY <3>1, RowSets, RowsFinite
  <2> HIDE DEF others
  <2>4. SumOver(refunded, Back(v)) = SumOver(refunded, others)
    BY <2>2, <2>3, SumWithout
  <2>5. SumOver(refunded, Back(v)') = SumOver(refunded, others)
    BY <2>2, <2>3, SumWithout
  <2> QED BY <1>1, <2>1, <2>4, <2>5 DEF Conserved
<1> QED BY <1>6, <1>7, <1>8

(* A failed attempt records an amount that is never counted.               *)
LEMMA PayFailedKeepsMoney ==
    ASSUME OrderIInv, MoneyIInv,
           NEW u \in Users, NEW p \in Payments, NEW method \in Methods, PayFailed(u, p, method)
    PROVE  MoneyIInv'
<1> USE DEF MoneyIInv
<1>1. /\ payStatus[p] = "none" /\ UNCHANGED <<seatVars, refunded, wallet>>
      /\ payStatus' = [payStatus EXCEPT ![p] = "failed"]
      /\ payAmount' = [payAmount EXCEPT ![p] = AmountDue(p[1])]
      /\ payMethod' = [payMethod EXCEPT ![p] = method]
  BY DEF PayFailed, InsertPayment
<1>2. UNCHANGED <<orderStatus, orderUser, resStatus, resPrice>>
  BY <1>1 DEF seatVars
<1>3. AmountDue(p[1]) \in Nat
  BY RowSets, RowsFinite, SumIsNat DEF AmountDue, Total, OrderIInv, SeatTypeOK
<1>4. MoneyTypes' /\ Owned' /\ RefundedAreCancelled'
  BY <1>1, <1>2, <1>3 DEF MoneyTypes, Owned, RefundedAreCancelled
<1>5. ~Took(p) /\ \A q \in Payments : (Took(q)' <=> Took(q)) /\ (q # p => payAmount'[q] = payAmount[q]
                                                                   /\ payMethod'[q] = payMethod[q])
  BY <1>1 DEF Took, OrderIInv, SeatTypeOK, MoneyTypes
<1>6. ASSUME NEW o \in Orders PROVE Covered(o)'
  <2>1. Paid(o)' = Paid(o) /\ Taken(o)' = Taken(o) /\ \A q \in Taken(o) : payAmount'[q] = payAmount[q]
    BY <1>2, <1>5 DEF Paid, HasStatus, Taken
  <2> QED BY <1>1, <1>2, <2>1, CoveredUntouched
<1>7. ASSUME NEW v \in Users PROVE Conserved(v)'
  <2>1. /\ Spent(v)' = Spent(v) /\ Back(v)' = Back(v)
        /\ \A q \in Spent(v) : payAmount'[q] = payAmount[q]
    BY <1>2, <1>5 DEF Spent, Back
  <2> QED BY <1>1, <2>1, ConservedUntouched
<1> QED BY <1>4, <1>6, <1>7

(* A success takes from the wallet what it records, and turns exactly what *)
(* it was the price of into paid reservations.                             *)
LEMMA PaySuccessKeepsMoney ==
    ASSUME OrderIInv, MoneyIInv,
           NEW u \in Users, NEW p \in Payments, NEW method \in Methods, PaySuccess(u, p, method)
    PROVE  MoneyIInv'
<1> DEFINE o == p[1]
           due == AmountDue(o)
<1> USE DEF MoneyIInv
<1>1. /\ orderStatus[o] = "pending" /\ o \in Orders /\ orderUser[o] = u
      /\ payStatus[p] = "none" /\ CanAfford(u, due, method)
      /\ orderStatus' = [orderStatus EXCEPT ![o] = "paid"]
      /\ resStatus' = SetStatus(resStatus, Pending(o), "paid")
      /\ payStatus' = [payStatus EXCEPT ![p] = "success"]
      /\ payAmount' = [payAmount EXCEPT ![p] = due]
      /\ payMethod' = [payMethod EXCEPT ![p] = method]
      /\ wallet' = Charge(u, due, method)
      /\ UNCHANGED <<orderUser, resPrice, refunded>>
  BY RowFacts DEF PaySuccess, Payable, InsertPayment
<1>2. due \in Nat /\ due = SumOver(resPrice, Pending(o))
  BY RowSets, RowsFinite, SumIsNat DEF AmountDue, Total, OrderIInv, SeatTypeOK
<1> HIDE DEF due
<1>3. \A r \in Reservations : resStatus'[r] =
         IF OrderOf(r) = o /\ resStatus[r] = "pending" THEN "paid" ELSE resStatus[r]
  BY <1>1 DEF SetStatus, OrderIInv, SeatTypeOK, Pending, HasStatus
<1>4. \A q \in Payments :
        /\ Took(q)' <=> q = p \/ Took(q)
        /\ payAmount'[q] = IF q = p THEN due ELSE payAmount[q]
        /\ payMethod'[q] = IF q = p THEN method ELSE payMethod[q]
  BY <1>1 DEF Took, OrderIInv, SeatTypeOK, MoneyTypes
<1>5. ~Took(p) /\ ~Some(o, "paid") /\ \A q \in Payments : q[1] = o => ~Took(q)
  BY <1>1, OpenMeans DEF Took
<1>6. \A v \in Users : wallet'[v] = IF v = u /\ method = "wallet" THEN wallet[v] - due ELSE wallet[v]
  BY <1>1 DEF Charge, MoneyTypes
<1>7. MoneyTypes' /\ Owned' /\ RefundedAreCancelled'
  <2>1. wallet' \in [Users -> Nat]
    <3>1. \A v \in Users : wallet'[v] \in Nat
      BY <1>1, <1>2, <1>6 DEF CanAfford, MoneyTypes
    <3>2. wallet' = [v \in Users |-> wallet'[v]]
      BY <1>1 DEF Charge, MoneyTypes
    <3> QED BY <3>1, <3>2
  <2>2. payAmount' \in [Payments -> Nat] /\ payMethod' \in [Payments -> Methods]
    BY <1>1, <1>2 DEF MoneyTypes
  <2>3. Owned'
    BY <1>1 DEF Owned
  <2>4. RefundedAreCancelled'
    BY <1>1, <1>3 DEF RefundedAreCancelled
  <2> QED BY <1>1, <2>1, <2>2, <2>3, <2>4 DEF MoneyTypes
<1>8. Covered(o)'
  <2>1. Paid(o)' = Pending(o) /\ Paid(o) = {} /\ Taken(o)' = {p} /\ Taken(o) = {}
    BY <1>3, <1>4, <1>5 DEF Paid, Pending, HasStatus, Taken, Some
  <2>2. SumOver(payAmount, Taken(o)) = 0 /\ Total(Paid(o)) = 0
    BY <2>1, SumEmpty DEF Total
  <2>3. SumOver(refunded, RowsOf(o)) \in Nat
    BY <1>1, RowSets, RowsFinite, SumIsNat DEF MoneyTypes
  <2>4. SumOver(refunded, RowsOf(o)) = 0
    BY <1>1, <2>2, <2>3 DEF Covered
  <2>5. SumOver(payAmount', {p}) = due
    BY <1>2, <1>4, SumSingle
  <2>6. SumOver(resPrice, Paid(o)') = due
    BY <1>2, <2>1
  <2>7. SumOver(payAmount', Taken(o)') = due
    BY <2>1, <2>5
  <2> QED BY <1>1, <1>2, <2>4, <2>6, <2>7 DEF Covered, Total, RowsOf
<1>9. ASSUME NEW x \in Orders, x # o PROVE Covered(x)'
  <2>1. /\ Paid(x)' = Paid(x) /\ Taken(x)' = Taken(x)
        /\ \A q \in Taken(x) : payAmount'[q] = payAmount[q]
    BY <1>3, <1>4, <1>9 DEF Paid, HasStatus, Taken
  <2> QED BY <1>1, <2>1, CoveredUntouched
<1>10. \A v \in Users : Back(v)' = Back(v)
  BY <1>1 DEF Back
<1>11. ASSUME NEW v \in Users, v # u \/ method # "wallet" PROVE Conserved(v)'
  <2>1. Spent(v)' = Spent(v) /\ \A q \in Spent(v) : payAmount'[q] = payAmount[q]
    BY <1>1, <1>4, <1>5, <1>11 DEF Spent
  <2> QED BY <1>1, <1>6, <1>10, <1>11, <2>1, ConservedUntouched
<1>12. CASE method = "wallet"
  <2>1. Spent(u)' = Spent(u) \cup {p} /\ p \notin Spent(u)
    BY <1>1, <1>4, <1>5, <1>12 DEF Spent
  <2>2. \A q \in Spent(u) : payAmount'[q] = payAmount[q]
    BY <1>4, <2>1, RowSets
  <2>3. \A q \in Spent(u) \cup {p} : payAmount'[q] \in Nat
    BY <1>7, RowSets DEF MoneyTypes
  <2>4. IsFiniteSet(Spent(u)) /\ IsFiniteSet(Back(u))
    BY RowSets, RowsFinite
  <2>5. SumOver(payAmount', Spent(u) \cup {p}) = payAmount'[p] + SumOver(payAmount', Spent(u))
    BY <2>1, <2>3, <2>4, SumAdd
  <2>6. SumOver(payAmount', Spent(u)) = SumOver(payAmount, Spent(u))
    BY <2>2, <2>4, SumSame
  <2>7. SumOver(payAmount, Spent(u)) \in Nat /\ SumOver(refunded, Back(u)) \in Nat
    BY <2>4, RowSets, SumIsNat DEF MoneyTypes
  <2>8. SumOver(payAmount', Spent(u)') = due + SumOver(payAmount, Spent(u))
    BY <1>4, <2>1, <2>5, <2>6
  <2>9. SumOver(refunded', Back(u)') = SumOver(refunded, Back(u))
    BY <1>1, <1>10
  <2>10. wallet'[u] = wallet[u] - due /\ wallet[u] \in Nat /\ Wallet0[u] \in Nat
    BY <1>6, <1>12, BookingAssumption DEF MoneyTypes
  <2>11. wallet[u] = Wallet0[u] - SumOver(payAmount, Spent(u)) + SumOver(refunded, Back(u))
    BY DEF Conserved
  <2>12. wallet'[u] = Wallet0[u] - SumOver(payAmount', Spent(u)') + SumOver(refunded', Back(u)')
    BY <1>2, <2>7, <2>8, <2>9, <2>10, <2>11
  <2>13. Conserved(u)'
    BY <2>12 DEF Conserved
  <2> QED BY <1>7, <1>8, <1>9, <1>11, <2>13
<1> QED BY <1>7, <1>8, <1>9, <1>11, <1>12

(* A cancellation refunds at most the price it takes out of the order, to  *)
(* the owner of the order.                                                 *)
LEMMA CancelKeepsMoney ==
    ASSUME OrderIInv, MoneyIInv,
           NEW r \in Reservations, NEW a, NEW percent \in Percents, Cancel(r, a, percent)
    PROVE  MoneyIInv'
<1> DEFINE o == OrderOf(r)
           u == orderUser[o]
           x == RefundOf(r, percent)
<1> USE DEF MoneyIInv
<1>1. /\ resStatus[r] \in {"pending", "paid"} /\ o \in Orders
      /\ refunded' = [refunded EXCEPT ![r] = @ + x]
      /\ wallet' = [wallet EXCEPT ![u] = @ + x]
      /\ resStatus' = [resStatus EXCEPT ![r] = "cancelled"]
      /\ orderStatus' = [orderStatus EXCEPT ![o] = StatusAfterCancel(r)]
      /\ payStatus' = SetStatus(payStatus, PaymentsToClose(r), "refunded")
      /\ UNCHANGED <<orderUser, resPrice, payAmount, payMethod>>
  BY RowFacts DEF Cancel
<1>2. x \in 0..resPrice[r] /\ (resStatus[r] = "pending" => x = 0) /\ resPrice[r] \in Nat
  <2>1. resPrice[r] \in Nat /\ percent \in 0..100
    BY BookingAssumption DEF OrderIInv, SeatTypeOK
  <2>2. Refundable(resPrice[r], percent) \in 0..resPrice[r]
    BY <2>1, RefundableBounded, Zenon
  <2>3. 0 \in 0..resPrice[r]
    BY <2>1
  <2> QED BY <1>1, <2>1, <2>2, <2>3 DEF RefundOf
<1>3. x \in Nat
  BY <1>2
<1> HIDE DEF x
<1>4. orderStatus[o] # "none" /\ u \in Users
  BY <1>1, HeldMeans DEF Owned
<1>5. /\ \A s \in Reservations : resStatus'[s] = IF s = r THEN "cancelled" ELSE resStatus[s]
      /\ \A s \in Reservations : refunded'[s] = IF s = r THEN refunded[r] + x ELSE refunded[s]
      /\ \A v \in Users : wallet'[v] = IF v = u THEN wallet[u] + x ELSE wallet[v]
  BY <1>1, <1>4 DEF OrderIInv, SeatTypeOK, MoneyTypes
<1>6. \A q \in Payments : Took(q)' <=> Took(q)
  BY <1>1 DEF SetStatus, Took, PaymentsToClose, SuccessPayments, OrderIInv, SeatTypeOK
<1>7. /\ \A y \in Orders : Taken(y)' = Taken(y)
      /\ \A v \in Users : Spent(v)' = Spent(v) /\ Back(v)' = Back(v)
  BY <1>1, <1>6 DEF Taken, Spent, Back
<1>8. MoneyTypes' /\ RefundedAreCancelled'
  <2>1. refunded' \in [Reservations -> Nat]
    BY <1>1, <1>3 DEF MoneyTypes
  <2>2. wallet' \in [Users -> Nat]
    <3>1. wallet \in [Users -> Nat] /\ wallet[u] + x \in Nat
      BY <1>3, <1>4 DEF MoneyTypes
    <3> QED BY <1>1, <3>1
  <2>3. RefundedAreCancelled'
    BY <1>5 DEF RefundedAreCancelled
  <2> QED BY <1>1, <2>1, <2>2, <2>3 DEF MoneyTypes
<1>9. Owned'
  BY <1>1, <1>4 DEF Owned, OrderIInv, SeatTypeOK
<1>10. r \in RowsOf(o) /\ r \in Back(u)
  BY RowSets, <1>1 DEF Back
<1>11. ASSUME NEW y \in Orders, y # o PROVE Covered(y)'
  <2>1. Paid(y)' = Paid(y) /\ \A s \in Reservations : OrderOf(s) = y => s # r
    BY <1>5, <1>11 DEF Paid, HasStatus
  <2> QED BY <1>1, <1>5, <1>7, <2>1, CoveredUntouched
<1>12. Covered(o)'
  <2> DEFINE back == SumOver(refunded, RowsOf(o))
             held == SumOver(resPrice, Paid(o))
             took == SumOver(payAmount, Taken(o))
  <2>1. IsFiniteSet(RowsOf(o)) /\ IsFiniteSet(Paid(o)) /\ IsFiniteSet(Taken(o))
    BY <1>1, RowSets, RowsFinite
  <2>2. back \in Nat /\ held \in Nat /\ took \in Nat
    BY <1>1, <2>1, RowSets, SumIsNat DEF MoneyTypes, OrderIInv, SeatTypeOK
  <2>3. \A s \in RowsOf(o) : refunded[s] \in Nat /\ refunded'[s] \in Nat
    BY <1>1, <1>8, RowSets DEF MoneyTypes
  <2>4. \A s \in RowsOf(o) \ {r} : refunded'[s] = refunded[s]
    BY <1>1, <1>5, RowSets
  <2>5. refunded'[r] = refunded[r] + x
    BY <1>5
  <2>6. x \in Int
    BY <1>3
  <2>7. SumOver(refunded', RowsOf(o)) = back + x
    <3> HIDE DEF o
    <3> QED BY <1>10, <2>1, <2>3, <2>4, <2>5, <2>6, SumChange
  <2>8. SumOver(payAmount', Taken(o)') = took
    BY <1>1, <1>7
  <2>9. back + held <= took
    BY <1>1 DEF Covered, Total
  <2>10. SumOver(resPrice, Paid(o)') + x <= held
    <3>1. CASE resStatus[r] = "pending"
      <4>1. Paid(o)' = Paid(o)
        BY <1>5, <3>1 DEF Paid, HasStatus
      <4> QED BY <1>2, <2>2, <3>1, <4>1
    <3>2. CASE resStatus[r] = "paid"
      <4>1. r \in Paid(o) /\ Paid(o)' = Paid(o) \ {r}
        BY <1>5, <3>2 DEF Paid, HasStatus
      <4>2. held = resPrice[r] + SumOver(resPrice, Paid(o) \ {r})
        BY <2>1, <4>1, RowSets, SumRemove DEF OrderIInv, SeatTypeOK
      <4>3. SumOver(resPrice, Paid(o) \ {r}) \in Nat
        <5>1. IsFiniteSet(Paid(o) \ {r}) /\ \A s \in Paid(o) \ {r} : resPrice[s] \in Nat
          BY <2>1, RowSets, FS_RemoveElement DEF OrderIInv, SeatTypeOK
        <5> QED BY <5>1, SumIsNat
      <4>4. SumOver(resPrice, Paid(o)') = SumOver(resPrice, Paid(o) \ {r})
        BY <4>1
      <4> HIDE DEF held
      <4> QED BY <1>2, <2>2, <4>2, <4>3, <4>4
    <3> QED BY <1>1, <3>1, <3>2
  <2>11. SumOver(resPrice', Paid(o)') = SumOver(resPrice, Paid(o)') /\ RowsOf(o)' = RowsOf(o)
    BY <1>1 DEF RowsOf
  <2>12. SumOver(resPrice, Paid(o)') \in Nat
    <3>1. Paid(o)' \subseteq Reservations
      BY DEF Paid, HasStatus
    <3>2. IsFiniteSet(Paid(o)') /\ \A s \in Paid(o)' : resPrice[s] \in Nat
      BY <3>1, RowsFinite DEF OrderIInv, SeatTypeOK
    <3> QED BY <3>2, SumIsNat
  <2> HIDE DEF back, held, took, o
  <2>13. SumOver(refunded', RowsOf(o)) + SumOver(resPrice', Paid(o)') <= SumOver(payAmount', Taken(o)')
    BY <1>3, <2>2, <2>7, <2>8, <2>9, <2>10, <2>11, <2>12
  <2>14. o' = o
    BY DEF o, OrderOf
  <2> QED BY <2>11, <2>13, <2>14 DEF Covered, Total
<1>13. ASSUME NEW v \in Users, v # u PROVE Conserved(v)'
  <2>1. \A s \in Back(v) : s # r
    BY <1>13 DEF Back
  <2> QED BY <1>1, <1>5, <1>7, <1>13, <2>1, RowSets, ConservedUntouched
<1>14. Conserved(u)'
  <2> HIDE DEF u
  <2>1. IsFiniteSet(Spent(u)) /\ IsFiniteSet(Back(u))
    BY RowSets, RowsFinite
  <2>2. \A s \in Back(u) : refunded[s] \in Nat /\ refunded'[s] \in Nat
    BY <1>8, RowSets DEF MoneyTypes
  <2>3. \A s \in Back(u) \ {r} : refunded'[s] = refunded[s]
    BY <1>5, RowSets
  <2>4. refunded'[r] = refunded[r] + x /\ x \in Int
    BY <1>3, <1>5
  <2>5. SumOver(refunded', Back(u)) = SumOver(refunded, Back(u)) + x
    BY <1>10, <2>1, <2>2, <2>3, <2>4, SumChange
  <2>6. SumOver(payAmount, Spent(u)) \in Nat /\ SumOver(refunded, Back(u)) \in Nat
    BY <2>1, RowSets, SumIsNat DEF MoneyTypes
  <2>7. wallet[u] = Wallet0[u] - SumOver(payAmount, Spent(u)) + SumOver(refunded, Back(u))
    BY <1>4 DEF Conserved
  <2>8. wallet'[u] = wallet[u] + x /\ Wallet0[u] \in Nat
    BY <1>4, <1>5, BookingAssumption
  <2>9. wallet'[u] = Wallet0[u] - SumOver(payAmount', Spent(u)) + SumOver(refunded', Back(u))
    BY <1>1, <1>3, <2>5, <2>6, <2>7, <2>8
  <2>10. u' = u /\ Spent(u)' = Spent(u) /\ Back(u)' = Back(u)
    BY <1>1, <1>4, <1>7 DEF u, OrderOf
  <2> QED BY <2>9, <2>10 DEF Conserved
<1>15. (\A y \in Orders : Covered(y)') /\ (\A v \in Users : Conserved(v)')
  <2> HIDE DEF o, u
  <2>1. ASSUME NEW y \in Orders PROVE Covered(y)'
    <3>1. CASE y = o
      <4>1. o' = o
        BY DEF o, OrderOf
      <4> QED BY <1>12, <3>1, <4>1 DEF Covered
    <3> QED BY <1>11, <3>1
  <2>2. ASSUME NEW v \in Users PROVE Conserved(v)'
    <3>1. CASE v = u
      <4>1. u' = u
        BY <1>1 DEF u, o, OrderOf
      <4> QED BY <1>14, <3>1, <4>1 DEF Conserved
    <3> QED BY <1>13, <3>1
  <2> QED BY <2>1, <2>2
<1> QED BY <1>8, <1>9, <1>15

LEMMA MoneyIInvKept ==
    ASSUME OrderIInv, MoneyIInv, OrderIInv', [Next]_vars
    PROVE  MoneyIInv'
<1> USE DEF OrderIInv, SeatTypeOK
<1>1. CASE UNCHANGED <<seatVars, moneyVars>>
  BY <1>1, NoMoneyMoves DEF seatVars
<1>2. ASSUME NEW r \in Reservations, NEW s \in {"paid", "expired"}, SetReservationStatus(r, s)
      PROVE  MoneyIInv'
  <2>1. resStatus[r] = "pending" /\ orderStatus[OrderOf(r)] = "pending" /\ OrderOf(r) \in Orders
    BY <1>2, HeldMeans, RowFacts DEF SetReservationStatus, Reviewable
  <2>2. s = "expired"
    BY <1>2, <2>1, OpenMeans DEF SetReservationStatus, Reviewable, SuccessPayments, Took
  <2>3. \A x \in Reservations : resStatus'[x] = IF x = r THEN "expired" ELSE resStatus[x]
    BY <1>2, <2>2 DEF SetReservationStatus, SetStatus
  <2>4. \A o \in Orders : orderStatus'[o] = "none" <=> orderStatus[o] = "none"
    BY <1>2, <2>1, <2>2 DEF SetReservationStatus
  <2> QED BY <1>2, <2>1, <2>3, <2>4, NoMoneyMoves DEF SetReservationStatus
<1>3. ASSUME NEW r \in Reservations, NEW t \in Tickets, ChangeTicket(r, t)
      PROVE  MoneyIInv'
  <2>1. \A x \in Reservations : resStatus[x] = "paid" => resPrice'[x] = resPrice[x]
    BY <1>3 DEF ChangeTicket
  <2> QED BY <1>3, <2>1, NoMoneyMoves DEF ChangeTicket
<1>4. ASSUME NEW B \in SUBSET Due, ExpireBatch(B)
      PROVE  MoneyIInv'
  <2>1. /\ \A r \in Reservations : \/ resStatus'[r] = resStatus[r]
                                   \/ resStatus[r] = "pending" /\ resStatus'[r] = "expired"
        /\ \A o \in Orders : \/ orderStatus'[o] = orderStatus[o]
                             \/ orderStatus[o] = "pending" /\ orderStatus'[o] = "expired"
    BY <1>4 DEF ExpireBatch, ReleasedBy, Due, SetStatus
  <2> QED BY <1>4, <2>1, NoMoneyMoves DEF ExpireBatch
<1>5. CASE UserStep
  BY <1>2, <1>3, <1>5, ReserveKeepsMoney, PayFailedKeepsMoney, PaySuccessKeepsMoney,
     CancelKeepsMoney DEF UserStep
<1>6. CASE Job
  BY <1>4, <1>6 DEF Job
<1>7. CASE Clock
  BY <1>1, <1>7 DEF Clock, ApiDeadline, DbDeadline, MatchStarts
<1>8. CASE UNCHANGED vars
  BY <1>1, <1>8 DEF vars
<1> QED BY <1>5, <1>6, <1>7, <1>8 DEF Next

LEMMA MoneyIInvStarts == Init /\ OrderIInv => MoneyIInv
<1> SUFFICES ASSUME Init, OrderIInv PROVE MoneyIInv
  OBVIOUS
<1>1. MoneyTypes /\ Owned /\ RefundedAreCancelled
  BY BookingAssumption DEF Init, MoneyTypes, Owned, RefundedAreCancelled, Methods
<1>2. ASSUME NEW o \in Orders PROVE Covered(o)
  <2>1. Paid(o) = {} /\ Taken(o) = {}
    BY DEF Init, Paid, HasStatus, Taken, Took
  <2>2. SumOver(refunded, RowsOf(o)) = 0
    BY RowSets, RowsFinite, SumZeros DEF Init
  <2> QED BY <2>1, <2>2, SumEmpty DEF Covered, Total
<1>3. ASSUME NEW u \in Users PROVE Conserved(u)
  <2>1. Spent(u) = {} /\ wallet[u] = Wallet0[u] /\ Wallet0[u] \in Nat
    BY BookingAssumption DEF Init, Spent, Took
  <2>2. SumOver(refunded, Back(u)) = 0
    BY RowSets, RowsFinite, SumZeros DEF Init
  <2> QED BY <2>1, <2>2, SumEmpty DEF Conserved
<1> QED BY <1>1, <1>2, <1>3 DEF MoneyIInv

LEMMA MoneyIInvHolds == Spec => [](OrderIInv /\ MoneyIInv)
<1>1. Init /\ OrderIInv => MoneyIInv
  BY MoneyIInvStarts
<1>2. MoneyIInv /\ OrderIInv /\ OrderIInv' /\ [Next]_vars => MoneyIInv'
  BY MoneyIInvKept
<1> QED BY <1>1, <1>2, OrderIInvHolds, PTL DEF Spec

(* Every amount and every balance stays one the CHECKs of the money tables *)
(* allow: a wallet payment never takes more than the wallet holds, and a   *)
(* reservation is cancelled at most once.                                  *)
THEOREM TypesCorrect == Spec => []TypeOK
<1>1. OrderIInv /\ MoneyIInv => TypeOK
  BY MoneyInvMeaning
<1> QED BY <1>1, MoneyIInvHolds, PTL

(* However an order is cancelled, in parts, by its owner or by support, at *)
(* any penalties, what it got back and what it still holds paid never      *)
(* exceed what its payment took.                                           *)
THEOREM RefundsStayCovered == Spec => []RefundsCovered
<1>1. OrderIInv /\ MoneyIInv => RefundsCovered
  BY MoneyInvMeaning
<1> QED BY <1>1, MoneyIInvHolds, PTL

(* pay and cancel write the wallet beside three other tables, and no       *)
(* interleaving of them loses or repeats a movement of money.              *)
THEOREM WalletStaysConserved == Spec => []WalletConserved
<1>1. OrderIInv /\ MoneyIInv => WalletConserved
  BY MoneyInvMeaning
<1> QED BY <1>1, MoneyIInvHolds, PTL

-----------------------------------------------------------------------------
(* What one step may do to the paid reservations of an order.              *)
PaymentStep(o) ==
    LET became == Paid(o)' \ Paid(o) IN
    became # {} =>
        /\ Pending(o)' = {}
        /\ \E p \in Payments :
             /\ p[1] = o /\ payStatus[p] = "none" /\ payStatus'[p] = "success"
             /\ payAmount'[p] = Total(became)

LEMMA NothingBecamePaid ==
    ASSUME NEW o \in Orders,
           \A r \in Reservations : OrderOf(r) = o /\ resStatus'[r] = "paid" => resStatus[r] = "paid"
    PROVE  PaymentStep(o)
BY DEF PaymentStep, Paid, HasStatus

LEMMA StepIsPayment ==
    ASSUME OrderIInv, MoneyTypes, [Next]_vars, NEW o \in Orders
    PROVE  PaymentStep(o)
<1> USE DEF OrderIInv, SeatTypeOK
<1>1. CASE UNCHANGED resStatus
  BY <1>1, NothingBecamePaid
<1>2. ASSUME NEW u \in Users, NEW x \in Orders, NEW S \in SUBSET Tickets, Reserve(u, x, S)
      PROVE  PaymentStep(o)
  BY <1>2, NothingBecamePaid DEF Reserve, SetStatus
<1>3. ASSUME NEW u \in Users, NEW p \in Payments, NEW method \in Methods, PayFailed(u, p, method)
      PROVE  PaymentStep(o)
  BY <1>1, <1>3 DEF PayFailed, seatVars
<1>4. ASSUME NEW u \in Users, NEW p \in Payments, NEW method \in Methods, PaySuccess(u, p, method)
      PROVE  PaymentStep(o)
  <2>1. /\ orderStatus[p[1]] = "pending" /\ payStatus[p] = "none" /\ p[1] \in Orders
        /\ resStatus' = SetStatus(resStatus, Pending(p[1]), "paid")
        /\ payStatus'[p] = "success" /\ payAmount'[p] = AmountDue(p[1])
    BY <1>4, RowFacts DEF PaySuccess, Payable, InsertPayment, MoneyTypes
  <2>2. \A r \in Reservations : resStatus'[r] =
           IF OrderOf(r) = p[1] /\ resStatus[r] = "pending" THEN "paid" ELSE resStatus[r]
    BY <2>1 DEF SetStatus, Pending, HasStatus
  <2>3. CASE o # p[1]
    BY <2>2, <2>3, NothingBecamePaid
  <2>4. CASE o = p[1]
    <3>1. ~Some(o, "paid")
      BY <2>1, <2>4, OpenMeans
    <3>2. Paid(o)' = Pending(o) /\ Paid(o) = {} /\ Pending(o)' = {}
      BY <2>2, <2>4, <3>1 DEF Paid, Pending, HasStatus, Some
    <3>3. Paid(o)' \ Paid(o) = Pending(o)
      BY <3>2
    <3>4. payAmount'[p] = Total(Paid(o)' \ Paid(o))
      BY <2>1, <2>4, <3>3 DEF AmountDue
    <3> QED BY <2>1, <2>4, <3>2, <3>4 DEF PaymentStep
  <2> QED BY <2>3, <2>4
<1>5. ASSUME NEW r \in Reservations, NEW a, NEW percent, Cancel(r, a, percent)
      PROVE  PaymentStep(o)
  BY <1>5, NothingBecamePaid DEF Cancel
<1>6. ASSUME NEW r \in Reservations, NEW s \in {"paid", "expired"}, SetReservationStatus(r, s)
      PROVE  PaymentStep(o)
  <2>1. resStatus[r] = "pending" /\ orderStatus[OrderOf(r)] = "pending" /\ OrderOf(r) \in Orders
    BY <1>6, HeldMeans, RowFacts DEF SetReservationStatus, Reviewable
  <2>2. s = "expired"
    BY <1>6, <2>1, OpenMeans DEF SetReservationStatus, Reviewable, SuccessPayments, Took
  <2> QED BY <1>6, <2>2, NothingBecamePaid DEF SetReservationStatus, SetStatus
<1>7. ASSUME NEW B \in SUBSET Due, ExpireBatch(B)
      PROVE  PaymentStep(o)
  BY <1>7, NothingBecamePaid DEF ExpireBatch, SetStatus
<1>8. ASSUME NEW r \in Reservations, NEW t \in Tickets, ChangeTicket(r, t)
      PROVE  PaymentStep(o)
  BY <1>1, <1>8 DEF ChangeTicket
<1>9. CASE Clock \/ UNCHANGED vars
  BY <1>1, <1>9 DEF Clock, ApiDeadline, DbDeadline, MatchStarts, vars, seatVars
<1> QED
  BY <1>2, <1>3, <1>4, <1>5, <1>6, <1>7, <1>8, <1>9 DEF Next, UserStep, Job

(* Nothing but a successful payment makes a reservation paid, not even a   *)
(* review to "paid", and the payment records exactly the prices of the     *)
(* reservations it pays: a ticket change or a cancellation that commits    *)
(* between two attempts is in the amount of the second.                    *)
THEOREM PaidByPayment == Spec => PaidOnlyByPayment
<1>1. OrderIInv /\ MoneyIInv /\ [Next]_vars => \A o \in Orders : PaymentStep(o)
  BY StepIsPayment DEF MoneyIInv
<1>2. (\A o \in Orders : PaymentStep(o)) => [\A o \in Orders : PaymentStep(o)]_vars
  OBVIOUS
<1> QED BY <1>1, <1>2, MoneyIInvHolds, PTL DEF Spec, PaidOnlyByPayment, PaymentStep
=============================================================================
