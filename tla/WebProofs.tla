----------------------------- MODULE WebProofs ------------------------------
(***************************************************************************)
(* Theorems about the pages of the web client, for any lists the server    *)
(* may answer with and any bounds of WebClient.  A visit changes one page  *)
(* and leaves the others alone, so each page has an inductive invariant of *)
(* its own and the theorems of the visit follow.                           *)
(***************************************************************************)
EXTENDS WebClient, WellFoundedInduction, NaturalsInduction, FiniteSetTheorems, SequenceTheorems, TLAPS

LEMMA PagesStep ==
    ASSUME [WebNext]_webVars
    PROVE  /\ [CompNext]_compVars
           /\ [SearchNext]_searchVars
           /\ [DeskNext]_deskVars
           /\ [RepNext]_repVars
           /\ [CheckoutNext]_coVars
BY DEF WebNext, webVars, VisitCompetitions, VisitSearch, VisitSupport, VisitReports, VisitCheckout

-----------------------------------------------------------------------------
(* Pages of a list.                                                        *)

(* The rows of a page, as slice and as OFFSET and LIMIT cut them out.      *)
Cut(list, size, page) ==
    SubSeq(list, (page - 1) * size + 1,
           IF (page - 1) * size + size < Len(list) THEN (page - 1) * size + size ELSE Len(list))

LEMMA SmallestNumber ==
    ASSUME NEW B \in SUBSET Nat, B # {}
    PROVE  \E n \in B : \A m \in B : n <= m
<1>1. PICK n \in B : \A m \in B : ~ (<<m, n>> \in OpToRel(<, Nat))
  BY NatLessThanWellFounded, WFMin
<1>2. \A m \in B : ~ (m < n)
  BY <1>1 DEF OpToRel
<1> QED BY <1>2

LEMMA PagesCount ==
    ASSUME NEW n \in Nat, NEW size \in Nat \ {0}
    PROVE  LET pages == (n + size - 1) \div size
           IN /\ pages \in Nat
              /\ pages * size >= n
              /\ n > 0 => pages > 0 /\ (pages - 1) * size < n
              /\ n = 0 => pages = 0
<1> DEFINE m == n + size - 1
           q == m \div size
<1>1. m \in Nat
  OBVIOUS
<1>2. q \in Int /\ m = size * q + (m % size) /\ m % size \in 0..(size - 1)
  <2> HIDE DEF m
  <2> QED BY <1>1
<1>3. q * size >= n /\ q * size <= n + size - 1 /\ q \in Int /\ q * size \in Int
  BY <1>2
<1> HIDE DEF q
<1>4. q >= 0
  <2>1. SUFFICES ASSUME q <= -1 PROVE FALSE
    BY <1>2
  <2>2. q * size <= (-1) * size
    BY <1>2, <2>1
  <2> QED BY <1>2, <1>3, <2>2
<1>5. (q - 1) * size = q * size - size
  BY <1>2
<1>6. n > 0 => q > 0
  <2>1. SUFFICES ASSUME n > 0, q = 0 PROVE FALSE
    BY <1>3, <1>4
  <2>2. q * size = 0
    BY <2>1
  <2> QED BY <1>3, <2>1, <2>2
<1>7. n = 0 => q = 0
  <2>1. SUFFICES ASSUME n = 0, q >= 1 PROVE FALSE
    BY <1>2, <1>4
  <2>2. q * size >= 1 * size
    BY <1>2, <2>1
  <2> QED BY <1>3, <2>1, <2>2
<1> QED BY <1>2, <1>3, <1>4, <1>5, <1>6, <1>7 DEF q

LEMMA PagesJoin ==
    ASSUME NEW S, NEW list \in Seq(S), NEW size \in Nat \ {0}
    PROVE  LET pages == (Len(list) + size - 1) \div size
           IN FlattenSeq([page \in 1..pages |-> Cut(list, size, page)]) = list
<1> DEFINE n == (Len(list) + size - 1) \div size
           cuts == [page \in 1..n |-> Cut(list, size, page)]
           End(i) == IF i * size < Len(list) THEN i * size ELSE Len(list)
           IsFlat(f) == f = [i \in 1..Len(cuts) |-> IF i = 1 THEN cuts[i] ELSE f[i - 1] \o cuts[i]]
           flat == CHOOSE f : IsFlat(f)
           g == [i \in 1..n |-> SubSeq(list, 1, End(i))]
<1>0. SUFFICES FlattenSeq(cuts) = list
  OBVIOUS
<1>1. /\ n \in Nat /\ n * size >= Len(list)
      /\ Len(list) > 0 => n > 0 /\ (n - 1) * size < Len(list)
      /\ Len(list) = 0 => n = 0
  BY PagesCount
<1> HIDE DEF n
<1>2. Len(cuts) = n
  BY <1>1
<1>3. FlattenSeq(cuts) = IF n = 0 THEN cuts ELSE flat[n]
  <2> HIDE DEF cuts
  <2> QED BY <1>2 DEF FlattenSeq
<1>4. CASE n = 0
  <2>1. Len(list) = 0 /\ cuts = << >>
    BY <1>1, <1>4
  <2> QED BY <1>3, <1>4, <2>1, EmptySeq
<1>5. CASE n # 0
  <2>1. ASSUME NEW i \in 1..n
        PROVE  /\ (i - 1) * size \in Nat /\ (i - 1) * size < Len(list)
               /\ cuts[i] = SubSeq(list, (i - 1) * size + 1, End(i))
               /\ i > 1 => End(i - 1) = (i - 1) * size
               /\ End(i) \in Nat /\ End(i) <= Len(list) /\ (i - 1) * size <= End(i)
    <3>1. (i - 1) * size <= (n - 1) * size /\ (i - 1) * size \in Nat
      BY <1>1
    <3>2. (i - 1) * size + size = i * size /\ i * size \in Nat
      BY <1>1
    <3>3. (i - 1) * size < Len(list)
      BY <1>1, <1>5, <3>1
    <3>4. /\ (i - 1) * size + 1 \in Nat
          /\ End(i) = IF (i - 1) * size + size < Len(list) THEN (i - 1) * size + size ELSE Len(list)
          /\ i > 1 => End(i - 1) = (i - 1) * size
      BY <3>1, <3>2, <3>3
    <3>5. cuts[i] = SubSeq(list, (i - 1) * size + 1, End(i))
      BY <3>4 DEF Cut
    <3>6. End(i) \in Nat /\ End(i) <= Len(list) /\ (i - 1) * size <= End(i)
      BY <3>1, <3>2, <3>3
    <3> QED BY <3>1, <3>3, <3>4, <3>5, <3>6
  <2>2. IsFlat(g)
    <3> SUFFICES ASSUME NEW i \in 1..n
                 PROVE  g[i] = IF i = 1 THEN cuts[i] ELSE g[i - 1] \o cuts[i]
      BY <1>2
    <3>1. CASE i = 1
      <4>1. (i - 1) * size + 1 = 1
        BY <3>1, <2>1
      <4> HIDE DEF cuts
      <4> QED BY <2>1, <3>1, <4>1
    <3>2. CASE i # 1
      <4>1. g[i - 1] = SubSeq(list, 1, (i - 1) * size)
        <5>1. i - 1 \in 1..n /\ End(i - 1) = (i - 1) * size
          BY <2>1, <3>2, <1>1
        <5> HIDE DEF End
        <5> QED BY <5>1
      <4>2. SubSeq(list, 1, (i - 1) * size) \o SubSeq(list, (i - 1) * size + 1, End(i))
              = SubSeq(list, 1, End(i))
        <5> DEFINE k == (i - 1) * size
                   e == End(i)
        <5>1. k \in Nat /\ e \in Nat /\ k <= e /\ e <= Len(list)
          BY <2>1
        <5>2. k \in 1-1..e /\ e \in k..Len(list)
          BY <5>1
        <5> HIDE DEF k, e
        <5>3. SubSeq(list, 1, k) \o SubSeq(list, k + 1, e) = SubSeq(list, 1, e)
          BY <5>1, <5>2, ConcatAdjacentSubSeq
        <5> QED BY <5>3 DEF k, e
      <4> HIDE DEF cuts
      <4> QED BY <2>1, <3>2, <4>1, <4>2
    <3> QED BY <3>1, <3>2
  <2> HIDE DEF g, cuts
  <2>3. IsFlat(flat)
    BY <2>2
  <2>4. flat[n] = g[n]
    <3> DEFINE B == {i \in 1..n : flat[i] # g[i]}
    <3> HIDE DEF flat
    <3>1. SUFFICES ASSUME B # {} PROVE FALSE
      <4>1. n \in 1..n
        BY <1>1, <1>5
      <4> QED BY <4>1
    <3>2. PICK i \in B : \A j \in B : i <= j
      <4>1. B \in SUBSET Nat
        BY <1>1
      <4> HIDE DEF B
      <4> QED BY <3>1, <4>1, SmallestNumber
    <3>3. i \in 1..n /\ flat[i] # g[i]
      BY <3>2
    <3>4. i # 1 => flat[i - 1] = g[i - 1]
      <4>1. i # 1 => i - 1 \in 1..n /\ i - 1 \notin B
        BY <1>1, <3>2, <3>3
      <4> QED BY <4>1
    <3>5. flat[i] = (IF i = 1 THEN cuts[i] ELSE flat[i - 1] \o cuts[i])
          /\ g[i] = (IF i = 1 THEN cuts[i] ELSE g[i - 1] \o cuts[i])
      BY <1>2, <2>2, <2>3, <3>3
    <3> QED BY <3>3, <3>4, <3>5
  <2>5. g[n] = list
    <3>1. End(n) = Len(list)
      BY <1>1
    <3> QED BY <1>1, <1>5, <3>1, SubSeqFull DEF g
  <2> HIDE DEF flat
  <2> QED BY <1>3, <1>5, <2>4, <2>5
<1> QED BY <1>4, <1>5 
-----------------------------------------------------------------------------
(* The list of matches that pass the filters is a fold, and a fold is a    *)
(* function defined by recursion on the subsets of the list's indices.     *)

IndexSet(S) == \E n \in Nat : S \subseteq 1..n

LEMMA IndexSubset == ASSUME NEW S, IndexSet(S), NEW T, T \subseteq S PROVE IndexSet(T)
BY DEF IndexSet

LEMMA SmallestSubset ==
    ASSUME NEW S, IndexSet(S), NEW B \in SUBSET (SUBSET S), B # {}
    PROVE  \E T \in B : \A V \in B : V \subseteq T => V = T
<1>1. IsFiniteSet(S)
  <2>1. PICK n \in Nat : S \subseteq 1..n
    BY DEF IndexSet
  <2>2. IsFiniteSet(1..n)
    BY FS_Interval
  <2> QED BY <2>1, <2>2, FS_Subset
<1>2. IsWellFoundedOn(StrictSubsetOrdering(S), SUBSET S)
  BY <1>1, FS_StrictSubsetOrderingWellFounded, FS_FiniteSubsetsOfFinite
<1>3. \E T \in B : \A V \in B : ~ (<<V, T>> \in StrictSubsetOrdering(S))
  BY <1>2, WFMin
<1> QED BY <1>3 DEF StrictSubsetOrdering

Passing(f, i) == Sees(f, CompMatches[i])
Rest(T) == T \ {Max(T)}
IsKept(f, g, U) ==
    g = [T \in SUBSET U |->
            IF T = {} THEN << >>
            ELSE IF Passing(f, Max(T)) THEN Append(g[Rest(T)], CompMatches[Max(T)]) ELSE g[Rest(T)]]

KeptBy(f) == (CHOOSE g : IsKept(f, g, DOMAIN CompMatches))[DOMAIN CompMatches]

LEMMA FilteredDef ==
    /\ Filtered = IF compGot["matches"] # "ok" THEN << >> ELSE KeptBy(compFilter)
    /\ Filtered' = IF compGot'["matches"] # "ok" THEN << >> ELSE KeptBy(compFilter')
BY DEF Filtered, FoldLeft, MapThenFoldSet, KeptBy, IsKept, Passing, Rest

LEMMA MaxIn ==
    ASSUME NEW T, IndexSet(T), T # {}
    PROVE  Max(T) \in T /\ Rest(T) \in SUBSET T /\ Rest(T) # T
<1>0. PICK n \in Nat : T \subseteq 1..n
  BY DEF IndexSet
<1> DEFINE B == {k \in Nat : \E t \in T : k = n - t}
<1>1. B \in SUBSET Nat /\ B # {}
  <2>1. PICK t \in T : t \in 1..n
    BY <1>0
  <2>2. n - t \in B
    BY <2>1
  <2> QED BY <2>2
<1>2. PICK k \in B : \A m \in B : k <= m
  <2> HIDE DEF B
  <2> QED BY <1>1, SmallestNumber
<1>3. PICK t \in T : k = n - t
  BY <1>2
<1>4. \A s \in T : t >= s
  BY <1>0, <1>2, <1>3
<1>5. Max(T) \in T
  BY <1>3, <1>4 DEF Max
<1> QED BY <1>5 DEF Rest

LEMMA KeptAgree ==
    ASSUME NEW f, NEW S, IndexSet(S), NEW g, IsKept(f, g, S),
           NEW U \in SUBSET S, NEW h, IsKept(f, h, U)
    PROVE  g[U] = h[U]
<1> DEFINE B == {T \in SUBSET U : g[T] # h[T]}
<1>1. SUFFICES ASSUME B # {} PROVE FALSE
  OBVIOUS
<1>3. PICK T \in B : \A V \in B : V \subseteq T => V = T
  <2> HIDE DEF B
  <2>1. B \in SUBSET (SUBSET U) /\ IndexSet(U)
    BY IndexSubset DEF B
  <2> QED BY <1>1, <2>1, SmallestSubset
<1>4. T \in SUBSET U /\ T \in SUBSET S /\ g[T] # h[T]
  BY <1>3
<1>5. T # {}
  BY <1>4 DEF IsKept
<1>6. Rest(T) \in SUBSET T /\ Rest(T) # T
  BY <1>4, <1>5, IndexSubset, MaxIn
<1>7. g[Rest(T)] = h[Rest(T)]
  BY <1>3, <1>4, <1>6
<1> QED BY <1>4, <1>5, <1>7 DEF IsKept

LEMMA KeptExists ==
    ASSUME NEW f, NEW S, IndexSet(S)
    PROVE  \E g : IsKept(f, g, S)
<1> DEFINE B == {T \in SUBSET S : ~ \E g : IsKept(f, g, T)}
<1>1. SUFFICES ASSUME B # {} PROVE FALSE
  OBVIOUS
<1>2. PICK T \in B : \A V \in B : V \subseteq T => V = T
  <2> HIDE DEF B
  <2>1. B \in SUBSET (SUBSET S)
    BY DEF B
  <2> QED BY <1>1, <2>1, SmallestSubset
<1> DEFINE Solve(V) == CHOOSE g : IsKept(f, g, V)
<1>3. \A V \in SUBSET T : V # T => IsKept(f, Solve(V), V)
  BY <1>2
<1> DEFINE Step(g, V) == IF V = {} THEN << >>
                         ELSE IF Passing(f, Max(V)) THEN Append(g[Rest(V)], CompMatches[Max(V)]) ELSE g[Rest(V)]
           h == [V \in SUBSET T |-> Step(Solve(Rest(V)), V)]
<1>4. \A V \in SUBSET T : V # {} => Rest(V) \in SUBSET V /\ Rest(V) # V /\ Rest(V) \in SUBSET T /\ Rest(V) # T
  <2>1. ASSUME NEW V \in SUBSET T, V # {} PROVE Rest(V) \in SUBSET V /\ Rest(V) # V
    <3>1. T \in SUBSET S
      BY <1>2
    <3>2. V \subseteq S
      BY <3>1
    <3>3. IndexSet(V)
      BY <3>2, IndexSubset
    <3> QED BY <2>1, <3>3, MaxIn
  <2> HIDE DEF B
  <2> QED BY <2>1
<1>5. \A W \in SUBSET T : W # T => h[W] = Solve(W)[W]
  <2> SUFFICES ASSUME NEW W \in SUBSET T, W # T PROVE h[W] = Solve(W)[W]
    OBVIOUS
  <2>1. IsKept(f, Solve(W), W)
    BY <1>3
  <2> DEFINE V == Rest(W)
  <2>2. Solve(W)[W] = Step(Solve(W), W)
    <3> HIDE DEF Solve
    <3> QED BY <2>1 DEF IsKept
  <2>3. W # {} => Solve(W)[V] = Solve(V)[V]
    <3> SUFFICES ASSUME W # {} PROVE Solve(W)[V] = Solve(V)[V]
      OBVIOUS
    <3>1. IsKept(f, Solve(V), V) /\ V \in SUBSET W /\ IndexSet(W)
      BY <1>2, <1>3, <1>4, IndexSubset
    <3> HIDE DEF Solve, V
    <3> QED BY <2>1, <3>1, KeptAgree
  <2>4. h[W] = Step(Solve(V), W)
    <3> HIDE DEF Solve, Step
    <3> QED OBVIOUS
  <2> HIDE DEF Solve, h
  <2> QED BY <2>2, <2>3, <2>4
<1>6. IsKept(f, h, T)
  <2>1. \A V \in SUBSET T : V # {} => h[Rest(V)] = Solve(Rest(V))[Rest(V)]
    <3> HIDE DEF h, Solve
    <3> QED BY <1>4, <1>5
  <2>2. h = [V \in SUBSET T |-> Step(h, V)]
    <3>1. \A V \in SUBSET T : Step(Solve(Rest(V)), V) = Step(h, V)
      <4> HIDE DEF h, Solve
      <4> QED BY <2>1
    <3> HIDE DEF Solve, Step
    <3> QED BY <3>1
  <2> HIDE DEF h
  <2> QED BY <2>2 DEF IsKept
<1> QED BY <1>2, <1>6

LEMMA FilteredIsList == Filtered \in Seq(Range(CompMatches))
<1> DEFINE D == DOMAIN CompMatches
           g == CHOOSE h : IsKept(compFilter, h, D)
           B == {T \in SUBSET D : g[T] \notin Seq(Range(CompMatches))}
<1>1. IndexSet(D) /\ \A i \in D : CompMatches[i] \in Range(CompMatches)
  <2>1. CompMatches \in Seq(Range(CompMatches))
    BY CompAssumption
  <2>2. Len(CompMatches) \in Nat /\ D = 1..Len(CompMatches)
    BY <2>1
  <2> QED BY <2>1, <2>2, ElementOfSeq DEF IndexSet
<1>2. IsKept(compFilter, g, D)
  <2> HIDE DEF D
  <2> QED BY <1>1, KeptExists
<1>3. B = {}
  <2>1. SUFFICES ASSUME B # {} PROVE FALSE
    OBVIOUS
  <2>2. PICK T \in B : \A V \in B : V \subseteq T => V = T
    <3>1. B \in SUBSET (SUBSET D)
      OBVIOUS
    <3> HIDE DEF B, D
    <3> QED BY <1>1, <2>1, <3>1, SmallestSubset
  <2> HIDE DEF g, D
  <2>3. T \in SUBSET D /\ g[T] \notin Seq(Range(CompMatches))
    BY <2>2
  <2>4. T # {}
    BY <1>2, <2>3 DEF IsKept
  <2>5. Max(T) \in D /\ Rest(T) \in SUBSET T /\ Rest(T) # T
    BY <1>1, <2>3, <2>4, IndexSubset, MaxIn
  <2>6. g[Rest(T)] \in Seq(Range(CompMatches))
    BY <2>2, <2>3, <2>5
  <2>7. g[T] = IF Passing(compFilter, Max(T)) THEN Append(g[Rest(T)], CompMatches[Max(T)]) ELSE g[Rest(T)]
    BY <1>2, <2>3, <2>4 DEF IsKept
  <2>8. CompMatches[Max(T)] \in Range(CompMatches)
    BY <1>1, <2>5
  <2> QED BY <2>3, <2>6, <2>7, <2>8, AppendProperties
<1>4. g[D] \in Seq(Range(CompMatches))
  <2> HIDE DEF g, D
  <2> QED BY <1>3
<1> HIDE DEF D, g
<1> QED BY <1>4, EmptySeq, FilteredDef DEF KeptBy, D, g

-----------------------------------------------------------------------------
(* The page of matches.                                                    *)

CompRequests == {"matches", "cities", "venues", "competitions"}
CompShaped ==
    /\ compGot \in [CompRequests -> {"asked", "ok", "failed"}]
    /\ compFilter = [field \in Fields |-> compFilter[field]]

(* A page past the first was turned to under the filters there are now.    *)
PageThere ==
    /\ compPage \in Nat \ {0}
    /\ \/ compPage = 1
       \/ compGot["matches"] = "ok" /\ compPage <= PagesOf(Len(Filtered))

CompIInv == CompShaped /\ PageThere /\ CompChoiceOffered

(* What arrives adds options and takes none away.                          *)
LEMMA AnswersAddOptions ==
    ASSUME CompIInv, NEW r \in DOMAIN compGot, CompAnswer(r)
    PROVE  CompIInv'
<1> USE DEF CompIInv
<1>1. PICK outcome \in {"ok", "failed"} : compGot' = [compGot EXCEPT ![r] = outcome]
  BY DEF CompAnswer
<1>2. UNCHANGED <<compFilter, compPage>> /\ compGot[r] = "asked" /\ r \in CompRequests
  BY DEF CompAnswer, CompShaped
<1>3. CompShaped'
  BY <1>1, <1>2 DEF CompShaped
<1>4. \A q \in CompRequests : compGot[q] = "ok" => compGot'[q] = "ok"
  BY <1>1, <1>2 DEF CompShaped
<1>5. \A list : /\ Answered("matches", list) \subseteq Answered("matches", list)'
                /\ Answered("cities", list) \subseteq Answered("cities", list)'
                /\ Answered("venues", list) \subseteq Answered("venues", list)'
                /\ Answered("competitions", list) \subseteq Answered("competitions", list)'
  BY <1>4 DEF Answered, CompRequests
<1>6. Listed \subseteq Listed'
  BY <1>5 DEF Listed
<1>7. VenueOptions \subseteq VenueOptions'
  BY <1>2, <1>5, <1>6 DEF VenueOptions, Unless
<1>8. \A field \in {"sport", "city", "venue", "competition"} : Options(field) \subseteq Options(field)'
  BY <1>5, <1>6, <1>7 DEF Options
<1>9. CompChoiceOffered'
  BY <1>2, <1>8 DEF CompChoiceOffered
<1>10. PageThere'
  <2>1. CASE compPage = 1
    BY <1>2, <2>1 DEF PageThere
  <2>2. CASE compPage # 1
    <3>1. compGot["matches"] = "ok" /\ compGot'["matches"] = "ok"
      BY <2>2, <1>4 DEF PageThere, CompRequests
    <3>2. Filtered' = Filtered
      BY <3>1, <1>2, FilteredDef
    <3> QED BY <3>1, <3>2, <1>2 DEF PageThere
  <2> QED BY <2>1, <2>2
<1> QED BY <1>3, <1>9, <1>10

LEMMA ChoicesAreOffered ==
    ASSUME CompIInv, NEW field \in Fields, CompChoose(field)
    PROVE  CompIInv'
<1> USE DEF CompIInv
<1>1. PICK value \in Options(field) \cup {Everything[field]} : compFilter' = Chosen(field, value)
  BY DEF CompChoose
<1>2. UNCHANGED compGot /\ compPage' = 1
  BY DEF CompChoose, ResetsPage
<1>3. CompShaped'
  BY <1>1, <1>2 DEF CompShaped, Chosen
<1>4. \A list : \A r : Answered(r, list)' = Answered(r, list)
  BY <1>2 DEF Answered
<1>5. Listed' = Listed
  BY <1>4 DEF Listed
<1>6. CompChoiceOffered'
  <2> SUFFICES ASSUME NEW f \in {"sport", "city", "venue", "competition"}
               PROVE  compFilter'[f] \in Options(f)' \cup {NoChoice}
    BY DEF CompChoiceOffered
  <2>1. CASE f # "venue"
    <3>1. Options(f)' = Options(f)
      BY <2>1, <1>4, <1>5 DEF Options
    <3>2. compFilter'[f] = compFilter[f] \/ (f = field /\ compFilter'[f] = value)
      BY <1>1, <2>1 DEF Chosen, CompShaped, Fields
    <3> QED BY <1>1, <3>1, <3>2 DEF CompChoiceOffered, Everything, Fields
  <2>2. CASE f = "venue" /\ field = "city"
    BY <1>1, <2>2 DEF Chosen, CompShaped, Fields
  <2>3. CASE f = "venue" /\ field # "city"
    <3>1. compFilter'["city"] = compFilter["city"]
      BY <1>1, <2>3 DEF Chosen, CompShaped, Fields
    <3>2. Options(f)' = Options(f)
      BY <2>3, <3>1, <1>4, <1>5 DEF Options, VenueOptions
    <3>3. compFilter'[f] = compFilter[f] \/ (f = field /\ compFilter'[f] = value)
      BY <1>1, <2>3 DEF Chosen, CompShaped, Fields
    <3> QED BY <1>1, <3>2, <3>3 DEF CompChoiceOffered, Everything, Fields
  <2> QED BY <2>1, <2>2, <2>3
<1>7. PageThere'
  BY <1>2 DEF PageThere
<1> QED BY <1>3, <1>6, <1>7

LEMMA CompIInvHolds == WebSpec => []CompIInv
<1>1. WebInit => CompIInv
  BY DEF WebInit, CompInit, CompIInv, CompShaped, CompRequests, PageThere, CompChoiceOffered, Everything, Fields
<1>2. CompIInv /\ [WebNext]_webVars => CompIInv'
  <2> SUFFICES ASSUME CompIInv, [CompNext]_compVars PROVE CompIInv'
    BY PagesStep
  <2>1. ASSUME UNCHANGED <<compGot, compFilter>>
        PROVE  CompShaped' /\ CompChoiceOffered' /\ Filtered' = Filtered
    <3>1. Filtered' = Filtered
      BY <2>1, FilteredDef
    <3>2. \A r, list : Answered(r, list)' = Answered(r, list)
      BY <2>1 DEF Answered
    <3>3. \A field : Options(field)' = Options(field)
      BY <2>1, <3>2 DEF Options, VenueOptions, Listed
    <3> QED BY <2>1, <3>1, <3>3 DEF CompIInv, CompShaped, CompChoiceOffered
  <2>2. CASE UNCHANGED compVars \/ CompToggle
    <3>1. UNCHANGED <<compGot, compFilter, compPage>>
      BY <2>2 DEF compVars, CompToggle
    <3> QED BY <2>1, <3>1 DEF CompIInv, PageThere
  <2>3. CASE CompTurn
    <3>1. /\ UNCHANGED <<compGot, compFilter>> /\ compGot["matches"] = "ok"
          /\ compPage' \in 1..PagesOf(Len(Filtered))
      BY <2>3 DEF CompTurn, CompUsable
    <3>2. PagesOf(Len(Filtered)) \in Nat
      BY FilteredIsList, CompAssumption, PagesCount DEF PagesOf
    <3> QED BY <2>1, <3>1, <3>2 DEF CompIInv, PageThere
  <2> QED BY <2>2, <2>3, AnswersAddOptions, ChoicesAreOffered DEF CompNext
<1> QED BY <1>1, <1>2, PTL DEF WebSpec

(* However the answers arrive and whatever is chosen, no list is narrowed  *)
(* by a choice its select does not offer.                                  *)
THEOREM ChoicesOffered == WebSpec => []CompChoiceOffered
BY CompIInvHolds, PTL DEF CompIInv

(* The page on show is not empty while a match passes, and the pages join  *)
(* to the whole list, for any number of matches and of rows of a page.     *)
THEOREM PagesShowMatches == WebSpec => []CompPagesShowMatches
<1>1. CompIInv => CompPagesShowMatches
  <2> SUFFICES ASSUME CompIInv PROVE CompPagesShowMatches
    OBVIOUS
  <2> DEFINE n == Len(Filtered)
             start == (compPage - 1) * PerPage
  <2>1. n \in Nat /\ PerPage \in Nat \ {0}
    BY FilteredIsList, CompAssumption
  <2>2. FlattenSeq([page \in 1..PagesOf(n) |-> PageOf(Filtered, page)]) = Filtered
    BY FilteredIsList, <2>1, PagesJoin DEF PagesOf, PageOf, Cut
  <2>3. ASSUME Filtered # << >> PROVE Shown # << >>
    <3>1. n > 0
      BY <2>3, FilteredIsList, EmptySeq
    <3>2. PagesOf(n) \in Nat \ {0} /\ (PagesOf(n) - 1) * PerPage < n
      BY <2>1, <3>1, PagesCount DEF PagesOf
    <3>3. compPage \in Nat \ {0} /\ compPage <= PagesOf(n)
      BY <3>2 DEF CompIInv, PageThere
    <3>4. start \in Nat /\ start <= (PagesOf(n) - 1) * PerPage
      BY <2>1, <3>2, <3>3
    <3> DEFINE last == IF start + PerPage < n THEN start + PerPage ELSE n
    <3>5. start + 1 \in Nat \ {0} /\ last \in Nat /\ start < last /\ last <= n
      BY <2>1, <3>2, <3>4
    <3>6. Shown = SubSeq(Filtered, start + 1, last)
      BY DEF Shown, PageOf
    <3> DEFINE first == start + 1
    <3>7. first \in Int /\ last \in Int /\ first <= last /\ \A i \in first..last : i \in 1..n
      <4> HIDE DEF start, last
      <4> QED BY <2>1, <3>4, <3>5
    <3>10. \A i \in first..last : Filtered[i] \in Range(CompMatches)
      BY <3>7, FilteredIsList, ElementOfSeq
    <3> HIDE DEF start, last, first, n
    <3>8. Len(SubSeq(Filtered, first, last)) = last - first + 1
      BY <3>7, <3>10, SubSeqProperties
    <3>9. Len(Shown) > 0
      BY <2>1, <3>4, <3>5, <3>6, <3>7, <3>8 DEF first
    <3> QED BY <3>9
  <2> QED BY <2>2, <2>3 DEF CompPagesShowMatches
<1> QED BY <1>1, CompIInvHolds, PTL
-----------------------------------------------------------------------------
(* The search page.                                                        *)

OptionsShaped == DOMAIN searchOptions = {"cities", "competitions"}

(* URLs, loads and results are of this shape; Absent is a result of none.  *)
UrlsShaped ==
    /\ DOMAIN searchUrl = Params
    /\ \A l \in searchLoads : DOMAIN l.of = Params
    /\ searchResult # Absent => DOMAIN searchResult.of = Params

(* A load that was started alone is for the URL, until it is over.         *)
LoadsForUrl ==
    ~searchRaced =>
        /\ \A l \in searchLoads : l.of = searchUrl
        /\ ~searchLoading /\ ~searchError => searchResult.of = searchUrl

(* A form mounted with its options shows what the URL says.                *)
AllArrived == [cities |-> "ok", competitions |-> "ok"]
FormShowsUrl == searchWhole => searchForm = Mounted(searchUrl, AllArrived)

SearchIInv == OptionsShaped /\ UrlsShaped /\ LoadsForUrl /\ FormShowsUrl

LEMMA UrlChangeKeeps ==
    ASSUME SearchIInv, NEW u, DOMAIN u = Params, SetUrl(u)
    PROVE  SearchIInv'
<1> USE DEF SearchIInv
<1>1. u # searchUrl /\ searchUrl' = u /\ UNCHANGED <<searchOptions, searchResult>>
  BY DEF SetUrl
<1>2. /\ searchLoads' = searchLoads \cup {[id |-> searchStarted, of |-> u]}
      /\ searchRaced' = (searchLoads # {}) /\ searchLoading' = TRUE
  BY DEF SetUrl, Reloads, StartLoad
<1>3. OptionsShaped' /\ UrlsShaped'
  BY <1>1, <1>2 DEF OptionsShaped, UrlsShaped
<1>4. LoadsForUrl'
  <2> SUFFICES ASSUME ~searchRaced' PROVE \A l \in searchLoads' : l.of = u
    BY <1>1, <1>2 DEF LoadsForUrl
  <2>1. searchLoads = {}
    BY <1>2
  <2> QED BY <1>2, <2>1
<1>5. FormShowsUrl'
  <2>1. searchForm' = Mounted(u, searchOptions)
        /\ searchWhole' = (\A o \in DOMAIN searchOptions : searchOptions[o] = "ok")
    BY DEF SetUrl, FormAfter
  <2>2. searchWhole' => searchOptions.cities = "ok" /\ searchOptions.competitions = "ok"
    BY <2>1 DEF OptionsShaped
  <2>3. searchWhole' => Mounted(u, searchOptions) = Mounted(u, AllArrived)
    BY <2>2 DEF Mounted, Option, AllArrived
  <2> QED BY <1>1, <2>1, <2>3 DEF FormShowsUrl
<1> QED BY <1>3, <1>4, <1>5

LEMMA SearchAnswerKeeps ==
    ASSUME SearchIInv, NEW l \in searchLoads, SearchAnswer(l)
    PROVE  SearchIInv'
<1> USE DEF SearchIInv
<1>1. /\ UNCHANGED <<searchUrl, searchForm, searchOptions, searchWhole, searchRaced>>
      /\ searchLoads' \subseteq searchLoads
      /\ searchLoading' = FALSE
      /\ \/ searchResult'.of = l.of /\ UNCHANGED searchError
         \/ searchError' = TRUE /\ UNCHANGED searchResult
  BY DEF SearchAnswer, LoadingAfter
<1>2. OptionsShaped' /\ UrlsShaped' /\ FormShowsUrl'
  BY <1>1 DEF OptionsShaped, UrlsShaped, FormShowsUrl
<1>3. LoadsForUrl'
  <2> SUFFICES ASSUME ~searchRaced' PROVE
         /\ \A k \in searchLoads' : k.of = searchUrl'
         /\ ~searchLoading' /\ ~searchError' => searchResult'.of = searchUrl'
    BY DEF LoadsForUrl
  <2>1. \A k \in searchLoads : k.of = searchUrl
    BY <1>1 DEF LoadsForUrl
  <2> QED BY <1>1, <2>1
<1> QED BY <1>2, <1>3

LEMMA SearchIInvHolds == WebSpec => []SearchIInv
<1>1. WebInit => SearchIInv
  BY DEF WebInit, SearchInit, SearchIInv, OptionsShaped, UrlsShaped, LoadsForUrl, FormShowsUrl, Bare
<1>2. SearchIInv /\ [WebNext]_webVars => SearchIInv'
  <2> SUFFICES ASSUME SearchIInv, [SearchNext]_searchVars PROVE SearchIInv'
    BY PagesStep
  <2> USE DEF SearchIInv
  <2>1. CASE UNCHANGED searchVars
    BY <2>1 DEF searchVars, OptionsShaped, UrlsShaped, LoadsForUrl, FormShowsUrl
  <2>2. CASE \E l \in searchLoads : SearchAnswer(l)
    BY <2>2, SearchAnswerKeeps
  <2>3. CASE \E o \in DOMAIN searchOptions : SearchListed(o)
    BY <2>3 DEF SearchListed, OptionsShaped, UrlsShaped, LoadsForUrl, FormShowsUrl
  <2>4. CASE SearchSubmit
    <3>1. \A form : DOMAIN FromForm(form) = Params
      BY DEF FromForm
    <3> QED BY <2>4, <3>1, UrlChangeKeeps DEF SearchSubmit
  <2>5. CASE SearchClear
    BY <2>5, UrlChangeKeeps DEF SearchClear, Bare
  <2>6. CASE SearchTurn
    <3>1. \A page : DOMAIN [searchUrl EXCEPT !.page = page] = Params
      BY DEF UrlsShaped
    <3> QED BY <2>6, <3>1, UrlChangeKeeps DEF SearchTurn
  <2>7. CASE SearchRetry
    <3>1. /\ UNCHANGED <<searchUrl, searchForm, searchOptions, searchWhole, searchResult>>
          /\ searchLoads' = searchLoads \cup {[id |-> searchStarted, of |-> searchUrl]}
          /\ searchRaced' = (searchLoads # {}) /\ searchLoading' = TRUE
      BY <2>7 DEF SearchRetry, StartLoad
    <3>2. ~searchRaced' => searchLoads = {}
      BY <3>1
    <3>3. LoadsForUrl'
      BY <3>1, <3>2 DEF LoadsForUrl
    <3> QED BY <3>1, <3>3 DEF OptionsShaped, UrlsShaped, FormShowsUrl
  <2>8. CASE SearchRefresh
    <3>1. /\ UNCHANGED searchUrl /\ searchResult' = Absent /\ searchWhole' = FALSE
          /\ searchLoads' = {[id |-> searchStarted, of |-> searchUrl]}
          /\ searchLoading' = TRUE /\ DOMAIN searchOptions' = DOMAIN searchOptions
      BY <2>8 DEF SearchRefresh, StartLoad
    <3> QED BY <3>1 DEF OptionsShaped, UrlsShaped, LoadsForUrl, FormShowsUrl
  <2> QED BY <2>1, <2>2, <2>3, <2>4, <2>5, <2>6, <2>7, <2>8 DEF SearchNext
<1> QED BY <1>1, <1>2, PTL DEF WebSpec

(* A result at rest answers the URL, whatever was submitted, turned, tried *)
(* again or refreshed before, if its load was started alone.               *)
THEOREM ResultAnswersUrl == WebSpec => []SearchShowsUrl
<1>1. SearchIInv => SearchShowsUrl
  BY DEF SearchIInv, LoadsForUrl, SearchShowsUrl
<1> QED BY <1>1, SearchIInvHolds, PTL

(* The two queries keep the same tickets, for any tickets and any request  *)
(* but one with both a start date and remainingOnly.                       *)
THEOREM QueriesAgree == WebSpec => []SearchSourcesAgree
<1>1. \A in : (in.remainingOnly /\ in.startDate # Absent)
              \/ Found("elasticsearch", in) = Found("postgresql-fallback", in)
  BY DEF Found, IndexKeeps, TableKeeps, InDateRange, Given
<1>2. SearchSourcesAgree
  BY <1>1 DEF SearchSourcesAgree
<1> QED BY <1>2, PTL

LEMMA OrderedIsList ==
    ASSUME NEW source, NEW in
    PROVE  \E S : Ordered(source, in) \in Seq(S)
<1> DEFINE rows == Found(source, in)
           n == Cardinality(rows)
           At(i) == CHOOSE t \in rows : Cardinality({s \in rows : <<s, t>> \in Sorting(source, in)}) = i - 1
           S == {At(i) : i \in 1..n}
<1>1. n \in Nat
  <2>1. rows \subseteq SearchTickets
    BY DEF Found
  <2> HIDE DEF rows
  <2> QED BY <2>1, SearchAssumption, FS_Subset, FS_CardinalityType
<1>2. Ordered(source, in) = [i \in 1..n |-> At(i)]
  BY DEF Ordered, InOrder
<1> HIDE DEF n, At
<1>3. [i \in 1..n |-> At(i)] \in Seq(S)
  BY <1>1
<1> QED BY <1>2, <1>3

(* The order of the tickets does not depend on the page.                   *)
LEMMA SamePagesSameOrder ==
    ASSUME NEW in, DOMAIN in = Params, NEW page, NEW source
    PROVE  Ordered(source, [in EXCEPT !.page = page]) = Ordered(source, in)
<1> DEFINE turned == [in EXCEPT !.page = page]
<1>1. /\ turned.cityId = in.cityId /\ turned.remainingOnly = in.remainingOnly
      /\ turned.startDate = in.startDate /\ turned.maxPrice = in.maxPrice
      /\ turned.sortBy = in.sortBy /\ turned.sortOrder = in.sortOrder
  BY DEF Params
<1> HIDE DEF turned
<1>2. Found(source, turned) = Found(source, in)
  BY <1>1 DEF Found, IndexKeeps, TableKeeps, InDateRange, Given
<1>3. Sorting(source, turned) = Sorting(source, in)
  <2>1. \A t : SortKey(turned, t) = SortKey(in, t)
    BY <1>1 DEF SortKey
  <2> QED BY <2>1 DEF Sorting
<1>4. Ordered(source, turned) = Ordered(source, in)
  BY <1>2, <1>3 DEF Ordered
<1> QED BY <1>4 DEF turned

(* The pages one may turn to join to the whole result, for any request and *)
(* any number of tickets found.                                            *)
THEOREM SearchPagesJoin == WebSpec => []SearchPagesPartition
<1>1. SearchIInv => SearchPagesPartition
  <2> SUFFICES ASSUME SearchIInv, searchResult # Absent
               PROVE  LET in == Effective(searchResult.of)
                          source == searchResult.source
                          all == Ordered(source, in)
                      IN FlattenSeq([page \in 1..TotalPages(Len(all)) |->
                                        Search(source, [in EXCEPT !.page = page]).items]) = all
    BY DEF SearchPagesPartition
  <2> DEFINE in == Effective(searchResult.of)
             source == searchResult.source
             all == Ordered(source, in)
  <2>1. DOMAIN in = Params
    BY DEF SearchIInv, UrlsShaped, Effective
  <2> HIDE DEF in, source
  <2>2. PICK S : all \in Seq(S)
    BY OrderedIsList
  <2>3. ASSUME NEW page
        PROVE  Search(source, [in EXCEPT !.page = page]).items = Cut(all, Limit, page)
    <3>1. [in EXCEPT !.page = page].page = page
      BY <2>1 DEF Params
    <3>2. Ordered(source, [in EXCEPT !.page = page]) = all
      BY <2>1, SamePagesSameOrder
    <3> HIDE DEF all
    <3> DEFINE turned == [in EXCEPT !.page = page]
    <3>3. Search(source, turned).items = Page(Ordered(source, turned), turned.page)
      BY DEF Search
    <3>4. Page(all, page) = Cut(all, Limit, page)
      BY DEF Page, Offset, Cut
    <3> HIDE DEF turned
    <3> QED BY <3>1, <3>2, <3>3, <3>4 DEF turned
  <2> HIDE DEF all
  <2>4. FlattenSeq([page \in 1..TotalPages(Len(all)) |-> Cut(all, Limit, page)]) = all
    BY <2>2, SearchAssumption, PagesJoin DEF TotalPages
  <2>5. [page \in 1..TotalPages(Len(all)) |-> Search(source, [in EXCEPT !.page = page]).items]
          = [page \in 1..TotalPages(Len(all)) |-> Cut(all, Limit, page)]
    BY <2>3
  <2> QED BY <2>4, <2>5 DEF in, source, all
<1> QED BY <1>1, SearchIInvHolds, PTL

(* Submitting a form that was mounted with its options changes one filter  *)
(* at most, whatever the URL said before.                                  *)
THEOREM UntouchedFiltersKept == WebSpec => SearchUntouchedFilterKept
<1> DEFINE Kept == (searchWhole /\ searchUrl' # Bare) =>
                     \E p \in Controls : \A q \in Controls \ {p, "startDate"} :
                         FilterOf(searchUrl')[q] = FilterOf(searchUrl)[q]
<1>1. SearchIInv /\ [WebNext]_webVars => [Kept]_searchVars
  <2> SUFFICES ASSUME SearchIInv, [SearchNext]_searchVars, searchWhole, searchUrl' # Bare
               PROVE  \E p \in Controls : \A q \in Controls \ {p, "startDate"} :
                         FilterOf(searchUrl')[q] = FilterOf(searchUrl)[q]
    BY PagesStep
  <2>1. CASE UNCHANGED searchUrl
    <3>1. "sortBy" \in Controls
      BY DEF Controls, Params
    <3> QED BY <2>1, <3>1
  <2>2. CASE SearchTurn
    <3>1. PICK page : searchUrl' = [searchUrl EXCEPT !.page = page]
      BY <2>2 DEF SearchTurn, SetUrl
    <3>2. \A q \in Controls : searchUrl'[q] = searchUrl[q]
      BY <3>1 DEF SearchIInv, UrlsShaped, Controls, Params
    <3>3. \A q \in Controls \ {"startDate"} : FilterOf(searchUrl')[q] = FilterOf(searchUrl)[q]
      BY <3>2 DEF FilterOf, Mounted, Option, Default, Controls, Params
    <3>4. "sortBy" \in Controls
      BY DEF Controls, Params
    <3> QED BY <3>3, <3>4
  <2>3. CASE SearchSubmit
    <3>0. PICK p \in Controls : \E value : searchUrl' = FromForm([searchForm EXCEPT ![p] = value])
      BY <2>3 DEF SearchSubmit, SetUrl
    <3>1. PICK value : searchUrl' = FromForm([searchForm EXCEPT ![p] = value])
      BY <3>0
    <3>2. searchForm = Mounted(searchUrl, AllArrived)
      BY DEF SearchIInv, FormShowsUrl
    <3>3. ASSUME NEW q \in Controls \ {p, "startDate"}
          PROVE  searchUrl'[q] = Mounted(searchUrl, AllArrived)[q]
      <4>1. [searchForm EXCEPT ![p] = value][q] = searchForm[q]
        BY <3>2 DEF Mounted
      <4> QED BY <3>1, <3>2, <4>1 DEF FromForm, Controls, Params
    <3>4. ASSUME NEW q \in Controls \ {p, "startDate"}
          PROVE  FilterOf(searchUrl')[q] = FilterOf(searchUrl)[q]
      BY <3>3 DEF FilterOf, Mounted, Option, Default, AllArrived, Controls, Params
    <3> QED BY <3>4
  <2>4. CASE SearchClear
    BY <2>4 DEF SearchClear, SetUrl
  <2>5. UNCHANGED searchUrl \/ SearchTurn \/ SearchSubmit \/ SearchClear
    BY DEF SearchNext, searchVars, SearchAnswer, SearchListed, SearchRetry, SearchRefresh
  <2> QED BY <2>1, <2>2, <2>3, <2>4, <2>5
<1> QED BY <1>1, SearchIInvHolds, PTL DEF WebSpec, SearchUntouchedFilterKept

-----------------------------------------------------------------------------
(* The page on which problems are reported.                                *)

(* The list that arrives does not take the message away.                   *)
THEOREM FailuresShown == WebSpec => []ReportFailureShown
<1>1. WebInit => ReportFailureShown
  BY DEF WebInit, RepInit, ReportFailureShown
<1>2. ReportFailureShown /\ [WebNext]_webVars => ReportFailureShown'
  <2> SUFFICES ASSUME ReportFailureShown, [RepNext]_repVars PROVE ReportFailureShown'
    BY PagesStep
  <2>1. CASE repError' = TRUE
    BY <2>1 DEF ReportFailureShown
  <2>2. CASE RepSubmit
    BY <2>2 DEF RepSubmit, ReportFailureShown
  <2>3. CASE UNCHANGED <<repOutcome, repError>>
    BY <2>3 DEF ReportFailureShown
  <2>4. repError' = TRUE \/ RepSubmit \/ UNCHANGED <<repOutcome, repError>>
    BY DEF RepNext, repVars, repSubmitVars, RepSubject, RepStaysArrive, RepType, RepReads, RepShows,
           ErrorAfterLoad, RepLoadFails, RepCreates, RepCreated, RepRefused, RepUnheard, SubmitEnds
  <2> QED BY <2>1, <2>2, <2>3, <2>4
<1> QED BY <1>1, <1>2, PTL DEF WebSpec

-----------------------------------------------------------------------------
(* The support desk.                                                       *)

Tabs == {"reports", "reservations"}

(* A row that the only page asked for leaves out is older than all of it,  *)
(* and the page is full: of the rows left out, one with the fewest newer   *)
(* ones has nothing but the page before it.                                *)
LEMMA LeftOutIsOlder ==
    ASSUME NEW S \in SUBSET Nat, IsFiniteSet(S), NEW r \in S, r \notin Newest(S)
    PROVE  Cardinality(Newest(S)) >= DeskLimit /\ \A q \in Newest(S) : q > r
<1> DEFINE Newer(x) == {y \in S : y > x}
           Count(x) == Cardinality(Newer(x))
<1>1. /\ \A x : IsFiniteSet(Newer(x)) /\ Count(x) \in Nat
      /\ IsFiniteSet(Newest(S)) /\ Cardinality(Newest(S)) \in Nat
  <2>1. Newest(S) \subseteq S
    BY DEF Newest
  <2> QED BY <2>1, FS_Subset, FS_CardinalityType
<1>2. \A x \in S : x \in Newest(S) <=> Count(x) < DeskLimit
  BY DEF Newest
<1>3. ASSUME NEW x \in S, NEW y \in S, y > x
      PROVE  Count(y) < Count(x)
  <2>0. S \subseteq Nat
    OBVIOUS
  <2>1. Newer(y) \subseteq Newer(x) /\ y \in Newer(x) /\ y \notin Newer(y)
    <3>1. \A z \in S : z > y => z > x
      BY <1>3, <2>0
    <3>2. ~(y > y)
      BY <2>0
    <3> QED BY <1>3, <3>1, <3>2
  <2>2. Count(y) <= Count(x) /\ Count(y) # Count(x)
    BY <1>1, <2>1, FS_Subset
  <2> QED BY <1>1, <2>2
<1>4. ASSUME NEW q \in Newest(S) PROVE q > r
  <2>1. q \in S /\ q # r /\ Count(q) < DeskLimit /\ ~(Count(r) < DeskLimit)
    BY <1>2 DEF Newest
  <2>2. ~(r > q)
    BY <1>1, <1>3, <2>1, DeskAssumption
  <2> QED BY <2>1, <2>2
<1>5. PICK x \in S \ Newest(S) : \A y \in S \ Newest(S) : Count(x) <= Count(y)
  <2> DEFINE Counts == {Count(x) : x \in S \ Newest(S)}
  <2>1. Counts \in SUBSET Nat /\ Counts # {}
    BY <1>1
  <2>2. PICK n \in Counts : \A m \in Counts : n <= m
    BY <2>1, SmallestNumber
  <2> QED BY <2>2
<1>6. Newer(x) \subseteq Newest(S)
  <2> SUFFICES ASSUME NEW y \in S, y > x, y \notin Newest(S) PROVE FALSE
    OBVIOUS
  <2>1. Count(y) < Count(x) /\ Count(x) <= Count(y)
    BY <1>3, <1>5
  <2> QED BY <1>1, <2>1
<1>7. Count(x) <= Cardinality(Newest(S)) /\ ~(Count(x) < DeskLimit)
  BY <1>1, <1>2, <1>5, <1>6, FS_Subset
<1> QED BY <1>1, <1>4, <1>7, DeskAssumption

ReportsShaped ==
    /\ DOMAIN deskReport = DeskReports
    /\ \A r \in DeskReports :
         /\ DOMAIN deskReport[r] = {"status", "response", "version"}
         /\ deskReport[r].version \in Nat
         /\ deskReport[r].status = "none" => deskReport[r].version = 0
    /\ deskMine \in [DeskReports -> Nat]
    /\ DOMAIN deskRows \subseteq DeskReports

LoadsShaped ==
    \A l \in deskLoads :
        /\ DOMAIN l = {"id", "tab", "filter", "read", "rows"}
        /\ l.tab \in Tabs
        /\ l.tab = "reports" => DOMAIN l.rows \subseteq DeskReports

DeskCallsShaped ==
    \A c \in deskCalls :
        /\ DOMAIN c = {"kind", "of", "status", "response", "seen", "tab", "filter", "applied", "version"}
        /\ c.tab \in Tabs
        /\ c.kind = "review" => c.of \in DeskReports /\ c.status \in DeskVerdicts

(* A version that was answered, or is about to be, is not ahead of its row.*)
VersionsReached ==
    /\ \A r \in DeskReports : deskMine[r] <= deskReport[r].version
    /\ \A c \in deskCalls : c.kind = "review" /\ c.applied =>
           c.version \in Nat /\ c.version <= deskReport[c.of].version

Answers(tab, filter, rows) ==
    \A x \in DOMAIN rows : Passes(filter, IF tab = "reports" THEN rows[x].status ELSE rows[x])

Seen(rows) ==
    \A r \in DeskReports : deskMine[r] > 0 =>
        \/ r \in DOMAIN rows /\ rows[r].version >= deskMine[r]
        \/ Cardinality(DOMAIN rows) >= DeskLimit /\ \A q \in DOMAIN rows : q > r

ReadsAnswer == \A l \in deskLoads : l.read => Answers(l.tab, l.filter, l.rows)

(* A load that was started alone is for the tab and the filter on show,    *)
(* and no review is answered while it is under way.                        *)
LoadsForChoice ==
    ~deskRaced =>
        \A l \in deskLoads :
            /\ l.tab = deskTab /\ l.filter = deskFilter
            /\ l.read /\ l.tab = "reports" /\ l.filter = All => Seen(l.rows)

ListsTrue ==
    DeskAtRest =>
        /\ deskTab = "reports" => /\ Answers("reports", deskFilter, deskRows)
                                  /\ deskFilter = All => Seen(deskRows)
        /\ deskTab = "reservations" => Answers("reservations", deskFilter, deskStayRows)

DeskIInv ==
    /\ deskTab \in Tabs
    /\ ReportsShaped /\ LoadsShaped /\ DeskCallsShaped
    /\ VersionsReached
    /\ ReadsAnswer /\ LoadsForChoice /\ ListsTrue

(* What a step that is no step of the list leaves as it is.                *)
deskListVars == <<deskTab, deskLists, deskLoadVars, deskFilter, deskMine>>

LEMMA ListsUntouched ==
    ASSUME DeskIInv, UNCHANGED deskListVars
    PROVE  /\ deskTab' \in Tabs /\ LoadsShaped' /\ ReadsAnswer' /\ LoadsForChoice' /\ ListsTrue'
           /\ deskMine' \in [DeskReports -> Nat] /\ DOMAIN deskRows' \subseteq DeskReports
BY DEF DeskIInv, deskListVars, deskLists, deskLoadVars, ReportsShaped, LoadsShaped, ReadsAnswer,
       LoadsForChoice, ListsTrue, Answers, Seen, DeskAtRest

(* What may happen to the reports: a filing, or a review.                  *)
Files == \E r \in DeskReports :
    deskReport[r].status = "none" /\ deskReport' = [deskReport EXCEPT ![r].status = "pending"]
Reviews == \E r \in DeskReports : \E status, response :
    status # "none" /\ UpdateReport(r, status, response)

(* A row that has a version never loses it, and its text changes only with *)
(* its version.                                                            *)
Grows(old, new) ==
    /\ DOMAIN new = {"status", "response", "version"}
    /\ new.version \in Nat /\ old.version <= new.version
    /\ new.status = "none" => new.version = 0
    /\ new.version = old.version => new.response = old.response

LEMMA ReportsGrow ==
    ASSUME ReportsShaped, UNCHANGED deskReport \/ Files \/ Reviews
    PROVE  /\ DOMAIN deskReport' = DeskReports
           /\ \A q \in DeskReports : Grows(deskReport[q], deskReport'[q])
<1> USE DEF ReportsShaped, Grows
<1>1. CASE UNCHANGED deskReport
  BY <1>1
<1>2. ASSUME NEW r \in DeskReports, NEW row, deskReport' = [deskReport EXCEPT ![r] = row],
             Grows(deskReport[r], row)
      PROVE  /\ DOMAIN deskReport' = DeskReports
             /\ \A q \in DeskReports : Grows(deskReport[q], deskReport'[q])
  <2>1. ASSUME NEW q \in DeskReports PROVE deskReport'[q] = IF q = r THEN row ELSE deskReport[q]
    BY <1>2
  <2> QED BY <1>2, <2>1
<1>3. CASE Files
  <2>1. PICK r \in DeskReports : deskReport' = [deskReport EXCEPT ![r].status = "pending"]
    BY <1>3 DEF Files
  <2> DEFINE row == [deskReport[r] EXCEPT !.status = "pending"]
  <2>2. deskReport' = [deskReport EXCEPT ![r] = row]
    BY <2>1
  <2>3. Grows(deskReport[r], row)
    OBVIOUS
  <2> QED BY <1>2, <2>2, <2>3
<1>4. CASE Reviews
  <2>1. PICK r \in DeskReports : \E status, response : status # "none" /\ UpdateReport(r, status, response)
    BY <1>4 DEF Reviews
  <2>2. PICK status, response : status # "none" /\ UpdateReport(r, status, response)
    BY <2>1
  <2> DEFINE row == Updated(deskReport[r], status, response)
  <2>3. deskReport' = [deskReport EXCEPT ![r] = row]
    BY <2>2 DEF UpdateReport
  <2>4. Grows(deskReport[r], row)
    BY <2>2 DEF Updated
  <2> QED BY <1>2, <2>3, <2>4
<1> QED BY <1>1, <1>3, <1>4

(* A review sent from this page or by a colleague never names "none".      *)
LEMMA ReportSteps ==
    ASSUME DeskIInv, [DeskNext]_deskVars
    PROVE  UNCHANGED deskReport \/ Files \/ Reviews
BY DeskAssumption
   DEF DeskNext, deskVars, deskServer, ReportFiled, Files, ColleagueReviews, StayMoves, DeskReads,
       DeskShows, DeskLoadFails, SwitchTab, SetFilter, Choose, DeskRetry, Review, ChangeStay, Click,
       DeskApplies, DeskAnswered, DeskCallFails, Reviews, DeskIInv, DeskCallsShaped, ReportStatuses

LEMMA ServerStepsKeepDesk ==
    ASSUME DeskIInv, ReportFiled \/ ColleagueReviews \/ StayMoves
    PROVE  DeskIInv'
<1>1. UNCHANGED deskListVars /\ UNCHANGED deskCalls
  BY DEF ReportFiled, ColleagueReviews, StayMoves, deskListVars
<1>2. DOMAIN deskReport' = DeskReports /\ \A q \in DeskReports : Grows(deskReport[q], deskReport'[q])
  BY ReportSteps, ReportsGrow DEF DeskNext, DeskIInv
<1>3. \A q \in DeskReports : /\ deskReport'[q].version \in Nat
                             /\ deskReport[q].version <= deskReport'[q].version
  BY <1>2 DEF Grows
<1>4. DeskCallsShaped'
  BY <1>1 DEF DeskIInv, DeskCallsShaped
<1>5. VersionsReached'
  <2>1. UNCHANGED <<deskMine, deskCalls>> /\ deskMine \in [DeskReports -> Nat]
    BY <1>1 DEF deskListVars, DeskIInv, ReportsShaped
  <2>2. \A r \in DeskReports : deskMine'[r] <= deskReport'[r].version
    <3> SUFFICES ASSUME NEW r \in DeskReports PROVE deskMine[r] <= deskReport'[r].version
      BY <2>1
    <3>1. deskMine[r] \in Nat /\ deskReport[r].version \in Nat /\ deskReport'[r].version \in Nat
      BY <2>1, <1>3 DEF DeskIInv, ReportsShaped
    <3>2. deskMine[r] <= deskReport[r].version /\ deskReport[r].version <= deskReport'[r].version
      BY <1>3 DEF DeskIInv, VersionsReached
    <3> QED BY <3>1, <3>2
  <2>3. ASSUME NEW c \in deskCalls, c.kind = "review", c.applied
        PROVE  c.version \in Nat /\ c.version <= deskReport'[c.of].version
    <3>1. c.of \in DeskReports /\ c.version \in Nat /\ c.version <= deskReport[c.of].version
      BY <2>3 DEF DeskIInv, DeskCallsShaped, VersionsReached
    <3>2. deskReport[c.of].version \in Nat /\ deskReport'[c.of].version \in Nat
          /\ deskReport[c.of].version <= deskReport'[c.of].version
      BY <3>1, <1>3 DEF DeskIInv, ReportsShaped
    <3> QED BY <3>1, <3>2
  <2> QED BY <2>1, <2>2, <2>3 DEF VersionsReached
<1>6. ReportsShaped'
  BY <1>1, <1>2, ListsUntouched DEF ReportsShaped, Grows
<1> QED BY <1>1, <1>4, <1>5, <1>6, ListsUntouched DEF DeskIInv

LEMMA ApplyingKeepsDesk ==
    ASSUME DeskIInv, NEW c \in deskCalls, DeskApplies(c)
    PROVE  DeskIInv'
<1>1. UNCHANGED deskListVars /\ UNCHANGED deskMine
  BY DEF DeskApplies, deskListVars
<1>2. /\ DOMAIN c = {"kind", "of", "status", "response", "seen", "tab", "filter", "applied", "version"}
      /\ c.tab \in Tabs
      /\ c.kind = "review" => c.of \in DeskReports /\ c.status \in DeskVerdicts
  BY DEF DeskIInv, DeskCallsShaped
<1>3. \/ /\ c.kind = "review"
         /\ UpdateReport(c.of, c.status, c.response)
         /\ deskCalls' = (deskCalls \ {c}) \cup {[c EXCEPT !.applied = TRUE, !.version = deskReport'[c.of].version]}
      \/ /\ c.kind \in {"status", "ticket"}
         /\ UNCHANGED deskReport
         /\ deskCalls' = (deskCalls \ {c}) \cup {[c EXCEPT !.applied = TRUE]}
  BY DEF DeskApplies, deskServer
<1>4. PICK d : /\ deskCalls' = (deskCalls \ {c}) \cup {d}
               /\ DOMAIN d = DOMAIN c /\ d.kind = c.kind /\ d.of = c.of /\ d.tab = c.tab
               /\ d.status = c.status /\ d.seen = c.seen
               /\ c.kind = "review" => d.version = deskReport'[c.of].version
  <2> DEFINE done == [c EXCEPT !.applied = TRUE]
             seen == [c EXCEPT !.applied = TRUE, !.version = deskReport'[c.of].version]
  <2>1. /\ DOMAIN done = DOMAIN c /\ done.kind = c.kind /\ done.of = c.of /\ done.tab = c.tab
        /\ DOMAIN seen = DOMAIN c /\ seen.kind = c.kind /\ seen.of = c.of /\ seen.tab = c.tab
        /\ done.status = c.status /\ seen.status = c.status /\ done.seen = c.seen /\ seen.seen = c.seen
        /\ seen.version = deskReport'[c.of].version
    BY <1>2
  <2>2. \/ c.kind = "review" /\ deskCalls' = (deskCalls \ {c}) \cup {seen}
        \/ c.kind # "review" /\ deskCalls' = (deskCalls \ {c}) \cup {done}
    BY <1>3
  <2> HIDE DEF done, seen
  <2> QED BY <2>1, <2>2
<1>5. /\ ReportsShaped'
      /\ \A q \in DeskReports : /\ deskReport'[q].version \in Nat
                                /\ deskReport[q].version <= deskReport'[q].version
  <2>1. DOMAIN deskReport' = DeskReports /\ \A q \in DeskReports : Grows(deskReport[q], deskReport'[q])
    BY ReportSteps, ReportsGrow DEF DeskNext, DeskIInv
  <2> QED BY <1>1, <2>1, ListsUntouched DEF ReportsShaped, Grows
<1>6. DeskCallsShaped'
  BY <1>2, <1>4 DEF DeskIInv, DeskCallsShaped
<1>7. VersionsReached'
  <2>1. \A r \in DeskReports : deskMine'[r] <= deskReport'[r].version
    <3> SUFFICES ASSUME NEW r \in DeskReports PROVE deskMine[r] <= deskReport'[r].version
      BY <1>1
    <3>1. deskMine[r] \in Nat /\ deskReport[r].version \in Nat /\ deskReport'[r].version \in Nat
      BY <1>5 DEF DeskIInv, ReportsShaped
    <3>2. deskMine[r] <= deskReport[r].version /\ deskReport[r].version <= deskReport'[r].version
      BY <1>5 DEF DeskIInv, VersionsReached
    <3> QED BY <3>1, <3>2
  <2>2. ASSUME NEW e \in deskCalls, e.kind = "review", e.applied
        PROVE  e.version \in Nat /\ e.version <= deskReport'[e.of].version
    <3>1. e.of \in DeskReports /\ e.version \in Nat /\ e.version <= deskReport[e.of].version
      BY <2>2 DEF DeskIInv, DeskCallsShaped, VersionsReached
    <3>2. deskReport[e.of].version \in Nat /\ deskReport'[e.of].version \in Nat
          /\ deskReport[e.of].version <= deskReport'[e.of].version
      BY <3>1, <1>5 DEF DeskIInv, ReportsShaped
    <3> QED BY <3>1, <3>2
  <2>3. d.kind = "review" => d.version \in Nat /\ d.version <= deskReport'[d.of].version
    BY <1>2, <1>4, <1>5
  <2> QED BY <1>4, <2>1, <2>2, <2>3 DEF VersionsReached
<1> QED BY <1>1, <1>5, <1>6, <1>7, ListsUntouched DEF DeskIInv

(* Where the columns and the calls stay, only the lists are in question.   *)
LEMMA RowsUntouched ==
    ASSUME DeskIInv, UNCHANGED <<deskReport, deskMine>>, deskCalls' \subseteq deskCalls,
           DOMAIN deskRows' \subseteq DeskReports
    PROVE  ReportsShaped' /\ DeskCallsShaped' /\ VersionsReached'
BY DEF DeskIInv, ReportsShaped, DeskCallsShaped, VersionsReached

LEMMA LoadsReadKeep ==
    ASSUME DeskIInv, NEW l \in deskLoads, DeskReads(l)
    PROVE  DeskIInv'
<1> DEFINE rows == IF l.tab = "reports" THEN ReportList(l.filter) ELSE StayList(l.filter)
           m == [l EXCEPT !.read = TRUE, !.rows = rows]
<1>1. /\ deskLoads' = (deskLoads \ {l}) \cup {m}
      /\ UNCHANGED <<deskReport, deskStay, deskMine, deskCalls, deskTab, deskFilter, deskRows, deskStayRows,
                     deskRaced, deskLoading, deskError>>
  BY DEF DeskReads, deskServer, deskLists
<1>2. DOMAIN l = {"id", "tab", "filter", "read", "rows"} /\ l.tab \in Tabs
  BY DEF DeskIInv, LoadsShaped
<1>3. DOMAIN m = DOMAIN l /\ m.tab = l.tab /\ m.filter = l.filter /\ m.rows = rows
  BY <1>2
<1>4. ReportsShaped' /\ DeskCallsShaped' /\ VersionsReached' /\ deskTab' \in Tabs
  BY <1>1, RowsUntouched DEF DeskIInv, ReportsShaped
<1>5. Answers(l.tab, l.filter, rows)
  BY <1>2 DEF Answers, ReportList, StayList, Newest, Tabs
<1>6. l.tab = "reports" => DOMAIN rows \subseteq DeskReports
  BY DEF ReportList, Newest
<1>7. l.tab = "reports" /\ l.filter = All => Seen(rows)
  <2> DEFINE filed == {r \in DeskReports : Passes(All, deskReport[r].status)}
  <2> SUFFICES ASSUME l.tab = "reports", l.filter = All, NEW r \in DeskReports, deskMine[r] > 0
               PROVE  \/ r \in DOMAIN rows /\ rows[r].version >= deskMine[r]
                      \/ Cardinality(DOMAIN rows) >= DeskLimit /\ \A q \in DOMAIN rows : q > r
    BY DEF Seen
  <2>1. rows = [q \in Newest(filed) |-> deskReport[q]]
    BY DEF ReportList
  <2>2. deskMine[r] \in Nat /\ deskReport[r].version \in Nat /\ deskMine[r] <= deskReport[r].version
    BY DEF DeskIInv, ReportsShaped, VersionsReached
  <2>3. r \in filed
    <3>1. deskReport[r].status = "none" => deskReport[r].version = 0
      BY DEF DeskIInv, ReportsShaped
    <3> QED BY <2>2, <3>1 DEF Passes
  <2>4. filed \in SUBSET Nat /\ IsFiniteSet(filed)
    BY DeskAssumption, FS_Subset
  <2> HIDE DEF filed, rows
  <2>5. CASE r \in Newest(filed)
    BY <2>1, <2>2, <2>5
  <2>6. CASE r \notin Newest(filed)
    BY <2>1, <2>3, <2>4, <2>6, LeftOutIsOlder
  <2> QED BY <2>5, <2>6
<1> HIDE DEF m, rows
<1>8. LoadsShaped'
  BY <1>1, <1>2, <1>3, <1>6 DEF DeskIInv, LoadsShaped
<1>9. ReadsAnswer'
  BY <1>1, <1>3, <1>5 DEF DeskIInv, ReadsAnswer
<1>10. LoadsForChoice'
  <2> SUFFICES ASSUME ~deskRaced, NEW k \in deskLoads'
               PROVE  /\ k.tab = deskTab /\ k.filter = deskFilter
                      /\ k.read /\ k.tab = "reports" /\ k.filter = All => Seen(k.rows)
    BY <1>1 DEF LoadsForChoice, Seen
  <2>1. CASE k \in deskLoads
    BY <2>1 DEF DeskIInv, LoadsForChoice
  <2>2. CASE k = m
    BY <2>2, <1>3, <1>7 DEF DeskIInv, LoadsForChoice
  <2> QED BY <1>1, <2>1, <2>2
<1>11. ListsTrue'
  BY <1>1 DEF DeskIInv, ListsTrue, DeskAtRest, Answers, Seen
<1> QED BY <1>4, <1>8, <1>9, <1>10, <1>11 DEF DeskIInv

LEMMA LoadsShowKeep ==
    ASSUME DeskIInv, NEW l \in deskLoads, DeskShows(l)
    PROVE  DeskIInv'
<1>1. /\ deskLoads' = deskLoads \ {l} /\ l.read
      /\ deskRows' = IF l.tab = "reports" THEN l.rows ELSE deskRows
      /\ deskStayRows' = IF l.tab = "reservations" THEN l.rows ELSE deskStayRows
      /\ UNCHANGED <<deskReport, deskMine, deskCalls, deskTab, deskFilter, deskRaced, deskError>>
  BY DEF DeskShows, deskServer
<1>2. DOMAIN deskRows' \subseteq DeskReports
  BY <1>1 DEF DeskIInv, ReportsShaped, LoadsShaped
<1>3. ReportsShaped' /\ DeskCallsShaped' /\ VersionsReached' /\ deskTab' \in Tabs
  BY <1>1, <1>2, RowsUntouched DEF DeskIInv
<1>4. LoadsShaped' /\ ReadsAnswer'
  BY <1>1 DEF DeskIInv, LoadsShaped, ReadsAnswer
<1>5. LoadsForChoice'
  BY <1>1 DEF DeskIInv, LoadsForChoice, Seen
<1>6. ListsTrue'
  <2> SUFFICES ASSUME ~deskRaced, ~deskError
               PROVE  /\ deskTab = "reports" => /\ Answers("reports", deskFilter, deskRows')
                                                /\ deskFilter = All => Seen(deskRows')
                      /\ deskTab = "reservations" => Answers("reservations", deskFilter, deskStayRows')
    BY <1>1 DEF ListsTrue, DeskAtRest, Seen, Answers
  <2>1. l.tab = deskTab /\ l.filter = deskFilter /\ (l.tab = "reports" /\ l.filter = All => Seen(l.rows))
    BY <1>1 DEF DeskIInv, LoadsForChoice
  <2>2. Answers(l.tab, l.filter, l.rows)
    BY <1>1 DEF DeskIInv, ReadsAnswer
  <2> QED BY <1>1, <2>1, <2>2
<1> QED BY <1>3, <1>4, <1>5, <1>6 DEF DeskIInv

LEMMA LoadsFailKeep ==
    ASSUME DeskIInv, NEW l \in deskLoads, DeskLoadFails(l)
    PROVE  DeskIInv'
<1>1. /\ deskLoads' \subseteq deskLoads /\ deskError' = TRUE
      /\ UNCHANGED <<deskReport, deskMine, deskCalls, deskTab, deskFilter, deskRows, deskStayRows, deskRaced>>
  BY DEF DeskLoadFails, deskServer, deskLists
<1>2. ReportsShaped' /\ DeskCallsShaped' /\ VersionsReached' /\ deskTab' \in Tabs
  BY <1>1, RowsUntouched DEF DeskIInv, ReportsShaped
<1>3. LoadsShaped' /\ ReadsAnswer'
  BY <1>1 DEF DeskIInv, LoadsShaped, ReadsAnswer
<1>4. LoadsForChoice'
  BY <1>1 DEF DeskIInv, LoadsForChoice, Seen
<1>5. ListsTrue'
  BY <1>1 DEF ListsTrue, DeskAtRest
<1> QED BY <1>2, <1>3, <1>4, <1>5 DEF DeskIInv

(* A load starts; the one that is not alone, or not for what is chosen, is *)
(* marked as raced.                                                        *)
LEMMA StartKeeps ==
    ASSUME DeskIInv, NEW tab \in Tabs, NEW filter, StartDeskLoad(tab, filter)
    PROVE  LoadsShaped' /\ ReadsAnswer' /\ LoadsForChoice' /\ ListsTrue'
<1> DEFINE new == [id |-> deskStarted, tab |-> tab, filter |-> filter, read |-> FALSE, rows |-> << >>]
<1>1. deskLoads' = deskLoads \cup {new} /\ deskLoading' = TRUE
  BY DEF StartDeskLoad
<1>2. ~deskRaced' => deskLoads = {} /\ tab = deskTab' /\ filter = deskFilter'
  BY DEF StartDeskLoad
<1>3. LoadsShaped'
  BY <1>1 DEF DeskIInv, LoadsShaped
<1>4. ReadsAnswer'
  BY <1>1 DEF DeskIInv, ReadsAnswer
<1>5. LoadsForChoice'
  <2> SUFFICES ASSUME ~deskRaced', NEW k \in deskLoads'
               PROVE  k.tab = deskTab' /\ k.filter = deskFilter' /\ ~k.read
    BY DEF LoadsForChoice
  <2> QED BY <1>1, <1>2
<1>6. ListsTrue'
  BY <1>1 DEF ListsTrue, DeskAtRest
<1> QED BY <1>3, <1>4, <1>5, <1>6

LEMMA ChoicesKeepDesk ==
    ASSUME DeskIInv, SwitchTab \/ SetFilter \/ DeskRetry
    PROVE  DeskIInv'
<1>1. PICK tab, filter : /\ tab \in Tabs /\ deskTab' = tab
                         /\ StartDeskLoad(tab, filter)
                         /\ UNCHANGED <<deskReport, deskMine, deskCalls, deskRows>>
  <2>1. ASSUME NEW tab \in Tabs, NEW filter, Choose(tab, filter)
        PROVE  /\ deskTab' = tab /\ StartDeskLoad(tab, filter)
               /\ UNCHANGED <<deskReport, deskMine, deskCalls, deskRows>>
    BY <2>1 DEF Choose, Reload, deskServer, deskLists
  <2>2. CASE SwitchTab
    BY <2>1, <2>2 DEF SwitchTab, Tabs
  <2>3. CASE SetFilter
    BY <2>1, <2>3 DEF SetFilter, DeskIInv
  <2>4. CASE DeskRetry
    BY <2>4 DEF DeskRetry, DeskIInv, deskServer, deskLists
  <2> QED BY <2>2, <2>3, <2>4
<1>2. ReportsShaped' /\ DeskCallsShaped' /\ VersionsReached'
  BY <1>1, RowsUntouched DEF DeskIInv, ReportsShaped
<1> QED BY <1>1, <1>2, StartKeeps DEF DeskIInv

LEMMA ClicksKeepDesk ==
    ASSUME DeskIInv, Review \/ ChangeStay
    PROVE  DeskIInv'
<1> DEFINE Clicked(c) ==
           /\ deskCalls' = deskCalls \cup {c}
           /\ DOMAIN c = {"kind", "of", "status", "response", "seen", "tab", "filter", "applied", "version"}
           /\ c.tab = deskTab /\ ~c.applied
           /\ c.kind = "review" => c.of \in DeskReports /\ c.status \in DeskVerdicts
           /\ UNCHANGED deskListVars /\ UNCHANGED <<deskReport, deskMine>>
<1>0. ASSUME NEW kind, NEW of, NEW status, NEW response, NEW seen,
             Click(kind, of, status, response, seen),
             kind = "review" => of \in DeskReports /\ status \in DeskVerdicts
      PROVE  \E c : Clicked(c)
  <2>1. PICK c : c = [kind |-> kind, of |-> of, status |-> status, response |-> response, seen |-> seen,
                      tab |-> deskTab, filter |-> deskFilter, applied |-> FALSE, version |-> 0]
    OBVIOUS
  <2>2. deskCalls' = deskCalls \cup {c} /\ UNCHANGED deskListVars /\ UNCHANGED <<deskReport, deskMine>>
    BY <1>0, <2>1 DEF Click, deskListVars, deskServer
  <2>3. /\ DOMAIN c = {"kind", "of", "status", "response", "seen", "tab", "filter", "applied", "version"}
        /\ c.tab = deskTab /\ ~c.applied
        /\ c.kind = "review" => c.of \in DeskReports /\ c.status \in DeskVerdicts
    BY <1>0, <2>1
  <2> QED BY <2>2, <2>3
<1>1. PICK c : Clicked(c)
  <2>1. CASE Review
    <3>1. PICK r \in DOMAIN deskRows, status \in DeskVerdicts :
             \E response \in DeskTexts \cup {NoText, deskRows[r].response} :
                Click("review", r, status, response, deskRows[r])
      BY <2>1 DEF Review
    <3>2. r \in DeskReports
      BY DEF DeskIInv, ReportsShaped
    <3>3. PICK response : Click("review", r, status, response, deskRows[r])
      BY <3>1
    <3>4. PICK seen : seen = deskRows[r]
      OBVIOUS
    <3> HIDE DEF Clicked
    <3> QED BY <1>0, <3>2, <3>3, <3>4
  <2>2. CASE ChangeStay
    <3>1. PICK s \in DOMAIN deskStayRows, status \in {"cancelled", "expired", "pending"} :
             Click(IF status = "pending" THEN "ticket" ELSE "status", s, status, NoText, NoText)
      BY <2>2 DEF ChangeStay
    <3>2. PICK kind : kind = (IF status = "pending" THEN "ticket" ELSE "status")
      OBVIOUS
    <3>3. kind # "review" /\ Click(kind, s, status, NoText, NoText)
      BY <3>1, <3>2
    <3> HIDE DEF Clicked
    <3> QED BY <1>0, <3>3
  <2> QED BY <2>1, <2>2
<1>2. DeskCallsShaped'
  BY <1>1 DEF DeskIInv, DeskCallsShaped
<1>3. VersionsReached'
  BY <1>1 DEF DeskIInv, VersionsReached
<1> QED BY <1>1, <1>2, <1>3, ListsUntouched DEF DeskIInv, ReportsShaped

(* A call that is over: answered, it starts the load of its click.         *)
LEMMA CallEndsKeep ==
    ASSUME DeskIInv, NEW c \in deskCalls, DeskAnswered(c) \/ DeskCallFails(c)
    PROVE  DeskIInv'
<1>1. CASE DeskAnswered(c)
  <2>1. /\ c.applied /\ deskCalls' \subseteq deskCalls /\ StartDeskLoad(c.tab, c.filter)
        /\ deskMine' = IF c.kind = "review" THEN [deskMine EXCEPT ![c.of] = c.version] ELSE deskMine
        /\ UNCHANGED <<deskReport, deskTab, deskRows>>
    BY <1>1 DEF DeskAnswered, AfterCall, deskServer, deskLists
  <2>2. c.tab \in Tabs /\ (c.kind = "review" =>
           c.of \in DeskReports /\ c.version \in Nat /\ c.version <= deskReport[c.of].version)
    BY <2>1 DEF DeskIInv, DeskCallsShaped, VersionsReached
  <2>3. deskMine' \in [DeskReports -> Nat] /\ \A r \in DeskReports : deskMine'[r] <= deskReport[r].version
    BY <2>1, <2>2 DEF DeskIInv, ReportsShaped, VersionsReached
  <2>4. ReportsShaped' /\ DeskCallsShaped' /\ VersionsReached'
    BY <2>1, <2>3 DEF DeskIInv, ReportsShaped, DeskCallsShaped, VersionsReached
  <2> QED BY <2>1, <2>2, <2>4, StartKeeps DEF DeskIInv
<1>2. CASE DeskCallFails(c)
  <2>1. /\ deskCalls' \subseteq deskCalls /\ deskError' = TRUE
        /\ UNCHANGED <<deskReport, deskMine, deskTab, deskFilter, deskRows, deskStayRows, deskLoads, deskRaced>>
    BY <1>2 DEF DeskCallFails, deskServer, deskLists
  <2>2. ReportsShaped' /\ DeskCallsShaped' /\ VersionsReached'
    BY <2>1, RowsUntouched DEF DeskIInv, ReportsShaped
  <2>3. LoadsShaped' /\ ReadsAnswer' /\ LoadsForChoice'
    BY <2>1 DEF DeskIInv, LoadsShaped, ReadsAnswer, LoadsForChoice, Seen
  <2>4. ListsTrue'
    BY <2>1 DEF ListsTrue, DeskAtRest
  <2> QED BY <2>1, <2>2, <2>3, <2>4 DEF DeskIInv
<1> QED BY <1>1, <1>2

LEMMA DeskIInvHolds == WebSpec => []DeskIInv
<1>1. WebInit => DeskIInv
  <2> SUFFICES ASSUME WebInit PROVE DeskIInv
    OBVIOUS
  <2>1. DeskInit
    BY DEF WebInit
  <2>2. DOMAIN << >> = {}
    OBVIOUS
  <2>3. ReportsShaped
    BY <2>1, <2>2 DEF DeskInit, ReportsShaped
  <2>4. LoadsShaped /\ ReadsAnswer /\ LoadsForChoice
    BY <2>1, <2>2 DEF DeskInit, LoadsShaped, ReadsAnswer, LoadsForChoice, Tabs
  <2>5. DeskCallsShaped /\ VersionsReached
    BY <2>1 DEF DeskInit, DeskCallsShaped, VersionsReached
  <2>6. ListsTrue
    BY <2>1 DEF DeskInit, ListsTrue, DeskAtRest
  <2> QED BY <2>1, <2>3, <2>4, <2>5, <2>6 DEF DeskInit, DeskIInv, Tabs
<1>2. DeskIInv /\ [WebNext]_webVars => DeskIInv'
  <2> SUFFICES ASSUME DeskIInv, [DeskNext]_deskVars PROVE DeskIInv'
    BY PagesStep
  <2>1. CASE UNCHANGED deskVars
    <3>1. UNCHANGED deskListVars /\ UNCHANGED <<deskReport, deskMine, deskCalls>>
      BY <2>1 DEF deskVars, deskListVars, deskServer
    <3> QED BY <3>1, ListsUntouched, RowsUntouched DEF DeskIInv
  <2> QED BY <2>1, ServerStepsKeepDesk, LoadsReadKeep, LoadsShowKeep, LoadsFailKeep, ChoicesKeepDesk,
             ClicksKeepDesk, ApplyingKeepsDesk, CallEndsKeep DEF DeskNext
<1> QED BY <1>1, <1>2, PTL DEF WebSpec

(* The list at rest was read for the tab and the filter on show, for any   *)
(* number of colleagues, calls and loads.                                  *)
THEOREM ListAnswersFilter == WebSpec => []DeskListAnswersFilter
<1>1. DeskIInv => DeskListAnswersFilter
  BY DEF DeskIInv, ListsTrue, DeskListAnswersFilter, Answers
<1> QED BY <1>1, DeskIInvHolds, PTL

(* At rest a supporter sees his own answered reviews, or later states of   *)
(* their reports, or a full page of newer reports.                         *)
THEOREM OwnReviewsSeen == WebSpec => []DeskOwnReviewSeen
<1>1. DeskIInv => DeskOwnReviewSeen
  BY DEF DeskIInv, ListsTrue, DeskOwnReviewSeen, Seen
<1> QED BY <1>1, DeskIInvHolds, PTL

(* What the page holds of a report is not ahead of its row, and of the     *)
(* same text while the row has not changed.                                *)
NotAhead(row, report) ==
    /\ row.version \in Nat /\ row.version <= report.version
    /\ row.version = report.version => row.response = report.response

RowsNotAhead(rows) == \A r \in DOMAIN rows : r \in DeskReports /\ NotAhead(rows[r], deskReport[r])
RowsStayNotAhead(rows) == \A r \in DOMAIN rows : r \in DeskReports /\ NotAhead(rows[r], deskReport'[r])

PageNotAhead ==
    /\ RowsNotAhead(deskRows)
    /\ \A l \in deskLoads : l.tab = "reports" => RowsNotAhead(l.rows)
    /\ \A c \in deskCalls : c.kind = "review" => NotAhead(c.seen, deskReport[c.of])

(* Whatever happens to the reports, what was not ahead is not.             *)
LEMMA NotAheadKept ==
    ASSUME DeskIInv, [DeskNext]_deskVars
    PROVE  /\ \A r \in DeskReports : \A row :
                  NotAhead(row, deskReport[r]) => NotAhead(row, deskReport'[r])
           /\ \A rows : RowsNotAhead(rows) => RowsStayNotAhead(rows)
<1>1. \A r \in DeskReports : Grows(deskReport[r], deskReport'[r])
  BY ReportSteps, ReportsGrow DEF DeskIInv
<1>2. \A r \in DeskReports : deskReport[r].version \in Nat
  BY DEF DeskIInv, ReportsShaped
<1>3. \A r \in DeskReports : \A row :
          NotAhead(row, deskReport[r]) => NotAhead(row, deskReport'[r])
  BY <1>1, <1>2 DEF NotAhead, Grows
<1> QED BY <1>3 DEF RowsNotAhead, RowsStayNotAhead

LEMMA ListIsNotAhead ==
    ASSUME DeskIInv, NEW filter
    PROVE  RowsNotAhead(ReportList(filter))
<1>1. \A r \in DOMAIN ReportList(filter) : r \in DeskReports /\ ReportList(filter)[r] = deskReport[r]
  BY DEF ReportList, Newest
<1>2. \A r \in DeskReports : NotAhead(deskReport[r], deskReport[r])
  BY DEF NotAhead, DeskIInv, ReportsShaped
<1> QED BY <1>1, <1>2 DEF RowsNotAhead

LEMMA RowsNotAheadKept ==
    ASSUME DeskIInv, PageNotAhead, [DeskNext]_deskVars
    PROVE  /\ RowsStayNotAhead(deskRows')
           /\ \A l \in deskLoads' : l.tab = "reports" => RowsStayNotAhead(l.rows)
<1> DEFINE Fresh(l) == l.tab = "reports" => RowsStayNotAhead(l.rows)
<1>1. RowsStayNotAhead(deskRows) /\ \A l \in deskLoads : Fresh(l)
  BY NotAheadKept DEF PageNotAhead
<1> SUFFICES /\ deskRows' = deskRows \/ \E l \in deskLoads : l.tab = "reports" /\ deskRows' = l.rows
             /\ \A l \in deskLoads' : Fresh(l)
  BY <1>1
<1>3. ASSUME NEW l \in deskLoads, DeskReads(l)
      PROVE  deskRows' = deskRows /\ \A k \in deskLoads' : Fresh(k)
  <2>1. PICK rows : rows = IF l.tab = "reports" THEN ReportList(l.filter) ELSE StayList(l.filter)
    OBVIOUS
  <2>2. PICK m : m = [l EXCEPT !.read = TRUE, !.rows = rows]
    OBVIOUS
  <2>3. deskRows' = deskRows /\ deskLoads' = (deskLoads \ {l}) \cup {m}
    BY <1>3, <2>1, <2>2 DEF DeskReads, deskLists
  <2>4. DOMAIN l = {"id", "tab", "filter", "read", "rows"}
    BY DEF DeskIInv, LoadsShaped
  <2>5. m.tab = l.tab /\ m.rows = rows
    BY <2>2, <2>4
  <2>6. l.tab = "reports" => RowsStayNotAhead(rows)
    BY <2>1, ListIsNotAhead, NotAheadKept
  <2> QED BY <1>1, <2>3, <2>5, <2>6
<1>4. ASSUME NEW l \in deskLoads, DeskShows(l) \/ DeskLoadFails(l)
      PROVE  /\ deskRows' = deskRows \/ (l.tab = "reports" /\ deskRows' = l.rows)
             /\ deskLoads' \subseteq deskLoads
  BY <1>4 DEF DeskShows, DeskLoadFails, deskLists
<1>5. ASSUME NEW tab, NEW filter, StartDeskLoad(tab, filter)
      PROVE  \A l \in deskLoads' : Fresh(l)
  <2>1. PICK m : m = [id |-> deskStarted, tab |-> tab, filter |-> filter, read |-> FALSE, rows |-> << >>]
    OBVIOUS
  <2>2. deskLoads' = deskLoads \cup {m}
    BY <1>5, <2>1 DEF StartDeskLoad
  <2>3. m.rows = << >> /\ DOMAIN << >> = {}
    BY <2>1
  <2> QED BY <1>1, <2>2, <2>3 DEF RowsStayNotAhead
<1>6. CASE \/ UNCHANGED deskVars \/ ReportFiled \/ ColleagueReviews \/ StayMoves \/ Review \/ ChangeStay
           \/ \E c \in deskCalls : DeskApplies(c) \/ DeskCallFails(c)
  <2>1. deskRows' = deskRows /\ deskLoads' = deskLoads
    BY <1>6 DEF deskVars, deskLists, deskLoadVars, ReportFiled, ColleagueReviews, StayMoves, Review,
                ChangeStay, Click, DeskApplies, DeskCallFails
  <2> QED BY <1>1, <2>1
<1>7. CASE SwitchTab \/ SetFilter \/ DeskRetry \/ \E c \in deskCalls : DeskAnswered(c)
  <2>1. deskRows' = deskRows
    BY <1>7 DEF SwitchTab, SetFilter, Choose, DeskRetry, DeskAnswered, deskLists
  <2>2. (\E tab, filter : StartDeskLoad(tab, filter)) \/ deskLoads' = deskLoads
    BY <1>7 DEF SwitchTab, SetFilter, Choose, DeskRetry, DeskAnswered, AfterCall, deskLoadVars
  <2> QED BY <1>1, <1>5, <2>1, <2>2
<1> HIDE DEF Fresh
<1> QED BY <1>1, <1>3, <1>4, <1>6, <1>7 DEF DeskNext

LEMMA CallsNotAheadKept ==
    ASSUME DeskIInv, PageNotAhead, [DeskNext]_deskVars
    PROVE  \A c \in deskCalls' : c.kind = "review" => NotAhead(c.seen, deskReport'[c.of])
<1> DEFINE Fresh(c) == c.kind = "review" => NotAhead(c.seen, deskReport'[c.of])
<1> SUFFICES \A d \in deskCalls' : Fresh(d)
  OBVIOUS
<1>1. \A c \in deskCalls : Fresh(c)
  BY NotAheadKept DEF PageNotAhead, DeskIInv, DeskCallsShaped
<1>2. ASSUME NEW c \in deskCalls, DeskApplies(c)
      PROVE  \A d \in deskCalls' : Fresh(d)
  <2>1. PICK done : done = [c EXCEPT !.applied = TRUE]
    OBVIOUS
  <2>2. PICK told : told = [c EXCEPT !.applied = TRUE, !.version = deskReport'[c.of].version]
    OBVIOUS
  <2>3. DOMAIN c = {"kind", "of", "status", "response", "seen", "tab", "filter", "applied", "version"}
    BY DEF DeskIInv, DeskCallsShaped
  <2>4. /\ done.kind = c.kind /\ done.of = c.of /\ done.seen = c.seen
        /\ told.kind = c.kind /\ told.of = c.of /\ told.seen = c.seen
    BY <2>1, <2>2, <2>3
  <2>5. deskCalls' = (deskCalls \ {c}) \cup {told} \/ deskCalls' = (deskCalls \ {c}) \cup {done}
    BY <1>2, <2>1, <2>2 DEF DeskApplies
  <2>6. Fresh(done) /\ Fresh(told)
    BY <1>1, <2>4
  <2> QED BY <1>1, <2>5, <2>6
<1>3. ASSUME NEW kind, NEW of, NEW status, NEW response, NEW seen, Click(kind, of, status, response, seen),
             kind = "review" => NotAhead(seen, deskReport'[of])
      PROVE  \A d \in deskCalls' : Fresh(d)
  <2>1. PICK d : d = [kind |-> kind, of |-> of, status |-> status, response |-> response, seen |-> seen,
                      tab |-> deskTab, filter |-> deskFilter, applied |-> FALSE, version |-> 0]
    OBVIOUS
  <2>2. deskCalls' = deskCalls \cup {d}
    BY <1>3, <2>1 DEF Click
  <2>3. d.kind = kind /\ d.of = of /\ d.seen = seen
    BY <2>1
  <2> QED BY <1>1, <1>3, <2>2, <2>3
<1>4. CASE Review
  <2>1. PICK r \in DOMAIN deskRows, status \in DeskVerdicts :
           \E response \in DeskTexts \cup {NoText, deskRows[r].response} :
              Click("review", r, status, response, deskRows[r])
    BY <1>4 DEF Review
  <2>2. PICK response : Click("review", r, status, response, deskRows[r])
    BY <2>1
  <2>3. NotAhead(deskRows[r], deskReport'[r])
    BY NotAheadKept DEF PageNotAhead, RowsStayNotAhead
  <2>4. PICK seen : seen = deskRows[r]
    OBVIOUS
  <2> HIDE DEF Fresh
  <2> QED BY <1>3, <2>2, <2>3, <2>4
<1>5. CASE ChangeStay
  <2>1. PICK s \in DOMAIN deskStayRows, status \in {"cancelled", "expired", "pending"} :
           Click(IF status = "pending" THEN "ticket" ELSE "status", s, status, NoText, NoText)
    BY <1>5 DEF ChangeStay
  <2>2. PICK kind : kind = (IF status = "pending" THEN "ticket" ELSE "status")
    OBVIOUS
  <2>3. kind # "review" /\ Click(kind, s, status, NoText, NoText)
    BY <2>1, <2>2
  <2> QED BY <1>3, <2>3
<1>6. CASE \/ UNCHANGED deskVars \/ ReportFiled \/ ColleagueReviews \/ StayMoves
           \/ SwitchTab \/ SetFilter \/ DeskRetry
           \/ \E l \in deskLoads : DeskReads(l) \/ DeskShows(l) \/ DeskLoadFails(l)
           \/ \E c \in deskCalls : DeskAnswered(c) \/ DeskCallFails(c)
  <2>1. deskCalls' \subseteq deskCalls
    BY <1>6 DEF deskVars, ReportFiled, ColleagueReviews, StayMoves, SwitchTab, SetFilter, Choose, DeskRetry,
                DeskReads, DeskShows, DeskLoadFails, DeskAnswered, DeskCallFails
  <2> QED BY <1>1, <2>1
<1> HIDE DEF Fresh
<1> QED BY <1>2, <1>4, <1>5, <1>6 DEF DeskNext

LEMMA PageNotAheadHolds == WebSpec => []PageNotAhead
<1>1. WebInit => PageNotAhead
  <2> SUFFICES ASSUME DeskInit PROVE PageNotAhead
    BY DEF WebInit
  <2>1. DOMAIN << >> = {}
    OBVIOUS
  <2> QED BY <2>1 DEF DeskInit, PageNotAhead, RowsNotAhead
<1>2. DeskIInv /\ PageNotAhead /\ [WebNext]_webVars => PageNotAhead'
  <2> SUFFICES ASSUME DeskIInv, PageNotAhead, [DeskNext]_deskVars PROVE PageNotAhead'
    BY PagesStep
  <2> QED BY RowsNotAheadKept, CallsNotAheadKept DEF PageNotAhead, RowsNotAhead, RowsStayNotAhead
<1> QED BY <1>1, <1>2, DeskIInvHolds, PTL DEF WebSpec

(* A response is emptied only by reopening its report; and a review from   *)
(* the page that replaces another text replaces one that its supporter had *)
(* on the page at the click, or one written after the list was read: only  *)
(* the latter can be lost unseen.                                          *)
THEOREM ResponsesKept == WebSpec => DeskResponseKept
<1> DEFINE Kept(r) ==
       LET old == deskReport[r]  new == deskReport'[r]
           sent == {c \in deskCalls \ deskCalls' : c.kind = "review" /\ c.of = r}
       IN  old.response # NoText /\ new.response # old.response /\ new.status # "pending" =>
               /\ new.response # NoText
               /\ \A c \in sent : c.seen.response = old.response \/ c.seen.version < old.version
<1>1. DeskIInv /\ PageNotAhead /\ [WebNext]_webVars => [\A r \in DeskReports : Kept(r)]_deskVars
  <2> SUFFICES ASSUME DeskIInv, PageNotAhead, [DeskNext]_deskVars, NEW r \in DeskReports,
                      deskReport[r].response # NoText, deskReport'[r].response # deskReport[r].response,
                      deskReport'[r].status # "pending"
               PROVE  /\ deskReport'[r].response # NoText
                      /\ \A c \in deskCalls : c.kind = "review" /\ c.of = r =>
                             c.seen.response = deskReport[r].response \/ c.seen.version < deskReport[r].version
    BY PagesStep
  <2>1. UNCHANGED deskReport \/ Files \/ Reviews
    BY ReportSteps
  <2>2. ~UNCHANGED deskReport
    OBVIOUS
  <2>3. ASSUME Files PROVE FALSE
    <3>1. PICK q \in DeskReports : deskReport' = [deskReport EXCEPT ![q].status = "pending"]
      BY <2>3 DEF Files
    <3>2. deskReport'[r] = IF r = q THEN [deskReport[r] EXCEPT !.status = "pending"] ELSE deskReport[r]
      BY <3>1 DEF DeskIInv, ReportsShaped
    <3>3. q = r /\ deskReport'[r].status = "pending"
      BY <3>2 DEF DeskIInv, ReportsShaped
    <3> QED BY <3>3
  <2>4. PICK q \in DeskReports : \E status, response : UpdateReport(q, status, response)
    BY <2>1, <2>2, <2>3 DEF Reviews
  <2>5. PICK status, response : UpdateReport(q, status, response)
    BY <2>4
  <2>6. deskReport'[r] = IF r = q THEN Updated(deskReport[r], status, response) ELSE deskReport[r]
    BY <2>5 DEF UpdateReport, DeskIInv, ReportsShaped
  <2>7. deskReport'[r].response # NoText
    BY <2>6 DEF Updated, ResponseAfter
  <2>8. ASSUME NEW c \in deskCalls, c.kind = "review", c.of = r
        PROVE  c.seen.response = deskReport[r].response \/ c.seen.version < deskReport[r].version
    <3>1. NotAhead(c.seen, deskReport[r]) /\ deskReport[r].version \in Nat
      BY <2>8 DEF PageNotAhead, DeskIInv, ReportsShaped
    <3> QED BY <3>1 DEF NotAhead
  <2> QED BY <2>7, <2>8
<1> QED BY <1>1, DeskIInvHolds, PageNotAheadHolds, PTL DEF WebSpec, DeskResponseKept

-----------------------------------------------------------------------------
(* Checkout.  Each property is about what a tab was told, so the inductive *)
(* invariant follows the answer on its way: from the rows of the           *)
(* reservation to the call, from the call to what the tab remembers.       *)

(* A call is a record; a preview is the one of the cancel in progress, and *)
(* the cancel itself is sent only after the dialog.                        *)
CallsShaped ==
    /\ coCancelSent \in Nat
    /\ \A c \in coCalls :
         /\ DOMAIN c = {"op", "n", "shown", "state", "amount"}
         /\ c.op = "preview" => c = Call("preview", coCancelSent, NoAmount) /\ cardStep = "asking"
         /\ c.op = "cancel" => /\ c.n \in Nat /\ c.n <= coCancelSent
                               /\ cardStep \in {"asking", "confirm"} => c.n < coCancelSent

(* The three tables agree about the reservation.                           *)
MoneyAgrees ==
    \/ coStatus \in {"pending", "expired"} /\ coCharges = 0 /\ coRefunds = <<>>
    \/ coStatus = "paid" /\ coCharges = 1 /\ coRefunds = <<>>
    \/ coStatus = "cancelled" /\ coCharges = 0 /\ coRefunds = <<>>
    \/ coStatus = "cancelled" /\ coCharges = 1 /\ coRefunds = <<coRefunds[1]>>

(* An amount that was told is the one that was refunded.                   *)
ToldTruly(amount) ==
    /\ coStatus = "cancelled"
    /\ amount # NoAmount => coCharges = 1 /\ coRefunds[1].amount = amount

AnswersTrue ==
    \A c \in coCalls :
        c.state = "ok" =>
            /\ c.op = "pay" => coCharges = 1
            /\ c.op = "cancel" => ToldTruly(c.amount)

TabsTrue ==
    /\ payShown => coCharges = 1
    /\ cardStep = "refreshing" => ToldTruly(cardShown)
    /\ cardNotice # "none" =>
         /\ cardStep = "idle" /\ ToldTruly(cardShown)
         /\ cardNotice = "refunded" => cardShown # NoAmount

CheckoutIInv == CallsShaped /\ MoneyAgrees /\ AnswersTrue /\ TabsTrue

(* Nothing the server does makes an answer or a tab untrue: payments and   *)
(* refunds are never taken back.                                           *)
LEMMA ServerKeeps ==
    ASSUME CheckoutIInv, NEW c \in coCalls, CheckoutServes(c)
    PROVE  CheckoutIInv'
<1> USE DEF CheckoutIInv
<1>1. c.op \in {"pay", "cancel"} /\ c.state = "sent"
  BY DEF CheckoutServes
<1>2. UNCHANGED <<coHours, coCancelSent, cardStep, cardShown, cardNotice, payShown>>
  BY DEF CheckoutServes, coClock, coPayTab, coCardTab
<1>3. PICK amount : /\ AnswerCall(c, amount)
                    /\ \/ c.op = "pay" /\ ServerPays(c)
                       \/ c.op = "cancel" /\ ServerCancels(c)
                            /\ amount = (IF coCharges > 0 THEN RefundAt(coHours) ELSE NoAmount)
                       \/ c.op = "cancel" /\ ServerCancelled(c) /\ amount = NoAmount
  BY DEF CheckoutServes, ServerPays, ServerCancels, ServerCancelled
<1>4. MoneyAgrees' /\ (\A a : ToldTruly(a) => ToldTruly(a)') /\ (coCharges = 1 => coCharges' = 1)
      /\ (c.op = "pay" => coCharges' = 1) /\ (c.op = "cancel" => ToldTruly(amount)')
  <2>1. CASE c.op = "pay" /\ ServerPays(c)
    BY <2>1 DEF ServerPays, PayAllowed, MoneyAgrees, ToldTruly
  <2>2. CASE c.op = "cancel" /\ ServerCancels(c)
               /\ amount = (IF coCharges > 0 THEN RefundAt(coHours) ELSE NoAmount)
    <3>1. coStatus' = "cancelled" /\ coCharges' = coCharges /\ coStatus \in {"pending", "paid"}
      BY <2>2 DEF ServerCancels, CancelAllowed
    <3>2. CASE coCharges = 0
      BY <3>1, <3>2, <2>2 DEF ServerCancels, MoneyAgrees, ToldTruly
    <3>3. CASE coCharges = 1 /\ coRefunds = <<>>
      <4>1. coRefunds' = Append(<<>>, [amount |-> RefundAt(coHours), shown |-> c.shown])
        BY <3>3, <2>2 DEF ServerCancels
      <4>2. coRefunds' = <<[amount |-> RefundAt(coHours), shown |-> c.shown]>>
        BY <4>1
      <4>3. coRefunds'[1].amount = RefundAt(coHours) /\ coRefunds' = <<coRefunds'[1]>>
        BY <4>2
      <4> QED BY <4>3, <3>1, <3>3, <2>2 DEF MoneyAgrees, ToldTruly
    <3> QED BY <3>1, <3>2, <3>3 DEF MoneyAgrees
  <2>3. CASE c.op = "cancel" /\ ServerCancelled(c) /\ amount = NoAmount
    BY <2>3 DEF ServerCancelled, coServer, MoneyAgrees, ToldTruly
  <2> QED BY <1>3, <2>1, <2>2, <2>3
<1>5. \A d \in coCalls' : d \in coCalls \/ d = [c EXCEPT !.state = "ok", !.amount = amount]
  BY <1>3 DEF AnswerCall
<1>6. CallsShaped'
  <2>1. ASSUME NEW d \in coCalls PROVE
          /\ DOMAIN d = {"op", "n", "shown", "state", "amount"}
          /\ d.op = "preview" => d = Call("preview", coCancelSent, NoAmount) /\ cardStep = "asking"
          /\ d.op = "cancel" => /\ d.n \in Nat /\ d.n <= coCancelSent
                                /\ cardStep \in {"asking", "confirm"} => d.n < coCancelSent
    BY DEF CallsShaped
  <2>2. ASSUME NEW d, d = [c EXCEPT !.state = "ok", !.amount = amount]
        PROVE  /\ DOMAIN d = DOMAIN c /\ d.op = c.op /\ d.n = c.n
               /\ d.state = "ok" /\ d.amount = amount
    BY <2>1, <2>2
  <2>3. coCancelSent' \in Nat
    BY <1>2 DEF CallsShaped
  <2> QED BY <1>1, <1>2, <1>5, <2>1, <2>2, <2>3 DEF CallsShaped
<1>7. AnswersTrue'
  BY <1>1, <1>4, <1>5 DEF AnswersTrue, CallsShaped
<1>8. TabsTrue'
  BY <1>2, <1>4 DEF TabsTrue
<1> QED BY <1>4, <1>6, <1>7, <1>8

(* A click on a button of either tab.                                      *)
LEMMA ClicksKeep ==
    ASSUME CheckoutIInv,
           PayClick \/ PayReopen \/ CardRefresh \/ CancelClick \/ CancelDeclined \/ CancelConfirmed
    PROVE  CheckoutIInv'
<1> USE DEF CheckoutIInv
<1>0. UNCHANGED coServer
  BY DEF PayClick, PayReopen, CardRefresh, CancelClick, CancelDeclined, CancelConfirmed
<1>1. MoneyAgrees' /\ \A a : ToldTruly(a)' <=> ToldTruly(a)
  BY <1>0 DEF coServer, MoneyAgrees, ToldTruly
<1>2. CASE PayClick
  <2>1. UNCHANGED <<coCancelSent, cardStep, cardShown, cardNotice, payShown>>
        /\ coCalls' = coCalls \cup {Call("pay", coPaySent', NoAmount)}
    BY <1>2 DEF PayClick, coCardTab, Send
  <2>2. CallsShaped'
    BY <2>1 DEF CallsShaped, Call
  <2>3. AnswersTrue'
    BY <1>0, <1>1, <2>1 DEF AnswersTrue, Call, coServer
  <2>4. TabsTrue'
    BY <1>0, <1>1, <2>1 DEF TabsTrue, coServer
  <2> QED BY <1>1, <2>2, <2>3, <2>4
<1>3. CASE PayReopen
  <2>1. UNCHANGED <<coCancelSent, cardStep, cardShown, cardNotice>> /\ payShown' = FALSE
        /\ coCalls' \subseteq coCalls
    BY <1>3 DEF PayReopen, coCardTab
  <2> QED BY <1>0, <1>1, <2>1 DEF CallsShaped, AnswersTrue, TabsTrue, coServer
<1>4. CASE CardRefresh
  <2>1. UNCHANGED <<coCancelSent, cardStep, cardShown, cardNotice, payShown>>
        /\ coCalls' = coCalls \cup {Call("list", 0, NoAmount)}
    BY <1>4 DEF CardRefresh, coPayTab, Send
  <2>2. CallsShaped'
    BY <2>1 DEF CallsShaped, Call
  <2>3. AnswersTrue'
    BY <1>0, <1>1, <2>1 DEF AnswersTrue, Call, coServer
  <2>4. TabsTrue'
    BY <1>0, <1>1, <2>1 DEF TabsTrue, coServer
  <2> QED BY <1>1, <2>2, <2>3, <2>4
<1>5. CASE CancelClick
  <2>1. /\ cardStep = "idle" /\ cardStep' = "asking" /\ cardNotice' = "none"
        /\ coCancelSent' = coCancelSent + 1 /\ UNCHANGED payShown
        /\ coCalls' = coCalls \cup {Call("preview", coCancelSent', NoAmount)}
    BY <1>5 DEF CancelClick, coPayTab, Send
  <2>2. CallsShaped'
    BY <2>1 DEF CallsShaped, Call
  <2>3. AnswersTrue'
    BY <1>0, <1>1, <2>1 DEF AnswersTrue, Call, coServer
  <2>4. TabsTrue'
    BY <1>0, <1>1, <2>1 DEF TabsTrue, coServer
  <2> QED BY <1>1, <2>2, <2>3, <2>4
<1>6. CASE CancelDeclined
  <2>1. /\ cardStep = "confirm" /\ cardStep' = "idle"
        /\ UNCHANGED <<coCancelSent, coCalls, cardShown, cardNotice, payShown>>
    BY <1>6 DEF CancelDeclined, coPayTab
  <2>2. CallsShaped'
    BY <2>1 DEF CallsShaped
  <2> QED BY <1>0, <1>1, <2>1, <2>2 DEF AnswersTrue, TabsTrue, coServer
<1>7. CASE CancelConfirmed
  <2>1. /\ cardStep = "confirm" /\ cardStep' = "cancelling"
        /\ coCalls' = coCalls \cup {Call("cancel", coCancelSent, cardShown)}
        /\ UNCHANGED <<coCancelSent, cardShown, cardNotice, payShown>>
    BY <1>7 DEF CancelConfirmed, coPayTab, Send
  <2>2. CallsShaped'
    BY <2>1 DEF CallsShaped, Call
  <2>3. AnswersTrue'
    BY <1>0, <1>1, <2>1 DEF AnswersTrue, Call, coServer
  <2>4. TabsTrue'
    BY <1>0, <1>1, <2>1 DEF TabsTrue, coServer
  <2> QED BY <1>1, <2>2, <2>3, <2>4
<1> QED BY <1>2, <1>3, <1>4, <1>5, <1>6, <1>7

(* An answer, or the lack of one, reaches a tab.                           *)
LEMMA TabsKeep ==
    ASSUME CheckoutIInv, PaySteps \/ CardLoads \/ CancelSteps
    PROVE  CheckoutIInv'
<1> USE DEF CheckoutIInv
<1>0. UNCHANGED coServer /\ UNCHANGED coCancelSent
  BY DEF PaySteps, PayAnswered, PayFails, CardLoads, CardLoaded, CancelSteps, CancelAsked,
         CancelAnswered, CancelNoticed, CancelFails, coCardTab
<1>1. MoneyAgrees' /\ \A a : ToldTruly(a)' <=> ToldTruly(a)
  BY <1>0 DEF coServer, MoneyAgrees, ToldTruly
<1>2. ASSUME coCalls' \subseteq coCalls, UNCHANGED cardStep PROVE CallsShaped' /\ AnswersTrue'
  BY <1>0, <1>1, <1>2 DEF CallsShaped, AnswersTrue, coServer
<1>3. ASSUME NEW c \in coCalls, PayAnswered(c) \/ PayFails(c) PROVE CheckoutIInv'
  <2>1. coCalls' \subseteq coCalls /\ UNCHANGED <<cardStep, cardShown, cardNotice>>
    BY <1>3 DEF PayAnswered, PayFails, GiveUp, coCardTab
  <2>2. payShown' => payShown \/ coCharges = 1
    BY <1>3 DEF PayAnswered, PayFails, AnswersTrue
  <2> QED BY <1>0, <1>1, <1>2, <2>1, <2>2 DEF TabsTrue, coServer
<1>4. ASSUME NEW c \in coCalls, CardLoaded(c) PROVE CheckoutIInv'
  <2>1. coCalls' \subseteq coCalls /\ UNCHANGED <<payShown, cardStep, cardShown, cardNotice>>
    BY <1>4 DEF CardLoaded, coPayTab
  <2> QED BY <1>0, <1>1, <1>2, <2>1 DEF TabsTrue, coServer
<1>5. ASSUME NEW c \in coCalls, CancelAsked(c) PROVE CheckoutIInv'
  <2>1. c = Call("preview", coCancelSent, NoAmount) /\ cardStep = "asking" /\ cardNotice = "none"
    BY <1>5 DEF CancelAsked, CallsShaped, TabsTrue
  <2>2. coCalls' = coCalls \ {c} /\ cardStep' = "confirm" /\ UNCHANGED <<payShown, cardNotice>>
    BY <1>5 DEF CancelAsked, coPayTab
  <2>3. CallsShaped'
    BY <1>0, <2>1, <2>2 DEF CallsShaped
  <2> QED BY <1>0, <1>1, <2>1, <2>2, <2>3 DEF AnswersTrue, TabsTrue, coServer
<1>6. ASSUME NEW c \in coCalls, CancelAnswered(c) PROVE CheckoutIInv'
  <2>1. c.op = "cancel" /\ c.state = "ok" /\ cardStep = "cancelling"
    BY <1>6 DEF CancelAnswered, Awaited
  <2>2. /\ coCalls' = (coCalls \ {c}) \cup {Call("list", coCancelSent, NoAmount)}
        /\ cardStep' = "refreshing" /\ cardShown' = c.amount /\ UNCHANGED <<payShown, cardNotice>>
    BY <1>6 DEF CancelAnswered, coPayTab
  <2>3. CallsShaped'
    BY <1>0, <2>1, <2>2 DEF CallsShaped, Call
  <2>4. AnswersTrue'
    BY <1>0, <1>1, <2>2 DEF AnswersTrue, Call, coServer
  <2>5. TabsTrue'
    BY <1>0, <1>1, <2>1, <2>2 DEF AnswersTrue, TabsTrue, coServer
  <2> QED BY <1>1, <2>3, <2>4, <2>5
<1>7. CASE CancelNoticed
  <2>1. /\ cardStep = "refreshing" /\ cardStep' = "idle"
        /\ cardNotice' = IF cardShown = NoAmount THEN "cancelled" ELSE "refunded"
        /\ UNCHANGED <<coCalls, payShown, cardShown>>
    BY <1>7 DEF CancelNoticed, coPayTab
  <2>2. CallsShaped'
    BY <1>0, <2>1 DEF CallsShaped
  <2>3. TabsTrue'
    BY <1>0, <1>1, <2>1 DEF TabsTrue, ToldTruly, coServer
  <2> QED BY <1>0, <1>1, <2>1, <2>2, <2>3 DEF AnswersTrue, coServer
<1>8. CASE CancelFails
  <2>1. /\ cardStep' = "idle" /\ cardStep # "idle"
        /\ UNCHANGED <<payShown, cardShown, cardNotice>>
    BY <1>8 DEF CancelFails, StepAfterError, coPayTab
  <2>2. /\ coCalls' \subseteq coCalls
        /\ cardStep = "asking" => \A d \in coCalls' : d.op # "preview"
    <3>1. CASE cardStep = "asking"
      <4>1. PICK c \in coCalls : /\ c.op \in {"preview", "cancel"} /\ c.n = coCancelSent
                                 /\ IF c.op = "cancel" THEN GiveUp(c) ELSE coCalls' = coCalls \ {c}
        BY <1>8, <3>1 DEF CancelFails
      <4>2. c.op = "preview"
        BY <3>1, <4>1 DEF CallsShaped
      <4> QED BY <4>1, <4>2 DEF CallsShaped
    <3>2. CASE cardStep # "asking"
      BY <1>8, <3>2 DEF CancelFails, GiveUp
    <3> QED BY <3>1, <3>2
  <2>3. CallsShaped'
    BY <1>0, <2>1, <2>2 DEF CallsShaped
  <2>4. AnswersTrue'
    BY <1>0, <1>1, <2>2 DEF AnswersTrue, coServer
  <2>5. TabsTrue'
    BY <1>0, <1>1, <2>1 DEF TabsTrue, coServer
  <2> QED BY <1>1, <2>3, <2>4, <2>5
<1> QED BY <1>3, <1>4, <1>5, <1>6, <1>7, <1>8 DEF PaySteps, CardLoads, CancelSteps

LEMMA CheckoutIInvHolds == WebSpec => []CheckoutIInv
<1>1. WebInit => CheckoutIInv
  BY DEF WebInit, CheckoutInit, CheckoutIInv, CallsShaped, MoneyAgrees, AnswersTrue, TabsTrue, Call
<1>2. CheckoutIInv /\ [WebNext]_webVars => CheckoutIInv'
  <2> SUFFICES ASSUME CheckoutIInv, [CheckoutNext]_coVars PROVE CheckoutIInv'
    BY PagesStep
  <2>1. CASE UNCHANGED coVars
    BY <2>1 DEF coVars, coServer, coClock, coPayTab, coCardTab, CheckoutIInv, CallsShaped,
                MoneyAgrees, AnswersTrue, TabsTrue, ToldTruly
  <2>2. CASE \E c \in coCalls : CheckoutServes(c)
    BY <2>2, ServerKeeps
  <2>3. CASE CheckoutExpires
    <3>1. coStatus = "pending" /\ coStatus' = "expired"
          /\ UNCHANGED <<coCharges, coRefunds, coCalls, coPayTab, coCardTab>>
      BY <2>3 DEF CheckoutExpires
    <3> QED BY <3>1 DEF coPayTab, coCardTab, CheckoutIInv, CallsShaped, MoneyAgrees, AnswersTrue,
                        TabsTrue, ToldTruly
  <2>4. CASE CheckoutTime
    <3>1. UNCHANGED <<coServer, coCalls, coPayTab, coCardTab>>
      BY <2>4 DEF CheckoutTime
    <3> QED BY <3>1 DEF coServer, coPayTab, coCardTab, CheckoutIInv, CallsShaped, MoneyAgrees,
                        AnswersTrue, TabsTrue, ToldTruly
  <2> QED BY <2>1, <2>2, <2>3, <2>4, ClicksKeep, TabsKeep DEF CheckoutNext
<1> QED BY <1>1, <1>2, PTL DEF WebSpec

(* Whatever is retried, lost or late: one payment and one refund.         *)
THEOREM ChargedOnce == WebSpec => []CheckoutSettledOnce
<1>1. CheckoutIInv => CheckoutSettledOnce
  <2> SUFFICES ASSUME CheckoutIInv PROVE CheckoutSettledOnce
    OBVIOUS
  <2>1. Len(coRefunds) = (IF coStatus = "cancelled" THEN coCharges ELSE 0) /\ coCharges \in {0, 1}
    BY DEF CheckoutIInv, MoneyAgrees
  <2> QED BY <2>1 DEF CheckoutIInv, TabsTrue, ToldTruly, CheckoutSettledOnce
<1> QED BY <1>1, CheckoutIInvHolds, PTL

(* No tab tells of a payment, a cancellation or an amount that is not so.  *)
THEOREM NoticesTrue == WebSpec => []CheckoutNoticeTrue
<1>1. CheckoutIInv => CheckoutNoticeTrue
  <2> SUFFICES ASSUME CheckoutIInv PROVE CheckoutNoticeTrue
    OBVIOUS
  <2>1. coStatus = "cancelled" /\ coCharges = 1 => 1 \in DOMAIN coRefunds
    BY DEF CheckoutIInv, MoneyAgrees
  <2> QED BY <2>1 DEF CheckoutIInv, TabsTrue, ToldTruly, CheckoutNoticeTrue
<1> QED BY <1>1, CheckoutIInvHolds, PTL

-----------------------------------------------------------------------------
(* What the dialog showed.                                                 *)

(* Rules that get no milder as the match comes near.                       *)
RulesStricter ==
    \A h, k \in 0..StartHours :
        RefundAt(h) \in Int /\ (h <= k => RefundAt(h) <= RefundAt(k))

(* The amount shown was computed at an hour that has passed, or is now.    *)
ShownBefore(shown) == \E h \in 0..StartHours : coHours <= h /\ shown = RefundAt(h)

ShownIInv ==
    /\ coHours \in 0..StartHours
    /\ cardStep = "confirm" => ShownBefore(cardShown)
    /\ \A c \in coCalls : c.op = "cancel" => ShownBefore(c.shown)
    /\ CheckoutRefundAtMostShown

LEMMA ServerKeepsShown ==
    ASSUME RulesStricter, CheckoutIInv, ShownIInv, NEW c \in coCalls, CheckoutServes(c)
    PROVE  ShownIInv'
<1> USE DEF ShownIInv
<1>1. UNCHANGED <<coHours, cardStep, cardShown>> /\ c.op \in {"pay", "cancel"}
  BY DEF CheckoutServes, coClock, coCardTab
<1>2. \A s : ShownBefore(s)' <=> ShownBefore(s)
  BY <1>1 DEF ShownBefore
<1>3. PICK amount : AnswerCall(c, amount)
  BY DEF CheckoutServes, ServerPays, ServerCancels, ServerCancelled
<1>4. \A d \in coCalls' : d.op = "cancel" => ShownBefore(d.shown)
  <2>1. ASSUME NEW d, d = [c EXCEPT !.state = "ok", !.amount = amount]
        PROVE  d.op = c.op /\ d.shown = c.shown
    BY <2>1 DEF CheckoutIInv, CallsShaped
  <2>2. \A d \in coCalls' : d \in coCalls \/ d = [c EXCEPT !.state = "ok", !.amount = amount]
    BY <1>3 DEF AnswerCall
  <2> QED BY <2>1, <2>2
<1>5. CheckoutRefundAtMostShown'
  <2>1. CASE UNCHANGED coRefunds
    BY <2>1 DEF CheckoutRefundAtMostShown
  <2>2. CASE c.op = "cancel" /\ ServerCancels(c) /\ coCharges > 0
    <3>1. PICK h \in 0..StartHours : coHours <= h /\ c.shown = RefundAt(h)
      BY <2>2 DEF ShownBefore
    <3>2. RefundAt(coHours) <= c.shown
      BY <3>1 DEF RulesStricter
    <3>3. coRefunds = <<>>
      BY <2>2 DEF ServerCancels, CancelAllowed, CheckoutIInv, MoneyAgrees
    <3>4. coRefunds' = Append(<<>>, [amount |-> RefundAt(coHours), shown |-> c.shown])
      BY <2>2, <3>3 DEF ServerCancels
    <3>5. coRefunds' = <<[amount |-> RefundAt(coHours), shown |-> c.shown]>>
      BY <3>4
    <3> QED BY <3>2, <3>5 DEF CheckoutRefundAtMostShown
  <2>3. UNCHANGED coRefunds \/ (c.op = "cancel" /\ ServerCancels(c) /\ coCharges > 0)
    BY DEF CheckoutServes, ServerPays, ServerCancels, ServerCancelled, coServer
  <2> QED BY <2>1, <2>2, <2>3
<1> QED BY <1>1, <1>2, <1>4, <1>5

LEMMA TabsKeepShown ==
    ASSUME RulesStricter, CheckoutIInv, ShownIInv, CheckoutNext,
           ~\E c \in coCalls : CheckoutServes(c)
    PROVE  ShownIInv'
<1> USE DEF ShownIInv
<1>1. UNCHANGED coRefunds /\ coHours' \in 0..StartHours /\ coHours' <= coHours
  BY CheckoutAssumption
  DEF CheckoutNext, CheckoutExpires, CheckoutTime, PaySteps, PayAnswered, PayFails, CardLoads,
      CardLoaded, CancelSteps, CancelAsked, CancelAnswered, CancelNoticed, CancelFails, PayClick,
      PayReopen, CardRefresh, CancelClick, CancelDeclined, CancelConfirmed, coServer, coClock, Started
<1>2. CheckoutRefundAtMostShown'
  BY <1>1 DEF CheckoutRefundAtMostShown
<1>3. \A s : ShownBefore(s) => ShownBefore(s)'
  BY <1>1, CheckoutAssumption DEF ShownBefore
<1>4. cardStep' = "confirm" => ShownBefore(cardShown)'
  <2>1. CASE \E c \in coCalls : CancelAsked(c)
    <3>1. cardShown' = RefundAt(coHours) /\ UNCHANGED coHours
      BY <2>1 DEF CancelAsked, coClock
    <3> QED BY <3>1, CheckoutAssumption DEF ShownBefore
  <2>2. CASE ~\E c \in coCalls : CancelAsked(c)
    <3>1. cardStep' = "confirm" => cardStep = "confirm" /\ UNCHANGED cardShown
      BY <2>2
      DEF CheckoutNext, CheckoutExpires, CheckoutTime, PaySteps, PayAnswered, PayFails, CardLoads,
          CardLoaded, CancelSteps, CancelAnswered, CancelNoticed, CancelFails, StepAfterError,
          PayClick, PayReopen, CardRefresh, CancelClick, CancelDeclined, CancelConfirmed, coCardTab
    <3> QED BY <3>1, <1>3
  <2> QED BY <2>1, <2>2
<1>5. ASSUME NEW c \in coCalls', c.op = "cancel", c \notin coCalls PROVE ShownBefore(c.shown)'
  <2>1. CASE CancelConfirmed
    <3>1. cardStep = "confirm" /\ c = Call("cancel", coCancelSent, cardShown)
      BY <1>5, <2>1 DEF CancelConfirmed, Send
    <3> QED BY <3>1, <1>3 DEF Call
  <2>2. CASE ~CancelConfirmed
    BY <1>5, <2>2
    DEF CheckoutNext, CheckoutExpires, CheckoutTime, PaySteps, PayAnswered, PayFails, GiveUp,
        CardLoads, CardLoaded, CancelSteps, CancelAsked, CancelAnswered, CancelNoticed, CancelFails,
        PayClick, PayReopen, CardRefresh, CancelClick, CancelDeclined, Send, Call
  <2> QED BY <2>1, <2>2
<1> QED BY <1>1, <1>2, <1>3, <1>4, <1>5

(* With such rules nobody is refunded more than the dialog showed, however *)
(* long it stood open and whatever is late.                                *)
THEOREM RefundAtMostShown ==
    ASSUME RulesStricter
    PROVE  WebSpec => []CheckoutRefundAtMostShown
<1>1. WebInit => ShownIInv
  BY CheckoutAssumption
  DEF WebInit, CheckoutInit, ShownIInv, CheckoutRefundAtMostShown, Call
<1>2. CheckoutIInv /\ ShownIInv /\ [WebNext]_webVars => ShownIInv'
  <2> SUFFICES ASSUME CheckoutIInv, ShownIInv, [CheckoutNext]_coVars PROVE ShownIInv'
    BY PagesStep
  <2>1. CASE UNCHANGED coVars
    BY <2>1 DEF coVars, coServer, coClock, coCardTab, ShownIInv, ShownBefore,
                CheckoutRefundAtMostShown
  <2> QED BY <2>1, RulesStricter, ServerKeepsShown, TabsKeepShown
<1>3. ShownIInv => CheckoutRefundAtMostShown
  BY DEF ShownIInv
<1> QED BY <1>1, <1>2, <1>3, CheckoutIInvHolds, PTL DEF WebSpec
=============================================================================
