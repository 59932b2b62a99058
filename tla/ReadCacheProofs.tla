--------------------------- MODULE ReadCacheProofs --------------------------
(***************************************************************************)
(* Theorems about ReadCache, for any number of reads, writes, commits and  *)
(* Redis failures and any of the three disciplines.                        *)
(***************************************************************************)
EXTENDS ReadCache, FiniteSetTheorems, TLAPS

Bumping == {w \in Writers : wpc[w] = "bump"}

(* The version never runs ahead of the commits it stands for, so that keys *)
(* stay within the bound.                                                  *)
BumpsCounted ==
    IF "ticket" \in Rows
    THEN version + Cardinality(Bumping) <= row["ticket"]
    ELSE version = 0 /\ Bumping = {}

(* A read that computed its key did so for its own view.                   *)
Reading(p) == rpc[p] \in {"get", "query", "set"}
KeysFit ==
    \A p \in Readers :
        /\ rpc[p] = "version" => view[p] = "detail"
        /\ Reading(p) => view[p] \in Views /\ key[p] \in Keys /\ key[p][1] = view[p]
        /\ rpc[p] # "idle" => view[p] \in Views

TypeIInv == TypeOK /\ BumpsCounted /\ KeysFit

(* What is cached under a key, and what reads are about to write there.    *)
Fills(k) == ({entry[k]} \ {None}) \cup {val[p] : p \in {q \in Readers : rpc[q] = "set" /\ key[q] = k}}

DetailKey(n) == <<"detail", n>>

(* The commits of a call are in the table before it is answered.           *)
AnsweredInRow ==
    /\ \A x \in Rows : answered[x] <= row[x]
    /\ \A x \in Rows, w \in Writers : wrote[w][x] <= row[x]
    /\ \A p \in Readers : view[p] = "detail" => floor[p] <= answered["ticket"]

(* No key is used before its version comes.                                *)
FutureUnused ==
    \A n \in Versions : n > version =>
        Fills(DetailKey(n)) = {} /\ \A p \in Readers : Reading(p) => key[p] # DetailKey(n)

(* What is filled under the current version includes every commit that was *)
(* answered, or will be without another increment.                         *)
CurrentFresh ==
    \A x \in Fills(DetailKey(version)) :
        answered["ticket"] <= x /\ \A w \in Writers : wpc[w] = "delete" => wrote[w]["ticket"] <= x

(* What is filled under the key of a read includes what it must see.       *)
ReadsFresh ==
    \A p \in Readers :
        /\ Reading(p) /\ view[p] = "detail" => \A x \in Fills(key[p]) : floor[p] <= x
        /\ Served(p, "detail") => floor[p] <= val[p]

DataIInv ==
    AnsweredInRow /\ ("detail" \in Views => FutureUnused /\ CurrentFresh /\ ReadsFresh)

CacheIInv == TypeIInv /\ (errors = 0 => DataIInv)

-----------------------------------------------------------------------------
(* Types and keys.                                                         *)

LEMMA KeyFacts ==
    /\ None \in Nat /\ None \notin 0..MaxCommits /\ 0..MaxCommits \subseteq 0..None
    /\ \A v \in Views : RowOf(v) \in Rows
    /\ \A v \in Views, n \in Versions : KeyOf(v, n) \in Keys /\ KeyOf(v, n)[1] = v
    /\ \A n \in Nat : DetailKey(n) = KeyOf("detail", n)
    /\ Rows \subseteq {"ticket", "user"} /\ 0 \in Versions
    /\ "detail" \in Views => "ticket" \in Rows
BY ReadCacheAssumption DEF None, Rows, Keys, KeyOf, RowOf, Versions, DetailKey

LEMMA BumpingFinite == IsFiniteSet(Bumping) /\ Cardinality(Bumping) \in Nat
BY FS_Subset, FS_CardinalityType, ReadCacheAssumption DEF Bumping

LEMMA InitTyped == Init => TypeIInv
<1> SUFFICES ASSUME Init PROVE TypeIInv
  OBVIOUS
<1>1. TypeOK
  BY KeyFacts, ReadCacheAssumption DEF Init, TypeOK
<1>2. Bumping = {} /\ Cardinality(Bumping) = 0
  BY FS_EmptySet DEF Init, Bumping
<1>3. BumpsCounted
  BY <1>2 DEF Init, BumpsCounted
<1> QED BY <1>1, <1>3 DEF Init, TypeIInv, KeysFit, Reading

LEMMA ReadKeepsTypes ==
    ASSUME TypeIInv, NEW p \in Readers,
           (\E v \in Views : BeginRead(p, v)) \/ ReadStep(p)
    PROVE  TypeIInv'
<1> USE DEF TypeIInv
<1>1. UNCHANGED <<row, version, writeVars, answered>>
  BY DEF BeginRead, ReadStep, ReadVersion, GetHit, GetMiss, Query, Set
<1>2. BumpsCounted'
  BY <1>1 DEF BumpsCounted, Bumping, writeVars
<1>3. errors' \in 0..MaxErrors
  BY ReadCacheAssumption
  DEF TypeOK, BeginRead, ReadStep, ReadVersion, GetHit, GetMiss, Query, Set, Error, NoError
<1>4. ASSUME NEW v \in Views, BeginRead(p, v) PROVE TypeIInv'
  <2>1. /\ KeyOf(v, 0) \in Keys /\ KeyOf(v, 0)[1] = v /\ v \in Views
        /\ RowOf(v) \in Rows /\ 0 \in 0..MaxCommits
    BY KeyFacts DEF Versions
  <2>2. /\ key' = [key EXCEPT ![p] = KeyOf(v, 0)] /\ view' = [view EXCEPT ![p] = v]
        /\ floor' \in [Readers -> 0..MaxCommits] /\ val' \in [Readers -> 0..MaxCommits]
        /\ rpc' = [rpc EXCEPT ![p] = IF v = "detail" THEN "version" ELSE "get"]
        /\ UNCHANGED entry
    BY <1>4, <2>1 DEF BeginRead, RGoto, TypeOK
  <2> HIDE DEF KeyOf
  <2> QED BY <1>1, <1>2, <1>3, <2>1, <2>2 DEF TypeOK, KeysFit, Reading, writeVars
<1>5. CASE ReadVersion(p)
  <2>1. "detail" \in Views /\ key' \in [Readers -> Keys \cup {NoKey}] /\ key'[p] \in Keys /\ key'[p][1] = "detail"
    BY <1>5, KeyFacts DEF ReadVersion, TypeOK, KeysFit
  <2> QED BY <1>1, <1>2, <1>3, <1>5, <2>1 DEF ReadVersion, RGoto, TypeOK, KeysFit, Reading, writeVars
<1>6. CASE GetHit(p)
  <2>1. val' \in [Readers -> 0..MaxCommits]
    <3>1. entry[key[p]] \in 0..MaxCommits
      <4>1. key[p] \in Keys /\ entry \in [Keys -> 0..None] /\ entry[key[p]] # None
        BY <1>6 DEF GetHit, TypeOK, KeysFit, Reading
      <4>2. entry[key[p]] \in 0..None
        BY <4>1
      <4> QED BY <4>1, <4>2, ReadCacheAssumption DEF None
    <3> QED BY <1>6, <3>1 DEF GetHit, TypeOK
  <2> QED BY <1>1, <1>2, <1>3, <1>6, <2>1 DEF GetHit, Serve, RGoto, TypeOK, KeysFit, Reading, writeVars
<1>7. CASE GetMiss(p)
  BY <1>1, <1>2, <1>3, <1>7 DEF GetMiss, RGoto, TypeOK, KeysFit, Reading, writeVars
<1>8. CASE Query(p)
  <2>1. row[RowOf(view[p])] \in 0..MaxCommits
    BY <1>8, KeyFacts DEF Query, TypeOK, KeysFit, Reading
  <2> QED BY <1>1, <1>2, <1>3, <1>8, <2>1 DEF Query, RGoto, TypeOK, KeysFit, Reading, writeVars
<1>9. CASE Set(p)
  <2>1. entry' \in [Keys -> 0..None]
    BY <1>9, KeyFacts DEF Set, TypeOK
  <2> QED BY <1>1, <1>2, <1>3, <1>9, <2>1 DEF Set, Serve, RGoto, TypeOK, KeysFit, Reading, writeVars
<1> QED BY <1>4, <1>5, <1>6, <1>7, <1>8, <1>9 DEF ReadStep

LEMMA CommitKeepsTypes ==
    ASSUME TypeIInv, NEW w \in Writers, NEW R \in SUBSET Rows, Commit(w, R)
    PROVE  TypeIInv'
<1> USE DEF TypeIInv
<1>1. /\ row' \in [Rows -> 0..MaxCommits]
      /\ wrote' \in [Writers -> [Rows -> 0..MaxCommits]]
      /\ wpc' \in [Writers -> {"idle", "bump", "delete"}]
  BY ReadCacheAssumption DEF Commit, WGoto, Invalidates, TypeOK
<1>2. UNCHANGED <<version, entry, readVars, answered, errors>>
  BY DEF Commit
<1>3. BumpsCounted'
  <2>1. CASE "ticket" \in R
    <3>1. Bumping' = Bumping \cup {w} /\ w \notin Bumping
      BY <2>1 DEF Commit, WGoto, Invalidates, Bumping, TypeOK
    <3>2. Cardinality(Bumping') = Cardinality(Bumping) + 1
      BY <3>1, BumpingFinite, FS_AddElement
    <3>3. row'["ticket"] = row["ticket"] + 1 /\ "ticket" \in Rows
      BY <2>1 DEF Commit
    <3> QED BY <1>2, <3>2, <3>3, BumpingFinite, ReadCacheAssumption DEF BumpsCounted, TypeOK, Versions
  <2>2. CASE "ticket" \notin R
    <3>1. Bumping' = Bumping /\ ("ticket" \in Rows => row'["ticket"] = row["ticket"])
      BY <2>2 DEF Commit, WGoto, Invalidates, Bumping, TypeOK
    <3> QED BY <1>2, <3>1 DEF BumpsCounted
  <2> QED BY <2>1, <2>2
<1> QED BY <1>1, <1>2, <1>3 DEF TypeOK, KeysFit, Reading, readVars

LEMMA InvalidationKeepsTypes ==
    ASSUME TypeIInv, NEW w \in Writers, WriteStep(w)
    PROVE  TypeIInv'
<1> USE DEF TypeIInv
<1>1. UNCHANGED <<row, readVars>>
  BY DEF WriteStep, Bump, Delete
<1>2. errors' \in 0..MaxErrors
  BY ReadCacheAssumption DEF TypeOK, WriteStep, Bump, Delete, Error, NoError
<1>3. ASSUME Answer(w)
      PROVE  /\ answered' \in [Rows -> 0..MaxCommits]
             /\ wrote' \in [Writers -> [Rows -> 0..MaxCommits]]
             /\ wpc' \in [Writers -> {"idle", "bump", "delete"}]
  BY <1>3, KeyFacts DEF Answer, WGoto, TypeOK, Versions
<1>4. CASE Bump(w)
  <2>1. /\ answered' \in [Rows -> 0..MaxCommits]
        /\ wrote' \in [Writers -> [Rows -> 0..MaxCommits]]
        /\ wpc' \in [Writers -> {"idle", "bump", "delete"}]
        /\ UNCHANGED entry
    BY <1>3, <1>4 DEF Bump, WGoto, TypeOK
  <2>2. Bumping' = Bumping \ {w} /\ w \in Bumping
    BY <1>4 DEF Bump, Answer, WGoto, Bumping, TypeOK
  <2>3. Cardinality(Bumping') = Cardinality(Bumping) - 1
    BY <2>2, BumpingFinite, FS_RemoveElement
  <2>4. version' \in {version, version + 1} /\ version \in Nat
    BY <1>4 DEF Bump, NextVersion, TypeOK, Versions
  <2>5. "ticket" \in Rows /\ row["ticket"] \in 0..MaxCommits
    BY <2>2 DEF BumpsCounted, TypeOK
  <2>6. version + Cardinality(Bumping) <= row["ticket"] /\ Cardinality(Bumping') \in Nat
    BY <2>2, <2>5, BumpingFinite, FS_RemoveElement, FS_CardinalityType DEF BumpsCounted
  <2>7. version' + Cardinality(Bumping') <= row["ticket"] /\ version' <= row["ticket"] /\ version' \in Nat
    BY <2>3, <2>4, <2>5, <2>6, BumpingFinite
  <2>8. BumpsCounted' /\ version' \in Versions
    BY <1>1, <2>5, <2>7, ReadCacheAssumption DEF BumpsCounted, Versions
  <2> QED BY <1>1, <1>2, <2>1, <2>8 DEF TypeOK, KeysFit, Reading, readVars
<1>5. CASE Delete(w)
  <2>1. UNCHANGED version /\ entry' \in [Keys -> 0..None]
    BY <1>5, KeyFacts, ReadCacheAssumption DEF Delete, TypeOK
  <2>2. Bumping' = Bumping
    BY <1>5 DEF Delete, Answer, WGoto, Bumping, TypeOK
  <2>3. BumpsCounted'
    BY <1>1, <2>1, <2>2 DEF BumpsCounted
  <2> QED BY <1>1, <1>2, <1>3, <1>5, <2>1, <2>3 DEF Delete, TypeOK, KeysFit, Reading, readVars
<1> QED BY <1>4, <1>5 DEF WriteStep

LEMMA EvictKeepsTypes ==
    ASSUME TypeIInv, NEW k \in Keys, Evict(k)
    PROVE  TypeIInv'
<1>1. entry' \in [Keys -> 0..None]
  BY KeyFacts DEF Evict, TypeIInv, TypeOK
<1> QED BY <1>1 DEF Evict, TypeIInv, TypeOK, KeysFit, Reading, BumpsCounted, Bumping, readVars, writeVars

LEMMA UnchangedKeepsTypes == TypeIInv /\ UNCHANGED vars => TypeIInv'
BY DEF vars, readVars, writeVars, TypeIInv, TypeOK, KeysFit, Reading, BumpsCounted, Bumping

LEMMA TypesKept == TypeIInv /\ [Next]_vars => TypeIInv'
BY ReadKeepsTypes, CommitKeepsTypes, InvalidationKeepsTypes, EvictKeepsTypes, UnchangedKeepsTypes DEF Next

(* The bounds of ReadCache are the code's own: every value stays within    *)
(* what its key or column may hold, and the version does not run ahead of  *)
(* the commits.                                                            *)
THEOREM CacheTypeCorrect == Spec => []TypeOK
<1>1. TypeIInv => TypeOK
  BY DEF TypeIInv
<1> QED BY <1>1, InitTyped, TypesKept, PTL DEF Spec

-----------------------------------------------------------------------------
(* Freshness.                                                              *)

(* A step adds nothing to what may be filled under a key, but for a query, *)
(* which adds the row as it is.                                            *)
LEMMA FillsStep ==
    ASSUME TypeIInv, Next, NEW k \in Keys
    PROVE  \/ Fills(k)' \subseteq Fills(k)
           \/ \E p \in Readers : /\ Query(p) /\ k = key[p]
                                 /\ Fills(k)' \subseteq Fills(k) \cup {row[RowOf(view[p])]}
<1> USE DEF TypeIInv
<1>1. ASSUME NEW p \in Readers, Query(p) PROVE
         IF k = key[p] THEN Fills(k)' \subseteq Fills(k) \cup {row[RowOf(view[p])]}
                       ELSE Fills(k)' \subseteq Fills(k)
  BY <1>1 DEF Query, RGoto, Fills, TypeOK
<1>2. ASSUME NEW p \in Readers, Set(p) PROVE Fills(k)' \subseteq Fills(k)
  <2>1. key[p] \in Keys /\ rpc[p] = "set"
    BY <1>2 DEF Set, KeysFit, Reading
  <2>2. UNCHANGED val /\ \A q \in Readers \ {p} : rpc'[q] = rpc[q] /\ key'[q] = key[q]
    BY <1>2 DEF Set, Serve, RGoto, TypeOK
  <2>3. rpc'[p] = "served"
    BY <1>2 DEF Set, Serve, RGoto, TypeOK
  <2>4. entry'[k] = entry[k] \/ (k = key[p] /\ entry'[k] = val[p])
    BY <1>2, <2>1 DEF Set, TypeOK
  <2> QED BY <2>1, <2>2, <2>3, <2>4 DEF Fills
<1>3. ASSUME NEW p \in Readers, NEW v \in Views, BeginRead(p, v) PROVE Fills(k)' \subseteq Fills(k)
  <2>1. UNCHANGED entry /\ rpc'[p] # "set"
        /\ \A q \in Readers \ {p} : rpc'[q] = rpc[q] /\ key'[q] = key[q] /\ val'[q] = val[q]
    BY <1>3 DEF BeginRead, RGoto, TypeOK
  <2> QED BY <2>1 DEF Fills
<1>4. ASSUME NEW p \in Readers, ReadVersion(p) \/ GetHit(p) \/ GetMiss(p)
      PROVE  Fills(k)' \subseteq Fills(k)
  <2>1. UNCHANGED entry /\ rpc'[p] # "set"
        /\ \A q \in Readers \ {p} : rpc'[q] = rpc[q] /\ key'[q] = key[q] /\ val'[q] = val[q]
    BY <1>4 DEF ReadVersion, GetHit, GetMiss, Serve, RGoto, TypeOK
  <2> QED BY <2>1 DEF Fills
<1>5. ASSUME UNCHANGED readVars, entry'[k] \in {entry[k], None} PROVE Fills(k)' \subseteq Fills(k)
  BY <1>5 DEF readVars, Fills
<1>6. ASSUME NEW w \in Writers, (\E R \in SUBSET Rows : Commit(w, R)) \/ WriteStep(w)
      PROVE  UNCHANGED readVars /\ entry'[k] \in {entry[k], None}
  BY <1>6 DEF Commit, WriteStep, Bump, Delete, TypeOK
<1>7. ASSUME NEW j \in Keys, Evict(j) PROVE UNCHANGED readVars /\ entry'[k] \in {entry[k], None}
  BY <1>7 DEF Evict, TypeOK
<1> QED BY <1>1, <1>2, <1>3, <1>4, <1>5, <1>6, <1>7 DEF Next, ReadStep

LEMMA AnsweredInRowKept ==
    ASSUME TypeIInv, AnsweredInRow, Next
    PROVE  AnsweredInRow'
<1> USE DEF TypeIInv, AnsweredInRow
<1>1. ASSUME NEW p \in Readers, (\E v \in Views : BeginRead(p, v)) \/ ReadStep(p) PROVE AnsweredInRow'
  <2>1. UNCHANGED <<row, wrote, answered>>
    BY <1>1 DEF BeginRead, ReadStep, ReadVersion, GetHit, GetMiss, Query, Set, writeVars
  <2>2. ASSUME NEW q \in Readers, view'[q] = "detail" PROVE floor'[q] <= answered["ticket"]
    <3>1. CASE \E v \in Views : BeginRead(p, v)
      <4>1. PICK v \in Views : BeginRead(p, v)
        BY <3>1
      <4>2. CASE q = p
        <5>1. v = "detail" /\ floor'[p] = answered[RowOf(v)]
          BY <2>2, <4>1, <4>2 DEF BeginRead, TypeOK
        <5>2. RowOf(v) = "ticket" /\ answered["ticket"] \in Nat
          BY <5>1, KeyFacts DEF RowOf, TypeOK
        <5> QED BY <4>2, <5>1, <5>2
      <4>3. CASE q # p
        BY <2>2, <4>1, <4>3 DEF BeginRead, TypeOK
      <4> QED BY <4>2, <4>3
    <3>2. CASE ReadStep(p)
      BY <2>2, <3>2 DEF ReadStep, ReadVersion, GetHit, GetMiss, Query, Set
    <3> QED BY <1>1, <3>1, <3>2
  <2> QED BY <2>1, <2>2
<1>2. ASSUME NEW w \in Writers, NEW R \in SUBSET Rows, Commit(w, R) PROVE AnsweredInRow'
  <2>1. \A x \in Rows : row[x] \in Nat /\ row[x] <= row'[x]
    BY <1>2 DEF Commit, TypeOK
  <2>2. \A x \in Rows : wrote'[w][x] <= row'[x]
    BY <1>2 DEF Commit, TypeOK
  <2>3. \A x \in Rows, u \in Writers \ {w} : wrote'[u] = wrote[u] /\ wrote[u][x] \in Nat
    BY <1>2 DEF Commit, TypeOK
  <2>4. UNCHANGED <<view, floor, answered>> /\ \A x \in Rows : answered[x] \in Nat
    BY <1>2 DEF Commit, readVars, TypeOK
  <2>5. \A x \in Rows, u \in Writers : wrote'[u][x] <= row'[x]
    BY <1>2, <2>1, <2>2, <2>3 DEF Commit, TypeOK
  <2>6. \A x \in Rows : answered'[x] <= row'[x]
    BY <1>2, <2>1, <2>4 DEF Commit, TypeOK
  <2> QED BY <2>4, <2>5, <2>6
<1>3. ASSUME NEW w \in Writers, WriteStep(w) PROVE AnsweredInRow'
  <2>1. UNCHANGED <<row, view, floor>>
    BY <1>3 DEF WriteStep, Bump, Delete, readVars
  <2>2. CASE Answer(w)
    <3>1. \A x \in Rows : answered[x] <= answered'[x] /\ answered'[x] <= row[x]
                          /\ answered[x] \in Nat /\ answered'[x] \in Nat
      BY <2>2 DEF Answer, TypeOK
    <3>2. \A x \in Rows, u \in Writers : wrote'[u][x] <= row[x]
      BY <2>2 DEF Answer, TypeOK
    <3>3. \A p \in Readers : floor[p] \in Nat /\ (view[p] = "detail" => "ticket" \in Rows)
      BY KeyFacts DEF TypeOK
    <3> QED BY <2>1, <3>1, <3>2, <3>3
  <2>3. CASE UNCHANGED <<wrote, answered>>
    BY <2>1, <2>3
  <2> QED BY <1>3, <2>2, <2>3 DEF WriteStep, Bump, Delete
<1>4. ASSUME NEW k \in Keys, Evict(k) PROVE AnsweredInRow'
  BY <1>4 DEF Evict, readVars, writeVars
<1> QED BY <1>1, <1>2, <1>3, <1>4 DEF Next

(* While no command fails, every commit that is answered has incremented   *)
(* the version first.                                                      *)
LEMMA AnswersAfterBump ==
    ASSUME TypeIInv, Next, "detail" \in Views, errors' = 0
    PROVE  \/ /\ version' = version
              /\ \A w \in Writers :
                   wpc'[w] = "delete" /\ wpc[w] # "delete" => wrote'[w]["ticket"] = 0
              /\ \A w \in Writers : wpc'[w] = "delete" /\ wpc[w] = "delete" => wrote'[w] = wrote[w]
              /\ \/ UNCHANGED answered
                 \/ \E w \in Writers : wpc[w] = "delete" /\ Answer(w)
           \/ version' = version + 1 /\ UNCHANGED <<entry, readVars>>
<1> USE DEF TypeIInv
<1>0. "ticket" \in Rows
  BY KeyFacts
<1>1. ASSUME NEW p \in Readers, (\E v \in Views : BeginRead(p, v)) \/ ReadStep(p)
      PROVE  UNCHANGED <<version, writeVars, answered>>
  BY <1>1 DEF BeginRead, ReadStep, ReadVersion, GetHit, GetMiss, Query, Set
<1>2. ASSUME NEW w \in Writers, NEW R \in SUBSET Rows, Commit(w, R)
      PROVE  /\ version' = version /\ UNCHANGED answered
             /\ \A u \in Writers :
                  wpc'[u] = "delete" /\ wpc[u] # "delete" => wrote'[u]["ticket"] = 0
             /\ \A u \in Writers : wpc'[u] = "delete" /\ wpc[u] = "delete" => wrote'[u] = wrote[u]
  BY <1>0, <1>2 DEF Commit, WGoto, Invalidates, TypeOK
<1>3. ASSUME NEW w \in Writers, Bump(w) PROVE version' = version + 1 /\ UNCHANGED <<entry, readVars>>
  BY <1>3, ReadCacheAssumption DEF Bump, NextVersion, Error, TypeOK
<1>4. ASSUME NEW w \in Writers, Delete(w)
      PROVE  /\ version' = version /\ wpc[w] = "delete" /\ Answer(w)
             /\ \A u \in Writers :
                  wpc'[u] = "delete" => wpc[u] = "delete" /\ wrote'[u] = wrote[u]
  BY <1>4 DEF Delete, Answer, WGoto, TypeOK
<1>5. ASSUME NEW k \in Keys, Evict(k) PROVE UNCHANGED <<version, writeVars, answered>>
  BY <1>5 DEF Evict
<1>6. ASSUME NEW w \in Writers, (\E R \in SUBSET Rows : Commit(w, R)) \/ WriteStep(w)
      PROVE  (\E R \in SUBSET Rows : Commit(w, R)) \/ Bump(w) \/ Delete(w)
  BY <1>6 DEF WriteStep
<1> QED BY <1>1, <1>2, <1>3, <1>4, <1>5, <1>6 DEF Next, writeVars

(* A read that is not at work stays as it is.                              *)
Still(p) ==
    /\ rpc'[p] = rpc[p] /\ key'[p] = key[p] /\ view'[p] = view[p]
    /\ floor'[p] = floor[p] /\ val'[p] = val[p]

LEMMA ReadMoves ==
    ASSUME TypeIInv, Next, NEW p \in Readers
    PROVE  Still(p) \/ (\E v \in Views : BeginRead(p, v)) \/ ReadStep(p)
<1> USE DEF TypeIInv
<1>1. ASSUME NEW q \in Readers, q # p, (\E v \in Views : BeginRead(q, v)) \/ ReadStep(q)
      PROVE  Still(p)
  BY <1>1 DEF Still, BeginRead, ReadStep, ReadVersion, GetHit, GetMiss, Query, Set, Serve, RGoto, TypeOK
<1>2. ASSUME NEW w \in Writers, (\E R \in SUBSET Rows : Commit(w, R)) \/ WriteStep(w) PROVE Still(p)
  BY <1>2 DEF Still, Commit, WriteStep, Bump, Delete, readVars
<1>3. ASSUME NEW k \in Keys, Evict(k) PROVE Still(p)
  BY <1>3 DEF Still, Evict, readVars
<1> QED BY <1>1, <1>2, <1>3 DEF Next

(* A detail key is filled only with what was there or the row as it is.    *)
LEMMA DetailFills ==
    ASSUME TypeIInv, Next, "detail" \in Views, NEW n \in Versions
    PROVE  /\ DetailKey(n) \in Keys
           /\ Fills(DetailKey(n))' \subseteq Fills(DetailKey(n)) \cup {row["ticket"]}
           /\ Fills(DetailKey(n)) \subseteq Nat /\ row["ticket"] \in Nat
           /\ (\A p \in Readers : Reading(p) => key[p] # DetailKey(n))
                => Fills(DetailKey(n))' \subseteq Fills(DetailKey(n))
<1> DEFINE k == DetailKey(n)
<1>1. k \in Keys /\ k[1] = "detail" /\ "ticket" \in Rows
  BY KeyFacts DEF Versions, DetailKey
<1>2. ASSUME NEW p \in Readers, Query(p), k = key[p] PROVE RowOf(view[p]) = "ticket" /\ Reading(p)
  BY <1>1, <1>2 DEF Query, TypeIInv, KeysFit, Reading, RowOf
<1>3. Fills(k) \subseteq Nat /\ row["ticket"] \in Nat
  BY <1>1, ReadCacheAssumption DEF Fills, TypeIInv, TypeOK, None
<1> HIDE DEF k
<1>4. Fills(k)' \subseteq Fills(k) \cup {row["ticket"]}
      /\ ((\A p \in Readers : Reading(p) => key[p] # k) => Fills(k)' \subseteq Fills(k))
  BY <1>1, <1>2, FillsStep
<1> QED BY <1>1, <1>3, <1>4 DEF k

LEMMA FutureUnusedKept ==
    ASSUME TypeIInv, "detail" \in Views, FutureUnused, Next
    PROVE  FutureUnused'
<1>1. version' >= version /\ version' \in Nat /\ version \in Nat
  BY TypesKept DEF Next, BeginRead, ReadStep, ReadVersion, GetHit, GetMiss, Query, Set, Commit,
     WriteStep, Bump, NextVersion, Delete, Evict, TypeIInv, TypeOK, Versions
<1>2. ASSUME NEW n \in Versions, n > version' PROVE Fills(DetailKey(n))' = {}
  <2>1. n > version
    BY <1>1, <1>2 DEF Versions
  <2> QED BY <2>1, DetailFills DEF FutureUnused
<1>3. ASSUME NEW n \in Versions, n > version', NEW p \in Readers, Reading(p)', key'[p] = DetailKey(n)
      PROVE  FALSE
  <2>1. n > version /\ n # 0
    BY <1>1, <1>3 DEF Versions
  <2>2. ~Reading(p)
    <3>1. Reading(p) => key'[p] = key[p]
      BY <1>3, ReadMoves DEF Reading, Still, BeginRead, ReadStep, ReadVersion, GetHit, GetMiss, Query,
         Set, Serve, RGoto, TypeIInv, TypeOK
    <3> QED BY <1>3, <2>1, <3>1 DEF FutureUnused
  <2>3. (\E v \in Views : BeginRead(p, v)) \/ ReadVersion(p)
    BY <1>3, <2>2, ReadMoves DEF Reading, Still, ReadStep, GetHit, GetMiss, Query, Set
  <2>4. ASSUME NEW v \in Views, BeginRead(p, v) PROVE FALSE
    BY <1>3, <2>1, <2>4 DEF BeginRead, RGoto, Reading, KeyOf, DetailKey, TypeIInv, TypeOK
  <2>5. CASE ReadVersion(p)
    BY <1>1, <1>3, <2>1, <2>5 DEF ReadVersion, KeyOf, DetailKey, TypeIInv, TypeOK
  <2> QED BY <2>3, <2>4, <2>5
<1> QED BY <1>2, <1>3 DEF FutureUnused

LEMMA CurrentFreshKept ==
    ASSUME TypeIInv, "detail" \in Views, AnsweredInRow, FutureUnused, CurrentFresh, Next, errors' = 0
    PROVE  CurrentFresh'
<1>0. TypeIInv' /\ "ticket" \in Rows
  BY TypesKept, KeyFacts
<1>1. version \in Versions /\ version' \in Versions
  BY <1>0 DEF TypeIInv, TypeOK
<1>2. CASE version' = version + 1 /\ UNCHANGED <<entry, readVars>>
  <2>1. Fills(DetailKey(version + 1)) = {}
    BY <1>1, <1>2 DEF FutureUnused, Versions
  <2>2. Fills(DetailKey(version))' = {}
    BY <1>2, <2>1 DEF Fills, DetailKey, readVars
  <2> QED BY <2>2 DEF CurrentFresh
<1>3. CASE /\ version' = version
           /\ \A w \in Writers :
                wpc'[w] = "delete" /\ wpc[w] # "delete" => wrote'[w]["ticket"] = 0
           /\ \A w \in Writers : wpc'[w] = "delete" /\ wpc[w] = "delete" => wrote'[w] = wrote[w]
           /\ \/ UNCHANGED answered
              \/ \E w \in Writers : wpc[w] = "delete" /\ Answer(w)
  <2> SUFFICES ASSUME NEW x \in Fills(DetailKey(version))'
               PROVE  /\ answered'["ticket"] <= x
                      /\ \A w \in Writers : wpc'[w] = "delete" => wrote'[w]["ticket"] <= x
    BY DEF CurrentFresh
  <2>1. x \in Nat /\ (x \in Fills(DetailKey(version)) \/ x = row["ticket"])
    <3>1. PICK n \in Versions : n = version
      BY <1>1
    <3>2. x \in Fills(DetailKey(n))'
      BY <1>3, <3>1 DEF Fills, DetailKey
    <3> QED BY <3>1, <3>2, DetailFills
  <2>2. answered["ticket"] <= x /\ \A w \in Writers : wpc[w] = "delete" => wrote[w]["ticket"] <= x
    BY <1>0, <2>1 DEF CurrentFresh, AnsweredInRow
  <2>3. answered'["ticket"] <= x
    BY <1>0, <1>3, <2>2 DEF Answer
  <2> QED BY <1>3, <2>1, <2>2, <2>3
<1> QED BY <1>2, <1>3, AnswersAfterBump

LEMMA ReadsFreshKept ==
    ASSUME TypeIInv, "detail" \in Views, AnsweredInRow, CurrentFresh, ReadsFresh, Next,
           errors \in Nat, errors' = 0
    PROVE  ReadsFresh'
<1>0. "ticket" \in Rows /\ version \in Versions
  BY KeyFacts DEF TypeIInv, TypeOK
<1>1. ASSUME NEW p \in Readers, Reading(p)', view'[p] = "detail", NEW x \in Fills(key[p])', key'[p] = key[p],
             Reading(p), view[p] = "detail", floor'[p] = floor[p]
      PROVE  floor'[p] <= x
  <2>1. PICK n \in Versions : key[p] = DetailKey(n)
    BY <1>1 DEF TypeIInv, KeysFit, Keys, KeyOf, DetailKey
  <2>2. x \in Fills(key[p]) \/ x = row["ticket"]
    BY <1>1, <2>1, DetailFills
  <2>3. floor[p] <= answered["ticket"] /\ answered["ticket"] <= row["ticket"]
    BY <1>0, <1>1 DEF AnsweredInRow
  <2>4. floor[p] <= row["ticket"]
    BY <1>0, <2>3 DEF TypeIInv, TypeOK
  <2> QED BY <1>1, <2>2, <2>4 DEF ReadsFresh
<1>2. ASSUME NEW p \in Readers, ReadVersion(p), NEW x \in Fills(key[p])' PROVE floor'[p] <= x
  <2>1. key'[p] = DetailKey(version) /\ floor' = floor /\ view[p] = "detail"
    BY <1>2 DEF ReadVersion, Error, NoError, KeyOf, DetailKey, TypeIInv, TypeOK, KeysFit
  <2>2. x \in Nat /\ (x \in Fills(DetailKey(version)) \/ x = row["ticket"])
    <3>1. PICK n \in Versions : n = version
      BY <1>0
    <3>2. x \in Fills(DetailKey(n))'
      BY <1>2, <2>1, <3>1 DEF Fills, DetailKey
    <3> QED BY <3>1, <3>2, DetailFills
  <2>3. answered["ticket"] <= x /\ floor[p] <= answered["ticket"]
    BY <1>0, <2>1, <2>2 DEF CurrentFresh, AnsweredInRow
  <2> QED BY <1>0, <2>1, <2>2, <2>3 DEF TypeIInv, TypeOK
<1>3. ASSUME NEW p \in Readers, Served(p, "detail")' PROVE floor'[p] <= val'[p]
  <2>1. CASE Still(p)
    BY <1>3, <2>1 DEF Still, Served, ReadsFresh
  <2>2. CASE GetHit(p)
    <3>1. Reading(p) /\ view[p] = "detail" /\ entry[key[p]] \in Fills(key[p])
      BY <1>3, <2>2 DEF GetHit, Served, Reading, Fills
    <3> QED BY <2>2, <3>1 DEF GetHit, ReadsFresh, TypeIInv, TypeOK
  <2>3. CASE Set(p)
    <3>1. Reading(p) /\ view[p] = "detail" /\ val[p] \in Fills(key[p])
      BY <1>3, <2>3 DEF Set, Served, Reading, Fills
    <3> QED BY <2>3, <3>1 DEF Set, ReadsFresh
  <2> QED BY <1>3, <2>1, <2>2, <2>3, ReadMoves
          DEF Served, BeginRead, ReadStep, ReadVersion, GetMiss, Query, RGoto, TypeIInv, TypeOK
<1>4. ASSUME NEW p \in Readers, Reading(p)', view'[p] = "detail", NEW x \in Fills(key[p])'
      PROVE  floor'[p] <= x
  <2>1. CASE ReadVersion(p)
    BY <1>2, <1>4, <2>1
  <2>2. CASE ~ReadVersion(p)
    <3>1. Reading(p) /\ key'[p] = key[p] /\ view[p] = "detail" /\ floor'[p] = floor[p]
      BY <1>4, <2>2, ReadMoves
      DEF Reading, Still, BeginRead, ReadStep, GetHit, GetMiss, Query, Set, Serve, RGoto, TypeIInv, TypeOK
    <3> QED BY <1>1, <1>4, <3>1
  <2> QED BY <2>1, <2>2
<1> QED BY <1>3, <1>4 DEF ReadsFresh

LEMMA InitFresh == Init => DataIInv
<1> SUFFICES ASSUME Init PROVE DataIInv
  OBVIOUS
<1>1. \A n \in Versions : "detail" \in Views => Fills(DetailKey(n)) = {}
  BY KeyFacts DEF Init, Fills, Versions
<1>2. AnsweredInRow
  BY KeyFacts DEF Init, AnsweredInRow
<1>3. \A p \in Readers : ~Reading(p) /\ rpc[p] # "served"
  BY DEF Init, Reading
<1>4. version \in Versions
  BY KeyFacts DEF Init
<1> QED BY <1>1, <1>2, <1>3, <1>4 DEF DataIInv, FutureUnused, CurrentFresh, ReadsFresh, Served

LEMMA DataKept == TypeIInv /\ (errors = 0 => DataIInv) /\ [Next]_vars => (errors = 0 => DataIInv)'
<1> SUFFICES ASSUME TypeIInv, errors = 0 => DataIInv, [Next]_vars, errors' = 0 PROVE DataIInv'
  OBVIOUS
<1>1. CASE UNCHANGED vars
  BY <1>1 DEF vars, readVars, writeVars, DataIInv, AnsweredInRow, FutureUnused, CurrentFresh,
              ReadsFresh, Served, Reading, Fills
<1>2. CASE Next
  <2>1. errors = 0 /\ errors \in Nat
    BY <1>2 DEF Next, BeginRead, ReadStep, ReadVersion, GetHit, GetMiss, Query, Set, Commit,
       WriteStep, Bump, Delete, Evict, Error, NoError, TypeIInv, TypeOK
  <2> QED BY <1>2, <2>1, AnsweredInRowKept, FutureUnusedKept, CurrentFreshKept, ReadsFreshKept
          DEF DataIInv
<1> QED BY <1>1, <1>2

(* Whatever fills, commits and increments overlap, ticket details that     *)
(* were asked for after a booking call was answered show what it did, as   *)
(* long as Redis answers.                                                  *)
THEOREM DetailsFresh == Spec => []DetailsSeeAnswered
<1>1. Init => CacheIInv
  BY InitTyped, InitFresh DEF CacheIInv
<1>2. CacheIInv /\ [Next]_vars => CacheIInv'
  BY TypesKept, DataKept DEF CacheIInv
<1>3. CacheIInv => DetailsSeeAnswered
  BY DEF CacheIInv, DataIInv, ReadsFresh, DetailsSeeAnswered, Served, TypeIInv, KeysFit
<1> QED BY <1>1, <1>2, <1>3, PTL DEF Spec
=============================================================================
