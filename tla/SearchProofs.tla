---------------------------- MODULE SearchProofs ----------------------------
(***************************************************************************)
(* Proofs about the search index and the searches behind the cache, for    *)
(* any tickets and batches and any number of syncs beside one another,     *)
(* commits, retries, late requests, restarts and reindex runs: no failure  *)
(* makes the index forget a document that lags its row; a search shows     *)
(* what was answered before it; and a reindex that runs alone repairs all. *)
(* The first two leave out the rows that committed while an older document *)
(* of theirs was in hand: the write that is applied last decides on those. *)
(***************************************************************************)
EXTENDS SearchCache, FiniteSetTheorems, WellFoundedInduction, NaturalsInduction, TLAPS

SyncTypes ==
    /\ db \in [Tickets -> Nat]
    /\ DOMAIN docs = Procs
    /\ pending \subseteq Tickets
    /\ pc \in [Procs -> {"idle", "create", "read", "bulk", "done"}]
    /\ ids \in [Syncers -> SUBSET Tickets]
    /\ restarts \in Nat /\ reindexes \in Nat

(* A call that is over has no ids; one that has read has read all of them. *)
ReadsFit ==
    \A s \in Syncers : /\ pc[s] = "idle" => ids[s] = {}
                       /\ pc[s] = "bulk" => DOMAIN docs[s] = ids[s]

(* An index that does not exist holds no document.                         *)
MissingIsEmpty == ~exists => \A t \in Tickets : index[t] = Absent

(* What is in hand is the row as it still is, or its ticket is excused.    *)
HandsCurrent ==
    \A d \in InHand : \A t \in DOMAIN d : t \in Tickets /\ (t \notin excused => d[t] = db[t])

SyncIInv == SyncTypes /\ ReadsFit /\ MissingIsEmpty /\ HandsCurrent /\ NothingForgotten

LEMMA ProcFacts ==
    /\ Reindexer \in Procs /\ Reindexer \notin Syncers
    /\ \A s \in Syncers : s \in Procs /\ s # Reindexer
BY SearchSyncAssumption DEF Procs, Reindexer

(* The types hold whatever runs beside what.                               *)
LEMMA SyncTypesKept ==
    ASSUME SyncTypes, [Next]_vars
    PROVE  SyncTypes'
<1> USE ProcFacts DEF SyncTypes, Goto
<1>1. ASSUME NEW s \in Syncers, NEW T \in SUBSET Tickets, CommitAndSync(s, T) PROVE SyncTypes'
  BY <1>1 DEF CommitAndSync, boundVars
<1>2. ASSUME NEW s \in Syncers, Retry(s) PROVE SyncTypes'
  BY <1>2 DEF Retry, boundVars
<1>3. ASSUME NEW s \in Syncers, EnsureIndex(s) \/ ReadRows(s) PROVE SyncTypes'
  BY <1>3 DEF EnsureIndex, ReadRows, boundVars
<1>4. ASSUME NEW s \in Syncers, BulkSucceeds(s) PROVE SyncTypes'
  BY <1>4 DEF BulkSucceeds, Returns, PendingAfterSuccess, boundVars
<1>5. ASSUME NEW s \in Syncers, SyncFails(s) \/ BulkPartlyFails(s) \/ BulkTimesOut(s) PROVE SyncTypes'
  <2>1. pc' = [pc EXCEPT ![s] = "idle"] /\ docs' = [docs EXCEPT ![s] = NoDocs]
        /\ pending' = pending \cup ids[s]
        /\ ids' = [ids EXCEPT ![s] = {}]
    BY <1>5 DEF SyncFails, BulkPartlyFails, BulkTimesOut, Defer, Returns, PendingAfterFailure
  <2>2. UNCHANGED <<db, restarts, reindexes>>
    BY <1>5 DEF SyncFails, BulkPartlyFails, BulkTimesOut, boundVars
  <2> QED BY <2>1, <2>2
<1>6. ASSUME NEW d \in late, LateBulk(d) PROVE SyncTypes'
  BY <1>6 DEF LateBulk, syncVars, boundVars
<1>7. CASE Restart
  BY <1>7 DEF Restart
<1>8. ASSUME NEW recreate \in BOOLEAN, StartReindex(recreate) PROVE SyncTypes'
  BY <1>8 DEF StartReindex
<1>9. ASSUME NEW T \in SUBSET Tickets, ReindexReads \/ ReindexStops \/ ReindexWrites(T) PROVE SyncTypes'
  BY <1>9 DEF ReindexReads, ReindexStops, ReindexWrites, boundVars
<1>10. CASE UNCHANGED vars
  BY <1>10 DEF vars, syncVars, boundVars
<1> QED
  BY <1>1, <1>2, <1>3, <1>4, <1>5, <1>6, <1>7, <1>8, <1>9, <1>10 DEF Next, SyncStep, ReindexStep

(* A write leaves the index in place; only a drop empties it.              *)
LEMMA MissingIsEmptyKept ==
    ASSUME MissingIsEmpty, [Next]_vars
    PROVE  MissingIsEmpty'
<1> USE DEF MissingIsEmpty, Write, Absent
<1>1. ASSUME NEW s \in Syncers, SyncStep(s) PROVE MissingIsEmpty'
  BY <1>1 DEF SyncStep, CommitAndSync, Retry, EnsureIndex, ReadRows, BulkSucceeds, SyncFails,
              BulkPartlyFails, BulkTimesOut
<1>2. ASSUME NEW d \in late, LateBulk(d) PROVE MissingIsEmpty'
  BY <1>2 DEF LateBulk
<1>3. CASE Restart \/ ReindexStep
  BY <1>3 DEF Restart, ReindexStep, StartReindex, ReindexReads, ReindexWrites, ReindexStops
<1>4. CASE UNCHANGED vars
  BY <1>4 DEF vars
<1> QED BY <1>1, <1>2, <1>3, <1>4 DEF Next

LEMMA ReadsFitKept ==
    ASSUME SyncTypes, ReadsFit, [Next]_vars
    PROVE  ReadsFit'
<1> USE ProcFacts DEF SyncTypes, ReadsFit, Goto
<1>1. ASSUME NEW s \in Syncers, SyncStep(s) PROVE ReadsFit'
  <2>1. CASE \E T \in SUBSET Tickets : CommitAndSync(s, T)
    BY <2>1 DEF CommitAndSync
  <2>2. CASE Retry(s) \/ EnsureIndex(s)
    BY <2>2 DEF Retry, EnsureIndex
  <2>3. CASE ReadRows(s)
    BY <2>3 DEF ReadRows, Rows
  <2>4. CASE BulkSucceeds(s) \/ SyncFails(s) \/ BulkPartlyFails(s) \/ BulkTimesOut(s)
    <3>1. Returns(s)
      BY <2>4 DEF BulkSucceeds, SyncFails, BulkPartlyFails, BulkTimesOut, Defer
    <3> QED BY <3>1 DEF Returns
  <2> QED BY <1>1, <2>1, <2>2, <2>3, <2>4 DEF SyncStep
<1>2. ASSUME NEW d \in late, LateBulk(d) PROVE ReadsFit'
  BY <1>2 DEF LateBulk, syncVars
<1>3. CASE Restart
  BY <1>3 DEF Restart
<1>4. CASE ReindexStep
  <2>1. \A s \in Syncers : pc'[s] = pc[s] /\ docs'[s] = docs[s] /\ ids'[s] = ids[s]
    BY <1>4 DEF ReindexStep, StartReindex, ReindexReads, ReindexStops, ReindexWrites
  <2> QED BY <2>1
<1>5. CASE UNCHANGED vars
  BY <1>5 DEF vars, syncVars
<1> QED BY <1>1, <1>2, <1>3, <1>4, <1>5 DEF Next

-----------------------------------------------------------------------------
(* What a step may do to the documents in hand, to the index and to what   *)
(* is pending.                                                             *)

(* A document comes to hand by reading the row.                            *)
LEMMA HandsStep ==
    ASSUME SyncTypes, [Next]_vars, NEW d \in InHand'
    PROVE  \/ d \in InHand
           \/ DOMAIN d \subseteq Tickets /\ \A t \in DOMAIN d : d[t] = db[t] /\ db'[t] = db[t]
<1> USE ProcFacts DEF SyncTypes, InHand
<1>0. DOMAIN NoDocs = {}
  BY DEF NoDocs
<1>1. ASSUME NEW s \in Syncers, SyncStep(s)
      PROVE  \/ d \in InHand
             \/ DOMAIN d \subseteq Tickets /\ \A t \in DOMAIN d : d[t] = db[t] /\ db'[t] = db[t]
  <2>1. CASE docs' = docs /\ late' = late
    BY <2>1
  <2>2. CASE ReadRows(s)
    BY <2>2 DEF ReadRows, Rows
  <2>3. CASE docs' = [docs EXCEPT ![s] = NoDocs] /\ late' \subseteq late \cup {docs[s]}
    BY <1>0, <2>3
  <2>4. (docs' = docs /\ late' = late) \/ ReadRows(s)
          \/ (docs' = [docs EXCEPT ![s] = NoDocs] /\ late' \subseteq late \cup {docs[s]})
    BY <1>1 DEF SyncStep, CommitAndSync, Retry, EnsureIndex, BulkSucceeds, SyncFails, BulkPartlyFails,
                BulkTimesOut, Defer, Returns
  <2> QED BY <2>1, <2>2, <2>3, <2>4
<1>2. ASSUME NEW e \in late, LateBulk(e) PROVE d \in InHand
  BY <1>2 DEF LateBulk
<1>3. CASE Restart
  BY <1>0, <1>3 DEF Restart
<1>4. CASE ReindexStep
  <2>1. CASE docs' = docs /\ late' = late
    BY <2>1
  <2>2. CASE ReindexReads
    <3>1. NextBatch \subseteq Tickets
      BY DEF NextBatch, AfterCursor
    <3>2. /\ docs' = [docs EXCEPT ![Reindexer] = [t \in NextBatch |-> db[t]]]
          /\ UNCHANGED <<db, late>>
      BY <2>2 DEF ReindexReads, Rows
    <3>3. PICK rows : rows = [t \in NextBatch |-> db[t]]
      OBVIOUS
    <3>4. d \in InHand \/ d = rows
      BY <3>2, <3>3
    <3> QED BY <3>1, <3>2, <3>3, <3>4
  <2>3. CASE docs' = [docs EXCEPT ![Reindexer] = NoDocs] /\ late' = late
    BY <1>0, <2>3
  <2> QED BY <1>4, <2>1, <2>2, <2>3 DEF ReindexStep, StartReindex, ReindexStops, ReindexWrites
<1>5. CASE UNCHANGED vars
  BY <1>5 DEF vars
<1> QED BY <1>1, <1>2, <1>3, <1>4, <1>5 DEF Next

Written(t) == \E d \in InHand : t \in DOMAIN d /\ index'[t] = d[t]

(* A document changes by a write of one in hand, or by a drop.             *)
LEMMA IndexStep ==
    ASSUME SyncTypes, ReadsFit, MissingIsEmpty, [Next]_vars, NEW t \in Tickets
    PROVE  index'[t] = index[t] \/ Written(t) \/ StartReindex(TRUE)
<1> USE ProcFacts DEF SyncTypes, InHand
<1>1. ASSUME NEW d \in InHand, NEW T \in SUBSET DOMAIN d, Write([x \in T |-> d[x]])
      PROVE  index'[t] = index[t] \/ Written(t)
  BY <1>1 DEF Write, Written
<1>2. ASSUME NEW d \in InHand, Write(d) PROVE index'[t] = index[t] \/ Written(t)
  BY <1>2 DEF Write, Written
<1>3. \A p \in Procs : docs[p] \in InHand
  OBVIOUS
<1> HIDE DEF InHand
<1>4. ASSUME NEW s \in Syncers, SyncStep(s) PROVE index'[t] = index[t] \/ Written(t)
  <2>1. CASE EnsureIndex(s)
    BY <2>1 DEF EnsureIndex, MissingIsEmpty
  <2>2. CASE BulkSucceeds(s)
    BY <1>2, <1>3, <2>2 DEF BulkSucceeds
  <2>3. CASE BulkPartlyFails(s)
    <3>1. DOMAIN docs[s] = ids[s]
      BY <2>3 DEF BulkPartlyFails, ReadsFit
    <3>2. PICK T \in SUBSET ids[s] : Write([x \in T |-> docs[s][x]])
      BY <2>3 DEF BulkPartlyFails
    <3> QED BY <1>1, <1>3, <3>1, <3>2
  <2>4. EnsureIndex(s) \/ BulkSucceeds(s) \/ BulkPartlyFails(s) \/ UNCHANGED index
    BY <1>4 DEF SyncStep, CommitAndSync, Retry, ReadRows, SyncFails, BulkTimesOut
  <2> QED BY <2>1, <2>2, <2>3, <2>4
<1>5. ASSUME NEW d \in late, LateBulk(d) PROVE index'[t] = index[t] \/ Written(t)
  <2>1. d \in InHand
    BY DEF InHand
  <2> QED BY <1>2, <1>5, <2>1 DEF LateBulk
<1>6. CASE ReindexStep
  <2>1. CASE StartReindex(FALSE)
    BY <2>1 DEF StartReindex, MissingIsEmpty
  <2>2. ASSUME NEW T \in SUBSET Tickets, ReindexWrites(T) PROVE index'[t] = index[t] \/ Written(t)
    BY <1>1, <1>3, <2>2 DEF ReindexWrites
  <2>3. CASE ReindexReads \/ ReindexStops
    BY <2>3 DEF ReindexReads, ReindexStops
  <2> QED BY <1>6, <2>1, <2>2, <2>3 DEF ReindexStep
<1>7. CASE Restart \/ UNCHANGED vars
  BY <1>7 DEF Restart, vars
<1> QED BY <1>4, <1>5, <1>6, <1>7 DEF Next

(* A ticket leaves what is pending, or goes from the ids of a sync to      *)
(* elsewhere than there, when it has been written; a restart forgets it.   *)
Kept(t) ==
    /\ t \in pending => t \in pending'
    /\ \A s \in Syncers : t \in ids[s] => t \in ids'[s] \/ t \in pending'

LEMMA RepairsStep ==
    ASSUME SyncTypes, ReadsFit, [Next]_vars, NEW t \in Tickets
    PROVE  Kept(t) \/ Written(t) \/ Restart
<1> USE ProcFacts DEF SyncTypes, Kept
<1>1. ASSUME NEW s \in Syncers, SyncStep(s) PROVE Kept(t) \/ Written(t)
  <2>1. CASE \E T \in SUBSET Tickets : CommitAndSync(s, T)
    <3>1. ids[s] = {} /\ UNCHANGED pending /\ \E T : ids' = [ids EXCEPT ![s] = T]
      BY <2>1 DEF CommitAndSync, ReadsFit
    <3> QED BY <3>1
  <2>2. CASE Retry(s)
    <3>1. ids[s] = {} /\ UNCHANGED pending /\ ids' = [ids EXCEPT ![s] = pending]
      BY <2>2 DEF Retry, ReadsFit
    <3> QED BY <3>1
  <2>3. CASE EnsureIndex(s) \/ ReadRows(s)
    BY <2>3 DEF EnsureIndex, ReadRows
  <2>4. CASE BulkSucceeds(s)
    <3>1. DOMAIN docs[s] = ids[s] /\ docs[s] \in InHand
      BY <2>4 DEF BulkSucceeds, ReadsFit, InHand
    <3>2. t \in ids[s] => Written(t)
      BY <2>4, <3>1 DEF BulkSucceeds, Write, Written
    <3>3. pending' = pending \ ids[s] /\ ids' = [ids EXCEPT ![s] = {}]
      BY <2>4 DEF BulkSucceeds, PendingAfterSuccess, Returns
    <3> QED BY <3>2, <3>3
  <2>5. CASE SyncFails(s) \/ BulkPartlyFails(s) \/ BulkTimesOut(s)
    <3>1. pending' = pending \cup ids[s] /\ ids' = [ids EXCEPT ![s] = {}]
      BY <2>5 DEF SyncFails, BulkPartlyFails, BulkTimesOut, Defer, Returns, PendingAfterFailure
    <3> QED BY <3>1
  <2> QED BY <1>1, <2>1, <2>2, <2>3, <2>4, <2>5 DEF SyncStep
<1>2. ASSUME UNCHANGED <<pending, ids>> PROVE Kept(t)
  BY <1>2
<1>3. ASSUME NEW d \in late, LateBulk(d) PROVE UNCHANGED <<pending, ids>>
  BY <1>3 DEF LateBulk, syncVars
<1>4. CASE ReindexStep
  BY <1>2, <1>4 DEF ReindexStep, StartReindex, ReindexReads, ReindexStops, ReindexWrites
<1>5. CASE UNCHANGED vars
  BY <1>2, <1>5 DEF vars, syncVars
<1> QED BY <1>1, <1>2, <1>3, <1>4, <1>5 DEF Next

(* A ticket is no longer excused when it commits with none of its          *)
(* documents in hand, or when a reindex has written it with none outdated. *)
LEMMA ExcusedStep ==
    ASSUME SyncTypes, [Next]_vars, NEW t \in Tickets, t \notin excused'
    PROVE  \/ \E s \in Syncers, T \in SUBSET Tickets :
                 CommitAndSync(s, T) /\ t \in T /\ \A d \in InHand : t \notin DOMAIN d
           \/ db'[t] = db[t] /\ ~Outdated(t) /\ Written(t) /\ \E T \in SUBSET Tickets : ReindexWrites(T)
           \/ db'[t] = db[t] /\ t \notin excused
<1> USE ProcFacts DEF SyncTypes
<1>1. ASSUME NEW s \in Syncers, NEW T \in SUBSET Tickets, CommitAndSync(s, T)
      PROVE  \/ CommitAndSync(s, T) /\ t \in T /\ \A d \in InHand : t \notin DOMAIN d
             \/ db'[t] = db[t] /\ t \notin excused
  BY <1>1 DEF CommitAndSync, Overtakable
<1>2. ASSUME NEW T \in SUBSET Tickets, ReindexWrites(T), t \in excused
      PROVE  db'[t] = db[t] /\ ~Outdated(t) /\ Written(t)
  <2>1. t \in T /\ ~Outdated(t) /\ db' = db
    BY <1>2 DEF ReindexWrites
  <2>2. docs[Reindexer] \in InHand /\ T \subseteq DOMAIN docs[Reindexer]
        /\ Write([x \in T |-> docs[Reindexer][x]])
    BY <1>2 DEF ReindexWrites, InHand
  <2> QED BY <2>1, <2>2 DEF Write, Written
<1>3. ASSUME NEW T \in SUBSET Tickets, ReindexWrites(T) PROVE db' = db
  BY <1>3 DEF ReindexWrites
<1>4. ASSUME NEW s \in Syncers, SyncStep(s), \A T \in SUBSET Tickets : ~CommitAndSync(s, T)
      PROVE  db' = db /\ excused' = excused
  BY <1>4 DEF SyncStep, Retry, EnsureIndex, ReadRows, BulkSucceeds, SyncFails, BulkPartlyFails, BulkTimesOut
<1>5. ASSUME NEW d \in late, LateBulk(d) PROVE db' = db /\ excused' = excused
  BY <1>5 DEF LateBulk
<1>6. CASE Restart
  BY <1>6 DEF Restart
<1>7. ASSUME NEW recreate \in BOOLEAN, StartReindex(recreate) PROVE db' = db /\ t \notin excused
  BY <1>7 DEF StartReindex
<1>8. CASE ReindexReads \/ ReindexStops \/ UNCHANGED vars
  BY <1>8 DEF ReindexReads, ReindexStops, vars
<1> QED BY <1>1, <1>2, <1>3, <1>4, <1>5, <1>6, <1>7, <1>8 DEF Next, ReindexStep

LEMMA HandsCurrentKept ==
    ASSUME SyncIInv, [Next]_vars
    PROVE  HandsCurrent'
<1> SUFFICES ASSUME NEW d \in InHand', NEW t \in DOMAIN d, t \notin excused'
             PROVE  d[t] = db'[t]
  <2>1. \A d \in InHand' : DOMAIN d \subseteq Tickets
    BY HandsStep DEF SyncIInv, HandsCurrent
  <2> QED BY <2>1 DEF HandsCurrent
<1>1. CASE d \in InHand
  <2>1. t \in Tickets
    BY <1>1 DEF SyncIInv, HandsCurrent
  <2> QED BY <1>1, <2>1, ExcusedStep DEF SyncIInv, HandsCurrent, Outdated
<1>2. CASE d \notin InHand
  BY <1>2, HandsStep DEF SyncIInv
<1> QED BY <1>1, <1>2

LEMMA NothingForgottenKept ==
    ASSUME SyncIInv, [Next]_vars
    PROVE  NothingForgotten'
<1> SUFFICES ASSUME NEW t \in Tickets, t \notin excused', index'[t] # db'[t], db'[t] > 0
             PROVE  t \in pending' \/ InProgress(t)'
  BY DEF NothingForgotten
<1> USE DEF SyncIInv
<1>1. ASSUME NEW s \in Syncers, NEW T \in SUBSET Tickets, CommitAndSync(s, T), t \in T
      PROVE  InProgress(t)'
  BY <1>1 DEF CommitAndSync, InProgress, SyncTypes
<1>2. ASSUME Written(t), db'[t] = db[t], ~Outdated(t) \/ t \notin excused PROVE FALSE
  BY <1>2 DEF Written, Outdated, HandsCurrent
<1>3. CASE db'[t] = db[t] /\ t \notin excused
  <2>1. ~Written(t)
    BY <1>2, <1>3
  <2>2. ~StartReindex(TRUE)
    BY DEF StartReindex
  <2>3. t \in pending \/ InProgress(t)
    BY <1>3, <2>1, <2>2, IndexStep DEF NothingForgotten
  <2>4. ~Restart
    BY <2>3 DEF Restart
  <2>5. Kept(t)
    BY <2>1, <2>4, RepairsStep
  <2> QED BY <2>3, <2>5 DEF Kept, InProgress
<1> QED BY <1>1, <1>2, <1>3, ExcusedStep

(* A document that lags its row is being synchronized or waits for the     *)
(* retry, whichever steps of whichever syncs have failed, however many run *)
(* beside one another, beside late requests and beside a reindex, and over *)
(* restarts; unless its row committed while an older document of it was in *)
(* hand, or a restart or a dropped index took it away.                     *)
THEOREM LaggingIsKnown == Spec => []NothingForgotten
<1>1. ASSUME Init PROVE SyncIInv
  <2>1. SyncTypes
    BY <1>1 DEF Init, SyncTypes
  <2>2. MissingIsEmpty
    BY <1>1 DEF Init, MissingIsEmpty
  <2>3. ReadsFit /\ \A d \in InHand : DOMAIN d = {}
    BY <1>1, ProcFacts DEF Init, ReadsFit, InHand, NoDocs
  <2>4. NothingForgotten
    BY <1>1 DEF Init, NothingForgotten
  <2> QED BY <2>1, <2>2, <2>3, <2>4 DEF SyncIInv, HandsCurrent
<1>2. SyncIInv /\ [Next]_vars => SyncIInv'
  BY SyncTypesKept, ReadsFitKept, MissingIsEmptyKept, HandsCurrentKept, NothingForgottenKept DEF SyncIInv
<1>3. SyncIInv => NothingForgotten
  BY DEF SyncIInv
<1> QED BY <1>1, <1>2, <1>3, PTL DEF Spec

-----------------------------------------------------------------------------
(***************************************************************************)
(* Searches behind the cache, for any number of searches, calls beside one *)
(* another, commits, versions, failures and restarts, and with or without  *)
(* the fallback: no search is older than a booking call that was answered  *)
(* before it began and was not overtaken.                                  *)
(***************************************************************************)

(* A result shows what had been answered.                                  *)
Reaches(result, floor) ==
    \A t \in Tickets : floor[t] > 0 => result[t] # Absent /\ result[t] >= floor[t]

(* The read model.                                                         *)
RowsBounded == db \in [Tickets -> 0..MaxCommits] /\ index \in [Tickets -> Nat]

AnsweredTypes == answered \in [Tickets -> Nat] /\ DOMAIN owed = Syncers

(* A document with what was answered and what will be, of one ticket.      *)
UpToDate(x, t) ==
    /\ x \in 0..MaxCommits /\ x >= answered[t]
    /\ \A s \in Syncers : t \in DOMAIN owed[s] => x >= owed[s][t]

(* Whatever may be written is.                                             *)
HandsUpToDate == \A d \in InHand : \A t \in DOMAIN d : t \in Tickets /\ UpToDate(d[t], t)
RowsUpToDate == \A t \in Tickets : UpToDate(db[t], t)

(* A call remembers what it has committed; once its sync is over, what is  *)
(* not pending is in the index.                                            *)
OwedFits ==
    \A s \in Syncers :
        /\ DOMAIN owed[s] \subseteq Tickets
        /\ \A t \in DOMAIN owed[s] :
             /\ owed[s][t] \in Nat
             /\ \/ t \in ids[s] \/ t \in pending
                \/ owed[s][t] > 0 => index[t] # Absent /\ index[t] >= owed[s][t]

ModelIInv ==
    /\ SyncTypes /\ ReadsFit /\ MissingIsEmpty
    /\ RowsBounded /\ AnsweredTypes
    /\ HandsUpToDate /\ RowsUpToDate /\ OwedFits
    /\ Reaches(index, answered)

(* The cache.                                                              *)
Past(p) == spc[p] \in {"get", "query", "set"}

CacheTypes ==
    /\ version \in 0..MaxVersion
    /\ DOMAIN entry = 0..MaxVersion
    /\ DOMAIN spc = Searchers /\ DOMAIN sval = Searchers
    /\ skey \in [Searchers -> 0..MaxVersion]
    /\ sfloor \in [Searchers -> [Tickets -> Nat]]

(* What is cached for a version, and what searches are about to store.     *)
Fills(k) ==
    ({entry[k]} \ {NoResult}) \cup {sval[p] : p \in {q \in Searchers : spc[q] = "set" /\ skey[q] = k}}

(* No version is used before it comes.                                     *)
FutureUnused ==
    /\ \A p \in Searchers : skey[p] <= version
    /\ \A k \in 0..MaxVersion : k > version => entry[k] = NoResult

CurrentFresh == \A x \in Fills(version) : Reaches(x, answered)

(* All that a search may find under its version reaches its floor, and so  *)
(* does what it was served.                                                *)
FindsFresh(p) ==
    /\ \A k \in 0..MaxVersion : Past(p) /\ skey[p] = k => \A x \in Fills(k) : Reaches(x, sfloor[p])
    /\ spc[p] = "served" => Reaches(sval[p], sfloor[p])

FloorAnswered(p) == \A t \in Tickets : sfloor[p][t] <= answered[t]

SearchesFresh == \A p \in Searchers : FloorAnswered(p) /\ FindsFresh(p)

StoreIInv == CacheTypes /\ FutureUnused /\ CurrentFresh /\ SearchesFresh

-----------------------------------------------------------------------------
LEMMA StepOfSync ==
    ASSUME [CacheNext]_allVars
    PROVE  [Next]_vars
<1>1. ASSUME NEW s \in Syncers, CallCommits(s) PROVE Next
  BY <1>1 DEF CallCommits, Next, SyncStep
<1>2. ASSUME NEW s \in Syncers, TimerRetries(s) \/ Synchronizes(s) PROVE Next
  BY <1>2 DEF TimerRetries, Synchronizes, Next, SyncStep
<1>3. ASSUME NEW s \in Syncers, CallAnswers(s) PROVE UNCHANGED vars
  BY <1>3 DEF CallAnswers
<1>4. ASSUME NEW p \in Searchers, BeginSearch(p) \/ SearchStep(p) PROVE UNCHANGED vars
  BY <1>4 DEF BeginSearch, SearchStep, GetHit, GetMiss, AskIndex, AskTable, Store
<1>5. ASSUME NEW k \in 0..MaxVersion, Evict(k) PROVE UNCHANGED vars
  BY <1>5 DEF Evict
<1>6. CASE Restarts
  BY <1>6 DEF Restarts, Next
<1>7. CASE UNCHANGED allVars
  BY <1>7 DEF allVars
<1> QED BY <1>1, <1>2, <1>3, <1>4, <1>5, <1>6, <1>7 DEF CacheNext

LEMMA LowerFloor ==
    ASSUME NEW result, NEW high \in [Tickets -> Nat], NEW low \in [Tickets -> Nat],
           \A t \in Tickets : low[t] <= high[t], Reaches(result, high),
           \A t \in Tickets : high[t] > 0 => result[t] \in Nat
    PROVE  Reaches(result, low)
<1> SUFFICES ASSUME NEW t \in Tickets, low[t] > 0
             PROVE  result[t] # Absent /\ result[t] >= low[t]
  BY DEF Reaches
<1>1. high[t] > 0 /\ high[t] \in Nat /\ low[t] \in Nat /\ low[t] <= high[t]
  OBVIOUS
<1>2. result[t] # Absent /\ result[t] >= high[t] /\ result[t] \in Nat
  BY <1>1 DEF Reaches
<1> QED BY <1>1, <1>2

-----------------------------------------------------------------------------
(* The read model.                                                         *)

(* No reindex begins here, and a restart is one of the searches too.       *)
LEMMA StepsHere ==
    ASSUME SyncTypes, [CacheNext]_allVars
    PROVE  ~StartReindex(TRUE) /\ (Restart => Restarts)
<1>1. reindexes' = reindexes /\ (Restarts \/ restarts' = restarts)
  <2>1. ASSUME NEW s \in Syncers, CallCommits(s) \/ TimerRetries(s) \/ Synchronizes(s) \/ CallAnswers(s)
        PROVE  UNCHANGED <<restarts, reindexes>>
    BY <2>1 DEF CallCommits, TimerRetries, Synchronizes, CallAnswers, CommitAndSync, Retry, EnsureIndex,
                ReadRows, BulkSucceeds, SyncFails, BulkPartlyFails, vars, boundVars
  <2>2. CASE Restarts
    BY <2>2 DEF Restarts, Restart
  <2>3. ASSUME NEW p \in Searchers, BeginSearch(p) \/ SearchStep(p) PROVE UNCHANGED <<restarts, reindexes>>
    BY <2>3 DEF BeginSearch, SearchStep, GetHit, GetMiss, AskIndex, AskTable, Store, vars, boundVars
  <2>4. ASSUME NEW k \in 0..MaxVersion, Evict(k) PROVE UNCHANGED <<restarts, reindexes>>
    BY <2>4 DEF Evict, vars, boundVars
  <2>5. CASE UNCHANGED allVars
    BY <2>5 DEF allVars, vars, boundVars
  <2> QED BY <2>1, <2>2, <2>3, <2>4, <2>5 DEF CacheNext
<1>2. StartReindex(TRUE) => reindexes' = reindexes + 1
  BY DEF StartReindex
<1>3. Restart => restarts' = restarts + 1
  BY DEF Restart
<1>4. restarts # restarts + 1 /\ reindexes # reindexes + 1
  BY DEF SyncTypes
<1> QED BY <1>1, <1>2, <1>3, <1>4

(* What is up to date stays so, unless a call commits the ticket.          *)
LEMMA UpToDateKept ==
    ASSUME ModelIInv, [CacheNext]_allVars,
           \A s \in Syncers : ~CallCommits(s), NEW t \in Tickets, NEW x, UpToDate(x, t)
    PROVE  UpToDate(x, t)'
<1> USE DEF UpToDate, ModelIInv, AnsweredTypes
<1>1. ASSUME NEW s \in Syncers, CallAnswers(s) PROVE UpToDate(x, t)'
  <2>1. DOMAIN NoDocs = {}
    BY DEF NoDocs
  <2>2. owed' = [owed EXCEPT ![s] = NoDocs]
    BY <1>1 DEF CallAnswers
  <2>3. answered'[t] = answered[t] \/ (t \in DOMAIN owed[s] /\ answered'[t] = owed[s][t])
    BY <1>1 DEF CallAnswers
  <2> QED BY <2>1, <2>2, <2>3
<1>2. CASE Restarts
  <2>1. answered' = answered /\ \A s \in Syncers : DOMAIN owed'[s] = {}
    BY <1>2 DEF Restarts, NoDocs
  <2> QED BY <2>1
<1>3. ASSUME UNCHANGED <<owed, answered>> PROVE UpToDate(x, t)'
  BY <1>3
<1>4. ASSUME NEW s \in Syncers, TimerRetries(s) \/ Synchronizes(s) PROVE UNCHANGED <<owed, answered>>
  BY <1>4 DEF TimerRetries, Synchronizes, cacheVars
<1>5. ASSUME NEW p \in Searchers, BeginSearch(p) \/ SearchStep(p) PROVE UNCHANGED <<owed, answered>>
  BY <1>5 DEF BeginSearch, SearchStep, GetHit, GetMiss, AskIndex, AskTable, Store
<1>6. ASSUME NEW k \in 0..MaxVersion, Evict(k) PROVE UNCHANGED <<owed, answered>>
  BY <1>6 DEF Evict
<1>7. CASE UNCHANGED allVars
  BY <1>7 DEF allVars, cacheVars
<1> QED BY <1>1, <1>2, <1>3, <1>4, <1>5, <1>6, <1>7 DEF CacheNext

(* A commit: what is in hand keeps the call from owing it.                 *)
LEMMA CommitKeepsModel ==
    ASSUME ModelIInv, NEW s \in Syncers, CallCommits(s)
    PROVE  ModelIInv'
<1> USE SearchSyncAssumption, ProcFacts
<1>0. [Next]_vars
  BY DEF CallCommits, Next, SyncStep
<1>1. SyncTypes' /\ ReadsFit' /\ MissingIsEmpty'
  BY <1>0, SyncTypesKept, ReadsFitKept, MissingIsEmptyKept DEF ModelIInv
<1>2. PICK T \in SUBSET Tickets :
         CommitAndSync(s, T) /\ owed' = [owed EXCEPT ![s] = [t \in T |-> IF t \in excused' THEN 0 ELSE db'[t]]]
  BY DEF CallCommits
<1>3. /\ db' = [t \in Tickets |-> IF t \in T THEN db[t] + 1 ELSE db[t]]
      /\ \A t \in T : db[t] < MaxCommits
      /\ ids' = [ids EXCEPT ![s] = T] /\ pc[s] = "idle"
      /\ excused' = (excused \ T) \cup Overtakable(T)
      /\ UNCHANGED <<index, docs, late, pending, answered>>
  BY <1>2 DEF CommitAndSync, CallCommits
<1>4. RowsBounded' /\ \A t \in Tickets : db'[t] \in 0..MaxCommits /\ db[t] <= db'[t]
  <2>1. \A t \in Tickets : db'[t] \in 0..MaxCommits /\ db[t] <= db'[t]
    BY <1>3 DEF ModelIInv, RowsBounded
  <2> QED BY <1>3, <2>1 DEF ModelIInv, RowsBounded
<1>5. AnsweredTypes'
  BY <1>2, <1>3 DEF ModelIInv, AnsweredTypes
<1>6. /\ DOMAIN owed'[s] = T
      /\ \A t \in T : owed'[s][t] = IF t \in excused' THEN 0 ELSE db'[t]
      /\ \A x \in Syncers \ {s} : owed'[x] = owed[x]
  BY <1>2 DEF ModelIInv, AnsweredTypes
<1>7. HandsUpToDate'
  <2>1. InHand' = InHand
    BY <1>3 DEF InHand
  <2>2. ASSUME NEW d \in InHand, NEW t \in DOMAIN d PROVE t \in Tickets /\ UpToDate(d[t], t)'
    <3>1. t \in Tickets /\ UpToDate(d[t], t)
      BY DEF ModelIInv, HandsUpToDate
    <3>2. t \in T => owed'[s][t] = 0
      BY <1>3, <1>6 DEF Overtakable
    <3> QED BY <1>3, <1>6, <3>1, <3>2 DEF UpToDate
  <2> QED BY <2>1, <2>2 DEF HandsUpToDate
<1>8. RowsUpToDate'
  <2> SUFFICES ASSUME NEW t \in Tickets PROVE UpToDate(db[t], t)'
    BY DEF RowsUpToDate
  <2>1. UpToDate(db[t], t)
    BY DEF ModelIInv, RowsUpToDate
  <2>2. db'[t] \in 0..MaxCommits /\ db[t] <= db'[t] /\ db[t] \in Nat /\ answered[t] \in Nat
    BY <1>4 DEF ModelIInv, RowsBounded, AnsweredTypes
  <2>3. db'[t] >= answered'[t]
    BY <1>3, <2>1, <2>2 DEF UpToDate
  <2>4. ASSUME NEW x \in Syncers, t \in DOMAIN owed'[x] PROVE db'[t] >= owed'[x][t]
    <3>1. CASE x = s
      <4>1. t \in T /\ owed'[x][t] \in {0, db'[t]}
        BY <1>6, <2>4, <3>1
      <4> QED BY <2>2, <4>1
    <3>2. CASE x # s
      <4>1. owed'[x] = owed[x] /\ owed[x][t] \in Nat /\ db[t] >= owed[x][t]
        BY <1>6, <2>1, <2>4, <3>2 DEF UpToDate, ModelIInv, OwedFits
      <4> QED BY <2>2, <4>1
    <3> QED BY <3>1, <3>2
  <2> QED BY <2>2, <2>3, <2>4 DEF UpToDate
<1>9. OwedFits'
  <2> SUFFICES ASSUME NEW x \in Syncers
               PROVE  /\ DOMAIN owed'[x] \subseteq Tickets
                      /\ \A t \in DOMAIN owed'[x] :
                           /\ owed'[x][t] \in Nat
                           /\ \/ t \in ids'[x] \/ t \in pending'
                              \/ owed'[x][t] > 0 => index'[t] # Absent /\ index'[t] >= owed'[x][t]
    BY DEF OwedFits
  <2>1. CASE x = s
    <3>1. DOMAIN owed'[x] = T /\ ids'[x] = T
      BY <1>3, <1>6, <2>1 DEF ModelIInv, SyncTypes
    <3>2. \A t \in T : owed'[x][t] \in Nat
      BY <1>4, <1>6, <2>1
    <3> QED BY <3>1, <3>2
  <2>2. CASE x # s
    BY <1>3, <1>6, <2>2 DEF ModelIInv, SyncTypes, OwedFits
  <2> QED BY <2>1, <2>2
<1>10. Reaches(index, answered)'
  BY <1>3 DEF ModelIInv, Reaches
<1> QED BY <1>1, <1>4, <1>5, <1>7, <1>8, <1>9, <1>10 DEF ModelIInv

(* Any other step writes what is up to date, and gives up no ticket of a   *)
(* call that has not been written.                                         *)
LEMMA OthersKeepModel ==
    ASSUME ModelIInv, [CacheNext]_allVars, \A s \in Syncers : ~CallCommits(s)
    PROVE  ModelIInv'
<1> USE SearchSyncAssumption, ProcFacts
<1>0. [Next]_vars /\ ~StartReindex(TRUE) /\ (Restart => Restarts)
  BY StepOfSync, StepsHere DEF ModelIInv
<1>1. SyncTypes' /\ ReadsFit' /\ MissingIsEmpty'
  BY <1>0, SyncTypesKept, ReadsFitKept, MissingIsEmptyKept DEF ModelIInv
<1>2. db' = db
  <2>1. ASSUME NEW s \in Syncers, TimerRetries(s) \/ Synchronizes(s) \/ CallAnswers(s) PROVE db' = db
    BY <2>1 DEF TimerRetries, Synchronizes, CallAnswers, Retry, EnsureIndex, ReadRows, BulkSucceeds,
                SyncFails, BulkPartlyFails, vars
  <2>2. CASE Restarts
    BY <2>2 DEF Restarts, Restart
  <2>3. ASSUME NEW p \in Searchers, BeginSearch(p) \/ SearchStep(p) PROVE db' = db
    BY <2>3 DEF BeginSearch, SearchStep, GetHit, GetMiss, AskIndex, AskTable, Store, vars
  <2>4. ASSUME NEW k \in 0..MaxVersion, Evict(k) PROVE db' = db
    BY <2>4 DEF Evict, vars
  <2>5. CASE UNCHANGED allVars
    BY <2>5 DEF allVars, vars
  <2> QED BY <2>1, <2>2, <2>3, <2>4, <2>5 DEF CacheNext
<1>3. ASSUME NEW t \in Tickets
      PROVE  \/ index'[t] = index[t]
             \/ UpToDate(index'[t], t) /\ Written(t)
  BY <1>0, IndexStep DEF ModelIInv, HandsUpToDate, Written
<1>4. ASSUME NEW t \in Tickets, Written(t) PROVE UpToDate(index'[t], t)
  BY <1>4 DEF ModelIInv, HandsUpToDate, Written
<1>5. RowsBounded'
  <2>1. index' = [t \in Tickets |-> index'[t]]
    <3>1. index' = index \/ \E d : index' = [t \in Tickets |-> d[t]]
      BY <1>0 DEF Next, SyncStep, ReindexStep, CommitAndSync, Retry, EnsureIndex, ReadRows, BulkSucceeds,
         SyncFails, BulkPartlyFails, BulkTimesOut, LateBulk, Restart, StartReindex, ReindexReads,
         ReindexWrites, ReindexStops, Write, vars
    <3>2. DOMAIN index = Tickets /\ index = [t \in Tickets |-> index[t]]
      BY DEF ModelIInv, RowsBounded
    <3> QED BY <3>1, <3>2
  <2>2. \A t \in Tickets : index'[t] \in Nat
    BY <1>3 DEF ModelIInv, RowsBounded, UpToDate
  <2> QED BY <1>2, <2>1, <2>2 DEF ModelIInv, RowsBounded
<1>6. /\ AnsweredTypes'
      /\ \A s \in Syncers : owed'[s] = owed[s] \/ DOMAIN owed'[s] = {}
      /\ \A t \in Tickets : \/ answered'[t] = answered[t]
                            \/ \E s \in Syncers : /\ CallAnswers(s) /\ t \in DOMAIN owed[s] \ pending
                                                  /\ answered'[t] = owed[s][t]
  <2> USE DEF ModelIInv, AnsweredTypes
  <2>0. DOMAIN NoDocs = {}
    BY DEF NoDocs
  <2>1. ASSUME NEW s \in Syncers, CallAnswers(s)
        PROVE  /\ AnsweredTypes'
               /\ \A x \in Syncers : owed'[x] = owed[x] \/ DOMAIN owed'[x] = {}
               /\ \A t \in Tickets : \/ answered'[t] = answered[t]
                                     \/ t \in DOMAIN owed[s] \ pending /\ answered'[t] = owed[s][t]
    BY <2>0, <2>1 DEF CallAnswers, OwedFits
  <2>2. CASE Restarts
    BY <2>0, <2>2 DEF Restarts
  <2>3. CASE UNCHANGED <<owed, answered>>
    BY <2>3
  <2>4. ASSUME NEW s \in Syncers, TimerRetries(s) \/ Synchronizes(s) PROVE UNCHANGED <<owed, answered>>
    BY <2>4 DEF TimerRetries, Synchronizes, cacheVars
  <2>5. ASSUME NEW p \in Searchers, BeginSearch(p) \/ SearchStep(p) PROVE UNCHANGED <<owed, answered>>
    BY <2>5 DEF BeginSearch, SearchStep, GetHit, GetMiss, AskIndex, AskTable, Store
  <2>6. ASSUME NEW k \in 0..MaxVersion, Evict(k) PROVE UNCHANGED <<owed, answered>>
    BY <2>6 DEF Evict
  <2>7. CASE UNCHANGED allVars
    BY <2>7 DEF allVars, cacheVars
  <2> QED BY <2>1, <2>2, <2>3, <2>4, <2>5, <2>6, <2>7 DEF CacheNext
<1>7. HandsUpToDate'
  <2> SUFFICES ASSUME NEW d \in InHand', NEW t \in DOMAIN d PROVE t \in Tickets /\ UpToDate(d[t], t)'
    BY DEF HandsUpToDate
  <2>1. t \in Tickets /\ UpToDate(d[t], t)
    <3>1. CASE d \in InHand
      BY <3>1 DEF ModelIInv, HandsUpToDate
    <3>2. CASE d \notin InHand
      BY <1>0, <3>2, HandsStep DEF ModelIInv, RowsUpToDate
    <3> QED BY <3>1, <3>2
  <2>2. PICK x : x = d[t]
    OBVIOUS
  <2>3. UpToDate(x, t)'
    BY <2>1, <2>2, UpToDateKept
  <2> QED BY <2>1, <2>2, <2>3
<1>8. RowsUpToDate'
  <2> SUFFICES ASSUME NEW t \in Tickets PROVE UpToDate(db[t], t)'
    BY DEF RowsUpToDate
  <2>1. PICK x : x = db[t]
    OBVIOUS
  <2>2. UpToDate(x, t)'
    BY <2>1, UpToDateKept DEF ModelIInv, RowsUpToDate
  <2> QED BY <1>2, <2>1, <2>2 DEF UpToDate
<1>9. OwedFits'
  <2> SUFFICES ASSUME NEW s \in Syncers, NEW t \in DOMAIN owed'[s]
               PROVE  /\ t \in Tickets /\ owed'[s][t] \in Nat
                      /\ \/ t \in ids'[s] \/ t \in pending'
                         \/ owed'[s][t] > 0 => index'[t] # Absent /\ index'[t] >= owed'[s][t]
    BY DEF OwedFits
  <2>1. owed'[s] = owed[s] /\ t \in DOMAIN owed[s] /\ t \in Tickets /\ owed[s][t] \in Nat
    BY <1>6 DEF ModelIInv, OwedFits
  <2>2. ASSUME UpToDate(index'[t], t)
        PROVE  owed[s][t] > 0 => index'[t] # Absent /\ index'[t] >= owed[s][t]
    BY <2>1, <2>2 DEF UpToDate, Absent
  <2>3. ASSUME index'[t] = index[t], t \notin ids[s], t \notin pending
        PROVE  owed[s][t] > 0 => index'[t] # Absent /\ index'[t] >= owed[s][t]
    BY <2>1, <2>3 DEF ModelIInv, OwedFits
  <2>4. ASSUME t \in ids[s] \/ t \in pending, ~Written(t) PROVE t \in ids'[s] \/ t \in pending'
    <3>1. ~Restart
      BY <1>0 DEF Restarts, NoDocs
    <3>2. Kept(t)
      BY <1>0, <2>1, <2>4, <3>1, RepairsStep DEF ModelIInv
    <3> QED BY <2>4, <3>2 DEF Kept
  <2> QED BY <1>3, <1>4, <2>1, <2>2, <2>3, <2>4
<1>10. Reaches(index, answered)'
  <2> SUFFICES ASSUME NEW t \in Tickets, answered'[t] > 0
               PROVE  index'[t] # Absent /\ index'[t] >= answered'[t]
    BY DEF Reaches
  <2>1. CASE answered'[t] = answered[t]
    <3>1. index[t] # Absent /\ index[t] >= answered[t]
      BY <2>1 DEF ModelIInv, Reaches
    <3>2. UpToDate(index'[t], t) => index'[t] # Absent /\ index'[t] >= answered[t]
      BY DEF UpToDate, Absent
    <3> QED BY <1>3, <2>1, <3>1, <3>2
  <2>2. ASSUME NEW s \in Syncers, CallAnswers(s), t \in DOMAIN owed[s] \ pending, answered'[t] = owed[s][t]
        PROVE  index'[t] # Absent /\ index'[t] >= answered'[t]
    <3>1. index' = index /\ ids[s] = {}
      BY <2>2 DEF CallAnswers, vars, ModelIInv, ReadsFit
    <3> QED BY <2>2, <3>1 DEF ModelIInv, OwedFits
  <2> QED BY <1>6, <2>1, <2>2
<1> QED BY <1>1, <1>5, <1>6, <1>7, <1>8, <1>9, <1>10 DEF ModelIInv

LEMMA ModelKept ==
    ASSUME ModelIInv, [CacheNext]_allVars
    PROVE  ModelIInv'
BY CommitKeepsModel, OthersKeepModel

-----------------------------------------------------------------------------
(* The cache.                                                              *)

(* A step adds nothing to what may be filled for a version, but for a      *)
(* query, which adds what the index or the table shows now.                *)
LEMMA FillsStep ==
    ASSUME CacheTypes, CacheNext, NEW k \in 0..MaxVersion
    PROVE  Fills(k)' \subseteq Fills(k) \cup {index, db}
<1> USE DEF CacheTypes, At
<1>1. ASSUME NEW p \in Searchers, BeginSearch(p) \/ GetHit(p) \/ GetMiss(p)
      PROVE  Fills(k)' \subseteq Fills(k)
  <2>1. UNCHANGED entry /\ spc'[p] # "set"
        /\ \A q \in Searchers \ {p} : spc'[q] = spc[q] /\ skey'[q] = skey[q] /\ sval'[q] = sval[q]
    BY <1>1 DEF BeginSearch, GetHit, GetMiss
  <2> QED BY <2>1 DEF Fills
<1>2. ASSUME NEW p \in Searchers, AskIndex(p) \/ AskTable(p)
      PROVE  Fills(k)' \subseteq Fills(k) \cup {index, db}
  <2>1. /\ UNCHANGED <<entry, skey>> /\ (spc'[p] = "set" => sval'[p] \in {index, db})
        /\ \A q \in Searchers \ {p} : spc'[q] = spc[q] /\ sval'[q] = sval[q]
    BY <1>2 DEF AskIndex, AskTable
  <2> QED BY <2>1 DEF Fills
<1>3. ASSUME NEW p \in Searchers, Store(p) PROVE Fills(k)' \subseteq Fills(k)
  <2>1. /\ UNCHANGED sval /\ spc[p] = "set" /\ spc'[p] = "served"
        /\ \A q \in Searchers \ {p} : spc'[q] = spc[q] /\ skey'[q] = skey[q]
    BY <1>3 DEF Store
  <2>2. entry'[k] = entry[k] \/ (k = skey[p] /\ entry'[k] = sval[p])
    BY <1>3 DEF Store, StoreKey
  <2> QED BY <2>1, <2>2 DEF Fills
<1>4. ASSUME NEW j \in 0..MaxVersion, Evict(j) PROVE Fills(k)' \subseteq Fills(k)
  BY <1>4 DEF Evict, searchVars, Fills
<1>5. ASSUME NEW s \in Syncers, CallCommits(s) \/ TimerRetries(s) \/ Synchronizes(s) \/ CallAnswers(s)
      PROVE  UNCHANGED <<entry, spc, skey, sval>>
  BY <1>5 DEF CallCommits, TimerRetries, Synchronizes, CallAnswers, cacheVars, searchVars
<1>6. CASE Restarts
  <2>1. UNCHANGED entry /\ \A q \in Searchers : spc'[q] = "idle"
    BY <1>6 DEF Restarts
  <2> QED BY <2>1 DEF Fills
<1>7. ASSUME UNCHANGED <<entry, spc, skey, sval>> PROVE Fills(k)' \subseteq Fills(k)
  BY <1>7 DEF Fills
<1> QED BY <1>1, <1>2, <1>3, <1>4, <1>5, <1>6, <1>7 DEF CacheNext, SearchStep

(* All that may be filled shows numbers.                                   *)
FillsTyped == \A k \in 0..MaxVersion : \A x \in Fills(k), t \in Tickets : x[t] \in Nat

LEMMA FillsTypedKept ==
    ASSUME CacheTypes, ModelIInv, FillsTyped, CacheNext
    PROVE  FillsTyped'
<1> SUFFICES ASSUME NEW k \in 0..MaxVersion, NEW x \in Fills(k)', NEW t \in Tickets
             PROVE  x[t] \in Nat
  BY DEF FillsTyped
<1>1. x \in Fills(k) \cup {index, db}
  BY FillsStep
<1> QED BY <1>1, SearchSyncAssumption DEF FillsTyped, ModelIInv, RowsBounded

(* What the index and the table show reaches what every search must see.   *)
LEMMA AnswersReach ==
    ASSUME ModelIInv, CacheTypes, SearchesFresh, NEW x \in {index, db}
    PROVE  Reaches(x, answered) /\ \A p \in Searchers : Reaches(x, sfloor[p])
<1>1. Reaches(x, answered) /\ \A t \in Tickets : x[t] \in Nat
  <2>1. Reaches(db, answered)
    BY SearchSyncAssumption DEF ModelIInv, RowsUpToDate, UpToDate, Reaches, Absent
  <2> QED BY <2>1, SearchSyncAssumption DEF ModelIInv, RowsBounded
<1>2. ASSUME NEW p \in Searchers PROVE Reaches(x, sfloor[p])
  BY <1>1, LowerFloor DEF ModelIInv, AnsweredTypes, CacheTypes, SearchesFresh, FloorAnswered
<1> QED BY <1>1, <1>2

(* A call that answers begins a version nothing is filled for; any other   *)
(* step leaves the version and what was answered.                          *)
LEMMA VersionStep ==
    ASSUME CacheNext
    PROVE  \/ \E s \in Syncers : CallAnswers(s)
           \/ UNCHANGED <<version, answered>>
BY DEF CacheNext, CallCommits, TimerRetries, Synchronizes, cacheVars, Restarts, BeginSearch,
       SearchStep, GetHit, GetMiss, AskIndex, AskTable, Store, Evict

LEMMA CacheTypesKept ==
    ASSUME CacheTypes, ModelIInv, CacheNext
    PROVE  CacheTypes'
<1> USE SearchCacheAssumption DEF CacheTypes, At
<1>1. ASSUME NEW s \in Syncers, CallCommits(s) \/ TimerRetries(s) \/ Synchronizes(s) PROVE CacheTypes'
  BY <1>1 DEF CallCommits, TimerRetries, Synchronizes, cacheVars, searchVars
<1>2. ASSUME NEW s \in Syncers, CallAnswers(s) PROVE CacheTypes'
  BY <1>2 DEF CallAnswers, searchVars
<1>3. CASE Restarts
  BY <1>3 DEF Restarts
<1>4. ASSUME NEW p \in Searchers, BeginSearch(p) PROVE CacheTypes'
  BY <1>4 DEF BeginSearch, ModelIInv, AnsweredTypes
<1>5. ASSUME NEW p \in Searchers, GetHit(p) \/ GetMiss(p) \/ AskIndex(p) \/ AskTable(p) PROVE CacheTypes'
  BY <1>5 DEF GetHit, GetMiss, AskIndex, AskTable
<1>6. ASSUME NEW p \in Searchers, Store(p) PROVE CacheTypes'
  BY <1>6 DEF Store
<1>7. ASSUME NEW k \in 0..MaxVersion, Evict(k) PROVE CacheTypes'
  BY <1>7 DEF Evict, searchVars
<1> QED BY <1>1, <1>2, <1>3, <1>4, <1>5, <1>6, <1>7 DEF CacheNext, SearchStep

LEMMA FutureUnusedKept ==
    ASSUME CacheTypes, FutureUnused, CacheNext
    PROVE  FutureUnused'
<1> USE DEF CacheTypes, FutureUnused, At
<1>1. ASSUME NEW s \in Syncers, CallCommits(s) \/ TimerRetries(s) \/ Synchronizes(s) PROVE FutureUnused'
  BY <1>1 DEF CallCommits, TimerRetries, Synchronizes, cacheVars, searchVars
<1>2. ASSUME NEW s \in Syncers, CallAnswers(s) PROVE FutureUnused'
  BY <1>2 DEF CallAnswers, searchVars
<1>3. CASE Restarts
  BY <1>3 DEF Restarts
<1>4. ASSUME NEW p \in Searchers, BeginSearch(p) PROVE FutureUnused'
  BY <1>4 DEF BeginSearch
<1>5. ASSUME NEW p \in Searchers, GetHit(p) \/ GetMiss(p) \/ AskIndex(p) \/ AskTable(p) PROVE FutureUnused'
  <2>1. UNCHANGED <<version, entry>> /\ skey' \in {skey, [skey EXCEPT ![p] = 0]}
    BY <1>5 DEF GetHit, GetMiss, AskIndex, AskTable
  <2>2. \A q \in Searchers : skey'[q] \in {skey[q], 0}
    BY <2>1
  <2>3. version \in Nat /\ 0 <= version
    OBVIOUS
  <2>4. \A q \in Searchers : skey'[q] <= version'
    BY <2>1, <2>2, <2>3
  <2>5. \A k \in 0..MaxVersion : k > version' => entry'[k] = NoResult
    BY <2>1
  <2> QED BY <2>4, <2>5
<1>6. ASSUME NEW p \in Searchers, Store(p) PROVE FutureUnused'
  BY <1>6 DEF Store, StoreKey
<1>7. ASSUME NEW k \in 0..MaxVersion, Evict(k) PROVE FutureUnused'
  BY <1>7 DEF Evict, searchVars
<1> QED BY <1>1, <1>2, <1>3, <1>4, <1>5, <1>6, <1>7 DEF CacheNext, SearchStep

LEMMA CurrentFreshKept ==
    ASSUME ModelIInv, StoreIInv, CacheNext
    PROVE  CurrentFresh'
<1> USE DEF StoreIInv
<1>1. ASSUME NEW s \in Syncers, CallAnswers(s) PROVE CurrentFresh'
  <2>1. /\ version' = version + 1 /\ version + 1 \in 0..MaxVersion
        /\ UNCHANGED <<entry, spc, skey, sval>>
    BY <1>1, SearchCacheAssumption DEF CallAnswers, searchVars, CacheTypes
  <2>2. \A q \in Searchers : skey[q] <= version /\ skey[q] \in Nat /\ version \in Nat
    BY DEF FutureUnused, CacheTypes
  <2>3. entry[version + 1] = NoResult /\ \A q \in Searchers : skey[q] # version + 1
    <3>1. version + 1 > version
      BY DEF CacheTypes
    <3>2. entry[version + 1] = NoResult
      BY <2>1, <3>1 DEF FutureUnused
    <3> QED BY <2>2, <3>2
  <2>4. Fills(version)' = {}
    BY <2>1, <2>3 DEF Fills
  <2> QED BY <2>4 DEF CurrentFresh
<1>2. CASE UNCHANGED <<version, answered>>
  <2>1. version \in 0..MaxVersion
    BY DEF CacheTypes
  <2>2. Fills(version)' \subseteq Fills(version) \cup {index, db}
    BY <2>1, <1>2, FillsStep DEF Fills
  <2>3. \A x \in Fills(version)' : Reaches(x, answered)
    BY <2>2, AnswersReach DEF CurrentFresh
  <2> QED BY <1>2, <2>3 DEF CurrentFresh, Reaches
<1> QED BY <1>1, <1>2, VersionStep

(* Once its key is read, a search meets only results that reach its floor: *)
(* those filled for its version by then, and those queried later.          *)
LEMMA FillsReach ==
    ASSUME ModelIInv, CacheTypes, SearchesFresh, CacheNext,
           NEW k \in 0..MaxVersion, NEW p \in Searchers,
           \A x \in Fills(k) : Reaches(x, sfloor[p]), sfloor'[p] = sfloor[p]
    PROVE  \A x \in Fills(k)' : Reaches(x, sfloor[p])'
<1>1. \A x \in Fills(k)' : Reaches(x, sfloor[p])
  BY FillsStep, AnswersReach
<1> QED BY <1>1 DEF Reaches

LEMMA FloorAnsweredKept ==
    ASSUME ModelIInv, StoreIInv, CacheNext, NEW p \in Searchers, sfloor'[p] \in {sfloor[p], answered}
    PROVE  FloorAnswered(p)'
<1>1. answered \in [Tickets -> Nat] /\ \A t \in Tickets : sfloor'[p][t] \in Nat /\ sfloor'[p][t] <= answered[t]
  BY DEF StoreIInv, SearchesFresh, FloorAnswered, CacheTypes, ModelIInv, AnsweredTypes
<1>2. ASSUME NEW s \in Syncers, CallAnswers(s), NEW t \in Tickets
      PROVE  answered'[t] \in Nat /\ answered[t] <= answered'[t]
  BY <1>1, <1>2 DEF CallAnswers, ModelIInv, OwedFits
<1> QED BY <1>1, <1>2, VersionStep DEF FloorAnswered

LEMMA OthersFindFresh ==
    ASSUME ModelIInv, StoreIInv, CacheNext, NEW p \in Searchers,
           UNCHANGED <<spc[p], skey[p], sval[p], sfloor[p]>>
    PROVE  FindsFresh(p)'
<1> USE DEF StoreIInv, SearchesFresh
<1>1. ASSUME NEW k \in 0..MaxVersion, Past(p)', skey'[p] = k
      PROVE  \A x \in Fills(k)' : Reaches(x, sfloor[p])'
  BY <1>1, FillsReach DEF FindsFresh, Past
<1>2. spc'[p] = "served" => Reaches(sval[p], sfloor[p])'
  BY DEF FindsFresh, Reaches
<1> QED BY <1>1, <1>2 DEF FindsFresh

LEMMA StepFindsFresh ==
    ASSUME ModelIInv, StoreIInv, FillsTyped, CacheNext, NEW p \in Searchers, SearchStep(p)
    PROVE  FindsFresh(p)' /\ sfloor'[p] = sfloor[p]
<1> USE DEF StoreIInv
<1>1. sfloor'[p] = sfloor[p]
  BY DEF SearchStep, GetHit, GetMiss, AskIndex, AskTable, Store
<1>2. Past(p) /\ skey[p] \in 0..MaxVersion
  BY DEF SearchStep, GetHit, GetMiss, AskIndex, AskTable, Store, At, Past, CacheTypes
<1>3. \A x \in Fills(skey[p]) : Reaches(x, sfloor[p])
  BY <1>2 DEF SearchesFresh, FindsFresh
<1>4. ASSUME Past(p)' PROVE skey'[p] = skey[p]
  BY <1>4 DEF SearchStep, GetHit, GetMiss, AskIndex, AskTable, Store, At, Past, CacheTypes
<1>5. \A k \in 0..MaxVersion : Past(p)' /\ skey'[p] = k => \A x \in Fills(k)' : Reaches(x, sfloor[p])'
  BY <1>1, <1>2, <1>3, <1>4, FillsReach
<1>6. spc'[p] = "served" => sval'[p] \in Fills(skey[p])
  <2>1. CASE GetHit(p)
    BY <2>1 DEF GetHit, At, CacheTypes, Fills
  <2>2. CASE Store(p)
    BY <2>2 DEF Store, At, CacheTypes, Fills
  <2>3. CASE GetMiss(p) \/ AskIndex(p) \/ AskTable(p)
    BY <2>3 DEF GetMiss, AskIndex, AskTable, At, CacheTypes
  <2> QED BY <2>1, <2>2, <2>3 DEF SearchStep
<1>7. spc'[p] = "served" => Reaches(sval'[p], sfloor[p])
  BY <1>3, <1>6
<1>8. (spc[p] = "served" => Reaches(sval[p], sfloor[p]))'
  BY <1>1, <1>7 DEF Reaches
<1> QED BY <1>1, <1>5, <1>8 DEF FindsFresh

LEMMA SearchesFreshKept ==
    ASSUME ModelIInv, StoreIInv, FillsTyped, CacheNext
    PROVE  SearchesFresh'
<1> USE DEF StoreIInv
<1>1. ASSUME NEW p \in Searchers, BeginSearch(p) PROVE SearchesFresh'
  <2>1. /\ spc'[p] = "get" /\ sfloor'[p] = answered /\ skey'[p] = version /\ version \in 0..MaxVersion
        /\ UNCHANGED <<entry, answered, version>>
    BY <1>1 DEF BeginSearch, CacheTypes
  <2>2. FindsFresh(p)'
    <3>1. CurrentFresh'
      BY CurrentFreshKept
    <3> QED BY <2>1, <3>1 DEF FindsFresh, CurrentFresh
  <2>3. \A q \in Searchers \ {p} : UNCHANGED <<spc[q], skey[q], sval[q], sfloor[q]>>
    BY <1>1 DEF BeginSearch, CacheTypes
  <2>4. \A q \in Searchers : FloorAnswered(q)'
    BY <2>1, <2>3, FloorAnsweredKept
  <2>5. \A q \in Searchers \ {p} : FindsFresh(q)'
    BY <2>3, OthersFindFresh
  <2> QED BY <2>2, <2>4, <2>5 DEF SearchesFresh
<1>2. ASSUME NEW p \in Searchers, SearchStep(p) PROVE SearchesFresh'
  <2>1. \A q \in Searchers \ {p} : UNCHANGED <<spc[q], skey[q], sval[q], sfloor[q]>>
    BY <1>2 DEF SearchStep, GetHit, GetMiss, AskIndex, AskTable, Store, At, CacheTypes
  <2>2. FindsFresh(p)' /\ sfloor'[p] = sfloor[p]
    BY <1>2, StepFindsFresh
  <2>3. \A q \in Searchers : FloorAnswered(q)'
    BY <2>1, <2>2, FloorAnsweredKept
  <2>4. \A q \in Searchers \ {p} : FindsFresh(q)'
    BY <2>1, OthersFindFresh
  <2> QED BY <2>2, <2>3, <2>4 DEF SearchesFresh
<1>3. CASE Restarts
  <2>1. \A q \in Searchers : spc'[q] = "idle" /\ sfloor'[q] = sfloor[q]
    BY <1>3 DEF Restarts
  <2>2. \A q \in Searchers : FloorAnswered(q)'
    BY <2>1, FloorAnsweredKept
  <2> QED BY <2>1, <2>2 DEF SearchesFresh, FindsFresh, Past
<1>4. ASSUME UNCHANGED searchVars PROVE SearchesFresh'
  <2>1. \A q \in Searchers : UNCHANGED <<spc[q], skey[q], sval[q], sfloor[q]>>
    BY <1>4 DEF searchVars
  <2> QED BY <2>1, FloorAnsweredKept, OthersFindFresh DEF SearchesFresh
<1>5. ASSUME NEW s \in Syncers, CallCommits(s) \/ TimerRetries(s) \/ Synchronizes(s) \/ CallAnswers(s)
      PROVE  UNCHANGED searchVars
  BY <1>5 DEF CallCommits, TimerRetries, Synchronizes, CallAnswers, cacheVars
<1>6. ASSUME NEW k \in 0..MaxVersion, Evict(k) PROVE UNCHANGED searchVars
  BY <1>6 DEF Evict
<1> QED BY <1>1, <1>2, <1>3, <1>4, <1>5, <1>6 DEF CacheNext

-----------------------------------------------------------------------------
(* A search that begins after a booking call was answered shows what that  *)
(* call did, if its sync went through and no older document was in hand    *)
(* when it committed: from the cache, the index or the table, whatever     *)
(* calls, retries and searches overlap it, whichever syncs fail, and over  *)
(* restarts.                                                               *)
THEOREM SearchesSeeAnswered == CacheSpec => []SearchSeesAnswered
<1> DEFINE IInv == ModelIInv /\ StoreIInv /\ FillsTyped
<1>1. ASSUME CacheInit PROVE IInv
  <2>0. Init /\ DOMAIN NoDocs = {} /\ MaxCommits \in Nat
    BY <1>1, SearchSyncAssumption DEF CacheInit, NoDocs
  <2>1. SyncTypes /\ ReadsFit /\ MissingIsEmpty /\ \A d \in InHand : DOMAIN d = {}
    BY <2>0, ProcFacts DEF Init, SyncTypes, ReadsFit, MissingIsEmpty, InHand
  <2>2. RowsBounded /\ AnsweredTypes /\ Reaches(index, answered)
    BY <1>1, <2>0 DEF CacheInit, Init, RowsBounded, AnsweredTypes, Reaches, Absent
  <2>3. HandsUpToDate /\ RowsUpToDate /\ OwedFits
    BY <1>1, <2>0, <2>1 DEF CacheInit, Init, HandsUpToDate, RowsUpToDate, UpToDate, OwedFits
  <2>4. CacheTypes /\ FutureUnused
    BY <1>1, SearchCacheAssumption DEF CacheInit, CacheTypes, FutureUnused
  <2>5. \A k \in 0..MaxVersion : Fills(k) = {}
    BY <1>1 DEF CacheInit, Fills
  <2>6. CurrentFresh /\ SearchesFresh /\ FillsTyped
    BY <1>1, <2>4, <2>5 DEF CacheInit, CurrentFresh, SearchesFresh, FloorAnswered, FindsFresh, FillsTyped, CacheTypes, Past
  <2> QED BY <2>1, <2>2, <2>3, <2>4, <2>6 DEF ModelIInv, StoreIInv
<1>2. ASSUME IInv, [CacheNext]_allVars PROVE IInv'
  <2>1. ModelIInv'
    BY <1>2, ModelKept
  <2>2. CASE CacheNext
    BY <1>2, <2>1, <2>2, CacheTypesKept, FutureUnusedKept, CurrentFreshKept, SearchesFreshKept,
       FillsTypedKept DEF StoreIInv
  <2>3. CASE UNCHANGED allVars
    <3>1. UNCHANGED cacheVars /\ UNCHANGED searchVars
      BY <2>3 DEF allVars, cacheVars
    <3>2. \A k : Fills(k)' = Fills(k)
      BY <3>1 DEF cacheVars, searchVars, Fills
    <3> QED BY <1>2, <2>1, <3>1, <3>2
            DEF StoreIInv, CacheTypes, FutureUnused, CurrentFresh, SearchesFresh, FloorAnswered,
                FindsFresh, FillsTyped, Reaches, Past, cacheVars, searchVars
  <2> QED BY <1>2, <2>2, <2>3
<1>3. IInv => SearchSeesAnswered
  BY DEF StoreIInv, SearchesFresh, FindsFresh, SearchSeesAnswered, Reaches
<1> QED BY <1>1, <1>2, <1>3, PTL DEF CacheSpec
-----------------------------------------------------------------------------
(***************************************************************************)
(* The reindex, for any tickets, batches, syncs and failures before it.    *)
(***************************************************************************)

LEMMA SmallestNumber ==
    ASSUME NEW B \in SUBSET Nat, B # {}
    PROVE  \E n \in B : \A m \in B : n <= m
<1>1. PICK n \in B : \A m \in B : ~ (<<m, n>> \in OpToRel(<, Nat))
  BY NatLessThanWellFounded, WFMin
<1>2. \A m \in B : ~ (m < n)
  BY <1>1 DEF OpToRel
<1> QED BY <1>2

(* A batch has a last row: were there a set without one, a smallest such   *)
(* set would have one when an element is put back.                         *)
LEMMA LastOfBatch ==
    ASSUME NEW S \in SUBSET Nat, IsFiniteSet(S), S # {}
    PROVE  Max(S) \in S /\ \A y \in S : y <= Max(S)
<1> DEFINE HasMax(T) == \E m \in T : \A y \in T : y <= m
           B == {T \in SUBSET S : T # {} /\ ~HasMax(T)}
<1>1. ASSUME B # {} PROVE FALSE
  <2>1. IsWellFoundedOn(StrictSubsetOrdering(S), SUBSET S)
    BY FS_StrictSubsetOrderingWellFounded, FS_FiniteSubsetsOfFinite
  <2>2. PICK T \in B : \A V \in B : ~ (<<V, T>> \in StrictSubsetOrdering(S))
    <3> HIDE DEF B
    <3>1. B \in SUBSET (SUBSET S)
      BY DEF B
    <3> QED BY <1>1, <2>1, <3>1, WFMin
  <2>3. PICK x \in T : TRUE
    OBVIOUS
  <2> DEFINE V == T \ {x}
  <2>4. V \in SUBSET S /\ V # T /\ V \subseteq T /\ V \notin B
    BY <2>2, <2>3 DEF StrictSubsetOrdering
  <2>5. V = {} \/ HasMax(V)
    BY <2>4
  <2>6. CASE V = {}
    BY <2>3, <2>6
  <2>7. ASSUME NEW m \in V, \A y \in V : y <= m PROVE FALSE
    <3>1. CASE x <= m
      BY <2>3, <2>7, <3>1
    <3>2. CASE m < x
      BY <2>3, <2>7, <3>2
    <3> QED BY <2>3, <2>7, <3>1, <3>2
  <2> QED BY <2>5, <2>6, <2>7
<1>2. HasMax(S)
  BY <1>1
<1> QED BY <1>2 DEF Max

(* Nobody else is at work beside a reindex that began alone.               *)
NobodyElse == settled => late = {} /\ \A s \in Syncers : pc[s] = "idle"

Reindexing == pc[Reindexer] \in {"read", "bulk"}

(* The batch in hand is the next one, as the rows still are.               *)
BatchIsNext ==
    pc[Reindexer] = "bulk" => docs[Reindexer] = Rows(NextBatch) /\ NextBatch # {}

(* All up to the cursor has been written.                                  *)
WrittenToCursor ==
    Reindexing /\ complete => \A t \in Tickets : t <= cursor => index[t] = db[t]

ReindexIInv ==
    /\ SyncTypes /\ NobodyElse
    /\ settled => cursor \in Nat /\ BatchIsNext /\ WrittenToCursor /\ ReindexRepairs

(* The batches skip no row: one after the cursor and up to the last of the *)
(* batch is in it, and a table with rows after the cursor has a next batch.*)
LEMMA BatchesSkipNothing ==
    ASSUME cursor \in Nat
    PROVE  /\ NextBatch = {} => \A t \in Tickets : t <= cursor
           /\ NextBatch # {} =>
                /\ CursorAfter(Rows(NextBatch)) \in Nat
                /\ \A t \in Tickets :
                      t <= CursorAfter(Rows(NextBatch)) => t <= cursor \/ t \in NextBatch
<1> USE SearchSyncAssumption, FiniteTable
<1> DEFINE Before(t) == {x \in AfterCursor : x < t}
<1>1. AfterCursor \subseteq Tickets /\ AfterCursor \in SUBSET Nat /\ \A x \in AfterCursor : x \in Nat
  BY DEF AfterCursor
<1>2. \A t : IsFiniteSet(Before(t)) /\ Cardinality(Before(t)) \in Nat
  <2> TAKE t
  <2>1. IsFiniteSet(Before(t))
    BY <1>1, FS_Subset
  <2> QED BY <2>1, FS_CardinalityType
<1>3. ASSUME NextBatch = {}, AfterCursor # {} PROVE FALSE
  <2>1. PICK t \in AfterCursor : \A x \in AfterCursor : t <= x
    BY <1>1, <1>3, SmallestNumber
  <2>2. \A x \in AfterCursor : ~(x < t)
    BY <1>1, <2>1
  <2>3. Before(t) = {} /\ Cardinality(Before(t)) < BatchLimit
    BY <2>2, FS_EmptySet
  <2> QED BY <1>3, <2>1, <2>3 DEF NextBatch
<1>4. ASSUME NextBatch # {}
      PROVE  /\ CursorAfter(Rows(NextBatch)) \in Nat
             /\ \A t \in Tickets :
                   t <= CursorAfter(Rows(NextBatch)) => t <= cursor \/ t \in NextBatch
  <2> DEFINE last == CursorAfter(Rows(NextBatch))
  <2>1. NextBatch \subseteq AfterCursor /\ IsFiniteSet(NextBatch)
    BY <1>1, FS_Subset DEF NextBatch
  <2>2. last = Max(NextBatch)
    BY DEF CursorAfter, Rows
  <2>3. last \in NextBatch
    BY <1>1, <1>4, <2>1, <2>2, LastOfBatch
  <2>4. ASSUME NEW t \in Tickets, t <= last, t > cursor PROVE t \in NextBatch
    <3>1. t \in AfterCursor /\ last \in AfterCursor
      BY <2>1, <2>3, <2>4 DEF AfterCursor
    <3>2. Before(t) \subseteq Before(last)
      <4>1. t \in Nat /\ last \in Nat /\ t <= last
        BY <1>1, <2>4, <3>1
      <4>2. ASSUME NEW x \in AfterCursor, x < t PROVE x < last
        BY <1>1, <4>1, <4>2
      <4> QED BY <4>2
    <3>3. Cardinality(Before(t)) <= Cardinality(Before(last))
      BY <1>2, <3>2, FS_Subset
    <3>4. Cardinality(Before(last)) < BatchLimit
      BY <2>3 DEF NextBatch
    <3>5. Cardinality(Before(t)) < BatchLimit
      BY <1>2, <3>3, <3>4
    <3> QED BY <3>1, <3>5 DEF NextBatch
  <2>5. last \in Nat
    BY <1>1, <2>1, <2>3
  <2>6. \A t \in Tickets : t <= cursor \/ t > cursor
    OBVIOUS
  <2> QED BY <2>4, <2>5, <2>6
<1> QED
  <2>1. \A t \in Tickets : t \notin AfterCursor => t <= cursor
    BY DEF AfterCursor
  <2> QED BY <1>3, <1>4, <2>1

LEMMA NobodyElseKept ==
    ASSUME ReindexIInv, [Next]_vars
    PROVE  NobodyElse'
<1> USE ProcFacts DEF ReindexIInv, NobodyElse, SyncTypes, Goto
<1>1. ASSUME NEW s \in Syncers, SyncStep(s) PROVE NobodyElse'
  BY <1>1 DEF SyncStep, CommitAndSync, Retry, EnsureIndex, ReadRows, BulkSucceeds, SyncFails,
              BulkPartlyFails, BulkTimesOut, Defer
<1>2. ASSUME NEW d \in late, LateBulk(d) PROVE NobodyElse'
  BY <1>2 DEF LateBulk
<1>3. CASE Restart
  BY <1>3 DEF Restart
<1>4. ASSUME NEW recreate \in BOOLEAN, StartReindex(recreate) PROVE NobodyElse'
  BY <1>4 DEF StartReindex
<1>5. CASE ReindexReads
  BY <1>5 DEF ReindexReads
<1>6. CASE ReindexStops
  BY <1>6 DEF ReindexStops
<1>7. ASSUME NEW T \in SUBSET Tickets, ReindexWrites(T) PROVE NobodyElse'
  BY <1>7 DEF ReindexWrites
<1>8. CASE UNCHANGED vars
  BY <1>8 DEF vars, syncVars
<1> QED BY <1>1, <1>2, <1>3, <1>4, <1>5, <1>6, <1>7, <1>8 DEF Next, ReindexStep

(* Steps of others leave a reindex that is alone untouched: those that     *)
(* would not end its being alone.                                          *)
LEMMA OthersLeaveReindex ==
    ASSUME ReindexIInv, settled',
           (\E s \in Syncers : SyncStep(s)) \/ (\E d \in late : LateBulk(d)) \/ Restart \/ UNCHANGED vars
    PROVE  /\ settled
           /\ UNCHANGED <<db, index, cursor, complete>>
           /\ pc'[Reindexer] = pc[Reindexer] /\ docs'[Reindexer] = docs[Reindexer]
<1> USE ProcFacts DEF ReindexIInv, NobodyElse, SyncTypes
<1>1. ASSUME NEW s \in Syncers, SyncStep(s) PROVE FALSE
  <2>1. settled /\ pc[s] # "idle"
    BY <1>1 DEF SyncStep, CommitAndSync, Retry, EnsureIndex, ReadRows, BulkSucceeds, SyncFails,
                BulkPartlyFails, BulkTimesOut
  <2> QED BY <2>1
<1>2. ASSUME NEW d \in late, LateBulk(d) PROVE FALSE
  BY <1>2 DEF LateBulk
<1>3. CASE Restart
  BY <1>3 DEF Restart
<1>4. CASE UNCHANGED vars
  BY <1>4 DEF vars, syncVars
<1> QED BY <1>1, <1>2, <1>3, <1>4

LEMMA ReindexKept ==
    ASSUME ReindexIInv, [Next]_vars
    PROVE  ReindexIInv'
<1> USE ProcFacts
<1>1. SyncTypes /\ SyncTypes' /\ NobodyElse'
  BY SyncTypesKept, NobodyElseKept DEF ReindexIInv
<1> DEFINE Alone == cursor \in Nat /\ BatchIsNext /\ WrittenToCursor /\ ReindexRepairs
<1>2. CASE (\E s \in Syncers : SyncStep(s)) \/ (\E d \in late : LateBulk(d)) \/ Restart \/ UNCHANGED vars
  <2>1. ASSUME settled' PROVE Alone'
    <3>1. Alone
      BY <1>2, <2>1, OthersLeaveReindex DEF ReindexIInv
    <3>2. /\ settled /\ UNCHANGED <<db, index, cursor, complete>>
          /\ pc'[Reindexer] = pc[Reindexer] /\ docs'[Reindexer] = docs[Reindexer]
      BY <1>2, <2>1, OthersLeaveReindex
    <3> QED BY <3>1, <3>2 DEF BatchIsNext, WrittenToCursor, ReindexRepairs, Reindexing, Rows,
                              NextBatch, AfterCursor
  <2> QED BY <1>1, <2>1 DEF ReindexIInv
<1>3. ASSUME NEW recreate \in BOOLEAN, StartReindex(recreate) PROVE ReindexIInv'
  <2>1. cursor' = 0 /\ pc'[Reindexer] = "read"
    BY <1>1, <1>3 DEF StartReindex, Goto, SyncTypes
  <2>2. \A t \in Tickets : ~(t <= cursor')
    BY <2>1, SearchSyncAssumption
  <2> QED BY <1>1, <2>1, <2>2 DEF ReindexIInv, BatchIsNext, WrittenToCursor, ReindexRepairs
<1>4. CASE ReindexReads
  <2>1. /\ pc[Reindexer] = "read" /\ docs'[Reindexer] = Rows(NextBatch)
        /\ pc'[Reindexer] = IF NextBatch # {} THEN "bulk" ELSE IF complete THEN "done" ELSE "idle"
        /\ UNCHANGED <<db, index, cursor, complete, settled>>
    BY <1>1, <1>4 DEF ReindexReads, Goto, SyncTypes
  <2>2. settled => cursor \in Nat /\ (complete => \A t \in Tickets : t <= cursor => index[t] = db[t])
    BY <2>1 DEF ReindexIInv, WrittenToCursor, Reindexing
  <2>3. settled /\ NextBatch = {} => \A t \in Tickets : t <= cursor
    BY <2>2, BatchesSkipNothing
  <2> QED BY <1>1, <2>1, <2>2, <2>3 DEF ReindexIInv, BatchIsNext, WrittenToCursor, ReindexRepairs,
                                        Reindexing, Rows, NextBatch, AfterCursor
<1>5. CASE ReindexStops
  <2>1. pc'[Reindexer] = "idle" /\ cursor' = cursor
    BY <1>1, <1>5 DEF ReindexStops, Goto, SyncTypes
  <2>2. settled' => settled
    BY <1>5 DEF ReindexStops
  <2>3. BatchIsNext' /\ WrittenToCursor' /\ ReindexRepairs'
    BY <2>1 DEF BatchIsNext, WrittenToCursor, ReindexRepairs, Reindexing
  <2> QED BY <1>1, <2>1, <2>2, <2>3 DEF ReindexIInv
<1>6. ASSUME NEW T \in SUBSET Tickets, ReindexWrites(T) PROVE ReindexIInv'
  <2> DEFINE batch == docs[Reindexer]
  <2>1. /\ pc[Reindexer] = "bulk" /\ pc'[Reindexer] = "read" /\ T \subseteq DOMAIN batch
        /\ index' = [t \in Tickets |-> IF t \in T THEN batch[t] ELSE index[t]]
        /\ complete' = (complete /\ T = DOMAIN batch)
        /\ cursor' = CursorAfter(batch) /\ UNCHANGED <<db, settled>>
    BY <1>1, <1>6 DEF ReindexWrites, Write, Goto, SyncTypes
  <2>2. ASSUME settled' PROVE cursor' \in Nat /\ WrittenToCursor'
    <3>1. cursor \in Nat /\ batch = Rows(NextBatch) /\ NextBatch # {}
      BY <2>1, <2>2 DEF ReindexIInv, BatchIsNext
    <3>2. /\ cursor' \in Nat
          /\ \A t \in Tickets : t <= cursor' => t <= cursor \/ t \in NextBatch
      BY <2>1, <3>1, BatchesSkipNothing
    <3>3. DOMAIN batch = NextBatch /\ \A t \in NextBatch : batch[t] = db[t]
      BY <3>1 DEF Rows
    <3>4. ASSUME complete', NEW t \in Tickets, t <= cursor' PROVE index'[t] = db'[t]
      <4>1. T = NextBatch /\ complete
        BY <2>1, <3>3, <3>4
      <4>2. t \notin NextBatch => index[t] = db[t]
        BY <2>1, <2>2, <3>2, <3>4, <4>1 DEF ReindexIInv, WrittenToCursor, Reindexing
      <4> QED BY <2>1, <3>3, <4>1, <4>2
    <3> QED BY <3>2, <3>4 DEF WrittenToCursor
  <2>3. BatchIsNext' /\ ReindexRepairs'
    BY <2>1 DEF BatchIsNext, ReindexRepairs
  <2> QED BY <1>1, <2>2, <2>3 DEF ReindexIInv
<1> QED BY <1>2, <1>3, <1>4, <1>5, <1>6 DEF Next, ReindexStep

(* A reindex that ends well and ran alone leaves every document equal to   *)
(* its row, whatever crashes, failures and overlapping syncs came before   *)
(* it, for any table and any size of its batches.                          *)
THEOREM ReindexRepairsAll == Spec => []ReindexRepairs
<1>1. ASSUME Init PROVE ReindexIInv
  <2>1. SyncTypes
    BY <1>1 DEF Init, SyncTypes
  <2> QED BY <1>1, <2>1 DEF Init, ReindexIInv, NobodyElse
<1>2. ReindexIInv /\ [Next]_vars => ReindexIInv'
  BY ReindexKept
<1>3. ReindexIInv => ReindexRepairs
  BY DEF ReindexIInv, ReindexRepairs
<1> QED BY <1>1, <1>2, <1>3, PTL DEF Spec
=============================================================================
