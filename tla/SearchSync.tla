----------------------------- MODULE SearchSync -----------------------------
(***************************************************************************)
(* The Elasticsearch read model of the tickets table.  PostgreSQL is the   *)
(* truth; after a call has committed, syncTicketDocuments copies the       *)
(* tickets it changed into the index: it makes sure the index exists,      *)
(* reads the rows, and bulk-writes the documents, three awaits between     *)
(* which other calls run.  Failures put the tickets in an in-memory set    *)
(* that a timer retries; a restart loses the set; reindexAllTickets copies *)
(* the whole table, batch by batch, from a process of its own.             *)
(*                                                                         *)
(* A row, and its document, is abstracted to the number of commits that    *)
(* changed it: the booking core makes a seat available and taken in turn.  *)
(***************************************************************************)
EXTENDS Naturals, FiniteSetsExt

CONSTANTS
    Tickets,        \* a set of numbers: the keyset order of reindex
    Syncers,        \* calls that may be synchronizing at the same time
    BatchLimit,     \* ELASTICSEARCH_REINDEX_BATCH_SIZE
    MaxCommits,     \* bound on the commits of a ticket
    MaxRestarts,    \* bound on API restarts
    MaxLate,        \* bound on bulk requests that outlive their time-out
    MaxReindex      \* bound on reindex runs

ASSUME SearchSyncAssumption ==
    /\ Tickets \subseteq Nat \ {0}
    /\ BatchLimit \in Nat \ {0}
    /\ {MaxCommits, MaxRestarts, MaxLate, MaxReindex} \subseteq Nat
    /\ "reindex" \notin Syncers

(* A table has finitely many rows: a batch of them has a last one.         *)
ASSUME FiniteTable == IsFiniteSet(Tickets)

VARIABLES
    db,         \* commits of each ticket
    index,      \* the commit a document shows, Absent if there is none
    exists,     \* the index exists
    pending,    \* pendingTicketIds of the API process
    pc,         \* where each syncTicketDocuments call is
    ids,        \* its uniqueIds, none when it has returned
    docs,       \* the documents it, or the reindexer, has read
    late,       \* timed-out bulk requests Elasticsearch may still apply
    cursor,     \* afterTicketId of the reindexer
    complete,   \* the reindexer has written every document it read
    settled,    \* it began with nothing else going on, and still is alone
    excused,    \* history: tickets that may lag for good, see below
    restarts, lates, reindexes      \* counters of the bounds

syncVars == <<pc, ids, pending>>
boundVars == <<restarts, lates, reindexes>>
vars == <<db, index, exists, docs, late, cursor, complete, settled, excused,
          syncVars, boundVars>>

Absent == MaxCommits + 1
Reindexer == "reindex"
Procs == Syncers \cup {Reindexer}
NoDocs == [t \in {} |-> 0]

Init ==
    /\ db = [t \in Tickets |-> 0]
    /\ index \in {[t \in Tickets |-> 0], [t \in Tickets |-> Absent]}
    /\ exists = (index = [t \in Tickets |-> 0])
    /\ pending = {}
    /\ pc = [p \in Procs |-> "idle"]
    /\ ids = [s \in Syncers |-> {}]
    /\ docs = [p \in Procs |-> NoDocs]
    /\ late = {}
    /\ cursor = 0
    /\ complete = FALSE /\ settled = FALSE /\ excused = {}
    /\ restarts = 0 /\ lates = 0 /\ reindexes = 0

Goto(p, label) == pc' = [pc EXCEPT ![p] = label]

(* getSearchDocuments: the rows of a set, as they are committed now.        *)
Rows(T) == [t \in T |-> db[t]]

(* A bulk request creates the index if it does not exist (Elasticsearch's  *)
(* default) and overwrites each document: no version is sent along.        *)
Write(d) ==
    /\ index' = [t \in Tickets |-> IF t \in DOMAIN d THEN d[t] ELSE index[t]]
    /\ exists' = TRUE

InProgress(t) == \E s \in Syncers : t \in ids[s]

(* Documents that have been read and may still be written.  A ticket is    *)
(* excused from being repaired when it commits while one of its documents  *)
(* is in hand: whoever holds it writes it in any order with the call's own *)
(* sync.  So are those whose repair a restart forgets, and all of them     *)
(* when the index is dropped; until their next commit, or until a reindex  *)
(* writes the row as it is with nothing outdated in hand.                  *)
InHand == {docs[p] : p \in Procs} \cup late
Overtakable(T) == {t \in T : \E d \in InHand : t \in DOMAIN d}
Outdated(t) == \E d \in InHand : t \in DOMAIN d /\ d[t] # db[t]

-----------------------------------------------------------------------------
(* A booking call commits and enters syncTicketDocuments.                  *)
CommitAndSync(s, T) ==
    /\ pc[s] = "idle" /\ T # {}
    /\ \A t \in T : db[t] < MaxCommits
    /\ db' = [t \in Tickets |-> IF t \in T THEN db[t] + 1 ELSE db[t]]
    /\ ids' = [ids EXCEPT ![s] = T]
    /\ Goto(s, "create")
    /\ settled' = FALSE
    /\ excused' = (excused \ T) \cup Overtakable(T)
    /\ UNCHANGED <<index, exists, docs, late, cursor, complete, pending, boundVars>>

(* retryPendingTicketSync, every minute.                                   *)
Retry(s) ==
    /\ pc[s] = "idle" /\ pending # {}
    /\ ids' = [ids EXCEPT ![s] = pending]
    /\ Goto(s, "create")
    /\ settled' = FALSE
    /\ UNCHANGED <<db, index, exists, docs, late, cursor, complete, excused, pending, boundVars>>

(* createTicketIndex(false): an index that was missing is created empty.   *)
EnsureIndex(s) ==
    /\ pc[s] = "create"
    /\ exists' = TRUE
    /\ index' = IF exists THEN index ELSE [t \in Tickets |-> Absent]
    /\ Goto(s, "read")
    /\ UNCHANGED <<db, docs, late, cursor, complete, settled, excused, pending, ids, boundVars>>

ReadRows(s) ==
    /\ pc[s] = "read"
    /\ docs' = [docs EXCEPT ![s] = Rows(ids[s])]
    /\ Goto(s, "bulk")
    /\ UNCHANGED <<db, index, exists, late, cursor, complete, settled, excused, pending, ids, boundVars>>

(* Definitions named Fault_... are seeded faults: plausible slips in the   *)
(* code, each of which makes a property of this module fail.               *)
Fault_DropOnFailure(s) == pending
Fault_ReplaceOnFailure(s) == ids[s]
PendingAfterSuccess(s) == pending \ ids[s]
PendingAfterFailure(s) == pending \cup ids[s]

Returns(s) ==
    /\ docs' = [docs EXCEPT ![s] = NoDocs]
    /\ ids' = [ids EXCEPT ![s] = {}]
    /\ Goto(s, "idle")

BulkSucceeds(s) ==
    /\ pc[s] = "bulk"
    /\ Write(docs[s])
    /\ pending' = PendingAfterSuccess(s)
    /\ Returns(s)
    /\ UNCHANGED <<db, late, cursor, complete, settled, excused, boundVars>>

(* The catch block: any request or query may fail.                         *)
Defer(s) ==
    /\ pending' = PendingAfterFailure(s)
    /\ Returns(s)

SyncFails(s) ==
    /\ pc[s] \in {"create", "read", "bulk"}
    /\ Defer(s)
    /\ UNCHANGED <<db, index, exists, late, cursor, complete, settled, excused, boundVars>>

(* Items of the bulk request fail, and the others are written.             *)
BulkPartlyFails(s) ==
    /\ pc[s] = "bulk"
    /\ \E T \in SUBSET ids[s] :
         T # ids[s] /\ Write([t \in T |-> docs[s][t]])
    /\ Defer(s)
    /\ UNCHANGED <<db, late, cursor, complete, settled, excused, boundVars>>

(* AbortSignal.timeout gives up on a bulk request that has been sent.      *)
BulkTimesOut(s) ==
    /\ pc[s] = "bulk" /\ lates < MaxLate
    /\ late' = late \cup {docs[s]}
    /\ lates' = lates + 1
    /\ Defer(s)
    /\ UNCHANGED <<db, index, exists, cursor, complete, settled, excused, restarts, reindexes>>

LateBulk(d) ==
    /\ late' = late \ {d}
    /\ (Write(d) \/ UNCHANGED <<index, exists>>)
    /\ settled' = FALSE
    /\ UNCHANGED <<db, docs, cursor, complete, excused, syncVars, boundVars>>

(* The API process stops and starts: calls in progress and the pending set *)
(* are gone; what they had committed is not.                               *)
Restart ==
    /\ restarts < MaxRestarts
    /\ restarts' = restarts + 1
    /\ pending' = {}
    /\ pc' = [p \in Procs |-> IF p \in Syncers THEN "idle" ELSE pc[p]]
    /\ docs' = [p \in Procs |-> IF p \in Syncers THEN NoDocs ELSE docs[p]]
    /\ ids' = [s \in Syncers |-> {}]
    /\ excused' = excused \cup pending \cup {t \in Tickets : InProgress(t)}
    /\ UNCHANGED <<db, index, exists, late, cursor, complete, settled, lates, reindexes>>

-----------------------------------------------------------------------------
(* reindexAllTickets: search:rebuild drops the index first, search:reindex *)
(* keeps it.  (HEAD, DELETE and PUT are one step: a PUT that finds an index *)
(* created meanwhile fails, which is ReindexStops, or SyncFails.)          *)
StartReindex(recreate) ==
    /\ pc[Reindexer] \in {"idle", "done"} /\ reindexes < MaxReindex
    /\ reindexes' = reindexes + 1
    /\ index' = IF exists /\ ~recreate THEN index ELSE [t \in Tickets |-> Absent]
    /\ exists' = TRUE
    /\ cursor' = 0 /\ complete' = TRUE
    /\ settled' = (late = {} /\ \A s \in Syncers : pc[s] = "idle")
    /\ excused' = IF recreate THEN Tickets ELSE excused
    /\ Goto(Reindexer, "read")
    /\ UNCHANGED <<db, docs, late, pending, ids, restarts, lates>>

(* listSearchDocuments: the next BatchLimit rows after the cursor.         *)
Fault_FromCursor == {t \in Tickets : t > cursor + 1}
AfterCursor == {t \in Tickets : t > cursor}
NextBatch == {t \in AfterCursor : Cardinality({x \in AfterCursor : x < t}) < BatchLimit}

ReindexReads ==
    /\ pc[Reindexer] = "read"
    /\ docs' = [docs EXCEPT ![Reindexer] = Rows(NextBatch)]
    /\ Goto(Reindexer, IF NextBatch # {} THEN "bulk" ELSE IF complete THEN "done" ELSE "idle")
    /\ UNCHANGED <<db, index, exists, late, cursor, complete, settled, excused, pending, ids, boundVars>>

CursorAfter(d) == Max(DOMAIN d)

(* Documents Elasticsearch rejects are counted and the run goes on; the    *)
(* script then exits with a status that says so.                           *)
ReindexWrites(T) ==
    LET batch == docs[Reindexer] IN
    /\ pc[Reindexer] = "bulk" /\ T \subseteq DOMAIN batch
    /\ Write([t \in T |-> batch[t]])
    /\ complete' = (complete /\ T = DOMAIN batch)
    /\ cursor' = CursorAfter(batch)
    /\ excused' = excused \ {t \in T : ~Outdated(t)}
    /\ docs' = [docs EXCEPT ![Reindexer] = NoDocs]
    /\ Goto(Reindexer, "read")
    /\ UNCHANGED <<db, late, settled, pending, ids, boundVars>>

(* A query or a request fails: the script stops.                           *)
ReindexStops ==
    /\ pc[Reindexer] \in {"read", "bulk"}
    /\ docs' = [docs EXCEPT ![Reindexer] = NoDocs]
    /\ Goto(Reindexer, "idle")
    /\ UNCHANGED <<db, index, exists, late, cursor, complete, settled, excused, pending, ids, boundVars>>

-----------------------------------------------------------------------------
SyncStep(s) ==
    \/ \E T \in SUBSET Tickets : CommitAndSync(s, T)
    \/ Retry(s) \/ EnsureIndex(s) \/ ReadRows(s) \/ BulkSucceeds(s)
    \/ SyncFails(s) \/ BulkPartlyFails(s) \/ BulkTimesOut(s)

ReindexStep ==
    \/ \E recreate \in BOOLEAN : StartReindex(recreate)
    \/ ReindexReads \/ ReindexStops
    \/ \E T \in SUBSET Tickets : ReindexWrites(T)

Next ==
    \/ \E s \in Syncers : SyncStep(s)
    \/ \E d \in late : LateBulk(d)
    \/ Restart
    \/ ReindexStep

Spec == Init /\ [][Next]_vars

-----------------------------------------------------------------------------
(* A document that lags its row is never forgotten: it is being            *)
(* synchronized or waits in pendingTicketIds, through failures of any step,*)
(* half-written and late bulk requests and a reindex, while the syncs of   *)
(* other calls and of the timer run beside it.  Excused are the rows that  *)
(* committed while an older document of theirs was in hand, or that a      *)
(* restart or a dropped index took away (syncTicketDocuments).             *)
NothingForgotten ==
    \A t \in Tickets \ excused :
        db[t] > 0 /\ index[t] # db[t] => t \in pending \/ InProgress(t)

(* A reindex that ends well and ran alone leaves every document equal to   *)
(* its row, whatever was lost before it by crashes or failures: the keyset *)
(* batches skip no ticket.                                                 *)
ReindexRepairs ==
    pc[Reindexer] = "done" /\ settled => \A t \in Tickets : index[t] = db[t]

-----------------------------------------------------------------------------
(* What the documents of the repository say and the code does not keep.    *)

Taken(v) == v # Absent /\ v % 2 = 1
Quiet == pending = {} /\ late = {} /\ \A s \in Syncers : pc[s] = "idle"

(* docs/phase4-test-scenarios.md: a seat that is taken must not be shown   *)
(* by a search with remainingOnly=true, once its sync has been done.       *)
TakenNotOffered ==
    \A t \in Tickets : Quiet /\ Taken(db[t]) => index[t] = Absent \/ Taken(index[t])
=============================================================================
