---------------------------- MODULE SearchCache -----------------------------
(***************************************************************************)
(* A search as its user sees it: the read model of SearchSync behind the   *)
(* Redis cache of ticketService.search.  A booking call commits, awaits    *)
(* syncTicketDocuments whatever comes of it, and only then increments      *)
(* cache:tickets:version and answers.  The timer's retry synchronizes too, *)
(* but does not increment the version.                                     *)
(*                                                                         *)
(* One search, whose result shows every ticket, stands for all: its key    *)
(* is the version.  Redis answers here (ReadCache has its failures), and a *)
(* bulk request is not late, nor does a reindex run (SearchSync has them). *)
(***************************************************************************)
EXTENDS SearchSync

CONSTANTS
    Searchers,      \* GET /api/tickets calls in progress
    MaxVersion,     \* bound on cache:tickets:version
    Fallback        \* SEARCH_FALLBACK_TO_POSTGRES

ASSUME SearchCacheAssumption == MaxVersion \in Nat /\ Fallback \in BOOLEAN

VARIABLES
    version,    \* cache:tickets:version, 0 while the key is absent
    entry,      \* the result cached for a version, NoResult if there is none
    owed,       \* what a booking call has committed and not yet answered,
                \* 0 for a ticket an older document of which was in hand
    answered,   \* the last such commit of a ticket that was answered after
                \* its sync had gone through
    spc,        \* where each search is
    skey,       \* the version it read, 0 once it is served
    sval,       \* its result: what each ticket's document or row showed
    sfloor      \* what had been answered when it began

searchVars == <<spc, skey, sval, sfloor>>
cacheVars == <<version, entry, owed, answered, searchVars>>
allVars == <<vars, cacheVars>>

NoResult == NoDocs

CacheInit ==
    /\ Init
    /\ version = 0
    /\ entry = [k \in 0..MaxVersion |-> NoResult]
    /\ owed = [s \in Syncers |-> NoDocs]
    /\ answered = [t \in Tickets |-> 0]
    /\ spc = [p \in Searchers |-> "idle"]
    /\ skey = [p \in Searchers |-> 0]
    /\ sval = [p \in Searchers |-> NoResult]
    /\ sfloor = [p \in Searchers |-> [t \in Tickets |-> 0]]

-----------------------------------------------------------------------------
(* Booking calls and the timer.                                            *)

CallsOpen == Cardinality({s \in Syncers : owed[s] # NoDocs})

CallCommits(s) ==
    /\ owed[s] = NoDocs /\ version + CallsOpen < MaxVersion
    /\ \E T \in SUBSET Tickets :
         /\ CommitAndSync(s, T)
         /\ owed' = [owed EXCEPT ![s] = [t \in T |-> IF t \in excused' THEN 0 ELSE db'[t]]]
    /\ UNCHANGED <<version, entry, answered, searchVars>>

TimerRetries(s) ==
    /\ owed[s] = NoDocs /\ Retry(s)
    /\ UNCHANGED cacheVars

Synchronizes(s) ==
    /\ \/ EnsureIndex(s) \/ ReadRows(s) \/ BulkSucceeds(s)
       \/ SyncFails(s) \/ BulkPartlyFails(s)
    /\ UNCHANGED cacheVars

(* bumpTicketCacheVersion once the sync has returned, true or false.       *)
CallAnswers(s) ==
    /\ pc[s] = "idle" /\ owed[s] # NoDocs /\ version < MaxVersion
    /\ version' = version + 1
    /\ answered' = [t \in Tickets |->
          IF t \in DOMAIN owed[s] \ pending /\ owed[s][t] > answered[t]
          THEN owed[s][t] ELSE answered[t]]
    /\ owed' = [owed EXCEPT ![s] = NoDocs]
    /\ UNCHANGED <<vars, entry, searchVars>>

(* What runs in the API process is gone; Redis keeps what it has.          *)
Restarts ==
    /\ Restart
    /\ owed' = [s \in Syncers |-> NoDocs]
    /\ spc' = [p \in Searchers |-> "idle"]
    /\ skey' = [p \in Searchers |-> 0]
    /\ sval' = [p \in Searchers |-> NoResult]
    /\ UNCHANGED <<version, entry, answered, sfloor>>

-----------------------------------------------------------------------------
(* Searches.                                                               *)

At(p, label, next) == spc[p] = label /\ spc' = [spc EXCEPT ![p] = next]

(* The first thing a search reads is the version; what was answered before *)
(* that it has to show.                                                    *)
BeginSearch(p) ==
    /\ spc[p] \in {"idle", "served", "refused"}
    /\ spc' = [spc EXCEPT ![p] = "get"]
    /\ skey' = [skey EXCEPT ![p] = version]
    /\ sfloor' = [sfloor EXCEPT ![p] = answered]
    /\ sval' = [sval EXCEPT ![p] = NoResult]
    /\ UNCHANGED <<vars, version, entry, owed, answered>>

GetHit(p) ==
    /\ entry[skey[p]] # NoResult
    /\ At(p, "get", "served")
    /\ sval' = [sval EXCEPT ![p] = entry[skey[p]]]
    /\ skey' = [skey EXCEPT ![p] = 0]
    /\ UNCHANGED <<vars, version, entry, owed, answered, sfloor>>

GetMiss(p) ==
    /\ entry[skey[p]] = NoResult
    /\ At(p, "get", "query")
    /\ UNCHANGED <<vars, version, entry, owed, answered, skey, sval, sfloor>>

(* searchTicketsInElasticsearch fails if there is no index.                *)
AskIndex(p) ==
    /\ exists
    /\ At(p, "query", "set")
    /\ sval' = [sval EXCEPT ![p] = index]
    /\ UNCHANGED <<vars, version, entry, owed, answered, skey, sfloor>>

(* Elasticsearch does not answer: the table, or 503.                       *)
AskTable(p) ==
    /\ At(p, "query", IF Fallback THEN "set" ELSE "refused")
    /\ sval' = IF Fallback THEN [sval EXCEPT ![p] = db] ELSE sval
    /\ UNCHANGED <<vars, version, entry, owed, answered, skey, sfloor>>

(* A result is stored under the version read before the query, not under   *)
(* the version of the moment.                                              *)
Fault_KeyOfTheMoment(p) == version
StoreKey(p) == skey[p]
Store(p) ==
    /\ At(p, "set", "served")
    /\ entry' = [entry EXCEPT ![StoreKey(p)] = sval[p]]
    /\ skey' = [skey EXCEPT ![p] = 0]
    /\ UNCHANGED <<vars, version, owed, answered, sval, sfloor>>

(* CACHE_SEARCH_TTL_SECONDS.                                               *)
Evict(k) ==
    /\ entry[k] # NoResult
    /\ entry' = [entry EXCEPT ![k] = NoResult]
    /\ UNCHANGED <<vars, version, owed, answered, searchVars>>

SearchStep(p) ==
    \/ GetHit(p) \/ GetMiss(p) \/ AskIndex(p) \/ AskTable(p) \/ Store(p)

CacheNext ==
    \/ \E s \in Syncers :
          CallCommits(s) \/ TimerRetries(s) \/ Synchronizes(s) \/ CallAnswers(s)
    \/ Restarts
    \/ \E p \in Searchers : BeginSearch(p) \/ SearchStep(p)
    \/ \E k \in 0..MaxVersion : Evict(k)

CacheSpec == CacheInit /\ [][CacheNext]_allVars

(* The timer keeps firing, a call that has started goes on, and an outage  *)
(* of Elasticsearch ends: a request that is retried again and again is     *)
(* answered at last.  A search that has begun goes on, and Redis ends the  *)
(* time to live of the result that is in use.                              *)
CacheFairSpec ==
    /\ CacheSpec
    /\ WF_allVars(\E s \in Syncers : TimerRetries(s))
    /\ \A s \in Syncers :
         /\ WF_allVars(CallAnswers(s))
         /\ SF_allVars(EnsureIndex(s) /\ UNCHANGED cacheVars)
         /\ SF_allVars(ReadRows(s) /\ UNCHANGED cacheVars)
         /\ SF_allVars(BulkSucceeds(s) /\ UNCHANGED cacheVars)
    /\ \A p \in Searchers : WF_allVars(SearchStep(p))
    /\ WF_allVars(Evict(version))

-----------------------------------------------------------------------------
(* A search that begins after a booking call was answered shows what that  *)
(* call did, if its sync went through and no older document was in hand    *)
(* when it committed, whether the result comes from the index, the table   *)
(* or the cache, and however calls and slow searches overlap: a call       *)
(* synchronizes before it increments, and a result is stored under the     *)
(* version read before the query (search, syncTicketDocuments).            *)
SearchSeesAnswered ==
    \A p \in Searchers, t \in Tickets :
        spc[p] = "served" /\ sfloor[p][t] > 0 =>
            sval[p][t] # Absent /\ sval[p][t] >= sfloor[p][t]

(* A sync that was deferred is made up for, and then what searches cached  *)
(* meanwhile goes away although the retry leaves the version as it is: if  *)
(* no older document was in hand at its last commit and no restart forgot  *)
(* it, there comes a time after which neither the index nor the result     *)
(* cached for the version lags the row.                                    *)
SearchCatchesUp ==
    <>[](\A t \in Tickets \ excused : db[t] > 0 =>
            /\ index[t] = db[t]
            /\ entry[version] # NoResult => entry[version][t] = db[t])
=============================================================================
