----------------------------- MODULE ReadCache -----------------------------
(***************************************************************************)
(* The Redis read caches.  Three disciplines share config/redis.ts:        *)
(*   "detail"   ticket details (and searches), under keys that carry the   *)
(*              number in cache:tickets:version, which a booking call      *)
(*              increments after its commit;                               *)
(*   "list"     the ticket lists of a match or a competition, under a      *)
(*              fixed key that nothing invalidates;                        *)
(*   "profile"  a user's profile, wallet balance included, under a fixed   *)
(*              key that is deleted after the commit.                      *)
(* A read is cache-aside: version, get, query, set, with other calls       *)
(* running between any two of them.  A Redis command may fail anywhere;    *)
(* every helper swallows the error.                                        *)
(*                                                                         *)
(* A row is abstracted to the number of commits that changed it, and one   *)
(* ticket and one user stand for all, since keys are never shared.         *)
(***************************************************************************)
EXTENDS Naturals, FiniteSets

CONSTANTS
    Views,          \* the disciplines in use, of the three above
    Readers,        \* GET calls in progress
    Writers,        \* booking or profile calls in progress
    MaxCommits,     \* bound on the commits of a row
    MaxErrors       \* bound on the Redis commands that fail

ASSUME ReadCacheAssumption ==
    /\ Views \subseteq {"detail", "list", "profile"}
    /\ IsFiniteSet(Writers)
    /\ MaxCommits \in Nat /\ MaxErrors \in Nat

RowOf(v) == IF v = "profile" THEN "user" ELSE "ticket"
Rows == {RowOf(v) : v \in Views}
Versions == 0..MaxCommits

VARIABLES
    row,        \* commits of each row
    version,    \* cache:tickets:version, 0 while the key is absent
    entry,      \* the value cached under a key, None if there is none
    rpc,        \* where each read is
    view,       \* what it reads
    key,        \* the key it computed
    val,        \* the value it queried or was served
    floor,      \* the commits that had been answered when it began
    wpc,        \* where each write is
    wrote,      \* the commits it made, 0 for a row it left alone
    answered,   \* the last commit of a row whose call has been answered
    errors

readVars == <<rpc, view, key, val, floor>>
writeVars == <<wpc, wrote>>
vars == <<row, version, entry, readVars, writeVars, answered, errors>>

None == MaxCommits + 1

(* Definitions named Fault_... are seeded faults: plausible slips in the   *)
(* code, each of which makes a property of this module fail.               *)

(* The key of a view: only the detail key carries the version.             *)
Fault_KeyWithoutVersion(v, n) == <<v, 0>>
KeyOf(v, n) == IF v = "detail" THEN <<v, n>> ELSE <<v, 0>>
Keys == {KeyOf(v, n) : v \in Views, n \in Versions}
NoKey == <<"none", 0>>

Init ==
    /\ row = [x \in Rows |-> 0]
    /\ version = 0
    /\ entry = [k \in Keys |-> None]
    /\ rpc = [p \in Readers |-> "idle"]
    /\ view = [p \in Readers |-> "none"]
    /\ key = [p \in Readers |-> NoKey]
    /\ val = [p \in Readers |-> 0]
    /\ floor = [p \in Readers |-> 0]
    /\ wpc = [w \in Writers |-> "idle"]
    /\ wrote = [w \in Writers |-> [x \in Rows |-> 0]]
    /\ answered = [x \in Rows |-> 0]
    /\ errors = 0

Error == errors < MaxErrors /\ errors' = errors + 1
NoError == UNCHANGED errors

RGoto(p, label) == rpc' = [rpc EXCEPT ![p] = label]
Serve(p) == RGoto(p, "served") /\ key' = [key EXCEPT ![p] = NoKey]
WGoto(w, label) == wpc' = [wpc EXCEPT ![w] = label]

-----------------------------------------------------------------------------
(* Reads.                                                                  *)

BeginRead(p, v) ==
    /\ rpc[p] \in {"idle", "served"}
    /\ view' = [view EXCEPT ![p] = v]
    /\ floor' = [floor EXCEPT ![p] = answered[RowOf(v)]]
    /\ key' = [key EXCEPT ![p] = KeyOf(v, 0)]
    /\ RGoto(p, IF v = "detail" THEN "version" ELSE "get")
    /\ val' = [val EXCEPT ![p] = 0]
    /\ UNCHANGED <<row, version, entry, writeVars, answered, errors>>

(* getTicketCacheVersion: "0" when Redis cannot be asked.                  *)
ReadVersion(p) ==
    /\ rpc[p] = "version"
    /\ \/ NoError /\ key' = [key EXCEPT ![p] = KeyOf("detail", version)]
       \/ Error /\ key' = [key EXCEPT ![p] = KeyOf("detail", 0)]
    /\ RGoto(p, "get")
    /\ UNCHANGED <<row, version, entry, view, val, floor, writeVars, answered>>

(* cacheGet: an error is a miss.                                           *)
GetHit(p) ==
    /\ rpc[p] = "get" /\ entry[key[p]] # None
    /\ val' = [val EXCEPT ![p] = entry[key[p]]]
    /\ Serve(p)
    /\ UNCHANGED <<row, version, entry, view, floor, writeVars, answered, errors>>

GetMiss(p) ==
    /\ rpc[p] = "get"
    /\ IF entry[key[p]] = None THEN NoError ELSE Error
    /\ RGoto(p, "query")
    /\ UNCHANGED <<row, version, entry, view, key, val, floor, writeVars, answered>>

Query(p) ==
    /\ rpc[p] = "query"
    /\ val' = [val EXCEPT ![p] = row[RowOf(view[p])]]
    /\ RGoto(p, "set")
    /\ UNCHANGED <<row, version, entry, view, key, floor, writeVars, answered, errors>>

Set(p) ==
    /\ rpc[p] = "set"
    /\ \/ NoError /\ entry' = [entry EXCEPT ![key[p]] = val[p]]
       \/ Error /\ UNCHANGED entry
    /\ Serve(p)
    /\ UNCHANGED <<row, version, view, val, floor, writeVars, answered>>

(* The time to live of an entry ends.                                      *)
Fault_KeepLists(k) == k[1] # "list"
HasTtl(k) == TRUE
Evict(k) ==
    /\ entry[k] # None /\ HasTtl(k)
    /\ entry' = [entry EXCEPT ![k] = None]
    /\ UNCHANGED <<row, version, readVars, writeVars, answered, errors>>

-----------------------------------------------------------------------------
(* Writes: a booking call changes the ticket, and the user as well when it *)
(* moves wallet money; updateProfile changes the user.                     *)

Fault_BumpAlways(R) == "bump"
Invalidates(R) == IF "ticket" \in R THEN "bump" ELSE "delete"

Commit(w, R) ==
    /\ wpc[w] = "idle" /\ R # {}
    /\ \A x \in R : row[x] < MaxCommits
    /\ row' = [x \in Rows |-> IF x \in R THEN row[x] + 1 ELSE row[x]]
    /\ wrote' = [wrote EXCEPT ![w] = [x \in Rows |-> IF x \in R THEN row[x] + 1 ELSE 0]]
    /\ WGoto(w, Invalidates(R))
    /\ UNCHANGED <<version, entry, readVars, answered, errors>>

(* The call answers once its last invalidation has been tried.             *)
Answer(w) ==
    /\ answered' = [x \in Rows |-> IF answered[x] < wrote[w][x]
                                   THEN wrote[w][x] ELSE answered[x]]
    /\ wrote' = [wrote EXCEPT ![w] = [x \in Rows |-> 0]]
    /\ WGoto(w, "idle")

Moves(w, x) == x \in Rows /\ wrote[w][x] > 0

(* bumpTicketCacheVersion, then cacheDelete for a call that moved money.   *)
NextVersion == version + 1
Bump(w) ==
    /\ wpc[w] = "bump"
    /\ (NoError /\ version' = NextVersion) \/ (Error /\ UNCHANGED version)
    /\ IF Moves(w, "user")
       THEN WGoto(w, "delete") /\ UNCHANGED <<wrote, answered>>
       ELSE Answer(w)
    /\ UNCHANGED <<row, entry, readVars>>

Delete(w) ==
    /\ wpc[w] = "delete"
    /\ \/ NoError /\ entry' = [entry EXCEPT ![KeyOf("profile", 0)] = None]
       \/ Error /\ UNCHANGED entry
    /\ Answer(w)
    /\ UNCHANGED <<row, version, readVars>>

ReadStep(p) == ReadVersion(p) \/ GetHit(p) \/ GetMiss(p) \/ Query(p) \/ Set(p)
WriteStep(w) == Bump(w) \/ Delete(w)

Next ==
    \/ \E p \in Readers : (\E v \in Views : BeginRead(p, v)) \/ ReadStep(p)
    \/ \E w \in Writers : (\E R \in SUBSET Rows : Commit(w, R)) \/ WriteStep(w)
    \/ \E k \in Keys : Evict(k)

Spec == Init /\ [][Next]_vars

(* A call that has begun goes on, and Redis ends every time to live.       *)
FairSpec ==
    /\ Spec
    /\ \A p \in Readers : WF_vars(ReadStep(p))
    /\ \A k \in Keys : WF_vars(Evict(k))

-----------------------------------------------------------------------------
TypeOK ==
    /\ row \in [Rows -> 0..MaxCommits]
    /\ version \in Versions
    /\ entry \in [Keys -> 0..None]
    /\ rpc \in [Readers -> {"idle", "version", "get", "query", "set", "served"}]
    /\ view \in [Readers -> Views \cup {"none"}]
    /\ key \in [Readers -> Keys \cup {NoKey}]
    /\ val \in [Readers -> 0..MaxCommits]
    /\ floor \in [Readers -> 0..MaxCommits]
    /\ wpc \in [Writers -> {"idle", "bump", "delete"}]
    /\ wrote \in [Writers -> [Rows -> 0..MaxCommits]]
    /\ answered \in [Rows -> 0..MaxCommits]
    /\ errors \in 0..MaxErrors

Served(p, v) == rpc[p] = "served" /\ view[p] = v

(* Ticket details that were asked for after a booking call was answered    *)
(* show what that call did, or something later, however slow fills of the  *)
(* cache overlap the commit: config/redis.ts, as long as Redis answers.    *)
DetailsSeeAnswered ==
    errors = 0 => \A p \in Readers : Served(p, "detail") => val[p] >= floor[p]

(* Every cache becomes right again: when writes have stopped, whatever     *)
(* invalidation failed, was lost or was overtaken by a slow fill, a time   *)
(* comes after which no entry differs from its row.                        *)
StaleEnds == <>[](\A k \in Keys : entry[k] \in {None, row[RowOf(k[1])]})

-----------------------------------------------------------------------------
(* What README.md says of every capacity change and the code does not keep *)
(* for the lists: once it is committed and the version incremented, "the   *)
(* old cache is no longer read".                                           *)
ListsSeeAnswered == \A p \in Readers : Served(p, "list") => val[p] >= floor[p]
=============================================================================
