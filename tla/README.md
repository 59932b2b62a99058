# BookTheGame in TLA+

BookTheGame sells seats of sport matches: a Node/Express API over PostgreSQL
(the truth), Elasticsearch (a read model for searching) and Redis (read caches
and one-time login codes), a cron job that expires unpaid orders, and a React
client. This directory holds a TLA+ model of it, the TLC runs that check the
model and the TLAPS proofs about it. Paths below are relative to the repository
root.

## 1. Inventory

| Part | State it keeps | Operations | Correct when |
|---|---|---|---|
| Booking core (`src/services/reservationService, paymentService, cancellationService, expirationService, adminService`) | rows of `tickets, orders, reservations, payments, cancellation_request_items, refunds`, `users.wallet_balance` | reserve, pay (success or simulated failure), cancel, support review, support ticket change, expiration batch | no seat is held twice; the three status columns agree; an order is paid once; refunds are covered; wallet money is conserved; nothing leaves a final state; unpaid seats come back |
| Transactions (`config/database.ts` and the statements of the services) | row locks, what a transaction has read and written | BEGIN, locking SELECTs, writes, COMMIT or ROLLBACK | each call takes effect as a whole; every call ends; deadlocks only where the lock order allows them |
| Cancellation policies | `cancellation_policies, cancellation_policy_rules` | choose the rule for the hours left; preview; round | the refund is not more than was shown, and not more than was paid |
| Search read model (`search/sync, reindex, indexManager`) | the index, `pendingTicketIds` in memory | sync after a commit, retry every minute, reindex, rebuild | a document that lags its row is repaired |
| Search queries (`search/ticketSearch`, `repositories/ticketRepository`) | none | one query for Elasticsearch, one for PostgreSQL | both find the same; pages partition the result |
| Read caches (`config/redis.ts`, `ticketService, catalogService, userService`) | cached values, `cache:tickets:version` | cache-aside reads; increment or delete after a commit; time to live | an answered call is seen; staleness ends |
| One-time codes (`authService.ts`) | `otp:*` and `otp:rate:*` in Redis | request, mail, activate or remove, verify | a code is mailed, used once, and guessed a bounded number of times |
| Reports (`reportService.ts`) | `reports` | create, list, review | a written answer is not lost; what was filed is seen |
| Web client (`frontend/src/pages`) | component state, the URL | loads, filters, pages, pay, preview and cancel, report, review | what is shown answers what is chosen; retries do nothing twice; nothing stays busy |
| Accounts, tokens, profile | `users` | sign up, update, authenticate | contacts are unique |
| Catalog queries, stored procedures, analytical queries | none of their own | reads | |
| HTTP layer | an in-memory request limiter | routing, validation | |

How they interact: a booking call runs one database transaction, and after the
commit, outside it, awaits `syncTicketDocuments`, then increments the cache
version, then (when wallet money moved) deletes the profile entry. A failure of
any of these three is swallowed. Searches read Redis, then Elasticsearch or,
when that fails, PostgreSQL. The expiration job is one more caller of the same
kind. Nothing written to Elasticsearch or Redis is ever read to decide a
booking. The client calls the API through `apiRequest`, which gives up after a
time-out; the call it gave up goes on at the server.

What is hard: rival transactions on seats and orders, and the locks they wait
for; two clocks judging one deadline; order and payment statuses recomputed from
partial cancellations; refunds and penalties adding up; three stores updated one
after the other with crashes between; unversioned writes that overtake each
other; slow cache fills; overlapping code requests; pages whose requests are
answered late, lost or out of order, and users who try again. `PROJECT.json`
lists each hazard at its line with the property that covers it, or why none
does.

## 2. Modules

| Module | Models | Kind |
|---|---|---|
| `SeatSale` | what the booking core promises: a seat is free, withdrawn or with one order; an order opens, and closes by buying all it holds or losing the last of it | abstract specification |
| `Booking`, `MCBooking` | the booking core on committed rows, one action per call; its instances. Implements `SeatSale` | component |
| `BookingLocks`, `MCBookingLocks` | the same calls as statements that take row locks. Implements `Booking` | component |
| `BookingProofs`, `MoneyProofs`, `SaleProofs` | theorems about `Booking`: seats, orders and payments; money; the refinement of `SeatSale` | TLAPS |
| `LockProofs` | theorems about `BookingLocks`: the refinement of `Booking`, what can deadlock | TLAPS |
| `SearchSync`, `MCSearchSync` | the search read model; its instance | component |
| `ReadCache`, `ReadCacheProofs` | the three caching disciplines; theorems | component, TLAPS |
| `SearchCache` | searches behind the cache, over `SearchSync` | composition |
| `SearchProofs` | theorems about `SearchSync` and `SearchCache` | TLAPS |
| `Otp`, `MCOtp`, `OtpProofs` | the one-time codes, their instances; theorems | component, TLAPS |
| `TicketSearch` | the two ticket queries as functions of the request | component |
| `CompetitionsPage`, `SearchPage`, `SupportPage`, `ReportsPage`, `Checkout` | five routes of the client, each with the part of the server it talks to | components |
| `WebClient`, `MCWebClient` | the routes side by side; values for TLC | composition |
| `WebProofs` | theorems about the five routes, as properties of `WebClient` | TLAPS |

The modules compose in four ways. `BookingLocks` implements `Booking`, which
implements `SeatSale`, so what is shown of a more abstract one holds of the more
detailed one below it. `SearchPage` extends `TicketSearch`: what it shows is an
answer of one of the two queries. `SearchCache` extends `SearchSync` with the
calls that answer and the searches that are served. `WebClient` extends the five pages and lets a
visit take one of them.

Definitions named `Fault_...` stand beside the definition each of them is a
plausible wrong version of. No specification uses them; replacing the right
definition by its fault makes a property fail, which shows that the property
depends on that line of the code.

### Booking

Each variable is a column (`ticketStatus` is `tickets.status` and so on), a
reservation is named by its order and first seat, a payment by its order and
attempt. `Reserve`, `PayFailed`, `PaySuccess`, `Cancel`, `SetReservationStatus`,
`ChangeTicket` and `ExpireBatch` are the seven state-changing calls, whole:
guards are the code's checks in its order, and every table a call writes is
written in that step. A rejected call rolls back and is a stuttering step. That
a call may be taken as one step is what `BookingLocks` shows.

Unique indexes (`indexes.sql`) and the CHECKs of the tables are never guards:
`NoDoubleBooking`, `SettledOnce` and `TypeOK` show that the code does not run
into them (`approved \in 0..1` is `uq_active_cancellation_item_per_reservation`).

Time is three sets that only grow: orders overdue for the API process
(`Date.now()` in pay and ticket change), orders overdue for PostgreSQL
(`CURRENT_TIMESTAMP` in the job), matches that have started. The first two
advance independently, so a clock that is ahead or behind is covered.

Prices and balances are whole numbers of the smallest unit, as `NUMERIC(12,2)`
holds. `Math.round(x * 100) / 100` is modelled as integer rounding, half up;
the binary representation of amounts is not. The percent of a penalty is any
member of `Percents`; which rule applies when is in `Checkout`.

### BookingLocks

A call is a request, the statement it is at (`stage`), the row locks that
statement has still to take in order (`todo`), the locks it holds, the rows it
has read and what it has written and not committed. A locking SELECT queues its
rows in the order of its ORDER BY; `Take` takes the next free one, and a row that
had to be waited for is judged again on its committed value, joins included, as
READ COMMITTED does. Locks are FOR UPDATE, except the user row, which `reserve`
takes FOR SHARE and a wallet UPDATE takes alone. The job skips orders that are
locked. A call may fail at any statement (`Fails`) and a deadlock's victim ends
without an effect (`Victim`): the services do not retry. Rows change only in
`Commit`, and what a commit will change is written down before it, column by
column (`ReserveWrites`, `PayWrites`, `CancelWrites`, `ReviewWrites`,
`ChangeWrites`, `ExpireWrites`). A call is deadlocked when every transitive
relation that contains who waits for whom relates it to itself (`InCycle`).
`ImplementsBooking == Core!Spec` says that the rows then move as one
whole call of `Booking` would move them.

Calls that meet no other are taken whole first (`Alone`), to reach the states in
which calls meet. Time stands still while calls overlap, since a call judges a
deadline once, under the lock of the order. The pool of connections and its
limit are left out; the commit whose answer is lost is in `Checkout`.

### SearchSync

A row and its document are the number of commits that changed the row. One
`syncTicketDocuments` call is three steps (make sure the index exists, read,
bulk write), any of which may fail; some items of a bulk request may fail; a
request that timed out may be applied later; a restart loses the pending set and
the calls in progress. Any number of these calls, of the timer's among them, run
beside one another. The reindex script is a process of its own, with keyset
batches, and may drop the index first (rebuild). HEAD, DELETE and PUT of an
index are one step. Tickets are never deleted, so `deleteTicketDocuments` has
nothing to do.

`excused` is a history variable, read by the properties and by no guard: the
tickets whose document may lag for good. A ticket enters it when it commits while
a document of it is in hand (read by a sync, a reindex or a request that timed
out, and not yet written), since writes carry no version and either may be last;
or when a restart forgets its repair, or the index is dropped. It leaves with its
next commit, or when a reindex writes the row as it is with nothing outdated in
hand. A sync that overlaps another one excuses nothing by itself.

### ReadCache

One ticket and one user stand for all: keys are never shared. A read is version,
get, query, set; a write is commit, then increment, then delete, and is answered
with the last of these. Any Redis command may fail (`errors` counts to
`MaxErrors`). `floor` remembers what had been answered when a read began.
A search result is cached like details but filled from the index: `SearchCache`.

### SearchCache

What a user who searches sees, over the state of `SearchSync`. A booking call
commits and synchronizes (`CallCommits`, `Synchronizes`), whatever comes of it,
and then increments the version and is answered (`CallAnswers`); calls overlap.
`owed` is what a call committed (but for excused tickets), `answered` the last
such commit of each ticket whose call was answered after its sync had gone
through. A search is version (`BeginSearch`), get, query of the index or of the
table, set. One search whose result shows every ticket stands for all of
them, so its key is the version. Redis answers here, no bulk request is late and
no reindex runs: `ReadCache` and `SearchSync` have those, and with them neither
property would hold for the reasons given there. A restart of the API ends its
calls and searches and leaves Redis alone.

### Otp

One account; each Redis command and Lua script is a step; `Fails` is a command
that fails before or after Redis carried it out, or a process that stops; the
two keys may expire at any time they have an expiry. A code is named by the
request that drew it, so equal codes (one in a million) are not modelled.
`NODE_ENV=development`, which shows the code and accepts any, is left out.

### TicketSearch and SearchPage

`IndexKeeps` and `TableKeeps` are the filters of `buildTicketSearchBody` and of the
SQL fallback, `Ordered` the two orders with their tie-breaks, `Offset` and
`TotalPages` the paging. One filter of each kind stands for its kind. Matching of
free text and ranking are the engines' own and are left out.

`SearchPage` keeps what `useSearchParams` and `useState` keep: the URL, the
controls as they were mounted (`searchForm`), the loads in progress and what is
shown. Each URL mounts the form again and starts a load; answers arrive in any
order and each replaces the result. A select shows its parameter only if its
option had arrived when it was mounted; a date is shown as the digits of UTC and
read back as local time (`Zone`).

### CompetitionsPage

Four requests answered in any order or not at all, the filters, the page number.
`CompChoose` is `setState` with the effect React runs after it, which goes back
to the first page; a new city clears the venue.

### SupportPage

The lists of reports and of reservations, `review` and `changeStatus`, with
`updateReportStatus` and the statuses of reservations at the server, which
colleagues, buyers and the job change meanwhile; users file reports meanwhile
(`ReportFiled`). A list is the newest `DeskLimit` rows that pass the filter
(`Newest`): the client asks for 100 and never for a second page. Rows are numbers
in the order of `created_at`, and may become visible in another order. A load
reads in one step and shows in a later one; `review` reloads with the tab and
filter of its click, and its prompt proposes the response the list showed.
`MaxOthers` bounds what others do in one visit.
The tab of payments, which can only be looked at, is left out.

### ReportsPage

`createReport` with its checks of the subject, `myReports`, the control for the
subject's id (a select once the reservations have arrived, an input before), and
`submit` as JavaScript runs it: after its first await `event.currentTarget` is
null, so what follows is its catch (`RepCreated`).

### Checkout

One reservation in two tabs, `PaymentPage` and `ReservationsPage`. The tabs'
steps are `PayClick`, `PayAnswered`, `CancelClick` (preview), `CancelAsked`
(dialog), `CancelConfirmed`, `CancelAnswered`, `CancelNoticed` and the failures
of each. A page that gives up leaves its call with the server (`GiveUp`), which
may carry it out late; a commit may be followed by an answer that says it
failed. `PenaltyPercent` is the SQL that chooses the rule, for the preview and
for the cancel at their own hours; the penalty is rounded half up. The server is reduced to this reservation
with the checks of `pay` and `cancel`; `Booking` has all of them.

### WebClient

`route` is the visited route; each page keeps its state to itself while mounted,
so the composition is one page at a time and not their product.

## 3. Runs

| Run | Bounds | Shows |
|---|---|---|
| `booking_rivals` | 2 seats of a match, 2 orders, 1 attempt each, up to 2 seats per order, penalty 50 %, fairness | consistency of all status columns, final states, `ImplementsSeatSale`; a pending reservation ends |
| `booking_money` | 3 seats in 2 matches, 2 users, 1 order, 2 attempts, penalties 0, 50, 100 % | one settled payment, also after a failed attempt; the sums: refunds, wallet, amount of a payment |
| `booking_locks` | 2 overlapping calls after up to 2 whole ones, 2 seats, 2 orders, 1 user, 2 attempts | overlapping calls implement `Booking`; every call ends; what can deadlock |
| `sync` | 2 tickets with a gap in their ids, batches of 1, 2 commits of each, 2 syncs, 1 restart, 1 late bulk request, 1 reindex | nothing is forgotten that is not excused, a reindex that runs alone repairs |
| `cache` | 3 kinds of entries, 2 reads, 1 write, 1 commit, 1 failure, fairness | details are fresh while Redis answers; staleness ends in all three disciplines |
| `search_cache` | 1 ticket, 2 commits, 2 calls or retries at a time, 1 restart, 1 search that is repeated, versions to 2, fairness | a search shows what was answered; what lags is repaired and leaves the cache |
| `otp_requests` | 3 requests, 2 allowed per window, 2 attempts | one use, only mailed codes, bounded guesses, harmless overtaken requests |
| `web_pages` | 4 matches, 5 tickets, pages of 2, 3 loads, 2 reports of 2 changes and 1 reservation on a support page of 1 row, 2 steps of others, 2 report submits, 2 tries to pay and 2 to cancel, 3 hours with 2 rules, fairness | what the pages show, what retries do, that nothing stays busy |
| `sync_overlap`, `cache_lists`, `otp_window`, `report_filed` | the smallest that shows it (`report_filed`: those of `web_pages`) | the code does not do what a document says (section 5) |

Why these bounds are enough to be interesting: two orders on two seats reach
every pair of rival calls, orders that lose and keep a seat at once, a seat that
changes hands more than once between them and a ticket change onto a seat the
other has released; three seats with one order reach every mix of pending, paid
and cancelled rows and sums of more than two amounts. Two overlapping calls are
enough for a deadlock and for a statement that waits and re-reads; the calls
taken before them bring paid, partly cancelled and changed rows into the
meeting. That more calls add nothing to what may go wrong is what `LockProofs`
proves. A second reader fills the cache while the first is slow; that more
writers and commits change nothing is what `DetailsFresh` proves. Three requests
give a request an earlier and a later rival. Two pages of matches and of tickets
let a page number outlive its filter; three loads let an answer be overtaken
twice; two tries of each call, of which the first may be late, are what a retry
is about.

Code requests are interchangeable, so `otp_requests`, which checks safety only,
takes them modulo permutation, and `sync` does so with its syncs. `MCBooking` takes states modulo the deadlines of orders that are no
longer pending (`Relevant`): no guard, property or fairness condition reads them
and no action changes them, so the states it identifies have the same steps. Runs do not check for deadlock: the models
stop when the bounded identities, commits, calls or loads are used up, as the
system rests when nobody calls it. (Deadlocks among row locks are states in
which `Victim` can act; `CallsEnd` is about them.)

Some properties carry a condition, always one the code needs.
`NothingForgotten` and `SearchCatchesUp` leave out the tickets in `excused`,
because `pendingTicketIds` is memory and writes carry no version: without the
exception `sync_overlap` is a counterexample;
`DetailsSeeAnswered` speaks of a Redis that answers (`errors = 0`);
`SearchSeesAnswered` of calls whose sync went through, because a deferred sync
is answered as well, and of tickets not excused at the commit.
`DeskOwnReviewSeen` allows a full page of newer reports, and `DeskResponseKept`
the loss of a text that was written after the list was read, because the code
does both. Those about
lists on pages speak of a page at rest whose last load was not started beside
another (`searchRaced`, `deskRaced`), because nothing orders answers; the
states with a race are reached, and section 5 says what happens in them.

### Fairness

`Booking!FairSpec`: weak fairness of the job, which cron starts every minute and
which skips rows only while another transaction holds them, and of the database
clock for each order. The job is fair as a whole, not per order: that it reaches
every order is part of what is shown.
`BookingLocks!Spec`: weak fairness of the calls as a whole. A call that can go
on does; one that waits in a cycle is ended by PostgreSQL after
`deadlock_timeout`. A single call waiting behind others is not assumed to win.
`SearchCache!CacheFairSpec`: the retry timer (one, whichever sync it becomes) and
the answer of each call that has synchronized are weakly fair; the steps of each
sync are strongly fair, which says that an outage of Elasticsearch or of the
network ends. A search that has begun goes on, and the time to live of the result
cached for the version in use ends. Nobody is assumed to book or to search.
`ReadCache!FairSpec`: a read that has begun goes on, and every entry's time to
live ends (`cacheSet` always sends `EX`). Writes have no fairness.
`WebClient!WebFairness`: `apiRequest` aborts after its time-out, so each request
of a page is answered or fails, and what the page does with it runs. It is weak
fairness of those steps only. Nothing is assumed of users, supporters, or of how
late the server carries out a call.

## 4. Proofs

Each theorem holds for any values of the constants that satisfy the named
assumptions of its module; the parameters are the sets of users, seats, matches,
orders, attempts, calls, readers, writers, requests and tickets and all bounds.
Two of the assumptions say that tables are finite: `FiniteRows` (`Booking`) and
`FiniteTable` (`SearchSync`), without which sums and batches have no meaning.

Sums, sorted queues and filtered lists are choices of a function or folds, and
the library's induction theorems cannot be used with an operator. Where a proof
needs induction over a finite set it takes a smallest counterexample instead:
among the subsets of a finite set that violate the claim there is one none of
whose proper subsets does (`FS_StrictSubsetOrderingWellFounded`, `WFMin`), and
adding an element to one of those contradicts it.

**Booking: seats and orders** (`BookingProofs`).

- `SeatTypeCorrect`: `Spec => []SeatTypeOK`.
- `NoSeatHeldTwice`: `Spec => []NoDoubleBooking`.
- `SeatsConsistent`: `Spec => []SeatsMatchReservations`.
- `OrdersConsistent`: `Spec => []OrderMatchesReservations`.
- `OrdersSettled`: `Spec => []SettledOnce`.
- `FinalStatesKept`: `Spec => FinalStatesStay`.

`NoDoubleBooking` is not inductive alone: `Reserve` decides by `tickets.status`,
so a step could put a second reservation on a seat whose status had drifted from
its reservations. The inductive invariant `SeatIInv` is therefore the conjunction
with `SeatsMatchReservations`, restated per reservation as `SeatInv` (every active
reservation's seat has its status, every seat with a taken status has an active
reservation, no two active reservations share a seat), and with the fact that
rows not yet created still name their own seat, which a batch of new rows needs
to be on distinct seats. `ReleaseKeepsSeats` and `SaleKeepsSeats` say once what
releasing and selling a set of reservations does; the lemma of each action cites
one of them.

The order theorems rest on what `Cancel` counts: an order's status says which
statuses its reservations have (`OrderAgrees`), and its payments say whether it
was paid (`PaymentsAgree`). `OrderIInv` carries both through each call;
`FinalStatesKept` follows from it, because no call starts from a row whose status
the invariant rules out.

**Booking: money** (`MoneyProofs`).

- `TypesCorrect`: `Spec => []TypeOK`, with balances that are not negative.
- `RefundsStayCovered`: `Spec => []RefundsCovered`.
- `WalletStaysConserved`: `Spec => []WalletConserved`.
- `PaidByPayment`: `Spec => PaidOnlyByPayment`.

The first part proves what a sum over a finite set is: that the function
`MapThenSumSet` defines by recursion exists, that it does not depend on the order
in which elements are chosen, and what adding a row, removing it, changing its
value or joining two sets does to it. `MoneyIInv` then
says of each order that its refunds and its paid seats do not exceed what its
settled payment took (`Covered`), of each user that the wallet is what the
payments and the refunds make of it (`Conserved`), and that only cancelled
reservations have refunds. A cancellation keeps `Covered` because the rounded
refund of a reservation is at most its price, at every percent; a payment because
the amount is the sum of exactly the reservations it makes paid; and a second
payment is excluded by `OrderIInv`.

**Booking: the sale** (`SaleProofs`).

- `TablesImplementSale`: `Spec => ImplementsSeatSale`.

The refinement reads the holder of a seat off the reservations (`HolderOf`), and
a seat has one holder only because of `SeatIInv`: `HolderFacts` says so
once, `SeatUntouched` that a call leaves the seats it does not name, and one
lemma per call (`ReserveHolds`, `PaymentBuys`, `ReleaseReleases`,
`CancelReleasesOrReturns`, `ReviewReleases`, `JobReleases`, `ChangeSwaps`) maps
it to a step of `SeatSale` or to a stutter.

**BookingLocks** (`LockProofs`).

- `OverlapIsInvisible`: `Spec => ImplementsBooking`, for any number of calls.
- `SafeUnderOverlap`: hence what is proved of `Booking` holds while calls overlap.
- `LocksAreOrdered`: `Spec => []LockOrderKept`.
- `DeadlocksNeedReserve`: `Spec => []DeadlockNeedsReserve`.

The question is whether what a call has read is still true when it writes. The
invariant `IInv` is `CoreIInv`, what the two modules above prove of the rows, and
`LockIInv`, what is true of the calls:

- `Knows(c)`: at each statement, what the call's queries have returned against
  the rows as they are. A pay whose items are being locked, for example, knows
  that its order is pending, not due and not paid, that the rows returned are
  pending and that each other pending reservation of the order is still to be
  locked; at `"commit"`, that what it is about to write is what it would decide
  now and that the wallet holds the amount.
- `Exclusive`: a row is locked by one call, but the user row of calls that reserve;
  `NewOrders`: the orders that calls are about to insert differ and are unused.
- `Legal`, `UserLast`: in which order locks are taken.
- `AttemptsNumbered`, `AttemptsLeft`: the attempts of an order have the numbers 1
  to n, and every payment in progress has one left, so that the row it inserts is
  new.

It is kept for three reasons, each a group of lemmas. A commit changes only rows
its call has locked, and its own new order (`CommitWithinLocks`); these are
nobody else's (`CommitSpares`); so a call that sleeps through it knows what it
knew (`...Sleeps`). A call that takes a lock, or goes from one statement to the
next, knows after it what the next statement relies on (`Take...`,
`...Advances`): here it matters that the rows of a join are judged when its last
lock is taken, and that the reservations of an order cannot change under a lock
of the order. And a commit, from what its call knows, is the action of `Booking`
for that request (`...Commits`, `CommitIsStep`), which keeps `CoreIInv` by the
lemmas of `BookingProofs` and `MoneyProofs`. Every other step leaves the rows
alone, which is the refinement.

For the deadlocks, `Legal` gives a rank to what a call waits for: an order before
a seat, seats by their ids, a user last; reservations and payments are never
waited for, since their order is locked first. Whoever is waited for and waits
itself waits for something higher (`WaitsBelow`), so the relation "lower" is
transitive, contains the waits and relates nobody to himself. With the rows of
users it is the same, but for a reserve that holds its user and waits for a seat:
the relation that also admits paths through such a call contains the waits.

**ReadCache** (`ReadCacheProofs`).

- `CacheTypeCorrect`: `Spec => []TypeOK`. `version \in 0..MaxCommits` needs that
  no writer increments without having committed: an invariant that compares the
  version and the set of writers at their increment with the commits
  (`BumpsCounted`), for which the set of writers must be finite.
- `DetailsFresh`: `Spec => []DetailsSeeAnswered`. The argument of the code: an
  answered write has incremented the version, so a read that begins after it uses
  a newer key; under the newest key there are only values that were read after
  the commit (`CurrentFresh`), also those a slow reader is about to store
  (`ReadsFresh`), and under keys of versions to come there is nothing
  (`FutureUnused`).

**Otp** (`OtpProofs`).

- `CodesUsedOnce`: `Spec => []OneLogin`.
- `CodesMailed`: `Spec => []OnlyMailed`.
- `GuessesEnd`: `Spec => GuessesBounded`.
- `OvertakenSafe`: `Spec => OvertakenHarmless`.

The invariant adds that a request that has not stored its code left no trace,
that only the owner marks a record as mailed, and that the guesses made at a
code are the count in its record while the record is there.

**SearchSync and SearchCache** (`SearchProofs`).

- `LaggingIsKnown`: `Spec => []NothingForgotten`, for any number of syncs beside
  one another, late requests, reindexes and restarts. The invariant says of each
  ticket that is not excused that no document in hand is older than its row
  (`HandsCurrent`): a commit with a document in hand excuses the ticket, and what is
  read later is read from the row as it is. So whichever of several holders writes
  last, it writes the row, and a sync that returns with success leaves a ticket
  that does not lag.
- `ReindexRepairsAll`: `Spec => []ReindexRepairs`, with no such hypothesis: the
  property itself is about a reindex nobody disturbs. Every document up to the
  cursor is that of its row (`WrittenToCursor`), and the batch in hand is the
  lowest ids above the cursor (`BatchIsNext`), so that its maximum is the next
  cursor and none is skipped; an empty batch says that all are written.
- `SearchesSeeAnswered`: `CacheSpec => []SearchSeesAnswered`, however calls,
  their syncs and the timer's overlap. What may still be written reaches what was
  answered and what is owed (`HandsUpToDate`), since a ticket that commits while a
  document is in hand is owed nothing. A call that has synchronized left the
  index at least at what it owes (`OwedFits`), so what is answered is shown by
  the table and by the index (`AnsweredShown`): a later query finds it from either.
  What is stored under the version of the moment was read after the last answer
  (`CurrentFresh`), nothing is stored under a version to come (`FutureUnused`),
  and all that a search may find under the version it has read reaches what had
  been answered when it began (`SearchesFresh`).

**The client** (`WebProofs`). All are theorems of `WebSpec`, the specification the
run checks: a step of a visit is a step of one page and leaves the others alone
(`PagesStep`), so each page has an invariant of its own.

- Competitions: `ChoicesOffered` (`CompChoiceOffered`), `PagesShowMatches`
  (`CompPagesShowMatches`). A filter that is applied was offered when it was
  chosen and options are only added; a page number past the first was turned to
  under the filters of now, since every choice goes back to the first. That pages
  join to their list is a lemma on cuts of a sequence, by the number of pages.
- Search: `ResultAnswersUrl` (`SearchShowsUrl`), `UntouchedFiltersKept`
  (`SearchUntouchedFilterKept`), `QueriesAgree` (`SearchSourcesAgree`),
  `SearchPagesJoin` (`SearchPagesPartition`). A load started alone is for the URL
  until it is over, and a form mounted with its options shows what the URL says.
  That a sorted result has each ticket once holds for the order of a set by how
  many come before: `TicketSearch!InOrder` is defined so.
- Support desk: `ListAnswersFilter` (`DeskListAnswersFilter`), `OwnReviewsSeen`
  (`DeskOwnReviewSeen`), `ResponsesKept` (`DeskResponseKept`). While no load has
  raced, the one in progress is for the tab and filter on show, and what it read
  shows every review answered before it, or is full of newer reports
  (`LoadsForChoice`, `ListsTrue`). Reports are filed in between, but what a list
  has read does not change: a full list of newer rows stays one. A text a call is
  about to replace is one the call's list showed, or a newer change, because the
  versions of a report only grow (`PageNotAhead`).
- Reports: `FailuresShown` (`ReportFailureShown`).
- Checkout: `ChargedOnce` (`CheckoutSettledOnce`), `NoticesTrue`
  (`CheckoutNoticeTrue`), and, with rules that do not get milder as the match
  comes near (`RulesStricter`; those of `sample_data.sql` do not),
  `RefundAtMostShown` (`CheckoutRefundAtMostShown`). The invariant follows an
  amount from the rows to the call that changed them, from the call to its answer
  and from there to the tab; each of these carries its own conjunct because each
  may be late or lost. The last needs that penalties only rise between the hour
  of the preview and that of the cancel (`ShownIInv`).

What TLC alone shows: everything that must eventually happen, because liveness
under fairness and ENABLED are beyond these provers: that unpaid seats come back,
that every call ends, that staleness ends in the three caches and in the searches,
that lagging documents are repaired, that no page stays busy. All other
properties of the passing runs are stated by a theorem above.

## 5. What the runs found

- `sync_overlap`: two syncs of one ticket may write in the opposite order of
  their reads; the index then offers a taken seat and nothing is pending.
- `cache_lists`: lists of match and competition tickets are cached without the
  version and show stale capacity for up to `CACHE_LIST_TTL_SECONDS`.
- `otp_window`: a failure between INCR and EXPIRE leaves a counter that never
  expires.
- `report_filed`: a report is created, but the page shows an error and not the
  report, because `event.currentTarget` is null after the await.

Observed while modelling, and consistent with the properties:

Booking. The `paid` branch of `setReservationStatus` can never be taken (a
success payment leaves no pending reservation of its order). `pay` does not look
at the start of the match. `suspiciousPayments` compares a payment with all the
seats an order ever had, so it lists correct payments of orders that lost a seat
before they were paid. A `reserve` and a wallet call of one user may deadlock;
the victim is answered with an error and may be tried again.

Search. `search:reindex` beside a running API may overwrite a newer document
with the row it read before; README.md:268 calls it definitive, which holds when
it runs alone. `ticketSearch.ts:31-32` uses `else if`: when `startDate` is given,
`remainingOnly` no longer asks for matches in the future, as
docs/system-architecture-report.md:203 says it does; the fallback keeps both
conditions, so the two agree only for a `startDate` that is not in the past. Ties
are broken by the id as text in Elasticsearch and as a number in PostgreSQL: the
same page may differ between the two.

The retry of a deferred sync does not increment the version
(`sync.ts:28`): a result cached between the answer and the retry is served for up
to `CACHE_SEARCH_TTL_SECONDS` after the index has been repaired.

Caches. A failed read of the version is taken for 0: a reader whose next command
succeeds may be served an entry of version 0 after the increment, for at most a
time to live. A failed increment leaves entries stale for as long.

Pages. Loads out of order may leave the list of an older URL or filter on show
(search, support desk). A date filter moves by the time zone at each submit. A
select mounted before its options arrived loses its filter at the next submit.
On the search page a competition ignores all other filters; turning pages on a
stale result may land beyond the last page. An id typed on the page of reports
is carried over to another subject, or replaced by the newest reservation when
the list arrives; trying again after the false error files the report twice. An
answer of support can be changed but not emptied. A support prompt proposes the
response as it was when the list was read, so confirming it may overwrite a
colleague's newer text. A supporter who cancels a
reservation seen as pending may cancel one that was paid meanwhile. The support
desk shows the first page of its lists only: a report that was just reviewed falls
off it once 100 newer ones pass the filter. A retried cancel that had been
applied before shows a notice without the amount; a failing `refreshUser` after a
cancel shows an error although the reservation is cancelled. An answer to
`refreshUser` that arrives after signing out sets the user again, and a 401 to a
request sent with an older token removes a newer one (`AuthContext.tsx`,
`client.ts`; not modelled).

## 6. Not modelled

- Accounts, tokens and the session of the client. A race between two signups is
  decided by the UNIQUE columns of `users`; tokens and password hashes are
  libraries.
- HEAD, DELETE and PUT of the index as three steps: what a lost race leaves
  depends on how Elasticsearch answers, not on code here
  (`indexManager.ts:17`).
- The limit of the connection pool; the error messages and layout of pages; the
  tab of payments, the venue select and end date of the search page, the lists
  that only load and show; sorting by relevance and by creation time.
- Free text matching and ranking (the engines), stored procedures, analytical
  queries and the other catalog queries (read-only), routing, validation and the
  request limiter (what validation guarantees is in the types of the actions).
