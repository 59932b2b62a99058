----------------------------- MODULE TicketSearch -----------------------------
(***************************************************************************)
(* GET /api/tickets as a function of its input: the query built for        *)
(* Elasticsearch and the SQL that takes its place when Elasticsearch does  *)
(* not answer.  Both filter, sort and cut out a page.                      *)
(*                                                                         *)
(* One filter of each kind stands for its kind: cityId for the filters     *)
(* that ask for equality, maxPrice and startDate for the ends of the two   *)
(* ranges.  Matching of free text (q, team, sport) and the order by        *)
(* relevance are the engines' own and are left out.  The index is taken to *)
(* hold the rows of the table; SearchSync is about when it does not.       *)
(***************************************************************************)
EXTENDS Integers, Sequences, FiniteSets, SequencesExt

CONSTANTS
    SearchTickets,  \* records with id, text (where its id stands among all
                    \* ids as texts), city, competition, status, match
                    \* (matches.status), time and price
    Now,            \* the time of the request
    Limit,          \* tickets of a page
    Absent          \* a parameter that is not given

ASSUME SearchAssumption == Limit \in Nat \ {0} /\ IsFiniteSet(SearchTickets)

Sources == {"elasticsearch", "postgresql-fallback"}

Given(parameter, holds) == parameter = Absent \/ holds

-----------------------------------------------------------------------------
(* Elasticsearch: the lower bound of the time is startDate or, when that   *)
(* is not given and only what remains is asked for, now.                   *)

Fault_StrictRange(in, t) ==
    IF in.startDate # Absent THEN t.time > in.startDate
    ELSE in.remainingOnly => t.time > Now
InDateRange(in, t) ==
    IF in.startDate # Absent THEN t.time >= in.startDate
    ELSE in.remainingOnly => t.time > Now

IndexKeeps(in, t) ==
    /\ Given(in.cityId, t.city = in.cityId)
    /\ in.remainingOnly => t.status = "available" /\ t.match = "scheduled"
    /\ InDateRange(in, t)
    /\ Given(in.maxPrice, t.price <= in.maxPrice)

(* PostgreSQL.                                                             *)
TableKeeps(in, t) ==
    /\ Given(in.cityId, t.city = in.cityId)
    /\ Given(in.startDate, t.time >= in.startDate)
    /\ Given(in.maxPrice, t.price <= in.maxPrice)
    /\ in.remainingOnly => /\ t.status = "available"
                           /\ t.match = "scheduled"
                           /\ t.time > Now

Found(source, in) ==
    {t \in SearchTickets : IF source = "elasticsearch" THEN IndexKeeps(in, t) ELSE TableKeeps(in, t)}

-----------------------------------------------------------------------------
(* Both break ties by the id, one as a text and the other as a number.     *)
SortKey(in, t) ==
    LET key == IF in.sortBy = "price" THEN t.price ELSE t.time
    IN IF in.sortOrder = "desc" THEN -key ELSE key

TieKey(source, t) == IF source = "elasticsearch" THEN t.text ELSE t.id

(* Rows in an order: the i-th is the one that i - 1 others come before.    *)
InOrder(rows, before) ==
    [i \in 1..Cardinality(rows) |->
        CHOOSE t \in rows : Cardinality({s \in rows : <<s, t>> \in before}) = i - 1]

Sorting(source, in) ==
    {st \in SearchTickets \X SearchTickets :
        \/ SortKey(in, st[1]) < SortKey(in, st[2])
        \/ /\ SortKey(in, st[1]) = SortKey(in, st[2])
           /\ TieKey(source, st[1]) < TieKey(source, st[2])}

Ordered(source, in) == InOrder(Found(source, in), Sorting(source, in))

Fault_FromPage(page) == page * Limit
Offset(page) == (page - 1) * Limit

TotalPages(n) == (n + Limit - 1) \div Limit

Page(list, page) ==
    SubSeq(list, Offset(page) + 1, IF Offset(page) + Limit < Len(list) THEN Offset(page) + Limit ELSE Len(list))

Search(source, in) ==
    LET all == Ordered(source, in)
    IN [items |-> Page(all, in.page), page |-> in.page, pages |-> TotalPages(Len(all))]

(* GET /api/competitions/:id/tickets, which knows no other filter: free    *)
(* seats first, then by time and id.                                       *)
CompetitionTickets(competition) ==
    LET rank(t) == IF t.status = "available" THEN 0 ELSE 1
    IN InOrder({t \in SearchTickets : t.competition = competition},
               {st \in SearchTickets \X SearchTickets :
                   LET s == st[1]  t == st[2]
                   IN \/ rank(s) < rank(t)
                      \/ rank(s) = rank(t) /\ s.time < t.time
                      \/ rank(s) = rank(t) /\ s.time = t.time /\ s.id < t.id})
=============================================================================
