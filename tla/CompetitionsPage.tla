-------------------------- MODULE CompetitionsPage --------------------------
(***************************************************************************)
(* The first page of the web client: one list of all matches, narrowed by  *)
(* filters and cut into pages in the browser.  Four requests are sent when *)
(* the page is mounted and are answered in any order, or fail; what may be *)
(* chosen depends on the answers that have arrived.  Choosing a filter is  *)
(* one step with the effect React runs after it, which goes back to the    *)
(* first page.                                                             *)
(*                                                                         *)
(* Two date filters are left out: they bound the time of a match as the    *)
(* two price filters bound its prices.                                     *)
(***************************************************************************)
EXTENDS Integers, Sequences, SequencesExt

CONSTANTS
    CompMatches,    \* GET /api/matches: records with id, sport, city, venue,
                    \* competition, low, high (prices) and free (seats left)
    CompCities,     \* GET /api/cities
    CompVenues,     \* GET /api/venues: names, whether used or not
    CompLeagues,    \* GET /api/competitions
    CompQueries,    \* texts the user may type
    CompPrices,     \* prices the user may type
    PerPage,        \* ITEMS_PER_PAGE
    NoChoice        \* the empty choice of a select or an input

ASSUME CompAssumption == PerPage \in Nat \ {0} /\ CompMatches \in Seq(Range(CompMatches))

VARIABLES
    compGot,        \* each request: "asked", "ok" or "failed"
    compFilter,     \* the ten useState of the filters
    compOpen,       \* showAdvanced
    compPage        \* currentPage

compVars == <<compGot, compFilter, compOpen, compPage>>

Fields == {"query", "sport", "city", "venue", "competition", "min", "max", "available"}
Everything == [field \in Fields |-> IF field = "available" THEN FALSE ELSE NoChoice]

CompInit ==
    /\ compGot = [r \in {"matches", "cities", "venues", "competitions"} |-> "asked"]
    /\ compFilter = Everything
    /\ compOpen = FALSE
    /\ compPage = 1

Answered(r, list) == IF compGot[r] = "ok" THEN list ELSE {}
Listed == Answered("matches", {CompMatches[i] : i \in DOMAIN CompMatches})

-----------------------------------------------------------------------------
(* What the filters let through, and the page that is shown of it.         *)

Unless(filter, holds) == filter = NoChoice \/ holds

Sees(f, m) ==
    /\ Unless(f.query, f.query \in {m.competition, m.sport, m.venue, m.city})
    /\ Unless(f.sport, m.sport = f.sport)
    /\ Unless(f.city, m.city = f.city)
    /\ Unless(f.venue, m.venue = f.venue)
    /\ Unless(f.competition, m.competition = f.competition)
    /\ Unless(f.min, m.high >= f.min)
    /\ Unless(f.max, m.low <= f.max)
    /\ f.available => m.free > 0

Filtered ==
    IF compGot["matches"] # "ok" THEN <<>>
    ELSE FoldLeft(LAMBDA list, m : IF Sees(compFilter, m) THEN Append(list, m) ELSE list,
                  <<>>, CompMatches)

Fault_RoundDown(n) == n \div PerPage
PagesOf(n) == (n + PerPage - 1) \div PerPage

PageOf(list, page) ==
    LET start == (page - 1) * PerPage
    IN SubSeq(list, start + 1, IF start + PerPage < Len(list) THEN start + PerPage ELSE Len(list))

Shown == PageOf(Filtered, compPage)

-----------------------------------------------------------------------------
(* What each control offers.                                               *)

VenueOptions ==
    {v \in Answered("venues", CompVenues) :
        Unless(compFilter.city, \E m \in Listed : m.venue = v /\ m.city = compFilter.city)}

Options(field) ==
    CASE field = "query" -> CompQueries
      [] field = "sport" -> {m.sport : m \in Listed}
      [] field = "city" -> Answered("cities", CompCities)
      [] field = "venue" -> VenueOptions
      [] field = "competition" -> Answered("competitions", CompLeagues)
      [] field \in {"min", "max"} -> CompPrices
      [] field = "available" -> BOOLEAN

(* The effect's dependencies: the filters whose change resets the page.    *)
ResetsPage == Fields

(* A venue of another city would select nothing, and be shown as no choice.*)
Fault_KeepVenue(field, value) == [compFilter EXCEPT ![field] = value]
Chosen(field, value) ==
    IF field = "city" THEN [compFilter EXCEPT !.city = value, !.venue = NoChoice]
    ELSE [compFilter EXCEPT ![field] = value]

-----------------------------------------------------------------------------
CompAnswer(r) ==
    /\ compGot[r] = "asked"
    /\ \E outcome \in {"ok", "failed"} : compGot' = [compGot EXCEPT ![r] = outcome]
    /\ UNCHANGED <<compFilter, compOpen, compPage>>

(* Until the matches arrive a spinner takes the place of the form, and an  *)
(* error takes it for good.                                                *)
CompUsable == compGot["matches"] = "ok"

CompToggle ==
    /\ CompUsable
    /\ compOpen' = ~compOpen
    /\ UNCHANGED <<compGot, compFilter, compPage>>

CompChoose(field) ==
    /\ CompUsable
    /\ field \in {"query", "sport"} \/ compOpen
    /\ \E value \in Options(field) \cup {Everything[field]} :
          /\ value # compFilter[field]
          /\ compFilter' = Chosen(field, value)
    /\ compPage' = IF field \in ResetsPage THEN 1 ELSE compPage
    /\ UNCHANGED <<compGot, compOpen>>

CompTurn ==
    /\ CompUsable
    /\ Filtered # <<>>
    /\ \E page \in {compPage - 1, compPage + 1} \cap 1..PagesOf(Len(Filtered)) : compPage' = page
    /\ UNCHANGED <<compGot, compFilter, compOpen>>

CompNext ==
    \/ \E r \in DOMAIN compGot : CompAnswer(r)
    \/ CompToggle
    \/ \E field \in Fields : CompChoose(field)
    \/ CompTurn

-----------------------------------------------------------------------------
(* However the filters were chosen and the pages turned, the page on show  *)
(* is not empty while some match passes the filters (currentPage and the   *)
(* effect that resets it), and the pages together show every match that    *)
(* passes, once and in order (totalPages, startIndex and slice).           *)
CompPagesShowMatches ==
    /\ Filtered # <<>> => Shown # <<>>
    /\ FlattenSeq([page \in 1..PagesOf(Len(Filtered)) |-> PageOf(Filtered, page)]) = Filtered

(* A filter that is applied is among the options its select offers, so the *)
(* page never narrows the list by a choice it shows as not made.           *)
CompChoiceOffered ==
    \A field \in {"sport", "city", "venue", "competition"} :
        compFilter[field] \in Options(field) \cup {NoChoice}
=============================================================================
