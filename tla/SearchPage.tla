----------------------------- MODULE SearchPage -----------------------------
(***************************************************************************)
(* The search page of the web client.  The filters live in the URL; each   *)
(* new URL mounts the form again from its parameters and starts a load.    *)
(* Nothing cancels the load before it, so answers arrive in any order, and *)
(* each of them replaces the result and takes the spinner away.            *)
(*                                                                         *)
(* The controls are uncontrolled: a select shows the parameter it was      *)
(* mounted with only if that option had arrived by then.  A date is shown  *)
(* as the digits of its instant in UTC and read back as local time.        *)
(*                                                                         *)
(* One control of each kind is kept.  The venue select, whose options are  *)
(* asked for again with each URL, and the end date are left out.           *)
(***************************************************************************)
EXTENDS TicketSearch

CONSTANTS
    SearchCities,       \* options of the two selects that wait for a request
    SearchLeagues,
    SearchPrices,       \* prices the user may type
    SearchDates,        \* local times the user may pick
    Zone,               \* local time minus UTC
    MaxLoads            \* bound on the loads of one visit

VARIABLES
    searchUrl,          \* useSearchParams
    searchForm,         \* what the controls show
    searchOptions,      \* cities and competitions: "asked", "ok" or "failed"
    searchWhole,        \* both had arrived when the form was mounted
    searchLoads,        \* loads in progress: the URL each was started for
    searchStarted,      \* how many have been started
    searchRaced,        \* the last one was started beside another
    searchLoading, searchError,
    searchResult        \* Absent, or the URL it answers and its source

searchVars == <<searchUrl, searchForm, searchOptions, searchWhole, searchLoads,
                searchStarted, searchRaced, searchLoading, searchError, searchResult>>

Params == {"cityId", "competitionId", "startDate", "maxPrice", "remainingOnly", "sortBy", "sortOrder", "page"}
Controls == Params \ {"page"}
Bare == [p \in Params |-> Absent]

Default(u, p, value) == IF u[p] = Absent THEN value ELSE u[p]

(* The request for a URL, with the defaults of the page and of the server. *)
Effective(u) ==
    [u EXCEPT !.page = Default(u, "page", 1),
              !.sortBy = Default(u, "sortBy", "matchDate"),
              !.sortOrder = Default(u, "sortOrder", "asc"),
              !.remainingOnly = Default(u, "remainingOnly", "true") = "true"]

(* What comes back.  A competition takes the place of every other filter.  *)
Answer(u, source) ==
    IF u.competitionId # Absent
    THEN [items |-> CompetitionTickets(u.competitionId), page |-> 1, pages |-> 1]
    ELSE Search(source, Effective(u))

-----------------------------------------------------------------------------
(* The form.                                                               *)

Option(u, p, arrived) == IF arrived THEN u[p] ELSE Absent

Mounted(u, options) ==
    [p \in Controls |->
        CASE p = "cityId" -> Option(u, p, options.cities = "ok")
          [] p = "competitionId" -> Option(u, p, options.competitions = "ok")
          [] p = "remainingOnly" -> Default(u, p, "true")
          [] p = "sortBy" -> Default(u, p, "matchDate")
          [] p = "sortOrder" -> Default(u, p, "asc")
          [] OTHER -> u[p]]

(* key={params.toString()}: another URL, another form.                     *)
Fault_WithoutKey(u) == searchForm
FormAfter(u) == Mounted(u, searchOptions)

Offered(p) ==
    CASE p = "cityId" -> IF searchOptions.cities = "ok" THEN SearchCities \cup {Absent} ELSE {Absent}
      [] p = "competitionId" -> IF searchOptions.competitions = "ok" THEN SearchLeagues \cup {Absent} ELSE {Absent}
      [] p = "startDate" -> SearchDates \cup {Absent}
      [] p = "maxPrice" -> SearchPrices \cup {Absent}
      [] p = "remainingOnly" -> {"true", "false"}
      [] p = "sortBy" -> {"matchDate", "price"}
      [] p = "sortOrder" -> {"asc", "desc"}

FromForm(form) ==
    [p \in Params |->
        CASE p = "page" -> 1
          [] p = "startDate" -> IF form[p] = Absent THEN Absent ELSE form[p] - Zone
          [] OTHER -> form[p]]

-----------------------------------------------------------------------------
(* Loads.                                                                  *)

StartLoad(u, others) ==
    /\ searchStarted < MaxLoads
    /\ searchStarted' = searchStarted + 1
    /\ searchLoads' = others \cup {[id |-> searchStarted, of |-> u]}
    /\ searchRaced' = (others # {})
    /\ searchLoading' = TRUE
    /\ searchError' = FALSE

(* The dependency of load: params, whose identity follows the URL.         *)
Fault_SameFilters(u) == [u EXCEPT !.page = Absent] # [searchUrl EXCEPT !.page = Absent]
Reloads(u) == u # searchUrl

SetUrl(u) ==
    /\ u # searchUrl
    /\ searchUrl' = u
    /\ searchForm' = FormAfter(u)
    /\ searchWhole' = (\A o \in DOMAIN searchOptions : searchOptions[o] = "ok")
    /\ IF Reloads(u) THEN StartLoad(u, searchLoads)
       ELSE UNCHANGED <<searchLoads, searchStarted, searchRaced, searchLoading, searchError>>
    /\ UNCHANGED <<searchOptions, searchResult>>

(* finally: an error takes the spinner away as an answer does.             *)
Fault_SpinOnError(ok) == ~ok
LoadingAfter(ok) == FALSE

SearchAnswer(l) ==
    /\ l \in searchLoads
    /\ searchLoads' = searchLoads \ {l}
    /\ \/ /\ \E source \in IF l.of.competitionId = Absent THEN Sources ELSE {"postgresql-fallback"} :
                searchResult' = [of |-> l.of, source |-> source]
          /\ searchLoading' = LoadingAfter(TRUE)
          /\ UNCHANGED searchError
       \/ /\ searchError' = TRUE
          /\ searchLoading' = LoadingAfter(FALSE)
          /\ UNCHANGED searchResult
    /\ UNCHANGED <<searchUrl, searchForm, searchOptions, searchWhole, searchStarted, searchRaced>>

SearchListed(o) ==
    /\ searchOptions[o] = "asked"
    /\ \E outcome \in {"ok", "failed"} : searchOptions' = [searchOptions EXCEPT ![o] = outcome]
    /\ UNCHANGED <<searchUrl, searchForm, searchWhole, searchLoads, searchStarted,
                   searchRaced, searchLoading, searchError, searchResult>>

-----------------------------------------------------------------------------
(* What the user does.  One control, at most, is changed before a submit.  *)

SearchSubmit ==
    \E p \in Controls : \E value \in Offered(p) \cup {searchForm[p]} :
        SetUrl(FromForm([searchForm EXCEPT ![p] = value]))

SearchClear == SetUrl(Bare)

(* The pages of the result on show, even while another is being loaded.    *)
SearchTurn ==
    /\ searchResult # Absent
    /\ LET shown == Answer(searchResult.of, searchResult.source)
       IN \E page \in {shown.page - 1, shown.page + 1} \cap 1..shown.pages :
              SetUrl([searchUrl EXCEPT !.page = page])

SearchRetry ==
    /\ searchError /\ ~searchLoading
    /\ StartLoad(searchUrl, searchLoads)
    /\ UNCHANGED <<searchUrl, searchForm, searchOptions, searchWhole, searchResult>>

(* The browser's reload keeps the URL and nothing else.                    *)
SearchInit ==
    /\ searchUrl = Bare
    /\ searchOptions = [o \in {"cities", "competitions"} |-> "asked"]
    /\ searchForm = Mounted(Bare, searchOptions)
    /\ searchWhole = FALSE
    /\ searchLoads = {[id |-> 0, of |-> Bare]}
    /\ searchStarted = 1
    /\ searchRaced = FALSE
    /\ searchLoading = TRUE
    /\ searchError = FALSE
    /\ searchResult = Absent

SearchRefresh ==
    /\ searchOptions' = [o \in DOMAIN searchOptions |-> "asked"]
    /\ searchForm' = Mounted(searchUrl, searchOptions')
    /\ searchWhole' = FALSE
    /\ StartLoad(searchUrl, {})
    /\ searchResult' = Absent
    /\ UNCHANGED searchUrl

SearchNext ==
    \/ \E l \in searchLoads : SearchAnswer(l)
    \/ \E o \in DOMAIN searchOptions : SearchListed(o)
    \/ SearchSubmit
    \/ SearchClear
    \/ SearchTurn
    \/ SearchRetry
    \/ SearchRefresh

-----------------------------------------------------------------------------
(* Once the page has come to rest, a result on show answers the URL, unless*)
(* its last load was started beside another one (load and its effect).  In *)
(* that case it need not: the older answer may be the last to arrive.      *)
SearchShowsUrl ==
    (~searchLoading /\ ~searchError /\ ~searchRaced) => searchResult.of = searchUrl

(* Submitting changes no filter the user did not touch, clearing and       *)
(* turning aside, if the form was mounted with its options (the key of the *)
(* form, its defaults, and submit).  The start date is left out: it moves  *)
(* by Zone with each submit.                                               *)
FilterOf(u) == [p \in Controls \ {"startDate"} |-> Mounted(u, [cities |-> "ok", competitions |-> "ok"])[p]]
SearchUntouchedFilterKept ==
    [][(searchWhole /\ searchUrl' # Bare) =>
         \E p \in Controls : \A q \in Controls \ {p, "startDate"} :
             FilterOf(searchUrl')[q] = FilterOf(searchUrl)[q]]_searchVars

(* Either source would have found the same tickets for the request that is *)
(* answered (buildTicketSearchBody and filters), but for one: a start date *)
(* given with remainingOnly takes the place of now in the index query and  *)
(* joins it in the SQL.                                                    *)
SearchSourcesAgree ==
    searchResult # Absent =>
        LET in == Effective(searchResult.of)
        IN \/ in.remainingOnly /\ in.startDate # Absent
           \/ Found("elasticsearch", in) = Found("postgresql-fallback", in)

(* The pages one may turn to from a result show each ticket found once     *)
(* (from, size, OFFSET, LIMIT, totalPages).                                *)
SearchPagesPartition ==
    searchResult # Absent =>
        LET in == Effective(searchResult.of)
            source == searchResult.source
            all == Ordered(source, in)
        IN FlattenSeq([page \in 1..TotalPages(Len(all)) |-> Search(source, [in EXCEPT !.page = page]).items]) = all
=============================================================================
