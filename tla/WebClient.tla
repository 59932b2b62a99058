------------------------------ MODULE WebClient ------------------------------
(***************************************************************************)
(* The web client: a visit to one of its routes, each a page of its own    *)
(* that keeps its state while it is mounted and shares none with the       *)
(* others.  Checkout stands for two routes, open in two tabs.              *)
(***************************************************************************)
EXTENDS CompetitionsPage, SearchPage, SupportPage, ReportsPage, Checkout

VARIABLE route      \* the route visited

webVars == <<route, compVars, searchVars, deskVars, repVars, coVars>>

Routes == {"competitions", "search", "support", "reports", "checkout"}

WebInit ==
    /\ route \in Routes
    /\ CompInit /\ SearchInit /\ DeskInit /\ RepInit /\ CheckoutInit

VisitCompetitions ==
    /\ route = "competitions" /\ CompNext
    /\ UNCHANGED <<route, searchVars, deskVars, repVars, coVars>>

VisitSearch ==
    /\ route = "search" /\ SearchNext
    /\ UNCHANGED <<route, compVars, deskVars, repVars, coVars>>

VisitSupport ==
    /\ route = "support" /\ DeskNext
    /\ UNCHANGED <<route, compVars, searchVars, repVars, coVars>>

VisitReports ==
    /\ route = "reports" /\ RepNext
    /\ UNCHANGED <<route, compVars, searchVars, deskVars, coVars>>

VisitCheckout ==
    /\ route = "checkout" /\ CheckoutNext
    /\ UNCHANGED <<route, compVars, searchVars, deskVars, repVars>>

WebNext ==
    \/ VisitCompetitions
    \/ VisitSearch
    \/ VisitSupport
    \/ VisitReports
    \/ VisitCheckout

(* apiRequest gives every call a time-out, so each is answered or fails,   *)
(* and the page goes on.  Nothing is assumed of the users.                 *)
WebFairness ==
    /\ WF_searchVars(route = "search" /\ \E l \in searchLoads : SearchAnswer(l))
    /\ WF_deskVars(route = "support" /\ \E l \in deskLoads : DeskReads(l) \/ DeskShows(l))
    /\ WF_repVars(route = "reports" /\ (RepCreated \/ RepRefused \/ RepUnheard))
    /\ WF_coVars(route = "checkout" /\ PaySteps)
    /\ WF_coVars(route = "checkout" /\ CardLoads)
    /\ WF_coVars(route = "checkout" /\ CancelSteps)

WebSpec == WebInit /\ [][WebNext]_webVars /\ WebFairness

-----------------------------------------------------------------------------
Waits ==
    CASE route = "search" -> searchLoading
      [] route = "support" -> deskLoading
      [] route = "reports" -> repBusy
      [] OTHER -> FALSE

(* No page stays busy: its spinner goes away and its buttons come back,    *)
(* since every call is answered or times out, whatever else the user       *)
(* starts meanwhile (load, submit, pay, cancelReservation and what they do *)
(* finally).                                                               *)
WebSettles ==
    /\ Waits ~> ~Waits
    /\ payBusy ~> ~payBusy
    /\ cardStep \in {"asking", "cancelling", "refreshing"} ~> cardStep \in {"idle", "confirm"}
=============================================================================
