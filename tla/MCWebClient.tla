----------------------------- MODULE MCWebClient -----------------------------
(***************************************************************************)
(* The components of the web client, for TLC.  They do not share state     *)
(* other than through the server, so that one of them moves in each        *)
(* behaviour, the one that part names, and the others stay where they      *)
(* started: the run explores the sum of the components, not their product. *)
(***************************************************************************)
EXTENDS LiveClient, Session, AuthForms, NotificationScreens, ListPages, LiveNotices,
        ProfileDetails, StationPreference, CityScope, CityCatalogue, CrowdPanels,
        TrainPanels, RouteView, MapDrawing, ScheduleBoards, StationRotation, ChatWidget, AIInsights

CONSTANT Parts      \* the components that are explored

VARIABLE part

-----------------------------------------------------------------------------
\* Values of constants that a configuration file cannot write.
MCRoleOf == [u \in Accounts |-> "passenger"]
MCStopsOf == ("delhi" :> {"d1", "d2"}) @@ ("pune" :> {"p1"})
MCFirstStop == ("delhi" :> "d1") @@ ("pune" :> "p1")
MCNameOf == [s \in 1..Stops |-> "x"]
MCTownOf == ("t1" :> "x") @@ ("t2" :> "y")
MCRouteStops == <<2, 3, 4, 6>>
MCSegmentSeconds == <<2, 4, 3>>
MCTrainOf == [s \in Schedules |-> "t1"]
\* Two cities; 3, 4 and 6 have no line, 7 has no coordinates, 5 has its line alone.
MCMapCityOf == <<"x", "x", "x", "x", "x", "x", "y", "y">>
MCLatOf == <<1, 2, 2, 1, 3, 3, 0, 4>>
MCLngOf == <<3, 1, 2, 4, 1, 2, 0, 1>>
MCLineOf == <<"red", "red", "none", "none", "blue", "none", "red", "red">>
MCOrderOf == <<2, 1, 0, 0, 1, 0, 1, 1>>

-----------------------------------------------------------------------------
webVars == <<part, liveVars, sessionVars, formsVars, noticeVars, pageVars, overlayVars,
             profileVars, preferenceVars, scopeVars, catalogueVars, crowdVars, trainVars,
             routeVars, mapVars, boardVars, rotationVars, chatVars, insightVars>>

\* A component that does not move starts in one state only.
Start(p, init) == init \/ part = p

WebInit ==
    /\ part \in Parts
    /\ LiveInit /\ (online \/ part \in {"live", "socket"})
    /\ SessionInit /\ FormsInit /\ NoticeInit
    /\ ListInit /\ Start("pages", openPage = "alerts")
    /\ OverlayInit
    /\ ProfileInit /\ Start("profile", row = NoMobile /\ authPhone = NoMobile)
    /\ PreferenceInit /\ Start("preference", metadata = NoChoice)
    /\ ScopeInit /\ Start("scope", storedCity = NoCity /\ staff)
    /\ CatalogueInit /\ Start("catalogue", reachable)
    /\ CrowdInit /\ Start("crowd", panel = "stations")
    /\ TrainInit /\ Start("trains", trainView = "map" /\ town = "x")
    /\ RouteInit /\ Start("route", slowness = 1)
    /\ MapInit
    /\ BoardInit /\ Start("boards", board = "table" /\ cityChosen /\ running = {})
    /\ RotationInit /\ Start("rotation", moving = {} /\ picked = NoSite)
    /\ ChatInit
    /\ InsightInit /\ Start("insights", insightCity = "x")

Moves(p, vars) == IF part = p THEN TRUE ELSE UNCHANGED vars

Rest ==
    /\ UNCHANGED part
    /\ (part \in {"live", "socket", "api"} \/ UNCHANGED liveVars)
    /\ Moves("session", sessionVars) /\ Moves("forms", formsVars)
    /\ Moves("notices", noticeVars) /\ Moves("pages", pageVars) /\ Moves("overlay", overlayVars)
    /\ Moves("profile", profileVars) /\ Moves("preference", preferenceVars)
    /\ Moves("scope", scopeVars) /\ Moves("catalogue", catalogueVars)
    /\ Moves("crowd", crowdVars) /\ Moves("trains", trainVars) /\ Moves("route", routeVars)
    /\ Moves("map", mapVars) /\ Moves("boards", boardVars) /\ Moves("rotation", rotationVars)
    /\ Moves("chat", chatVars) /\ Moves("insights", insightVars)

WebNext ==
    \/ part = "live" /\ LiveNext /\ Rest
    \/ part = "socket" /\ SocketNext /\ UNCHANGED apiVars /\ Rest
    \/ part = "api" /\ ApiNext /\ UNCHANGED socketVars /\ Rest
    \/ part = "session" /\ SessionNext /\ Rest
    \/ part = "forms" /\ FormsNext /\ Rest
    \/ part = "notices" /\ NoticeNext /\ Rest
    \/ part = "pages" /\ PageNext /\ Rest
    \/ part = "overlay" /\ OverlayNext /\ Rest
    \/ part = "profile" /\ ProfileNext /\ Rest
    \/ part = "preference" /\ PreferenceNext /\ Rest
    \/ part = "scope" /\ ScopeNext /\ Rest
    \/ part = "catalogue" /\ CatalogueNext /\ Rest
    \/ part = "crowd" /\ CrowdNext /\ Rest
    \/ part = "trains" /\ TrainNext /\ Rest
    \/ part = "route" /\ RouteNext /\ Rest
    \/ part = "map" /\ MapNext /\ Rest
    \/ part = "boards" /\ BoardNext /\ Rest
    \/ part = "rotation" /\ RotationNext /\ Rest
    \/ part = "chat" /\ ChatNext /\ Rest
    \/ part = "insights" /\ InsightNext /\ Rest

WebSpec == WebInit /\ [][WebNext]_webVars

-----------------------------------------------------------------------------
\* Every component keeps to its types.
WebTypeOK ==
    /\ SocketTypeOK /\ ApiTypeOK /\ SessionTypeOK /\ FormsTypeOK /\ NoticeTypeOK
    /\ ListTypeOK /\ OverlayTypeOK /\ ProfileTypeOK /\ PreferenceTypeOK /\ ScopeTypeOK
    /\ CatalogueTypeOK /\ CrowdTypeOK /\ TrainTypeOK /\ MapTypeOK /\ BoardTypeOK /\ RotationTypeOK
    /\ ChatTypeOK /\ InsightTypeOK

\* Nothing stays locked or on the screen for good: the rows of a list, the forms
\* of log-in and sign-up, and the popups.
NothingSticks == LocksOpen /\ FormsUnlock /\ ToastsWillGo

\* What a panel shows belongs to what was asked of it: the trains of the modal
\* to the city, the numbers to the station, the station to the city of the
\* profile, a reply to its question.
PanelsKeepToTheirs ==
    ModalKeepsToItsCity /\ NumbersAreItsOwn /\ StationIsInCity /\ RepliesFollow

\* The maps show the focused station, each name once and each dot at a place of
\* its own, and the list beside them leaves out nobody.
MapsAreReadable ==
    WindowHoldsFocus /\ OneDotPerName /\ DotsKeepApart /\ CrowdedListIsComplete

-----------------------------------------------------------------------------
\* Liveness, each under the fairness of its component.  A page that stays open
\* comes to show what the server has (EventuallyFresh).
PagesCatchUp == part = "live" /\ LiveFairness => EventuallyFresh

\* The dashboard's spinner ends, and a tab whose session is gone leaves.
TabsSettle == part = "session" /\ SessionFairness => SpinnerEnds /\ SignedOutLeaves

\* The Inbox comes to show every notification that is in it.
InboxIsComplete == part = "notices" /\ NoticeFairness => InboxCatchesUp

\* The banner comes to show every active emergency that was not dismissed.
EmergenciesAreShown == part = "overlay" /\ OverlayFairness => EmergencyShown

\* The list of cities comes to be the server's.
CitiesAreCurrent == part = "catalogue" /\ CatalogueFairness => CitiesCatchUp

\* The counts of the panels come to be the server's while the simulator runs.
\* What is filtered or focused changes none of them and is left out.
CrowdIsCurrent ==
    part = "crowd" /\ [](nearStation = 0 /\ ~crowdedOnly) /\ CrowdFairness => CountsCatchUp

\* Every delay comes to be shown by the boards.
DelaysAreShown == part = "boards" /\ BoardFairness => DelaysComeToShow

\* The rotation comes to each station where passengers move, for ever.
StationsTakeTurns == part = "rotation" /\ RotationFairness => RotationReachesAll
=============================================================================
