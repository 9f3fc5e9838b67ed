-------------------------- MODULE WebClient_proofs --------------------------
(***************************************************************************)
(* What the web client of MCWebClient promises as a whole.  The components *)
(* were proved one by one in LiveClient_proofs, Screens_proofs and         *)
(* Dashboard_proofs; a step of the client is a step of each of them or     *)
(* leaves it alone, so what each keeps the client keeps, however many      *)
(* cities, stations, trains, rows or accounts there are.  TLC explores the *)
(* components one at a time (WebSpec); here they all move, in any order.   *)
(***************************************************************************)
EXTENDS MCWebClient, LiveClient_proofs, Screens_proofs, Dashboard_proofs

-----------------------------------------------------------------------------
\* The page with everything on it: each component starts in any of its states and
\* they take their turns in any order, as the callbacks of one browser do.
componentVars == <<liveVars, sessionVars, formsVars, noticeVars, pageVars, overlayVars,
                   profileVars, preferenceVars, scopeVars, catalogueVars, crowdVars, trainVars,
                   routeVars, mapVars, boardVars, rotationVars, chatVars, insightVars>>

TogetherInit ==
    /\ part \in Parts
    /\ LiveInit /\ SessionInit /\ FormsInit /\ NoticeInit /\ ListInit /\ OverlayInit
    /\ ProfileInit /\ PreferenceInit /\ ScopeInit /\ CatalogueInit /\ CrowdInit /\ TrainInit
    /\ RouteInit /\ MapInit /\ BoardInit /\ RotationInit /\ ChatInit /\ InsightInit

AnothersTurn == part' \in Parts /\ UNCHANGED componentVars
TogetherNext == WebNext \/ AnothersTurn
TogetherSpec == TogetherInit /\ [][TogetherNext]_webVars

\* What TLC explores, one component moving and the rest in one state, are
\* behaviours of this page: every theorem below is one about WebSpec, too.
THEOREM RunsAreOfThisPage == WebSpec => TogetherSpec
<1>1. WebInit => TogetherInit
  BY DEF WebInit, TogetherInit
<1>2. [WebNext]_webVars => [TogetherNext]_webVars
  BY DEF TogetherNext
<1>3. QED
  BY <1>1, <1>2, PTL DEF WebSpec, TogetherSpec

-----------------------------------------------------------------------------
\* Each component outside the live client takes a step of its own, or none.
LEMMA StepsOfScreens ==
    ASSUME [TogetherNext]_webVars
    PROVE  /\ [SessionNext]_sessionVars /\ [FormsNext]_formsVars /\ [NoticeNext]_noticeVars
           /\ [PageNext]_pageVars /\ [OverlayNext]_overlayVars /\ [ProfileNext]_profileVars
           /\ [PreferenceNext]_preferenceVars /\ [ChatNext]_chatVars
<1>1. [SessionNext]_sessionVars
  BY DEF TogetherNext, AnothersTurn, componentVars, WebNext, Rest, Moves, webVars
<1>2. [FormsNext]_formsVars
  BY DEF TogetherNext, AnothersTurn, componentVars, WebNext, Rest, Moves, webVars
<1>3. [NoticeNext]_noticeVars
  BY DEF TogetherNext, AnothersTurn, componentVars, WebNext, Rest, Moves, webVars
<1>4. [PageNext]_pageVars
  BY DEF TogetherNext, AnothersTurn, componentVars, WebNext, Rest, Moves, webVars
<1>5. [OverlayNext]_overlayVars
  BY DEF TogetherNext, AnothersTurn, componentVars, WebNext, Rest, Moves, webVars
<1>6. [ProfileNext]_profileVars
  BY DEF TogetherNext, AnothersTurn, componentVars, WebNext, Rest, Moves, webVars
<1>7. [PreferenceNext]_preferenceVars
  BY DEF TogetherNext, AnothersTurn, componentVars, WebNext, Rest, Moves, webVars
<1>8. [ChatNext]_chatVars
  BY DEF TogetherNext, AnothersTurn, componentVars, WebNext, Rest, Moves, webVars
<1>9. QED
  BY <1>1, <1>2, <1>3, <1>4, <1>5, <1>6, <1>7, <1>8

LEMMA StepsOfDashboard ==
    ASSUME [TogetherNext]_webVars
    PROVE  /\ [ScopeNext]_scopeVars /\ [CatalogueNext]_catalogueVars /\ [CrowdNext]_crowdVars
           /\ [TrainNext]_trainVars /\ [RouteNext]_routeVars /\ [MapNext]_mapVars
           /\ [BoardNext]_boardVars /\ [RotationNext]_rotationVars /\ [InsightNext]_insightVars
<1>1. [ScopeNext]_scopeVars
  BY DEF TogetherNext, AnothersTurn, componentVars, WebNext, Rest, Moves, webVars
<1>2. [CatalogueNext]_catalogueVars
  BY DEF TogetherNext, AnothersTurn, componentVars, WebNext, Rest, Moves, webVars
<1>3. [CrowdNext]_crowdVars
  BY DEF TogetherNext, AnothersTurn, componentVars, WebNext, Rest, Moves, webVars
<1>4. [TrainNext]_trainVars
  BY DEF TogetherNext, AnothersTurn, componentVars, WebNext, Rest, Moves, webVars
<1>5. [RouteNext]_routeVars
  BY DEF TogetherNext, AnothersTurn, componentVars, WebNext, Rest, Moves, webVars
<1>6. [MapNext]_mapVars
  BY DEF TogetherNext, AnothersTurn, componentVars, WebNext, Rest, Moves, webVars
<1>7. [BoardNext]_boardVars
  BY DEF TogetherNext, AnothersTurn, componentVars, WebNext, Rest, Moves, webVars
<1>8. [RotationNext]_rotationVars
  BY DEF TogetherNext, AnothersTurn, componentVars, WebNext, Rest, Moves, webVars
<1>9. [InsightNext]_insightVars
  BY DEF TogetherNext, AnothersTurn, componentVars, WebNext, Rest, Moves, webVars
<1>10. QED
  BY <1>1, <1>2, <1>3, <1>4, <1>5, <1>6, <1>7, <1>8, <1>9

\* The socket and the cache move alone or together, or rest.
LEMMA StepsOfSocket == [TogetherNext]_webVars => [SocketNext]_socketVars
<1> SUFFICES ASSUME [TogetherNext]_webVars PROVE [SocketNext]_socketVars
  OBVIOUS
<1>1. LiveNext \/ SocketNext \/ UNCHANGED socketVars \/ UNCHANGED liveVars
  BY DEF TogetherNext, AnothersTurn, componentVars, WebNext, Rest, webVars
<1>2. UNCHANGED liveVars => UNCHANGED socketVars
  BY DEF liveVars
<1>3. QED
  BY <1>1, <1>2, LiveStepOfSocket

LEMMA StepsOfCache == ApiInv /\ [TogetherNext]_webVars => ApiInv'
<1> SUFFICES ASSUME ApiInv, [TogetherNext]_webVars PROVE ApiInv'
  OBVIOUS
<1>1. LiveNext \/ ApiNext \/ UNCHANGED apiVars \/ UNCHANGED liveVars
  BY DEF TogetherNext, AnothersTurn, componentVars, WebNext, Rest, webVars
<1>2. UNCHANGED liveVars => UNCHANGED apiVars
  BY DEF liveVars
<1>3. QED
  BY <1>1, <1>2, LiveStepOfCache, ApiStep

\* Whatever is on the page with it, each component behaves as it would alone: what
\* was proved or checked of its specification holds of the page.  (Not of
\* the cache, whose refreshes a frame of the socket arms and whose consumers leave all
\* at once with the layout, both steps of LiveClient; and of none its fairness.)
THEOREM PageRunsItsComponents ==
    TogetherSpec => /\ SocketSpec /\ FormsSpec /\ PageSpec /\ ProfileSpec /\ PreferenceSpec
                    /\ ChatSpec /\ ScopeSpec /\ TrainSpec /\ RouteSpec /\ MapSpec /\ InsightSpec
                    /\ SessionInit /\ [][SessionNext]_sessionVars
                    /\ NoticeInit /\ [][NoticeNext]_noticeVars
                    /\ OverlayInit /\ [][OverlayNext]_overlayVars
                    /\ CatalogueInit /\ [][CatalogueNext]_catalogueVars
                    /\ CrowdInit /\ [][CrowdNext]_crowdVars
                    /\ BoardInit /\ [][BoardNext]_boardVars
                    /\ RotationInit /\ [][RotationNext]_rotationVars
<1>1. TogetherSpec => /\ SocketSpec /\ FormsSpec /\ PageSpec /\ ProfileSpec /\ PreferenceSpec
                      /\ ChatSpec
  <2>1. TogetherInit => /\ SocketInit /\ FormsInit /\ ListInit /\ ProfileInit /\ PreferenceInit
                        /\ ChatInit
    BY DEF TogetherInit, LiveInit
  <2>2. QED
    BY <2>1, StepsOfSocket, StepsOfScreens, PTL
       DEF TogetherSpec, SocketSpec, FormsSpec, PageSpec, ProfileSpec, PreferenceSpec, ChatSpec
<1>2. TogetherSpec => ScopeSpec /\ TrainSpec /\ RouteSpec /\ MapSpec /\ InsightSpec
  <2>1. TogetherInit => ScopeInit /\ TrainInit /\ RouteInit /\ MapInit /\ InsightInit
    BY DEF TogetherInit
  <2>2. QED
    BY <2>1, StepsOfDashboard, PTL
       DEF TogetherSpec, ScopeSpec, TrainSpec, RouteSpec, MapSpec, InsightSpec
<1>3. TogetherSpec => /\ SessionInit /\ [][SessionNext]_sessionVars
                      /\ NoticeInit /\ [][NoticeNext]_noticeVars
                      /\ OverlayInit /\ [][OverlayNext]_overlayVars
  <2>1. TogetherInit => SessionInit /\ NoticeInit /\ OverlayInit
    BY DEF TogetherInit
  <2>2. QED
    BY <2>1, StepsOfScreens, PTL DEF TogetherSpec
<1>4. TogetherSpec => /\ CatalogueInit /\ [][CatalogueNext]_catalogueVars
                      /\ CrowdInit /\ [][CrowdNext]_crowdVars
                      /\ BoardInit /\ [][BoardNext]_boardVars
                      /\ RotationInit /\ [][RotationNext]_rotationVars
  <2>1. TogetherInit => CatalogueInit /\ CrowdInit /\ BoardInit /\ RotationInit
    BY DEF TogetherInit
  <2>2. QED
    BY <2>1, StepsOfDashboard, PTL DEF TogetherSpec
<1>5. QED
  BY <1>1, <1>2, <1>3, <1>4

-----------------------------------------------------------------------------
\* What the components keep, together.
LiveKeeps == SocketInv /\ ReadingsInv /\ ApiInv

ScreensKeep ==
    /\ SessionInv /\ FormsInv /\ NoticeTypeOK
    /\ PagesInv /\ ListTypeOK
    /\ OverlayInv /\ ProfileInv /\ PreferenceInv
    /\ ChatInv /\ ChatFlagsOK

DashboardKeeps ==
    /\ ScopeTypeOK /\ ScopeIsTidy
    /\ CatalogueInv /\ CatalogueFlagsOK
    /\ CrowdInv /\ TrainInv /\ RouteInv /\ TrackedOK /\ MapTypeOK /\ BoardTypeOK
    /\ RotationTypeOK /\ NumbersAreItsOwn
    /\ InsightInv

WebInv == LiveKeeps /\ ScreensKeep /\ DashboardKeeps

LEMMA WebStarts == TogetherInit => WebInv
<1> SUFFICES ASSUME TogetherInit PROVE WebInv
  OBVIOUS
<1>1. LiveKeeps
  BY SocketStarts, ReadingsStart, ApiStarts DEF TogetherInit, LiveInit, LiveKeeps
<1>2. ScreensKeep
  BY SessionStarts, FormsStart, NoticeStart, PagesStart, PageTypesStart, OverlayStart,
     ProfileStart, PreferenceStart, ChatStart DEF TogetherInit, ScreensKeep
<1>3. DashboardKeeps
  BY ScopeStart, CatalogueStart, CrowdStart, TrainStart, RouteStart, TrackedStart, MapStart,
     BoardStart, RotationStart, InsightStart DEF TogetherInit, DashboardKeeps
<1>4. QED
  BY <1>1, <1>2, <1>3 DEF WebInv

LEMMA WebStep == WebInv /\ [TogetherNext]_webVars => WebInv'
<1> SUFFICES ASSUME WebInv, [TogetherNext]_webVars PROVE WebInv'
  OBVIOUS
<1>1. LiveKeeps'
  BY StepsOfSocket, StepsOfCache, SocketStep, ReadingsStep DEF WebInv, LiveKeeps
<1>2. ScreensKeep'
  BY StepsOfScreens, SessionStep, FormsStep, NoticeStep, PagesStep, PageTypesStep, OverlayStep,
     ProfileStep, PreferenceStep, ChatStep, ChatFlagsStep DEF WebInv, ScreensKeep
<1>3. DashboardKeeps'
  BY StepsOfDashboard, ScopeStep, CatalogueStep, CatalogueFlagsStep, CrowdStep, TrainStep,
     RouteStep, TrackedStep, MapStep, BoardStep, RotationStep, InsightStep DEF WebInv, DashboardKeeps
<1>4. QED
  BY <1>1, <1>2, <1>3 DEF WebInv

-----------------------------------------------------------------------------
LEMMA ComponentsHold ==
    WebInv => /\ SocketIsSound /\ NewestReading /\ LoadingIsAwaited /\ ShownIsAsked
              /\ ContentNeedsSession /\ CodeGoesWithNumber /\ OwnChangesShow
              /\ LinksConfirmedNumber /\ ScopeIsTidy /\ InsightsAreOfCity /\ DotsAreOnLines
<1> SUFFICES ASSUME WebInv
    PROVE  /\ SocketIsSound /\ NewestReading /\ LoadingIsAwaited /\ ShownIsAsked
           /\ ContentNeedsSession /\ CodeGoesWithNumber /\ OwnChangesShow
           /\ LinksConfirmedNumber /\ ScopeIsTidy /\ InsightsAreOfCity /\ DotsAreOnLines
  OBVIOUS
<1>1. SocketIsSound /\ NewestReading /\ LoadingIsAwaited /\ ShownIsAsked
  BY SocketHolds, ReadingsHold DEF WebInv, LiveKeeps, ApiInv
<1>2. ContentNeedsSession /\ CodeGoesWithNumber /\ OwnChangesShow /\ LinksConfirmedNumber
  BY SessionHolds, ProfileHolds DEF WebInv, ScreensKeep, FormsInv, PagesInv
<1>3. ScopeIsTidy /\ InsightsAreOfCity /\ DotsAreOnLines
  BY InsightHolds, LinesReachDots DEF WebInv, DashboardKeeps
<1>4. QED
  BY <1>1, <1>2, <1>3

LEMMA WebHolds ==
    WebInv => WebTypeOK /\ NothingSticks /\ PanelsKeepToTheirs /\ MapsAreReadable
<1> SUFFICES ASSUME WebInv
    PROVE  WebTypeOK /\ NothingSticks /\ PanelsKeepToTheirs /\ MapsAreReadable
  OBVIOUS
<1>1. SocketTypeOK /\ ApiTypeOK
  BY ReadingsHold DEF WebInv, LiveKeeps, ApiInv
<1>2. SessionTypeOK /\ FormsTypeOK /\ NoticeTypeOK /\ ListTypeOK /\ OverlayTypeOK
      /\ ProfileTypeOK /\ PreferenceTypeOK /\ ChatTypeOK
  BY SessionHolds, OverlayHolds, ProfileHolds, ChatHolds
     DEF WebInv, ScreensKeep, FormsInv, PreferenceInv
<1>3. LocksOpen /\ FormsUnlock /\ ToastsWillGo /\ StationIsInCity /\ RepliesFollow
  BY OverlayHolds, ChatHolds DEF WebInv, ScreensKeep, FormsInv, PagesInv, PreferenceInv
<1>4. ScopeTypeOK /\ CatalogueTypeOK /\ CrowdTypeOK /\ TrainTypeOK /\ MapTypeOK
      /\ BoardTypeOK /\ RotationTypeOK /\ InsightTypeOK
  BY CatalogueHolds, CrowdHolds, TrainHolds, InsightHolds DEF WebInv, DashboardKeeps
<1>5. ModalKeepsToItsCity /\ NumbersAreItsOwn
  BY TrainHolds DEF WebInv, DashboardKeeps
<1>6. WindowHoldsFocus /\ OneDotPerName /\ DotsKeepApart /\ CrowdedListIsComplete
  BY RouteHolds, CrowdHolds, MapIsReadable DEF WebInv, DashboardKeeps
<1>7. QED
  BY <1>1, <1>2, <1>3, <1>4, <1>5, <1>6
     DEF WebTypeOK, NothingSticks, PanelsKeepToTheirs, MapsAreReadable

\* Every component of the client keeps to its types, whatever the others do.
THEOREM WebKeepsToTypes == TogetherSpec => []WebTypeOK
  BY WebStarts, WebStep, WebHolds, PTL DEF TogetherSpec

\* What the sockets, the cache, the session, the forms, the pages, the profile, the
\* scope, the insights and the lines of the maps promise alone they keep on the page with the others.
THEOREM ComponentsKeepTheirs ==
    TogetherSpec => []( /\ SocketIsSound /\ NewestReading /\ LoadingIsAwaited /\ ShownIsAsked
                   /\ ContentNeedsSession /\ CodeGoesWithNumber /\ OwnChangesShow
                   /\ LinksConfirmedNumber /\ ScopeIsTidy /\ InsightsAreOfCity /\ DotsAreOnLines )
  BY WebStarts, WebStep, ComponentsHold, PTL DEF TogetherSpec

\* No row of a list, no form of log-in or sign-up and no popup stays locked or on
\* the screen with nothing left that would release it: a call that ends, fails or
\* is left behind opens what it had closed.
THEOREM NothingStaysStuck == TogetherSpec => []NothingSticks
  BY WebStarts, WebStep, WebHolds, PTL DEF TogetherSpec

\* Late answers do not reach a panel that has moved on: the modal's trains are of
\* its city, the analytics of the station picked, the preferred station of the
\* preferred city, and a reply follows its question.
THEOREM PanelsShowWhatWasAsked == TogetherSpec => []PanelsKeepToTheirs
  BY WebStarts, WebStep, WebHolds, PTL DEF TogetherSpec

\* On every line and of every network the maps show the focused station, one dot
\* for a name and one place for a dot, and the list of crowded stations is whole.
THEOREM MapsStayReadable == TogetherSpec => []MapsAreReadable
  BY WebStarts, WebStep, WebHolds, PTL DEF TogetherSpec

\* With everything else on the page moving between its ticks, what a train's marker
\* says of the focused station falls with each tick by the time of the tick, and the
\* stops by the one it reached.
THEOREM MarkersCountDown == TogetherSpec => EtaCountsDown
<1>1. WebInv /\ [TogetherNext]_webVars
        => [\A s \in 1..LineLen :
              (TrainTicks /\ etaToFocused(s) > 0) =>
                  /\ etaToFocused(s)' = etaToFocused(s) - Min({TickSeconds, Remaining})
                  /\ stationsAway(s)' =
                       stationsAway(s) - (IF trainIndex' = trainIndex THEN 0 ELSE 1)]_routeVars
  BY TickCountsDown DEF CountsDown, WebInv, DashboardKeeps
<1>2. QED
  BY <1>1, WebStarts, WebStep, PTL DEF TogetherSpec, EtaCountsDown
=============================================================================
