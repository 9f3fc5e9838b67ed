--------------------------- MODULE Dashboard_proofs ---------------------------
(***************************************************************************)
(* Proofs about the panels of the dashboard: what it is scoped to          *)
(* (CityScope), the list of cities (CityCatalogue), the crowd and train    *)
(* panels (CrowdPanels, TrainPanels), the route and the dots of the maps   *)
(* (RouteView, MapDrawing), the timetable (ScheduleBoards), the rotation   *)
(* of the stations (StationRotation) and the recommendations (AIInsights), *)
(* for any cities, stations, trains, routes and windows and any number of  *)
(* requests under way.                                                     *)
(***************************************************************************)
EXTENDS CityScope, CityCatalogue, CrowdPanels, TrainPanels, RouteView, MapDrawing,
        ScheduleBoards, StationRotation, AIInsights, FiniteOrders, TLAPS

-----------------------------------------------------------------------------
\* setFocusedStation keeps the live view and the focus together: whoever calls
\* it leaves no live view without a station.
LEMMA FocusIsSafe ==
    ASSUME NEW c \in AnyCity, NEW by \in {"nobody", "search", "station", "train"},
           ScopeTypeOK, setFocusedStation(c, by)
    PROVE  /\ focusedStation' \in AnyCity /\ liveLocationOn' \in BOOLEAN
           /\ focusedBy' \in {"nobody", "search", "station", "train"}
           /\ liveLocationOn' => focusedStation' # NoCity
  BY DEF setFocusedStation, ScopeTypeOK

\* The types and ScopeIsTidy are inductive together: a modal can only be left
\* by a step that also takes its focus, and toggling needs a station.
LEMMA ScopeStep ==
    ASSUME ScopeTypeOK, ScopeIsTidy, [ScopeNext]_scopeVars
    PROVE  ScopeTypeOK' /\ ScopeIsTidy'
<1> USE DEF AnyCity
<1> SUFFICES ASSUME ScopeNext PROVE ScopeTypeOK' /\ ScopeIsTidy'
  BY DEF ScopeTypeOK, ScopeIsTidy, LiveViewHasStation, StationModalTidiesUp, scopeVars,
         choiceVars, geoVars, focusVars, hoverVars
<1> DEFINE SelectionStep ==
        MountApp \/ ToggleMenu \/ useMyLocation \/ LocationFound \/ LocationFails
        \/ \E c \in AnyCity : PickCity(c)
<1>1. ASSUME SelectionStep PROVE ScopeTypeOK' /\ ScopeIsTidy'
  <2>1. UNCHANGED focusVars /\ UNCHANGED hoverVars
    BY <1>1 DEF MountApp, ToggleMenu, useMyLocation, LocationFound, LocationFails, PickCity
  <2>2. /\ mounted' \in BOOLEAN /\ storedCity' \in AnyCity /\ selectedState' \in AnyCity
        /\ geoStatus' \in {"idle", "locating", "denied", "unavailable", "no-match"}
        /\ geoAnswer' \in AnyCity /\ menuOpen' \in BOOLEAN
    BY <1>1 DEF ScopeTypeOK, MountApp, ToggleMenu, useMyLocation, LocationFound, LocationFails,
                PickCity, setSelectedState, choiceVars, geoVars
  <2>3. QED
    BY <2>1, <2>2 DEF ScopeTypeOK, ScopeIsTidy, LiveViewHasStation, StationModalTidiesUp,
                      focusVars, hoverVars
<1>2. ASSUME NEW c \in Cities, pickStation(c) \/ pickLocationStation(c)
      PROVE  ScopeTypeOK' /\ ScopeIsTidy'
  <2>1. setFocusedStation(c, "search") /\ UNCHANGED modal /\ UNCHANGED hoverVars /\ UNCHANGED geoVars
    BY <1>2 DEF pickStation, pickLocationStation
  <2>2. mounted' \in BOOLEAN /\ storedCity' \in AnyCity /\ selectedState' \in AnyCity
    BY <1>2 DEF pickStation, pickLocationStation, setSelectedState, choiceVars, ScopeTypeOK
  <2>3. focusedBy' = "search"
    BY <2>1 DEF setFocusedStation
  <2>4. QED
    BY <2>1, <2>2, <2>3, FocusIsSafe
       DEF ScopeTypeOK, ScopeIsTidy, LiveViewHasStation, StationModalTidiesUp, geoVars, hoverVars
<1>3. ASSUME NEW c \in Cities, openStation(c) \/ TrainTakesFocus(c)
      PROVE  ScopeTypeOK' /\ ScopeIsTidy'
  BY <1>3, NoCityIsNone
     DEF openStation, TrainTakesFocus, ScopeTypeOK, ScopeIsTidy, LiveViewHasStation,
         StationModalTidiesUp, choiceVars, geoVars, hoverVars
<1>4. ASSUME ClearFocus \/ StationModalGoes \/ closeTrainDetail \/ closeAll
      PROVE  ScopeTypeOK' /\ ScopeIsTidy'
  <2>1. setFocusedStation(NoCity, "nobody") /\ UNCHANGED <<choiceVars, geoVars, hoverVars>>
    BY <1>4 DEF ClearFocus, StationModalGoes, closeTrainDetail, closeAll
  <2>2. modal' \in {"none", "station", "list", "train"}
    BY <1>4 DEF ClearFocus, StationModalGoes, closeTrainDetail, closeAll, ScopeTypeOK
  <2>3. focusedBy' = "nobody"
    BY <2>1 DEF setFocusedStation
  <2>4. QED
    BY <2>1, <2>2, <2>3, FocusIsSafe
       DEF ScopeTypeOK, ScopeIsTidy, LiveViewHasStation, StationModalTidiesUp,
           choiceVars, geoVars, hoverVars
<1>5. ASSUME toggleLiveLocation \/ OpenTrainList \/ SelectTrain \/ ListGoes
      PROVE  ScopeTypeOK' /\ ScopeIsTidy'
  <2>1. UNCHANGED <<choiceVars, geoVars, hoverVars, focusedStation, focusedBy>>
    BY <1>5 DEF toggleLiveLocation, OpenTrainList, SelectTrain, ListGoes
  <2>2. liveLocationOn' \in BOOLEAN /\ (liveLocationOn' => focusedStation # NoCity)
    <3>1. CASE toggleLiveLocation
      BY <3>1 DEF toggleLiveLocation
    <3>2. CASE OpenTrainList \/ SelectTrain \/ ListGoes
      BY <3>2 DEF OpenTrainList, SelectTrain, ListGoes, ScopeTypeOK, ScopeIsTidy, LiveViewHasStation
    <3>3. QED
      BY <1>5, <3>1, <3>2
  <2>3. modal' \in {"none", "station", "list", "train"} /\ (modal = "station" => modal' = "station")
    BY <1>5 DEF toggleLiveLocation, OpenTrainList, SelectTrain, ListGoes, ScopeTypeOK
  <2>4. QED
    BY <2>1, <2>2, <2>3 DEF ScopeTypeOK, ScopeIsTidy, LiveViewHasStation, StationModalTidiesUp,
                            choiceVars, geoVars, hoverVars
<1>6. ASSUME \/ \E r \in Routes : HoverRoute(r) \/ CooldownEnds(r)
             \/ \E t \in hoverTimers : HoverTimerFires(t)
      PROVE  ScopeTypeOK' /\ ScopeIsTidy'
  <2>1. UNCHANGED <<choiceVars, geoVars, focusVars, staff>>
    BY <1>6 DEF HoverRoute, CooldownEnds, HoverTimerFires
  <2>2. hoverTimers' \cup prefetched' \subseteq [route : Routes, city : AnyCity]
    BY <1>6 DEF HoverRoute, CooldownEnds, HoverTimerFires, ScopeTypeOK
  <2>3. cooling' \subseteq Routes
    BY <1>6 DEF HoverRoute, CooldownEnds, HoverTimerFires, ScopeTypeOK
  <2>4. QED
    BY <2>1, <2>2, <2>3 DEF ScopeTypeOK, ScopeIsTidy, LiveViewHasStation, StationModalTidiesUp,
                            choiceVars, geoVars, focusVars
<1>7. QED
  BY <1>1, <1>2, <1>3, <1>4, <1>5, <1>6 DEF ScopeNext

LEMMA ScopeStart == ScopeInit => ScopeTypeOK /\ ScopeIsTidy
  BY DEF ScopeInit, ScopeTypeOK, ScopeIsTidy, LiveViewHasStation, StationModalTidiesUp, AnyCity

\* Whatever is searched, picked, opened and closed, in any order, the live view
\* has a station to follow and no closed modal leaves its station behind.
THEOREM ScopeStaysTidy == ScopeSpec => [](ScopeTypeOK /\ ScopeIsTidy)
  BY ScopeStart, ScopeStep, PTL DEF ScopeSpec

-----------------------------------------------------------------------------
\* CityCatalogue: no answer is newer than the catalogue it was read from.
CatalogueInv ==
    /\ catalogue \in 1..MaxCatalogue
    /\ states \in 0..catalogue
    /\ stateLoads \subseteq StateLoad /\ \A l \in stateLoads : l.version <= catalogue
    /\ attempt \in 0..3
CatalogueFlagsOK == reachable \in BOOLEAN /\ statesLoading \in BOOLEAN

LEMMA CatalogueStart == CatalogueInit => CatalogueInv /\ CatalogueFlagsOK
<1> SUFFICES ASSUME CatalogueInit PROVE CatalogueInv /\ CatalogueFlagsOK
  OBVIOUS
<1>1. CatalogueFlagsOK
  BY DEF CatalogueInit, CatalogueFlagsOK
<1>2. CatalogueInv
  BY CatalogueBounds DEF CatalogueInit, CatalogueInv, StateLoad
<1>3. QED
  BY <1>1, <1>2

LEMMA CatalogueFlagsStep == CatalogueFlagsOK /\ [CatalogueNext]_catalogueVars => CatalogueFlagsOK'
<1> SUFFICES ASSUME CatalogueFlagsOK, [CatalogueNext]_catalogueVars PROVE CatalogueFlagsOK'
  OBVIOUS
<1>1. /\ reachable' = reachable \/ reachable' = ~reachable
      /\ statesLoading' = statesLoading \/ \E l \in StateLoad : statesLoading' = (statesLoading /\ l.by # "load")
  BY DEF CatalogueNext, CatalogueGrows, ServerTurns, Revalidate, CitiesServed, CitiesAnswered,
         CitiesFail, catalogueVars
<1>2. QED
  BY <1>1 DEF CatalogueFlagsOK

LEMMA CatalogueStep == CatalogueInv /\ [CatalogueNext]_catalogueVars => CatalogueInv'
<1> SUFFICES ASSUME CatalogueInv, [CatalogueNext]_catalogueVars PROVE CatalogueInv'
  OBVIOUS
<1> USE CatalogueBounds DEF CatalogueInv, StateLoad
<1>1. CASE CatalogueGrows
  <2>1. catalogue \in Nat /\ catalogue' = catalogue + 1 /\ catalogue < MaxCatalogue
    BY <1>1 DEF CatalogueGrows
  <2>2. ASSUME NEW l \in stateLoads PROVE l.version <= catalogue'
    BY <2>1
  <2>3. QED
    BY <1>1, <2>1, <2>2 DEF CatalogueGrows
<1>2. CASE ServerTurns \/ UNCHANGED catalogueVars
  BY <1>2 DEF ServerTurns, catalogueVars
<1>3. CASE Revalidate
  BY <1>3 DEF Revalidate
<1>4. ASSUME NEW l \in StateLoad, CitiesServed(l) PROVE CatalogueInv'
  <2>1. [l EXCEPT !.version = catalogue] \in StateLoad /\ [l EXCEPT !.version = catalogue].version = catalogue
    OBVIOUS
  <2>2. QED
    BY <1>4, <2>1 DEF CitiesServed
<1>5. ASSUME NEW l \in StateLoad, CitiesAnswered(l) \/ CitiesFail(l) PROVE CatalogueInv'
  <2>1. /\ catalogue' = catalogue /\ stateLoads' \subseteq stateLoads
        /\ states' \in {0, states} \/ (l \in stateLoads /\ states' = l.version)
        /\ attempt' = attempt \/ (attempt < 3 /\ attempt' = attempt + 1)
    BY <1>5 DEF CitiesAnswered, CitiesFail
  <2>2. states' \in 0..catalogue
    BY <2>1
  <2>3. QED
    BY <2>1, <2>2
<1>6. QED
  BY <1>1, <1>2, <1>3, <1>4, <1>5 DEF CatalogueNext

LEMMA CatalogueHolds == CatalogueInv /\ CatalogueFlagsOK => CatalogueTypeOK
  BY DEF CatalogueInv, CatalogueFlagsOK, CatalogueTypeOK

\* The list shown is one that the server has had, after any number of retries
\* and in whatever order the answers came.
THEOREM ListWasTheServers == CatalogueSpec => []CatalogueTypeOK
  BY CatalogueStart, CatalogueFlagsStep, CatalogueStep, CatalogueHolds, PTL DEF CatalogueSpec

-----------------------------------------------------------------------------
\* CrowdPanels.  Counts and the ones that are not known.
CountsKnown ==
    /\ crowdNow \in Counts /\ push \in Partly
    /\ crowdData \in Counts \cup {Nothing} /\ crowdLive \in Partly
    /\ crowdFetch \in [st : {"idle", "asked", "read"}, counts : Counts \cup {Nothing}]
PanelOK == panel \in Panels /\ nearStation \in 0..Stops
PanelFlagsOK == socketOn \in BOOLEAN /\ crowdedOnly \in BOOLEAN

CrowdInv == CountsKnown /\ PanelOK /\ PanelFlagsOK

LEMMA NothingIsPartly == Nothing \in Partly /\ \A p \in Counts : p \in Partly
  BY DEF Nothing, Partly, Counts

LEMMA CrowdStart == CrowdInit => CrowdInv
<1> SUFFICES ASSUME CrowdInit PROVE CrowdInv
  OBVIOUS
<1>1. CountsKnown
  BY NothingIsPartly, CrowdBounds DEF CrowdInit, CountsKnown, Counts
<1>2. PanelOK
  BY CrowdBounds DEF CrowdInit, PanelOK
<1>3. PanelFlagsOK
  BY DEF CrowdInit, PanelFlagsOK
<1>4. QED
  BY <1>1, <1>2, <1>3 DEF CrowdInv

LEMMA CountsKnownStep == CountsKnown /\ [CrowdNext]_crowdVars => CountsKnown'
<1> SUFFICES ASSUME CountsKnown, [CrowdNext]_crowdVars PROVE CountsKnown'
  OBVIOUS
<1> USE DEF CountsKnown
<1>1. ASSUME NEW s \in Stop, PeopleMove(s) PROVE CountsKnown'
  <2>1. PICK many \in 0..MaxCount :
           /\ crowdNow' = [crowdNow EXCEPT ![s] = many]
           /\ push' = IF socketOn THEN [push EXCEPT ![s] = many] ELSE push
    BY <1>1 DEF PeopleMove
  <2>2. crowdNow' \in Counts
    BY <2>1 DEF Counts
  <2>3. push' \in Partly
    BY <2>1 DEF Partly
  <2>4. QED
    BY <1>1, <2>2, <2>3 DEF PeopleMove, fetchedVars
<1>2. CASE Tick
  BY <1>2, NothingIsPartly DEF Tick, worldVars, fetchedVars
<1>3. CASE SocketDrops \/ SocketReturns \/ CrowdPoll
  BY <1>3, NothingIsPartly DEF SocketDrops, SocketReturns, CrowdPoll, AskCrowd, worldVars, fetchedVars
<1>4. CASE CrowdRead \/ CrowdDone
  BY <1>4 DEF CrowdRead, CrowdDone, worldVars
<1>5. CASE CrowdUpdate
  <2>1. crowdLive' \in Partly
    BY <1>5 DEF CrowdUpdate, Partly
  <2>2. QED
    BY <1>5, <2>1, NothingIsPartly DEF CrowdUpdate, worldVars, fetchedVars
<1>6. CASE \/ \E b \in BOOLEAN : SetCrowdedOnly(b)
           \/ \E s \in 0..Stops : FocusStation(s)
           \/ \E s \in Stop : PickDot(s)
           \/ UNCHANGED crowdVars
  BY <1>6 DEF SetCrowdedOnly, FocusStation, PickDot, crowdVars, worldVars, fetchedVars
<1>7. QED
  BY <1>1, <1>2, <1>3, <1>4, <1>5, <1>6 DEF CrowdNext

LEMMA PanelStep == PanelOK /\ [CrowdNext]_crowdVars => PanelOK'
<1> SUFFICES ASSUME PanelOK, [CrowdNext]_crowdVars PROVE PanelOK'
  OBVIOUS
<1>1. panel' = panel /\ (nearStation' = nearStation \/ nearStation' \in 0..Stops)
  BY CrowdBounds
     DEF CrowdNext, PeopleMove, Tick, SocketDrops, SocketReturns, CrowdPoll, CrowdRead, CrowdDone,
         CrowdUpdate, SetCrowdedOnly, FocusStation, PickDot, crowdVars, viewVars, Stop
<1>2. QED
  BY <1>1 DEF PanelOK

LEMMA PanelFlagsStep == PanelFlagsOK /\ [CrowdNext]_crowdVars => PanelFlagsOK'
<1> SUFFICES ASSUME PanelFlagsOK, [CrowdNext]_crowdVars PROVE PanelFlagsOK'
  OBVIOUS
<1>1. /\ socketOn' \in {socketOn, TRUE, FALSE}
      /\ crowdedOnly' = crowdedOnly \/ \E b \in BOOLEAN : crowdedOnly' = b
  BY DEF CrowdNext, PeopleMove, Tick, SocketDrops, SocketReturns, CrowdPoll, CrowdRead, CrowdDone,
         CrowdUpdate, SetCrowdedOnly, FocusStation, PickDot, crowdVars, viewVars, worldVars
<1>2. QED
  BY <1>1 DEF PanelFlagsOK

LEMMA CrowdStep == CrowdInv /\ [CrowdNext]_crowdVars => CrowdInv'
  BY CountsKnownStep, PanelStep, PanelFlagsStep DEF CrowdInv

LEMMA CountIsKnown ==
    ASSUME CountsKnown, NEW s \in 1..Stops
    PROVE  CountOf(s) \in Int /\ CountOf(s) + 1 \in 0..(MaxCount + 1)
<1>1. crowdData \in Partly /\ crowdLive \in Partly
  BY NothingIsPartly DEF CountsKnown
<1>2. crowdData[s] \in {-1} \cup 0..MaxCount /\ crowdLive[s] \in {-1} \cup 0..MaxCount
  BY <1>1 DEF Partly, Stop, NoCount
<1>3. CountOf(s) \in {-1} \cup 0..MaxCount
  BY <1>2 DEF CountOf
<1>4. QED
  BY <1>3, CrowdBounds

\* A name that is near has a busiest station: of the greatest count, and of the
\* first number among those.
LEMMA BusiestExists ==
    ASSUME CountsKnown, NEW s \in nearby
    PROVE  \E t \in positioned : NameOf[t] = NameOf[s] /\ CountOf(t) >= CountOf(s)
<1> DEFINE B == {t \in nearby : NameOf[t] = NameOf[s]}
<1>1. nearby \subseteq 1..Stops /\ Stops \in Nat /\ MaxCount \in Nat
  BY CrowdBounds DEF nearby, merged, crowded, withLive, Stop
<1>2. ASSUME NEW t \in 1..Stops PROVE CountOf(t) \in Int /\ CountOf(t) + 1 \in 0..(MaxCount + 1)
  BY CountIsKnown
<1> DEFINE C == {CountOf(t) + 1 : t \in B}
<1>3. s \in B /\ B \subseteq 1..Stops /\ C # {} /\ \A x \in C : x \in 0..(MaxCount + 1)
  BY <1>1, <1>2
<1>4. PICK most \in C : \A x \in C : x <= most
  <2> HIDE DEF C
  <2>1. MaxCount + 1 \in Nat
    BY <1>1
  <2>2. QED
    BY <1>3, <2>1, LargestExists
<1> DEFINE D == {t \in B : CountOf(t) + 1 = most}
<1>5. D # {} /\ D \in SUBSET Nat
  BY <1>3, <1>4
<1>6. PICK t \in D : \A u \in D : t <= u
  <2> HIDE DEF D
  <2>1. QED
    BY <1>5, SmallestOfNaturals
<1>7. ASSUME NEW u \in B, u # t PROVE Busier(t, u)
  <2>1. /\ CountOf(u) + 1 <= CountOf(t) + 1 /\ CountOf(u) \in Int /\ CountOf(t) \in Int
        /\ u \in Nat /\ t \in Nat
    BY <1>2, <1>3, <1>4, <1>6
  <2>2. CASE CountOf(u) = CountOf(t)
    <3>1. u \in D
      BY <1>6, <2>2
    <3>2. t < u
      BY <1>6, <1>7, <2>1, <3>1
    <3>3. QED
      BY <2>2, <3>2 DEF Busier
  <2>3. CASE CountOf(u) # CountOf(t)
    BY <2>1, <2>3 DEF Busier
  <2>4. QED
    BY <2>2, <2>3
<1>8. t \in nearby /\ NameOf[t] = NameOf[s]
  BY <1>6
<1>9. t \in positioned
  BY <1>7, <1>8 DEF positioned, dedupeByStationName
<1>10. CountOf(t) >= CountOf(s)
  <2>1. CountOf(s) + 1 <= CountOf(t) + 1 /\ CountOf(s) \in Int /\ CountOf(t) \in Int
    BY <1>2, <1>3, <1>4, <1>6
  <2>2. QED
    BY <2>1
<1>11. QED
  BY <1>8, <1>9, <1>10

LEMMA NamesAreOnce ==
    ASSUME CountsKnown, NEW s \in positioned, NEW t \in positioned, NameOf[s] = NameOf[t]
    PROVE  s = t
<1>1. s \in 1..Stops /\ t \in 1..Stops /\ Stops \in Nat /\ MaxCount \in Nat
  BY CrowdBounds DEF positioned, dedupeByStationName, nearby, merged, crowded, withLive, Stop
<1>2. CountOf(s) \in Int /\ CountOf(t) \in Int
  BY <1>1, CountIsKnown
<1>3. CASE s # t
  <2>1. Busier(s, t) /\ Busier(t, s)
    BY <1>3 DEF positioned, dedupeByStationName
  <2>2. QED
    BY <1>1, <1>2, <2>1 DEF Busier
<1>4. QED
  BY <1>3

LEMMA CrowdHolds == CrowdInv => CrowdTypeOK /\ OneDotPerName /\ CrowdedListIsComplete
<1> SUFFICES ASSUME CrowdInv PROVE CrowdTypeOK /\ OneDotPerName /\ CrowdedListIsComplete
  OBVIOUS
<1>1. CrowdTypeOK
  BY DEF CrowdInv, CountsKnown, PanelOK, PanelFlagsOK, CrowdTypeOK
<1>2. OneDotPerName
  BY BusiestExists, NamesAreOnce DEF CrowdInv, OneDotPerName
<1>3. CrowdedListIsComplete
  BY DEF CrowdedListIsComplete, crowdedStationsList, merged, crowded
<1>4. QED
  BY <1>1, <1>2, <1>3

\* For any stations, names and counts, whatever is near, filtered or pushed:
\* each name that is near is on the map once, at the busiest of its stations,
\* and the list of crowded stations leaves out none.
THEOREM NamesAreShownOnce ==
    CrowdSpec => [](CrowdTypeOK /\ OneDotPerName /\ CrowdedListIsComplete)
  BY CrowdStart, CrowdStep, CrowdHolds, PTL DEF CrowdSpec

-----------------------------------------------------------------------------
\* TrainPanels: in the modal every train, fetched or told, is of the city.
PositionsOK ==
    /\ position \in Positions /\ told \in Positions
    /\ snapshot \in Positions /\ liveTrains \in Positions
    /\ trainFetch \in [st : {"idle", "asked", "read"}, at : Positions]
TrainViewOK == trainView \in {"map", "modal"} /\ town \in Towns
TrainFlagsOK == feedOn \in BOOLEAN /\ showRunningOnly \in BOOLEAN /\ expanded \in BOOLEAN
OfTown(p) == \A t \in Trains : p[t] # NoPosition => TownOf[t] = town
ModalInv == trainView = "modal" => OfTown(snapshot) /\ OfTown(liveTrains) /\ OfTown(trainFetch.at)

TrainInv == PositionsOK /\ TrainViewOK /\ TrainFlagsOK /\ ModalInv

LEMMA NowhereIsPosition == Nowhere \in Positions /\ OfTown(Nowhere)
  BY DEF Nowhere, Positions, OfTown

LEMMA TrainStart == TrainInit => TrainInv
<1> SUFFICES ASSUME TrainInit PROVE TrainInv
  OBVIOUS
<1>1. PositionsOK
  BY NowhereIsPosition DEF TrainInit, PositionsOK
<1>2. TrainViewOK /\ TrainFlagsOK
  BY DEF TrainInit, TrainViewOK, TrainFlagsOK
<1>3. ModalInv
  BY NowhereIsPosition DEF TrainInit, ModalInv
<1>4. QED
  BY <1>1, <1>2, <1>3 DEF TrainInv

LEMMA PositionsStep == PositionsOK /\ [TrainNext]_trainVars => PositionsOK'
<1> SUFFICES ASSUME PositionsOK, [TrainNext]_trainVars PROVE PositionsOK'
  OBVIOUS
<1> USE DEF PositionsOK
<1>1. ASSUME NEW t \in Trains, TrainMoves(t) PROVE PositionsOK'
  <2>1. position' \in Positions
    BY <1>1 DEF TrainMoves, Positions
  <2>2. told' \in Positions
    BY <1>1, <2>1 DEF TrainMoves, Positions
  <2>3. QED
    BY <1>1, <2>1, <2>2 DEF TrainMoves, snapVars
<1>2. CASE FeedDrops
  BY <1>2, NowhereIsPosition DEF FeedDrops, snapVars
<1>3. CASE FeedReturns \/ SnapshotPoll \/ \E c \in Towns : SelectTown(c)
  BY <1>3, NowhereIsPosition DEF FeedReturns, SnapshotPoll, SelectTown, AskTrains, trackVars
<1>4. CASE SnapshotRead
  <2>1. [t \in Trains |-> IF TownOf[t] = town THEN position[t] ELSE NoPosition] \in Positions
    BY DEF Positions
  <2>2. QED
    BY <1>4, <2>1 DEF SnapshotRead, trackVars
<1>5. CASE SnapshotDone
  <2>1. Prune(liveTrains, In(snapshot')) \in Positions
    BY DEF Prune, Positions
  <2>2. QED
    BY <1>5, <2>1, NowhereIsPosition DEF SnapshotDone, trackVars
<1>6. CASE TrainPosition
  <2>1. liveTrains' \in Positions
    BY <1>6 DEF TrainPosition, Positions
  <2>2. QED
    BY <1>6, <2>1, NowhereIsPosition DEF TrainPosition, snapVars
<1>7. CASE (\E b \in BOOLEAN : SetRunningOnly(b)) \/ toggleExpanded \/ UNCHANGED trainVars
  BY <1>7 DEF SetRunningOnly, toggleExpanded, trainVars, trackVars, snapVars
<1>8. QED
  BY <1>1, <1>2, <1>3, <1>4, <1>5, <1>6, <1>7 DEF TrainNext

LEMMA TrainViewStep == TrainViewOK /\ [TrainNext]_trainVars => TrainViewOK'
  BY DEF TrainViewOK, TrainNext, TrainMoves, FeedDrops, FeedReturns, SnapshotPoll, SnapshotRead,
         SnapshotDone, TrainPosition, SelectTown, SetRunningOnly, toggleExpanded, trainVars, showVars

LEMMA TrainFlagsStep == TrainFlagsOK /\ [TrainNext]_trainVars => TrainFlagsOK'
<1> SUFFICES ASSUME TrainFlagsOK, [TrainNext]_trainVars PROVE TrainFlagsOK'
  OBVIOUS
<1>1. /\ feedOn' \in {feedOn, TRUE, FALSE}
      /\ showRunningOnly' = showRunningOnly \/ \E b \in BOOLEAN : showRunningOnly' = b
      /\ expanded' = expanded \/ expanded' = ~expanded
  BY DEF TrainNext, TrainMoves, FeedDrops, FeedReturns, SnapshotPoll, SnapshotRead,
         SnapshotDone, TrainPosition, SelectTown, SetRunningOnly, toggleExpanded, trainVars,
         trackVars, showVars
<1>2. QED
  BY <1>1 DEF TrainFlagsOK

LEMMA ModalStep == ModalInv /\ [TrainNext]_trainVars => ModalInv'
<1> SUFFICES ASSUME ModalInv, [TrainNext]_trainVars, trainView' = "modal"
             PROVE  (OfTown(snapshot) /\ OfTown(liveTrains) /\ OfTown(trainFetch.at))'
  BY DEF ModalInv
<1>0. /\ trainView = "modal" /\ town' = town
      /\ OfTown(snapshot) /\ OfTown(liveTrains) /\ OfTown(trainFetch.at)
  BY DEF ModalInv, TrainNext, TrainMoves, FeedDrops, FeedReturns, SnapshotPoll, SnapshotRead,
         SnapshotDone, TrainPosition, SelectTown, SetRunningOnly, toggleExpanded, trainVars, showVars
<1> USE <1>0 DEF OfTown
<1>1. CASE SnapshotRead
  BY <1>1 DEF SnapshotRead
<1>2. CASE SnapshotDone
  BY <1>2, NowhereIsPosition DEF SnapshotDone, Prune, Nowhere
<1>3. CASE TrainPosition
  BY <1>3 DEF TrainPosition, Accepts, In, snapVars
<1>4. CASE FeedReturns \/ SnapshotPoll
  BY <1>4 DEF FeedReturns, SnapshotPoll, AskTrains, Nowhere
<1>5. ASSUME NEW c \in Towns, SelectTown(c) PROVE FALSE
  BY <1>5 DEF SelectTown
<1>6. CASE \/ \E t \in Trains : TrainMoves(t)
           \/ FeedDrops \/ toggleExpanded \/ UNCHANGED trainVars
           \/ \E b \in BOOLEAN : SetRunningOnly(b)
  BY <1>6 DEF TrainMoves, FeedDrops, toggleExpanded, SetRunningOnly, trainVars, snapVars
<1>7. QED
  BY <1>1, <1>2, <1>3, <1>4, <1>5, <1>6 DEF TrainNext

LEMMA TrainStep == TrainInv /\ [TrainNext]_trainVars => TrainInv'
  BY PositionsStep, TrainViewStep, TrainFlagsStep, ModalStep DEF TrainInv

LEMMA TrainHolds == TrainInv => TrainTypeOK /\ ModalKeepsToItsCity
<1> SUFFICES ASSUME TrainInv PROVE TrainTypeOK /\ ModalKeepsToItsCity
  OBVIOUS
<1>1. TrainTypeOK
  BY DEF TrainInv, PositionsOK, TrainViewOK, TrainFlagsOK, TrainTypeOK
<1>2. ModalKeepsToItsCity
  BY DEF TrainInv, ModalInv, OfTown, ModalKeepsToItsCity, shownTrains, In
<1>3. QED
  BY <1>1, <1>2

\* However the positions of every city mix with the snapshots: the modal shows
\* trains of the selected city only.
THEOREM ModalShowsItsCity == TrainSpec => [](TrainTypeOK /\ ModalKeepsToItsCity)
  BY TrainStart, TrainStep, TrainHolds, PTL DEF TrainSpec

-----------------------------------------------------------------------------
\* RouteView.  The train is at a stop of its route, the focus on the line.
RouteInv ==
    /\ trainIndex \in 1..n /\ heading \in {1, -1}
    /\ aim \in 0..LineLen /\ (onLine => aim # NoAim)

LEMMA RouteHasStops == n \in Nat /\ n >= 2 /\ \A i \in 1..n : RouteStops[i] \in 1..LineLen
  BY RouteIsOnLine DEF n

LEMMA NextIsStop == ASSUME RouteInv PROVE NextStop \in 1..n
  BY RouteHasStops DEF RouteInv, NextStop, Clamped

LEMMA RouteStart == RouteInit => RouteInv
<1> SUFFICES ASSUME RouteInit PROVE RouteInv
  OBVIOUS
<1>1. 1 \in 1..n /\ LineLen \in Nat
  BY RouteHasStops, RouteIsOnLine
<1>2. QED
  BY <1>1 DEF RouteInit, RouteInv, NoAim

LEMMA RouteStep == RouteInv /\ [RouteNext]_routeVars => RouteInv'
<1> SUFFICES ASSUME RouteInv, [RouteNext]_routeVars PROVE RouteInv'
  OBVIOUS
<1>1. CASE TrainTicks
  <2>1. aim' = aim /\ onLine' = onLine
    BY <1>1 DEF TrainTicks
  <2>2. Clamped(trainIndex + heading) \in 1..n
    BY NextIsStop DEF NextStop
  <2>3. /\ trainIndex' \in {trainIndex, Clamped(trainIndex + heading)}
        /\ heading' \in {heading, 1, -1}
    BY <1>1 DEF TrainTicks
  <2>4. QED
    BY <2>1, <2>2, <2>3 DEF RouteInv
<1>2. CASE TrackerRestarts \/ DelayChanges \/ ToggleRunning
  BY <1>2 DEF TrackerRestarts, DelayChanges, ToggleRunning, trackedVars, RouteInv
<1>3. CASE ToggleLine \/ \E s \in 0..LineLen : FocusOn(s)
  BY <1>3 DEF ToggleLine, FocusOn, trackedVars, RouteInv
<1>4. CASE UNCHANGED routeVars
  BY <1>4 DEF routeVars, trackedVars, RouteInv
<1>5. QED
  BY <1>1, <1>2, <1>3, <1>4 DEF RouteNext

\* The window is an interval of the line around the focus: moved where it would
\* leave the line, and cut only if it is longer than the line.
LEMMA WindowIsInterval ==
    ASSUME aim \in 1..LineLen
    PROVE  \E lo, hi \in Int :
              /\ routeStations = lo..hi /\ lo <= aim /\ aim <= hi
              /\ hi - lo + 1 = Min({LineLen, StationsBefore + StationsAfter + 1})
<1> DEFINE start == (aim - 1) - StationsBefore
           end == (aim - 1) + StationsAfter + 1
           start1 == IF start < 0 THEN 0 ELSE start
           end1 == IF start < 0 THEN Min({LineLen, end - start}) ELSE end
           start2 == IF end1 > LineLen THEN Max({0, start1 - (end1 - LineLen)}) ELSE start1
           end2 == IF end1 > LineLen THEN LineLen ELSE end1
           end3 == Min({end2, start2 + StationsBefore + StationsAfter + 1, LineLen})
           size == StationsBefore + StationsAfter + 1
<1>1. routeStations = (start2 + 1)..end3
  BY DEF routeStations
<1>2. /\ LineLen \in Nat /\ StationsBefore \in Nat /\ StationsAfter \in Nat
      /\ aim \in Nat /\ 1 <= aim /\ aim <= LineLen
  BY RouteIsOnLine
<1>3. start \in Int /\ end \in Int /\ size \in Int /\ end - start = size
  BY <1>2
<1>4. end1 = IF start < 0 THEN (IF LineLen <= size THEN LineLen ELSE size) ELSE end
  BY <1>2, <1>3, MinOfTwo
<1>5. start1 \in Int /\ end1 \in Int
  BY <1>2, <1>3, <1>4
<1>6. start2 = IF end1 > LineLen
               THEN (IF 0 <= start1 - (end1 - LineLen) THEN start1 - (end1 - LineLen) ELSE 0)
               ELSE start1
  BY <1>2, <1>5, MaxOfTwo
<1>7. start2 \in Int /\ end2 \in Int /\ end2 <= LineLen
  BY <1>2, <1>5, <1>6
<1>8. end2 <= start2 + size
  BY <1>2, <1>3, <1>4, <1>5, <1>6
<1>9. end3 = end2
  <2>1. end2 <= start2 + StationsBefore + StationsAfter + 1
    BY <1>2, <1>7, <1>8
  <2>2. \A y \in {end2, start2 + StationsBefore + StationsAfter + 1, LineLen} : y \in Int /\ end2 <= y
    BY <1>2, <1>7, <2>1
  <2> HIDE DEF end2, start2
  <2>3. QED
    BY <2>2, MinIsSmallest
<1>10. /\ start2 + 1 <= aim /\ aim <= end2
       /\ end2 - (start2 + 1) + 1 = IF LineLen <= size THEN LineLen ELSE size
  BY <1>2, <1>3, <1>4, <1>6
<1>11. Min({LineLen, size}) = IF LineLen <= size THEN LineLen ELSE size
  BY <1>2, <1>3, MinOfTwo
<1> HIDE DEF start2, end3, end2
<1>12. QED
  BY <1>1, <1>7, <1>9, <1>10, <1>11

LEMMA RouteHolds == RouteInv => WindowHoldsFocus
<1> SUFFICES ASSUME RouteInv PROVE WindowHoldsFocus
  OBVIOUS
<1>1. ASSUME onLine
      PROVE  /\ aim \in routeStations
             /\ Cardinality(routeStations) = Min({LineLen, StationsBefore + StationsAfter + 1})
  <2>1. aim \in 1..LineLen /\ LineLen \in Nat
    BY <1>1, RouteIsOnLine DEF RouteInv, NoAim
  <2>2. PICK lo, hi \in Int :
              /\ routeStations = lo..hi /\ lo <= aim /\ aim <= hi
              /\ hi - lo + 1 = Min({LineLen, StationsBefore + StationsAfter + 1})
    BY <2>1, WindowIsInterval
  <2>3. Cardinality(lo..hi) = hi - lo + 1
    BY <2>1, <2>2, FS_Interval
  <2>4. QED
    BY <2>1, <2>2, <2>3
<1>2. ASSUME ~onLine
      PROVE  {RouteStops[trainIndex], RouteStops[NextStop]} \subseteq stationsForMap
  BY <1>2, RouteHasStops, NextIsStop DEF RouteInv, stationsForMap, runningStationIds
<1>3. QED
  BY <1>1, <1>2 DEF WindowHoldsFocus

\* For a line and a window of any length and a route of any stops: the live
\* location draws the focused station and a full window, and without it the
\* train has both its stations on the map.
THEOREM FocusIsDrawn == RouteSpec => []WindowHoldsFocus
  BY RouteStart, RouteStep, RouteHolds, PTL DEF RouteSpec

-----------------------------------------------------------------------------
\* The estimates of RouteView.
\* A leg further along: where it is, which way it heads and how long it takes.
LEMMA SegmentsLast == ASSUME NEW p \in 1..n, NEW d \in {1, -1} PROVE SegmentFrom(p, d) \in Nat \ {0}
<1>1. n \in Nat /\ n >= 2 /\ SegmentSeconds \in [1..(n - 1) -> Nat \ {0}]
  BY RouteIsOnLine, RouteHasStops
<1>2. QED
  BY <1>1 DEF SegmentFrom

LEMMA HeadsOK == ASSUME NEW p \in 1..n, NEW d \in {1, -1}
    PROVE  Heads(p, d) \in {1, -1} /\ p + Heads(p, d) \in 1..n
                /\ Clamped(p + Heads(p, d)) = p + Heads(p, d)
  BY RouteHasStops DEF Heads, Clamped

LEMMA OneStopOn ==
    ASSUME NEW leg \in Legs
    PROVE  /\ OneStop[leg] \in Legs
           /\ OneStop[leg].dir = Heads(leg.pos, leg.dir)
           /\ OneStop[leg].pos = leg.pos + Heads(leg.pos, leg.dir)
           /\ OneStop[leg].secs = leg.secs + SegmentFrom(leg.pos, Heads(leg.pos, leg.dir))
<1>1. leg.pos \in 1..n /\ leg.dir \in {1, -1} /\ leg.secs \in Nat
  BY DEF Legs
<1> DEFINE h == Heads(leg.pos, leg.dir)
<1>2. h \in {1, -1} /\ leg.pos + h \in 1..n /\ Clamped(leg.pos + h) = leg.pos + h
  BY <1>1, HeadsOK
<1>3. leg.secs + SegmentFrom(leg.pos, h) \in Nat
  BY <1>1, <1>2, SegmentsLast
<1>4. OneStop[leg] = [pos |-> leg.pos + h, dir |-> h, secs |-> leg.secs + SegmentFrom(leg.pos, h)]
  BY <1>2 DEF OneStop
<1> HIDE DEF h
<1>5. OneStop[leg] \in Legs
  BY <1>2, <1>3, <1>4 DEF Legs
<1>6. QED
  BY <1>4, <1>5 DEF h

\* A walk of m stops.
IsWalk(w, p, d, m) == Iterates(w, [pos |-> p, dir |-> d, secs |-> 0], OneStop, m)

LEMMA WalkExists == ASSUME NEW p, NEW d, NEW m \in Nat PROVE \E w : IsWalk(w, p, d, m)
  BY IterationExists DEF IsWalk

LEMMA WalkSteps ==
    ASSUME NEW p \in 1..n, NEW d \in {1, -1}
    PROVE  /\ Walk(p, d)[0] = [pos |-> p, dir |-> d, secs |-> 0]
           /\ \A k \in 0..(2 * n - 1) : Walk(p, d)[k + 1] = OneStop[Walk(p, d)[k]]
           /\ \A k \in 0..(2 * n) : Walk(p, d)[k] \in Legs
<1> DEFINE w == Walk(p, d)
<1>1. IsWalk(w, p, d, 2 * n)
  <2>1. 2 * n \in Nat
    BY RouteHasStops
  <2>2. \E v : IsWalk(v, p, d, 2 * n)
    BY <2>1, WalkExists
  <2>3. QED
    BY <2>2 DEF Walk, IsWalk, Iterates
<1> HIDE DEF w
<1>2. \A k \in 0..(2 * n) :
        w[k] = IF k = 0 THEN [pos |-> p, dir |-> d, secs |-> 0] ELSE OneStop[w[k - 1]]
  BY <1>1 DEF IsWalk, Iterates
<1>3. w[0] = [pos |-> p, dir |-> d, secs |-> 0]
  BY <1>2, RouteHasStops
<1>4. \A k \in 0..(2 * n - 1) : w[k + 1] = OneStop[w[k]]
  <2>1. ASSUME NEW k \in 0..(2 * n - 1) PROVE w[k + 1] = OneStop[w[k]]
    <3>1. k + 1 \in 0..(2 * n) /\ k + 1 # 0 /\ (k + 1) - 1 = k
      BY RouteHasStops
    <3>2. QED
      BY <1>2, <3>1
  <2>2. QED
    BY <2>1
<1>5. \A k \in 0..(2 * n) : w[k] \in Legs
  <2> DEFINE Bad == {k \in 0..(2 * n) : w[k] \notin Legs}
  <2> SUFFICES ASSUME Bad # {} PROVE FALSE
    OBVIOUS
  <2>1. PICK k \in Bad : \A i \in Bad : k <= i
    <3>1. Bad \subseteq Nat
      BY RouteHasStops
    <3> HIDE DEF Bad
    <3>2. QED
      BY <3>1, SmallestOfNaturals
  <2>2. k # 0
    BY <2>1, <1>3 DEF Legs
  <2>3. k - 1 \in 0..(2 * n - 1) /\ k - 1 \in 0..(2 * n) /\ (k - 1) + 1 = k /\ k - 1 \notin Bad
    BY <2>1, <2>2, RouteHasStops
  <2>4. w[k - 1] \in Legs
    BY <2>3
  <2>5. w[k] = OneStop[w[k - 1]]
    BY <2>3, <1>4
  <2>6. QED
    BY <2>1, <2>4, <2>5, OneStopOn
<1>6. QED
  BY <1>3, <1>4, <1>5 DEF w

\* Two walks that are once at the same stop and go the same way stay together.
LEMMA WalksStayTogether ==
    ASSUME NEW p \in 1..n, NEW d \in {1, -1}, NEW q \in 1..n, NEW e \in {1, -1}, NEW o \in {0, 1},
           q = Walk(p, d)[o].pos,
           Heads(q, e) = Heads(Walk(p, d)[o].pos, Walk(p, d)[o].dir)
    PROVE  \A k \in 0..(2 * n - o) :
              /\ Walk(q, e)[k].pos = Walk(p, d)[k + o].pos
              /\ Walk(q, e)[k].secs = Walk(p, d)[k + o].secs - Walk(p, d)[o].secs
<1> DEFINE w == Walk(p, d)
           v == Walk(q, e)
           Together(k) == /\ v[k].pos = w[k + o].pos
                          /\ v[k].secs = w[k + o].secs - w[o].secs
                          /\ Heads(v[k].pos, v[k].dir) = Heads(w[k + o].pos, w[k + o].dir)
           Bad == {k \in 0..(2 * n - o) : ~Together(k)}
<1>1. /\ \A k \in 0..(2 * n - 1) : w[k + 1] = OneStop[w[k]] /\ v[k + 1] = OneStop[v[k]]
      /\ \A k \in 0..(2 * n) : w[k] \in Legs /\ v[k] \in Legs
      /\ v[0] = [pos |-> q, dir |-> e, secs |-> 0]
  BY WalkSteps
<1>2. q = w[o].pos /\ Heads(q, e) = Heads(w[o].pos, w[o].dir)
  OBVIOUS
<1> HIDE DEF w, v
<1>3. Together(0)
  <2>1. o \in 0..(2 * n) /\ 0 + o = o
    BY RouteHasStops
  <2>2. w[o].secs \in Nat
    BY <1>1, <2>1 DEF Legs
  <2>3. QED
    BY <1>1, <1>2, <2>1, <2>2
<1>4. ASSUME Bad # {} PROVE FALSE
  <2>1. PICK k \in Bad : \A i \in Bad : k <= i
    <3>1. Bad \subseteq Nat
      BY RouteHasStops
    <3> HIDE DEF Bad
    <3>2. QED
      BY <1>4, <3>1, SmallestOfNaturals
  <2>2. k # 0
    BY <2>1, <1>3
  <2> DEFINE j == k - 1
  <2>3. /\ j \in 0..(2 * n - o) /\ j \in 0..(2 * n - 1) /\ j \in 0..(2 * n)
        /\ j + 1 = k /\ j \notin Bad
        /\ j + o \in 0..(2 * n - 1) /\ j + o \in 0..(2 * n) /\ (j + o) + 1 = k + o
        /\ o \in 0..(2 * n)
    BY <2>1, <2>2, RouteHasStops
  <2>4. Together(j)
    BY <2>3
  <2> HIDE DEF j, Bad
  <2>5. v[k] = OneStop[v[j]] /\ w[k + o] = OneStop[w[j + o]]
    BY <1>1, <2>3
  <2>6. v[j] \in Legs /\ w[j + o] \in Legs /\ w[o] \in Legs
    BY <1>1, <2>3
  <2>7. v[j].secs \in Nat /\ w[j + o].secs \in Nat /\ w[o].secs \in Nat
    BY <2>6 DEF Legs
  <2> DEFINE h == Heads(v[j].pos, v[j].dir)
             x == v[j].pos
  <2>8. /\ v[k].pos = x + h /\ w[k + o].pos = x + h
        /\ v[k].dir = h /\ w[k + o].dir = h
        /\ v[k].secs = v[j].secs + SegmentFrom(x, h)
        /\ w[k + o].secs = w[j + o].secs + SegmentFrom(x, h)
    BY <2>4, <2>5, <2>6, OneStopOn
  <2>9. SegmentFrom(x, h) \in Nat
    BY <2>6, HeadsOK, SegmentsLast DEF Legs
  <2> HIDE DEF h, x
  <2>10. Together(k)
    BY <2>4, <2>7, <2>8, <2>9
  <2>11. QED
    BY <2>1, <2>10 DEF Bad
<1>5. QED
  BY <1>4 DEF w, v

\* A walk goes on to the end of the line that it heads for.
LEMMA WalkClimbs ==
    ASSUME NEW p \in 1..n, NEW d \in {1, -1}, NEW k \in 0..(2 * n),
           Heads(Walk(p, d)[k].pos, Walk(p, d)[k].dir) = 1
    PROVE  \A j \in Nat : k + j <= 2 * n /\ Walk(p, d)[k].pos + j <= n
               => Walk(p, d)[k + j].pos = Walk(p, d)[k].pos + j
<1> DEFINE w == Walk(p, d)
           a == w[k].pos
           Here(j) == w[k + j].pos = a + j /\ (a + j < n => Heads(w[k + j].pos, w[k + j].dir) = 1)
           Bad == {j \in Nat : k + j <= 2 * n /\ a + j <= n /\ ~Here(j)}
<1>1. /\ \A i \in 0..(2 * n - 1) : w[i + 1] = OneStop[w[i]]
      /\ \A i \in 0..(2 * n) : w[i] \in Legs
  BY WalkSteps
<1>2. Heads(w[k].pos, w[k].dir) = 1
  OBVIOUS
<1> HIDE DEF w
<1>3. a \in 1..n /\ n \in Nat /\ n >= 2
  BY <1>1, RouteHasStops DEF Legs
<1>4. Here(0)
  BY <1>2, <1>3
<1>5. ASSUME Bad # {} PROVE FALSE
  <2>1. PICK j \in Bad : \A i \in Bad : j <= i
    <3>1. Bad \subseteq Nat
      OBVIOUS
    <3> HIDE DEF Bad
    <3>2. QED
      BY <1>5, <3>1, SmallestOfNaturals
  <2>2. j # 0
    BY <2>1, <1>4
  <2> DEFINE i == j - 1
             m == k + i
  <2>3. /\ i \in Nat /\ i \notin Bad /\ k + i <= 2 * n /\ a + i < n /\ i + 1 = j
        /\ m \in 0..(2 * n - 1) /\ m \in 0..(2 * n) /\ m + 1 = k + j
        /\ k + j \in 0..(2 * n) /\ a + j <= n
    BY <2>1, <2>2, <1>3
  <2>4. w[m].pos = a + i /\ Heads(w[m].pos, w[m].dir) = 1
    BY <2>3, <1>3
  <2> HIDE DEF Bad, i, m
  <2>5. w[k + j] = OneStop[w[m]] /\ w[m] \in Legs
    BY <1>1, <2>3
  <2>6. w[k + j].pos = (a + i) + 1 /\ w[k + j].dir = 1
    BY <2>4, <2>5, OneStopOn
  <2>7. w[k + j].pos = a + j
    BY <2>6, <2>3, <1>3
  <2>8. a + j < n => Heads(w[k + j].pos, w[k + j].dir) = 1
    BY <2>6, <2>7, <1>3 DEF Heads
  <2>9. QED
    BY <2>1, <2>7, <2>8 DEF Bad
<1>6. QED
  BY <1>5 DEF w

LEMMA WalkFalls ==
    ASSUME NEW p \in 1..n, NEW d \in {1, -1}, NEW k \in 0..(2 * n),
           Heads(Walk(p, d)[k].pos, Walk(p, d)[k].dir) = -1
    PROVE  \A j \in Nat : k + j <= 2 * n /\ Walk(p, d)[k].pos - j >= 1
               => Walk(p, d)[k + j].pos = Walk(p, d)[k].pos - j
<1> DEFINE w == Walk(p, d)
           a == w[k].pos
           Here(j) == w[k + j].pos = a - j /\ (a - j > 1 => Heads(w[k + j].pos, w[k + j].dir) = -1)
           Bad == {j \in Nat : k + j <= 2 * n /\ a - j >= 1 /\ ~Here(j)}
<1>1. /\ \A i \in 0..(2 * n - 1) : w[i + 1] = OneStop[w[i]]
      /\ \A i \in 0..(2 * n) : w[i] \in Legs
  BY WalkSteps
<1>2. Heads(w[k].pos, w[k].dir) = -1
  OBVIOUS
<1> HIDE DEF w
<1>3. a \in 1..n /\ n \in Nat /\ n >= 2
  BY <1>1, RouteHasStops DEF Legs
<1>4. Here(0)
  BY <1>2, <1>3
<1>5. ASSUME Bad # {} PROVE FALSE
  <2>1. PICK j \in Bad : \A i \in Bad : j <= i
    <3>1. Bad \subseteq Nat
      OBVIOUS
    <3> HIDE DEF Bad
    <3>2. QED
      BY <1>5, <3>1, SmallestOfNaturals
  <2>2. j # 0
    BY <2>1, <1>4
  <2> DEFINE i == j - 1
             m == k + i
  <2>3. /\ i \in Nat /\ i \notin Bad /\ k + i <= 2 * n /\ a - i > 1 /\ i + 1 = j
        /\ m \in 0..(2 * n - 1) /\ m \in 0..(2 * n) /\ m + 1 = k + j
        /\ k + j \in 0..(2 * n) /\ a - j >= 1
    BY <2>1, <2>2, <1>3
  <2>4. w[m].pos = a - i /\ Heads(w[m].pos, w[m].dir) = -1
    BY <2>3, <1>3
  <2> HIDE DEF Bad, i, m
  <2>5. w[k + j] = OneStop[w[m]] /\ w[m] \in Legs
    BY <1>1, <2>3
  <2>6. w[k + j].pos = (a - i) - 1 /\ w[k + j].dir = -1
    BY <2>4, <2>5, OneStopOn
  <2>7. w[k + j].pos = a - j
    BY <2>6, <2>3, <1>3
  <2>8. a - j > 1 => Heads(w[k + j].pos, w[k + j].dir) = -1
    BY <2>6, <2>7, <1>3 DEF Heads
  <2>9. QED
    BY <2>1, <2>7, <2>8 DEF Bad
<1>6. QED
  BY <1>5 DEF w

\* So it comes to every stop before it has been to both ends and back.
LEMMA WalkReaches ==
    ASSUME NEW p \in 1..n, NEW d \in {1, -1}, NEW q \in 1..n
    PROVE  \E k \in 0..(2 * n - 3) : Walk(p, d)[k].pos = q
<1> DEFINE w == Walk(p, d)
<1>1. n \in Nat /\ n >= 2 /\ w[0] = [pos |-> p, dir |-> d, secs |-> 0]
  BY RouteHasStops, WalkSteps
<1>2. w[0].pos = p /\ w[0].dir = d
  BY <1>1
<1>3. /\ \A k \in 0..(2 * n), j \in Nat :
            Heads(w[k].pos, w[k].dir) = 1 /\ k + j <= 2 * n /\ w[k].pos + j <= n
               => w[k + j].pos = w[k].pos + j
      /\ \A k \in 0..(2 * n), j \in Nat :
            Heads(w[k].pos, w[k].dir) = -1 /\ k + j <= 2 * n /\ w[k].pos - j >= 1
               => w[k + j].pos = w[k].pos - j
  BY WalkClimbs, WalkFalls
<1> HIDE DEF w
<1>4. 0 \in 0..(2 * n)
  BY <1>1
<1>5. CASE Heads(p, d) = 1
  <2>1. p < n /\ \A j \in Nat : p + j <= n => w[j].pos = p + j
    <3>1. p < n
      BY <1>5, <1>1 DEF Heads
    <3>2. \A j \in Nat : p + j <= n => 0 + j = j /\ 0 + j <= 2 * n
      BY <1>1
    <3>3. QED
      BY <1>2, <1>3, <1>4, <1>5, <3>1, <3>2
  <2>2. CASE q >= p
    <3>1. q - p \in Nat /\ p + (q - p) = q /\ q - p \in 0..(2 * n - 3)
      BY <1>1, <2>1, <2>2
    <3>2. w[q - p].pos = q
      BY <2>1, <3>1
    <3>3. QED
      BY <3>1, <3>2 DEF w
  <2>3. CASE q < p
    <3> DEFINE k == n - p
               j == n - q
    <3>1. /\ k \in Nat /\ k \in 0..(2 * n) /\ p + k = n /\ j \in Nat /\ n - j = q
          /\ k + j \in 0..(2 * n - 3) /\ k + j <= 2 * n /\ q >= 1
      BY <1>1, <2>1, <2>3
    <3> HIDE DEF k, j
    <3>2. w[k].pos = n
      BY <2>1, <3>1
    <3>3. Heads(w[k].pos, w[k].dir) = -1
      BY <3>2 DEF Heads
    <3>4. w[k + j].pos = q
      BY <1>3, <3>1, <3>2, <3>3
    <3>5. QED
      BY <3>1, <3>4 DEF w
  <2>4. QED
    BY <1>1, <2>2, <2>3
<1>6. CASE Heads(p, d) = -1
  <2>1. p > 1 /\ \A j \in Nat : p - j >= 1 => w[j].pos = p - j
    <3>1. p > 1
      BY <1>6, <1>1 DEF Heads
    <3>2. \A j \in Nat : p - j >= 1 => 0 + j = j /\ 0 + j <= 2 * n
      BY <1>1
    <3>3. QED
      BY <1>2, <1>3, <1>4, <1>6, <3>1, <3>2
  <2>2. CASE q <= p
    <3>1. p - q \in Nat /\ p - (p - q) = q /\ p - q \in 0..(2 * n - 3) /\ q >= 1
      BY <1>1, <2>1, <2>2
    <3>2. w[p - q].pos = q
      BY <2>1, <3>1
    <3>3. QED
      BY <3>1, <3>2 DEF w
  <2>3. CASE q > p
    <3> DEFINE k == p - 1
               j == q - 1
    <3>1. /\ k \in Nat /\ k \in 0..(2 * n) /\ p - k = 1 /\ j \in Nat /\ 1 + j = q
          /\ k + j \in 0..(2 * n - 3) /\ k + j <= 2 * n /\ q <= n
      BY <1>1, <2>1, <2>3
    <3> HIDE DEF k, j
    <3>2. w[k].pos = 1
      BY <2>1, <3>1
    <3>3. Heads(w[k].pos, w[k].dir) = 1
      BY <1>1, <3>2 DEF Heads
    <3>4. w[k + j].pos = q
      BY <1>3, <3>1, <3>2, <3>3
    <3>5. QED
      BY <3>1, <3>4 DEF w
  <2>4. QED
    BY <1>1, <2>2, <2>3
<1>7. QED
  BY <1>5, <1>6, HeadsOK

\* What is told later is told of where the train is later.
LEMMA ToldLater ==
    ASSUME NEW s
    PROVE  /\ etaToFocused(s)' = etaToStationSeconds(trainIndex', NextStop', derivedDirection',
                                                    Remaining', slowness', s)
           /\ stationsAway(s)' = stationsAwayToStation(trainIndex', derivedDirection', s)
  BY DEF etaToFocused, stationsAway

\* The walk from a stop comes to the station at its step m, and not since step a.
ComesFirst(p, d, a, m, s) ==
    /\ m \in a..(2 * n) /\ RouteStops[Walk(p, d)[m].pos] = s
    /\ \A k \in a..(2 * n) : RouteStops[Walk(p, d)[k].pos] = s => m <= k

\* The estimates are those of the first hit.
LEMMA Estimates ==
    ASSUME NEW here, NEW next \in 1..n, NEW d \in {1, -1},
           NEW left \in Int, NEW f \in Int, NEW s, NEW m,
           OnRoute(s), RouteStops[here] # s, ComesFirst(next, d, 0, m, s)
    PROVE  etaToStationSeconds(here, next, d, left, f, s) = left + Slowed(Walk(next, d)[m].secs, f)
<1> DEFINE w == Walk(next, d)
           K == 0..(2 * n)
<1>1. K \in SUBSET Int /\ m \in K
  BY RouteHasStops DEF ComesFirst
<1>2. RouteStops[w[m].pos] = s /\ \A k \in K : RouteStops[w[k].pos] = s => m <= k
  BY DEF ComesFirst
<1> HIDE DEF w, K
<1> DEFINE hits == Hits(w, K, s)
<1>3. m \in hits /\ \A k \in hits : k \in Int /\ m <= k
  BY <1>1, <1>2 DEF Hits
<1> HIDE DEF hits
<1>4. hits # {} /\ Min(hits) = m
  BY <1>3, MinIsSmallest
<1>5. QED
  BY <1>4 DEF etaToStationSeconds, hits, w, K

LEMMA Distances ==
    ASSUME NEW here \in 1..n, NEW d \in {1, -1}, NEW s, NEW m,
           OnRoute(s), RouteStops[here] # s, ComesFirst(here, d, 1, m, s)
    PROVE  stationsAwayToStation(here, d, s) = m
<1> DEFINE w == Walk(here, d)
           K == 1..(2 * n)
<1>1. K \in SUBSET Int /\ m \in K
  BY RouteHasStops DEF ComesFirst
<1>2. RouteStops[w[m].pos] = s /\ \A k \in K : RouteStops[w[k].pos] = s => m <= k
  BY DEF ComesFirst
<1> HIDE DEF w, K
<1> DEFINE hits == Hits(w, K, s)
<1>3. m \in hits /\ \A k \in hits : k \in Int /\ m <= k
  BY <1>1, <1>2 DEF Hits
<1> HIDE DEF hits
<1>4. hits # {} /\ Min(hits) = m
  BY <1>3, MinIsSmallest
<1>5. QED
  BY <1>4 DEF stationsAwayToStation, hits, w, K

LEMMA FirstHitExists ==
    ASSUME NEW p \in 1..n, NEW d \in {1, -1}, NEW s, OnRoute(s)
    PROVE  \E m \in 0..(2 * n - 3) : ComesFirst(p, d, 0, m, s)
<1> DEFINE T == {k \in 0..(2 * n - 3) : RouteStops[Walk(p, d)[k].pos] = s}
<1>1. PICK q \in 1..n : RouteStops[q] = s
  BY DEF OnRoute
<1>2. T # {}
  BY <1>1, WalkReaches
<1>3. PICK m \in T : \A k \in T : m <= k
  <2>1. T \subseteq Nat
    BY RouteHasStops
  <2> HIDE DEF T
  <2>2. QED
    BY <1>2, <2>1, SmallestOfNaturals
<1>4. ASSUME NEW k \in 0..(2 * n), RouteStops[Walk(p, d)[k].pos] = s PROVE m <= k
  <2>1. CASE k \in 0..(2 * n - 3)
    BY <1>3, <1>4, <2>1
  <2>2. CASE k > 2 * n - 3
    BY <1>3, <1>4, <2>2, RouteHasStops
  <2>3. QED
    BY <1>4, <2>1, <2>2, RouteHasStops
<1>5. m \in 0..(2 * n)
  BY <1>3, RouteHasStops
<1>6. QED
  BY <1>3, <1>4, <1>5 DEF ComesFirst

\* A factor keeps an order.
LEMMA TimesKeepsOrder ==
    ASSUME NEW a \in Int, NEW b \in Int, NEW f \in Nat \ {0}
    PROVE  (a <= b => a * f <= b * f) /\ (a < b => a * f < b * f)
  OBVIOUS

LEMMA SlowedAdds ==
    ASSUME NEW a \in Int, NEW b \in Int, NEW f \in Int
    PROVE  /\ Slowed(a, f) \in Int /\ Slowed(0, f) = 0
           /\ Slowed(a, f) + Slowed(b - a, f) = Slowed(b, f)
  BY DEF Slowed

LEMMA TickIsDivided ==
    ASSUME NEW f \in 1..MaxSlowness
    PROVE  /\ f \in Nat \ {0} /\ TickSeconds \in Nat /\ TickSeconds \div f \in Nat
           /\ (TickSeconds \div f) * f = TickSeconds
<1>1. TickSeconds \in Nat /\ MaxSlowness \in Nat /\ TickSeconds % f = 0
  BY RouteIsOnLine
<1>2. f \in Nat \ {0}
  BY <1>1
<1>3. \A x \in Nat, y \in Nat \ {0} : x \div y \in Nat /\ x = y * (x \div y) + (x % y)
  OBVIOUS
<1>4. TickSeconds \div f \in Nat /\ TickSeconds = f * (TickSeconds \div f)
  BY <1>1, <1>2, <1>3
<1>5. QED
  BY <1>1, <1>2, <1>4

\* The numbers of the train.
TrackedOK ==
    /\ trainIndex \in 1..n /\ heading \in {1, -1}
    /\ covered \in Int /\ slowness \in 1..MaxSlowness

LEMMA TrackedStart == RouteInit => TrackedOK
  BY RouteHasStops DEF RouteInit, TrackedOK

LEMMA NextStopIsNear ==
    ASSUME TrackedOK
    PROVE  /\ NextStop \in 1..n /\ derivedDirection \in {1, -1}
           /\ SegmentFrom(trainIndex, heading) \in Nat \ {0}
<1>1. n \in Nat /\ n >= 2 /\ trainIndex \in 1..n /\ heading \in {1, -1}
  BY RouteHasStops DEF TrackedOK
<1>2. QED
  BY <1>1, SegmentsLast DEF NextStop, Clamped, derivedDirection

LEMMA TrackedStep == TrackedOK /\ [RouteNext]_routeVars => TrackedOK'
<1> SUFFICES ASSUME TrackedOK, [RouteNext]_routeVars PROVE TrackedOK'
  OBVIOUS
<1>1. CASE TrainTicks
  <2>1. TickSeconds \div slowness \in Nat /\ Clamped(trainIndex + heading) \in 1..n
    BY TickIsDivided, NextStopIsNear DEF TrackedOK, NextStop
  <2>2. /\ trainIndex' \in {trainIndex, Clamped(trainIndex + heading)}
        /\ heading' \in {heading, 1, -1}
        /\ covered' \in {0, covered + TickSeconds \div slowness} /\ slowness' = slowness
    BY <1>1 DEF TrainTicks
  <2>3. QED
    BY <2>1, <2>2 DEF TrackedOK
<1>2. CASE TrackerRestarts
  <2>1. SegmentFrom(trainIndex, 1) \in Nat \ {0} /\ SegmentFrom(trainIndex, heading) \in Nat \ {0}
    BY SegmentsLast DEF TrackedOK
  <2>2. \A x \in Int, y \in Nat \ {0} : x \div y \in Int
    OBVIOUS
  <2>3. \A x \in Int, y \in Nat \ {0} : x * y \in Int
    OBVIOUS
  <2>4. covered' \in Int
    BY <1>2, <2>1, <2>2, <2>3 DEF TrackerRestarts, TrackedOK
  <2>5. QED
    BY <1>2, <2>4 DEF TrackerRestarts, TrackedOK
<1>3. CASE DelayChanges
  BY <1>3 DEF DelayChanges, TrackedOK
<1>4. CASE ToggleRunning \/ ToggleLine \/ (\E s \in 0..LineLen : FocusOn(s)) \/ UNCHANGED routeVars
  BY <1>4 DEF ToggleRunning, ToggleLine, FocusOn, routeVars, trackedVars, TrackedOK
<1>5. QED
  BY <1>1, <1>2, <1>3, <1>4 DEF RouteNext

LEMMA RemainingIsInt ==
    ASSUME TrackedOK, [RouteNext]_routeVars
    PROVE  Remaining \in Int /\ Remaining' \in Int
<1>1. \A x, y \in Int : x * y \in Int
  OBVIOUS
<1>2. /\ slowness \in Int /\ covered \in Int /\ SegmentFrom(trainIndex, heading) \in Int
      /\ slowness' \in Int /\ covered' \in Int /\ SegmentFrom(trainIndex', heading') \in Int
  <2>1. MaxSlowness \in Nat /\ TrackedOK'
    BY RouteIsOnLine, TrackedStep
  <2>2. QED
    BY <2>1, SegmentsLast DEF TrackedOK
<1>3. QED
  BY <1>1, <1>2 DEF Remaining, Slowed

\* What is told before the tick.
LEMMA ToldBefore ==
    ASSUME TrackedOK, NEW s, etaToFocused(s) > 0
    PROVE  OnRoute(s) /\ RouteStops[trainIndex] # s
  BY DEF etaToFocused, etaToStationSeconds, Unknown

\* Seen from the stop, the next stop is one further.
LEMMA NextStopIsOneOn ==
    ASSUME TrackedOK, NextStop # trainIndex
    PROVE  \A k \in 0..(2 * n - 1) :
              Walk(NextStop, derivedDirection)[k].pos
                = Walk(trainIndex, derivedDirection)[k + 1].pos
<1> DEFINE v == Walk(trainIndex, derivedDirection)
           d == derivedDirection
<1>1. n \in Nat /\ n >= 2 /\ trainIndex \in 1..n /\ NextStop \in 1..n /\ d \in {1, -1}
  BY RouteHasStops, NextStopIsNear DEF TrackedOK
<1>2. Heads(trainIndex, d) = d /\ NextStop = trainIndex + d
  BY <1>1 DEF Heads, derivedDirection, NextStop, Clamped, TrackedOK
<1>3. v[0] = [pos |-> trainIndex, dir |-> d, secs |-> 0] /\ v[0] \in Legs /\ v[1] = OneStop[v[0]]
  <2>1. 0 \in 0..(2 * n) /\ 0 \in 0..(2 * n - 1) /\ 0 + 1 = 1
    BY <1>1
  <2> HIDE DEF d
  <2>2. QED
    BY <1>1, <2>1, WalkSteps DEF d
<1>4. v[1].pos = NextStop /\ v[1].dir = d
  <2> HIDE DEF v, d
  <2>1. v[0].pos = trainIndex /\ v[0].dir = d
    BY <1>3
  <2>2. QED
    BY <1>2, <1>3, <2>1, OneStopOn
<1>5. QED
  BY <1>1, <1>4, WalksStayTogether

\* A tick that stays in the segment leaves the walk alone; one that ends it takes
\* the train to the stop, and in the direction, where the walk goes on.
LEMMA TickInSegment ==
    ASSUME TrackedOK, TrainTicks,
           covered + TickSeconds \div slowness < SegmentFrom(trainIndex, heading)
    PROVE  /\ trainIndex' = trainIndex /\ NextStop' = NextStop /\ slowness' = slowness
           /\ derivedDirection' = derivedDirection
           /\ Remaining' = Remaining - TickSeconds /\ Min({TickSeconds, Remaining}) = TickSeconds
<1> DEFINE step == TickSeconds \div slowness
           seg == SegmentFrom(trainIndex, heading)
           left == seg - covered
<1>1. /\ slowness \in Nat \ {0} /\ TickSeconds \in Nat /\ step \in Nat
      /\ step * slowness = TickSeconds /\ covered \in Int /\ seg \in Nat
  BY TickIsDivided, NextStopIsNear DEF TrackedOK
<1>2. /\ trainIndex' = trainIndex /\ heading' = heading /\ slowness' = slowness
      /\ covered' = covered + step
  <2>1. ~(covered + step >= seg)
    BY <1>1
  <2> HIDE DEF step, seg
  <2>2. QED
    BY <2>1 DEF TrainTicks, step, seg
<1>3. NextStop' = NextStop /\ derivedDirection' = derivedDirection
  BY <1>2 DEF NextStop, derivedDirection
<1>4. Remaining = left * slowness /\ Remaining' = (left - step) * slowness
  <2>1. Remaining' = (seg - (covered + step)) * slowness
    BY <1>2 DEF Remaining, Slowed
  <2> HIDE DEF step, seg
  <2>2. QED
    BY <1>1, <2>1 DEF Remaining, Slowed, seg
<1>5. left \in Int /\ step < left
  BY <1>1
<1> HIDE DEF left, seg, step
<1>6. (left - step) * slowness = left * slowness - step * slowness
  BY <1>1, <1>5
<1>7. step * slowness < left * slowness /\ left * slowness \in Int
  BY <1>1, <1>5, TimesKeepsOrder
<1>8. Remaining \in Int /\ TickSeconds < Remaining
  BY <1>1, <1>4, <1>7
<1>9. Min({TickSeconds, Remaining}) = TickSeconds
  BY <1>1, <1>8, MinOfTwo
<1>10. QED
  BY <1>1, <1>2, <1>3, <1>4, <1>6, <1>9

LEMMA TickToStop ==
    ASSUME TrackedOK, TrainTicks,
           covered + TickSeconds \div slowness >= SegmentFrom(trainIndex, heading)
    PROVE  LET h == Heads(NextStop, derivedDirection) IN
           /\ trainIndex' = NextStop /\ slowness' = slowness
           /\ NextStop' = NextStop + h /\ derivedDirection' = h /\ h \in {1, -1}
           /\ Remaining' = Slowed(SegmentFrom(NextStop, h), slowness)
           /\ Remaining \in Int /\ Min({TickSeconds, Remaining}) = Remaining
<1> DEFINE step == TickSeconds \div slowness
           seg == SegmentFrom(trainIndex, heading)
           left == seg - covered
           h == Heads(NextStop, derivedDirection)
<1>1. /\ slowness \in Nat \ {0} /\ TickSeconds \in Nat /\ step \in Nat
      /\ step * slowness = TickSeconds /\ covered \in Int /\ seg \in Nat
  BY TickIsDivided, NextStopIsNear DEF TrackedOK
<1>2. /\ n \in Nat /\ n >= 2 /\ trainIndex \in 1..n /\ heading \in {1, -1}
      /\ NextStop \in 1..n /\ derivedDirection \in {1, -1}
  BY RouteHasStops, NextStopIsNear DEF TrackedOK
<1>3. /\ trainIndex' = NextStop /\ slowness' = slowness /\ covered' = 0
      /\ heading' = IF trainIndex + heading >= n THEN -1
                    ELSE IF trainIndex + heading <= 1 THEN 1 ELSE heading
  BY DEF TrainTicks, NextStop
<1>4. heading' = h
  BY <1>2, <1>3 DEF Heads, NextStop, Clamped, derivedDirection
<1>5. h \in {1, -1} /\ NextStop + h \in 1..n /\ Clamped(NextStop + h) = NextStop + h
  BY <1>2, HeadsOK
<1> HIDE DEF h
<1>6. NextStop' = NextStop + h
  <2>1. NextStop' = Clamped(trainIndex' + heading')
    BY DEF NextStop
  <2>2. QED
    BY <1>3, <1>4, <1>5, <2>1
<1>7. derivedDirection' = h
  <2>1. derivedDirection' = IF NextStop' # trainIndex'
                            THEN (IF NextStop' > trainIndex' THEN 1 ELSE -1) ELSE heading'
    BY DEF derivedDirection
  <2>2. QED
    BY <1>2, <1>3, <1>4, <1>5, <1>6, <2>1
<1>8. Remaining' = Slowed(SegmentFrom(NextStop, h), slowness)
  <2>1. Remaining' = Slowed(SegmentFrom(NextStop, h) - 0, slowness)
    BY <1>3, <1>4 DEF Remaining
  <2>2. SegmentFrom(NextStop, h) \in Nat
    BY <1>2, <1>5, SegmentsLast
  <2>3. QED
    BY <2>1, <2>2
<1>9. left \in Int /\ left <= step /\ Remaining = left * slowness
  BY <1>1 DEF Remaining, Slowed
<1> HIDE DEF left, step, seg
<1>10. left * slowness <= step * slowness /\ left * slowness \in Int
  BY <1>1, <1>9, TimesKeepsOrder
<1>11. Remaining \in Int /\ Remaining <= TickSeconds
  BY <1>1, <1>9, <1>10
<1>12. Min({TickSeconds, Remaining}) = Remaining
  BY <1>1, <1>11, MinOfTwo
<1>13. QED
  BY <1>3, <1>5, <1>6, <1>7, <1>8, <1>11, <1>12 DEF h

\* How far away a station is, from where the walk first comes to it.
LEMMA AwayByHit ==
    ASSUME TrackedOK, NEW s, OnRoute(s), RouteStops[trainIndex] # s, NEW m \in 0..(2 * n - 3),
           ComesFirst(NextStop, derivedDirection, 0, m, s)
    PROVE  stationsAway(s) = IF NextStop = trainIndex THEN m ELSE m + 1
<1> DEFINE d == derivedDirection
           w == Walk(NextStop, d)
           v == Walk(trainIndex, d)
<1>1. n \in Nat /\ n >= 2 /\ trainIndex \in 1..n /\ NextStop \in 1..n /\ d \in {1, -1}
  BY RouteHasStops, NextStopIsNear DEF TrackedOK
<1>2. RouteStops[w[m].pos] = s /\ \A k \in 0..(2 * n) : RouteStops[w[k].pos] = s => m <= k
  BY DEF ComesFirst
<1>3. stationsAway(s) = stationsAwayToStation(trainIndex, d, s)
  BY DEF stationsAway
<1>4. w[0].pos = NextStop
  <2> HIDE DEF d
  <2>1. w[0] = [pos |-> NextStop, dir |-> d, secs |-> 0]
    BY <1>1, WalkSteps
  <2> HIDE DEF w
  <2>2. QED
    BY <2>1
<1>5. CASE NextStop = trainIndex
  <2>1. v = w /\ m # 0
    BY <1>2, <1>4, <1>5
  <2>2. m \in 1..(2 * n) /\ RouteStops[v[m].pos] = s
    BY <1>1, <1>2, <2>1
  <2>3. \A k \in 1..(2 * n) : k \in 0..(2 * n)
    BY <1>1
  <2>4. \A k \in 1..(2 * n) : RouteStops[v[k].pos] = s => m <= k
    BY <1>2, <2>1, <2>3
  <2>5. stationsAwayToStation(trainIndex, d, s) = m
    <3>1. ComesFirst(trainIndex, d, 1, m, s)
      BY <2>2, <2>4 DEF ComesFirst
    <3> HIDE DEF d
    <3>2. QED
      BY <1>1, <3>1, Distances
  <2>6. QED
    BY <1>3, <1>5, <2>5
<1>6. CASE NextStop # trainIndex
  <2>1. \A k \in 0..(2 * n - 1) : w[k].pos = v[k + 1].pos
    BY <1>6, NextStopIsOneOn
  <2> HIDE DEF w, v, d
  <2>2. m \in 0..(2 * n - 1) /\ m + 1 \in 1..(2 * n)
    BY <1>1
  <2>3. RouteStops[v[m + 1].pos] = s
    BY <1>2, <2>1, <2>2
  <2>4. ASSUME NEW k \in 1..(2 * n), RouteStops[v[k].pos] = s PROVE m + 1 <= k
    <3>1. k - 1 \in 0..(2 * n - 1) /\ k - 1 \in 0..(2 * n) /\ (k - 1) + 1 = k
      BY <1>1
    <3>2. w[k - 1].pos = v[k].pos
      BY <2>1, <3>1
    <3>3. m <= k - 1
      BY <1>2, <2>4, <3>1, <3>2
    <3>4. QED
      BY <3>1, <3>3
  <2>5. stationsAwayToStation(trainIndex, d, s) = m + 1
    <3>1. ComesFirst(trainIndex, d, 1, m + 1, s)
      BY <2>2, <2>3, <2>4 DEF ComesFirst, v
    <3>2. QED
      BY <1>1, <3>1, Distances
  <2>6. QED
    BY <1>3, <1>6, <2>5
<1>7. QED
  BY <1>5, <1>6

\* At the stop, the walk is the rest of the walk of before.
LEMMA StopShiftsWalk ==
    ASSUME NEW next \in 1..n, NEW d \in {1, -1}, NEW m \in 1..(2 * n - 3), NEW s,
           ComesFirst(next, d, 0, m, s)
    PROVE  LET h == Heads(next, d) IN
           /\ ComesFirst(next + h, h, 0, m - 1, s) /\ ComesFirst(next, h, 1, m, s)
           /\ Walk(next + h, h)[m - 1].secs = Walk(next, d)[m].secs - SegmentFrom(next, h)
<1> DEFINE h == Heads(next, d)
           w == Walk(next, d)
           u == Walk(next + h, h)
           v == Walk(next, h)
<1>1. n \in Nat /\ n >= 2 /\ h \in {1, -1} /\ next + h \in 1..n
  BY RouteHasStops, HeadsOK
<1>2. RouteStops[w[m].pos] = s /\ \A k \in 0..(2 * n) : RouteStops[w[k].pos] = s => m <= k
  BY DEF ComesFirst
<1>3. w[0] = [pos |-> next, dir |-> d, secs |-> 0] /\ w[0] \in Legs /\ w[1] = OneStop[w[0]]
  <2>1. 0 \in 0..(2 * n) /\ 0 \in 0..(2 * n - 1) /\ 0 + 1 = 1
    BY <1>1
  <2>2. QED
    BY <2>1, WalkSteps
<1>4. w[1].pos = next + h /\ w[1].dir = h /\ w[1].secs = SegmentFrom(next, h)
  <2>1. w[0].pos = next /\ w[0].dir = d /\ w[0].secs = 0 /\ SegmentFrom(next, h) \in Nat
    BY <1>1, <1>3, SegmentsLast
  <2> HIDE DEF w
  <2>2. QED
    BY <1>3, <2>1, OneStopOn
<1>5. \A k \in 0..(2 * n - 1) :
        u[k].pos = w[k + 1].pos /\ u[k].secs = w[k + 1].secs - SegmentFrom(next, h)
  <2> HIDE DEF h
  <2>1. QED
    BY <1>1, <1>4, WalksStayTogether
<1>6. \A k \in 0..(2 * n) : v[k].pos = w[k].pos
  <2>1. Heads(next, h) = h
    BY <1>1 DEF Heads
  <2>2. /\ 0 \in {0, 1} /\ next = w[0].pos /\ Heads(next, h) = Heads(w[0].pos, w[0].dir)
        /\ 2 * n - 0 = 2 * n /\ \A k \in 0..(2 * n) : k + 0 = k
    BY <1>1, <1>3, <2>1
  <2> HIDE DEF h
  <2>3. \A k \in 0..(2 * n - 0) : v[k].pos = w[k + 0].pos
    BY <1>1, <2>2, WalksStayTogether
  <2>4. QED
    BY <2>2, <2>3
<1> HIDE DEF u, v, w, h
<1>7. /\ m - 1 \in 0..(2 * n - 1) /\ (m - 1) + 1 = m /\ m \in 0..(2 * n)
      /\ m - 1 \in 0..(2 * n) /\ m \in 1..(2 * n)
  BY <1>1
<1>8. RouteStops[u[m - 1].pos] = s /\ u[m - 1].secs = w[m].secs - SegmentFrom(next, h)
  BY <1>2, <1>5, <1>7
<1>9. ASSUME NEW k \in 0..(2 * n), RouteStops[u[k].pos] = s PROVE m - 1 <= k
  <2>1. CASE k \in 0..(2 * n - 1)
    <3>1. k + 1 \in 0..(2 * n)
      BY <1>1, <2>1
    <3>2. m <= k + 1
      BY <1>2, <1>5, <1>9, <2>1, <3>1
    <3>3. QED
      BY <2>1, <3>2
  <2>2. CASE k = 2 * n
    BY <1>1, <2>2
  <2>3. QED
    BY <1>1, <2>1, <2>2
<1>10. RouteStops[v[m].pos] = s /\ \A k \in 1..(2 * n) : RouteStops[v[k].pos] = s => m <= k
  <2>1. \A k \in 1..(2 * n) : k \in 0..(2 * n)
    BY <1>1
  <2>2. QED
    BY <1>2, <1>6, <1>7, <2>1
<1>11. QED
  BY <1>7, <1>8, <1>9, <1>10 DEF ComesFirst, u, v, w, h

\* One tick.
CountsDown(s) ==
    /\ etaToFocused(s)' = etaToFocused(s) - Min({TickSeconds, Remaining})
    /\ stationsAway(s)' = stationsAway(s) - (IF trainIndex' = trainIndex THEN 0 ELSE 1)

LEMMA TickCountsDown ==
    ASSUME TrackedOK, TrainTicks, NEW s, etaToFocused(s) > 0
    PROVE  CountsDown(s)
<1>0. Remaining \in Int /\ Remaining' \in Int
  BY RemainingIsInt DEF RouteNext
<1> DEFINE d == derivedDirection
           w == Walk(NextStop, d)
<1>1. /\ n \in Nat /\ n >= 2 /\ NextStop \in 1..n /\ d \in {1, -1}
      /\ trainIndex \in 1..n /\ slowness \in Nat \ {0} /\ slowness \in 1..MaxSlowness
  BY RouteHasStops, NextStopIsNear, TickIsDivided DEF TrackedOK
<1>2. OnRoute(s) /\ RouteStops[trainIndex] # s
  BY ToldBefore
<1>3. PICK m \in 0..(2 * n - 3) : ComesFirst(NextStop, d, 0, m, s)
  BY <1>1, <1>2, FirstHitExists
<1>4. m \in 0..(2 * n) /\ m \in Nat
  BY <1>1
<1>5. stationsAway(s) = IF NextStop = trainIndex THEN m ELSE m + 1
  BY <1>2, <1>3, AwayByHit
<1> HIDE DEF d
<1>6. w[m] \in Legs /\ w[0] = [pos |-> NextStop, dir |-> d, secs |-> 0]
  BY <1>1, <1>4, WalkSteps
<1>7. /\ etaToStationSeconds(trainIndex, NextStop, d, Remaining, slowness, s)
           = Remaining + Slowed(w[m].secs, slowness)
      /\ etaToStationSeconds(trainIndex, NextStop, d, Remaining', slowness, s)
           = Remaining' + Slowed(w[m].secs, slowness)
  <2>1. Remaining \in Int /\ Remaining' \in Int /\ slowness \in Int
    BY <1>0, <1>1
  <2>2. QED
    BY <1>1, <1>2, <1>3, <2>1, Estimates
<1> HIDE DEF w
<1>8. w[m].secs \in Nat /\ w[0].pos = NextStop /\ w[0].secs = 0
  BY <1>6 DEF Legs
<1>9. etaToFocused(s) = Remaining + Slowed(w[m].secs, slowness)
  BY <1>7 DEF etaToFocused, d
<1>10. CASE covered + TickSeconds \div slowness < SegmentFrom(trainIndex, heading)
  <2>1. /\ trainIndex' = trainIndex /\ NextStop' = NextStop /\ slowness' = slowness
        /\ derivedDirection' = d
        /\ Remaining' = Remaining - TickSeconds /\ Min({TickSeconds, Remaining}) = TickSeconds
    BY <1>10, TickInSegment DEF d
  <2>2. etaToFocused(s)' = Remaining' + Slowed(w[m].secs, slowness)
    BY <1>7, <2>1, ToldLater
  <2>3. stationsAway(s)' = stationsAway(s)
    BY <2>1, ToldLater DEF stationsAway, d
  <2>4. /\ Remaining \in Int /\ TickSeconds \in Int
        /\ Slowed(w[m].secs, slowness) \in Int /\ stationsAway(s) \in Int
    BY <1>0, <1>1, <1>4, <1>5, <1>8, SlowedAdds, TickIsDivided
  <2>5. QED
    BY <1>9, <2>1, <2>2, <2>3, <2>4 DEF CountsDown
<1>11. CASE covered + TickSeconds \div slowness >= SegmentFrom(trainIndex, heading)
  <2> DEFINE h == Heads(NextStop, d)
  <2>1. /\ trainIndex' = NextStop /\ slowness' = slowness
        /\ NextStop' = NextStop + h /\ derivedDirection' = h /\ h \in {1, -1}
        /\ Remaining' = Slowed(SegmentFrom(NextStop, h), slowness)
        /\ Remaining \in Int /\ Min({TickSeconds, Remaining}) = Remaining
    BY <1>11, TickToStop DEF d
  <2>2. CASE m = 0
    <3>1. RouteStops[NextStop] = s
      BY <1>3, <1>8, <2>2 DEF ComesFirst, w
    <3>2. etaToFocused(s)' = 0 /\ stationsAway(s)' = 0
      BY <1>2, <2>1, <3>1, ToldLater DEF etaToStationSeconds, stationsAwayToStation
    <3>3. NextStop # trainIndex
      BY <1>2, <3>1
    <3>4. etaToFocused(s) = Remaining
      <4>1. w[m].secs = 0 /\ slowness \in Int
        BY <1>1, <1>8, <2>2
      <4>2. Slowed(w[m].secs, slowness) = 0
        BY <4>1, SlowedAdds
      <4>3. QED
        BY <1>0, <1>9, <4>2
    <3>5. QED
      BY <1>5, <2>1, <2>2, <3>2, <3>3, <3>4 DEF CountsDown
  <2>3. CASE m # 0
    <3>1. RouteStops[NextStop] # s
      <4>1. 0 \in 0..(2 * n) /\ ~(m <= 0)
        BY <1>1, <1>4, <2>3
      <4>2. QED
        BY <1>3, <1>8, <4>1 DEF ComesFirst, w
    <3> DEFINE u == Walk(NextStop + h, h)
               seg == SegmentFrom(NextStop, h)
    <3>2. m \in 1..(2 * n - 3) /\ NextStop + h \in 1..n
      BY <1>1, <1>4, <2>3, HeadsOK
    <3>3. /\ ComesFirst(NextStop + h, h, 0, m - 1, s) /\ ComesFirst(NextStop, h, 1, m, s)
          /\ u[m - 1].secs = w[m].secs - seg
      BY <1>1, <1>3, <3>2, StopShiftsWalk DEF w
    <3>4. seg \in Nat
      BY <1>1, <2>1, SegmentsLast
    <3> HIDE DEF h
    <3>5. etaToStationSeconds(NextStop, NextStop + h, h, Remaining', slowness, s)
            = Remaining' + Slowed(u[m - 1].secs, slowness)
      <4> DEFINE next == NextStop + h
                 j == m - 1
      <4>1. /\ next \in 1..n /\ h \in {1, -1} /\ Remaining' \in Int /\ slowness \in Int
            /\ ComesFirst(next, h, 0, j, s)
        BY <1>0, <1>1, <2>1, <3>2, <3>3
      <4> HIDE DEF next, j
      <4>2. etaToStationSeconds(NextStop, next, h, Remaining', slowness, s)
              = Remaining' + Slowed(Walk(next, h)[j].secs, slowness)
        BY <1>2, <3>1, <4>1, Estimates
      <4>3. QED
        BY <4>2 DEF next, j
    <3>6. stationsAwayToStation(NextStop, h, s) = m
      BY <1>1, <1>2, <2>1, <3>1, <3>3, Distances
    <3> HIDE DEF u, seg
    <3>7. etaToFocused(s)' = Slowed(seg, slowness) + Slowed(w[m].secs - seg, slowness)
      BY <2>1, <3>3, <3>5, ToldLater DEF seg
    <3>8. stationsAway(s)' = m
      BY <2>1, <3>6, ToldLater
    <3>9. Slowed(seg, slowness) + Slowed(w[m].secs - seg, slowness) = Slowed(w[m].secs, slowness)
      <4> DEFINE all == w[m].secs
      <4>1. seg \in Int /\ all \in Int /\ slowness \in Int
        BY <1>1, <1>8, <3>4
      <4> HIDE DEF all
      <4>2. Slowed(seg, slowness) + Slowed(all - seg, slowness) = Slowed(all, slowness)
        BY <4>1, SlowedAdds
      <4>3. QED
        BY <4>2 DEF all
    <3>10. Slowed(w[m].secs, slowness) = etaToFocused(s) - Remaining
      <4>1. Slowed(w[m].secs, slowness) \in Int
        BY <1>1, <1>8, SlowedAdds
      <4>2. QED
        BY <1>9, <2>1, <4>1
    <3>11. QED
      BY <1>4, <1>5, <2>1, <3>7, <3>8, <3>9, <3>10 DEF CountsDown
  <2>4. QED
    BY <2>2, <2>3
<1>12. QED
  <2>1. covered + TickSeconds \div slowness \in Int /\ SegmentFrom(trainIndex, heading) \in Int
    BY <1>1, TickIsDivided, NextStopIsNear DEF TrackedOK
  <2>2. QED
    BY <1>10, <1>11, <2>1

\* On a line and a route of any stops and segments, with any delay, wherever the
\* tracker was restarted: each tick takes its time from the estimate of every
\* station ahead, and a stop from its distance.  A walk of OneStop comes to every
\* stop within its bound of twice the route, and the walk from the stop a tick
\* reaches is the rest of the walk of before.
THEOREM EstimatesCountDown == RouteSpec => EtaCountsDown
<1>1. TrackedOK /\ [RouteNext]_routeVars
        => [\A s \in 1..LineLen :
              (TrainTicks /\ etaToFocused(s) > 0) =>
                  /\ etaToFocused(s)' = etaToFocused(s) - Min({TickSeconds, Remaining})
                  /\ stationsAway(s)' =
                       stationsAway(s) - (IF trainIndex' = trainIndex THEN 0 ELSE 1)]_routeVars
  BY TickCountsDown DEF CountsDown
<1>2. QED
  BY <1>1, TrackedStart, TrackedStep, PTL DEF RouteSpec, EtaCountsDown

-----------------------------------------------------------------------------
\* MapDrawing.  Who comes before a station, along an axis or along a line.
Before(s, t, key) == key[t] < key[s] \/ (key[t] = key[s] /\ t < s)
Ahead(S, s, key) == {t \in S : key[t] < key[s] \/ (key[t] = key[s] /\ t < s)}

LEMMA AheadIsFinite ==
    ASSUME NEW S \in SUBSET MapStations, NEW s, NEW key
    PROVE  /\ IsFiniteSet(S) /\ Cardinality(S) \in Nat
           /\ IsFiniteSet(Ahead(S, s, key)) /\ Cardinality(Ahead(S, s, key)) \in Nat
<1>1. S \subseteq MapStations /\ Ahead(S, s, key) \subseteq MapStations /\ IsFiniteSet(MapStations)
  BY FewStations DEF Ahead
<1>2. QED
  BY <1>1, FS_Subset, FS_CardinalityType

\* Whoever comes later has more before it.
LEMMA MoreAreAhead ==
    ASSUME NEW key \in [MapStations -> Int], NEW S \in SUBSET MapStations,
           NEW s \in S, NEW t \in S, Before(t, s, key)
    PROVE  Cardinality(Ahead(S, s, key)) < Cardinality(Ahead(S, t, key))
<1>1. \A u \in S : u \in Nat /\ key[u] \in Int
  BY FewStations
<1>2. Ahead(S, s, key) \subseteq Ahead(S, t, key) /\ s \in Ahead(S, t, key)
      /\ s \notin Ahead(S, s, key)
  <2>1. s \in Ahead(S, t, key) /\ s \notin Ahead(S, s, key)
    BY <1>1 DEF Before, Ahead
  <2>2. ASSUME NEW v \in S, key[v] < key[s] \/ (key[v] = key[s] /\ v < s)
        PROVE  key[v] < key[t] \/ (key[v] = key[t] /\ v < t)
    <3>1. /\ key[v] \in Int /\ key[s] \in Int /\ key[t] \in Int
          /\ v \in Nat /\ s \in Nat /\ t \in Nat
      BY <1>1
    <3>2. key[s] < key[t] \/ (key[s] = key[t] /\ s < t)
      BY DEF Before
    <3>3. QED
      BY <2>2, <3>1, <3>2
  <2>3. QED
    BY <2>1, <2>2 DEF Ahead
<1>3. /\ IsFiniteSet(Ahead(S, t, key))
      /\ Cardinality(Ahead(S, s, key)) \in Nat /\ Cardinality(Ahead(S, t, key)) \in Nat
  BY AheadIsFinite
<1>4. /\ Cardinality(Ahead(S, s, key)) <= Cardinality(Ahead(S, t, key))
      /\ Cardinality(Ahead(S, s, key)) # Cardinality(Ahead(S, t, key))
  BY <1>2, <1>3, FS_Subset
<1>5. QED
  BY <1>3, <1>4

LEMMA MapRanksGrow ==
    ASSUME NEW key \in [MapStations -> Int], masterList \subseteq MapStations,
           NEW s \in valid, NEW t \in valid, Before(t, s, key)
    PROVE  Rank(s, key) \in Nat /\ Rank(t, key) \in Nat /\ Rank(s, key) < Rank(t, key)
<1>1. valid \in SUBSET MapStations
  BY DEF valid
<1>2. Rank(s, key) = Cardinality(Ahead(valid, s, key))
      /\ Rank(t, key) = Cardinality(Ahead(valid, t, key))
  BY DEF Rank, Ahead
<1>3. QED
  BY <1>1, <1>2, MoreAreAhead, AheadIsFinite

LEMMA MapIsReadable == MapTypeOK => DotsKeepApart
<1> SUFFICES ASSUME MapTypeOK, NEW s \in drawn, NEW t \in drawn
             PROVE  /\ s # t => projectPoints[s] # projectPoints[t]
                    /\ LatOf[s] < LatOf[t] => projectPoints[s].y > projectPoints[t].y
  BY DEF DotsKeepApart
<1>1. s \in valid /\ t \in valid /\ masterList \subseteq MapStations /\ valid \subseteq MapStations
  BY DEF drawn, MapTypeOK, valid
<1>2. /\ projectPoints[s] = [x |-> Rank(s, LngOf), y |-> Cardinality(valid) - 1 - Rank(s, LatOf)]
      /\ projectPoints[t] = [x |-> Rank(t, LngOf), y |-> Cardinality(valid) - 1 - Rank(t, LatOf)]
  BY <1>1 DEF projectPoints
<1>3. /\ LatOf \in [MapStations -> Int] /\ LngOf \in [MapStations -> Int]
      /\ s \in Nat /\ t \in Nat /\ Cardinality(valid) \in Nat
  BY <1>1, FewStations, FS_Subset, FS_CardinalityType
<1>4. ASSUME s # t PROVE projectPoints[s] # projectPoints[t]
  <2>1. Before(t, s, LngOf) \/ Before(s, t, LngOf)
    BY <1>1, <1>3, <1>4 DEF Before
  <2>2. Rank(s, LngOf) # Rank(t, LngOf)
    <3>1. CASE Before(t, s, LngOf)
      <4>1. Rank(s, LngOf) \in Nat /\ Rank(t, LngOf) \in Nat /\ Rank(s, LngOf) < Rank(t, LngOf)
        BY <1>1, <1>3, <3>1, MapRanksGrow
      <4>2. QED
        BY <4>1
    <3>2. CASE Before(s, t, LngOf)
      <4>1. Rank(s, LngOf) \in Nat /\ Rank(t, LngOf) \in Nat /\ Rank(t, LngOf) < Rank(s, LngOf)
        BY <1>1, <1>3, <3>2, MapRanksGrow
      <4>2. QED
        BY <4>1
    <3>3. QED
      BY <2>1, <3>1, <3>2
  <2>3. QED
    BY <1>2, <2>2
<1>5. ASSUME LatOf[s] < LatOf[t] PROVE projectPoints[s].y > projectPoints[t].y
  <2>1. Before(t, s, LatOf)
    BY <1>5 DEF Before
  <2>2. Rank(s, LatOf) \in Nat /\ Rank(t, LatOf) \in Nat /\ Rank(s, LatOf) < Rank(t, LatOf)
    BY <1>1, <1>3, <2>1, MapRanksGrow
  <2>3. QED
    BY <1>2, <1>3, <2>2
<1>6. QED
  BY <1>4, <1>5

\* Each place along a line is somebody's, and one's only.
LEMMA OnePlaceEach ==
    ASSUME NEW key \in [MapStations -> Int], NEW S \in SUBSET MapStations
    PROVE  /\ \A s, t \in S : Cardinality(Ahead(S, s, key)) = Cardinality(Ahead(S, t, key)) => s = t
           /\ \A s \in S : Cardinality(Ahead(S, s, key)) + 1 \in 1..Cardinality(S)
           /\ \A i \in 1..Cardinality(S) : \E s \in S : Cardinality(Ahead(S, s, key)) = i - 1
<1> DEFINE place(s) == Cardinality(Ahead(S, s, key))
           f == [s \in S |-> place(s) + 1]
<1>1. /\ IsFiniteSet(S) /\ Cardinality(S) \in Nat
      /\ \A s \in S : place(s) \in Nat /\ s \in Nat /\ key[s] \in Int
  BY AheadIsFinite, FewStations
<1>2. \A s, t \in S : place(s) = place(t) => s = t
  <2> SUFFICES ASSUME NEW s \in S, NEW t \in S, s # t PROVE place(s) # place(t)
    OBVIOUS
  <2>1. Before(s, t, key) \/ Before(t, s, key)
    BY <1>1 DEF Before
  <2>2. place(s) < place(t) \/ place(t) < place(s)
    BY <2>1, MoreAreAhead
  <2>3. QED
    BY <1>1, <2>2
<1>3. \A s \in S : place(s) + 1 \in 1..Cardinality(S)
  <2> SUFFICES ASSUME NEW s \in S PROVE place(s) + 1 \in 1..Cardinality(S)
    OBVIOUS
  <2>0. s \in Nat /\ key[s] \in Int
    BY <1>1
  <2>1. Ahead(S, s, key) \in SUBSET (S \ {s})
    <3>1. s \notin Ahead(S, s, key)
      BY <2>0 DEF Ahead
    <3>2. QED
      BY <3>1 DEF Ahead
  <2>2. IsFiniteSet(S \ {s}) /\ Cardinality(S \ {s}) = Cardinality(S) - 1
    BY <1>1, FS_RemoveElement
  <2>3. place(s) <= Cardinality(S) - 1
    BY <2>1, <2>2, FS_Subset
  <2>4. QED
    BY <1>1, <2>3
<1> HIDE DEF place
<1>4. \A i \in 1..Cardinality(S) : \E s \in S : f[s] = i
  <2>1. f \in [S -> 1..Cardinality(S)] /\ \A s, t \in S : f[s] = f[t] => s = t
    BY <1>1, <1>2, <1>3
  <2>2. f \in Injection(S, 1..Cardinality(S))
    BY <2>1 DEF Injection, IsInjective
  <2>3. IsFiniteSet(1..Cardinality(S)) /\ Cardinality(1..Cardinality(S)) = Cardinality(S)
    BY <1>1, FS_Interval
  <2> HIDE DEF f
  <2>4. f \in Surjection(S, 1..Cardinality(S))
    BY <2>2, <2>3, FS_Injection
  <2>5. QED
    BY <2>4 DEF Surjection
<1>5. \A i \in 1..Cardinality(S) : \E s \in S : place(s) = i - 1
  BY <1>1, <1>4
<1>6. QED
  BY <1>2, <1>3, <1>5 DEF place

\* A line visits each of its stations, and once.
LEMMA LineVisitsAll ==
    ASSUME NEW S \in SUBSET MapStations
    PROVE  IsInjective(InOrder(S)) /\ \A s \in S : \E i \in DOMAIN InOrder(S) : InOrder(S)[i] = s
<1> DEFINE place(s) == Cardinality(Ahead(S, s, OrderOf))
           N == Cardinality(S)
           line == InOrder(S)
<1>1. \A s \in S : {t \in S : Earlier(t, s)} = Ahead(S, s, OrderOf)
  BY DEF Earlier, Ahead
<1>2. /\ N \in Nat /\ \A s \in S : place(s) \in Nat /\ place(s) + 1 \in 1..N
      /\ \A s, t \in S : place(s) = place(t) => s = t
      /\ \A i \in 1..N : \E s \in S : place(s) = i - 1
  BY AheadIsFinite, OnePlaceEach, FewStations
<1>3. line = [i \in 1..N |-> CHOOSE s \in S : place(s) = i - 1]
  BY <1>1 DEF InOrder
<1> HIDE DEF place, line, N
<1>4. DOMAIN line = 1..N /\ \A i \in 1..N : line[i] \in S /\ place(line[i]) = i - 1
  BY <1>2, <1>3
<1>5. \A i, j \in 1..N : line[i] = line[j] => i = j
  <2>1. ASSUME NEW i \in 1..N, NEW j \in 1..N, line[i] = line[j] PROVE i - 1 = j - 1
    BY <1>4, <2>1
  <2>2. QED
    BY <1>2, <2>1
<1>6. ASSUME NEW s \in S PROVE \E i \in 1..N : line[i] = s
  <2>1. place(s) + 1 \in 1..N /\ (place(s) + 1) - 1 = place(s)
    BY <1>2
  <2>2. line[place(s) + 1] \in S /\ place(line[place(s) + 1]) = place(s)
    BY <1>4, <2>1
  <2>3. QED
    BY <1>2, <2>1, <2>2
<1>7. IsInjective(line)
  BY <1>4, <1>5 DEF IsInjective
<1>8. QED
  BY <1>4, <1>6, <1>7 DEF line

\* Stations without a line.  Distances on the map are numbers, so that one of any
\* stations is the nearest.
LEMMA SquareIsNat == ASSUME NEW a \in Int PROVE a * a \in Nat
<1>1. CASE a >= 0
  BY <1>1
<1>2. CASE a < 0
  <2>1. -a \in Nat /\ (-a) * (-a) = a * a
    BY <1>2
  <2>2. (-a) * (-a) \in Nat
    BY <2>1
  <2>3. QED
    BY <2>1, <2>2
<1>3. QED
  BY <1>1, <1>2

LEMMA DistancesAreNat ==
    ASSUME MapTypeOK, NEW s \in valid, NEW t \in valid
    PROVE  SquaredDistance(s, t) \in Nat
<1>1. valid \in SUBSET MapStations
  BY DEF valid, MapTypeOK
<1>2. ASSUME NEW u \in valid PROVE projectPoints[u].x \in Int /\ projectPoints[u].y \in Int
  <2> DEFINE x == Rank(u, LngOf)
             y == Cardinality(valid) - 1 - Rank(u, LatOf)
  <2>1. Rank(u, LngOf) = Cardinality(Ahead(valid, u, LngOf))
        /\ Rank(u, LatOf) = Cardinality(Ahead(valid, u, LatOf))
    BY DEF Rank, Ahead
  <2>2. x \in Int /\ y \in Int
    BY <1>1, <2>1, AheadIsFinite
  <2>3. projectPoints[u] = [x |-> x, y |-> y]
    BY DEF projectPoints
  <2> HIDE DEF x, y
  <2>4. QED
    BY <2>2, <2>3
<1> DEFINE dx == projectPoints[s].x - projectPoints[t].x
           dy == projectPoints[s].y - projectPoints[t].y
<1>3. dx \in Int /\ dy \in Int
  BY <1>2
<1>4. SquaredDistance(s, t) = dx * dx + dy * dy
  BY DEF SquaredDistance
<1> HIDE DEF dx, dy
<1>5. dx * dx \in Nat /\ dy * dy \in Nat
  BY <1>3, SquareIsNat
<1>6. QED
  BY <1>4, <1>5

LEMMA NearestIsThere ==
    ASSUME MapTypeOK, NEW s \in valid, NEW T \in SUBSET valid, T # {}
    PROVE  Nearest(s, T) \in T
<1>1. valid \in SUBSET Nat
  BY FewStations DEF valid, MapTypeOK
<1> DEFINE D == {SquaredDistance(s, t) : t \in T}
<1>2. PICK d \in D : \A e \in D : d <= e
  <2>1. D \in SUBSET Nat /\ D # {}
    BY DistancesAreNat
  <2> HIDE DEF D
  <2>2. QED
    BY <2>1, SmallestOfNaturals
<1> DEFINE U == {t \in T : SquaredDistance(s, t) = d}
<1>3. PICK t \in U : \A u \in U : t <= u
  <2>1. U \in SUBSET Nat /\ U # {}
    BY <1>1, <1>2
  <2> HIDE DEF U
  <2>2. QED
    BY <2>1, SmallestOfNaturals
<1>4. ASSUME NEW u \in T \ {t}
      PROVE  \/ SquaredDistance(s, t) < SquaredDistance(s, u)
             \/ SquaredDistance(s, t) = SquaredDistance(s, u) /\ t < u
  <2>1. /\ SquaredDistance(s, t) \in Nat /\ SquaredDistance(s, u) \in Nat /\ t \in Nat /\ u \in Nat
        /\ SquaredDistance(s, t) <= SquaredDistance(s, u) /\ u # t
    BY <1>1, <1>2, DistancesAreNat
  <2>2. SquaredDistance(s, t) = SquaredDistance(s, u) => t <= u
    BY <1>3
  <2>3. QED
    BY <2>1, <2>2
<1>5. t \in T
  OBVIOUS
<1>6. QED
  BY <1>4, <1>5 DEF Nearest

\* The chain of fallbackSegment: nobody visited is left, and everybody else is.
LEMMA ChainLeavesTheRest ==
    ASSUME MapTypeOK, NEW S \in SUBSET valid, NEW first \in S
    PROVE  LET c == Chain(S, first) N == Cardinality(S) IN
           /\ N \in Nat \ {0}
           /\ \A k \in 0..(N - 1) : c[k].at \in S
           /\ S \subseteq {c[k].at : k \in 0..(N - 1)}
<1> DEFINE c == Chain(S, first)
           N == Cardinality(S)
           Visited(k) == {c[j].at : j \in 0..k}
           Good(k) == /\ c[k] \in Chaining /\ c[k].at \in S /\ c[k].left \subseteq S
                      /\ Cardinality(c[k].left) = N - 1 - k
                      /\ S \subseteq c[k].left \cup Visited(k)
<1>1. /\ S \in SUBSET MapStations /\ IsFiniteSet(S) /\ N \in Nat /\ N # 0
      /\ \A R \in SUBSET S : IsFiniteSet(R) /\ Cardinality(R) \in Nat
  <2>1. S \in SUBSET MapStations
    BY DEF valid, MapTypeOK
  <2>2. \A R \in SUBSET S : IsFiniteSet(R) /\ Cardinality(R) \in Nat
    BY <2>1, AheadIsFinite
  <2>3. QED
    BY <2>1, <2>2, FS_EmptySet
<1>2. /\ N - 1 \in Nat
      /\ \A k \in 0..(N - 1) :
            c[k] = IF k = 0 THEN [at |-> first, left |-> S \ {first}] ELSE ChainOn[c[k - 1]]
  <2>1. N - 1 \in Nat
    BY <1>1
  <2>2. \E w : Iterates(w, [at |-> first, left |-> S \ {first}], ChainOn, N - 1)
    BY <2>1, IterationExists
  <2>3. Iterates(c, [at |-> first, left |-> S \ {first}], ChainOn, N - 1)
    BY <2>2 DEF Chain, Iterates
  <2> HIDE DEF c, N
  <2>4. QED
    BY <2>1, <2>3 DEF Iterates
<1> HIDE DEF c, N
<1>3. Good(0)
  <2>1. c[0] = [at |-> first, left |-> S \ {first}]
    <3>1. 0 \in 0..(N - 1)
      BY <1>2
    <3>2. QED
      BY <1>2, <3>1
  <2>2. Cardinality(S \ {first}) = N - 1
    BY <1>1, FS_RemoveElement DEF N
  <2>3. first \in Visited(0)
    BY <2>1
  <2>4. QED
    BY <1>1, <2>1, <2>2, <2>3 DEF Chaining
<1>4. ASSUME NEW k \in 0..(N - 1), k # 0, Good(k - 1) PROVE Good(k)
  <2> DEFINE b == c[k - 1]
             next == Nearest(b.at, b.left)
  <2>1. k \in Nat /\ k - 1 \in Nat /\ k <= N - 1
    BY <1>1, <1>4
  <2>2. b \in Chaining /\ b.at \in S /\ b.left \subseteq S /\ Cardinality(b.left) = N - k
        /\ S \subseteq b.left \cup Visited(k - 1)
    BY <1>1, <1>4, <2>1
  <2>3. next \in b.left
    <3>1. b.left # {}
      BY <1>1, <2>1, <2>2, FS_EmptySet
    <3>2. QED
      BY <2>2, <3>1, NearestIsThere
  <2>4. c[k] = [at |-> next, left |-> b.left \ {next}]
    <3>1. c[k] = ChainOn[b]
      BY <1>2, <1>4
    <3>2. QED
      BY <2>2, <3>1 DEF ChainOn
  <2> HIDE DEF b, next
  <2>5. IsFiniteSet(b.left)
    BY <1>1, <2>2
  <2>6. Cardinality(b.left \ {next}) = N - k - 1
    BY <1>1, <2>1, <2>2, <2>3, <2>5, FS_RemoveElement
  <2>7. Visited(k) = Visited(k - 1) \cup {next}
    <3>1. 0..k = (0..(k - 1)) \cup {k} /\ c[k].at = next
      BY <2>1, <2>4
    <3>2. QED
      BY <3>1
  <2>8. S \subseteq c[k].left \cup Visited(k)
    BY <2>2, <2>4, <2>7
  <2>9. c[k] \in Chaining /\ c[k].at \in S /\ c[k].left \subseteq S
    BY <1>1, <2>2, <2>3, <2>4 DEF Chaining
  <2>10. Cardinality(c[k].left) = N - 1 - k
    BY <1>1, <2>1, <2>4, <2>6
  <2>11. QED
    BY <2>8, <2>9, <2>10
<1>5. \A k \in 0..(N - 1) : Good(k)
  <2> HIDE DEF Good
  <2> DEFINE Bad == {k \in 0..(N - 1) : ~Good(k)}
  <2> SUFFICES ASSUME Bad # {} PROVE FALSE
    OBVIOUS
  <2>1. PICK k \in Bad : \A i \in Bad : k <= i
    <3>1. Bad \in SUBSET Nat
      BY <1>1
    <3> HIDE DEF Bad
    <3>2. QED
      BY <3>1, SmallestOfNaturals
  <2>2. k \in 0..(N - 1) /\ ~Good(k) /\ k # 0
    BY <1>3, <2>1
  <2>3. k - 1 \in 0..(N - 1) /\ k - 1 \notin Bad
    BY <1>1, <2>1, <2>2
  <2>4. QED
    BY <1>4, <2>2, <2>3
<1>6. Cardinality(c[N - 1].left) = 0 /\ c[N - 1].left \subseteq S
      /\ S \subseteq c[N - 1].left \cup Visited(N - 1)
  <2>1. Good(N - 1) /\ N - 1 - (N - 1) = 0
    BY <1>1, <1>2, <1>5
  <2>2. QED
    BY <2>1
<1>7. c[N - 1].left = {}
  BY <1>1, <1>6, FS_EmptySet
<1>8. S \subseteq Visited(N - 1) /\ \A k \in 0..(N - 1) : c[k].at \in S
  BY <1>5, <1>6, <1>7
<1>9. QED
  BY <1>1, <1>8 DEF c, N

\* So the chain visits each of them, and, being as many as its steps, once.
LEMMA ChainVisitsAll ==
    ASSUME MapTypeOK, NEW S \in SUBSET valid
    PROVE  /\ \A segment \in buildFallbackConnector(S) : IsInjective(segment)
           /\ ~(Cardinality(S) < 2) =>
                \A s \in S : \E segment \in buildFallbackConnector(S) :
                    \E i \in DOMAIN segment : segment[i] = s
<1> SUFFICES ASSUME ~(Cardinality(S) < 2)
             PROVE  /\ \A segment \in buildFallbackConnector(S) : IsInjective(segment)
                    /\ \A s \in S : \E segment \in buildFallbackConnector(S) :
                          \E i \in DOMAIN segment : segment[i] = s
  BY DEF buildFallbackConnector
<1> DEFINE N == Cardinality(S)
           first == CHOOSE s \in S : \A t \in S : s <= t
           c == Chain(S, first)
           segment == [i \in 1..N |-> c[i - 1].at]
<1>1. S \in SUBSET Nat /\ IsFiniteSet(S) /\ N \in Nat /\ S # {}
  <2>1. S \in SUBSET MapStations
    BY DEF valid, MapTypeOK
  <2>2. IsFiniteSet(S) /\ N \in Nat
    BY <2>1, AheadIsFinite
  <2>3. QED
    BY <2>1, <2>2, FewStations, FS_EmptySet
<1>2. first \in S
  BY <1>1, SmallestOfNaturals
<1>3. /\ \A k \in 0..(N - 1) : c[k].at \in S
      /\ S \subseteq {c[k].at : k \in 0..(N - 1)}
  <2> HIDE DEF first
  <2>1. QED
    BY <1>2, ChainLeavesTheRest
<1>4. buildFallbackConnector(S) = {segment}
  BY DEF buildFallbackConnector
<1> HIDE DEF N, first, c
<1>5. segment \in [1..N -> S]
  <2>1. \A i \in 1..N : i - 1 \in 0..(N - 1)
    BY <1>1
  <2>2. QED
    BY <1>3, <2>1
<1>6. \A s \in S : \E i \in 1..N : segment[i] = s
  <2> TAKE s \in S
  <2>1. PICK k \in 0..(N - 1) : c[k].at = s
    BY <1>3
  <2>2. k + 1 \in 1..N /\ (k + 1) - 1 = k
    BY <1>1
  <2>3. segment[k + 1] = s
    BY <2>1, <2>2
  <2>4. QED
    BY <2>2, <2>3
<1>7. IsInjective(segment)
  <2>1. IsFiniteSet(1..N) /\ Cardinality(1..N) = N
    BY <1>1, FS_Interval
  <2> HIDE DEF segment
  <2>2. segment \in Surjection(1..N, S)
    BY <1>5, <1>6 DEF Surjection
  <2>3. segment \in Injection(1..N, S)
    BY <1>1, <2>1, <2>2, FS_SurjSameCardinalityImpliesInj DEF N
  <2>4. QED
    BY <2>3 DEF Injection
<1>8. QED
  BY <1>4, <1>5, <1>6, <1>7

\* A set with another member has two.
LEMMA TwoMakeALine ==
    ASSUME NEW S \in SUBSET MapStations, NEW s \in S, NEW t \in S, s # t
    PROVE  Cardinality(S) >= 2
<1>1. /\ IsFiniteSet(S) /\ Cardinality(S) \in Nat
      /\ IsFiniteSet(S \ {s}) /\ Cardinality(S \ {s}) \in Nat
      /\ Cardinality(S \ {s}) = Cardinality(S) - 1
  BY AheadIsFinite, FS_RemoveElement
<1>2. Cardinality(S \ {s}) # 0
  BY <1>1, FS_EmptySet
<1>3. QED
  BY <1>1, <1>2

LEMMA LinesReachDots == MapTypeOK => DotsAreOnLines
<1> SUFFICES ASSUME MapTypeOK PROVE DotsAreOnLines
  OBVIOUS
<1>1. /\ valid \in SUBSET MapStations /\ drawn \in SUBSET valid
      /\ \A S \in SUBSET valid : \A l : OfLine(S, l) \in SUBSET S
  BY DEF valid, drawn, MapTypeOK, OfLine
<1>2. ASSUME NEW segment \in allLineSegments PROVE IsInjective(segment)
  <2>1. CASE segment \in buildFullLineSegments
    <3>1. PICK line : segment = InOrder(OfLine(valid, line))
      BY <2>1 DEF buildFullLineSegments
    <3>2. OfLine(valid, line) \in SUBSET MapStations
      BY <1>1
    <3>3. QED
      BY <3>1, <3>2, LineVisitsAll
  <2>2. CASE segment \in fallbackSegment
    <3>1. OfLine(drawn, NoLine) \in SUBSET valid
      BY <1>1
    <3>2. QED
      BY <2>2, <3>1, ChainVisitsAll DEF fallbackSegment
  <2>3. QED
    BY <2>1, <2>2 DEF allLineSegments
<1>3. ASSUME NEW s \in drawn,
             NEW t \in (IF LineOf[s] = NoLine THEN drawn ELSE valid) \ {s}, LineOf[t] = LineOf[s]
      PROVE  \E segment \in allLineSegments : \E i \in DOMAIN segment : segment[i] = s
  <2>1. CASE LineOf[s] = NoLine
    <3> DEFINE S == OfLine(drawn, NoLine)
    <3>1. S \in SUBSET valid /\ S \in SUBSET MapStations /\ s \in S /\ t \in S /\ s # t
      BY <1>1, <1>3, <2>1 DEF OfLine
    <3> HIDE DEF S
    <3>2. Cardinality(S) >= 2 /\ Cardinality(S) \in Nat
      BY <3>1, TwoMakeALine, AheadIsFinite
    <3>3. PICK segment \in buildFallbackConnector(S) : \E i \in DOMAIN segment : segment[i] = s
      BY <3>1, <3>2, ChainVisitsAll
    <3>4. segment \in allLineSegments
      BY <3>3 DEF S, fallbackSegment, allLineSegments
    <3>5. QED
      BY <3>3, <3>4
  <2>2. CASE LineOf[s] # NoLine
    <3> DEFINE S == OfLine(valid, LineOf[s])
    <3>1. S \in SUBSET MapStations /\ s \in S /\ t \in S /\ s # t
      BY <1>1, <1>3, <2>2 DEF OfLine
    <3>2. LineOf[s] \in visibleLineNames
      BY <2>2 DEF visibleLineNames
    <3> HIDE DEF S
    <3>3. Cardinality(S) >= 2
      BY <3>1, TwoMakeALine
    <3>4. InOrder(S) \in allLineSegments
      BY <3>2, <3>3 DEF S, buildFullLineSegments, allLineSegments
    <3>5. QED
      BY <3>1, <3>4, LineVisitsAll
  <2>3. QED
    BY <2>1, <2>2
<1>4. QED
  BY <1>2, <1>3 DEF DotsAreOnLines

LEMMA MapStart == MapInit => MapTypeOK
  BY DEF MapInit, MapTypeOK

LEMMA MapStep == MapTypeOK /\ [MapNext]_mapVars => MapTypeOK'
  BY DEF MapTypeOK, MapNext, MasterListArrives, ShowPoints, InCity, mapVars

\* For any stations and coordinates: no two dots are at one place, and north is
\* at the top.
THEOREM DotsHavePlaces == MapSpec => [](MapTypeOK /\ DotsKeepApart)
  BY MapStart, MapStep, MapIsReadable, PTL DEF MapSpec

\* Whatever is filtered: a line visits each of its stations once, by their places
\* in its order, and so does the chain of those without a line, whose steps each
\* leave one station less.  So a dot is on a line, or alone.
THEOREM DotsAreConnected == MapSpec => [](MapTypeOK /\ DotsAreOnLines)
  BY MapStart, MapStep, LinesReachDots, PTL DEF MapSpec

-----------------------------------------------------------------------------
\* ScheduleBoards: the server and its cache, and the panel.
TimetableOK ==
    /\ timetable \in Timetables /\ running \subseteq BoardTrains
    /\ cacheCopy \in AnyRows /\ boardRows \in AnyRows /\ boardTrains \subseteq BoardTrains
    /\ boardFetch \in [st : {"idle", "asked", "computed", "read"}, rows : AnyRows]
BoardViewOK == board \in Boards /\ rowFilter \in {"all"} \cup ScheduleStatus
BoardFlagsOK ==
    /\ linkOn \in BOOLEAN /\ cityChosen \in BOOLEAN /\ boardTimer \in BOOLEAN
    /\ everyTrain \in BOOLEAN

LEMMA BoardTypesSplit == BoardTypeOK <=> TimetableOK /\ BoardViewOK /\ BoardFlagsOK
  BY DEF BoardTypeOK, TimetableOK, BoardViewOK, BoardFlagsOK

LEMMA BoardStart == BoardInit => BoardTypeOK
<1> SUFFICES ASSUME BoardInit PROVE BoardTypeOK
  OBVIOUS
<1>1. TimetableOK
  BY DEF BoardInit, TimetableOK, Timetables, AnyRows, Asking
<1>2. BoardViewOK /\ BoardFlagsOK
  BY DEF BoardInit, BoardViewOK, BoardFlagsOK
<1>3. QED
  BY <1>1, <1>2, BoardTypesSplit

LEMMA TimetableStep == TimetableOK /\ [BoardNext]_boardVars => TimetableOK'
<1> SUFFICES ASSUME TimetableOK, [BoardNext]_boardVars PROVE TimetableOK'
  OBVIOUS
<1> USE DEF TimetableOK, AnyRows, Asking
<1>1. ASSUME NEW s \in Schedules, NEW status \in Outcomes, UpdateSchedule(s, status) \/ HandleDelay(s, status)
      PROVE  TimetableOK'
  <2>1. /\ timetable' = [timetable EXCEPT ![s] = status]
        /\ cacheCopy' \in {cacheCopy, Uncached} /\ boardFetch' \in {boardFetch, Asking}
        /\ UNCHANGED <<running, boardRows, boardTrains>>
    BY <1>1 DEF UpdateSchedule, HandleDelay, Written
  <2>2. timetable' \in Timetables
    BY <2>1 DEF Timetables
  <2>3. QED
    BY <2>1, <2>2
<1>2. CASE \E t \in BoardTrains : TrainActive(t)
  BY <1>2 DEF TrainActive, fetchSide
<1>3. CASE RowsServed
  BY <1>3 DEF RowsServed, serverSide
<1>4. CASE RowsStored \/ RowsArrive \/ TrainsPoll
  BY <1>4 DEF RowsStored, RowsArrive, TrainsPoll, serverSide
<1>5. CASE CacheExpires \/ LinkTurns
  BY <1>5 DEF CacheExpires, LinkTurns, fetchSide
<1>6. CASE DebounceEnds \/ BoardPoll \/ WindowFocused
  BY <1>6 DEF DebounceEnds, BoardPoll, WindowFocused, Ask, serverSide
<1>7. CASE \/ TrackTick \/ StationAlertRaised \/ UNCHANGED boardVars
           \/ \E f \in {"all"} \cup ScheduleStatus :
                 SetDispatchFilter(f) \/ \E every \in BOOLEAN : SetTableFilter(f, every)
  BY <1>7 DEF TrackTick, StationAlertRaised, SetDispatchFilter, SetTableFilter, boardVars,
              serverSide, fetchSide
<1>8. QED
  BY <1>1, <1>2, <1>3, <1>4, <1>5, <1>6, <1>7 DEF BoardNext

LEMMA BoardViewStep == BoardViewOK /\ [BoardNext]_boardVars => BoardViewOK'
<1> SUFFICES ASSUME BoardViewOK, [BoardNext]_boardVars PROVE BoardViewOK'
  OBVIOUS
<1>1. board' = board /\ (rowFilter' = rowFilter \/ rowFilter' \in {"all"} \cup ScheduleStatus)
  BY DEF BoardNext, UpdateSchedule, HandleDelay, Written, TrainActive, RowsServed, RowsStored, RowsArrive,
         TrainsPoll, CacheExpires, LinkTurns, DebounceEnds, BoardPoll, WindowFocused, Ask, TrackTick,
         StationAlertRaised, SetDispatchFilter, SetTableFilter, boardVars, filters
<1>2. QED
  BY <1>1 DEF BoardViewOK

LEMMA BoardFlagsStep == BoardFlagsOK /\ [BoardNext]_boardVars => BoardFlagsOK'
<1> SUFFICES ASSUME BoardFlagsOK, [BoardNext]_boardVars PROVE BoardFlagsOK'
  OBVIOUS
<1>1. /\ cityChosen' = cityChosen
      /\ linkOn' = linkOn \/ linkOn' = ~linkOn
      /\ \/ boardTimer' = boardTimer \/ boardTimer' = FALSE
         \/ \E event \in {"delay_alert", "schedule_update", "train_position", "station_alert"} :
               boardTimer' = (boardTimer \/ (linkOn /\ event \in Refreshing))
      /\ everyTrain' = everyTrain \/ \E every \in BOOLEAN : everyTrain' = every
  BY DEF BoardNext, UpdateSchedule, HandleDelay, Written, TrainActive, RowsServed, RowsStored, RowsArrive,
         TrainsPoll, CacheExpires, LinkTurns, DebounceEnds, BoardPoll, WindowFocused, Ask, TrackTick,
         StationAlertRaised, SetDispatchFilter, SetTableFilter, boardVars, filters, serverSide,
         fetchSide, Told
<1>2. QED
  BY <1>1 DEF BoardFlagsOK

LEMMA BoardStep == BoardTypeOK /\ [BoardNext]_boardVars => BoardTypeOK'
  BY BoardTypesSplit, TimetableStep, BoardViewStep, BoardFlagsStep, PTL

\* The boards keep to their types, for any rows and trains.
THEOREM BoardsKeepToTypes == BoardSpec => []BoardTypeOK
  BY BoardStart, BoardStep, PTL DEF BoardSpec

-----------------------------------------------------------------------------
\* StationRotation.  A turn is taken by a station of the pool: the pool has one
\* at every place.
LEMMA TurnIsInPool ==
    ASSUME NEW m, m \subseteq Sites, Sites # {}, NEW i \in Nat
    PROVE  Turn(m, i) \in Sites
<1>1. /\ Pool(m) \in SUBSET Nat /\ IsFiniteSet(Pool(m)) /\ Pool(m) # {} /\ Pool(m) \subseteq Sites
  BY SitesAreNumbered, FS_Subset DEF Pool
<1>2. Cardinality(Pool(m)) \in Nat \ {0}
  BY <1>1, FS_CardinalityType, FS_EmptySet
<1>3. i % Cardinality(Pool(m)) \in Nat /\ i % Cardinality(Pool(m)) < Cardinality(Pool(m))
  BY <1>2
<1>4. \E s \in Pool(m) : Place(s, Pool(m)) = i % Cardinality(Pool(m))
  BY <1>1, <1>3, EveryPlaceIsTaken
<1>5. QED
  BY <1>1, <1>4 DEF Turn, Place, Below

PicksOK ==
    /\ moving \subseteq Sites /\ monitor \in (SUBSET Sites) \cup {NoMonitor}
    /\ picked \in AnySite /\ autoStation \in AnySite /\ rotation \in 0..(RotationPeriod - 1)
NumbersOK == numbersOf \in AnySite /\ known \subseteq Sites
NumberFlagsOK == asking \in BOOLEAN /\ numbersLoading \in BOOLEAN /\ numbersFailed \in BOOLEAN

LEMMA RotationTypesSplit == RotationTypeOK <=> PicksOK /\ NumbersOK /\ NumberFlagsOK
  BY DEF RotationTypeOK, PicksOK, NumbersOK, NumberFlagsOK

LEMMA RotationStart == RotationInit => RotationTypeOK /\ NumbersAreItsOwn
<1> SUFFICES ASSUME RotationInit PROVE RotationTypeOK /\ NumbersAreItsOwn
  OBVIOUS
<1>1. PicksOK
  BY PeriodFitsPools DEF RotationInit, PicksOK, AnySite
<1>2. NumbersOK
  BY DEF RotationInit, NumbersOK, AnySite
<1>3. NumberFlagsOK
  BY DEF RotationInit, NumberFlagsOK
<1>4. NumbersAreItsOwn
  BY DEF RotationInit, NumbersAreItsOwn, EffectiveStation
<1>5. QED
  BY <1>1, <1>2, <1>3, <1>4, RotationTypesSplit

LEMMA PickNextIsSafe ==
    ASSUME PicksOK, NEW m, m \subseteq Sites, NEW times \in {1, 2}, PickNext(m, times)
    PROVE  /\ autoStation' \in AnySite /\ rotation' \in 0..(RotationPeriod - 1)
           /\ Sites # {} => NumbersFor(autoStation')
<1>1. rotation \in Nat /\ rotation + times - 1 \in Nat /\ RotationPeriod \in Nat \ {0}
  BY PeriodFitsPools DEF PicksOK
<1>2. (rotation + times) % RotationPeriod \in 0..(RotationPeriod - 1)
  BY <1>1
<1>3. CASE Sites = {}
  BY <1>3 DEF PickNext, PicksOK
<1>4. CASE Sites # {}
  BY <1>1, <1>2, <1>4, TurnIsInPool DEF PickNext, AnySite
<1>5. QED
  BY <1>3, <1>4

LEMMA PicksStep == PicksOK /\ [RotationNext]_rotationVars => PicksOK'
<1> SUFFICES ASSUME PicksOK, [RotationNext]_rotationVars PROVE PicksOK'
  OBVIOUS
<1>0. /\ moving \subseteq Sites /\ (monitor # NoMonitor => monitor \subseteq Sites)
      /\ picked \in AnySite /\ NoSite \in AnySite
  BY DEF PicksOK, AnySite
<1>1. CASE MonitorAnswers
  <2>1. autoStation' \in AnySite /\ rotation' \in 0..(RotationPeriod - 1)
    BY <1>0, <1>1, PickNextIsSafe DEF MonitorAnswers, PicksOK
  <2>2. QED
    BY <1>1, <2>1 DEF MonitorAnswers, PicksOK
<1>2. CASE RotationFires
  <2>1. autoStation' \in AnySite /\ rotation' \in 0..(RotationPeriod - 1)
    BY <1>0, <1>2, PickNextIsSafe DEF RotationFires
  <2>2. QED
    BY <1>2, <2>1 DEF RotationFires, PicksOK
<1>3. CASE ResumeAutoRotate
  <2>1. autoStation' \in AnySite /\ rotation' \in 0..(RotationPeriod - 1)
    BY <1>0, <1>3, PickNextIsSafe DEF ResumeAutoRotate, PicksOK
  <2>2. QED
    BY <1>0, <1>3, <2>1 DEF ResumeAutoRotate, PicksOK
<1>4. CASE PassengersMove
  BY <1>4 DEF PassengersMove, pickVars, PicksOK
<1>5. ASSUME NEW s \in Sites, PickOnMap(s) PROVE PicksOK'
  BY <1>5 DEF PickOnMap, PicksOK, AnySite
<1>6. CASE AskNumbers \/ NumbersArrive \/ NumbersFail \/ UNCHANGED rotationVars
  BY <1>6 DEF AskNumbers, NumbersArrive, NumbersFail, rotationVars, pickVars, PicksOK
<1>7. QED
  BY <1>1, <1>2, <1>3, <1>4, <1>5, <1>6 DEF RotationNext

\* Every step either changes the station and its numbers with it, by NumbersFor,
\* or keeps the station.
LEMMA StationSteps ==
    ASSUME PicksOK, [RotationNext]_rotationVars
    PROVE  \/ EffectiveStation' \in AnySite /\ NumbersFor(EffectiveStation')
           \/ EffectiveStation' = EffectiveStation /\ UNCHANGED numberVars
           \/ EffectiveStation' = EffectiveStation /\ (AskNumbers \/ NumbersArrive \/ NumbersFail)
<1>0. /\ moving \subseteq Sites /\ (monitor # NoMonitor => monitor \subseteq Sites)
      /\ NoSite \in AnySite /\ NoSite \notin Sites
  BY SitesAreNumbered DEF PicksOK, AnySite
<1>1. ASSUME NEW m, m \subseteq Sites, NEW times \in {1, 2}, PickNext(m, times), picked' = NoSite,
             picked = NoSite \/ Sites # {}
      PROVE  \/ EffectiveStation' \in AnySite /\ NumbersFor(EffectiveStation')
             \/ EffectiveStation' = EffectiveStation /\ UNCHANGED numberVars
  <2>1. CASE Sites = {}
    BY <1>1, <2>1 DEF PickNext, EffectiveStation
  <2>2. CASE Sites # {}
    BY <1>1, <2>2, PickNextIsSafe DEF EffectiveStation
  <2>3. QED
    BY <2>1, <2>2
<1>2. CASE MonitorAnswers
  <2>1. CASE picked = NoSite /\ autoStation = NoSite
    BY <1>0, <1>1, <1>2, <2>1 DEF MonitorAnswers
  <2>2. CASE ~(picked = NoSite /\ autoStation = NoSite)
    BY <1>2, <2>2 DEF MonitorAnswers, EffectiveStation
  <2>3. QED
    BY <2>1, <2>2
<1>3. CASE RotationFires
  BY <1>0, <1>1, <1>3 DEF RotationFires
<1>4. CASE ResumeAutoRotate
  <2>1. Sites # {} /\ picked' = NoSite
    BY <1>4 DEF ResumeAutoRotate, PicksOK, AnySite
  <2>2. CASE monitor = NoMonitor
    BY <1>4, <2>1, <2>2 DEF ResumeAutoRotate, EffectiveStation, PicksOK
  <2>3. CASE monitor # NoMonitor
    BY <1>0, <1>1, <1>4, <2>1, <2>3 DEF ResumeAutoRotate
  <2>4. QED
    BY <2>2, <2>3
<1>5. ASSUME NEW s \in Sites, PickOnMap(s)
      PROVE  EffectiveStation' \in AnySite /\ NumbersFor(EffectiveStation')
  BY <1>0, <1>5 DEF PickOnMap, EffectiveStation, AnySite
<1>6. CASE PassengersMove \/ UNCHANGED rotationVars
  BY <1>6 DEF PassengersMove, rotationVars, pickVars, EffectiveStation
<1>7. CASE AskNumbers \/ NumbersArrive \/ NumbersFail
  BY <1>7 DEF AskNumbers, NumbersArrive, NumbersFail, pickVars, EffectiveStation
<1>8. QED
  BY <1>2, <1>3, <1>4, <1>5, <1>6, <1>7 DEF RotationNext

LEMMA NumbersStep ==
    ASSUME PicksOK, NumbersOK, [RotationNext]_rotationVars PROVE NumbersOK'
<1>0. EffectiveStation \in AnySite
  BY DEF PicksOK, EffectiveStation
<1>1. \/ EffectiveStation' \in AnySite /\ NumbersFor(EffectiveStation')
      \/ UNCHANGED <<numbersOf, known>> \/ NumbersArrive
  BY StationSteps DEF numberVars, AskNumbers, NumbersFail
<1>2. QED
  BY <1>0, <1>1 DEF NumbersOK, NumbersFor, numberVars, NumbersArrive, AnySite

LEMMA NumberFlagsStep ==
    ASSUME PicksOK, NumberFlagsOK, [RotationNext]_rotationVars PROVE NumberFlagsOK'
<1>1. /\ asking' \in {asking, TRUE, FALSE} /\ numbersLoading' \in {numbersLoading, TRUE, FALSE}
      /\ numbersFailed' \in {numbersFailed, TRUE, FALSE}
  BY StationSteps DEF NumbersFor, numberVars, AskNumbers, NumbersArrive, NumbersFail
<1>2. QED
  BY <1>1 DEF NumberFlagsOK

LEMMA ItsOwnStep ==
    ASSUME PicksOK, NumbersAreItsOwn, [RotationNext]_rotationVars PROVE NumbersAreItsOwn'
<1> USE DEF NumbersAreItsOwn
<1>1. CASE NumbersFor(EffectiveStation')
  BY <1>1 DEF NumbersFor, numberVars
<1>2. CASE EffectiveStation' = EffectiveStation /\ UNCHANGED numberVars
  BY <1>2 DEF numberVars
<1>3. CASE EffectiveStation' = EffectiveStation /\ (AskNumbers \/ NumbersArrive \/ NumbersFail)
  BY <1>3 DEF AskNumbers, NumbersArrive, NumbersFail
<1>4. QED
  BY <1>1, <1>2, <1>3, StationSteps

LEMMA RotationStep ==
    RotationTypeOK /\ NumbersAreItsOwn /\ [RotationNext]_rotationVars
        => RotationTypeOK' /\ NumbersAreItsOwn'
  BY RotationTypesSplit, PicksStep, NumbersStep, NumberFlagsStep, ItsOwnStep, PTL

\* However fast stations are picked and the rotation moves on: numbers that are
\* shown as settled are those of the station named.
THEOREM NumbersStayWithStation == RotationSpec => [](RotationTypeOK /\ NumbersAreItsOwn)
  BY RotationStart, RotationStep, PTL DEF RotationSpec

-----------------------------------------------------------------------------
\* What is known beyond InsightsAreOfCity: a batch is about the city of the
\* panel and keeps it loading, and nothing is shown before stations are known.
InsightInv ==
    /\ InsightTypeOK
    /\ InsightsAreOfCity
    /\ batch.st # "none" => batch.city = insightCity /\ insightsLoading
    /\ batch.st = "recommendations" => batch.about \in {insightCity, stationsOf}

\* The cases where the effect starts nothing are those without stations; then
\* the selected city has none either.
LEMMA RunEffectKeeps ==
    ASSUME InsightInv, NEW city \in InsightCities, NEW stations \in StationLists,
           RunEffect(city, stations)
    PROVE  InsightInv'
<1>1. aborted' \in 0..MaxAborted
  BY AbortedBound DEF RunEffect, InsightInv, InsightTypeOK
<1>2. CASE stations = NoStations
  <2>1. batch' = NoBatch /\ inFlightRef' = FALSE /\ insightCity' = city /\ stationsOf' = stations
        /\ UNCHANGED <<insightsOf, insightsLoading, insightsFailed>>
    BY <1>2 DEF RunEffect
  <2>2. batch'.st = "none" /\ NoBatch \in [st : {"none", "crowd", "recommendations"},
                                         city : StationLists, about : StationLists]
    BY <2>1 DEF NoBatch, StationLists
  <2>3. InsightsAreOfCity'
    BY <1>2, <2>1, <2>2, NoStationsIsNone DEF InsightsAreOfCity, GuardIsTheBatch
  <2>4. InsightTypeOK'
    BY <1>1, <2>1, <2>2 DEF InsightTypeOK, InsightInv
  <2>5. QED
    BY <2>2, <2>3, <2>4 DEF InsightInv
<1>3. CASE stations # NoStations
  BY <1>1, <1>3
     DEF RunEffect, InsightInv, InsightTypeOK, InsightsAreOfCity, GuardIsTheBatch, StationLists
<1>4. QED
  BY <1>2, <1>3

LEMMA InsightStep ==
    ASSUME InsightInv, [InsightNext]_insightVars
    PROVE  InsightInv'
<1>1. ASSUME NEW city \in InsightCities, SelectCity(city)
      PROVE  InsightInv'
  <2>1. PICK stations \in {stationsOf, city} : RunEffect(city, stations)
    BY <1>1 DEF SelectCity
  <2>2. stations \in StationLists
    BY DEF InsightInv, InsightTypeOK, StationLists
  <2>3. QED
    BY <2>1, <2>2, RunEffectKeeps
<1>2. CASE StationsArrive \/ RefreshTick
  <2>1. PICK stations \in StationLists : RunEffect(insightCity, stations)
    BY <1>2 DEF StationsArrive, RefreshTick, InsightInv, InsightTypeOK, StationLists
  <2>2. QED
    BY <2>1, RunEffectKeeps DEF InsightInv, InsightTypeOK
<1>3. CASE CrowdRanked
  <2>1. PICK about \in {batch.city, stationsOf} :
           batch' = [batch EXCEPT !.st = "recommendations", !.about = about]
    BY <1>3 DEF CrowdRanked
  <2>2. batch.city = insightCity /\ insightsLoading
    BY <1>3 DEF CrowdRanked, InsightInv
  <2>3. QED
    BY <1>3, <2>1, <2>2
       DEF CrowdRanked, InsightInv, InsightTypeOK, InsightsAreOfCity, GuardIsTheBatch, StationLists
<1>4. CASE RecommendationsArrive
  BY <1>4 DEF RecommendationsArrive, Settled, NoBatch, InsightInv, InsightTypeOK, InsightsAreOfCity,
              GuardIsTheBatch, StationLists
<1>5. CASE BatchFails
  BY <1>5 DEF BatchFails, Settled, NoBatch, InsightInv, InsightTypeOK, InsightsAreOfCity,
              GuardIsTheBatch, StationLists
<1>6. CASE AbortedSettles
  <2>1. aborted' \in 0..MaxAborted
    BY <1>6, AbortedBound DEF AbortedSettles, InsightInv, InsightTypeOK
  <2>2. QED
    BY <1>6, <2>1 DEF AbortedSettles, InsightInv, InsightTypeOK, InsightsAreOfCity, GuardIsTheBatch
<1>7. CASE UNCHANGED insightVars
  BY <1>7 DEF insightVars, InsightInv, InsightTypeOK, InsightsAreOfCity, GuardIsTheBatch
<1>8. QED
  BY <1>1, <1>2, <1>3, <1>4, <1>5, <1>6, <1>7 DEF InsightNext

LEMMA InsightStart == InsightInit => InsightInv
<1> SUFFICES ASSUME InsightInit PROVE InsightInv
  OBVIOUS
<1>1. batch.st = "none" /\ batch \in [st : {"none", "crowd", "recommendations"},
                                     city : StationLists, about : StationLists]
  BY DEF InsightInit, NoBatch, StationLists
<1>2. InsightsAreOfCity
  BY <1>1 DEF InsightInit, InsightsAreOfCity, GuardIsTheBatch
<1>3. InsightTypeOK
  <2>1. insightCity \in InsightCities /\ stationsOf \in StationLists /\ insightsOf \in StationLists
    BY DEF InsightInit, StationLists
  <2>2. aborted \in 0..MaxAborted
    BY AbortedBound DEF InsightInit
  <2>3. inFlightRef \in BOOLEAN /\ insightsLoading \in BOOLEAN /\ insightsFailed \in BOOLEAN
    BY DEF InsightInit
  <2>4. QED
    BY <1>1, <2>1, <2>2, <2>3 DEF InsightTypeOK
<1>4. QED
  BY <1>1, <1>2, <1>3 DEF InsightInv

LEMMA InsightHolds == InsightInv => InsightTypeOK /\ InsightsAreOfCity
  BY DEF InsightInv

\* Recommendations that stand with neither a spinner nor a failure are about
\* the selected city, and the timer is held up by the live batch only.
THEOREM InsightsStayInCity == InsightSpec => [](InsightTypeOK /\ InsightsAreOfCity)
  BY InsightStart, InsightStep, InsightHolds, PTL DEF InsightSpec
=============================================================================
