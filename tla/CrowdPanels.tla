----------------------------- MODULE CrowdPanels -----------------------------
(***************************************************************************)
(* The panels that show how many people are at each station:               *)
(* LiveStationsPanel, CrowdHeatMap, CrowdDensityGradientMap and MetroMap.  *)
(* Each lays what crowd_update told it over what it fetched, and what was  *)
(* told wins.                                                              *)
(*                                                                         *)
(* One panel is mounted.  crowdNow is what the server knows: a check-in or *)
(* check-out pushes the station it changes, the simulator pushes all of    *)
(* them at each tick; what is pushed while the socket is down is lost.     *)
(* Stations are 1..Stops, and so lie on a line.                            *)
(***************************************************************************)
EXTENDS Integers, FiniteSets, SequencesExt

CONSTANTS
    Stops,          \* number of stations
    NameOf,         \* their names: an interchange is there once per line
    MaxCount,       \* bound: people at a station
    NearbyCount     \* stations around the focused one that are shown

ASSUME CrowdBounds == Stops \in Nat \ {0} /\ MaxCount \in Nat /\ NearbyCount \in Nat \ {0}

VARIABLES
    crowdNow, socketOn, push,
    panel, crowdData, crowdFetch, crowdLive,
    crowdedOnly, nearStation

worldVars == <<crowdNow, socketOn>>
fetchedVars == <<crowdData, crowdFetch>>
viewVars == <<panel, crowdedOnly, nearStation>>
crowdVars == <<worldVars, push, fetchedVars, crowdLive, viewVars>>

Stop == 1..Stops
Panels == {"stations", "heatmap", "density", "network"}
Counts == [Stop -> 0..MaxCount]
NoCount == -1
Nothing == [s \in Stop |-> NoCount]     \* no data yet, no push under way
Partly == [Stop -> {NoCount} \cup 0..MaxCount]

CrowdTypeOK ==
    /\ crowdNow \in Counts /\ socketOn \in BOOLEAN
    /\ push \in Partly
    /\ panel \in Panels
    /\ crowdData \in Counts \cup {Nothing}
    /\ crowdFetch \in [st : {"idle", "asked", "read"}, counts : Counts \cup {Nothing}]
    /\ crowdLive \in Partly
    /\ crowdedOnly \in BOOLEAN /\ nearStation \in 0..Stops

CrowdInit ==
    /\ crowdNow = [s \in Stop |-> 0] /\ socketOn = TRUE
    /\ push = Nothing
    /\ panel \in Panels
    /\ crowdData = Nothing /\ crowdFetch = [st |-> "asked", counts |-> Nothing]
    /\ crowdLive = Nothing
    /\ crowdedOnly = FALSE /\ nearStation = 0

-----------------------------------------------------------------------------
\* The server and the socket.
PeopleMove(s) ==
    /\ \E n \in 0..MaxCount \ {crowdNow[s]} :
         /\ crowdNow' = [crowdNow EXCEPT ![s] = n]
         /\ push' = IF socketOn THEN [push EXCEPT ![s] = n] ELSE push
    /\ UNCHANGED <<socketOn, fetchedVars, crowdLive, viewVars>>

Tick ==
    /\ socketOn
    /\ push' = crowdNow
    /\ UNCHANGED <<worldVars, fetchedVars, crowdLive, viewVars>>

AskCrowd == crowdFetch' = [st |-> "asked", counts |-> Nothing]

SocketDrops ==
    /\ socketOn /\ socketOn' = FALSE /\ push' = Nothing
    /\ UNCHANGED <<crowdNow, fetchedVars, crowdLive, viewVars>>

\* The resync of LiveSocketProvider makes every hook fetch again.
SocketReturns ==
    /\ ~socketOn /\ socketOn' = TRUE
    /\ AskCrowd
    /\ UNCHANGED <<crowdNow, push, crowdData, crowdLive, viewVars>>

-----------------------------------------------------------------------------
\* LiveStationsPanel polls always, the maps while the socket is down.
CrowdPoll ==
    /\ crowdFetch.st = "idle" /\ (panel = "stations" \/ ~socketOn)
    /\ AskCrowd
    /\ UNCHANGED <<worldVars, push, crowdData, crowdLive, viewVars>>

CrowdRead ==
    /\ crowdFetch.st = "asked"
    /\ crowdFetch' = [st |-> "read", counts |-> crowdNow]
    /\ UNCHANGED <<worldVars, push, crowdData, crowdLive, viewVars>>

\* LiveStationsPanel also drops live entries of stations that are not in the
\* answer; here every station is in every answer.
CrowdDone ==
    /\ crowdFetch.st = "read"
    /\ crowdData' = crowdFetch.counts
    /\ crowdFetch' = [st |-> "idle", counts |-> Nothing]
    /\ UNCHANGED <<worldVars, push, crowdLive, viewVars>>

CrowdUpdate ==
    /\ push # Nothing
    /\ crowdLive' = [s \in Stop |-> IF push[s] # NoCount THEN push[s] ELSE crowdLive[s]]
    /\ push' = Nothing
    /\ UNCHANGED <<worldVars, fetchedVars, viewVars>>

\* Mutant of CountOf: the fetched count wins.
CountOfFetched(s) == IF crowdData[s] # NoCount THEN crowdData[s] ELSE crowdLive[s]

\* count / merged / points: the live entry of a station, or the fetched one.
\* Only stations of the answer are shown.
CountOf(s) == IF crowdLive[s] # NoCount THEN crowdLive[s] ELSE crowdData[s]
withLive == IF crowdData = Nothing THEN {} ELSE Stop

\* MetroMap shows the stations themselves, and zero where nothing is known.
ShownCount(s) == IF panel = "network" /\ CountOf(s) = NoCount THEN 0 ELSE CountOf(s)

-----------------------------------------------------------------------------
\* The maps.  "Crowded stations" keeps those that are not empty; the density map
\* always does.
crowded(S) == {s \in S : CountOf(s) > 0}
merged == IF panel = "density" \/ crowdedOnly THEN crowded(withLive) ELSE withLive

crowdedStationsList == crowded(merged)

Distance(s, t) == IF s < t THEN t - s ELSE s - t
Closer(s, t) ==
    LET a == Distance(s, nearStation) b == Distance(t, nearStation) IN a < b \/ (a = b /\ s < t)

\* nearby: the closest ones.  The density map drops the empty ones before it
\* counts, as merged does.
nearby ==
    IF nearStation = 0 THEN merged
    ELSE {s \in merged : Cardinality({t \in merged : Closer(t, s)}) < NearbyCount}

\* dedupeByStationName: one row for each name, the busiest.
Busier(s, t) == CountOf(s) > CountOf(t) \/ (CountOf(s) = CountOf(t) /\ s < t)
dedupeByStationName(S) ==
    {s \in S : \A t \in S : t # s /\ NameOf[t] = NameOf[s] => Busier(s, t)}
positioned == dedupeByStationName(nearby)

\* The filter's buttons are disabled while a station is focused, the filter
\* stays what it was.
SetCrowdedOnly(b) ==
    /\ panel = "heatmap" /\ nearStation = 0
    /\ crowdedOnly' = b
    /\ UNCHANGED <<worldVars, push, fetchedVars, crowdLive, panel, nearStation>>

FocusStation(s) ==
    /\ panel \in {"heatmap", "density"} /\ s # nearStation
    /\ nearStation' = s
    /\ UNCHANGED <<worldVars, push, fetchedVars, crowdLive, panel, crowdedOnly>>

\* A click on a dot of MetroMap opens the details of its station.
PickDot(s) ==
    /\ panel = "network" /\ s # nearStation
    /\ nearStation' = s
    /\ UNCHANGED <<worldVars, push, fetchedVars, crowdLive, panel, crowdedOnly>>

CrowdNext ==
    \/ \E s \in Stop : PeopleMove(s)
    \/ Tick \/ SocketDrops \/ SocketReturns
    \/ CrowdPoll \/ CrowdRead \/ CrowdDone \/ CrowdUpdate
    \/ \E b \in BOOLEAN : SetCrowdedOnly(b)
    \/ \E s \in 0..Stops : FocusStation(s)
    \/ \E s \in Stop : PickDot(s)

\* Pushes and answers arrive, the panel polls.  The simulator may be off.
CrowdFairness ==
    /\ WF_crowdVars(CrowdUpdate)
    /\ WF_crowdVars(CrowdPoll) /\ WF_crowdVars(CrowdRead) /\ SF_crowdVars(CrowdDone)

CrowdSpec == CrowdInit /\ [][CrowdNext]_crowdVars /\ CrowdFairness

-----------------------------------------------------------------------------
\* While the simulator runs and the socket is up, each panel comes to show what
\* is there, although the maps do not poll and pushes were lost before.
CountsCatchUp ==
    WF_crowdVars(Tick) /\ <>[]socketOn /\ <>[][UNCHANGED crowdNow]_crowdVars
        => <>[](\A s \in Stop : ShownCount(s) = crowdNow[s])

\* The list beside the heat map is complete whatever filter the map has.
CrowdedListIsComplete == crowdedStationsList = crowded(withLive)

\* No name is on the map twice, whatever is near, filtered or pushed; and the
\* busiest station of a name that may be shown is.
OneDotPerName ==
    /\ \A s, t \in positioned : NameOf[s] = NameOf[t] => s = t
    /\ \A s \in nearby : \E t \in positioned : NameOf[t] = NameOf[s] /\ CountOf(t) >= CountOf(s)
=============================================================================
