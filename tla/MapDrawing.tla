----------------------------- MODULE MapDrawing ------------------------------
(***************************************************************************)
(* How LiveTrainMap, CrowdHeatMap and CrowdDensityGradientMap place their  *)
(* dots and draw the lines through them (lib/mapProjection.ts,             *)
(* lib/mapLines.ts).  The stations of the city and what the map shows of   *)
(* them, whatever filter is on, are fetched apart: after a change of city  *)
(* one may be of the city before.                                          *)
(*                                                                         *)
(* A place is a pair of ranks, the unit of which is SPAN / (stations - 1)  *)
(* on the map.  Up to 50 stations, two ranks are further apart than        *)
(* MIN_GAP, so that declutter moves nothing: that bounds MapStations.      *)
(***************************************************************************)
EXTENDS Integers, FiniteSets, Functions

CONSTANTS
    MapStations,            \* stations, numbered in the order of the list
    LatOf, LngOf,           \* zero and zero where they are not known
    LineOf, NoLine, OrderOf,
    MapCityOf               \* the city of each station

ASSUME FewStations ==
    /\ MapStations \in SUBSET Nat /\ IsFiniteSet(MapStations) /\ Cardinality(MapStations) <= 50
    /\ LatOf \in [MapStations -> Int] /\ LngOf \in [MapStations -> Int]
    /\ OrderOf \in [MapStations -> Int]

VARIABLES
    masterList,     \* useStations; nothing until they arrive
    points          \* what the map shows, filtered and without double names

mapVars == <<masterList, points>>

InCity(c) == {s \in MapStations : MapCityOf[s] = c}
MapCities == {MapCityOf[s] : s \in MapStations}

MapTypeOK == masterList \subseteq MapStations /\ points \subseteq MapStations

MapInit == masterList = {} /\ points = {}

MasterListArrives(c) ==
    masterList' = InCity(c) /\ UNCHANGED points

\* Counts, trains, filters and the focus change what is shown.
ShowPoints(c) ==
    /\ points' \in SUBSET InCity(c)
    /\ UNCHANGED masterList

-----------------------------------------------------------------------------
\* projectPoints: by rank along each axis, not by distance, north at the top.
\* A station without coordinates has no place.
valid == {s \in masterList : ~(LatOf[s] = 0 /\ LngOf[s] = 0)}
Rank(s, key) ==
    Cardinality({t \in valid : key[t] < key[s] \/ (key[t] = key[s] /\ t < s)})
projectPoints ==
    [s \in valid |-> [x |-> Rank(s, LngOf), y |-> Cardinality(valid) - 1 - Rank(s, LatOf)]]

\* applyStationProjection: what has no place in the list is not drawn.
drawn == points \cap valid

visibleLineNames == {LineOf[s] : s \in drawn} \ {NoLine}

\* Along a line: by station_order, those of one order as the list has them.
Earlier(s, t) == OrderOf[s] < OrderOf[t] \/ (OrderOf[s] = OrderOf[t] /\ s < t)
OfLine(S, line) == {s \in S : LineOf[s] = line}
InOrder(S) ==
    [i \in 1..Cardinality(S) |-> CHOOSE s \in S : Cardinality({t \in S : Earlier(t, s)}) = i - 1]

\* Mutant of buildFullLineSegments: a line is drawn through what is shown of it.
buildVisibleLineSegments ==
    {InOrder(OfLine(drawn, line)) :
        line \in {l \in visibleLineNames : Cardinality(OfLine(drawn, l)) >= 2}}

\* A line is drawn through all of its stations, the hidden ones too.
buildFullLineSegments ==
    {InOrder(OfLine(valid, line)) :
        line \in {l \in visibleLineNames : Cardinality(OfLine(valid, l)) >= 2}}

\* Stations without a line are chained from the first of the list on, each to the
\* nearest that is left.
SquaredDistance(s, t) ==
    LET a == projectPoints[s] b == projectPoints[t]
    IN  (a.x - b.x) * (a.x - b.x) + (a.y - b.y) * (a.y - b.y)
Nearest(s, S) ==
    CHOOSE t \in S : \A u \in S \ {t} :
        SquaredDistance(s, t) < SquaredDistance(s, u)
        \/ (SquaredDistance(s, t) = SquaredDistance(s, u) /\ t < u)
Chaining == [at : MapStations, left : SUBSET MapStations]
ChainOn == [c \in Chaining |->
    LET next == Nearest(c.at, c.left) IN [at |-> next, left |-> c.left \ {next}]]
Chain(S, first) ==
    LET c[k \in 0..(Cardinality(S) - 1)] ==
            IF k = 0 THEN [at |-> first, left |-> S \ {first}] ELSE ChainOn[c[k - 1]]
    IN  c
buildFallbackConnector(S) ==
    LET first == CHOOSE s \in S : \A t \in S : s <= t
    IN  IF Cardinality(S) < 2 THEN {}
        ELSE {[i \in 1..Cardinality(S) |-> Chain(S, first)[i - 1].at]}

fallbackSegment == buildFallbackConnector(OfLine(drawn, NoLine))
allLineSegments == buildFullLineSegments \cup fallbackSegment

-----------------------------------------------------------------------------
MapNext == \E c \in MapCities : MasterListArrives(c) \/ ShowPoints(c)

MapSpec == MapInit /\ [][MapNext]_mapVars

-----------------------------------------------------------------------------
\* Whatever is filtered, no two dots are at the same place, although stations may
\* share a latitude or a longitude, and a station further north is higher.
DotsKeepApart ==
    \A s, t \in drawn :
         /\ s # t => projectPoints[s] # projectPoints[t]
         /\ LatOf[s] < LatOf[t] => projectPoints[s].y > projectPoints[t].y

\* Whatever is filtered, each dot is on a line that visits nobody twice --
\* unless there is nothing to connect it with: no other station of its line has
\* a place, or no other station without a line is drawn.
DotsAreOnLines ==
    /\ \A segment \in allLineSegments : IsInjective(segment)
    /\ \A s \in drawn :
         \/ \E segment \in allLineSegments : \E i \in DOMAIN segment : segment[i] = s
         \/ \A t \in (IF LineOf[s] = NoLine THEN drawn ELSE valid) \ {s} : LineOf[t] # LineOf[s]
=============================================================================
