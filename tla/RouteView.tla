------------------------------ MODULE RouteView ------------------------------
(***************************************************************************)
(* What LiveTrainMap and CrowdHeatMap derive from a train's route: when it *)
(* will be at the focused station and how many stations that is away       *)
(* (lib/eta.ts), and which stations of the line are drawn around the       *)
(* focused one (useStationRoute).  The train itself is moved by the        *)
(* backend's tracker (train_simulator.py), tick by tick, to and fro.       *)
(*                                                                         *)
(* A delay of 10(f-1) minutes slows a train by the factor f = slowness, so *)
(* that no number is rounded.  Stations are numbered along the line; a     *)
(* route stops nowhere twice (train_tracking.py drops what it has seen).   *)
(***************************************************************************)
EXTENDS Integers, Sequences, FiniteSetsExt

CONSTANTS
    LineLen, RouteStops,        \* the line; the stops of the train on it
    SegmentSeconds,             \* of the way from each stop to the next
    TickSeconds, MaxSlowness,
    StationsBefore, StationsAfter

n == Len(RouteStops)

ASSUME RouteIsOnLine ==
    /\ LineLen \in Nat /\ RouteStops \in Seq(1..LineLen) /\ n >= 2
    /\ \A i, j \in 1..n : RouteStops[i] = RouteStops[j] => i = j
    /\ SegmentSeconds \in [1..(n - 1) -> Nat \ {0}]
    /\ TickSeconds \in Nat /\ MaxSlowness \in Nat
    /\ \A f \in 1..MaxSlowness : TickSeconds % f = 0
    /\ StationsBefore \in Nat /\ StationsAfter \in Nat

VARIABLES
    trainIndex, heading, covered,   \* stop, direction, way made in the segment
    slowness,
    aim, onLine, drawRunningOnly    \* focused station, live location, the toggle

trackedVars == <<trainIndex, heading, covered, slowness>>
routeVars == <<trackedVars, aim, onLine, drawRunningOnly>>

NoAim == 0
Clamped(i) == IF i < 1 THEN 1 ELSE IF i > n THEN n ELSE i
NextStop == Clamped(trainIndex + heading)

\* The segment that starts at stop i in direction d.
SegmentFrom(i, d) ==
    LET raw == IF d = 1 THEN i ELSE i - 1 IN
    SegmentSeconds[IF raw < 1 THEN 1 ELSE IF raw > n - 1 THEN n - 1 ELSE raw]

RouteInit ==
    /\ trainIndex = 1 /\ heading = 1 /\ covered = 0
    /\ slowness \in 1..MaxSlowness
    /\ aim = NoAim /\ onLine = FALSE /\ drawRunningOnly = TRUE

-----------------------------------------------------------------------------
\* _track_tick_sync: a train that is through with its segment is at the next
\* stop, with nothing of the next segment covered, and turns at the ends.
TrainTicks ==
    LET way == covered + TickSeconds \div slowness
        i == trainIndex + heading IN
    /\ IF way >= SegmentFrom(trainIndex, heading)
       THEN /\ covered' = 0 /\ trainIndex' = Clamped(i)
            /\ heading' = IF i >= n THEN -1 ELSE IF i <= 1 THEN 1 ELSE heading
       ELSE covered' = way /\ UNCHANGED <<trainIndex, heading>>
    /\ UNCHANGED <<slowness, aim, onLine, drawRunningOnly>>

\* The tracker keeps the stop and the share of the segment in the table, the
\* direction in memory.
TrackerRestarts ==
    /\ heading' = 1
    /\ covered' = (covered * SegmentFrom(trainIndex, 1)) \div SegmentFrom(trainIndex, heading)
    /\ UNCHANGED <<trainIndex, slowness, aim, onLine, drawRunningOnly>>

DelayChanges ==
    /\ slowness' \in (1..MaxSlowness) \ {slowness}
    /\ UNCHANGED <<trainIndex, heading, covered, aim, onLine, drawRunningOnly>>

-----------------------------------------------------------------------------
\* The direction the map goes by: that of the two stops, if they differ.
derivedDirection ==
    IF NextStop # trainIndex THEN (IF NextStop > trainIndex THEN 1 ELSE -1) ELSE heading

\* One stop further along the route, which turns at its ends, and the seconds of
\* the way: secs counts them from the start of the walk.
Heads(p, d) == IF p = n THEN -1 ELSE IF p = 1 THEN 1 ELSE d
Legs == [pos : 1..n, dir : {1, -1}, secs : Nat]
OneStop == [leg \in Legs |->
    LET d == Heads(leg.pos, leg.dir) IN
    [pos |-> Clamped(leg.pos + d), dir |-> d, secs |-> leg.secs + SegmentFrom(leg.pos, d)]]
Walk(p, d) ==
    LET w[k \in 0..(2 * n)] ==
            IF k = 0 THEN [pos |-> p, dir |-> d, secs |-> 0] ELSE OneStop[w[k - 1]]
    IN  w
Hits(w, K, target) == {k \in K : RouteStops[w[k].pos] = target}

Unknown == -1
OnRoute(target) == \E i \in 1..n : RouteStops[i] = target

\* What a way of some seconds takes with the factor of a delay (speedFactorFor).
Slowed(seconds, f) == seconds * f

\* left is what remains of the segment, f the factor of the delay.
etaToStationSeconds(here, next, d, left, f, target) ==
    LET w == Walk(next, d)
        hits == Hits(w, 0..(2 * n), target) IN
    IF ~OnRoute(target) THEN Unknown
    ELSE IF RouteStops[here] = target THEN 0
    ELSE IF hits = {} THEN Unknown ELSE left + Slowed(w[Min(hits)].secs, f)

stationsAwayToStation(here, d, target) ==
    LET hits == Hits(Walk(here, d), 1..(2 * n), target) IN
    IF ~OnRoute(target) THEN Unknown
    ELSE IF RouteStops[here] = target THEN 0
    ELSE IF hits = {} THEN Unknown ELSE Min(hits)

\* Mutant of Remaining: the delay is left out of the rest of the segment.
RemainingAtFullSpeed == SegmentFrom(trainIndex, heading) - covered

\* eta_seconds, as the tracker sends it.
Remaining == Slowed(SegmentFrom(trainIndex, heading) - covered, slowness)

\* What a marker says of the focused station.
etaToFocused(s) ==
    etaToStationSeconds(trainIndex, NextStop, derivedDirection, Remaining, slowness, s)
stationsAway(s) == stationsAwayToStation(trainIndex, derivedDirection, s)

-----------------------------------------------------------------------------
\* Focus: a station of the line.  Only a focused station has a live location.
FocusOn(s) ==
    /\ aim' = s /\ onLine' = (onLine /\ s # NoAim)
    /\ UNCHANGED <<trackedVars, drawRunningOnly>>

ToggleLine ==
    /\ aim # NoAim /\ onLine' = ~onLine
    /\ UNCHANGED <<trackedVars, aim, drawRunningOnly>>

ToggleRunning ==
    /\ ~onLine /\ drawRunningOnly' = ~drawRunningOnly
    /\ UNCHANGED <<trackedVars, aim, onLine>>

\* Mutant of routeStations: the window is cut at the start of the line.
routeStationsCut ==
    (Max({1, aim - StationsBefore}))..(Min({LineLen, aim + StationsAfter}))

\* routeStations, positions first..last-1 of the line: a window around the
\* focused station that is moved, not cut, at the ends of the line.
routeStations ==
    LET start == (aim - 1) - StationsBefore
        end == (aim - 1) + StationsAfter + 1
        start1 == IF start < 0 THEN 0 ELSE start
        end1 == IF start < 0 THEN Min({LineLen, end - start}) ELSE end
        start2 == IF end1 > LineLen THEN Max({0, start1 - (end1 - LineLen)}) ELSE start1
        end2 == IF end1 > LineLen THEN LineLen ELSE end1
        end3 == Min({end2, start2 + StationsBefore + StationsAfter + 1, LineLen}) IN
    (start2 + 1)..end3

runningStationIds == {RouteStops[i] : i \in 1..n}

stationsForMap ==
    IF onLine THEN routeStations
    ELSE IF drawRunningOnly THEN runningStationIds ELSE 1..LineLen

\* allTrainMarkers: with a live location, only the trains at or next to a
\* station that is drawn.
markerShown ==
    onLine => {RouteStops[trainIndex], RouteStops[NextStop]} \cap routeStations # {}

RouteNext ==
    \/ TrainTicks \/ TrackerRestarts \/ DelayChanges
    \/ \E s \in 0..LineLen : FocusOn(s)
    \/ ToggleLine \/ ToggleRunning

RouteSpec == RouteInit /\ [][RouteNext]_routeVars

-----------------------------------------------------------------------------
\* As long as its delay stays the same, a train that is told to be x seconds and
\* y stations away takes x seconds and y stations: at each tick the estimate
\* falls by the time of the tick, or by what was left of the segment, and the
\* stations by the one it reached, also where it turns or was turned round.
EtaCountsDown ==
    [][\A s \in 1..LineLen :
         (TrainTicks /\ etaToFocused(s) > 0) =>
             /\ etaToFocused(s)' = etaToFocused(s) - Min({TickSeconds, Remaining})
             /\ stationsAway(s)' =
                  stationsAway(s) - (IF trainIndex' = trainIndex THEN 0 ELSE 1)]_routeVars

\* The live location draws the focused station and as many others as the window
\* holds, or the whole line, also at its ends; and without it a train has both
\* its stations on the map.
WindowHoldsFocus ==
    /\ onLine => aim \in routeStations
                 /\ Cardinality(routeStations) = Min({LineLen, StationsBefore + StationsAfter + 1})
    /\ ~onLine => {RouteStops[trainIndex], RouteStops[NextStop]} \subseteq stationsForMap
=============================================================================
