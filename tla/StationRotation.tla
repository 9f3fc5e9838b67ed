---------------------------- MODULE StationRotation ----------------------------
(***************************************************************************)
(* StationAnalyticsPanel: the numbers of one station.  The station is the  *)
(* one picked on the map or, with none picked, one of a rotation that      *)
(* moves on every minute and prefers the stations where passengers move.   *)
(* The numbers come through useApiData, with a key per station: what was   *)
(* fetched for a station before is shown at once, otherwise those of the   *)
(* station before stay until an answer comes.                              *)
(***************************************************************************)
EXTENDS Integers, FiniteSets

CONSTANTS
    Sites, NoSite,
    RotationPeriod      \* the rotation counts to this, then from 0 again

ASSUME SitesAreNumbered == Sites \subseteq Nat /\ IsFiniteSet(Sites) /\ NoSite \notin Sites
ASSUME PeriodFitsPools ==
    RotationPeriod \in Nat \ {0} /\ \A k \in 1..Cardinality(Sites) : RotationPeriod % k = 0

VARIABLES
    moving,                 \* the stations where passengers move
    monitor,                \* the panel's copy of that, if it has one
    picked, autoStation, rotation,
    numbersOf, known, asking, numbersLoading, numbersFailed

pickVars == <<picked, autoStation, rotation>>
numberVars == <<numbersOf, known, asking, numbersLoading, numbersFailed>>
rotationVars == <<moving, monitor, pickVars, numberVars>>

AnySite == Sites \cup {NoSite}
NoMonitor == {NoSite}
EffectiveStation == IF picked # NoSite THEN picked ELSE autoStation

RotationTypeOK ==
    /\ moving \subseteq Sites /\ monitor \in (SUBSET Sites) \cup {NoMonitor}
    /\ picked \in AnySite /\ autoStation \in AnySite /\ rotation \in 0..(RotationPeriod - 1)
    /\ numbersOf \in AnySite /\ known \subseteq Sites
    /\ asking \in BOOLEAN /\ numbersLoading \in BOOLEAN /\ numbersFailed \in BOOLEAN

RotationInit ==
    /\ moving \in SUBSET Sites /\ monitor = NoMonitor
    /\ picked \in AnySite /\ autoStation = NoSite /\ rotation = 0
    /\ numbersOf = NoSite /\ known = {}
    /\ asking = (picked # NoSite) /\ numbersLoading = asking /\ numbersFailed = FALSE

-----------------------------------------------------------------------------
\* The key of the numbers changes with the station.
NumbersFor(s) ==
    IF s = EffectiveStation THEN UNCHANGED numberVars
    ELSE /\ asking' = TRUE /\ UNCHANGED known
         /\ IF s \in known
            THEN numbersOf' = s /\ numbersLoading' = FALSE /\ numbersFailed' = FALSE
            ELSE numbersLoading' = TRUE /\ UNCHANGED <<numbersOf, numbersFailed>>

\* pickNextAutoStation: the list without stations changes nothing; of others
\* the i-th, counted from 0 and round again.
Pool(m) == IF m # {} THEN m ELSE Sites
Turn(m, i) ==
    CHOOSE s \in Pool(m) : Cardinality({t \in Pool(m) : t < s}) = i % Cardinality(Pool(m))

\* Mutant of PickNext: the counter stays where it is.
PickNextStuck(m, times) ==
    IF Sites = {} THEN UNCHANGED <<autoStation, rotation, numberVars>>
    ELSE /\ autoStation' = Turn(m, rotation + times - 1)
         /\ UNCHANGED rotation
         /\ NumbersFor(autoStation')

PickNext(m, times) ==
    IF Sites = {} THEN UNCHANGED <<autoStation, rotation, numberVars>>
    ELSE /\ autoStation' = Turn(m, rotation + times - 1)
         /\ rotation' = (rotation + times) % RotationPeriod
         /\ NumbersFor(autoStation')

PassengersMove ==
    /\ moving' \in (SUBSET Sites) \ {moving}
    /\ UNCHANGED <<monitor, pickVars, numberVars>>

\* The list arrives: on mounting, and every minute while the panel rotates.  A
\* panel that has no station yet takes one.
MonitorAnswers ==
    /\ picked = NoSite \/ monitor = NoMonitor
    /\ monitor' = moving
    /\ IF picked = NoSite /\ autoStation = NoSite
       THEN PickNext(moving, 1)
       ELSE UNCHANGED <<autoStation, rotation, numberVars>>
    /\ UNCHANGED <<moving, picked>>

RotationFires ==
    /\ picked = NoSite /\ monitor # NoMonitor
    /\ PickNext(monitor, 1)
    /\ UNCHANGED <<moving, monitor, picked>>

PickOnMap(s) ==
    /\ picked' = s /\ NumbersFor(s)
    /\ UNCHANGED <<moving, monitor, autoStation, rotation>>

\* onResumeAutoRotate: the rotation starts with a turn at once.  Without a
\* station yet, both effects take one, and the first of them is passed over.
ResumeAutoRotate ==
    /\ picked # NoSite /\ picked' = NoSite
    /\ IF monitor = NoMonitor THEN UNCHANGED <<autoStation, rotation>> /\ NumbersFor(autoStation)
       ELSE PickNext(monitor, IF autoStation = NoSite THEN 2 ELSE 1)
    /\ UNCHANGED <<moving, monitor>>

-----------------------------------------------------------------------------
\* A crowd_update for the station, or a poll while the socket is down.
AskNumbers ==
    /\ EffectiveStation # NoSite /\ ~asking /\ asking' = TRUE
    /\ UNCHANGED <<moving, monitor, pickVars, numbersOf, known, numbersLoading, numbersFailed>>

NumbersArrive ==
    /\ asking /\ asking' = FALSE
    /\ numbersOf' = EffectiveStation /\ known' = known \cup ({EffectiveStation} \ {NoSite})
    /\ numbersLoading' = FALSE /\ numbersFailed' = FALSE
    /\ UNCHANGED <<moving, monitor, pickVars>>

\* The panel does not look at the error.
NumbersFail ==
    /\ asking /\ EffectiveStation # NoSite /\ asking' = FALSE
    /\ numbersLoading' = FALSE /\ numbersFailed' = TRUE
    /\ UNCHANGED <<moving, monitor, pickVars, numbersOf, known>>

RotationNext ==
    \/ PassengersMove \/ MonitorAnswers \/ RotationFires \/ ResumeAutoRotate
    \/ \E s \in Sites : PickOnMap(s)
    \/ AskNumbers \/ NumbersArrive \/ NumbersFail

\* The interval fires and the list keeps arriving.
RotationFairness == WF_rotationVars(MonitorAnswers) /\ WF_rotationVars(RotationFires)

RotationSpec == RotationInit /\ [][RotationNext]_rotationVars /\ RotationFairness

-----------------------------------------------------------------------------
\* A panel that is left alone shows each station where passengers move again
\* and again, although the stations come and go in the list by which it counts.
RotationReachesAll ==
    <>[](picked = NoSite /\ moving # {}) /\ <>[][UNCHANGED moving]_rotationVars
        => \A s \in Sites : []<>(s \in moving => EffectiveStation = s)

\* Numbers that are shown without an error are those of the station named,
\* however fast stations are picked and the rotation moves on.
NumbersAreItsOwn ==
    ~numbersLoading /\ ~numbersFailed => numbersOf = EffectiveStation
=============================================================================
