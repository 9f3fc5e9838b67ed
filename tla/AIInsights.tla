------------------------------ MODULE AIInsights ------------------------------
(***************************************************************************)
(* AIInsights: recommendations for the busiest stations of the selected    *)
(* city.  An effect starts a batch of two calls whenever the city, the     *)
(* list of stations or the tick of a timer changes, and aborts the batch   *)
(* before; the timer skips its turn while a batch is under way.            *)
(*                                                                         *)
(* A list of stations, and what is recommended, is the city it is of.      *)
(***************************************************************************)
EXTENDS Naturals

CONSTANTS
    InsightCities, NoStations,
    MaxAborted              \* bound: aborted batches that have yet to settle

ASSUME NoStationsIsNone == NoStations \notin InsightCities
ASSUME AbortedBound == MaxAborted \in Nat

VARIABLES
    insightCity, stationsOf,            \* useSelectedState, useStations
    batch, aborted, inFlightRef,
    insightsOf, insightsLoading,
    insightsFailed      \* history: the last batch failed; the panel keeps no error

insightVars == <<insightCity, stationsOf, batch, aborted, inFlightRef,
                 insightsOf, insightsLoading, insightsFailed>>

StationLists == InsightCities \cup {NoStations}
NoBatch == [st |-> "none", city |-> NoStations, about |-> NoStations]

InsightTypeOK ==
    /\ insightCity \in InsightCities /\ stationsOf \in StationLists
    /\ batch \in [st : {"none", "crowd", "recommendations"},
                  city : StationLists, about : StationLists]
    /\ insightsOf \in StationLists
    /\ aborted \in 0..MaxAborted
    /\ inFlightRef \in BOOLEAN /\ insightsLoading \in BOOLEAN /\ insightsFailed \in BOOLEAN

InsightInit ==
    /\ insightCity \in InsightCities /\ stationsOf = NoStations
    /\ batch = NoBatch /\ aborted = 0 /\ inFlightRef = FALSE
    /\ insightsOf = NoStations /\ insightsLoading = TRUE /\ insightsFailed = FALSE

\* Mutant of RunEffect: the guard of the timer holds up every run of the effect.
RunEffectGuarded(city, stations) ==
    /\ insightCity' = city /\ stationsOf' = stations
    /\ UNCHANGED <<aborted, insightsOf, insightsFailed>>
    /\ IF stations = NoStations \/ inFlightRef
       THEN UNCHANGED <<batch, inFlightRef, insightsLoading>>
       ELSE /\ batch' = [st |-> "crowd", city |-> city, about |-> NoStations]
            /\ inFlightRef' = TRUE /\ insightsLoading' = TRUE

\* The effect, after its cleanup: nothing is started without stations.
RunEffect(city, stations) ==
    /\ insightCity' = city /\ stationsOf' = stations
    /\ aborted' = IF batch.st = "none" THEN aborted ELSE aborted + 1
    /\ aborted' <= MaxAborted
    /\ IF stations = NoStations
       THEN batch' = NoBatch /\ inFlightRef' = FALSE /\ UNCHANGED insightsLoading
       ELSE /\ batch' = [st |-> "crowd", city |-> city, about |-> NoStations]
            /\ inFlightRef' = TRUE /\ insightsLoading' = TRUE
    /\ UNCHANGED <<insightsOf, insightsFailed>>

\* The stations stay those of the city before, unless the new one's were
\* fetched earlier.
SelectCity(city) ==
    /\ city # insightCity
    /\ \E stations \in {stationsOf, city} : RunEffect(city, stations)

StationsArrive == stationsOf # insightCity /\ RunEffect(insightCity, insightCity)

RefreshTick == ~inFlightRef /\ RunEffect(insightCity, stationsOf)

-----------------------------------------------------------------------------
\* The busiest stations of the city; with no crowd known there, those listed.
CrowdRanked ==
    /\ batch.st = "crowd"
    /\ \E about \in {batch.city, stationsOf} :
          batch' = [batch EXCEPT !.st = "recommendations", !.about = about]
    /\ UNCHANGED <<insightCity, stationsOf, aborted, inFlightRef,
                   insightsOf, insightsLoading, insightsFailed>>

\* then, or catch, and finally.
Settled(failed) ==
    /\ batch' = NoBatch /\ inFlightRef' = FALSE
    /\ insightsLoading' = FALSE /\ insightsFailed' = failed
    /\ UNCHANGED <<insightCity, stationsOf, aborted>>

RecommendationsArrive ==
    batch.st = "recommendations" /\ insightsOf' = batch.about /\ Settled(FALSE)

\* What was recommended before stays, and the panel tells nothing.
BatchFails == batch.st # "none" /\ Settled(TRUE) /\ UNCHANGED insightsOf

\* A batch that was aborted touches neither the display nor the guard.
AbortedSettles ==
    /\ aborted > 0 /\ aborted' = aborted - 1
    /\ UNCHANGED <<insightCity, stationsOf, batch, inFlightRef,
                   insightsOf, insightsLoading, insightsFailed>>

InsightNext ==
    \/ \E city \in InsightCities : SelectCity(city)
    \/ StationsArrive \/ RefreshTick
    \/ CrowdRanked \/ RecommendationsArrive \/ BatchFails \/ AbortedSettles

InsightSpec == InsightInit /\ [][InsightNext]_insightVars

-----------------------------------------------------------------------------
\* The timer is held up by a batch that may still show its result, and by no
\* other: a batch that was aborted neither blocks it nor frees it.
GuardIsTheBatch == inFlightRef <=> batch.st # "none"

\* What is shown when nothing is under way or has failed is about the selected
\* city, once its stations are known: not about the city before, although a
\* batch may have begun with that city's stations.
InsightsAreOfCity ==
    /\ GuardIsTheBatch
    /\ stationsOf = insightCity /\ ~insightsLoading /\ ~insightsFailed
           => insightsOf = insightCity
=============================================================================
