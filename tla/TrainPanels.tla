----------------------------- MODULE TrainPanels -----------------------------
(***************************************************************************)
(* The panels that follow the trains: LiveTrainMap and                     *)
(* LiveTrainsListModal.  Each lays the positions that train_position told  *)
(* it over the snapshot it fetched for the selected city.  The socket      *)
(* tells the trains of every city; the modal takes the ones of its         *)
(* snapshot, the map takes all and drops the others when a snapshot comes. *)
(*                                                                         *)
(* A position is a counter.  A train that does not run has none.           *)
(***************************************************************************)
EXTENDS Integers

CONSTANTS
    Trains,
    TownOf,         \* the city of a train
    MaxPosition     \* bound: moves of a train

ASSUME PositionsAreBounded == MaxPosition \in Nat

VARIABLES
    position, feedOn, told,
    trainView, town, snapshot, trainFetch, liveTrains, showRunningOnly, expanded

trackVars == <<position, feedOn, told>>
snapVars == <<snapshot, trainFetch>>
showVars == <<trainView, showRunningOnly, expanded>>
trainVars == <<trackVars, town, snapVars, liveTrains, showVars>>

Towns == {TownOf[t] : t \in Trains}
NoPosition == -1
Nowhere == [t \in Trains |-> NoPosition]
Positions == [Trains -> {NoPosition} \cup 0..MaxPosition]
In(p) == {t \in Trains : p[t] # NoPosition}

TrainInit ==
    /\ position = Nowhere /\ feedOn = TRUE /\ told = Nowhere
    /\ trainView \in {"map", "modal"} /\ town \in Towns
    /\ snapshot = Nowhere /\ trainFetch = [st |-> "asked", at |-> Nowhere]
    /\ liveTrains = Nowhere
    /\ showRunningOnly = TRUE /\ expanded = FALSE

-----------------------------------------------------------------------------
\* The tracker: a train starts, moves (also when it turns back, so that it may
\* be where it was) or stops running; the ones that run are told.  Messages
\* under way are merged, as in one frame.
TrainMoves(t) ==
    /\ position' \in {[position EXCEPT ![t] = n] : n \in {NoPosition} \cup 0..MaxPosition}
    /\ position' # position
    /\ told' = IF feedOn /\ position'[t] # NoPosition
               THEN [told EXCEPT ![t] = position'[t]] ELSE told
    /\ UNCHANGED <<feedOn, town, snapVars, liveTrains, showVars>>

FeedDrops ==
    /\ feedOn /\ feedOn' = FALSE /\ told' = Nowhere
    /\ UNCHANGED <<position, town, snapVars, liveTrains, showVars>>

AskTrains == trainFetch' = [st |-> "asked", at |-> Nowhere]

\* The modal's hook is refreshed by the resync; the map's query belongs to the
\* store, which the resync does not reach.
FeedReturns ==
    /\ ~feedOn /\ feedOn' = TRUE
    /\ IF trainView = "modal" THEN AskTrains ELSE UNCHANGED trainFetch
    /\ UNCHANGED <<position, told, town, snapshot, liveTrains, showVars>>

-----------------------------------------------------------------------------
\* Both poll while the socket is down, and ask again for another city.
SnapshotPoll ==
    /\ trainFetch.st = "idle" /\ ~feedOn
    /\ AskTrains
    /\ UNCHANGED <<trackVars, town, snapshot, liveTrains, showVars>>

SelectTown(c) ==
    /\ trainView = "map" /\ c # town
    /\ town' = c
    /\ AskTrains
    /\ UNCHANGED <<trackVars, snapshot, liveTrains, showVars>>

SnapshotRead ==
    /\ trainFetch.st = "asked"
    /\ trainFetch' = [st |-> "read",
                      at |-> [t \in Trains |-> IF TownOf[t] = town THEN position[t] ELSE NoPosition]]
    /\ UNCHANGED <<trackVars, town, snapshot, liveTrains, showVars>>

\* The effect on [initial.data]: live positions of trains that are not in it go.
\* Data that is equal to the last keeps its reference and has no effect.
Prune(p, valid) == [t \in Trains |-> IF t \in valid THEN p[t] ELSE NoPosition]

SnapshotDone ==
    /\ trainFetch.st = "read"
    /\ snapshot' = trainFetch.at
    /\ liveTrains' = IF snapshot' = snapshot THEN liveTrains ELSE Prune(liveTrains, In(snapshot'))
    /\ trainFetch' = [st |-> "idle", at |-> Nowhere]
    /\ UNCHANGED <<trackVars, town, showVars>>

\* Mutant of Accepts: both panels take every train.
AcceptsAll(t) == t \in Trains

\* handleTrainPosition, and the guard validTrainIdsRef of the modal
Accepts(t) == trainView = "modal" => t \in In(snapshot)

TrainPosition ==
    /\ told # Nowhere
    /\ liveTrains' = [t \in Trains |-> IF told[t] # NoPosition /\ Accepts(t) THEN told[t]
                                       ELSE liveTrains[t]]
    /\ told' = Nowhere
    /\ UNCHANGED <<position, feedOn, town, snapVars, showVars>>

\* positions / trains: the live one of a train, or the fetched one
ShownAt(t) == IF liveTrains[t] # NoPosition THEN liveTrains[t] ELSE snapshot[t]
shownTrains == In(snapshot) \cup In(liveTrains)

SetRunningOnly(b) ==
    /\ trainView = "map" /\ showRunningOnly' = b
    /\ UNCHANGED <<trackVars, town, snapVars, liveTrains, trainView, expanded>>

toggleExpanded ==
    /\ trainView = "modal" /\ expanded' = ~expanded
    /\ UNCHANGED <<trackVars, town, snapVars, liveTrains, trainView, showRunningOnly>>

TrainNext ==
    \/ \E t \in Trains : TrainMoves(t)
    \/ FeedDrops \/ FeedReturns \/ SnapshotPoll \/ SnapshotRead \/ SnapshotDone
    \/ TrainPosition
    \/ \E c \in Towns : SelectTown(c)
    \/ \E b \in BOOLEAN : SetRunningOnly(b)
    \/ toggleExpanded

TrainSpec == TrainInit /\ [][TrainNext]_trainVars

-----------------------------------------------------------------------------
TrainTypeOK ==
    /\ position \in Positions /\ told \in Positions /\ feedOn \in BOOLEAN
    /\ trainView \in {"map", "modal"} /\ town \in Towns
    /\ snapshot \in Positions /\ liveTrains \in Positions
    /\ trainFetch \in [st : {"idle", "asked", "read"}, at : Positions]
    /\ showRunningOnly \in BOOLEAN /\ expanded \in BOOLEAN

\* The modal lists trains of the selected city only, although the socket tells
\* it those of every city, before and after each snapshot.
ModalKeepsToItsCity == trainView = "modal" => \A t \in shownTrains : TownOf[t] = town
=============================================================================
