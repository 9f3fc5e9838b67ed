---------------------------- MODULE ScheduleBoards ----------------------------
(***************************************************************************)
(* The panels that show the timetable with its delays: TrainStatusTable,   *)
(* the dispatch board of TrainSchedulingPage, RecentAlerts,                *)
(* UpcomingTrainSchedule and KPISection.  Each fetches rows and fetches    *)
(* them again when an event of the socket says they changed; between the   *)
(* two lies the cache of schedule_service, of which a write deletes some   *)
(* keys only.                                                              *)
(*                                                                         *)
(* One panel is mounted, with or without a selected city.  A row is what   *)
(* became of it: "delayed" stands for every positive delay.                *)
(***************************************************************************)
EXTENDS FiniteSets, Naturals

CONSTANTS
    Schedules, TrainOf,     \* the rows, and the train of each
    Outcomes,               \* bound: the statuses that rows take
    Uncached                \* no copy in the cache, no row fetched yet

ASSUME OutcomesAreStatuses == Outcomes \subseteq {"on_time", "delayed", "cancelled"}

VARIABLES
    timetable, running, linkOn,         \* server, and the socket to it
    cacheCopy,                          \* what is cached under the panel's key
    board, cityChosen,                  \* the panel
    boardRows, boardFetch, boardTimer, boardTrains,
    rowFilter, everyTrain

serverSide == <<timetable, running, linkOn, cacheCopy>>
fetchSide == <<boardRows, boardFetch, boardTimer, boardTrains>>
filters == <<rowFilter, everyTrain>>
boardVars == <<serverSide, board, cityChosen, fetchSide, filters>>

ScheduleStatus == {"on_time", "delayed", "cancelled"}
Timetables == [Schedules -> Outcomes]
BoardTrains == {TrainOf[s] : s \in Schedules}
Boards == {"table", "dispatch", "alerts", "upcoming", "kpi"}
AnyRows == Timetables \cup {Uncached}
Asking == [st |-> "asked", rows |-> Uncached]

BoardTypeOK ==
    /\ timetable \in Timetables /\ running \subseteq BoardTrains /\ linkOn \in BOOLEAN
    /\ cacheCopy \in AnyRows
    /\ board \in Boards /\ cityChosen \in BOOLEAN
    /\ boardRows \in AnyRows /\ boardTrains \subseteq BoardTrains
    /\ boardFetch \in [st : {"idle", "asked", "computed", "read"}, rows : AnyRows]
    /\ boardTimer \in BOOLEAN
    /\ rowFilter \in {"all"} \cup ScheduleStatus
    /\ everyTrain \in BOOLEAN

BoardInit ==
    /\ timetable \in [Schedules -> Outcomes \ {"delayed"}] /\ running \in SUBSET BoardTrains
    /\ linkOn = TRUE /\ cacheCopy = Uncached
    /\ board \in Boards /\ cityChosen \in BOOLEAN
    /\ boardRows = Uncached /\ boardFetch = Asking /\ boardTimer = FALSE
    /\ boardTrains = {}
    /\ rowFilter = "all" /\ everyTrain = FALSE

-----------------------------------------------------------------------------
\* The keys a write deletes are those of the first 200 rows of every city.
\* RecentAlerts asks for 50 rows, and all panels for the selected city's.
CacheIsDropped == ~cityChosen /\ board # "alerts"

\* Mutant of Refreshing: the trains' positions refresh nothing.
RefreshingOnEvents ==
    CASE board \in {"table", "dispatch"} -> {"delay_alert", "schedule_update"}
      [] board = "alerts" -> {"delay_alert", "station_alert"}
      [] board = "kpi" -> {"delay_alert"}
      [] OTHER -> {}

\* The events each panel answers with a fetch, half a second after the last.
Refreshing ==
    CASE board \in {"table", "dispatch"} -> {"delay_alert", "schedule_update", "train_position"}
      [] board = "alerts" -> {"delay_alert", "station_alert"}
      [] board = "kpi" -> {"delay_alert"}
      [] OTHER -> {}

Told(event) == boardTimer' = (boardTimer \/ (linkOn /\ event \in Refreshing))

Written(s, status, event) ==
    /\ timetable' = [timetable EXCEPT ![s] = status]
    /\ cacheCopy' = IF CacheIsDropped THEN Uncached ELSE cacheCopy
    /\ Told(event)
    /\ UNCHANGED <<running, linkOn, board, cityChosen, boardRows, boardTrains, filters>>

\* handle_delay sets the status too: it runs a cancelled train again.  The
\* dispatch board that reported the delay also fetches at once.
HandleDelay(s, status) ==
    /\ status # "cancelled" /\ timetable[s] # status
    /\ Written(s, status, "delay_alert")
    /\ boardFetch' \in {boardFetch} \cup (IF board = "dispatch" THEN {Asking} ELSE {})

\* update_schedule, with which a trip is cancelled
UpdateSchedule(s, status) ==
    /\ timetable[s] # status
    /\ Written(s, status, "schedule_update")
    /\ UNCHANGED boardFetch

CacheExpires ==
    /\ cacheCopy # Uncached /\ cacheCopy' = Uncached
    /\ UNCHANGED <<timetable, running, linkOn, board, cityChosen, fetchSide, filters>>

\* Each tick of the tracker tells the positions of the trains that run.
TrackTick ==
    /\ running # {} /\ Told("train_position")
    /\ UNCHANGED <<serverSide, board, cityChosen, boardRows, boardFetch, boardTrains, filters>>

StationAlertRaised ==
    /\ Told("station_alert")
    /\ UNCHANGED <<serverSide, board, cityChosen, boardRows, boardFetch, boardTrains, filters>>

TrainActive(t) ==
    /\ running' = (running \ {t}) \cup ({t} \ running)
    /\ UNCHANGED <<timetable, linkOn, cacheCopy, board, cityChosen, fetchSide, filters>>

\* The resync of an opening socket reaches every panel; the store of KPISection
\* lets a request under way end first, whose answer is left out here.
LinkTurns ==
    /\ linkOn' = ~linkOn
    /\ boardFetch' = IF linkOn' THEN Asking ELSE boardFetch
    /\ UNCHANGED <<timetable, running, cacheCopy, board, cityChosen, boardRows, boardTimer,
                   boardTrains, filters>>

-----------------------------------------------------------------------------
\* A request takes the place of the one under way, except in the store of
\* KPISection: there it is dropped.
Ask == /\ boardFetch' = IF board = "kpi" /\ boardFetch.st # "idle" THEN boardFetch ELSE Asking
       /\ UNCHANGED <<serverSide, board, cityChosen, boardRows, boardTrains>>

DebounceEnds == /\ boardTimer /\ boardTimer' = FALSE
                /\ Ask /\ UNCHANGED filters

\* A panel with a socket polls while that is down only, KPISection never; it
\* fetches again when the browser's window gets the focus.
Polls == board = "upcoming" \/ (~linkOn /\ board # "kpi")
BoardPoll == boardFetch.st = "idle" /\ Polls /\ Ask /\ UNCHANGED <<boardTimer, filters>>

WindowFocused == board = "kpi" /\ Ask /\ UNCHANGED <<boardTimer, filters>>

\* _cached_schedule_list: a copy is served, or the rows are read and then
\* stored, whatever was written in between.  The upcoming departures are not
\* cached.
RowsServed ==
    /\ boardFetch.st = "asked"
    /\ boardFetch' = IF cacheCopy # Uncached THEN [st |-> "read", rows |-> cacheCopy]
                     ELSE [st |-> IF board = "upcoming" THEN "read" ELSE "computed", rows |-> timetable]
    /\ UNCHANGED <<serverSide, board, cityChosen, boardRows, boardTimer, boardTrains, filters>>

RowsStored ==
    /\ boardFetch.st = "computed"
    /\ boardFetch' = [boardFetch EXCEPT !.st = "read"]
    /\ cacheCopy' = boardFetch.rows
    /\ UNCHANGED <<timetable, running, linkOn, board, cityChosen, boardRows, boardTimer,
                   boardTrains, filters>>

RowsArrive ==
    /\ boardFetch.st = "read"
    /\ boardRows' = boardFetch.rows
    /\ boardFetch' = [st |-> "idle", rows |-> Uncached]
    /\ UNCHANGED <<serverSide, board, cityChosen, boardTimer, boardTrains, filters>>

\* The trains are a list of their own, polled at any time.
TrainsPoll ==
    /\ board \in {"table", "dispatch", "kpi"} /\ boardTrains' = running
    /\ UNCHANGED <<serverSide, board, cityChosen, boardRows, boardFetch, boardTimer, filters>>

-----------------------------------------------------------------------------
\* What the panels make of the rows.  The table joins them with the trains: one
\* not known yet is not active, and its rows are hidden.
Fetched == IF boardRows = Uncached THEN {} ELSE Schedules
Delayed == {s \in Fetched : boardRows[s] = "delayed"}

\* delayFilter goes by the minutes, so that a cancelled trip is on time.
TableRows ==
    {s \in Fetched : /\ everyTrain \/ TrainOf[s] \in boardTrains
                     /\ CASE rowFilter = "on_time" -> s \notin Delayed
                          [] rowFilter = "delayed" -> s \in Delayed
                          [] OTHER -> TRUE}

\* statusFilter of the dispatch board goes by the status.
FilteredSchedules ==
    {s \in Fetched : rowFilter = "all" \/ boardRows[s] = rowFilter}

\* The delays the panel shows, each in its way: rows marked late, alerts,
\* departures, or the number behind an average.
DelaysShown ==
    CASE board = "table" -> TableRows \cap Delayed
      [] board = "dispatch" -> FilteredSchedules \cap Delayed
      [] OTHER -> Delayed

SetTableFilter(f, every) ==
    /\ board = "table" /\ f # "cancelled"
    /\ rowFilter' = f /\ everyTrain' = every
    /\ UNCHANGED <<serverSide, board, cityChosen, fetchSide>>

SetDispatchFilter(f) ==
    /\ board = "dispatch" /\ rowFilter' = f
    /\ UNCHANGED <<serverSide, board, cityChosen, fetchSide, everyTrain>>

BoardNext ==
    \/ \E s \in Schedules, status \in Outcomes :
          HandleDelay(s, status) \/ UpdateSchedule(s, status)
    \/ CacheExpires \/ TrackTick \/ StationAlertRaised \/ LinkTurns
    \/ \E t \in BoardTrains : TrainActive(t)
    \/ DebounceEnds \/ BoardPoll \/ WindowFocused
    \/ RowsServed \/ RowsStored \/ RowsArrive \/ TrainsPoll
    \/ \E f \in {"all"} \cup ScheduleStatus :
          SetDispatchFilter(f) \/ \E every \in BOOLEAN : SetTableFilter(f, every)

\* Copies expire, the tracker ticks, timers fire, panels poll and the answers
\* come.  An answer is replaced by that of a newer request only.
BoardFairness ==
    /\ WF_boardVars(CacheExpires) /\ WF_boardVars(TrackTick) /\ WF_boardVars(DebounceEnds)
    /\ WF_boardVars(BoardPoll) /\ WF_boardVars(TrainsPoll)
    /\ WF_boardVars(RowsServed) /\ SF_boardVars(RowsStored) /\ SF_boardVars(RowsArrive)

BoardSpec == BoardInit /\ [][BoardNext]_boardVars /\ BoardFairness

-----------------------------------------------------------------------------
\* The table and the dispatch board come to show every delay, for a selected
\* city too, although a write leaves the copies of a city in the cache and
\* although an older answer may be stored after it, as long as trains run and
\* their positions keep coming; and so does each panel that polls.
DelaysComeToShow ==
    \A s \in Schedules :
        <>[](/\ timetable[s] = "delayed" /\ board # "kpi" /\ TrainOf[s] \in running
             /\ rowFilter \in {"all", "delayed"}
             /\ board \in {"upcoming", "table", "dispatch"} \/ ~linkOn)
            => <>[](s \in DelaysShown)
=============================================================================
