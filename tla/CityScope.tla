------------------------------ MODULE CityScope ------------------------------
(***************************************************************************)
(* What the dashboard is scoped to: the selected city (StateProvider,      *)
(* StateSelector), the focused station with its live view                  *)
(* (FocusedStationProvider), and all who set them: the searches of Header, *)
(* LiveLocationPanel and CrowdDensityGradientMap, and the modals that      *)
(* LiveStationsPanel and LiveTrainsListModal open.  Also the prefetching   *)
(* of useRoutePrefetch, which depends on the city.                         *)
(*                                                                         *)
(* A station is represented by its city.                                   *)
(***************************************************************************)
CONSTANTS
    Cities, NoCity,
    StaffRoutes, OtherRoutes,   \* routes for some roles, and for everyone
    Prefetchable                \* PREFETCHABLE_ROUTES

ASSUME NoCityIsNone == NoCity \notin Cities

VARIABLES
    mounted, storedCity, selectedState, geoStatus, geoAnswer, menuOpen,
    focusedStation, liveLocationOn, modal,
    focusedBy,                  \* history: who set the focus
    hoverTimers, cooling, prefetched, staff

choiceVars == <<mounted, storedCity, selectedState>>
geoVars == <<geoStatus, geoAnswer, menuOpen>>
focusVars == <<focusedStation, liveLocationOn, modal, focusedBy>>
hoverVars == <<hoverTimers, cooling, prefetched, staff>>
scopeVars == <<choiceVars, geoVars, focusVars, hoverVars>>

AnyCity == Cities \cup {NoCity}
Routes == StaffRoutes \cup OtherRoutes

ScopeInit ==
    /\ mounted = FALSE /\ storedCity \in AnyCity /\ selectedState = NoCity
    /\ geoStatus = "idle" /\ geoAnswer = NoCity /\ menuOpen = FALSE
    /\ focusedStation = NoCity /\ liveLocationOn = FALSE
    /\ modal = "none" /\ focusedBy = "nobody"
    /\ hoverTimers = {} /\ cooling = {} /\ prefetched = {} /\ staff \in BOOLEAN

-----------------------------------------------------------------------------
\* The selection: taken from localStorage once, kept there with every change.
MountApp ==
    /\ ~mounted /\ mounted' = TRUE
    /\ selectedState' = IF storedCity # NoCity THEN storedCity ELSE selectedState
    /\ UNCHANGED <<storedCity, geoVars, focusVars, hoverVars>>

setSelectedState(c) ==
    /\ mounted
    /\ selectedState' = c /\ storedCity' = c
    /\ UNCHANGED mounted

ToggleMenu ==
    /\ mounted /\ modal = "none" /\ menuOpen' = ~menuOpen
    /\ UNCHANGED <<choiceVars, geoStatus, geoAnswer, focusVars, hoverVars>>

PickCity(c) ==
    /\ menuOpen
    /\ setSelectedState(c) /\ menuOpen' = FALSE
    /\ UNCHANGED <<geoStatus, geoAnswer, focusVars, hoverVars>>

\* useMyLocation: the browser is asked for the position, then the server for
\* the city.  The answer is taken whenever it comes, over a later choice too.
useMyLocation ==
    /\ menuOpen /\ geoStatus # "locating"
    /\ geoStatus' = "locating" /\ geoAnswer' \in Cities
    /\ UNCHANGED <<choiceVars, menuOpen, focusVars, hoverVars>>

LocationFound ==
    /\ geoStatus = "locating"
    /\ setSelectedState(geoAnswer)
    /\ geoStatus' = "idle" /\ geoAnswer' = NoCity /\ menuOpen' = FALSE
    /\ UNCHANGED <<focusVars, hoverVars>>

LocationFails ==
    /\ geoStatus = "locating"
    /\ geoStatus' \in {"denied", "unavailable", "no-match"} /\ geoAnswer' = NoCity
    /\ UNCHANGED <<choiceVars, menuOpen, focusVars, hoverVars>>

-----------------------------------------------------------------------------
\* Mutant of setFocusedStation: the live view outlasts the focus.
setFocusedStationOnly(c, by) ==
    /\ focusedStation' = c
    /\ UNCHANGED liveLocationOn
    /\ focusedBy' = by

\* The focus.  Taking it away takes the live view away too.
setFocusedStation(c, by) ==
    /\ focusedStation' = c
    /\ liveLocationOn' = (liveLocationOn /\ c # NoCity)
    /\ focusedBy' = by

\* Header's search selects the station's city too.  A city picked later does
\* not end the focus.
pickStation(c) ==
    /\ modal = "none" /\ focusedStation = NoCity
    /\ setFocusedStation(c, "search")
    /\ setSelectedState(c)
    /\ UNCHANGED <<modal, geoVars, hoverVars>>

\* The searches of LiveLocationPanel and of the density map leave the city
\* alone; the map's is also in the modal of a train.
pickLocationStation(c) ==
    /\ modal \in {"none", "train"} /\ focusedStation = NoCity
    /\ setFocusedStation(c, "search")
    /\ UNCHANGED <<modal, choiceVars, geoVars, hoverVars>>

ClearFocus ==
    /\ modal \in {"none", "train"} /\ focusedStation # NoCity
    /\ setFocusedStation(NoCity, "nobody")
    /\ UNCHANGED <<modal, choiceVars, geoVars, hoverVars>>

toggleLiveLocation ==
    /\ focusedStation # NoCity /\ modal # "train"
    /\ liveLocationOn' = ~liveLocationOn
    /\ UNCHANGED <<focusedStation, modal, focusedBy, choiceVars, geoVars, hoverVars>>

\* openStation and the effect of StationLiveDetailModal; the clean-up of that
\* effect clears the focus on every way out of it, the page's closeModal or a
\* navigation that unmounts both.
openStation(c) ==
    /\ modal = "none" /\ modal' = "station"
    /\ focusedStation' = c /\ liveLocationOn' = TRUE /\ focusedBy' = "station"
    /\ UNCHANGED <<choiceVars, geoVars, hoverVars>>

StationModalGoes ==
    /\ modal = "station" /\ modal' = "none"
    /\ setFocusedStation(NoCity, "nobody")
    /\ UNCHANGED <<choiceVars, geoVars, hoverVars>>

\* The list of trains, and the modal of one train over it, which takes the
\* focus once it knows the stations and again when it learns more of them.  It
\* has no clean-up of its own: the list's closings clear the focus.
OpenTrainList ==
    /\ modal = "none" /\ modal' = "list"
    /\ UNCHANGED <<focusedStation, liveLocationOn, focusedBy, choiceVars, geoVars, hoverVars>>

SelectTrain ==
    /\ modal = "list" /\ modal' = "train"
    /\ UNCHANGED <<focusedStation, liveLocationOn, focusedBy, choiceVars, geoVars, hoverVars>>

TrainTakesFocus(c) ==
    /\ modal = "train"
    /\ focusedStation' = c /\ liveLocationOn' = TRUE /\ focusedBy' = "train"
    /\ UNCHANGED <<modal, choiceVars, geoVars, hoverVars>>

closeTrainDetail ==
    /\ modal = "train" /\ modal' = "list"
    /\ setFocusedStation(NoCity, "nobody")
    /\ UNCHANGED <<choiceVars, geoVars, hoverVars>>

closeAll ==
    /\ modal = "list" /\ modal' = "none"
    /\ setFocusedStation(NoCity, "nobody")
    /\ UNCHANGED <<choiceVars, geoVars, hoverVars>>

\* Escape on the list calls onClose alone, as a navigation does.
ListGoes ==
    /\ modal \in {"list", "train"} /\ modal' = "none"
    /\ UNCHANGED <<focusedStation, liveLocationOn, focusedBy, choiceVars, geoVars, hoverVars>>

-----------------------------------------------------------------------------
\* The menu shows what the role may open.  Hovering an entry arms a timer, a new
\* hover arms it anew, and it prefetches unless that was done 15 s ago.
visibleMenus == IF staff THEN Routes ELSE OtherRoutes

HoverRoute(r) ==
    /\ r \in visibleMenus \cap Prefetchable
    /\ hoverTimers' = {t \in hoverTimers : t.route # r}
                      \cup {[route |-> r, city |-> selectedState]}
    /\ UNCHANGED <<choiceVars, geoVars, focusVars, cooling, prefetched, staff>>

HoverTimerFires(t) ==
    /\ t \in hoverTimers /\ hoverTimers' = hoverTimers \ {t}
    /\ IF t.route \in cooling THEN UNCHANGED <<cooling, prefetched>>
       ELSE cooling' = cooling \cup {t.route} /\ prefetched' = prefetched \cup {t}
    /\ UNCHANGED <<choiceVars, geoVars, focusVars, staff>>

\* Fifteen seconds on, the route may be fetched again.
CooldownEnds(r) ==
    /\ r \in cooling /\ cooling' = cooling \ {r}
    /\ prefetched' = {t \in prefetched : t.route # r}
    /\ UNCHANGED <<choiceVars, geoVars, focusVars, hoverTimers, staff>>

ScopeNext ==
    \/ MountApp \/ ToggleMenu \/ useMyLocation \/ LocationFound \/ LocationFails
    \/ \E c \in AnyCity : PickCity(c)
    \/ \E c \in Cities : pickStation(c) \/ pickLocationStation(c) \/ openStation(c)
                         \/ TrainTakesFocus(c)
    \/ ClearFocus \/ toggleLiveLocation \/ StationModalGoes
    \/ OpenTrainList \/ SelectTrain \/ closeTrainDetail \/ closeAll \/ ListGoes
    \/ \E r \in Routes : HoverRoute(r) \/ CooldownEnds(r)
    \/ \E t \in hoverTimers : HoverTimerFires(t)

ScopeSpec == ScopeInit /\ [][ScopeNext]_scopeVars

-----------------------------------------------------------------------------
ScopeTypeOK ==
    /\ mounted \in BOOLEAN /\ storedCity \in AnyCity /\ selectedState \in AnyCity
    /\ geoStatus \in {"idle", "locating", "denied", "unavailable", "no-match"}
    /\ geoAnswer \in AnyCity /\ menuOpen \in BOOLEAN
    /\ focusedStation \in AnyCity /\ liveLocationOn \in BOOLEAN
    /\ modal \in {"none", "station", "list", "train"}
    /\ focusedBy \in {"nobody", "search", "station", "train"}
    /\ hoverTimers \cup prefetched \subseteq [route : Routes, city : AnyCity]
    /\ cooling \subseteq Routes /\ staff \in BOOLEAN

\* The live view is on only with a station to follow, whoever turned it on and
\* whatever took the station away: without one the maps would have no line.
LiveViewHasStation == liveLocationOn => focusedStation # NoCity

\* The dashboard is not left focused on the station of a modal that is gone,
\* whichever way it was left.
StationModalTidiesUp == focusedBy = "station" => modal = "station"

\* Both, along every way in and out of the modals and the searches.
ScopeIsTidy == LiveViewHasStation /\ StationModalTidiesUp
=============================================================================
