----------------------------- MODULE LiveNotices -----------------------------
(***************************************************************************)
(* What the client puts over every page when something happens:            *)
(* EmergencyAlertBanner, which combines the emergencies it fetched with    *)
(* the ones the socket told it, and NotificationToastHost, whose popups go *)
(* away by themselves.                                                     *)
(*                                                                         *)
(* The server is the environment: an emergency becomes active and is       *)
(* resolved, each with a station_alert event.  Events arrive in order; the *)
(* ones on the way are lost when the socket drops, and its return makes    *)
(* every hook read again (resync, see LiveClient).                         *)
(***************************************************************************)
EXTENDS Naturals, Sequences, SequencesExt

CONSTANTS
    Emergencies,
    MAX_VISIBLE_TOASTS,
    MaxToasts,      \* bound: popups in a lifetime
    MaxAlertEvents  \* bound: events under way

ASSUME NoticeBounds ==
    MAX_VISIBLE_TOASTS \in Nat \ {0} /\ MaxToasts \in Nat /\ MaxAlertEvents \in Nat

VARIABLES
    emergency, alertEvents, linked,
    initial, initialFetch, liveAlerts, dismissedIds,
    toasts, timers, nextToast

alertVars == <<emergency, alertEvents, linked>>
bannerVars == <<initial, initialFetch, liveAlerts, dismissedIds>>
toastVars == <<toasts, timers, nextToast>>
overlayVars == <<alertVars, bannerVars, toastVars>>

OverlayInit ==
    /\ emergency = [a \in Emergencies |-> "none"]
    /\ alertEvents = <<>> /\ linked = TRUE
    /\ initial = {} /\ initialFetch = [st |-> "asked", active |-> {}]
    /\ liveAlerts = {} /\ dismissedIds = {}
    /\ toasts = <<>> /\ timers = {} /\ nextToast = 1

Active == {a \in Emergencies : emergency[a] = "active"}

-----------------------------------------------------------------------------
\* The server and the socket.
AlertChanges(a) ==
    /\ emergency[a] # "resolved" /\ Len(alertEvents) < MaxAlertEvents
    /\ emergency' = [emergency EXCEPT ![a] = IF @ = "none" THEN "active" ELSE "resolved"]
    /\ alertEvents' = IF linked THEN Append(alertEvents, [alert |-> a, state |-> emergency'[a]])
                      ELSE alertEvents
    /\ UNCHANGED <<linked, bannerVars, toastVars>>

LinkDrops ==
    /\ linked
    /\ linked' = FALSE /\ alertEvents' = <<>>
    /\ UNCHANGED <<emergency, bannerVars, toastVars>>

\* Mutant of LinkReturns: the emergencies are not read again.
LinkReturnsQuietly ==
    /\ ~linked
    /\ linked' = TRUE
    /\ UNCHANGED <<emergency, alertEvents, bannerVars, toastVars>>

\* An old request is aborted, its answer is never applied.
LinkReturns ==
    /\ ~linked
    /\ linked' = TRUE /\ initialFetch' = [st |-> "asked", active |-> {}]
    /\ UNCHANGED <<emergency, alertEvents, initial, liveAlerts, dismissedIds, toastVars>>

-----------------------------------------------------------------------------
\* The banner.  initialAlerts is read once, and again after a resync.
InitialRead ==
    /\ initialFetch.st = "asked"
    /\ initialFetch' = [st |-> "read", active |-> Active]
    /\ UNCHANGED <<alertVars, initial, liveAlerts, dismissedIds, toastVars>>

InitialDone ==
    /\ initialFetch.st = "read"
    /\ initial' = initialFetch.active /\ initialFetch' = [st |-> "idle", active |-> {}]
    /\ UNCHANGED <<alertVars, liveAlerts, dismissedIds, toastVars>>

\* station_alert: a resolved emergency leaves the live ones only.
StationAlert ==
    /\ alertEvents # <<>>
    /\ LET e == Head(alertEvents) IN
       liveAlerts' = IF e.state = "resolved" THEN liveAlerts \ {e.alert} ELSE liveAlerts \cup {e.alert}
    /\ alertEvents' = Tail(alertEvents)
    /\ UNCHANGED <<emergency, linked, initial, initialFetch, dismissedIds, toastVars>>

mergedAlerts == (initial \cup liveAlerts) \ dismissedIds

\* The arrows choose which one is shown: dismiss takes any of them.
dismissEmergency(a) ==
    /\ a \in mergedAlerts
    /\ dismissedIds' = dismissedIds \cup {a}
    /\ UNCHANGED <<alertVars, initial, initialFetch, liveAlerts, toastVars>>

-----------------------------------------------------------------------------
\* The popups, newest first.  One that is pushed off the stack keeps its timer.
Visible(stack) == SubSeq(stack, 1, IF Len(stack) < MAX_VISIBLE_TOASTS THEN Len(stack)
                                   ELSE MAX_VISIBLE_TOASTS)

NotificationPops ==
    /\ linked /\ nextToast <= MaxToasts
    /\ toasts' = Visible(<<nextToast>> \o toasts)
    /\ timers' = timers \cup {nextToast}
    /\ nextToast' = nextToast + 1
    /\ UNCHANGED <<alertVars, bannerVars>>

\* No two popups have the same id: the filter takes out one at most.
dismiss(t) ==
    /\ toasts' = RemoveFirst(toasts, t)
    /\ timers' = timers \ {t}
    /\ UNCHANGED <<nextToast, alertVars, bannerVars>>

ToastTimerFires(t) == t \in timers /\ dismiss(t)
DismissClicked(t) == t \in ToSet(toasts) /\ dismiss(t)

OverlayNext ==
    \/ \E a \in Emergencies : AlertChanges(a) \/ dismissEmergency(a)
    \/ LinkDrops \/ LinkReturns \/ InitialRead \/ InitialDone \/ StationAlert
    \/ NotificationPops
    \/ \E t \in 1..MaxToasts : ToastTimerFires(t) \/ DismissClicked(t)

\* Requests are answered, events are delivered, the socket comes back and
\* timers fire.  The socket does not drop on every request.
OverlayFairness ==
    /\ WF_overlayVars(LinkReturns) /\ WF_overlayVars(StationAlert)
    /\ WF_overlayVars(InitialRead) /\ SF_overlayVars(InitialDone)
    /\ WF_overlayVars(\E t \in 1..MaxToasts : ToastTimerFires(t))

OverlaySpec == OverlayInit /\ [][OverlayNext]_overlayVars /\ OverlayFairness

-----------------------------------------------------------------------------
OverlayTypeOK ==
    /\ emergency \in [Emergencies -> {"none", "active", "resolved"}]
    /\ alertEvents \in Seq([alert : Emergencies, state : {"active", "resolved"}])
    /\ initial \subseteq Emergencies /\ liveAlerts \subseteq Emergencies
    /\ initialFetch \in [st : {"asked", "read", "idle"}, active : SUBSET Emergencies]
    /\ ToSet(toasts) \cup timers \subseteq 1..(nextToast - 1)

\* An emergency that stays active and was not dismissed comes to be shown and
\* stays so, whatever events the socket lost and in whatever order the answer
\* and the events came.
EmergencyShown ==
    \A a \in Emergencies :
        <>[](a \in Active \ dismissedIds) => <>[](a \in mergedAlerts)

\* Every popup on the screen has its own timer running, however the stack was
\* cut and whatever was dismissed: none is left behind for good.
ToastsWillGo == ToSet(toasts) \subseteq timers
=============================================================================
