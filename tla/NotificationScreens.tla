------------------------ MODULE NotificationScreens ------------------------
(***************************************************************************)
(* The user's notifications as the client shows them: the notification     *)
(* centre with its Inbox and Bin, which combines what it fetched with what *)
(* the live socket told it since.                                          *)
(*                                                                         *)
(* rows is the server's side (notification_service.py).  Whatever changes  *)
(* it, here or on another device of the user, sends an event; events       *)
(* arrive in order, or are lost while the socket is down.                  *)
(*                                                                         *)
(* list is a tab's rows as they were read.  The hooks of useApiData keep   *)
(* the old reference when an answer is equal to it, so "data # prevData",  *)
(* by which the components notice a fresh answer, is a change of value.    *)
(***************************************************************************)
EXTENDS Naturals, Sequences

CONSTANTS
    Notes,          \* notifications
    NoList,         \* nothing fetched yet
    NoFetch,        \* no request under way
    MaxEvents       \* bound: events under way

ASSUME EventsAreBounded == MaxEvents \in Nat

VARIABLES
    rows, events, lost,
    tab, list, listCache, fetch, refreshTimer, liveItems, removedIds, deleting

noticeServerVars == <<rows, events, lost>>
listVars == <<tab, list, listCache, fetch, refreshTimer>>
centerVars == <<listVars, liveItems, removedIds, deleting>>
noticeVars == <<noticeServerVars, centerVars>>

Tabs == {"all", "bin"}
Rows == [at : {"nowhere", "inbox", "bin", "gone"}, isRead : BOOLEAN]
Lists == [tab : Tabs, rows : [Notes -> {"absent", "unread", "read"}]]
Events == [kind : {"notification", "read", "allRead", "deleted", "allDeleted"},
           note : SUBSET Notes]

Inbox == {n \in Notes : rows[n].at = "inbox"}
Unread == {n \in Inbox : ~rows[n].isRead}

NoticeTypeOK ==
    /\ rows \in [Notes -> Rows]
    /\ events \in Seq(Events) /\ Len(events) <= MaxEvents
    /\ lost \in BOOLEAN
    /\ tab \in Tabs
    /\ list \in Lists \cup {NoList}
    /\ listCache \in [Tabs -> Lists \cup {NoList}]
    /\ fetch \in Lists \cup {NoList} \cup {NoFetch}     \* NoList: not read yet
    /\ refreshTimer \in BOOLEAN
    /\ liveItems \in [Notes -> {"absent", "unread", "read"}]
    /\ removedIds \subseteq Notes /\ deleting \subseteq Notes

NoLive == [n \in Notes |-> "absent"]

NoticeInit ==
    /\ rows = [n \in Notes |-> [at |-> "nowhere", isRead |-> FALSE]]
    /\ events = <<>> /\ lost = FALSE
    /\ tab = "all" /\ list = NoList /\ listCache = [t \in Tabs |-> NoList]
    /\ fetch = NoList /\ refreshTimer = FALSE
    /\ liveItems = NoLive /\ removedIds = {} /\ deleting = {}

-----------------------------------------------------------------------------
\* The server: each change of a row, and the event it sends.
Emit(kind, S) ==
    /\ Len(events) < MaxEvents
    /\ events' = Append(events, [kind |-> kind, note |-> S])

NewNotification(n) ==
    /\ rows[n].at = "nowhere"
    /\ rows' = [rows EXCEPT ![n].at = "inbox"]
    /\ Emit("notification", {n})

MarkRead(n) ==
    /\ n \in Unread
    /\ rows' = [rows EXCEPT ![n].isRead = TRUE]
    /\ Emit("read", {n})

\* "Mark all as read" also moves what it marks to the Bin.
MarkAllRead ==
    /\ Unread # {}
    /\ rows' = [n \in Notes |-> IF n \in Unread THEN [at |-> "bin", isRead |-> TRUE] ELSE rows[n]]
    /\ Emit("allRead", {})

Delete(n) ==
    /\ rows[n].at \in {"inbox", "bin"}
    /\ rows' = [rows EXCEPT ![n].at = "bin"]
    /\ Emit("deleted", {n})

DeleteAll ==
    /\ \E n \in Notes : rows[n].at \in {"inbox", "bin"}
    /\ rows' = [n \in Notes |-> IF rows[n].at = "nowhere" THEN rows[n]
                                ELSE [rows[n] EXCEPT !.at = "gone"]]
    /\ Emit("allDeleted", {})

OtherDevice ==
    /\ \/ \E n \in Notes : NewNotification(n) \/ MarkRead(n) \/ Delete(n)
       \/ MarkAllRead \/ DeleteAll
    /\ UNCHANGED <<lost, centerVars>>

\* The socket drops with events on the way.
LoseEvents ==
    /\ events # <<>>
    /\ events' = <<>> /\ lost' = TRUE
    /\ UNCHANGED <<rows, centerVars>>

-----------------------------------------------------------------------------
\* The centre.  Every change of what list refers to drops the live items.
ShowList(l) ==
    /\ list' = l
    /\ liveItems' = IF l = list THEN liveItems ELSE NoLive

\* items: live ones first, then the fetched ones, without the removed ones.
Status(n) ==
    IF n \in removedIds THEN "absent"
    ELSE IF liveItems[n] # "absent" THEN liveItems[n]
    ELSE IF list = NoList THEN "absent" ELSE list.rows[n]
Items == {n \in Notes : Status(n) # "absent"}

\* refresh(): whatever was under way is aborted and asked again.
RefreshList == fetch' = NoList

SelectTab(t) ==
    /\ t # tab
    /\ tab' = t
    /\ RefreshList
    /\ ShowList(IF listCache[t] = NoList THEN list ELSE listCache[t])
    /\ UNCHANGED <<noticeServerVars, listCache, refreshTimer, removedIds, deleting>>

\* The answer of getNotifications or getBinnedNotifications, read ...
FetchRead ==
    /\ fetch = NoList
    /\ fetch' = [tab |-> tab, rows |->
                   [n \in Notes |-> IF rows[n].at # (IF tab = "all" THEN "inbox" ELSE "bin") THEN "absent"
                                    ELSE IF rows[n].isRead THEN "read" ELSE "unread"]]
    /\ UNCHANGED <<noticeServerVars, tab, list, listCache, refreshTimer, liveItems,
                   removedIds, deleting>>

\* ... and applied.
FetchDone ==
    /\ fetch \notin {NoList, NoFetch}
    /\ fetch' = NoFetch
    /\ listCache' = [listCache EXCEPT ![tab] = fetch]
    /\ ShowList(fetch)
    /\ UNCHANGED <<noticeServerVars, tab, refreshTimer, removedIds, deleting>>

\* Mutant of ListPoll: only the Bin is polled.
ListPollBin ==
    /\ fetch = NoFetch /\ tab = "bin"
    /\ RefreshList
    /\ UNCHANGED <<noticeServerVars, tab, list, listCache, refreshTimer, liveItems,
                   removedIds, deleting>>

ListPoll ==
    /\ fetch = NoFetch
    /\ RefreshList
    /\ UNCHANGED <<noticeServerVars, tab, list, listCache, refreshTimer, liveItems,
                   removedIds, deleting>>

RefreshTimerFires ==
    /\ refreshTimer /\ refreshTimer' = FALSE
    /\ RefreshList
    /\ UNCHANGED <<noticeServerVars, tab, list, listCache, liveItems, removedIds, deleting>>

\* What can be clicked.  A card being deleted takes no other click.
CardIsOpen(n) == n \in Items \ deleting
MarkAllOffered == tab = "all" /\ \E n \in Items : Status(n) = "unread"
DeleteAllOffered == Items # {}

HandleRead(n) ==
    /\ CardIsOpen(n) /\ Status(n) = "unread"
    /\ \/ MarkRead(n)
       \/ n \notin Unread /\ UNCHANGED <<rows, events>>
    /\ liveItems' = [liveItems EXCEPT ![n] = IF @ = "absent" THEN @ ELSE "read"]
    /\ RefreshList
    /\ UNCHANGED <<lost, tab, list, listCache, refreshTimer, removedIds, deleting>>

HandleDelete(n) ==
    /\ CardIsOpen(n)
    /\ Delete(n)
    /\ deleting' = deleting \cup {n}
    /\ UNCHANGED <<lost, listVars, liveItems, removedIds>>

DeleteAnswered(n) ==
    /\ n \in deleting
    /\ deleting' = deleting \ {n}
    /\ removedIds' = removedIds \cup {n}
    /\ liveItems' = [liveItems EXCEPT ![n] = "absent"]
    /\ RefreshList
    /\ UNCHANGED <<noticeServerVars, tab, list, listCache, refreshTimer>>

HandleMarkAll ==
    /\ MarkAllOffered
    /\ MarkAllRead
    /\ liveItems' = NoLive
    /\ RefreshList
    /\ UNCHANGED <<lost, tab, list, listCache, refreshTimer, removedIds, deleting>>

HandleDeleteAll ==
    /\ DeleteAllOffered
    /\ DeleteAll
    /\ liveItems' = NoLive /\ removedIds' = {}
    /\ RefreshList
    /\ UNCHANGED <<lost, tab, list, listCache, refreshTimer, deleting>>

-----------------------------------------------------------------------------
\* What the centre does with an event.
CenterHandles(e) ==
    LET opened == {n \in e.note : tab = "all" /\ liveItems[n] = "absent"} IN
    /\ liveItems' =
         CASE e.kind = "notification" -> [n \in Notes |-> IF n \in opened THEN "unread" ELSE liveItems[n]]
           [] e.kind = "allDeleted" -> NoLive
           [] OTHER -> liveItems
    /\ removedIds' = IF e.kind = "deleted" THEN removedIds \cup e.note ELSE removedIds
    /\ refreshTimer' = (refreshTimer \/ e.kind \in {"read", "allRead", "deleted"})
    /\ IF e.kind = "allDeleted" THEN RefreshList ELSE UNCHANGED fetch

EventArrives ==
    /\ events # <<>>
    /\ events' = Tail(events)
    /\ CenterHandles(Head(events))
    /\ UNCHANGED <<rows, lost, tab, list, listCache, deleting>>

CenterStep ==
    \/ \E t \in Tabs : SelectTab(t)
    \/ FetchRead \/ FetchDone \/ ListPoll \/ RefreshTimerFires
    \/ \E n \in Notes : HandleRead(n) \/ HandleDelete(n) \/ DeleteAnswered(n)
    \/ HandleMarkAll \/ HandleDeleteAll

NoticeNext == OtherDevice \/ LoseEvents \/ EventArrives \/ CenterStep

\* The list is polled and events arrive.  A refresh may abort an answer, but
\* clicks and events do not do so every time.
NoticeFairness ==
    /\ WF_noticeVars(EventArrives) /\ WF_noticeVars(ListPoll)
    /\ WF_noticeVars(RefreshTimerFires)
    /\ WF_noticeVars(FetchRead) /\ SF_noticeVars(FetchDone)

NoticeSpec == NoticeInit /\ [][NoticeNext]_noticeVars /\ NoticeFairness

-----------------------------------------------------------------------------
\* The Inbox comes to show everything that is in it, in whatever order answers
\* and events arrived and whatever was lost.
InboxCatchesUp ==
    \A n \in Notes : <>[](tab = "all" /\ n \in Inbox) => <>[](n \in Items)
=============================================================================
