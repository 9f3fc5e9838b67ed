----------------------------- MODULE ListPages -----------------------------
(***************************************************************************)
(* The pages on which staff and passengers act on a list of rows, and see  *)
(* the list again afterwards: AlertsManager, EnquiryCenter,                *)
(* TrainSchedulingPage, UserManagementTable and CheckInOutCard.            *)
(*                                                                         *)
(* One is open at a time.  A click starts a call for its row and locks the *)
(* row's buttons; the answer unlocks them and, on success, refreshes the   *)
(* list.  busyId stands for resolvingId, busyId and savingId of the pages, *)
(* which remember one row only; the cards of EnquiryCenter each have a     *)
(* lock of their own.  A row is the number of times it was changed.        *)
(***************************************************************************)
EXTENDS Naturals, FiniteSetsExt

CONSTANTS
    ListRows, NoRow,
    SelfRow,        \* the user's own row on the users page
    MaxChanges,     \* bound: changes of a row
    MaxCalls        \* bound: calls under way at a time

ASSUME NoRowIsNone == NoRow \notin ListRows
ASSUME ListBounds == MaxChanges \in Nat /\ MaxCalls \in Nat \ {0}

VARIABLES
    openPage, kept, listed, listFetch, listError,
    busyId, notifyingId, calls, replying, createForm, delivery,
    acked           \* history: the changes that were confirmed here

listingVars == <<listed, listFetch, listError>>
lockVars == <<busyId, notifyingId, calls, replying, createForm, delivery>>
pageVars == <<openPage, kept, acked, listingVars, lockVars>>

ListPageNames == {"alerts", "inbox", "news", "scheduling", "users", "journey"}
Changes == [ListRows -> 0..MaxChanges]
Locks == {"row", "notify", "card"}
NoCalls == [l \in Locks |-> [r \in ListRows |-> 0]]
NoDelivery == [open |-> FALSE, logs |-> FALSE, loading |-> 0]
ClosedForm == [open |-> FALSE, submitting |-> FALSE]

ListTypeOK ==
    /\ openPage \in ListPageNames
    /\ kept \in Changes /\ acked \in Changes /\ listed \in Changes
    /\ listFetch \in [st : {"idle", "asked", "read"}, rows : Changes]
    /\ listError \in BOOLEAN
    /\ busyId \in ListRows \cup {NoRow} /\ notifyingId \in ListRows \cup {NoRow}
    /\ calls \in [Locks -> [ListRows -> Nat]]
    /\ replying \subseteq ListRows
    /\ createForm \in [open : BOOLEAN, submitting : BOOLEAN]
    /\ delivery \in [open : BOOLEAN, logs : BOOLEAN, loading : Nat]

ListInit ==
    /\ openPage \in ListPageNames
    /\ kept = [r \in ListRows |-> 0] /\ acked = kept /\ listed = kept
    /\ listFetch = [st |-> "asked", rows |-> kept] /\ listError = FALSE
    /\ busyId = NoRow /\ notifyingId = NoRow /\ calls = NoCalls
    /\ replying = {} /\ createForm = ClosedForm /\ delivery = NoDelivery

-----------------------------------------------------------------------------
\* Mutant of AskAgain: a request that is under way is not asked again.
AskUnlessUnderWay ==
    listFetch' = IF listFetch.st = "idle" THEN [listFetch EXCEPT !.st = "asked"] ELSE listFetch

\* The list of the page: asked for when it opens, when a filter, an event or a
\* poll wants it, and after each change made here.
AskAgain == listFetch' = [listFetch EXCEPT !.st = "asked"]

ListRefresh ==
    /\ AskAgain
    /\ UNCHANGED <<openPage, kept, acked, listed, listError, lockVars>>

\* The timetable may come from the cache of schedule_service, of which a write
\* drops some keys only; the other lists are read from the database.
MayBeRead(rows) ==
    IF openPage = "scheduling" THEN \A r \in ListRows : rows[r] <= kept[r] ELSE rows = kept

ListRead ==
    /\ listFetch.st = "asked"
    /\ \E rows \in Changes : MayBeRead(rows) /\ listFetch' = [st |-> "read", rows |-> rows]
    /\ UNCHANGED <<openPage, kept, acked, listed, listError, lockVars>>

ListAnswered ==
    /\ listFetch.st = "read"
    /\ listed' = listFetch.rows /\ listError' = FALSE
    /\ listFetch' = [listFetch EXCEPT !.st = "idle"]
    /\ UNCHANGED <<openPage, kept, acked, lockVars>>

ListFails ==
    /\ listFetch.st # "idle"
    /\ listError' = TRUE
    /\ listFetch' = [listFetch EXCEPT !.st = "idle"]
    /\ UNCHANGED <<openPage, kept, acked, listed, lockVars>>

\* Somebody else changes a row; so may a call that was given up here.
OthersChange(r) ==
    /\ kept[r] < MaxChanges
    /\ kept' = [kept EXCEPT ![r] = @ + 1]
    /\ UNCHANGED <<openPage, acked, listingVars, lockVars>>

\* Another page has a list of its own, counted from what the server has now.
OpenPage(p) ==
    /\ p # openPage /\ openPage' = p
    /\ kept' = [r \in ListRows |-> 0] /\ acked' = kept' /\ listed' = kept'
    /\ listFetch' = [st |-> "asked", rows |-> kept'] /\ listError' = FALSE
    /\ busyId' = NoRow /\ notifyingId' = NoRow /\ calls' = NoCalls
    /\ replying' = {} /\ createForm' = ClosedForm /\ delivery' = NoDelivery

-----------------------------------------------------------------------------
UnderWay == delivery.loading + (IF createForm.submitting THEN 1 ELSE 0)
                + MapThenSumSet(LAMBDA p : calls[p[1]][p[2]], Locks \X ListRows)

\* A handler, up to its await.
Call(lock, r) ==
    /\ UnderWay < MaxCalls
    /\ calls' = [calls EXCEPT ![lock][r] = @ + 1]
    /\ busyId' = IF lock = "row" THEN r ELSE busyId
    /\ notifyingId' = IF lock = "notify" THEN r ELSE notifyingId
    /\ UNCHANGED <<openPage, kept, acked, listingVars, replying, createForm, delivery>>

\* What the pages offer for a row: the buttons of its call are off while the
\* lock is on it, and nobody changes his own account.
ResolveOffered(r) == openPage = "alerts" /\ busyId # r
NewsRowOffered(r) == openPage = "news" /\ busyId # r
TrainRowOffered(r) == openPage = "scheduling" /\ busyId # r
NoticeOffered(r) == openPage = "scheduling" /\ notifyingId # r
UserRowOffered(r) == openPage = "users" /\ r # SelfRow /\ busyId # r
ReplyOffered(r) == openPage = "inbox" /\ r \in replying /\ calls["card"][r] = 0
\* One row, the passenger's journey: any call locks the card.
JourneyOffered(r) == openPage = "journey" /\ r = SelfRow /\ busyId = NoRow

HandleResolve(r) == ResolveOffered(r) /\ Call("row", r)
ToggleOrDelete(r) == NewsRowOffered(r) /\ Call("row", r)
\* Both ask for minutes in a prompt first: a cancelled or invalid answer calls
\* nothing.
ReportDelayOrAdjust(r) == TrainRowOffered(r) /\ Call("row", r)
HandleNotifyDelay(r) == NoticeOffered(r) /\ Call("notify", r)
HandleRoleOrActive(r) == UserRowOffered(r) /\ Call("row", r)
HandleReply(r) == ReplyOffered(r) /\ Call("card", r)
HandleCheckInOut(r) == JourneyOffered(r) /\ Call("row", r)

\* A card of the inbox: its form opens, or is cancelled.
Respond(r) ==
    /\ openPage = "inbox"
    /\ replying' = (replying \ {r}) \cup ({r} \ replying)
    /\ UNCHANGED <<openPage, kept, acked, listingVars, busyId, notifyingId, calls,
                   createForm, delivery>>

\* finally: the page's lock is opened whichever row the answer is for.
Unlock(lock) ==
    /\ busyId' = IF lock = "row" THEN NoRow ELSE busyId
    /\ notifyingId' = IF lock = "notify" THEN NoRow ELSE notifyingId

\* The call has changed the row (a notice changes none), the list is refreshed.
CallSucceeds(lock, r) ==
    /\ calls[lock][r] > 0
    /\ calls' = [calls EXCEPT ![lock][r] = @ - 1]
    /\ Unlock(lock)
    /\ replying' = IF lock = "card" THEN replying \ {r} ELSE replying
    /\ IF lock = "notify" THEN UNCHANGED <<kept, acked, listFetch>>
       ELSE /\ kept[r] < MaxChanges
            /\ kept' = [kept EXCEPT ![r] = @ + 1]
            /\ acked' = [acked EXCEPT ![r] = kept'[r]]
            /\ AskAgain
    /\ UNCHANGED <<openPage, listed, listError, createForm, delivery>>

\* Mutant of RowCallFails: the lock is opened by a success only.
RowCallFailsLocked(lock, r) ==
    /\ calls[lock][r] > 0
    /\ calls' = [calls EXCEPT ![lock][r] = @ - 1]
    /\ UNCHANGED <<openPage, kept, acked, listingVars, busyId, notifyingId, replying,
                   createForm, delivery>>

RowCallFails(lock, r) ==
    /\ calls[lock][r] > 0
    /\ calls' = [calls EXCEPT ![lock][r] = @ - 1]
    /\ Unlock(lock)
    /\ UNCHANGED <<openPage, kept, acked, listingVars, replying, createForm, delivery>>

-----------------------------------------------------------------------------
\* The forms that publish an alert, a news item or an enquiry.  Input that is
\* not complete never gets as far as a call.
ToggleForm ==
    /\ openPage \in {"alerts", "news"}
    /\ createForm' = [createForm EXCEPT !.open = ~@]
    /\ UNCHANGED <<openPage, kept, acked, listingVars, busyId, notifyingId, calls,
                   replying, delivery>>

AlertFormIsOpen == openPage = "alerts" /\ createForm.open
NewsFormIsOpen == openPage = "news" /\ createForm.open
EnquiryFormIsOpen == openPage = "inbox"

Submitted ==
    /\ ~createForm.submitting /\ UnderWay < MaxCalls
    /\ createForm' = [createForm EXCEPT !.submitting = TRUE]
    /\ UNCHANGED <<openPage, kept, acked, listingVars, busyId, notifyingId, calls,
                   replying, delivery>>

RaiseAlert == AlertFormIsOpen /\ Submitted
PublishNews == NewsFormIsOpen /\ Submitted
SendEnquiry == EnquiryFormIsOpen /\ Submitted

CreateAnswered ==
    /\ createForm.submitting
    /\ \/ createForm' = ClosedForm /\ AskAgain
       \/ createForm' = [createForm EXCEPT !.submitting = FALSE] /\ UNCHANGED listFetch
    /\ UNCHANGED <<openPage, kept, acked, listed, listError, busyId, notifyingId, calls,
                   replying, delivery>>

\* DeliveryStatus of an alert: the first click fetches, and only then opens.
ToggleDelivery ==
    /\ openPage = "alerts"
    /\ IF delivery.open \/ delivery.logs
       THEN delivery' = [delivery EXCEPT !.open = ~@]
       ELSE /\ UnderWay < MaxCalls
            /\ delivery' = [delivery EXCEPT !.loading = @ + 1]
    /\ UNCHANGED <<openPage, kept, acked, listingVars, busyId, notifyingId, calls,
                   replying, createForm>>

DeliveryAnswered ==
    /\ delivery.loading > 0
    /\ \/ delivery' = [open |-> ~delivery.open, logs |-> TRUE, loading |-> delivery.loading - 1]
       \/ delivery' = [delivery EXCEPT !.loading = @ - 1]
    /\ UNCHANGED <<openPage, kept, acked, listingVars, busyId, notifyingId, calls,
                   replying, createForm>>

PageNext ==
    \/ \E p \in ListPageNames : OpenPage(p)
    \/ ListRefresh \/ ListRead \/ ListAnswered \/ ListFails
    \/ \E r \in ListRows :
          \/ OthersChange(r) \/ HandleResolve(r) \/ ToggleOrDelete(r)
          \/ ReportDelayOrAdjust(r) \/ HandleNotifyDelay(r) \/ HandleRoleOrActive(r)
          \/ HandleCheckInOut(r) \/ Respond(r) \/ HandleReply(r)
    \/ \E lock \in Locks, r \in ListRows : CallSucceeds(lock, r) \/ RowCallFails(lock, r)
    \/ ToggleForm \/ RaiseAlert \/ PublishNews \/ SendEnquiry
    \/ CreateAnswered \/ ToggleDelivery \/ DeliveryAnswered

PageSpec == ListInit /\ [][PageNext]_pageVars

-----------------------------------------------------------------------------
\* A lock never outlasts the calls of its row, although one variable serves
\* them all and answers come in any order; and a reply is never sent twice.
LocksOpen ==
    /\ busyId # NoRow => calls["row"][busyId] > 0
    /\ notifyingId # NoRow => calls["notify"][notifyingId] > 0
    /\ \A r \in ListRows : calls["card"][r] <= 1

\* Once a change has been confirmed, a list that is shown with neither an error
\* nor a request under way contains it: no older answer overtakes the refresh.
\* The timetable, which a cache may answer, promises nothing of the kind.
OwnChangesShow ==
    openPage # "scheduling" /\ listFetch.st = "idle" /\ ~listError
        => \A r \in ListRows : listed[r] >= acked[r]
=============================================================================
