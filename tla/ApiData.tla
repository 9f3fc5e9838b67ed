------------------------------ MODULE ApiData ------------------------------
(***************************************************************************)
(* useApiData.ts: the cache that most pages read the REST API through.     *)
(*                                                                         *)
(* dataCache and inFlight are the module's two maps.  A consumer is one    *)
(* mounted use of the hook; at[c] is the cache key its effect runs for,    *)
(* shown[c], loading[c], error[c] what it returns, and debounce[c] the     *)
(* timer of the useDebouncedRefresh around its refresh.  An effect that    *)
(* has been cleaned up no longer sets state, so only the consumers whose   *)
(* current effect waits for a request are in its "joined".                 *)
(*                                                                         *)
(* Data is the server's version number when it was read: "sent" requests   *)
(* have not been read yet, "answered" ones carry version v on the way back,*)
(* "aborted" ones are about to reject.                                     *)
(***************************************************************************)
EXTENDS Naturals

CONSTANTS
    Consumers,
    Keys,
    None,          \* no key, no data
    MaxVersion     \* bound: changes of the data on the server

ASSUME NoneIsNoKey == None \notin Keys /\ None \notin Nat
ASSUME VersionsAreBounded == MaxVersion \in Nat
ASSUME NoneIsNoAnswer == None \notin [key : Keys, v : 0..MaxVersion]

VARIABLES version, dataCache, inFlight, at, shown, loading, error, retried, debounce

hookVars == <<at, shown, loading, error, retried, debounce>>
apiVars == <<version, dataCache, inFlight, hookVars>>

Versions == 0..MaxVersion
Idle == [st |-> "none", v |-> 0, by |-> "hook", joined |-> {}]
Requests == [st : {"none", "sent", "answered", "aborted"}, v : Versions,
             by : {"hook", "prefetch"}, joined : SUBSET Consumers]
Shown == [key : Keys, v : Versions]

ApiTypeOK ==
    /\ version \in Versions
    /\ dataCache \in [Keys -> Versions \cup {None}]
    /\ inFlight \in [Keys -> Requests]
    /\ at \in [Consumers -> Keys \cup {None}]
    /\ shown \in [Consumers -> Shown \cup {None}]
    /\ loading \in [Consumers -> BOOLEAN]
    /\ error \in [Consumers -> BOOLEAN]
    /\ retried \in [Consumers -> BOOLEAN]
    /\ debounce \in [Consumers -> BOOLEAN]

Mounted == {c \in Consumers : at[c] # None}

ApiInit ==
    /\ version = 0
    /\ dataCache = [k \in Keys |-> None]
    /\ inFlight = [k \in Keys |-> Idle]
    /\ at = [c \in Consumers |-> None]
    /\ shown = [c \in Consumers |-> None]
    /\ loading = [c \in Consumers |-> FALSE]
    /\ error = [c \in Consumers |-> FALSE]
    /\ retried = [c \in Consumers |-> FALSE]
    /\ debounce = [c \in Consumers |-> FALSE]

-----------------------------------------------------------------------------
\* Mutant of Released: a cleaned-up effect goes on waiting for its answer.
ReleasedStillJoined(k, S) ==
    LET r == inFlight[k] IN
    IF /\ \E c \in S : at[c] = k
       /\ \A c \in Consumers \ S : at[c] # k
       /\ r.by = "hook" /\ r.st \in {"sent", "answered"}
    THEN [r EXCEPT !.st = "aborted", !.v = 0]
    ELSE r

\* release(): when the last consumer that retained key k is among those whose
\* effects are cleaned up, the request they share is aborted.  A prefetch has
\* a controller of its own, which nobody aborts.
Released(k, S) ==
    LET r == inFlight[k]
        left == [r EXCEPT !.joined = @ \ S]
    IN  IF /\ \E c \in S : at[c] = k
           /\ \A c \in Consumers \ S : at[c] # k
           /\ r.by = "hook" /\ r.st \in {"sent", "answered"}
        THEN [left EXCEPT !.st = "aborted", !.v = 0]
        ELSE left

\* load(): join the request in flight for the key, or send one.
Loaded(r, J) ==
    IF J = {} THEN r
    ELSE IF r.st = "none"
    THEN [st |-> "sent", v |-> 0, by |-> "hook", joined |-> J]
    ELSE [r EXCEPT !.joined = @ \cup J]

\* One commit of React in which the effects of S run again, for the keys in
\* new: first every clean-up, then every effect.  A key that changed shows its
\* cached data at once; without any, what was shown stays while it loads.
Rerun(S, new) ==
    LET changed == {c \in S : new[c] # at[c]}
        cached == {c \in changed : new[c] # None /\ dataCache[new[c]] # None}
        uncached == {c \in changed : new[c] # None /\ dataCache[new[c]] = None}
    IN
    /\ at' = new
    /\ inFlight' = [k \in Keys |-> Loaded(Released(k, S), {c \in S : new[c] = k})]
    /\ retried' = [c \in Consumers |-> IF c \in S THEN FALSE ELSE retried[c]]
    /\ shown' = [c \in Consumers |->
                   IF c \in cached THEN [key |-> new[c], v |-> dataCache[new[c]]]
                   ELSE IF new[c] = None THEN None
                   ELSE shown[c]]
    /\ loading' = [c \in Consumers |->
                     IF c \in uncached THEN TRUE
                     ELSE IF c \in cached \/ new[c] = None THEN FALSE
                     ELSE loading[c]]
    /\ error' = [c \in Consumers |-> IF c \in cached \/ new[c] = None THEN FALSE ELSE error[c]]
    /\ UNCHANGED <<version, dataCache>>

Mount(c, k) ==
    /\ at[c] = None
    /\ Rerun({c}, [at EXCEPT ![c] = k])
    /\ UNCHANGED debounce

\* The deps change: another state, station or tab is selected.
ChangeKey(c, k) ==
    /\ at[c] \notin {None, k}
    /\ Rerun({c}, [at EXCEPT ![c] = k])
    /\ UNCHANGED debounce

UnmountConsumer(c) ==
    /\ at[c] # None
    /\ Rerun({c}, [at EXCEPT ![c] = None])
    /\ debounce' = [debounce EXCEPT ![c] = FALSE]

\* refresh(): the tick of this consumer changes, its effect runs again.
Refresh(c) ==
    /\ at[c] # None
    /\ Rerun({c}, at)
    /\ UNCHANGED debounce

\* invalidateApiData(): every mounted consumer runs again, in one commit.
Resync == Rerun(Mounted, at) /\ UNCHANGED debounce

\* Mutant of Notify: nobody listens to the event.
NotifyNobody == UNCHANGED debounce

\* An event arms the timers of the consumers that subscribe; a timer that is
\* armed already starts over.
Notify == debounce' = [c \in Consumers |-> at[c] # None]

DebounceFires(c) ==
    /\ debounce[c]
    /\ debounce' = [debounce EXCEPT ![c] = FALSE]
    /\ Rerun({c}, at)

\* A tick of the polling interval, or the document becoming visible again.
PollTick(c) ==
    /\ at[c] # None
    /\ inFlight' = [inFlight EXCEPT ![at[c]] = Loaded(@, {c})]
    /\ UNCHANGED <<version, dataCache, hookVars>>

\* prefetchApiData(): nothing in flight, and no data fresh enough.
Prefetch(k) ==
    /\ inFlight[k].st = "none"
    /\ inFlight' = [inFlight EXCEPT ![k] = [Idle EXCEPT !.st = "sent", !.by = "prefetch"]]
    /\ UNCHANGED <<version, dataCache, hookVars>>

ServerReads(k) ==
    /\ inFlight[k].st = "sent"
    /\ inFlight' = [inFlight EXCEPT ![k].st = "answered", ![k].v = version]
    /\ UNCHANGED <<version, dataCache, hookVars>>

\* The promise resolves: the cache is written whoever waits, and the consumers
\* that still do show the answer.
Resolved(k) ==
    LET r == inFlight[k] IN
    /\ r.st = "answered"
    /\ dataCache' = [dataCache EXCEPT ![k] = r.v]
    /\ shown' = [c \in Consumers |-> IF c \in r.joined THEN [key |-> k, v |-> r.v] ELSE shown[c]]
    /\ loading' = [c \in Consumers |-> loading[c] /\ c \notin r.joined]
    /\ error' = [c \in Consumers |-> error[c] /\ c \notin r.joined]
    /\ inFlight' = [inFlight EXCEPT ![k] = Idle]
    /\ UNCHANGED <<version, at, retried, debounce>>

\* It rejects because the request failed ...
Failed(k) ==
    LET r == inFlight[k] IN
    /\ r.st \in {"sent", "answered"}
    /\ loading' = [c \in Consumers |-> loading[c] /\ c \notin r.joined]
    /\ error' = [c \in Consumers |-> error[c] \/ c \in r.joined]
    /\ inFlight' = [inFlight EXCEPT ![k] = Idle]
    /\ UNCHANGED <<version, dataCache, at, shown, retried, debounce>>

\* Mutant of Aborted: nobody loads again.
AbortedForGood(k) ==
    /\ inFlight[k].st = "aborted"
    /\ inFlight' = [inFlight EXCEPT ![k] = Idle]
    /\ UNCHANGED <<version, dataCache, hookVars>>

\* ... or because it was aborted: an effect that joined it loads once more.
Aborted(k) ==
    LET again == {c \in inFlight[k].joined : ~retried[c]} IN
    /\ inFlight[k].st = "aborted"
    /\ inFlight' = [inFlight EXCEPT ![k] = Loaded(Idle, again)]
    /\ retried' = [c \in Consumers |-> retried[c] \/ c \in again]
    /\ UNCHANGED <<version, dataCache, at, shown, loading, error, debounce>>

\* The data changes on the server.
ServerChanges ==
    /\ version < MaxVersion
    /\ version' = version + 1
    /\ UNCHANGED <<dataCache, inFlight, hookVars>>

\* Bound: only the data of pages that are closed is prefetched.
PrefetchPage(k) == (\A c \in Consumers : at[c] # k) /\ Prefetch(k)

\* The cache by itself; events come with the socket, see LiveClient.
ApiNext ==
    \/ \E c \in Consumers :
          \/ \E k \in Keys : Mount(c, k) \/ ChangeKey(c, k)
          \/ UnmountConsumer(c) \/ Refresh(c) \/ PollTick(c)
    \/ \E k \in Keys :
          PrefetchPage(k) \/ ServerReads(k) \/ Resolved(k) \/ Failed(k) \/ Aborted(k)
    \/ Resync
    \/ ServerChanges

ApiSpec == ApiInit /\ [][ApiNext]_apiVars

-----------------------------------------------------------------------------
\* Data that is shown with neither a spinner nor an error was read for the key
\* the consumer asks for now, not for the one it asked for before.
ShownIsAsked ==
    \A c \in Consumers :
        at[c] # None /\ ~loading[c] /\ ~error[c] => shown[c] # None /\ shown[c].key = at[c]

\* A spinner always ends: a consumer that is loading waits for a request that
\* is under way, or for one whose rejection makes it send another.
LoadingIsAwaited ==
    \A c \in Consumers :
        loading[c] => /\ at[c] # None
                      /\ c \in inFlight[at[c]].joined
                      /\ inFlight[at[c]].st # "none"
                      /\ inFlight[at[c]].st = "aborted" => ~retried[c]
=============================================================================
