----------------------------- MODULE LiveClient -----------------------------
(***************************************************************************)
(* The live channel and the data cache together, as a page of the          *)
(* dashboard uses them: events refresh what is shown, polling replaces     *)
(* them while the socket is down, and an opening socket makes everybody    *)
(* read again what was missed.                                             *)
(*                                                                         *)
(* Users is the set of consumers and LiveKeys the keys they read; readings *)
(* in a payload (LiveSocket) are not followed here.                        *)
(***************************************************************************)
EXTENDS LiveSocket, ApiData

CONSTANTS Users, LiveKeys

ASSUME PagesReadTheCache == Users \subseteq Consumers /\ LiveKeys \subseteq Keys

liveVars == <<socketVars, apiVars>>

LiveInit == SocketInit /\ ApiInit

\* resyncOnConnect() is the last thing onopen does.
OpenAndResync == OnOpen /\ Resync

\* A frame hands the queued events to the listeners of mounted consumers.
FlushEvents == Flush /\ Notify /\ UNCHANGED <<version, dataCache, inFlight, at, shown, loading, error, retried>>

\* The pages go with the provider that is above them in the layout.
LeaveDashboard ==
    /\ Unmount
    /\ Rerun(Mounted, [c \in Consumers |-> None])
    /\ debounce' = [c \in Consumers |-> FALSE]

\* intervalMs is 0 while the socket is up: isConnected ? 0 : FALLBACK_POLL_MS.
FallbackPoll(c) == connectionStatus # "connected" /\ PollTick(c)

PageStep ==
    \/ ~cleanedUp /\ \E c \in Users :
          \/ \E k \in LiveKeys : Mount(c, k) \/ ChangeKey(c, k)
          \/ UnmountConsumer(c) \/ DebounceFires(c) \/ FallbackPoll(c)
    \/ ~cleanedUp /\ \E k \in LiveKeys : PrefetchPage(k)

RequestStep(k) ==
    \/ up /\ online /\ ServerReads(k)
    \/ ~(up /\ online) /\ Failed(k)
    \/ Resolved(k) \/ Aborted(k)

TransportStep ==
    \/ ResolveAuthToken \/ TokenTimeout
    \/ DialFails \/ Dropped \/ Closed
    \/ RetryFires \/ Ping \/ PongTimeout \/ Pong
    \/ GoOnline \/ GoOffline \/ NetworkChanges \/ GoesSilent
    \/ PushEvent

LiveNext ==
    \/ OpenAndResync \/ FlushEvents \/ LeaveDashboard
    \/ TransportStep /\ UNCHANGED apiVars
    \/ PageStep /\ UNCHANGED socketVars
    \/ (\E k \in LiveKeys : RequestStep(k)) /\ UNCHANGED socketVars
    \/ ServerChanges /\ UNCHANGED socketVars

\* Timers fire, frames are drawn and the browser ends what it has begun.  Nothing
\* is fair about the network or the user.  The simulators tick
\* for ever, so events keep coming, and requests are answered: strongly, since
\* an event may abort the one before, but they come every few seconds and a
\* request does not take as long every time.
LiveFairness ==
    /\ WF_liveVars(TokenTimeout /\ UNCHANGED apiVars)
    /\ WF_liveVars(DialFails /\ UNCHANGED apiVars) /\ WF_liveVars(Closed /\ UNCHANGED apiVars)
    /\ WF_liveVars(RetryFires /\ UNCHANGED apiVars)
    /\ WF_liveVars(Ping /\ UNCHANGED apiVars) /\ WF_liveVars(PongTimeout /\ UNCHANGED apiVars)
    /\ WF_liveVars(OpenAndResync) /\ WF_liveVars(FlushEvents)
    /\ WF_liveVars(PushEvent /\ UNCHANGED apiVars)
    /\ \A c \in Users : WF_liveVars(DebounceFires(c) /\ UNCHANGED socketVars)
    /\ \A k \in LiveKeys :
          /\ SF_liveVars(up /\ online /\ ServerReads(k) /\ UNCHANGED socketVars)
          /\ SF_liveVars(Resolved(k) /\ UNCHANGED socketVars)
          /\ WF_liveVars(Aborted(k) /\ UNCHANGED socketVars)

LiveSpec == LiveInit /\ [][LiveNext]_liveVars /\ LiveFairness

\* A page that stays ends up showing what the server has, without a reload,
\* once the network is good: whatever was pushed while the socket was down.
EventuallyFresh ==
    \A c \in Users, k \in LiveKeys :
        <>[](online /\ up /\ at[c] = k)
            => <>[](~loading[c] /\ ~error[c] /\ shown[c] = [key |-> k, v |-> version])
=============================================================================
