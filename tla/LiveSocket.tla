----------------------------- MODULE LiveSocket -----------------------------
(***************************************************************************)
(* The browser's side of the live channel: LiveSocketProvider.tsx.         *)
(*                                                                         *)
(* One provider, from the effect that mounts it to its clean-up.  The      *)
(* names follow the source: connecting, cleanedUp, retryTimer,             *)
(* heartbeatTimer, heartbeatTimeoutTimer, pendingMessages, flushHandle and *)
(* connectionStatus are its variables; sock is readyState of the socket    *)
(* it holds.  Delays are left out, except that a ping is answered or given *)
(* up before the next one (10 s against 15 s).                             *)
(*                                                                         *)
(* The network is the environment.  online is navigator.onLine, up says    *)
(* whether the server can be reached, live whether the peer of the open    *)
(* socket is still there: a socket can stay open with nobody behind it.    *)
(* Connections break, answers come too late, only while up is FALSE.       *)
(***************************************************************************)
EXTENDS Naturals, Sequences, SequencesExt

CONSTANTS
    Stations,      \* merge keys of crowd_update (station_id)
    MaxReading,    \* bound: readings pushed per station
    MaxPending     \* bound: messages waiting for one frame

ASSUME BoundsAreNaturals == MaxReading \in Nat /\ MaxPending \in Nat

VARIABLES
    online, up, live,
    sock, orphans, connecting, lookup, cleanedUp,
    retryTimer, heartbeat, pongTimer, connectionStatus,
    pendingMessages, flushHandle,
    reading, received, view

envVars == <<online, up>>
dialVars == <<sock, orphans, connecting, lookup, connectionStatus>>
timerVars == <<retryTimer, heartbeat, pongTimer>>
queueVars == <<pendingMessages, flushHandle>>
dataVars == <<reading, received, view>>
socketVars == <<envVars, live, dialVars, cleanedUp, timerVars, queueVars, dataVars>>

Statuses == {"connected", "reconnecting", "offline"}

\* A crowd_update carries updates for some stations; the other events are
\* "discrete": handed on one by one.  NoUpdates is the payload of those.
Updates == UNION {[S -> 1..MaxReading] : S \in SUBSET Stations \ {{}}}
NoUpdates == [s \in {} |-> 0]
Messages == Updates \cup {NoUpdates}

SocketTypeOK ==
    /\ online \in BOOLEAN /\ up \in BOOLEAN /\ live \in BOOLEAN
    /\ sock \in {"null", "connecting", "open", "closing", "closed"}
    /\ orphans \in BOOLEAN
    /\ connecting \in BOOLEAN
    /\ lookup \in {"none", "pending"}
    /\ cleanedUp \in BOOLEAN
    /\ retryTimer \in BOOLEAN /\ heartbeat \in BOOLEAN /\ pongTimer \in BOOLEAN
    /\ connectionStatus \in Statuses
    /\ pendingMessages \in Seq(Messages)
    /\ flushHandle \in BOOLEAN
    /\ reading \in 0..MaxReading
    /\ received \in [Stations -> 0..MaxReading]
    /\ view \in [Stations -> 0..MaxReading]

-----------------------------------------------------------------------------
\* Which messages of the queue carry an update of station s.
Naming(queue, s) == {i \in DOMAIN queue : s \in DOMAIN queue[i]}

\* Mutant of Merge: the first update of a station in a frame wins.
MergeFirstWins(queue, old) ==
    [s \in Stations |-> IF Naming(queue, s) = {} THEN old[s]
                        ELSE queue[Min(Naming(queue, s))][s]]

\* flushQueue: updates of one frame are merged per station, the last one wins.
\* Merge gives the value listeners get for each station; stations nobody
\* reported keep what they had.
Merge(queue, old) ==
    [s \in Stations |-> IF Naming(queue, s) = {} THEN old[s]
                        ELSE queue[Max(Naming(queue, s))][s]]

\* connect(), up to its first await.  A dial that is under way or a provider
\* that is gone makes it return; a browser that says it is offline makes it
\* wait for the online event.  net is navigator.onLine at the call.
ConnectWith(net, status) ==
    IF connecting \/ cleanedUp
    THEN /\ connectionStatus' = status
         /\ UNCHANGED <<connecting, lookup>>
    ELSE IF ~net
    THEN /\ connectionStatus' = "offline"
         /\ UNCHANGED <<connecting, lookup>>
    ELSE /\ connecting' = TRUE
         /\ lookup' = "pending"
         /\ connectionStatus' = status

SocketInit ==
    /\ online \in BOOLEAN /\ up = online /\ live = FALSE
    /\ sock = "null" /\ orphans = FALSE /\ cleanedUp = FALSE
    /\ connecting = online
    /\ lookup = IF online THEN "pending" ELSE "none"
    /\ connectionStatus = IF online THEN "reconnecting" ELSE "offline"
    /\ retryTimer = FALSE /\ heartbeat = FALSE /\ pongTimer = FALSE
    /\ pendingMessages = <<>> /\ flushHandle = FALSE
    /\ reading = 0
    /\ received = [s \in Stations |-> 0] /\ view = [s \in Stations |-> 0]

\* Mutant of CreateSocket: a provider that was unmounted meanwhile dials too.
CreateSocketAnyway ==
    /\ lookup' = "none"
    /\ sock' = "connecting"
    /\ orphans' = (orphans \/ sock \in {"connecting", "open", "closing"})
    /\ UNCHANGED <<connecting, envVars, live, cleanedUp, timerVars, connectionStatus, queueVars, dataVars>>

\* The token arrives, or the lookup fails, or withTimeout gives up on it: the
\* socket is created with the token or without one.  An older socket that still
\* lives would be lost to the provider: orphans says so.
CreateSocket ==
    /\ lookup' = "none"
    /\ IF cleanedUp
       THEN /\ connecting' = FALSE
            /\ UNCHANGED <<sock, orphans>>
       ELSE /\ sock' = "connecting"
            /\ orphans' = (orphans \/ sock \in {"connecting", "open", "closing"})
            /\ UNCHANGED connecting
    /\ UNCHANGED <<envVars, live, cleanedUp, timerVars, connectionStatus, queueVars, dataVars>>

ResolveAuthToken == lookup = "pending" /\ CreateSocket
TokenTimeout == lookup = "pending" /\ CreateSocket     \* the look-up hangs

\* onopen, without the resync it starts (see LiveClient)
OnOpen ==
    /\ sock = "connecting" /\ up /\ online
    /\ sock' = "open" /\ live' = TRUE
    /\ connecting' = FALSE
    /\ connectionStatus' = "connected"
    /\ heartbeat' = TRUE /\ pongTimer' = FALSE
    /\ UNCHANGED <<envVars, orphans, lookup, cleanedUp, retryTimer, queueVars, dataVars>>

\* onclose: the heartbeat stops; a mounted provider says why and arms one retry.
OnClose ==
    /\ sock' = "closed" /\ live' = FALSE
    /\ connecting' = FALSE
    /\ heartbeat' = FALSE /\ pongTimer' = FALSE
    /\ IF cleanedUp
       THEN UNCHANGED <<connectionStatus, retryTimer>>
       ELSE /\ connectionStatus' = IF online THEN "reconnecting" ELSE "offline"
            /\ retryTimer' = TRUE
    /\ UNCHANGED <<envVars, orphans, lookup, cleanedUp, queueVars, dataVars>>

DialFails == sock = "connecting" /\ ~(up /\ online) /\ OnClose
Dropped == sock = "open" /\ ~up /\ OnClose
Closed == sock = "closing" /\ OnClose

\* scheduleReconnect's timer
RetryFires ==
    /\ retryTimer
    /\ retryTimer' = FALSE
    /\ ConnectWith(online, connectionStatus)
    /\ UNCHANGED <<envVars, live, sock, orphans, cleanedUp, heartbeat, pongTimer, queueVars, dataVars>>

\* startHeartbeat: a ping, and the timer that gives its answer 10 s.
Ping ==
    /\ heartbeat /\ sock = "open" /\ ~pongTimer
    /\ pongTimer' = TRUE
    /\ UNCHANGED <<envVars, live, dialVars, cleanedUp, retryTimer, heartbeat, queueVars, dataVars>>

PongTimeout ==
    /\ pongTimer
    /\ ~live \/ ~up                 \* an answer is late only in a bad network
    /\ pongTimer' = FALSE
    /\ sock' = IF sock = "open" THEN "closing" ELSE sock
    /\ UNCHANGED <<envVars, live, orphans, connecting, lookup, connectionStatus, cleanedUp,
                   retryTimer, heartbeat, queueVars, dataVars>>

\* onmessage: any message is a sign of life; one with an event is queued for
\* the next frame.  Pong is the answer to a ping, it names no event.
OnMessage(queue) ==
    /\ sock = "open" /\ live /\ up
    /\ pongTimer' = FALSE
    /\ pendingMessages' = queue
    /\ flushHandle' = (flushHandle \/ queue # pendingMessages)
    /\ UNCHANGED <<envVars, live, dialVars, cleanedUp, retryTimer, heartbeat>>

Pong ==
    /\ pongTimer
    /\ OnMessage(pendingMessages)
    /\ UNCHANGED dataVars

\* The simulator reports a later reading of some stations.  Messages of one
\* connection arrive in order.
PushReadings(S) ==
    /\ reading < MaxReading
    /\ Len(pendingMessages) < MaxPending
    /\ reading' = reading + 1
    /\ OnMessage(Append(pendingMessages, [s \in S |-> reading + 1]))
    /\ received' = [s \in Stations |-> IF s \in S THEN reading + 1 ELSE received[s]]
    /\ UNCHANGED view

PushEvent ==
    /\ Len(pendingMessages) < MaxPending
    /\ OnMessage(Append(pendingMessages, NoUpdates))
    /\ UNCHANGED dataVars

\* flushPending, in the next animation frame, without what listeners of
\* discrete events do (see LiveClient)
Flush ==
    /\ flushHandle
    /\ flushHandle' = FALSE
    /\ pendingMessages' = <<>>
    /\ view' = Merge(pendingMessages, view)
    /\ UNCHANGED <<envVars, live, dialVars, cleanedUp, timerVars, reading, received>>

GoOnline ==
    /\ ~online
    /\ online' = TRUE
    /\ IF cleanedUp
       THEN UNCHANGED <<connecting, lookup, connectionStatus, retryTimer>>
       ELSE LET status == IF connectionStatus = "connected" THEN "connected" ELSE "reconnecting" IN
            /\ retryTimer' = FALSE
            /\ IF sock \in {"null", "closed"}
               THEN ConnectWith(TRUE, status)
               ELSE connectionStatus' = status /\ UNCHANGED <<connecting, lookup>>
    /\ UNCHANGED <<up, live, sock, orphans, cleanedUp, heartbeat, pongTimer, queueVars, dataVars>>

GoOffline ==
    /\ online
    /\ online' = FALSE
    /\ connectionStatus' = IF cleanedUp THEN connectionStatus ELSE "offline"
    /\ UNCHANGED <<up, live, sock, orphans, connecting, lookup, cleanedUp, timerVars, queueVars, dataVars>>

\* The network to the server breaks, comes back, or swallows the peer of an
\* open socket without a word.
NetworkChanges ==
    /\ up' = ~up
    /\ UNCHANGED <<online, live, dialVars, cleanedUp, timerVars, queueVars, dataVars>>

GoesSilent ==
    /\ sock = "open" /\ live /\ ~up
    /\ live' = FALSE
    /\ UNCHANGED <<envVars, dialVars, cleanedUp, timerVars, queueVars, dataVars>>

\* The effect's clean-up.  A token lookup that is under way goes on.
Unmount ==
    /\ ~cleanedUp
    /\ cleanedUp' = TRUE
    /\ retryTimer' = FALSE /\ heartbeat' = FALSE /\ pongTimer' = FALSE
    /\ pendingMessages' = <<>> /\ flushHandle' = FALSE
    /\ sock' = IF sock \in {"connecting", "open"} THEN "closing" ELSE sock
    /\ UNCHANGED <<envVars, live, orphans, connecting, lookup, connectionStatus, dataVars>>

\* What changes only the transport; OnOpen, Flush and PushEvent mean more to
\* the pages, which LiveClient says.
TransportNext ==
    \/ ResolveAuthToken \/ TokenTimeout
    \/ DialFails \/ Dropped \/ Closed
    \/ RetryFires \/ Ping \/ PongTimeout \/ Pong
    \/ \E S \in SUBSET Stations \ {{}} : PushReadings(S)
    \/ GoOnline \/ GoOffline \/ NetworkChanges \/ GoesSilent

SocketNext == TransportNext \/ OnOpen \/ PushEvent \/ Flush \/ Unmount

SocketSpec == SocketInit /\ [][SocketNext]_socketVars

-----------------------------------------------------------------------------
\* A provider has one socket at most that the server could talk to, and none
\* once it is unmounted, even if it was waiting for a token then.
OneSocket ==
    /\ ~orphans
    /\ cleanedUp => sock \notin {"connecting", "open"}

\* A mounted provider without a socket always has something coming that will
\* dial again: an attempt under way, the retry timer, or the online event.  An
\* open socket is under watch.
NeverWedged ==
    ~cleanedUp =>
        /\ sock \in {"null", "closed"} => connecting \/ retryTimer \/ ~online
        /\ sock = "open" => heartbeat
        /\ connecting => lookup # "none" \/ sock \in {"connecting", "closing"}

\* What the badge calls connected is a socket that has not been closed yet.
ConnectedIsOpen ==
    connectionStatus = "connected" /\ ~cleanedUp => sock \in {"open", "closing"} /\ online

\* The three together: whatever the network, the timers and the user do.
SocketIsSound == OneSocket /\ NeverWedged /\ ConnectedIsOpen

\* Once a frame is drawn, listeners have the last reading that arrived of every
\* station, however many arrived within the frame.
NewestReading ==
    ~cleanedUp /\ pendingMessages = <<>> => view = received
=============================================================================
