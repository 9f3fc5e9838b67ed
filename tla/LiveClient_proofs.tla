--------------------------- MODULE LiveClient_proofs ---------------------------
(***************************************************************************)
(* Proofs about the live channel and the data cache (LiveSocket, ApiData)  *)
(* as the pages use them together (LiveClient): the socket is sound and    *)
(* hands on the newest readings, and the cache mixes nothing up, for any   *)
(* stations, consumers and keys.                                           *)
(***************************************************************************)
EXTENDS LiveClient, FiniteOrders

-----------------------------------------------------------------------------
\* A token is looked up only while there is no socket, the retry timer runs
\* only after one has closed: so no two dials meet.
SocketInv ==
    /\ ~orphans
    /\ cleanedUp => sock \notin {"connecting", "open"} /\ ~retryTimer
    /\ lookup # "none" => connecting /\ sock \in {"null", "closed"}
    /\ retryTimer => sock = "closed" /\ ~connecting
    /\ sock = "open" => heartbeat /\ ~connecting
    /\ NeverWedged
    /\ ConnectedIsOpen

LEMMA SocketStep == SocketInv /\ [SocketNext]_socketVars => SocketInv'
<1> SUFFICES ASSUME SocketInv, [SocketNext]_socketVars PROVE SocketInv'
  OBVIOUS
<1> USE DEF SocketInv, NeverWedged, ConnectedIsOpen
<1> USE DEF envVars, dialVars, timerVars, queueVars, dataVars
<1>1. CASE ResolveAuthToken \/ TokenTimeout
  <2>1. lookup = "pending" /\ CreateSocket
    BY <1>1 DEF ResolveAuthToken, TokenTimeout
  <2>2. connecting /\ sock \in {"null", "closed"} /\ ~retryTimer
    BY <2>1
  <2>3. CASE cleanedUp
    BY <2>1, <2>2, <2>3 DEF CreateSocket
  <2>4. CASE ~cleanedUp
    BY <2>1, <2>2, <2>4 DEF CreateSocket
  <2>5. QED
    BY <2>3, <2>4
<1>2. CASE OnOpen
  BY <1>2 DEF OnOpen
<1>3. CASE DialFails \/ Dropped \/ Closed
  BY <1>3 DEF DialFails, Dropped, Closed, OnClose
<1>4. CASE RetryFires
  BY <1>4 DEF RetryFires, ConnectWith
<1>5. CASE Ping
  BY <1>5 DEF Ping
<1>6. CASE PongTimeout
  BY <1>6 DEF PongTimeout
<1>7. ASSUME NEW queue, OnMessage(queue) PROVE SocketInv'
  BY <1>7 DEF OnMessage
<1>8. CASE Pong \/ PushEvent \/ \E S \in SUBSET Stations \ {{}} : PushReadings(S)
  BY <1>8, <1>7 DEF Pong, PushEvent, PushReadings
<1>9. CASE GoOnline
  BY <1>9 DEF GoOnline, ConnectWith
<1>10. CASE GoOffline
  BY <1>10 DEF GoOffline
<1>11. CASE NetworkChanges
  BY <1>11 DEF NetworkChanges
<1>12. CASE GoesSilent
  BY <1>12 DEF GoesSilent
<1>13. CASE Flush
  BY <1>13 DEF Flush
<1>14. CASE Unmount
  BY <1>14 DEF Unmount
<1>15. CASE UNCHANGED socketVars
  BY <1>15 DEF socketVars
<1>16. QED
  BY <1>1, <1>2, <1>3, <1>4, <1>5, <1>6, <1>8, <1>9, <1>10, <1>11, <1>12, <1>13, <1>14, <1>15
     DEF SocketNext, TransportNext

LEMMA SocketStarts == SocketInit => SocketInv
  BY DEF SocketInit, SocketInv, NeverWedged, ConnectedIsOpen

LEMMA SocketHolds == SocketInv => SocketIsSound
  BY DEF SocketInv, SocketIsSound, OneSocket

\* Whatever the network, the timers and the user do, a provider has one socket
\* at most, never waits for nothing, and says connected only of an open socket.
THEOREM SocketStaysSound == SocketSpec => []SocketIsSound
  BY SocketStarts, SocketStep, SocketHolds, PTL DEF SocketSpec

-----------------------------------------------------------------------------
\* The last message that names a station.
LEMMA LastNaming ==
    ASSUME NEW q \in Seq(Messages), NEW s, Naming(q, s) # {}
    PROVE  /\ Max(Naming(q, s)) \in 1..Len(q)
           /\ s \in DOMAIN q[Max(Naming(q, s))]
<1>1. Len(q) \in Nat /\ DOMAIN q = 1..Len(q)
  OBVIOUS
<1>2. Naming(q, s) \in SUBSET Nat /\ \A i \in Naming(q, s) : i \in 0..Len(q)
  BY <1>1 DEF Naming
<1>3. PICK x \in Naming(q, s) : \A y \in Naming(q, s) : y <= x
  BY <1>1, <1>2, LargestExists
<1>4. Max(Naming(q, s)) = x
  BY <1>2, <1>3, MaxIsLargest
<1>5. QED
  BY <1>1, <1>4 DEF Naming

\* A message that arrives decides on the stations it names and on no other.
LEMMA MergeOfArrival ==
    ASSUME NEW q \in Seq(Messages), NEW m \in Messages, NEW old, NEW s \in Stations
    PROVE  Merge(Append(q, m), old)[s] = IF s \in DOMAIN m THEN m[s] ELSE Merge(q, old)[s]
<1> DEFINE p == Append(q, m)
<1>1. /\ Len(q) \in Nat /\ DOMAIN q = 1..Len(q) /\ DOMAIN p = 1..(Len(q) + 1)
      /\ p[Len(q) + 1] = m /\ \A i \in 1..Len(q) : p[i] = q[i]
  OBVIOUS
<1> HIDE DEF p
<1>2. CASE s \in DOMAIN m
  <2>1. /\ Naming(p, s) \in SUBSET Nat /\ Len(q) + 1 \in Naming(p, s)
        /\ \A i \in Naming(p, s) : i <= Len(q) + 1
    BY <1>1, <1>2 DEF Naming
  <2>2. Max(Naming(p, s)) = Len(q) + 1
    BY <2>1, MaxIsLargest
  <2>3. QED
    BY <1>1, <1>2, <2>1, <2>2 DEF Merge, p
<1>3. CASE s \notin DOMAIN m
  <2>1. Naming(p, s) = Naming(q, s)
    BY <1>1, <1>3 DEF Naming
  <2>2. CASE Naming(q, s) = {}
    BY <1>3, <2>1, <2>2 DEF Merge, p
  <2>3. CASE Naming(q, s) # {}
    <3>1. p[Max(Naming(q, s))] = q[Max(Naming(q, s))]
      BY <1>1, <2>3, LastNaming
    <3>2. QED
      BY <1>3, <2>1, <2>3, <3>1 DEF Merge, p
  <2>4. QED
    BY <2>2, <2>3
<1>4. QED
  BY <1>2, <1>3

LEMMA MergeTypes ==
    ASSUME NEW q \in Seq(Messages), NEW old \in [Stations -> 0..MaxReading]
    PROVE  Merge(q, old) \in [Stations -> 0..MaxReading]
<1>1. ASSUME NEW s \in Stations, Naming(q, s) # {}
      PROVE  q[Max(Naming(q, s))][s] \in 0..MaxReading
  <2> DEFINE i == Max(Naming(q, s))
  <2>1. i \in 1..Len(q) /\ s \in DOMAIN q[i]
    BY <1>1, LastNaming
  <2> HIDE DEF i
  <2>2. q[i] \in Messages /\ q[i] # NoUpdates
    BY <2>1 DEF NoUpdates
  <2>3. PICK S \in SUBSET Stations : q[i] \in [S -> 1..MaxReading]
    BY <2>2 DEF Messages, Updates
  <2>4. q[i][s] \in 1..MaxReading
    BY <2>1, <2>3
  <2>5. QED
    BY <2>4, BoundsAreNaturals DEF i
<1>2. QED
  BY <1>1 DEF Merge

\* What the simulator pushes is a message.
LEMMA PushedIsMessage ==
    ASSUME reading \in 0..MaxReading, NEW S \in SUBSET Stations \ {{}}, PushReadings(S)
    PROVE  [s \in S |-> reading + 1] \in Messages
<1>1. reading + 1 \in 1..MaxReading
  BY BoundsAreNaturals DEF PushReadings
<1>2. [s \in S |-> reading + 1] \in [S -> 1..MaxReading]
  BY <1>1
<1>3. QED
  BY <1>2 DEF Messages, Updates

\* The types, in three parts: the flags, the states and what the connection
\* carries.
FlagsOK ==
    /\ online \in BOOLEAN /\ up \in BOOLEAN /\ live \in BOOLEAN
    /\ orphans \in BOOLEAN /\ connecting \in BOOLEAN /\ cleanedUp \in BOOLEAN
    /\ retryTimer \in BOOLEAN /\ heartbeat \in BOOLEAN /\ pongTimer \in BOOLEAN
    /\ flushHandle \in BOOLEAN
StatesOK ==
    /\ sock \in {"null", "connecting", "open", "closing", "closed"}
    /\ lookup \in {"none", "pending"}
    /\ connectionStatus \in Statuses
QueueOK ==
    /\ pendingMessages \in Seq(Messages)
    /\ reading \in 0..MaxReading
    /\ received \in [Stations -> 0..MaxReading] /\ view \in [Stations -> 0..MaxReading]

LEMMA SocketTypesSplit == SocketTypeOK <=> FlagsOK /\ StatesOK /\ QueueOK
  BY DEF SocketTypeOK, FlagsOK, StatesOK, QueueOK

LEMMA FlagsStep == FlagsOK /\ [SocketNext]_socketVars => FlagsOK'
<1> SUFFICES ASSUME FlagsOK, [SocketNext]_socketVars PROVE FlagsOK'
  OBVIOUS
<1> USE DEF FlagsOK, envVars, dialVars, timerVars, queueVars
<1>1. CASE ResolveAuthToken \/ TokenTimeout \/ OnOpen
  BY <1>1 DEF ResolveAuthToken, TokenTimeout, CreateSocket, OnOpen
<1>2. CASE DialFails \/ Dropped \/ Closed
  BY <1>2 DEF DialFails, Dropped, Closed, OnClose
<1>3. CASE RetryFires \/ GoOnline
  BY <1>3 DEF RetryFires, GoOnline, ConnectWith
<1>4. CASE Ping \/ PongTimeout
  BY <1>4 DEF Ping, PongTimeout
<1>5. ASSUME NEW queue, OnMessage(queue) PROVE FlagsOK'
  BY <1>5 DEF OnMessage
<1>6. CASE Pong \/ PushEvent \/ \E S \in SUBSET Stations \ {{}} : PushReadings(S)
  BY <1>5, <1>6 DEF Pong, PushEvent, PushReadings
<1>7. CASE GoOffline \/ NetworkChanges \/ GoesSilent
  BY <1>7 DEF GoOffline, NetworkChanges, GoesSilent
<1>8. CASE Flush \/ Unmount
  BY <1>8 DEF Flush, Unmount
<1>9. CASE UNCHANGED socketVars
  BY <1>9 DEF socketVars
<1>10. QED
  BY <1>1, <1>2, <1>3, <1>4, <1>6, <1>7, <1>8, <1>9 DEF SocketNext, TransportNext

LEMMA StatesStep == StatesOK /\ [SocketNext]_socketVars => StatesOK'
<1> SUFFICES ASSUME StatesOK, [SocketNext]_socketVars PROVE StatesOK'
  OBVIOUS
<1> USE DEF StatesOK, Statuses, dialVars
<1>1. CASE ResolveAuthToken \/ TokenTimeout \/ OnOpen
  BY <1>1 DEF ResolveAuthToken, TokenTimeout, CreateSocket, OnOpen
<1>2. CASE DialFails \/ Dropped \/ Closed
  BY <1>2 DEF DialFails, Dropped, Closed, OnClose
<1>3. CASE RetryFires \/ GoOnline
  BY <1>3 DEF RetryFires, GoOnline, ConnectWith
<1>4. CASE Ping \/ PongTimeout
  BY <1>4 DEF Ping, PongTimeout
<1>5. CASE Pong \/ PushEvent \/ \E S \in SUBSET Stations \ {{}} : PushReadings(S)
  BY <1>5 DEF Pong, PushEvent, PushReadings, OnMessage
<1>6. CASE GoOffline \/ NetworkChanges \/ GoesSilent
  BY <1>6 DEF GoOffline, NetworkChanges, GoesSilent
<1>7. CASE Flush \/ Unmount
  BY <1>7 DEF Flush, Unmount
<1>8. CASE UNCHANGED socketVars
  BY <1>8 DEF socketVars
<1>9. QED
  BY <1>1, <1>2, <1>3, <1>4, <1>5, <1>6, <1>7, <1>8 DEF SocketNext, TransportNext

\* Most steps touch nothing of what the connection carries.
LEMMA QueueRests ==
    ASSUME \/ ResolveAuthToken \/ TokenTimeout \/ DialFails \/ Dropped \/ Closed
           \/ RetryFires \/ Ping \/ PongTimeout
           \/ GoOnline \/ GoOffline \/ NetworkChanges \/ GoesSilent \/ OnOpen
           \/ UNCHANGED socketVars
    PROVE  UNCHANGED <<cleanedUp, pendingMessages, reading, received, view>>
  BY DEF ResolveAuthToken, TokenTimeout, CreateSocket, DialFails, Dropped, Closed, OnClose,
         RetryFires, Ping, PongTimeout, GoOnline, GoOffline, NetworkChanges, GoesSilent, OnOpen,
         timerVars, queueVars, dataVars, socketVars

LEMMA QueueStep == QueueOK /\ [SocketNext]_socketVars => QueueOK'
<1> SUFFICES ASSUME QueueOK, [SocketNext]_socketVars PROVE QueueOK'
  OBVIOUS
<1>1. CASE Pong
  BY <1>1 DEF Pong, OnMessage, dataVars, QueueOK
<1>2. CASE PushEvent
  <2>1. Append(pendingMessages, NoUpdates) \in Seq(Messages)
    BY DEF Messages, QueueOK
  <2>2. QED
    BY <1>2, <2>1 DEF PushEvent, OnMessage, dataVars, QueueOK
<1>3. ASSUME NEW S \in SUBSET Stations \ {{}}, PushReadings(S)
      PROVE  QueueOK'
  <2>1. Append(pendingMessages, [s \in S |-> reading + 1]) \in Seq(Messages)
    <3>1. [s \in S |-> reading + 1] \in Messages
      BY <1>3, PushedIsMessage DEF QueueOK
    <3>2. QED
      BY <3>1 DEF QueueOK
  <2>2. reading + 1 \in 0..MaxReading
    BY <1>3, BoundsAreNaturals DEF PushReadings, QueueOK
  <2>3. received' \in [Stations -> 0..MaxReading] /\ reading' \in 0..MaxReading /\ view' = view
    BY <1>3, <2>2 DEF PushReadings, QueueOK
  <2>4. pendingMessages' \in Seq(Messages)
    BY <1>3, <2>1 DEF PushReadings, OnMessage, QueueOK
  <2>5. QED
    BY <2>3, <2>4 DEF QueueOK
<1>4. CASE Flush
  <2>1. view' \in [Stations -> 0..MaxReading]
    BY <1>4, MergeTypes DEF Flush, QueueOK
  <2>2. QED
    BY <1>4, <2>1 DEF Flush, QueueOK
<1>5. CASE Unmount
  BY <1>5 DEF Unmount, dataVars, QueueOK
<1>6. CASE UNCHANGED <<pendingMessages, reading, received, view>>
  BY <1>6 DEF QueueOK
<1>7. QED
  BY <1>1, <1>2, <1>3, <1>4, <1>5, <1>6, QueueRests DEF SocketNext, TransportNext

\* What the socket delivers: the queue of the next frame holds, for each
\* station, the last reading the listeners do not have yet.
ReadingsInv ==
    /\ FlagsOK /\ StatesOK /\ QueueOK
    /\ ~cleanedUp => received = Merge(pendingMessages, view)

LEMMA ReadingsStep == ReadingsInv /\ [SocketNext]_socketVars => ReadingsInv'
<1> SUFFICES ASSUME ReadingsInv, [SocketNext]_socketVars PROVE ReadingsInv'
  OBVIOUS
<1>0. FlagsOK' /\ StatesOK' /\ QueueOK'
  BY FlagsStep, StatesStep, QueueStep DEF ReadingsInv
<1>1. SUFFICES ASSUME ~cleanedUp'
               PROVE  received' = Merge(pendingMessages', view')
  BY <1>0 DEF ReadingsInv, Merge, Naming
<1>2. CASE UNCHANGED <<cleanedUp, pendingMessages, received, view>>
  BY <1>1, <1>2 DEF ReadingsInv
<1>3. /\ pendingMessages \in Seq(Messages) /\ received \in [Stations -> 0..MaxReading]
      /\ view \in [Stations -> 0..MaxReading]
  BY DEF ReadingsInv, QueueOK
<1>4. ASSUME NEW m \in Messages, pendingMessages' = Append(pendingMessages, m),
             cleanedUp' = cleanedUp, view' = view,
             received' = [s \in Stations |-> IF s \in DOMAIN m THEN m[s] ELSE received[s]]
      PROVE  received' = Merge(pendingMessages', view')
  <2>1. \A s \in Stations : received'[s] = Merge(pendingMessages', view')[s]
    <3>1. received = Merge(pendingMessages, view)
      BY <1>1, <1>4 DEF ReadingsInv
    <3>2. QED
      BY <1>3, <1>4, <3>1, MergeOfArrival
  <2>2. QED
    BY <1>4, <2>1 DEF Merge
<1>5. CASE PushEvent
  <2>1. NoUpdates \in Messages /\ DOMAIN NoUpdates = {}
    BY DEF Messages, NoUpdates
  <2>2. received = [s \in Stations |-> received[s]]
    BY <1>3
  <2>3. QED
    BY <1>4, <1>5, <2>1, <2>2 DEF PushEvent, OnMessage, dataVars
<1>6. ASSUME NEW S \in SUBSET Stations \ {{}}, PushReadings(S)
      PROVE  received' = Merge(pendingMessages', view')
  <2> DEFINE m == [s \in S |-> reading + 1]
  <2>1. m \in Messages /\ DOMAIN m = S /\ \A s \in S : m[s] = reading + 1
    BY <1>6, PushedIsMessage DEF ReadingsInv, QueueOK
  <2>2. /\ pendingMessages' = Append(pendingMessages, m) /\ cleanedUp' = cleanedUp /\ view' = view
        /\ received' = [s \in Stations |-> IF s \in S THEN reading + 1 ELSE received[s]]
    BY <1>6 DEF PushReadings, OnMessage
  <2>3. received' = [s \in Stations |-> IF s \in DOMAIN m THEN m[s] ELSE received[s]]
    BY <2>1, <2>2
  <2> HIDE DEF m
  <2>4. QED
    BY <1>4, <2>1, <2>2, <2>3
<1>7. CASE Flush
  <2>1. received = Merge(pendingMessages, view)
    BY <1>1, <1>7 DEF ReadingsInv, Flush
  <2>2. view' = received /\ received' = received /\ pendingMessages' = <<>>
    BY <1>7, <2>1 DEF Flush
  <2>3. \A s : Naming(<<>>, s) = {}
    BY DEF Naming
  <2>4. QED
    BY <1>3, <2>2, <2>3 DEF Merge
<1>8. CASE Unmount
  BY <1>1, <1>8 DEF Unmount
<1>9. CASE Pong
  BY <1>2, <1>9 DEF Pong, OnMessage, dataVars
<1>10. QED
  BY <1>2, <1>5, <1>6, <1>7, <1>8, <1>9, QueueRests DEF SocketNext, TransportNext

LEMMA ReadingsStart == SocketInit => ReadingsInv
<1> SUFFICES ASSUME SocketInit PROVE ReadingsInv
  OBVIOUS
<1>1. FlagsOK
  BY DEF SocketInit, FlagsOK
<1>2. StatesOK
  BY DEF SocketInit, StatesOK, Statuses
<1>3. QueueOK
  BY BoundsAreNaturals DEF SocketInit, QueueOK
<1>4. \A s : Naming(<<>>, s) = {}
  BY DEF Naming
<1>5. received = Merge(pendingMessages, view)
  BY <1>4 DEF SocketInit, Merge
<1>6. QED
  BY <1>1, <1>2, <1>3, <1>5 DEF ReadingsInv

LEMMA ReadingsHold == ReadingsInv => SocketTypeOK /\ NewestReading
<1> SUFFICES ASSUME ReadingsInv, ~cleanedUp, pendingMessages = <<>>
             PROVE  view = received
  BY SocketTypesSplit DEF ReadingsInv, NewestReading
<1>1. \A s : Naming(<<>>, s) = {}
  BY DEF Naming
<1>2. view \in [Stations -> 0..MaxReading]
  BY DEF ReadingsInv, QueueOK
<1>3. QED
  BY <1>1, <1>2 DEF ReadingsInv, Merge

\* However many readings arrive within a frame, in whatever messages, and
\* however often the socket goes and comes meanwhile: once the frame is drawn,
\* the listeners have the last one of every station.
THEOREM ListenersHaveTheNewest == SocketSpec => [](SocketTypeOK /\ NewestReading)
  BY ReadingsStart, ReadingsStep, ReadingsHold, PTL DEF SocketSpec

-----------------------------------------------------------------------------
\* Whoever waits for the request of a key is a consumer of that key now.
JoinedIsHere == \A k \in Keys, c \in Consumers : c \in inFlight[k].joined => at[c] = k

ApiInv == ApiTypeOK /\ JoinedIsHere /\ LoadingIsAwaited /\ ShownIsAsked

\* load() makes those of J wait for the request, and forgets nobody who does.
LEMMA LoadedJoins ==
    ASSUME NEW r \in Requests, NEW J \in SUBSET Consumers
    PROVE  /\ Loaded(r, J) \in Requests
           /\ J \subseteq Loaded(r, J).joined
           /\ Loaded(r, J).joined \subseteq r.joined \cup J
           /\ J # {} => Loaded(r, J).st # "none"
           /\ r.st # "none" => Loaded(r, J).st = r.st /\ r.joined \subseteq Loaded(r, J).joined
           /\ Loaded(r, J).st = "aborted" => r.st = "aborted"
<1>1. CASE J = {}
  BY <1>1 DEF Loaded
<1>2. CASE J # {} /\ r.st = "none"
  <2>1. Loaded(r, J) = [st |-> "sent", v |-> 0, by |-> "hook", joined |-> J]
    BY <1>2 DEF Loaded
  <2>2. QED
    BY <1>2, <2>1, VersionsAreBounded DEF Requests, Versions
<1>3. CASE J # {} /\ r.st # "none"
  <2>1. Loaded(r, J) = [r EXCEPT !.joined = @ \cup J]
    BY <1>3 DEF Loaded
  <2>2. QED
    BY <1>3, <2>1 DEF Requests
<1>4. QED
  BY <1>1, <1>2, <1>3

LEMMA AbortedIsRequest ==
    ASSUME NEW r \in Requests
    PROVE  /\ [r EXCEPT !.st = "aborted", !.v = 0] \in Requests
           /\ [r EXCEPT !.st = "aborted", !.v = 0].joined = r.joined
<1>1. 0 \in Versions
  BY VersionsAreBounded DEF Versions
<1>2. QED
  BY <1>1 DEF Requests

\* release() takes S out, and aborts only what nobody else asks for.
LEMMA ReleasedLeaves ==
    ASSUME ApiTypeOK, NEW k \in Keys, NEW S \in SUBSET Consumers
    PROVE  /\ Released(k, S) \in Requests
           /\ Released(k, S).joined = inFlight[k].joined \ S
           /\ (\E c \in Consumers \ S : at[c] = k) => Released(k, S).st = inFlight[k].st
<1> DEFINE r == inFlight[k]
           left == [r EXCEPT !.joined = @ \ S]
<1>1. r \in Requests
  BY DEF ApiTypeOK
<1>2. left \in Requests /\ left.joined = r.joined \ S /\ left.st = r.st
  BY <1>1 DEF Requests
<1>3. \/ Released(k, S) = left
      \/ /\ Released(k, S) = [left EXCEPT !.st = "aborted", !.v = 0]
         /\ \A c \in Consumers \ S : at[c] # k
  BY DEF Released
<1>4. CASE Released(k, S) = left
  BY <1>2, <1>4
<1>5. CASE /\ Released(k, S) = [left EXCEPT !.st = "aborted", !.v = 0]
           /\ \A c \in Consumers \ S : at[c] # k
  <2> HIDE DEF left
  <2>1. Released(k, S) \in Requests /\ Released(k, S).joined = left.joined
    BY <1>2, <1>5, AbortedIsRequest
  <2>2. QED
    BY <1>2, <1>5, <2>1
<1>6. QED
  BY <1>3, <1>4, <1>5

LEMMA RerunTypes ==
    ASSUME ApiInv, NEW S \in SUBSET Consumers, NEW new \in [Consumers -> Keys \cup {None}],
           Rerun(S, new), debounce' \in [Consumers -> BOOLEAN]
    PROVE  ApiTypeOK'
<1> USE DEF ApiInv, ApiTypeOK
<1>1. inFlight' \in [Keys -> Requests]
  <2>1. ASSUME NEW k \in Keys
        PROVE  Loaded(Released(k, S), {c \in S : new[c] = k}) \in Requests
    BY ReleasedLeaves, LoadedJoins
  <2>2. QED
    BY <2>1 DEF Rerun
<1>2. shown' \in [Consumers -> Shown \cup {None}]
  BY NoneIsNoKey DEF Rerun, Shown
<1>3. /\ retried' \in [Consumers -> BOOLEAN] /\ loading' \in [Consumers -> BOOLEAN]
      /\ error' \in [Consumers -> BOOLEAN]
  BY DEF Rerun
<1>4. at' = new /\ version' = version /\ dataCache' = dataCache
  BY DEF Rerun
<1>5. QED
  BY <1>1, <1>2, <1>3, <1>4

\* One commit of React keeps the cache in order: those of S move to the keys in
\* new, the others stay.
LEMMA RerunIsSafe ==
    ASSUME ApiInv, NEW S \in SUBSET Consumers, NEW new \in [Consumers -> Keys \cup {None}],
           \A c \in Consumers \ S : new[c] = at[c],
           Rerun(S, new), debounce' \in [Consumers -> BOOLEAN]
    PROVE  ApiInv'
<1> DEFINE J(k) == {c \in S : new[c] = k}
<1>1. ApiTypeOK'
  BY RerunTypes
<1>2. at' = new /\ \A k \in Keys : inFlight'[k] = Loaded(Released(k, S), J(k))
  BY DEF Rerun
<1>3. ASSUME NEW k \in Keys
      PROVE  /\ J(k) \subseteq inFlight'[k].joined
             /\ inFlight'[k].joined \subseteq (inFlight[k].joined \ S) \cup J(k)
             /\ J(k) # {} => inFlight'[k].st # "none"
             /\ (\E c \in Consumers \ S : at[c] = k) /\ inFlight[k].st # "none"
                   => /\ inFlight'[k].st = inFlight[k].st
                      /\ inFlight[k].joined \ S \subseteq inFlight'[k].joined
  <2>1. Released(k, S) \in Requests /\ Released(k, S).joined = inFlight[k].joined \ S
    BY ReleasedLeaves DEF ApiInv
  <2>2. (\E c \in Consumers \ S : at[c] = k) => Released(k, S).st = inFlight[k].st
    BY ReleasedLeaves DEF ApiInv
  <2>3. J(k) \in SUBSET Consumers
    OBVIOUS
  <2>. HIDE DEF J
  <2>4. QED
    BY <1>2, <2>1, <2>2, <2>3, LoadedJoins
<1>4. JoinedIsHere'
  <2>1. SUFFICES ASSUME NEW k \in Keys, NEW c \in Consumers, c \in inFlight'[k].joined
                 PROVE  new[c] = k
    BY <1>2 DEF JoinedIsHere
  <2>2. c \in J(k) \/ (c \in inFlight[k].joined /\ c \notin S)
    BY <1>3, <2>1
  <2>3. QED
    BY <2>2 DEF ApiInv, JoinedIsHere
<1>5. LoadingIsAwaited'
  <2>1. SUFFICES ASSUME NEW c \in Consumers, loading'[c]
                 PROVE  /\ new[c] # None
                        /\ c \in inFlight'[new[c]].joined
                        /\ inFlight'[new[c]].st # "none"
                        /\ inFlight'[new[c]].st = "aborted" => ~retried'[c]
    BY <1>2 DEF LoadingIsAwaited
  <2>2. CASE c \in S
    <3>1. new[c] # None
      BY <2>1, <2>2 DEF Rerun
    <3>2. new[c] \in Keys /\ c \in J(new[c])
      BY <2>2, <3>1
    <3>3. ~retried'[c]
      BY <2>2 DEF Rerun
    <3>4. QED
      BY <1>3, <3>1, <3>2, <3>3
  <2>3. CASE c \notin S
    <3>1. new[c] = at[c] /\ loading[c] /\ retried'[c] = retried[c]
      BY <2>1, <2>3 DEF Rerun
    <3>2. /\ at[c] # None /\ c \in inFlight[at[c]].joined /\ inFlight[at[c]].st # "none"
          /\ inFlight[at[c]].st = "aborted" => ~retried[c]
      BY <3>1 DEF ApiInv, LoadingIsAwaited
    <3>3. at[c] \in Keys
      BY <3>2 DEF ApiInv, ApiTypeOK
    <3>4. /\ inFlight'[at[c]].st = inFlight[at[c]].st
          /\ inFlight[at[c]].joined \ S \subseteq inFlight'[at[c]].joined
      BY <1>3, <2>3, <3>2, <3>3
    <3>5. QED
      BY <2>3, <3>1, <3>2, <3>4
  <2>4. QED
    BY <2>2, <2>3
<1>6. ShownIsAsked'
  <2>1. SUFFICES ASSUME NEW c \in Consumers, new[c] # None, ~loading'[c], ~error'[c]
                 PROVE  shown'[c] # None /\ shown'[c].key = new[c]
    BY <1>2 DEF ShownIsAsked
  <2>2. new[c] \in Keys
    BY <2>1
  <2>3. CASE c \in S /\ new[c] # at[c] /\ dataCache[new[c]] # None
    <3>1. shown'[c] = [key |-> new[c], v |-> dataCache[new[c]]]
      BY <2>1, <2>3 DEF Rerun
    <3>2. dataCache[new[c]] \in Versions
      BY <2>2, <2>3 DEF ApiInv, ApiTypeOK
    <3>3. QED
      BY <2>2, <3>1, <3>2, NoneIsNoAnswer DEF Versions
  <2>4. CASE c \in S /\ new[c] # at[c] /\ dataCache[new[c]] = None
    BY <2>1, <2>4 DEF Rerun
  <2>5. CASE c \notin S \/ new[c] = at[c]
    <3>1. new[c] = at[c]
      BY <2>5
    <3>2. shown'[c] = shown[c] /\ loading'[c] = loading[c] /\ error'[c] = error[c]
      BY <2>1, <3>1 DEF Rerun
    <3>3. QED
      BY <2>1, <3>1, <3>2 DEF ApiInv, ShownIsAsked
  <2>6. QED
    BY <2>3, <2>4, <2>5
<1>7. QED
  BY <1>1, <1>4, <1>5, <1>6 DEF ApiInv

-----------------------------------------------------------------------------
\* What leaves every consumer where it is and only lets more of them wait for
\* the request of one key, or moves that request on.
LEMMA RequestIsSafe ==
    ASSUME ApiInv, NEW k \in Keys, NEW r \in Requests,
           inFlight' = [inFlight EXCEPT ![k] = r],
           UNCHANGED <<dataCache, hookVars>>, version' \in Versions,
           inFlight[k].st = "none" \/ inFlight[k].joined \subseteq r.joined,
           inFlight[k].st # "none" => r.st # "none",
           r.st = "aborted" => inFlight[k].st = "aborted",
           \A c \in Consumers : c \in r.joined => at[c] = k
    PROVE  ApiInv'
<1> USE DEF hookVars
<1>1. inFlight' \in [Keys -> Requests] /\ inFlight'[k] = r
      /\ \A j \in Keys \ {k} : inFlight'[j] = inFlight[j]
  BY DEF ApiInv, ApiTypeOK
<1>2. ApiTypeOK'
  BY <1>1 DEF ApiInv, ApiTypeOK
<1>3. JoinedIsHere'
  BY <1>1 DEF ApiInv, JoinedIsHere
<1>4. LoadingIsAwaited'
  <2>1. SUFFICES ASSUME NEW c \in Consumers, loading[c]
                 PROVE  /\ at[c] # None
                        /\ c \in inFlight'[at[c]].joined
                        /\ inFlight'[at[c]].st # "none"
                        /\ inFlight'[at[c]].st = "aborted" => ~retried[c]
    BY DEF LoadingIsAwaited
  <2>2. /\ at[c] # None /\ c \in inFlight[at[c]].joined /\ inFlight[at[c]].st # "none"
        /\ inFlight[at[c]].st = "aborted" => ~retried[c]
    BY <2>1 DEF ApiInv, LoadingIsAwaited
  <2>3. at[c] \in Keys
    BY <2>2 DEF ApiInv, ApiTypeOK
  <2>4. CASE at[c] = k
    BY <1>1, <2>2, <2>4
  <2>5. CASE at[c] # k
    BY <1>1, <2>2, <2>3, <2>5
  <2>6. QED
    BY <2>4, <2>5
<1>5. ShownIsAsked'
  BY DEF ApiInv, ShownIsAsked
<1>6. QED
  BY <1>2, <1>3, <1>4, <1>5 DEF ApiInv

LEMMA PollIsSafe == ASSUME ApiInv, NEW c \in Consumers, PollTick(c) PROVE ApiInv'
<1> DEFINE k == at[c]
           r == Loaded(inFlight[k], {c})
<1>1. k \in Keys /\ inFlight[k] \in Requests
  BY DEF PollTick, ApiInv, ApiTypeOK
<1>2. inFlight' = [inFlight EXCEPT ![k] = r]
  BY DEF PollTick
<1>3. /\ r \in Requests /\ r.st # "none"
      /\ r.joined \subseteq inFlight[k].joined \cup {c}
      /\ inFlight[k].st = "none" \/ inFlight[k].joined \subseteq r.joined
      /\ r.st = "aborted" => inFlight[k].st = "aborted"
  BY <1>1, LoadedJoins
<1>4. \A d \in Consumers : d \in r.joined => at[d] = k
  BY <1>1, <1>3 DEF ApiInv, JoinedIsHere
<1>5. version' \in Versions /\ UNCHANGED <<dataCache, hookVars>>
  BY DEF PollTick, ApiInv, ApiTypeOK
<1> HIDE DEF k, r
<1>6. QED
  BY <1>1, <1>2, <1>3, <1>4, <1>5, RequestIsSafe

LEMMA PrefetchIsSafe == ASSUME ApiInv, NEW k \in Keys, Prefetch(k) PROVE ApiInv'
<1> DEFINE r == [Idle EXCEPT !.st = "sent", !.by = "prefetch"]
<1>1. Idle \in Requests /\ Idle.joined = {}
  BY VersionsAreBounded DEF Idle, Requests, Versions
<1>2. r \in Requests /\ r.st = "sent" /\ r.joined = {}
  BY <1>1 DEF Requests
<1> HIDE DEF r
<1>3. inFlight[k].st = "none" /\ inFlight' = [inFlight EXCEPT ![k] = r]
      /\ version' \in Versions /\ UNCHANGED <<dataCache, hookVars>>
  BY DEF r, Prefetch, ApiInv, ApiTypeOK
<1>4. QED
  BY <1>2, <1>3, RequestIsSafe

LEMMA ReadIsSafe == ASSUME ApiInv, NEW k \in Keys, ServerReads(k) PROVE ApiInv'
<1> DEFINE r == [inFlight[k] EXCEPT !.st = "answered", !.v = version]
<1>1. inFlight[k] \in Requests /\ version \in Versions /\ inFlight[k].st = "sent"
  BY DEF ServerReads, ApiInv, ApiTypeOK
<1>2. r \in Requests /\ r.st = "answered" /\ r.joined = inFlight[k].joined
  BY <1>1 DEF Requests
<1>3. inFlight' = [inFlight EXCEPT ![k] = r]
  BY <1>1 DEF ServerReads, ApiInv, ApiTypeOK
<1>4. \A d \in Consumers : d \in r.joined => at[d] = k
  BY <1>2 DEF ApiInv, JoinedIsHere
<1>5. version' \in Versions /\ UNCHANGED <<dataCache, hookVars>>
  BY <1>1 DEF ServerReads
<1> HIDE DEF r
<1>6. QED
  BY <1>1, <1>2, <1>3, <1>4, <1>5, RequestIsSafe

\* A request ends: those that waited for it load no more.
LEMMA EndIsSafe ==
    ASSUME ApiInv, NEW k \in Keys, Resolved(k) \/ Failed(k)
    PROVE  ApiInv'
<1> DEFINE J == inFlight[k].joined
<1>1. Idle \in Requests /\ Idle.joined = {} /\ inFlight[k] \in Requests
  BY VersionsAreBounded DEF Idle, Requests, Versions, ApiInv, ApiTypeOK
<1>2. /\ inFlight' = [inFlight EXCEPT ![k] = Idle]
      /\ loading' = [c \in Consumers |-> loading[c] /\ c \notin J]
      /\ at' = at /\ retried' = retried /\ version' = version /\ debounce' = debounce
  BY DEF Resolved, Failed
<1>3. /\ inFlight' \in [Keys -> Requests] /\ inFlight'[k] = Idle
      /\ \A j \in Keys \ {k} : inFlight'[j] = inFlight[j]
  BY <1>1, <1>2 DEF ApiInv, ApiTypeOK
<1>4. \A c \in Consumers : c \in J => at[c] = k
  BY DEF ApiInv, JoinedIsHere
<1>5. ApiTypeOK'
  <2>1. inFlight[k].v \in Versions
    BY <1>1 DEF Requests
  <2>2. [key |-> k, v |-> inFlight[k].v] \in Shown
    BY <2>1 DEF Shown
  <2>3. dataCache' \in [Keys -> Versions \cup {None}]
    BY <2>1 DEF Resolved, Failed, ApiInv, ApiTypeOK
  <2>4. shown' \in [Consumers -> Shown \cup {None}]
    BY <2>2 DEF Resolved, Failed, ApiInv, ApiTypeOK
  <2>5. error' \in [Consumers -> BOOLEAN]
    BY DEF Resolved, Failed
  <2>6. loading' \in [Consumers -> BOOLEAN]
    BY <1>2
  <2>7. QED
    BY <1>2, <1>3, <2>3, <2>4, <2>5, <2>6 DEF ApiInv, ApiTypeOK
<1>6. JoinedIsHere'
  BY <1>1, <1>2, <1>3 DEF ApiInv, JoinedIsHere
<1>7. LoadingIsAwaited'
  <2>1. SUFFICES ASSUME NEW c \in Consumers, loading'[c]
                 PROVE  /\ at[c] # None
                        /\ c \in inFlight'[at[c]].joined
                        /\ inFlight'[at[c]].st # "none"
                        /\ inFlight'[at[c]].st = "aborted" => ~retried[c]
    BY <1>2 DEF LoadingIsAwaited
  <2>2. loading[c] /\ c \notin J
    BY <1>2, <2>1
  <2>3. /\ at[c] # None /\ c \in inFlight[at[c]].joined /\ inFlight[at[c]].st # "none"
        /\ inFlight[at[c]].st = "aborted" => ~retried[c]
    BY <2>2 DEF ApiInv, LoadingIsAwaited
  <2>4. at[c] \in Keys \ {k}
    BY <2>2, <2>3 DEF ApiInv, ApiTypeOK
  <2>5. QED
    BY <1>3, <2>3, <2>4
<1>8. ShownIsAsked'
  <2>1. SUFFICES ASSUME NEW c \in Consumers, at[c] # None, ~loading'[c], ~error'[c]
                 PROVE  shown'[c] # None /\ shown'[c].key = at[c]
    BY <1>2 DEF ShownIsAsked
  <2>2. CASE c \in J /\ Resolved(k)
    <3>1. shown'[c] = [key |-> k, v |-> inFlight[k].v]
      BY <2>2 DEF Resolved
    <3>2. inFlight[k].v \in Versions
      BY <1>1 DEF Requests
    <3>3. QED
      BY <1>4, <2>2, <3>1, <3>2, NoneIsNoAnswer DEF Versions
  <2>3. CASE c \in J /\ Failed(k)
    BY <2>1, <2>3 DEF Failed
  <2>4. CASE c \notin J
    <3>1. ~loading[c]
      BY <1>2, <2>1, <2>4
    <3>2. ~error[c] /\ shown'[c] = shown[c]
      BY <2>1, <2>4 DEF Resolved, Failed
    <3>3. QED
      BY <2>1, <3>1, <3>2 DEF ApiInv, ShownIsAsked
  <2>5. QED
    BY <2>2, <2>3, <2>4
<1>9. QED
  BY <1>5, <1>6, <1>7, <1>8 DEF ApiInv

\* An aborted request is sent again for those who have not tried that yet, and
\* all that are loading are among them.
LEMMA AbortedIsSafe == ASSUME ApiInv, NEW k \in Keys, Aborted(k) PROVE ApiInv'
<1> DEFINE again == {c \in inFlight[k].joined : ~retried[c]}
           r == Loaded(Idle, again)
<1>1. Idle \in Requests /\ Idle.joined = {} /\ Idle.st = "none" /\ inFlight[k] \in Requests
  BY VersionsAreBounded DEF Idle, Requests, Versions, ApiInv, ApiTypeOK
<1>2. again \subseteq Consumers
  BY <1>1 DEF Requests
<1>3. /\ r \in Requests /\ again \subseteq r.joined /\ r.joined \subseteq again
      /\ again # {} => r.st # "none"
      /\ r.st # "aborted"
  <2> HIDE DEF again
  <2>1. QED
    BY <1>1, <1>2, LoadedJoins
<1>4. /\ inFlight[k].st = "aborted" /\ inFlight' = [inFlight EXCEPT ![k] = r]
      /\ retried' = [c \in Consumers |-> retried[c] \/ c \in again]
      /\ UNCHANGED <<version, dataCache, at, shown, loading, error, debounce>>
  BY DEF Aborted
<1> HIDE DEF r
<1>5. /\ inFlight' \in [Keys -> Requests] /\ inFlight'[k] = r
      /\ \A j \in Keys \ {k} : inFlight'[j] = inFlight[j]
  BY <1>3, <1>4 DEF ApiInv, ApiTypeOK
<1>6. ApiTypeOK'
  <2>1. retried' \in [Consumers -> BOOLEAN]
    BY <1>4
  <2>2. QED
    BY <1>4, <1>5, <2>1 DEF ApiInv, ApiTypeOK
<1>7. JoinedIsHere'
  <2>1. SUFFICES ASSUME NEW j \in Keys, NEW c \in Consumers, c \in inFlight'[j].joined
                 PROVE  at[c] = j
    BY <1>4 DEF JoinedIsHere
  <2>2. CASE j = k
    BY <1>3, <1>5, <2>1, <2>2 DEF ApiInv, JoinedIsHere
  <2>3. CASE j # k
    BY <1>5, <2>1, <2>3 DEF ApiInv, JoinedIsHere
  <2>4. QED
    BY <2>2, <2>3
<1>8. LoadingIsAwaited'
  <2>1. SUFFICES ASSUME NEW c \in Consumers, loading[c]
                 PROVE  /\ at[c] # None
                        /\ c \in inFlight'[at[c]].joined
                        /\ inFlight'[at[c]].st # "none"
                        /\ inFlight'[at[c]].st = "aborted" => ~retried'[c]
    BY <1>4 DEF LoadingIsAwaited
  <2>2. /\ at[c] # None /\ c \in inFlight[at[c]].joined /\ inFlight[at[c]].st # "none"
        /\ inFlight[at[c]].st = "aborted" => ~retried[c]
    BY <2>1 DEF ApiInv, LoadingIsAwaited
  <2>3. at[c] \in Keys
    BY <2>2 DEF ApiInv, ApiTypeOK
  <2>4. CASE at[c] = k
    <3>1. c \in again
      BY <1>4, <2>2, <2>4
    <3>2. QED
      BY <1>3, <1>5, <2>2, <2>4, <3>1
  <2>5. CASE at[c] # k
    <3>1. inFlight'[at[c]] = inFlight[at[c]]
      BY <1>5, <2>3, <2>5
    <3>2. c \notin again
      BY <2>5 DEF ApiInv, JoinedIsHere
    <3>3. retried'[c] = retried[c]
      BY <1>4, <3>2 DEF ApiInv, ApiTypeOK
    <3>4. QED
      BY <2>2, <3>1, <3>3
  <2>6. QED
    BY <2>4, <2>5
<1>9. ShownIsAsked'
  BY <1>4 DEF ApiInv, ShownIsAsked
<1>10. QED
  BY <1>6, <1>7, <1>8, <1>9 DEF ApiInv

LEMMA ApiStays ==
    ASSUME ApiInv, UNCHANGED <<dataCache, inFlight, at, shown, loading, error, retried>>,
           version' \in Versions, debounce' \in [Consumers -> BOOLEAN]
    PROVE  ApiInv'
  BY DEF ApiInv, ApiTypeOK, JoinedIsHere, LoadingIsAwaited, ShownIsAsked

\* Effects run again: a consumer comes, goes, changes its key or refreshes.
LEMMA HookIsSafe ==
    ASSUME ApiInv, NEW c \in Consumers, NEW k \in Keys,
           \/ Mount(c, k) \/ ChangeKey(c, k) \/ UnmountConsumer(c)
           \/ Refresh(c) \/ DebounceFires(c)
    PROVE  ApiInv'
<1>1. at \in [Consumers -> Keys \cup {None}] /\ debounce \in [Consumers -> BOOLEAN]
  BY DEF ApiInv, ApiTypeOK
<1>2. debounce' \in [Consumers -> BOOLEAN]
  BY <1>1 DEF Mount, ChangeKey, UnmountConsumer, Refresh, DebounceFires
<1>3. PICK j \in Keys \cup {None} : Rerun({c}, [at EXCEPT ![c] = j])
  <2>1. CASE Mount(c, k) \/ ChangeKey(c, k)
    BY <2>1 DEF Mount, ChangeKey
  <2>2. CASE UnmountConsumer(c)
    BY <2>2 DEF UnmountConsumer
  <2>3. CASE Refresh(c) \/ DebounceFires(c)
    <3>1. [at EXCEPT ![c] = at[c]] = at /\ at[c] \in Keys \cup {None}
      BY <1>1
    <3>2. QED
      BY <2>3, <3>1 DEF Refresh, DebounceFires
  <2>4. QED
    BY <2>1, <2>2, <2>3
<1>4. /\ [at EXCEPT ![c] = j] \in [Consumers -> Keys \cup {None}]
      /\ \A d \in Consumers \ {c} : [at EXCEPT ![c] = j][d] = at[d]
  BY <1>1
<1>5. QED
  BY <1>2, <1>3, <1>4, RerunIsSafe

LEMMA ResyncIsSafe == ASSUME ApiInv, Resync PROVE ApiInv'
  BY RerunIsSafe DEF Resync, Mounted, ApiInv, ApiTypeOK

LEMMA ApiStarts == ApiInit => ApiInv
<1> SUFFICES ASSUME ApiInit PROVE ApiInv
  OBVIOUS
<1>1. Idle \in Requests /\ Idle.joined = {}
  BY VersionsAreBounded DEF Idle, Requests, Versions
<1>2. ApiTypeOK
  BY <1>1, VersionsAreBounded DEF ApiInit, ApiTypeOK, Versions
<1>3. QED
  BY <1>1, <1>2 DEF ApiInit, ApiInv, JoinedIsHere, LoadingIsAwaited, ShownIsAsked

LEMMA ApiStep == ApiInv /\ [ApiNext]_apiVars => ApiInv'
<1> SUFFICES ASSUME ApiInv, [ApiNext]_apiVars PROVE ApiInv'
  OBVIOUS
<1>1. ASSUME NEW c \in Consumers,
             \/ \E k \in Keys : Mount(c, k) \/ ChangeKey(c, k)
             \/ UnmountConsumer(c) \/ Refresh(c)
      PROVE  ApiInv'
  <2>1. PICK k \in Keys : TRUE
    BY <1>1 DEF UnmountConsumer, Refresh, ApiInv, ApiTypeOK
  <2>2. QED
    BY <1>1, <2>1, HookIsSafe
<1>2. ASSUME NEW c \in Consumers, PollTick(c) PROVE ApiInv'
  BY <1>2, PollIsSafe
<1>3. ASSUME NEW k \in Keys, PrefetchPage(k) \/ ServerReads(k)
      PROVE  ApiInv'
  BY <1>3, PrefetchIsSafe, ReadIsSafe DEF PrefetchPage
<1>4. ASSUME NEW k \in Keys, Resolved(k) \/ Failed(k) \/ Aborted(k)
      PROVE  ApiInv'
  BY <1>4, EndIsSafe, AbortedIsSafe
<1>5. CASE Resync
  BY <1>5, ResyncIsSafe
<1>6. CASE ServerChanges
  BY <1>6, ApiStays, VersionsAreBounded DEF ServerChanges, hookVars, Versions, ApiInv, ApiTypeOK
<1>7. CASE UNCHANGED apiVars
  BY <1>7, ApiStays DEF apiVars, hookVars, ApiInv, ApiTypeOK
<1>8. QED
  BY <1>1, <1>2, <1>3, <1>4, <1>5, <1>6, <1>7 DEF ApiNext

\* However requests are shared, aborted and repeated and in whatever order the
\* answers come: a spinner is waited for, and what is shown is what was asked.
THEOREM CacheKeepsOrder == ApiSpec => [](LoadingIsAwaited /\ ShownIsAsked)
<1>1. ApiInv => LoadingIsAwaited /\ ShownIsAsked
  BY DEF ApiInv
<1>2. QED
  BY <1>1, ApiStarts, ApiStep, PTL DEF ApiSpec

-----------------------------------------------------------------------------
\* A step of the pages is a step of the socket's or leaves it alone; the cache
\* takes the steps above, with the timers that events arm.
LEMMA LiveStepOfSocket == LiveNext => [SocketNext]_socketVars
<1> SUFFICES ASSUME LiveNext PROVE [SocketNext]_socketVars
  OBVIOUS
<1>1. CASE OpenAndResync \/ FlushEvents \/ LeaveDashboard
  BY <1>1 DEF OpenAndResync, FlushEvents, LeaveDashboard, SocketNext
<1>2. CASE TransportStep
  BY <1>2 DEF TransportStep, SocketNext, TransportNext
<1>3. CASE UNCHANGED socketVars
  BY <1>3
<1>4. QED
  BY <1>1, <1>2, <1>3 DEF LiveNext

LEMMA LiveStepOfCache == ApiInv /\ LiveNext => ApiInv'
<1> SUFFICES ASSUME ApiInv, LiveNext PROVE ApiInv'
  OBVIOUS
<1>1. CASE OpenAndResync
  BY <1>1, ResyncIsSafe DEF OpenAndResync
<1>2. CASE FlushEvents
  BY <1>2, ApiStays DEF FlushEvents, Notify, ApiInv, ApiTypeOK
<1>3. CASE LeaveDashboard
  <2>1. /\ [c \in Consumers |-> None] \in [Consumers -> Keys \cup {None}]
        /\ \A c \in Consumers \ Mounted : [d \in Consumers |-> None][c] = at[c]
        /\ Mounted \in SUBSET Consumers
    BY DEF Mounted
  <2>2. debounce' \in [Consumers -> BOOLEAN]
    BY <1>3 DEF LeaveDashboard
  <2>3. QED
    BY <1>3, <2>1, <2>2, RerunIsSafe DEF LeaveDashboard
<1>4. CASE UNCHANGED apiVars
  BY <1>4, ApiStays DEF apiVars, hookVars, ApiInv, ApiTypeOK
<1>5. CASE PageStep
  <2>1. ASSUME NEW c \in Users,
               \/ \E k \in LiveKeys : Mount(c, k) \/ ChangeKey(c, k)
               \/ UnmountConsumer(c) \/ DebounceFires(c)
        PROVE  ApiInv'
    <3>1. c \in Consumers
      BY PagesReadTheCache
    <3>2. CASE \E k \in LiveKeys : Mount(c, k) \/ ChangeKey(c, k)
      BY <3>1, <3>2, HookIsSafe, PagesReadTheCache
    <3>3. CASE UnmountConsumer(c)
      <4>1. PICK k \in Keys : TRUE
        BY <3>1, <3>3 DEF UnmountConsumer, ApiInv, ApiTypeOK
      <4>2. QED
        BY <3>1, <3>3, <4>1, HookIsSafe
    <3>4. CASE DebounceFires(c)
      <4>1. at \in [Consumers -> Keys \cup {None}] /\ debounce \in [Consumers -> BOOLEAN]
        BY DEF ApiInv, ApiTypeOK
      <4>2. debounce' \in [Consumers -> BOOLEAN]
        BY <3>4, <4>1 DEF DebounceFires
      <4>3. QED
        BY <3>1, <3>4, <4>1, <4>2, RerunIsSafe DEF DebounceFires
    <3>5. QED
      BY <2>1, <3>2, <3>3, <3>4
  <2>2. ASSUME NEW c \in Users, FallbackPoll(c) PROVE ApiInv'
    BY <2>2, PollIsSafe, PagesReadTheCache DEF FallbackPoll
  <2>3. ASSUME NEW k \in LiveKeys, PrefetchPage(k) PROVE ApiInv'
    BY <2>3, PrefetchIsSafe, PagesReadTheCache DEF PrefetchPage
  <2>4. QED
    BY <1>5, <2>1, <2>2, <2>3 DEF PageStep
<1>6. CASE \E k \in LiveKeys : RequestStep(k)
  BY <1>6, ReadIsSafe, EndIsSafe, AbortedIsSafe, PagesReadTheCache DEF RequestStep
<1>7. CASE ServerChanges
  BY <1>7, ApiStays, VersionsAreBounded DEF ServerChanges, hookVars, Versions, ApiInv, ApiTypeOK
<1>8. QED
  BY <1>1, <1>2, <1>3, <1>4, <1>5, <1>6, <1>7 DEF LiveNext

\* All of it holds when the two work together, with events that refresh the pages,
\* polling in their stead and a resync at each opening.
THEOREM LiveClientIsSound ==
    LiveSpec => [](SocketIsSound /\ NewestReading /\ LoadingIsAwaited /\ ShownIsAsked)
<1> DEFINE LiveInv == SocketInv /\ ReadingsInv /\ ApiInv
<1>1. LiveInit => LiveInv
  BY SocketStarts, ReadingsStart, ApiStarts DEF LiveInit
<1>2. LiveInv /\ [LiveNext]_liveVars => LiveInv'
  <2>1. CASE LiveNext
    BY <2>1, LiveStepOfSocket, LiveStepOfCache, SocketStep, ReadingsStep
  <2>2. CASE UNCHANGED liveVars
    <3>1. UNCHANGED socketVars /\ UNCHANGED apiVars
      BY <2>2 DEF liveVars
    <3>2. QED
      BY <3>1, SocketStep, ReadingsStep, ApiStep
  <2>3. QED
    BY <2>1, <2>2
<1>3. LiveInv => SocketIsSound /\ NewestReading /\ LoadingIsAwaited /\ ShownIsAsked
  BY SocketHolds, ReadingsHold DEF ApiInv
<1>4. QED
  BY <1>1, <1>2, <1>3, PTL DEF LiveSpec

\* With the cache beside it, whose steps the openings and the events drive, the
\* socket still runs as LiveSocket says: what holds of it alone holds here.
THEOREM LiveClientRunsTheSocket == LiveSpec => SocketSpec
<1>1. LiveInit => SocketInit
  BY DEF LiveInit
<1>2. [LiveNext]_liveVars => [SocketNext]_socketVars
  BY LiveStepOfSocket DEF liveVars
<1>3. QED
  BY <1>1, <1>2, PTL DEF LiveSpec, SocketSpec
=============================================================================
