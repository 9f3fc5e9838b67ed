--------------------------- MODULE LeaderElection ---------------------------
(***************************************************************************)
(* One background loop (crowd simulator, train tracker, a retention job)   *)
(* and the processes that bid to run it: app/simulator/leader_election.py, *)
(* its same-host file lock app/simulator/local_lock.py, and the Redis      *)
(* lease and reconnecting client of app/core/cache.py.                     *)
(*                                                                         *)
(* Time is relative: every deadline the code compares with                 *)
(* time.monotonic() is kept as a countdown or an age that Clock moves, so  *)
(* the state space is finite without a bound on the clock.  An asyncio     *)
(* process interleaves only at an await that really suspends; the two in   *)
(* this code are the sleep between ticks and the wait for a cancelled      *)
(* worker, and those are the action boundaries below.                      *)
(***************************************************************************)
EXTENDS Integers, FiniteSets

CONSTANTS
    Proc,         \* worker processes, each with one LeaderElection
    Host,         \* machines
    HostOf,       \* the machine a process runs on: flock() works per machine
    Lease,        \* _lease_seconds
    Poll,         \* _poll_seconds
    Slack,        \* how much later than Poll a tick may run
    Cap,          \* _BACKOFF_CAP_SECONDS
    Configured,   \* CACHE_ENABLED and REDIS_URL are set
    Faults,       \* the faults this instance lets happen
    NoOne,        \* a free lease or file lock
    Orphan        \* a holder id whose LeaderElection object is gone

FaultKind == {"crash", "workerCrash", "stop", "outage", "partition",
              "lostReply", "flush"}

ASSUME ConstantsAssumption ==
    /\ HostOf \in [Proc -> Host]
    /\ Lease \in Nat \ {0}
    /\ Poll \in Nat \ {0}
    /\ Slack \in Nat
    /\ Cap \in Nat \ {0}
    /\ Configured \in BOOLEAN
    /\ Faults \subseteq FaultKind
    /\ NoOne \notin Proc
    /\ Orphan \notin Proc \cup {NoOne}

(* A tick runs before a lease taken at the tick before it can run out.     *)
ASSUME TicksOutpaceLease == Poll + Slack < Lease

VARIABLES
    reach,        \* reach[p]: Redis is up and p's network gets to it
    lease, ttl,   \* the Redis key: its holder id and remaining seconds
    client,       \* cache._client is not None
    retryIn,      \* seconds until cache._next_retry_at
    backoff,      \* cache._current_backoff
    flock,        \* flock[h]: the process the kernel gave h's lock file to
    stale,        \* p's lock descriptor belongs to a discarded holder id
    elect,        \* _election_task: see ElectState
    worker,       \* _worker_task: "none", "running", or "crashed" (done)
    stopper,      \* a stop() call: what it is awaiting
    age,          \* seconds since p's last tick began
    seenUp,       \* _redis_ever_reachable
    sinceUp       \* seconds since _last_connected_at, at most Lease

redisVars == <<reach, lease, ttl>>
cacheVars == <<client, retryIn, backoff>>
lockVars  == <<flock, stale>>
clockVars == <<age, seenUp, sinceUp>>
taskVars  == <<elect, worker, stopper>>
vars == <<redisVars, cacheVars, lockVars, clockVars, taskVars>>

(* "none": never started, or stopped.  "polling": asleep between ticks.    *)
(* "cancelling": inside a tick, awaiting the worker it cancelled.          *)
(* "failed": the task ended with an exception, so nothing ticks any more.  *)
ElectState == {"none", "polling", "cancelling", "failed"}

TypeOK ==
    /\ reach \in [Proc -> BOOLEAN]
    /\ lease \in Proc \cup {NoOne, Orphan}
    /\ ttl \in 0..Lease
    /\ client \in [Proc -> BOOLEAN]
    /\ retryIn \in [Proc -> 0..Cap]
    /\ backoff \in [Proc -> 1..Cap]
    /\ flock \in [Host -> Proc \cup {NoOne}]
    /\ stale \in [Proc -> BOOLEAN]
    /\ elect \in [Proc -> ElectState]
    /\ worker \in [Proc -> {"none", "running", "crashed"}]
    /\ stopper \in [Proc -> {"idle", "joinElection", "joinWorker"}]
    /\ age \in [Proc -> 0..(Poll + Slack)]
    /\ seenUp \in [Proc -> BOOLEAN]
    /\ sinceUp \in [Proc -> 0..Lease]

AtMost(a, b) == IF a <= b THEN a ELSE b

-----------------------------------------------------------------------------
(* app/core/cache.py: the client every Redis call of a process goes        *)
(* through.  A cached client is handed out without being tried, so it can  *)
(* outlive the server it points at.                                        *)

MayConnect(p) == client[p] \/ retryIn[p] = 0

GetClient(p) == Configured /\ (client[p] \/ (retryIn[p] = 0 /\ reach[p]))

MarkUp(p) ==
    /\ client' = [client EXCEPT ![p] = TRUE]
    /\ backoff' = [backoff EXCEPT ![p] = 1]
    /\ UNCHANGED retryIn

MarkDown(p) ==
    /\ client' = [client EXCEPT ![p] = FALSE]
    /\ retryIn' = [retryIn EXCEPT ![p] = backoff[p]]
    /\ backoff' = [backoff EXCEPT ![p] = AtMost(2 * @, Cap)]

(* A command sent through _get_client(): the client's state after it.      *)
CacheCall(p) ==
    IF Configured /\ MayConnect(p)
    THEN IF reach[p] THEN MarkUp(p) ELSE MarkDown(p)
    ELSE UNCHANGED cacheVars

(* Any request or job of p using the cache between two ticks.              *)
OtherCacheUse(p) ==
    /\ CacheCall(p)
    /\ UNCHANGED <<redisVars, lockVars, clockVars, taskVars>>

(* cache.redis_status()["state"]                                           *)
RedisState(p) ==
    IF ~Configured THEN "disabled"
    ELSE IF GetClient(p) THEN "connected" ELSE "unreachable"

-----------------------------------------------------------------------------
(* app/simulator/local_lock.py: an exclusive flock() on one file per host. *)

LocalHeld(p) == flock[HostOf[p]] = p /\ ~stale[p]

LocalFree(p) == flock[HostOf[p]] = NoOne \/ LocalHeld(p)

LocalAcquire(p) == flock' = [flock EXCEPT ![HostOf[p]] = p]

LocalRelease(p) ==
    flock' = IF LocalHeld(p) THEN [flock EXCEPT ![HostOf[p]] = NoOne] ELSE flock

-----------------------------------------------------------------------------
(* LeaderElection._election_tick                                           *)

Active(p) == worker[p] = "running"

Leaders == {p \in Proc : Active(p)}

(* _start_worker: a done (crashed) task is replaced by a new one.          *)
Lead(p) ==
    /\ worker' = [worker EXCEPT ![p] = "running"]
    /\ UNCHANGED <<elect, stopper>>

(* _stop_worker forgets the task first, then awaits it.  Awaiting a task   *)
(* that already failed re-raises its exception through _election_tick and  *)
(* _election_loop, which ends the election task.                           *)
StepDown(p) ==
    /\ worker' = [worker EXCEPT ![p] = "none"]
    /\ elect' = [elect EXCEPT ![p] =
                    CASE worker[p] = "running" -> "cancelling"
                      [] worker[p] = "crashed" -> "failed"
                      [] OTHER                 -> @]
    /\ UNCHANGED stopper

(* Mutant: a process that once saw Redis never falls back.                 *)
NeverOutlasted(p) == ~seenUp[p]

(* The outage clock: _redis_down_since is backdated to _last_connected_at, *)
(* so how long the outage has lasted is how long ago that was.             *)

OutlastedLease(p) == ~seenUp[p] \/ sinceUp[p] >= Lease

UsesLocalLock(p) ==
    \/ RedisState(p) = "disabled"
    \/ RedisState(p) = "unreachable" /\ OutlastedLease(p)

NoteConnected(p) ==
    IF RedisState(p) = "connected"
    THEN /\ seenUp' = [seenUp EXCEPT ![p] = TRUE]
         /\ sinceUp' = [sinceUp EXCEPT ![p] = 0]
    ELSE UNCHANGED <<seenUp, sinceUp>>

TickBegins(p) ==
    /\ elect[p] = "polling"
    /\ age[p] >= Poll
    /\ age' = [age EXCEPT ![p] = 0]
    /\ NoteConnected(p)

(* Redis is disabled, was never reached, or has been gone for a lease.     *)
LocalTick(p) ==
    /\ TickBegins(p)
    /\ UsesLocalLock(p)
    /\ \/ LocalFree(p) /\ LocalAcquire(p) /\ Lead(p)
       \/ ~LocalFree(p) /\ UNCHANGED flock /\ StepDown(p)
    /\ CacheCall(p)
    /\ UNCHANGED <<redisVars, stale>>

LeaseOpen(p) == lease \in {NoOne, p}

(* Mutant: renewing does not push the expiry out.                          *)
TakeWithoutExtending(p) ==
    /\ lease' = p
    /\ ttl' = IF lease = p THEN ttl ELSE Lease
    /\ UNCHANGED reach

(* try_acquire_or_renew_lock ran its script on the server.                 *)
TakeLease(p) ==
    /\ lease' = p
    /\ ttl' = Lease
    /\ UNCHANGED reach

(* Redis decides.  A file lock kept from a fallback is given back first.   *)
RedisTick(p) ==
    /\ TickBegins(p)
    /\ ~UsesLocalLock(p)
    /\ LocalRelease(p)
    /\ LET evalReplies == GetClient(p) /\ reach[p] IN
       \/ /\ evalReplies /\ LeaseOpen(p)
          /\ TakeLease(p) /\ CacheCall(p) /\ Lead(p)
       \/ /\ ~(evalReplies /\ LeaseOpen(p))
          /\ UNCHANGED redisVars /\ CacheCall(p) /\ StepDown(p)
       \* the script ran, its reply timed out: the call returns False
       \/ /\ "lostReply" \in Faults
          /\ evalReplies
          /\ IF LeaseOpen(p) THEN TakeLease(p) ELSE UNCHANGED redisVars
          /\ MarkDown(p) /\ StepDown(p)
    /\ UNCHANGED stale

Tick(p) == LocalTick(p) \/ RedisTick(p)

(* The cancelled worker has finished; _stop_worker swallows the            *)
(* CancelledError and the tick returns to _election_loop.                  *)
CancelDone(p) ==
    /\ elect[p] = "cancelling"
    /\ elect' = [elect EXCEPT ![p] = "polling"]
    /\ UNCHANGED <<redisVars, cacheVars, lockVars, clockVars, worker, stopper>>

(* The cancelled worker raised in its own cleanup instead.                 *)
CancelRaises(p) ==
    /\ "workerCrash" \in Faults
    /\ elect[p] = "cancelling"
    /\ elect' = [elect EXCEPT ![p] = "failed"]
    /\ UNCHANGED <<redisVars, cacheVars, lockVars, clockVars, worker, stopper>>

-----------------------------------------------------------------------------
(* LeaderElection.start and stop, as scheduler.py calls them: stopping     *)
(* drops the object, starting after that makes one with a new holder id.   *)

(* start(): a new object, or the one whose election task has died.  A task *)
(* that still runs is left alone.                                          *)
Boot(p) ==
    /\ elect[p] \in {"none", "failed"} /\ stopper[p] = "idle"
    /\ elect' = [elect EXCEPT ![p] = "polling"]
    /\ age' = [age EXCEPT ![p] = Poll]
    /\ UNCHANGED <<redisVars, cacheVars, lockVars, worker, stopper, seenUp, sinceUp>>

(* Mutant: the loop of a dropped object goes on.                           *)
DropObjectOnly(p) ==
    /\ elect' = [elect EXCEPT ![p] = "none"]
    /\ UNCHANGED worker
    /\ age' = [age EXCEPT ![p] = 0]
    /\ seenUp' = [seenUp EXCEPT ![p] = FALSE]
    /\ sinceUp' = [sinceUp EXCEPT ![p] = 0]

DropObject(p) ==
    /\ elect' = [elect EXCEPT ![p] = "none"]
    /\ worker' = [worker EXCEPT ![p] = "none"]
    /\ age' = [age EXCEPT ![p] = 0]
    /\ seenUp' = [seenUp EXCEPT ![p] = FALSE]
    /\ sinceUp' = [sinceUp EXCEPT ![p] = 0]

(* Mutant: the key is deleted without comparing the holder.                *)
ReleaseAnyones(p) ==
    /\ CacheCall(p)
    /\ IF GetClient(p) /\ reach[p]
       THEN lease' = NoOne /\ ttl' = 0
       ELSE UNCHANGED <<lease, ttl>>
    /\ LocalRelease(p)
    /\ UNCHANGED <<reach, stale>>

(* The end of stop(): release_lock, then local_lock.release.               *)
ReleaseAll(p) ==
    /\ CacheCall(p)
    /\ IF lease # p
       THEN UNCHANGED <<lease, ttl>>
       ELSE IF GetClient(p) /\ reach[p]
            THEN lease' = NoOne /\ ttl' = 0
            ELSE lease' = Orphan /\ UNCHANGED ttl
    /\ LocalRelease(p)
    /\ UNCHANGED <<reach, stale>>

(* stop() raised before it could release: lease and file lock stay with    *)
(* an id no later object has.                                              *)
AbandonAll(p) ==
    /\ lease' = IF lease = p THEN Orphan ELSE lease
    /\ stale' = [stale EXCEPT ![p] = @ \/ LocalHeld(p)]
    /\ UNCHANGED <<reach, ttl, cacheVars, flock>>

(* The election task is asleep: it takes the cancellation at once.         *)
StopPolling(p) ==
    /\ elect[p] = "polling" /\ stopper[p] = "idle"
    /\ DropObject(p)
    /\ \/ /\ worker[p] = "running"
          /\ stopper' = [stopper EXCEPT ![p] = "joinWorker"]
          /\ UNCHANGED <<redisVars, cacheVars, lockVars>>
       \/ worker[p] = "none" /\ ReleaseAll(p) /\ UNCHANGED stopper
       \/ worker[p] = "crashed" /\ AbandonAll(p) /\ UNCHANGED stopper

(* The election task is inside _stop_worker: the cancellation reaches the  *)
(* worker it awaits and is swallowed there; stop() goes on waiting.        *)
StopCancelling(p) ==
    /\ elect[p] = "cancelling" /\ stopper[p] = "idle"
    /\ stopper' = [stopper EXCEPT ![p] = "joinElection"]
    /\ UNCHANGED <<redisVars, cacheVars, lockVars, clockVars, elect, worker>>

(* The election task has failed: awaiting it raises out of stop().  It is  *)
(* also how a stop() that was waiting for that task comes back.            *)
StopFailed(p) ==
    /\ elect[p] = "failed" /\ stopper[p] \in {"idle", "joinElection"}
    /\ DropObject(p)
    /\ stopper' = [stopper EXCEPT ![p] = "idle"]
    /\ AbandonAll(p)

Stop(p) ==
    /\ "stop" \in Faults
    /\ StopPolling(p) \/ StopCancelling(p) \/ StopFailed(p)

(* The worker stop() cancelled is done; or raised in its cleanup.          *)
FinishStop(p) ==
    /\ stopper[p] = "joinWorker"
    /\ stopper' = [stopper EXCEPT ![p] = "idle"]
    /\ \/ ReleaseAll(p)
       \/ "workerCrash" \in Faults /\ AbandonAll(p)
    /\ UNCHANGED <<clockVars, elect, worker>>

-----------------------------------------------------------------------------
(* Faults and time                                                         *)

(* The loop raised outside its own try block (scheduler's run_forever).    *)
WorkerCrash(p) ==
    /\ "workerCrash" \in Faults
    /\ Active(p)
    /\ worker' = [worker EXCEPT ![p] = "crashed"]
    /\ UNCHANGED <<redisVars, cacheVars, lockVars, clockVars, elect, stopper>>

(* The process dies and is started again: fresh module state, and the      *)
(* kernel drops its descriptors.                                           *)
Crash(p) ==
    /\ "crash" \in Faults
    /\ DropObject(p)
    /\ stopper' = [stopper EXCEPT ![p] = "idle"]
    /\ client' = [client EXCEPT ![p] = FALSE]
    /\ retryIn' = [retryIn EXCEPT ![p] = 0]
    /\ backoff' = [backoff EXCEPT ![p] = 1]
    /\ flock' = [h \in Host |-> IF flock[h] = p THEN NoOne ELSE flock[h]]
    /\ stale' = [stale EXCEPT ![p] = FALSE]
    /\ lease' = IF lease = p THEN Orphan ELSE lease
    /\ UNCHANGED <<reach, ttl>>

Outage ==
    /\ "outage" \in Faults
    /\ reach' = [p \in Proc |-> FALSE]
    /\ UNCHANGED <<lease, ttl, cacheVars, lockVars, clockVars, taskVars>>

(* Redis answers again, or a restarted one does, without its keys.         *)
Recovery ==
    /\ "outage" \in Faults
    /\ reach' = [p \in Proc |-> TRUE]
    /\ \/ UNCHANGED <<lease, ttl>>
       \/ "flush" \in Faults /\ reach # reach' /\ lease' = NoOne /\ ttl' = 0
    /\ UNCHANGED <<cacheVars, lockVars, clockVars, taskVars>>

Partition(p) ==
    /\ "partition" \in Faults
    /\ reach' = [reach EXCEPT ![p] = ~@]
    /\ UNCHANGED <<lease, ttl, cacheVars, lockVars, clockVars, taskVars>>

(* A second passes.  Finishing a cancelled task takes no time, and a tick  *)
(* runs at most Slack after it is due.                                     *)
Clock ==
    /\ \A p \in Proc :
          /\ elect[p] = "polling" => age[p] < Poll + Slack
          /\ elect[p] # "cancelling"
          /\ stopper[p] # "joinWorker"
    /\ ttl' = IF ttl = 0 THEN 0 ELSE ttl - 1
    /\ lease' = IF ttl <= 1 THEN NoOne ELSE lease
    /\ retryIn' = [p \in Proc |-> IF retryIn[p] = 0 THEN 0 ELSE retryIn[p] - 1]
    /\ age' = [p \in Proc |-> IF elect[p] = "polling" THEN age[p] + 1 ELSE 0]
    /\ sinceUp' = [p \in Proc |->
                      IF seenUp[p] THEN AtMost(sinceUp[p] + 1, Lease) ELSE 0]
    /\ UNCHANGED <<reach, client, backoff, lockVars, seenUp, taskVars>>

-----------------------------------------------------------------------------
Init ==
    /\ reach \in {[p \in Proc |-> up] : up \in BOOLEAN}
    /\ ("outage" \notin Faults => reach = [p \in Proc |-> TRUE])
    /\ lease = NoOne /\ ttl = 0
    /\ client = [p \in Proc |-> FALSE]
    /\ retryIn = [p \in Proc |-> 0]
    /\ backoff = [p \in Proc |-> 1]
    /\ flock = [h \in Host |-> NoOne]
    /\ stale = [p \in Proc |-> FALSE]
    /\ elect = [p \in Proc |-> "none"]
    /\ worker = [p \in Proc |-> "none"]
    /\ stopper = [p \in Proc |-> "idle"]
    /\ age = [p \in Proc |-> 0]
    /\ seenUp = [p \in Proc |-> FALSE]
    /\ sinceUp = [p \in Proc |-> 0]

Step(p) ==
    \/ Boot(p) \/ Tick(p) \/ CancelDone(p) \/ CancelRaises(p)
    \/ Stop(p) \/ FinishStop(p) \/ OtherCacheUse(p)
    \/ WorkerCrash(p) \/ Crash(p) \/ Partition(p)

Next == Clock \/ Outage \/ Recovery \/ \E p \in Proc : Step(p)

Spec == Init /\ [][Next]_vars

(* The event loop runs every task that is ready, and time passes.  start() *)
(* is called when a process comes up (main.py lifespan) and by nobody else *)
(* unless an operator does, so a failed election has no fair Boot.         *)
Fairness ==
    /\ WF_vars(Clock)
    /\ \A p \in Proc :
          /\ WF_vars(elect[p] = "none" /\ Boot(p))
          /\ WF_vars(Tick(p))
          /\ WF_vars(CancelDone(p))

FairSpec == Spec /\ Fairness
-----------------------------------------------------------------------------
(* What the election promises                                              *)

(* A running loop is never without authority: its process holds a lease    *)
(* that has not run out, or its machine's file lock.  Renewal, expiry,     *)
(* crash, stop and fallback all have to line up for this: a tick that      *)
(* could not renew must have stopped the loop before the lease was gone.   *)
HoldsLease(p) == lease = p /\ ttl > 0
ClaimBacked == \A p \in Leaders : HoldsLease(p) \/ LocalHeld(p)

(* Why: since the tick that took the lease, it has lost no more than the   *)
(* time its holder has been asleep.                                        *)
LeaseOutlivesTick ==
    \A p \in Leaders : LocalHeld(p) \/ (lease = p /\ ttl + age[p] >= Lease)

(* A process that is not bidding runs no loop, however its election ended. *)
(* (_stop_worker forgets the task before it awaits it, and a failed        *)
(* election is one that was just stopping its worker.)                     *)
NoLoopWithoutBid == \A p \in Leaders : elect[p] = "polling"

(* The inductive invariant behind ClaimBacked.                             *)
ClaimInv ==
    /\ TypeOK
    /\ LeaseOutlivesTick
    /\ NoLoopWithoutBid
    /\ \A p \in Proc : stale[p] => flock[HostOf[p]] = p
    /\ \A p \in Proc : stopper[p] = "joinWorker" => elect[p] = "none"

(* Two loops run at once only when they stand on different authority: one  *)
(* on the lease, or one per machine's file lock.                           *)
SingleLeader == Cardinality(Leaders) <= 1

(* Once Redis stays up, or stays down, one loop runs and goes on running:  *)
(* the smoke test's rows "exactly 1 leader again, via local-lock fallback" *)
(* and "exactly 1 leader, resumed via the Redis lease", on one machine.    *)
Settled == <>[](\A p \in Proc : reach[p]) \/ <>[](\A p \in Proc : ~reach[p])
SettlesOnOneLeader == Settled => <>[](Cardinality(Leaders) = 1)

(* The weaker promise that the loop keeps coming back: "never zero leaders *)
(* once past a fail-closed window".                                        *)
LoopKeepsComingBack == Settled => []<>(Leaders # {})

(* While Redis answers, the election implements the abstract one: no two   *)
(* loops at once on any machines, and a successor only after the loop      *)
(* before it has ended.                                                    *)
Leader == IF Leaders = {} THEN NoOne ELSE CHOOSE p \in Leaders : TRUE
Bidding == {p \in Proc : elect[p] = "polling"}
Sole == INSTANCE SoleLeader
            WITH Bidder <- Proc, NoLeader <- NoOne, bidding <- Bidding, leader <- Leader
ImplementsSoleLeader == Sole!Spec
=============================================================================
