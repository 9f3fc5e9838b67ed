------------------------ MODULE LeaderElection_proofs ------------------------
(* Proofs about LeaderElection: types, that a running loop is backed by a  *)
(* lease or a file lock, and that it is alone while Redis answers.         *)
EXTENDS LeaderElection, FiniteSetTheorems, TLAPS

USE DEF AtMost

CacheTyped ==
    /\ client \in [Proc -> BOOLEAN]
    /\ retryIn \in [Proc -> 0..Cap]
    /\ backoff \in [Proc -> 1..Cap]

TaskTyped ==
    /\ elect \in [Proc -> ElectState]
    /\ worker \in [Proc -> {"none", "running", "crashed"}]
    /\ stopper \in [Proc -> {"idle", "joinElection", "joinWorker"}]

ClockTyped ==
    /\ age \in [Proc -> 0..(Poll + Slack)]
    /\ seenUp \in [Proc -> BOOLEAN]
    /\ sinceUp \in [Proc -> 0..Lease]

(* The client's state after a lost connection is within its bounds.        *)
LEMMA MarkDownType ==
  ASSUME NEW p \in Proc, CacheTyped, MarkDown(p) PROVE CacheTyped'
<1>1. backoff[p] \in 1..Cap /\ AtMost(2 * backoff[p], Cap) \in 1..Cap
  BY ConstantsAssumption DEF CacheTyped
<1>2. client' \in [Proc -> BOOLEAN]
  BY DEF CacheTyped, MarkDown
<1>3. retryIn' \in [Proc -> 0..Cap]
  BY <1>1, ConstantsAssumption DEF CacheTyped, MarkDown
<1>4. backoff' \in [Proc -> 1..Cap]
  BY <1>1, ConstantsAssumption DEF CacheTyped, MarkDown
<1> QED
  BY <1>2, <1>3, <1>4 DEF CacheTyped

(* So it is after any call made through it.                                *)
LEMMA CacheCallType ==
  ASSUME NEW p \in Proc, CacheTyped, CacheCall(p) PROVE CacheTyped'
<1>1. CASE UNCHANGED cacheVars
  BY <1>1 DEF CacheTyped, cacheVars
<1>2. CASE MarkUp(p)
  BY <1>2, ConstantsAssumption DEF CacheTyped, MarkUp
<1>3. CASE MarkDown(p)
  BY <1>3, MarkDownType
<1> QED
  BY <1>1, <1>2, <1>3 DEF CacheCall

(* A tick leaves the tasks typed whether it leads or steps down.           *)
LEMMA TickTasksType ==
  ASSUME NEW p \in Proc, TaskTyped, Lead(p) \/ StepDown(p) PROVE TaskTyped'
<1>1. CASE Lead(p)
  BY <1>1 DEF Lead, TaskTyped
<1>2. CASE StepDown(p)
  BY <1>2 DEF StepDown, TaskTyped, ElectState
<1> QED
  BY <1>1, <1>2

(* And the clocks it starts over.                                          *)
LEMMA TickClocksType ==
  ASSUME NEW p \in Proc, ClockTyped, TickBegins(p) PROVE ClockTyped'
<1>1. 0 \in 0..(Poll + Slack) /\ 0 \in 0..Lease
  BY ConstantsAssumption
<1>2. age' \in [Proc -> 0..(Poll + Slack)]
  BY <1>1 DEF TickBegins, ClockTyped
<1>3. CASE RedisState(p) = "connected"
  BY <1>1, <1>2, <1>3 DEF TickBegins, NoteConnected, ClockTyped
<1>4. CASE RedisState(p) # "connected"
  BY <1>2, <1>4 DEF TickBegins, NoteConnected, ClockTyped
<1> QED
  BY <1>3, <1>4

LEMMA DropObjectType ==
  ASSUME NEW p \in Proc, TaskTyped, ClockTyped, DropObject(p),
         stopper' \in [Proc -> {"idle", "joinElection", "joinWorker"}]
  PROVE  TaskTyped' /\ ClockTyped'
<1>1. 0 \in 0..(Poll + Slack) /\ 0 \in 0..Lease
  BY ConstantsAssumption
<1>2. TaskTyped'
  BY DEF DropObject, TaskTyped, ElectState
<1>3. ClockTyped'
  BY <1>1 DEF DropObject, ClockTyped
<1> QED
  BY <1>2, <1>3

LEMMA ReleaseAllType ==
  ASSUME NEW p \in Proc, TypeOK, ReleaseAll(p)
  PROVE  /\ CacheTyped'
         /\ lease' \in Proc \cup {NoOne, Orphan} /\ ttl' \in 0..Lease
         /\ flock' \in [Host -> Proc \cup {NoOne}]
         /\ reach' = reach /\ stale' = stale
<1>1. CacheTyped'
  BY CacheCallType DEF ReleaseAll, TypeOK, CacheTyped
<1>2. lease' \in Proc \cup {NoOne, Orphan} /\ ttl' \in 0..Lease
  BY ConstantsAssumption DEF ReleaseAll, TypeOK
<1>3. flock' \in [Host -> Proc \cup {NoOne}]
  BY ConstantsAssumption DEF ReleaseAll, LocalRelease, TypeOK
<1> QED
  BY <1>1, <1>2, <1>3 DEF ReleaseAll

(* Every step keeps every variable in its type, whatever the faults.       *)
LEMMA TypeStep == TypeOK /\ [Next]_vars => TypeOK'
<1> SUFFICES ASSUME TypeOK, [Next]_vars PROVE TypeOK'
  OBVIOUS
<1> USE ConstantsAssumption, TicksOutpaceLease DEF TypeOK, ElectState
<1>0. CASE UNCHANGED vars
  BY <1>0 DEF vars, redisVars, cacheVars, lockVars, clockVars, taskVars
<1>1. CASE Clock
  BY <1>1 DEF Clock, lockVars, taskVars
<1>2. CASE Outage
  BY <1>2 DEF Outage, cacheVars, lockVars, clockVars, taskVars
<1>3. CASE Recovery
  BY <1>3 DEF Recovery, cacheVars, lockVars, clockVars, taskVars
<1>4. ASSUME NEW p \in Proc, Boot(p) PROVE TypeOK'
  BY <1>4 DEF Boot, redisVars, cacheVars, lockVars
<1>5. ASSUME NEW p \in Proc, LocalTick(p) PROVE TypeOK'
  <2>1. CacheTyped'
    BY <1>5, CacheCallType DEF LocalTick, CacheTyped
  <2>2. TaskTyped'
    BY <1>5, TickTasksType DEF LocalTick, TaskTyped
  <2>3. ClockTyped'
    BY <1>5, TickClocksType DEF LocalTick, ClockTyped
  <2>4. flock' \in [Host -> Proc \cup {NoOne}]
    BY <1>5 DEF LocalTick, LocalAcquire
  <2> QED
    BY <1>5, <2>1, <2>2, <2>3, <2>4
    DEF LocalTick, redisVars, CacheTyped, TaskTyped, ClockTyped
<1>6. ASSUME NEW p \in Proc, RedisTick(p) PROVE TypeOK'
  <2>1. CacheTyped'
    BY <1>6, CacheCallType, MarkDownType DEF RedisTick, CacheTyped
  <2>2. TaskTyped'
    BY <1>6, TickTasksType DEF RedisTick, TaskTyped
  <2>3. ClockTyped'
    BY <1>6, TickClocksType DEF RedisTick, ClockTyped
  <2>4. flock' \in [Host -> Proc \cup {NoOne}]
    BY <1>6 DEF RedisTick, LocalRelease
  <2>5. /\ reach' = reach /\ stale' = stale
        /\ lease' \in Proc \cup {NoOne, Orphan} /\ ttl' \in 0..Lease
    BY <1>6 DEF RedisTick, TakeLease, redisVars
  <2> QED
    BY <2>1, <2>2, <2>3, <2>4, <2>5 DEF CacheTyped, TaskTyped, ClockTyped
<1>7. ASSUME NEW p \in Proc, CancelDone(p) \/ CancelRaises(p) PROVE TypeOK'
  BY <1>7 DEF CancelDone, CancelRaises, redisVars, cacheVars, lockVars, clockVars
<1>8. ASSUME NEW p \in Proc, StopPolling(p) PROVE TypeOK'
  <2>1. TaskTyped' /\ ClockTyped'
    BY <1>8, DropObjectType DEF StopPolling, TaskTyped, ClockTyped
  <2>2. CASE ReleaseAll(p)
    BY <2>1, <2>2, ReleaseAllType DEF CacheTyped, TaskTyped, ClockTyped
  <2>3. CASE AbandonAll(p)
    BY <2>1, <2>3 DEF AbandonAll, cacheVars, LocalHeld, TaskTyped, ClockTyped
  <2>4. CASE UNCHANGED <<redisVars, cacheVars, lockVars>>
    BY <2>1, <2>4 DEF redisVars, cacheVars, lockVars, TaskTyped, ClockTyped
  <2> QED
    BY <1>8, <2>2, <2>3, <2>4 DEF StopPolling
<1>9. ASSUME NEW p \in Proc, StopCancelling(p) \/ StopFailed(p) PROVE TypeOK'
  <2>1. CASE StopCancelling(p)
    BY <2>1 DEF StopCancelling, redisVars, cacheVars, lockVars, clockVars
  <2>2. CASE StopFailed(p)
    <3>1. TaskTyped' /\ ClockTyped'
      BY <2>2, DropObjectType DEF StopFailed, TaskTyped, ClockTyped
    <3> QED
      BY <2>2, <3>1 DEF StopFailed, AbandonAll, LocalHeld, cacheVars, TaskTyped, ClockTyped
  <2> QED
    BY <1>9, <2>1, <2>2
<1>10. ASSUME NEW p \in Proc, FinishStop(p) PROVE TypeOK'
  <2>1. CASE ReleaseAll(p)
    BY <1>10, <2>1, ReleaseAllType DEF FinishStop, CacheTyped, clockVars
  <2>2. CASE AbandonAll(p)
    BY <1>10, <2>2 DEF FinishStop, AbandonAll, LocalHeld, cacheVars, clockVars
  <2> QED
    BY <1>10, <2>1, <2>2 DEF FinishStop
<1>14. ASSUME NEW p \in Proc, OtherCacheUse(p) PROVE TypeOK'
  <2>1. CacheTyped'
    BY <1>14, CacheCallType DEF OtherCacheUse, CacheTyped
  <2> QED
    BY <1>14, <2>1 DEF OtherCacheUse, CacheTyped, redisVars, lockVars, clockVars, taskVars
<1>11. ASSUME NEW p \in Proc, WorkerCrash(p) PROVE TypeOK'
  BY <1>11 DEF WorkerCrash, redisVars, cacheVars, lockVars, clockVars
<1>12. ASSUME NEW p \in Proc, Crash(p) PROVE TypeOK'
  BY <1>12 DEF Crash, DropObject
<1>13. ASSUME NEW p \in Proc, Partition(p) PROVE TypeOK'
  BY <1>13 DEF Partition, cacheVars, lockVars, clockVars, taskVars
<1> QED
  BY <1>0, <1>1, <1>2, <1>3, <1>4, <1>5, <1>6, <1>7, <1>8, <1>9, <1>10, <1>11,
     <1>12, <1>13, <1>14 DEF Next, Step, Tick, Stop

(* The state of the election, the two locks and the client stay typed.     *)
THEOREM TypeCorrect == Spec => []TypeOK
<1>1. Init => TypeOK
  BY ConstantsAssumption, TicksOutpaceLease DEF Init, TypeOK, ElectState
<1> QED
  BY <1>1, TypeStep, PTL DEF Spec
-----------------------------------------------------------------------------
(* What p's steps leave alone of another process's claim.                  *)
Undisturbed(q) ==
    /\ worker'[q] = worker[q] /\ elect'[q] = elect[q] /\ age'[q] = age[q]
    /\ stopper'[q] = stopper[q] /\ stale'[q] = stale[q]
    /\ flock[HostOf[q]] = q => flock'[HostOf[q]] = q
    /\ lease = q => lease' = q /\ ttl' >= ttl

Claim(q) ==
    /\ worker[q] = "running" =>
          /\ elect[q] = "polling"
          /\ LocalHeld(q) \/ (lease = q /\ ttl + age[q] >= Lease)
    /\ stale[q] => flock[HostOf[q]] = q
    /\ stopper[q] = "joinWorker" => elect[q] = "none"

LEMMA ClaimInvByProcess == ClaimInv <=> TypeOK /\ \A q \in Proc : Claim(q)
BY DEF ClaimInv, Claim, LeaseOutlivesTick, NoLoopWithoutBid, Leaders, Active

LEMMA UndisturbedClaim ==
  ASSUME NEW q \in Proc, TypeOK, TypeOK', Claim(q), Undisturbed(q)
  PROVE  Claim(q)'
BY ConstantsAssumption DEF TypeOK, Claim, Undisturbed, LocalHeld

(* Any step of one process keeps the claims of the others.                 *)
LEMMA OthersKeepClaims ==
  ASSUME NEW p \in Proc, NEW q \in Proc, q # p, TypeOK, TypeOK', Step(p)
  PROVE  Undisturbed(q)
<1> USE ConstantsAssumption DEF TypeOK, Undisturbed
<1>1. CASE Boot(p)
  BY <1>1 DEF Boot, redisVars, lockVars
<1>2. CASE LocalTick(p)
  BY <1>2 DEF LocalTick, TickBegins, LocalFree, LocalHeld, LocalAcquire, Lead,
              StepDown, redisVars
<1>3. CASE RedisTick(p)
  BY <1>3 DEF RedisTick, TickBegins, LocalHeld, LocalRelease, Lead, StepDown,
              TakeLease, LeaseOpen, redisVars
<1>4. CASE CancelDone(p) \/ CancelRaises(p)
  BY <1>4 DEF CancelDone, CancelRaises, redisVars, lockVars, clockVars
<1>5. CASE Stop(p)
  BY <1>5 DEF Stop, StopPolling, StopCancelling, StopFailed, DropObject, ReleaseAll,
              AbandonAll, LocalRelease, LocalHeld, redisVars, lockVars, clockVars
<1>6. CASE FinishStop(p)
  BY <1>6 DEF FinishStop, ReleaseAll, AbandonAll, LocalRelease, LocalHeld, clockVars
<1>7. CASE OtherCacheUse(p) \/ WorkerCrash(p) \/ Partition(p)
  BY <1>7 DEF OtherCacheUse, WorkerCrash, Partition, redisVars, lockVars, clockVars,
              taskVars
<1>8. CASE Crash(p)
  BY <1>8 DEF Crash, DropObject
<1> QED
  BY <1>1, <1>2, <1>3, <1>4, <1>5, <1>6, <1>7, <1>8 DEF Step, Tick

(* And its own: a loop it leaves running has a claim.                      *)
LEMMA OwnClaim ==
  ASSUME NEW p \in Proc, TypeOK, TypeOK', Claim(p), Step(p)
  PROVE  Claim(p)'
<1> USE ConstantsAssumption DEF TypeOK, Claim
<1>1. CASE Boot(p)
  BY <1>1 DEF Boot, redisVars, lockVars, LocalHeld
<1>2. CASE LocalTick(p)
  <2>1. CASE LocalFree(p) /\ LocalAcquire(p) /\ Lead(p)
    BY <1>2, <2>1 DEF LocalTick, TickBegins, LocalFree, LocalHeld, LocalAcquire, Lead
  <2>2. CASE UNCHANGED flock /\ StepDown(p)
    BY <1>2, <2>2 DEF LocalTick, TickBegins, StepDown
  <2> QED
    BY <1>2, <2>1, <2>2 DEF LocalTick
<1>3. CASE RedisTick(p)
  <2>1. stale[p] => flock'[HostOf[p]] = p
    BY <1>3 DEF RedisTick, LocalRelease, LocalHeld
  <2>2. CASE TakeLease(p) /\ Lead(p)
    BY <1>3, <2>1, <2>2 DEF RedisTick, TickBegins, TakeLease, Lead
  <2>3. CASE StepDown(p)
    BY <1>3, <2>1, <2>3 DEF RedisTick, TickBegins, StepDown
  <2> QED
    BY <1>3, <2>2, <2>3 DEF RedisTick
<1>4. CASE CancelDone(p) \/ CancelRaises(p)
  BY <1>4 DEF CancelDone, CancelRaises, redisVars, lockVars, clockVars, LocalHeld
<1>5. CASE Stop(p)
  BY <1>5 DEF Stop, StopPolling, StopCancelling, StopFailed, DropObject, ReleaseAll,
              AbandonAll, LocalRelease, LocalHeld, redisVars, lockVars, clockVars
<1>6. CASE FinishStop(p)
  BY <1>6 DEF FinishStop, ReleaseAll, AbandonAll, LocalRelease, LocalHeld, clockVars
<1>7. CASE OtherCacheUse(p) \/ WorkerCrash(p) \/ Partition(p)
  BY <1>7 DEF OtherCacheUse, WorkerCrash, Partition, redisVars, lockVars, clockVars,
              taskVars, LocalHeld
<1>8. CASE Crash(p)
  BY <1>8 DEF Crash, DropObject
<1> QED
  BY <1>1, <1>2, <1>3, <1>4, <1>5, <1>6, <1>7, <1>8 DEF Step, Tick

(* A second that passes costs the lease a second and adds one to the age.  *)
LEMMA ClockClaim ==
  ASSUME NEW q \in Proc, TypeOK, TypeOK', Claim(q), Clock
  PROVE  Claim(q)'
<1>1. /\ worker' = worker /\ elect' = elect /\ stopper' = stopper
      /\ flock' = flock /\ stale' = stale
  BY DEF Clock, lockVars, taskVars
<1>2. ASSUME worker[q] = "running", lease = q, ttl + age[q] >= Lease
      PROVE  lease' = q /\ ttl' + age'[q] >= Lease
  <2>1. age[q] < Poll + Slack /\ age'[q] = age[q] + 1
    BY <1>2 DEF Clock, Claim
  <2>2. ttl \in Nat /\ age[q] \in Nat /\ Lease \in Nat /\ Poll + Slack \in Nat
    BY ConstantsAssumption DEF TypeOK
  <2>3. ttl > 1
    BY <1>2, <2>1, <2>2, TicksOutpaceLease
  <2> QED
    BY <1>2, <2>1, <2>2, <2>3 DEF Clock
<1> QED
  BY <1>1, <1>2 DEF Claim, LocalHeld

LEMMA ClaimStep ==
  ASSUME "flush" \notin Faults PROVE ClaimInv /\ [Next]_vars => ClaimInv'
<1> SUFFICES ASSUME TypeOK, TypeOK', [Next]_vars, NEW q \in Proc, Claim(q)
             PROVE  Claim(q)'
  <2>1. ClaimInv' <=> TypeOK' /\ \A q \in Proc : Claim(q)'
    BY DEF ClaimInv, Claim, LeaseOutlivesTick, NoLoopWithoutBid, Leaders, Active
  <2> QED
    BY <2>1, TypeStep, ClaimInvByProcess
<1>1. CASE UNCHANGED vars
  BY <1>1 DEF vars, redisVars, lockVars, clockVars, taskVars, Claim, LocalHeld
<1>2. CASE Clock
  BY <1>2, ClockClaim
<1>3. CASE Outage \/ Recovery
  BY <1>3 DEF Outage, Recovery, cacheVars, lockVars, clockVars, taskVars, Claim, LocalHeld
<1>4. ASSUME NEW p \in Proc, Step(p) PROVE Claim(q)'
  <2>1. CASE p = q
    BY <1>4, <2>1, OwnClaim
  <2>2. CASE p # q
    BY <1>4, <2>2, OthersKeepClaims, UndisturbedClaim
  <2> QED
    BY <2>1, <2>2
<1> QED
  BY <1>1, <1>2, <1>3, <1>4 DEF Next

(* Unless Redis loses its keys: what the lease has lost is what its holder *)
(* has slept, no loop is left without a bidder that would stop it, and a   *)
(* lock under a lost name is one the process holds.                        *)
THEOREM ClaimsAreKept == ASSUME "flush" \notin Faults PROVE Spec => []ClaimInv
<1>1. Init => ClaimInv
  BY ConstantsAssumption, TicksOutpaceLease
  DEF Init, ClaimInv, TypeOK, ElectState, LeaseOutlivesTick, NoLoopWithoutBid,
      Leaders, Active
<1> QED
  BY <1>1, ClaimStep, PTL DEF Spec

(* Then no fault leaves a loop running without a lease that has time left  *)
(* or its machine's file lock.                                             *)
THEOREM ClaimsHold == ASSUME "flush" \notin Faults PROVE Spec => []ClaimBacked
<1>1. ClaimInv => ClaimBacked
  <2> SUFFICES ASSUME ClaimInv, NEW p \in Leaders, lease = p, ttl + age[p] >= Lease
               PROVE  ttl > 0
    BY DEF ClaimInv, ClaimBacked, LeaseOutlivesTick, HoldsLease
  <2>1. ttl \in Nat /\ age[p] \in 0..(Poll + Slack)
    BY DEF ClaimInv, TypeOK, Leaders
  <2> QED
    BY <2>1, ConstantsAssumption, TicksOutpaceLease
<1> QED
  BY <1>1, ClaimsAreKept, PTL
-----------------------------------------------------------------------------
(* How many loops a fault can lead to.  The lease has one holder and each  *)
(* file lock one, whoever cannot see whom.                                 *)
Holders == {lease} \cup {flock[h] : h \in Host}

LEMMA LeadersAreHolders == ASSUME ClaimInv PROVE Leaders \subseteq Holders
BY ConstantsAssumption DEF ClaimInv, LeaseOutlivesTick, LocalHeld, Leaders, Holders

LEMMA HoldersAreFew ==
  ASSUME IsFiniteSet(Host)
  PROVE  IsFiniteSet(Holders) /\ Cardinality(Holders) <= Cardinality(Host) + 1
<1> DEFINE Locks == {flock[h] : h \in Host}
<1>1. IsFiniteSet(Locks) /\ Cardinality(Locks) <= Cardinality(Host)
  <2> DEFINE f == [h \in Host |-> flock[h]]
  <2>1. f \in Surjection(Host, Locks)
    <3>1. f \in [Host -> Locks] /\ \A l \in Locks : \E h \in Host : f[h] = l
      OBVIOUS
    <3> QED
      BY <3>1 DEF Surjection
  <2> HIDE DEF f, Locks
  <2>2. IsFiniteSet(Locks) /\ Cardinality(Locks) <= Cardinality(Host)
    BY <2>1, FS_Surjection
  <2> QED
    BY <2>2
<1>2. Cardinality(Host) \in Nat /\ Cardinality(Locks) \in Nat
  BY <1>1, FS_CardinalityType
<1>3. Holders = Locks \cup {lease}
  BY DEF Holders
<1> HIDE DEF Locks
<1>4. /\ IsFiniteSet(Locks \cup {lease}) /\ Cardinality(Locks \cup {lease}) \in Nat
      /\ Cardinality(Locks \cup {lease}) <= Cardinality(Locks) + 1
  <2>1. /\ IsFiniteSet(Locks \cup {lease})
        /\ Cardinality(Locks \cup {lease})
             = IF lease \in Locks THEN Cardinality(Locks) ELSE Cardinality(Locks) + 1
    BY <1>1, FS_AddElement
  <2> QED
    BY <1>2, <2>1
<1>5. Cardinality(Locks \cup {lease}) <= Cardinality(Host) + 1
  BY <1>1, <1>2, <1>4
<1> QED
  BY <1>3, <1>4, <1>5

(* Outages, partitions, lost replies, crashes and stops, on any number of  *)
(* processes: unless Redis loses its keys no more loops run at once than   *)
(* there are machines, and one.  That is what fail-open on the file lock   *)
(* can cost (run leader_outage).                                           *)
THEOREM LoopsAreFew ==
  ASSUME IsFiniteSet(Host), "flush" \notin Faults
  PROVE  Spec => [](Cardinality(Leaders) <= Cardinality(Host) + 1)
<1>1. ClaimInv => Cardinality(Leaders) <= Cardinality(Host) + 1
  <2> SUFFICES ASSUME ClaimInv PROVE Cardinality(Leaders) <= Cardinality(Host) + 1
    OBVIOUS
  <2>1. /\ IsFiniteSet(Holders) /\ Cardinality(Holders) <= Cardinality(Host) + 1
        /\ IsFiniteSet(Leaders) /\ Cardinality(Leaders) <= Cardinality(Holders)
    BY LeadersAreHolders, HoldersAreFew, FS_Subset
  <2>2. /\ Cardinality(Host) \in Nat /\ Cardinality(Holders) \in Nat
        /\ Cardinality(Leaders) \in Nat
    BY <2>1, FS_CardinalityType
  <2> QED
    BY <2>1, <2>2
<1> QED
  BY <1>1, ClaimsAreKept, PTL

(* Without Redis nobody ever holds a lease.                                *)
LEMMA NobodyLeases ==
  ASSUME ~Configured, TypeOK, lease \notin Proc, [Next]_vars PROVE lease' \notin Proc
<1> USE ConstantsAssumption
<1>1. CASE UNCHANGED vars
  BY <1>1 DEF vars, redisVars
<1>2. CASE Clock \/ Outage \/ Recovery
  BY <1>2 DEF Clock, Outage, Recovery
<1>3. ASSUME NEW p \in Proc, Step(p) PROVE lease' \notin Proc
  <2>1. CASE Tick(p)
    BY <2>1 DEF Tick, LocalTick, RedisTick, UsesLocalLock, RedisState, redisVars
  <2>2. CASE Boot(p) \/ CancelDone(p) \/ CancelRaises(p) \/ OtherCacheUse(p)
    BY <2>2 DEF Boot, CancelDone, CancelRaises, OtherCacheUse, redisVars
  <2>3. CASE Stop(p) \/ FinishStop(p)
    BY <2>3 DEF Stop, StopPolling, StopCancelling, StopFailed, FinishStop, ReleaseAll, AbandonAll,
                redisVars
  <2>4. CASE WorkerCrash(p) \/ Crash(p) \/ Partition(p)
    BY <2>4 DEF WorkerCrash, Crash, Partition, redisVars
  <2> QED
    BY <1>3, <2>1, <2>2, <2>3, <2>4 DEF Step
<1> QED
  BY <1>1, <1>2, <1>3 DEF Next

(* A deployment without Redis: the file lock of a machine lets one loop    *)
(* run there, through crashes, stops and restarts of its processes; so one *)
(* in all on one machine, and no more than one on each of several.         *)
THEOREM OneLoopPerMachine ==
  ASSUME ~Configured, "flush" \notin Faults
  PROVE  Spec => [](\A p, q \in Leaders : HostOf[p] = HostOf[q] => p = q)
<1>1. Init => ClaimInv /\ lease \notin Proc
  BY ConstantsAssumption, TicksOutpaceLease
  DEF Init, ClaimInv, TypeOK, ElectState, LeaseOutlivesTick, NoLoopWithoutBid,
      Leaders, Active
<1>2. (ClaimInv /\ lease \notin Proc) /\ [Next]_vars => (ClaimInv /\ lease \notin Proc)'
  BY ClaimStep, NobodyLeases DEF ClaimInv
<1>3. ClaimInv /\ lease \notin Proc => \A p, q \in Leaders : HostOf[p] = HostOf[q] => p = q
  BY DEF ClaimInv, LeaseOutlivesTick, LocalHeld, Leaders
<1> QED
  BY <1>1, <1>2, <1>3, PTL DEF Spec
-----------------------------------------------------------------------------
(* Redis always answers: none of the faults that cut a process off from it *)
(* can happen.                                                             *)
RedisAnswers == Configured /\ Faults \subseteq {"crash", "workerCrash", "stop"}

(* Then nobody backs off or takes a file lock, so every claim is the lease.*)
OnlyLeases ==
    /\ \A p \in Proc : reach[p] /\ retryIn[p] = 0
    /\ \A h \in Host : flock[h] = NoOne

LEMMA RedisDecides ==
  ASSUME RedisAnswers, OnlyLeases, NEW p \in Proc
  PROVE  GetClient(p) /\ reach[p] /\ ~UsesLocalLock(p)
BY DEF RedisAnswers, OnlyLeases, GetClient, RedisState, UsesLocalLock

LEMMA OnlyLeasesStep ==
  ASSUME RedisAnswers, OnlyLeases, TypeOK, [Next]_vars PROVE OnlyLeases'
<1> USE ConstantsAssumption DEF TypeOK, OnlyLeases
<1>1. ASSUME NEW p \in Proc, CacheCall(p) PROVE retryIn' = retryIn
  BY <1>1 DEF CacheCall, MarkUp, cacheVars
<1>2. ASSUME NEW p \in Proc, ReleaseAll(p) PROVE retryIn' = retryIn /\ flock' = flock
  BY <1>1, <1>2 DEF ReleaseAll, LocalRelease, LocalHeld
<1>3. CASE UNCHANGED vars
  BY <1>3 DEF vars, redisVars, cacheVars, lockVars
<1>4. CASE Clock
  BY <1>4 DEF Clock, lockVars
<1>5. CASE Outage \/ Recovery
  BY <1>5 DEF Outage, Recovery, RedisAnswers
<1>6. ASSUME NEW p \in Proc, Step(p) PROVE OnlyLeases'
  <2>1. CASE Boot(p)
    BY <2>1 DEF Boot, redisVars, cacheVars, lockVars
  <2>2. CASE Tick(p)
    BY <2>2, <1>1, RedisDecides
    DEF Tick, LocalTick, RedisTick, TakeLease, LocalRelease, LocalHeld, RedisAnswers,
        redisVars
  <2>3. CASE CancelDone(p) \/ CancelRaises(p)
    BY <2>3 DEF CancelDone, CancelRaises, redisVars, cacheVars, lockVars
  <2>4. CASE Stop(p)
    BY <2>4, <1>2 DEF Stop, StopPolling, StopCancelling, StopFailed, AbandonAll,
                      ReleaseAll, redisVars, cacheVars, lockVars
  <2>5. CASE FinishStop(p)
    BY <2>5, <1>2 DEF FinishStop, AbandonAll, ReleaseAll, cacheVars
  <2>6. CASE OtherCacheUse(p)
    BY <2>6, <1>1 DEF OtherCacheUse, redisVars, lockVars
  <2>7. CASE WorkerCrash(p) \/ Crash(p) \/ Partition(p)
    BY <2>7 DEF WorkerCrash, Crash, Partition, RedisAnswers, redisVars, cacheVars, lockVars
  <2> QED
    BY <1>6, <2>1, <2>2, <2>3, <2>4, <2>5, <2>6, <2>7 DEF Step
<1> QED
  BY <1>3, <1>4, <1>5, <1>6 DEF Next

SoleInv == ClaimInv /\ OnlyLeases

LEMMA SoleInvariant == ASSUME RedisAnswers PROVE Spec => []SoleInv
<1>1. Init => SoleInv
  BY ConstantsAssumption, TicksOutpaceLease
  DEF Init, SoleInv, ClaimInv, OnlyLeases, RedisAnswers, TypeOK, ElectState,
      LeaseOutlivesTick, NoLoopWithoutBid, Leaders, Active
<1>2. "flush" \notin Faults
  BY DEF RedisAnswers
<1>3. SoleInv /\ [Next]_vars => SoleInv'
  BY <1>2, ClaimStep, OnlyLeasesStep DEF SoleInv, ClaimInv
<1> QED
  BY <1>1, <1>3, PTL DEF Spec

LEMMA LeadersHoldTheLease ==
  ASSUME SoleInv PROVE Leaders \subseteq {p \in Proc : p = lease}
BY ConstantsAssumption
DEF SoleInv, ClaimInv, OnlyLeases, LeaseOutlivesTick, LocalHeld, Leaders

(* While Redis answers, one loop at most runs, on all machines together,   *)
(* through crashes and stops at any moment.                                *)
THEOREM OneLeader == ASSUME RedisAnswers PROVE Spec => []SingleLeader
<1>1. SoleInv => SingleLeader
  <2> SUFFICES ASSUME SoleInv PROVE Cardinality(Leaders) <= 1
    BY DEF SingleLeader
  <2>1. Leaders \subseteq {lease}
    BY LeadersHoldTheLease
  <2>2. IsFiniteSet({lease}) /\ Cardinality({lease}) = 1
    BY FS_Singleton
  <2>3. Cardinality(Leaders) <= Cardinality({lease})
    BY <2>1, <2>2, FS_Subset
  <2> QED
    BY <2>2, <2>3
<1> QED
  BY <1>1, SoleInvariant, PTL

-----------------------------------------------------------------------------
(* The election implements SoleLeader.                                     *)

LEMMA SameLeaders == ASSUME Leaders' = Leaders PROVE Leader' = Leader
BY DEF Leader

LEMMA TheLeader ==
  ASSUME SoleInv, NEW p \in Proc
  PROVE  /\ Leader = p <=> p \in Leaders
         /\ Leader = NoOne <=> Leaders = {}
<1>1. \A q, r \in Leaders : q = r
  BY LeadersHoldTheLease
<1>2. Leaders \subseteq Proc /\ NoOne \notin Proc
  BY ConstantsAssumption DEF Leaders
<1>3. CASE Leaders = {}
  BY <1>2, <1>3 DEF Leader
<1>4. CASE Leaders # {}
  <2>1. Leader \in Leaders
    BY <1>4 DEF Leader
  <2> QED
    BY <1>1, <1>2, <1>4, <2>1
<1> QED
  BY <1>3, <1>4

LEMMA SoleStep ==
  ASSUME RedisAnswers, SoleInv, SoleInv', [Next]_vars PROVE [Sole!Next]_(Sole!vars)
<1> DEFINE Stutter == Leaders' = Leaders /\ Bidding' = Bidding
<1> USE DEF Bidding, Leaders, Active
<1>0. TypeOK
  BY DEF SoleInv, ClaimInv
<1>a. Stutter => UNCHANGED Sole!vars
  BY SameLeaders DEF Sole!vars
<1>b. ASSUME NEW p \in Proc, Bidding' = Bidding \cup {p}, p \notin Bidding,
             Leaders' = Leaders
      PROVE  Sole!Next
  BY <1>b, SameLeaders DEF Sole!Next, Sole!Enter
<1>c. ASSUME NEW p \in Proc, Bidding' = Bidding \ {p}, p \in Bidding,
             Leaders' = Leaders \ {p}
      PROVE  Sole!Next
  <2>1. CASE p \in Leaders
    <3>1. Leader = p
      BY <2>1, TheLeader
    <3>2. Leaders' = {}
      BY <1>c, <2>1, LeadersHoldTheLease
    <3>3. Leader' = NoOne
      BY <3>2 DEF Leader
    <3> QED
      BY <1>c, <3>1, <3>3 DEF Sole!Next, Sole!Leave
  <2>2. CASE p \notin Leaders
    <3>1. Leader # p /\ Leader' = Leader
      BY <1>c, <2>2, TheLeader, SameLeaders
    <3> QED
      BY <1>c, <3>1 DEF Sole!Next, Sole!Leave
  <2> QED
    BY <2>1, <2>2
<1>1. CASE UNCHANGED vars
  BY <1>1, <1>a DEF vars, taskVars
<1>2. CASE Clock
  BY <1>2, <1>a DEF Clock, taskVars
<1>3. CASE Outage \/ Recovery
  BY <1>3 DEF Outage, Recovery, RedisAnswers
<1>4. ASSUME NEW p \in Proc, Boot(p) PROVE Sole!Next
  <2>1. Bidding' = Bidding \cup {p} /\ p \notin Bidding /\ Leaders' = Leaders
    BY <1>0, <1>4 DEF Boot, TypeOK
  <2> QED
    BY <1>b, <2>1
<1>5. ASSUME NEW p \in Proc, Tick(p) PROVE [Sole!Next]_(Sole!vars)
  <2>1. RedisTick(p)
    BY <1>5, RedisDecides DEF Tick, LocalTick, SoleInv
  <2>2. p \in Bidding
    BY <2>1 DEF RedisTick, TickBegins
  <2>3. CASE LeaseOpen(p) /\ Lead(p)
    <3>1. Bidding' = Bidding /\ Leaders' = Leaders \cup {p}
      BY <1>0, <2>3 DEF Lead, TypeOK
    <3>2. CASE p \in Leaders
      BY <1>a, <3>1, <3>2
    <3>3. CASE p \notin Leaders
      <4>1. Leaders = {}
        BY <2>3, <3>3, LeadersHoldTheLease, ConstantsAssumption DEF LeaseOpen
      <4>2. Leaders' = {p}
        BY <3>1, <4>1
      <4>3. Leader = NoOne /\ Leader' = p
        BY <4>1, <4>2, TheLeader DEF Leader
      <4> QED
        BY <2>2, <3>1, <4>3 DEF Sole!Next, Sole!Elect
    <3> QED
      BY <3>2, <3>3
  <2>4. CASE ~LeaseOpen(p) /\ StepDown(p)
    <3>1. p \notin Leaders
      BY <2>4, LeadersHoldTheLease DEF LeaseOpen
    <3>2. Leaders' = Leaders
      BY <1>0, <2>4, <3>1 DEF StepDown, TypeOK
    <3>3. CASE Bidding' = Bidding
      BY <1>a, <3>2, <3>3
    <3>4. CASE Bidding' = Bidding \ {p}
      BY <1>c, <2>2, <3>1, <3>2, <3>4
    <3> QED
      BY <1>0, <2>2, <2>4, <3>3, <3>4 DEF StepDown, TypeOK
  <2> QED
    BY <2>1, <2>3, <2>4, RedisDecides DEF RedisTick, RedisAnswers, SoleInv
<1>6. ASSUME NEW p \in Proc, CancelDone(p) PROVE Sole!Next
  <2>1. Bidding' = Bidding \cup {p} /\ p \notin Bidding /\ Leaders' = Leaders
    BY <1>0, <1>6 DEF CancelDone, TypeOK
  <2> QED
    BY <1>b, <2>1
<1>7. ASSUME NEW p \in Proc, StopPolling(p) PROVE Sole!Next
  <2>1. /\ p \in Bidding /\ Bidding' = Bidding \ {p}
        /\ Leaders' = Leaders \ {p}
    BY <1>0, <1>7 DEF StopPolling, DropObject, TypeOK
  <2> QED
    BY <1>c, <2>1
<1>8. ASSUME NEW p \in Proc,
             \/ CancelRaises(p) \/ StopCancelling(p) \/ FinishStop(p) \/ OtherCacheUse(p)
      PROVE  UNCHANGED Sole!vars
  <2>1. Stutter
    BY <1>0, <1>8 DEF CancelRaises, StopCancelling, FinishStop, OtherCacheUse, taskVars,
                      TypeOK
  <2> QED
    BY <1>a, <2>1
<1>9. ASSUME NEW p \in Proc, StopFailed(p) \/ Crash(p) PROVE [Sole!Next]_(Sole!vars)
  <2>1. Bidding' = Bidding \ {p} /\ Leaders' = Leaders \ {p}
    BY <1>0, <1>9 DEF StopFailed, Crash, DropObject, TypeOK
  <2>2. p \in Leaders => p \in Bidding
    BY DEF SoleInv, ClaimInv, NoLoopWithoutBid
  <2>3. CASE p \in Bidding
    BY <1>c, <2>1, <2>3
  <2>4. CASE p \notin Bidding
    BY <1>a, <2>1, <2>2, <2>4
  <2> QED
    BY <2>3, <2>4
<1>10. ASSUME NEW p \in Proc, WorkerCrash(p) PROVE Sole!Next
  <2>1. p \in Leaders /\ Leaders' = Leaders \ {p} /\ Bidding' = Bidding
    BY <1>0, <1>10 DEF WorkerCrash, TypeOK
  <2>2. Leader = p
    BY <2>1, TheLeader
  <2>3. Leaders' = {}
    BY <2>1, LeadersHoldTheLease
  <2>4. Leader' = NoOne
    BY <2>3 DEF Leader
  <2> QED
    BY <2>1, <2>2, <2>4 DEF Sole!Next, Sole!Depart
<1>11. ASSUME NEW p \in Proc, Partition(p) PROVE FALSE
  BY <1>11 DEF Partition, RedisAnswers
<1> QED
  BY <1>1, <1>2, <1>3, <1>4, <1>5, <1>6, <1>7, <1>8, <1>9, <1>10, <1>11
  DEF Next, Step, Stop

(* While Redis answers, every behaviour of the election is one of the      *)
(* abstract single-leader specification.                                   *)
THEOREM Implements == ASSUME RedisAnswers PROVE Spec => ImplementsSoleLeader
<1>1. Init => Sole!Init
  BY ConstantsAssumption DEF Init, Sole!Init, Leader, Leaders, Active, Bidding
<1>2. SoleInv /\ SoleInv' /\ [Next]_vars => [Sole!Next]_(Sole!vars)
  BY SoleStep
<1> QED
  BY <1>1, <1>2, SoleInvariant, PTL DEF Spec, ImplementsSoleLeader, Sole!Spec
=============================================================================
