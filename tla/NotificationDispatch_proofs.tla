--------------------- MODULE NotificationDispatch_proofs ---------------------
(* Proofs about NotificationDispatch, for any number of processes,         *)
(* requests and addresses.                                                 *)
EXTENDS NotificationDispatch, FiniteSetTheorems, TLAPS

(* A thread that has no job is typed.                                      *)
LEMMA IdleType == Idle \in Local
BY ConstantsAssumption DEF Idle, Local, Stage, Status

(* Moving a run to another stage, or ending it, keeps the threads typed.   *)
LEMMA GoType ==
  ASSUME NEW h \in Thread, TypeOK, NEW stage \in Stage, Go(h, stage) \/ Ends(h)
  PROVE  thread' \in [Thread -> Local]
<1>1. thread[h] \in Local
  BY DEF TypeOK
<1>2. [thread[h] EXCEPT !.at = stage] \in Local
  BY <1>1 DEF Local
<1> QED
  BY <1>2, IdleType DEF Go, Ends, TypeOK

(* A try at one recipient leaves the run and the copy counts typed.        *)
LEMMA SendType ==
  ASSUME TypeOK, NEW p \in Proc, NEW r \in Request, NEW t \in Target, Send(p, r, t)
  PROVE  thread' \in [Thread -> Local] /\ copies' \in [Request -> [Target -> 0..CopyCap]]
<1> DEFINE run == thread[<<p, r>>]
<1>1. <<p, r>> \in Thread /\ run \in Local
  BY DEF Thread, TypeOK
<1>2. 0 \in 0..(MaxTries - 1) /\ MaxTries \in Nat /\ CopyCap \in Nat
  BY ConstantsAssumption
<1>3. Sent(run, t) \in Local /\ GivenUp(run, t) \in Local
  BY <1>1, <1>2 DEF Local, Sent, GivenUp
<1>4. MoreTries(run) => Again(run, t) \in Local
  <2>1. MoreTries(run) => run.tries + 1 \in 0..(MaxTries - 1)
    BY <1>1, <1>2 DEF MoreTries, Local
  <2>2. {t} \in SUBSET Target
    OBVIOUS
  <2> QED
    BY <1>1, <2>1, <2>2 DEF Again, Local
<1>5. thread' \in [Thread -> Local]
  BY <1>1, <1>3, <1>4 DEF Send, TypeOK
<1>6. copies' \in [Request -> [Target -> 0..CopyCap]]
  <2>1. CASE UNCHANGED copies
    BY <2>1 DEF TypeOK
  <2>2. CASE Deliver(r, t)
    <3> DEFINE n == copies[r][t]
    <3>1. n \in 0..CopyCap /\ copies[r] \in [Target -> 0..CopyCap]
      BY DEF TypeOK
    <3>2. (IF n < CopyCap THEN n + 1 ELSE n) \in 0..CopyCap
      BY <1>2, <3>1
    <3> QED
      BY <2>2, <3>1, <3>2 DEF Deliver, TypeOK
  <2> QED
    BY <2>1, <2>2 DEF Send
<1> QED
  BY <1>5, <1>6

LEMMA TypeStep == TypeOK /\ [Next]_vars => TypeOK'
<1> SUFFICES ASSUME TypeOK, [Next]_vars PROVE TypeOK'
  OBVIOUS
<1> USE DEF dbVars, requestVars, procVars
<1>0. CASE UNCHANGED vars
  BY <1>0 DEF vars, TypeOK
<1>1. ASSUME NEW r \in Request, Enqueue(r) \/ Abort(r) PROVE TypeOK'
  <2>1. CASE Enqueue(r)
    BY <2>1 DEF Enqueue, TypeOK, Status
  <2>2. CASE Abort(r)
    BY <2>2 DEF Abort, Reply, TypeOK
  <2> QED
    BY <1>1, <2>1, <2>2
<1>2. ASSUME NEW r \in Request, Submit(r) PROVE TypeOK'
  <2>1. thread' \in [Thread -> Local]
    <3>1. ASSUME <<site[r], r>> \in Thread
          PROVE  [thread[<<site[r], r>>] EXCEPT !.at = "waiting"] \in Local
      BY <3>1 DEF TypeOK, Local, Stage
    <3> QED
      BY <1>2, <3>1 DEF Submit, TypeOK
  <2> QED
    BY <1>2, <2>1 DEF Submit, Reply, TypeOK
<1>3. ASSUME NEW p \in Proc, NEW r \in Request, Create(p, r) \/ Resolve(p, r) PROVE TypeOK'
  BY <1>3 DEF Create, Resolve, Reply, TypeOK
<1>4. ASSUME NEW p \in Proc, NEW r \in Request, Load(p, r) PROVE TypeOK'
  <2>1. <<p, r>> \in Thread
    BY DEF Thread
  <2>2. [thread[<<p, r>>] EXCEPT !.at = "loaded",
            !.seen = [status |-> status[r], attempts |-> attempts[r]]] \in Local
    BY <2>1 DEF TypeOK, Local, Stage
  <2>3. thread' \in [Thread -> Local]
    BY <1>4, <2>1, <2>2, IdleType DEF Load, Ends, TypeOK
  <2> QED
    BY <1>4, <2>3 DEF Load, TypeOK
<1>5. ASSUME NEW p \in Proc, NEW r \in Request, Claim(p, r) PROVE TypeOK'
  <2>1. <<p, r>> \in Thread /\ thread[<<p, r>>].seen.attempts \in Nat
    BY DEF Thread, TypeOK, Local
  <2>2. [Idle EXCEPT !.at = "claimed"] \in Local
    BY IdleType DEF Local, Stage
  <2>3. thread' \in [Thread -> Local]
    BY <1>5, <2>1, <2>2 DEF Claim, TypeOK
  <2> QED
    BY <1>5, <2>1, <2>3 DEF Claim, TypeOK, Status
<1>6. ASSUME NEW p \in Proc, NEW r \in Request, Read(p, r) PROVE TypeOK'
  <2>1. <<p, r>> \in Thread
    BY DEF Thread
  <2>2. ASSUME NEW left \in SUBSET Target, NEW stage \in Stage
        PROVE  [thread[<<p, r>>] EXCEPT !.todo = left, !.at = stage] \in Local
    BY <2>1 DEF TypeOK, Local
  <2>3. thread' \in [Thread -> Local]
    BY <1>6, <2>1, <2>2 DEF Read, TypeOK, Stage
  <2> QED
    BY <1>6, <2>3 DEF Read, TypeOK
<1>7. ASSUME NEW p \in Proc, NEW r \in Request, NEW t \in Target, Send(p, r, t) PROVE TypeOK'
  BY <1>7, SendType DEF Send, TypeOK
<1>8. ASSUME NEW p \in Proc, NEW r \in Request,
             \/ LogEmail(p, r) \/ LogSms(p, r) \/ Mark(p, r)
             \/ DispatchFails(p, r) \/ RunRaises(p, r)
      PROVE  TypeOK'
  <2>1. <<p, r>> \in Thread /\ thread[<<p, r>>] \in Local
    BY DEF Thread, TypeOK
  <2>2. thread' \in [Thread -> Local]
    BY <1>8, <2>1, GoType DEF LogEmail, LogSms, Mark, DispatchFails, RunRaises, Stage
  <2>3. logged' \in [Request -> SUBSET Target] /\ refused' \in [Request -> SUBSET Target]
    <3>1. thread[<<p, r>>].sent \subseteq Target /\ thread[<<p, r>>].failed \subseteq Target
      BY <2>1 DEF Local
    <3>2. ASSUME NEW channel, LogResults(p, r, channel)
          PROVE  logged' \in [Request -> SUBSET Target] /\ refused' \in [Request -> SUBSET Target]
      BY <3>1, <3>2 DEF LogResults, TypeOK
    <3> QED
      BY <1>8, <3>2 DEF LogEmail, LogSms, Mark, DispatchFails, RunRaises, TypeOK
  <2> QED
    BY <1>8, <2>2, <2>3 DEF LogEmail, LogSms, LogResults, Mark, DispatchFails, RunRaises,
                            TypeOK, Status
<1>9. ASSUME NEW p \in Proc, Start(p) PROVE TypeOK'
  <2>1. [Idle EXCEPT !.at = "waiting"] \in Local
    BY IdleType DEF Local, Stage
  <2> QED
    BY <1>9, <2>1 DEF Start, Stuck, Resumable, TypeOK
<1>10. ASSUME NEW p \in Proc, Recovered(p) PROVE TypeOK'
  BY <1>10 DEF Recovered, TypeOK, Status
<1>11. ASSUME NEW p \in Proc, Exit(p) PROVE TypeOK'
  BY <1>11, IdleType DEF Exit, TypeOK
<1>12. ASSUME NEW p \in Proc, Shutdown(p) PROVE TypeOK'
  BY <1>12 DEF Shutdown, TypeOK
<1> QED
  BY <1>0, <1>1, <1>2, <1>3, <1>4, <1>5, <1>6, <1>7, <1>8, <1>9, <1>10, <1>11, <1>12
  DEF Next, Life, Run, Crash, Drained

(* Rows, processes, requests and threads stay typed.                       *)
THEOREM TypeCorrect == Spec => []TypeOK
<1>1. Init => TypeOK
  BY IdleType, ConstantsAssumption DEF Init, TypeOK, Status
<1> QED
  BY <1>1, TypeStep, PTL DEF Spec
-----------------------------------------------------------------------------
(* A request that has not answered yet is in a process that runs.          *)
InFlight ==
    \A r \in Request : pc[r] \in {"updated", "rowed"} =>
        site[r] \in Proc /\ proc[site[r]] \in {"up", "stopping"}

ForgetInv == TypeOK /\ InFlight /\ NoForgottenJob

LEMMA InFlightStep == TypeOK /\ InFlight /\ [Next]_vars => InFlight'
<1> SUFFICES ASSUME TypeOK, InFlight, [Next]_vars PROVE InFlight'
  OBVIOUS
<1> USE DEF requestVars, procVars
<1>0. CASE UNCHANGED vars
  BY <1>0 DEF vars, InFlight
<1>1. ASSUME NEW r \in Request, Enqueue(r) \/ Abort(r) \/ Submit(r) PROVE InFlight'
  BY <1>1 DEF Enqueue, Abort, Submit, Reply, InFlight, TypeOK
<1>2. ASSUME NEW p \in Proc, NEW r \in Request, Create(p, r) \/ Resolve(p, r) PROVE InFlight'
  BY <1>2 DEF Create, Resolve, Reply, InFlight, TypeOK
<1>3. ASSUME NEW p \in Proc, NEW r \in Request,
             Run(p, r) \/ DispatchFails(p, r) \/ RunRaises(p, r)
      PROVE  InFlight'
  <2>1. UNCHANGED <<requestVars, procVars>>
    BY <1>3 DEF Run, DispatchFails, RunRaises, Load, Claim, Read, Send, LogEmail, LogSms,
                LogResults, Mark
  <2> QED
    BY <2>1 DEF InFlight
<1>4. ASSUME NEW p \in Proc, Start(p) \/ Recovered(p) \/ Shutdown(p) PROVE InFlight'
  <2>1. UNCHANGED requestVars /\ \A q \in Proc : proc[q] \in {"up", "stopping"} =>
                                       proc'[q] \in {"up", "stopping"}
    <3>1. CASE Start(p)
      BY <3>1 DEF Start, TypeOK
    <3>2. CASE Recovered(p)
      BY <3>2 DEF Recovered, TypeOK
    <3>3. CASE Shutdown(p)
      BY <3>3 DEF Shutdown, TypeOK
    <3> QED
      BY <1>4, <3>1, <3>2, <3>3
  <2> QED
    BY <2>1 DEF InFlight
<1>5. ASSUME NEW p \in Proc, Exit(p) PROVE InFlight'
  BY <1>5 DEF Exit, InFlight, TypeOK
<1> QED
  BY <1>0, <1>1, <1>2, <1>3, <1>4, <1>5 DEF Next, Life, Crash, Drained

(* What a try makes of the run.                                            *)
LEMMA SendShape ==
  ASSUME NEW p \in Proc, NEW r \in Request, NEW t \in Target, Send(p, r, t)
  PROVE  LET run == thread[<<p, r>>] IN
         /\ run.at = "sending"
         /\ \/ Deliver(r, t) /\ thread' = [thread EXCEPT ![<<p, r>>] = Sent(run, t)]
            \/ UNCHANGED copies /\ thread' = [thread EXCEPT ![<<p, r>>] = GivenUp(run, t)]
            \/ Deliver(r, t) /\ thread' = [thread EXCEPT ![<<p, r>>] = GivenUp(run, t)]
            \/ Deliver(r, t) /\ thread' = [thread EXCEPT ![<<p, r>>] = Again(run, t)]
BY DEF Send

(* A run that takes a step keeps its job, or closes the row as it ends.    *)
LEMMA RunKeepsHold ==
  ASSUME TypeOK, NEW p \in Proc, NEW r \in Request, Run(p, r) \/ DispatchFails(p, r)
  PROVE  /\ \A q \in Proc, s \in Request : <<q, s>> # <<p, r>> => At(q, s)' = At(q, s)
         /\ At(p, r)' # "none" \/ status'[r] \notin Open
         /\ \A s \in Request \ {r} : status'[s] = status[s]
<1>1. <<p, r>> \in Thread /\ \A q \in Proc, s \in Request : <<q, s>> \in Thread
  BY DEF Thread
<1>2. thread[<<p, r>>] \in Local
  BY <1>1 DEF TypeOK
<1> USE DEF dbVars
<1>3. CASE Load(p, r)
  BY <1>1, <1>2, <1>3 DEF Load, Ends, At, TypeOK, Open, Local
<1>4. CASE Claim(p, r)
  BY <1>1, <1>2, <1>4 DEF Claim, At, TypeOK, Open, Idle
<1>5. CASE Read(p, r)
  BY <1>1, <1>2, <1>5 DEF Read, At, TypeOK, Local
<1>6. ASSUME NEW t \in Target, Send(p, r, t)
      PROVE  At(p, r)' # "none" /\ UNCHANGED status
             /\ \A q \in Proc, s \in Request : <<q, s>> # <<p, r>> => At(q, s)' = At(q, s)
  <2> DEFINE run == thread[<<p, r>>]
  <2>1. /\ Sent(run, t).at = run.at /\ GivenUp(run, t).at = run.at
        /\ Again(run, t).at = run.at
    BY <1>2 DEF Local, Sent, GivenUp, Again
  <2>2. PICK next : next.at = "sending" /\ thread' = [thread EXCEPT ![<<p, r>>] = next]
    <3> DEFINE To(next) == thread' = [thread EXCEPT ![<<p, r>>] = next]
    <3>1. run.at = "sending"
      BY <1>6, SendShape
    <3>2. To(Sent(run, t)) \/ To(GivenUp(run, t)) \/ To(Again(run, t))
      BY <1>6, SendShape
    <3> HIDE DEF To, run
    <3>3. \E next : next.at = "sending" /\ To(next)
      BY <2>1, <3>1, <3>2
    <3> QED
      BY <3>3 DEF To
  <2> QED
    BY <1>1, <1>6, <2>2 DEF Send, At, TypeOK
<1>7. CASE LogEmail(p, r) \/ LogSms(p, r) \/ DispatchFails(p, r)
  BY <1>1, <1>2, <1>7 DEF LogEmail, LogSms, DispatchFails, LogResults, Go, At, TypeOK, Local
<1>8. CASE Mark(p, r)
  BY <1>1, <1>2, <1>8 DEF Mark, Ends, At, TypeOK, Open
<1> QED
  BY <1>3, <1>4, <1>5, <1>6, <1>7, <1>8 DEF Run

LEMMA ForgetStep ==
  ASSUME "dbError" \notin Faults, ForgetInv, [Next]_vars
  PROVE  NoForgottenJob'
<1> USE DEF ForgetInv, dbVars, requestVars, procVars
<1>0. CASE UNCHANGED vars
  BY <1>0 DEF vars, NoForgottenJob, ToRestart, HeldBy, At
<1>1. ASSUME NEW r \in Request, Enqueue(r) PROVE NoForgottenJob'
  BY <1>1 DEF Enqueue, NoForgottenJob, ToRestart, HeldBy, At, TypeOK
<1>2. ASSUME NEW r \in Request, Submit(r) PROVE NoForgottenJob'
  <2>1. site[r] \in Proc /\ proc[site[r]] \in {"up", "stopping"}
    BY <1>2 DEF Submit, InFlight
  <2>2. \A q \in Proc, s \in Request : At(q, s)' # At(q, s) => At(q, s)' = "waiting"
    BY <1>2, <2>1 DEF Submit, At, TypeOK, Thread, Local
  <2>3. CASE proc[site[r]] = "up"
    <3>1. At(site[r], r)' = "waiting"
      BY <1>2, <2>1, <2>3 DEF Submit, At, TypeOK, Thread, Local
    <3> QED
      BY <1>2, <2>1, <2>2, <3>1 DEF Submit, Reply, NoForgottenJob, ToRestart, HeldBy, TypeOK
  <2>4. CASE proc[site[r]] = "stopping"
    BY <1>2, <2>1, <2>2, <2>4 DEF Submit, Reply, NoForgottenJob, ToRestart, HeldBy, TypeOK
  <2> QED
    BY <2>1, <2>3, <2>4
<1>3. ASSUME NEW p \in Proc, NEW r \in Request, Create(p, r) \/ Resolve(p, r)
      PROVE  NoForgottenJob'
  BY <1>3 DEF Create, Resolve, Reply, NoForgottenJob, ToRestart, HeldBy, At, TypeOK
<1>4. ASSUME NEW p \in Proc, NEW r \in Request, Run(p, r) \/ DispatchFails(p, r)
      PROVE  NoForgottenJob'
  <2>1. UNCHANGED <<requestVars, procVars>>
    BY <1>4 DEF Run, DispatchFails, Load, Claim, Read, Send, LogEmail, LogSms,
                LogResults, Mark
  <2> QED
    BY <1>4, <2>1, RunKeepsHold DEF NoForgottenJob, ToRestart, HeldBy
<1>5. ASSUME NEW p \in Proc, Start(p) PROVE NoForgottenJob'
  <2>1. ASSUME NEW s \in Request, status'[s] \in Open PROVE HeldBy(p, s)'
    BY <1>5, <2>1 DEF Start, Stuck, Resumable, HeldBy, At, Thread, TypeOK, Idle
  <2> QED
    BY <2>1 DEF NoForgottenJob
<1>6. ASSUME NEW p \in Proc, Recovered(p) PROVE NoForgottenJob'
  BY <1>6 DEF Recovered, NoForgottenJob, ToRestart, HeldBy, At, TypeOK, Open
<1>7. ASSUME NEW p \in Proc, Exit(p) \/ Shutdown(p) PROVE NoForgottenJob'
  BY <1>7 DEF Exit, Shutdown, NoForgottenJob, ToRestart, TypeOK
<1> QED
  BY <1>0, <1>1, <1>2, <1>3, <1>4, <1>5, <1>6, <1>7
  DEF Next, Life, Crash, Drained, Abort, RunRaises

(* While the database answers, whatever crashes, stops and starts: an open *)
(* job is always in a process's hands, or a start is still to find it.     *)
THEOREM NothingForgotten ==
  ASSUME "dbError" \notin Faults
  PROVE  Spec => []NoForgottenJob
<1>1. Init => ForgetInv
  BY IdleType, ConstantsAssumption
  DEF Init, ForgetInv, TypeOK, Status, InFlight, NoForgottenJob, Open
<1>2. ForgetInv /\ [Next]_vars => ForgetInv'
  BY TypeStep, InFlightStep, ForgetStep DEF ForgetInv
<1>3. ForgetInv => NoForgottenJob
  BY DEF ForgetInv
<1> QED
  BY <1>1, <1>2, <1>3, PTL DEF Spec
-----------------------------------------------------------------------------
(* Behind every SENT row, and every success a run holds, is a message.     *)
SentIsDelivered ==
    /\ \A r \in Request : \A t \in logged[r] : copies[r][t] > 0
    /\ \A p \in Proc, r \in Request : \A t \in thread[<<p, r>>].sent : copies[r][t] > 0

(* How far a run has come, by stage; rows are never taken back.            *)
Closed(r) == logged[r] \cup refused[r]
Progress(p, r) ==
    LET run == thread[<<p, r>>] IN
    /\ run.at = "sending" => Target \subseteq run.todo \cup run.sent \cup run.failed \cup Closed(r)
    /\ run.at = "loggingSms" => /\ Email \subseteq Closed(r)
                                /\ Sms \subseteq run.sent \cup run.failed \cup Closed(r)
    /\ run.at = "finishing" => Target \subseteq Closed(r)

ReachInv ==
    /\ TypeOK
    /\ SentIsDelivered
    /\ \A p \in Proc, r \in Request : Progress(p, r)
    /\ \A r \in Request : status[r] = "done" => Target \subseteq Closed(r)

(* The part of ReachInv that speaks of a run which is not in the middle of *)
(* its sending: threads that start, move on or end.                        *)
Fresh(run) == run.at \in {"none", "waiting", "loaded", "claimed", "failing"}

(* Steps that leave the rows of the log, the copies and the results of     *)
(* every run alone, or bring a run to a stage that has no result yet.      *)
LEMMA QuietStep ==
  ASSUME ReachInv, UNCHANGED <<logged, refused, copies>>,
         \A h \in Thread : \/ thread'[h] = thread[h]
                           \/ Fresh(thread'[h]) /\ thread'[h].sent \subseteq thread[h].sent,
         \A r \in Request : status'[r] = "done" =>
             status[r] = "done" \/ \E p \in Proc : At(p, r) = "finishing"
  PROVE  /\ SentIsDelivered'
         /\ (\A p \in Proc, r \in Request : Progress(p, r))'
         /\ (\A r \in Request : status[r] = "done" => Target \subseteq Closed(r))'
<1>1. \A p \in Proc, r \in Request : <<p, r>> \in Thread
  BY DEF Thread
<1>2. SentIsDelivered'
  BY <1>1 DEF ReachInv, SentIsDelivered
<1>3. ASSUME NEW p \in Proc, NEW r \in Request PROVE Progress(p, r)'
  BY <1>1 DEF ReachInv, Progress, Fresh, Closed
<1>4. ASSUME NEW r \in Request, status'[r] = "done" PROVE (Target \subseteq Closed(r))'
  BY <1>4 DEF ReachInv, Progress, Closed, At
<1> QED
  BY <1>2, <1>3, <1>4

(* A try: one recipient fewer to do, in exchange for a result.             *)
LEMMA ReachSend ==
  ASSUME ReachInv, NEW p \in Proc, NEW r \in Request, NEW t \in Target, Send(p, r, t)
  PROVE  /\ SentIsDelivered'
         /\ (\A q \in Proc, s \in Request : Progress(q, s))'
<1> DEFINE run == thread[<<p, r>>]
<1> DEFINE To(next) == thread' = [thread EXCEPT ![<<p, r>>] = next]
<1>1. /\ TypeOK /\ <<p, r>> \in Thread /\ run \in Local
      /\ \A q \in Proc, s \in Request : <<q, s>> \in Thread
  BY DEF ReachInv, TypeOK, Thread
<1>2. UNCHANGED <<logged, refused>> /\ run.at = "sending"
  BY DEF Send, dbVars
<1>3. ASSUME NEW s \in Request, NEW u \in Target
      PROVE  copies'[s][u] \in Nat /\ (copies[s][u] > 0 => copies'[s][u] > 0)
  <2>1. CASE UNCHANGED copies
    BY <1>1, <2>1, ConstantsAssumption DEF TypeOK
  <2>2. CASE Deliver(r, t)
    BY <1>1, <2>2, ConstantsAssumption DEF Deliver, TypeOK
  <2> QED
    BY <2>1, <2>2 DEF Send
<1>4. Deliver(r, t) => copies'[r][t] > 0
  BY <1>1, ConstantsAssumption DEF Deliver, TypeOK
<1>5. PICK next : /\ To(next) /\ next.at = "sending"
                  /\ run.todo \subseteq next.todo \cup next.sent \cup next.failed
                  /\ run.sent \subseteq next.sent /\ run.failed \subseteq next.failed
                  /\ next.sent \subseteq run.sent \cup {u \in {t} : copies'[r][u] > 0}
  <2> DEFINE Good(next) ==
          /\ next.at = "sending"
          /\ run.todo \subseteq next.todo \cup next.sent \cup next.failed
          /\ run.sent \subseteq next.sent /\ run.failed \subseteq next.failed
          /\ next.sent \subseteq run.sent \cup {u \in {t} : copies'[r][u] > 0}
  <2>1. Deliver(r, t) => Good(Sent(run, t))
    BY <1>1, <1>2, <1>4 DEF Sent, Local
  <2>2. Good(GivenUp(run, t)) /\ Good(Again(run, t))
    BY <1>1, <1>2 DEF GivenUp, Again, Local
  <2>3. \/ Deliver(r, t) /\ To(Sent(run, t))
        \/ To(GivenUp(run, t)) \/ To(Again(run, t))
    BY SendShape
  <2> HIDE DEF Good, To, run
  <2>4. \E next : To(next) /\ Good(next)
    BY <2>1, <2>2, <2>3
  <2> QED
    BY <2>4 DEF Good
<1>6. thread'[<<p, r>>] = next /\ \A h \in Thread : h # <<p, r>> => thread'[h] = thread[h]
  BY <1>1, <1>5 DEF TypeOK
<1>7. SentIsDelivered'
  <2>1. ASSUME NEW s \in Request, NEW u \in logged'[s] PROVE copies'[s][u] > 0
    BY <1>1, <1>2, <1>3, <2>1 DEF ReachInv, SentIsDelivered, TypeOK
  <2>2. ASSUME NEW q \in Proc, NEW s \in Request, NEW u \in thread'[<<q, s>>].sent
        PROVE  copies'[s][u] > 0
    <3>1. thread[<<q, s>>].sent \subseteq Target
      BY <1>1 DEF TypeOK, Local
    <3>2. CASE u \in thread[<<q, s>>].sent
      BY <1>3, <3>1, <3>2 DEF ReachInv, SentIsDelivered
    <3>3. CASE u \notin thread[<<q, s>>].sent
      <4>1. <<q, s>> = <<p, r>>
        BY <1>1, <1>6, <2>2, <3>3
      <4> QED
        BY <1>5, <1>6, <2>2, <3>3, <4>1
    <3> QED
      BY <3>2, <3>3
  <2> QED
    BY <2>1, <2>2 DEF SentIsDelivered
<1>8. ASSUME NEW q \in Proc, NEW s \in Request PROVE Progress(q, s)'
  <2>1. CASE <<q, s>> = <<p, r>>
    BY <1>2, <1>5, <1>6, <2>1 DEF ReachInv, Progress, Closed
  <2>2. CASE <<q, s>> # <<p, r>>
    BY <1>1, <1>2, <1>6, <2>2 DEF ReachInv, Progress, Closed
  <2> QED
    BY <2>1, <2>2
<1> QED
  BY <1>7, <1>8

(* Writing the rows of a channel moves results into the log.               *)
LEMMA ReachLog ==
  ASSUME ReachInv, NEW p \in Proc, NEW r \in Request, LogEmail(p, r) \/ LogSms(p, r)
  PROVE  /\ SentIsDelivered'
         /\ (\A q \in Proc, s \in Request : Progress(q, s))'
         /\ (\A s \in Request : status[s] = "done" => Target \subseteq Closed(s))'
<1> DEFINE run == thread[<<p, r>>]
<1>1. /\ TypeOK /\ <<p, r>> \in Thread /\ run \in Local
      /\ \A q \in Proc, s \in Request : <<q, s>> \in Thread
  BY DEF ReachInv, TypeOK, Thread
<1>2. UNCHANGED <<copies, status>>
  BY DEF LogEmail, LogSms, LogResults
<1>3. /\ \A s \in Request : logged[s] \subseteq logged'[s] /\ refused[s] \subseteq refused'[s]
      /\ \A s \in Request \ {r} : logged'[s] = logged[s]
      /\ logged'[r] \subseteq logged[r] \cup run.sent
  <2>1. PICK channel : LogResults(p, r, channel)
    BY DEF LogEmail, LogSms
  <2> QED
    BY <1>1, <2>1 DEF LogResults, TypeOK
<1>4. /\ \A h \in Thread \ {<<p, r>>} : thread'[h] = thread[h]
      /\ thread'[<<p, r>>].sent = run.sent /\ thread'[<<p, r>>].failed = run.failed
  <2>1. PICK stage : Go(<<p, r>>, stage)
    BY DEF LogEmail, LogSms
  <2> QED
    BY <1>1, <2>1 DEF Go, TypeOK, Local
<1>5. SentIsDelivered'
  BY <1>1, <1>2, <1>3, <1>4 DEF ReachInv, SentIsDelivered
<1>6. Progress(p, r)'
  <2>1. CASE LogEmail(p, r)
    <3>1. Email \subseteq Closed(r)'
      BY <1>1, <2>1 DEF LogEmail, AllTried, At, LogResults, ReachInv, Progress, Closed,
                        Target, TypeOK
    <3>2. Sms \subseteq run.sent \cup run.failed \cup Closed(r)'
      BY <1>1, <1>3, <2>1 DEF LogEmail, AllTried, At, ReachInv, Progress, Closed, Target
    <3>3. thread'[<<p, r>>].at \in {"loggingSms", "failing"}
      BY <1>1, <2>1 DEF LogEmail, Go, TypeOK, Local
    <3> QED
      BY <1>4, <3>1, <3>2, <3>3 DEF Progress
  <2>2. CASE LogSms(p, r)
    <3>1. Target \subseteq Closed(r)'
      BY <1>1, <1>3, <2>2 DEF LogSms, At, LogResults, ReachInv, Progress, Closed, Target,
                              TypeOK
    <3>2. thread'[<<p, r>>].at = "finishing"
      BY <1>1, <2>2 DEF LogSms, Go, TypeOK, Local
    <3> QED
      BY <3>1, <3>2 DEF Progress
  <2> QED
    BY <2>1, <2>2
<1>7. ASSUME NEW q \in Proc, NEW s \in Request PROVE Progress(q, s)'
  <2>1. CASE <<q, s>> = <<p, r>>
    BY <1>6, <2>1
  <2>2. CASE <<q, s>> # <<p, r>>
    BY <1>1, <1>3, <1>4, <2>2 DEF ReachInv, Progress, Closed
  <2> QED
    BY <2>1, <2>2
<1>8. ASSUME NEW s \in Request, status'[s] = "done" PROVE (Target \subseteq Closed(s))'
  BY <1>2, <1>3, <1>8 DEF ReachInv, Closed
<1> QED
  BY <1>5, <1>7, <1>8

LEMMA ReachStep == ReachInv /\ [Next]_vars => ReachInv'
<1> SUFFICES ASSUME ReachInv, [Next]_vars PROVE ReachInv'
  OBVIOUS
<1> DEFINE Quiet == /\ UNCHANGED <<logged, refused, copies>>
                    /\ \A h \in Thread : \/ thread'[h] = thread[h]
                                         \/ /\ Fresh(thread'[h])
                                            /\ thread'[h].sent \subseteq thread[h].sent
                    /\ \A r \in Request : status'[r] = "done" =>
                          status[r] = "done" \/ \E p \in Proc : At(p, r) = "finishing"
<1>1. TypeOK /\ TypeOK'
  BY TypeStep DEF ReachInv
<1>2. Quiet => ReachInv'
  BY <1>1, QuietStep DEF ReachInv
<1> USE DEF dbVars, requestVars, procVars
<1>3. CASE UNCHANGED vars
  BY <1>2, <1>3 DEF vars
<1>4. ASSUME NEW r \in Request,
             \/ \E p \in Proc : Create(p, r) \/ Resolve(p, r)
             \/ Enqueue(r) \/ Abort(r)
      PROVE  ReachInv'
  <2>1. UNCHANGED <<logged, refused, copies, thread>>
        /\ \A s \in Request : status'[s] = "done" => status[s] = "done"
    BY <1>1, <1>4 DEF Create, Resolve, Enqueue, Abort, TypeOK
  <2> QED
    BY <1>2, <2>1
<1>5. ASSUME NEW r \in Request, Submit(r) PROVE ReachInv'
  <2>1. \A h \in Thread : \/ thread'[h] = thread[h]
                          \/ /\ thread'[h].at = "waiting"
                             /\ thread'[h].sent = thread[h].sent
    BY <1>1, <1>5 DEF Submit, TypeOK, Local
  <2> QED
    BY <1>2, <1>5, <2>1 DEF Submit, Fresh
<1>6. ASSUME NEW p \in Proc, NEW r \in Request,
             \/ Load(p, r) \/ Claim(p, r) \/ DispatchFails(p, r) \/ RunRaises(p, r)
             \/ Mark(p, r)
      PROVE  ReachInv'
  <2>1. <<p, r>> \in Thread /\ thread[<<p, r>>] \in Local
    BY <1>1 DEF Thread, TypeOK
  <2>2. UNCHANGED <<logged, refused, copies>>
        /\ \A h \in Thread \ {<<p, r>>} : thread'[h] = thread[h]
    BY <1>1, <1>6, <2>1 DEF Load, Claim, DispatchFails, RunRaises, Mark, Ends, Go, TypeOK
  <2>3. Fresh(thread'[<<p, r>>]) /\ thread'[<<p, r>>].sent \subseteq thread[<<p, r>>].sent
    <3>1. CASE thread' = [thread EXCEPT ![<<p, r>>] = Idle]
      BY <1>1, <2>1, <3>1 DEF TypeOK, Fresh, Idle
    <3>2. CASE Load(p, r)
      <4>1. CASE thread' = [thread EXCEPT ![<<p, r>>].at = "loaded",
                      ![<<p, r>>].seen = [status |-> status[r], attempts |-> attempts[r]]]
        BY <1>1, <2>1, <4>1 DEF TypeOK, Fresh, Local
      <4> QED
        BY <3>1, <3>2, <4>1 DEF Load, Ends
    <3>3. CASE Claim(p, r)
      BY <1>1, <2>1, <3>3 DEF Claim, TypeOK, Fresh, Idle
    <3>4. CASE DispatchFails(p, r)
      BY <1>1, <2>1, <3>4 DEF DispatchFails, Go, TypeOK, Fresh, Local
    <3> QED
      BY <1>6, <3>1, <3>2, <3>3, <3>4 DEF RunRaises, Mark, Ends
  <2>4. ASSUME NEW s \in Request, status'[s] = "done"
        PROVE  status[s] = "done" \/ At(p, s) = "finishing"
    BY <1>1, <1>6, <2>4 DEF Load, Claim, DispatchFails, RunRaises, Mark, TypeOK
  <2> QED
    BY <1>2, <2>2, <2>3, <2>4
<1>7. ASSUME NEW p \in Proc, NEW r \in Request, Read(p, r) PROVE ReachInv'
  <2>1. <<p, r>> \in Thread /\ thread[<<p, r>>] \in Local
        /\ \A q \in Proc, s \in Request : <<q, s>> \in Thread
    BY <1>1 DEF Thread, TypeOK
  <2>2. /\ \A h \in Thread \ {<<p, r>>} : thread'[h] = thread[h]
        /\ thread'[<<p, r>>].todo = Target \ logged[r]
        /\ thread'[<<p, r>>].sent = thread[<<p, r>>].sent
        /\ thread'[<<p, r>>].at = IF Target \ logged[r] = {} THEN "finishing" ELSE "sending"
    BY <1>1, <1>7, <2>1 DEF Read, TypeOK, Local
  <2>3. UNCHANGED <<logged, refused, copies, status>>
    BY <1>7 DEF Read
  <2>4. SentIsDelivered'
    BY <2>1, <2>2, <2>3 DEF ReachInv, SentIsDelivered
  <2>5. ASSUME NEW q \in Proc, NEW s \in Request PROVE Progress(q, s)'
    <3>1. CASE <<q, s>> = <<p, r>>
      BY <2>2, <2>3, <3>1 DEF Progress, Closed
    <3>2. CASE <<q, s>> # <<p, r>>
      BY <2>1, <2>2, <2>3, <3>2 DEF ReachInv, Progress, Closed
    <3> QED
      BY <3>1, <3>2
  <2> QED
    BY <1>1, <2>3, <2>4, <2>5 DEF ReachInv, Closed
<1>8. ASSUME NEW p \in Proc, NEW r \in Request, NEW t \in Target, Send(p, r, t)
      PROVE  ReachInv'
  BY <1>1, <1>8, ReachSend DEF Send, ReachInv, Closed
<1>9. ASSUME NEW p \in Proc, NEW r \in Request, LogEmail(p, r) \/ LogSms(p, r)
      PROVE  ReachInv'
  BY <1>1, <1>9, ReachLog DEF ReachInv
<1>10. ASSUME NEW p \in Proc, Start(p) \/ Exit(p) PROVE ReachInv'
  <2>1. \A h \in Thread : \/ thread'[h] = thread[h]
                          \/ thread'[h].at \in {"none", "waiting"} /\ thread'[h].sent = {}
    BY <1>10 DEF Start, Exit, Idle
  <2> QED
    BY <1>2, <1>10, <2>1 DEF Start, Exit, Fresh
<1>11. ASSUME NEW p \in Proc, Recovered(p) \/ Shutdown(p) PROVE ReachInv'
  BY <1>1, <1>2, <1>11 DEF Recovered, Shutdown, TypeOK
<1> QED
  BY <1>3, <1>4, <1>5, <1>6, <1>7, <1>8, <1>9, <1>10, <1>11
  DEF Next, Life, Run, Crash, Drained

LEMMA ReachInit == Init => ReachInv
<1> SUFFICES ASSUME Init PROVE ReachInv
  OBVIOUS
<1>1. TypeOK
  BY IdleType, ConstantsAssumption DEF Init, TypeOK, Status
<1>2. \A h \in Thread : thread[h].at = "none" /\ thread[h].sent = {}
  BY DEF Init, Idle
<1>3. \A p \in Proc, r \in Request : <<p, r>> \in Thread
  BY DEF Thread
<1>4. SentIsDelivered
  BY <1>2, <1>3 DEF Init, SentIsDelivered
<1>5. \A p \in Proc, r \in Request : Progress(p, r)
  BY <1>2, <1>3 DEF Progress
<1>6. \A r \in Request : status[r] # "done"
  BY DEF Init
<1> QED
  BY <1>1, <1>4, <1>5, <1>6 DEF ReachInv

(* Whatever fails, and whoever runs a job how often: a DONE row means each *)
(* address was delivered to, or its refusal is on record.                  *)
THEOREM DoneIsReached == Spec => []DoneMeansReached
<1>1. ReachInv => DoneMeansReached
  BY DEF ReachInv, SentIsDelivered, DoneMeansReached, Accounted, Closed
<1> QED
  BY ReachInit, <1>1, ReachStep, PTL DEF Spec
-----------------------------------------------------------------------------
(* A request that has a job, or that is about to write its row.            *)
Winner(r) == status[r] # "absent" \/ pc[r] \in {"updated", "rowed"}

(* The row of the alert decides the winner: none before it is resolved,    *)
(* one at most after; and nobody works on a job that has no row.           *)
WinnerInv ==
    /\ TypeOK
    /\ alert # "resolved" => \A r \in Resolvers : ~Winner(r)
    /\ \A r, s \in Resolvers : Winner(r) /\ Winner(s) => r = s
    /\ \A p \in Proc, r \in Request : HeldBy(p, r) => status[r] # "absent"
    /\ \A r \in Request : pc[r] = "rowed" => status[r] # "absent"
    /\ Creator \in Request /\ pc[Creator] = "idle" => alert = "none"

(* Steps after which nobody is a winner that was not one before.           *)
LEMMA NoNewWinner ==
  ASSUME WinnerInv, TypeOK', UNCHANGED alert,
         \A r \in Request : Winner(r)' => Winner(r),
         \A r \in Request : pc'[r] = pc[r] \/ (pc[r] # "idle" /\ pc'[r] = "over"),
         \A r \in Request : status[r] # "absent" => status'[r] # "absent",
         \A p \in Proc, r \in Request : HeldBy(p, r)' => status'[r] # "absent"
  PROVE  WinnerInv'
BY DEF WinnerInv, Resolvers

LEMMA WinnerStep == WinnerInv /\ [Next]_vars => WinnerInv'
<1> SUFFICES ASSUME WinnerInv, [Next]_vars PROVE WinnerInv'
  OBVIOUS
<1>1. TypeOK /\ TypeOK'
  BY TypeStep DEF WinnerInv
<1> USE DEF dbVars, requestVars, procVars
<1>2. CASE UNCHANGED vars
  BY <1>1, <1>2 DEF vars, WinnerInv, Winner, HeldBy, At
<1>3. ASSUME NEW p \in Proc, NEW r \in Request, Create(p, r) PROVE WinnerInv'
  <2>1. r = Creator /\ alert = "none" /\ alert' = "active"
    BY <1>3 DEF Create, WinnerInv
  <2>2. /\ UNCHANGED <<status, thread, doomed>>
        /\ \A s \in Request \ {r} : pc'[s] = pc[s]
        /\ pc'[r] \in {"updated", "over"}
    BY <1>1, <1>3 DEF Create, Reply, TypeOK
  <2> QED
    BY <1>1, <2>1, <2>2 DEF WinnerInv, Winner, HeldBy, At, Resolvers
<1>4. ASSUME NEW p \in Proc, NEW r \in Request, Resolve(p, r) PROVE WinnerInv'
  <2>1. /\ r \in Resolvers /\ alert # "none" /\ alert' = "resolved"
        /\ UNCHANGED <<status, thread, doomed>>
        /\ \A s \in Request \ {r} : pc'[s] = pc[s]
        /\ pc'[r] = "over" \/ (alert = "active" /\ pc'[r] = "updated")
    BY <1>1, <1>4 DEF Resolve, Reply, TypeOK, Resolvers
  <2>2. Creator \in Request => pc[Creator] # "idle" /\ pc'[Creator] = pc[Creator]
    BY <2>1 DEF WinnerInv, Resolvers
  <2> QED
    BY <1>1, <2>1, <2>2 DEF WinnerInv, Winner, HeldBy, At, Resolvers
<1>5. ASSUME NEW r \in Request, Enqueue(r) \/ Abort(r) PROVE WinnerInv'
  <2>1. /\ UNCHANGED <<alert, thread, doomed>>
        /\ pc[r] = "updated" /\ pc'[r] \in {"rowed", "over"}
        /\ pc'[r] = "rowed" => status'[r] = "queued"
        /\ \A s \in Request \ {r} : pc'[s] = pc[s] /\ status'[s] = status[s]
        /\ status'[r] = "queued" \/ status'[r] = status[r]
    <3>1. CASE Enqueue(r)
      BY <1>1, <3>1 DEF Enqueue, TypeOK
    <3>2. CASE Abort(r)
      BY <1>1, <3>2 DEF Abort, Reply, TypeOK
    <3> QED
      BY <1>5, <3>1, <3>2
  <2> QED
    BY <1>1, <2>1 DEF WinnerInv, Winner, HeldBy, At, Resolvers
<1>6. ASSUME NEW r \in Request, Submit(r) PROVE WinnerInv'
  <2>1. /\ UNCHANGED <<alert, status, doomed>> /\ pc[r] = "rowed" /\ pc'[r] = "over"
        /\ \A s \in Request \ {r} : pc'[s] = pc[s]
    BY <1>1, <1>6 DEF Submit, Reply, TypeOK
  <2>2. \A q \in Proc, s \in Request : s # r => At(q, s)' = At(q, s)
    BY <1>1, <1>6 DEF Submit, At, Thread, TypeOK
  <2>3. \A q \in Proc, s \in Request : HeldBy(q, s)' => status'[s] # "absent"
    BY <2>1, <2>2 DEF WinnerInv, HeldBy
  <2> QED
    BY <1>1, <2>1, <2>3, NoNewWinner DEF Winner
<1>7. ASSUME NEW p \in Proc, NEW r \in Request,
             Run(p, r) \/ DispatchFails(p, r) \/ RunRaises(p, r)
      PROVE  WinnerInv'
  <2>1. UNCHANGED <<alert, requestVars, procVars>>
    BY <1>7 DEF Run, DispatchFails, RunRaises, Load, Claim, Read, Send, LogEmail, LogSms,
                LogResults, Mark
  <2>2. At(p, r) # "none"
    BY <1>7 DEF Run, DispatchFails, RunRaises, Load, Claim, Read, Send, LogEmail, LogSms,
                AllTried, At, Mark
  <2>3. \A q \in Proc, s \in Request : <<q, s>> # <<p, r>> => At(q, s)' = At(q, s)
    BY <1>1, <1>7, RunKeepsHold DEF RunRaises, Ends, At, Thread, TypeOK
  <2>4. status[r] # "absent"
    BY <2>2 DEF WinnerInv, HeldBy
  <2>5. \A s \in Request : status'[s] # status[s] => s = r /\ status'[s] # "absent"
    BY <1>1, <1>7 DEF Run, DispatchFails, RunRaises, Load, Claim, Read, Send, LogEmail,
                      LogSms, LogResults, Mark, TypeOK
  <2> QED
    BY <1>1, <2>1, <2>3, <2>4, <2>5, NoNewWinner DEF Winner, HeldBy, WinnerInv
<1>8. ASSUME NEW p \in Proc, Start(p) PROVE WinnerInv'
  <2>1. UNCHANGED <<alert, status, requestVars>>
    BY <1>8 DEF Start
  <2>2. \A q \in Proc, s \in Request : HeldBy(q, s)' => HeldBy(q, s) \/ s \in Stuck
    BY <1>1, <1>8 DEF Start, Resumable, HeldBy, At, Thread, TypeOK
  <2> QED
    BY <1>1, <2>1, <2>2, NoNewWinner DEF Winner, WinnerInv, Stuck, Open
<1>9. ASSUME NEW p \in Proc, Recovered(p) PROVE WinnerInv'
  <2>1. /\ UNCHANGED <<alert, requestVars, thread>>
        /\ \A q \in Proc : doomed'[q] \subseteq doomed[q]
        /\ \A s \in Request : status'[s] = status[s] \/ (s \in doomed[p] /\ status'[s] = "failed")
    BY <1>1, <1>9 DEF Recovered, TypeOK
  <2> QED
    BY <1>1, <2>1, NoNewWinner DEF Winner, WinnerInv, HeldBy, At
<1>10. ASSUME NEW p \in Proc, Exit(p) PROVE WinnerInv'
  <2>1. /\ UNCHANGED <<alert, status>>
        /\ \A q \in Proc : doomed'[q] \subseteq doomed[q]
        /\ \A s \in Request : pc'[s] = pc[s] \/ (pc[s] # "idle" /\ pc'[s] = "over")
    BY <1>1, <1>10 DEF Exit, TypeOK
  <2>2. \A q \in Proc, s \in Request : At(q, s)' # "none" => At(q, s)' = At(q, s)
    BY <1>10 DEF Exit, At, Idle, Thread
  <2> QED
    BY <1>1, <2>1, <2>2, NoNewWinner DEF Winner, WinnerInv, HeldBy
<1>11. ASSUME NEW p \in Proc, Shutdown(p) PROVE WinnerInv'
  BY <1>1, <1>11, NoNewWinner DEF Shutdown, Winner, WinnerInv, HeldBy, At
<1> QED
  BY <1>2, <1>3, <1>4, <1>5, <1>6, <1>7, <1>8, <1>9, <1>10, <1>11
  DEF Next, Life, Crash, Drained

LEMMA WinnerInit == Init => WinnerInv
<1> SUFFICES ASSUME Init PROVE WinnerInv
  OBVIOUS
<1>1. TypeOK
  BY IdleType, ConstantsAssumption DEF Init, TypeOK, Status
<1>2. \A p \in Proc, r \in Request : ~HeldBy(p, r)
  BY DEF Init, HeldBy, At, Thread, Idle
<1>3. \A r \in Request : ~Winner(r) /\ pc[r] = "idle"
  BY DEF Init, Winner
<1> QED
  BY <1>1, <1>2, <1>3 DEF WinnerInv, Init, Resolvers

(* Two administrators, one client that retries, any number of processes:   *)
(* one job at most announces the resolution.                               *)
THEOREM ResolvedOnce == Spec => []OneResolutionJob
<1>1. WinnerInv => OneResolutionJob
  <2> SUFFICES ASSUME WinnerInv PROVE OneResolutionJob
    OBVIOUS
  <2> DEFINE Taken == {r \in Resolvers : status[r] # "absent"}
  <2>1. \A r, s \in Taken : r = s
    BY DEF WinnerInv, Winner
  <2>2. Cardinality(Taken) <= 1
    <3>1. CASE Taken = {}
      BY <3>1, FS_EmptySet
    <3>2. CASE Taken # {}
      <4>1. PICK r \in Taken : TRUE
        BY <3>2
      <4>2. Taken = {r}
        BY <2>1, <4>1
      <4>3. Cardinality({r}) = 1
        BY FS_Singleton
      <4> QED
        BY <4>2, <4>3
    <3> QED
      BY <3>1, <3>2
  <2> QED
    BY <2>2 DEF OneResolutionJob
<1> QED
  BY WinnerInit, <1>1, WinnerStep, PTL DEF Spec
-----------------------------------------------------------------------------
(* One process at a time, as README says: what a run holds is open, so     *)
(* nobody else closes it or opens it again.                                *)
Alone == \A p, q \in Proc : p = q

HoldInv ==
    /\ \A p \in Proc, r \in Request :
          At(p, r) # "none" => status[r] \in Open /\ proc[p] # "down"
    /\ \A p \in Proc : \A r \in doomed[p] :
          proc[p] = "recovering" /\ status[r] \in Open /\ At(p, r) = "none"
    /\ \A r \in Request : pc[r] \in {"idle", "updated"} => status[r] = "absent"
    /\ \A r \in Request : pc[r] = "rowed" =>
          status[r] = "queued" /\ \A p \in Proc : At(p, r) = "none"

AloneInv == TypeOK /\ InFlight /\ HoldInv

(* What a run, or the database failing it, can do to its job's row.        *)
LEMMA RunFrame ==
  ASSUME TypeOK, HoldInv, NEW p \in Proc, NEW r \in Request,
         Run(p, r) \/ DispatchFails(p, r) \/ RunRaises(p, r)
  PROVE  /\ UNCHANGED <<requestVars, procVars>>
         /\ At(p, r) # "none"
         /\ \A q \in Proc, s \in Request : <<q, s>> # <<p, r>> => At(q, s)' = At(q, s)
         /\ \A s \in Request \ {r} : status'[s] = status[s]
         /\ status'[r] \in {"queued", "inProgress", "done", "failed"}
         /\ At(p, r)' # "none" => status'[r] \in Open
<1> USE DEF dbVars, requestVars, procVars
<1>1. <<p, r>> \in Thread /\ \A q \in Proc, s \in Request : <<q, s>> \in Thread
  BY DEF Thread
<1>2. UNCHANGED <<requestVars, procVars>>
  BY DEF Run, DispatchFails, RunRaises, Load, Claim, Read, Send, LogEmail, LogSms,
         LogResults, Mark
<1>3. At(p, r) # "none"
  BY DEF Run, DispatchFails, RunRaises, Load, Claim, Read, Send, LogEmail, LogSms,
         AllTried, At, Mark
<1>4. \A q \in Proc, s \in Request : <<q, s>> # <<p, r>> => At(q, s)' = At(q, s)
  BY <1>1, RunKeepsHold DEF RunRaises, Ends, At, TypeOK
<1>5. status[r] \in Open
  BY <1>3 DEF HoldInv
<1>6. \A s \in Request \ {r} : status'[s] = status[s]
  BY RunKeepsHold DEF RunRaises
<1>7. /\ status'[r] \in {"queued", "inProgress", "done", "failed"}
      /\ At(p, r)' # "none" => status'[r] \in Open
  <2>1. CASE Mark(p, r)
    BY <1>1, <2>1 DEF Mark, Ends, At, TypeOK, Idle
  <2>2. CASE Claim(p, r)
    BY <1>5, <2>2 DEF Claim, TypeOK, Open
  <2>3. CASE UNCHANGED status
    BY <1>5, <2>3 DEF Open
  <2> QED
    BY <2>1, <2>2, <2>3 DEF Run, DispatchFails, RunRaises, Load, Read, Send, LogEmail,
                            LogSms, LogResults
<1> QED
  BY <1>2, <1>3, <1>4, <1>6, <1>7

LEMMA HoldStep ==
  ASSUME Alone, AloneInv, [Next]_vars
  PROVE  HoldInv'
<1> USE DEF AloneInv, dbVars, requestVars, procVars
<1>0. CASE UNCHANGED vars
  BY <1>0 DEF vars, HoldInv, At
<1>1. ASSUME NEW r \in Request, Enqueue(r) \/ Abort(r) PROVE HoldInv'
  <2>1. /\ UNCHANGED <<thread, proc, doomed>>
        /\ pc[r] = "updated" /\ pc'[r] \in {"rowed", "over"}
        /\ pc'[r] = "rowed" => status'[r] = "queued"
        /\ \A s \in Request \ {r} : pc'[s] = pc[s] /\ status'[s] = status[s]
        /\ status'[r] = "queued" \/ status'[r] = status[r]
    <3>1. CASE Enqueue(r)
      BY <3>1 DEF Enqueue, TypeOK
    <3>2. CASE Abort(r)
      BY <3>2 DEF Abort, Reply, TypeOK
    <3> QED
      BY <1>1, <3>1, <3>2
  <2>2. \A q \in Proc, s \in Request : At(q, s)' = At(q, s)
    BY <2>1 DEF At
  <2>3. status[r] = "absent"
    BY <2>1 DEF HoldInv
  <2>4. \A q \in Proc : At(q, r) = "none" /\ r \notin doomed[q]
    BY <2>3 DEF HoldInv, Open
  <2>5. \A q \in Proc : doomed[q] \subseteq Request
    BY DEF TypeOK
  <2>6. ASSUME NEW s \in Request \ {r}
        PROVE  /\ pc'[s] \in {"idle", "updated"} => status'[s] = "absent"
               /\ pc'[s] = "rowed" => status'[s] = "queued"
    BY <2>1 DEF HoldInv
  <2>7. \A s \in Request : pc'[s] = "rowed" => \A q \in Proc : At(q, s) = "none"
    BY <2>1, <2>4 DEF HoldInv
  <2> QED
    BY <2>1, <2>2, <2>4, <2>5, <2>6, <2>7 DEF HoldInv
<1>2. ASSUME NEW r \in Request, Submit(r) PROVE HoldInv'
  <2>1. site[r] \in Proc /\ proc[site[r]] \in {"up", "stopping"} /\ <<site[r], r>> \in Thread
    BY <1>2 DEF Submit, InFlight, Thread
  <2>2. /\ UNCHANGED <<status, proc, doomed>> /\ pc[r] = "rowed" /\ pc'[r] = "over"
        /\ \A s \in Request \ {r} : pc'[s] = pc[s]
    BY <1>2 DEF Submit, Reply, TypeOK
  <2>3. \A q \in Proc, s \in Request : At(q, s)' # At(q, s) => s = r /\ proc[q] = "up"
    BY <1>2, <2>1 DEF Submit, At, TypeOK, Thread
  <2>4. status[r] = "queued" /\ \A q \in Proc : r \notin doomed[q]
    BY <2>1, <2>2 DEF HoldInv, Alone
  <2>5. \A q \in Proc : \A s \in doomed[q] : At(q, s)' = "none"
    <3>1. \A q \in Proc : doomed[q] \subseteq Request
      BY DEF TypeOK
    <3> QED
      BY <2>3, <2>4, <3>1 DEF HoldInv
  <2>6. \A s \in Request : pc'[s] = "rowed" => \A q \in Proc : At(q, s)' = "none"
    BY <2>2, <2>3 DEF HoldInv
  <2>7. \A q \in Proc, s \in Request : At(q, s)' # "none" => status[s] \in Open /\ proc[q] # "down"
    BY <2>3, <2>4 DEF HoldInv, Open
  <2> QED
    BY <2>2, <2>5, <2>6, <2>7 DEF HoldInv
<1>3. ASSUME NEW p \in Proc, NEW r \in Request, Create(p, r) \/ Resolve(p, r) PROVE HoldInv'
  <2>1. /\ UNCHANGED <<status, thread, proc, doomed>> /\ pc[r] = "idle"
        /\ pc'[r] \in {"updated", "over"}
        /\ \A s \in Request \ {r} : pc'[s] = pc[s]
    BY <1>3 DEF Create, Resolve, Reply, TypeOK
  <2> QED
    BY <2>1 DEF HoldInv, At
<1>4. ASSUME NEW p \in Proc, NEW r \in Request,
             Run(p, r) \/ DispatchFails(p, r) \/ RunRaises(p, r)
      PROVE  HoldInv'
  <2>1. status[r] \in Open /\ \A q \in Proc : q = p
    BY <1>4, RunFrame DEF HoldInv, Alone
  <2>2. pc[r] = "over" /\ \A q \in Proc : r \notin doomed[q]
    <3>1. At(p, r) # "none"
      BY <1>4, RunFrame
    <3> QED
      BY <2>1, <3>1 DEF HoldInv, TypeOK, Open
  <2>3. \A q \in Proc : doomed[q] \subseteq Request /\ p = q
    BY <2>1 DEF TypeOK
  <2>4. UNCHANGED <<pc, proc, doomed>>
        /\ \A s \in Request \ {r} : status'[s] = status[s] /\ At(p, s)' = At(p, s)
    BY <1>4, RunFrame
  <2>5. At(p, r)' # "none" => status'[r] \in Open /\ proc'[p] # "down"
    BY <1>4, <2>4, RunFrame DEF HoldInv
  <2>6. \A s \in Request : At(p, s)' # "none" => status'[s] \in Open /\ proc'[p] # "down"
    BY <2>4, <2>5 DEF HoldInv
  <2>7. \A s \in doomed[p] : proc'[p] = "recovering" /\ status'[s] \in Open /\ At(p, s)' = "none"
    BY <2>2, <2>3, <2>4 DEF HoldInv
  <2>8. ASSUME NEW s \in Request
        PROVE  /\ pc'[s] \in {"idle", "updated"} => status'[s] = "absent"
               /\ pc'[s] = "rowed" => status'[s] = "queued" /\ At(p, s)' = "none"
    BY <2>2, <2>4 DEF HoldInv
  <2>9. \A q \in Proc : q = p
    BY <2>1
  <2>10. \A q \in Proc, s \in Request : At(q, s)' # "none" => status'[s] \in Open /\ proc'[q] # "down"
    BY <2>6, <2>9
  <2>11. \A q \in Proc : \A s \in doomed'[q] :
            proc'[q] = "recovering" /\ status'[s] \in Open /\ At(q, s)' = "none"
    BY <2>4, <2>7, <2>9
  <2>12. ASSUME NEW s \in Request
         PROVE  /\ pc'[s] \in {"idle", "updated"} => status'[s] = "absent"
                /\ pc'[s] = "rowed" => /\ status'[s] = "queued"
                                       /\ \A q \in Proc : At(q, s)' = "none"
    BY <2>8, <2>9
  <2> QED
    BY <2>10, <2>11, <2>12 DEF HoldInv, Open
<1>5. ASSUME NEW p \in Proc, Start(p) PROVE HoldInv'
  <2>1. \A q \in Proc : q = p
    BY DEF Alone
  <2>2. /\ UNCHANGED <<status, pc, site>> /\ proc[p] = "down" /\ proc'[p] = "recovering"
        /\ doomed'[p] = Stuck \ Resumable
    BY <1>5 DEF Start, TypeOK
  <2>3. \A s \in Request : At(p, s)' = IF s \in Resumable THEN "waiting" ELSE "none"
    <3>1. \A s \in Request : At(p, s) = "none" /\ <<p, s>> \in Thread
      BY <2>2 DEF HoldInv, Thread
    <3>2. [Idle EXCEPT !.at = "waiting"].at = "waiting"
      BY DEF Idle
    <3> QED
      BY <1>5, <3>1, <3>2 DEF Start, At
  <2>4. \A s \in Request : pc[s] \notin {"updated", "rowed"}
    BY <2>1, <2>2 DEF InFlight
  <2> QED
    BY <2>1, <2>2, <2>3, <2>4 DEF HoldInv, Stuck, Resumable
<1>6. ASSUME NEW p \in Proc, Recovered(p) PROVE HoldInv'
  <2>1. /\ UNCHANGED <<pc, thread>> /\ proc[p] = "recovering" /\ proc'[p] = "up"
        /\ doomed'[p] = {} /\ \A q \in Proc : q = p
        /\ \A s \in Request : status'[s] = IF s \in doomed[p] THEN "failed" ELSE status[s]
    BY <1>6 DEF Recovered, TypeOK, Alone
  <2>2. ASSUME NEW s \in doomed[p] PROVE pc[s] = "over"
    <3>1. s \in Request /\ pc[s] \in {"idle", "updated", "rowed", "over"}
      BY DEF TypeOK
    <3>2. status[s] # "absent"
      BY DEF HoldInv, Open
    <3>3. pc[s] # "rowed"
      BY <2>1, <3>1 DEF InFlight
    <3> QED
      BY <3>1, <3>2, <3>3 DEF HoldInv
  <2> QED
    BY <2>1, <2>2 DEF HoldInv, At
<1>7. ASSUME NEW p \in Proc, Exit(p) PROVE HoldInv'
  <2>1. /\ UNCHANGED status /\ proc'[p] = "down" /\ doomed'[p] = {}
        /\ \A q \in Proc : q = p
        /\ \A s \in Request : pc'[s] = pc[s] \/ pc'[s] = "over"
    BY <1>7 DEF Exit, TypeOK, Alone
  <2>2. \A s \in Request : At(p, s)' = "none"
    BY <1>7 DEF Exit, At, Idle, Thread
  <2> QED
    BY <2>1, <2>2 DEF HoldInv
<1>8. ASSUME NEW p \in Proc, Shutdown(p) PROVE HoldInv'
  <2>1. UNCHANGED <<status, pc, thread, doomed>> /\ proc[p] = "up" /\ proc'[p] = "stopping"
        /\ \A q \in Proc : q = p
    BY <1>8 DEF Shutdown, TypeOK, Alone
  <2> QED
    BY <2>1 DEF HoldInv, At
<1> QED
  BY <1>0, <1>1, <1>2, <1>3, <1>4, <1>5, <1>6, <1>7, <1>8 DEF Next, Life, Crash, Drained

LEMMA AloneStep == Alone /\ AloneInv /\ [Next]_vars => AloneInv'
BY TypeStep, InFlightStep, HoldStep DEF AloneInv

LEMMA AloneInit == Init => AloneInv
<1> SUFFICES ASSUME Init PROVE AloneInv
  OBVIOUS
<1>1. TypeOK
  BY IdleType, ConstantsAssumption DEF Init, TypeOK, Status
<1>2. \A p \in Proc, r \in Request : At(p, r) = "none"
  BY DEF Init, At, Thread, Idle
<1> QED
  BY <1>1, <1>2 DEF Init, AloneInv, InFlight, HoldInv

(* With one process at a time, a job that is DONE is never run again.      *)
THEOREM DoneIsFinal ==
  ASSUME Alone
  PROVE  Spec => DoneStaysDone
<1>1. AloneInv /\ [Next]_vars =>
        [\A r \in Request : status[r] = "done" => status'[r] = "done"]_vars
  <2> SUFFICES ASSUME AloneInv, Next, NEW s \in Request, status[s] = "done"
               PROVE  status'[s] = "done"
    OBVIOUS
  <2> USE DEF AloneInv, dbVars
  <2>1. ASSUME NEW r \in Request, Enqueue(r) \/ Abort(r) \/ Submit(r) PROVE status'[s] = "done"
    BY <2>1 DEF Enqueue, Abort, Submit, HoldInv, TypeOK
  <2>2. ASSUME NEW p \in Proc, Life(p) PROVE status'[s] = "done"
    BY <2>2 DEF Life, Start, Recovered, Crash, Shutdown, Drained, Exit, HoldInv, TypeOK, Open
  <2>3. ASSUME NEW p \in Proc, NEW r \in Request, Create(p, r) \/ Resolve(p, r)
        PROVE  status'[s] = "done"
    BY <2>3 DEF Create, Resolve
  <2>4. ASSUME NEW p \in Proc, NEW r \in Request,
               Run(p, r) \/ DispatchFails(p, r) \/ RunRaises(p, r)
        PROVE  status'[s] = "done"
    <3>1. s # r
      BY <2>4, RunFrame DEF HoldInv, Open
    <3> QED
      BY <2>4, <3>1, RunFrame
  <2> QED
    BY <2>1, <2>2, <2>3, <2>4 DEF Next
<1> QED
  BY <1>1, AloneInit, AloneStep, PTL DEF Spec, DoneStaysDone
-----------------------------------------------------------------------------
(* What an attempt may cost: MaxTries copies of each message.              *)
Budget(n) == n * MaxTries

LEMMA BudgetGrows ==
  /\ Budget(0) = 0
  /\ \A n \in Nat : Budget(n) \in Nat /\ Budget(n + 1) = Budget(n) + MaxTries
BY ConstantsAssumption DEF Budget

(* The attempts before this one are paid for; this one has so far cost a   *)
(* recipient nothing, or the tries made on the one in hand.                *)
RunCounts(p, r) ==
    LET run == thread[<<p, r>>]
        paid == Budget(attempts[r] - 1)
        spent(t) == IF t \in run.hand THEN run.tries ELSE 0
    IN  /\ run.at \in {"waiting", "loaded"} => attempts[r] < MaxAttempts
        /\ run.at = "loaded" => run.seen.attempts = attempts[r]
        /\ run.at \in {"claimed", "sending"} => attempts[r] >= 1
        /\ run.at = "claimed" => \A t \in Target : copies[r][t] <= paid
        /\ run.at = "sending" => \A t \in run.todo : copies[r][t] <= paid + spent(t)

Unsent == {"idle", "updated", "rowed"}

CountInv ==
    /\ \A r \in Request : attempts[r] <= MaxAttempts
    /\ \A t \in Target, r \in Request : copies[r][t] <= Budget(attempts[r])
    /\ \A r \in Request : pc[r] \in Unsent => attempts[r] = 0
    /\ \A p \in Proc, r \in Request : RunCounts(p, r)

(* The stages that count nothing.                                          *)
Calm == {"none", "loggingSms", "finishing", "failing"}

(* Steps that claim and send nothing.                                      *)
LEMMA CalmStep ==
  ASSUME CountInv, UNCHANGED <<attempts, copies>>,
         \A r \in Request : pc'[r] \in Unsent => pc[r] \in Unsent,
         \A h \in Thread : thread'[h] = thread[h] \/ thread'[h].at \in Calm
  PROVE  CountInv'
<1>1. /\ \A r \in Request : attempts'[r] <= MaxAttempts
      /\ \A t \in Target, r \in Request : copies'[r][t] <= Budget(attempts'[r])
  BY DEF CountInv
<1>2. \A r \in Request : pc'[r] \in Unsent => attempts'[r] = 0
  BY DEF CountInv
<1>3. ASSUME NEW p \in Proc, NEW r \in Request PROVE RunCounts(p, r)'
  <2>1. <<p, r>> \in Thread /\ RunCounts(p, r)
    BY DEF Thread, CountInv
  <2>2. CASE thread'[<<p, r>>] = thread[<<p, r>>]
    BY <2>1, <2>2 DEF RunCounts
  <2>3. CASE thread'[<<p, r>>].at \in Calm
    BY <2>3 DEF RunCounts, Calm
  <2> QED
    BY <2>1, <2>2, <2>3
<1> QED
  BY <1>1, <1>2, <1>3 DEF CountInv, Unsent, Budget

(* A run other than the one that moves is not touched.                     *)
LEMMA OthersCount ==
  ASSUME CountInv, NEW p \in Proc, NEW r \in Request,
         Alone,
         \A s \in Request \ {r} : /\ attempts'[s] = attempts[s]
                                  /\ copies'[s] = copies[s]
                                  /\ thread'[<<p, s>>] = thread[<<p, s>>],
         RunCounts(p, r)'
  PROVE  \A q \in Proc, s \in Request : RunCounts(q, s)'
<1> SUFFICES ASSUME NEW q \in Proc, NEW s \in Request PROVE RunCounts(q, s)'
  OBVIOUS
<1>1. q = p /\ RunCounts(q, s)
  BY DEF Alone, CountInv
<1>2. CASE s = r
  BY <1>1, <1>2
<1>3. CASE s # r
  BY <1>1, <1>3 DEF RunCounts
<1> QED
  BY <1>2, <1>3

(* The same for the whole invariant, when the requests stand still.        *)
LEMMA RunMoves ==
  ASSUME CountInv, Alone, UNCHANGED pc, NEW p \in Proc, NEW r \in Request,
         \A s \in Request \ {r} : /\ attempts'[s] = attempts[s]
                                  /\ copies'[s] = copies[s]
                                  /\ thread'[<<p, s>>] = thread[<<p, s>>],
         attempts'[r] <= MaxAttempts,
         pc[r] \in Unsent => attempts'[r] = 0,
         \A t \in Target : copies'[r][t] <= Budget(attempts'[r]),
         RunCounts(p, r)'
  PROVE  CountInv'
<1>1. \A q \in Proc, s \in Request : RunCounts(q, s)'
  BY OthersCount
<1>2. /\ \A s \in Request : attempts'[s] <= MaxAttempts
      /\ \A s \in Request : pc'[s] \in Unsent => attempts'[s] = 0
  BY DEF CountInv
<1>3. ASSUME NEW t \in Target, NEW s \in Request PROVE copies'[s][t] <= Budget(attempts'[s])
  BY DEF CountInv
<1> QED
  BY <1>1, <1>2, <1>3 DEF CountInv, Budget, Unsent

(* A try: one copy at most, of the message to the one whose turn it is.    *)
LEMMA SendCounts ==
  ASSUME Alone, AloneInv, CountInv,
         NEW p \in Proc, NEW r \in Request, NEW t \in Target, Send(p, r, t)
  PROVE  CountInv'
<1> DEFINE run == thread[<<p, r>>]
           next == thread'[<<p, r>>]
           paid == Budget(attempts[r] - 1)
<1>1. /\ \A s \in Request : <<p, s>> \in Thread /\ attempts[s] \in Nat
      /\ run \in Local /\ copies \in [Request -> [Target -> 0..CopyCap]]
  BY DEF AloneInv, TypeOK, Thread
<1>2. /\ run.at = "sending" /\ t \in run.todo /\ run.hand \subseteq {t}
      /\ UNCHANGED <<attempts, pc>>
      /\ \A s \in Request \ {r} : copies'[s] = copies[s] /\ thread'[<<p, s>>] = thread[<<p, s>>]
  <2>1. \A s \in Request \ {r} : thread'[<<p, s>>] = thread[<<p, s>>]
    BY <1>1, SendShape DEF AloneInv, TypeOK
  <2> QED
    BY <1>1, <2>1 DEF Send, NextUp, Deliver, dbVars, requestVars
<1>3. attempts[r] \in Nat /\ attempts[r] >= 1
      /\ \A u \in run.todo : copies[r][u] <= paid + (IF u \in run.hand THEN run.tries ELSE 0)
  BY <1>1, <1>2 DEF CountInv, RunCounts
<1>4. /\ paid \in Nat /\ Budget(attempts[r]) = paid + MaxTries
      /\ MaxTries \in Nat /\ run.tries \in Nat /\ run.tries + 1 <= MaxTries
  <2>1. attempts[r] - 1 \in Nat /\ (attempts[r] - 1) + 1 = attempts[r]
    BY <1>3
  <2>2. run.tries \in 0..(MaxTries - 1)
    BY <1>1 DEF Local
  <2> QED
    BY <2>1, <2>2, BudgetGrows, ConstantsAssumption
<1>5. /\ \A u \in Target \ {t} : copies'[r][u] = copies[r][u]
      /\ copies[r][t] \in Nat /\ copies'[r][t] \in Nat /\ copies'[r][t] <= copies[r][t] + 1
  <2>1. copies[r] \in [Target -> 0..CopyCap] /\ CopyCap \in Nat
    BY <1>1, ConstantsAssumption
  <2>2. CASE UNCHANGED copies
    BY <2>1, <2>2
  <2>3. CASE Deliver(r, t)
    <3>1. copies'[r] = [copies[r] EXCEPT ![t] = IF @ < CopyCap THEN @ + 1 ELSE @]
      BY <1>1, <2>3 DEF Deliver
    <3> QED
      BY <2>1, <3>1
  <2> QED
    BY <2>2, <2>3, SendShape
<1>6. copies'[r][t] <= paid + run.tries + 1
  BY <1>2, <1>3, <1>4, <1>5
<1>7. \A u \in run.todo \ {t} : copies'[r][u] <= paid
  <2>1. run.todo \subseteq Target
    BY <1>1 DEF Local
  <2> QED
    BY <1>2, <1>3, <1>4, <1>5, <2>1
<1>8. /\ next.at = "sending"
      /\ \/ next.todo = run.todo \ {t} /\ next.hand = {}
         \/ next.todo = run.todo /\ next.hand = {t} /\ next.tries = run.tries + 1
  <2>1. \/ next = Sent(run, t) \/ next = GivenUp(run, t) \/ next = Again(run, t)
    BY <1>1, SendShape DEF AloneInv, TypeOK
  <2> QED
    BY <1>1, <1>2, <2>1 DEF Sent, GivenUp, Again, Local
<1>9. RunCounts(p, r)'
  <2>1. \A u \in next.todo : copies'[r][u] <= paid + (IF u \in next.hand THEN next.tries ELSE 0)
    BY <1>4, <1>6, <1>7, <1>8
  <2> QED
    BY <1>2, <1>3, <1>8, <2>1 DEF RunCounts, Budget
<1>10. \A u \in Target : copies'[r][u] <= Budget(attempts'[r])
  BY <1>2, <1>4, <1>5, <1>6 DEF CountInv
<1> QED
  BY <1>2, <1>9, <1>10, RunMoves DEF CountInv

LEMMA CountStep ==
  ASSUME Alone, AloneInv, CountInv, [Next]_vars
  PROVE  CountInv'
<1> USE DEF dbVars, requestVars, procVars
<1>1. /\ TypeOK
      /\ \A p \in Proc, r \in Request : <<p, r>> \in Thread /\ thread[<<p, r>>] \in Local
      /\ \A r \in Request : attempts[r] \in Nat
  BY DEF AloneInv, TypeOK, Thread
<1>2. CASE UNCHANGED vars
  BY <1>2, CalmStep DEF vars
<1>3. ASSUME NEW p \in Proc, NEW r \in Request, Create(p, r) \/ Resolve(p, r) PROVE CountInv'
  <2>1. UNCHANGED <<attempts, copies, thread>> /\ pc[r] = "idle"
        /\ \A s \in Request \ {r} : pc'[s] = pc[s]
    BY <1>1, <1>3 DEF Create, Resolve, Reply, TypeOK
  <2> QED
    BY <2>1, CalmStep DEF Unsent
<1>4. ASSUME NEW r \in Request, Enqueue(r) \/ Abort(r) PROVE CountInv'
  <2>1. UNCHANGED <<attempts, copies, thread>> /\ pc[r] = "updated"
        /\ \A s \in Request \ {r} : pc'[s] = pc[s]
    BY <1>1, <1>4 DEF Enqueue, Abort, Reply, TypeOK
  <2> QED
    BY <2>1, CalmStep DEF Unsent
<1>5. ASSUME NEW r \in Request, Submit(r) PROVE CountInv'
  <2>0. PICK p \in Proc : p = site[r]
    BY <1>5 DEF Submit, InFlight, AloneInv
  <2>1. /\ UNCHANGED <<attempts, copies>> /\ pc[r] = "rowed"
        /\ pc'[r] = "over" /\ \A s \in Request \ {r} : pc'[s] = pc[s]
    BY <1>1, <1>5 DEF Submit, Reply, TypeOK
  <2>2. attempts[r] < MaxAttempts
    BY <2>1, ConstantsAssumption DEF CountInv, Unsent
  <2>3. \A s \in Request \ {r} : thread'[<<p, s>>] = thread[<<p, s>>]
    BY <1>1, <1>5, <2>0 DEF Submit, TypeOK
  <2>4. RunCounts(p, r)'
    <3>1. CASE UNCHANGED thread
      BY <2>1, <3>1 DEF CountInv, RunCounts
    <3>2. CASE thread' = [thread EXCEPT ![<<p, r>>].at = "waiting"]
      <4>1. thread'[<<p, r>>] = [thread[<<p, r>>] EXCEPT !.at = "waiting"]
        BY <1>1, <3>2 DEF TypeOK
      <4>2. thread'[<<p, r>>].at = "waiting"
        BY <1>1, <4>1 DEF Local
      <4> QED
        BY <2>1, <2>2, <4>2 DEF RunCounts
    <3> QED
      BY <1>5, <2>0, <3>1, <3>2 DEF Submit
  <2>5. \A q \in Proc, s \in Request : RunCounts(q, s)'
    BY <2>1, <2>3, <2>4, OthersCount
  <2> QED
    BY <2>1, <2>5 DEF CountInv, Unsent, Budget
<1>6. ASSUME NEW p \in Proc, NEW r \in Request, Load(p, r) PROVE CountInv'
  <2>1. UNCHANGED <<attempts, copies, pc>> /\ attempts[r] < MaxAttempts
    BY <1>6 DEF Load, At, CountInv, RunCounts
  <2>2. CASE Ends(<<p, r>>)
    <3>1. \A h \in Thread : thread'[h] = thread[h] \/ thread'[h].at \in Calm
      BY <1>1, <2>2 DEF Ends, Idle, Calm, TypeOK
    <3> QED
      BY <2>1, <3>1, CalmStep
  <2>3. CASE thread' = [thread EXCEPT ![<<p, r>>].at = "loaded",
                  ![<<p, r>>].seen = [status |-> status[r], attempts |-> attempts[r]]]
    <3>1. /\ thread'[<<p, r>>].at = "loaded"
          /\ thread'[<<p, r>>].seen.attempts = attempts[r]
          /\ \A s \in Request \ {r} : thread'[<<p, s>>] = thread[<<p, s>>]
      <4>1. \A h \in Thread : h # <<p, r>> => thread'[h] = thread[h]
        BY <1>1, <2>3 DEF TypeOK
      <4>2. thread'[<<p, r>>] = [thread[<<p, r>>] EXCEPT !.at = "loaded",
                      !.seen = [status |-> status[r], attempts |-> attempts[r]]]
        BY <1>1, <2>3 DEF TypeOK
      <4>3. thread'[<<p, r>>].at = "loaded" /\ thread'[<<p, r>>].seen.attempts = attempts[r]
        BY <1>1, <4>2 DEF Local
      <4> QED
        BY <1>1, <4>1, <4>3
    <3>2. RunCounts(p, r)'
      BY <2>1, <3>1 DEF RunCounts
    <3> QED
      BY <2>1, <3>1, <3>2, RunMoves DEF CountInv
  <2> QED
    BY <1>6, <2>2, <2>3 DEF Load
<1>7. ASSUME NEW p \in Proc, NEW r \in Request, Claim(p, r) PROVE CountInv'
  <2>1. /\ attempts[r] < MaxAttempts /\ thread[<<p, r>>].seen.attempts = attempts[r]
        /\ pc[r] \notin Unsent
    <3>1. pc[r] \notin Unsent
      BY <1>7 DEF Claim, AloneInv, HoldInv, Open, Unsent
    <3> QED
      BY <1>7, <3>1 DEF Claim, At, CountInv, RunCounts
  <2>2. /\ UNCHANGED <<copies, pc>> /\ attempts'[r] = attempts[r] + 1
        /\ thread'[<<p, r>>].at = "claimed"
        /\ \A s \in Request \ {r} : /\ attempts'[s] = attempts[s]
                                    /\ thread'[<<p, s>>] = thread[<<p, s>>]
    BY <1>1, <1>7, <2>1 DEF Claim, TypeOK, Idle
  <2>3. attempts'[r] <= MaxAttempts /\ attempts'[r] - 1 = attempts[r] /\ attempts'[r] >= 1
    BY <1>1, <2>1, <2>2, ConstantsAssumption
  <2>4. \A t \in Target : /\ copies'[r][t] <= Budget(attempts[r])
                          /\ copies'[r][t] <= Budget(attempts'[r])
    <3>1. Budget(attempts[r]) \in Nat /\ Budget(attempts'[r]) = Budget(attempts[r]) + MaxTries
      BY <1>1, <2>2, BudgetGrows
    <3>2. ASSUME NEW t \in Target PROVE copies[r][t] \in Nat /\ copies[r][t] <= Budget(attempts[r])
      BY <1>1, ConstantsAssumption DEF CountInv, TypeOK
    <3> QED
      BY <2>2, <3>1, <3>2, ConstantsAssumption
  <2>5. RunCounts(p, r)'
    BY <2>2, <2>3, <2>4 DEF RunCounts, Budget
  <2> QED
    BY <2>1, <2>2, <2>3, <2>4, <2>5, RunMoves
<1>8. ASSUME NEW p \in Proc, NEW r \in Request, Read(p, r) PROVE CountInv'
  <2> DEFINE run == thread[<<p, r>>]
             next == thread'[<<p, r>>]
             paid == Budget(attempts[r] - 1)
  <2>1. /\ UNCHANGED <<attempts, copies, pc>> /\ attempts[r] >= 1
        /\ \A t \in Target : copies[r][t] <= paid
    BY <1>8 DEF Read, At, CountInv, RunCounts
  <2>2. /\ next.todo \subseteq Target /\ next.at \in {"sending", "finishing"}
        /\ next.hand = run.hand /\ next.tries = run.tries
        /\ \A s \in Request \ {r} : thread'[<<p, s>>] = thread[<<p, s>>]
    <3> DEFINE left == Target \ logged[r]
               stage == IF left = {} THEN "finishing" ELSE "sending"
    <3>1. thread' = [thread EXCEPT ![<<p, r>>].todo = left, ![<<p, r>>].at = stage]
      BY <1>8 DEF Read
    <3>2. left \subseteq Target /\ stage \in {"sending", "finishing"}
      OBVIOUS
    <3> HIDE DEF left, stage
    <3>3. \A h \in Thread : h # <<p, r>> => thread'[h] = thread[h]
      BY <1>1, <3>1 DEF TypeOK
    <3>4. next = [run EXCEPT !.todo = left, !.at = stage]
      BY <1>1, <3>1 DEF TypeOK
    <3>5. next.todo = left /\ next.at = stage /\ next.hand = run.hand /\ next.tries = run.tries
      BY <1>1, <3>4 DEF Local
    <3> QED
      BY <1>1, <3>2, <3>3, <3>5
  <2>3. ASSUME NEW t \in next.todo
        PROVE  copies[r][t] <= paid + (IF t \in next.hand THEN next.tries ELSE 0)
    <3>1. paid \in Nat
      <4>1. attempts[r] - 1 \in Nat
        BY <1>1, <2>1
      <4> QED
        BY <4>1, BudgetGrows
    <3>2. copies[r][t] \in Nat /\ next.tries \in Nat
      <4>1. run.tries \in 0..(MaxTries - 1) /\ MaxTries \in Nat /\ CopyCap \in Nat
        BY <1>1, ConstantsAssumption DEF Local
      <4>2. copies[r] \in [Target -> 0..CopyCap]
        BY <1>1 DEF TypeOK
      <4> QED
        BY <2>2, <4>1, <4>2
    <3> QED
      BY <2>1, <2>2, <3>1, <3>2
  <2>4. RunCounts(p, r)'
    BY <2>1, <2>2, <2>3 DEF RunCounts, Budget
  <2> QED
    BY <2>1, <2>2, <2>4, RunMoves DEF CountInv
<1>9. ASSUME NEW p \in Proc, NEW r \in Request, NEW t \in Target, Send(p, r, t) PROVE CountInv'
  BY <1>9, SendCounts
<1>10. ASSUME NEW p \in Proc, NEW r \in Request,
              \/ LogEmail(p, r) \/ LogSms(p, r) \/ DispatchFails(p, r)
              \/ Mark(p, r) \/ RunRaises(p, r)
       PROVE  CountInv'
  <2>1. \A h \in Thread : thread'[h] = thread[h] \/ thread'[h].at \in Calm
    <3>1. \/ Ends(<<p, r>>)
          \/ Go(<<p, r>>, "loggingSms") \/ Go(<<p, r>>, "finishing") \/ Go(<<p, r>>, "failing")
      BY <1>10 DEF LogEmail, LogSms, DispatchFails, Mark, RunRaises
    <3>2. ASSUME NEW stage \in Calm, Go(<<p, r>>, stage)
          PROVE  \A h \in Thread : thread'[h] = thread[h] \/ thread'[h].at \in Calm
      BY <1>1, <3>2 DEF Go, TypeOK, Local
    <3>3. CASE Ends(<<p, r>>)
      BY <1>1, <3>3 DEF Ends, Idle, Calm, TypeOK
    <3> QED
      BY <3>1, <3>2, <3>3 DEF Calm
  <2>2. UNCHANGED <<attempts, copies, pc>>
    BY <1>10 DEF LogEmail, LogSms, LogResults, DispatchFails, Mark, RunRaises
  <2> QED
    BY <2>1, <2>2, CalmStep
<1>11. ASSUME NEW p \in Proc, Start(p) PROVE CountInv'
  <2>1. UNCHANGED <<attempts, copies, pc>>
    BY <1>11 DEF Start
  <2>2. ASSUME NEW q \in Proc, NEW s \in Request PROVE RunCounts(q, s)'
    <3>1. q = p /\ RunCounts(q, s)
      BY DEF Alone, CountInv
    <3>2. CASE s \in Resumable
      <4>1. thread'[<<q, s>>].at = "waiting"
        BY <1>1, <1>11, <3>1, <3>2 DEF Start, Idle
      <4> QED
        BY <2>1, <3>2, <4>1 DEF RunCounts, Resumable
    <3>3. CASE s \notin Resumable
      <4>1. thread'[<<q, s>>] = thread[<<q, s>>]
        BY <1>1, <1>11, <3>1, <3>3 DEF Start
      <4> QED
        BY <2>1, <3>1, <4>1 DEF RunCounts
    <3> QED
      BY <3>2, <3>3
  <2> QED
    BY <2>1, <2>2 DEF CountInv, Unsent, Budget
<1>12. ASSUME NEW p \in Proc, Exit(p) PROVE CountInv'
  <2>1. /\ UNCHANGED <<attempts, copies>>
        /\ \A h \in Thread : thread'[h] = thread[h] \/ thread'[h].at \in Calm
        /\ \A s \in Request : pc'[s] = pc[s] \/ pc'[s] = "over"
    BY <1>12 DEF Exit, Idle, Calm
  <2> QED
    BY <2>1, CalmStep DEF Unsent
<1>13. ASSUME NEW p \in Proc, Recovered(p) \/ Shutdown(p) PROVE CountInv'
  BY <1>13, CalmStep DEF Recovered, Shutdown
<1> QED
  BY <1>2, <1>3, <1>4, <1>5, <1>6, <1>7, <1>8, <1>9, <1>10, <1>11, <1>12, <1>13
  DEF Next, Life, Run, Crash, Drained

(* With one process at a time, whatever crashes, fails or is repeated: the *)
(* attempts on a row are limited, and so are the copies of a message.      *)
THEOREM CopiesAreBounded ==
  ASSUME Alone
  PROVE  Spec => []CopiesWithinAttempts
<1>1. Init => CountInv
  <2> SUFFICES ASSUME Init PROVE CountInv
    OBVIOUS
  <2>1. \A p \in Proc, r \in Request : thread[<<p, r>>].at = "none"
    BY DEF Init, Thread, Idle
  <2>2. \A p \in Proc, r \in Request : RunCounts(p, r)
    BY <2>1 DEF RunCounts
  <2> QED
    BY <2>2, BudgetGrows, ConstantsAssumption DEF Init, CountInv
<1>2. AloneInv /\ CountInv /\ [Next]_vars => CountInv'
  BY CountStep
<1>3. CountInv => CopiesWithinAttempts
  BY DEF CountInv, CopiesWithinAttempts, Budget
<1> QED
  BY <1>1, <1>2, <1>3, AloneInit, AloneStep, PTL DEF Spec
-----------------------------------------------------------------------------
(* The queue implements DurableJobs.                                       *)
JobsInv == ReachInv /\ WinnerInv /\ AloneInv

(* Who is accounted for is who has a row of the log.                       *)
LEMMA ReachedIsLogged ==
  /\ ReachInv => \A r \in Request : Reached[r] = Closed(r)
  /\ ReachInv' => \A r \in Request : Reached'[r] = Closed(r)'
BY DEF ReachInv, TypeOK, SentIsDelivered, Reached, Accounted, Closed

LEMMA SameReached ==
  ASSUME ReachInv, ReachInv', UNCHANGED <<logged, refused>> PROVE Reached' = Reached
<1>1. \A r \in Request : Reached[r] = Closed(r) /\ Reached'[r] = Closed(r)'
  BY ReachedIsLogged
<1>2. \A r \in Request : Closed(r)' = Closed(r)
  BY DEF Closed
<1>3. Reached = [r \in Request |-> Reached[r]] /\ Reached' = [r \in Request |-> Reached'[r]]
  BY DEF Reached
<1> QED
  BY <1>1, <1>2, <1>3

(* The rows of the log, of one job that is open, and only more of them.    *)
LEMMA LogIsAccount ==
  ASSUME JobsInv, JobsInv', NEW p \in Proc, NEW r \in Request, LogEmail(p, r) \/ LogSms(p, r)
  PROVE  Jobs!Next
<1>1. TypeOK /\ <<p, r>> \in Thread /\ thread[<<p, r>>] \in Local
  BY DEF JobsInv, ReachInv, TypeOK, Thread
<1>2. status[r] \in Open
  BY DEF JobsInv, AloneInv, HoldInv, LogEmail, LogSms, AllTried, At
<1>3. PICK channel : UNCHANGED status /\ LogResults(p, r, channel)
  BY DEF LogEmail, LogSms, LogResults
<1>4. /\ \A s \in Request \ {r} : Closed(s)' = Closed(s)
      /\ Closed(r) \subseteq Closed(r)' /\ Closed(r)' \subseteq Target
  <2>1. TypeOK'
    BY DEF JobsInv, ReachInv
  <2> QED
    BY <1>1, <1>3, <2>1 DEF LogResults, TypeOK, Closed
<1>5. \A s \in Request : Reached[s] = Closed(s) /\ Reached'[s] = Closed(s)'
  BY ReachedIsLogged DEF JobsInv
<1>6. Reached' = [Reached EXCEPT ![r] = @ \cup Closed(r)']
  <2>1. Reached = [s \in Request |-> Reached[s]] /\ Reached' = [s \in Request |-> Reached'[s]]
    BY DEF Reached
  <2> QED
    BY <1>4, <1>5, <2>1
<1>7. JobRow[r] = "open" /\ JobRow' = JobRow
  BY <1>2, <1>3 DEF JobRow
<1>8. Closed(r)' \in SUBSET Target /\ Jobs!Account(r, Closed(r)')
  BY <1>4, <1>6, <1>7 DEF Jobs!Account
<1> QED
  BY <1>8 DEF Jobs!Next

(* A row that is closed: as done with everybody accounted for, or as       *)
(* failed.                                                                 *)
LEMMA MarkCloses ==
  ASSUME JobsInv, JobsInv', NEW p \in Proc, NEW r \in Request, Mark(p, r)
  PROVE  Jobs!Next
<1>1. TypeOK /\ ReachInv /\ ReachInv'
  BY DEF JobsInv, ReachInv
<1>2. status[r] \in Open
  BY DEF JobsInv, AloneInv, HoldInv, Mark, At
<1>3. UNCHANGED <<logged, refused>>
  BY DEF Mark
<1>4. Reached' = Reached
  BY <1>1, <1>3, SameReached
<1>5. JobRow[r] = "open"
  BY <1>2 DEF JobRow
<1>6. ASSUME At(p, r) = "finishing", status' = [status EXCEPT ![r] = "done"] PROVE Jobs!Next
  <2>1. JobRow' = [JobRow EXCEPT ![r] = "done"]
    BY <1>1, <1>6 DEF JobRow, TypeOK, Open
  <2>2. Reached[r] = Target
    <3>1. Target \subseteq Closed(r)
      BY <1>1, <1>6 DEF ReachInv, Progress, At
    <3>2. Closed(r) \subseteq Target
      BY <1>1 DEF TypeOK, Closed
    <3> QED
      BY <1>1, <3>1, <3>2, ReachedIsLogged
  <2>3. Jobs!Finish(r)
    BY <1>4, <1>5, <2>1, <2>2 DEF Jobs!Finish
  <2> QED
    BY <2>3 DEF Jobs!Next
<1>7. ASSUME status' = [status EXCEPT ![r] = "failed"] PROVE Jobs!Next
  <2>1. JobRow' = [s \in Request |-> IF s \in {r} THEN "failed" ELSE JobRow[s]]
    BY <1>1, <1>7 DEF JobRow, TypeOK, Open
  <2>2. {r} \in SUBSET Request /\ Jobs!GiveUp({r})
    BY <1>4, <1>5, <2>1 DEF Jobs!GiveUp
  <2> QED
    BY <2>2 DEF Jobs!Next
<1> QED
  BY <1>6, <1>7 DEF Mark

LEMMA JobsStep ==
  ASSUME JobsInv, JobsInv', [Next]_vars PROVE [Jobs!Next]_(Jobs!vars)
<1>1. TypeOK /\ ReachInv /\ ReachInv'
  BY DEF JobsInv, ReachInv
<1>a. UNCHANGED <<status, logged, refused>> => UNCHANGED Jobs!vars
  BY <1>1, SameReached DEF JobRow, Jobs!vars
<1> USE DEF dbVars, requestVars, procVars
<1>2. CASE UNCHANGED vars
  BY <1>2, <1>a DEF vars
<1>3. ASSUME NEW r \in Request, Enqueue(r) PROVE Jobs!Next
  <2>1. status[r] = "absent" /\ pc[r] = "updated"
    BY <1>3 DEF Enqueue, JobsInv, AloneInv, HoldInv
  <2>2. r # Creator => \A s \in Request \ {Creator} : status[s] = "absent"
    BY <2>1 DEF JobsInv, WinnerInv, Winner, Resolvers
  <2>3. JobRow' = [JobRow EXCEPT ![r] = "open"]
    BY <1>1, <1>3 DEF Enqueue, JobRow, TypeOK, Open
  <2>4. Reached' = Reached
    BY <1>1, <1>3, SameReached DEF Enqueue
  <2>5. JobRow[r] = "absent" /\ (r # Creator => \A s \in Request \ {Creator} : JobRow[s] = "absent")
    BY <2>1, <2>2 DEF JobRow, Open
  <2>6. Jobs!Write(r)
    BY <2>3, <2>4, <2>5 DEF Jobs!Write
  <2> QED
    BY <2>6 DEF Jobs!Next
<1>4. ASSUME NEW r \in Request, Abort(r) \/ Submit(r) PROVE UNCHANGED Jobs!vars
  BY <1>4, <1>a DEF Abort, Submit
<1>5. ASSUME NEW p \in Proc, NEW r \in Request,
             \/ Create(p, r) \/ Resolve(p, r) \/ DispatchFails(p, r) \/ RunRaises(p, r)
             \/ Load(p, r) \/ Read(p, r) \/ \E t \in Target : Send(p, r, t)
      PROVE  UNCHANGED Jobs!vars
  BY <1>5, <1>a DEF Create, Resolve, DispatchFails, RunRaises, Load, Read, Send
<1>6. ASSUME NEW p \in Proc, NEW r \in Request, Claim(p, r) PROVE UNCHANGED Jobs!vars
  <2>1. status[r] \in Open /\ \A s \in Request : status'[s] # status[s] =>
                                  s = r /\ status'[s] = "inProgress"
    BY <1>1, <1>6 DEF Claim, At, JobsInv, AloneInv, HoldInv, TypeOK
  <2>2. JobRow' = JobRow
    BY <2>1 DEF JobRow, Open
  <2>3. Reached' = Reached
    BY <1>1, <1>6, SameReached DEF Claim
  <2> QED
    BY <2>2, <2>3 DEF Jobs!vars
<1>7. ASSUME NEW p \in Proc, NEW r \in Request, LogEmail(p, r) \/ LogSms(p, r) \/ Mark(p, r)
      PROVE  Jobs!Next
  BY <1>7, LogIsAccount, MarkCloses
<1>8. ASSUME NEW p \in Proc, Start(p) \/ Exit(p) \/ Shutdown(p) PROVE UNCHANGED Jobs!vars
  BY <1>8, <1>a DEF Start, Exit, Shutdown
<1>9. ASSUME NEW p \in Proc, Recovered(p) PROVE Jobs!Next
  <2>1. doomed[p] \in SUBSET Request /\ \A r \in doomed[p] : status[r] \in Open
    BY <1>1 DEF TypeOK, JobsInv, AloneInv, HoldInv
  <2>2. JobRow' = [r \in Request |-> IF r \in doomed[p] THEN "failed" ELSE JobRow[r]]
    BY <1>9 DEF Recovered, JobRow, Open
  <2>3. Reached' = Reached
    BY <1>1, <1>9, SameReached DEF Recovered
  <2>4. \A r \in doomed[p] : JobRow[r] = "open"
    BY <2>1 DEF JobRow
  <2>5. Jobs!GiveUp(doomed[p])
    BY <2>2, <2>3, <2>4 DEF Jobs!GiveUp
  <2> QED
    BY <2>1, <2>5 DEF Jobs!Next
<1> QED
  BY <1>2, <1>3, <1>4, <1>5, <1>6, <1>7, <1>8, <1>9 DEF Next, Life, Run, Crash, Drained

(* With one process at a time, whatever crashes, fails or is run again,    *)
(* every behaviour of the queue is one of DurableJobs: rows are written    *)
(* and closed once, and DONE says that everybody is accounted for.         *)
THEOREM Implements == ASSUME Alone PROVE Spec => ImplementsDurableJobs
<1>1. Init => Jobs!Init
  <2> SUFFICES ASSUME Init PROVE Jobs!Init
    OBVIOUS
  <2>1. JobRow = [r \in Request |-> "absent"]
    BY DEF Init, JobRow, Open
  <2>2. Reached = [r \in Request |-> {}]
    BY DEF Init, Reached, Accounted
  <2> QED
    BY <2>1, <2>2 DEF Jobs!Init
<1>2. Init => JobsInv
  BY ReachInit, WinnerInit, AloneInit DEF JobsInv
<1>3. JobsInv /\ [Next]_vars => JobsInv'
  BY ReachStep, WinnerStep, AloneStep DEF JobsInv
<1>4. JobsInv /\ JobsInv' /\ [Next]_vars => [Jobs!Next]_(Jobs!vars)
  BY JobsStep
<1> QED
  BY <1>1, <1>2, <1>3, <1>4, PTL DEF Spec, ImplementsDurableJobs, Jobs!Spec
=============================================================================
