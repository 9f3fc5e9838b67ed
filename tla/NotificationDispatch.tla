------------------------ MODULE NotificationDispatch ------------------------
(***************************************************************************)
(* Sending an alert: the create and resolve routes (app/api/v1/alerts.py,  *)
(* app/services/alert_service.py), the durable job table                   *)
(* (notification_dispatch_queue.py), the thread pool of each process       *)
(* (core/notification_executor.py) and the provider calls (core/email.py,  *)
(* core/sms.py), for one alert.                                            *)
(*                                                                         *)
(* A job takes the name of the request that wrote its row.  One action is  *)
(* one committed transaction or one call to a provider.                    *)
(***************************************************************************)
EXTENDS Integers, FiniteSets

CONSTANTS
    Proc,         \* server processes (WEB_CONCURRENCY), one database
    Request,      \* requests about the alert, retries included
    Creator,      \* the POST that raises it; the others are resolve PATCHes
    Email, Sms,   \* the addresses to notify on each channel
    Workers,      \* NOTIFICATION_DISPATCH_WORKERS
    MaxAttempts,  \* NOTIFICATION_DISPATCH_MAX_JOB_ATTEMPTS
    MaxTries,     \* NOTIFICATION_SEND_MAX_ATTEMPTS
    CopyCap,      \* where counting the copies of one message stops
    Faults,       \* the faults this instance lets happen
    NoSite        \* a request no process has taken yet

FaultKind == {"crash", "dbError", "logError", "lostAck"}

ASSUME ConstantsAssumption ==
    /\ Email \cap Sms = {}
    /\ Workers \in Nat \ {0}
    /\ MaxAttempts \in Nat \ {0}
    /\ MaxTries \in Nat \ {0}
    /\ CopyCap \in Nat \ {0}
    /\ Faults \subseteq FaultKind
    /\ NoSite \notin Proc

Target == Email \cup Sms
Thread == Proc \X Request   \* the run of one job in one process

VARIABLES
    alert,           \* the alert's row
    status, attempts,       \* the job rows
    logged, refused, \* NotificationLog rows of a job: SENT, FAILED
    copies,          \* what the providers delivered, up to CopyCap
    proc,            \* life of each process
    doomed,          \* jobs its recovery has read as out of attempts
    pc, site,        \* each request, and the process that handles it
    thread           \* each run: see Idle and its fields in TypeOK

dbVars      == <<alert, status, attempts, logged, refused>>
requestVars == <<pc, site>>
procVars    == <<proc, doomed>>
vars == <<dbVars, copies, requestVars, procVars, thread>>

Status == {"absent", "queued", "inProgress", "done", "failed"}
Open   == {"queued", "inProgress"}
Stage  == {"none", "waiting", "loaded", "claimed", "sending", "loggingSms",
           "finishing", "failing"}

(* What a run keeps: where it is, the job row as it read it, its           *)
(* recipients left, its results, the one in hand, if it is being tried     *)
(* again, and the tries made on it.                                        *)
Local == [at : Stage, seen : [status : Status, attempts : Nat],
          todo : SUBSET Target, sent : SUBSET Target, failed : SUBSET Target,
          hand : SUBSET Target, tries : 0..(MaxTries - 1)]

Idle == [at |-> "none", seen |-> [status |-> "absent", attempts |-> 0],
         todo |-> {}, sent |-> {}, failed |-> {}, hand |-> {}, tries |-> 0]

At(p, r) == thread[<<p, r>>].at

TypeOK ==
    /\ alert \in {"none", "active", "resolved"}
    /\ status \in [Request -> Status]
    /\ attempts \in [Request -> Nat]
    /\ logged \in [Request -> SUBSET Target]
    /\ refused \in [Request -> SUBSET Target]
    /\ copies \in [Request -> [Target -> 0..CopyCap]]
    /\ proc \in [Proc -> {"down", "recovering", "up", "stopping"}]
    /\ doomed \in [Proc -> SUBSET Request]
    /\ pc \in [Request -> {"idle", "updated", "rowed", "over"}]
    /\ site \in [Request -> Proc \cup {NoSite}]
    /\ thread \in [Thread -> Local]

-----------------------------------------------------------------------------
(* The routes                                                              *)

Reply(r) == pc' = [pc EXCEPT ![r] = "over"]

(* create_alert: the alert is committed; the dispatch may not be wanted.   *)
Create(p, r) ==
    /\ r = Creator /\ pc[r] = "idle" /\ proc[p] = "up"
    /\ alert' = "active"
    /\ \/ pc' = [pc EXCEPT ![r] = "updated"]
       \/ Reply(r)
    /\ site' = [site EXCEPT ![r] = p]
    /\ UNCHANGED <<status, attempts, logged, refused, copies, procVars, thread>>

(* Mutant: whoever asks has resolved it.                                   *)
ResolveUnconditionally(p, r) ==
    /\ r # Creator /\ pc[r] = "idle" /\ proc[p] = "up"
    /\ alert # "none"
    /\ alert' = "resolved"
    /\ \/ pc' = [pc EXCEPT ![r] = "updated"]
       \/ Reply(r)
    /\ site' = [site EXCEPT ![r] = p]
    /\ UNCHANGED <<status, attempts, logged, refused, copies, procVars, thread>>

(* resolve_alert: UPDATE ... WHERE is_resolved IS FALSE, and its rowcount. *)
Resolve(p, r) ==
    /\ r # Creator /\ pc[r] = "idle" /\ proc[p] = "up"
    /\ alert # "none"
    /\ alert' = "resolved"
    /\ \/ alert = "active" /\ pc' = [pc EXCEPT ![r] = "updated"]
       \/ Reply(r)     \* not just_resolved, or not notify_on_resolve
    /\ site' = [site EXCEPT ![r] = p]
    /\ UNCHANGED <<status, attempts, logged, refused, copies, procVars, thread>>

(* enqueue_and_submit: the row is committed before the pool sees the job.  *)
Enqueue(r) ==
    /\ pc[r] = "updated"
    /\ status' = [status EXCEPT ![r] = "queued"]
    /\ pc' = [pc EXCEPT ![r] = "rowed"]
    /\ UNCHANGED <<alert, attempts, logged, refused, copies, site, procVars, thread>>

(* The route raises between its commit and the row.                        *)
Abort(r) ==
    /\ "dbError" \in Faults
    /\ pc[r] = "updated"
    /\ Reply(r)
    /\ UNCHANGED <<dbVars, copies, site, procVars, thread>>

(* notification_executor.submit: a pool that is shutting down drops it.    *)
Submit(r) ==
    /\ pc[r] = "rowed"
    /\ Reply(r)
    /\ thread' = IF proc[site[r]] = "up"
                 THEN [thread EXCEPT ![<<site[r], r>>].at = "waiting"] ELSE thread
    /\ UNCHANGED <<dbVars, copies, site, procVars>>

-----------------------------------------------------------------------------
(* run_job, on a thread of the pool                                        *)

Go(h, stage) == thread' = [thread EXCEPT ![h].at = stage]

Ends(h) == thread' = [thread EXCEPT ![h] = Idle]

Busy(p) == {r \in Request : At(p, r) \notin {"none", "waiting"}}

(* db.get: a job that is DONE is left alone.                               *)
Load(p, r) ==
    /\ At(p, r) = "waiting" /\ proc[p] # "recovering"
    /\ Cardinality(Busy(p)) < Workers
    /\ IF status[r] = "done"
       THEN Ends(<<p, r>>)
       ELSE thread' = [thread EXCEPT ![<<p, r>>].at = "loaded",
                ![<<p, r>>].seen = [status |-> status[r], attempts |-> attempts[r]]]
    /\ UNCHANGED <<dbVars, copies, requestVars, procVars>>

(* Mutant: an attempt is not counted.                                      *)
ClaimUncounted(p, r) ==
    /\ At(p, r) = "loaded"
    /\ status' = [status EXCEPT ![r] = "inProgress"]
    /\ UNCHANGED attempts
    /\ thread' = [thread EXCEPT ![<<p, r>>] = [Idle EXCEPT !.at = "claimed"]]
    /\ UNCHANGED <<alert, logged, refused, copies, requestVars, procVars>>

(* status = IN_PROGRESS; attempts += 1, written from the row as it was     *)
(* read.  A status that was IN_PROGRESS already is not in the UPDATE.      *)
Claim(p, r) ==
    LET seen == thread[<<p, r>>].seen IN
    /\ At(p, r) = "loaded"
    /\ status' = IF seen.status = "inProgress" THEN status
                 ELSE [status EXCEPT ![r] = "inProgress"]
    /\ attempts' = [attempts EXCEPT ![r] = seen.attempts + 1]
    /\ thread' = [thread EXCEPT ![<<p, r>>] = [Idle EXCEPT !.at = "claimed"]]
    /\ UNCHANGED <<alert, logged, refused, copies, requestVars, procVars>>

(* _dispatch step 1: everybody but those this job has a SENT row for.      *)
Read(p, r) ==
    /\ At(p, r) = "claimed"
    /\ LET left == Target \ logged[r] IN
       thread' = [thread EXCEPT ![<<p, r>>].todo = left,
                    ![<<p, r>>].at = IF left = {} THEN "finishing" ELSE "sending"]
    /\ UNCHANGED <<dbVars, copies, requestVars, procVars>>

(* One recipient at a time, until it is sent to or given up on; and the    *)
(* channels in turn: no SMS before the e-mails are through.                *)
NextUp(run, t) ==
    /\ t \in run.todo
    /\ run.hand \subseteq {t}
    /\ t \in Sms => run.todo \cap Email = {}

MoreTries(run) == run.tries + 1 < MaxTries

Deliver(r, t) ==
    copies' = [copies EXCEPT ![r][t] = IF @ < CopyCap THEN @ + 1 ELSE @]

Sent(run, t) ==
    [run EXCEPT !.todo = @ \ {t}, !.sent = @ \cup {t}, !.hand = {}, !.tries = 0]
GivenUp(run, t) ==
    [run EXCEPT !.todo = @ \ {t}, !.failed = @ \cup {t}, !.hand = {}, !.tries = 0]

Again(run, t) == [run EXCEPT !.hand = {t}, !.tries = @ + 1]

(* send_alert_emails / send_alert_sms, one recipient: accepted, given up   *)
(* on, or accepted with the answer lost, which counts as a transient       *)
(* failure and is tried again.  A try that delivers nothing and is not the *)
(* last leaves no trace.                                                   *)
Send(p, r, t) ==
    LET run == thread[<<p, r>>]
        Becomes(next) == thread' = [thread EXCEPT ![<<p, r>>] = next] IN
    /\ run.at = "sending" /\ NextUp(run, t)
    /\ \/ Deliver(r, t) /\ Becomes(Sent(run, t))
       \/ Becomes(GivenUp(run, t)) /\ UNCHANGED copies
       \/ /\ "lostAck" \in Faults
          /\ Deliver(r, t)
          /\ Becomes(IF MoreTries(run) THEN Again(run, t) ELSE GivenUp(run, t))
    /\ UNCHANGED <<dbVars, requestVars, procVars>>

(* Mutant: only the successes are logged.                                  *)
LogSentOnly(p, r, channel) ==
    /\ logged' = [logged EXCEPT ![r] = @ \cup (thread[<<p, r>>].sent \cap channel)]
    /\ UNCHANGED <<refused, alert, status, attempts, copies, requestVars, procVars>>

LogResults(p, r, channel) ==
    /\ logged' = [logged EXCEPT ![r] = @ \cup (thread[<<p, r>>].sent \cap channel)]
    /\ refused' = [refused EXCEPT ![r] = @ \cup (thread[<<p, r>>].failed \cap channel)]
    /\ UNCHANGED <<alert, status, attempts, copies, requestVars, procVars>>

AllTried(p, r) == At(p, r) = "sending" /\ thread[<<p, r>>].todo = {}

(* Step 3: the e-mail rows are committed, then the bell notification about *)
(* those that went out is made, which can fail with the rows kept.         *)
LogEmail(p, r) ==
    /\ AllTried(p, r)
    /\ LogResults(p, r, Email)
    /\ \/ Go(<<p, r>>, "loggingSms")
       \/ /\ "logError" \in Faults
          /\ thread[<<p, r>>].sent \cap Email # {}
          /\ Go(<<p, r>>, "failing")

LogSms(p, r) ==
    /\ At(p, r) = "loggingSms"
    /\ LogResults(p, r, Sms)
    /\ Go(<<p, r>>, "finishing")

(* A transaction of _dispatch fails: run_job goes to its except branch.    *)
DispatchFails(p, r) ==
    /\ "logError" \in Faults
    /\ AllTried(p, r) \/ At(p, r) \in {"claimed", "loggingSms"}
    /\ Go(<<p, r>>, "failing")
    /\ UNCHANGED <<dbVars, copies, requestVars, procVars>>

(* Mutant: a run that failed leaves its row as it is.                      *)
MarkOnlyDone(p, r) ==
    /\ \/ At(p, r) = "finishing" /\ status' = [status EXCEPT ![r] = "done"]
       \/ At(p, r) = "failing" /\ UNCHANGED status
    /\ Ends(<<p, r>>)
    /\ UNCHANGED <<alert, attempts, logged, refused, copies, requestVars, procVars>>

(* Mutant: a run that failed is done with, too.                            *)
MarkDoneAnyway(p, r) ==
    /\ At(p, r) \in {"finishing", "failing"}
    /\ status' = [status EXCEPT ![r] = "done"]
    /\ Ends(<<p, r>>)
    /\ UNCHANGED <<alert, attempts, logged, refused, copies, requestVars, procVars>>

(* _mark                                                                   *)
Mark(p, r) ==
    /\ \/ At(p, r) = "finishing" /\ status' = [status EXCEPT ![r] = "done"]
       \/ At(p, r) = "failing" /\ status' = [status EXCEPT ![r] = "failed"]
    /\ Ends(<<p, r>>)
    /\ UNCHANGED <<alert, attempts, logged, refused, copies, requestVars, procVars>>

(* A transaction of run_job itself fails: the pool logs it and drops it.   *)
RunRaises(p, r) ==
    /\ "dbError" \in Faults
    /\ \/ At(p, r) = "waiting" /\ proc[p] # "recovering"
       \/ At(p, r) \in {"loaded", "finishing", "failing"}
    /\ Ends(<<p, r>>)
    /\ UNCHANGED <<dbVars, copies, requestVars, procVars>>

-----------------------------------------------------------------------------
(* A process's life (main.py lifespan)                                     *)

(* Mutants: recovery that overlooks the jobs that were running, or takes   *)
(* the closed ones too.                                                    *)
StuckQueued == {r \in Request : status[r] = "queued"}
StuckAny == {r \in Request : status[r] # "absent"}

(* recover_pending_jobs, its query: every open row, whoever has it.        *)
Stuck == {r \in Request : status[r] \in Open}

Resumable == {r \in Stuck : attempts[r] < MaxAttempts}

Start(p) ==
    /\ proc[p] = "down"
    /\ proc' = [proc EXCEPT ![p] = "recovering"]
    /\ doomed' = [doomed EXCEPT ![p] = Stuck \ Resumable]
    /\ thread' = [h \in Thread |->
                    IF h[1] = p /\ h[2] \in Resumable
                    THEN [Idle EXCEPT !.at = "waiting"] ELSE thread[h]]
    /\ UNCHANGED <<dbVars, copies, requestVars>>

(* Its commit; the process serves after it.                                *)
Recovered(p) ==
    /\ proc[p] = "recovering"
    /\ proc' = [proc EXCEPT ![p] = "up"]
    /\ status' = [r \in Request |-> IF r \in doomed[p] THEN "failed" ELSE status[r]]
    /\ doomed' = [doomed EXCEPT ![p] = {}]
    /\ UNCHANGED <<alert, attempts, logged, refused, copies, requestVars, thread>>

(* What dies with the process: its threads, its pool's queue, its requests.*)
Exit(p) ==
    /\ proc' = [proc EXCEPT ![p] = "down"]
    /\ doomed' = [doomed EXCEPT ![p] = {}]
    /\ thread' = [h \in Thread |-> IF h[1] = p THEN Idle ELSE thread[h]]
    /\ pc' = [r \in Request |->
                IF site[r] = p /\ pc[r] # "idle" THEN "over" ELSE pc[r]]
    /\ UNCHANGED <<dbVars, copies, site>>

Crash(p) == "crash" \in Faults /\ proc[p] # "down" /\ Exit(p)

(* A graceful stop takes no new job and waits for those it has.            *)
Shutdown(p) ==
    /\ proc[p] = "up"
    /\ proc' = [proc EXCEPT ![p] = "stopping"]
    /\ UNCHANGED <<dbVars, copies, requestVars, doomed, thread>>

Drained(p) ==
    /\ proc[p] = "stopping"
    /\ \A r \in Request : At(p, r) = "none"
    /\ Exit(p)

-----------------------------------------------------------------------------
Init ==
    /\ alert = IF Creator \in Request THEN "none" ELSE "active"
    /\ status = [r \in Request |-> "absent"]
    /\ attempts = [r \in Request |-> 0]
    /\ logged = [r \in Request |-> {}]
    /\ refused = [r \in Request |-> {}]
    /\ copies = [r \in Request |-> [t \in Target |-> 0]]
    /\ proc = [p \in Proc |-> "down"]
    /\ doomed = [p \in Proc |-> {}]
    /\ pc = [r \in Request |-> "idle"]
    /\ site = [r \in Request |-> NoSite]
    /\ thread = [h \in Thread |-> Idle]

Run(p, r) ==
    \/ Load(p, r) \/ Claim(p, r) \/ Read(p, r) \/ \E t \in Target : Send(p, r, t)
    \/ LogEmail(p, r) \/ LogSms(p, r) \/ Mark(p, r)

Life(p) == Start(p) \/ Recovered(p) \/ Crash(p) \/ Shutdown(p) \/ Drained(p)

Next ==
    \/ \E r \in Request : Enqueue(r) \/ Abort(r) \/ Submit(r)
    \/ \E p \in Proc : Life(p)
    \/ \E p \in Proc, r \in Request :
          Create(p, r) \/ Resolve(p, r) \/ Run(p, r) \/ DispatchFails(p, r) \/ RunRaises(p, r)

Spec == Init /\ [][Next]_vars

(* Threads and transactions make progress, a process that is down is       *)
(* started again and one that is stopping ends.                            *)
Fairness ==
    /\ \A r \in Request : WF_vars(Enqueue(r)) /\ WF_vars(Submit(r))
    /\ \A p \in Proc : WF_vars(Start(p)) /\ WF_vars(Recovered(p)) /\ WF_vars(Drained(p))
    /\ \A p \in Proc, r \in Request : WF_vars(Run(p, r))

FairSpec == Spec /\ Fairness
-----------------------------------------------------------------------------
(* What the pipeline promises                                              *)

(* However many resolve requests race or are retried, in any process, one  *)
(* of them at most ever gets a dispatch job.                               *)
Resolvers == Request \ {Creator}
OneResolutionJob == Cardinality({r \in Resolvers : status[r] # "absent"}) <= 1

(* A job that is DONE has accounted for every address: a FAILED row, or a  *)
(* SENT row and a message the provider took; whoever ran it, how often     *)
(* ever it was interrupted.                                                *)
Accounted(r, t) == t \in refused[r] \/ (t \in logged[r] /\ copies[r][t] > 0)
DoneMeansReached ==
    \A r \in Request : status[r] = "done" => \A t \in Target : Accounted(r, t)

(* An open job is never just a row: a process has it, or a process is on   *)
(* its way down and back up, and finds it then.                            *)
ToRestart(p) == proc[p] \in {"down", "stopping"}
HeldBy(p, r) == At(p, r) # "none" \/ r \in doomed[p]
NoForgottenJob ==
    \A r \in Request : status[r] \in Open =>
        pc[r] = "rowed" \/ \E p \in Proc : ToRestart(p) \/ HeldBy(p, r)

(* A job that finished is finished: no later run reopens it.  (One process *)
(* at a time; see the README for two.)                                     *)
DoneStaysDone ==
    [][\A r \in Request : status[r] = "done" => status'[r] = "done"]_vars

(* What a crash or a lost answer can repeat is bounded: as many copies as  *)
(* the attempts on the row allow, and no more attempts than configured.    *)
CopiesWithinAttempts ==
    \A r \in Request :
        /\ attempts[r] <= MaxAttempts
        /\ \A t \in Target : copies[r][t] <= attempts[r] * MaxTries

(* The documented promise: a resumed job sends nobody a second copy.       *)
NoDuplicate == \A r \in Request, t \in Target : copies[r][t] <= 1

(* Once the processes stay up, every open job ends as DONE or FAILED.      *)
StaysUp == <>[](\A p \in Proc : proc[p] = "up")
JobsSettle == StaysUp => \A r \in Request : status[r] \in Open ~> status[r] \in {"done", "failed"}

(* All of it together, with one process at a time: the rows and the log of *)
(* the queue implement DurableJobs, though a run is interrupted anywhere,  *)
(* a job is run again and a message is sent twice.                         *)
JobRow == [r \in Request |-> IF status[r] \in Open THEN "open" ELSE status[r]]
Reached == [r \in Request |-> {t \in Target : Accounted(r, t)}]
Jobs == INSTANCE DurableJobs
            WITH Job <- Request, Address <- Target, job <- JobRow, reached <- Reached
ImplementsDurableJobs == Jobs!Spec
=============================================================================
