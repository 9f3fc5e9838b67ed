---------------------------- MODULE DurableJobs ----------------------------
(* What the routes ask of the queue that sends an alert, whoever runs its  *)
(* jobs and whatever fails: a job is written once, and one resolver's at   *)
(* most; who is accounted for stays so; a job is done when everybody is,   *)
(* or it is given up, and neither is taken back.                           *)
CONSTANTS
    Job,
    Creator,   \* the job of the alert's creation; the others are resolvers'
    Address

VARIABLES job, reached

vars == <<job, reached>>

Init ==
    /\ job = [j \in Job |-> "absent"]
    /\ reached = [j \in Job |-> {}]

Write(j) ==
    /\ job[j] = "absent"
    /\ j # Creator => \A k \in Job \ {Creator} : job[k] = "absent"
    /\ job' = [job EXCEPT ![j] = "open"]
    /\ UNCHANGED reached

Account(j, addresses) ==
    /\ job[j] = "open"
    /\ reached' = [reached EXCEPT ![j] = @ \cup addresses]
    /\ UNCHANGED job

Finish(j) ==
    /\ job[j] = "open"
    /\ reached[j] = Address
    /\ job' = [job EXCEPT ![j] = "done"]
    /\ UNCHANGED reached

(* One by one, or all that a recovery finds out of attempts.               *)
GiveUp(jobs) ==
    /\ \A j \in jobs : job[j] = "open"
    /\ job' = [j \in Job |-> IF j \in jobs THEN "failed" ELSE job[j]]
    /\ UNCHANGED reached

Next ==
    \/ \E j \in Job : Write(j) \/ Finish(j)
    \/ \E j \in Job, addresses \in SUBSET Address : Account(j, addresses)
    \/ \E jobs \in SUBSET Job : GiveUp(jobs)

Spec == Init /\ [][Next]_vars
=============================================================================
