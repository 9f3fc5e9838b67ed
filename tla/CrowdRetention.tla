--------------------------- MODULE CrowdRetention ---------------------------
(***************************************************************************)
(* The crowd retention job (app/simulator/retention.py, the batches of     *)
(* app/utils/db_batch.py) over one station's history: raw rows are rolled  *)
(* up into one row an hour, then deleted.                                  *)
(*                                                                         *)
(* Time goes in slots, HourLen of them to an hour, and a raw row is its    *)
(* slot.  An hourly row is the set of raw rows it was computed from: its   *)
(* average, extremes and sample count are functions of that set.           *)
(***************************************************************************)
EXTENDS Integers, FiniteSets, FiniteSetsExt

CONSTANTS
    Failures,     \* a pass may fail or die with its process
    HourLen,      \* slots in an hour
    RollAfter,    \* CROWD_LOG_ROLLUP_AFTER_DAYS, in slots
    RawKeep,      \* CROWD_LOG_RETENTION_DAYS
    HourlyKeep,   \* CROWD_LOG_HOURLY_RETENTION_DAYS
    PageSize,     \* CROWD_ROLLUP_BATCH_SIZE
    BatchSize,    \* RETENTION_BATCH_SIZE
    PassSlots,    \* the longest a pass takes
    Horizon       \* where time stops

ASSUME ConstantsAssumption ==
    /\ {HourLen, RollAfter, RawKeep, HourlyKeep, PageSize, BatchSize} \subseteq Nat \ {0}
    /\ {PassSlots, Horizon} \subseteq Nat
    /\ Failures \in BOOLEAN

(* What the defaults (2 and 30 days) leave room for: a pass is over before *)
(* rows it has not rolled up are old enough for the safety net.            *)
ASSUME PassesAreShort == RollAfter + PassSlots <= RawKeep

VARIABLES
    now,
    raw,          \* crowd_logs
    hourly,       \* crowd_logs_hourly; {} is no row
    pass,         \* the pass that is running: where it is, and its locals
    taken         \* every raw row ever written (no part of the program)

vars == <<now, raw, hourly, pass, taken>>

Slot == 0..Horizon
HourOf(s) == s \div HourLen
Hour == {HourOf(s) : s \in Slot}

Stage == {"idle", "paging", "upserting", "deleting", "safetyNet", "hourly"}

TypeOK ==
    /\ now \in Slot
    /\ raw \subseteq taken /\ taken \subseteq Slot
    /\ hourly \in [Hour -> SUBSET Slot]
    /\ pass \in [at : Stage, begun : Slot, cutoff : Int,
                 offset : Nat, page : SUBSET Hour, rows : SUBSET Slot]

Idle == [at |-> "idle", begun |-> 0, cutoff |-> 0, offset |-> 0, page |-> {}, rows |-> {}]

Older(rows, cutoff) == {s \in rows : s < cutoff}

-----------------------------------------------------------------------------
(* The simulator or a journey writes a row, stamped by the database.       *)
Sample ==
    /\ raw' = raw \cup {now}
    /\ taken' = taken \cup {now}
    /\ UNCHANGED <<now, hourly, pass>>

Advance ==
    /\ now < Horizon
    /\ pass.at # "idle" => now < pass.begun + PassSlots
    /\ now' = now + 1
    /\ UNCHANGED <<raw, hourly, pass, taken>>

-----------------------------------------------------------------------------
(* _rollup_and_delete                                                      *)

Begin ==
    /\ pass.at = "idle"
    /\ pass' = [Idle EXCEPT !.at = "paging", !.begun = now, !.cutoff = now - RollAfter]
    /\ UNCHANGED <<now, raw, hourly, taken>>

(* Mutant: base_query groups by the time stamp itself.                     *)
BucketsOfRows(cutoff) == Older(raw, cutoff)

(* The hours that base_query groups the old rows into, in order: its       *)
(* OFFSET skips the first, its LIMIT ends the page.                        *)
Buckets(cutoff) == {HourOf(s) : s \in Older(raw, cutoff)}
Rank(h, buckets) == Cardinality({g \in buckets : g < h})
Page(buckets, offset) ==
    {h \in buckets : Rank(h, buckets) \in offset..(offset + PageSize - 1)}

(* The SELECT of a page.                                                   *)
ReadPage ==
    LET page == Page(Buckets(pass.cutoff), pass.offset) IN
    /\ pass.at = "paging"
    /\ pass' = [pass EXCEPT !.page = page,
                            !.rows = {s \in Older(raw, pass.cutoff) : HourOf(s) \in page},
                            !.at = IF page = {} THEN "deleting" ELSE "upserting"]
    /\ UNCHANGED <<now, raw, hourly, taken>>

(* Mutant: a full page is taken for the last one.                          *)
LastPageInclusive(page) == Cardinality(page) <= PageSize

LastPage(page) == Cardinality(page) < PageSize

(* INSERT ... ON CONFLICT DO UPDATE with the new values, and its commit.   *)
UpsertPage ==
    /\ pass.at = "upserting"
    /\ hourly' = [h \in Hour |-> IF h \in pass.page
                                 THEN {s \in pass.rows : HourOf(s) = h} ELSE hourly[h]]
    /\ pass' = [pass EXCEPT !.at = IF LastPage(pass.page) THEN "deleting" ELSE "paging",
                            !.offset = IF LastPage(pass.page) THEN @ ELSE @ + PageSize,
                            !.page = {}, !.rows = {}]
    /\ UNCHANGED <<now, raw, taken>>

(* Mutant: the batches are cut from the whole table.                       *)
BatchOfAll(rows, cutoff, batch) ==
    /\ batch \subseteq rows
    /\ Cardinality(batch) = Min({BatchSize, Cardinality(rows)})

(* Mutant: rows that do not fill a batch are left for another time.        *)
FullBatch(rows, cutoff, batch) ==
    /\ batch \subseteq Older(rows, cutoff)
    /\ Cardinality(batch) =
          IF Cardinality(Older(rows, cutoff)) < BatchSize THEN 0 ELSE BatchSize

(* batched_delete's query: any BatchSize of the rows there are to delete.  *)
Batch(rows, cutoff, batch) ==
    /\ batch \subseteq Older(rows, cutoff)
    /\ Cardinality(batch) = Min({BatchSize, Cardinality(Older(rows, cutoff))})

(* A batch that is not full was the last.                                  *)
AfterBatch(batch, next) ==
    pass' = IF Cardinality(batch) < BatchSize THEN next ELSE pass

DeleteRolled ==
    /\ pass.at = "deleting"
    /\ \E batch \in SUBSET raw :
          /\ Batch(raw, pass.cutoff, batch)
          /\ raw' = raw \ batch
          /\ AfterBatch(batch, [pass EXCEPT !.at = "safetyNet", !.cutoff = now - RawKeep])
    /\ UNCHANGED <<now, hourly, taken>>

(* _hard_delete_stale_raw                                                  *)
DeleteStaleRaw ==
    /\ pass.at = "safetyNet"
    /\ \E batch \in SUBSET raw :
          /\ Batch(raw, pass.cutoff, batch)
          /\ raw' = raw \ batch
          /\ AfterBatch(batch, [pass EXCEPT !.at = "hourly", !.cutoff = now - HourlyKeep])
    /\ UNCHANGED <<now, hourly, taken>>

(* _hard_delete_stale_hourly compares the start of the hour.               *)
HourStarts == {h * HourLen : h \in {g \in Hour : hourly[g] # {}}}
DeleteStaleHourly ==
    /\ pass.at = "hourly"
    /\ \E batch \in SUBSET HourStarts :
          /\ Batch(HourStarts, pass.cutoff, batch)
          /\ hourly' = [h \in Hour |-> IF h * HourLen \in batch THEN {} ELSE hourly[h]]
          /\ AfterBatch(batch, Idle)
    /\ UNCHANGED <<now, raw, taken>>

(* The pass raises, or its process dies: what it committed stays.          *)
PassFails ==
    /\ Failures
    /\ pass.at # "idle"
    /\ pass' = Idle
    /\ UNCHANGED <<now, raw, hourly, taken>>

-----------------------------------------------------------------------------
Init ==
    /\ now = 0
    /\ raw = {} /\ taken = {}
    /\ hourly = [h \in Hour |-> {}]
    /\ pass = Idle

Work ==
    \/ Begin \/ ReadPage \/ UpsertPage
    \/ DeleteRolled \/ DeleteStaleRaw \/ DeleteStaleHourly

Next == Sample \/ Advance \/ Work \/ PassFails

Spec == Init /\ [][Next]_vars

(* The loop starts a pass every interval and its thread runs it.           *)
FairSpec == Spec /\ WF_vars(Work)
-----------------------------------------------------------------------------
(* What the job promises                                                   *)

(* History never disappears: an hour that was sampled has a raw row or an  *)
(* hourly row, until the hourly rows are due to go, wherever a pass was    *)
(* interrupted.                                                            *)
Due(h) == h * HourLen < now - HourlyKeep
NoHourLost ==
    \A s \in taken : Due(HourOf(s)) \/ hourly[HourOf(s)] # {}
                     \/ \E r \in raw : HourOf(r) = HourOf(s)

(* A raw row goes only when the summary of its hour has counted it, and    *)
(* never before it is old enough.                                          *)
DeletedWasCounted ==
    [][\A s \in raw \ raw' : s \in hourly[HourOf(s)] /\ s < now - RollAfter]_vars

(* A backlog does not build up: once passes get as far as the hourly rows, *)
(* every old raw row goes.                                                 *)
StopsFailing == <>[][PassFails => pass.at = "hourly"]_vars
OldRowsGo ==
    StopsFailing => \A s \in Slot : (s \in raw /\ s < now - RollAfter) ~> s \notin raw

(* "Idempotent upsert - safe to re-run over an overlapping window": a      *)
(* later pass never takes samples out of a summary.                        *)
RerunKeepsSamples ==
    [][\A h \in Hour : hourly'[h] = {} \/ hourly[h] \subseteq hourly'[h]]_vars
=============================================================================
