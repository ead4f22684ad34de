---------------------------- MODULE DialDelivery ----------------------------
(***************************************************************************)
(* How a pending queue row of one contact gets to a dial: its BullMQ job,  *)
(* the deferral of a job that fires outside the call window, the worker's  *)
(* sweep that rebuilds lost jobs, and the drain cron on Vercel that dials  *)
(* from Postgres when the heartbeat is stale, Redis is unusable or dialing *)
(* has stalled.                                                            *)
(*                                                                         *)
(* BullMQ keeps finished jobs, and a kept job makes an add under its id a  *)
(* no-op.  The row remembers one job id (bullmq_job_id), which a deferral  *)
(* does not change.  What happens inside a dial is the matter of DialQueue.*)
(***************************************************************************)
EXTENDS Heartbeat

CONSTANTS
    DrainPeriod,  \* the drain-queue cron, every 2 ticks
    SweepPeriod,  \* resyncCallQueue in the worker, every 6 ticks
    RecentDial,   \* recentDialMinutes of checkDialStalls, 20 ticks
    MaxClosings   \* how often the call window closes

ASSUME DeliveryAssumption ==
    /\ DrainPeriod \in Nat \ {0}
    /\ SweepPeriod \in Nat \ {0}
    /\ RecentDial \in Nat
    /\ MaxClosings \in Nat

VARIABLES
    open,      \* the call window
    closings,  \* how often it has closed
    pending,   \* the row: waiting for its dial, or not in the queue
    ready,     \* its scheduled_for has passed
    jobs,      \* the jobs by id: the row's own and the deferral
    overdue,   \* how long the row could have been dialed
    dialed,    \* age of the agent's newest dial
    drainIn,   \* ticks to the drain cron
    sweepIn    \* ticks to the worker's sweep

deliveryVars == <<open, closings, pending, ready, jobs, overdue, dialed, drainIn, sweepIn>>
vars == <<heartVars, deliveryVars>>

JobId == {"dial", "defer"}
JobState == {"absent", "delayed", "live", "kept"}

(* The stall check, the sweep and a period of the cron; each failure may    *)
(* cost another sweep and another staleness limit.                          *)
DialBound == RecentDial + 1 + DrainPeriod + SweepPeriod
                + outages * (SweepPeriod + StaleAfter + DrainPeriod)
MaxOverdue == RecentDial + 1 + DrainPeriod + SweepPeriod
                + MaxOutages * (SweepPeriod + StaleAfter + DrainPeriod) + 1

TypeOK ==
    /\ HeartbeatTypeOK
    /\ open \in BOOLEAN
    /\ closings \in 0..MaxClosings
    /\ pending \in BOOLEAN
    /\ ready \in BOOLEAN
    /\ jobs \in [JobId -> JobState]
    /\ overdue \in 0..MaxOverdue
    /\ dialed \in 0..(RecentDial + 1)
    /\ drainIn \in 0..DrainPeriod
    /\ sweepIn \in 0..SweepPeriod

Init ==
    /\ HeartbeatInit
    /\ open = TRUE
    /\ closings = 0
    /\ pending = FALSE
    /\ ready = FALSE
    /\ jobs = [id \in JobId |-> "absent"]
    /\ overdue = 0
    /\ dialed = RecentDial + 1
    /\ drainIn = DrainPeriod
    /\ sweepIn = SweepPeriod

(* Dialable as the due-row queries of drain, sweep and stall check see it. *)
Overdue == pending /\ ready

Dial ==
    /\ pending' = FALSE
    /\ ready' = FALSE
    /\ overdue' = 0
    /\ dialed' = 0

(***************************************************************************)
(* Enqueue, worker and sweep.                                              *)
(***************************************************************************)

(* A poll puts the contact in the queue.  Its job id is of the day and a    *)
(* stale job is removed first; the failover poll adds no job at all.        *)
Enqueue ==
    /\ ~pending
    /\ open
    /\ pending' = TRUE
    /\ ready' = TRUE
    /\ overdue' = 0
    /\ \/ redis /\ jobs' = [jobs EXCEPT !["dial"] = "live"]
       \/ jobs' = [jobs EXCEPT !["dial"] = "absent"]
    /\ UNCHANGED <<heartVars, open, closings, dialed, drainIn, sweepIn>>

WorkerTakes(id) == worker /\ redis /\ jobs[id] = "live"

(* The deferral is added while the job that asks for it is still there, so  *)
(* a deferral cannot be deferred again.                                     *)
DeferDial(id) ==
    /\ WorkerTakes(id)
    /\ ~open
    /\ jobs' = [jobs EXCEPT !["defer"] = IF @ = "absent" THEN "delayed" ELSE @,
                            ![id] = "kept"]
    /\ ready' = FALSE
    /\ UNCHANGED <<heartVars, open, closings, pending, overdue, dialed, drainIn, sweepIn>>

RunJob(id) ==
    /\ WorkerTakes(id)
    /\ open
    /\ jobs' = [jobs EXCEPT ![id] = "kept"]
    /\ IF pending THEN Dial ELSE UNCHANGED <<pending, ready, overdue, dialed>>
    /\ UNCHANGED <<heartVars, open, closings, drainIn, sweepIn>>

Alive(id) == jobs[id] \in {"live", "delayed"}

(* resyncCallQueue looks only for the row's own job id. *)
Sweep ==
    /\ worker
    /\ sweepIn = 0
    /\ sweepIn' = SweepPeriod
    /\ IF redis /\ Overdue /\ ~Alive("dial")
       THEN /\ jobs' = [jobs EXCEPT !["dial"] =
                           IF @ # "absent" THEN @ ELSE IF open THEN "live" ELSE "delayed"]
            /\ ready' = open
       ELSE UNCHANGED <<jobs, ready>>
    /\ UNCHANGED <<heartVars, open, closings, pending, overdue, dialed, drainIn>>

(***************************************************************************)
(* GET /api/cron/drain-queue.                                              *)
(***************************************************************************)

(* checkDialStalls, for this agent. *)
DialStall == open /\ Overdue /\ (Stale \/ dialed > RecentDial)

\* [slip] the drain forgets about stalls.
TriggerWithoutStall == ~redis \/ Stale

FailoverDrainTrigger == ~redis \/ Stale \/ DialStall

DrainCron ==
    /\ drainIn = 0
    /\ drainIn' = DrainPeriod
    /\ IF FailoverDrainTrigger /\ Overdue /\ open
       THEN Dial ELSE UNCHANGED <<pending, ready, overdue, dialed>>
    /\ UNCHANGED <<heartVars, open, closings, jobs, sweepIn>>

(***************************************************************************)
(* The window, Redis, the worker and time.                                 *)
(***************************************************************************)
WindowCloses ==
    /\ open
    /\ closings < MaxClosings
    /\ open' = FALSE
    /\ closings' = closings + 1
    /\ overdue' = 0
    /\ UNCHANGED <<heartVars, pending, ready, jobs, dialed, drainIn, sweepIn>>

WindowOpens ==
    /\ ~open
    /\ open' = TRUE
    /\ ready' = pending
    /\ jobs' = [id \in JobId |-> IF jobs[id] = "delayed" THEN "live" ELSE jobs[id]]
    /\ UNCHANGED <<heartVars, closings, pending, overdue, dialed, drainIn, sweepIn>>

(* The worker dials another contact of the agent.  That hides the stall of  *)
(* a row whose own job is kept, so the time it waits is counted from here.  *)
DialOther ==
    /\ worker /\ redis /\ open
    /\ dialed # 0
    /\ dialed' = 0
    /\ overdue' = IF jobs["dial"] = "kept" THEN 0 ELSE overdue
    /\ UNCHANGED <<heartVars, open, closings, pending, ready, jobs, drainIn, sweepIn>>

(* A Redis restart without persistence, or a job lost in any other way. *)
JobsAreLost ==
    /\ Outage
    /\ jobs' = [id \in JobId |-> "absent"]
    /\ UNCHANGED <<redis, worker, beat, seen, open, closings, pending, ready, overdue,
                   dialed, drainIn, sweepIn>>

(* removeOnComplete and removeOnFail, after thousands of later jobs. *)
Evict(id) ==
    /\ jobs[id] = "kept"
    /\ jobs' = [jobs EXCEPT ![id] = "absent"]
    /\ UNCHANGED <<heartVars, open, closings, pending, ready, overdue, dialed, drainIn,
                   sweepIn>>

(* A worker that boots starts the interval of its sweep anew. *)
EngineStep ==
    /\ HeartBeats \/ RedisFails \/ RedisRecovers \/ WorkerDies \/ WorkerStarts
    /\ sweepIn' = IF worker' # worker THEN SweepPeriod ELSE sweepIn
    /\ UNCHANGED <<open, closings, pending, ready, jobs, overdue, dialed, drainIn>>

SweepIsDue == worker /\ sweepIn = 0

(* A live job is taken before the tick ends: what the worker's rate limit   *)
(* and concurrency delay is less than that for one row.                     *)
Tick ==
    /\ HeartTick
    /\ drainIn # 0 /\ ~SweepIsDue /\ \A id \in JobId : ~WorkerTakes(id)
    /\ drainIn' = drainIn - 1
    /\ sweepIn' = IF worker THEN sweepIn - 1 ELSE sweepIn
    /\ dialed' = AtMost(dialed + 1, RecentDial + 1)
    /\ overdue' = IF Overdue /\ open THEN AtMost(overdue + 1, MaxOverdue) ELSE 0
    /\ UNCHANGED <<open, closings, pending, ready, jobs>>

Next ==
    \/ Tick
    \/ EngineStep \/ WindowCloses \/ WindowOpens \/ JobsAreLost
    \/ Enqueue \/ Sweep \/ DrainCron \/ DialOther
    \/ \E id \in JobId : DeferDial(id) \/ RunJob(id) \/ Evict(id)

Spec == Init /\ [][Next]_vars

(***************************************************************************)
(* Properties.                                                             *)
(***************************************************************************)

(* Whatever is lost or dead, a row that could be dialed is dialed within    *)
(* the stall check's ten minutes, a sweep and a period of the drain cron;   *)
(* each failure may add a sweep and a staleness limit.  Other contacts'     *)
(* dials delay it further only if Redis keeps a finished job of the row.    *)
DueRowIsDialed == overdue <= DialBound
=============================================================================
