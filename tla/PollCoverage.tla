---------------------------- MODULE PollCoverage ----------------------------
(***************************************************************************)
(* Who polls an agent while its call window is open: the scheduler loop of *)
(* the worker and the daily-poll cron put one poll job per 30-second bucket*)
(* into Redis, the worker's poll slots run them, and the poll-fallback cron*)
(* polls by itself when the worker looks dead, Redis is unusable or the    *)
(* agent has no recent poll_runs row.                                      *)
(***************************************************************************)
EXTENDS Heartbeat, FiniteSets

CONSTANTS
    Slot,            \* concurrency of the poll worker
    Idle,            \* a slot without a poll
    CoverageAge,     \* POLL_COVERAGE_MAX_AGE_MS, 3 ticks
    FallbackPeriod,  \* the poll-fallback cron, every 4 ticks
    CronPeriod,      \* the daily-poll cron, every 2 ticks
    PollTicks,       \* the longest poll of the worker
    MaxQueued,       \* waiting poll jobs are counted up to here
    MaxMissed        \* polls in a row that leave no poll_runs row

ASSUME CoverageAssumption ==
    /\ IsFiniteSet(Slot)
    /\ Idle \notin Nat
    /\ CoverageAge \in Nat
    /\ FallbackPeriod \in Nat \ {0}
    /\ CronPeriod \in Nat \ {0}
    /\ PollTicks \in Nat
    /\ MaxQueued \in Nat \ {0}
    /\ MaxMissed \in Nat

VARIABLES
    phase,     \* ticks of the cron schedule
    due,       \* the crons that still have to fire in this tick
    loop,      \* the scheduler loop: ticks to its next run, or hung on Redis
    bucket,    \* the poll job of this tick's bucket exists
    queued,    \* waiting poll jobs
    polls,     \* how long each slot has been polling
    wedged,    \* the poll worker no longer takes jobs
    fallback,  \* the failover poll
    ran,       \* age of the newest poll_runs row
    missed,    \* polls since then that left none
    healthy    \* ticks since the last failure

pollVars == <<phase, due, loop, bucket, queued, polls, wedged, fallback, ran,
              missed, healthy>>
vars == <<heartVars, pollVars>>

Cron == {"daily", "fallback"}

(* The agent must be polled this often whatever the worker does. *)
CoverageBound == CoverageAge + FallbackPeriod * (1 + missed)
MaxAge == CoverageAge + FallbackPeriod * (1 + MaxMissed) + 1

TypeOK ==
    /\ HeartbeatTypeOK
    /\ phase \in 0..(FallbackPeriod * CronPeriod - 1)
    /\ due \subseteq Cron
    /\ loop \in [wait : 0..1, hung : BOOLEAN]
    /\ bucket \in BOOLEAN
    /\ queued \in 0..MaxQueued
    /\ polls \in [Slot -> 0..PollTicks \cup {Idle}]
    /\ wedged \in BOOLEAN
    /\ fallback \in {"idle", "running", "detached"}
    /\ ran \in 0..MaxAge
    /\ missed \in 0..MaxMissed
    /\ healthy \in 0..(MaxDelay + 1)

Init ==
    /\ HeartbeatInit
    /\ phase \in 0..(FallbackPeriod * CronPeriod - 1)
    /\ due = {}
    /\ loop = [wait |-> 0, hung |-> FALSE]
    /\ bucket = FALSE
    /\ queued = 0
    /\ polls = [s \in Slot |-> Idle]
    /\ wedged = FALSE
    /\ fallback = "idle"
    /\ ran = 0
    /\ missed = 0
    /\ healthy = 0

Disturbed == healthy' = 0

(***************************************************************************)
(* Poll jobs.                                                              *)
(***************************************************************************)

(* tickScheduler for this agent: the job id names the bucket, and an id     *)
(* that is there already is not added again.                                *)
AddPollJob ==
    /\ bucket' = TRUE
    /\ queued' = IF bucket THEN queued ELSE AtMost(queued + 1, MaxQueued)

(* The worker's own loop.  While Redis is away the run fails, or hangs in   *)
(* the offline queue and adds the job of its old bucket when Redis is back. *)
SchedulerTick ==
    /\ worker
    /\ loop.wait = 0
    /\ \/ redis /\ ~loop.hung /\ AddPollJob /\ loop' = [wait |-> 1, hung |-> FALSE]
       \/ /\ redis /\ loop.hung
          /\ queued' = AtMost(queued + 1, MaxQueued)
          /\ loop' = [wait |-> 1, hung |-> FALSE]
          /\ UNCHANGED bucket
       \/ /\ ~redis /\ ~loop.hung
          /\ loop' \in {[wait |-> 1, hung |-> FALSE], [wait |-> 0, hung |-> TRUE]}
          /\ UNCHANGED <<bucket, queued>>
    /\ UNCHANGED <<heartVars, phase, due, polls, wedged, fallback, ran, missed, healthy>>

(* GET /api/cron/daily-poll: the same function, where Redis errors throw. *)
DailyPollCron ==
    /\ "daily" \in due
    /\ due' = due \ {"daily"}
    /\ IF redis THEN AddPollJob ELSE UNCHANGED <<bucket, queued>>
    /\ UNCHANGED <<heartVars, phase, loop, polls, wedged, fallback, ran, missed, healthy>>

PollWorkerTakes == worker /\ redis /\ ~wedged /\ queued > 0

StartPoll(s) ==
    /\ PollWorkerTakes
    /\ polls[s] = Idle
    /\ polls' = [polls EXCEPT ![s] = 0]
    /\ queued' = queued - 1
    /\ UNCHANGED <<heartVars, phase, due, loop, bucket, wedged, fallback, ran, missed,
                   healthy>>

(* finishPoll writes the poll_runs row as the last thing pollAgent does. *)
PollIsRecorded == ran' = 0 /\ missed' = 0 /\ UNCHANGED <<outages, healthy>>

(* The CRM scan throws, or the insert fails. *)
PollLeavesNoRow ==
    /\ Outage
    /\ missed < MaxMissed
    /\ missed' = missed + 1
    /\ Disturbed
    /\ UNCHANGED ran

EndPoll(s) ==
    /\ polls[s] # Idle
    /\ polls' = [polls EXCEPT ![s] = Idle]
    /\ PollIsRecorded \/ PollLeavesNoRow
    /\ UNCHANGED <<redis, worker, beat, seen, phase, due, loop, bucket, queued, wedged,
                   fallback>>

(***************************************************************************)
(* GET /api/cron/poll-fallback.                                            *)
(***************************************************************************)
LacksCoverage == ran > CoverageAge
InfrastructureFailover == Stale \/ ~redis

\* [slip] the fallback polls only when the infrastructure looks broken.
ShouldPollOnFailover == InfrastructureFailover

ShouldPollAgentInFailover == InfrastructureFailover \/ LacksCoverage

PollFallbackCron ==
    /\ "fallback" \in due
    /\ due' = due \ {"fallback"}
    /\ fallback' = IF ShouldPollAgentInFailover THEN "running" ELSE fallback
    /\ UNCHANGED <<heartVars, phase, loop, bucket, queued, polls, wedged, ran, missed,
                   healthy>>

(* pollAgent within its 25 seconds.  A slower one goes on after the route   *)
(* has given up on it, and writes its row if the function is not frozen.    *)
EndFallbackPoll ==
    /\ fallback = "running"
    /\ \/ fallback' = "idle" /\ (PollIsRecorded \/ PollLeavesNoRow)
       \/ fallback' = "detached" /\ PollLeavesNoRow
    /\ UNCHANGED <<redis, worker, beat, seen, phase, due, loop, bucket, queued, polls,
                   wedged>>

EndDetachedPoll ==
    /\ fallback = "detached"
    /\ fallback' = "idle"
    /\ PollIsRecorded \/ UNCHANGED <<ran, missed, outages, healthy>>
    /\ UNCHANGED <<redis, worker, beat, seen, phase, due, loop, bucket, queued, polls,
                   wedged>>

(***************************************************************************)
(* Failures and time.                                                      *)
(***************************************************************************)
HeartStep ==
    /\ HeartBeats
    /\ healthy' = IF outages' > outages THEN 0 ELSE healthy
    /\ UNCHANGED <<phase, due, loop, bucket, queued, polls, wedged, fallback, ran, missed>>

RedisStep ==
    /\ RedisFails \/ RedisRecovers
    /\ Disturbed
    /\ UNCHANGED <<phase, due, loop, bucket, queued, polls, wedged, fallback, ran, missed>>

(* The jobs a dead worker was running stall and are delivered again. *)
WorkerStops ==
    /\ WorkerDies
    /\ Disturbed
    /\ queued' = AtMost(queued + Cardinality({s \in Slot : polls[s] # Idle}), MaxQueued)
    /\ polls' = [s \in Slot |-> Idle]
    /\ UNCHANGED <<phase, due, loop, bucket, wedged, fallback, ran, missed>>

WorkerBoots ==
    /\ WorkerStarts
    /\ Disturbed
    /\ loop' = [wait |-> 0, hung |-> FALSE]
    /\ wedged' = FALSE
    /\ UNCHANGED <<phase, due, bucket, queued, polls, fallback, ran, missed>>

(* A zombie: the heartbeat goes on, polls do not. *)
PollWorkerWedges ==
    /\ worker
    /\ ~wedged
    /\ Outage
    /\ Disturbed
    /\ wedged' = TRUE
    /\ UNCHANGED <<redis, worker, beat, seen, phase, due, loop, bucket, queued, polls,
                   fallback, ran, missed>>

SchedulerIsDue == worker /\ loop.wait = 0 /\ (redis \/ ~loop.hung)
SlotIsDue == PollWorkerTakes /\ \E s \in Slot : polls[s] = Idle
PollIsDue == \E s \in Slot : polls[s] = PollTicks

Tick ==
    /\ HeartTick
    /\ ~SchedulerIsDue /\ ~SlotIsDue /\ ~PollIsDue
    /\ due = {} /\ fallback # "running"
    /\ phase' = (phase + 1) % (FallbackPeriod * CronPeriod)
    /\ due' = {c \in Cron : phase' % (IF c = "daily" THEN CronPeriod
                                                     ELSE FallbackPeriod) = 0}
    /\ loop' = IF worker /\ loop.wait > 0 THEN [loop EXCEPT !.wait = @ - 1] ELSE loop
    /\ bucket' = FALSE
    /\ polls' = [s \in Slot |-> IF polls[s] = Idle THEN Idle ELSE polls[s] + 1]
    /\ ran' = AtMost(ran + 1, MaxAge)
    /\ healthy' = IF redis /\ worker /\ ~wedged THEN AtMost(healthy + 1, MaxDelay + 1)
                                               ELSE 0
    /\ UNCHANGED <<queued, wedged, fallback, missed>>

Next ==
    \/ Tick
    \/ HeartStep \/ RedisStep \/ WorkerStops \/ WorkerBoots \/ PollWorkerWedges
    \/ SchedulerTick \/ DailyPollCron \/ PollFallbackCron
    \/ EndFallbackPoll \/ EndDetachedPoll
    \/ \E s \in Slot : StartPoll(s) \/ EndPoll(s)

Spec == Init /\ [][Next]_vars

(***************************************************************************)
(* Properties.                                                             *)
(***************************************************************************)

(* Whatever happens to the worker, its poll slots and Redis, an agent in    *)
(* its window is polled within the coverage age and one period of the       *)
(* fallback cron; each poll that fails costs one more period.               *)
AgentIsPolled == ran <= CoverageBound

(* The fallback polls beside a worker that works only while the worker's    *)
(* heartbeat may still be waiting out its longest backoff, or when polls    *)
(* leave no row.                                                            *)
NoFailoverBesideHealthyEngine ==
    [][fallback' = "running" /\ fallback # "running"
         => healthy <= MaxDelay \/ LacksCoverage]_vars
=============================================================================
