----------------------------- MODULE Heartbeat -----------------------------
(***************************************************************************)
(* The worker's heartbeat and what can fail below it.  The worker writes   *)
(* engine_heartbeat.last_seen_at only when it can reach the queue in       *)
(* Redis; after an error it waits twice as long, up to five minutes.  The  *)
(* crons on Vercel read how old the row is.                                *)
(*                                                                         *)
(* Time passes in ticks of 30 seconds.  Timers count down and ages count   *)
(* up to the largest value anybody compares them with, so that the state   *)
(* space is finite without a last tick.                                    *)
(***************************************************************************)
EXTENDS Naturals

CONSTANTS
    StaleAfter,  \* HEARTBEAT_STALE_MS, 6 ticks
    MaxDelay,    \* HEARTBEAT_MAX_MS, 10 ticks
    MaxOutages   \* bound on the failures of a behaviour

ASSUME HeartbeatAssumption ==
    /\ StaleAfter \in Nat \ {0}
    /\ MaxDelay \in Nat \ {0, 1}
    /\ MaxOutages \in Nat

VARIABLES
    redis,    \* the queue in Redis can be used
    worker,   \* the worker process is up
    beat,     \* its heartbeat timer
    seen,     \* age of last_seen_at
    outages   \* failures so far

heartVars == <<redis, worker, beat, seen, outages>>

AtMost(n, limit) == IF n > limit THEN limit ELSE n

Beat == [wait : 0..MaxDelay, delay : 1..MaxDelay, hung : BOOLEAN]

HeartbeatTypeOK ==
    /\ redis \in BOOLEAN
    /\ worker \in BOOLEAN
    /\ beat \in Beat
    /\ seen \in 0..(StaleAfter + 1)
    /\ outages \in 0..MaxOutages

After(delay) == [wait |-> delay, delay |-> delay, hung |-> FALSE]

HeartbeatInit ==
    /\ redis = TRUE
    /\ worker = TRUE
    /\ beat = After(1)
    /\ seen = 0
    /\ outages = 0

Outage == outages < MaxOutages /\ outages' = outages + 1

(* isHeartbeatStaleAt. *)
Stale == seen > StaleAfter

\* [slip] the delay doubles without a limit of five minutes (here: up to 32
\* times the base).
BackoffUncapped(delay) == AtMost(2 * delay, 32)

Backoff(delay) == AtMost(2 * delay, MaxDelay)

(* The probe of the queue and the write of the row.  While Redis is away    *)
(* the probe fails, or hangs in ioredis' offline queue until Redis is back. *)
HeartBeats ==
    /\ worker
    /\ beat.wait = 0
    /\ \/ redis /\ beat' = After(1) /\ seen' = 0 /\ UNCHANGED outages
       \/ redis /\ Outage /\ beat' = After(Backoff(beat.delay)) /\ UNCHANGED seen
       \/ /\ ~redis /\ ~beat.hung
          /\ beat' \in {After(Backoff(beat.delay)), [beat EXCEPT !.hung = TRUE]}
          /\ UNCHANGED <<seen, outages>>
    /\ UNCHANGED <<redis, worker>>

RedisFails == redis /\ Outage /\ redis' = FALSE /\ UNCHANGED <<worker, beat, seen>>

RedisRecovers == ~redis /\ redis' = TRUE /\ UNCHANGED <<worker, beat, seen, outages>>

WorkerDies == worker /\ Outage /\ worker' = FALSE /\ UNCHANGED <<redis, beat, seen>>

(* The boot heartbeat waits a few seconds for Redis before it counts as an  *)
(* error.                                                                   *)
WorkerStarts ==
    /\ ~worker
    /\ worker' = TRUE
    /\ IF redis THEN beat' = After(1) /\ seen' = 0
                ELSE beat' = After(Backoff(1)) /\ UNCHANGED seen
    /\ UNCHANGED <<redis, outages>>

(* A timer that is due fires before time goes on. *)
BeatIsDue == worker /\ beat.wait = 0 /\ (redis \/ ~beat.hung)

HeartTick ==
    /\ ~BeatIsDue
    /\ seen' = AtMost(seen + 1, StaleAfter + 1)
    /\ beat' = IF worker /\ beat.wait > 0 THEN [beat EXCEPT !.wait = @ - 1] ELSE beat
    /\ UNCHANGED <<redis, worker, outages>>
=============================================================================
