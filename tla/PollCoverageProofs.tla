------------------------- MODULE PollCoverageProofs -------------------------
(***************************************************************************)
(* Proofs about PollCoverage, for every length of the periods and limits,  *)
(* any number of poll slots and any number of failures.                    *)
(***************************************************************************)
EXTENDS PollCoverage, Integers, FiniteSetTheorems, TLAPS

USE HeartbeatAssumption, CoverageAssumption

Cycle == FallbackPeriod * CronPeriod

LEMMA CycleType == Cycle \in Nat \ {0}
BY DEF Cycle

-----------------------------------------------------------------------------
(* Type correctness. *)

LoopState == [wait : 0..1, hung : BOOLEAN]

LEMMA LoopTyped ==
    /\ [wait |-> 0, hung |-> FALSE] \in LoopState
    /\ [wait |-> 0, hung |-> TRUE] \in LoopState
    /\ [wait |-> 1, hung |-> FALSE] \in LoopState
BY DEF LoopState

LEMMA InitTyped == Init => TypeOK
<1> SUFFICES ASSUME Init PROVE TypeOK
  OBVIOUS
<1>1. HeartbeatTypeOK
  BY DEF Init, HeartbeatInit, HeartbeatTypeOK, Beat, After
<1>2. MaxAge \in Nat
  BY DEF MaxAge
<1>3. ran \in 0..MaxAge /\ healthy \in 0..(MaxDelay + 1) /\ queued \in 0..MaxQueued
      /\ missed \in 0..MaxMissed
  BY <1>2 DEF Init
<1>4. /\ phase \in 0..(FallbackPeriod * CronPeriod - 1)
      /\ due \subseteq Cron
      /\ polls \in [Slot -> 0..PollTicks \cup {Idle}]
      /\ fallback \in {"idle", "running", "detached"}
  BY DEF Init
<1>5. bucket \in BOOLEAN /\ wedged \in BOOLEAN
  BY DEF Init
<1>6. loop \in LoopState
  BY LoopTyped DEF Init
<1> QED BY <1>1, <1>3, <1>4, <1>5, <1>6 DEF TypeOK, LoopState

LEMMA BackoffTyped ==
    ASSUME NEW delay \in 1..MaxDelay
    PROVE  /\ After(delay) \in Beat
           /\ Backoff(delay) \in 1..MaxDelay
BY DEF After, Beat, Backoff, AtMost

LEMMA BeatTyped ==
    ASSUME HeartbeatTypeOK,
           HeartBeats \/ RedisFails \/ RedisRecovers \/ WorkerDies \/ WorkerStarts
    PROVE  HeartbeatTypeOK'
<1> USE DEF HeartbeatTypeOK
<1>1. After(1) \in Beat /\ 1 \in 1..MaxDelay
  BY BackoffTyped
<1>2. beat.delay \in 1..MaxDelay
  BY DEF Beat
<1>3. After(Backoff(beat.delay)) \in Beat
  BY <1>2, BackoffTyped
<1>4. After(Backoff(1)) \in Beat
  BY <1>1, BackoffTyped
<1>5. [beat EXCEPT !.hung = TRUE] \in Beat
  BY DEF Beat
<1>6. CASE HeartBeats
  <2>1. redis' \in BOOLEAN /\ worker' \in BOOLEAN
    BY <1>6 DEF HeartBeats
  <2>2. beat' \in Beat
    BY <1>1, <1>3, <1>5, <1>6 DEF HeartBeats
  <2>3. seen' \in 0..(StaleAfter + 1) /\ outages' \in 0..MaxOutages
    BY <1>6 DEF HeartBeats, Outage
  <2> QED BY <2>1, <2>2, <2>3
<1>7. CASE WorkerStarts
  BY <1>1, <1>4, <1>7 DEF WorkerStarts
<1>8. CASE RedisFails \/ RedisRecovers \/ WorkerDies
  <2>1. redis' \in BOOLEAN /\ worker' \in BOOLEAN /\ beat' = beat /\ seen' = seen
    BY <1>8 DEF RedisFails, RedisRecovers, WorkerDies
  <2>2. outages' \in 0..MaxOutages
    BY <1>8 DEF RedisFails, RedisRecovers, WorkerDies, Outage
  <2> QED BY <2>1, <2>2
<1> QED BY <1>6, <1>7, <1>8

LEMMA HeartTickTyped ==
    ASSUME HeartbeatTypeOK, HeartTick
    PROVE  HeartbeatTypeOK'
BY DEF HeartbeatTypeOK, HeartTick, Beat, AtMost

LEMMA NextTyped ==
    ASSUME TypeOK, [Next]_vars
    PROVE  TypeOK'
<1> USE DEF TypeOK
<1>1. MaxAge \in Nat
  BY DEF MaxAge
<1>2. ASSUME Outage, UNCHANGED <<redis, worker, beat, seen>>
      PROVE  HeartbeatTypeOK'
  BY <1>2 DEF Outage, HeartbeatTypeOK
<1>3. ASSUME UNCHANGED heartVars
      PROVE  HeartbeatTypeOK'
  BY <1>3 DEF heartVars, HeartbeatTypeOK
<1>4. ASSUME PollIsRecorded \/ PollLeavesNoRow, UNCHANGED <<redis, worker, beat, seen>>
      PROVE  /\ HeartbeatTypeOK'
             /\ ran' \in 0..MaxAge /\ missed' \in 0..MaxMissed
             /\ healthy' \in 0..(MaxDelay + 1)
  <2>1. CASE PollIsRecorded
    BY <1>1, <1>4, <2>1 DEF PollIsRecorded, HeartbeatTypeOK
  <2>2. CASE PollLeavesNoRow
    BY <1>2, <1>4, <2>2 DEF PollLeavesNoRow, Disturbed
  <2> QED BY <1>4, <2>1, <2>2
<1>5. ASSUME AddPollJob
       PROVE  bucket' \in BOOLEAN /\ queued' \in 0..MaxQueued
  <2>1. queued' \in 0..MaxQueued
    BY <1>5 DEF AddPollJob, AtMost
  <2> QED BY <1>5, <2>1 DEF AddPollJob
<1>6. CASE Tick
  <2>1. HeartbeatTypeOK'
    BY <1>6, HeartTickTyped DEF Tick
  <2>2. phase' \in 0..(FallbackPeriod * CronPeriod - 1)
    <3>1. phase' = (phase + 1) % Cycle /\ phase \in Nat
      BY <1>6 DEF Tick, Cycle
    <3>2. phase' \in 0..(Cycle - 1)
      BY <3>1, CycleType
    <3> QED BY <3>2 DEF Cycle
  <2>3. due' \subseteq Cron
    BY <1>6 DEF Tick
  <2>4. loop' \in [wait : 0..1, hung : BOOLEAN]
    BY <1>6 DEF Tick
  <2>5. polls' \in [Slot -> 0..PollTicks \cup {Idle}]
    <3>1. ASSUME NEW s \in Slot, polls[s] # Idle
          PROVE  polls[s] + 1 \in 0..PollTicks
      <4>1. polls[s] \in 0..PollTicks /\ polls[s] # PollTicks
        BY <1>6, <3>1 DEF Tick, PollIsDue
      <4> QED BY <4>1
    <3>2. polls' = [s \in Slot |-> IF polls[s] = Idle THEN Idle ELSE polls[s] + 1]
      BY <1>6 DEF Tick
    <3> QED BY <3>1, <3>2
  <2>6. ran' \in 0..MaxAge
    BY <1>1, <1>6 DEF Tick, AtMost
  <2>7. healthy' \in 0..(MaxDelay + 1)
    BY <1>6 DEF Tick, AtMost
  <2> QED BY <1>6, <2>1, <2>2, <2>3, <2>4, <2>5, <2>6, <2>7 DEF Tick
<1>7. CASE HeartStep
  <2>1. healthy' \in 0..(MaxDelay + 1)
    BY <1>7 DEF HeartStep
  <2> QED BY <1>7, <2>1, BeatTyped DEF HeartStep
<1>8. CASE RedisStep
  BY <1>8, BeatTyped DEF RedisStep, Disturbed
<1>9. CASE WorkerStops
  <2>1. queued' \in 0..MaxQueued
    <3> DEFINE n == Cardinality({s \in Slot : polls[s] # Idle})
    <3>1. n \in Nat
      BY FS_Subset, FS_CardinalityType
    <3>2. queued' = IF queued + n > MaxQueued THEN MaxQueued ELSE queued + n
      BY <1>9 DEF WorkerStops, AtMost
    <3> HIDE DEF n
    <3> QED BY <3>1, <3>2
  <2> QED BY <1>9, <2>1, BeatTyped DEF WorkerStops, Disturbed
<1>10. CASE WorkerBoots
  <2>1. HeartbeatTypeOK'
    BY <1>10, BeatTyped DEF WorkerBoots
  <2>2. wedged' \in BOOLEAN
    BY <1>10 DEF WorkerBoots
  <2>3. loop' \in LoopState
    BY <1>10, LoopTyped DEF WorkerBoots
  <2>4. healthy' \in 0..(MaxDelay + 1)
    BY <1>10 DEF WorkerBoots, Disturbed
  <2> QED BY <1>10, <2>1, <2>2, <2>4, <2>3 DEF WorkerBoots, LoopState
<1>11. CASE PollWorkerWedges
  BY <1>2, <1>11 DEF PollWorkerWedges, Disturbed
<1>12. CASE SchedulerTick
  <2>1. loop' \in LoopState
    BY <1>12, LoopTyped DEF SchedulerTick
  <2>2. AtMost(queued + 1, MaxQueued) \in 0..MaxQueued
    BY DEF AtMost
  <2>3. bucket' \in BOOLEAN /\ queued' \in 0..MaxQueued
    BY <1>12, <1>5, <2>2 DEF SchedulerTick
  <2>4. UNCHANGED <<heartVars, phase, due, polls, wedged, fallback, ran, missed, healthy>>
    BY <1>12 DEF SchedulerTick
  <2> QED BY <1>3, <2>1, <2>3, <2>4 DEF LoopState
<1>13. CASE DailyPollCron
  <2>1. bucket' \in BOOLEAN /\ queued' \in 0..MaxQueued
    BY <1>13, <1>5 DEF DailyPollCron
  <2>2. due' \subseteq Cron
    BY <1>13 DEF DailyPollCron
  <2>3. UNCHANGED <<heartVars, phase, loop, polls, wedged, fallback, ran, missed, healthy>>
    BY <1>13 DEF DailyPollCron
  <2> QED BY <1>3, <2>1, <2>2, <2>3
<1>14. CASE PollFallbackCron
  BY <1>3, <1>14 DEF PollFallbackCron
<1>15. CASE EndFallbackPoll
  BY <1>4, <1>15 DEF EndFallbackPoll
<1>16. CASE EndDetachedPoll
  <2>1. CASE PollIsRecorded
    BY <1>4, <1>16, <2>1 DEF EndDetachedPoll
  <2>2. CASE UNCHANGED <<ran, missed, outages, healthy>>
    BY <1>3, <1>16, <2>2 DEF EndDetachedPoll, heartVars
  <2> QED BY <1>16, <2>1, <2>2 DEF EndDetachedPoll
<1>17. ASSUME NEW s \in Slot, StartPoll(s) PROVE TypeOK'
  BY <1>3, <1>17 DEF StartPoll, PollWorkerTakes
<1>18. ASSUME NEW s \in Slot, EndPoll(s) PROVE TypeOK'
  BY <1>4, <1>18 DEF EndPoll
<1>19. CASE UNCHANGED vars
  BY <1>3, <1>19 DEF vars, pollVars
<1> QED
  BY <1>6, <1>7, <1>8, <1>9, <1>10, <1>11, <1>12, <1>13, <1>14, <1>15, <1>16, <1>17,
     <1>18, <1>19 DEF Next

(* Timers, ages, jobs and slots stay within their limits, whatever fails.  *)
THEOREM CoverageTypeCorrect == Spec => []TypeOK
BY InitTyped, NextTyped, PTL DEF Spec

-----------------------------------------------------------------------------
(* The poll-fallback cron bounds the age of the newest poll. *)

(* Euclidean division, and the remainder of a successor. *)
LEMMA Division ==
    ASSUME NEW n \in Int, NEW k \in Nat \ {0}
    PROVE  /\ n \div k \in Int
           /\ n % k \in 0..(k - 1)
           /\ n = k * (n \div k) + (n % k)
<1> DEFINE p == k * (n \div k)
           r == n % k
<1>1. p \in Int /\ r \in Int
  OBVIOUS
<1>2. n - p = r
  OBVIOUS
<1>3. n = p + r
  <2> HIDE DEF p, r
  <2> QED BY <1>1, <1>2
<1>4. n \div k \in Int /\ n % k \in 0..(k - 1)
  OBVIOUS
<1>5. n = k * (n \div k) + (n % k)
  BY <1>3
<1> QED BY <1>4, <1>5

LEMMA Remainder ==
    ASSUME NEW n \in Int, NEW k \in Nat \ {0}, NEW q \in Int, NEW r \in 0..(k - 1),
           n = k * q + r
    PROVE  n % k = r
OBVIOUS

LEMMA NextRemainder ==
    ASSUME NEW n \in Nat, NEW k \in Nat \ {0}
    PROVE  (n + 1) % k = IF (n % k) + 1 = k THEN 0 ELSE (n % k) + 1
<1> DEFINE q == n \div k
           r == n % k
<1>1. q \in Int /\ r \in 0..(k - 1)
  OBVIOUS
<1>2. n = k * q + r
  BY Division
<1> HIDE DEF q, r
<1> DEFINE q1 == IF r + 1 = k THEN q + 1 ELSE q
           r1 == IF r + 1 = k THEN 0 ELSE r + 1
           n1 == n + 1
<1>3. q1 \in Int /\ r1 \in 0..(k - 1) /\ n1 \in Int
  BY <1>1
<1>4. n1 = k * q1 + r1
  BY <1>1, <1>2
<1>5. n1 % k = r1
  <2> HIDE DEF n1, q1, r1
  <2> QED BY <1>3, <1>4, Remainder
<1> QED BY <1>5 DEF r

(* The fallback cron has fired, or its poll runs, and is not done yet. *)
Owed == "fallback" \in due \/ fallback = "running"

(* Ticks since the cron last fired, one period when its poll is still owed. *)
SinceCron == IF Owed THEN FallbackPeriod ELSE phase % FallbackPeriod

(* Each cron that found the newest poll too old ran one: the age has either *)
(* started again since, or one more poll has failed.                        *)
CoverInv == ran <= CoverageAge + FallbackPeriod * missed + SinceCron

LEMMA SinceCronTyped ==
    ASSUME TypeOK
    PROVE  SinceCron \in 0..FallbackPeriod
<1>1. phase \in Int
  BY DEF TypeOK
<1>2. phase % FallbackPeriod \in 0..(FallbackPeriod - 1)
  BY <1>1
<1> QED BY <1>2 DEF SinceCron

LEMMA OneMorePeriod ==
    ASSUME NEW n \in Nat
    PROVE  /\ FallbackPeriod * n \in Nat
           /\ FallbackPeriod * (n + 1) = FallbackPeriod * n + FallbackPeriod
OBVIOUS

LEMMA CoverInit == Init => CoverInv
<1> SUFFICES ASSUME Init PROVE CoverInv
  OBVIOUS
<1>1. SinceCron \in 0..FallbackPeriod
  BY InitTyped, SinceCronTyped
<1>2. ran = 0 /\ missed = 0
  BY DEF Init
<1> QED BY <1>1, <1>2 DEF CoverInv

LEMMA CoverTick ==
    ASSUME TypeOK, CoverInv, Tick
    PROVE  CoverInv'
<1> DEFINE base == CoverageAge + FallbackPeriod * missed
<1>1. base \in Nat /\ ran \in Nat /\ missed' = missed
  BY OneMorePeriod DEF Tick, TypeOK
<1>2. ran' <= ran + 1 /\ ran' \in Nat
  <2>1. MaxAge \in Nat
    BY DEF MaxAge
  <2> QED BY <2>1 DEF Tick, AtMost, TypeOK
<1>3. ~Owed /\ ran <= base + (phase % FallbackPeriod)
  BY DEF Tick, Owed, CoverInv, SinceCron
<1>4. phase \in 0..(Cycle - 1) /\ phase' = (phase + 1) % Cycle
  BY DEF Tick, TypeOK, Cycle
<1>5. phase % FallbackPeriod \in 0..(FallbackPeriod - 1)
  BY <1>4
<1>6. CASE phase' % FallbackPeriod = 0
  <2>1. "fallback" \in due'
    BY <1>6 DEF Tick, Cron
  <2>2. SinceCron' = FallbackPeriod
    BY <2>1 DEF SinceCron, Owed
  <2>3. ran' <= base + FallbackPeriod
    <3> HIDE DEF base
    <3> QED BY <1>1, <1>2, <1>3, <1>5
  <2> QED BY <1>1, <2>2, <2>3 DEF CoverInv
<1>7. CASE phase' % FallbackPeriod # 0
  <2>1. phase' = phase + 1
    <3>1. phase + 1 # Cycle
      <4>1. Cycle % Cycle = 0 /\ 0 % FallbackPeriod = 0
        BY CycleType
      <4> QED BY <1>4, <1>7, <4>1
    <3>2. phase + 1 \in 0..(Cycle - 1)
      BY <1>4, <3>1, CycleType
    <3>3. (phase + 1) % Cycle = phase + 1
      BY <3>2, CycleType
    <3> QED BY <1>4, <3>3
  <2>2. phase' % FallbackPeriod = (phase % FallbackPeriod) + 1
    BY <1>4, <1>7, <2>1, NextRemainder
  <2>3. SinceCron' = (phase % FallbackPeriod) + 1
    <3>1. fallback' # "running" /\ "fallback" \notin due'
      BY <1>7 DEF Tick, Cron
    <3> QED BY <2>2, <3>1 DEF SinceCron, Owed
  <2>4. ran' <= base + ((phase % FallbackPeriod) + 1)
    <3> DEFINE r == phase % FallbackPeriod
    <3> HIDE DEF base, r
    <3> QED BY <1>1, <1>2, <1>3, <1>5 DEF r
  <2> QED BY <1>1, <2>3, <2>4 DEF CoverInv
<1> QED BY <1>6, <1>7

(* What was added to a bound since may move from one term to another. *)
LEMMA BoundMoves ==
    ASSUME NEW age \in Nat, NEW one \in Nat, NEW two \in Nat,
           NEW since \in Nat, NEW later \in Nat,
           age <= CoverageAge + one + since, one + since <= two + later
    PROVE  age <= CoverageAge + two + later
OBVIOUS

(* A poll that ends writes its row, or costs one more period. *)
LEMMA CoverPoll ==
    ASSUME TypeOK, TypeOK', CoverInv, PollIsRecorded \/ PollLeavesNoRow
    PROVE  CoverInv'
<1>1. SinceCron \in 0..FallbackPeriod /\ SinceCron' \in 0..FallbackPeriod
  <2>1. SinceCron \in 0..FallbackPeriod
    BY SinceCronTyped
  <2>2. SinceCron' \in 0..FallbackPeriod
    <3>1. phase' \in Int
      BY DEF TypeOK
    <3>2. phase' % FallbackPeriod \in 0..(FallbackPeriod - 1)
      BY <3>1, Division
    <3> QED BY <3>2 DEF SinceCron
  <2> QED BY <2>1, <2>2
<1>2. CASE PollIsRecorded
  <2> DEFINE later == SinceCron'
             two == FallbackPeriod * missed'
  <2>1. ran' = 0 /\ later \in Nat /\ two \in Nat
    BY <1>1, <1>2, OneMorePeriod DEF PollIsRecorded
  <2> HIDE DEF later, two
  <2>2. ran' <= CoverageAge + two + later
    BY <2>1
  <2> QED BY <2>2 DEF CoverInv, later, two
<1>3. CASE PollLeavesNoRow
  <2>1. ran' = ran /\ missed' = missed + 1 /\ ran \in Nat /\ missed \in Nat
    BY <1>3 DEF PollLeavesNoRow, TypeOK
  <2>2. /\ FallbackPeriod * missed \in Nat
        /\ FallbackPeriod * missed' = FallbackPeriod * missed + FallbackPeriod
    BY <2>1, OneMorePeriod
  <2> DEFINE one == FallbackPeriod * missed
             two == FallbackPeriod * missed'
  <2>3. ran <= CoverageAge + one + SinceCron
    BY DEF CoverInv
  <2>4. one \in Nat /\ two \in Nat /\ two = one + FallbackPeriod
    BY <2>2
  <2> DEFINE later == SinceCron'
  <2>5. later \in 0..FallbackPeriod
    BY <1>1
  <2> HIDE DEF one, two, later
  <2>6. one + SinceCron <= two + later
    BY <1>1, <2>4, <2>5
  <2>7. ran' <= CoverageAge + two + later
    BY <1>1, <2>1, <2>3, <2>4, <2>5, <2>6, BoundMoves
  <2> QED BY <2>7 DEF CoverInv, two, later
<1> QED BY <1>2, <1>3

LEMMA CoverKept ==
    ASSUME TypeOK, TypeOK', CoverInv, [Next]_vars
    PROVE  CoverInv'
<1>1. ASSUME UNCHANGED <<ran, missed, phase>>, Owed => Owed'
      PROVE  CoverInv'
  <2>1. SinceCron \in 0..FallbackPeriod
    BY SinceCronTyped
  <2>2. SinceCron' \in Nat /\ SinceCron <= SinceCron'
    <3>1. CASE Owed'
      BY <2>1, <3>1 DEF SinceCron
    <3>2. CASE ~Owed'
      BY <1>1, <2>1, <3>2 DEF SinceCron
    <3> QED BY <3>1, <3>2
  <2>3. ran \in Nat /\ FallbackPeriod * missed \in Nat
    BY DEF TypeOK
  <2> DEFINE one == FallbackPeriod * missed
             later == SinceCron'
  <2>4. one \in Nat /\ ran <= CoverageAge + one + SinceCron
    BY <2>3 DEF CoverInv
  <2>5. later \in Nat /\ SinceCron <= later
    BY <2>2
  <2> HIDE DEF one, later
  <2>6. ran <= CoverageAge + one + later
    BY <2>1, <2>3, <2>4, <2>5
  <2> QED BY <1>1, <2>6 DEF CoverInv, one, later
<1>2. CASE Tick
  BY <1>2, CoverTick
<1>3. CASE \/ HeartStep \/ RedisStep \/ WorkerStops \/ WorkerBoots \/ PollWorkerWedges
          \/ SchedulerTick \/ \E s \in Slot : StartPoll(s)
  BY <1>1, <1>3 DEF HeartStep, RedisStep, WorkerStops, WorkerBoots, PollWorkerWedges,
     SchedulerTick, StartPoll, Owed
<1>4. CASE DailyPollCron
  BY <1>1, <1>4 DEF DailyPollCron, Owed
<1>5. CASE PollFallbackCron
  <2>1. CASE LacksCoverage
    <3>1. fallback' = "running"
      BY <1>5, <2>1 DEF PollFallbackCron, ShouldPollAgentInFailover, LacksCoverage
    <3> QED BY <1>1, <1>5, <3>1 DEF PollFallbackCron, Owed
  <2>2. CASE ~LacksCoverage
    <3>1. ran' = ran /\ missed' = missed /\ ran \in Nat
      BY <1>5 DEF PollFallbackCron, TypeOK
    <3>2. FallbackPeriod * missed' \in Nat
      BY <3>1, OneMorePeriod DEF TypeOK
    <3>3. SinceCron' \in Nat
      <4>1. phase' \in Int
        BY DEF TypeOK
      <4>2. phase' % FallbackPeriod \in 0..(FallbackPeriod - 1)
        BY <4>1, Division
      <4> QED BY <4>2 DEF SinceCron
    <3> DEFINE one == FallbackPeriod * missed'
               later == SinceCron'
    <3>4. ran <= CoverageAge
      BY <2>2, <3>1 DEF LacksCoverage
    <3> HIDE DEF one, later
    <3>5. one \in Nat /\ later \in Nat
      BY <3>2, <3>3 DEF one, later
    <3>6. ran' <= CoverageAge + one + later
      BY <3>1, <3>4, <3>5
    <3> QED BY <3>6 DEF CoverInv, one, later
  <2> QED BY <2>1, <2>2
<1>6. CASE EndFallbackPoll
  BY <1>6, CoverPoll DEF EndFallbackPoll
<1>7. CASE EndDetachedPoll
  <2>1. CASE PollIsRecorded
    BY <2>1, CoverPoll
  <2>2. CASE UNCHANGED <<ran, missed, outages, healthy>>
    BY <1>1, <1>7, <2>2 DEF EndDetachedPoll, Owed
  <2> QED BY <1>7, <2>1, <2>2 DEF EndDetachedPoll
<1>8. ASSUME NEW s \in Slot, EndPoll(s)
      PROVE  CoverInv'
  BY <1>8, CoverPoll DEF EndPoll
<1>9. CASE UNCHANGED vars
  BY <1>1, <1>9 DEF vars, pollVars, Owed
<1> QED
  BY <1>2, <1>3, <1>4, <1>5, <1>6, <1>7, <1>8, <1>9 DEF Next

(* Whatever happens to worker, poll slots and Redis, an agent in its window *)
(* is polled within the coverage age and one period of the fallback cron,   *)
(* and each poll that fails costs one more period.                          *)
THEOREM AgentStaysPolled == Spec => []AgentIsPolled
<1>1. ASSUME TypeOK, CoverInv
      PROVE  AgentIsPolled
  <2>1. SinceCron \in 0..FallbackPeriod
    BY <1>1, SinceCronTyped
  <2>2. missed \in Nat /\ ran \in Nat
    BY <1>1 DEF TypeOK
  <2>3. /\ FallbackPeriod * missed \in Nat
        /\ FallbackPeriod * (1 + missed) = FallbackPeriod * missed + FallbackPeriod
    BY <2>2
  <2> DEFINE one == FallbackPeriod * missed
             two == FallbackPeriod * (1 + missed)
  <2>4. ran <= CoverageAge + two
    <3>1. one \in Nat /\ two = one + FallbackPeriod /\ ran <= CoverageAge + one + SinceCron
      BY <1>1, <2>3 DEF CoverInv
    <3> HIDE DEF one, two
    <3> QED BY <2>1, <2>2, <3>1
  <2> QED BY <2>4 DEF AgentIsPolled, CoverageBound
<1>2. TypeOK /\ TypeOK' /\ CoverInv /\ [Next]_vars => CoverInv'
  BY CoverKept
<1> QED BY <1>1, <1>2, CoverInit, CoverageTypeCorrect, PTL DEF Spec

-----------------------------------------------------------------------------
(* The failover stays away from a healthy engine. *)

(* The last heartbeat went well. *)
Fresh == beat.wait <= 1 /\ seen + beat.wait <= 1

(* Without a failure the heartbeat succeeds at the latest when the backoff  *)
(* it is waiting out is over, and then once a tick.                         *)
HealthInv ==
    healthy > 0 =>
        /\ redis
        /\ worker
        /\ Fresh \/ beat.wait + healthy <= MaxDelay

LEMMA HealthInit == Init => HealthInv
BY DEF Init, HealthInv

LEMMA HealthTick ==
    ASSUME TypeOK, HealthInv, Tick
    PROVE  HealthInv'
<1>1. /\ beat.wait \in 0..MaxDelay /\ healthy \in 0..(MaxDelay + 1)
      /\ seen \in 0..(StaleAfter + 1)
  BY DEF TypeOK, HeartbeatTypeOK, Beat
<1>2. CASE redis /\ worker /\ ~wedged
  <2>1. beat.wait > 0
    BY <1>1, <1>2 DEF Tick, HeartTick, BeatIsDue
  <2>2. /\ beat' = [beat EXCEPT !.wait = @ - 1]
        /\ beat \in Beat
    BY <1>2, <2>1 DEF Tick, HeartTick, TypeOK, HeartbeatTypeOK
  <2>3. beat'.wait = beat.wait - 1
    BY <2>2 DEF Beat
  <2>4. seen' <= seen + 1 /\ seen' \in Nat
    BY <1>1 DEF Tick, HeartTick, AtMost
  <2>5. healthy' <= healthy + 1 /\ healthy' \in Nat
    BY <1>1, <1>2 DEF Tick, AtMost
  <2>6. redis' /\ worker'
    BY <1>2 DEF Tick, HeartTick
  <2>7. Fresh => Fresh'
    BY <1>1, <2>1, <2>3, <2>4 DEF Fresh
  <2>8. beat.wait + healthy <= MaxDelay => beat'.wait + healthy' <= MaxDelay
    BY <1>1, <2>3, <2>5
  <2>9. healthy = 0 => beat'.wait + healthy' <= MaxDelay
    BY <1>1, <2>3, <2>5
  <2> QED BY <1>1, <2>6, <2>7, <2>8, <2>9 DEF HealthInv
<1>3. CASE ~(redis /\ worker /\ ~wedged)
  <2>1. healthy' = 0
    BY <1>3 DEF Tick
  <2> QED BY <2>1 DEF HealthInv
<1> QED BY <1>2, <1>3

LEMMA HealthBeat ==
    ASSUME TypeOK, HealthInv, HeartStep
    PROVE  HealthInv'
<1>1. healthy \in 0..(MaxDelay + 1) /\ outages \in Nat
  BY DEF TypeOK, HeartbeatTypeOK
<1>2. CASE redis /\ beat' = After(1) /\ seen' = 0 /\ UNCHANGED outages
  <2>1. redis' /\ worker'
    BY <1>2 DEF HeartStep, HeartBeats
  <2>2. beat'.wait = 1
    BY <1>2 DEF After
  <2>3. Fresh'
    BY <1>2, <2>2 DEF Fresh
  <2> QED BY <2>1, <2>3 DEF HealthInv
<1>3. CASE Outage
  <2>1. healthy' = 0
    BY <1>1, <1>3 DEF HeartStep, Outage
  <2> QED BY <2>1 DEF HealthInv
<1>4. CASE ~redis /\ UNCHANGED outages
  <2>1. healthy' = 0
    BY <1>1, <1>4 DEF HeartStep, HealthInv
  <2> QED BY <2>1 DEF HealthInv
<1> QED BY <1>2, <1>3, <1>4 DEF HeartStep, HeartBeats

LEMMA HealthKept ==
    ASSUME TypeOK, HealthInv, [Next]_vars
    PROVE  HealthInv'
<1>1. ASSUME UNCHANGED <<redis, worker, beat, seen, healthy>>
      PROVE  HealthInv'
  BY <1>1 DEF HealthInv, Fresh
<1>2. ASSUME Disturbed
      PROVE  HealthInv'
  BY <1>2 DEF Disturbed, HealthInv
<1>3. ASSUME PollIsRecorded \/ PollLeavesNoRow, UNCHANGED <<redis, worker, beat, seen>>
      PROVE  HealthInv'
  BY <1>1, <1>2, <1>3 DEF PollIsRecorded, PollLeavesNoRow
<1>4. CASE Tick
  BY <1>4, HealthTick
<1>5. CASE HeartStep
  BY <1>5, HealthBeat
<1>6. CASE RedisStep \/ WorkerStops \/ WorkerBoots \/ PollWorkerWedges
  BY <1>2, <1>6 DEF RedisStep, WorkerStops, WorkerBoots, PollWorkerWedges
<1>7. CASE \/ SchedulerTick \/ DailyPollCron \/ PollFallbackCron
           \/ \E s \in Slot : StartPoll(s)
  BY <1>1, <1>7 DEF SchedulerTick, DailyPollCron, PollFallbackCron, StartPoll, heartVars
<1>8. CASE EndFallbackPoll
  BY <1>3, <1>8 DEF EndFallbackPoll
<1>9. CASE EndDetachedPoll
  BY <1>1, <1>3, <1>9 DEF EndDetachedPoll
<1>10. ASSUME NEW s \in Slot, EndPoll(s)
       PROVE  HealthInv'
  BY <1>3, <1>10 DEF EndPoll
<1>11. CASE UNCHANGED vars
  BY <1>1, <1>11 DEF vars, pollVars, heartVars
<1> QED
  BY <1>4, <1>5, <1>6, <1>7, <1>8, <1>9, <1>10, <1>11 DEF Next

(* After the longest backoff of a worker that works again, the fallback     *)
(* polls beside it only if its polls leave no row.                          *)
THEOREM FailoverStaysAway == Spec => NoFailoverBesideHealthyEngine
<1>1. ASSUME TypeOK, HealthInv, [Next]_vars,
             fallback' = "running", fallback # "running"
      PROVE  healthy <= MaxDelay \/ LacksCoverage
  <2>1. PollFallbackCron
    BY <1>1 DEF Next, Tick, HeartStep, RedisStep, WorkerStops, WorkerBoots,
       PollWorkerWedges, SchedulerTick, DailyPollCron, EndFallbackPoll, EndDetachedPoll,
       StartPoll, EndPoll, vars, pollVars
  <2>2. Stale \/ ~redis \/ LacksCoverage
    BY <1>1, <2>1 DEF PollFallbackCron, ShouldPollAgentInFailover, InfrastructureFailover
  <2>3. ASSUME ~(healthy <= MaxDelay)
        PROVE  redis /\ ~Stale
    <3>1. /\ beat.wait \in Nat /\ healthy \in 0..(MaxDelay + 1)
          /\ seen \in Nat /\ healthy > MaxDelay
      BY <1>1, <2>3 DEF TypeOK, HeartbeatTypeOK, Beat
    <3>2. redis /\ Fresh
      BY <1>1, <3>1 DEF HealthInv
    <3> QED BY <3>1, <3>2 DEF Fresh, Stale
  <2> QED BY <2>2, <2>3
<1>2. TypeOK /\ HealthInv /\ [Next]_vars => HealthInv'
  BY HealthKept
<1>3. Spec => []HealthInv
  BY <1>2, HealthInit, CoverageTypeCorrect, PTL DEF Spec
<1>4. TypeOK /\ HealthInv /\ [Next]_vars
         => [fallback' = "running" /\ fallback # "running"
               => healthy <= MaxDelay \/ LacksCoverage]_vars
  BY <1>1
<1> QED
  BY <1>3, <1>4, CoverageTypeCorrect, PTL DEF Spec, NoFailoverBesideHealthyEngine
=============================================================================
