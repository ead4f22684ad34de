------------------------- MODULE DialDeliveryProofs -------------------------
(***************************************************************************)
(* Proofs about DialDelivery, for every length of the periods and limits,  *)
(* any number of failures and any number of closings of the window.        *)
(***************************************************************************)
EXTENDS DialDelivery, TLAPS

USE HeartbeatAssumption, DeliveryAssumption

(* What one failure may cost, and what the row may wait without any. *)
Cost == SweepPeriod + StaleAfter + DrainPeriod
Base == RecentDial + 1 + DrainPeriod + SweepPeriod

Ranges ==
    /\ outages \in 0..MaxOutages
    /\ seen \in 0..(StaleAfter + 1)
    /\ overdue \in 0..MaxOverdue
    /\ dialed \in 0..(RecentDial + 1)
    /\ drainIn \in 0..DrainPeriod
    /\ sweepIn \in 0..SweepPeriod

Flags ==
    /\ redis \in BOOLEAN
    /\ worker \in BOOLEAN
    /\ open \in BOOLEAN
    /\ pending \in BOOLEAN
    /\ ready \in BOOLEAN
    /\ jobs \in [JobId -> JobState]

Typed == Ranges /\ Flags

-----------------------------------------------------------------------------
(* Types. *)

LEMMA CostOf ==
    ASSUME NEW n \in Nat
    PROVE  /\ n * Cost \in Nat
           /\ (n + 1) * Cost = n * Cost + Cost
           /\ n > 0 => n * Cost >= Cost
<1>1. Cost \in Nat
  BY DEF Cost
<1>2. n * Cost \in Nat
  BY <1>1
<1>3. (n + 1) * Cost = n * Cost + Cost
  BY <1>1
<1>4. ASSUME n > 0 PROVE n * Cost >= Cost
  BY <1>1, <1>4
<1> QED BY <1>2, <1>3, <1>4

LEMMA MaxOverdueTyped == MaxOverdue \in Nat
<1>1. MaxOutages * Cost \in Nat
  BY CostOf
<1> DEFINE most == MaxOutages * Cost
<1>2. MaxOverdue = RecentDial + 1 + DrainPeriod + SweepPeriod + most + 1
  BY DEF MaxOverdue, Cost
<1> HIDE DEF most
<1>3. most \in Nat
  BY <1>1 DEF most
<1> QED BY <1>2, <1>3

LEMMA InitTyped == Init => Typed
<1> SUFFICES ASSUME Init PROVE Typed
  OBVIOUS
<1>1. Ranges
  BY MaxOverdueTyped DEF Init, HeartbeatInit, Ranges
<1>2. Flags
  BY DEF Init, HeartbeatInit, Flags, JobState
<1> QED BY <1>1, <1>2 DEF Typed

LEMMA RangesKept ==
    ASSUME Typed, [Next]_vars
    PROVE  Ranges'
<1> USE DEF Typed, Ranges
<1>1. 0 \in 0..MaxOverdue
  BY MaxOverdueTyped
<1>2. CASE Tick
  <2>1. seen' \in 0..(StaleAfter + 1) /\ outages' = outages
    BY <1>2 DEF Tick, HeartTick, AtMost
  <2>2. drainIn' \in 0..DrainPeriod /\ dialed' \in 0..(RecentDial + 1)
    BY <1>2 DEF Tick, AtMost
  <2>3. sweepIn' \in 0..SweepPeriod
    BY <1>2 DEF Tick, SweepIsDue
  <2>4. overdue' \in 0..MaxOverdue
    BY <1>2, MaxOverdueTyped DEF Tick, AtMost
  <2> QED BY <2>1, <2>2, <2>3, <2>4
<1>3. CASE EngineStep
  <2>1. outages' \in 0..MaxOutages /\ seen' \in 0..(StaleAfter + 1)
    BY <1>3 DEF EngineStep, HeartBeats, RedisFails, RedisRecovers, WorkerDies, WorkerStarts,
       Outage
  <2>2. sweepIn' \in 0..SweepPeriod
    BY <1>3 DEF EngineStep
  <2> QED BY <1>3, <2>1, <2>2 DEF EngineStep
<1>4. CASE WindowCloses \/ WindowOpens \/ Enqueue
  BY <1>1, <1>4 DEF WindowCloses, WindowOpens, Enqueue, heartVars
<1>5. CASE JobsAreLost
  BY <1>5 DEF JobsAreLost, Outage
<1>6. CASE Sweep
  BY <1>6 DEF Sweep, heartVars
<1>7. CASE DrainCron
  BY <1>1, <1>7 DEF DrainCron, Dial, heartVars
<1>8. CASE DialOther
  BY <1>1, <1>8 DEF DialOther, heartVars
<1>9. ASSUME NEW id \in JobId, DeferDial(id) \/ RunJob(id) \/ Evict(id)
      PROVE  Ranges'
  BY <1>1, <1>9 DEF DeferDial, RunJob, Evict, Dial, heartVars
<1>10. CASE UNCHANGED vars
  BY <1>10 DEF vars, deliveryVars, heartVars
<1> QED
  BY <1>2, <1>3, <1>4, <1>5, <1>6, <1>7, <1>8, <1>9, <1>10 DEF Next

LEMMA FlagsKept ==
    ASSUME Typed, [Next]_vars
    PROVE  Flags'
<1> USE DEF Typed, Flags
<1>1. ASSUME UNCHANGED <<redis, worker, open, pending, ready, jobs>>
      PROVE  Flags'
  BY <1>1
<1>2. ASSUME UNCHANGED <<redis, worker, open>>, pending' \in BOOLEAN, ready' \in BOOLEAN,
             jobs' \in [JobId -> JobState]
      PROVE  Flags'
  BY <1>2
<1>3. CASE EngineStep
  <2>1. redis' \in BOOLEAN /\ worker' \in BOOLEAN
    BY <1>3 DEF EngineStep, HeartBeats, RedisFails, RedisRecovers, WorkerDies, WorkerStarts
  <2> QED BY <1>3, <2>1 DEF EngineStep
<1>4. CASE Tick
  BY <1>1, <1>4 DEF Tick, HeartTick
<1>5. CASE WindowCloses
  BY <1>5 DEF WindowCloses, heartVars
<1>6. CASE WindowOpens
  <2>1. jobs' \in [JobId -> JobState]
    BY <1>6 DEF WindowOpens, JobState
  <2>2. /\ open' \in BOOLEAN /\ ready' \in BOOLEAN
        /\ UNCHANGED <<redis, worker, pending>>
    BY <1>6 DEF WindowOpens, heartVars
  <2> QED BY <2>1, <2>2
<1>7. CASE JobsAreLost
  BY <1>2, <1>7 DEF JobsAreLost, JobState
<1>8. CASE Enqueue
  <2>1. jobs' \in [JobId -> JobState]
    BY <1>8 DEF Enqueue, JobState
  <2>2. UNCHANGED <<redis, worker, open>> /\ pending' = TRUE /\ ready' = TRUE
    BY <1>8 DEF Enqueue, heartVars
  <2> QED BY <1>2, <2>1, <2>2
<1>9. CASE Sweep
  <2>1. jobs' \in [JobId -> JobState]
    BY <1>9 DEF Sweep, JobState
  <2>2. UNCHANGED <<redis, worker, open, pending>> /\ (ready' = open \/ ready' = ready)
    BY <1>9 DEF Sweep, heartVars
  <2> QED BY <1>2, <2>1, <2>2
<1>10. CASE DrainCron
  BY <1>2, <1>10 DEF DrainCron, Dial, heartVars
<1>11. CASE DialOther
  BY <1>1, <1>11 DEF DialOther, heartVars
<1>12. ASSUME NEW id \in JobId, DeferDial(id) \/ RunJob(id) \/ Evict(id)
       PROVE  Flags'
  <2>1. jobs' \in [JobId -> JobState]
    BY <1>12 DEF DeferDial, RunJob, Evict, JobState
  <2>2. UNCHANGED <<redis, worker, open>>
    BY <1>12 DEF DeferDial, RunJob, Evict, heartVars
  <2>3. pending' \in BOOLEAN /\ ready' \in BOOLEAN
    BY <1>12 DEF DeferDial, RunJob, Evict, Dial
  <2> QED BY <1>2, <2>1, <2>2, <2>3
<1>13. CASE UNCHANGED vars
  BY <1>1, <1>13 DEF vars, deliveryVars, heartVars
<1> QED
  BY <1>3, <1>4, <1>5, <1>6, <1>7, <1>8, <1>9, <1>10, <1>11, <1>12, <1>13 DEF Next

LEMMA TypedKept ==
    ASSUME Typed, [Next]_vars
    PROVE  Typed'
BY RangesKept, FlagsKept DEF Typed

LEMMA AlwaysTyped == Spec => []Typed
BY InitTyped, TypedKept, PTL DEF Spec

-----------------------------------------------------------------------------
(* Nobody waits longer than the bound. *)

Waits == Overdue /\ open

(* Ticks until a row whose job is not kept is dialed, when no further       *)
(* failure happens: a dead worker is noticed when its heartbeat is stale,   *)
(* Redis may come back just before the drain and leave the row to a sweep.  *)
Wait ==
    IF ~worker
    THEN SweepPeriod + (IF Stale THEN drainIn ELSE StaleAfter + DrainPeriod - seen)
    ELSE IF ~redis THEN SweepPeriod + drainIn
    ELSE IF jobs["dial"] = "live" THEN 0 ELSE sweepIn

(* A kept job hides the row from worker and sweep; only the stall check     *)
(* sees it, and dials of other contacts start the count again.              *)
KeptInTime ==
    IF dialed <= RecentDial THEN overdue <= dialed
                            ELSE overdue + drainIn <= RecentDial + DrainPeriod

WaitInv ==
    /\ ~(redis /\ worker) => outages > 0
    /\ open => jobs["dial"] # "delayed"
    /\ ~Waits => overdue = 0
    /\ Waits => IF jobs["dial"] = "kept" THEN KeptInTime
                                         ELSE overdue + Wait <= Base + outages * Cost

WaitOK == Wait \in 0..Cost

LEMMA WaitTyped == Typed => WaitOK
BY DEF WaitOK, Typed, Ranges, Wait, Cost, Stale

(* A row that has just begun to wait. *)
Begins ==
    /\ overdue = 0
    /\ ~(redis /\ worker) => outages > 0
    /\ open => jobs["dial"] # "delayed"

LEMMA WaitBegins == Typed /\ Begins => WaitInv
<1> SUFFICES ASSUME Typed, Begins PROVE WaitInv
  OBVIOUS
<1> USE DEF Begins
<1>1. KeptInTime
  BY DEF KeptInTime, Typed, Ranges
<1>2. PICK cost \in Nat : /\ cost = outages * Cost
                          /\ outages > 0 => cost >= Cost
  BY CostOf DEF Typed, Ranges
<1>3. Wait \in 0..Cost
  BY WaitTyped DEF WaitOK
<1>4. redis /\ worker => Wait <= SweepPeriod
  BY DEF Wait, Typed, Ranges
<1>5. Wait <= Base + cost
  <2>1. Cost \in Nat /\ Base \in Nat /\ SweepPeriod <= Base
    BY DEF Cost, Base
  <2>2. CASE redis /\ worker
    BY <1>2, <1>3, <1>4, <2>1, <2>2
  <2>3. CASE ~(redis /\ worker)
    BY <1>2, <1>3, <2>1, <2>3
  <2> QED BY <2>2, <2>3
<1> QED BY <1>1, <1>2, <1>3, <1>5 DEF WaitInv

LEMMA WaitInit == Init => WaitInv
<1> SUFFICES ASSUME Init PROVE WaitInv
  OBVIOUS
<1>1. Typed
  BY InitTyped
<1>2. /\ overdue = 0
      /\ redis /\ worker
      /\ jobs["dial"] # "delayed"
  BY DEF Init, HeartbeatInit, JobId
<1> QED BY <1>1, <1>2, WaitBegins DEF Begins

LEMMA WaitBegan == Typed' /\ Begins' => WaitInv'
BY WaitBegins, PTL

InTime == overdue + Wait <= Base + outages * Cost

LEMMA KeptIsShort ==
    ASSUME Typed, KeptInTime
    PROVE  overdue <= RecentDial + DrainPeriod
BY DEF KeptInTime, Typed, Ranges

LEMMA SumTransitive ==
    ASSUME NEW a \in Nat, NEW b \in Nat, NEW c \in Nat, NEW d \in Nat, NEW e \in Nat,
           NEW f \in Nat, a + b <= c + d, c + d <= e + f
    PROVE  a + b <= e + f
OBVIOUS

LEMMA SumShifts ==
    ASSUME NEW a \in Nat, NEW b \in Nat, NEW c \in Nat, NEW d \in Nat,
           a <= b + 1, c <= d - 1
    PROVE  a + c <= b + d
OBVIOUS

(* A step that costs the row no time. *)
NoLonger == overdue' + Wait' <= overdue + Wait

LEMMA SameBound ==
    ASSUME Typed, Typed', InTime, outages' = outages, NoLonger
    PROVE  InTime'
<1>1. PICK cost \in Nat : cost = outages * Cost
  BY CostOf DEF Typed, Ranges
<1>2. PICK later \in Nat : later = Wait'
  <2>1. Wait' \in 0..Cost
    <3>1. WaitOK'
      BY WaitTyped, PTL
    <3> QED BY <3>1 DEF WaitOK, Cost
  <2> QED BY <2>1 DEF Cost
<1>3. PICK now \in Nat : now = Wait
  BY WaitTyped DEF WaitOK, Cost
<1>4. overdue \in Nat /\ overdue' \in Nat /\ Base \in Nat
  BY DEF Typed, Ranges, Base
<1>5. overdue' + later <= Base + cost
  <2>1. overdue + now <= Base + cost
    BY <1>1, <1>3 DEF InTime
  <2>2. overdue' + later <= overdue + now
    BY <1>2, <1>3 DEF NoLonger
  <2> QED BY <1>4, <2>1, <2>2, SumTransitive
<1> QED BY <1>1, <1>2, <1>5 DEF InTime, Base, Cost

(* A failure. *)
LEMMA OutageBound ==
    ASSUME Typed, Typed', WaitInv, Waits, overdue' = overdue, outages' = outages + 1
    PROVE  InTime'
<1>1. PICK cost \in Nat : /\ cost = outages * Cost
                          /\ (outages + 1) * Cost = cost + Cost
  BY CostOf DEF Typed, Ranges
<1>2. PICK later \in 0..Cost : later = Wait'
  <2>1. Wait' \in 0..Cost
    <3>1. WaitOK'
      BY WaitTyped, PTL
    <3> QED BY <3>1 DEF WaitOK, Cost
  <2> QED BY <2>1
<1>3. Wait \in Nat /\ overdue \in Nat /\ Cost \in Nat /\ Base \in Nat
  BY WaitTyped DEF WaitOK, Typed, Ranges, Base, Cost
<1>4. overdue <= Base + cost
  <2>1. CASE jobs["dial"] = "kept"
    <3>1. overdue <= RecentDial + DrainPeriod
      BY <2>1, KeptIsShort DEF WaitInv
    <3> QED BY <1>3, <3>1 DEF Base
  <2>2. CASE jobs["dial"] # "kept"
    <3>1. overdue + Wait <= Base + cost
      BY <1>1, <2>2 DEF WaitInv
    <3> QED BY <1>3, <3>1
  <2> QED BY <2>1, <2>2
<1>5. overdue' + later <= Base + (cost + Cost)
  BY <1>3, <1>4
<1>6. overdue' + Wait' <= Base + outages' * Cost
  BY <1>1, <1>2, <1>5
<1> QED BY <1>6 DEF InTime, Base, Cost

(* Redis forgets a kept job. *)
LEMMA EvictionBound ==
    ASSUME Typed, KeptInTime, ~(redis /\ worker) => outages > 0
    PROVE  InTime
<1>1. PICK cost \in Nat : cost = outages * Cost /\ (outages > 0 => cost >= Cost)
  BY CostOf DEF Typed, Ranges
<1>2. Wait \in 0..Cost
  BY WaitTyped DEF WaitOK
<1>3. redis /\ worker => Wait <= SweepPeriod
  BY DEF Wait, Typed, Ranges
<1>4. overdue <= RecentDial + DrainPeriod /\ overdue \in Nat
  BY KeptIsShort DEF Typed, Ranges
<1>5. overdue + Wait <= Base + cost
  BY <1>1, <1>2, <1>3, <1>4 DEF Base, Cost
<1> QED BY <1>1, <1>5 DEF InTime

(* The steps: who leaves the row waiting, and how the wait goes on. *)

LEMMA TickKeepsTime ==
    ASSUME Typed, Typed', WaitInv, Tick
    PROVE  WaitInv'
<1>1. UNCHANGED <<redis, worker, outages, open, pending, ready, jobs>>
  BY DEF Tick, HeartTick
<1>2. CASE ~Waits
  <2>1. Begins'
    BY <1>1, <1>2 DEF Begins, WaitInv, Waits, Tick
  <2> QED BY <2>1, WaitBegan
<1>3. CASE Waits
  <2>1. Waits' /\ (~(redis' /\ worker') => outages' > 0) /\ (open' => jobs'["dial"] # "delayed")
    BY <1>1, <1>3 DEF Waits, Overdue, WaitInv
  <2>2. overdue' <= overdue + 1
    BY <1>3, MaxOverdueTyped DEF Tick, AtMost, Waits, Typed, Ranges
  <2>3. CASE jobs["dial"] = "kept"
    <3>1. KeptInTime'
      BY <1>3, <2>2, <2>3 DEF WaitInv, KeptInTime, Tick, AtMost, Typed, Ranges
    <3> QED BY <1>1, <2>1, <2>3, <3>1 DEF WaitInv
  <2>4. CASE jobs["dial"] # "kept"
    <3>1. PICK now \in Nat : now = Wait
      BY WaitTyped DEF WaitOK, Cost
    <3>2. Wait' <= now - 1
      <4>1. drainIn \in 1..DrainPeriod /\ drainIn' = drainIn - 1
        BY DEF Tick, Typed, Ranges
      <4>2. CASE ~worker /\ Stale
        <5>1. now = SweepPeriod + drainIn
          BY <3>1, <4>2 DEF Wait
        <5>2. ~worker' /\ seen' > StaleAfter
          BY <1>1, <4>2 DEF Stale, Tick, HeartTick, AtMost, Typed, Ranges
        <5>3. Wait' = SweepPeriod + drainIn'
          BY <5>2 DEF Wait, Stale
        <5> QED BY <4>1, <5>1, <5>3
      <4>3. CASE ~worker /\ ~Stale
        <5>1. seen \in 0..StaleAfter /\ seen' = seen + 1
          BY <4>3 DEF Stale, Tick, HeartTick, AtMost, Typed, Ranges
        <5>2. now = SweepPeriod + (StaleAfter + DrainPeriod - seen)
          BY <3>1, <4>3 DEF Wait
        <5>3. Wait' = SweepPeriod + (IF seen + 1 > StaleAfter THEN drainIn'
                                     ELSE StaleAfter + DrainPeriod - (seen + 1))
          BY <1>1, <4>3, <5>1 DEF Wait, Stale
        <5> QED BY <4>1, <5>1, <5>2, <5>3
      <4>4. CASE worker /\ ~redis
        <5>1. now = SweepPeriod + drainIn /\ Wait' = SweepPeriod + drainIn'
          BY <1>1, <3>1, <4>4 DEF Wait
        <5> QED BY <4>1, <5>1
      <4>5. CASE worker /\ redis
        <5>1. jobs["dial"] # "live"
          BY <4>5 DEF Tick, WorkerTakes, JobId
        <5>2. now = sweepIn /\ Wait' = sweepIn - 1
          BY <1>1, <3>1, <4>5, <5>1 DEF Wait, Tick
        <5> QED BY <5>2 DEF Typed, Ranges
      <4> QED BY <4>2, <4>3, <4>4, <4>5
    <3>3. NoLonger
      <4>1. PICK later \in Nat : later = Wait'
        <5>1. WaitOK'
          BY WaitTyped, PTL
        <5> QED BY <5>1 DEF WaitOK, Cost
      <4>2. overdue \in Nat /\ overdue' \in Nat
        BY DEF Typed, Ranges
      <4>3. later <= now - 1
        BY <3>2, <4>1
      <4>4. overdue' + later <= overdue + now
        BY <2>2, <4>2, <4>3, SumShifts
      <4> QED BY <3>1, <4>1, <4>4 DEF NoLonger
    <3>4. InTime'
      BY <1>1, <1>3, <2>4, <3>3, SameBound DEF WaitInv, InTime
    <3> QED BY <1>1, <2>1, <2>4, <3>4 DEF WaitInv, InTime
  <2> QED BY <2>3, <2>4
<1> QED BY <1>2, <1>3

LEMMA NoLongerIf ==
    ASSUME Typed, Typed', overdue' = overdue, Wait' <= Wait
    PROVE  NoLonger
<1>1. PICK later \in Nat : later = Wait'
  <2>1. WaitOK'
    BY WaitTyped, PTL
  <2> QED BY <2>1 DEF WaitOK, Cost
<1>2. PICK now \in Nat : now = Wait
  BY WaitTyped DEF WaitOK, Cost
<1>3. PICK waited \in Nat : waited = overdue
  BY DEF Typed, Ranges
<1>4. later <= now
  BY <1>1, <1>2
<1>5. waited + later <= waited + now
  BY <1>4
<1> QED BY <1>1, <1>2, <1>3, <1>5 DEF NoLonger

LEMMA RecoveryKeepsTime ==
    ASSUME Typed, Typed', WaitInv, EngineStep, outages' = outages
    PROVE  Wait' <= Wait
<1>1. UNCHANGED <<jobs, drainIn>>
  BY DEF EngineStep
<1>2. CASE HeartBeats
  <2>1. worker /\ UNCHANGED <<redis, worker, sweepIn>>
    BY <1>2 DEF HeartBeats, EngineStep
  <2>2. Wait' = Wait
    BY <1>1, <2>1 DEF Wait
  <2> QED BY <2>2, WaitTyped DEF WaitOK, Cost
<1>3. CASE RedisRecovers
  <2>1. ~redis /\ redis' /\ UNCHANGED <<worker, seen, sweepIn>>
    BY <1>3 DEF RedisRecovers, EngineStep
  <2>2. CASE worker
    BY <1>1, <2>1, <2>2 DEF Wait, Typed, Ranges
  <2>3. CASE ~worker
    <3>1. Wait' = Wait
      BY <1>1, <2>1, <2>3 DEF Wait, Stale
    <3> QED BY <3>1, WaitTyped DEF WaitOK, Cost
  <2> QED BY <2>2, <2>3
<1>4. CASE WorkerStarts
  <2>1. ~worker /\ worker' /\ redis' = redis /\ sweepIn' = SweepPeriod
    BY <1>4 DEF WorkerStarts, EngineStep
  <2>2. Wait' <= SweepPeriod + drainIn
    BY <1>1, <2>1 DEF Wait, Typed, Ranges
  <2>3. SweepPeriod + drainIn <= Wait
    BY <2>1 DEF Wait, Stale, Typed, Ranges
  <2>4. Wait \in Nat
    BY WaitTyped DEF WaitOK, Cost
  <2>5. PICK later \in Nat : later = Wait'
    <3>1. WaitOK'
      BY WaitTyped, PTL
    <3> QED BY <3>1 DEF WaitOK, Cost
  <2> QED BY <2>2, <2>3, <2>4, <2>5 DEF Typed, Ranges
<1>5. CASE RedisFails \/ WorkerDies
  BY <1>5 DEF RedisFails, WorkerDies, Outage, Typed, Ranges
<1> QED BY <1>2, <1>3, <1>4, <1>5 DEF EngineStep

LEMMA EngineKeepsTime ==
    ASSUME Typed, Typed', WaitInv, EngineStep
    PROVE  WaitInv'
<1>1. UNCHANGED <<open, pending, ready, jobs, overdue, dialed, drainIn>>
  BY DEF EngineStep
<1>2. ~(redis' /\ worker') => outages' > 0
  BY DEF WaitInv, EngineStep, HeartBeats, RedisFails, RedisRecovers, WorkerDies,
     WorkerStarts, Outage, Typed, Ranges
<1>3. outages' = outages \/ outages' = outages + 1
  BY DEF EngineStep, HeartBeats, RedisFails, RedisRecovers, WorkerDies, WorkerStarts, Outage
<1>4. CASE ~Waits
  <2>1. Begins'
    BY <1>1, <1>2, <1>4 DEF Begins, WaitInv
  <2> QED BY <2>1, WaitBegan
<1>5. CASE Waits /\ jobs["dial"] = "kept"
  <2>1. KeptInTime'
    BY <1>1, <1>5 DEF WaitInv, KeptInTime
  <2> QED BY <1>1, <1>2, <1>5, <2>1 DEF WaitInv, Waits, Overdue
<1>6. CASE Waits /\ jobs["dial"] # "kept"
  <2>1. ASSUME outages' = outages PROVE InTime'
    <3>1. NoLonger
      BY <1>1, <2>1, RecoveryKeepsTime, NoLongerIf
    <3> QED BY <1>6, <2>1, <3>1, SameBound DEF WaitInv, InTime
  <2>2. ASSUME outages' = outages + 1 PROVE InTime'
    BY <1>1, <1>6, <2>2, OutageBound
  <2>3. InTime'
    BY <1>3, <2>1, <2>2
  <2> QED BY <1>1, <1>2, <1>6, <2>3 DEF WaitInv, Waits, Overdue, InTime
<1> QED BY <1>4, <1>5, <1>6

LEMMA LossKeepsTime ==
    ASSUME Typed, Typed', WaitInv, JobsAreLost
    PROVE  WaitInv'
<1>1. /\ UNCHANGED <<redis, worker, open, pending, ready, overdue>>
      /\ outages' = outages + 1
      /\ jobs'["dial"] = "absent"
  BY DEF JobsAreLost, Outage, JobId
<1>2. outages' > 0
  BY <1>1 DEF Typed, Ranges
<1>3. CASE ~Waits
  <2>1. Begins'
    BY <1>1, <1>2, <1>3 DEF Begins, WaitInv
  <2> QED BY <2>1, WaitBegan
<1>4. CASE Waits
  BY <1>1, <1>2, <1>4, OutageBound DEF WaitInv, Waits, Overdue, InTime
<1> QED BY <1>3, <1>4

LEMMA EvictionKeepsTime ==
    ASSUME Typed, Typed', WaitInv, NEW id \in JobId, Evict(id)
    PROVE  WaitInv'
<1>1. UNCHANGED <<heartVars, open, closings, pending, ready, overdue, dialed, drainIn, sweepIn>>
  BY DEF Evict
<1>2. jobs'["dial"] = jobs["dial"] \/ (jobs["dial"] = "kept" /\ jobs'["dial"] = "absent")
  BY DEF Evict, JobId, Typed, Flags
<1>3. CASE ~Waits
  <2>1. Begins'
    BY <1>1, <1>2, <1>3 DEF Begins, WaitInv, heartVars
  <2> QED BY <2>1, WaitBegan
<1>4. CASE Waits /\ jobs'["dial"] = jobs["dial"]
  <2>1. Wait' = Wait /\ KeptInTime' = KeptInTime
    BY <1>1, <1>4 DEF Wait, Stale, KeptInTime, heartVars
  <2> QED BY <1>1, <1>4, <2>1 DEF WaitInv, Waits, Overdue, heartVars
<1>5. CASE Waits /\ jobs["dial"] = "kept" /\ jobs'["dial"] = "absent"
  <2>1. InTime
    BY <1>5, EvictionBound DEF WaitInv
  <2>2. Wait' = Wait
    BY <1>1, <1>5 DEF Wait, Stale, heartVars
  <2> QED BY <1>1, <1>5, <2>1, <2>2 DEF WaitInv, InTime, Waits, Overdue, heartVars
<1> QED BY <1>2, <1>3, <1>4, <1>5

LEMMA SweepKeepsTime ==
    ASSUME Typed, Typed', WaitInv, Sweep
    PROVE  WaitInv'
<1>1. UNCHANGED <<redis, worker, seen, outages, open, pending, overdue, dialed, drainIn>>
  BY DEF Sweep, heartVars
<1>2. CASE ~Waits
  <2>1. open' => jobs'["dial"] # "delayed"
    BY <1>1, <1>2 DEF Sweep, WaitInv, Waits
  <2>2. Begins'
    BY <1>1, <1>2, <2>1 DEF Begins, WaitInv
  <2> QED BY <2>2, WaitBegan
<1>3. CASE Waits
  <2>1. Waits'
    <3>1. pending /\ ready /\ open
      BY <1>3 DEF Waits, Overdue
    <3>2. ready' = open \/ ready' = ready
      BY DEF Sweep
    <3>3. ready'
      BY <3>1, <3>2 DEF Typed, Flags
    <3> QED BY <1>1, <3>1, <3>3 DEF Waits, Overdue
  <2>2. CASE jobs["dial"] = "kept"
    <3>1. jobs'["dial"] = "kept"
      BY <2>2 DEF Sweep, JobId, Typed, Flags, Alive
    <3>2. KeptInTime'
      BY <1>1, <1>3, <2>2 DEF WaitInv, KeptInTime
    <3> QED BY <1>1, <2>1, <3>1, <3>2 DEF WaitInv
  <2>3. CASE jobs["dial"] # "kept"
    <3>1. jobs'["dial"] # "kept" /\ jobs'["dial"] # "delayed"
      BY <1>3, <2>3 DEF Sweep, JobId, Typed, Flags, Alive, WaitInv, Waits
    <3>2. redis => jobs'["dial"] = "live"
      BY <1>3, <2>3 DEF Sweep, JobId, JobState, Typed, Flags, Alive, WaitInv, Waits
    <3>3. Wait' <= Wait
      <4>1. CASE redis
        <5>1. worker
          BY DEF Sweep
        <5>2. Wait' = 0
          BY <1>1, <3>2, <4>1, <5>1 DEF Wait
        <5> QED BY <5>2, WaitTyped DEF WaitOK, Cost
      <4>2. CASE ~redis
        <5>1. worker /\ Wait' = Wait
          BY <1>1, <4>2 DEF Sweep, Wait
        <5> QED BY <5>1, WaitTyped DEF WaitOK, Cost
      <4> QED BY <4>1, <4>2
    <3>4. InTime'
      BY <1>1, <1>3, <2>3, <3>3, NoLongerIf, SameBound DEF WaitInv, InTime
    <3> QED BY <1>1, <2>1, <3>1, <3>4 DEF WaitInv, InTime
  <2> QED BY <2>2, <2>3
<1> QED BY <1>2, <1>3

LEMMA DrainKeepsTime ==
    ASSUME Typed, Typed', WaitInv, DrainCron
    PROVE  WaitInv'
<1>1. UNCHANGED <<redis, worker, seen, outages, open, jobs, sweepIn>>
  BY DEF DrainCron, heartVars
<1>2. CASE overdue' = 0
  <2>1. Begins'
    BY <1>1, <1>2 DEF Begins, WaitInv
  <2> QED BY <2>1, WaitBegan
<1>3. CASE overdue' # 0
  <2>1. UNCHANGED <<pending, ready, overdue, dialed>> /\ ~(FailoverDrainTrigger /\ Waits)
    BY <1>3 DEF DrainCron, Dial, Waits
  <2>2. Waits
    BY <1>3, <2>1 DEF WaitInv
  <2>3. redis /\ ~Stale /\ dialed <= RecentDial
    BY <2>1, <2>2 DEF FailoverDrainTrigger, DialStall, Waits, Typed, Ranges
  <2>4. Wait' = Wait
    BY <1>1, <2>3 DEF Wait, Stale
  <2>5. KeptInTime' = KeptInTime
    BY <2>1, <2>3 DEF KeptInTime
  <2> QED BY <1>1, <2>1, <2>2, <2>4, <2>5 DEF WaitInv, Waits, Overdue
<1> QED BY <1>2, <1>3

LEMMA OtherDialKeepsTime ==
    ASSUME Typed, Typed', WaitInv, DialOther
    PROVE  WaitInv'
<1>1. UNCHANGED <<redis, worker, seen, outages, open, pending, ready, jobs, drainIn, sweepIn>>
  BY DEF DialOther, heartVars
<1>2. CASE overdue' = 0
  <2>1. Begins'
    BY <1>1, <1>2 DEF Begins, WaitInv
  <2> QED BY <2>1, WaitBegan
<1>3. CASE overdue' # 0
  <2>1. overdue' = overdue /\ jobs["dial"] # "kept"
    BY <1>3 DEF DialOther
  <2>2. Wait' = Wait
    BY <1>1 DEF Wait, Stale
  <2> QED BY <1>1, <2>1, <2>2 DEF WaitInv, Waits, Overdue
<1> QED BY <1>2, <1>3

LEMMA WaitKept ==
    ASSUME Typed, Typed', WaitInv, [Next]_vars
    PROVE  WaitInv'
<1>1. CASE Tick
  BY <1>1, TickKeepsTime
<1>2. CASE EngineStep
  BY <1>2, EngineKeepsTime
<1>3. CASE JobsAreLost
  BY <1>3, LossKeepsTime
<1>4. CASE Sweep
  BY <1>4, SweepKeepsTime
<1>5. CASE DrainCron
  BY <1>5, DrainKeepsTime
<1>6. CASE DialOther
  BY <1>6, OtherDialKeepsTime
<1>7. CASE Enqueue
  <2>1. jobs'["dial"] # "delayed"
    BY <1>7 DEF Enqueue, JobId, Typed, Flags
  <2>2. Begins'
    BY <1>7, <2>1 DEF Enqueue, Begins, WaitInv, heartVars
  <2> QED BY <2>2, WaitBegan
<1>8. CASE WindowCloses
  <2>1. Begins'
    BY <1>8 DEF WindowCloses, Begins, WaitInv, heartVars
  <2> QED BY <2>1, WaitBegan
<1>9. CASE WindowOpens
  <2>1. jobs'["dial"] # "delayed"
    BY <1>9 DEF WindowOpens, JobId
  <2>2. overdue' = 0
    BY <1>9 DEF WindowOpens, WaitInv, Waits
  <2>3. Begins'
    BY <1>9, <2>1, <2>2 DEF WindowOpens, Begins, WaitInv, heartVars
  <2> QED BY <2>3, WaitBegan
<1>10. ASSUME NEW id \in JobId, RunJob(id)
       PROVE  WaitInv'
  <2>1. open /\ jobs'["dial"] # "delayed"
    BY <1>10 DEF RunJob, JobId, Typed, Flags, WaitInv
  <2>2. overdue' = 0
    BY <1>10 DEF RunJob, Dial, WaitInv, Waits, Overdue
  <2>3. Begins'
    BY <1>10, <2>1, <2>2 DEF RunJob, Begins, WaitInv, heartVars
  <2> QED BY <2>3, WaitBegan
<1>11. ASSUME NEW id \in JobId, DeferDial(id)
       PROVE  WaitInv'
  <2>1. Begins'
    BY <1>11 DEF DeferDial, Begins, WaitInv, Waits, heartVars
  <2> QED BY <2>1, WaitBegan
<1>12. ASSUME NEW id \in JobId, Evict(id)
       PROVE  WaitInv'
  BY <1>12, EvictionKeepsTime
<1>13. CASE UNCHANGED vars
  <2>1. Wait' = Wait /\ KeptInTime' = KeptInTime
    BY <1>13 DEF vars, deliveryVars, heartVars, Wait, Stale, KeptInTime
  <2> QED BY <1>13, <2>1 DEF vars, deliveryVars, heartVars, WaitInv, Waits, Overdue
<1> QED
  BY <1>1, <1>2, <1>3, <1>4, <1>5, <1>6, <1>7, <1>8, <1>9, <1>10, <1>11, <1>12, <1>13
  DEF Next

(* Whatever is lost or dead, a row that could be dialed is dialed within    *)
(* the stall check's limit, a sweep and a period of the drain cron; each    *)
(* failure adds at most a sweep, a staleness limit and a period.            *)
THEOREM DueRowsAreDialed == Spec => []DueRowIsDialed
<1>1. ASSUME Typed, WaitInv
      PROVE  DueRowIsDialed
  <2>1. PICK cost \in Nat : cost = outages * Cost
    BY <1>1, CostOf DEF Typed, Ranges
  <2>2. overdue <= Base + cost
    <3>1. overdue \in Nat /\ Base \in Nat
      BY <1>1 DEF Typed, Ranges, Base
    <3>2. CASE ~Waits
      BY <1>1, <3>1, <3>2 DEF WaitInv
    <3>3. CASE Waits /\ jobs["dial"] = "kept"
      <4>1. overdue <= RecentDial + DrainPeriod
        BY <1>1, <3>3, KeptIsShort DEF WaitInv
      <4> QED BY <3>1, <4>1 DEF Base
    <3>4. CASE Waits /\ jobs["dial"] # "kept"
      <4>1. PICK now \in Nat : now = Wait
        BY <1>1, WaitTyped DEF WaitOK, Cost
      <4>2. overdue + now <= Base + cost
        BY <1>1, <2>1, <3>4, <4>1 DEF WaitInv
      <4> QED BY <3>1, <4>2
    <3> QED BY <3>2, <3>3, <3>4
  <2>3. DialBound = Base + cost
    BY <2>1 DEF DialBound, Base, Cost
  <2> QED BY <2>2, <2>3 DEF DueRowIsDialed
<1>2. Typed /\ Typed' /\ WaitInv /\ [Next]_vars => WaitInv'
  BY WaitKept
<1> QED BY <1>1, <1>2, WaitInit, AlwaysTyped, PTL DEF Spec
=============================================================================
