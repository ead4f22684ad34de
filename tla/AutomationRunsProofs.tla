------------------------ MODULE AutomationRunsProofs ------------------------
(***************************************************************************)
(* Proofs about AutomationRuns, and about CallProcessing which extends it, *)
(* for any number of calls, triggers, runs, processors, worker slots,      *)
(* deliveries and failures.                                                *)
(***************************************************************************)
EXTENDS CallProcessing, FiniteSetTheorems, WellFoundedInduction, TLAPS

-----------------------------------------------------------------------------
(* Type correctness. *)

LEMMA InitTyped == AutoInit => AutoTypeOK
BY DEF AutoInit, AutoTypeOK, Run, Job, Eval, Exec, RunStatus, JobState, EvalPC,
       ExecPC, NoRun, NoJob, IdleEval, IdleExec

LEMMA FaultCounted ==
    ASSUME AutoTypeOK, NEW kind, Fault(kind)
    PROVE  faults' = faults + 1 /\ faults' \in Nat
BY DEF AutoTypeOK, Fault

LEMMA AddTyped ==
    ASSUME AutoTypeOK, NEW r \in RunId, Add(r)
    PROVE  job' \in [RunId -> Job]
<1>1. [NoJob EXCEPT !.state = "waiting"] \in Job
  BY DEF Job, JobState, NoJob
<1> QED BY <1>1 DEF AutoTypeOK, Add

LEMMA NextTriggerTyped ==
    ASSUME AutoTypeOK, NEW v \in Evaluator, NextTrigger(v)
    PROVE  /\ eval' \in [Evaluator -> Eval]
           /\ \A w \in Evaluator : eval'[w].pc = "enqueue" => eval'[w].run \in RunId
<1> DEFINE next == [eval[v] EXCEPT !.pc = "check", !.trigger = None, !.run = None]
<1>1. IdleEval \in Eval /\ IdleEval.pc = "idle"
  BY DEF Eval, EvalPC, IdleEval
<1>2. next \in Eval /\ next.pc = "check"
  BY DEF AutoTypeOK, Eval, EvalPC
<1> HIDE DEF next
<1>3. \E e \in {IdleEval, next} : eval' = [eval EXCEPT ![v] = e]
  BY DEF NextTrigger, next, AutoTypeOK
<1> QED BY <1>1, <1>2, <1>3 DEF AutoTypeOK

(* What a look-up does to an evaluation. *)
LEMMA FindIs ==
    ASSUME AutoTypeOK, NEW v \in Evaluator, FindDuplicate(v)
    PROVE  \E t \in Trigger :
              /\ t \in eval[v].todo
              /\ \/ /\ ~Duplicate(t, eval[v].call) \/ Fault("lookup_error")
                    /\ eval'[v] = [eval[v] EXCEPT !.pc = "insert", !.trigger = t,
                                                  !.todo = eval[v].todo \ {t}]
                 \/ eval'[v] = IdleEval
                 \/ eval'[v] = [eval[v] EXCEPT !.todo = eval[v].todo \ {t}]
              /\ \A w \in Evaluator \ {v} : eval'[w] = eval[w]
              /\ eval' = [eval EXCEPT ![v] = eval'[v]]
              /\ eval[v].pc = "check" /\ eval[v] \in Eval
              /\ eval'[v].pc # "enqueue" /\ eval'[v] \in Eval
              /\ UNCHANGED <<runs, job, exec, posts, disturbed, evaluated>>
              /\ UNCHANGED faults \/ Fault("lookup_error")
<1>0. PICK t \in eval[v].todo : \E new :
         /\ eval' = [eval EXCEPT ![v] = new]
         /\ \/ /\ ~Duplicate(t, eval[v].call) \/ Fault("lookup_error")
               /\ new = [eval[v] EXCEPT !.pc = "insert", !.trigger = t,
                                        !.todo = eval[v].todo \ {t}]
            \/ new = IdleEval
            \/ new = [eval[v] EXCEPT !.todo = eval[v].todo \ {t}]
         /\ UNCHANGED faults \/ Fault("lookup_error")
  BY DEF FindDuplicate
<1>1. PICK new :
         /\ eval' = [eval EXCEPT ![v] = new]
         /\ \/ /\ ~Duplicate(t, eval[v].call) \/ Fault("lookup_error")
               /\ new = [eval[v] EXCEPT !.pc = "insert", !.trigger = t,
                                        !.todo = eval[v].todo \ {t}]
            \/ new = IdleEval
            \/ new = [eval[v] EXCEPT !.todo = eval[v].todo \ {t}]
         /\ UNCHANGED faults \/ Fault("lookup_error")
  BY <1>0
<1>2. eval'[v] = new /\ \A w \in Evaluator \ {v} : eval'[w] = eval[w]
  BY <1>1 DEF AutoTypeOK
<1>3. t \in Trigger /\ eval[v] \in Eval /\ eval[v].pc = "check"
  BY DEF AutoTypeOK, Eval, FindDuplicate
<1>4. new.pc # "enqueue" /\ new \in Eval
  <2>1. CASE new = [eval[v] EXCEPT !.pc = "insert", !.trigger = t, !.todo = eval[v].todo \ {t}]
    BY <1>3, <2>1 DEF Eval, EvalPC
  <2>2. CASE new = IdleEval
    BY <2>2 DEF Eval, EvalPC, IdleEval
  <2>3. CASE new = [eval[v] EXCEPT !.todo = eval[v].todo \ {t}]
    BY <1>3, <2>3 DEF Eval, EvalPC
  <2> QED BY <1>1, <2>1, <2>2, <2>3
<1> QED BY <1>1, <1>2, <1>3, <1>4 DEF FindDuplicate, execVars

LEMMA EvaluationTyped ==
    ASSUME AutoTypeOK, NEW v \in Evaluator,
           (\E c \in CallKey : BeginEvaluation(v, c)) \/ Evaluate(v) \/ EvaluatorCrash(v)
    PROVE  AutoTypeOK'
<1> USE DEF AutoTypeOK, execVars
<1>1. ASSUME NEW c \in CallKey, BeginEvaluation(v, c) PROVE AutoTypeOK'
  <2>1. evaluated' \in [CallKey -> Nat]
    <3>1. evaluated[c] + 1 \in Nat
      OBVIOUS
    <3> QED BY <1>1, <3>1 DEF BeginEvaluation
  <2>2. PICK matched \in SUBSET Trigger :
          eval' = [eval EXCEPT ![v] =
                     [IdleEval EXCEPT !.call = c, !.todo = matched,
                        !.pc = IF matched = {} THEN "idle" ELSE "check"]]
    BY <1>1 DEF BeginEvaluation
  <2>3. eval' \in [Evaluator -> Eval] /\ eval'[v].pc # "enqueue"
    BY <2>2 DEF Eval, EvalPC, IdleEval
  <2> QED BY <1>1, <2>1, <2>2, <2>3 DEF BeginEvaluation
<1>2. CASE FindDuplicate(v)
  <2>1. /\ eval'[v] \in Eval /\ eval'[v].pc # "enqueue"
        /\ \A w \in Evaluator \ {v} : eval'[w] = eval[w]
        /\ eval' = [eval EXCEPT ![v] = eval'[v]]
        /\ UNCHANGED <<runs, job, exec, posts, disturbed, evaluated>>
        /\ UNCHANGED faults \/ Fault("lookup_error")
    BY <1>2, FindIs
  <2>2. eval' \in [Evaluator -> Eval]
    BY <2>1
  <2> QED BY <2>1, <2>2, FaultCounted
<1>3. CASE InsertRun(v)
  <2> DEFINE chosen == CHOOSE r \in Unused : TRUE
             written(status) == [NoRun EXCEPT !.status = status, !.call = eval[v].call,
                                              !.trigger = eval[v].trigger]
  <2>1. chosen \in RunId
    BY <1>3 DEF InsertRun, Unused
  <2>2. written("queued") \in Run /\ written("failed") \in Run
    BY DEF Run, RunStatus, NoRun, Eval
  <2>3. CASE /\ runs' = [runs EXCEPT ![chosen] = written("queued")]
             /\ eval' = [eval EXCEPT ![v].pc = "enqueue", ![v].run = chosen]
             /\ UNCHANGED faults
    <3>1. runs' \in [RunId -> Run]
      <4> HIDE DEF written
      <4> QED BY <2>1, <2>2, <2>3
    <3>2. eval' \in [Evaluator -> Eval]
          /\ \A w \in Evaluator : eval'[w].pc = "enqueue" => eval'[w].run \in RunId
      <4> HIDE DEF chosen
      <4>1. eval' \in [Evaluator -> Eval]
        <5>1. [eval[v] EXCEPT !.pc = "enqueue", !.run = chosen] \in Eval
          BY <2>1 DEF Eval, EvalPC
        <5>2. eval' = [eval EXCEPT ![v] = [eval[v] EXCEPT !.pc = "enqueue", !.run = chosen]]
          BY <2>3
        <5> QED BY <5>1, <5>2
      <4>2. \A w \in Evaluator \ {v} : eval'[w] = eval[w]
        BY <2>3
      <4>3. eval'[v].run = chosen
        BY <2>3 DEF Eval
      <4> QED BY <2>1, <4>1, <4>2, <4>3
    <3> QED BY <1>3, <2>3, <3>1, <3>2 DEF InsertRun
  <2>4. CASE /\ Fault("insert_error")
             /\ runs' = [runs EXCEPT ![chosen] = written("failed")]
             /\ NextTrigger(v)
    BY <1>3, <2>1, <2>2, <2>4, NextTriggerTyped, FaultCounted DEF InsertRun
  <2> QED BY <1>3, <2>3, <2>4 DEF InsertRun
<1>4. CASE EnqueueRun(v)
  <2>1. job' \in [RunId -> Job]
    BY <1>4, AddTyped DEF EnqueueRun
  <2>2. faults' \in Nat
    BY <1>4, FaultCounted DEF EnqueueRun
  <2> QED BY <1>4, <2>1, <2>2, NextTriggerTyped DEF EnqueueRun
<1>5. CASE EvaluatorCrash(v)
  BY <1>5, FaultCounted DEF EvaluatorCrash, Eval, EvalPC, IdleEval
<1> QED BY <1>1, <1>2, <1>3, <1>4, <1>5 DEF Evaluate

LEMMA EndJobTyped ==
    ASSUME AutoTypeOK, NEW x \in Executor, NEW r \in RunId, NEW retry \in BOOLEAN,
           EndJob(x, r, retry)
    PROVE  job' \in [RunId -> Job]
<1>1. job[r] \in Job /\ job[r].made + 1 \in Nat
  BY DEF AutoTypeOK, Job
<1>2. PICK s \in JobState :
        job' \in {job, [job EXCEPT ![r].made = @ + 1, ![r].owner = None, ![r].state = s]}
  BY DEF EndJob, JobState
<1> QED BY <1>1, <1>2 DEF AutoTypeOK, Job

LEMMA LoseLockTyped ==
    ASSUME AutoTypeOK, NEW r \in RunId, LoseLock(r)
    PROVE  job' \in [RunId -> Job]
BY DEF AutoTypeOK, Job, JobState, LoseLock

LEMMA DisturbedTyped ==
    ASSUME AutoTypeOK, NEW r \in RunId, disturbed' = [disturbed EXCEPT ![r] = @ + 1]
    PROVE  disturbed' \in [RunId -> Nat]
BY DEF AutoTypeOK

LEMMA ClaimTyped ==
    ASSUME AutoTypeOK, NEW x \in Executor, NEW r \in RunId, Claim(x, r)
    PROVE  AutoTypeOK'
<1> USE DEF AutoTypeOK, evalVars
<1>1. runs[r].attempts \in Nat /\ runs[r].attempts + 1 \in Nat
  BY DEF Run
<1>2. job[r].made \in Nat /\ job[r].made + 1 \in Nat
  BY DEF Job
<1>3. CASE /\ runs' = [runs EXCEPT ![r].status = "queued"]
           /\ exec' = [exec EXCEPT ![x] = [IdleExec EXCEPT !.pc = "post", !.run = r,
                                             !.attempts = runs[r].attempts + 1]]
           /\ job' = [job EXCEPT ![r].state = "active", ![r].owner = x]
           /\ UNCHANGED <<disturbed, faults>>
  <2>1. runs' \in [RunId -> Run]
    BY <1>3 DEF Run, RunStatus
  <2>2. job' \in [RunId -> Job]
    BY <1>3 DEF Job, JobState
  <2>3. [IdleExec EXCEPT !.pc = "post", !.run = r, !.attempts = runs[r].attempts + 1] \in Exec
    BY <1>1 DEF Exec, ExecPC, IdleExec
  <2>4. exec' \in [Executor -> Exec]
        /\ \A y \in Executor : exec'[y].pc # "idle" => exec'[y].run \in RunId
    BY <1>3, <2>3 DEF IdleExec
  <2> QED BY <1>3, <2>1, <2>2, <2>4 DEF Claim
<1>4. CASE /\ disturbed' = [disturbed EXCEPT ![r] = @ + faults' - faults]
           /\ job' = [job EXCEPT ![r].state = "finished", ![r].made = @ + 1]
           /\ UNCHANGED <<runs, exec>>
           /\ (UNCHANGED faults \/ Fault("claim_error"))
  <2>1. job' \in [RunId -> Job]
    BY <1>2, <1>4 DEF Job, JobState
  <2>2. faults' \in Nat /\ disturbed[r] + faults' - faults \in Nat
    BY <1>4, FaultCounted
  <2>3. disturbed' \in [RunId -> Nat]
    BY <1>4, <2>2
  <2> QED BY <1>4, <2>1, <2>2, <2>3 DEF Claim
<1> QED BY <1>3, <1>4 DEF Claim

LEMMA PostTyped ==
    ASSUME AutoTypeOK, NEW x \in Executor, Post(x)
    PROVE  AutoTypeOK'
<1> USE DEF AutoTypeOK, evalVars
<1>1. exec[x].run \in RunId
  BY DEF Post
<1>2. exec' \in [Executor -> Exec]
      /\ \A y \in Executor : exec'[y].pc # "idle" => exec'[y].run \in RunId
  BY <1>1 DEF Post, Exec, ExecPC
<1>3. posts' \in [RunId -> Nat]
  BY <1>1 DEF Post
<1>4. disturbed' \in [RunId -> Nat] /\ faults' \in Nat
  BY <1>1, FaultCounted, DisturbedTyped DEF Post
<1> QED BY <1>2, <1>3, <1>4 DEF Post

LEMMA WriteResultTyped ==
    ASSUME AutoTypeOK, NEW x \in Executor, WriteResult(x)
    PROVE  AutoTypeOK'
<1> USE DEF AutoTypeOK, evalVars
<1>1. exec[x].run \in RunId /\ exec[x].attempts \in Nat
  BY DEF WriteResult, Exec
<1>2. Result(x) \in RunStatus
  BY DEF Result, RunStatus
<1>3. job' \in [RunId -> Job]
  BY <1>1, EndJobTyped DEF WriteResult
<1>4. runs' \in [RunId -> Run]
  BY <1>1, <1>2 DEF WriteResult, Run
<1>5. disturbed' \in [RunId -> Nat] /\ faults' \in Nat
  BY <1>1, FaultCounted, DisturbedTyped DEF WriteResult
<1>6. exec' \in [Executor -> Exec]
      /\ \A y \in Executor : exec'[y].pc # "idle" => exec'[y].run \in RunId
  BY DEF WriteResult, Exec, ExecPC, IdleExec
<1> QED BY <1>3, <1>4, <1>5, <1>6 DEF WriteResult

LEMMA ExecutorCrashTyped ==
    ASSUME AutoTypeOK, NEW x \in Executor, ExecutorCrash(x)
    PROVE  AutoTypeOK'
<1> USE DEF AutoTypeOK, evalVars
<1>1. exec[x].run \in RunId
  BY DEF ExecutorCrash
<1>2. disturbed' \in [RunId -> Nat] /\ faults' \in Nat
  BY <1>1, FaultCounted, DisturbedTyped DEF ExecutorCrash
<1>3. job' \in [RunId -> Job]
  BY <1>1 DEF ExecutorCrash, Job
<1>4. exec' \in [Executor -> Exec]
      /\ \A y \in Executor : exec'[y].pc # "idle" => exec'[y].run \in RunId
  BY DEF ExecutorCrash, Exec, ExecPC, IdleExec
<1> QED BY <1>2, <1>3, <1>4 DEF ExecutorCrash

LEMMA DeliveryTyped ==
    ASSUME AutoTypeOK, NEW r \in RunId, Redeliver(r) \/ Stall(r) \/ Evict(r) \/ DrainRun(r)
    PROVE  AutoTypeOK'
<1> USE DEF AutoTypeOK, evalVars, execVars
<1>1. CASE Redeliver(r)
  BY <1>1, LoseLockTyped DEF Redeliver
<1>2. CASE Stall(r)
  BY <1>2, LoseLockTyped, DisturbedTyped, FaultCounted DEF Stall
<1>3. CASE Evict(r)
  BY <1>3 DEF Evict, Job, JobState, NoJob
<1>4. CASE DrainRun(r)
  BY <1>4, AddTyped DEF DrainRun
<1> QED BY <1>1, <1>2, <1>3, <1>4

LEMMA NextTyped ==
    ASSUME AutoTypeOK, [AutoNext]_autoVars
    PROVE  AutoTypeOK'
<1>1. CASE UNCHANGED autoVars
  BY <1>1 DEF autoVars, AutoTypeOK
<1> QED
  BY <1>1, EvaluationTyped, ClaimTyped, PostTyped, WriteResultTyped, ExecutorCrashTyped,
     DeliveryTyped
  DEF AutoNext, Execute

(* Runs, jobs, evaluations and executions keep their types whatever fails,  *)
(* and a slot that works has a run.                                         *)
THEOREM AutoTypeCorrect == AutoSpec => []AutoTypeOK
BY InitTyped, NextTyped, PTL DEF AutoSpec

-----------------------------------------------------------------------------
(* One delivery per run.  Whoever may still POST a run is a slot whose      *)
(* request is open or has failed, or the next slot to claim it.  All of     *)
(* them together with the deliveries made are one, but for the disturbances *)
(* of the run.                                                              *)

Posters(r) == {x \in Executor : /\ exec[x].run = r
                                /\ \/ exec[x].pc = "post"
                                   \/ exec[x].pc = "write" /\ ~exec[x].ok}

Open(r) == runs[r].status \notin {"sent", "dead"} /\ job[r].owner = None

Claims(r) == IF Open(r) THEN 1 ELSE 0

Budget(r) == posts[r] + Cardinality(Posters(r)) + Claims(r) <= 1 + disturbed[r]

OwnerIsActive == \A r \in RunId : job[r].state # "active" => job[r].owner = None

DeliveryInv == OwnerIsActive /\ \A r \in RunId : Budget(r)

LEMMA PostersFinite ==
    ASSUME NEW r
    PROVE  IsFiniteSet(Posters(r)) /\ Cardinality(Posters(r)) \in Nat
BY RunAssumption, FS_Subset, FS_CardinalityType DEF Posters

LEMMA InitDelivery == AutoInit => DeliveryInv
<1> SUFFICES ASSUME AutoInit PROVE DeliveryInv
  OBVIOUS
<1>1. ASSUME NEW r \in RunId PROVE Budget(r)
  <2>1. Posters(r) = {}
    BY DEF AutoInit, Posters, IdleExec
  <2> QED BY <2>1, FS_EmptySet DEF AutoInit, Budget, Claims
<1>2. OwnerIsActive
  BY DEF AutoInit, OwnerIsActive, NoJob
<1> QED BY <1>1, <1>2 DEF DeliveryInv

(* A step that makes no delivery, starts no request and opens no run keeps  *)
(* the budget; so does one that opens a run and is counted.                 *)
LEMMA BudgetKept ==
    ASSUME AutoTypeOK, AutoTypeOK', NEW r \in RunId, Budget(r),
           posts'[r] = posts[r], Posters(r)' \subseteq Posters(r),
           \/ disturbed'[r] = disturbed[r] /\ (Open(r)' => Open(r))
           \/ disturbed'[r] = disturbed[r] + 1
    PROVE  Budget(r)'
<1>1. Cardinality(Posters(r)') \in Nat
  <2>1. IsFiniteSet(Posters(r)')
    BY PostersFinite, FS_Subset
  <2> QED BY <2>1, FS_CardinalityType
<1>2. Cardinality(Posters(r)') <= Cardinality(Posters(r))
  BY PostersFinite, FS_Subset
<1>3. posts[r] \in Nat /\ disturbed[r] \in Nat
  BY DEF AutoTypeOK
<1> QED BY <1>1, <1>2, <1>3, PostersFinite DEF Budget, Claims

(* A request that ends gives its place to the next claim. *)
LEMMA BudgetPassedOn ==
    ASSUME AutoTypeOK, AutoTypeOK', NEW r \in RunId, Budget(r), NEW x \in Posters(r),
           posts'[r] = posts[r], Posters(r)' = Posters(r) \ {x},
           disturbed'[r] = disturbed[r]
    PROVE  Budget(r)'
<1>1. Cardinality(Posters(r)') = Cardinality(Posters(r)) - 1
  BY PostersFinite, FS_RemoveElement
<1>2. posts[r] \in Nat /\ disturbed[r] \in Nat
  BY DEF AutoTypeOK
<1> QED BY <1>1, <1>2, PostersFinite DEF Budget, Claims

LEMMA AddKeepsOwner ==
    ASSUME AutoTypeOK, OwnerIsActive, NEW r \in RunId, Add(r) \/ UNCHANGED job
    PROVE  OwnerIsActive' /\ \A q \in RunId : job'[q].owner = job[q].owner
<1>1. CASE UNCHANGED job
  BY <1>1 DEF OwnerIsActive
<1>2. CASE job[r].state = "absent" /\ job' = [job EXCEPT ![r] = [NoJob EXCEPT !.state = "waiting"]]
  <2>1. job[r].owner = None
    BY <1>2 DEF OwnerIsActive
  <2>2. [NoJob EXCEPT !.state = "waiting"].owner = None
    BY DEF NoJob
  <2>3. \A q \in RunId : job'[q].owner = job[q].owner
    BY <1>2, <2>1, <2>2 DEF AutoTypeOK
  <2>4. \A q \in RunId : job'[q].state # "active" => job'[q].owner = None
    BY <1>2, <2>2 DEF AutoTypeOK, OwnerIsActive
  <2> QED BY <2>3, <2>4 DEF OwnerIsActive
<1> QED BY <1>1, <1>2 DEF Add

LEMMA EvaluationDelivers ==
    ASSUME AutoTypeOK, AutoTypeOK', DeliveryInv, NEW v \in Evaluator,
           (\E c \in CallKey : BeginEvaluation(v, c)) \/ Evaluate(v) \/ EvaluatorCrash(v)
    PROVE  DeliveryInv'
<1> USE DEF DeliveryInv
<1>1. UNCHANGED <<exec, posts, disturbed>>
  BY DEF BeginEvaluation, Evaluate, FindDuplicate, InsertRun, EnqueueRun, EvaluatorCrash,
         execVars
<1>2. OwnerIsActive' /\ \A q \in RunId : job'[q].owner = job[q].owner
  <2>1. CASE EnqueueRun(v)
    <3>1. eval[v].run \in RunId
      BY <2>1 DEF EnqueueRun, AutoTypeOK
    <3> QED BY <2>1, <3>1, AddKeepsOwner DEF EnqueueRun
  <2>2. CASE UNCHANGED job
    BY <2>2 DEF OwnerIsActive
  <2> QED BY <2>1, <2>2 DEF BeginEvaluation, Evaluate, FindDuplicate, InsertRun, EvaluatorCrash
<1>3. \A q \in RunId : runs'[q].status \notin {"sent", "dead"} => runs[q].status \notin {"sent", "dead"}
  <2>1. CASE InsertRun(v)
    <3> DEFINE chosen == CHOOSE r \in Unused : TRUE
    <3>1. chosen \in Unused
      BY <2>1 DEF InsertRun
    <3>2. \A q \in RunId \ {chosen} : runs'[q] = runs[q]
      BY <2>1 DEF InsertRun, AutoTypeOK
    <3> HIDE DEF chosen
    <3> QED BY <3>1, <3>2 DEF Unused
  <2>2. CASE UNCHANGED runs
    BY <2>2
  <2> QED BY <2>1, <2>2 DEF BeginEvaluation, Evaluate, FindDuplicate, EnqueueRun, EvaluatorCrash
<1>4. \A q \in RunId : Posters(q)' = Posters(q) /\ (Open(q)' => Open(q))
  BY <1>1, <1>2, <1>3 DEF Posters, Open
<1> QED BY <1>1, <1>2, <1>4, BudgetKept

LEMMA ClaimDelivers ==
    ASSUME AutoTypeOK, AutoTypeOK', DeliveryInv, NEW x \in Executor, NEW r \in RunId,
           Claim(x, r)
    PROVE  DeliveryInv'
<1> USE DEF DeliveryInv
<1>1. exec[x].pc = "idle" /\ job[r].state = "waiting" /\ job[r].owner = None
  BY DEF Claim, OwnerIsActive
<1>2. CASE exec' = exec
  <2>1. /\ runs' = runs /\ posts' = posts
        /\ job' = [job EXCEPT ![r].state = "finished", ![r].made = @ + 1]
        /\ disturbed' = [disturbed EXCEPT ![r] = @ + faults' - faults]
        /\ UNCHANGED faults \/ Fault("claim_error")
    <3>1. [IdleExec EXCEPT !.pc = "post", !.run = r,
                           !.attempts = runs[r].attempts + 1].pc = "post"
      BY DEF IdleExec
    <3> QED BY <1>1, <1>2, <3>1 DEF Claim, AutoTypeOK
  <2>2. \A q \in RunId : job'[q].owner = job[q].owner
    BY <2>1 DEF AutoTypeOK, Job
  <2>3. OwnerIsActive'
    BY <1>1, <2>1, <2>2 DEF AutoTypeOK, Job, OwnerIsActive
  <2>4. \A q \in RunId : disturbed'[q] \in {disturbed[q], disturbed[q] + 1}
    BY <2>1, FaultCounted DEF AutoTypeOK
  <2>5. \A q \in RunId : Posters(q)' = Posters(q) /\ (Open(q)' => Open(q))
    BY <1>2, <2>1, <2>2 DEF Posters, Open
  <2> QED BY <2>1, <2>3, <2>4, <2>5, BudgetKept
<1>3. CASE exec' # exec
  <2>1. /\ runs[r].status \in {"queued", "failed"}
        /\ runs' = [runs EXCEPT ![r].status = "queued"]
        /\ exec' = [exec EXCEPT ![x] = [IdleExec EXCEPT !.pc = "post", !.run = r,
                                          !.attempts = runs[r].attempts + 1]]
        /\ job' = [job EXCEPT ![r].state = "active", ![r].owner = x]
        /\ UNCHANGED <<posts, disturbed>>
    BY <1>3 DEF Claim
  <2>2. OwnerIsActive'
    BY <2>1 DEF AutoTypeOK, Job, OwnerIsActive
  <2>3. exec'[x].pc = "post" /\ exec'[x].run = r
    BY <2>1 DEF AutoTypeOK, IdleExec
  <2>4. ASSUME NEW q \in RunId \ {r} PROVE Budget(q)'
    <3>1. Posters(q)' = Posters(q)
      BY <1>1, <2>1, <2>3 DEF Posters, AutoTypeOK
    <3>2. Open(q)' => Open(q)
      BY <2>1 DEF Open, AutoTypeOK
    <3> QED BY <2>1, <3>1, <3>2, BudgetKept
  <2>5. Budget(r)'
    <3>1. x \notin Posters(r) /\ Posters(r)' = Posters(r) \cup {x}
      <4>1. x \notin Posters(r)
        BY <1>1 DEF Posters
      <4>2. x \in Posters(r)'
        BY <2>3 DEF Posters
      <4>3. \A y \in Executor \ {x} : exec'[y] = exec[y]
        BY <2>1 DEF AutoTypeOK
      <4>4. \A y \in Executor \ {x} : y \in Posters(r)' <=> y \in Posters(r)
        BY <4>3 DEF Posters
      <4>5. Posters(r) \subseteq Executor /\ Posters(r)' \subseteq Executor
        BY DEF Posters
      <4> QED BY <4>1, <4>2, <4>4, <4>5
    <3>2. Cardinality(Posters(r)') = Cardinality(Posters(r)) + 1
      BY <3>1, PostersFinite, FS_AddElement
    <3>3. Open(r)
      BY <1>1, <2>1 DEF Open
    <3>4. ~Open(r)'
      BY <2>1, RunAssumption DEF Open, AutoTypeOK, Job
    <3> QED BY <2>1, <3>2, <3>3, <3>4, PostersFinite DEF Budget, Claims, AutoTypeOK
  <2> QED BY <2>2, <2>4, <2>5
<1> QED BY <1>2, <1>3

LEMMA PostDelivers ==
    ASSUME AutoTypeOK, AutoTypeOK', DeliveryInv, NEW x \in Executor, Post(x)
    PROVE  DeliveryInv'
<1>1. PICK r \in RunId : r = exec[x].run
  BY DEF Post, AutoTypeOK
<1>2. r = exec[x].run /\ exec[x].pc = "post"
  BY <1>1 DEF Post, AutoTypeOK
<1>3. UNCHANGED <<runs, job>> /\ OwnerIsActive' /\ \A q \in RunId : Open(q)' = Open(q)
  BY DEF Post, DeliveryInv, OwnerIsActive, Open
<1>4. exec'[x].run = r /\ exec'[x].pc = "write" /\ \A y \in Executor \ {x} : exec'[y] = exec[y]
  BY <1>1 DEF Post, AutoTypeOK, Exec
<1>5. \A q \in RunId \ {r} : posts'[q] = posts[q] /\ disturbed'[q] = disturbed[q]
  BY <1>1, <1>2 DEF Post, AutoTypeOK
<1>6. \A q \in RunId : Posters(q)' \subseteq Posters(q)
  BY <1>2, <1>4 DEF Posters
<1>7. ASSUME NEW q \in RunId \ {r} PROVE Budget(q)'
  <2> QED BY <1>3, <1>5, <1>6, BudgetKept DEF DeliveryInv
<1>8. Budget(r)'
  <2>1. CASE posts' = posts
    <3>1. disturbed'[r] = disturbed[r]
      BY <1>2, <2>1 DEF Post, AutoTypeOK
    <3> QED BY <1>2, <1>3, <1>6, <2>1, <3>1, BudgetKept DEF DeliveryInv
  <2>2. CASE /\ exec' = [exec EXCEPT ![x].pc = "write"]
             /\ posts' = [posts EXCEPT ![r] = @ + 1]
             /\ disturbed' = [disturbed EXCEPT ![r] = @ + 1]
    <3>1. posts'[r] = posts[r] + 1 /\ disturbed'[r] = disturbed[r] + 1
      BY <1>2, <2>2 DEF AutoTypeOK
    <3>2. Cardinality(Posters(r)') \in Nat /\ Cardinality(Posters(r)') <= Cardinality(Posters(r))
      BY <1>6, <1>2, PostersFinite, FS_Subset, FS_CardinalityType
    <3> QED BY <1>2, <1>3, <3>1, <3>2, PostersFinite DEF Budget, Claims, DeliveryInv, AutoTypeOK
  <2>3. CASE /\ exec' = [exec EXCEPT ![x].pc = "write", ![x].ok = TRUE]
             /\ posts' = [posts EXCEPT ![r] = @ + 1]
             /\ disturbed' = disturbed
    <3>1. posts'[r] = posts[r] + 1 /\ exec'[x].ok = TRUE
      BY <1>2, <2>3 DEF AutoTypeOK, Exec
    <3>2. x \in Posters(r) /\ x \notin Posters(r)'
      BY <1>2, <1>4, <3>1 DEF Posters
    <3>3. \A y \in Executor \ {x} : y \in Posters(r)' <=> y \in Posters(r)
      BY <1>4 DEF Posters
    <3>4. Posters(r)' = Posters(r) \ {x}
      <4>1. Posters(r) \subseteq Executor /\ Posters(r)' \subseteq Executor
        BY DEF Posters
      <4> QED BY <3>2, <3>3, <4>1
    <3>5. Cardinality(Posters(r)') = Cardinality(Posters(r)) - 1
      BY <3>2, <3>4, PostersFinite, FS_RemoveElement
    <3> QED BY <1>2, <1>3, <2>3, <3>1, <3>5, PostersFinite
            DEF Budget, Claims, DeliveryInv, AutoTypeOK
  <2> QED BY <1>2, <2>1, <2>2, <2>3 DEF Post
<1> QED BY <1>3, <1>7, <1>8 DEF DeliveryInv

LEMMA WriteResultDelivers ==
    ASSUME AutoTypeOK, AutoTypeOK', DeliveryInv, NEW x \in Executor, WriteResult(x)
    PROVE  DeliveryInv'
<1>1. PICK r \in RunId : r = exec[x].run
  BY DEF WriteResult, AutoTypeOK
<1>2. r = exec[x].run /\ exec[x].pc = "write" /\ UNCHANGED posts
  BY <1>1 DEF WriteResult, AutoTypeOK
<1>3. exec'[x].pc = "idle" /\ \A y \in Executor \ {x} : exec'[y] = exec[y]
  BY DEF WriteResult, AutoTypeOK, IdleExec
<1>4. \A q \in RunId : Posters(q)' = Posters(q) \ {x}
  <2> SUFFICES ASSUME NEW q \in RunId, NEW y \in Executor
               PROVE  y \in Posters(q)' <=> y \in Posters(q) /\ y # x
    BY DEF Posters
  <2> QED BY <1>3 DEF Posters
<1>5. \A q \in RunId \ {r} : runs'[q] = runs[q] /\ job'[q] = job[q] /\ disturbed'[q] = disturbed[q]
  BY <1>1, <1>2 DEF WriteResult, EndJob, AutoTypeOK
<1>6. job'[r].state # "active" => job'[r].owner = None
  <2>1. CASE job[r].owner # x
    BY <1>2, <2>1 DEF WriteResult, EndJob, DeliveryInv, OwnerIsActive
  <2>2. CASE job[r].owner = x
    BY <1>2, <2>2 DEF WriteResult, EndJob, AutoTypeOK, Job
  <2> QED BY <2>1, <2>2
<1>7. OwnerIsActive'
  BY <1>5, <1>6 DEF DeliveryInv, OwnerIsActive
<1>8. ASSUME NEW q \in RunId \ {r} PROVE Budget(q)'
  <2>1. Open(q)' = Open(q)
    BY <1>5 DEF Open
  <2> QED BY <1>2, <1>4, <1>5, <2>1, BudgetKept DEF DeliveryInv
<1>9. Budget(r)'
  <2>1. CASE disturbed'[r] = disturbed[r] + 1
    <3> QED BY <1>2, <1>4, <2>1, BudgetKept DEF DeliveryInv
  <2>2. CASE /\ disturbed' = disturbed
             /\ runs' = [runs EXCEPT ![r].status = Result(x), ![r].attempts = exec[x].attempts]
    <3>1. CASE exec[x].ok
      <4>1. runs'[r].status = "sent"
        BY <1>2, <2>2, <3>1 DEF AutoTypeOK, Run, Result
      <4>2. ~Open(r)'
        BY <4>1 DEF Open
      <4> QED BY <1>2, <1>4, <2>2, <4>2, BudgetKept DEF DeliveryInv
    <3>2. CASE ~exec[x].ok
      <4>1. x \in Posters(r)
        BY <1>2, <3>2 DEF Posters
      <4> QED BY <1>2, <1>4, <2>2, <4>1, BudgetPassedOn DEF DeliveryInv
    <3> QED BY <3>1, <3>2
  <2> QED BY <1>2, <2>1, <2>2 DEF WriteResult, AutoTypeOK
<1> QED BY <1>7, <1>8, <1>9 DEF DeliveryInv

LEMMA ExecutorCrashDelivers ==
    ASSUME AutoTypeOK, AutoTypeOK', DeliveryInv, NEW x \in Executor, ExecutorCrash(x)
    PROVE  DeliveryInv'
<1>1. PICK r \in RunId : r = exec[x].run
  BY DEF ExecutorCrash, AutoTypeOK
<1>2. r = exec[x].run /\ UNCHANGED <<posts, runs>>
  BY <1>1 DEF ExecutorCrash, AutoTypeOK
<1>3. \A q \in RunId : Posters(q)' \subseteq Posters(q)
  BY DEF ExecutorCrash, AutoTypeOK, Posters, IdleExec
<1>4. OwnerIsActive'
  BY <1>1, <1>2 DEF ExecutorCrash, AutoTypeOK, Job, DeliveryInv, OwnerIsActive
<1>5. disturbed'[r] = disturbed[r] + 1
  BY <1>1, <1>2 DEF ExecutorCrash, AutoTypeOK
<1>6. \A q \in RunId \ {r} : job'[q] = job[q] /\ disturbed'[q] = disturbed[q]
  BY <1>1, <1>2 DEF ExecutorCrash, AutoTypeOK
<1>7. \A q \in RunId \ {r} : Open(q)' = Open(q)
  BY <1>2, <1>6 DEF Open
<1> QED BY <1>2, <1>3, <1>4, <1>5, <1>6, <1>7, BudgetKept DEF DeliveryInv

LEMMA JobDelivers ==
    ASSUME AutoTypeOK, AutoTypeOK', DeliveryInv, NEW r \in RunId,
           Redeliver(r) \/ Stall(r) \/ Evict(r) \/ DrainRun(r)
    PROVE  DeliveryInv'
<1>1. UNCHANGED <<runs, exec, posts>> /\ \A q \in RunId : Posters(q)' = Posters(q)
  BY DEF Redeliver, Stall, Evict, DrainRun, execVars, Posters
<1>2. CASE Redeliver(r) \/ Evict(r) \/ DrainRun(r)
  <2>1. OwnerIsActive' /\ \A q \in RunId : job'[q].owner = job[q].owner
    <3>1. CASE Redeliver(r)
      BY <3>1 DEF Redeliver, LoseLock, AutoTypeOK, Job, DeliveryInv, OwnerIsActive
    <3>2. CASE Evict(r)
      BY <3>2 DEF Evict, AutoTypeOK, NoJob, DeliveryInv, OwnerIsActive
    <3>3. CASE DrainRun(r)
      BY <3>3, AddKeepsOwner DEF DrainRun, DeliveryInv
    <3> QED BY <1>2, <3>1, <3>2, <3>3
  <2>2. \A q \in RunId : Open(q)' = Open(q)
    BY <1>1, <2>1 DEF Open
  <2>3. disturbed' = disturbed
    BY <1>2 DEF Redeliver, Evict, DrainRun, execVars
  <2> QED BY <1>1, <2>1, <2>2, <2>3, BudgetKept DEF DeliveryInv
<1>3. CASE Stall(r)
  <2>1. OwnerIsActive'
    BY <1>3 DEF Stall, LoseLock, AutoTypeOK, Job, DeliveryInv, OwnerIsActive
  <2>2. disturbed'[r] = disturbed[r] + 1
    BY <1>3 DEF Stall, AutoTypeOK
  <2>3. \A q \in RunId \ {r} : disturbed'[q] = disturbed[q] /\ job'[q] = job[q]
    BY <1>3 DEF Stall, LoseLock, AutoTypeOK
  <2>4. \A q \in RunId \ {r} : Open(q)' = Open(q)
    BY <1>1, <2>3 DEF Open
  <2> QED BY <1>1, <2>1, <2>2, <2>3, <2>4, BudgetKept DEF DeliveryInv
<1> QED BY <1>2, <1>3

LEMMA NextDelivers ==
    ASSUME AutoTypeOK, DeliveryInv, [AutoNext]_autoVars
    PROVE  DeliveryInv'
<1>1. AutoTypeOK'
  BY NextTyped
<1>2. CASE UNCHANGED autoVars
  BY <1>2 DEF autoVars, DeliveryInv, OwnerIsActive, Budget, Claims, Open, Posters
<1> QED
  BY <1>1, <1>2, EvaluationDelivers, ClaimDelivers, PostDelivers, WriteResultDelivers,
     ExecutorCrashDelivers, JobDelivers
  DEF AutoNext, Execute

(* A run is POSTed successfully at most once beyond its disturbances, for   *)
(* any number of slots, retries, redeliveries and drains.                   *)
THEOREM DeliveredOnce == AutoSpec => []OneDeliveryUnlessDisturbed
<1>1. AutoTypeOK /\ DeliveryInv => OneDeliveryUnlessDisturbed
  <2> SUFFICES ASSUME AutoTypeOK, NEW r \in RunId, Budget(r)
               PROVE  posts[r] <= 1 + disturbed[r]
    BY DEF DeliveryInv, OneDeliveryUnlessDisturbed
  <2> QED BY PostersFinite DEF Budget, Claims, AutoTypeOK
<1> QED BY <1>1, InitDelivery, NextDelivers, AutoTypeCorrect, PTL DEF AutoSpec

-----------------------------------------------------------------------------
(* The lease of a run.  As long as no slot has lost the lock of its job, a  *)
(* slot that works on a run owns the run's job, and the row is as the slot  *)
(* claimed it.                                                              *)

Calm(r) == "stall" \notin Faults \/ disturbed[r] = 0

SlotHasLease ==
    \A x \in Executor :
        LET r == exec[x].run IN
        exec[x].pc # "idle" /\ Calm(r) =>
            /\ job[r].owner = x /\ job[r].state = "active"
            /\ runs[r].status = "queued"
            /\ exec[x].attempts = runs[r].attempts + 1

FreshRow ==
    \A r \in RunId : runs[r].status = "unused" => runs[r].attempts = 0 /\ job[r].state = "absent"

RowBeforeJob ==
    \A v \in Evaluator : eval[v].pc = "enqueue" => runs[eval[v].run].status # "unused"

DueHasAttempts ==
    \A r \in RunId : runs[r].status \in {"queued", "failed"} => runs[r].attempts < MaxAttempts

LeaseInv == OwnerIsActive /\ SlotHasLease /\ FreshRow /\ RowBeforeJob /\ DueHasAttempts

LEMMA InitLease == AutoInit => LeaseInv
BY DEF AutoInit, LeaseInv, OwnerIsActive, SlotHasLease, FreshRow, RowBeforeJob,
       DueHasAttempts, NoRun, NoJob, IdleEval, IdleExec

(* What a step that touches neither the executions nor the disturbances has *)
(* to leave alone.                                                          *)
LEMMA LeaseKept ==
    ASSUME AutoTypeOK, AutoTypeOK', SlotHasLease, UNCHANGED exec,
           \A r \in RunId : disturbed[r] <= disturbed'[r],
           \A r \in RunId : job[r].state = "active" /\ job[r].owner # None /\ Calm(r)' =>
               job'[r].state = "active" /\ job'[r].owner = job[r].owner,
           \A r \in RunId : runs[r].status = "queued" => runs'[r] = runs[r]
    PROVE  SlotHasLease'
<1> SUFFICES ASSUME NEW x \in Executor, exec[x].pc # "idle", NEW r \in RunId, r = exec[x].run,
                    Calm(r)'
             PROVE  /\ job'[r].owner = x /\ job'[r].state = "active"
                    /\ runs'[r].status = "queued"
                    /\ exec[x].attempts = runs'[r].attempts + 1
  BY DEF SlotHasLease, AutoTypeOK
<1>1. Calm(r)
  BY DEF Calm, AutoTypeOK
<1>2. /\ job[r].owner = x /\ job[r].state = "active"
      /\ runs[r].status = "queued"
      /\ exec[x].attempts = runs[r].attempts + 1
  BY <1>1 DEF SlotHasLease
<1> QED BY <1>2, RunAssumption

LEMMA EvaluationLeases ==
    ASSUME AutoTypeOK, AutoTypeOK', LeaseInv, NEW v \in Evaluator,
           (\E c \in CallKey : BeginEvaluation(v, c)) \/ Evaluate(v) \/ EvaluatorCrash(v)
    PROVE  LeaseInv'
<1> USE DEF LeaseInv
<1>1. UNCHANGED <<exec, disturbed>>
  BY DEF BeginEvaluation, Evaluate, FindDuplicate, InsertRun, EnqueueRun, EvaluatorCrash,
         execVars
<1>2. CASE InsertRun(v)
  <2> DEFINE chosen == CHOOSE q \in Unused : TRUE
  <2>1. PICK r \in Unused, s \in {"queued", "failed"} :
          /\ r = chosen
          /\ runs' = [runs EXCEPT ![r] = [NoRun EXCEPT !.status = s, !.call = eval[v].call,
                                                       !.trigger = eval[v].trigger]]
    BY <1>2 DEF InsertRun
  <2>2. r \in RunId /\ runs[r].status = "unused" /\ runs'[r].status = s /\ runs'[r].attempts = 0
    BY <2>1 DEF Unused, AutoTypeOK, NoRun
  <2>3. \A q \in RunId \ {r} : runs'[q] = runs[q]
    BY <2>1 DEF AutoTypeOK
  <2>4. job' = job
    BY <1>2 DEF InsertRun
  <2>5. SlotHasLease'
    BY <1>1, <2>2, <2>3, <2>4, LeaseKept DEF AutoTypeOK
  <2>6. FreshRow' /\ DueHasAttempts'
    BY <2>2, <2>3, <2>4, RunAssumption DEF FreshRow, DueHasAttempts
  <2>7. RowBeforeJob'
    <3> SUFFICES ASSUME NEW w \in Evaluator, eval'[w].pc = "enqueue"
                 PROVE  runs'[eval'[w].run].status # "unused"
      BY DEF RowBeforeJob
    <3>1. CASE w = v
      <4>1. CASE NextTrigger(v)
        BY <3>1, <4>1 DEF AutoTypeOK, NextTrigger, IdleEval, Eval
      <4>2. CASE eval' = [eval EXCEPT ![v].pc = "enqueue", ![v].run = CHOOSE q \in Unused : TRUE]
        <5>1. eval'[v].run = chosen
          BY <4>2 DEF AutoTypeOK, Eval
        <5> HIDE DEF chosen
        <5> QED BY <2>1, <2>2, <3>1, <5>1
      <4> QED BY <1>2, <4>1, <4>2 DEF InsertRun
    <3>2. CASE w # v
      BY <1>2, <2>2, <2>3, <3>2 DEF AutoTypeOK, InsertRun, NextTrigger, RowBeforeJob
    <3> QED BY <3>1, <3>2
  <2> QED BY <2>4, <2>5, <2>6, <2>7 DEF OwnerIsActive
<1>3. CASE EnqueueRun(v)
  <2>1. PICK r \in RunId : r = eval[v].run /\ runs[r].status # "unused" /\ (Add(r) \/ UNCHANGED job)
    BY <1>3 DEF EnqueueRun, AutoTypeOK, RowBeforeJob
  <2>2. OwnerIsActive'
    BY <2>1, AddKeepsOwner
  <2>3. \A q \in RunId : q # r \/ job[q].state # "absent" => job'[q] = job[q]
    BY <2>1 DEF Add, AutoTypeOK
  <2>4. runs' = runs
    BY <1>3 DEF EnqueueRun
  <2>5. SlotHasLease'
    BY <1>1, <2>3, <2>4, LeaseKept DEF AutoTypeOK
  <2>6. FreshRow' /\ DueHasAttempts'
    BY <2>1, <2>3, <2>4 DEF FreshRow, DueHasAttempts
  <2>7. \A w \in Evaluator : eval'[w].pc = "enqueue" => eval'[w] = eval[w]
    BY <1>3 DEF EnqueueRun, NextTrigger, AutoTypeOK, IdleEval, Eval
  <2> QED BY <2>2, <2>4, <2>5, <2>6, <2>7 DEF RowBeforeJob
<1>4. CASE (\E c \in CallKey : BeginEvaluation(v, c)) \/ FindDuplicate(v) \/ EvaluatorCrash(v)
  <2>1. UNCHANGED <<runs, job>>
    BY <1>4 DEF BeginEvaluation, FindDuplicate, EvaluatorCrash
  <2>2. SlotHasLease'
    BY <1>1, <2>1, LeaseKept DEF AutoTypeOK
  <2>3. \A w \in Evaluator : eval'[w].pc = "enqueue" => eval'[w] = eval[w]
    <3>1. ASSUME NEW c \in CallKey, BeginEvaluation(v, c) PROVE eval'[v].pc # "enqueue"
      BY <3>1 DEF BeginEvaluation, AutoTypeOK, IdleEval
    <3>2. CASE FindDuplicate(v)
      BY <3>2, FindIs
    <3>3. CASE EvaluatorCrash(v)
      BY <3>3 DEF EvaluatorCrash, AutoTypeOK, IdleEval
    <3>4. \A w \in Evaluator \ {v} : eval'[w] = eval[w]
      BY <1>4 DEF BeginEvaluation, FindDuplicate, EvaluatorCrash, AutoTypeOK
    <3> QED BY <1>4, <3>1, <3>2, <3>3, <3>4
  <2> QED BY <2>1, <2>2, <2>3 DEF OwnerIsActive, FreshRow, RowBeforeJob, DueHasAttempts
<1> QED BY <1>2, <1>3, <1>4 DEF Evaluate

LEMMA ClaimLeases ==
    ASSUME AutoTypeOK, AutoTypeOK', LeaseInv, NEW x \in Executor, NEW r \in RunId,
           Claim(x, r)
    PROVE  LeaseInv'
<1> USE DEF LeaseInv
<1>1. exec[x].pc = "idle" /\ job[r].state = "waiting" /\ job[r].owner = None /\ UNCHANGED eval
  BY DEF Claim, OwnerIsActive, evalVars
<1>2. \A q \in RunId \ {r} : runs'[q] = runs[q] /\ job'[q] = job[q]
  BY DEF Claim, AutoTypeOK
<1>3. CASE /\ runs[r].status \in {"queued", "failed"}
           /\ runs' = [runs EXCEPT ![r].status = "queued"]
           /\ exec' = [exec EXCEPT ![x] = [IdleExec EXCEPT !.pc = "post", !.run = r,
                                             !.attempts = runs[r].attempts + 1]]
           /\ job' = [job EXCEPT ![r].state = "active", ![r].owner = x]
           /\ UNCHANGED <<disturbed, faults>>
  <2>1. /\ runs'[r].status = "queued" /\ runs'[r].attempts = runs[r].attempts
        /\ job'[r].owner = x /\ job'[r].state = "active"
    BY <1>3 DEF AutoTypeOK, Run, Job
  <2>2. exec'[x].run = r /\ exec'[x].attempts = runs[r].attempts + 1
    BY <1>3 DEF AutoTypeOK, IdleExec
  <2>3. \A y \in Executor \ {x} : exec'[y] = exec[y]
    BY <1>3 DEF AutoTypeOK
  <2>4. SlotHasLease'
    <3> SUFFICES ASSUME NEW y \in Executor, exec'[y].pc # "idle", NEW q \in RunId,
                        q = exec'[y].run, Calm(q)'
                 PROVE  /\ job'[q].owner = y /\ job'[q].state = "active"
                        /\ runs'[q].status = "queued"
                        /\ exec'[y].attempts = runs'[q].attempts + 1
      BY DEF SlotHasLease, AutoTypeOK
    <3>1. CASE y = x
      BY <2>1, <2>2, <3>1
    <3>2. CASE y # x
      <4>1. exec'[y] = exec[y] /\ Calm(q)
        BY <1>3, <2>3, <3>2 DEF Calm
      <4>2. q # r
        BY <1>1, <4>1, RunAssumption DEF SlotHasLease
      <4> QED BY <1>2, <4>1, <4>2 DEF SlotHasLease
    <3> QED BY <3>1, <3>2
  <2>5. OwnerIsActive'
    BY <1>2, <2>1 DEF OwnerIsActive
  <2>6. FreshRow' /\ RowBeforeJob' /\ DueHasAttempts'
    BY <1>1, <1>2, <1>3, <2>1 DEF FreshRow, RowBeforeJob, DueHasAttempts, AutoTypeOK
  <2> QED BY <2>4, <2>5, <2>6
<1>4. CASE /\ disturbed' = [disturbed EXCEPT ![r] = @ + faults' - faults]
           /\ job' = [job EXCEPT ![r].state = "finished", ![r].made = @ + 1]
           /\ UNCHANGED <<runs, exec>>
           /\ UNCHANGED faults \/ Fault("claim_error")
  <2>1. job'[r].owner = job[r].owner /\ job'[r].state = "finished"
    BY <1>4 DEF AutoTypeOK, Job
  <2>2. \A q \in RunId : disturbed[q] <= disturbed'[q]
    BY <1>4, FaultCounted DEF AutoTypeOK
  <2>3. SlotHasLease'
    BY <1>1, <1>2, <1>4, <2>2, LeaseKept
  <2>4. OwnerIsActive'
    BY <1>1, <1>2, <2>1 DEF OwnerIsActive
  <2>5. FreshRow' /\ RowBeforeJob' /\ DueHasAttempts'
    BY <1>1, <1>2, <1>4 DEF FreshRow, RowBeforeJob, DueHasAttempts
  <2> QED BY <2>3, <2>4, <2>5
<1> QED BY <1>3, <1>4 DEF Claim

LEMMA PostLeases ==
    ASSUME AutoTypeOK, AutoTypeOK', LeaseInv, NEW x \in Executor, Post(x)
    PROVE  LeaseInv'
<1>1. UNCHANGED <<runs, job, eval>> /\ \A r \in RunId : disturbed[r] <= disturbed'[r]
  BY DEF Post, evalVars, AutoTypeOK
<1>2. exec[x].pc # "idle" /\ \A y \in Executor :
        exec'[y].run = exec[y].run /\ exec'[y].attempts = exec[y].attempts /\
        (exec'[y].pc # "idle" => exec[y].pc # "idle")
  BY DEF Post, AutoTypeOK, Exec
<1>3. \A r \in RunId : Calm(r)' => Calm(r)
  BY <1>1 DEF Calm, AutoTypeOK
<1>4. SlotHasLease'
  BY <1>1, <1>2, <1>3 DEF LeaseInv, SlotHasLease, AutoTypeOK
<1> QED BY <1>1, <1>4 DEF LeaseInv, OwnerIsActive, FreshRow, RowBeforeJob, DueHasAttempts

(* A slot that returns leaves the leases of the others alone. *)
LEMMA SlotReturns ==
    ASSUME AutoTypeOK, AutoTypeOK', LeaseInv, NEW x \in Executor, NEW r \in RunId,
           r = exec[x].run, exec[x].pc # "idle", exec'[x].pc = "idle",
           \A y \in Executor \ {x} : exec'[y] = exec[y],
           \A q \in RunId \ {r} : runs'[q] = runs[q] /\ job'[q] = job[q],
           \A q \in RunId : disturbed[q] <= disturbed'[q]
    PROVE  SlotHasLease'
<1> SUFFICES ASSUME NEW y \in Executor \ {x}, exec[y].pc # "idle", NEW q \in RunId,
                    q = exec[y].run, Calm(q)'
             PROVE  /\ job'[q].owner = y /\ job'[q].state = "active"
                    /\ runs'[q].status = "queued"
                    /\ exec[y].attempts = runs'[q].attempts + 1
  BY DEF SlotHasLease, AutoTypeOK
<1>1. Calm(q)
  BY DEF Calm, AutoTypeOK
<1>2. q # r
  BY <1>1 DEF LeaseInv, SlotHasLease
<1> QED BY <1>1, <1>2 DEF LeaseInv, SlotHasLease

LEMMA WriteResultLeases ==
    ASSUME AutoTypeOK, AutoTypeOK', LeaseInv, NEW x \in Executor, WriteResult(x)
    PROVE  LeaseInv'
<1>1. PICK r \in RunId : r = exec[x].run
  BY DEF WriteResult, AutoTypeOK
<1>2. /\ exec[x].pc # "idle" /\ exec'[x].pc = "idle"
      /\ \A y \in Executor \ {x} : exec'[y] = exec[y]
  BY DEF WriteResult, AutoTypeOK, IdleExec
<1>3. /\ UNCHANGED eval
      /\ \A q \in RunId \ {r} : runs'[q] = runs[q] /\ job'[q] = job[q]
      /\ \A q \in RunId : disturbed[q] <= disturbed'[q]
  BY <1>1 DEF WriteResult, EndJob, AutoTypeOK, evalVars
<1>4. SlotHasLease'
  BY <1>1, <1>2, <1>3, SlotReturns
<1>5. job'[r] = job[r] \/ (job[r].state = "active" /\ job'[r].owner = None /\ job'[r].state # "absent")
  <2>1. CASE job[r].owner = x
    BY <1>1, <2>1, RunAssumption
    DEF WriteResult, EndJob, AutoTypeOK, Job, LeaseInv, OwnerIsActive
  <2>2. CASE job[r].owner # x
    BY <1>1, <2>2 DEF WriteResult, EndJob
  <2> QED BY <2>1, <2>2
<1>6. OwnerIsActive'
  BY <1>3, <1>5 DEF LeaseInv, OwnerIsActive
<1>7. \/ runs' = runs
      \/ /\ runs'[r].status = Result(x) /\ runs'[r].attempts = exec[x].attempts
  BY <1>1 DEF WriteResult, AutoTypeOK, Run
<1>8. FreshRow'
  BY <1>3, <1>5, <1>7 DEF LeaseInv, FreshRow, Result
<1>9. RowBeforeJob'
  BY <1>3, <1>7 DEF LeaseInv, RowBeforeJob, Result, AutoTypeOK
<1>10. DueHasAttempts'
  BY <1>1, <1>3, <1>7, RunAssumption
  DEF LeaseInv, DueHasAttempts, Result, Dead, AutoTypeOK, Exec
<1> QED BY <1>4, <1>6, <1>8, <1>9, <1>10 DEF LeaseInv

LEMMA ExecutorCrashLeases ==
    ASSUME AutoTypeOK, AutoTypeOK', LeaseInv, NEW x \in Executor, ExecutorCrash(x)
    PROVE  LeaseInv'
<1>1. PICK r \in RunId : r = exec[x].run
  BY DEF ExecutorCrash, AutoTypeOK
<1>2. /\ exec[x].pc # "idle" /\ exec'[x].pc = "idle"
      /\ \A y \in Executor \ {x} : exec'[y] = exec[y]
  BY DEF ExecutorCrash, AutoTypeOK, IdleExec
<1>3. /\ UNCHANGED <<runs, eval>>
      /\ \A q \in RunId \ {r} : job'[q] = job[q]
      /\ \A q \in RunId : disturbed[q] <= disturbed'[q]
  BY <1>1 DEF ExecutorCrash, AutoTypeOK, evalVars
<1>4. SlotHasLease'
  BY <1>1, <1>2, <1>3, SlotReturns
<1>5. job'[r].state = job[r].state /\ job'[r].owner \in {job[r].owner, None}
  BY <1>1 DEF ExecutorCrash, AutoTypeOK, Job
<1> QED BY <1>3, <1>4, <1>5
        DEF LeaseInv, OwnerIsActive, FreshRow, RowBeforeJob, DueHasAttempts

LEMMA JobLeases ==
    ASSUME AutoTypeOK, AutoTypeOK', LeaseInv, NEW r \in RunId,
           Redeliver(r) \/ Stall(r) \/ Evict(r) \/ DrainRun(r)
    PROVE  LeaseInv'
<1>1. /\ UNCHANGED <<runs, exec, eval>>
      /\ \A q \in RunId \ {r} : job'[q] = job[q]
      /\ \A q \in RunId : disturbed[q] <= disturbed'[q]
  BY DEF Redeliver, Stall, Evict, DrainRun, LoseLock, Add, execVars, evalVars, AutoTypeOK
<1>2. CASE Redeliver(r) \/ Stall(r)
  <2>1. job'[r].owner = None /\ job'[r].state # "absent" /\ job[r].state # "absent"
    <3>1. job[r].state = "active"
      BY <1>2 DEF Redeliver, Stall, LeaseInv, OwnerIsActive
    <3>2. LoseLock(r)
      BY <1>2 DEF Redeliver, Stall
    <3>3. job'[r].owner = None /\ job'[r].state \in {"finished", "waiting"}
      BY <3>2 DEF LoseLock, AutoTypeOK, Job
    <3> QED BY <3>1, <3>3
  <2>2. job[r].owner # None => ~Calm(r)'
    BY <1>2 DEF Redeliver, Stall, Fault, Calm, AutoTypeOK
  <2>3. SlotHasLease'
    BY <1>1, <2>2, LeaseKept DEF LeaseInv
  <2> QED BY <1>1, <2>1, <2>3
          DEF LeaseInv, OwnerIsActive, FreshRow, RowBeforeJob, DueHasAttempts
<1>3. CASE Evict(r) \/ DrainRun(r)
  <2>1. OwnerIsActive'
    <3>1. CASE Evict(r)
      BY <1>1, <3>1 DEF Evict, LeaseInv, OwnerIsActive, AutoTypeOK, NoJob
    <3>2. CASE DrainRun(r)
      BY <3>2, AddKeepsOwner DEF DrainRun, LeaseInv
    <3> QED BY <1>3, <3>1, <3>2
  <2>2. job[r].state = "active" => job'[r] = job[r]
    BY <1>3 DEF Evict, DrainRun, Add
  <2>3. SlotHasLease'
    BY <1>1, <2>2, LeaseKept DEF LeaseInv
  <2>4. FreshRow'
    <3>1. runs[r].status = "unused" => job'[r].state = "absent"
      BY <1>3 DEF Evict, DrainRun, Due, AutoTypeOK, NoJob
    <3> QED BY <1>1, <3>1 DEF LeaseInv, FreshRow
  <2> QED BY <1>1, <2>1, <2>3, <2>4 DEF LeaseInv, RowBeforeJob, DueHasAttempts
<1> QED BY <1>2, <1>3

LEMMA NextLeases ==
    ASSUME AutoTypeOK, LeaseInv, [AutoNext]_autoVars
    PROVE  LeaseInv'
<1>1. AutoTypeOK'
  BY NextTyped
<1>2. CASE UNCHANGED autoVars
  BY <1>2 DEF autoVars, LeaseInv, OwnerIsActive, SlotHasLease, Calm, FreshRow,
              RowBeforeJob, DueHasAttempts
<1> QED
  BY <1>1, <1>2, EvaluationLeases, ClaimLeases, PostLeases, WriteResultLeases,
     ExecutorCrashLeases, JobLeases
  DEF AutoNext, Execute

-----------------------------------------------------------------------------
(* Refinement of Delivery. *)

DeliverySafety == D!Init /\ [][D!Next]_(D!vars)

LEMMA InitImplements == AutoInit => D!Init
BY DEF AutoInit, D!Init, RunPhase, RunTries, PhaseOf, NoRun

(* What a step shows of itself to Delivery when it touches one run at most. *)
LEMMA OneRunTouched ==
    ASSUME AutoTypeOK, AutoTypeOK', NEW r \in RunId,
           \A q \in RunId \ {r} : runs'[q] = runs[q] /\ job'[q] = job[q]
    PROVE  /\ RunPhase' = [RunPhase EXCEPT ![r] = PhaseOf(runs'[r].status, job'[r].state)]
           /\ RunTries' = [RunTries EXCEPT ![r] = runs'[r].attempts]
BY DEF RunPhase, RunTries

LEMMA NoRunTouched ==
    ASSUME UNCHANGED <<runs, job>>
    PROVE  UNCHANGED D!vars
BY DEF D!vars, RunPhase, RunTries, PhaseOf

(* A step of one job mislays its run, finds it, or shows nothing.           *)
LEMMA JobImplements ==
    ASSUME AutoTypeOK, AutoTypeOK', NEW r \in RunId, UNCHANGED runs,
           \A q \in RunId \ {r} : job'[q] = job[q]
    PROVE  [D!Next]_(D!vars)
<1> DEFINE old == PhaseOf(runs[r].status, job[r].state)
           new == PhaseOf(runs[r].status, job'[r].state)
<1>1. /\ RunPhase[r] = old /\ RunTries' = RunTries
      /\ RunPhase' = [RunPhase EXCEPT ![r] = new]
  BY OneRunTouched DEF RunPhase, RunTries
<1>2. \/ old = new
      \/ old = "due" /\ new = "stuck"
      \/ old = "stuck" /\ new = "due"
  BY DEF PhaseOf, AutoTypeOK, Run, RunStatus
<1>3. CASE old = new
  BY <1>1, <1>3 DEF D!vars, RunPhase
<1> HIDE DEF old, new
<1>4. CASE old = "due" /\ new = "stuck"
  BY <1>1, <1>4 DEF D!Next, D!Mislay, D!Move
<1>5. CASE old = "stuck" /\ new = "due"
  BY <1>1, <1>5 DEF D!Next, D!Find, D!Move
<1> QED BY <1>2, <1>3, <1>4, <1>5

LEMMA InsertImplements ==
    ASSUME AutoTypeOK, AutoTypeOK', LeaseInv, NEW v \in Evaluator, InsertRun(v)
    PROVE  D!Next
<1>1. PICK r \in Unused, s \in {"queued", "failed"} :
        /\ job' = job
        /\ runs' = [runs EXCEPT ![r] = [NoRun EXCEPT !.status = s, !.call = eval[v].call,
                                                     !.trigger = eval[v].trigger]]
  BY DEF InsertRun
<1>2. /\ r \in RunId /\ runs[r].status = "unused" /\ runs[r].attempts = 0
      /\ runs'[r].status = s /\ runs'[r].attempts = 0 /\ job[r].state # "finished"
      /\ \A q \in RunId \ {r} : runs'[q] = runs[q] /\ job'[q] = job[q]
  BY <1>1 DEF Unused, AutoTypeOK, NoRun, LeaseInv, FreshRow
<1>3. RunPhase[r] = "none" /\ PhaseOf(runs'[r].status, job'[r].state) = "due"
  BY <1>1, <1>2 DEF RunPhase, PhaseOf
<1>4. RunTries' = RunTries
  BY <1>2 DEF RunTries
<1>5. D!Submit(r)
  BY <1>2, <1>3, <1>4, OneRunTouched DEF D!Submit, D!Move
<1> QED BY <1>2, <1>5 DEF D!Next

LEMMA ClaimImplements ==
    ASSUME AutoTypeOK, AutoTypeOK', NEW x \in Executor, NEW r \in RunId, Claim(x, r)
    PROVE  [D!Next]_(D!vars)
<1>1. CASE UNCHANGED runs
  <2>1. \A q \in RunId \ {r} : job'[q] = job[q]
    BY DEF Claim, AutoTypeOK
  <2> QED BY <1>1, <2>1, JobImplements
<1>2. CASE /\ runs[r].status \in {"queued", "failed"}
           /\ runs' = [runs EXCEPT ![r].status = "queued"]
           /\ job' = [job EXCEPT ![r].state = "active", ![r].owner = x]
  <2>1. /\ runs'[r].status = "queued" /\ runs'[r].attempts = runs[r].attempts
        /\ job[r].state = "waiting" /\ job'[r].state = "active"
        /\ \A q \in RunId \ {r} : runs'[q] = runs[q] /\ job'[q] = job[q]
    BY <1>2 DEF AutoTypeOK, Run, Job, Claim
  <2>2. PhaseOf(runs'[r].status, job'[r].state) = PhaseOf(runs[r].status, job[r].state)
    BY <1>2, <2>1 DEF PhaseOf
  <2> QED BY <2>1, <2>2 DEF D!vars, RunPhase, RunTries
<1> QED BY <1>1, <1>2 DEF Claim

LEMMA WriteResultImplements ==
    ASSUME "stall" \notin Faults, AutoTypeOK, AutoTypeOK', LeaseInv,
           NEW x \in Executor, WriteResult(x)
    PROVE  [D!Next]_(D!vars)
<1>1. PICK r \in RunId : r = exec[x].run
  BY DEF WriteResult, AutoTypeOK
<1>2. \A q \in RunId \ {r} : job'[q] = job[q]
  BY <1>1 DEF WriteResult, EndJob, AutoTypeOK
<1>3. CASE UNCHANGED runs
  BY <1>2, <1>3, JobImplements
<1>4. CASE runs' # runs
  <2> DEFINE new == PhaseOf(runs'[r].status, job'[r].state)
  <2>1. /\ runs'[r].status = Result(x) /\ runs'[r].attempts = exec[x].attempts
        /\ \A q \in RunId \ {r} : runs'[q] = runs[q]
    BY <1>1, <1>4 DEF WriteResult, AutoTypeOK, Run
  <2>2. runs[r].status = "queued" /\ exec[x].attempts = runs[r].attempts + 1
    BY <1>1 DEF LeaseInv, SlotHasLease, Calm, WriteResult
  <2>3. runs[r].attempts \in Nat /\ runs[r].attempts < MaxAttempts
    BY <2>2 DEF LeaseInv, DueHasAttempts, AutoTypeOK, Run
  <2>4. RunPhase[r] \in D!Unsettled /\ RunTries[r] = runs[r].attempts
    BY <2>2 DEF RunPhase, RunTries, PhaseOf, D!Unsettled
  <2>5. RunTries' = [RunTries EXCEPT ![r] = @ + 1]
    BY <1>2, <2>1, <2>2, <2>4, OneRunTouched DEF RunTries
  <2>6. D!Finish(r, new)
    BY <1>2, <2>1, <2>4, <2>5, OneRunTouched DEF D!Finish
  <2>7. CASE exec[x].ok
    <3>1. new = "done"
      BY <2>1, <2>7 DEF Result, PhaseOf
    <3> QED BY <2>6, <3>1 DEF D!Next, D!Attempt, D!Deliver
  <2>8. CASE ~exec[x].ok /\ Dead(x)
    <3>1. new = "dropped"
      BY <2>1, <2>8 DEF Result, PhaseOf
    <3>2. RunTries[r] + 1 = MaxAttempts
      BY <2>2, <2>3, <2>4, <2>8, RunAssumption DEF Dead
    <3> QED BY <2>6, <3>1, <3>2 DEF D!Next, D!Attempt, D!GiveUp
  <2>9. CASE ~exec[x].ok /\ ~Dead(x)
    <3>1. new \in D!Unsettled
      BY <2>1, <2>9 DEF Result, PhaseOf, D!Unsettled
    <3>2. RunTries[r] + 1 < MaxAttempts
      BY <2>2, <2>3, <2>4, <2>9, RunAssumption DEF Dead
    <3> HIDE DEF new
    <3> QED BY <2>6, <3>1, <3>2 DEF D!Next, D!Attempt, D!Fail
  <2> QED BY <2>7, <2>8, <2>9
<1> QED BY <1>3, <1>4

LEMMA NextImplements ==
    ASSUME "stall" \notin Faults, AutoTypeOK, LeaseInv, [AutoNext]_autoVars
    PROVE  [D!Next]_(D!vars)
<1>1. AutoTypeOK'
  BY NextTyped
<1>2. ASSUME UNCHANGED <<runs, job>> PROVE [D!Next]_(D!vars)
  BY <1>2, NoRunTouched
<1>3. ASSUME NEW r \in RunId, UNCHANGED runs, Add(r) PROVE [D!Next]_(D!vars)
  <2>1. \A q \in RunId \ {r} : job'[q] = job[q]
    BY <1>3 DEF Add, AutoTypeOK
  <2> QED BY <1>1, <1>3, <2>1, JobImplements
<1>4. ASSUME NEW v \in Evaluator, InsertRun(v) PROVE [D!Next]_(D!vars)
  BY <1>1, <1>4, InsertImplements
<1>5. ASSUME NEW v \in Evaluator, EnqueueRun(v) PROVE [D!Next]_(D!vars)
  <2>1. eval[v].run \in RunId
    BY <1>5 DEF EnqueueRun, AutoTypeOK
  <2> QED BY <1>2, <1>3, <1>5, <2>1 DEF EnqueueRun
<1>6. ASSUME NEW v \in Evaluator,
             (\E c \in CallKey : BeginEvaluation(v, c)) \/ FindDuplicate(v) \/ EvaluatorCrash(v)
      PROVE  [D!Next]_(D!vars)
  BY <1>2, <1>6 DEF BeginEvaluation, FindDuplicate, EvaluatorCrash
<1>7. ASSUME NEW x \in Executor, Post(x) PROVE [D!Next]_(D!vars)
  BY <1>2, <1>7 DEF Post
<1>8. ASSUME NEW x \in Executor, ExecutorCrash(x) PROVE [D!Next]_(D!vars)
  <2>1. PICK r \in RunId : r = exec[x].run
    BY <1>8 DEF ExecutorCrash, AutoTypeOK
  <2>2. UNCHANGED runs /\ \A q \in RunId \ {r} : job'[q] = job[q]
    BY <1>8, <2>1 DEF ExecutorCrash, AutoTypeOK
  <2> QED BY <1>1, <2>2, JobImplements
<1>9. ASSUME NEW r \in RunId, Redeliver(r) \/ Stall(r) \/ Evict(r) \/ DrainRun(r)
      PROVE  [D!Next]_(D!vars)
  <2>1. UNCHANGED runs /\ \A q \in RunId \ {r} : job'[q] = job[q]
    BY <1>9 DEF Redeliver, Stall, Evict, DrainRun, LoseLock, Add, AutoTypeOK
  <2> QED BY <1>1, <2>1, JobImplements
<1>10. CASE UNCHANGED autoVars
  BY <1>2, <1>10 DEF autoVars
<1> QED
  BY <1>1, <1>4, <1>5, <1>6, <1>7, <1>8, <1>9, <1>10, ClaimImplements,
     WriteResultImplements
  DEF AutoNext, Execute, Evaluate

(* While no slot loses its lock, evaluation, worker, BullMQ and drain       *)
(* implement the safety part of Delivery: attempts are counted one by one,  *)
(* none is made beyond max_attempts, and what is sent or dead stays so, for *)
(* any number of calls, runs and slots and with every other failure.        *)
THEOREM RunsImplementDelivery ==
    ASSUME "stall" \notin Faults
    PROVE  AutoSpec => DeliverySafety
BY InitImplements, InitLease, NextLeases, NextImplements, AutoTypeCorrect, PTL
   DEF AutoSpec, DeliverySafety

-----------------------------------------------------------------------------
(* A finished job needs no successor, or has made all its attempts: the     *)
(* attempts of a job never outnumber those of its run.                      *)

SettledJob(r) ==
    disturbed[r] = 0 =>
        /\ job[r].state = "finished"
             => runs[r].status \in {"sent", "dead"} \/ runs[r].attempts >= JobAttempts
        /\ job[r].state = "active" => job[r].owner # None
        /\ job[r].state \in {"waiting", "active"} /\ runs[r].status \in {"queued", "failed"}
             => job[r].made <= runs[r].attempts

FinishedInv == \A r \in RunId : SettledJob(r)

LEMMA AddSettles ==
    ASSUME AutoTypeOK, NEW r \in RunId, Add(r), UNCHANGED <<runs, disturbed>>,
           NEW q \in RunId, SettledJob(q)
    PROVE  SettledJob(q)'
<1>1. CASE job' = job
  BY <1>1 DEF SettledJob
<1>2. CASE job' = [job EXCEPT ![r] = [NoJob EXCEPT !.state = "waiting"]]
  <2>1. CASE q = r
    <3>1. job'[r].state = "waiting" /\ job'[r].made = 0
      BY <1>2 DEF AutoTypeOK, NoJob
    <3>2. runs[r].attempts >= 0
      BY DEF AutoTypeOK, Run
    <3> QED BY <2>1, <3>1, <3>2 DEF SettledJob
  <2>2. CASE q # r
    BY <1>2, <2>2 DEF SettledJob, AutoTypeOK
  <2> QED BY <2>1, <2>2
<1> QED BY <1>1, <1>2 DEF Add

LEMMA ClaimSettles ==
    ASSUME AutoTypeOK, LeaseInv, NEW x \in Executor, NEW r \in RunId, Claim(x, r),
           NEW q \in RunId, SettledJob(q)
    PROVE  SettledJob(q)'
<1>1. CASE q # r
  BY <1>1 DEF Claim, AutoTypeOK, SettledJob
<1>2. CASE q = r /\ disturbed'[r] = 0
  <2>1. disturbed[r] = 0 /\ job[r].state = "waiting"
    BY <1>2, FaultCounted DEF Claim, AutoTypeOK
  <2>2. CASE /\ runs[r].status \in {"queued", "failed"}
             /\ runs' = [runs EXCEPT ![r].status = "queued"]
             /\ job' = [job EXCEPT ![r].state = "active", ![r].owner = x]
    <3>1. /\ job'[r].state = "active" /\ job'[r].owner = x /\ job'[r].made = job[r].made
          /\ runs'[r].attempts = runs[r].attempts
      BY <2>2 DEF AutoTypeOK, Job, Run
    <3> QED BY <1>2, <2>1, <2>2, <3>1, RunAssumption DEF SettledJob
  <2>3. CASE /\ runs[r].status \notin {"queued", "failed"} /\ UNCHANGED runs
             /\ job' = [job EXCEPT ![r].state = "finished", ![r].made = @ + 1]
    <3>1. job'[r].state = "finished"
      BY <2>3 DEF AutoTypeOK, Job
    <3>2. runs[r].status \in {"sent", "dead"}
      BY <2>1, <2>3 DEF LeaseInv, FreshRow, AutoTypeOK, Run, RunStatus
    <3> QED BY <1>2, <2>3, <3>1, <3>2 DEF SettledJob
  <2>4. ~Fault("claim_error")
    BY <1>2, <2>1, FaultCounted DEF Claim, AutoTypeOK
  <2> QED BY <2>2, <2>3, <2>4 DEF Claim
<1> QED BY <1>1, <1>2 DEF SettledJob

LEMMA WriteResultSettles ==
    ASSUME AutoTypeOK, LeaseInv, NEW x \in Executor, WriteResult(x),
           NEW q \in RunId, SettledJob(q)
    PROVE  SettledJob(q)'
<1>1. PICK r \in RunId : r = exec[x].run
  BY DEF WriteResult, AutoTypeOK
<1>2. CASE q # r
  <2>1. runs'[q] = runs[q] /\ job'[q] = job[q] /\ disturbed'[q] = disturbed[q]
    BY <1>1, <1>2 DEF WriteResult, EndJob, AutoTypeOK
  <2> QED BY <2>1 DEF SettledJob
<1>3. CASE q = r /\ disturbed'[r] = 0
  <2>1. disturbed' = disturbed /\ disturbed[r] = 0
        /\ runs' = [runs EXCEPT ![r].status = Result(x), ![r].attempts = exec[x].attempts]
    BY <1>1, <1>3 DEF WriteResult, AutoTypeOK
  <2>2. /\ runs'[r].status = Result(x) /\ runs'[r].attempts = runs[r].attempts + 1
        /\ job[r].owner = x /\ job[r].state = "active" /\ runs[r].status = "queued"
        /\ exec[x].attempts = runs[r].attempts + 1
    BY <1>1, <2>1 DEF WriteResult, LeaseInv, SlotHasLease, Calm, AutoTypeOK, Run
  <2>3. job[r].made <= runs[r].attempts /\ job[r].made \in Nat /\ runs[r].attempts \in Nat
    BY <1>3, <2>1, <2>2 DEF SettledJob, AutoTypeOK, Job, Run
  <2>4. /\ job'[r].made = job[r].made + 1
        /\ job'[r].state = IF Result(x) = "failed" /\ job[r].made + 1 < JobAttempts
                           THEN "waiting" ELSE "finished"
    BY <1>1, <2>2 DEF WriteResult, EndJob, AutoTypeOK, Job
  <2>5. CASE Result(x) = "failed"
    <3>1. CASE job[r].made + 1 < JobAttempts
      BY <1>3, <2>2, <2>3, <2>4, <2>5, <3>1 DEF SettledJob
    <3>2. CASE ~(job[r].made + 1 < JobAttempts)
      <4>1. runs[r].attempts + 1 >= JobAttempts
        BY <2>3, <3>2, RunAssumption
      <4>2. job'[r].state = "finished"
        BY <2>4, <3>2
      <4> QED BY <1>3, <2>2, <4>1, <4>2 DEF SettledJob
    <3> QED BY <3>1, <3>2
  <2>6. CASE Result(x) \in {"sent", "dead"}
    BY <1>3, <2>2, <2>4, <2>6 DEF SettledJob
  <2> QED BY <2>5, <2>6 DEF Result
<1> QED BY <1>2, <1>3 DEF SettledJob

LEMMA NextSettles ==
    ASSUME AutoTypeOK, LeaseInv, FinishedInv, [AutoNext]_autoVars
    PROVE  FinishedInv'
<1> SUFFICES ASSUME NEW q \in RunId, SettledJob(q) PROVE SettledJob(q)'
  BY DEF FinishedInv
<1>1. ASSUME UNCHANGED <<runs, job, disturbed>> PROVE SettledJob(q)'
  BY <1>1 DEF SettledJob
<1>2. ASSUME NEW v \in Evaluator,
             (\E c \in CallKey : BeginEvaluation(v, c)) \/ FindDuplicate(v) \/ EvaluatorCrash(v)
      PROVE  SettledJob(q)'
  BY <1>1, <1>2 DEF BeginEvaluation, FindDuplicate, EvaluatorCrash, execVars
<1>3. ASSUME NEW v \in Evaluator, InsertRun(v) PROVE SettledJob(q)'
  <2> DEFINE chosen == CHOOSE r \in Unused : TRUE
  <2>1. chosen \in Unused /\ UNCHANGED <<job, disturbed>>
        /\ \A r \in RunId \ {chosen} : runs'[r] = runs[r]
    BY <1>3 DEF InsertRun, AutoTypeOK, execVars
  <2> HIDE DEF chosen
  <2>2. CASE q = chosen
    BY <2>1, <2>2 DEF SettledJob, Unused, LeaseInv, FreshRow
  <2>3. CASE q # chosen
    BY <2>1, <2>3 DEF SettledJob
  <2> QED BY <2>2, <2>3
<1>4. ASSUME NEW v \in Evaluator, EnqueueRun(v) PROVE SettledJob(q)'
  <2>1. eval[v].run \in RunId /\ UNCHANGED <<runs, disturbed>>
    BY <1>4 DEF EnqueueRun, AutoTypeOK, execVars
  <2> QED BY <1>1, <1>4, <2>1, AddSettles DEF EnqueueRun
<1>5. ASSUME NEW x \in Executor, Post(x) PROVE SettledJob(q)'
  <2>1. UNCHANGED <<runs, job>> /\ (disturbed'[q] = 0 => disturbed[q] = 0)
    BY <1>5 DEF Post, AutoTypeOK
  <2> QED BY <2>1 DEF SettledJob
<1>6. ASSUME NEW x \in Executor, ExecutorCrash(x) PROVE SettledJob(q)'
  <2>1. PICK r \in RunId : r = exec[x].run
    BY <1>6 DEF ExecutorCrash, AutoTypeOK
  <2>2. CASE q = r
    <3>1. disturbed'[q] # 0
      BY <1>6, <2>1, <2>2 DEF ExecutorCrash, AutoTypeOK
    <3> QED BY <3>1 DEF SettledJob
  <2>3. CASE q # r
    BY <1>6, <2>1, <2>3 DEF ExecutorCrash, AutoTypeOK, SettledJob
  <2> QED BY <2>2, <2>3
<1>7. ASSUME NEW r \in RunId, Redeliver(r) PROVE SettledJob(q)'
  <2>1. CASE q = r
    BY <1>7, <2>1 DEF Redeliver, SettledJob, execVars
  <2>2. CASE q # r
    BY <1>7, <2>2 DEF Redeliver, LoseLock, AutoTypeOK, SettledJob, execVars
  <2> QED BY <2>1, <2>2
<1>8. ASSUME NEW r \in RunId, Stall(r) PROVE SettledJob(q)'
  <2>1. CASE q = r
    BY <1>8, <2>1 DEF Stall, AutoTypeOK, SettledJob
  <2>2. CASE q # r
    BY <1>8, <2>2 DEF Stall, LoseLock, AutoTypeOK, SettledJob
  <2> QED BY <2>1, <2>2
<1>9. ASSUME NEW r \in RunId, Evict(r) PROVE SettledJob(q)'
  BY <1>9 DEF Evict, NoJob, AutoTypeOK, SettledJob, execVars
<1>10. ASSUME NEW r \in RunId, DrainRun(r) PROVE SettledJob(q)'
  BY <1>10, AddSettles DEF DrainRun, execVars
<1>11. CASE UNCHANGED autoVars
  BY <1>1, <1>11 DEF autoVars
<1> QED
  BY <1>2, <1>3, <1>4, <1>5, <1>6, <1>7, <1>8, <1>9, <1>10, <1>11, ClaimSettles,
     WriteResultSettles
  DEF AutoNext, Execute, Evaluate

(* A job that finished undisturbed leaves nothing to do, or its run has had *)
(* as many attempts as a job makes: otherwise the no-op that its kept id    *)
(* makes of a later add loses no delivery.                                  *)
THEOREM FinishedJobsSettled == AutoSpec => []FinishedJobIsSettled
<1>1. AutoInit => FinishedInv
  BY DEF AutoInit, FinishedInv, SettledJob, NoJob, NoRun
<1>2. FinishedInv => FinishedJobIsSettled
  BY DEF FinishedInv, SettledJob, FinishedJobIsSettled
<1> QED
  BY <1>1, <1>2, InitLease, NextLeases, NextSettles, AutoTypeCorrect, PTL DEF AutoSpec

-----------------------------------------------------------------------------
(***************************************************************************)
(* One ended call.  Whoever may still write a note, a task, a contact or   *)
(* the cadence is a processor that has not come so far, or the next one to *)
(* get the call.  All of them together with what is written are one, but   *)
(* for the overtaken and the repeated.                                     *)
(***************************************************************************)

(* The processors at one of some steps. *)
At(procs, pcs) == {h \in Evaluator : procs[h].pc \in pcs}

Unclaimed == {"idle", "look", "claim", "insert"}

(* 1 when a further processor may take up the call without being counted,  *)
(* now or once the lease of a dead one has run out.                        *)
Vacant(call, facts, procs) ==
    IF /\ call.status # "completed"
       /\ \/ At(procs, ProcPC \ Unclaimed) = {}
          \/ facts.kind # "legacy" /\ call.claim # "held"
    THEN 1 ELSE 0

(* A processor past a completion that failed: the next one gets the call    *)
(* when it returns.                                                         *)
Owes(call, facts, p) ==
    /\ call.status # "completed"
    /\ IF facts.kind \in {"outbound", "test"}
       THEN p.pc \in {"task", "evaluate", "evaluating", "cadence"}
       ELSE p.failed /\ p.pc \in {"evaluate", "evaluating"}

Owing(call, facts, procs) == {h \in Evaluator : Owes(call, facts, procs[h])}

(* Those who will take up the call without being counted. *)
ToCome(call, facts, procs) ==
    Vacant(call, facts, procs) + Cardinality(Owing(call, facts, procs))

Shares(written, procs, pcs, vacant, allowed) ==
    written + Cardinality(At(procs, pcs)) + vacant <= 1 + allowed

NotesAhead == {"load", "find", "create", "log", "fallback"}
TasksAhead == NotesAhead \cup {"task"}
OutboundTasksAhead == {"load", "log", "fallback", "complete", "task"}
ContactAhead == {"load", "find", "create", "finalize"}
CadenceAhead == {"load", "log", "fallback", "complete", "task", "evaluate", "evaluating", "cadence"}

NotesAllowed == overtaken + repeated + unfinished + crm.doubled
OutboundAllowed == overtaken + unfinished
TasksAllowed == overtaken + repeated + unfinished

NotesShared ==
    Shares(crm.notes, proc, NotesAhead, ToCome(row, setting, proc), NotesAllowed)

(* An outbound call is completed before its tasks, so a crash that repeats  *)
(* the note does not repeat them.                                           *)
TasksShared ==
    IF setting.kind = "outbound"
    THEN Shares(crm.tasks, proc, OutboundTasksAhead, ToCome(row, setting, proc),
                OutboundAllowed)
    ELSE Shares(crm.tasks, proc, TasksAhead, ToCome(row, setting, proc), TasksAllowed)

CadenceShared ==
    IF setting.kind = "outbound"
    THEN Shares(crm.cadence, proc, CadenceAhead, ToCome(row, setting, proc), OutboundAllowed)
    ELSE crm.cadence = 0

(* Once the contact is known only a failed look-up leads to another one. *)
ContactsShared ==
    Inbound /\ setting.same =>
        IF crm.known
        THEN Shares(crm.contacts, proc, {"create"}, 0, overtaken + crm.missed)
        ELSE Shares(crm.contacts, proc, ContactAhead, ToCome(row, setting, proc),
                    overtaken + crm.missed)

Held == ProcPC \ Unclaimed

(* The call is taken up once, but for the overtaken; a processor that died  *)
(* or returned gives it back.                                               *)
CallShared == Shares(0, proc, Held, Vacant(row, setting, proc), overtaken)

(* Where a processor of a kind can be, and when the contact is known. *)
Staged(h) ==
    LET pc == proc[h].pc
        found == setting.same => crm.known
    IN  /\ pc = "insert" => Legacy
        /\ pc \in {"claim", "load"} => ~Legacy
        /\ pc \in {"find", "create", "finalize"} => Inbound
        /\ pc = "complete" => ~Inbound
        /\ pc = "cadence" => setting.kind = "outbound"
        /\ proc[h].failed => pc \in {"finalize", "evaluate", "evaluating"}
        /\ Inbound /\ pc \in {"log", "fallback", "task"} => found
        /\ Inbound /\ pc \in {"evaluate", "evaluating"} /\ ~proc[h].failed => found

CallInv ==
    /\ NotesShared
    /\ TasksShared
    /\ CadenceShared
    /\ ContactsShared
    /\ CallShared
    /\ \A h \in Evaluator : Staged(h)

CallTypeOK ==
    /\ setting \in Setting
    /\ analyzed \in BOOLEAN
    /\ deliveries \in Nat
    /\ row \in [status : {"none", "dialing", "completed"},
                claim : {"none", "held", "lapsed"}]
    /\ proc \in [Evaluator -> Proc]
    /\ crm \in [known : BOOLEAN, missed : Nat, contacts : Nat, notes : Nat, doubled : Nat,
                tasks : Nat, cadence : Nat]
    /\ overtaken \in Nat
    /\ repeated \in Nat
    /\ unfinished \in Nat

LEMMA AtCounted ==
    ASSUME NEW procs, NEW pcs
    PROVE  /\ IsFiniteSet(At(procs, pcs))
           /\ Cardinality(At(procs, pcs)) \in Nat
<1>1. At(procs, pcs) \subseteq Evaluator
  BY DEF At
<1> QED BY <1>1, CallAssumption, FS_Subset, FS_CardinalityType

LEMMA VacantTyped ==
    ASSUME NEW call, NEW facts, NEW procs
    PROVE  Vacant(call, facts, procs) \in 0..1
BY DEF Vacant

LEMMA ToComeTyped ==
    ASSUME NEW call, NEW facts, NEW procs
    PROVE  ToCome(call, facts, procs) \in Nat
<1>1. Owing(call, facts, procs) \subseteq Evaluator
  BY DEF Owing
<1>2. Cardinality(Owing(call, facts, procs)) \in Nat
  BY <1>1, CallAssumption, FS_Subset, FS_CardinalityType
<1> QED BY <1>2, VacantTyped DEF ToCome

Is(pc, pcs) == IF pc \in pcs THEN 1 ELSE 0

(* One processor moves. *)
LEMMA Moved ==
    ASSUME NEW p, NEW q, NEW h \in Evaluator,
           \A g \in Evaluator \ {h} : q[g] = p[g], NEW pcs
    PROVE  Cardinality(At(q, pcs)) + Is(p[h].pc, pcs) = Cardinality(At(p, pcs)) + Is(q[h].pc, pcs)
<1> DEFINE rest == At(p, pcs) \ {h}
<1>1. rest \subseteq Evaluator /\ h \notin rest
  BY DEF At
<1>2. IsFiniteSet(rest)
  BY <1>1, CallAssumption, FS_Subset
<1>3. Cardinality(rest) \in Nat /\ Cardinality(rest \cup {h}) = Cardinality(rest) + 1
  BY <1>1, <1>2, FS_CardinalityType, FS_AddElement
<1>4. At(p, pcs) = IF p[h].pc \in pcs THEN rest \cup {h} ELSE rest
  BY DEF At
<1>5. At(q, pcs) = IF q[h].pc \in pcs THEN rest \cup {h} ELSE rest
  BY DEF At
<1> HIDE DEF rest
<1> QED BY <1>3, <1>4, <1>5 DEF Is

If(b) == IF b THEN 1 ELSE 0

(* One processor's step adds what it owes more, or a vacancy. *)
LEMMA ToComePassed ==
    ASSUME NEW p, NEW q, NEW h \in Evaluator,
           \A g \in Evaluator \ {h} : q[g] = p[g],
           NEW facts, NEW call, NEW call2,
           call.status = "completed" => call2.status = "completed"
    PROVE  ToCome(call2, facts, q) + If(Owes(call, facts, p[h])) + Vacant(call, facts, p)
             <= ToCome(call, facts, p) + If(Owes(call2, facts, q[h])) + Vacant(call2, facts, q)
<1> DEFINE old == Owing(call, facts, p) \ {h}
           new == Owing(call2, facts, q) \ {h}
<1>1. old \subseteq Evaluator /\ new \subseteq old /\ h \notin old /\ h \notin new
  BY DEF Owing, Owes
<1>2. IsFiniteSet(old) /\ IsFiniteSet(new)
  BY <1>1, CallAssumption, FS_Subset
<1>3. /\ Cardinality(old) \in Nat /\ Cardinality(old \cup {h}) = Cardinality(old) + 1
      /\ Cardinality(new) \in Nat /\ Cardinality(new \cup {h}) = Cardinality(new) + 1
  <2> HIDE DEF old, new
  <2>1. Cardinality(old) \in Nat /\ Cardinality(new) \in Nat
    BY <1>2, FS_CardinalityType
  <2>2. Cardinality(old \cup {h}) = Cardinality(old) + 1
    BY <1>1, <1>2, FS_AddElement
  <2>3. Cardinality(new \cup {h}) = Cardinality(new) + 1
    BY <1>1, <1>2, FS_AddElement
  <2> QED BY <2>1, <2>2, <2>3
<1>4. Cardinality(new) <= Cardinality(old)
  BY <1>1, <1>2, FS_Subset
<1>5. Owing(call, facts, p) = IF Owes(call, facts, p[h]) THEN old \cup {h} ELSE old
  BY DEF Owing
<1>6. Owing(call2, facts, q) = IF Owes(call2, facts, q[h]) THEN new \cup {h} ELSE new
  BY DEF Owing
<1> HIDE DEF old, new
<1>7. Vacant(call, facts, p) \in 0..1 /\ Vacant(call2, facts, q) \in 0..1
  BY VacantTyped
<1> QED BY <1>3, <1>4, <1>5, <1>6, <1>7 DEF ToCome, If

LEMMA SharesPassed ==
    ASSUME NEW p, NEW q, NEW h \in Evaluator,
           \A g \in Evaluator \ {h} : q[g] = p[g], NEW pcs,
           NEW w \in Nat, NEW w2 \in Nat, NEW o \in Nat, NEW o2 \in Nat,
           NEW v \in Nat, NEW v2 \in Nat,
           Shares(w, p, pcs, v, o),
           w2 + Is(q[h].pc, pcs) + v2 + o <= w + Is(p[h].pc, pcs) + v + o2
    PROVE  Shares(w2, q, pcs, v2, o2)
<1>1. Is(q[h].pc, pcs) \in Nat /\ Is(p[h].pc, pcs) \in Nat
  BY DEF Is
<1>2. Cardinality(At(p, pcs)) \in Nat /\ Cardinality(At(q, pcs)) \in Nat
  BY AtCounted
<1>3. Cardinality(At(q, pcs)) + Is(p[h].pc, pcs) = Cardinality(At(p, pcs)) + Is(q[h].pc, pcs)
  BY Moved
<1>4. w + Cardinality(At(p, pcs)) + v <= 1 + o
  BY DEF Shares
<1>5. w2 + Cardinality(At(q, pcs)) + v2 <= 1 + o2
  BY <1>1, <1>2, <1>3, <1>4
<1> QED BY <1>5 DEF Shares

LEMMA CallInit == Init => CallInv
<1> SUFFICES ASSUME Init PROVE CallInv
  OBVIOUS
<1>1. \A pcs : "idle" \notin pcs => At(proc, pcs) = {}
  BY DEF Init, At, IdleProc
<1>2. \A pcs : "idle" \notin pcs => Cardinality(At(proc, pcs)) = 0
  BY <1>1, FS_EmptySet
<1>3. crm.notes = 0 /\ crm.tasks = 0 /\ crm.cadence = 0 /\ crm.contacts = 0 /\ crm.missed = 0
      /\ crm.doubled = 0 /\ overtaken = 0 /\ repeated = 0 /\ unfinished = 0
  BY DEF Init
<1>4. \A pcs : "idle" \notin pcs =>
        /\ Shares(0, proc, pcs, Vacant(row, setting, proc), 0)
        /\ Shares(0, proc, pcs, ToCome(row, setting, proc), 0)
        /\ Shares(0, proc, pcs, 0, 0)
  <2>1. Owing(row, setting, proc) = {}
    BY DEF Init, IdleProc, Owing, Owes
  <2>2. ToCome(row, setting, proc) = Vacant(row, setting, proc)
    BY <2>1, FS_EmptySet, VacantTyped DEF ToCome
  <2> QED BY <1>2, <2>2, VacantTyped DEF Shares
<1>5. NotesShared /\ TasksShared /\ CadenceShared /\ ContactsShared /\ CallShared
  BY <1>3, <1>4 DEF NotesShared, TasksShared, CadenceShared, ContactsShared, CallShared,
     NotesAhead, TasksAhead, OutboundTasksAhead, CadenceAhead, ContactAhead, Held, Unclaimed,
     NotesAllowed, OutboundAllowed, TasksAllowed
<1>6. \A h \in Evaluator : Staged(h)
  BY DEF Init, Staged, IdleProc
<1> QED BY <1>5, <1>6 DEF CallInv

-----------------------------------------------------------------------------
LEMMA HoldingIs ==
    ASSUME CallTypeOK
    PROVE  Holding = At(proc, Held)
BY DEF CallTypeOK, Proc, Holding, At, Held, Unclaimed

(* Nobody new may take up the call when somebody has it, or nobody had it.  *)
LEMMA VacantStays ==
    ASSUME NEW call, NEW facts, NEW p, NEW q, At(q, Held) # {} \/ At(p, Held) = {}
    PROVE  Vacant(call, facts, q) <= Vacant(call, facts, p)
BY DEF Vacant, Held

OneMoves(h) == \A g \in Evaluator \ {h} : proc'[g] = proc[g]

LEMMA GotoMoves ==
    ASSUME CallTypeOK, NEW h \in Evaluator, NEW pc, Goto(h, pc)
    PROVE  OneMoves(h) /\ proc'[h].pc = pc /\ proc'[h].failed = proc[h].failed
BY DEF CallTypeOK, Proc, Goto, OneMoves

LEMMA ReturnMoves ==
    ASSUME CallTypeOK, NEW h \in Evaluator, Return(h)
    PROVE  OneMoves(h) /\ proc'[h].pc = "idle" /\ ~proc'[h].failed
BY DEF CallTypeOK, Return, OneMoves, IdleProc

(* What a processor writes it had ahead, or it is counted. *)
Balanced(h) ==
    LET v == ToCome(row, setting, proc)
        u == ToCome(row', setting, proc')
    IN  /\ crm'.notes + Is(proc'[h].pc, NotesAhead) + u + NotesAllowed
             <= crm.notes + Is(proc[h].pc, NotesAhead) + v + NotesAllowed'
        /\ setting.kind = "outbound" =>
             /\ crm'.tasks + Is(proc'[h].pc, OutboundTasksAhead) + u + OutboundAllowed
                  <= crm.tasks + Is(proc[h].pc, OutboundTasksAhead) + v + OutboundAllowed'
             /\ crm'.cadence + Is(proc'[h].pc, CadenceAhead) + u + OutboundAllowed
                  <= crm.cadence + Is(proc[h].pc, CadenceAhead) + v + OutboundAllowed'
        /\ setting.kind # "outbound" =>
             /\ crm'.tasks + Is(proc'[h].pc, TasksAhead) + u + TasksAllowed
                  <= crm.tasks + Is(proc[h].pc, TasksAhead) + v + TasksAllowed'
             /\ crm'.cadence = crm.cadence
        /\ Is(proc'[h].pc, Held) + Vacant(row', setting, proc') + overtaken
             <= Is(proc[h].pc, Held) + Vacant(row, setting, proc) + overtaken'
        /\ crm.known => crm'.known
        /\ Inbound /\ setting.same =>
             IF crm'.known
             THEN crm'.contacts + Is(proc'[h].pc, {"create"}) + overtaken + crm.missed
                    <= crm.contacts + Is(proc[h].pc, {"create"}) + overtaken' + crm'.missed
             ELSE crm'.contacts + Is(proc'[h].pc, ContactAhead) + u + overtaken + crm.missed
                    <= crm.contacts + Is(proc[h].pc, ContactAhead) + v + overtaken' + crm'.missed

Shared == NotesShared /\ TasksShared /\ CadenceShared /\ ContactsShared /\ CallShared

LEMMA BalanceKept ==
    ASSUME CallTypeOK, CallTypeOK', Shared, setting' = setting,
           NEW h \in Evaluator, OneMoves(h), Balanced(h)
    PROVE  Shared'
<1> DEFINE v == ToCome(row, setting, proc)
           u == ToCome(row', setting, proc')
<1>1. v \in Nat /\ u \in Nat
  BY ToComeTyped
<1>2. \A g \in Evaluator \ {h} : proc'[g] = proc[g]
  BY DEF OneMoves
<1>3. /\ crm.notes \in Nat /\ crm.tasks \in Nat /\ crm.cadence \in Nat /\ crm.contacts \in Nat
      /\ crm.missed \in Nat /\ overtaken \in Nat /\ repeated \in Nat
      /\ crm'.notes \in Nat /\ crm'.tasks \in Nat /\ crm'.cadence \in Nat
      /\ crm'.contacts \in Nat /\ crm'.missed \in Nat /\ overtaken' \in Nat /\ repeated' \in Nat
  BY DEF CallTypeOK
<1>4. /\ NotesAllowed \in Nat /\ NotesAllowed' \in Nat
      /\ OutboundAllowed \in Nat /\ OutboundAllowed' \in Nat
      /\ TasksAllowed \in Nat /\ TasksAllowed' \in Nat
      /\ overtaken + crm.missed \in Nat /\ overtaken' + crm'.missed \in Nat
  <2>1. \A m \in Nat, n \in Nat : m + n \in Nat
    OBVIOUS
  <2>2. /\ unfinished \in Nat /\ unfinished' \in Nat
        /\ crm.doubled \in Nat /\ crm'.doubled \in Nat
    BY DEF CallTypeOK
  <2> QED BY <1>3, <2>1, <2>2 DEF NotesAllowed, OutboundAllowed, TasksAllowed
<1>5. \A pcs : Is(proc[h].pc, pcs) \in 0..1 /\ Is(proc'[h].pc, pcs) \in 0..1
  BY DEF Is
<1> HIDE DEF v, u
<1>6. /\ crm'.notes + Is(proc'[h].pc, NotesAhead) + u + NotesAllowed
           <= crm.notes + Is(proc[h].pc, NotesAhead) + v + NotesAllowed'
      /\ setting.kind # "outbound" =>
           crm'.tasks + Is(proc'[h].pc, TasksAhead) + u + TasksAllowed
             <= crm.tasks + Is(proc[h].pc, TasksAhead) + v + TasksAllowed'
  BY DEF Balanced, v, u
<1>7. NotesShared'
  <2>1. Shares(crm.notes, proc, NotesAhead, v, NotesAllowed)
    BY DEF Shared, NotesShared, v
  <2>2. Shares(crm'.notes, proc', NotesAhead, u, NotesAllowed')
    BY <1>1, <1>2, <1>3, <1>4, <1>6, <2>1, SharesPassed
  <2> QED BY <2>2 DEF NotesShared, u
<1>8. TasksShared'
  <2>1. CASE setting.kind = "outbound"
    <3>1. Shares(crm.tasks, proc, OutboundTasksAhead, v, OutboundAllowed)
      BY <2>1 DEF Shared, TasksShared, v
    <3>2. crm'.tasks + Is(proc'[h].pc, OutboundTasksAhead) + u + OutboundAllowed
             <= crm.tasks + Is(proc[h].pc, OutboundTasksAhead) + v + OutboundAllowed'
      BY <2>1 DEF Balanced, v, u
    <3>3. Shares(crm'.tasks, proc', OutboundTasksAhead, u, OutboundAllowed')
      BY <1>1, <1>2, <1>3, <1>4, <3>1, <3>2, SharesPassed
    <3> QED BY <2>1, <3>3 DEF TasksShared, u
  <2>2. CASE setting.kind # "outbound"
    <3>1. Shares(crm.tasks, proc, TasksAhead, v, TasksAllowed)
      BY <2>2 DEF Shared, TasksShared, v
    <3>2. crm'.tasks + Is(proc'[h].pc, TasksAhead) + u + TasksAllowed
             <= crm.tasks + Is(proc[h].pc, TasksAhead) + v + TasksAllowed'
      BY <1>6, <2>2
    <3>3. Shares(crm'.tasks, proc', TasksAhead, u, TasksAllowed')
      BY <1>1, <1>2, <1>3, <1>4, <3>1, <3>2, SharesPassed
    <3> QED BY <2>2, <3>3 DEF TasksShared, u
  <2> QED BY <2>1, <2>2
<1>9. CadenceShared'
  <2>1. CASE setting.kind = "outbound"
    <3>1. Shares(crm.cadence, proc, CadenceAhead, v, OutboundAllowed)
      BY <2>1 DEF Shared, CadenceShared, v
    <3>2. crm'.cadence + Is(proc'[h].pc, CadenceAhead) + u + OutboundAllowed
             <= crm.cadence + Is(proc[h].pc, CadenceAhead) + v + OutboundAllowed'
      BY <2>1 DEF Balanced, v, u
    <3>3. Shares(crm'.cadence, proc', CadenceAhead, u, OutboundAllowed')
      BY <1>1, <1>2, <1>3, <1>4, <3>1, <3>2, SharesPassed
    <3> QED BY <2>1, <3>3 DEF CadenceShared, u
  <2>2. CASE setting.kind # "outbound"
    BY <2>2 DEF Shared, CadenceShared, Balanced
  <2> QED BY <2>1, <2>2
<1>10. ContactsShared'
  <2> SUFFICES ASSUME Inbound, setting.same
               PROVE  IF crm'.known
                      THEN Shares(crm'.contacts, proc', {"create"}, 0, overtaken' + crm'.missed)
                      ELSE Shares(crm'.contacts, proc', ContactAhead, u, overtaken' + crm'.missed)
    BY DEF ContactsShared, Inbound, u
  <2>1. CASE crm'.known
    <3>1. Shares(crm.contacts, proc, {"create"}, 0, overtaken + crm.missed)
      <4>1. CASE crm.known
        BY <4>1 DEF Shared, ContactsShared
      <4>2. CASE ~crm.known
        <5>1. Shares(crm.contacts, proc, ContactAhead, v, overtaken + crm.missed)
          BY <4>2 DEF Shared, ContactsShared, v
        <5>2. At(proc, {"create"}) \subseteq At(proc, ContactAhead)
          BY DEF At, ContactAhead
        <5>3. Cardinality(At(proc, {"create"})) <= Cardinality(At(proc, ContactAhead))
          BY <5>2, AtCounted, FS_Subset
        <5> QED BY <1>1, <1>3, <5>1, <5>3, AtCounted DEF Shares
      <4> QED BY <4>1, <4>2
    <3>2. crm'.contacts + Is(proc'[h].pc, {"create"}) + 0 + (overtaken + crm.missed)
             <= crm.contacts + Is(proc[h].pc, {"create"}) + 0 + (overtaken' + crm'.missed)
      BY <1>3, <1>5, <2>1 DEF Balanced
    <3>3. Shares(crm'.contacts, proc', {"create"}, 0, overtaken' + crm'.missed)
      BY <1>2, <1>3, <1>4, <3>1, <3>2, SharesPassed
    <3> QED BY <2>1, <3>3
  <2>2. CASE ~crm'.known
    <3>1. ~crm.known
      BY <2>2 DEF Balanced
    <3>2. Shares(crm.contacts, proc, ContactAhead, v, overtaken + crm.missed)
      BY <3>1 DEF Shared, ContactsShared, v
    <3>3. crm'.contacts + Is(proc'[h].pc, ContactAhead) + u + (overtaken + crm.missed)
             <= crm.contacts + Is(proc[h].pc, ContactAhead) + v + (overtaken' + crm'.missed)
      BY <1>1, <1>3, <1>5, <2>2 DEF Balanced, v, u
    <3>4. Shares(crm'.contacts, proc', ContactAhead, u, overtaken' + crm'.missed)
      BY <1>1, <1>2, <1>3, <1>4, <3>2, <3>3, SharesPassed
    <3> QED BY <2>2, <3>4
  <2> QED BY <2>1, <2>2
<1>11. CallShared'
  <2> DEFINE x == Vacant(row, setting, proc)
             y == Vacant(row', setting, proc')
  <2>1. Shares(0, proc, Held, x, overtaken) /\ x \in Nat /\ y \in Nat
    BY VacantTyped DEF Shared, CallShared
  <2>2. Is(proc'[h].pc, Held) + y + overtaken <= Is(proc[h].pc, Held) + x + overtaken'
    BY DEF Balanced
  <2> HIDE DEF x, y
  <2>3. 0 + Is(proc'[h].pc, Held) + y + overtaken <= 0 + Is(proc[h].pc, Held) + x + overtaken'
    BY <1>3, <1>5, <2>1, <2>2
  <2>4. Shares(0, proc', Held, y, overtaken')
    BY <1>2, <1>3, <2>1, <2>3, SharesPassed
  <2> QED BY <2>4 DEF CallShared, y
<1> QED BY <1>7, <1>8, <1>9, <1>10, <1>11 DEF Shared

-----------------------------------------------------------------------------
LEMMA StaysHeld ==
    ASSUME NEW h \in Evaluator, proc'[h].pc \in Held, row' = row
    PROVE  Vacant(row', setting, proc') <= Vacant(row, setting, proc)
<1>1. h \in At(proc', Held)
  BY DEF At
<1> QED BY <1>1, VacantStays

LEMMA StaysOut ==
    ASSUME NEW h \in Evaluator, OneMoves(h), proc'[h].pc \in Unclaimed, proc[h].pc \in Unclaimed,
           row'.claim = row.claim, row'.status = "completed" <=> row.status = "completed"
    PROVE  Vacant(row', setting, proc') = Vacant(row, setting, proc)
<1>1. At(proc', Held) = At(proc, Held)
  BY DEF At, Held, OneMoves
<1> QED BY <1>1 DEF Vacant, Held

LEMMA Completed ==
    ASSUME NEW call, NEW facts, NEW p, call.status = "completed"
    PROVE  Vacant(call, facts, p) = 0
BY DEF Vacant

(* What every step of a processor gives. *)
Moves(h) ==
    /\ OneMoves(h)
    /\ setting' = setting
    /\ row.status = "completed" => row'.status = "completed"
    /\ crm.known => crm'.known
    /\ Staged(h)'

LEMMA ToComeMoves ==
    ASSUME NEW h \in Evaluator, Moves(h)
    PROVE  ToCome(row', setting, proc') + If(Owes(row, setting, proc[h]))
                 + Vacant(row, setting, proc)
             <= ToCome(row, setting, proc) + If(Owes(row', setting, proc'[h]))
                 + Vacant(row', setting, proc')
BY ToComePassed DEF Moves, OneMoves

LEMMA BeginBalances ==
    ASSUME CallTypeOK, NEW h \in Evaluator, Begin(h)
    PROVE  Moves(h) /\ Balanced(h)
<1>1. /\ proc' = [proc EXCEPT ![h] = [IdleProc EXCEPT !.pc = "look"]]
      /\ UNCHANGED <<setting, row, counts, crm>> /\ proc[h].pc = "idle"
  BY DEF Begin
<1>2. OneMoves(h) /\ proc'[h].pc = "look" /\ ~proc'[h].failed
  BY <1>1 DEF OneMoves, CallTypeOK, IdleProc
<1>3. Vacant(row', setting, proc') = Vacant(row, setting, proc)
  BY <1>1, <1>2, StaysOut DEF Unclaimed
<1>4. Moves(h)
  BY <1>1, <1>2 DEF Moves, Staged
<1>5. ~Owes(row', setting, proc'[h])
  BY <1>2 DEF Owes
<1>6. ToCome(row', setting, proc') <= ToCome(row, setting, proc)
  BY <1>3, <1>4, <1>5, VacantTyped, ToComeTyped, ToComeMoves DEF If
<1> HIDE DEF Moves
<1> QED
  BY <1>1, <1>2, <1>3, <1>4, <1>6, VacantTyped, ToComeTyped
  DEF Balanced, Is, counts, NotesAllowed, OutboundAllowed, TasksAllowed,
      CallTypeOK, NotesAhead, TasksAhead, OutboundTasksAhead, CadenceAhead, ContactAhead,
      Held, ProcPC, Unclaimed

LEMMA LookUpBalances ==
    ASSUME CallTypeOK, NEW h \in Evaluator, Staged(h), LookUp(h)
    PROVE  Moves(h) /\ Balanced(h)
<1>1. /\ UNCHANGED <<setting, counts, crm>> /\ proc[h].pc = "look"
      /\ row'.claim = row.claim /\ (row'.status = "completed" <=> row.status = "completed")
  BY DEF LookUp, CallTypeOK
<1>2. /\ OneMoves(h) /\ ~proc'[h].failed
      /\ \/ proc'[h].pc = "idle"
         \/ proc'[h].pc = "insert" /\ Legacy
         \/ proc'[h].pc = "claim" /\ ~Legacy
  BY GotoMoves, ReturnMoves DEF LookUp, Staged
<1>3. Vacant(row', setting, proc') = Vacant(row, setting, proc)
  BY <1>1, <1>2, StaysOut DEF Unclaimed
<1>4. Moves(h)
  BY <1>1, <1>2 DEF Moves, Staged, Legacy
<1> QED
  BY <1>1, <1>2, <1>3, <1>4, VacantTyped, ToComeTyped, ToComeMoves
  DEF Inbound, Balanced, Is, If, Owes, counts, NotesAllowed, OutboundAllowed, TasksAllowed,
      CallTypeOK, NotesAhead, TasksAhead, OutboundTasksAhead, CadenceAhead, ContactAhead,
      Held, ProcPC, Unclaimed

LEMMA InsertLegacyBalances ==
    ASSUME CallTypeOK, NEW h \in Evaluator, Staged(h), InsertLegacy(h)
    PROVE  Moves(h) /\ Balanced(h)
<1>1. /\ UNCHANGED <<setting, repeated, unfinished, crm>> /\ proc[h].pc = "insert" /\ Legacy
      /\ row'.claim = row.claim /\ (row'.status = "completed" <=> row.status = "completed")
  BY DEF InsertLegacy, CallTypeOK, Staged
<1>2. CASE Return(h) /\ UNCHANGED <<row, overtaken>>
  <2>1. OneMoves(h) /\ proc'[h].pc = "idle" /\ ~proc'[h].failed
    BY <1>2, ReturnMoves
  <2>2. Vacant(row', setting, proc') = Vacant(row, setting, proc)
    BY <1>1, <2>1, StaysOut DEF Unclaimed
  <2>3. Moves(h)
    BY <1>1, <2>1 DEF Moves, Staged
  <2> QED
    BY <1>1, <1>2, <2>1, <2>2, <2>3, VacantTyped, ToComeTyped, ToComeMoves
  DEF Inbound, Balanced, Is, If, Owes, counts, NotesAllowed, OutboundAllowed, TasksAllowed,
      CallTypeOK, NotesAhead, TasksAhead, OutboundTasksAhead, CadenceAhead, ContactAhead,
      Held, ProcPC, Unclaimed
<1>3. CASE Goto(h, "find") /\ IF Holding # {} \/ row.status = "completed"
                              THEN overtaken' = overtaken + 1 ELSE UNCHANGED overtaken
  <2>1. OneMoves(h) /\ proc'[h].pc = "find" /\ ~proc'[h].failed
    BY <1>1, <1>3, GotoMoves DEF Staged
  <2>2. h \in At(proc', Held)
    BY <2>1 DEF At, Held, ProcPC, Unclaimed
  <2>3. Vacant(row', setting, proc') = 0
    BY <1>1, <2>2 DEF Vacant, Held, Legacy
  <2>4. \/ overtaken' = overtaken + 1
        \/ overtaken' = overtaken /\ Vacant(row, setting, proc) = 1
    BY <1>3, HoldingIs DEF Vacant, Held
  <2>5. Moves(h)
    BY <1>1, <2>1 DEF Moves, Staged, Legacy, Inbound
  <2>6. setting.kind # "outbound"
    BY <1>1 DEF Legacy
  <2> QED
    BY <1>1, <2>1, <2>3, <2>4, <2>5, <2>6, VacantTyped, ToComeTyped, ToComeMoves
  DEF Inbound, Balanced, Is, If, Owes, counts, NotesAllowed, OutboundAllowed, TasksAllowed,
      CallTypeOK, NotesAhead, TasksAhead, OutboundTasksAhead, CadenceAhead, ContactAhead,
      Held, ProcPC, Unclaimed
<1> QED BY <1>2, <1>3 DEF InsertLegacy

LEMMA ClaimBalances ==
    ASSUME CallTypeOK, NEW h \in Evaluator, Staged(h), ClaimCall(h)
    PROVE  Moves(h) /\ Balanced(h)
<1>1. /\ UNCHANGED <<setting, counts, crm>> /\ proc[h].pc = "claim" /\ ~Legacy
      /\ row'.status = row.status
  BY DEF ClaimCall, CallTypeOK, Staged
<1>2. CASE Return(h) /\ UNCHANGED row
  <2>1. OneMoves(h) /\ proc'[h].pc = "idle" /\ ~proc'[h].failed
    BY <1>2, ReturnMoves
  <2>2. Vacant(row', setting, proc') = Vacant(row, setting, proc)
    BY <1>2, <2>1, <1>1, StaysOut DEF Unclaimed
  <2>3. Moves(h)
    BY <1>1, <2>1 DEF Moves, Staged
  <2> QED
    BY <1>1, <1>2, <2>1, <2>2, <2>3, VacantTyped, ToComeTyped, ToComeMoves
  DEF Inbound, Balanced, Is, If, Owes, counts, NotesAllowed, OutboundAllowed, TasksAllowed,
      CallTypeOK, NotesAhead, TasksAhead, OutboundTasksAhead, CadenceAhead, ContactAhead,
      Held, ProcPC, Unclaimed
<1>3. CASE row.status # "completed" /\ row.claim # "held" /\ row'.claim = "held" /\ Goto(h, "load")
  <2>1. OneMoves(h) /\ proc'[h].pc = "load" /\ ~proc'[h].failed
    BY <1>1, <1>3, GotoMoves DEF Staged
  <2>2. h \in At(proc', Held)
    BY <2>1 DEF At, Held, ProcPC, Unclaimed
  <2>3. Vacant(row', setting, proc') = 0
    BY <1>3, <2>2 DEF Vacant, Held
  <2>4. Vacant(row, setting, proc) = 1
    BY <1>1, <1>3 DEF Vacant, Legacy
  <2>5. Moves(h)
    BY <1>1, <2>1 DEF Moves, Staged, Legacy, Inbound
  <2> QED
    BY <1>1, <2>1, <2>3, <2>4, <2>5, VacantTyped, ToComeTyped, ToComeMoves
  DEF Inbound, Balanced, Is, If, Owes, counts, NotesAllowed, OutboundAllowed, TasksAllowed,
      CallTypeOK, NotesAhead, TasksAhead, OutboundTasksAhead, CadenceAhead, ContactAhead,
      Held, ProcPC, Unclaimed
<1>4. row' = [row EXCEPT !.claim = "held"] => row'.claim = "held"
  BY DEF CallTypeOK
<1> QED BY <1>2, <1>3, <1>4 DEF ClaimCall

LEMMA LoadBalances ==
    ASSUME CallTypeOK, NEW h \in Evaluator, Staged(h), Load(h)
    PROVE  Moves(h) /\ Balanced(h)
<1>1. /\ UNCHANGED <<setting, row, counts, crm>> /\ proc[h].pc = "load" /\ ~Legacy
  BY DEF Load, Staged
<1>2. CASE Return(h) /\ setting.kind = "outbound"
  <2>1. OneMoves(h) /\ proc'[h].pc = "idle" /\ ~proc'[h].failed
    BY <1>2, ReturnMoves
  <2>2. Moves(h)
    BY <1>1, <2>1 DEF Moves, Staged
  <2> QED
    BY <1>1, <1>2, <2>1, <2>2, VacantTyped, ToComeTyped, ToComeMoves
  DEF Inbound, Balanced, Is, If, Owes, counts, NotesAllowed, OutboundAllowed, TasksAllowed,
      CallTypeOK, NotesAhead, TasksAhead, OutboundTasksAhead, CadenceAhead, ContactAhead,
      Held, ProcPC, Unclaimed
<1>3. ASSUME NEW pc, Goto(h, pc),
             \/ setting.kind = "outbound" /\ pc = "log"
             \/ setting.kind = "test" /\ pc = "complete"
             \/ setting.kind = "inbound" /\ pc = "find"
      PROVE  Moves(h) /\ Balanced(h)
  <2>1. OneMoves(h) /\ proc'[h].pc = pc /\ ~proc'[h].failed
    BY <1>1, <1>3, GotoMoves DEF Staged
  <2>2. proc'[h].pc \in Held
    BY <1>3, <2>1 DEF Held, ProcPC, Unclaimed
  <2>3. Vacant(row', setting, proc') <= Vacant(row, setting, proc)
    BY <1>1, <2>2, StaysHeld
  <2>4. Moves(h)
    BY <1>1, <1>3, <2>1 DEF Moves, Staged, Inbound, Legacy
  <2> QED
    BY <1>1, <1>3, <2>1, <2>3, <2>4, VacantTyped, ToComeTyped, ToComeMoves
  DEF Inbound, Balanced, Is, If, Owes, counts, NotesAllowed, OutboundAllowed, TasksAllowed,
      CallTypeOK, NotesAhead, TasksAhead, OutboundTasksAhead, CadenceAhead, ContactAhead,
      Held, ProcPC, Unclaimed
<1>4. setting.kind \in {"outbound", "test", "inbound"}
  BY <1>1, CallAssumption DEF CallTypeOK, Setting, Legacy
<1> QED BY <1>2, <1>3, <1>4 DEF Load

LEMMA FindBalances ==
    ASSUME CallTypeOK, NEW h \in Evaluator, Staged(h), FindContact(h)
    PROVE  Moves(h) /\ Balanced(h)
<1>1. /\ UNCHANGED <<setting, row, counts>> /\ proc[h].pc = "find" /\ Inbound
      /\ setting.kind # "outbound"
  BY DEF FindContact, Staged, Inbound
<1>2. ASSUME NEW pc, Goto(h, pc),
             \/ crm' = crm /\ pc = IF crm.known THEN "log" ELSE "create"
             \/ crm' = [crm EXCEPT !.missed = @ + 1] /\ pc = "create"
      PROVE  Moves(h) /\ Balanced(h)
  <2>1. OneMoves(h) /\ proc'[h].pc = pc /\ ~proc'[h].failed
    BY <1>1, <1>2, GotoMoves DEF Staged
  <2>2. proc'[h].pc \in Held
    BY <1>2, <2>1 DEF Held, ProcPC, Unclaimed
  <2>3. Vacant(row', setting, proc') <= Vacant(row, setting, proc)
    BY <1>1, <2>2, StaysHeld
  <2>4. /\ crm'.known = crm.known /\ crm'.notes = crm.notes /\ crm'.tasks = crm.tasks
        /\ crm'.cadence = crm.cadence /\ crm'.contacts = crm.contacts
        /\ crm'.doubled = crm.doubled
        /\ \/ crm'.missed = crm.missed /\ pc = IF crm.known THEN "log" ELSE "create"
           \/ crm'.missed = crm.missed + 1 /\ pc = "create"
    BY <1>2 DEF CallTypeOK
  <2>5. Moves(h)
    BY <1>1, <2>1, <2>4 DEF Moves, Staged, Inbound
  <2> HIDE DEF Moves
  <2> QED
    BY <1>1, <2>1, <2>3, <2>4, <2>5, VacantTyped, ToComeTyped, ToComeMoves
  DEF Inbound, Balanced, Is, If, Owes, counts, NotesAllowed, OutboundAllowed, TasksAllowed,
      CallTypeOK, NotesAhead, TasksAhead, OutboundTasksAhead, CadenceAhead, ContactAhead,
      Held, ProcPC, Unclaimed
<1> QED BY <1>2 DEF FindContact, Goto

LEMMA CreateBalances ==
    ASSUME CallTypeOK, NEW h \in Evaluator, Staged(h), CreateContact(h)
    PROVE  Moves(h) /\ Balanced(h)
<1>1. /\ UNCHANGED <<setting, row, counts>> /\ proc[h].pc = "create" /\ Inbound
      /\ setting.kind # "outbound"
  BY DEF CreateContact, Staged, Inbound
<1>2. ~proc[h].failed
  BY <1>1 DEF Staged
<1>3. \/ /\ OneMoves(h) /\ proc'[h].pc = "log" /\ ~proc'[h].failed
         /\ crm' = [crm EXCEPT !.contacts = @ + 1, !.known = @ \/ setting.same]
      \/ /\ OneMoves(h) /\ proc'[h].pc = "finalize" /\ crm' = crm
  BY <1>2, GotoMoves DEF CreateContact, OneMoves, CallTypeOK, Proc
<1>4. proc'[h].pc \in Held
  BY <1>3 DEF Held, ProcPC, Unclaimed
<1>5. Vacant(row', setting, proc') <= Vacant(row, setting, proc)
  BY <1>1, <1>4, StaysHeld
<1>6. /\ crm'.notes = crm.notes /\ crm'.tasks = crm.tasks
      /\ crm'.cadence = crm.cadence /\ crm'.missed = crm.missed
      /\ crm'.doubled = crm.doubled
      /\ OneMoves(h)
      /\ \/ /\ proc'[h].pc = "log" /\ crm'.contacts = crm.contacts + 1 /\ ~proc'[h].failed
            /\ crm'.known = (crm.known \/ setting.same)
         \/ proc'[h].pc = "finalize" /\ crm'.contacts = crm.contacts /\ crm'.known = crm.known
  BY <1>3 DEF CallTypeOK
<1>7. Moves(h)
  BY <1>1, <1>6 DEF Moves, Staged, Inbound
<1> HIDE DEF Moves
<1> QED
  BY <1>1, <1>5, <1>6, <1>7, VacantTyped, ToComeTyped, ToComeMoves
  DEF Inbound, Balanced, Is, If, Owes, counts, NotesAllowed, OutboundAllowed, TasksAllowed,
      CallTypeOK, NotesAhead, TasksAhead, OutboundTasksAhead, CadenceAhead, ContactAhead,
      Held, ProcPC, Unclaimed

LEMMA LogBalances ==
    ASSUME CallTypeOK, NEW h \in Evaluator, Staged(h), LogCall(h) \/ AddFallbackNote(h)
    PROVE  Moves(h) /\ Balanced(h)
<1>1. /\ UNCHANGED <<setting, row, counts>> /\ proc[h].pc \in {"log", "fallback"}
  BY DEF LogCall, AddFallbackNote
<1>2. /\ crm'.known = crm.known /\ crm'.tasks = crm.tasks /\ crm'.cadence = crm.cadence
      /\ crm'.contacts = crm.contacts /\ crm'.missed = crm.missed
      /\ \/ crm'.notes \in {crm.notes, crm.notes + 1} /\ crm'.doubled = crm.doubled
            /\ Goto(h, AfterLog)
         \/ crm'.notes = crm.notes /\ crm'.doubled = crm.doubled /\ Goto(h, "fallback")
         \/ crm'.notes = crm.notes + 1 /\ crm'.doubled = crm.doubled + 1
            /\ Goto(h, "fallback")
  BY DEF LogCall, AddFallbackNote, CallTypeOK
<1>3. /\ OneMoves(h) /\ ~proc'[h].failed
      /\ \/ crm'.notes \in {crm.notes, crm.notes + 1} /\ crm'.doubled = crm.doubled
            /\ proc'[h].pc = IF Inbound THEN "task" ELSE "complete"
         \/ crm'.notes = crm.notes /\ crm'.doubled = crm.doubled /\ proc'[h].pc = "fallback"
         \/ crm'.notes = crm.notes + 1 /\ crm'.doubled = crm.doubled + 1
            /\ proc'[h].pc = "fallback"
  BY <1>1, <1>2, GotoMoves DEF Staged, AfterLog
<1>4. Vacant(row', setting, proc') <= Vacant(row, setting, proc)
  BY <1>1, <1>3, StaysHeld DEF Held, ProcPC, Unclaimed
<1>5. Moves(h)
  BY <1>1, <1>2, <1>3 DEF Moves, Staged, Inbound
<1> HIDE DEF Moves
<1> QED
  BY <1>1, <1>2, <1>3, <1>4, <1>5, VacantTyped, ToComeTyped, ToComeMoves
  DEF Inbound, Balanced, Is, If, Owes, counts, NotesAllowed, OutboundAllowed, TasksAllowed,
      CallTypeOK, NotesAhead, TasksAhead, OutboundTasksAhead, CadenceAhead, ContactAhead,
      Held, ProcPC, Unclaimed

LEMMA CompleteBalances ==
    ASSUME CallTypeOK, NEW h \in Evaluator, Staged(h), CompleteOutbound(h)
    PROVE  Moves(h) /\ Balanced(h)
<1>1. /\ UNCHANGED <<setting, overtaken, repeated, crm>> /\ proc[h].pc = "complete" /\ ~Inbound
      /\ \/ row'.status = "completed" /\ unfinished' = unfinished
         \/ row' = row /\ unfinished' = unfinished + 1
  BY DEF CompleteOutbound, Complete, CallTypeOK, Staged
<1>2. ~proc[h].failed
  BY <1>1 DEF Staged
<1>3. \/ setting.kind = "test" /\ Goto(h, "evaluate")
      \/ setting.kind # "test" /\ (Goto(h, "task") \/ Return(h))
  BY DEF CompleteOutbound
<1>4. /\ OneMoves(h) /\ ~proc'[h].failed
      /\ proc'[h].pc \in IF setting.kind = "test" THEN {"evaluate"} ELSE {"task", "idle"}
  BY <1>2, <1>3, GotoMoves, ReturnMoves
<1>5. /\ row'.status = "completed" => Vacant(row', setting, proc') = 0
      /\ row' = row /\ proc'[h].pc # "idle"
            => Vacant(row', setting, proc') <= Vacant(row, setting, proc)
  BY <1>1, <1>4, Completed, StaysHeld DEF Held, ProcPC, Unclaimed
<1>6. Moves(h)
  BY <1>1, <1>4 DEF Moves, Staged, Inbound
<1>7. setting.kind \in {"outbound", "test"}
  BY <1>1, CallAssumption DEF CallTypeOK, Setting, Inbound
<1> HIDE DEF Moves
<1> QED
  BY <1>1, <1>4, <1>5, <1>6, <1>7, VacantTyped, ToComeTyped, ToComeMoves
  DEF Inbound, Balanced, Is, If, Owes, counts, NotesAllowed, OutboundAllowed, TasksAllowed,
      CallTypeOK, NotesAhead, TasksAhead, OutboundTasksAhead, CadenceAhead, ContactAhead,
      Held, ProcPC, Unclaimed

LEMMA TaskBalances ==
    ASSUME CallTypeOK, NEW h \in Evaluator, Staged(h), CreateTask(h)
    PROVE  Moves(h) /\ Balanced(h)
<1>1. /\ UNCHANGED <<setting, row, counts>> /\ proc[h].pc = "task"
  BY DEF CreateTask
<1>2. OneMoves(h) /\ proc'[h].pc = "evaluate"
  BY GotoMoves DEF CreateTask
<1>3. Vacant(row', setting, proc') <= Vacant(row, setting, proc)
  BY <1>1, <1>2, StaysHeld DEF Held, ProcPC, Unclaimed
<1>4. /\ crm'.known = crm.known /\ crm'.notes = crm.notes /\ crm'.cadence = crm.cadence
      /\ crm'.contacts = crm.contacts /\ crm'.missed = crm.missed
      /\ crm'.doubled = crm.doubled
      /\ crm'.tasks \in {crm.tasks, crm.tasks + 1}
  BY DEF CreateTask, CallTypeOK
<1>5. ~proc'[h].failed
  BY <1>1, GotoMoves DEF CreateTask, Staged
<1>6. Moves(h)
  BY <1>1, <1>2, <1>4, <1>5 DEF Moves, Staged, Inbound
<1>7. Owes(row', setting, proc'[h]) => Owes(row, setting, proc[h])
  BY <1>1, <1>2, <1>5 DEF Owes
<1>8. ToCome(row', setting, proc') <= ToCome(row, setting, proc)
  BY <1>3, <1>6, <1>7, VacantTyped, ToComeTyped, ToComeMoves DEF If
<1> HIDE DEF Moves
<1> QED
  BY <1>1, <1>2, <1>3, <1>4, <1>6, <1>8, VacantTyped, ToComeTyped
  DEF Balanced, Is, counts, NotesAllowed, OutboundAllowed, TasksAllowed,
      CallTypeOK, NotesAhead, TasksAhead, OutboundTasksAhead, CadenceAhead, ContactAhead,
      Held, ProcPC, Unclaimed

LEMMA StartBalances ==
    ASSUME CallTypeOK, NEW h \in Evaluator, Staged(h), StartAutomations(h)
    PROVE  Moves(h) /\ Balanced(h)
<1>1. /\ UNCHANGED <<setting, row, counts, crm>> /\ proc[h].pc = "evaluate"
  BY DEF StartAutomations
<1>2. OneMoves(h) /\ proc'[h].pc = "evaluating" /\ proc'[h].failed = proc[h].failed
  BY GotoMoves DEF StartAutomations
<1>3. Vacant(row', setting, proc') <= Vacant(row, setting, proc)
  BY <1>1, <1>2, StaysHeld DEF Held, ProcPC, Unclaimed
<1>4. Moves(h)
  BY <1>1, <1>2 DEF Moves, Staged, Inbound
<1> QED
  BY <1>1, <1>2, <1>3, <1>4, VacantTyped, ToComeTyped, ToComeMoves
  DEF Inbound, Balanced, Is, If, Owes, counts, NotesAllowed, OutboundAllowed, TasksAllowed,
      CallTypeOK, NotesAhead, TasksAhead, OutboundTasksAhead, CadenceAhead, ContactAhead,
      Held, ProcPC, Unclaimed

LEMMA DoneBalances ==
    ASSUME CallTypeOK, NEW h \in Evaluator, Staged(h), AutomationsDone(h)
    PROVE  Moves(h) /\ Balanced(h)
<1>1. /\ UNCHANGED <<setting, row, counts, crm>> /\ proc[h].pc = "evaluating"
  BY DEF AutomationsDone
<1>2. CASE Return(h) /\ (setting.kind = "test" \/ proc[h].failed)
  <2>1. OneMoves(h) /\ proc'[h].pc = "idle" /\ ~proc'[h].failed
    BY <1>2, ReturnMoves
  <2>2. row.status # "completed" => Owes(row, setting, proc[h])
    BY <1>1, <1>2 DEF Owes
  <2>3. row.status = "completed" => Vacant(row', setting, proc') = 0
    BY <1>1, Completed
  <2>4. Moves(h)
    BY <1>1, <2>1 DEF Moves, Staged
  <2> QED
    BY <1>1, <1>2, <2>1, <2>2, <2>3, <2>4, VacantTyped, ToComeTyped, ToComeMoves
  DEF Inbound, Balanced, Is, If, Owes, counts, NotesAllowed, OutboundAllowed, TasksAllowed,
      CallTypeOK, NotesAhead, TasksAhead, OutboundTasksAhead, CadenceAhead, ContactAhead,
      Held, ProcPC, Unclaimed
<1>3. ASSUME NEW pc \in {"cadence", "finalize"}, Goto(h, pc), ~proc[h].failed,
             pc = "cadence" <=> setting.kind = "outbound", setting.kind # "test"
      PROVE  Moves(h) /\ Balanced(h)
  <2>1. OneMoves(h) /\ proc'[h].pc = pc /\ ~proc'[h].failed
    BY <1>3, GotoMoves
  <2>2. Vacant(row', setting, proc') <= Vacant(row, setting, proc)
    BY <1>1, <2>1, StaysHeld DEF Held, ProcPC, Unclaimed
  <2>3. pc = "finalize" => Inbound
    BY <1>3, CallAssumption DEF CallTypeOK, Setting, Inbound
  <2>4. pc = "cadence" => ~Inbound
    BY <1>3 DEF Inbound
  <2>5. Moves(h)
    BY <1>1, <1>3, <2>1, <2>3, <2>4 DEF Moves, Staged, Inbound
  <2>6. Inbound /\ setting.same => crm.known
    BY <1>1, <1>3 DEF Staged
  <2>7. proc'[h].pc \in {"cadence", "finalize"}
    BY <2>1
  <2> QED
    BY <1>1, <1>3, <2>1, <2>2, <2>5, <2>6, <2>7, VacantTyped, ToComeTyped, ToComeMoves
  DEF Inbound, Balanced, Is, If, Owes, counts, NotesAllowed, OutboundAllowed, TasksAllowed,
      CallTypeOK, NotesAhead, TasksAhead, OutboundTasksAhead, CadenceAhead, ContactAhead,
      Held, ProcPC, Unclaimed
<1> QED BY <1>2, <1>3 DEF AutomationsDone

LEMMA CadenceBalances ==
    ASSUME CallTypeOK, NEW h \in Evaluator, Staged(h), WriteCadence(h)
    PROVE  Moves(h) /\ Balanced(h)
<1>1. /\ UNCHANGED <<setting, row, counts>> /\ proc[h].pc = "cadence"
      /\ setting.kind = "outbound"
  BY DEF WriteCadence, Staged
<1>2. OneMoves(h) /\ proc'[h].pc = "idle" /\ ~proc'[h].failed
  BY ReturnMoves DEF WriteCadence
<1>3. row.status = "completed" => Vacant(row', setting, proc') = 0
  BY <1>1, Completed
<1>4. /\ crm'.known = crm.known /\ crm'.notes = crm.notes /\ crm'.tasks = crm.tasks
      /\ crm'.contacts = crm.contacts /\ crm'.missed = crm.missed
      /\ crm'.doubled = crm.doubled /\ crm'.cadence = crm.cadence + 1
  BY DEF WriteCadence, CallTypeOK
<1>5. Moves(h)
  BY <1>1, <1>2, <1>4 DEF Moves, Staged
<1> QED
  BY <1>1, <1>2, <1>3, <1>4, <1>5, VacantTyped, ToComeTyped, ToComeMoves
  DEF Inbound, Balanced, Is, If, Owes, counts, NotesAllowed, OutboundAllowed, TasksAllowed,
      CallTypeOK, NotesAhead, TasksAhead, OutboundTasksAhead, CadenceAhead, ContactAhead,
      Held, ProcPC, Unclaimed

LEMMA FinalizeBalances ==
    ASSUME CallTypeOK, NEW h \in Evaluator, Staged(h), FinalizeInbound(h)
    PROVE  Moves(h) /\ Balanced(h)
<1>1. /\ UNCHANGED <<setting, overtaken, repeated, crm>> /\ proc[h].pc = "finalize" /\ Inbound
      /\ setting.kind \notin {"outbound", "test"}
      /\ \/ row'.status = "completed" /\ unfinished' = unfinished
         \/ row' = row /\ unfinished' = unfinished + 1
  BY DEF FinalizeInbound, Complete, CallTypeOK, Staged, Inbound
<1>2. /\ OneMoves(h)
      /\ \/ proc'[h].pc = "evaluate" /\ proc'[h].failed
         \/ proc'[h].pc = "idle" /\ ~proc'[h].failed
  BY GotoMoves, ReturnMoves DEF FinalizeInbound
<1>3. /\ row'.status = "completed" => Vacant(row', setting, proc') = 0
      /\ row' = row /\ proc'[h].pc # "idle"
            => Vacant(row', setting, proc') <= Vacant(row, setting, proc)
  BY <1>1, <1>2, Completed, StaysHeld DEF Held, ProcPC, Unclaimed
<1>4. Moves(h)
  BY <1>1, <1>2 DEF Moves, Staged, Inbound
<1> HIDE DEF Moves
<1> QED
  BY <1>1, <1>2, <1>3, <1>4, VacantTyped, ToComeTyped, ToComeMoves
  DEF Balanced, Is, counts, If, Owes, NotesAllowed, OutboundAllowed, TasksAllowed,
     CallTypeOK, NotesAhead, TasksAhead, OutboundTasksAhead, CadenceAhead, ContactAhead, Held,
     ProcPC, Unclaimed

LEMMA CrashBalances ==
    ASSUME CallTypeOK, NEW h \in Evaluator, Staged(h), ProcessorCrash(h)
    PROVE  Moves(h) /\ Balanced(h)
<1>1. UNCHANGED <<setting, row, overtaken, unfinished, crm>>
  BY DEF ProcessorCrash
<1>2. OneMoves(h) /\ proc'[h].pc = "idle" /\ ~proc'[h].failed
  BY ReturnMoves DEF ProcessorCrash
<1>3. Moves(h)
  BY <1>1, <1>2 DEF Moves, Staged
<1>4. proc[h].pc \in ProcPC
  BY DEF CallTypeOK, Proc
<1>5. CASE proc[h].pc \in Held /\ row.status # "completed"
  <2>1. repeated' = repeated + 1
    BY <1>5, HoldingIs DEF ProcessorCrash, At
  <2>2. setting.kind = "outbound" =>
             \/ Owes(row, setting, proc[h])
             \/ proc[h].pc \in {"load", "log", "fallback", "complete"}
    BY <1>4, <1>5 DEF Staged, Held, Unclaimed, ProcPC, Inbound, Owes
  <2>3. Inbound /\ setting.same /\ ~crm.known =>
             proc[h].pc \in ContactAhead \/ Owes(row, setting, proc[h])
    BY <1>4, <1>5 DEF Staged, Held, Unclaimed, ProcPC, Inbound, ContactAhead, Owes
  <2>4. setting.kind = "outbound" => ~Inbound
    BY DEF Inbound
  <2>5. Is(proc'[h].pc, Held) = 0 /\ Is(proc[h].pc, Held) = 1
    BY <1>2, <1>5 DEF Is, Held, Unclaimed
  <2>6. Is(proc'[h].pc, Held) + Vacant(row', setting, proc') + overtaken
          <= Is(proc[h].pc, Held) + Vacant(row, setting, proc) + overtaken'
    BY <1>1, <2>5, VacantTyped DEF CallTypeOK
  <2> QED
    BY <1>1, <1>2, <1>3, <2>1, <2>2, <2>3, <2>4, <2>6, VacantTyped, ToComeTyped, ToComeMoves
  DEF Inbound, Balanced, Is, If, Owes, counts, NotesAllowed, OutboundAllowed, TasksAllowed,
      CallTypeOK, NotesAhead, TasksAhead, OutboundTasksAhead, CadenceAhead, ContactAhead
<1>6. CASE ~(proc[h].pc \in Held /\ row.status # "completed")
  <2>1. repeated' = repeated
    BY <1>6, HoldingIs DEF ProcessorCrash, At
  <2>2. Vacant(row', setting, proc') <= Vacant(row, setting, proc)
    <3>1. CASE row.status = "completed"
      BY <1>1, <3>1, Completed
    <3>2. CASE proc[h].pc \notin Held
      <4>1. proc[h].pc \in Unclaimed /\ proc'[h].pc \in Unclaimed
        BY <1>2, <1>4, <3>2 DEF Held, Unclaimed
      <4>2. Vacant(row', setting, proc') = Vacant(row, setting, proc)
        BY <1>1, <1>2, <4>1, StaysOut
      <4> QED BY <4>2, VacantTyped
    <3> QED BY <1>6, <3>1, <3>2
  <2> QED
    BY <1>1, <1>2, <1>3, <2>1, <2>2, VacantTyped, ToComeTyped, ToComeMoves
  DEF Inbound, Balanced, Is, If, Owes, counts, NotesAllowed, OutboundAllowed, TasksAllowed,
      CallTypeOK, NotesAhead, TasksAhead, OutboundTasksAhead, CadenceAhead, ContactAhead,
      Held, ProcPC, Unclaimed
<1> QED BY <1>5, <1>6

LEMMA LapseKept ==
    ASSUME CallTypeOK, CallTypeOK', Shared, LeaseLapses
    PROVE  Shared'
<1>1. /\ UNCHANGED <<setting, proc, repeated, unfinished, crm>>
      /\ row.claim = "held" /\ row.status # "completed"
      /\ row'.status = row.status /\ row'.claim = "lapsed"
  BY DEF LeaseLapses, CallTypeOK
<1>2. ToCome(row', setting, proc) - Vacant(row', setting, proc)
        = ToCome(row, setting, proc) - Vacant(row, setting, proc)
  <2>1. Owing(row', setting, proc) = Owing(row, setting, proc)
    BY <1>1 DEF Owing, Owes
  <2>2. \A m \in Nat, n \in 0..1, k \in Nat : k = n + m => k - n = m
    OBVIOUS
  <2>3. Cardinality(Owing(row, setting, proc)) \in Nat
    BY CallAssumption, FS_Subset, FS_CardinalityType DEF Owing
  <2> QED BY <2>1, <2>2, <2>3, VacantTyped, ToComeTyped DEF ToCome
<1>3. CASE Holding = {}
  <2>1. Vacant(row, setting, proc) = 1 /\ Vacant(row', setting, proc) = 1
    BY <1>1, <1>3, HoldingIs DEF Vacant, Held
  <2>2. ToCome(row', setting, proc) = ToCome(row, setting, proc)
    BY <1>2, <2>1, ToComeTyped
  <2>3. overtaken' = overtaken
    BY <1>3 DEF LeaseLapses
  <2> QED
    BY <1>1, <2>1, <2>2, <2>3 DEF Shared, NotesShared, TasksShared, CadenceShared,
       ContactsShared, CallShared, Inbound, NotesAllowed, OutboundAllowed, TasksAllowed
<1>4. CASE Holding # {}
  <2>1. PICK h \in Evaluator : h \in Holding
    BY <1>4 DEF Holding
  <2>2. OneMoves(h) /\ overtaken' = overtaken + 1
    BY <1>1, <1>4 DEF OneMoves, LeaseLapses
  <2>3. Balanced(h)
    <3>1. ToCome(row', setting, proc') <= ToCome(row, setting, proc) + 1
      <4>1. ToCome(row', setting, proc) <= ToCome(row, setting, proc) + 1
        BY <1>2, VacantTyped, ToComeTyped
      <4> QED BY <1>1, <4>1
    <3> QED
      BY <1>1, <2>2, <3>1, VacantTyped, ToComeTyped
      DEF Balanced, Is, CallTypeOK, NotesAllowed, OutboundAllowed, TasksAllowed
  <2> QED BY <1>1, <2>2, <2>3, BalanceKept
<1> QED BY <1>3, <1>4

-----------------------------------------------------------------------------
(* Types of the call. *)

LEMMA CallInitTyped == Init => CallTypeOK
<1> SUFFICES ASSUME Init PROVE CallTypeOK
  OBVIOUS
<1>1. IdleProc \in Proc
  BY DEF IdleProc, Proc, ProcPC
<1>2. proc \in [Evaluator -> Proc]
  BY <1>1 DEF Init
<1>3. crm \in [known : BOOLEAN, missed : Nat, contacts : Nat, notes : Nat, doubled : Nat,
               tasks : Nat, cadence : Nat]
  BY DEF Init
<1> QED BY <1>2, <1>3 DEF Init, CallTypeOK

(* A processor goes to one of its steps, or returns. *)
LEMMA GoesTyped ==
    ASSUME CallTypeOK, NEW h \in Evaluator,
           (\E pc \in ProcPC : Goto(h, pc)) \/ Return(h)
    PROVE  proc' \in [Evaluator -> Proc]
<1>1. IdleProc \in Proc
  BY DEF IdleProc, Proc, ProcPC
<1>2. ASSUME NEW pc \in ProcPC, Goto(h, pc) PROVE proc' \in [Evaluator -> Proc]
  BY <1>2 DEF CallTypeOK, Goto, Proc
<1>3. CASE Return(h)
  BY <1>1, <1>3 DEF CallTypeOK, Return
<1> QED BY <1>2, <1>3

LEMMA BeginTyped ==
    ASSUME CallTypeOK, NEW h \in Evaluator, Begin(h), deliveries' \in Nat
    PROVE  CallTypeOK'
<1>1. [IdleProc EXCEPT !.pc = "look"] \in Proc
  BY DEF IdleProc, Proc, ProcPC
<1>2. proc' \in [Evaluator -> Proc]
  BY <1>1 DEF Begin, CallTypeOK
<1> QED BY <1>2 DEF Begin, CallTypeOK, counts

LEMMA ProcessTyped ==
    ASSUME CallTypeOK, NEW h \in Evaluator, Staged(h), Process(h) \/ ProcessorCrash(h)
    PROVE  CallTypeOK'
<1> USE DEF CallTypeOK, counts
<1>1. ASSUME proc' \in [Evaluator -> Proc], UNCHANGED <<setting, analyzed, deliveries, crm>>,
             \/ row' = row
             \/ row' = [row EXCEPT !.status = "dialing"]
             \/ row' = [row EXCEPT !.status = "completed"]
             \/ row' = [row EXCEPT !.claim = "held"],
             overtaken' \in {overtaken, overtaken + 1},
             repeated' \in {repeated, repeated + 1},
             unfinished' \in {unfinished, unfinished + 1}
      PROVE  CallTypeOK'
  <2>1. row' \in [status : {"none", "dialing", "completed"}, claim : {"none", "held", "lapsed"}]
    BY <1>1
  <2>2. overtaken' \in Nat /\ repeated' \in Nat /\ unfinished' \in Nat
    BY <1>1
  <2> QED BY <1>1, <2>1, <2>2
<1>2. ASSUME proc' \in [Evaluator -> Proc],
             UNCHANGED <<setting, analyzed, deliveries, row, counts>>,
             \/ crm' = crm
             \/ crm' = [crm EXCEPT !.missed = @ + 1]
             \/ crm' = [crm EXCEPT !.contacts = @ + 1, !.known = @ \/ setting.same]
             \/ crm' = [crm EXCEPT !.notes = @ + 1]
             \/ crm' = [crm EXCEPT !.notes = @ + 1, !.doubled = @ + 1]
             \/ crm' = [crm EXCEPT !.tasks = @ + 1]
             \/ crm' = [crm EXCEPT !.cadence = @ + 1]
      PROVE  CallTypeOK'
  <2>1. (crm.known \/ setting.same) \in BOOLEAN
    BY DEF Setting
  <2>2. crm' \in [known : BOOLEAN, missed : Nat, contacts : Nat, notes : Nat,
                  doubled : Nat, tasks : Nat, cadence : Nat]
    <3> DEFINE Crm == [known : BOOLEAN, missed : Nat, contacts : Nat, notes : Nat,
                       doubled : Nat, tasks : Nat, cadence : Nat]
    <3>1. [crm EXCEPT !.missed = @ + 1] \in Crm /\ [crm EXCEPT !.notes = @ + 1] \in Crm
      OBVIOUS
    <3>2. [crm EXCEPT !.tasks = @ + 1] \in Crm /\ [crm EXCEPT !.cadence = @ + 1] \in Crm
      OBVIOUS
    <3>3. [crm EXCEPT !.notes = @ + 1, !.doubled = @ + 1] \in Crm
      <4>1. crm.notes + 1 \in Nat /\ crm.doubled + 1 \in Nat
        OBVIOUS
      <4> QED BY <4>1
    <3>4. crm.contacts + 1 \in Nat
      OBVIOUS
    <3>5. \A b \in BOOLEAN : [crm EXCEPT !.contacts = @ + 1, !.known = b] \in Crm
      BY <3>4, Zenon
    <3> HIDE DEF Crm
    <3>6. [crm EXCEPT !.contacts = @ + 1, !.known = @ \/ setting.same] \in Crm
      BY <2>1, <3>5, Zenon
    <3> QED BY <1>2, <3>1, <3>2, <3>3, <3>6 DEF Crm
  <2> QED BY <1>2, <2>2
<1>3. CASE LookUp(h)
  <2>1. proc' \in [Evaluator -> Proc]
    BY <1>3, GoesTyped DEF LookUp, ProcPC
  <2> QED BY <1>1, <1>3, <2>1 DEF LookUp
<1>4. CASE InsertLegacy(h)
  <2>1. proc' \in [Evaluator -> Proc]
    BY <1>4, GoesTyped DEF InsertLegacy, ProcPC
  <2>2. overtaken' \in {overtaken, overtaken + 1}
    BY <1>4 DEF InsertLegacy
  <2> QED BY <1>1, <1>4, <2>1, <2>2 DEF InsertLegacy
<1>5. CASE ClaimCall(h)
  <2>1. proc' \in [Evaluator -> Proc]
    BY <1>5, GoesTyped DEF ClaimCall, ProcPC
  <2> QED BY <1>1, <1>5, <2>1 DEF ClaimCall
<1>6. CASE Load(h)
  <2>1. setting.kind \in {"outbound", "test", "inbound"}
    BY <1>6, CallAssumption DEF Setting, Load, Staged, Legacy
  <2>2. proc' \in [Evaluator -> Proc]
    BY <1>6, <2>1, GoesTyped DEF Load, ProcPC
  <2> QED BY <1>1, <1>6, <2>2 DEF Load
<1>7. CASE FindContact(h)
  <2>1. proc' \in [Evaluator -> Proc]
    BY <1>7, GoesTyped DEF FindContact, ProcPC, Goto
  <2> QED BY <1>2, <1>7, <2>1 DEF FindContact
<1>8. CASE CreateContact(h)
  <2>1. proc' \in [Evaluator -> Proc]
    <3>1. CASE Goto(h, "log")
      BY <3>1, GoesTyped DEF ProcPC
    <3>2. CASE proc' = [proc EXCEPT ![h].pc = "finalize", ![h].failed = TRUE]
      BY <3>2 DEF Proc, ProcPC
    <3> QED BY <1>8, <3>1, <3>2 DEF CreateContact
  <2> QED BY <1>2, <1>8, <2>1 DEF CreateContact
<1>9. CASE LogCall(h) \/ AddFallbackNote(h)
  <2>1. proc' \in [Evaluator -> Proc]
    BY <1>9, GoesTyped DEF LogCall, AddFallbackNote, AfterLog, ProcPC
  <2> QED BY <1>2, <1>9, <2>1 DEF LogCall, AddFallbackNote
<1>10. CASE CompleteOutbound(h)
  <2>1. proc' \in [Evaluator -> Proc]
    BY <1>10, GoesTyped DEF CompleteOutbound, ProcPC
  <2> QED BY <1>1, <1>10, <2>1 DEF CompleteOutbound, Complete
<1>11. CASE CreateTask(h)
  <2>1. proc' \in [Evaluator -> Proc]
    BY <1>11, GoesTyped DEF CreateTask, ProcPC
  <2> QED BY <1>2, <1>11, <2>1 DEF CreateTask
<1>12. CASE StartAutomations(h)
  <2>1. proc' \in [Evaluator -> Proc]
    BY <1>12, GoesTyped DEF StartAutomations, ProcPC
  <2> QED BY <1>1, <1>12, <2>1 DEF StartAutomations
<1>13. CASE AutomationsDone(h)
  <2>1. proc' \in [Evaluator -> Proc]
    BY <1>13, GoesTyped DEF AutomationsDone, ProcPC
  <2> QED BY <1>1, <1>13, <2>1 DEF AutomationsDone
<1>14. CASE WriteCadence(h)
  <2>1. proc' \in [Evaluator -> Proc]
    BY <1>14, GoesTyped DEF WriteCadence
  <2> QED BY <1>2, <1>14, <2>1 DEF WriteCadence
<1>15. CASE FinalizeInbound(h)
  <2>1. proc' \in [Evaluator -> Proc]
    BY <1>15, GoesTyped DEF FinalizeInbound, ProcPC
  <2> QED BY <1>1, <1>15, <2>1 DEF FinalizeInbound, Complete
<1>16. CASE ProcessorCrash(h)
  <2>1. proc' \in [Evaluator -> Proc]
    BY <1>16, GoesTyped DEF ProcessorCrash
  <2> QED BY <1>1, <1>16, <2>1 DEF ProcessorCrash
<1> QED
  BY <1>3, <1>4, <1>5, <1>6, <1>7, <1>8, <1>9, <1>10, <1>11, <1>12, <1>13, <1>14, <1>15, <1>16
  DEF Process

LEMMA CallNextTyped ==
    ASSUME CallTypeOK, CallInv, [Next]_vars
    PROVE  CallTypeOK'
<1>1. ASSUME UNCHANGED callVars PROVE CallTypeOK'
  BY <1>1 DEF CallTypeOK, callVars, procVars, counts
<1>2. CASE UNCHANGED vars
  BY <1>1, <1>2 DEF vars
<1>3. CASE Analyze
  BY <1>3 DEF Analyze, CallTypeOK, procVars, counts
<1>4. ASSUME NEW h \in Evaluator,
             Webhook(h) \/ ReconcileStuckCall(h) \/ ReconcileInboundCall(h)
      PROVE  CallTypeOK'
  <2>1. Begin(h) /\ deliveries' \in Nat
    BY <1>4 DEF Webhook, ReconcileStuckCall, ReconcileInboundCall, CallTypeOK
  <2> QED BY <2>1, BeginTyped
<1>5. CASE LeaseLapses
  <2>1. overtaken' \in Nat
    BY <1>5 DEF LeaseLapses, CallTypeOK
  <2> QED BY <1>5, <2>1 DEF LeaseLapses, CallTypeOK
<1>6. CASE AutomationStep
  BY <1>1, <1>6 DEF AutomationStep
<1>7. ASSUME NEW h \in Evaluator, EvaluationStep(h) PROVE CallTypeOK'
  BY <1>1, <1>7 DEF EvaluationStep
<1> QED
  BY <1>2, <1>3, <1>4, <1>5, <1>6, <1>7, ProcessTyped DEF CallInv, Next, Reconcile

(* A step of one processor leaves what is said of the others true. *)
LEMMA MoveKept ==
    ASSUME CallTypeOK, CallTypeOK', CallInv, NEW h \in Evaluator, Moves(h), Balanced(h)
    PROVE  CallInv'
<1>1. Shared'
  BY BalanceKept DEF CallInv, Shared, Moves
<1>2. ASSUME NEW g \in Evaluator PROVE Staged(g)'
  <2>1. CASE g = h
    BY <2>1 DEF Moves
  <2>2. CASE g # h
    <3>1. /\ proc'[g] = proc[g] /\ setting' = setting /\ Staged(g)
          /\ row.status = "completed" => row'.status = "completed"
          /\ crm.known => crm'.known
      BY <2>2 DEF Moves, OneMoves, CallInv
    <3> QED BY <3>1 DEF Staged, Inbound, Legacy
  <2> QED BY <2>1, <2>2
<1> QED BY <1>1, <1>2 DEF CallInv, Shared

LEMMA CallKept ==
    ASSUME CallTypeOK, CallTypeOK', CallInv, [Next]_vars
    PROVE  CallInv'
<1>1. ASSUME UNCHANGED <<setting, row, proc, crm, counts>> PROVE CallInv'
  BY <1>1 DEF CallInv, NotesShared, TasksShared, CadenceShared, ContactsShared, CallShared,
     Staged, Inbound, Legacy, counts, NotesAllowed, OutboundAllowed, TasksAllowed
<1>2. CASE UNCHANGED vars
  BY <1>1, <1>2 DEF vars, callVars, procVars
<1>3. CASE Analyze
  BY <1>1, <1>3 DEF Analyze, procVars
<1>4. ASSUME NEW h \in Evaluator,
             Webhook(h) \/ ReconcileStuckCall(h) \/ ReconcileInboundCall(h)
      PROVE  CallInv'
  BY <1>4, BeginBalances, MoveKept DEF Webhook, ReconcileStuckCall, ReconcileInboundCall
<1>5. CASE LeaseLapses
  <2>1. Shared'
    BY <1>5, LapseKept DEF CallInv, Shared
  <2>2. /\ UNCHANGED <<setting, proc, crm>> /\ row'.status = row.status
    BY <1>5 DEF LeaseLapses, CallTypeOK
  <2>3. ASSUME NEW g \in Evaluator PROVE Staged(g)'
    BY <2>2 DEF CallInv, Staged, Inbound, Legacy
  <2> QED BY <2>1, <2>3 DEF CallInv, Shared
<1>6. CASE AutomationStep
  BY <1>1, <1>6 DEF AutomationStep, callVars, procVars
<1>7. ASSUME NEW h \in Evaluator, EvaluationStep(h) PROVE CallInv'
  BY <1>1, <1>7 DEF EvaluationStep, callVars, procVars
<1>8. ASSUME NEW h \in Evaluator, Process(h) \/ ProcessorCrash(h) PROVE CallInv'
  <2>1. Staged(h)
    BY DEF CallInv
  <2>2. Moves(h) /\ Balanced(h)
    BY <1>8, <2>1, LookUpBalances, InsertLegacyBalances, ClaimBalances, LoadBalances,
       FindBalances, CreateBalances, LogBalances, CompleteBalances, TaskBalances,
       StartBalances, DoneBalances, CadenceBalances, FinalizeBalances, CrashBalances
    DEF Process
  <2> QED BY <2>2, MoveKept
<1> QED
  BY <1>2, <1>3, <1>4, <1>5, <1>6, <1>7, <1>8 DEF Next, Reconcile

LEMMA CallInvariant == Spec => [](CallTypeOK /\ CallInv)
<1>1. CallTypeOK /\ CallInv /\ [Next]_vars => (CallTypeOK /\ CallInv)'
  BY CallNextTyped, CallKept
<1>2. Init => CallTypeOK /\ CallInv
  BY CallInitTyped, CallInit
<1> QED BY <1>1, <1>2, PTL DEF Spec

(* What the call's processors leave of the automations is well typed too. *)
LEMMA AutomationsTyped ==
    ASSUME AutoTypeOK, [Next]_vars
    PROVE  AutoTypeOK'
<1>1. ASSUME UNCHANGED autoVars PROVE AutoTypeOK'
  BY <1>1 DEF autoVars, AutoTypeOK
<1>2. ASSUME UNCHANGED <<runs, job, evalVars, execVars>>, faults' \in {faults, faults + 1}
      PROVE  AutoTypeOK'
  BY <1>2 DEF evalVars, execVars, AutoTypeOK
<1>3. CASE UNCHANGED vars
  BY <1>1, <1>3 DEF vars
<1>4. CASE Analyze
  BY <1>1, <1>4 DEF Analyze
<1>5. ASSUME NEW h \in Evaluator,
             Webhook(h) \/ ReconcileStuckCall(h) \/ ReconcileInboundCall(h)
      PROVE  AutoTypeOK'
  BY <1>1, <1>5 DEF Webhook, ReconcileStuckCall, ReconcileInboundCall, Begin
<1>6. CASE LeaseLapses
  BY <1>2, <1>6 DEF LeaseLapses, Fault
<1>7. CASE AutomationStep
  BY <1>7, ClaimTyped, PostTyped, WriteResultTyped, ExecutorCrashTyped, DeliveryTyped
  DEF AutomationStep, Execute
<1>8. ASSUME NEW h \in Evaluator, EvaluationStep(h) PROVE AutoTypeOK'
  BY <1>8, EvaluationTyped DEF EvaluationStep
<1>9. ASSUME NEW h \in Evaluator, ProcessorCrash(h) PROVE AutoTypeOK'
  <2>1. IdleEval \in Eval /\ IdleEval.pc = "idle"
    BY DEF Eval, EvalPC, IdleEval
  <2>2. faults' \in Nat
    BY <1>9 DEF ProcessorCrash, Fault, AutoTypeOK
  <2> QED BY <1>9, <2>1, <2>2 DEF ProcessorCrash, execVars, AutoTypeOK
<1>10. ASSUME NEW h \in Evaluator, Process(h) PROVE AutoTypeOK'
  <2>1. CASE StartAutomations(h)
    BY <2>1, CallAssumption, EvaluationTyped DEF StartAutomations
  <2>2. CASE \/ LookUp(h) \/ ClaimCall(h) \/ CreateContact(h) \/ AddFallbackNote(h)
             \/ CreateTask(h) \/ AutomationsDone(h) \/ WriteCadence(h)
    BY <1>1, <2>2 DEF LookUp, ClaimCall, CreateContact, AddFallbackNote, CreateTask,
       AutomationsDone, WriteCadence
  <2>3. CASE \/ InsertLegacy(h) \/ Load(h) \/ FindContact(h) \/ LogCall(h)
             \/ CompleteOutbound(h) \/ FinalizeInbound(h)
    BY <1>2, <2>3 DEF InsertLegacy, Load, FindContact, LogCall, CompleteOutbound,
       FinalizeInbound, Complete, Fault
  <2> QED BY <1>10, <2>1, <2>2, <2>3 DEF Process
<1> QED
  BY <1>3, <1>4, <1>5, <1>6, <1>7, <1>8, <1>9, <1>10 DEF Next, Reconcile

(* A call, its processors, what they write and the automations they start   *)
(* keep their types, whichever kind of call it is and whatever fails.       *)
THEOREM CallTypeCorrect == Spec => []TypeOK
<1>1. Init => AutoTypeOK
  BY InitTyped DEF Init
<1>2. CallTypeOK /\ AutoTypeOK => TypeOK
  BY DEF CallTypeOK, TypeOK
<1> QED BY <1>1, <1>2, AutomationsTyped, CallInvariant, PTL DEF Spec

(* However often Retell's event is delivered and whichever reconciler takes *)
(* the call up again, a second note, task or cadence write takes a lease    *)
(* that ran out under a live processor, a crash before the completion, a    *)
(* completing update that failed unnoticed, or, for the note, a call log    *)
(* whose answer was lost.                                                   *)
THEOREM CallWrittenOnce == Spec => []WrittenBackOnce
<1>1. ASSUME CallTypeOK, CallInv PROVE WrittenBackOnce
  <2> DEFINE v == ToCome(row, setting, proc)
  <2>1. v \in Nat /\ \A pcs : Cardinality(At(proc, pcs)) \in Nat
    BY ToComeTyped, AtCounted
  <2>2. /\ crm.notes \in Nat /\ crm.tasks \in Nat /\ crm.cadence \in Nat
        /\ NotesAllowed \in Nat /\ OutboundAllowed \in Nat /\ TasksAllowed \in Nat
    BY <1>1 DEF CallTypeOK, NotesAllowed, OutboundAllowed, TasksAllowed
  <2> HIDE DEF v
  <2>3. crm.notes <= 1 + NotesAllowed
    <3>1. crm.notes + Cardinality(At(proc, NotesAhead)) + v <= 1 + NotesAllowed
      BY <1>1 DEF CallInv, NotesShared, Shares, v
    <3> QED BY <2>1, <2>2, <3>1
  <2>4. crm.tasks <= 1 + IF setting.kind = "outbound" THEN OutboundAllowed ELSE TasksAllowed
    <3>1. CASE setting.kind = "outbound"
      <4>1. crm.tasks + Cardinality(At(proc, OutboundTasksAhead)) + v <= 1 + OutboundAllowed
        BY <1>1, <3>1 DEF CallInv, TasksShared, Shares, v
      <4> QED BY <2>1, <2>2, <3>1, <4>1
    <3>2. CASE setting.kind # "outbound"
      <4>1. crm.tasks + Cardinality(At(proc, TasksAhead)) + v <= 1 + TasksAllowed
        BY <1>1, <3>2 DEF CallInv, TasksShared, Shares, v
      <4> QED BY <2>1, <2>2, <3>2, <4>1
    <3> QED BY <3>1, <3>2
  <2>5. crm.cadence <= 1 + OutboundAllowed
    <3>1. CASE setting.kind = "outbound"
      <4>1. crm.cadence + Cardinality(At(proc, CadenceAhead)) + v <= 1 + OutboundAllowed
        BY <1>1, <3>1 DEF CallInv, CadenceShared, Shares, v
      <4> QED BY <2>1, <2>2, <4>1
    <3>2. CASE setting.kind # "outbound"
      BY <1>1, <2>2, <3>2 DEF CallInv, CadenceShared
    <3> QED BY <3>1, <3>2
  <2>6. /\ NotesAllowed = Repeats + crm.doubled /\ TasksAllowed = Repeats
        /\ OutboundAllowed = overtaken + unfinished
    BY DEF NotesAllowed, TasksAllowed, OutboundAllowed, Repeats
  <2>7. crm.notes <= 1 + Repeats + crm.doubled
    BY <1>1, <2>3 DEF CallTypeOK, NotesAllowed, Repeats
  <2>8. crm.cadence <= 1 + overtaken + unfinished
    BY <1>1, <2>5 DEF CallTypeOK, OutboundAllowed
  <2> QED BY <2>4, <2>6, <2>7, <2>8 DEF WrittenBackOnce
<1> QED BY <1>1, CallInvariant, PTL

(* A retry of an inbound call finds the contact of the first try: a second  *)
(* one takes an overtaken processor, a failed look-up, or another number.   *)
THEOREM CallersGetOneContact == Spec => []OneContactPerCaller
<1>1. ASSUME CallTypeOK, CallInv PROVE OneContactPerCaller
  <2> SUFFICES ASSUME Inbound, setting.same
               PROVE  crm.contacts <= 1 + overtaken + crm.missed
    BY DEF OneContactPerCaller
  <2>1. PICK n \in Nat : crm.contacts + n <= 1 + (overtaken + crm.missed)
    <3>1. CASE crm.known
      <4>1. crm.contacts + Cardinality(At(proc, {"create"})) + 0 <= 1 + (overtaken + crm.missed)
        BY <1>1, <3>1 DEF CallInv, ContactsShared, Shares
      <4> QED BY <4>1, <1>1, AtCounted DEF CallTypeOK
    <3>2. CASE ~crm.known
      <4>1. crm.contacts + Cardinality(At(proc, ContactAhead)) + ToCome(row, setting, proc)
              <= 1 + (overtaken + crm.missed)
        BY <1>1, <3>2 DEF CallInv, ContactsShared, Shares
      <4>2. Cardinality(At(proc, ContactAhead)) \in Nat /\ ToCome(row, setting, proc) \in Nat
        BY AtCounted, ToComeTyped
      <4>3. Cardinality(At(proc, ContactAhead)) + ToCome(row, setting, proc) \in Nat
        BY <4>2
      <4>4. crm.contacts + (Cardinality(At(proc, ContactAhead)) + ToCome(row, setting, proc))
              <= 1 + (overtaken + crm.missed)
        BY <1>1, <4>1, <4>2 DEF CallTypeOK
      <4> QED BY <4>3, <4>4
    <3> QED BY <3>1, <3>2
  <2> QED BY <1>1, <2>1 DEF CallTypeOK
<1> QED BY <1>1, CallInvariant, PTL

-----------------------------------------------------------------------------
(***************************************************************************)
(* Sums over a finite set.  MapThenSumSet picks one element after another  *)
(* through a recursive function; a formula about its values is proved of   *)
(* the smallest set it could be false of.                                  *)
(***************************************************************************)

(* The least element of a set of numbers. *)
LEMMA LeastNumber ==
    ASSUME NEW N \in SUBSET Nat, N # {}
    PROVE  \E n \in N : \A m \in N : n <= m
<1>1. N \in SUBSET Nat
  OBVIOUS
<1>2. N # {}
  OBVIOUS
<1>3. \E n \in N : \A m \in N : ~(<<m, n>> \in OpToRel(<, Nat))
  <2>1. N \subseteq Nat
    BY <1>1
  <2> QED BY <1>2, <2>1, NatLessThanWellFounded, WFMin, Zenon
<1>4. PICK n \in N : \A m \in N : ~(<<m, n>> \in OpToRel(<, Nat))
  BY <1>3
<1>5. ASSUME NEW m \in N PROVE n <= m
  <2>1. m \in Nat /\ n \in Nat
    BY <1>1
  <2>2. ~(m < n)
    BY <1>4, <2>1 DEF OpToRel
  <2> QED BY <2>1, <2>2
<1> QED BY <1>5

(* The sum of f over the sets s of a table of sums: the rule of MapThenSumSet. *)
Pick(s) == CHOOSE x \in s : TRUE
SumOf(f, h, s) == IF s = {} THEN 0 ELSE f[Pick(s)] + h[s \ {Pick(s)}]

LEMMA PickRemoves ==
    ASSUME NEW S, IsFiniteSet(S), NEW s \in SUBSET S, s # {}
    PROVE  /\ Pick(s) \in s
           /\ s \ {Pick(s)} \in SUBSET S
           /\ Cardinality(s) \in Nat
           /\ Cardinality(s \ {Pick(s)}) = Cardinality(s) - 1
           /\ Cardinality(s \ {Pick(s)}) \in Nat
<1>1. Pick(s) \in s
  BY DEF Pick
<1>2. IsFiniteSet(s)
  BY FS_Subset
<1>3. s \ {Pick(s)} \in SUBSET S
  OBVIOUS
<1> HIDE DEF Pick
<1> QED BY <1>1, <1>2, <1>3, FS_RemoveElement, FS_CardinalityType, FS_Subset

(* There is a table of sums: sets of one more element are summed one after  *)
(* the other.                                                               *)
LEMMA SumsExist ==
    ASSUME NEW S, IsFiniteSet(S), NEW f, \A x \in S : f[x] \in Nat
    PROVE  \E h \in [SUBSET S -> Nat] : \A s \in SUBSET S : h[s] = SumOf(f, h, s)
<1> DEFINE Upto(h, n) == \A s \in SUBSET S : Cardinality(s) <= n => h[s] = SumOf(f, h, s)
           Failing == {n \in Nat : ~\E h \in [SUBSET S -> Nat] : Upto(h, n)}
<1>1. \A s \in SUBSET S : Cardinality(s) \in Nat /\ Cardinality(s) <= Cardinality(S)
  BY FS_Subset, FS_CardinalityType
<1>2. 0 \notin Failing
  <2> DEFINE none == [s \in SUBSET S |-> 0]
  <2>1. Upto(none, 0)
    <3> SUFFICES ASSUME NEW s \in SUBSET S, Cardinality(s) <= 0 PROVE none[s] = SumOf(f, none, s)
      OBVIOUS
    <3>1. Cardinality(s) = 0 /\ IsFiniteSet(s)
      BY <1>1, FS_Subset
    <3>2. s = {}
      BY <3>1, FS_EmptySet
    <3> QED BY <3>2 DEF SumOf
  <2>2. none \in [SUBSET S -> Nat]
    OBVIOUS
  <2> QED BY <2>1, <2>2
<1>3. ASSUME NEW n \in Nat, n \notin Failing PROVE n + 1 \notin Failing
  <2>1. PICK h \in [SUBSET S -> Nat] : Upto(h, n)
    BY <1>3
  <2> DEFINE g == [s \in SUBSET S |-> IF Cardinality(s) <= n THEN h[s] ELSE SumOf(f, h, s)]
  <2>2. ASSUME NEW s \in SUBSET S, Cardinality(s) <= n + 1 PROVE g[s] = SumOf(f, h, s)
    BY <2>1, <2>2
  <2>3. ASSUME NEW s \in SUBSET S, Cardinality(s) <= n + 1 PROVE SumOf(f, g, s) = SumOf(f, h, s)
    <3>1. CASE s = {}
      BY <3>1 DEF SumOf
    <3>2. CASE s # {}
      <4>1. s \ {Pick(s)} \in SUBSET S /\ Cardinality(s \ {Pick(s)}) <= n
        BY <2>3, <3>2, PickRemoves
      <4>2. g[s \ {Pick(s)}] = h[s \ {Pick(s)}]
        BY <4>1
      <4> QED BY <3>2, <4>2 DEF SumOf
    <3> QED BY <3>1, <3>2
  <2>4. Upto(g, n + 1)
    BY <2>2, <2>3
  <2>5. g \in [SUBSET S -> Nat]
    <3> SUFFICES ASSUME NEW s \in SUBSET S PROVE SumOf(f, h, s) \in Nat
      BY <2>1
    <3>1. CASE s = {}
      BY <3>1 DEF SumOf
    <3>2. CASE s # {}
      <4>1. Pick(s) \in S /\ s \ {Pick(s)} \in SUBSET S
        BY <3>2, PickRemoves
      <4>2. f[Pick(s)] \in Nat /\ h[s \ {Pick(s)}] \in Nat
        BY <4>1, <2>1
      <4> QED BY <3>2, <4>2 DEF SumOf
    <3> QED BY <3>1, <3>2
  <2> HIDE DEF g, Upto
  <2> QED BY <2>4, <2>5
<1> HIDE DEF Failing, Upto
<1>4. Failing = {}
  <2> SUFFICES ASSUME Failing # {} PROVE FALSE
    OBVIOUS
  <2>1. Failing \in SUBSET Nat
    BY DEF Failing
  <2>2. PICK n \in Failing : \A m \in Failing : n <= m
    BY <2>1, LeastNumber
  <2>3. n \in Nat /\ n # 0
    BY <1>2, <2>1
  <2>4. n - 1 \in Nat /\ n - 1 \notin Failing /\ (n - 1) + 1 = n
    BY <2>1, <2>2, <2>3
  <2> QED BY <1>3, <2>4
<1>5. Cardinality(S) \in Nat
  BY FS_CardinalityType
<1>6. PICK h \in [SUBSET S -> Nat] : Upto(h, Cardinality(S))
  BY <1>4, <1>5 DEF Failing
<1> QED BY <1>1, <1>6 DEF Upto

(* A formula that holds of a set when it holds of the set without one element,*)
(* and of the empty set: there is no smallest set it does not hold of.      *)
LEMMA NoSmallest ==
    ASSUME NEW S, IsFiniteSet(S), NEW Bad \in SUBSET SUBSET S,
           \A s \in Bad : s # {} /\ s \ {Pick(s)} \in Bad
    PROVE  Bad = {}
<1> SUFFICES ASSUME Bad # {} PROVE FALSE
  OBVIOUS
<1> DEFINE Sizes == {Cardinality(s) : s \in Bad}
<1>1. Sizes \in SUBSET Nat /\ Sizes # {}
  BY FS_Subset, FS_CardinalityType
<1>2. PICK n \in Sizes : \A m \in Sizes : n <= m
  <2> HIDE DEF Sizes
  <2> QED BY <1>1, LeastNumber
<1>3. PICK s \in Bad : n = Cardinality(s)
  BY <1>2
<1>4. Cardinality(s \ {Pick(s)}) \in Sizes
  OBVIOUS
<1>5. Cardinality(s \ {Pick(s)}) = Cardinality(s) - 1 /\ Cardinality(s) \in Nat
  BY PickRemoves
<1> QED BY <1>2, <1>3, <1>4, <1>5

TotalOf(f, S) == MapThenSumSet(LAMBDA x : f[x], S)

(* The sum over a set is the entry of such a table. *)
LEMMA SumIsEntry ==
    ASSUME NEW S, IsFiniteSet(S), NEW f, \A x \in S : f[x] \in Nat
    PROVE  \E h \in [SUBSET S -> Nat] :
              /\ \A s \in SUBSET S : h[s] = SumOf(f, h, s)
              /\ TotalOf(f, S) = h[S]
<1> DEFINE Table(h) == h = [s \in SUBSET S |-> IF s = {} THEN 0
                                 ELSE f[CHOOSE x \in s : TRUE] + h[s \ {CHOOSE x \in s : TRUE}]]
           sums == CHOOSE h : Table(h)
<1>1. PICK h \in [SUBSET S -> Nat] : \A s \in SUBSET S : h[s] = SumOf(f, h, s)
  BY SumsExist
<1>2. Table(h)
  BY <1>1 DEF SumOf, Pick
<1>3. Table(sums)
  BY <1>2
<1>4. TotalOf(f, S) = sums[S]
  BY DEF TotalOf, MapThenSumSet, MapThenFoldSet
<1> HIDE DEF sums
<1>5. \A s \in SUBSET S : sums[s] = SumOf(f, sums, s)
  BY <1>3 DEF SumOf, Pick
<1>6. sums \in [SUBSET S -> Nat]
  <2> DEFINE Bad == {s \in SUBSET S : sums[s] \notin Nat}
  <2>1. ASSUME NEW s \in Bad PROVE s # {} /\ s \ {Pick(s)} \in Bad
    <3>1. sums[s] = SumOf(f, sums, s)
      BY <1>5
    <3>2. s # {}
      BY <3>1 DEF SumOf
    <3>3. Pick(s) \in S /\ s \ {Pick(s)} \in SUBSET S
      BY <3>2, PickRemoves
    <3>4. sums[s \ {Pick(s)}] \notin Nat
      BY <3>1, <3>2, <3>3 DEF SumOf
    <3> QED BY <3>2, <3>3, <3>4
  <2>2. Bad = {}
    <3>1. Bad \in SUBSET SUBSET S
      OBVIOUS
    <3> HIDE DEF Bad
    <3> QED BY <2>1, <3>1, NoSmallest
  <2> QED BY <1>3, <2>2
<1> QED BY <1>4, <1>5, <1>6

(* If every summand is at most one above the other, so is the sum by the    *)
(* number of summands.                                                      *)
LEMMA SumsCompared ==
    ASSUME NEW S, IsFiniteSet(S), NEW f, NEW g,
           \A x \in S : f[x] \in Nat /\ g[x] \in Nat /\ f[x] <= 1 + g[x]
    PROVE  /\ TotalOf(f, S) \in Nat
           /\ TotalOf(g, S) \in Nat
           /\ TotalOf(f, S)
                  <= Cardinality(S) + TotalOf(g, S)
<1>1. (\A x \in S : f[x] \in Nat) /\ (\A x \in S : g[x] \in Nat)
  OBVIOUS
<1>2. PICK p \in [SUBSET S -> Nat] : /\ \A s \in SUBSET S : p[s] = SumOf(f, p, s)
                                     /\ TotalOf(f, S) = p[S]
  BY <1>1, SumIsEntry
<1>3. PICK q \in [SUBSET S -> Nat] : /\ \A s \in SUBSET S : q[s] = SumOf(g, q, s)
                                     /\ TotalOf(g, S) = q[S]
  BY <1>1, SumIsEntry
<1> DEFINE Bad == {s \in SUBSET S : ~(p[s] <= Cardinality(s) + q[s])}
<1>4. ASSUME NEW s \in Bad PROVE s # {} /\ s \ {Pick(s)} \in Bad
  <2>1. p[s] = SumOf(f, p, s) /\ q[s] = SumOf(g, q, s)
    BY <1>2, <1>3
  <2>2. s # {}
    <3>1. CASE s = {}
      <4>1. p[s] = 0 /\ q[s] = 0 /\ Cardinality(s) = 0
        BY <2>1, <3>1, FS_EmptySet DEF SumOf
      <4> QED BY <4>1
    <3> QED BY <3>1
  <2> DEFINE x == Pick(s)
             rest == s \ {x}
  <2>3. x \in S /\ rest \in SUBSET S /\ Cardinality(rest) = Cardinality(s) - 1
        /\ Cardinality(s) \in Nat
    BY <2>2, PickRemoves
  <2>4. p[s] = f[x] + p[rest] /\ q[s] = g[x] + q[rest]
    BY <2>1, <2>2 DEF SumOf
  <2>5. p[rest] \in Nat /\ q[rest] \in Nat /\ f[x] \in Nat /\ g[x] \in Nat /\ f[x] <= 1 + g[x]
    BY <2>3
  <2>6. ~(p[s] <= Cardinality(s) + q[s])
    OBVIOUS
  <2> HIDE DEF x, rest
  <2>7. ~(p[rest] <= Cardinality(rest) + q[rest])
    BY <2>3, <2>4, <2>5, <2>6
  <2> QED BY <2>2, <2>3, <2>7 DEF x, rest
<1>5. Bad = {}
  <2>1. Bad \in SUBSET SUBSET S
    OBVIOUS
  <2> HIDE DEF Bad
  <2> QED BY <1>4, <2>1, NoSmallest
<1>6. p[S] \in Nat /\ q[S] \in Nat /\ p[S] <= Cardinality(S) + q[S]
  BY <1>5
<1> QED BY <1>2, <1>3, <1>6

-----------------------------------------------------------------------------
(***************************************************************************)
(* One send per trigger.  An evaluation that finds no run of its trigger   *)
(* may insert one, and so may every other that looked before; all of them  *)
(* are processors that hold the call.  A run that is there keeps them away *)
(* unless it is in trouble, and a run out of trouble has sent at most as   *)
(* often as it was answered.                                               *)
(***************************************************************************)

Refused(x, r) == exec[x].run = r /\ exec[x].pc = "write" /\ ~exec[x].ok

(* Until a failure hides one, every accepted POST is an answer, and a run   *)
(* that failed, or is about to, has an answer that was no accepted POST.    *)
AnswersIn(r) ==
    disturbed[r] = 0 =>
        /\ posts[r] <= Answered(r)
        /\ runs[r].status \in {"failed", "dead"} => Answered(r) > posts[r]
        /\ (\E x \in Executor : Refused(x, r)) => Answered(r) > posts[r]

AnswersInv == \A r \in RunId : AnswersIn(r)

(* A run keeps its answers in order, and out of trouble it never gets.      *)
AnswersKept(r) == AnswersIn(r)' /\ (Troubled(r) => Troubled(r)')

LEMMA AnsweredTyped ==
    ASSUME AutoTypeOK, NEW r \in RunId
    PROVE  /\ Answered(r) \in Nat /\ posts[r] \in Nat /\ disturbed[r] \in Nat
BY DEF AutoTypeOK, Run, Answered

(* A step of another run, or one that answers nothing and fails nothing but *)
(* what was refused.                                                        *)
LEMMA AnswersLeft ==
    ASSUME AutoTypeOK, AutoTypeOK', NEW r \in RunId, AnswersIn(r),
           disturbed'[r] = disturbed[r],
           posts'[r] = posts[r],
           Answered(r)' = Answered(r),
           runs'[r].status \in {"failed", "dead"} =>
               runs[r].status \in {"failed", "dead"} \/ \E x \in Executor : Refused(x, r),
           (\E x \in Executor : Refused(x, r))' => \E x \in Executor : Refused(x, r)
    PROVE  AnswersKept(r)
BY AnsweredTyped DEF AnswersKept, AnswersIn, Troubled

LEMMA AnswersDisturbed ==
    ASSUME AutoTypeOK', NEW r \in RunId, disturbed'[r] # 0
    PROVE  AnswersKept(r)
BY DEF AnswersKept, AnswersIn, Troubled, AutoTypeOK

(* Nothing happened to the run. *)
LEMMA AnswersUntouched ==
    ASSUME AutoTypeOK, AutoTypeOK', NEW r \in RunId, AnswersIn(r),
           disturbed'[r] = disturbed[r], posts'[r] = posts[r],
           runs'[r].attempts = runs[r].attempts,
           runs'[r].status \in {"failed", "dead"} => runs[r].status \in {"failed", "dead"},
           \A x \in Executor : exec'[x] = exec[x] \/ (exec'[x].run # r /\ exec[x].run # r)
                               \/ (exec'[x].pc # "write" /\ exec[x].pc # "write")
    PROVE  AnswersKept(r)
<1>1. \A x \in Executor : /\ (exec'[x].run = r /\ exec'[x].pc = "write")
                               <=> (exec[x].run = r /\ exec[x].pc = "write")
                          /\ exec[x].run = r /\ exec[x].pc = "write" => exec'[x] = exec[x]
  OBVIOUS
<1>2. Answered(r)' = Answered(r)
  BY <1>1 DEF Answered
<1>3. (\E x \in Executor : Refused(x, r))' => \E x \in Executor : Refused(x, r)
  BY <1>1 DEF Refused
<1> QED BY <1>2, <1>3, AnswersLeft

(* The slots of an undisturbed run are one. *)
LEMMA SlotAlone ==
    ASSUME LeaseInv, NEW r \in RunId, disturbed[r] = 0, NEW x \in Executor, NEW y \in Executor,
           exec[x].run = r, exec[y].run = r, exec[x].pc # "idle", exec[y].pc # "idle"
    PROVE  x = y
BY DEF LeaseInv, SlotHasLease, Calm

LEMMA EvaluationAnswers ==
    ASSUME AutoTypeOK, AutoTypeOK', LeaseInv, AnswersInv, "insert_error" \notin Faults,
           NEW v \in Evaluator, BeginEvaluation(v, TheCall) \/ Evaluate(v)
    PROVE  \A r \in RunId : AnswersKept(r)
<1> SUFFICES ASSUME NEW r \in RunId PROVE AnswersKept(r)
  OBVIOUS
<1>1. UNCHANGED <<exec, posts, disturbed>>
  BY DEF BeginEvaluation, Evaluate, FindDuplicate, InsertRun, EnqueueRun, execVars
<1>2. /\ runs'[r].attempts = runs[r].attempts
      /\ runs'[r].status \in {"failed", "dead"} => runs[r].status \in {"failed", "dead"}
  <2>1. CASE InsertRun(v)
    <3>1. PICK q \in Unused : runs' = [runs EXCEPT ![q] = [NoRun EXCEPT
                 !.status = "queued", !.call = eval[v].call, !.trigger = eval[v].trigger]]
      BY <2>1 DEF InsertRun, Fault
    <3>2. q \in RunId /\ runs[q].attempts = 0
      BY <3>1 DEF Unused, LeaseInv, FreshRow
    <3>3. runs'[q].attempts = 0 /\ runs'[q].status = "queued"
      BY <3>1, <3>2 DEF AutoTypeOK, NoRun
    <3>4. r # q => runs'[r] = runs[r]
      BY <3>1 DEF AutoTypeOK
    <3> QED BY <3>2, <3>3, <3>4
  <2>2. CASE UNCHANGED runs
    BY <2>2
  <2> QED BY <2>1, <2>2 DEF BeginEvaluation, Evaluate, FindDuplicate, EnqueueRun
<1> QED BY <1>1, <1>2, AnswersUntouched DEF AnswersInv

LEMMA ClaimAnswers ==
    ASSUME AutoTypeOK, AutoTypeOK', AnswersInv, NEW x \in Executor, NEW q \in RunId, Claim(x, q)
    PROVE  \A r \in RunId : AnswersKept(r)
<1> SUFFICES ASSUME NEW r \in RunId PROVE AnswersKept(r)
  OBVIOUS
<1>1. posts' = posts /\ exec[x].pc = "idle"
  BY DEF Claim
<1>2. CASE /\ runs' = [runs EXCEPT ![q].status = "queued"]
           /\ exec' = [exec EXCEPT ![x] = [IdleExec EXCEPT !.pc = "post", !.run = q,
                                             !.attempts = runs[q].attempts + 1]]
           /\ UNCHANGED disturbed
  <2>1. /\ runs'[r].attempts = runs[r].attempts
        /\ runs'[r].status \in {"failed", "dead"} => runs[r].status \in {"failed", "dead"}
    BY <1>2 DEF AutoTypeOK, Run
  <2>2. \A y \in Executor : exec'[y] = exec[y] \/ (exec'[y].pc # "write" /\ exec[y].pc # "write")
    BY <1>1, <1>2 DEF AutoTypeOK, IdleExec
  <2> QED BY <1>1, <1>2, <2>1, <2>2, AnswersUntouched DEF AnswersInv
<1>3. CASE /\ disturbed' = [disturbed EXCEPT ![q] = @ + faults' - faults]
           /\ UNCHANGED <<runs, exec>>
           /\ UNCHANGED faults \/ Fault("claim_error")
  <2>1. CASE disturbed'[r] = disturbed[r]
    BY <1>1, <1>3, <2>1, AnswersUntouched DEF AnswersInv
  <2>2. CASE disturbed'[r] # disturbed[r]
    <3>1. disturbed'[r] = disturbed[r] + 1
      BY <1>3, <2>2 DEF Fault, AutoTypeOK
    <3> QED BY <3>1, AnswersDisturbed DEF AutoTypeOK
  <2> QED BY <2>1, <2>2
<1> QED BY <1>2, <1>3 DEF Claim

LEMMA PostAnswers ==
    ASSUME AutoTypeOK, AutoTypeOK', LeaseInv, AnswersInv, NEW x \in Executor, Post(x)
    PROVE  \A r \in RunId : AnswersKept(r)
<1> SUFFICES ASSUME NEW r \in RunId PROVE AnswersKept(r)
  OBVIOUS
<1>1. /\ UNCHANGED runs /\ exec[x].pc = "post" /\ exec'[x].pc = "write"
      /\ exec'[x].run = exec[x].run
      /\ \A y \in Executor \ {x} : exec'[y] = exec[y]
  BY DEF Post, AutoTypeOK, Exec
<1>2. CASE disturbed'[r] # 0
  BY <1>2, AnswersDisturbed
<1>3. CASE r # exec[x].run
  <2>1. posts'[r] = posts[r] /\ disturbed'[r] = disturbed[r]
    BY <1>3 DEF Post, AutoTypeOK
  <2> QED BY <1>1, <1>3, <2>1, AnswersUntouched DEF AnswersInv
<1>4. CASE r = exec[x].run /\ disturbed'[r] = 0
  <2>1. disturbed[r] = 0 /\ \/ posts'[r] = posts[r] + 1 /\ exec'[x].ok
                            \/ posts'[r] = posts[r]
    BY <1>4 DEF Post, AutoTypeOK, Exec
  <2>2. \A y \in Executor : exec[y].run = r /\ exec[y].pc = "write" => y = x
    BY <1>1, <1>4, <2>1, SlotAlone
  <2>3. Answered(r) = runs[r].attempts
    BY <1>1, <2>2 DEF Answered, AutoTypeOK, Run
  <2>4. Answered(r)' = runs[r].attempts + 1
    BY <1>1, <1>4 DEF Answered
  <2>5. \A y \in Executor : Refused(y, r)' => y = x
    BY <1>1, <2>2 DEF Refused
  <2>6. AnswersIn(r) /\ runs[r].attempts \in Nat /\ posts[r] \in Nat
    BY DEF AnswersInv, AutoTypeOK, Run
  <2>7. CASE posts'[r] = posts[r] + 1 /\ exec'[x].ok
    <3>1. \A y \in Executor : ~Refused(y, r)'
      BY <2>5, <2>7 DEF Refused
    <3> QED BY <1>1, <1>4, <2>1, <2>3, <2>4, <2>6, <2>7, <3>1 DEF AnswersKept, AnswersIn, Troubled
  <2>8. CASE posts'[r] = posts[r]
    BY <1>1, <1>4, <2>1, <2>3, <2>4, <2>6, <2>8 DEF AnswersKept, AnswersIn, Troubled
  <2> QED BY <2>1, <2>7, <2>8
<1> QED BY <1>2, <1>3, <1>4

LEMMA WriteAnswers ==
    ASSUME AutoTypeOK, AutoTypeOK', LeaseInv, AnswersInv, NEW x \in Executor, WriteResult(x)
    PROVE  \A r \in RunId : AnswersKept(r)
<1> SUFFICES ASSUME NEW r \in RunId PROVE AnswersKept(r)
  OBVIOUS
<1>1. /\ posts' = posts /\ exec[x].pc = "write" /\ exec'[x] = IdleExec
      /\ \A y \in Executor \ {x} : exec'[y] = exec[y]
  BY DEF WriteResult, AutoTypeOK
<1>2. CASE disturbed'[r] # 0
  BY <1>2, AnswersDisturbed
<1>3. CASE r # exec[x].run
  <2>1. runs'[r] = runs[r] /\ disturbed'[r] = disturbed[r]
    BY <1>3 DEF WriteResult, AutoTypeOK
  <2>2. exec'[x].run # r
    BY <1>1, RunAssumption DEF IdleExec
  <2> QED BY <1>1, <1>3, <2>1, <2>2, AnswersUntouched DEF AnswersInv
<1>4. CASE r = exec[x].run /\ disturbed'[r] = 0
  <2>1. disturbed[r] = 0 /\ disturbed'[r] = disturbed[r]
        /\ runs'[r].status = Result(x) /\ runs'[r].attempts = exec[x].attempts
    BY <1>4 DEF WriteResult, AutoTypeOK, Run
  <2>2. \A y \in Executor : exec[y].run = r /\ exec[y].pc = "write" => y = x
    BY <1>1, <1>4, <2>1, SlotAlone
  <2>3. exec[x].attempts = runs[r].attempts + 1
    BY <1>1, <1>4, <2>1 DEF LeaseInv, SlotHasLease, Calm
  <2>4. \A y \in Executor : ~(exec'[y].run = r /\ exec'[y].pc = "write")
    BY <1>1, <2>2 DEF IdleExec
  <2>5. Answered(r)' = Answered(r)
    <3>1. Answered(r) = runs[r].attempts + 1
      BY <1>1, <1>4 DEF Answered
    <3>2. Answered(r)' = runs'[r].attempts
      BY <2>4 DEF Answered, AutoTypeOK, Run
    <3> QED BY <2>1, <2>3, <3>1, <3>2
  <2>6. (\E y \in Executor : Refused(y, r))' => \E y \in Executor : Refused(y, r)
    BY <2>4 DEF Refused
  <2>7. runs'[r].status \in {"failed", "dead"} => \E y \in Executor : Refused(y, r)
    BY <1>1, <1>4, <2>1 DEF Result, Refused
  <2> QED BY <1>1, <2>1, <2>5, <2>6, <2>7, AnswersLeft DEF AnswersInv
<1> QED BY <1>2, <1>3, <1>4

LEMMA ExecutorCrashAnswers ==
    ASSUME AutoTypeOK, AutoTypeOK', AnswersInv, NEW x \in Executor, ExecutorCrash(x)
    PROVE  \A r \in RunId : AnswersKept(r)
<1> SUFFICES ASSUME NEW r \in RunId PROVE AnswersKept(r)
  OBVIOUS
<1>1. /\ UNCHANGED <<posts, runs>> /\ exec'[x] = IdleExec /\ exec[x].run \in RunId
      /\ \A y \in Executor \ {x} : exec'[y] = exec[y]
  BY DEF ExecutorCrash, AutoTypeOK
<1>2. CASE r = exec[x].run
  <2>1. disturbed'[r] = disturbed[r] + 1
    BY <1>2 DEF ExecutorCrash, AutoTypeOK
  <2> QED BY <2>1, AnswersDisturbed DEF AutoTypeOK
<1>3. CASE r # exec[x].run
  <2>1. disturbed'[r] = disturbed[r]
    BY <1>3 DEF ExecutorCrash, AutoTypeOK
  <2>2. exec'[x].run # r
    BY <1>1, RunAssumption DEF IdleExec
  <2> QED BY <1>1, <1>3, <2>1, <2>2, AnswersUntouched DEF AnswersInv
<1> QED BY <1>2, <1>3

LEMMA JobAnswers ==
    ASSUME AutoTypeOK, AutoTypeOK', AnswersInv, NEW q \in RunId,
           Redeliver(q) \/ Stall(q) \/ Evict(q) \/ DrainRun(q)
    PROVE  \A r \in RunId : AnswersKept(r)
<1> SUFFICES ASSUME NEW r \in RunId PROVE AnswersKept(r)
  OBVIOUS
<1>1. /\ UNCHANGED <<runs, exec, posts>>
      /\ disturbed'[r] = disturbed[r] \/ disturbed'[r] = disturbed[r] + 1
  BY DEF Redeliver, Stall, Evict, DrainRun, execVars, AutoTypeOK
<1>2. CASE disturbed'[r] = disturbed[r]
  BY <1>1, <1>2, AnswersUntouched DEF AnswersInv
<1>3. CASE disturbed'[r] = disturbed[r] + 1
  BY <1>3, AnswersDisturbed DEF AutoTypeOK
<1> QED BY <1>1, <1>2, <1>3

(* What a step of the call does to the automations. *)
LEMMA CallSteps ==
    ASSUME [Next]_vars
    PROVE  \/ UNCHANGED <<runs, job, eval, exec, posts, disturbed>>
           \/ \E h \in Evaluator : ProcessorCrash(h)
           \/ \E v \in Evaluator : BeginEvaluation(v, TheCall) \/ Evaluate(v)
           \/ \E x \in Executor : Execute(x) \/ ExecutorCrash(x)
           \/ \E r \in RunId : Redeliver(r) \/ Stall(r) \/ Evict(r) \/ DrainRun(r)
<1>1. CASE UNCHANGED vars
  BY <1>1 DEF vars, autoVars
<1>2. CASE Analyze \/ LeaseLapses
  BY <1>2 DEF Analyze, LeaseLapses, autoVars, evalVars, execVars
<1>3. ASSUME NEW h \in Evaluator,
             Webhook(h) \/ ReconcileStuckCall(h) \/ ReconcileInboundCall(h)
      PROVE  UNCHANGED <<runs, job, eval, exec, posts, disturbed>>
  BY <1>3 DEF Webhook, ReconcileStuckCall, ReconcileInboundCall, Begin, autoVars
<1>4. ASSUME NEW h \in Evaluator, Process(h)
      PROVE  \/ BeginEvaluation(h, TheCall)
             \/ UNCHANGED <<runs, job, eval, exec, posts, disturbed>>
  <2>1. CASE StartAutomations(h)
    BY <2>1 DEF StartAutomations
  <2>2. CASE \/ LookUp(h) \/ ClaimCall(h) \/ CreateContact(h) \/ AddFallbackNote(h)
             \/ CreateTask(h) \/ AutomationsDone(h) \/ WriteCadence(h)
    BY <2>2 DEF LookUp, ClaimCall, CreateContact, AddFallbackNote, CreateTask,
       AutomationsDone, WriteCadence, autoVars
  <2>3. CASE \/ InsertLegacy(h) \/ Load(h) \/ FindContact(h) \/ LogCall(h)
             \/ CompleteOutbound(h) \/ FinalizeInbound(h)
    BY <2>3 DEF InsertLegacy, Load, FindContact, LogCall, CompleteOutbound, FinalizeInbound,
       evalVars, execVars
  <2> QED BY <1>4, <2>1, <2>2, <2>3 DEF Process
<1>5. CASE AutomationStep
  BY <1>5 DEF AutomationStep
<1>6. ASSUME NEW h \in Evaluator, EvaluationStep(h) PROVE Evaluate(h)
  BY <1>6 DEF EvaluationStep
<1> QED BY <1>1, <1>2, <1>3, <1>4, <1>5, <1>6 DEF Next, Reconcile

(* A crash of a processor takes its evaluation along. *)
LEMMA CrashIs ==
    ASSUME AutoTypeOK, NEW h \in Evaluator, ProcessorCrash(h)
    PROVE  /\ UNCHANGED <<runs, job, exec, posts, disturbed>>
           /\ eval'[h] = IdleEval
           /\ \A w \in Evaluator \ {h} : eval'[w] = eval[w]
BY DEF ProcessorCrash, execVars, AutoTypeOK

LEMMA CallLeases ==
    ASSUME AutoTypeOK, LeaseInv, [Next]_vars
    PROVE  LeaseInv'
<1>1. AutoTypeOK'
  BY AutomationsTyped
<1>2. ASSUME UNCHANGED <<runs, job, exec, posts, disturbed>>,
             \A w \in Evaluator : eval'[w].pc = "enqueue" => eval'[w] = eval[w]
      PROVE  LeaseInv'
  BY <1>2 DEF LeaseInv, OwnerIsActive, SlotHasLease, Calm, FreshRow, RowBeforeJob,
     DueHasAttempts
<1>3. ASSUME NEW h \in Evaluator, ProcessorCrash(h) PROVE LeaseInv'
  BY <1>2, <1>3, CrashIs DEF IdleEval
<1> QED
  BY <1>1, <1>2, <1>3, CallSteps, CallAssumption, EvaluationLeases, ClaimLeases, PostLeases,
     WriteResultLeases, ExecutorCrashLeases, JobLeases
  DEF Execute

LEMMA CallDelivers ==
    ASSUME AutoTypeOK, DeliveryInv, [Next]_vars
    PROVE  DeliveryInv'
<1>1. AutoTypeOK'
  BY AutomationsTyped
<1>2. ASSUME UNCHANGED <<runs, job, exec, posts, disturbed>> PROVE DeliveryInv'
  BY <1>2 DEF DeliveryInv, OwnerIsActive, Budget, Claims, Open, Posters
<1>3. ASSUME NEW h \in Evaluator, ProcessorCrash(h) PROVE DeliveryInv'
  BY <1>2, <1>3, CrashIs
<1> QED
  BY <1>1, <1>2, <1>3, CallSteps, CallAssumption, EvaluationDelivers, ClaimDelivers,
     PostDelivers, WriteResultDelivers, ExecutorCrashDelivers, JobDelivers
  DEF Execute

LEMMA CallAnswers ==
    ASSUME AutoTypeOK, LeaseInv, AnswersInv, "insert_error" \notin Faults, [Next]_vars
    PROVE  \A r \in RunId : AnswersKept(r)
<1>1. AutoTypeOK'
  BY AutomationsTyped
<1>2. ASSUME UNCHANGED <<runs, job, exec, posts, disturbed>>, NEW r \in RunId
      PROVE  AnswersKept(r)
  BY <1>1, <1>2, AnswersUntouched DEF AnswersInv
<1>3. ASSUME NEW h \in Evaluator, ProcessorCrash(h) PROVE \A r \in RunId : AnswersKept(r)
  BY <1>2, <1>3, CrashIs
<1> QED
  BY <1>1, <1>2, <1>3, CallSteps, EvaluationAnswers, ClaimAnswers, PostAnswers,
     WriteAnswers, ExecutorCrashAnswers, JobAnswers
  DEF Execute

-----------------------------------------------------------------------------
(* An evaluation belongs to a processor of the call that is evaluating. *)
EvalStaged ==
    \A v \in Evaluator :
        eval[v].pc # "idle" =>
            /\ proc[v].pc = "evaluating"
            /\ eval[v].call = TheCall
            /\ eval[v].pc = "insert" => eval[v].trigger \in Trigger

LEMMA EvaluateStaged ==
    ASSUME AutoTypeOK, AutoTypeOK', NEW v \in Evaluator, Evaluate(v)
    PROVE  /\ eval[v].pc # "idle"
           /\ \A w \in Evaluator \ {v} : eval'[w] = eval[w]
           /\ eval'[v].pc # "idle" =>
                 /\ eval'[v].call = eval[v].call
                 /\ eval'[v].pc = "insert" => eval'[v].trigger \in Trigger
<1>1. CASE FindDuplicate(v)
  <2>1. PICK t \in Trigger :
           /\ \/ eval'[v] = [eval[v] EXCEPT !.pc = "insert", !.trigger = t,
                                            !.todo = eval[v].todo \ {t}]
              \/ eval'[v] = IdleEval
              \/ eval'[v] = [eval[v] EXCEPT !.todo = eval[v].todo \ {t}]
           /\ \A w \in Evaluator \ {v} : eval'[w] = eval[w]
           /\ eval[v].pc = "check" /\ eval[v] \in Eval
    BY <1>1, FindIs
  <2>2. CASE eval'[v] = [eval[v] EXCEPT !.pc = "insert", !.trigger = t,
                                        !.todo = eval[v].todo \ {t}]
    <3>1. eval'[v].call = eval[v].call /\ eval'[v].trigger = t
      BY <2>1, <2>2 DEF Eval
    <3> QED BY <2>1, <2>2, <3>1
  <2>3. CASE eval'[v] = IdleEval
    BY <2>1, <2>3 DEF IdleEval
  <2>4. CASE eval'[v] = [eval[v] EXCEPT !.todo = eval[v].todo \ {t}]
    <3>1. eval'[v].call = eval[v].call /\ eval'[v].pc = "check"
      BY <2>1, <2>4 DEF Eval
    <3> QED BY <2>1, <3>1
  <2> QED BY <2>1, <2>2, <2>3, <2>4
<1>2. ASSUME NextTrigger(v)
      PROVE  /\ \A w \in Evaluator \ {v} : eval'[w] = eval[w]
             /\ eval'[v].pc # "idle" => eval'[v].call = eval[v].call /\ eval'[v].pc = "check"
  BY <1>2 DEF NextTrigger, AutoTypeOK, Eval, IdleEval
<1>3. CASE InsertRun(v)
  <2>1. CASE NextTrigger(v)
    BY <1>2, <1>3, <2>1 DEF InsertRun
  <2>2. ASSUME NEW r \in RunId, eval' = [eval EXCEPT ![v].pc = "enqueue", ![v].run = r]
        PROVE  /\ \A w \in Evaluator \ {v} : eval'[w] = eval[w]
               /\ eval'[v].call = eval[v].call /\ eval'[v].pc = "enqueue"
    BY <2>2 DEF AutoTypeOK, Eval
  <2>3. (CHOOSE r \in Unused : TRUE) \in RunId
    BY <1>3 DEF InsertRun, Unused
  <2> QED BY <1>3, <2>1, <2>2, <2>3 DEF InsertRun
<1>4. CASE EnqueueRun(v)
  BY <1>2, <1>4 DEF EnqueueRun
<1> QED BY <1>1, <1>3, <1>4 DEF Evaluate

LEMMA StageKept ==
    ASSUME CallTypeOK, AutoTypeOK, EvalStaged, [Next]_vars
    PROVE  EvalStaged'
<1>1. AutoTypeOK'
  BY AutomationsTyped
<1>2. ASSUME UNCHANGED <<eval, proc>> PROVE EvalStaged'
  BY <1>2 DEF EvalStaged
<1>3. ASSUME NEW h \in Evaluator, eval' = eval, proc[h].pc # "evaluating" \/ eval[h].pc = "idle",
             OneMoves(h)
      PROVE  EvalStaged'
  BY <1>3 DEF EvalStaged, OneMoves
<1>4. CASE UNCHANGED vars \/ Analyze \/ LeaseLapses \/ AutomationStep
  <2>1. CASE AutomationStep
    BY <1>2, <2>1 DEF AutomationStep, callVars, procVars, Execute, Claim, Post, WriteResult,
       ExecutorCrash, Redeliver, Stall, Evict, DrainRun, evalVars
  <2> QED BY <1>2, <1>4, <2>1 DEF vars, autoVars, callVars, procVars, evalVars, Analyze, LeaseLapses
<1>5. ASSUME NEW h \in Evaluator,
             Webhook(h) \/ ReconcileStuckCall(h) \/ ReconcileInboundCall(h)
      PROVE  EvalStaged'
  <2>1. Begin(h)
    BY <1>5 DEF Webhook, ReconcileStuckCall, ReconcileInboundCall
  <2>2. OneMoves(h) /\ eval' = eval /\ proc[h].pc = "idle"
    BY <2>1 DEF Begin, OneMoves, CallTypeOK, autoVars
  <2> QED BY <1>3, <2>2
<1>6. ASSUME NEW h \in Evaluator, EvaluationStep(h) PROVE EvalStaged'
  <2>1. proc' = proc /\ Evaluate(h)
    BY <1>6 DEF EvaluationStep, callVars, procVars
  <2> QED BY <1>1, <2>1, EvaluateStaged DEF EvalStaged
<1>7. ASSUME NEW h \in Evaluator, ProcessorCrash(h) PROVE EvalStaged'
  <2>1. OneMoves(h)
    BY <1>7, ReturnMoves DEF ProcessorCrash
  <2> QED BY <1>7, <2>1, CrashIs DEF EvalStaged, OneMoves, IdleEval
<1>8. ASSUME NEW h \in Evaluator, Process(h) PROVE EvalStaged'
  <2>1. CASE StartAutomations(h)
    <3>1. OneMoves(h) /\ proc'[h].pc = "evaluating"
      BY <2>1, GotoMoves DEF StartAutomations
    <3>2. PICK m \in SUBSET Trigger : eval' = [eval EXCEPT ![h] =
               [IdleEval EXCEPT !.call = TheCall, !.todo = m,
                  !.pc = IF m = {} THEN "idle" ELSE "check"]]
      BY <2>1 DEF StartAutomations, BeginEvaluation
    <3>3. eval'[h].call = TheCall /\ eval'[h].pc # "insert"
          /\ \A w \in Evaluator \ {h} : eval'[w] = eval[w]
      BY <3>2 DEF AutoTypeOK, IdleEval
    <3> QED BY <3>1, <3>3 DEF EvalStaged, OneMoves
  <2>2. CASE AutomationsDone(h)
    BY <1>3, <2>2, ReturnMoves, GotoMoves DEF AutomationsDone, autoVars
  <2>3. CASE \/ LookUp(h) \/ ClaimCall(h) \/ LogCall(h) \/ AddFallbackNote(h)
             \/ CompleteOutbound(h) \/ CreateTask(h)
             \/ WriteCadence(h) \/ FinalizeInbound(h) \/ InsertLegacy(h) \/ Load(h)
    <3>1. OneMoves(h)
      BY <2>3, ReturnMoves, GotoMoves DEF LookUp, ClaimCall, LogCall, AddFallbackNote,
         CompleteOutbound, CreateTask, WriteCadence, FinalizeInbound, InsertLegacy, Load
    <3>2. eval' = eval /\ proc[h].pc # "evaluating"
      BY <2>3 DEF LookUp, ClaimCall, LogCall, AddFallbackNote, CompleteOutbound, CreateTask,
         WriteCadence, FinalizeInbound, InsertLegacy, Load, autoVars, evalVars
    <3> QED BY <1>3, <3>1, <3>2
  <2>4. CASE FindContact(h) \/ CreateContact(h)
    <3>1. OneMoves(h)
      BY <2>4 DEF FindContact, CreateContact, OneMoves, CallTypeOK, Goto
    <3>2. eval' = eval /\ proc[h].pc # "evaluating"
      BY <2>4 DEF FindContact, CreateContact, autoVars, evalVars
    <3> QED BY <1>3, <3>1, <3>2
  <2> QED BY <1>8, <2>1, <2>2, <2>3, <2>4 DEF Process
<1> QED BY <1>4, <1>5, <1>6, <1>7, <1>8 DEF Next, Reconcile

-----------------------------------------------------------------------------
(* The runs of a trigger, those out of trouble, and the evaluations that    *)
(* found none of the latter and are about to insert one.                    *)
Mine(t) == {r \in RunId : runs[r].trigger = t}
Sound(t) == {r \in Mine(t) : ~Troubled(r)}
Inserting(t) == {v \in Evaluator : eval[v].pc = "insert" /\ eval[v].trigger = t}

RunsShared(t) ==
    /\ IsFiniteSet(Mine(t))
    /\ Cardinality(Sound(t)) + Cardinality(Inserting(t)) <= 1 + overtaken

RowsStaged ==
    \A r \in RunId : runs[r].trigger # None => runs[r].status # "unused" /\ runs[r].call = TheCall

SendInv ==
    /\ LeaseInv
    /\ DeliveryInv
    /\ AnswersInv
    /\ EvalStaged
    /\ RowsStaged
    /\ \A t \in Trigger : RunsShared(t)

LEMMA InsertingFinite ==
    ASSUME NEW t
    PROVE  IsFiniteSet(Inserting(t)) /\ Cardinality(Inserting(t)) \in Nat
<1>1. Inserting(t) \subseteq Evaluator
  BY DEF Inserting
<1> QED BY <1>1, CallAssumption, FS_Subset, FS_CardinalityType

LEMMA SoundFinite ==
    ASSUME NEW t, IsFiniteSet(Mine(t))
    PROVE  IsFiniteSet(Sound(t)) /\ Cardinality(Sound(t)) \in Nat
<1>1. Sound(t) \subseteq Mine(t)
  BY DEF Sound
<1> QED BY <1>1, FS_Subset, FS_CardinalityType

LEMMA OvertakenGrows ==
    ASSUME CallTypeOK, [Next]_vars
    PROVE  overtaken <= overtaken'
<1>1. overtaken' = overtaken \/ overtaken' = overtaken + 1
  BY DEF Next, vars, callVars, procVars, Analyze, Webhook, Begin, Process, LookUp, InsertLegacy,
     ClaimCall, Load, FindContact, CreateContact, LogCall, AddFallbackNote, CompleteOutbound,
     CreateTask, counts, StartAutomations, AutomationsDone, WriteCadence, FinalizeInbound, EvaluationStep,
     ProcessorCrash, Reconcile, ReconcileStuckCall, ReconcileInboundCall, LeaseLapses,
     AutomationStep
<1> QED BY <1>1 DEF CallTypeOK

(* Where a new run goes. *)
LEMMA InsertIs ==
    ASSUME AutoTypeOK, "insert_error" \notin Faults, NEW v \in Evaluator, InsertRun(v)
    PROVE  \E q \in RunId :
              /\ runs[q].status = "unused" /\ runs'[q].status = "queued"
              /\ runs'[q].call = eval[v].call /\ runs'[q].trigger = eval[v].trigger
              /\ \A r \in RunId \ {q} : runs'[r] = runs[r]
              /\ eval[v].pc = "insert" /\ eval'[v].pc = "enqueue"
              /\ \A w \in Evaluator \ {v} : eval'[w] = eval[w]
<1>1. PICK q \in Unused :
         /\ runs' = [runs EXCEPT ![q] = [NoRun EXCEPT !.status = "queued", !.call = eval[v].call,
                                                      !.trigger = eval[v].trigger]]
         /\ eval' = [eval EXCEPT ![v].pc = "enqueue", ![v].run = q]
  BY DEF InsertRun, Fault
<1>2. q \in RunId /\ runs[q].status = "unused"
  BY DEF Unused
<1>3. /\ runs'[q] = [NoRun EXCEPT !.status = "queued", !.call = eval[v].call,
                                  !.trigger = eval[v].trigger]
      /\ \A r \in RunId \ {q} : runs'[r] = runs[r]
  BY <1>1, <1>2 DEF AutoTypeOK
<1>4. /\ runs'[q].status = "queued" /\ runs'[q].call = eval[v].call
      /\ runs'[q].trigger = eval[v].trigger
  BY <1>3 DEF NoRun
<1>5. eval'[v].pc = "enqueue" /\ \A w \in Evaluator \ {v} : eval'[w] = eval[w]
  BY <1>1 DEF AutoTypeOK, Eval
<1> QED BY <1>2, <1>3, <1>4, <1>5 DEF InsertRun

(* Every other step leaves the runs their triggers and calls. *)
LEMMA RowsLeft ==
    ASSUME AutoTypeOK, [Next]_vars, \A v \in Evaluator : ~InsertRun(v), NEW r \in RunId
    PROVE  /\ runs'[r].trigger = runs[r].trigger /\ runs'[r].call = runs[r].call
           /\ runs[r].status # "unused" => runs'[r].status # "unused"
<1>1. CASE runs' = runs
  BY <1>1
<1>2. ASSUME NEW q \in RunId, NEW s \in RunStatus \ {"unused"},
             \/ \E n \in Nat : runs' = [runs EXCEPT ![q].status = s, ![q].attempts = n]
             \/ runs' = [runs EXCEPT ![q].status = s]
      PROVE  /\ runs'[r].trigger = runs[r].trigger /\ runs'[r].call = runs[r].call
             /\ runs[r].status # "unused" => runs'[r].status # "unused"
  BY <1>2 DEF AutoTypeOK, Run
<1>3. ASSUME NEW x \in Executor, Execute(x)
      PROVE  /\ runs'[r].trigger = runs[r].trigger /\ runs'[r].call = runs[r].call
             /\ runs[r].status # "unused" => runs'[r].status # "unused"
  <2>1. ASSUME NEW q \in RunId, Claim(x, q)
        PROVE  runs' = runs \/ runs' = [runs EXCEPT ![q].status = "queued"]
    BY <2>1 DEF Claim
  <2>2. CASE Post(x)
    BY <1>1, <2>2 DEF Post
  <2>3. CASE WriteResult(x)
    <3>1. Result(x) \in RunStatus \ {"unused"} /\ exec[x].attempts \in Nat /\ exec[x].run \in RunId
      BY <2>3 DEF WriteResult, Result, RunStatus, AutoTypeOK, Exec
    <3>2. \/ runs' = runs
          \/ runs' = [runs EXCEPT ![exec[x].run].status = Result(x),
                                  ![exec[x].run].attempts = exec[x].attempts]
      BY <2>3 DEF WriteResult
    <3> QED BY <1>1, <1>2, <3>1, <3>2
  <2>4. "queued" \in RunStatus \ {"unused"}
    BY DEF RunStatus
  <2> QED BY <1>1, <1>2, <1>3, <2>1, <2>2, <2>3, <2>4 DEF Execute
<1>4. \/ runs' = runs
      \/ \E x \in Executor : Execute(x)
  BY CallSteps, CrashIs DEF BeginEvaluation, Evaluate, FindDuplicate, EnqueueRun, ExecutorCrash,
     Redeliver, Stall, Evict, DrainRun
<1> QED BY <1>1, <1>3, <1>4

LEMMA RowsKept ==
    ASSUME AutoTypeOK, EvalStaged, RowsStaged, "insert_error" \notin Faults, [Next]_vars
    PROVE  RowsStaged'
<1>1. CASE \A v \in Evaluator : ~InsertRun(v)
  BY <1>1, RowsLeft DEF RowsStaged
<1>2. ASSUME NEW v \in Evaluator, InsertRun(v) PROVE RowsStaged'
  BY <1>2, InsertIs DEF RowsStaged, EvalStaged
<1> QED BY <1>1, <1>2

(* Unless an evaluation is about to insert, or does, the runs of a trigger  *)
(* only fall into trouble.                                                  *)
LEMMA SoundShrinks ==
    ASSUME CallTypeOK, CallTypeOK', NEW t, RunsShared(t),
           \A r \in RunId : runs'[r].trigger = runs[r].trigger,
           \A r \in RunId : AnswersKept(r),
           Inserting(t)' \subseteq Inserting(t), overtaken <= overtaken'
    PROVE  RunsShared(t)'
<1>1. Mine(t)' = Mine(t) /\ IsFiniteSet(Mine(t))
  BY DEF Mine, RunsShared
<1>2. Sound(t)' \subseteq Sound(t)
  BY <1>1 DEF Sound, Mine, AnswersKept
<1>3. Cardinality(Sound(t)') <= Cardinality(Sound(t)) /\ Cardinality(Sound(t)') \in Nat
  BY <1>1, <1>2, SoundFinite, FS_Subset, FS_CardinalityType
<1>4. /\ Cardinality(Inserting(t)') <= Cardinality(Inserting(t))
      /\ Cardinality(Inserting(t)') \in Nat
  BY InsertingFinite, FS_Subset, FS_CardinalityType
<1>5. Cardinality(Sound(t)') + Cardinality(Inserting(t)') <= 1 + overtaken'
  <2>1. Cardinality(Sound(t)) + Cardinality(Inserting(t)) <= 1 + overtaken
    BY DEF RunsShared
  <2>2. overtaken \in Nat /\ overtaken' \in Nat
    BY DEF CallTypeOK
  <2> QED BY <1>1, <1>3, <1>4, <2>1, <2>2, SoundFinite, InsertingFinite
<1> QED BY <1>1, <1>5 DEF RunsShared

(* An evaluation that finds no duplicate finds no run out of trouble. *)
LEMMA FoundNone ==
    ASSUME AutoTypeOK, AnswersInv, RowsStaged, NEW t \in Trigger, ~Duplicate(t, TheCall)
    PROVE  Sound(t) = {}
<1> SUFFICES ASSUME NEW r \in RunId, runs[r].trigger = t, ~Troubled(r) PROVE FALSE
  BY DEF Sound, Mine
<1>1. runs[r].status # "unused" /\ runs[r].call = TheCall
  BY RunAssumption DEF RowsStaged
<1>2. disturbed[r] = 0 /\ ~(Answered(r) > posts[r])
  BY AnsweredTyped DEF Troubled
<1>3. runs[r].status \notin {"failed", "dead"}
  BY <1>2 DEF AnswersInv, AnswersIn
<1>4. runs[r].status \in {"queued", "sent"}
  BY <1>1, <1>3 DEF AutoTypeOK, Run, RunStatus
<1> QED BY <1>1, <1>4 DEF Duplicate

LEMMA InsertShares ==
    ASSUME CallTypeOK, CallTypeOK', AutoTypeOK, EvalStaged, RowsStaged,
           "insert_error" \notin Faults, NEW v \in Evaluator, InsertRun(v),
           \A r \in RunId : AnswersKept(r), overtaken <= overtaken',
           NEW t \in Trigger, RunsShared(t)
    PROVE  RunsShared(t)'
<1>1. PICK q \in RunId :
         /\ runs[q].status = "unused" /\ runs'[q].status = "queued"
         /\ runs'[q].call = eval[v].call /\ runs'[q].trigger = eval[v].trigger
         /\ \A r \in RunId \ {q} : runs'[r] = runs[r]
         /\ eval[v].pc = "insert" /\ eval'[v].pc = "enqueue"
         /\ \A w \in Evaluator \ {v} : eval'[w] = eval[w]
  BY InsertIs
<1>2. runs[q].trigger = None /\ t # None
  BY <1>1, RunAssumption DEF RowsStaged
<1>3. q \notin Mine(t) /\ IsFiniteSet(Mine(t))
  BY <1>2 DEF Mine, RunsShared
<1>4. overtaken \in Nat /\ overtaken' \in Nat
      /\ Cardinality(Sound(t)) + Cardinality(Inserting(t)) <= 1 + overtaken
  BY DEF CallTypeOK, RunsShared
<1>5. CASE eval[v].trigger = t
  <2>1. Mine(t)' = Mine(t) \cup {q}
    BY <1>1, <1>5 DEF Mine
  <2>2. IsFiniteSet(Mine(t)')
    BY <1>3, <2>1, FS_AddElement
  <2>3. Sound(t)' \subseteq Sound(t) \cup {q}
    BY <2>1 DEF Sound, AnswersKept, Mine
  <2>4. q \notin Sound(t)
    BY <1>3 DEF Sound
  <2>5. IsFiniteSet(Sound(t) \cup {q}) /\ Cardinality(Sound(t) \cup {q}) = Cardinality(Sound(t)) + 1
    BY <1>3, <2>4, SoundFinite, FS_AddElement
  <2>6. Cardinality(Sound(t)') <= Cardinality(Sound(t)) + 1 /\ Cardinality(Sound(t)') \in Nat
    BY <2>3, <2>5, FS_Subset, FS_CardinalityType
  <2>7. Inserting(t)' = Inserting(t) \ {v} /\ v \in Inserting(t)
    BY <1>1, <1>5 DEF Inserting
  <2>8. Cardinality(Inserting(t)') = Cardinality(Inserting(t)) - 1
    BY <2>7, InsertingFinite, FS_RemoveElement
  <2>9. Cardinality(Sound(t)') + Cardinality(Inserting(t)') <= 1 + overtaken'
    BY <1>3, <1>4, <2>6, <2>8, SoundFinite, InsertingFinite
  <2> QED BY <2>2, <2>9 DEF RunsShared
<1>6. CASE eval[v].trigger # t
  <2>1. Mine(t)' = Mine(t)
    BY <1>1, <1>2, <1>6 DEF Mine
  <2>2. Sound(t)' \subseteq Sound(t)
    BY <2>1 DEF Sound, AnswersKept, Mine
  <2>3. Cardinality(Sound(t)') <= Cardinality(Sound(t)) /\ Cardinality(Sound(t)') \in Nat
    BY <1>3, <2>2, SoundFinite, FS_Subset, FS_CardinalityType
  <2>4. Inserting(t)' = Inserting(t)
    BY <1>1, <1>6 DEF Inserting
  <2>5. Cardinality(Sound(t)') + Cardinality(Inserting(t)') <= 1 + overtaken'
    BY <1>3, <1>4, <2>3, <2>4, SoundFinite, InsertingFinite
  <2> QED BY <1>3, <2>1, <2>5 DEF RunsShared
<1> QED BY <1>5, <1>6

LEMMA FindShares ==
    ASSUME CallTypeOK, CallTypeOK', AutoTypeOK, AutoTypeOK', AnswersInv, EvalStaged, EvalStaged',
           RowsStaged, CallShared', "lookup_error" \notin Faults,
           NEW v \in Evaluator, FindDuplicate(v),
           \A r \in RunId : AnswersKept(r), overtaken <= overtaken',
           NEW t \in Trigger, RunsShared(t)
    PROVE  RunsShared(t)'
<1>1. runs' = runs /\ eval[v].pc = "check" /\ eval[v].call = TheCall
  BY DEF FindDuplicate, EvalStaged
<1>2. PICK u \in Trigger :
         /\ \/ /\ ~Duplicate(u, TheCall)
               /\ eval'[v] = [eval[v] EXCEPT !.pc = "insert", !.trigger = u,
                                             !.todo = eval[v].todo \ {u}]
            \/ eval'[v] = IdleEval
            \/ eval'[v] = [eval[v] EXCEPT !.todo = eval[v].todo \ {u}]
         /\ \A w \in Evaluator \ {v} : eval'[w] = eval[w]
         /\ eval[v] \in Eval
  BY <1>1, FindIs DEF Fault
<1>3. eval'[v].pc = "insert" => eval'[v].trigger = u /\ ~Duplicate(u, TheCall)
  <2>1. CASE eval'[v] = [eval[v] EXCEPT !.pc = "insert", !.trigger = u,
                                        !.todo = eval[v].todo \ {u}]
    <3>1. eval'[v].trigger = u
      BY <1>2, <2>1 DEF Eval
    <3>2. eval'[v] = [eval[v] EXCEPT !.todo = eval[v].todo \ {u}] => eval'[v].pc = "check"
      BY <1>1, <1>2 DEF Eval
    <3> QED BY <1>2, <3>1, <3>2 DEF IdleEval
  <2>2. CASE eval'[v] = IdleEval
    BY <2>2 DEF IdleEval
  <2>3. CASE eval'[v] = [eval[v] EXCEPT !.todo = eval[v].todo \ {u}]
    <3>1. eval'[v].pc = "check"
      BY <1>1, <1>2, <2>3 DEF Eval
    <3> QED BY <3>1
  <2> QED BY <1>2, <2>1, <2>2, <2>3
<1>4. CASE eval'[v].pc = "insert" /\ u = t
  <2>1. Sound(t) = {}
    BY <1>3, <1>4, FoundNone
  <2>2. Mine(t)' = Mine(t) /\ IsFiniteSet(Mine(t))
    BY <1>1 DEF Mine, RunsShared
  <2>3. Sound(t)' = {}
    BY <2>1, <2>2 DEF Sound, Mine, AnswersKept
  <2>4. Cardinality(Sound(t)') = 0
    BY <2>3, FS_EmptySet
  <2>5. Cardinality(Inserting(t)') <= 1 + overtaken'
    <3>1. Inserting(t)' \subseteq At(proc', Held)
      BY DEF Inserting, At, EvalStaged, Held, ProcPC, Unclaimed
    <3>2. Cardinality(Inserting(t)') <= Cardinality(At(proc', Held))
          /\ Cardinality(Inserting(t)') \in Nat
      <4>1. IsFiniteSet(At(proc', Held)) /\ Cardinality(At(proc', Held)) \in Nat
        BY AtCounted
      <4> QED BY <3>1, <4>1, FS_Subset, FS_CardinalityType
    <3>3. 0 + Cardinality(At(proc', Held)) + Vacant(row', setting', proc') <= 1 + overtaken'
      BY DEF CallShared, Shares
    <3> QED BY <3>2, <3>3, AtCounted, VacantTyped DEF CallTypeOK
  <2>6. Cardinality(Inserting(t)') \in Nat
    <3>1. Inserting(t)' \subseteq Evaluator
      BY DEF Inserting
    <3> QED BY <3>1, CallAssumption, FS_Subset, FS_CardinalityType
  <2> QED BY <2>2, <2>4, <2>5, <2>6 DEF RunsShared
<1>5. CASE ~(eval'[v].pc = "insert" /\ u = t)
  <2>1. Inserting(t)' \subseteq Inserting(t)
    BY <1>2, <1>3, <1>5 DEF Inserting
  <2> QED BY <1>1, <2>1, SoundShrinks
<1> QED BY <1>4, <1>5

LEMMA SharesRunsKept ==
    ASSUME CallTypeOK, CallTypeOK', CallInv, CallInv', AutoTypeOK, SendInv, EvalStaged',
           \A r \in RunId : AnswersKept(r), {"insert_error", "lookup_error"} \cap Faults = {}, [Next]_vars,
           NEW t \in Trigger
    PROVE  RunsShared(t)'
<1>1. AutoTypeOK' /\ overtaken <= overtaken' /\ RunsShared(t)
  BY AutomationsTyped, OvertakenGrows DEF SendInv
<1>2. ASSUME NEW v \in Evaluator, InsertRun(v) PROVE RunsShared(t)'
  BY <1>1, <1>2, InsertShares DEF SendInv
<1>3. ASSUME NEW v \in Evaluator, FindDuplicate(v) PROVE RunsShared(t)'
  BY <1>1, <1>3, FindShares DEF SendInv, CallInv
<1>4. ASSUME \A v \in Evaluator : ~InsertRun(v) /\ ~FindDuplicate(v) PROVE RunsShared(t)'
  <2>1. \A r \in RunId : runs'[r].trigger = runs[r].trigger
    BY <1>4, RowsLeft
  <2>2. \A w \in Evaluator : eval'[w] = eval[w] \/ eval'[w].pc # "insert"
    <3>1. ASSUME NEW v \in Evaluator, BeginEvaluation(v, TheCall)
          PROVE  \A w \in Evaluator : eval'[w] = eval[w] \/ eval'[w].pc # "insert"
      BY <3>1 DEF BeginEvaluation, AutoTypeOK, IdleEval
    <3>2. ASSUME NEW v \in Evaluator, EnqueueRun(v)
          PROVE  \A w \in Evaluator : eval'[w] = eval[w] \/ eval'[w].pc # "insert"
      BY <3>2 DEF EnqueueRun, NextTrigger, AutoTypeOK, Eval, IdleEval
    <3>3. ASSUME NEW h \in Evaluator, ProcessorCrash(h)
          PROVE  \A w \in Evaluator : eval'[w] = eval[w] \/ eval'[w].pc # "insert"
      BY <3>3, CrashIs DEF IdleEval
    <3>4. ASSUME NEW x \in Executor, Execute(x) \/ ExecutorCrash(x) PROVE eval' = eval
      BY <3>4 DEF Execute, Claim, Post, WriteResult, ExecutorCrash, evalVars
    <3>5. ASSUME NEW r \in RunId, Redeliver(r) \/ Stall(r) \/ Evict(r) \/ DrainRun(r)
          PROVE  eval' = eval
      BY <3>5 DEF Redeliver, Stall, Evict, DrainRun, evalVars
    <3> QED BY <1>4, <3>1, <3>2, <3>3, <3>4, <3>5, CallSteps DEF Evaluate
  <2>3. Inserting(t)' \subseteq Inserting(t)
    BY <2>2 DEF Inserting
  <2> QED BY <1>1, <2>1, <2>3, SoundShrinks
<1> QED BY <1>2, <1>3, <1>4

LEMMA SendInit == Init => SendInv
<1> SUFFICES ASSUME Init PROVE SendInv
  OBVIOUS
<1>1. AutoInit
  BY DEF Init
<1>2. AnswersInv
  BY <1>1 DEF AutoInit, AnswersInv, AnswersIn, Answered, Refused, NoRun, IdleExec
<1>3. EvalStaged /\ RowsStaged
  BY <1>1 DEF AutoInit, EvalStaged, RowsStaged, IdleEval, NoRun
<1>4. ASSUME NEW t \in Trigger PROVE RunsShared(t)
  <2>1. Mine(t) = {} /\ Sound(t) = {} /\ Inserting(t) = {}
    BY <1>1, RunAssumption DEF AutoInit, Mine, Sound, Inserting, IdleEval, NoRun
  <2>2. overtaken = 0
    BY DEF Init
  <2> QED BY <2>1, <2>2, FS_EmptySet DEF RunsShared
<1> QED BY <1>1, <1>2, <1>3, <1>4, InitLease, InitDelivery DEF SendInv

LEMMA SendKept ==
    ASSUME CallTypeOK, CallInv, AutoTypeOK, SendInv, {"insert_error", "lookup_error"} \cap Faults = {}, [Next]_vars
    PROVE  SendInv'
<1>1. CallTypeOK' /\ CallInv'
  BY CallNextTyped, CallKept
<1>2. \A r \in RunId : AnswersKept(r)
  BY CallAnswers DEF SendInv
<1>3. AnswersInv'
  BY <1>2 DEF AnswersKept, AnswersInv
<1>4. LeaseInv' /\ DeliveryInv' /\ EvalStaged' /\ RowsStaged'
  BY CallLeases, CallDelivers, StageKept, RowsKept DEF SendInv
<1>5. \A t \in Trigger : RunsShared(t)'
  BY <1>1, <1>2, <1>4, SharesRunsKept
<1> QED BY <1>3, <1>4, <1>5 DEF SendInv

(* What the invariant says of one trigger, summed over its runs. *)
LEMMA SendsBounded ==
    ASSUME CallTypeOK, AutoTypeOK, DeliveryInv, NEW t \in Trigger, RunsShared(t)
    PROVE  TotalOf(posts, Mine(t)) <= 1 + overtaken + TotalOf(disturbed, Mine(t))
                                        + Cardinality({r \in Mine(t) : Troubled(r)})
<1> DEFINE M == Mine(t)
           bad == {r \in M : Troubled(r)}
<1>1. IsFiniteSet(M) /\ M \subseteq RunId
  BY DEF RunsShared, Mine
<1>2. \A r \in M : posts[r] \in Nat /\ disturbed[r] \in Nat /\ posts[r] <= 1 + disturbed[r]
  <2> SUFFICES ASSUME NEW r \in M
               PROVE  posts[r] \in Nat /\ disturbed[r] \in Nat /\ posts[r] <= 1 + disturbed[r]
    OBVIOUS
  <2>1. r \in RunId /\ Budget(r)
    BY <1>1 DEF DeliveryInv
  <2> QED BY <2>1, PostersFinite DEF Budget, Claims, AutoTypeOK
<1>3. /\ TotalOf(posts, M) \in Nat /\ TotalOf(disturbed, M) \in Nat
      /\ TotalOf(posts, M) <= Cardinality(M) + TotalOf(disturbed, M)
  <2> HIDE DEF M
  <2> QED BY <1>1, <1>2, SumsCompared
<1>4. IsFiniteSet(Sound(t)) /\ Cardinality(Sound(t)) \in Nat
  BY <1>1, SoundFinite
<1>5. IsFiniteSet(bad) /\ Cardinality(bad) \in Nat
  BY <1>1, FS_Subset, FS_CardinalityType
<1>6. Cardinality(M) <= Cardinality(Sound(t)) + Cardinality(bad)
  <2>1. M = Sound(t) \cup bad /\ Sound(t) \cap bad = {}
    BY DEF Sound
  <2>2. Cardinality(Sound(t) \cup bad)
          = Cardinality(Sound(t)) + Cardinality(bad) - Cardinality(Sound(t) \cap bad)
    BY <1>4, <1>5, FS_Union
  <2>3. Cardinality({}) = 0
    BY FS_EmptySet
  <2>4. Cardinality(M) = Cardinality(Sound(t)) + Cardinality(bad) - 0
    BY <2>1, <2>2, <2>3
  <2> HIDE DEF M, bad
  <2> QED BY <1>4, <1>5, <2>4
<1>7. Cardinality(Sound(t)) <= 1 + overtaken
  BY <1>4, InsertingFinite DEF RunsShared, CallTypeOK
<1>8. Cardinality(M) \in Nat /\ overtaken \in Nat
  BY <1>1, FS_CardinalityType DEF CallTypeOK
<1> HIDE DEF M, bad
<1>9. TotalOf(posts, M) <= 1 + overtaken + TotalOf(disturbed, M) + Cardinality(bad)
  BY <1>3, <1>4, <1>5, <1>6, <1>7, <1>8
<1> QED BY <1>9 DEF M, bad

(* A call fires a trigger once, whoever processes it how often and in which *)
(* order evaluations, executions and crashes come, but for the exceptions   *)
(* the property names.  The assumption leaves out two errors of the         *)
(* database that put a run beside another and leave no trace in its         *)
(* counters: a failed insert, which writes a failed run, no duplicate of    *)
(* any later one, and a failed look-up, which finds no duplicate.           *)
THEOREM TriggersSendOnce ==
    ASSUME {"insert_error", "lookup_error"} \cap Faults = {}
    PROVE  Spec => []OneSendPerTrigger
<1>1. CallTypeOK /\ CallInv /\ AutoTypeOK /\ SendInv => OneSendPerTrigger
  <2> SUFFICES ASSUME CallTypeOK, AutoTypeOK, SendInv, NEW t \in Trigger
               PROVE  LET mine == {r \in RunId : runs[r].trigger = t} IN
                      MapThenSumSet(LAMBDA r : posts[r], mine)
                        <= 1 + overtaken + MapThenSumSet(LAMBDA r : disturbed[r], mine)
                             + Cardinality({r \in mine : Troubled(r)})
    BY DEF OneSendPerTrigger
  <2>1. TotalOf(posts, Mine(t)) <= 1 + overtaken + TotalOf(disturbed, Mine(t))
                                     + Cardinality({r \in Mine(t) : Troubled(r)})
    BY SendsBounded DEF SendInv
  <2> QED BY <2>1 DEF TotalOf, Mine
<1>2. CallTypeOK /\ CallInv /\ AutoTypeOK /\ SendInv /\ [Next]_vars => SendInv'
  BY SendKept
<1>3. Spec => []AutoTypeOK
  <2>1. Init => AutoTypeOK
    BY InitTyped DEF Init
  <2> QED BY <2>1, AutomationsTyped, PTL DEF Spec
<1> QED BY <1>1, <1>2, <1>3, SendInit, CallInvariant, PTL DEF Spec
=============================================================================
