--------------------------- MODULE AutomationRuns ---------------------------
(***************************************************************************)
(* Post-call automations: evaluateAutomations writes one automation_runs   *)
(* row per matching trigger and queues a BullMQ job for it, the automation *)
(* worker executes runs by POSTing to the trigger's URL, and the drain     *)
(* sweep queues again what has no job.                                     *)
(*                                                                         *)
(* The row is the durable state, the job only delivers it.  A job id is    *)
(* derived from the run id, so BullMQ ignores an add while a job with that *)
(* id exists, a finished one that is still retained included.              *)
(*                                                                         *)
(* A run without a URL (internal_notify) is the one whose POST always      *)
(* succeeds.  A row with status skipped only records a duplicate; nothing  *)
(* reads it again and the model does not keep it.                          *)
(***************************************************************************)
EXTENDS Naturals, FiniteSets

CONSTANTS
    CallKey,         \* analyzed calls, all to one contact phone
    Trigger,         \* enabled triggers that apply to the calls' agent
    RunId,           \* ids of automation_runs rows
    Evaluator,       \* concurrent runs of evaluateAutomations
    Executor,        \* concurrent slots of the automation worker
    None,            \* SQL null
    Window,          \* TRUE when dedupe_window_hours spans the whole behaviour
    MaxAttempts,     \* max_attempts of the triggers
    JobAttempts,     \* attempts of a BullMQ automation job
    Faults,          \* the failures the environment may inject
    MaxFaults,       \* how many of them
    MaxEvaluations   \* bound on evaluations per call

AutomationFaults == {"lookup_error", "redis_down", "insert_error", "claim_error",
                     "lost_answer", "write_lost", "executor_crash", "evaluator_crash",
                     "stall"}

ASSUME RunAssumption ==
    /\ None \notin CallKey \cup Trigger \cup RunId \cup Executor
    /\ IsFiniteSet(Executor)
    /\ Window \in BOOLEAN
    /\ MaxAttempts \in Nat \ {0}
    /\ JobAttempts \in Nat \ {0}
    /\ MaxFaults \in Nat
    /\ MaxEvaluations \in Nat

(***************************************************************************)
(* Tables and processes.                                                   *)
(***************************************************************************)
RunStatus == {"unused", "queued", "sent", "failed", "dead"}
Run == [status : RunStatus, attempts : Nat, trigger : Trigger \cup {None},
        call : CallKey \cup {None}]

JobState == {"absent", "waiting", "active", "finished"}
Job == [state : JobState, made : Nat, stalled : BOOLEAN,
        owner : Executor \cup {None}]

EvalPC == {"idle", "check", "insert", "enqueue"}
Eval == [pc : EvalPC, call : CallKey \cup {None}, todo : SUBSET Trigger,
         trigger : Trigger \cup {None}, run : RunId \cup {None}]

ExecPC == {"idle", "post", "write"}
Exec == [pc : ExecPC, run : RunId \cup {None}, attempts : Nat, ok : BOOLEAN]

NoRun == [status |-> "unused", attempts |-> 0, trigger |-> None, call |-> None]
NoJob == [state |-> "absent", made |-> 0, stalled |-> FALSE, owner |-> None]
IdleEval == [pc |-> "idle", call |-> None, todo |-> {}, trigger |-> None,
             run |-> None]
IdleExec == [pc |-> "idle", run |-> None, attempts |-> 0, ok |-> FALSE]

VARIABLES
    runs,       \* automation_runs
    job,        \* the BullMQ job of each run
    eval,       \* evaluateAutomations in progress
    exec,       \* executeAutomationRun in progress
    posts,      \* deliveries the endpoint accepted, per run
    disturbed,  \* failures that hid or repeated a delivery of the run
    evaluated,  \* evaluations started, per call
    faults      \* failures injected so far

evalVars == <<eval, evaluated>>
execVars == <<exec, posts, disturbed>>
autoVars == <<runs, job, eval, exec, posts, disturbed, evaluated, faults>>

AutoTypeOK ==
    /\ runs \in [RunId -> Run]
    /\ job \in [RunId -> Job]
    /\ eval \in [Evaluator -> Eval]
    /\ exec \in [Executor -> Exec]
    /\ \A x \in Executor : exec[x].pc # "idle" => exec[x].run \in RunId
    /\ \A v \in Evaluator : eval[v].pc = "enqueue" => eval[v].run \in RunId
    /\ posts \in [RunId -> Nat]
    /\ disturbed \in [RunId -> Nat]
    /\ evaluated \in [CallKey -> Nat]
    /\ faults \in Nat

AutoInit ==
    /\ runs = [r \in RunId |-> NoRun]
    /\ job = [r \in RunId |-> NoJob]
    /\ eval = [v \in Evaluator |-> IdleEval]
    /\ exec = [x \in Executor |-> IdleExec]
    /\ posts = [r \in RunId |-> 0]
    /\ disturbed = [r \in RunId |-> 0]
    /\ evaluated = [c \in CallKey |-> 0]
    /\ faults = 0

Fault(kind) ==
    /\ kind \in Faults
    /\ faults < MaxFaults
    /\ faults' = faults + 1

(***************************************************************************)
(* evaluateAutomations.                                                    *)
(***************************************************************************)

(* queue.add with the id of the run: a no-op while such a job is kept. *)
Add(r) == IF job[r].state = "absent"
          THEN job' = [job EXCEPT ![r] = [NoJob EXCEPT !.state = "waiting"]]
          ELSE UNCHANGED job

(* The triggers that match the call are the ones this evaluation visits. *)
BeginEvaluation(v, c) ==
    /\ eval[v].pc = "idle"
    /\ evaluated[c] < MaxEvaluations
    /\ evaluated' = [evaluated EXCEPT ![c] = @ + 1]
    /\ \E matched \in SUBSET Trigger :
          eval' = [eval EXCEPT ![v] =
                     [IdleEval EXCEPT !.call = c, !.todo = matched,
                        !.pc = IF matched = {} THEN "idle" ELSE "check"]]
    /\ UNCHANGED <<runs, job, execVars, faults>>

\* [slip] a run of this very call is no duplicate.
DuplicateInWindow(t, c) ==
    Window /\ \E r \in RunId : runs[r].trigger = t /\ runs[r].status \in {"sent", "queued"}

(* A sent or queued run of the trigger, for this call or inside the window. *)
Duplicate(t, c) ==
    \E r \in RunId :
        /\ runs[r].trigger = t
        /\ runs[r].status \in {"sent", "queued"}
        /\ runs[r].call = c \/ Window

(* The evaluation goes on to its next trigger, or returns. *)
NextTrigger(v) ==
    eval' = [eval EXCEPT ![v] = IF @.todo = {} THEN IdleEval
                                ELSE [@ EXCEPT !.pc = "check", !.trigger = None,
                                               !.run = None]]

(* A trigger with a duplicate is skipped.  A look-up that fails finds none.  *)
FindDuplicate(v) ==
    /\ eval[v].pc = "check"
    /\ \E t \in eval[v].todo :
          LET rest == eval[v].todo \ {t} IN
          \/ /\ \/ ~Duplicate(t, eval[v].call) /\ UNCHANGED faults
                \/ Duplicate(t, eval[v].call) /\ Fault("lookup_error")
             /\ eval' = [eval EXCEPT ![v] = [@ EXCEPT !.pc = "insert", !.trigger = t,
                                                     !.todo = rest]]
          \/ /\ Duplicate(t, eval[v].call)
             /\ eval' = [eval EXCEPT ![v] = IF rest = {} THEN IdleEval
                                            ELSE [@ EXCEPT !.todo = rest]]
             /\ UNCHANGED faults
    /\ UNCHANGED <<runs, job, execVars, evaluated>>

(* The database hands out a fresh id; which one does not matter. *)
Unused == {r \in RunId : runs[r].status = "unused"}

(* When the insert fails a row with status failed is written instead. *)
InsertRun(v) ==
    /\ eval[v].pc = "insert"
    /\ Unused # {}
    /\ LET r == CHOOSE r \in Unused : TRUE
           written(status) == [NoRun EXCEPT !.status = status, !.call = eval[v].call,
                                            !.trigger = eval[v].trigger]
       IN \/ /\ runs' = [runs EXCEPT ![r] = written("queued")]
             /\ eval' = [eval EXCEPT ![v].pc = "enqueue", ![v].run = r]
             /\ UNCHANGED faults
          \/ /\ Fault("insert_error")
             /\ runs' = [runs EXCEPT ![r] = written("failed")]
             /\ NextTrigger(v)
    /\ UNCHANGED <<job, execVars, evaluated>>

(* Best effort: a run whose add failed waits for the drain. *)
EnqueueRun(v) ==
    /\ eval[v].pc = "enqueue"
    /\ \/ Add(eval[v].run) /\ UNCHANGED faults
       \/ Fault("redis_down") /\ UNCHANGED job
    /\ NextTrigger(v)
    /\ UNCHANGED <<runs, execVars, evaluated>>

EvaluatorCrash(v) ==
    /\ eval[v].pc # "idle"
    /\ Fault("evaluator_crash")
    /\ eval' = [eval EXCEPT ![v] = IdleEval]
    /\ UNCHANGED <<runs, job, execVars, evaluated>>

(***************************************************************************)
(* The automation worker and executeAutomationRun.                         *)
(***************************************************************************)

\* [slip] the processor returns a failure instead of throwing it.
EndJobSwallowsError(x, r, retry) ==
    job' = IF job[r].owner # x THEN job
           ELSE [job EXCEPT ![r].made = @ + 1, ![r].owner = None,
                            ![r].state = "finished"]

(* The job's processor returned, or threw AutomationRetryableError.  BullMQ *)
(* ignores a processor that has lost the job's lock.                        *)
EndJob(x, r, retry) ==
    job' = IF job[r].owner # x THEN job
           ELSE [job EXCEPT ![r].made = @ + 1, ![r].owner = None,
                            ![r].state = IF retry /\ job[r].made + 1 < JobAttempts
                                         THEN "waiting" ELSE "finished"]

\* [slip] the claim selects the run by id alone.
ClaimAnyStatus(x, r) ==
    /\ exec[x].pc = "idle"
    /\ job[r].state = "waiting"
    /\ runs' = [runs EXCEPT ![r].status = "queued"]
    /\ exec' = [exec EXCEPT ![x] = [IdleExec EXCEPT !.pc = "post", !.run = r,
                                      !.attempts = runs[r].attempts + 1]]
    /\ job' = [job EXCEPT ![r].state = "active", ![r].owner = x]
    /\ UNCHANGED <<evalVars, posts, disturbed, faults>>

(* A slot takes a waiting job; the update that claims the run selects it by *)
(* id and status.  A failed update looks like a run nobody may claim.       *)
Claim(x, r) ==
    /\ exec[x].pc = "idle"
    /\ job[r].state = "waiting"
    /\ \/ /\ runs[r].status \in {"queued", "failed"}
          /\ runs' = [runs EXCEPT ![r].status = "queued"]
          /\ exec' = [exec EXCEPT ![x] = [IdleExec EXCEPT !.pc = "post", !.run = r,
                                            !.attempts = runs[r].attempts + 1]]
          /\ job' = [job EXCEPT ![r].state = "active", ![r].owner = x]
          /\ UNCHANGED <<disturbed, faults>>
       \/ /\ \/ runs[r].status \notin {"queued", "failed"} /\ UNCHANGED faults
             \/ runs[r].status \in {"queued", "failed"} /\ Fault("claim_error")
          /\ disturbed' = [disturbed EXCEPT ![r] = @ + faults' - faults]
          /\ job' = [job EXCEPT ![r].state = "finished", ![r].made = @ + 1]
          /\ UNCHANGED <<runs, exec>>
    /\ UNCHANGED <<evalVars, posts>>

(* The request within its ten seconds: accepted, refused, or accepted with *)
(* the answer lost.                                                        *)
Post(x) ==
    LET r == exec[x].run IN
    /\ exec[x].pc = "post"
    /\ \/ /\ exec' = [exec EXCEPT ![x].pc = "write", ![x].ok = TRUE]
          /\ posts' = [posts EXCEPT ![r] = @ + 1]
          /\ UNCHANGED <<disturbed, faults>>
       \/ /\ exec' = [exec EXCEPT ![x].pc = "write"]
          /\ UNCHANGED <<posts, disturbed, faults>>
       \/ /\ Fault("lost_answer")
          /\ exec' = [exec EXCEPT ![x].pc = "write"]
          /\ posts' = [posts EXCEPT ![r] = @ + 1]
          /\ disturbed' = [disturbed EXCEPT ![r] = @ + 1]
    /\ UNCHANGED <<runs, job, evalVars>>

Dead(x) == exec[x].attempts >= MaxAttempts

\* [slip] a status the table does not know.
ResultAsThrown(x) == IF exec[x].ok THEN "sent" ELSE IF Dead(x) THEN "dead" ELSE "retry"

Result(x) == IF exec[x].ok THEN "sent" ELSE IF Dead(x) THEN "dead" ELSE "failed"

(* The result is written by id alone, and an update that fails is not      *)
(* noticed.                                                                *)
WriteResult(x) ==
    LET r == exec[x].run IN
    /\ exec[x].pc = "write"
    /\ \/ /\ runs' = [runs EXCEPT ![r].status = Result(x),
                                  ![r].attempts = exec[x].attempts]
          /\ UNCHANGED <<disturbed, faults>>
       \/ /\ Fault("write_lost")
          /\ disturbed' = [disturbed EXCEPT ![r] = @ + 1]
          /\ UNCHANGED runs
    /\ EndJob(x, r, Result(x) = "failed")
    /\ exec' = [exec EXCEPT ![x] = IdleExec]
    /\ UNCHANGED <<evalVars, posts>>

(* The worker process dies; BullMQ finds the job without a lock later. *)
ExecutorCrash(x) ==
    LET r == exec[x].run IN
    /\ exec[x].pc # "idle"
    /\ Fault("executor_crash")
    /\ exec' = [exec EXCEPT ![x] = IdleExec]
    /\ job' = IF job[r].owner = x THEN [job EXCEPT ![r].owner = None] ELSE job
    /\ disturbed' = [disturbed EXCEPT ![r] = @ + 1]
    /\ UNCHANGED <<runs, evalVars, posts>>

(* A job whose lock is gone is delivered again once, the second time it is *)
(* failed.                                                                 *)
LoseLock(r) ==
    job' = [job EXCEPT ![r] = [@ EXCEPT !.owner = None, !.stalled = TRUE,
              !.state = IF job[r].stalled THEN "finished" ELSE "waiting"]]

Redeliver(r) ==
    /\ job[r].state = "active"
    /\ job[r].owner = None
    /\ LoseLock(r)
    /\ UNCHANGED <<runs, evalVars, execVars, faults>>

(* A live slot that stalls loses the lock too, and goes on afterwards. *)
Stall(r) ==
    /\ job[r].owner # None
    /\ Fault("stall")
    /\ disturbed' = [disturbed EXCEPT ![r] = @ + 1]
    /\ LoseLock(r)
    /\ UNCHANGED <<runs, evalVars, exec, posts>>

(* removeOnComplete / removeOnFail: later jobs push a finished one out. *)
Evict(r) ==
    /\ job[r].state = "finished"
    /\ job' = [job EXCEPT ![r] = NoJob]
    /\ UNCHANGED <<runs, evalVars, execVars, faults>>

(* drainAutomationRuns, for one of the runs its query returns. *)
\* [slip] a run that failed and has no job is forgotten.
DueQueuedOnly(r) == runs[r].status = "queued"

Due(r) == \/ runs[r].status = "queued"
          \/ runs[r].status = "failed" /\ runs[r].attempts < MaxAttempts

DrainRun(r) ==
    /\ Due(r)
    /\ Add(r)
    /\ UNCHANGED <<runs, evalVars, execVars, faults>>

(***************************************************************************)
(* Specification.                                                          *)
(***************************************************************************)
Evaluate(v) == FindDuplicate(v) \/ InsertRun(v) \/ EnqueueRun(v)
Execute(x) == (\E r \in RunId : Claim(x, r)) \/ Post(x) \/ WriteResult(x)

AutoNext ==
    \/ \E v \in Evaluator, c \in CallKey : BeginEvaluation(v, c)
    \/ \E v \in Evaluator : Evaluate(v) \/ EvaluatorCrash(v)
    \/ \E x \in Executor : Execute(x) \/ ExecutorCrash(x)
    \/ \E r \in RunId : Redeliver(r) \/ Stall(r) \/ Evict(r) \/ DrainRun(r)

(* Slots work, BullMQ looks for stalled jobs and the worker drains once a   *)
(* minute.  Nothing is assumed of Evict: it takes a thousand later jobs.    *)
AutoFairness ==
    /\ \A v \in Evaluator : WF_autoVars(Evaluate(v))
    /\ \A x \in Executor : WF_autoVars(Execute(x))
    /\ \A r \in RunId : WF_autoVars(DrainRun(r)) /\ WF_autoVars(Redeliver(r))

AutoSpec == AutoInit /\ [][AutoNext]_autoVars
FairAutoSpec == AutoSpec /\ AutoFairness

(***************************************************************************)
(* Properties.                                                             *)
(***************************************************************************)

(* Claims, results, retries, redeliveries and the drain together POST a run *)
(* at most once beyond the failures that hid a delivery or ran its job      *)
(* again under a live slot.                                                 *)
OneDeliveryUnlessDisturbed == \A r \in RunId : posts[r] <= 1 + disturbed[r]

(* A finished job keeps its id in Redis and makes every later add of the    *)
(* run a no-op, so its run must not need another attempt, unless it has had *)
(* all the attempts that a job makes.                                       *)
FinishedJobIsSettled ==
    \A r \in RunId :
        job[r].state = "finished" /\ disturbed[r] = 0
            => runs[r].status \in {"sent", "dead"} \/ runs[r].attempts >= JobAttempts

(* A run's deliveries as its row shows them; a kept job bars a new one. *)
PhaseOf(status, state) ==
    CASE status = "unused" -> "none"
      [] status \in {"queued", "failed"} -> IF state = "finished" THEN "stuck" ELSE "due"
      [] status = "sent" -> "done"
      [] status = "dead" -> "dropped"

RunPhase == [r \in RunId |-> PhaseOf(runs[r].status, job[r].state)]
RunTries == [r \in RunId |-> runs[r].attempts]

D == INSTANCE Delivery WITH Item <- RunId, Limit <- MaxAttempts,
                            phase <- RunPhase, tries <- RunTries

(* Evaluation, a slot of the worker, BullMQ and the drain implement         *)
(* Delivery, whatever fails: attempts are counted one by one, what is sent  *)
(* or dead stays so, and a run is retried until it is sent or its attempts  *)
(* are spent, except while a kept job bars it.  That takes one of the       *)
(* failures the code does not notice, or a job that has made all its        *)
(* attempts (FinishedJobIsSettled), and lasts until BullMQ removes the job. *)
(* (Beside a second slot, a stalled one counts the same attempt twice.)     *)
ImplementsDelivery == D!Spec
=============================================================================
