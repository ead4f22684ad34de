--------------------------- MODULE CallProcessing ---------------------------
(***************************************************************************)
(* What happens to one call after it ended: Retell's call_analyzed event,  *)
(* redelivered until it is answered, the stuck-call reconciler and the     *)
(* inbound reconciler all hand it to processRetellWebhook.  An outbound    *)
(* call, a test call and an inbound call are claimed with a five-minute    *)
(* lease on the calls row before the CRM is written; the older processor,  *)
(* kept for inbound calls of Follow Up Boss, claims nothing.  Every path   *)
(* evaluates the automations of AutomationRuns.                            *)
(*                                                                         *)
(* The queue row and the cadence decision of an outbound call are in       *)
(* DialQueue; here the CRM writes and their repetition are in view.  The   *)
(* tag writes add what is missing and are idempotent, so notes, tasks,     *)
(* contacts and cadence writes are counted.                                *)
(***************************************************************************)
EXTENDS AutomationRuns, FiniteSetsExt

CONSTANTS
    TheCall,        \* the call of this behaviour
    Kinds,          \* the kinds of call it may be
    MaxDeliveries   \* webhook deliveries that get through

ProcessingFaults == {"slow_processor", "overlap", "crash", "rows_missing", "crm_lookup",
                     "note_answer_lost", "complete_lost"}

ASSUME CallAssumption ==
    /\ CallKey = {TheCall}
    /\ IsFiniteSet(Evaluator)
    /\ Faults \subseteq AutomationFaults \cup ProcessingFaults
    /\ Kinds \subseteq {"outbound", "test", "inbound", "legacy"}
    /\ MaxDeliveries \in Nat

(* kind: which processor; final: the outcome of an outbound call ends the   *)
(* attempt; same: the caller gave no other number to call back.             *)
Setting == [kind : Kinds, final : BOOLEAN, same : BOOLEAN]

ProcPC == {"idle", "look", "claim", "insert", "load", "find", "create", "log", "fallback",
           "complete", "task", "evaluate", "evaluating", "cadence", "finalize"}
Proc == [pc : ProcPC, failed : BOOLEAN]
IdleProc == [pc |-> "idle", failed |-> FALSE]

VARIABLES
    setting,     \* facts about the call that no step changes
    analyzed,    \* Retell has finished its post-call analysis
    deliveries,  \* webhook deliveries so far
    row,         \* the calls row: status and outcome_claimed_at
    proc,        \* the processors, by the process that runs one
    crm,         \* what has been written to the CRM
    overtaken,   \* leases that ran out under a live processor, and
                 \* unclaimed processors that began under or after another
    repeated,    \* processors that died after their first CRM write
    unfinished   \* completing updates that failed without being noticed

counts == <<overtaken, repeated, unfinished>>
procVars == <<proc, counts>>
callVars == <<setting, analyzed, deliveries, row, procVars, crm>>
vars == <<callVars, autoVars>>

TypeOK ==
    /\ AutoTypeOK
    /\ setting \in Setting
    /\ analyzed \in BOOLEAN
    /\ deliveries \in Nat
    /\ row \in [status : {"none", "dialing", "completed"},
                claim : {"none", "held", "lapsed"}]
    /\ proc \in [Evaluator -> Proc]
    /\ crm \in [known : BOOLEAN, missed : Nat, contacts : Nat, notes : Nat, doubled : Nat,
                tasks : Nat, cadence : Nat]
    /\ overtaken \in Nat
    /\ repeated \in Nat
    /\ unfinished \in Nat

Legacy == setting.kind = "legacy"
Inbound == setting.kind \in {"inbound", "legacy"}

Init ==
    /\ AutoInit
    /\ setting \in Setting
    /\ setting.kind # "outbound" => setting.final
    /\ setting.kind \in {"outbound", "test"} => setting.same
    /\ analyzed = FALSE
    /\ deliveries = 0
    /\ row = [status |-> IF Inbound THEN "none" ELSE "dialing",
              claim |-> "none"]
    /\ proc = [h \in Evaluator |-> IdleProc]
    /\ \E known \in BOOLEAN :
          /\ setting.kind \in {"outbound", "test"} => known
          /\ crm = [known |-> known, missed |-> 0, contacts |-> 0, notes |-> 0,
                    doubled |-> 0, tasks |-> 0, cadence |-> 0]
    /\ overtaken = 0
    /\ repeated = 0
    /\ unfinished = 0

Goto(h, pc) == proc' = [proc EXCEPT ![h].pc = pc]
Return(h) == proc' = [proc EXCEPT ![h] = IdleProc]

(***************************************************************************)
(* Who starts a processor.                                                 *)
(***************************************************************************)

Analyze ==
    /\ ~analyzed
    /\ analyzed' = TRUE
    /\ UNCHANGED <<setting, deliveries, row, procVars, crm, autoVars>>

Begin(h) ==
    /\ proc[h].pc = "idle"
    /\ proc' = [proc EXCEPT ![h] = [IdleProc EXCEPT !.pc = "look"]]
    /\ UNCHANGED <<setting, analyzed, row, counts, crm, autoVars>>

(* POST /api/webhooks/retell: any event but call_analyzed is answered and   *)
(* dropped.                                                                 *)
Webhook(h) ==
    /\ analyzed
    /\ deliveries < MaxDeliveries
    /\ deliveries' = deliveries + 1
    /\ Begin(h)

(* reconcileStuckCalls takes any call Retell no longer reports as running,  *)
(* whether it has been analyzed or not.                                     *)
ReconcileStuckCall(h) ==
    /\ row.status = "dialing"
    /\ Begin(h)
    /\ UNCHANGED deliveries

(* reconcileInboundCalls looks for analyzed calls that have no row. *)
ReconcileInboundCall(h) ==
    /\ Inbound
    /\ analyzed
    /\ row.status = "none"
    /\ Begin(h)
    /\ UNCHANGED deliveries

(***************************************************************************)
(* The processors.                                                         *)
(***************************************************************************)

(* The row is found, or inserted under its unique Retell id; the loser of   *)
(* an insert race reads the winner's row.  The legacy processor does not    *)
(* look at the error of the read: a completed call it could not read it     *)
(* takes for a new one.                                                     *)
LookUp(h) ==
    /\ proc[h].pc = "look"
    /\ \/ row.status = "completed" /\ Return(h) /\ UNCHANGED row
       \/ /\ row.status # "completed" \/ Legacy
          /\ IF Legacy
             THEN Goto(h, "insert") /\ UNCHANGED row
             ELSE Goto(h, "claim") /\ row' = [row EXCEPT !.status = "dialing"]
    /\ UNCHANGED <<setting, analyzed, deliveries, counts, crm, autoVars>>

Holding == {h \in Evaluator : proc[h].pc \notin {"idle", "look", "claim", "insert"}}

(* The legacy processor loads the agent and workspace, inserts the row or   *)
(* takes the id of the one that is there, and goes on: the status it looked *)
(* at before is not asked for again.  One that begins while another is at   *)
(* work, or after it, is overtaken; MaxFaults bounds how often that happens.*)
InsertLegacy(h) ==
    /\ proc[h].pc = "insert"
    /\ \/ Fault("rows_missing") /\ Return(h) /\ UNCHANGED <<row, overtaken>>
       \/ /\ row' = IF row.status = "none" THEN [row EXCEPT !.status = "dialing"] ELSE row
          /\ IF Holding # {} \/ row.status = "completed"
             THEN Fault("overlap") /\ overtaken' = overtaken + 1
             ELSE UNCHANGED <<overtaken, faults>>
          /\ Goto(h, "find")
    /\ UNCHANGED <<setting, analyzed, deliveries, repeated, unfinished, crm,
                   runs, job, evalVars, execVars>>

\* [slip] the lease of another processor is not asked about.
ClaimCallAnyLease(h) ==
    /\ proc[h].pc = "claim"
    /\ IF row.status # "completed"
       THEN row' = [row EXCEPT !.claim = "held"] /\ Goto(h, "load")
       ELSE Return(h) /\ UNCHANGED row
    /\ UNCHANGED <<setting, analyzed, deliveries, counts, crm, autoVars>>

\* [slip] a claim is a claim for ever.
ClaimCallOnce(h) ==
    /\ proc[h].pc = "claim"
    /\ IF row.status # "completed" /\ row.claim = "none"
       THEN row' = [row EXCEPT !.claim = "held"] /\ Goto(h, "load")
       ELSE Return(h) /\ UNCHANGED row
    /\ UNCHANGED <<setting, analyzed, deliveries, counts, crm, autoVars>>

ClaimCall(h) ==
    /\ proc[h].pc = "claim"
    /\ IF row.status # "completed" /\ row.claim # "held"
       THEN row' = [row EXCEPT !.claim = "held"] /\ Goto(h, "load")
       ELSE Return(h) /\ UNCHANGED row
    /\ UNCHANGED <<setting, analyzed, deliveries, counts, crm, autoVars>>

(* The rows of the agent, workspace and contact; without them it returns    *)
(* with the claim held.                                                     *)
Load(h) ==
    /\ proc[h].pc = "load"
    /\ \/ /\ Goto(h, CASE setting.kind = "outbound" -> "log"
                       [] setting.kind = "test" -> "complete"
                       [] setting.kind = "inbound" -> "find")
          /\ UNCHANGED faults
       \/ setting.kind = "outbound" /\ Fault("rows_missing") /\ Return(h)
    /\ UNCHANGED <<setting, analyzed, deliveries, row, counts, crm,
                   runs, job, evalVars, execVars>>

(* The caller is looked up by the number called from.  An error counts as   *)
(* not found.                                                               *)
FindContact(h) ==
    /\ proc[h].pc = "find"
    /\ \/ /\ proc' = [proc EXCEPT ![h].pc = IF crm.known THEN "log" ELSE "create"]
          /\ UNCHANGED <<crm, faults>>
       \/ /\ Fault("crm_lookup")
          /\ crm' = [crm EXCEPT !.missed = @ + 1]
          /\ Goto(h, "create")
    /\ UNCHANGED <<setting, analyzed, deliveries, row, counts,
                   runs, job, evalVars, execVars>>

\* [slip] the contact is created without the number of the caller.
CreateContactWithoutPhone(h) ==
    /\ proc[h].pc = "create"
    /\ \/ crm' = [crm EXCEPT !.contacts = @ + 1] /\ Goto(h, "log")
       \/ /\ proc' = [proc EXCEPT ![h].pc = "finalize", ![h].failed = TRUE]
          /\ UNCHANGED crm
    /\ UNCHANGED <<setting, analyzed, deliveries, row, counts, autoVars>>

(* The contact is created under the number to call back.  When creating is  *)
(* switched off, or the CRM refuses, the call is finalized with an error.   *)
CreateContact(h) ==
    /\ proc[h].pc = "create"
    /\ \/ /\ crm' = [crm EXCEPT !.contacts = @ + 1, !.known = @ \/ setting.same]
          /\ Goto(h, "log")
       \/ /\ proc' = [proc EXCEPT ![h].pc = "finalize", ![h].failed = TRUE]
          /\ UNCHANGED crm
    /\ UNCHANGED <<setting, analyzed, deliveries, row, counts, autoVars>>

AfterLog == IF Inbound THEN "task" ELSE "complete"

(* logCallToCrm never throws.  A call log that is refused, or whose answer  *)
(* is lost after the CRM has written it, is followed by a plain note.       *)
LogCall(h) ==
    /\ proc[h].pc = "log"
    /\ \/ crm' = [crm EXCEPT !.notes = @ + 1] /\ Goto(h, AfterLog) /\ UNCHANGED faults
       \/ UNCHANGED <<crm, faults>> /\ Goto(h, "fallback")
       \/ /\ Fault("note_answer_lost")
          /\ crm' = [crm EXCEPT !.notes = @ + 1, !.doubled = @ + 1]
          /\ Goto(h, "fallback")
    /\ UNCHANGED <<setting, analyzed, deliveries, row, counts,
                   runs, job, evalVars, execVars>>

AddFallbackNote(h) ==
    /\ proc[h].pc = "fallback"
    /\ crm' = [crm EXCEPT !.notes = @ + 1] \/ UNCHANGED crm
    /\ Goto(h, AfterLog)
    /\ UNCHANGED <<setting, analyzed, deliveries, row, counts, autoVars>>

\* [slip] a status the calls table does not know.
CompleteUnknown ==
    row' = [row EXCEPT !.status = "done"] /\ UNCHANGED <<unfinished, faults>>

(* Nobody looks at the error of the update that completes the call: the     *)
(* processor goes on as if the row were completed.                          *)
Complete ==
    \/ row' = [row EXCEPT !.status = "completed"] /\ UNCHANGED <<unfinished, faults>>
    \/ Fault("complete_lost") /\ unfinished' = unfinished + 1 /\ UNCHANGED row

(* An outbound call is completed before its tags, tasks, automations and    *)
(* cadence.  When another number is left the processor chains it and        *)
(* returns.                                                                 *)
CompleteOutbound(h) ==
    /\ proc[h].pc = "complete"
    /\ Complete
    /\ IF setting.kind = "test" THEN Goto(h, "evaluate")
       ELSE IF setting.final THEN Goto(h, "task")
       ELSE Return(h)
    /\ UNCHANGED <<setting, analyzed, deliveries, overtaken, repeated, crm,
                   runs, job, evalVars, execVars>>

(* Not every outcome and duration asks for a task.  (The legacy processor   *)
(* makes one per matched user; they count as one here.)                     *)
CreateTask(h) ==
    /\ proc[h].pc = "task"
    /\ \/ crm' = [crm EXCEPT !.tasks = @ + 1]
       \/ UNCHANGED crm
    /\ Goto(h, "evaluate")
    /\ UNCHANGED <<setting, analyzed, deliveries, row, counts, autoVars>>

StartAutomations(h) ==
    /\ proc[h].pc = "evaluate"
    /\ BeginEvaluation(h, TheCall)
    /\ Goto(h, "evaluating")
    /\ UNCHANGED <<setting, analyzed, deliveries, row, counts, crm>>

(* An error path finalizes first and evaluates last. *)
AutomationsDone(h) ==
    /\ proc[h].pc = "evaluating"
    /\ eval[h].pc = "idle"
    /\ IF setting.kind = "test" \/ proc[h].failed THEN Return(h)
       ELSE IF setting.kind = "outbound" THEN Goto(h, "cadence")
       ELSE Goto(h, "finalize")
    /\ UNCHANGED <<setting, analyzed, deliveries, row, counts, crm, autoVars>>

WriteCadence(h) ==
    /\ proc[h].pc = "cadence"
    /\ crm' = [crm EXCEPT !.cadence = @ + 1]
    /\ Return(h)
    /\ UNCHANGED <<setting, analyzed, deliveries, row, counts, autoVars>>

(* An inbound call is completed last, by id alone (finalizeLegacyCall too). *)
FinalizeInbound(h) ==
    /\ proc[h].pc = "finalize"
    /\ Complete
    /\ IF proc[h].failed THEN Goto(h, "evaluate") ELSE Return(h)
    /\ UNCHANGED <<setting, analyzed, deliveries, overtaken, repeated, crm,
                   runs, job, evalVars, execVars>>

(***************************************************************************)
(* Leases and crashes.                                                     *)
(***************************************************************************)
LeaseLapses ==
    /\ row.claim = "held"
    /\ row.status # "completed"
    /\ row' = [row EXCEPT !.claim = "lapsed"]
    /\ \/ Holding = {} /\ UNCHANGED <<overtaken, faults>>
       \/ /\ Holding # {}
          /\ Fault("slow_processor")
          /\ overtaken' = overtaken + 1
    /\ UNCHANGED <<setting, analyzed, deliveries, proc, repeated, unfinished, crm,
                   runs, job, evalVars, execVars>>

ProcessorCrash(h) ==
    /\ proc[h].pc # "idle"
    /\ Fault("crash")
    /\ Return(h)
    /\ eval' = [eval EXCEPT ![h] = IdleEval]
    /\ repeated' = IF h \in Holding /\ row.status # "completed"
                   THEN repeated + 1 ELSE repeated
    /\ UNCHANGED <<setting, analyzed, deliveries, row, overtaken, unfinished, crm,
                   runs, job, evaluated, execVars>>

(***************************************************************************)
(* Specification.                                                          *)
(***************************************************************************)
Process(h) ==
    \/ LookUp(h) \/ InsertLegacy(h) \/ ClaimCall(h) \/ Load(h)
    \/ FindContact(h) \/ CreateContact(h) \/ LogCall(h) \/ AddFallbackNote(h)
    \/ CompleteOutbound(h) \/ CreateTask(h)
    \/ StartAutomations(h) \/ AutomationsDone(h)
    \/ WriteCadence(h) \/ FinalizeInbound(h)

Reconcile == \E h \in Evaluator : ReconcileStuckCall(h) \/ ReconcileInboundCall(h)

(* The automation steps that do not belong to a call's processor. *)
AutomationStep ==
    /\ \/ \E x \in Executor : Execute(x) \/ ExecutorCrash(x)
       \/ \E r \in RunId : Redeliver(r) \/ Stall(r) \/ Evict(r) \/ DrainRun(r)
    /\ UNCHANGED callVars

EvaluationStep(h) == Evaluate(h) /\ UNCHANGED callVars

Next ==
    \/ Analyze
    \/ \E h \in Evaluator : Webhook(h) \/ Process(h) \/ EvaluationStep(h)
                            \/ ProcessorCrash(h)
    \/ Reconcile
    \/ LeaseLapses
    \/ AutomationStep

(* The worker runs both reconcilers every few minutes and time passes; a    *)
(* processor that is not dead goes on.  No webhook is assumed to arrive.    *)
Fairness ==
    /\ WF_vars(Analyze)
    /\ WF_vars(LeaseLapses /\ Holding = {})
    /\ WF_vars(Reconcile)
    /\ \A h \in Evaluator : WF_vars(Process(h)) /\ WF_vars(EvaluationStep(h))

Spec == Init /\ [][Next]_vars
FairSpec == Spec /\ Fairness

(***************************************************************************)
(* Properties.                                                             *)
(***************************************************************************)
Repeats == overtaken + repeated + unfinished

(* Webhook redeliveries and the two reconcilers write a claimed call to the *)
(* CRM once.  What it takes to write a second note, task or cadence         *)
(* decision: a lease that ran out under a live processor (without a claim:  *)
(* a processor that overlapped with another), a processor that died before  *)
(* the row was completed, or a completing update that failed unnoticed, so  *)
(* that the call is processed again; for the note also a call log that was  *)
(* written while its answer was lost.                                       *)
WrittenBackOnce ==
    /\ crm.notes <= 1 + Repeats + crm.doubled
    /\ crm.tasks <= 1 + IF setting.kind = "outbound" THEN overtaken + unfinished ELSE Repeats
    /\ crm.cadence <= 1 + overtaken + unfinished

(* A retry of an inbound call finds the contact the first try created, so   *)
(* even a crash does not leave the caller twice in the CRM: that takes an   *)
(* overtaken processor, a failed look-up, or a caller who gave another      *)
(* number than the one they called from.                                    *)
OneContactPerCaller ==
    Inbound /\ setting.same
        => crm.contacts <= 1 + overtaken + crm.missed

(* The attempts of a run whose answer is in, written to the row or not yet. *)
Answered(r) ==
    runs[r].attempts
        + IF \E x \in Executor : exec[x].run = r /\ exec[x].pc = "write" THEN 1 ELSE 0

(* An attempt of the run was refused, or failures make it look like that:   *)
(* the row may have had the status failed, which is no duplicate.           *)
Troubled(r) == disturbed[r] > 0 \/ Answered(r) > posts[r]

(* The promise of post-call automations, across claim, evaluation, job and  *)
(* executor: a call fires a trigger once, even if its processor died and    *)
(* another one evaluates it again.  A second send takes an overtaken        *)
(* processor, a failure counted by the run, or a run in trouble, in whose   *)
(* place another evaluation may put a new one.                              *)
OneSendPerTrigger ==
    \A t \in Trigger :
        LET mine == {r \in RunId : runs[r].trigger = t} IN
        MapThenSumSet(LAMBDA r : posts[r], mine)
            <= 1 + overtaken + MapThenSumSet(LAMBDA r : disturbed[r], mine)
                 + Cardinality({r \in mine : Troubled(r)})

(* However the event is lost and whichever processor dies, an ended call is *)
(* completed in the end.                                                    *)
CallCompletes == <>(row.status = "completed")
=============================================================================
