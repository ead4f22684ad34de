----------------------------- MODULE DialQueue -----------------------------
(***************************************************************************)
(* The outbound dial path of one (agent, contact) pair: the durable rows   *)
(* of call_queue_entries, the calls table, the executors that claim a row  *)
(* and run placeCall (BullMQ worker, Postgres drain, operator "Call now"), *)
(* the outcome processor that answers Retell, and the sweeps that repair   *)
(* the queue.  Every query of the path filters by agent and contact or by  *)
(* a row id, so pairs do not interact here.                                *)
(*                                                                         *)
(* Redis is a message layer: "jobs" holds every dial job ever enqueued and *)
(* any of them may be delivered at any time, late, twice or never.  That   *)
(* covers delays, retries, stalled-job redelivery, lost delayed sets and   *)
(* the best-effort removals of the code.  Each database or HTTP call of a  *)
(* handler on which another process can interleave is an action.           *)
(***************************************************************************)
EXTENDS Naturals, FiniteSets

CONSTANTS
    Worker,      \* concurrent slots of the BullMQ call worker
    Drain,       \* concurrent runs of the failover drain cron
    Forcer,      \* concurrent operator-forced dials (Call now, trigger-call)
    Handler,     \* concurrent runs of processRetellWebhook
    Poller,      \* concurrent polls and manual enqueues
    RowId,       \* ids of call_queue_entries rows
    CallId,      \* ids of calls rows
    None,        \* SQL null
    LastDay,     \* the last workspace-local day modelled
    PhoneCount,  \* numbers of the contact's phone snapshot
    MaxAttempt,  \* max_attempts_per_contact; also bounds forced attempts
    Gap,         \* cadence_day_gaps: days until the next eligible day
    ManualQueue, \* TRUE when operators use "Queue calls now"
    Faults,      \* the failures the environment may inject
    MaxFaults    \* how many of them

FaultKinds == {"retell_rejects", "answer_lost", "stamp_error", "crash",
               "handler_crash", "early_webhook", "slow_cleanup"}

ASSUME IdsAssumption == None \notin RowId \cup CallId
ASSUME ParamAssumption ==
    /\ LastDay \in Nat \ {0}
    /\ PhoneCount \in Nat \ {0}
    /\ MaxAttempt \in Nat
    /\ Gap \in Nat \ {0}
    /\ ManualQueue \in BOOLEAN
    /\ Faults \subseteq FaultKinds
    /\ MaxFaults \in Nat
ASSUME ProcessAssumption ==
    /\ Worker \cap Drain = {}
    /\ Worker \cap Forcer = {}
    /\ Drain \cap Forcer = {}

Executor == Worker \cup Drain \cup Forcer

Outcome == {"no_answer", "answered", "terminal"}

(***************************************************************************)
(* The tables.                                                             *)
(***************************************************************************)
RowStatus == {"unused", "pending", "dialing", "deleted"}
Row == [status : RowStatus, day : Nat, attempt : Nat, phone : Nat,
        call : CallId \cup {None}]

CallStatus == {"unused", "queued", "dialing", "completed", "failed"}
Call == [status : CallStatus, attempt : Nat, phone : Nat, phones : Nat,
         retell : BOOLEAN, outcome : Outcome \cup {None}]

Job == [row : RowId, attempt : Nat, phone : Nat]

ExecPC == {"idle", "number", "scanned", "check", "record", "dial",
           "link", "mark", "stamp", "cleanup"}
Exec == [pc : ExecPC, row : RowId \cup {None}, attempt : Nat, phone : Nat,
         call : CallId \cup {None}, day : Nat]

HandlerPC == {"idle", "claimed", "chain", "cadence", "complete"}
Handling == [pc : HandlerPC, call : CallId \cup {None},
             entry : RowId \cup {None}, outcome : Outcome \cup {None}]

PollPC == {"idle", "read", "lookup", "write", "push"}
Poll == [pc : PollPC, manual : BOOLEAN, attempt : Nat, day : Nat,
         row : RowId \cup {None}]

NoRow(status) == [status |-> status, day |-> 0, attempt |-> 0, phone |-> 0,
                  call |-> None]
NoCall == [status |-> "unused", attempt |-> 0, phone |-> 0, phones |-> 0,
           retell |-> FALSE, outcome |-> None]
IdleExec == [pc |-> "idle", row |-> None, attempt |-> 0, phone |-> 0,
             call |-> None, day |-> 0]
Dialing(pc, row, attempt, phone) ==
    [pc |-> pc, row |-> row, attempt |-> attempt, phone |-> phone,
     call |-> None, day |-> 0]
IdleHandler == [pc |-> "idle", call |-> None, entry |-> None,
                outcome |-> None]
IdlePoll == [pc |-> "idle", manual |-> FALSE, attempt |-> 0, day |-> 0,
             row |-> None]

VARIABLES
    today,    \* the workspace-local calendar day
    faults,   \* failures injected so far
    rows,     \* call_queue_entries
    jobs,     \* every dial job handed to BullMQ
    calls,    \* calls
    rings,    \* times Retell accepted a dial for this calls row
    lost,     \* of those, the ones whose acceptance was never recorded
    cadence,  \* agent_contact_states
    exec,     \* the executors, each inside placeCall or around it
    handler,  \* the outcome processors
    poll      \* the pollers

queueVars == <<rows, jobs>>
callVars == <<calls, rings, lost>>
vars == <<today, faults, rows, jobs, calls, rings, lost, cadence,
          exec, handler, poll>>

TypeOK ==
    /\ today \in Nat
    /\ faults \in Nat
    /\ rows \in [RowId -> Row]
    /\ jobs \subseteq Job
    /\ calls \in [CallId -> Call]
    /\ rings \in [CallId -> Nat]
    /\ lost \in [CallId -> Nat]
    /\ cadence \in [attempts : Nat, last : Nat, next : Nat, terminal : BOOLEAN]
    /\ exec \in [Executor -> Exec]
    /\ handler \in [Handler -> Handling]
    /\ poll \in [Poller -> Poll]

Init ==
    /\ today = 1
    /\ faults = 0
    /\ rows = [r \in RowId |-> NoRow("unused")]
    /\ jobs = {}
    /\ calls = [c \in CallId |-> NoCall]
    /\ rings = [c \in CallId |-> 0]
    /\ lost = [c \in CallId |-> 0]
    /\ cadence = [attempts |-> 0, last |-> 0, next |-> 0, terminal |-> FALSE]
    /\ exec = [e \in Executor |-> IdleExec]
    /\ handler = [h \in Handler |-> IdleHandler]
    /\ poll = [p \in Poller |-> IdlePoll]

(***************************************************************************)
(* The queries of call-queue.ts, on the rows of this contact.              *)
(***************************************************************************)
Live == {r \in RowId : rows[r].status \in {"pending", "dialing"}}
Pending == {r \in RowId : rows[r].status = "pending"}

Without(gone) ==
    [r \in RowId |-> IF r \in gone THEN NoRow("deleted") ELSE rows[r]]

\* failQueueEntry and cancelQueueEntries.
FailQueueEntry == Without(Live)

CancelQueueEntries == Without(Pending)

\* [slip] the claim forgets to ask for status = pending.
ClaimableWhenActive(r) == r \in Live

\* The CAS pending -> dialing; enabled only if it finds the row pending.
Claimable(r) == r \in Pending
Claimed(r) == [rows EXCEPT ![r].status = "dialing"]

\* revertQueueClaim: only a row still dialing goes back to pending.
Reverted(r) ==
    IF r # None /\ r \in Live
    THEN [rows EXCEPT ![r].status = "pending", ![r].call = None]
    ELSE rows

\* markQueueDialing: every active row of that queue day, claimed or not.
MarkedDialing(day, c) ==
    [r \in RowId |->
        IF r \in Live /\ rows[r].day = day
        THEN [rows[r] EXCEPT !.status = "dialing", !.call = c]
        ELSE rows[r]]

(***************************************************************************)
(* calls, with the partial unique index calls_one_active_attempt_per_phone.*)
(***************************************************************************)
\* [slip] a completed dial no longer counts.
UnfinishedCalls(attempt, phone) ==
    {c \in CallId : /\ calls[c].status \in {"queued", "dialing"}
                    /\ calls[c].attempt = attempt
                    /\ calls[c].phone = phone}

ActiveCalls(attempt, phone) ==
    {c \in CallId : /\ calls[c].status \in {"queued", "dialing", "completed"}
                    /\ calls[c].attempt = attempt
                    /\ calls[c].phone = phone}

\* An update into an active status succeeds only if the index permits it; the
\* code ignores the error of a refused update.
MayBecomeActive(c) ==
    ActiveCalls(calls[c].attempt, calls[c].phone) \subseteq {c}

AttemptsOnRecord == {calls[c].attempt : c \in {d \in CallId :
                                          calls[d].status # "unused"}}

Fault(kind) ==
    /\ kind \in Faults
    /\ faults < MaxFaults
    /\ faults' = faults + 1

(***************************************************************************)
(* Calendar.                                                               *)
(***************************************************************************)
NextDay ==
    /\ today < LastDay
    /\ today' = today + 1
    /\ UNCHANGED <<faults, queueVars, callVars, cadence, exec, handler, poll>>

(***************************************************************************)
(* pollAgent and enqueueContactsNow.  The cadence state is read early, the *)
(* queue is looked at later, and upsertQueueEntry looks up the row of the   *)
(* day before it writes it.                                                *)
(***************************************************************************)
\* [slip] next_eligible_on alone decides.
EligibleByDateOnly ==
    /\ ~cadence.terminal
    /\ cadence.attempts < MaxAttempt
    /\ cadence.next <= today

Eligible ==
    /\ ~cadence.terminal
    /\ cadence.attempts < MaxAttempt
    /\ cadence.last # today
    /\ cadence.next <= today

\* buildDialAttempt: the next attempt number, from the state just read.
Attempt(pc, manual) == [pc |-> pc, manual |-> manual, day |-> today,
                        attempt |-> cadence.attempts + 1, row |-> None]

PollReadState(p) ==
    /\ poll[p].pc = "idle"
    /\ Eligible
    /\ poll' = [poll EXCEPT ![p] = Attempt("read", FALSE)]
    /\ UNCHANGED <<today, faults, queueVars, callVars, cadence, exec, handler>>

PollReadQueue(p) ==
    /\ poll[p].pc = "read"
    /\ poll' = [poll EXCEPT ![p] = IF Live = {} THEN [@ EXCEPT !.pc = "lookup"]
                                   ELSE IdlePoll]
    /\ UNCHANGED <<today, faults, queueVars, callVars, cadence, exec, handler>>

\* The operator's pick bypasses the cadence gate and never looks at the queue.
ManualReadState(p) ==
    /\ ManualQueue
    /\ poll[p].pc = "idle"
    /\ ~cadence.terminal
    /\ cadence.attempts < MaxAttempt
    /\ poll' = [poll EXCEPT ![p] = Attempt("lookup", TRUE)]
    /\ UNCHANGED <<today, faults, queueVars, callVars, cadence, exec, handler>>

RowsOfDay(day) == {r \in Live : rows[r].day = day}
Unused == {r \in RowId : rows[r].status = "unused"}

EnqueueLookup(p) ==
    /\ poll[p].pc = "lookup"
    /\ LET found == RowsOfDay(poll[p].day)
       IN \E r \in IF found = {} THEN {None} ELSE found :
             poll' = [poll EXCEPT ![p].pc = "write", ![p].row = r]
    /\ UNCHANGED <<today, faults, queueVars, callVars, cadence, exec, handler>>

FreshRow(p) == [status |-> "pending", day |-> poll[p].day,
                attempt |-> poll[p].attempt, phone |-> 0, call |-> None]

\* [slip] the id of the written row is not returned.
EnqueueRowWithoutId(p) ==
    /\ poll[p].pc = "write"
    /\ RowsOfDay(poll[p].day) = {}
    /\ \E s \in Unused : rows' = [rows EXCEPT ![s] = FreshRow(p)]
    /\ poll' = [poll EXCEPT ![p].pc = "push"]
    /\ UNCHANGED <<today, faults, jobs, callVars, cadence, exec, handler>>

\* The row found is refreshed in place, whatever its status now (nothing happens
\* if it is gone).  With none found, the insert on conflict (agent, contact,
\* queue_day) makes a new row or resets one written in between.
EnqueueRow(p) ==
    /\ poll[p].pc = "write"
    /\ LET r == poll[p].row
           sameDay == RowsOfDay(poll[p].day)
       IN \/ /\ r # None
             /\ rows' = IF r \in Live
                        THEN [rows EXCEPT ![r].attempt = poll[p].attempt,
                                          ![r].phone = 0]
                        ELSE rows
             /\ poll' = [poll EXCEPT ![p].pc = "push"]
          \/ /\ r = None
             /\ \E s \in IF sameDay # {} THEN sameDay ELSE Unused :
                   /\ rows' = [rows EXCEPT ![s] = FreshRow(p)]
                   /\ poll' = [poll EXCEPT ![p].pc = "push", ![p].row = s]
    /\ UNCHANGED <<today, faults, jobs, callVars, cadence, exec, handler>>

\* addCallJobsBulk.
EnqueueJob(p) ==
    /\ poll[p].pc = "push"
    /\ jobs' = jobs \cup {[row |-> poll[p].row, attempt |-> poll[p].attempt,
                           phone |-> 0]}
    /\ poll' = [poll EXCEPT ![p] = IdlePoll]
    /\ UNCHANGED <<today, faults, rows, callVars, cadence, exec, handler>>

\* Redis refuses a manual enqueue: its rows are rolled back, if still pending.
\* (A poll leaves the durable row: its job is then one that never arrives.)
ManualRollback(p) ==
    /\ poll[p].pc = "push"
    /\ poll[p].manual
    /\ rows' = Without({r \in Pending : rows[r].day = poll[p].day})
    /\ poll' = [poll EXCEPT ![p] = IdlePoll]
    /\ UNCHANGED <<today, faults, jobs, callVars, cadence, exec, handler>>

\* reconcileUnenrolledQueueOnPoll, when the CRM scan no longer lists the contact.
PollDropsUnenrolled ==
    /\ Pending # {}
    /\ rows' = CancelQueueEntries
    /\ UNCHANGED <<today, faults, jobs, callVars, cadence, exec, handler, poll>>

(***************************************************************************)
(* Executors: how a dial starts.                                           *)
(***************************************************************************)
\* A new claim does not fall into the round trip between a failing executor's
\* revert and its cleanup, unless the environment may be that slow.
CleanupIsPrompt ==
    "slow_cleanup" \in Faults \/ \A e \in Executor : exec[e].pc # "cleanup"

WorkerClaim(w, j) ==
    /\ exec[w].pc = "idle"
    /\ Claimable(j.row)
    /\ CleanupIsPrompt
    /\ rows' = Claimed(j.row)
    /\ exec' = [exec EXCEPT ![w] = Dialing("check", j.row, j.attempt, j.phone)]
    /\ UNCHANGED <<today, faults, jobs, callVars, cadence, handler, poll>>

\* One tick reads up to 500 due rows, then works through its copy of them.
DrainScan(d, r) ==
    /\ exec[d].pc = "idle"
    /\ r \in Pending
    /\ exec' = [exec EXCEPT ![d] =
                    Dialing("scanned", r, rows[r].attempt, rows[r].phone)]
    /\ UNCHANGED <<today, faults, queueVars, callVars, cadence, handler, poll>>

DrainClaim(d) ==
    /\ exec[d].pc = "scanned"
    /\ ~cadence.terminal
    /\ ~(cadence.last = today /\ exec[d].phone = 0)
    /\ Claimable(exec[d].row)
    /\ CleanupIsPrompt
    /\ rows' = Claimed(exec[d].row)
    /\ exec' = [exec EXCEPT ![d].pc = "check"]
    /\ UNCHANGED <<today, faults, jobs, callVars, cadence, handler, poll>>

\* A guard failed or another executor has the row.
DrainSkip(d) ==
    /\ exec[d].pc = "scanned"
    /\ exec' = [exec EXCEPT ![d] = IdleExec]
    /\ UNCHANGED <<today, faults, queueVars, callVars, cadence, handler, poll>>

\* Call now: cancelPendingDials cancels the pending rows only if it removed a
\* job from Redis; trigger-call does not call it.
ForcedStart(f) ==
    /\ exec[f].pc = "idle"
    /\ exec' = [exec EXCEPT ![f].pc = "number"]
    /\ \/ UNCHANGED rows
       \/ jobs # {} /\ rows' = CancelQueueEntries
    /\ UNCHANGED <<today, faults, jobs, callVars, cadence, handler, poll>>

\* [slip] the number comes from the cadence state alone.
ForcedNumberFromState(f) ==
    /\ exec[f].pc = "number"
    /\ cadence.attempts < MaxAttempt
    /\ exec' = [exec EXCEPT ![f].pc = "check",
                            ![f].attempt = cadence.attempts + 1]
    /\ UNCHANGED <<today, faults, queueVars, callVars, cadence, handler, poll>>

\* nextForcedAttemptNumber.
ForcedNumber(f) ==
    /\ exec[f].pc = "number"
    /\ \E a \in AttemptsOnRecord \cup {cadence.attempts} :
          /\ \A b \in AttemptsOnRecord \cup {cadence.attempts} : b <= a
          /\ a < MaxAttempt
          /\ exec' = [exec EXCEPT ![f].pc = "check", ![f].attempt = a + 1]
    /\ UNCHANGED <<today, faults, queueVars, callVars, cadence, handler, poll>>

(***************************************************************************)
(* placeCall, and what its caller does when it throws.                     *)
(***************************************************************************)
Finished(e) == [exec EXCEPT ![e] = IdleExec]

\* The caller's catch: both give the claim back, then the drain, and the
\* worker's "failed" listener on the last attempt, drop the queue membership.
Throws(e) ==
    /\ rows' = Reverted(exec[e].row)
    /\ exec' = IF e \in Forcer THEN Finished(e)
               ELSE [exec EXCEPT ![e].pc = "cleanup"]

CheckTerminal(e) ==
    /\ exec[e].pc = "check"
    /\ cadence.terminal
    /\ Throws(e)
    /\ UNCHANGED <<today, faults, jobs, callVars, cadence, handler, poll>>

\* The enroll tag is gone.  placeCall cancels the pending rows, the worker then
\* puts its own claim back; the drain treats it as any other error.
CheckUnenrolled(e) ==
    /\ exec[e].pc = "check"
    /\ e \notin Forcer
    /\ ~cadence.terminal
    /\ rows' = [r \in RowId |->
                  IF r \in Pending THEN NoRow("deleted")
                  ELSE Reverted(exec[e].row)[r]]
    /\ exec' = IF e \in Worker THEN Finished(e)
               ELSE [exec EXCEPT ![e].pc = "cleanup"]
    /\ UNCHANGED <<today, faults, jobs, callVars, cadence, handler, poll>>

\* Outside the call window: the claim is given back, the job is re-added.
CheckWindowClosed(e) ==
    /\ exec[e].pc = "check"
    /\ e \notin Forcer
    /\ ~cadence.terminal
    /\ rows' = Reverted(exec[e].row)
    /\ exec' = Finished(e)
    /\ UNCHANGED <<today, faults, jobs, callVars, cadence, handler, poll>>

AlreadyDialed(e) ==
    \E c \in ActiveCalls(exec[e].attempt, exec[e].phone) :
        calls[c].retell /\ calls[c].status # "queued"

\* Idempotency: the earlier dial is returned and the row stays as claimed.
CheckDuplicate(e) ==
    /\ exec[e].pc = "check"
    /\ ~cadence.terminal
    /\ AlreadyDialed(e)
    /\ exec' = Finished(e)
    /\ UNCHANGED <<today, faults, queueVars, callVars, cadence, handler, poll>>

CheckPasses(e) ==
    /\ exec[e].pc = "check"
    /\ ~cadence.terminal
    /\ ~AlreadyDialed(e)
    /\ exec' = [exec EXCEPT ![e].pc = "record"]
    /\ UNCHANGED <<today, faults, queueVars, callVars, cadence, handler, poll>>

Phones(e) == IF e \in Forcer THEN 1 ELSE PhoneCount

QueuedCall(e) == [status |-> "queued", attempt |-> exec[e].attempt,
                  phone |-> exec[e].phone, phones |-> Phones(e),
                  retell |-> FALSE, outcome |-> None]

\* Insert the calls row before dialing ...
RecordNew(e) ==
    /\ exec[e].pc = "record"
    /\ ActiveCalls(exec[e].attempt, exec[e].phone) = {}
    /\ \E c \in CallId :
          /\ calls[c].status = "unused"
          /\ calls' = [calls EXCEPT ![c] = QueuedCall(e)]
          /\ exec' = [exec EXCEPT ![e].pc = "dial", ![e].call = c]
    /\ UNCHANGED <<today, faults, queueVars, rings, lost, cadence, handler, poll>>

\* ... or reuse a queued row: an orphan, or the row that won the unique index.
RecordReuse(e) ==
    /\ exec[e].pc = "record"
    /\ \E c \in ActiveCalls(exec[e].attempt, exec[e].phone) :
          /\ calls[c].status = "queued"
          /\ exec' = [exec EXCEPT ![e].pc = "dial", ![e].call = c]
    /\ UNCHANGED <<today, faults, queueVars, callVars, cadence, handler, poll>>

\* The index holds a row that is no longer queued: return it if it reached
\* Retell, otherwise throw.
RecordConflict(e) ==
    /\ exec[e].pc = "record"
    /\ \E c \in ActiveCalls(exec[e].attempt, exec[e].phone) :
          /\ calls[c].status # "queued"
          /\ IF calls[c].retell
             THEN exec' = Finished(e) /\ UNCHANGED rows
             ELSE Throws(e)
    /\ UNCHANGED <<today, faults, jobs, callVars, cadence, handler, poll>>

\* retell.createPhoneCall.
RetellAccepts(e) ==
    /\ exec[e].pc = "dial"
    /\ rings' = [rings EXCEPT ![exec[e].call] = @ + 1]
    /\ exec' = [exec EXCEPT ![e].pc = "link", ![e].day = today]
    /\ UNCHANGED <<today, faults, queueVars, calls, lost, cadence, handler, poll>>

RetellRejects(e) ==
    /\ exec[e].pc = "dial"
    /\ Fault("retell_rejects")
    /\ Throws(e)
    /\ UNCHANGED <<today, jobs, callVars, cadence, handler, poll>>

\* Retell places the call but the answer does not come back.
RetellAnswerLost(e) ==
    /\ exec[e].pc = "dial"
    /\ Fault("answer_lost")
    /\ rings' = [rings EXCEPT ![exec[e].call] = @ + 1]
    /\ lost' = [lost EXCEPT ![exec[e].call] = @ + 1]
    /\ Throws(e)
    /\ UNCHANGED <<today, jobs, calls, cadence, handler, poll>>

\* calls.retell_call_id, status dialing; a refused update goes unnoticed.
LinkCall(e) ==
    /\ exec[e].pc = "link"
    /\ LET c == exec[e].call
       IN IF MayBecomeActive(c)
          THEN /\ calls' = [calls EXCEPT ![c].status = "dialing",
                                         ![c].retell = TRUE]
               /\ UNCHANGED lost
          ELSE /\ lost' = [lost EXCEPT ![c] = @ + 1]
               /\ UNCHANGED calls
    /\ exec' = [exec EXCEPT ![e].pc = "mark"]
    /\ UNCHANGED <<today, faults, queueVars, rings, cadence, handler, poll>>

MarkQueue(e) ==
    /\ exec[e].pc = "mark"
    /\ rows' = MarkedDialing(exec[e].day, exec[e].call)
    /\ exec' = IF exec[e].phone = 0 THEN [exec EXCEPT ![e].pc = "stamp"]
               ELSE Finished(e)
    /\ UNCHANGED <<today, faults, jobs, callVars, cadence, handler, poll>>

\* updateAgentContactState, on the first phone of an attempt only.
StampCadence(e) ==
    /\ exec[e].pc = "stamp"
    /\ cadence' = [cadence EXCEPT !.attempts = exec[e].attempt,
                                  !.last = exec[e].day]
    /\ exec' = Finished(e)
    /\ UNCHANGED <<today, faults, queueVars, callVars, handler, poll>>

StampFails(e) ==
    /\ exec[e].pc = "stamp"
    /\ Fault("stamp_error")
    /\ Throws(e)
    /\ UNCHANGED <<today, jobs, callVars, cadence, handler, poll>>

\* Another BullMQ attempt is left: the row is pending again, the job returns.
RetryLater(w) ==
    /\ exec[w].pc = "cleanup"
    /\ exec' = Finished(w)
    /\ UNCHANGED <<today, faults, queueVars, callVars, cadence, handler, poll>>

\* The final failure.  failQueueEntry deletes every active row of the contact;
\* the worker also fails the queued calls row of this attempt and phone.
GiveUp(e) ==
    /\ exec[e].pc = "cleanup"
    /\ rows' = FailQueueEntry
    /\ calls' = [c \in CallId |->
                   IF /\ e \in Worker
                      /\ c \in ActiveCalls(exec[e].attempt, exec[e].phone)
                      /\ calls[c].status = "queued"
                   THEN [calls[c] EXCEPT !.status = "failed"]
                   ELSE calls[c]]
    /\ exec' = Finished(e)
    /\ UNCHANGED <<today, faults, jobs, rings, lost, cadence, handler, poll>>

\* The process dies.  An accepted dial not yet written to calls is lost.
Crash(e) ==
    /\ exec[e].pc # "idle"
    /\ Fault("crash")
    /\ exec' = Finished(e)
    /\ IF exec[e].pc = "link"
       THEN lost' = [lost EXCEPT ![exec[e].call] = @ + 1]
       ELSE UNCHANGED lost
    /\ UNCHANGED <<today, queueVars, calls, rings, cadence, handler, poll>>

(***************************************************************************)
(* processRetellWebhook, called by the webhook route and by the stuck-call *)
(* reconciler.  The claim on outcome_claimed_at is held while a handler    *)
(* works on the call; one left behind by a crash expires.                  *)
(***************************************************************************)
InPlaceCall(c) == \E e \in Executor : exec[e].call = c

ClaimOutcome(h, c, o) ==
    /\ handler[h].pc = "idle"
    /\ rings[c] > 0
    /\ calls[c].status # "completed"
    /\ \A g \in Handler : handler[g].call # c
    /\ "early_webhook" \in Faults \/ ~InPlaceCall(c)
    /\ handler' = [handler EXCEPT ![h] = [pc |-> "claimed", call |-> c,
                                          entry |-> None, outcome |-> o]]
    /\ UNCHANGED <<today, faults, queueVars, callVars, cadence, exec, poll>>

RowOfCall(c) == {r \in RowId : rows[r].call = c}

\* The look-up asks for at most one row; two of them count as none.
EntryOfCall(c) == IF Cardinality(RowOfCall(c)) = 1 THEN RowOfCall(c) ELSE {None}

\* [slip] any outcome goes on to the next number.
ContinuesAlways(h) ==
    calls[handler[h].call].phone + 1 < calls[handler[h].call].phones

\* shouldContinueToNextPhone.
Continues(h) ==
    /\ handler[h].outcome = "no_answer"
    /\ calls[handler[h].call].phone + 1 < calls[handler[h].call].phones

\* The CRM note is logged, the queue entry looked up by call id and the calls
\* row completed; then the attempt either goes on or ends.
PersistOutcome(h) ==
    /\ handler[h].pc = "claimed"
    /\ LET c == handler[h].call
       IN /\ calls' = IF MayBecomeActive(c)
                      THEN [calls EXCEPT ![c].status = "completed",
                                         ![c].outcome = handler[h].outcome]
                      ELSE calls
          /\ \E entry \in EntryOfCall(c) :
                handler' = [handler EXCEPT
                    ![h].entry = entry,
                    ![h].pc = IF Continues(h) /\ entry # None THEN "chain"
                              ELSE "cadence"]
    /\ UNCHANGED <<today, faults, queueVars, rings, lost, cadence, exec, poll>>

\* [slip] the row keeps the link to the call that just ended.
ChainKeepsCall(h) ==
    /\ handler[h].pc = "chain"
    /\ LET r == handler[h].entry
           next == calls[handler[h].call].phone + 1
       IN /\ r \in Live
          /\ rows' = [rows EXCEPT ![r].status = "pending", ![r].phone = next]
          /\ jobs' = jobs \cup {[row |-> r, attempt |-> rows[r].attempt,
                                 phone |-> next]}
    /\ handler' = [handler EXCEPT ![h] = IdleHandler]
    /\ UNCHANGED <<today, faults, callVars, cadence, exec, poll>>

\* chainNextPhoneDial: the row goes back to pending for the next number, by id
\* and whatever its status, and a job for that number is added.
ChainNextPhone(h) ==
    /\ handler[h].pc = "chain"
    /\ LET r == handler[h].entry
           next == calls[handler[h].call].phone + 1
       IN IF r \in Live
          THEN /\ rows' = [rows EXCEPT ![r].status = "pending",
                                       ![r].call = None, ![r].phone = next]
               /\ jobs' = jobs \cup {[row |-> r, attempt |-> rows[r].attempt,
                                      phone |-> next]}
          ELSE UNCHANGED queueVars
    /\ handler' = [handler EXCEPT ![h] = IdleHandler]
    /\ UNCHANGED <<today, faults, callVars, cadence, exec, poll>>

\* [slip] a contact that answered starts over.
AdvanceResetsAttempts(h) ==
    /\ handler[h].pc = "cadence"
    /\ cadence' = [cadence EXCEPT
          !.attempts = IF handler[h].outcome = "answered" THEN 0 ELSE @,
          !.next = today + Gap]
    /\ handler' = [handler EXCEPT ![h].pc = "complete"]
    /\ UNCHANGED <<today, faults, queueVars, callVars, exec, poll>>

\* [slip] an outcome without a queue row is taken for one already applied.
AdvanceWithEntry(h) ==
    /\ handler[h].pc = "cadence"
    /\ LET final == handler[h].outcome = "terminal"
       IN cadence' = IF handler[h].entry = None THEN cadence
                     ELSE [cadence EXCEPT !.terminal = final,
                                          !.next = IF final THEN 0 ELSE today + Gap]
    /\ handler' = [handler EXCEPT ![h].pc = "complete"]
    /\ UNCHANGED <<today, faults, queueVars, callVars, exec, poll>>

\* The attempt is over: terminal flag and next eligible day, whatever they were.
AdvanceCadence(h) ==
    /\ handler[h].pc = "cadence"
    /\ LET final == handler[h].outcome = "terminal"
       IN cadence' = [cadence EXCEPT !.terminal = final,
                                     !.next = IF final THEN 0 ELSE today + Gap]
    /\ handler' = [handler EXCEPT ![h].pc = "complete"]
    /\ UNCHANGED <<today, faults, queueVars, callVars, exec, poll>>

CompleteQueueEntry(h) ==
    /\ handler[h].pc = "complete"
    /\ rows' = Without(RowOfCall(handler[h].call))
    /\ handler' = [handler EXCEPT ![h] = IdleHandler]
    /\ UNCHANGED <<today, faults, jobs, callVars, cadence, exec, poll>>

\* [slip] the claim a crash left behind never expires.
CrashKeepsClaim(h) ==
    /\ handler[h].pc # "idle"
    /\ Fault("handler_crash")
    /\ handler' = [handler EXCEPT ![h].pc = "idle"]
    /\ UNCHANGED <<today, queueVars, callVars, cadence, exec, poll>>

HandlerCrash(h) ==
    /\ handler[h].pc # "idle"
    /\ Fault("handler_crash")
    /\ handler' = [handler EXCEPT ![h] = IdleHandler]
    /\ UNCHANGED <<today, queueVars, callVars, cadence, exec, poll>>

(***************************************************************************)
(* The repairs.                                                            *)
(***************************************************************************)
\* [slip] the sweep joins calls and misses rows that never got one.
DropZombieWithCall(r) ==
    /\ rows[r].status = "dialing"
    /\ rows[r].call # None
    /\ calls[rows[r].call].status \notin {"queued", "dialing"}
    /\ rows' = Without({r})
    /\ UNCHANGED <<today, faults, jobs, callVars, cadence, exec, handler, poll>>

\* [slip] the sweep does not look at the age of the claim.
DropZombieAnyAge(r) ==
    /\ rows[r].status = "dialing"
    /\ rows[r].call # None =>
          calls[rows[r].call].status \notin {"queued", "dialing"}
    /\ rows' = Without({r})
    /\ UNCHANGED <<today, faults, jobs, callVars, cadence, exec, handler, poll>>

\* reconcileZombieDialingRows: dialing for four hours with no call in flight.
\* Nobody spends four hours inside placeCall, and the outcome of the row's call
\* is not being processed just then.
DropZombie(r) ==
    /\ rows[r].status = "dialing"
    /\ \A e \in Executor : exec[e].row # r
    /\ \A h \in Handler : handler[h].pc = "idle"
    /\ rows[r].call # None =>
          calls[rows[r].call].status \notin {"queued", "dialing"}
    /\ rows' = Without({r})
    /\ UNCHANGED <<today, faults, jobs, callVars, cadence, exec, handler, poll>>

\* resyncCallQueue: a due pending row gets a job with its current target.
SweepRow(r) ==
    /\ r \in Pending
    /\ ~cadence.terminal
    /\ ~(cadence.last = today /\ rows[r].phone = 0)
    /\ jobs' = jobs \cup {[row |-> r, attempt |-> rows[r].attempt,
                           phone |-> rows[r].phone]}
    /\ UNCHANGED <<today, faults, rows, callVars, cadence, exec, handler, poll>>

(***************************************************************************)
(* The next-state relation.                                                *)
(***************************************************************************)
PollStep(p) ==
    \/ PollReadState(p) \/ PollReadQueue(p) \/ ManualReadState(p)
    \/ EnqueueLookup(p) \/ EnqueueRow(p) \/ EnqueueJob(p) \/ ManualRollback(p)

PlaceCallStep(e) ==
    \/ CheckTerminal(e) \/ CheckUnenrolled(e) \/ CheckWindowClosed(e)
    \/ CheckDuplicate(e) \/ CheckPasses(e)
    \/ RecordNew(e) \/ RecordReuse(e) \/ RecordConflict(e)
    \/ RetellAccepts(e) \/ RetellRejects(e) \/ RetellAnswerLost(e)
    \/ LinkCall(e) \/ MarkQueue(e) \/ StampCadence(e) \/ StampFails(e)
    \/ GiveUp(e)

StartStep ==
    \/ \E w \in Worker, j \in jobs : WorkerClaim(w, j)
    \/ \E w \in Worker : RetryLater(w)
    \/ \E d \in Drain, r \in RowId : DrainScan(d, r)
    \/ \E d \in Drain : DrainClaim(d) \/ DrainSkip(d)
    \/ \E f \in Forcer : ForcedStart(f) \/ ForcedNumber(f)

OutcomeStep(h) ==
    \/ PersistOutcome(h) \/ ChainNextPhone(h) \/ AdvanceCadence(h)
    \/ CompleteQueueEntry(h)

Next ==
    \/ NextDay
    \/ PollDropsUnenrolled
    \/ \E p \in Poller : PollStep(p)
    \/ StartStep
    \/ \E e \in Executor : PlaceCallStep(e) \/ Crash(e)
    \/ \E h \in Handler, c \in CallId, o \in Outcome : ClaimOutcome(h, c, o)
    \/ \E h \in Handler : OutcomeStep(h) \/ HandlerCrash(h)
    \/ \E r \in RowId : DropZombie(r) \/ SweepRow(r)

Spec == Init /\ [][Next]_vars

(***************************************************************************)
(* What the dial path promises.                                            *)
(***************************************************************************)
\* Inside placeCall, up to and including the call that marks the queue.
DialPC == {"check", "record", "dial", "link", "mark"}
Dialer == {e \in Executor : exec[e].pc \in DialPC}

\* However the scheduler, the sweeper, the drain, retries and redelivered jobs
\* interleave, one executor at a time is inside placeCall for a contact
\* (claimQueueEntryById, call-queue.ts).
OneDialAtATime == \A d, e \in Dialer : d = e

\* The row an executor claimed stays there, claimed and linked to no call, until
\* that executor lets go of it: no failQueueEntry, zombie sweep, poll or
\* completion of another actor takes it away (drain.ts, call.worker.ts).
ClaimIsKept ==
    \A e \in Dialer : exec[e].row # None =>
        /\ rows[exec[e].row].status = "dialing"
        /\ rows[exec[e].row].call = None

\* Retell is asked a second time for the same number of the same attempt only
\* if the answers to all earlier requests never reached the calls table
\* (idempotency guard and orphan reuse in placeCall).
RedialOnlyAfterLostAnswer ==
    [][\A c, d \in CallId :
          /\ rings'[c] > rings[c]
          /\ calls[d].attempt = calls[c].attempt
          /\ calls[d].phone = calls[c].phone
          => rings[d] = lost[d]]_vars

\* The next number of an attempt rings only after the one before it was rung
\* and ended without an answer (chainNextPhoneDial).
PhoneOrder ==
    [][\A c \in CallId : rings'[c] > rings[c] /\ calls[c].phone > 0 =>
          \E d \in CallId : /\ calls[d].attempt = calls[c].attempt
                            /\ calls[d].phone + 1 = calls[c].phone
                            /\ calls[d].outcome = "no_answer"]_vars

\* No new attempt starts on the day the last one was stamped: the
\* last_called_on guards see every dial of today however late they are read.
NoSecondAttemptSameDay ==
    [][\A c \in CallId :
          /\ rings'[c] > rings[c]
          /\ calls[c].attempt > cadence.attempts
          => cadence.last # today]_vars

\* attempt_count never goes back.
AttemptsNeverDecrease == [][cadence'.attempts >= cadence.attempts]_vars

\* A forced dial rings: its attempt number is not one whose dial is on record, or
\* placeCall would return that dial and report success without ringing anyone
\* (nextForcedAttemptNumber).
ForcedDialRings ==
    \A f \in Forcer : exec[f].pc = "check" => ~AlreadyDialed(f)

(***************************************************************************)
(* Why one executor at a time is enough: the inductive invariant.          *)
(***************************************************************************)
\* The dial path as the scheduled engine runs it: polls of an agent follow each
\* other, nobody forces dials or queues them by hand, the write of the cadence
\* state succeeds, and a failing executor's cleanup is over before its row is
\* claimed again.
ScheduledOnly ==
    /\ Forcer = {}
    /\ ~ManualQueue
    /\ \A p, q \in Poller : p = q
    /\ "stamp_error" \notin Faults
    /\ "slow_cleanup" \notin Faults

\* References held across steps point to something.
Linked ==
    /\ \A p \in Poller : poll[p].pc = "push" => poll[p].row \in RowId
    /\ \A h \in Handler : handler[h].pc # "idle" => handler[h].call \in CallId

\* The contact has one active row, and none while a poll is about to insert one.
OneLiveRow ==
    /\ \A r, s \in Live : r = s
    /\ \A p \in Poller : poll[p].pc \in {"lookup", "write"} => Live = {}
    /\ \A p \in Poller : poll[p].pc = "write" => poll[p].row = None

\* Only one executor is dialing or cleaning up after a dial that failed.
OneExecutor ==
    \A d, e \in Executor : /\ exec[d].pc \in DialPC \cup {"cleanup"}
                           /\ exec[e].pc \in DialPC \cup {"cleanup"}
                           => d = e

\* A dialing executor has claimed a row that is linked to no call; only rows in
\* status dialing are linked to one.
ClaimsAreUnlinked ==
    /\ \A e \in Dialer : /\ exec[e].row \in RowId
                         /\ rows[exec[e].row].status = "dialing"
                         /\ rows[exec[e].row].call = None
    /\ \A r \in RowId : rows[r].call # None => rows[r].status = "dialing"

\* An outcome processor about to chain works on a row linked to its own call,
\* and no other processor works on that call.
ChainsAreLinked ==
    /\ \A h \in Handler : handler[h].pc = "chain" =>
          /\ handler[h].entry \in RowId
          /\ rows[handler[h].entry].status # "unused"
          /\ handler[h].entry \in Live =>
                rows[handler[h].entry].call = handler[h].call
    /\ \A g, h \in Handler :
          /\ handler[g].pc # "idle"
          /\ handler[h].pc # "idle"
          /\ handler[g].call = handler[h].call
          => g = h

\* The conjunction is preserved by every step of the scheduled engine.
DialInv ==
    /\ Linked
    /\ OneLiveRow
    /\ OneExecutor
    /\ ClaimsAreUnlinked
    /\ ChainsAreLinked

(***************************************************************************)
(* Progress.                                                               *)
(***************************************************************************)
Fairness ==
    /\ \A p \in Poller : WF_vars(PollStep(p) /\ poll[p].pc # "idle")
    /\ \A e \in Executor : WF_vars(PlaceCallStep(e))
    /\ \A d \in Drain : WF_vars(DrainSkip(d))
    /\ \A h \in Handler : WF_vars(OutcomeStep(h))
    /\ \A c \in CallId :
          WF_vars(/\ calls[c].status = "dialing"
                  /\ \E h \in Handler, o \in Outcome : ClaimOutcome(h, c, o))
    /\ \A r \in RowId : WF_vars(DropZombie(r))

FairSpec == Spec /\ Fairness

\* No row is stuck in dialing: the outcome, the executor or the zombie sweep
\* takes it out (reconcileZombieDialingRows, reconcileStuckCalls).
DialingRowResolves ==
    \A r \in RowId : rows[r].status = "dialing" ~> rows[r].status # "dialing"

\* Every dial on record ends with an outcome (reconcileStuckCalls).
DialedCallCompletes ==
    \A c \in CallId : calls[c].status = "dialing" ~> calls[c].status = "completed"

\* A terminal outcome reaches the contact's cadence state, whether or not its
\* call still has a queue row and whatever happened to the dial, unless
\* something fails while it is processed (processRetellWebhook).
TerminalOutcomeApplied ==
    \A h \in Handler, n \in 0..MaxFaults :
        (handler[h].outcome = "terminal" /\ faults = n) ~> (cadence.terminal \/ faults > n)
=============================================================================
