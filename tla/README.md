# Verification of the UpSurge dial engine

UpSurge places outbound AI voice calls for agents working a CRM. This directory
holds TLA+ models of the engine that decides who is called, when and how often,
of what happens after a call, and of what keeps the engine going when parts of
it are down; TLC runs that check the models on small instances; and TLAPS proofs
of what matters most. Paths below are relative to the repository root (`src/` in
`PROJECT.json` is that root, so the engine is under `src/src/lib/engine`).

## 1. The system

| Component | State it keeps | Operations | Talks to |
|---|---|---|---|
| Poll (`engine/poller.ts`, `poller-sync.ts`, `zero-crm-scan-guard.ts`, `enqueue-dial.ts`) | `contacts.tags`, `poll_runs` | scan CRM, guard, merge and strip tags, cancel rows, filter by cadence, count capacity, insert rows, push dial jobs | CRM, cadence, queue, Redis |
| Dial queue (`engine/call-queue.ts`, table `call_queue_entries`) | a row per agent, contact and day: status, attempt, phone index, call | upsert, claim (CAS pending to dialing), revert, mark dialing, next phone, complete, fail, cancel, zombie sweep | everybody below |
| Call worker (`queue/workers/call.worker.ts`) | BullMQ jobs | claim the row, `placeCall`, defer outside the window, retry, final failure | queue, Retell |
| Failover drain (`engine/drain.ts`, cron `drain-queue`) | none; reads the queue from Postgres | decide whether to run, scan due rows, budget, claim, `placeCall` | queue, Retell, heartbeat |
| `placeCall`, Call now, trigger-call (`engine/caller.ts`) | `calls` | guards, idempotency, insert, Retell request, link, mark queue, stamp cadence | Retell, queue, cadence |
| Outcome processing (`engine/process-outcome.ts`) | `calls.outcome_claimed_at` | claim with a lease, CRM write-back, complete call, chain or end the attempt | CRM, cadence, queue, automations |
| Inbound calls (`engine/process-inbound.ts`, `reconcile-inbound.ts`) | `calls` of inbound agents | claim, find or create the contact, notes, automations | CRM, automations |
| Stuck-call reconciler (`reconcile.ts`) | none | fetch the call from Retell and run outcome processing | Retell |
| Post-call automations (`engine/automations`, `automation.worker.ts`) | `automation_runs`, BullMQ jobs | evaluate triggers, deliver, retry, drain | HTTP endpoints |
| Multi-number attempts (`chain-next-phone.ts`, `multi-phone.ts`) | phone index of the row | next phone, stop rules | queue, Redis |
| Cadence (`cadence.ts`, `agent-contact-state.ts`) | `agent_contact_states` | eligibility, next date, windows, slots, capacity | all |
| Queue sweep and rescheduling (`queue/sweeper.ts`, `reschedule.ts`) | none | rebuild jobs of pending rows, new slots after an edit, zombies | queue, Redis |
| Scheduler, poll worker, poll fallback | poll jobs per 30 s bucket, `poll_runs` | start polls, time them out, poll instead of a dead worker | Redis, heartbeat |
| Heartbeat and watchdogs | `engine_heartbeat` | write liveness with backoff, decide staleness and stalls | drain, fallback |
| HighLevel tokens (`crm/highlevel.ts`, `crm/index.ts`) | `crm_credentials_encrypted`, `crm_status`, `refreshLocks` | refresh, adopt, persist, flag, reconnect | HighLevel |
| Other CRM adapters, Retell client, memory, provisioning, reporting, UI | own tables | CRUD, HTTP, presentation | external |

Three hosts run this: the worker (timers and BullMQ), the Next.js routes on
Vercel (crons, webhooks, console), and the external services. They share
Postgres and, when it is up, Redis. The hard behaviour:

- Around one row of `call_queue_entries`: the worker, a redelivered job, the
  drain and a forced dial may claim it or ignore it. Each spends several
  database and HTTP calls inside `placeCall` and may die at each, while the
  outcome processor, sweeps, polls and failure handlers change rows of the same
  contact. Nobody must be rung twice for one attempt; numbers go in order; no
  second attempt on a day; a claimed row stays with its owner; nothing stays in
  dialing for ever.
- Around one ended call: webhook redeliveries and two reconcilers process it,
  under a lease of five minutes that may run out; automations are evaluated
  again after a crash, retried by BullMQ and by a drain.
- Around one agent: its polls, whichever of five parties starts them, its daily
  cap counted while others dial, its window arithmetic, its enroll tags mirrored
  from the CRM, and its rotating OAuth token.
- Around the engine: Redis, the worker or its timers may be down; two crons have
  to take over, and keep out of the way otherwise.

The full list of hazards, with their lines and the properties that cover them,
is in `PROJECT.json`.

## 2. The modules

| Module | Models | Run |
|---|---|---|
| `DialQueue` | the dial path of one (agent, contact) pair | `poll_dial`, `call_now`, `progress` |
| `Enrollment` | who is enrolled: CRM scan, local tags, queue, write-backs | `enrollment` |
| `Delivery` | abstract: an item is attempted until it succeeds or a limit is reached | |
| `AutomationRuns` | automation runs and their jobs; implements `Delivery` | `automations` |
| `CallProcessing` | one ended call and its processors; extends `AutomationRuns` | `post_call` |
| `Heartbeat` | heartbeat, its backoff, Redis and worker failures; shared by the next two | |
| `PollCoverage` | who polls an agent; extends `Heartbeat` | `poll_coverage` |
| `DialDelivery` | how a due row gets to a dial; extends `Heartbeat` | `dial_delivery` |
| `Cadence` | windows, slots, capacities and dates of `cadence.ts` as operators | |
| `DialClock` | one contact's slots, deferrals and attempts; extends `Cadence` | `dial_clock` |
| `DialCapacity` | the daily cap over several contacts | `dial_capacity` |
| `CrmTokens` | refresh of a rotating token pair | `crm_tokens`, `stale_token` |

Each `MC...` module is the instance of its module for TLC. The proofs about a
module are in the module of its name with `Proofs`: there is one for `DialQueue`,
`Enrollment`, `AutomationRuns` (which covers `CallProcessing` too), `PollCoverage`,
`DialDelivery`, `DialClock` (which covers `Cadence`), `DialCapacity` and `CrmTokens`.

The models divide the system by question, and say so where one leaves a part to another: `DialQueue` has every step of a dial and lets jobs arrive at
any time; `DialDelivery` and `DialClock` have the times and take a dial as one
step; `DialCapacity` has the counts; `Enrollment` has the tags.

Operators marked `[slip]` are deliberate faults. No specification uses them:
each stands before the operator it would replace, and shows which property
notices that change of the code.

## 3. The models

### 3.1 DialQueue: one dial

Every query on the path filters by agent and contact, or by row id, so one pair
is modelled. The state:

| Variable | Code |
|---|---|
| `today` | the local date of the workspace (`todayInTz`) |
| `rows` | `call_queue_entries`: status, queue_day, attempt_number, next_phone_index, call_id; `unused` is not yet inserted, `deleted` is gone |
| `jobs` | every dial job ever given to BullMQ |
| `calls` | `calls`: status, attempt, phone index, whether `retell_call_id` is set, outcome |
| `rings`, `lost` | history: how often Retell accepted a dial for a calls row, and how many of these acceptances never reached the row |
| `cadence` | `agent_contact_states`: attempt_count, last_called_on, next_eligible_on, is_terminal |
| `exec` | where each worker slot, drain run and forced dial stands in `placeCall` or around it, with what it has read |
| `handler` | where each `processRetellWebhook` stands, and the call it has claimed |
| `poll` | where each poll or manual enqueue stands, and what it has read |

One action is the code between two points where another process can interleave,
that is one database or HTTP call and the code up to the next. `exec.pc` follows
`placeCall`: `check` (terminal, enrolment, window, idempotency), `record`
(insert or reuse the calls row), `dial` (Retell), `link` (store the Retell id),
`mark` (markQueueDialing), `stamp` (cadence state); `number` is
`nextForcedAttemptNumber`, `scanned` a row in the drain's copy, `cleanup` the
caller's failure handling after it has given the claim back.

Redis is a message layer without promises: a job in `jobs` may be delivered
at any time, late, twice or never. This covers delays, BullMQ attempts, stalled
jobs, evicted sets and best-effort removals, so they need no actions of their
own. What must hold then holds whatever Redis does.

Abstractions:

- `scheduled_for`, queue positions, drip spacing and the call window are left
  out: a pending row may be due and the window open or closed at any time
  (`CheckWindowClosed` gives the claim back; the job it re-adds is already in
  `jobs`).
- `MaxAttempt` also bounds forced and manual attempts, and `LastDay` the
  calendar; the code has no such cap on forced dials. `Gap` is one gap instead of the list
  `cadence_day_gaps`.
- `AdvanceCadence` reads the date in the step that writes the cadence state; the
  code reads it when processing starts.
- The two reads of `nextForcedAttemptNumber`, the Redis and Postgres halves of
  `cancelPendingDials`, and the look-ups of the zombie sweep are one action
  each.
- `SweepRow` takes the target from the row, the code from a copy read earlier in
  the sweep: a job for an older target is already in `jobs`, where the poll or
  the chain put it, and may be delivered again. `PollDropsUnenrolled` is the
  final conditional delete; the list read before it only narrows what it deletes.
- Forced dials run with `testMode`, which skips enrolment and window guards.
  The time window in which trigger-call refuses a repeated request is not
  modelled.
- CRM notes, tags, tasks, automations and memory are steps of the outcome
  processor without effect on this state (`CallProcessing`, `Enrollment`). The
  update that completes the calls row does not fail here; that it may fail without
  anybody noticing is in `CallProcessing`.
- The lease on an outcome claim ends only with a crash of its holder
  (`HandlerCrash`); expiry under a working processor is in `CallProcessing`.

Assumptions:

- `ScheduledOnly`: one poll of an agent at a time, no forced dials, no manual
  enqueues, and a cadence stamp that does not fail. The first is NOT enforced by
  the code: `poll.worker.ts` runs two jobs at once and nothing stops two of one
  agent (section 6). Manual enqueues likewise overwrite a
  row in dialing (`call-queue.ts:40-57`): with `ManualQueue = TRUE` and two numbers
  `PhoneOrder` fails.
- `CleanupIsPrompt`: between an executor's revert of its claim and the deletion
  of the contact's rows that follows, nobody claims the row. It is the round
  trip of two statements. With the fault `slow_cleanup` the assumption is
  lifted and `ClaimIsKept` fails: the deletion takes the row of the new owner.
- `DropZombie` acts on rows four hours old. Nobody spends four hours in
  `placeCall`, so no executor holds the row then, and no outcome is being
  processed at that moment.

Faults are injected at most `MaxFaults` times, of the kinds in `Faults`:
Retell rejects; Retell rings but the answer is lost; the cadence stamp fails; an
executor dies at any point; an outcome processor dies at any point; the webhook
arrives while `placeCall` is still linking the call; cleanup is slow.

### 3.2 Enrollment: who may be dialed

The CRM decides who is enrolled; `contacts.tags` is a copy that the poll keeps
in line and that `placeCall` trusts.

| Variable | Code |
|---|---|
| `crm` | contacts with the enroll tag in the CRM (external) |
| `tagged` | `contacts.tags` contains the tag |
| `row` | the contact's active row: none, pending, next (pending with a further number), dialing |
| `cadence` | `agent_contact_states`: due, called, terminal |
| `stamping` | contacts whose `placeCall` has read the tags and has yet to write them back |
| `poll` | where `pollAgent` stands: scan, ids saved, eligible contacts, strip offset |
| `outcome` | the contact `processRetellWebhook` works on, and whether its tags as read had the tag |
| `gone` | history: contacts a finished poll found unenrolled |

`ScanCrm`, `CheckScan` (`shouldGuardCrmScan`), `MergeContacts`, `StripPage`,
`CancelStale` and `EnqueueEligible` are the steps of a poll; a scan may be
incomplete, the upsert may fail unnoticed, the poll may abort. Three parties write
tags back as they were read: `StampDialed` is the end of `placeCall`, which adds the
day's tag to the list it read at its start (`caller.ts:140`, `362-366`); `EndAttempt`
and `EndOther` are outcome processing, `EndOther` for a call of another
agent that shares the contact. `Remembered` is the set of contacts whose enroll tag
one of them holds.

One poll at a time, room for all, a stable order of database pages, a cancel of
one step, no test-mode dials. `placeCall` is two steps, its look at the contact
with the dial, and the write-back of the tags; what lies between is in `DialQueue`.
Test-mode dials are left out
(they skip the enrollment check). The only tag edits in the CRM are its users':
the engine only adds outcome tags there.

`UnenrolledIsNotDialed` is exempt where the code cannot keep it: a `placeCall` or a
processor that read the tag earlier may write it back, and a strip of more than one page
skips rows (section 6). Both liveness properties are exempt while the scan
guard stays shut (`Held`), which only an operator ends.

### 3.3 AutomationRuns and Delivery: post-call automations

| Variable | Code |
|---|---|
| `runs` | `automation_runs`: status, attempts, trigger, call |
| `job` | the BullMQ job under the id of the run: absent, waiting, active, finished and kept; failed attempts; stalled once; which slot holds its lock |
| `eval` | where each `evaluateAutomations` stands |
| `exec` | where each `executeAutomationRun` stands, with the attempts it read |
| `posts`, `disturbed` | history: accepted deliveries; failures that hid or repeated one |

One action per database, Redis or HTTP call. A run may have more attempts than its
job (`MaxAttempts` above `JobAttempts`). Nine kinds of fault: Redis down while queueing,
a failed insert, claim or result write, a failed look-up for a duplicate (taken
for no duplicate), a lost answer, a death of the evaluator
or executor, a stalled job whose slot lives on. BullMQ is modelled from its
documentation of stalled jobs and from `queues.ts`: an add under a kept id is a
no-op, a stalled job is delivered once more.

`ImplementsDelivery` is the refinement: a run's `phase` is its status seen from
outside, its `tries` its attempts, and every behaviour of the engine is one of
`Delivery`, with the fairness of `Delivery` implied by the engine's. `Delivery` owes
an attempt to an item that is due, and none to one that is stuck. A run is stuck
while a finished job is kept under its id, because each later add is then a no-op:
a claim or a result whose write failed unnoticed (`execute.ts:37-44`, `88-119`), a
slot that died or stalled twice, or a job that has had all its attempts leaves it so
(`Mislay`) until BullMQ removes the job (`Find`). An attempt begun before may still
end. So the engine promises attempts except behind a kept job, and
`FinishedJobIsSettled` says what it takes to get one.

### 3.4 CallProcessing: one ended call

| Variable | Code |
|---|---|
| `setting` | outbound, test, inbound or legacy (inbound for Follow Up Boss); whether the outcome ends the attempt; whether the caller gave another number |
| `analyzed`, `deliveries` | Retell's analysis and its `call_analyzed` events |
| `row` | the calls row: status and `outcome_claimed_at` (none, held, lapsed) |
| `proc` | where each processor stands |
| `crm` | how many contacts, notes, tasks and cadence writes were made; notes whose answer was lost (`doubled`) |
| `overtaken`, `repeated`, `unfinished` | history: leases that ran out under a live processor and legacy processors that overlapped; processors that died after their first CRM write; updates completing the row that failed unnoticed |

The processors of outbound calls (`process-outcome.ts`) and of inbound calls
(`process-inbound.ts`) share `Begin`, `ClaimCall` and `Complete`; the guards of
`setting` select their own steps. The legacy processor
(`process-inbound-legacy.ts`) takes `InsertLegacy` in place of the claim and never
asks for the status again: a second one that begins under or after another is
counted in `overtaken`, and the fault `overlap` bounds how often. Without that
overlap it writes back as seldom as the others. `logCall` that throws is followed by a
plain note (`AddFallbackNote`, `crm-writeback.ts:143-161`), a second one if the CRM had
accepted the first (fault `note_answer_lost`). `Complete` may fail without the processor
noticing (fault `complete_lost`, `process-outcome.ts:206-224`,
`process-inbound.ts:602-614`): it goes on, and the row is processed again. Each evaluates its automations through the
actions of `AutomationRuns`, whose evaluators are the processors.

### 3.5 Heartbeat, PollCoverage and DialDelivery: failover

Time passes in ticks of 30 seconds; timers count down, ages count up to the
largest value the code compares them with. `Tick` is disabled while a timer
that is due has not fired, which is how these safety properties bound time
without fairness.

`Heartbeat`: `redis`, `worker`, the heartbeat timer with its backoff (or hung in
ioredis' offline queue), and the age of `last_seen_at`. `PollCoverage` adds the
scheduler loop, poll jobs by bucket, two poll slots, the two crons, the
fallback's poll, and the age of the newest `poll_runs` row. `DialDelivery` adds
one queue row (`pending`, `ready`), its two job ids (its own, and the deferral's
that the row does not remember), the window, the sweep and drain timers and the
age of the agent's newest dial.

Assumed: timers fire within their tick; a poll of the worker takes at most a
tick; a live job is taken within a tick (one row; the rate limit of the worker
is not modelled); crons fire on time. In `DialDelivery` a dial of another
contact restarts the clock of `DueRowIsDialed` when Redis keeps a finished job
of the row, since that hides the stall (section 6).

### 3.6 Cadence and DialClock: dates

`Cadence` translates the functions of `cadence.ts` under their own names, over
ticks (milliseconds), minutes (HH:MM) and days, so that the two roundings of the
code meet. Days have equal length; daylight saving is left out. Windows start and
end at minutes of a day (`normalizeHHMM`, `src/lib/hhmm.ts`), which
`ClockAssumption` states. `DialClock`
drives them. A poll has three moments: `PollCounts` takes the capacity
(`poller.ts:280`), `PollSpaces` the wait for the opening of the window, and
`PollQueues` the time to which a contact's delay is added (`poller.ts:345-358`); two
counts and a CRM request per contact lie between them, and the window may be edited
meanwhile. A poll takes up to `PollSpan` ticks, and `row.took` is what it took for this
row; `PollFails` ends it early. `PolledSlotIsOpen` is about rows written within a minute of
the count (section 6). `Defer` and `Dial` fire
jobs up to `Lag` ticks late, `SaveConfig` is the edit of the window with
`rescheduleAgentCallQueue`, `Rebuild` the sweep's new slot, `Complete` the
outcome with the next date.

### 3.7 DialCapacity: the daily cap

`row` (status, day, number, queued by poll or hand), the calls `dialed` and the
contacts `called` today (two results of `countDialedToday`), the four
reads of each poll in their order, each drain's list, budget and dials of the
tick. A poll may begin while another is under way (job ids differ by 30 seconds, the
worker runs two), and the count of the agent's active rows may fail and be taken for
none (`PollMiscounts`, `call-queue.ts:501-507`; the other reads throw, `PollEnds`). What
such a poll queues has the source `blind`: it may exceed the cap, the polls beside and after
it may not. The worker does not look at the cap. Window capacity lowers the cap
further and is in `DialClock`.

### 3.8 CrmTokens: the rotating token

A pair of tokens is a number; HighLevel (external) honours the refresh token of
`live` only. `stored` and `status` are the workspace's row, `adapter` the objects
jobs have built with the pair they hold, `lock` is `refreshLocks` of a process,
`lost` the pairs whose answer, write or process was lost. Assumed: the access
token outlives the handling of the refresh that brought it, and a reconnection
by the owner takes longer than a write under way.

## 4. The runs

| Run | Instance | What it shows |
|---|---|---|
| `poll_dial` | worker, drain, processor, poll; 2 rows, 3 calls, 2 days, 2 numbers, 2 attempts, 1 fault of 5 kinds | The scheduled engine: one dial at a time, a claim is kept, the inductive `DialInv`, a redial only after a lost answer, numbers in order, one attempt a day, attempts never decrease |
| `call_now` | forced dial, manual enqueue, failed stamps and crashes, 2 attempts | `ForcedDialRings`: a forced dial is never answered with an earlier one |
| `progress` | worker, drain, processor, poll; one crash or early webhook; fairness | No row stays in dialing, each dial gets its outcome, a terminal outcome reaches the cadence state unless its processing fails |
| `enrollment` | 4 contacts, 1 with a phone, pages of 2, guard from 4 local tags and below half; 3 operator acts, 1 other call, 1 fault; fairness | Who left is not dialed and is forgotten; who stays enrolled does not stay due |
| `automations` | 2 calls, 1 trigger, 2 runs, 2 evaluators, 1 executor, 3 attempts of a run and 2 of a job, both calls in one dedupe window, 2 faults of all 9 kinds; fairness | A delivery is repeated only after a disturbance, a kept job is settled or has had its attempts, `Delivery` is implemented |
| `post_call` | 1 call of 4 kinds, 2 processors, 2 runs, 1 executor, 1 fault of 10 kinds; fairness | Written back once, one contact per caller, one send per trigger, completed in the end |
| `poll_coverage` | 2 slots, 3 failures | An agent is polled within a bound; the failover stays away from a healthy engine |
| `dial_delivery` | 1 row, 2 failures, 2 closings of the window | A row that could be dialed is dialed within a bound |
| `dial_clock` | days of 6 minutes of 2 ticks, 6 configs, over 7 days, polls of up to a minute, 1 edit or rebuild | Slots are open and spaced, one deferral suffices, attempts keep the schedule |
| `dial_capacity` | 2 contacts, cap 1, 2 numbers, 2 polls, 1 failed count, 1 drain, 2 days, 1 queued by hand | The drain keeps the daily cap, and so do polls that see everything, whatever blind polls do beside them |
| `crm_tokens` | 3 adapters in 2 processes, 5 pairs, 1 loss | One refresh per process, the newest pair is kept |
| `stale_token` | 2 adapters in 1 process, no loss | refutes "flagged when the refresh token is dead" (section 5) |

Why the bounds are enough. `poll_dial`: two rows let a row of yesterday meet one
of today; two attempts and two numbers are the smallest instance with a next
number and a next attempt; three calls let an attempt be chained and followed by
another; one executor of each kind gives every race between worker and drain.
`call_now` has no scheduled dials at the same time: beside one, a forced dial
may be answered by the scheduled one. `enrollment`: four contacts and pages of
two let a strip skip a row; two tags may go in one scan without shutting the
guard, three shut it. `automations`: two evaluations and
two runs meet, in one dedupe window, and one executor with a stalled job gives the overlap of two
deliveries of a job; more executors only add more of those. A job of two attempts under runs
of three runs out first, and two faults of any kind let a run get stuck, be found and
be disturbed again. `post_call`: two processors
overtake one another; the send of a trigger needs a second run. Its faults leave
out `insert_error` and `lookup_error`, beside which a trigger may fire twice (section 6);
`OneSendPerTrigger` and the other safety properties also hold with two attempts per run and per job
(5,161,266 states, too many for the run's liveness). The timer
models use the code's own constants (in ticks), so only the number of failures
is bounded, and each bound of theirs is stated per failure. `dial_clock`: six
minutes hold windows of one to four minutes and gaps of three; the six configs
cover office days, one day a week, every day, a window of a single minute and a
window that ends before it starts. Two ticks are a minute, so a poll may take a minute, longer than the claim allows, and
every shorter time. `dial_capacity`: one contact may take the whole cap and a
second exceed it. Its constraint `BlindPollsApart` runs blind polls in behaviours without a dial
of the drain and without second numbers, to keep the state space within reach; the theorems
have no such bound. `crm_tokens`: two adapters share a process and one does not;
five pairs allow a rotation by each, a loss and a reconnection.

CHECK_DEADLOCK is off where the system may stop: all attempts used, all
evaluations done, the horizon reached, no more pairs.

Symmetry is used in `poll_dial`, `call_now`, `poll_coverage` and `dial_capacity`, which check no liveness. The state-space sizes are from a hundred thousand to
ten million states. Two type invariants are not run separately: `HeartbeatTypeOK`
is part of the one of `PollCoverage`, and `DialDelivery`'s has only the domains
of the variables its other definitions bound anyway.

Fairness:

- `progress`: polls, `placeCall` and outcome processing that have started go on,
  unless they crash; the drain gives up a scanned row; the sweep timer runs
  `DropZombie` (`worker/index.ts`); the reconciler timer calls the outcome
  processor for each call that stays in dialing. Nothing is assumed of claims,
  of polls starting, or of job delivery. A dial executor may also take its
  failure branches, so nothing says that a pending row is ever dialed
  (`DialDelivery` says that).
- `enrollment`: the scheduler keeps polling, a pending row's job reaches
  `placeCall`, a `placeCall` and an outcome processing that have started end. Nothing of edits,
  chains, failures or dates.
- `automations`: evaluators and executors go on, the drain runs every minute,
  BullMQ looks for stalled jobs. Nothing of eviction: a stuck run may stay so.
- `post_call`: Retell analyzes, leases run out, the reconcilers run, processors
  go on. No webhook is assumed to arrive.

## 5. Findings

`stale_token`: `refreshAccessToken` (`crm/highlevel.ts:301`) presents the refresh
token its adapter was built with. An adapter built before another one rotated
the pair is refused, and flags the connection as dead although the stored pair
works: `crm_status` becomes `needs_reauth` without cause. The process lock does
not help, since it is free again by then. The comments at `crm/index.ts:48-49`
and `highlevel.ts:283-285` say otherwise.

## 6. Known divergences

Things the code does against its comments or against what one would expect, met
while modelling. The properties above exempt them by name; none has a run of its
own.

Dials:

- A crash between completing the calls row (`process-outcome.ts:206`) and the
  cadence write loses the outcome, a terminal one too: a completed call is not
  processed again. The comment at lines 88-89 promises that "a crash
  mid-processing self-heals on retry". `TerminalOutcomeApplied` exempts it.
- `markQueueDialing` (`caller.ts:335`) filters by today: a row of an earlier day
  is dialed but not linked to its call, neither completed nor chained, and
  removed by the zombie sweep four hours later.
- After a failed cadence stamp the poll hands out an attempt number whose dial is
  on record (`enqueue-dial.ts:24`), and `placeCall` reports success without
  ringing. Forced dials are guarded.
- Two overlapping forced dials take the same attempt number and ring through one
  calls row (`caller.ts:111`). With forced dials the attempt counter can go back.
- Two polls of an agent, or a poll and a manual enqueue, may overlap: an
  insert-on-conflict resets a row a worker is dialing (`call-queue.ts:59`), and
  it may ring again.
- Two polls at once may each fill the room the other leaves: together they exceed the
  daily cap (`poll.worker.ts:26`). `PollsKeepTheDailyCap` exempts rows of a poll that
  began beside another.
- `countActiveQueueForAgent` (`call-queue.ts:501`) does not look at the error
  of its query and returns `count ?? 0`: a poll whose count fails takes the rows waiting
  today for none and may fill the whole cap again, although the comment of
  `computeRepeatedPollCapacity` says "so 2-minute polls cannot exceed
  max_calls_per_day" (`rollover-priority.ts:26-27`). The other counts of the poll throw.
- The outcome of a second call in flight writes `is_terminal = false` over the
  terminal outcome of the first (`process-outcome.ts:380`).
- A row whose finished job Redis keeps is not queued again by the sweep
  (`sweeper.ts:171`); only the stall check saves it, and dials of other contacts
  hide the stall. A worker that dies again and again before its first sweep delays
  a row whose job is lost.
- "Only the daily cap can trim the batch" (`poller.ts:425`): nothing trims it.

Enrollment:

- The strip pages by offset over a list its own updates shorten
  (`call-queue.ts:406`), and skips as many rows as it has stripped. Later polls
  get to them.
- `placeCall` writes back the tags it read at its start (`caller.ts:140`, `362-366`),
  several HTTP calls later. A strip in between is undone: the contact has left, its row in
  dialing is not cancelled, and the next number of the attempt still rings.
- A failed upsert is not noticed (`poller.ts:193`): all pending rows of the agent
  are cancelled. Later polls enqueue the contacts again, without their place.
- A mass removal of the tag in the CRM looks like a broken scan: the guard stays
  shut, the removal has no effect and new contacts are not queued, until somebody
  intervenes.
- Outcome processing writes the whole tag list back as read
  (`process-outcome.ts:388`): what a poll wrote in between is lost until the next
  poll. A terminal outcome drops the enroll tag locally, and the next poll brings it back,
  since the CRM keeps it (`crm-writeback.ts:46`); the terminal flag is what
  keeps the contact out.
- `placeCall` and the strip compare tags exactly, "Queue calls now" without case.

After a call:

- When `logCall` throws, a plain note is written (`crm-writeback.ts:143-154`): two notes, if
  the CRM had accepted the first and its answer was lost.
- The error of the update that completes the call is not looked at
  (`process-outcome.ts:206`, `process-inbound.ts:602`): tasks, automations and the cadence
  write follow, the row stays in dialing, and all of it is done again later.
- The errors of the claim of a run and of its result are not looked at
  (`execute.ts:37-44`, `88-119`): the job finishes, is kept, and its run rests behind it
  until BullMQ evicts it.
- The legacy inbound processor (`process-inbound-legacy.ts`) has no claim: two
  overlapping deliveries write twice (`WrittenBackOnce` bounds the repeats by the
  overlaps).
- The reconciler may process a call before Retell has analyzed it
  (`reconcile.ts:105`), with an outcome of its own.
- A trigger may have up to 20 attempts, its job has 8; a run beyond them rests
  until its kept job is evicted. A run that failed does not count as a duplicate.
- The look-up for a duplicate ignores the error of its query (`evaluate.ts:47-90`), and
  the failed row an unsuccessful insert leaves (`evaluate.ts:249-267`) is no duplicate,
  but the drain delivers it (`drain.ts:31`): after either error and a crash, the next
  evaluation of the call may fire the trigger a second time.

Failover and dates:

- A poll counts what fits into the window first (`poller.ts:280`) and takes the time for
  each row's slot after two counts, a stage move in the CRM per contact and the
  rows before it (`poller.ts:323`, `345-358`). One minute of slack is built in; when that takes
  longer, the last slots of a full window fall past its end and are deferred to the next one.
- A fallback poll that lost against its timeout goes on
  (`poll-fallback-runner.ts:150`) beside the next one. After an outage the queued
  poll jobs of every bucket run.
- A slot past the look-ahead of 60 days falls back to a week; a window that ends
  before it starts never opens; a rebuilt slot may spill past the end of today's
  window, and is deferred once; on a host without Redis an edited window leaves
  the jobs where they are.

## 7. The proofs

Proved for every value of the constants, from the named assumptions of the
modules only, unless stated.

**DialQueueProofs.** `TypeCorrect`: `Spec => []TypeOK`, with all faults. `Linked`
is the strengthening: a poll about to push a job has a row, a working processor
a call. `DialInvariant`, `ExclusiveDial` and `ClaimsHold` assume `ScheduledOnly`
and give `[]OneDialAtATime` and `[]ClaimIsKept`. One executor at a time cannot be
proved from the compare-and-set alone: it excludes a second claim of one row, but
there may be two rows, and others may reset a claimed one. `DialInv` has the
missing parts. `OneLiveRow`: one active row, and none while a poll is about to
insert. `ClaimsAreUnlinked`: a dialing executor has a row in dialing that is linked to
no call, and only dialing rows are linked; so nobody else can claim, which is
`OneExecutor`. `ChainsAreLinked`: a processor chains only a row linked to its own
call, hence never the row of a dialing executor. There is a lemma per action, and
`DialStep` puts them together. `DialAccount` is this invariant as the run checks it.

`RedialsAreJustified` needs no restriction of the constants: with forced dials, manual
enqueues, failed stamps, slow cleanups and any number of polls and executors, a number of an
attempt rings again only after all answers to the earlier requests were lost, in every
behaviour in which no two executors are past the idempotency check with the same number
of the same attempt (`NoTwinDials`; two overlapping forced dials may be, `caller.ts:111`). Its
account is `RingsAccounted`: an executor past its check dials a number not on record;
what rang and is on record nowhere is being linked by the executor that rang, or is lost.
`ScheduledRedials` is the case of `ScheduledOnly`, where `NoTwinDials` follows from
`OneExecutor`.

`NumberInvariant` adds a second invariant on top of `DialInv`, about which number
rings, in which attempt and on which day, and from it come three action
properties: `NumbersRingInOrder`, `OneAttemptADay` and
`AttemptsGrow`, all under `ScheduledOnly`. What an executor saw at its check still
holds when it asks Retell, because nobody else dials meanwhile (the first
invariant); what has rung is on record, lost, or being linked right now
(`DialsAreCounted`). `PhonesInOrder`: whoever carries a further number, be it a job,
a row or an executor, follows a call that is `Settled`, one whose outcome nobody can
change any more. `AttemptsAreCurrent`: polls and rows are at most one attempt ahead
of the cadence state, and an executor about to stamp is exactly one ahead, as
everybody else is by then; hence a stamp never goes back. `DaysAreApart`: an attempt
not yet stamped does not belong to the day of the last stamp.

`ForcedDialsRing` allows polls, manual enqueues, failed stamps and crashes, and
assumes `LoneExecutor`: one executor for the contact. The number a forced dial
computed is above every number on record (`FreshNumber`) until its own insert. With
two executors that is not so, two overlapping forced dials may get the same number;
it is one of the hazards without a property (`caller.ts:111`).

**AutomationRunsProofs.** `AutoTypeCorrect`. `DeliveredOnce`: from `DeliveryInv`,
where each active job has one owner and an owner one job (`OwnerIsActive`), and a
budget counts, for each run, the posts made and those still to come from slots
and from a job that may be delivered again, against the disturbances.
`FinishedJobsSettled` holds for any number of attempts of runs and jobs: where a run may
have more, its job is kept after all of its own (section 6), and the property says so.
`RunsImplementDelivery` assumes no stalled jobs (then every
slot that writes holds its job, `LeaseInv`) and maps each step to one of
`Delivery` or to a stutter.

Of `CallProcessing`, in the same module: `CallTypeCorrect`, `CallWrittenOnce` and
`CallersGetOneContact`, for any finite number of processors, all four kinds of call
and all faults. `CallInv` keeps an account for each kind of CRM write: the writes
made, plus the processors still ahead of theirs, plus the processor that may still
enter, never exceed one plus what the history counts (leases that ran out, processors
that died, overlaps of legacy processors, completing updates that failed unnoticed, and
for notes the lost answers). A processor about to write its fallback note still owes one.
Outbound tasks and cadence writes charge
overtaken leases and failed completions only, since they follow the completion of the row, after which
nobody claims. `Staged` says where a processor of a kind can be, and when the contact is
known: an inbound processor past the look-up has found or made its contact, so a retry
finds it too.

`TriggersSendOnce` joins the two halves of that module, `Spec => []OneSendPerTrigger`,
for any number of processors, triggers, runs, attempts and slots. It assumes neither
`insert_error` nor `lookup_error`: with one of them the code does fire a trigger twice
(section 6). `CallShared` is one more account: the processors that hold the call, plus
the one that may still take it, never exceed one plus the overtaken. `RunsShared` spends
that account: the runs of a trigger that are out of trouble, plus the evaluations
that found none and are about to insert one, stay within it, since a run out of trouble is
queued or sent (`AnswersInv`) and keeps later evaluations from inserting. With the budget
of `DeliveryInv` for each run, the posts of a run out of trouble are at most one plus its
disturbances, those of a run in trouble too; the sums over the runs of a trigger then
compare term by term (`SumsCompared`). The laws of that fold would be an induction over
sets; a least counterexample takes its place (`NoSmallest`).

**CrmTokensProofs.** `TokensTypeCorrect`; `RefreshIsExclusive`: whoever is asking
holds the lock of its process (`LockHeld`); `NewestPairSurvives`: a pair being carried is the
live one (`CarriersAreCurrent`), and the live one is stored, carried or lost
(`LiveIsKept`).

**EnrollmentProofs.** `UnenrolledStaysUndialed`: `Spec => UnenrolledIsNotDialed`, from
`GoneAreForgotten`, i.e. `Spec => []EnrollInv`. A dial needs the tag, so it must be
shown that a contact in `gone` has none and that neither a `placeCall` nor a processor is
about to write it back (`GoneIsForgotten`). It enters `gone` at `CancelStale`, when the strip is
over, unless somebody remembers its tag then; `LeftTags` says what the strip has left then: after a strip of one page,
tags of the scan and tags rewritten meanwhile. The first page is the whole list
by cardinality (`FirstPageIsAll`). `EnrollTypeCorrect` has the bounds as well; that a
strip never looks for a page behind the last contact is `FullPageFits`: a full page
comes after as many contacts as the offset says.

**DialCapacityProofs.** `CapacityTypeCorrect`. `DrainsStayInBudget` assumes
`OneDrain`: the route is killed after its `maxDuration` of 60 s and the cron fires
once a minute. Its invariant `BudgetInv` is an account: what drains have dialed
today, the dial in hand and the budget left never exceed the cap, although the
budget is read once and the counts move on; a drain that runs into the next day
carries a smaller budget over, never a larger one. `PollsStayInCap` assumes `OneDrain`
too, and any number of polls at once, of failed counts and of contacts queued by hand. It
bounds what polls queue that see everything; rows of a blind poll (one that began while
another was under way, or whose count failed) are its only exception. `CapInv` says what a poll knows between two of its four reads:
having counted the rollover, it has counted every polled row behind its day;
having counted the active rows too, every polled row. A row that moves from the
queue to the calls before the last read is counted twice, one that is dialed after
its count was read stays counted, so the room left is never too large. `ClaimsHold`
keeps a claimed row of the drain from being counted out.

**DialClockProofs.** `ClockTypeCorrect`: `TypeInv` adds that a waiting row belongs to
a contact with an attempt left. `PolledSlotsDial` and `DeferralsEnd` come from
`DueIsOpen`: a job in a polled slot, or deferred once, is due inside the window.
The first needs that `pollEnqueueCapacity` slots, counted at one moment, fit between the
opening computed at a second and the end of the window when they start at a third, with
both roundings, if the three lie within a minute (`PolledSlotLands`); `PollHolds`
keeps what the poll has seen of the contact true until its row is written. The second that the date
of a deferral is the next opening. `ScheduleIsKept`: the sum of the gaps is a
function over attempts; instead of an induction over numbers, the invariant
`ScheduleInv` carries its existence and bound for the attempts made so far, one step
of the induction per dial. `SlotsStayApart` is about the arithmetic alone, with no
step of the system: slot n+1 is after slot n by a drip, over nights and days off. It
assumes `SlotsInLookAhead`: the days of the look-ahead are enough for the slots
handed out. Past them the code falls back to a week (section 6) and slots may
coincide. The run's instance satisfies it. That the n-th dialing day exists is shown
by a least element, since the recursion that counts days is a set here.

**PollCoverageProofs.** `CoverageTypeCorrect`. `AgentStaysPolled`: the age of the
newest poll is at most the coverage age, one fallback period per poll that failed,
and the time since the fallback cron last fired, which counts as a whole period
while its poll is owed (`CoverInv`). `FailoverStaysAway`, an action property: since
a healthy engine has either just beaten or is still inside its longest backoff
(`HealthInv`), the fallback that starts has found no coverage.

**DialDeliveryProofs.** `DueRowsAreDialed`: `Wait` bounds what a row in its present
situation can still wait for (sweep, drain, staleness), and `WaitInv` says that
what it has waited and may still wait stays within the bound plus the cost of the
outages so far. A row with a kept job has no such bound but the stall check's
(`KeptInTime`).

Both timer proofs hold for every length of the periods and any number of failures.

Each inductive invariant was checked by TLC on the run's instance before it was
proved: `NumberInv` on that of `poll_dial`, `RingsAccounted` on that of
`call_now` with a worker beside, `FreshNumber` on that of `call_now`,
`CallInv` on that of `post_call`, also with two faults, and `SendInv` on the latter with
two attempts per run and job.

Only model-checked:

- All liveness (`progress`, `enrollment`, `post_call` and the fairness half of
  `ImplementsDelivery`): it rests on fairness, out of the prover's reach.
- `poll_dial`'s properties but `RedialOnlyAfterLostAnswer` are proved under `ScheduledOnly`
  only: beside two polls of one agent or a manual enqueue some of them fail (section 6).

`DialDelivery`'s `TypeOK` documents its ranges; the proof uses its own part `Typed`.
The refuting run `stale_token` has nothing to prove.

## 8. Not modelled

- Stage routing in HighLevel, CRM note wording, outcome tags, tasks' text, memory:
  text and external writes that the engine does not read again.
- Requests of the CRM adapters other than token refresh and tag scan, and the
  Retell client: HTTP without state; their failures are the faults of the models.
- Alerts of the watchdogs, the worker's rate limiter, several agents at once
  (the engine keeps no state across agents but contacts' tags, which `EndOther`
  covers).
- Test-mode polls and `placeTestCall`, which touch no queue row.
- Payload backfill and orphan-tag repair, provisioning, workspace deletion,
  reporting, configuration API and UI: idempotent repairs, linear request
  sequences, read-only queries and CRUD. They make up most of the lines of the
  repository, and hold no protocol of their own.
