---------------------------- MODULE DialCapacity ----------------------------
(***************************************************************************)
(* The daily cap of one agent (max_calls_per_day).  A poll reads four      *)
(* counts one after the other and fills up what they leave of the cap; a   *)
(* second poll may begin meanwhile, and one of the counts may fail without *)
(* anybody noticing; the operator may queue contacts by hand; the worker   *)
(* dials what is queued without looking at the cap; the drain cron, which  *)
(* dials while the worker is away, keeps a budget of its own.  All of them *)
(* run at once.                                                            *)
(*                                                                         *)
(* A contact has at most one active row.  A row of an earlier day still    *)
(* waiting is rollover.  The window's capacity, which lowers the cap       *)
(* further, is the matter of DialClock.                                    *)
(***************************************************************************)
EXTENDS Integers, FiniteSets

CONSTANTS
    Contact,
    Poller,      \* polls that may run at once
    Drainer,     \* drain crons that may run at once
    Cap,         \* max_calls_per_day
    Phones,      \* numbers of a contact that one attempt tries
    TickDials,   \* drainCapacityPerTick
    MaxDay,      \* last day of a behaviour
    MaxByHand,   \* bound on contacts queued by hand
    MaxMiscounts \* bound on counts that fail unnoticed

ASSUME CapacityAssumption ==
    /\ IsFiniteSet(Contact)
    /\ Cap \in Nat
    /\ Phones \in Nat \ {0}
    /\ TickDials \in Nat \ {0}
    /\ MaxDay \in Nat
    /\ MaxByHand \in Nat
    /\ MaxMiscounts \in Nat

VARIABLES
    today,
    row,     \* the latest queue row of each contact
    dialed,  \* calls dialed today
    called,  \* contacts called today
    poll,    \* the polls
    drain,   \* the drains
    drained, \* dials of the drains today
    byHand,  \* contacts queued by hand so far
    miscounts \* counts that failed so far

vars == <<today, row, dialed, called, poll, drain, drained, byHand, miscounts>>

Status == {"none", "pending", "claimed", "dialing"}
Source == {"poll", "blind", "hand"}
Read == {"rollover", "queued", "sameDay", "dialed"}

Row == [status : Status, day : 0..MaxDay, phone : 1..Phones, by : Source]
NoRow == [status |-> "none", day |-> 0, phone |-> 1, by |-> "poll"]

\* blind: it began while another poll was under way, or one of its counts failed.
Poll == [pc : {"idle", "insert"} \cup Read, day : 0..MaxDay, taken : SUBSET Contact,
         counted : Nat, room : Nat, blind : BOOLEAN]
IdlePoll == [pc |-> "idle", day |-> 0, taken |-> {}, counted |-> 0, room |-> 0,
             blind |-> FALSE]

\* left: the due rows the drain has read and not yet looked at; budget: what
\* is left of the cap, or Unread; used: dials of this tick.
Unread == -1
Drain == [left : SUBSET Contact, budget : {Unread} \cup 0..Cap, used : 0..TickDials,
          claim : SUBSET Contact]
IdleDrain == [left |-> {}, budget |-> Unread, used |-> 0, claim |-> {}]

TypeOK ==
    /\ today \in 0..MaxDay
    /\ row \in [Contact -> Row]
    /\ dialed \in Nat
    /\ called \in SUBSET Contact
    /\ poll \in [Poller -> Poll]
    /\ drain \in [Drainer -> Drain]
    /\ \A d \in Drainer : Cardinality(drain[d].claim) <= 1
    /\ drained \in Nat
    /\ byHand \in 0..MaxByHand
    /\ miscounts \in 0..MaxMiscounts

Init ==
    /\ today = 0
    /\ row = [c \in Contact |-> NoRow]
    /\ dialed = 0
    /\ called = {}
    /\ poll = [p \in Poller |-> IdlePoll]
    /\ drain = [d \in Drainer |-> IdleDrain]
    /\ drained = 0
    /\ byHand = 0
    /\ miscounts = 0

Active(c) == row[c].status # "none"
CalledToday(c) == c \in called

(* The counts of call-queue.ts. *)
countRolloverBacklog(day) == Cardinality({c \in Contact : Active(c) /\ row[c].day < day})
countActiveQueue(day) == Cardinality({c \in Contact : Active(c) /\ row[c].day = day})

countDialedToday == dialed

-----------------------------------------------------------------------------
(* The poll *)

\* [slip] the calls of today are counted before the rows.
DialedBeforeQueued(pc) ==
    CASE pc = "rollover" -> "queued"
      [] pc = "queued" -> "dialed"
      [] pc = "dialed" -> "sameDay"
      [] pc = "sameDay" -> "insert"

(* The order in which pollAgent reads. *)
NextRead(pc) ==
    CASE pc = "rollover" -> "queued"
      [] pc = "queued" -> "sameDay"
      [] pc = "sameDay" -> "dialed"
      [] pc = "dialed" -> "insert"

CountOf(pc, day) ==
    CASE pc = "rollover" -> countRolloverBacklog(day)
      [] pc = "sameDay" -> countActiveQueue(day)
      [] pc = "dialed" -> countDialedToday
      [] pc = "queued" -> 0

(* computeRepeatedPollCapacity *)
computeRepeatedPollCapacity(counted) == IF counted < Cap THEN Cap - counted ELSE 0

PollUnderWay(p) == poll[p].pc # "idle"

(* The job ids of an agent's polls differ every 30 seconds and the worker   *)
(* runs two jobs at once, so a poll may begin before the last one ends.     *)
PollStarts(p) ==
    /\ ~PollUnderWay(p)
    /\ poll' = [poll EXCEPT ![p] = [IdlePoll EXCEPT
            !.pc = "rollover", !.day = today, !.taken = called,
            !.blind = \E q \in Poller : PollUnderWay(q)]]
    /\ UNCHANGED <<today, row, dialed, called, drain, drained, byHand, miscounts>>

(* The next read of the poll says n. *)
Counts(p, n) ==
    LET pc == poll[p].pc
        counted == poll[p].counted + n
    IN  [poll[p] EXCEPT
            !.pc = NextRead(pc),
            !.counted = counted,
            !.taken = IF pc = "queued" THEN @ \cup {c \in Contact : Active(c)} ELSE @,
            !.room = computeRepeatedPollCapacity(counted)]

PollReads(p) ==
    /\ poll[p].pc \in Read
    /\ poll' = [poll EXCEPT ![p] = Counts(p, CountOf(poll[p].pc, poll[p].day))]
    /\ UNCHANGED <<today, row, dialed, called, drain, drained, byHand, miscounts>>

(* countActiveQueueForAgent does not look at the error of its query: a       *)
(* count that fails is a count of none.  The other reads throw.              *)
PollMiscounts(p) ==
    /\ poll[p].pc = "sameDay"
    /\ miscounts < MaxMiscounts
    /\ poll' = [poll EXCEPT ![p] = [Counts(p, 0) EXCEPT !.blind = TRUE]]
    /\ miscounts' = miscounts + 1
    /\ UNCHANGED <<today, row, dialed, called, drain, drained, byHand>>

(* upsertQueueEntry: an active row of the day is refreshed and stays what it *)
(* is; otherwise the contact gets a pending row.                             *)
Upsert(c, day, by) ==
    IF Active(c) /\ row[c].day = day
    THEN row' = [row EXCEPT ![c].phone = 1]
    ELSE row' = [row EXCEPT ![c] = [NoRow EXCEPT !.status = "pending", !.day = day, !.by = by]]

PollInserts(p) ==
    /\ poll[p].pc = "insert"
    /\ poll[p].room > 0
    /\ \E c \in Contact \ poll[p].taken :
        /\ Upsert(c, poll[p].day, IF poll[p].blind THEN "blind" ELSE "poll")
        /\ poll' = [poll EXCEPT ![p].room = @ - 1, ![p].taken = @ \cup {c}]
    /\ UNCHANGED <<today, dialed, called, drain, drained, byHand, miscounts>>

(* The poll is through, or a read or a write of it throws. *)
PollEnds(p) ==
    /\ PollUnderWay(p)
    /\ poll' = [poll EXCEPT ![p] = IdlePoll]
    /\ UNCHANGED <<today, row, dialed, called, drain, drained, byHand, miscounts>>

(* enqueueContactsNow: whoever the operator picks, called today or not.  (A  *)
(* contact that waits since yesterday would get a second row: see DialQueue.) *)
QueueByHand(c) ==
    /\ byHand < MaxByHand
    /\ ~(Active(c) /\ row[c].day # today)
    /\ Upsert(c, today, "hand")
    /\ byHand' = byHand + 1
    /\ UNCHANGED <<today, dialed, called, poll, drain, drained, miscounts>>

-----------------------------------------------------------------------------
(* Dials *)

Claim(c) == row' = [row EXCEPT ![c].status = "claimed"]
Place(c) ==
    /\ row' = [row EXCEPT ![c].status = "dialing"]
    /\ dialed' = dialed + 1
    /\ called' = called \cup {c}

(* A claim of the drain; every other claimed row is the worker's. *)
DrainsClaim(c) == \E d \in Drainer : c \in drain[d].claim

WorkerClaims(c) ==
    /\ row[c].status = "pending"
    /\ Claim(c)
    /\ UNCHANGED <<today, dialed, called, poll, drain, drained, byHand, miscounts>>

(* A dial that fails puts its row back for the job's next attempt. *)
WorkerPlaces(c) ==
    /\ row[c].status = "claimed"
    /\ ~DrainsClaim(c)
    /\ \/ Place(c)
       \/ row' = [row EXCEPT ![c].status = "pending"] /\ UNCHANGED <<dialed, called>>
    /\ UNCHANGED <<today, poll, drain, drained, byHand, miscounts>>

(* The outcome of a call completes its row, or moves it to the next number. *)
CallEnds(c) ==
    /\ row[c].status = "dialing"
    /\ \/ row' = [row EXCEPT ![c].status = "none"]
       \/ /\ row[c].phone < Phones
          /\ row' = [row EXCEPT ![c].status = "pending", ![c].phone = @ + 1]
    /\ UNCHANGED <<today, dialed, called, poll, drain, drained, byHand, miscounts>>

-----------------------------------------------------------------------------
(* The drain *)

DrainStarts(d) ==
    /\ drain[d] = IdleDrain
    /\ LET due == {c \in Contact : row[c].status = "pending"}
       IN  due # {} /\ drain' = [drain EXCEPT ![d].left = due]
    /\ UNCHANGED <<today, row, dialed, called, poll, drained, byHand, miscounts>>

(* A contact called today is left for another day, unless the row goes on  *)
(* with its next number.                                                   *)
Skipped(c) == CalledToday(c) /\ row[c].phone = 1

\* [slip] the budget may go below zero.
BudgetBelowZero == Cap - countDialedToday

remainingDailyDialBudget == IF countDialedToday < Cap THEN Cap - countDialedToday ELSE 0

\* [slip] the budget counts the rows on their way, not the calls of the day.
BudgetOfRows(d) ==
    LET dialing == Cardinality({c \in Contact : row[c].status = "dialing"})
    IN  IF drain[d].budget # Unread THEN drain[d].budget
        ELSE IF dialing < Cap THEN Cap - dialing ELSE 0

(* Read for the first row of a tick that gets this far, then kept. *)
Budget(d) == IF drain[d].budget = Unread THEN remainingDailyDialBudget ELSE drain[d].budget

(* One row of the list: skipped, out of budget, lost to somebody else, or    *)
(* claimed.  A claim uses up budget even when the dial fails.                *)
DrainLooksAt(d, c) ==
    /\ drain[d].claim = {}
    /\ c \in drain[d].left
    /\ LET budget == Budget(d)
           looked == [drain[d] EXCEPT !.left = @ \ {c}, !.budget = budget]
       IN  \/ /\ Skipped(c)
              /\ drain' = [drain EXCEPT ![d].left = @ \ {c}]
              /\ UNCHANGED row
           \/ /\ ~Skipped(c)
              /\ budget = 0 \/ drain[d].used = TickDials \/ row[c].status # "pending"
              /\ drain' = [drain EXCEPT ![d] = looked]
              /\ UNCHANGED row
           \/ /\ ~Skipped(c)
              /\ budget > 0 /\ drain[d].used < TickDials /\ row[c].status = "pending"
              /\ Claim(c)
              /\ drain' = [drain EXCEPT ![d] = [looked EXCEPT
                    !.budget = budget - 1, !.used = @ + 1, !.claim = {c}]]
    /\ UNCHANGED <<today, dialed, called, poll, drained, byHand, miscounts>>

(* The dial succeeds, fails (the row too), or is deferred by the window. *)
DrainPlaces(d, c) ==
    /\ c \in drain[d].claim
    /\ \/ Place(c) /\ drained' = drained + 1
       \/ /\ \E status \in {"none", "pending"} : row' = [row EXCEPT ![c].status = status]
          /\ UNCHANGED <<dialed, called, drained>>
    /\ drain' = [drain EXCEPT ![d].claim = {}]
    /\ UNCHANGED <<today, poll, byHand, miscounts>>

DrainEnds(d) ==
    /\ drain[d] # IdleDrain
    /\ drain[d].left = {} /\ drain[d].claim = {}
    /\ drain' = [drain EXCEPT ![d] = IdleDrain]
    /\ UNCHANGED <<today, row, dialed, called, poll, drained, byHand, miscounts>>

-----------------------------------------------------------------------------
(* Midnight in the workspace's time zone. *)
DayEnds ==
    /\ today < MaxDay
    /\ today' = today + 1
    /\ dialed' = 0
    /\ called' = {}
    /\ drained' = 0
    /\ UNCHANGED <<row, poll, drain, byHand, miscounts>>

Next ==
    \/ \E p \in Poller :
        PollStarts(p) \/ PollReads(p) \/ PollMiscounts(p) \/ PollInserts(p) \/ PollEnds(p)
    \/ \E c \in Contact : QueueByHand(c) \/ WorkerClaims(c) \/ WorkerPlaces(c) \/ CallEnds(c)
    \/ \E d \in Drainer :
        \/ DrainStarts(d) \/ DrainEnds(d)
        \/ \E c \in Contact : DrainLooksAt(d, c) \/ DrainPlaces(d, c)
    \/ DayEnds

Spec == Init /\ [][Next]_vars

-----------------------------------------------------------------------------
(* Properties *)

(* Contacts that are queued, or were dialed today, from whatever source. *)
Committed(by) == {c \in Contact : row[c].by = by /\ (Active(c) \/ CalledToday(c))}

(* Polls do not commit the agent to more contacts than its daily cap: not  *)
(* while rows move from the queue to the calls between the four counts,    *)
(* not across midnight, not when rows of yesterday are left, and not when  *)
(* the operator or a blind poll adds rows meanwhile.  What a blind poll    *)
(* takes in itself may go beyond the cap.                                  *)
PollsKeepTheDailyCap == Cardinality(Committed("poll")) <= Cap

(* The drain, which has no other limit than its budget, never dials more   *)
(* than the cap in a day: over any number of ticks, with contacts queued   *)
(* by hand, failing dials, second numbers and a tick that runs into the    *)
(* next day.                                                               *)
DrainKeepsTheDailyCap == drained <= Cap
=============================================================================
