----------------------------- MODULE DialClock -----------------------------
(***************************************************************************)
(* The clock of one contact's dials: a poll gives the contact a slot, the  *)
(* slot's job fires, is deferred when the window is closed and dials when  *)
(* it is open, and the outcome sets the day of the next attempt.  The      *)
(* owner may change the window while a row waits, and the worker's sweep   *)
(* may rebuild its job.  Other contacts of the queue show as the slot's    *)
(* number.  Who claims the row, and what a dial does, is the matter of     *)
(* DialQueue; every call's outcome arrives here, sooner or later.          *)
(***************************************************************************)
EXTENDS Cadence

CONSTANTS
    Config,   \* the call configs an agent may have
    MaxSlot,  \* highest slot number of a rebuilt job
    Lag,      \* ticks a job may fire too late
    PollSpan, \* ticks from a poll's count to its last row
    Horizon,  \* last tick of a behaviour
    MaxEdits  \* bound on edits and rebuilds

ASSUME ClockAssumption ==
    /\ \A c \in Config :
        /\ c.start \in Nat /\ c.end \in Nat  \* HH:MM of a day: normalizeHHMM
        /\ hhmmToSeconds(c.start) + Minute <= Day /\ hhmmToSeconds(c.end) + Minute <= Day
        /\ c.drip \in Nat \ {0}
        /\ c.days \subseteq Weekday
        /\ c.gaps \in Seq(Nat) /\ c.gaps # << >>
        /\ c.maxAttempts \in Nat \ {0}
    /\ MaxSlot \in Nat
    /\ Lag \in Nat
    /\ PollSpan \in Nat
    /\ Horizon \in Nat
    /\ MaxEdits \in Nat

VARIABLES
    now,      \* the moment
    config,   \* agent_call_configs of the agent
    contact,  \* agent_contact_states of the contact
    poll,     \* a poll under way, and what it has computed
    row,      \* the contact's queue row and its job
    edits     \* edits and rebuilds so far

vars == <<now, config, contact, poll, row, edits>>

Date == 0..Today(Horizon)
Never == -1

Contact == [attempts : Nat, first : Date \cup {Never}, lastCalled : Date \cup {Never},
            nextEligible : Nat, terminal : BOOLEAN]

\* config: the agent's as the poll read it; began: when it counted;
\* delay: of the contact's job, first from the opening on, then from now on.
PollRun == [stage : {"idle", "counted", "spaced"}, config : Config, began : 0..Horizon,
            delay : Nat]

IdlePoll == [stage |-> "idle", config |-> CHOOSE c \in Config : TRUE, began |-> 0,
             delay |-> 0]

\* status: no active row, pending or dialing; due: when the job fires;
\* slot: whether a poll chose due, with the window that was in force then;
\* took: from the poll's count to the row; deferrals: of jobs that fired on time.
Row == [status : {"none", "pending", "dialing"}, due : Nat, slot : {"poll", "queue"},
        took : Nat, deferrals : Nat]

NoRow == [status |-> "none", due |-> 0, slot |-> "poll", took |-> 0, deferrals |-> 0]

TypeOK ==
    /\ now \in 0..Horizon
    /\ config \in Config
    /\ contact \in Contact
    /\ contact.attempts <= config.maxAttempts
    /\ poll \in PollRun
    /\ row \in Row
    /\ edits \in 0..MaxEdits

Init ==
    /\ now = 0
    /\ config \in Config
    /\ contact = [attempts |-> 0, first |-> Never, lastCalled |-> Never,
                  nextEligible |-> 0, terminal |-> FALSE]
    /\ poll = IdlePoll
    /\ row = NoRow
    /\ edits = 0

Pending == row.status = "pending"

(* Time does not pass a job that has been due for Lag ticks, nor the end of *)
(* a poll.                                                                  *)
Tick ==
    /\ now < Horizon
    /\ Pending => now < row.due + Lag
    /\ poll.stage # "idle" => now < poll.began + PollSpan
    /\ now' = now + 1
    /\ UNCHANGED <<config, contact, poll, row, edits>>

(* pollAgent takes the contacts that are due, and as many of them as fit    *)
(* into the window as it is now.                                            *)
PollCounts ==
    /\ poll.stage = "idle"
    /\ row.status = "none"
    /\ isEligible(contact, config, Today(now))
    /\ \E i \in 0..(pollEnqueueCapacity(now, config) - 1) :
        poll' = [IdlePoll EXCEPT !.stage = "counted", !.config = config, !.began = now,
                                 !.delay = i * config.drip]
    /\ UNCHANGED <<now, config, contact, row, edits>>

(* Two counts and a stage move of each contact in the CRM later, the i-th   *)
(* contact gets the i-th slot from the opening on, counted from that moment.*)
PollSpaces ==
    /\ poll.stage = "counted"
    /\ poll' = [poll EXCEPT !.stage = "spaced",
                             !.delay = msUntilCallWindowOpens(now, poll.config) + @]
    /\ UNCHANGED <<now, config, contact, row, edits>>

(* The rows are written one by one, each with the delay added to the time   *)
(* of its own; the jobs get the same delays after the last one.             *)
PollQueues ==
    /\ poll.stage = "spaced"
    /\ row' = [NoRow EXCEPT !.status = "pending", !.due = now + poll.delay,
                            !.took = now - poll.began,
                            !.slot = IF poll.config = config THEN "poll" ELSE "queue"]
    /\ poll' = IdlePoll
    /\ UNCHANGED <<now, config, contact, edits>>

(* The poll throws, is killed, or has no room left for the contact. *)
PollFails ==
    /\ poll.stage # "idle"
    /\ poll' = IdlePoll
    /\ UNCHANGED <<now, config, contact, row, edits>>

(* The waiting job gets a new slot among the agent's waiting jobs. *)
Requeue(c) ==
    \E slot \in 0..MaxSlot :
        row' = [row EXCEPT !.slot = "queue", !.deferrals = 0,
                           !.due = now + msUntilQueueSlot(now, c, slot)]

(* The row keeps its job and its old time. *)
KeepSlot == row' = [row EXCEPT !.slot = "queue", !.deferrals = 0]

(* rescheduleAgentCallQueue: the owner saves another window or drip, and    *)
(* the waiting jobs are spread over it.  A host without Redis (the console  *)
(* on Vercel) leaves them where they are.                                   *)
SaveConfig ==
    /\ edits < MaxEdits
    /\ \E c \in Config :
        /\ c # config /\ c.gaps = config.gaps /\ c.maxAttempts = config.maxAttempts
        /\ config' = c
        /\ IF Pending THEN Requeue(c) \/ KeepSlot ELSE UNCHANGED row
    /\ edits' = edits + 1
    /\ UNCHANGED <<now, contact, poll>>

(* resyncCallQueue: the row's job is gone from Redis and is built again. *)
Rebuild ==
    /\ edits < MaxEdits
    /\ Pending
    /\ Requeue(config)
    /\ edits' = edits + 1
    /\ UNCHANGED <<now, config, contact, poll>>

Fire == Pending /\ row.due <= now

(* The job fires while the window is closed. *)
Defer ==
    /\ Fire
    /\ ~InsideWindow(now, config)
    /\ row' = [row EXCEPT !.due = now + deferMs(now, config),
                          !.deferrals = IF row.due = now THEN @ + 1 ELSE @]
    /\ UNCHANGED <<now, config, contact, poll, edits>>

(* The job fires inside the window and the call is placed. *)
Dial ==
    /\ Fire
    /\ InsideWindow(now, config)
    /\ row' = [row EXCEPT !.status = "dialing"]
    /\ contact' = [contact EXCEPT
            !.attempts = @ + 1,
            !.lastCalled = Today(now),
            !.first = IF @ = Never THEN Today(now) ELSE @]
    /\ UNCHANGED <<now, config, poll, edits>>

(* The outcome is written: the contact is done, or gets its next day. *)
Complete ==
    /\ row.status = "dialing"
    /\ row' = NoRow
    /\ \/ contact' = [contact EXCEPT !.terminal = TRUE]
       \/ contact' = [contact EXCEPT
                !.nextEligible = nextEligibleDate(contact.attempts, config.gaps, Today(now))]
    /\ UNCHANGED <<now, config, poll, edits>>

Next ==
    \/ Tick
    \/ PollCounts \/ PollSpaces \/ PollQueues \/ PollFails
    \/ SaveConfig \/ Rebuild \/ Defer \/ Dial \/ Complete

Spec == Init /\ [][Next]_vars

-----------------------------------------------------------------------------
(* Properties *)

(* A contact that a poll takes in is dialed in its slot: the capacity the   *)
(* poll computes never hands out a slot that falls outside the window,      *)
(* whatever the second at which it runs, and although it counts the room,   *)
(* the wait for the opening and the slot at three different moments, as     *)
(* long as it gets from the first to the last in less than a minute.  A     *)
(* slower poll, a job that fires late or another window may miss it.        *)
PolledSlotIsOpen == row.slot = "poll" /\ row.took < Minute => row.deferrals = 0

(* A deferral lands in an open window: no job is deferred twice, over      *)
(* nights, off days and edits of the window, unless it fires too late.     *)
DeferredOnce == config.start <= config.end => row.deferrals <= 1

(* The slots of a queue are in order and at least a drip apart, across the *)
(* end of a day and the days off, as long as the window is at most half a  *)
(* day and the slots lie in the look-ahead.                                *)
SlotsAreSpaced ==
    LET c == config
        length == hhmmToSeconds(c.end) - hhmmToSeconds(c.start)
    IN  2 * (length + c.drip) <= Day /\ length > 0 =>
            \A slot \in 0..(MaxSlot - 1) :
                msUntilQueueSlot(now, c, slot) + c.drip <= msUntilQueueSlot(now, c, slot + 1)

(* The days that the first n - 1 attempts ask to wait. *)
WaitUpTo(gaps, n) ==
    LET wait[k \in 0..n] == IF k <= 1 THEN 0
                            ELSE wait[k - 1] + MaxOf(gaps[MinOf(k, Len(gaps))], 1)
    IN  wait[n]

(* Attempts keep the agent's schedule over the whole enrollment: the n-th  *)
(* dial is never earlier than the gaps before it add up to, counted from   *)
(* the day of the first.                                                   *)
AttemptsKeepTheSchedule ==
    contact.attempts > 0 =>
        contact.lastCalled - contact.first >= WaitUpTo(config.gaps, contact.attempts)
=============================================================================
