------------------------------ MODULE Cadence ------------------------------
(***************************************************************************)
(* The date arithmetic of cadence.ts: when an agent may dial, how many     *)
(* dials fit into its window, where the n-th dial of a queue goes, and     *)
(* when a contact may be dialed again.                                     *)
(*                                                                         *)
(* A moment is a number of ticks since a Monday's midnight in the          *)
(* workspace's time zone; a day has Day ticks and a minute Minute ticks.   *)
(* The window is kept in minutes (HH:MM) and the queue in ticks (ms), as   *)
(* in the code, so the two roundings meet here too.  Days are all equally  *)
(* long: the code adds whole days of 24 hours, and the hour that daylight  *)
(* saving adds or removes is left out.                                     *)
(***************************************************************************)
EXTENDS Integers, FiniteSets, Sequences

CONSTANTS
    Day,      \* ticks of a day
    Minute,   \* ticks of a minute
    LookAhead \* days that msToAllowedDayWindowStart looks at, 60

ASSUME CadenceAssumption ==
    /\ Day \in Nat \ {0}
    /\ Minute \in Nat \ {0}
    /\ LookAhead \in Nat \ {0}

Weekday == 1..7

MaxOf(a, b) == IF a > b THEN a ELSE b
MinOf(a, b) == IF a < b THEN a ELSE b

(* todayInTz, secondsIntoDayInTz and nowHHMMInTz of a moment. *)
Today(now) == now \div Day
SecondsIntoDay(now) == now % Day
NowHHMM(now) == SecondsIntoDay(now) \div Minute

hhmmToSeconds(hhmm) == hhmm * Minute

isoWeekday(date) == (date % 7) + 1

(* No usable day means every day. *)
normalizeCallWindowDays(days) ==
    IF days \cap Weekday = {} THEN Weekday ELSE days \cap Weekday

isCallDayAllowed(days, date) == isoWeekday(date) \in normalizeCallWindowDays(days)

(* The end minute belongs to the window, to its last second. *)
withinCallWindow(now, start, end) == start <= NowHHMM(now) /\ NowHHMM(now) <= end

InsideWindow(now, c) ==
    /\ isCallDayAllowed(c.days, Today(now))
    /\ withinCallWindow(now, c.start, c.end)

-----------------------------------------------------------------------------
(* Capacities *)

dailyWindowCapacity(c) ==
    LET seconds == hhmmToSeconds(c.end) - hhmmToSeconds(c.start)
    IN  IF c.drip <= 0 \/ seconds <= 0 THEN 0 ELSE seconds \div c.drip + 1

\* [slip] the slots of the whole day, whatever the time.
WholeDayCapacity(now, c) == dailyWindowCapacity(c)

remainingWindowCapacity(now, c) ==
    LET seconds == hhmmToSeconds(c.end) - SecondsIntoDay(now)
    IN  IF ~isCallDayAllowed(c.days, Today(now)) \/ c.drip <= 0 \/ seconds <= 0 THEN 0
        ELSE IF SecondsIntoDay(now) < hhmmToSeconds(c.start) THEN dailyWindowCapacity(c)
        ELSE seconds \div c.drip + 1

pollEnqueueCapacity(now, c) ==
    IF InsideWindow(now, c) THEN remainingWindowCapacity(now, c) ELSE dailyWindowCapacity(c)

-----------------------------------------------------------------------------
(* Waiting *)

(* From now to the window's start, offset days on. *)
UntilStart(now, c, offset) == offset * Day + hhmmToSeconds(c.start) - SecondsIntoDay(now)

\* [slip] tomorrow, whatever day that is.
WindowOpensTomorrow(now, c) ==
    CASE InsideWindow(now, c) -> 0
      [] /\ ~InsideWindow(now, c)
         /\ isCallDayAllowed(c.days, Today(now))
         /\ SecondsIntoDay(now) < hhmmToSeconds(c.start) -> UntilStart(now, c, 0)
      [] OTHER -> UntilStart(now, c, 1)

msUntilCallWindowOpens(now, c) ==
    LET days == {d \in 1..7 : isCallDayAllowed(c.days, Today(now) + d)}
    IN  CASE InsideWindow(now, c) -> 0
          [] /\ ~InsideWindow(now, c)
             /\ isCallDayAllowed(c.days, Today(now))
             /\ SecondsIntoDay(now) < hhmmToSeconds(c.start) -> UntilStart(now, c, 0)
          [] OTHER -> IF days = {} THEN Day
                      ELSE UntilStart(now, c, CHOOSE d \in days : \A e \in days : d <= e)

(* evaluateDialWindow: the wait of a dial that may not be placed now. *)
deferMs(now, c) == MaxOf(msUntilCallWindowOpens(now, c), Minute)

\* [slip] today counts as a dialing day after its window has closed.
DialingDaysWithToday(now, c) ==
    {d \in 0..LookAhead : isCallDayAllowed(c.days, Today(now) + d)}

(* The dialing days from today on; today only while its window has not closed. *)
DialingDays(now, c) ==
    {d \in 0..LookAhead :
        /\ isCallDayAllowed(c.days, Today(now) + d)
        /\ ~(d = 0 /\ SecondsIntoDay(now) > hhmmToSeconds(c.end))}

(* Past the look-ahead the code gives up and says a week. *)
msToAllowedDayWindowStart(now, c, index) ==
    LET days == DialingDays(now, c)
        nth == {d \in days : Cardinality({e \in days : e < d}) = index}
    IN  IF nth = {} THEN 7 * Day
        ELSE MaxOf(UntilStart(now, c, CHOOSE d \in nth : TRUE), 0)

msUntilQueueSlot(now, c, slot) ==
    LET cap == dailyWindowCapacity(c)
    IN  IF cap <= 0 \/ slot < 0 THEN msUntilCallWindowOpens(now, c)
        ELSE msToAllowedDayWindowStart(now, c, slot \div cap) + (slot % cap) * c.drip

-----------------------------------------------------------------------------
(* Contacts *)

\* [slip] the attempts are not counted.
EligibleForever(contact, c, today) ==
    /\ ~contact.terminal
    /\ contact.lastCalled # today
    /\ contact.nextEligible <= today

(* contact: the agent's state of a contact, and today's date. *)
isEligible(contact, c, today) ==
    /\ ~contact.terminal
    /\ contact.attempts < c.maxAttempts
    /\ contact.lastCalled # today
    /\ contact.nextEligible <= today

\* [slip] the gaps count the attempt just completed from one.
GapOfThisAttempt(attempt, gaps) == gaps[MinOf(attempt, Len(gaps))]

(* gaps[attempt] of a list that counts from zero, or the last one. *)
GapAfter(attempt, gaps) == gaps[MinOf(attempt, Len(gaps) - 1) + 1]

nextEligibleDate(attempt, gaps, today) == today + MaxOf(GapAfter(attempt, gaps), 1)
=============================================================================
