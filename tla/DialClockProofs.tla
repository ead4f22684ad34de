-------------------------- MODULE DialClockProofs --------------------------
(***************************************************************************)
(* Proofs about DialClock and the arithmetic of Cadence, for days and      *)
(* minutes of any length, any configs and any horizon.                     *)
(***************************************************************************)
EXTENDS DialClock, FiniteSetTheorems, WellFoundedInduction, TLAPS

USE CadenceAssumption, ClockAssumption

-----------------------------------------------------------------------------
(* Arithmetic. *)

LEMMA Division ==
    ASSUME NEW n \in Int, NEW k \in Nat \ {0}
    PROVE  /\ n \div k \in Int
           /\ n % k \in 0..(k - 1)
           /\ n = k * (n \div k) + (n % k)
<1> DEFINE p == k * (n \div k)
           r == n % k
<1>1. p \in Int /\ r \in Int
  OBVIOUS
<1>2. n - p = r
  OBVIOUS
<1>3. n = p + r
  <2> HIDE DEF p, r
  <2> QED BY <1>1, <1>2
<1>4. n \div k \in Int /\ n % k \in 0..(k - 1)
  OBVIOUS
<1> QED BY <1>3, <1>4

LEMMA QuotientIs ==
    ASSUME NEW n \in Int, NEW k \in Nat \ {0}, NEW q \in Int, NEW r \in 0..(k - 1),
           n = k * q + r
    PROVE  n \div k = q /\ n % k = r
OBVIOUS

LEMMA ProductGrows ==
    ASSUME NEW k \in Nat, NEW a \in Int, NEW b \in Int, a <= b
    PROVE  k * a \in Int /\ k * b \in Int /\ k * a <= k * b
OBVIOUS

LEMMA ProductTyped ==
    ASSUME NEW a \in Nat, NEW b \in Nat
    PROVE  a * b \in Nat /\ a * b = b * a
OBVIOUS

(* A quotient lies between the bounds of what is divided. *)
LEMMA QuotientBetween ==
    ASSUME NEW n \in Nat, NEW k \in Nat \ {0}, NEW a \in Nat, NEW b \in Nat,
           a * k <= n, n < b * k + k
    PROVE  a <= n \div k /\ n \div k <= b
<1> DEFINE q == n \div k
           r == n % k
<1>1. q \in Int /\ r \in 0..(k - 1) /\ n = k * q + r
  BY Division
<1> HIDE DEF q, r
<1>2. k * a = a * k /\ k * b = b * k /\ k * a \in Nat /\ k * b \in Nat
  BY ProductTyped
<1>3. k * (b + 1) = k * b + k /\ k * (q + 1) = k * q + k
  BY <1>1
<1>4. k * q \in Int
  BY <1>1
<1>5. q <= b
  <2> SUFFICES ASSUME b + 1 <= q PROVE FALSE
    BY <1>1
  <2>1. k * (b + 1) <= k * q
    BY <1>1, ProductGrows
  <2> QED BY <1>1, <1>2, <1>3, <1>4, <2>1
<1>6. a <= q
  <2> SUFFICES ASSUME q + 1 <= a PROVE FALSE
    BY <1>1
  <2>1. k * (q + 1) <= k * a
    BY <1>1, ProductGrows
  <2> QED BY <1>1, <1>2, <1>3, <1>4, <2>1
<1> QED BY <1>5, <1>6 DEF q

LEMMA BelowQuotient ==
    ASSUME NEW n \in Nat, NEW k \in Nat \ {0}, NEW a \in Nat, a <= n \div k
    PROVE  a * k <= n
<1> DEFINE q == n \div k
           r == n % k
<1>1. q \in Int /\ r \in 0..(k - 1) /\ n = k * q + r /\ a <= q
  BY Division
<1> HIDE DEF q, r
<1>2. k * a <= k * q /\ k * q \in Int
  BY <1>1, ProductGrows
<1>3. a * k = k * a /\ a * k \in Nat
  BY ProductTyped
<1> QED BY <1>1, <1>2, <1>3

LEMMA QuotientTyped ==
    ASSUME NEW n \in Nat, NEW k \in Nat \ {0}
    PROVE  n \div k \in Nat
BY Division, QuotientBetween

-----------------------------------------------------------------------------
(* Configs and moments. *)

LEMMA ConfigTyped ==
    ASSUME NEW c \in Config
    PROVE  /\ c.start \in Nat /\ c.end \in Nat /\ c.drip \in Nat \ {0}
           /\ hhmmToSeconds(c.start) \in Nat /\ hhmmToSeconds(c.end) \in Nat
           /\ hhmmToSeconds(c.start) + Minute <= Day /\ hhmmToSeconds(c.end) + Minute <= Day
           /\ c.days \subseteq Weekday
           /\ c.gaps \in Seq(Nat) /\ c.gaps # << >> /\ c.maxAttempts \in Nat \ {0}
<1>1. c.start \in Nat /\ c.end \in Nat
  OBVIOUS
<1>2. c.start * Minute \in Nat /\ c.end * Minute \in Nat
  BY <1>1, ProductTyped
<1> QED BY <1>1, <1>2 DEF hhmmToSeconds

LEMMA StartBeforeEnd ==
    ASSUME NEW c \in Config
    PROVE  c.start <= c.end <=> hhmmToSeconds(c.start) <= hhmmToSeconds(c.end)
<1>1. c.start \in Nat /\ c.end \in Nat
  OBVIOUS
<1>2. c.start * Minute = Minute * c.start /\ c.end * Minute = Minute * c.end
  BY <1>1
<1>3. c.start <= c.end => hhmmToSeconds(c.start) <= hhmmToSeconds(c.end)
  BY <1>1, <1>2, ProductGrows DEF hhmmToSeconds
<1>4. ASSUME c.end + 1 <= c.start PROVE hhmmToSeconds(c.end) < hhmmToSeconds(c.start)
  <2>1. Minute * (c.end + 1) <= Minute * c.start
    <3>1. c.end + 1 \in Int /\ c.start \in Int /\ Minute \in Nat
      BY <1>1
    <3> QED BY <1>4, <3>1, ProductGrows
  <2>2. Minute * (c.end + 1) = Minute * c.end + Minute
    BY <1>1
  <2>3. Minute * c.end \in Int /\ Minute * c.start \in Int
    BY <1>1
  <2> QED BY <1>2, <2>1, <2>2, <2>3 DEF hhmmToSeconds
<1>5. hhmmToSeconds(c.start) \in Nat /\ hhmmToSeconds(c.end) \in Nat
  BY ConfigTyped
<1> QED BY <1>1, <1>3, <1>4, <1>5

(* A moment is a day and the seconds into it. *)
LEMMA MomentIs ==
    ASSUME NEW t \in Nat
    PROVE  /\ Today(t) \in Nat
           /\ SecondsIntoDay(t) \in 0..(Day - 1)
           /\ Today(t) * Day \in Nat
           /\ t = Today(t) * Day + SecondsIntoDay(t)
<1>1. /\ t \div Day \in Int /\ t % Day \in 0..(Day - 1)
      /\ t = Day * (t \div Day) + (t % Day)
  BY Division
<1>2. t \div Day \in Nat
  BY <1>1, QuotientBetween
<1>3. Day * (t \div Day) = (t \div Day) * Day
  BY <1>2, ProductTyped
<1>4. (t \div Day) * Day \in Nat
  BY <1>2, ProductTyped
<1> QED BY <1>1, <1>2, <1>3, <1>4 DEF Today, SecondsIntoDay

LEMMA MomentOf ==
    ASSUME NEW date \in Nat, NEW r \in 0..(Day - 1)
    PROVE  /\ date * Day + r \in Nat
           /\ Today(date * Day + r) = date
           /\ SecondsIntoDay(date * Day + r) = r
<1>1. date * Day = Day * date /\ date * Day \in Nat
  BY ProductTyped
<1>2. date * Day + r \in Nat
  BY <1>1
<1>3. (date * Day + r) \div Day = date /\ (date * Day + r) % Day = r
  <2> DEFINE t == date * Day + r
  <2>1. t \in Int /\ t = Day * date + r
    BY <1>1, <1>2
  <2> HIDE DEF t
  <2>2. t \div Day = date /\ t % Day = r
    BY <2>1, QuotientIs
  <2> QED BY <2>2 DEF t
<1> QED BY <1>2, <1>3 DEF Today, SecondsIntoDay

(* Days do not run backwards. *)
LEMMA TodayGrows ==
    ASSUME NEW t \in Nat, NEW u \in Nat, t <= u
    PROVE  Today(t) <= Today(u)
<1> DEFINE a == Today(t)
           b == Today(u)
<1>1. a \in Nat /\ a * Day \in Nat /\ t = a * Day + SecondsIntoDay(t) /\ SecondsIntoDay(t) \in Nat
  BY MomentIs
<1>2. /\ b \in Nat /\ b * Day \in Nat /\ u = b * Day + SecondsIntoDay(u)
      /\ SecondsIntoDay(u) \in 0..(Day - 1)
  BY MomentIs
<1> HIDE DEF a, b
<1>3. a * Day <= u /\ u < b * Day + Day
  BY <1>1, <1>2
<1>4. a <= u \div Day
  BY <1>1, <1>2, <1>3, QuotientBetween
<1> QED BY <1>4 DEF a, Today

(* The window is open from its first to its last minute. *)
LEMMA WindowIsOpen ==
    ASSUME NEW c \in Config, NEW date \in Nat, isCallDayAllowed(c.days, date),
           NEW r \in Nat, hhmmToSeconds(c.start) <= r, r < hhmmToSeconds(c.end) + Minute
    PROVE  InsideWindow(date * Day + r, c)
<1>1. r \in 0..(Day - 1)
  BY ConfigTyped
<1>2. Today(date * Day + r) = date /\ SecondsIntoDay(date * Day + r) = r
  BY <1>1, MomentOf
<1>3. c.start <= r \div Minute /\ r \div Minute <= c.end
  BY ConfigTyped, QuotientBetween DEF hhmmToSeconds
<1> QED BY <1>2, <1>3 DEF InsideWindow, withinCallWindow, NowHHMM

(* Inside the window the seconds lie between its first and last minute. *)
LEMMA OpenWindowIs ==
    ASSUME NEW c \in Config, NEW t \in Nat, InsideWindow(t, c)
    PROVE  /\ isCallDayAllowed(c.days, Today(t))
           /\ hhmmToSeconds(c.start) <= SecondsIntoDay(t)
           /\ c.start <= c.end
<1>1. SecondsIntoDay(t) \in Nat
  BY MomentIs
<1>2. /\ isCallDayAllowed(c.days, Today(t))
      /\ c.start <= SecondsIntoDay(t) \div Minute
      /\ SecondsIntoDay(t) \div Minute <= c.end
  BY DEF InsideWindow, withinCallWindow, NowHHMM
<1>3. SecondsIntoDay(t) \div Minute \in Nat
  BY <1>1, QuotientTyped
<1>4. c.start * Minute <= SecondsIntoDay(t)
  BY <1>1, <1>2, ConfigTyped, BelowQuotient
<1> QED BY <1>2, <1>3, <1>4, ConfigTyped DEF hhmmToSeconds

-----------------------------------------------------------------------------
(* Days of the week. *)

LEMMA SomeDayAllowed ==
    ASSUME NEW c \in Config, NEW date \in Nat
    PROVE  \E d \in 1..7 : isCallDayAllowed(c.days, date + d)
<1>1. PICK w \in 1..7 : w \in normalizeCallWindowDays(c.days)
  BY DEF normalizeCallWindowDays, Weekday
<1> DEFINE m == date % 7
           q == date \div 7
<1>2. q \in Int /\ m \in 0..6 /\ date = 7 * q + m
  <2>1. 7 \in Nat \ {0} /\ date \in Int
    OBVIOUS
  <2>2. date \div 7 \in Int /\ date % 7 \in 0..(7 - 1) /\ date = 7 * (date \div 7) + (date % 7)
    BY <2>1, Division
  <2> QED BY <2>2
<1> HIDE DEF m, q
<1> DEFINE d == IF w - 1 > m THEN w - 1 - m ELSE w + 6 - m
<1>3. d \in 1..7 /\ (date + d = 7 * q + (w - 1) \/ date + d = 7 * (q + 1) + (w - 1))
  BY <1>2
<1> HIDE DEF d
<1>4. (date + d) % 7 = w - 1
  <2>1. w - 1 \in 0..(7 - 1) /\ date + d \in Int /\ q + 1 \in Int /\ 7 \in Nat \ {0}
    BY <1>2, <1>3
  <2>2. CASE date + d = 7 * q + (w - 1)
    BY <1>2, <2>1, <2>2, QuotientIs
  <2>3. CASE date + d = 7 * (q + 1) + (w - 1)
    BY <2>1, <2>3, QuotientIs
  <2> QED BY <1>3, <2>2, <2>3
<1>5. isoWeekday(date + d) = w
  BY <1>4 DEF isoWeekday
<1>6. isCallDayAllowed(c.days, date + d)
  BY <1>1, <1>5 DEF isCallDayAllowed
<1> QED BY <1>3, <1>6

(* A nonempty set of days has a first one. *)
LEMMA LeastDay ==
    ASSUME NEW N \in Nat, NEW S \in SUBSET (0..N), S # {}
    PROVE  \E d \in S : \A e \in S : d <= e
<1> DEFINE upTo == {0..d : d \in S}
<1>1. IsFiniteSet(0..N)
  BY FS_Interval
<1>2. IsWellFoundedOn(StrictSubsetOrdering(0..N), SUBSET (0..N))
  BY <1>1, FS_StrictSubsetOrderingWellFounded, FS_FiniteSubsetsOfFinite
<1>3. upTo \subseteq SUBSET (0..N) /\ upTo # {}
  <2>1. \A d \in S : 0..d \in SUBSET (0..N)
    OBVIOUS
  <2> QED BY <2>1
<1>4. PICK T \in upTo : \A U \in upTo : ~(<<U, T>> \in StrictSubsetOrdering(0..N))
  <2> HIDE DEF upTo
  <2> QED BY <1>2, <1>3, WFMin
<1>5. PICK d \in S : T = 0..d
  OBVIOUS
<1>6. ASSUME NEW e \in S, e < d PROVE FALSE
  <2>1. 0..e \in upTo /\ 0..e \subseteq 0..d /\ 0..e # 0..d
    <3>1. d \in 0..d /\ d \notin 0..e
      BY <1>6
    <3> QED BY <1>6, <3>1
  <2>2. <<0..e, T>> \in StrictSubsetOrdering(0..N)
    BY <1>3, <1>5, <2>1 DEF StrictSubsetOrdering
  <2> QED BY <1>4, <2>1, <2>2
<1> QED BY <1>6

LEMMA UntilStartIs ==
    ASSUME NEW c \in Config, NEW t \in Nat, NEW d \in Nat
    PROVE  /\ UntilStart(t, c, d) \in Int
           /\ t + UntilStart(t, c, d) = (Today(t) + d) * Day + hhmmToSeconds(c.start)
           /\ d > 0 => UntilStart(t, c, d) > 0
           /\ UntilStart(t, c, 0) = hhmmToSeconds(c.start) - SecondsIntoDay(t)
<1>1. /\ Today(t) \in Nat /\ SecondsIntoDay(t) \in 0..(Day - 1)
      /\ Today(t) * Day \in Nat /\ t = Today(t) * Day + SecondsIntoDay(t)
  BY MomentIs
<1>2. hhmmToSeconds(c.start) \in Nat
  BY ConfigTyped
<1>3. d * Day \in Nat /\ Day * d \in Nat /\ Day * d = d * Day
  BY ProductTyped
<1>4. (Today(t) + d) * Day = Today(t) * Day + d * Day
  BY <1>1
<1>5. d > 0 => d * Day >= Day
  <2> SUFFICES ASSUME 1 <= d PROVE d * Day >= Day
    OBVIOUS
  <2>1. Day * 1 <= Day * d
    BY ProductGrows
  <2> QED BY <1>3, <2>1
<1>6. 0 * Day = 0
  OBVIOUS
<1>7. /\ UntilStart(t, c, d) = d * Day + hhmmToSeconds(c.start) - SecondsIntoDay(t)
      /\ UntilStart(t, c, 0) = 0 * Day + hhmmToSeconds(c.start) - SecondsIntoDay(t)
  BY DEF UntilStart
<1>8. UntilStart(t, c, d) \in Int /\ (d > 0 => UntilStart(t, c, d) > 0)
  <2> DEFINE v == d * Day
  <2>1. v \in Nat /\ (d > 0 => v >= Day)
        /\ UntilStart(t, c, d) = v + hhmmToSeconds(c.start) - SecondsIntoDay(t)
    BY <1>3, <1>5, <1>7
  <2> HIDE DEF v
  <2> QED BY <1>1, <1>2, <2>1
<1>9. t + UntilStart(t, c, d) = (Today(t) + d) * Day + hhmmToSeconds(c.start)
  <2> DEFINE u == Today(t) * Day
             v == d * Day
             w == (Today(t) + d) * Day
  <2>1. u \in Nat /\ v \in Nat /\ w = u + v /\ t = u + SecondsIntoDay(t)
        /\ UntilStart(t, c, d) = v + hhmmToSeconds(c.start) - SecondsIntoDay(t)
    BY <1>1, <1>3, <1>4, <1>7
  <2> HIDE DEF u, v, w
  <2>2. t + UntilStart(t, c, d) = w + hhmmToSeconds(c.start)
    BY <1>1, <1>2, <2>1
  <2> QED BY <2>2 DEF w
<1> QED BY <1>1, <1>2, <1>6, <1>7, <1>8, <1>9

(* Outside the window, msUntilCallWindowOpens leads to the opening of a     *)
(* dialing day.                                                             *)
LEMMA OpeningIs ==
    ASSUME NEW c \in Config, NEW t \in Nat, ~InsideWindow(t, c)
    PROVE  \E date \in Nat :
            /\ isCallDayAllowed(c.days, date)
            /\ msUntilCallWindowOpens(t, c) \in Nat \ {0}
            /\ t + msUntilCallWindowOpens(t, c) = date * Day + hhmmToSeconds(c.start)
<1>1. Today(t) \in Nat /\ SecondsIntoDay(t) \in Nat
  BY MomentIs
<1>2. hhmmToSeconds(c.start) \in Nat
  BY ConfigTyped
<1>3. CASE isCallDayAllowed(c.days, Today(t)) /\ SecondsIntoDay(t) < hhmmToSeconds(c.start)
  <2>1. msUntilCallWindowOpens(t, c) = UntilStart(t, c, 0)
    BY <1>3 DEF msUntilCallWindowOpens
  <2>2. /\ t + UntilStart(t, c, 0) = (Today(t) + 0) * Day + hhmmToSeconds(c.start)
        /\ UntilStart(t, c, 0) = hhmmToSeconds(c.start) - SecondsIntoDay(t)
    BY UntilStartIs
  <2>3. UntilStart(t, c, 0) \in Nat \ {0}
    BY <1>1, <1>2, <1>3, <2>2
  <2>4. Today(t) + 0 = Today(t)
    BY <1>1
  <2> QED BY <1>1, <1>3, <2>1, <2>2, <2>3, <2>4
<1>4. CASE ~(isCallDayAllowed(c.days, Today(t)) /\ SecondsIntoDay(t) < hhmmToSeconds(c.start))
  <2> DEFINE days == {d \in 1..7 : isCallDayAllowed(c.days, Today(t) + d)}
             first == CHOOSE d \in days : \A e \in days : d <= e
  <2>1. days # {} /\ days \in SUBSET (1..7)
    BY <1>1, SomeDayAllowed
  <2>2. first \in days
    <3> HIDE DEF days
    <3>1. days \in SUBSET (0..7)
      BY <2>1
    <3>2. \E d \in days : \A e \in days : d <= e
      BY <2>1, <3>1, LeastDay
    <3> QED BY <3>2
  <2>3. msUntilCallWindowOpens(t, c) = UntilStart(t, c, first)
    BY <1>4, <2>1 DEF msUntilCallWindowOpens
  <2> HIDE DEF first
  <2>4. first \in Nat /\ first > 0 /\ isCallDayAllowed(c.days, Today(t) + first)
    BY <2>2
  <2>5. /\ UntilStart(t, c, first) \in Int /\ UntilStart(t, c, first) > 0
        /\ t + UntilStart(t, c, first) = (Today(t) + first) * Day + hhmmToSeconds(c.start)
    BY <2>4, UntilStartIs
  <2>6. Today(t) + first \in Nat
    BY <1>1, <2>4
  <2> QED BY <2>3, <2>4, <2>5, <2>6
<1> QED BY <1>3, <1>4

LEMMA WaitTyped ==
    ASSUME NEW c \in Config, NEW t \in Nat
    PROVE  msUntilCallWindowOpens(t, c) \in Nat /\ deferMs(t, c) \in Nat
<1>1. msUntilCallWindowOpens(t, c) \in Nat
  <2>1. CASE InsideWindow(t, c)
    BY <2>1 DEF msUntilCallWindowOpens
  <2>2. CASE ~InsideWindow(t, c)
    BY <2>2, OpeningIs
  <2> QED BY <2>1, <2>2
<1> QED BY <1>1 DEF deferMs, MaxOf

(* A deferred dial fires inside the window. *)
LEMMA DeferralLands ==
    ASSUME NEW c \in Config, NEW t \in Nat, ~InsideWindow(t, c), c.start <= c.end
    PROVE  InsideWindow(t + deferMs(t, c), c)
<1> DEFINE wait == msUntilCallWindowOpens(t, c)
           start == hhmmToSeconds(c.start)
<1>1. PICK date \in Nat : /\ isCallDayAllowed(c.days, date) /\ wait \in Nat \ {0}
                          /\ t + wait = date * Day + start
  BY OpeningIs
<1>2. start \in Nat /\ hhmmToSeconds(c.end) \in Nat /\ start <= hhmmToSeconds(c.end)
  BY ConfigTyped, StartBeforeEnd
<1>3. date * Day \in Nat
  BY ProductTyped
<1> DEFINE r == IF wait > Minute THEN start ELSE start + (Minute - wait)
<1>4. t + deferMs(t, c) = date * Day + r
  <2>1. deferMs(t, c) = IF wait > Minute THEN wait ELSE Minute
    BY DEF deferMs, MaxOf
  <2> HIDE DEF wait, start
  <2> QED BY <1>1, <1>2, <1>3, <2>1
<1>5. r \in Nat /\ start <= r /\ r < hhmmToSeconds(c.end) + Minute
  <2> HIDE DEF wait, start
  <2> QED BY <1>1, <1>2
<1>6. InsideWindow(date * Day + r, c)
  <2> HIDE DEF r
  <2> QED BY <1>1, <1>5, WindowIsOpen
<1> QED BY <1>4, <1>6

LEMMA DailyCapacityIs ==
    ASSUME NEW c \in Config
    PROVE  LET seconds == hhmmToSeconds(c.end) - hhmmToSeconds(c.start)
           IN  /\ dailyWindowCapacity(c) \in Nat
               /\ dailyWindowCapacity(c) > 0 => seconds > 0
               /\ \A i \in 0..(dailyWindowCapacity(c) - 1) :
                    i * c.drip \in Nat /\ i * c.drip <= seconds
<1> DEFINE seconds == hhmmToSeconds(c.end) - hhmmToSeconds(c.start)
<1>1. seconds \in Int /\ c.drip \in Nat \ {0} /\ ~(c.drip <= 0)
  BY ConfigTyped
<1>2. dailyWindowCapacity(c) = IF seconds <= 0 THEN 0 ELSE seconds \div c.drip + 1
  BY <1>1 DEF dailyWindowCapacity
<1> HIDE DEF seconds
<1>3. CASE seconds <= 0
  BY <1>1, <1>2, <1>3 DEF seconds
<1>4. CASE seconds > 0
  <2>1. seconds \in Nat /\ seconds \div c.drip \in Nat
    BY <1>1, <1>4, QuotientTyped
  <2>2. ASSUME NEW i \in 0..(seconds \div c.drip) PROVE i * c.drip \in Nat /\ i * c.drip <= seconds
    BY <1>1, <2>1, <2>2, BelowQuotient, ProductTyped
  <2>3. dailyWindowCapacity(c) = seconds \div c.drip + 1
    BY <1>1, <1>2, <1>4
  <2>4. \A i \in 0..(dailyWindowCapacity(c) - 1) : i \in 0..(seconds \div c.drip)
    BY <2>1, <2>3
  <2> QED BY <1>4, <2>1, <2>2, <2>3, <2>4 DEF seconds
<1> QED BY <1>1, <1>3, <1>4

(* A slot that the poll's capacity allows fits between the window's ends:   *)
(* from its start on, and inside an open window from the moment of the poll *)
(* on.                                                                      *)
LEMMA CapacityFits ==
    ASSUME NEW c \in Config, NEW t \in Nat, NEW i \in 0..(pollEnqueueCapacity(t, c) - 1)
    PROVE  /\ i * c.drip \in Nat
           /\ i * c.drip <= hhmmToSeconds(c.end) - hhmmToSeconds(c.start)
           /\ InsideWindow(t, c) => SecondsIntoDay(t) + i * c.drip <= hhmmToSeconds(c.end)
           /\ c.start <= c.end
<1> DEFINE start == hhmmToSeconds(c.start)
           end == hhmmToSeconds(c.end)
           secs == SecondsIntoDay(t)
<1>1. /\ start \in Nat /\ end \in Nat /\ c.drip \in Nat \ {0} /\ ~(c.drip <= 0)
      /\ c.start \in Nat /\ c.end \in Nat
  BY ConfigTyped
<1>2. secs \in Nat
  BY MomentIs
<1>3. CASE InsideWindow(t, c)
  <2>1. isCallDayAllowed(c.days, Today(t)) /\ start <= secs /\ c.start <= c.end
    BY <1>3, OpenWindowIs
  <2>2. pollEnqueueCapacity(t, c) =
            IF end - secs <= 0 THEN 0 ELSE (end - secs) \div c.drip + 1
    <3>1. pollEnqueueCapacity(t, c) = remainingWindowCapacity(t, c)
      BY <1>3 DEF pollEnqueueCapacity
    <3>2. ~(SecondsIntoDay(t) < hhmmToSeconds(c.start))
      BY <1>1, <1>2, <2>1
    <3> QED BY <1>1, <2>1, <3>1, <3>2 DEF remainingWindowCapacity
  <2> HIDE DEF start, end, secs
  <2>3. end - secs \in Nat /\ ~(end - secs <= 0)
    BY <1>1, <1>2, <2>2
  <2>4. i \in Nat /\ i <= (end - secs) \div c.drip
    <3>1. (end - secs) \div c.drip \in Nat
      BY <1>1, <2>3, QuotientTyped
    <3>2. pollEnqueueCapacity(t, c) = (end - secs) \div c.drip + 1
      BY <2>2, <2>3
    <3> QED BY <3>1, <3>2
  <2>5. i * c.drip \in Nat /\ i * c.drip <= end - secs
    BY <1>1, <2>3, <2>4, BelowQuotient, ProductTyped
  <2> DEFINE wait == i * c.drip
  <2>6. wait \in Nat /\ wait <= end - start /\ secs + wait <= end
    <3>1. wait \in Nat /\ wait <= end - secs
      BY <2>5
    <3> HIDE DEF wait
    <3> QED BY <1>1, <1>2, <2>1, <3>1
  <2> QED BY <2>1, <2>6 DEF start, end, secs
<1>4. CASE ~InsideWindow(t, c)
  <2>1. pollEnqueueCapacity(t, c) = dailyWindowCapacity(c)
    BY <1>4 DEF pollEnqueueCapacity
  <2>2. dailyWindowCapacity(c) \in Nat /\ i \in 0..(dailyWindowCapacity(c) - 1)
    BY <2>1, DailyCapacityIs
  <2>3. i * c.drip \in Nat /\ i * c.drip <= end - start /\ end - start > 0
    BY <2>2, DailyCapacityIs
  <2>4. c.start <= c.end
    <3> HIDE DEF start, end
    <3>1. start <= end
      BY <1>1, <2>3
    <3> QED BY <3>1, StartBeforeEnd DEF start, end
  <2> QED BY <1>4, <2>3, <2>4
<1> QED BY <1>3, <1>4

(* A slot counted from the opening of a later look at the clock, and taken  *)
(* from there at a third one, lies inside the window if less than a minute  *)
(* has passed since the count.                                              *)
LEMMA PolledSlotLands ==
    ASSUME NEW c \in Config, NEW t \in Nat, NEW u \in Nat, NEW v \in Nat,
           t <= u, u <= v, v - t < Minute,
           NEW i \in 0..(pollEnqueueCapacity(t, c) - 1)
    PROVE  InsideWindow(v + msUntilCallWindowOpens(u, c) + i * c.drip, c)
<1> DEFINE start == hhmmToSeconds(c.start)
           end == hhmmToSeconds(c.end)
           wait == i * c.drip
           opening == msUntilCallWindowOpens(u, c)
<1>1. /\ start \in Nat /\ end \in Nat /\ start <= end /\ start + Minute <= Day
      /\ wait \in Nat /\ wait <= end - start
      /\ (InsideWindow(t, c) => SecondsIntoDay(t) + wait <= end)
      /\ c.start \in Nat /\ c.end \in Nat
  BY ConfigTyped, CapacityFits
(* Every slot of this form is open. *)
<1>2. ASSUME NEW date \in Nat, isCallDayAllowed(c.days, date),
             NEW r \in Nat, start <= r, r + wait < end + Minute,
             v + opening = date * Day + r
      PROVE  InsideWindow(v + opening + wait, c)
  <2> HIDE DEF wait, opening
  <2> DEFINE s == r + wait
  <2>1. s \in Nat /\ hhmmToSeconds(c.start) <= s /\ s < hhmmToSeconds(c.end) + Minute
    BY <1>1, <1>2
  <2>2. InsideWindow(date * Day + s, c)
    <3> HIDE DEF s
    <3> QED BY <1>2, <2>1, WindowIsOpen
  <2>3. v + opening + wait = date * Day + s
    <3> DEFINE d == date * Day
    <3>1. d \in Nat /\ v + opening = d + r
      BY <1>2, ProductTyped
    <3> HIDE DEF d
    <3>2. v + opening + wait = d + (r + wait)
      BY <1>1, <1>2, <3>1
    <3> QED BY <3>2 DEF d
  <2> QED BY <2>2, <2>3
<1>3. /\ Today(t) \in Nat /\ SecondsIntoDay(t) \in 0..(Day - 1)
      /\ Today(t) * Day \in Nat /\ t = Today(t) * Day + SecondsIntoDay(t)
  BY MomentIs
<1>4. /\ Today(u) \in Nat /\ SecondsIntoDay(u) \in 0..(Day - 1)
      /\ Today(u) * Day \in Nat /\ u = Today(u) * Day + SecondsIntoDay(u)
  BY MomentIs
<1>5. CASE ~InsideWindow(u, c)
  <2>1. PICK date \in Nat : /\ isCallDayAllowed(c.days, date) /\ opening \in Nat \ {0}
                            /\ u + opening = date * Day + start
    BY <1>5, OpeningIs
  <2>2. date * Day \in Nat
    BY ProductTyped
  <2> DEFINE r == start + (v - u)
  <2> HIDE DEF start, end, wait, opening
  <2>3. r \in Nat /\ start <= r /\ r + wait < end + Minute /\ v + opening = date * Day + r
    BY <1>1, <2>1, <2>2
  <2> HIDE DEF r
  <2> QED BY <1>2, <2>1, <2>3 DEF opening, wait
<1>6. CASE InsideWindow(u, c) /\ InsideWindow(t, c)
  <2>1. isCallDayAllowed(c.days, Today(t)) /\ start <= SecondsIntoDay(t)
    BY <1>6, OpenWindowIs
  <2>2. opening = 0
    BY <1>6 DEF msUntilCallWindowOpens
  <2> DEFINE q == SecondsIntoDay(t)
             d == Today(t) * Day
             r == q + (v - t)
  <2>3. q \in Nat /\ start <= q /\ q + wait <= end /\ d \in Nat /\ t = d + q
    BY <1>1, <1>3, <1>6, <2>1
  <2>4. r \in Nat /\ start <= r /\ r + wait < end + Minute
    <3> HIDE DEF start, end, wait, opening, q, d
    <3> QED BY <1>1, <2>3
  <2>5. v + opening = d + r
    <3> HIDE DEF start, end, wait, opening, q, d
    <3> QED BY <2>2, <2>3
  <2> HIDE DEF start, end, wait, opening, r
  <2> QED BY <1>2, <1>3, <2>1, <2>4, <2>5 DEF opening, wait
<1>7. CASE InsideWindow(u, c) /\ ~InsideWindow(t, c)
  <2>1. isCallDayAllowed(c.days, Today(u)) /\ start <= SecondsIntoDay(u)
    BY <1>7, OpenWindowIs
  <2>2. opening = 0
    BY <1>7 DEF msUntilCallWindowOpens
  <2>3. t < Today(u) * Day + start
    <3>1. CASE Today(t) = Today(u)
      <4>1. SecondsIntoDay(t) <= SecondsIntoDay(u)
        BY <1>3, <1>4, <3>1
      <4>2. SecondsIntoDay(u) \div Minute <= c.end
        BY <1>7 DEF InsideWindow, withinCallWindow, NowHHMM
      <4>3. SUFFICES ASSUME start <= SecondsIntoDay(t) PROVE FALSE
        <5> HIDE DEF start
        <5> QED BY <1>1, <1>3, <3>1
      <4>4. SecondsIntoDay(u) < end + Minute
        <5> DEFINE q == SecondsIntoDay(u) \div Minute
                   m == SecondsIntoDay(u) % Minute
        <5>1. q \in Int /\ m \in 0..(Minute - 1) /\ SecondsIntoDay(u) = Minute * q + m
          <6>1. SecondsIntoDay(u) \in Int /\ Minute \in Nat \ {0}
            BY <1>4
          <6> HIDE DEF q, m
          <6> QED BY <6>1, Division DEF q, m
        <5>2. q <= c.end
          BY <4>2
        <5> HIDE DEF q, m
        <5>3. Minute * q <= Minute * c.end /\ Minute * q \in Int
          <6>1. Minute \in Nat /\ q \in Int /\ c.end \in Int
            BY <1>1, <5>1
          <6> QED BY <5>2, <6>1, ProductGrows
        <5>4. Minute * c.end = end
          BY <1>1, ProductTyped DEF hhmmToSeconds
        <5> HIDE DEF end
        <5> QED BY <1>1, <5>1, <5>3, <5>4
      <4>5. SecondsIntoDay(t) < end + Minute
        <5> HIDE DEF end
        <5> QED BY <1>1, <1>3, <1>4, <4>1, <4>4
      <4>6. InsideWindow(Today(t) * Day + SecondsIntoDay(t), c)
        <5>1. SecondsIntoDay(t) \in Nat
          BY <1>3
        <5> QED BY <1>3, <2>1, <3>1, <4>3, <4>5, <5>1, WindowIsOpen
      <4> QED BY <1>3, <1>7, <4>6
    <3>2. CASE Today(t) # Today(u)
      <4>1. Today(t) <= Today(u)
        BY TodayGrows
      <4>2. Today(t) + 1 <= Today(u)
        BY <1>3, <1>4, <3>2, <4>1
      <4>3. Day * (Today(t) + 1) <= Day * Today(u)
        <5>1. Day \in Nat /\ Today(t) + 1 \in Int /\ Today(u) \in Int
          BY <1>3, <1>4
        <5> QED BY <4>2, <5>1, ProductGrows
      <4>4. Day * (Today(t) + 1) = Today(t) * Day + Day /\ Day * Today(u) = Today(u) * Day
        BY <1>3, <1>4
      <4> DEFINE d == Today(t) * Day
                 e == Today(u) * Day
                 q == SecondsIntoDay(t)
      <4>5. d \in Nat /\ e \in Nat /\ d + Day <= e /\ t = d + q /\ q \in 0..(Day - 1)
        BY <1>3, <1>4, <4>3, <4>4
      <4> HIDE DEF d, e, q, start
      <4>6. t < e + start
        BY <1>1, <4>5
      <4> QED BY <4>6 DEF e
    <3> QED BY <3>1, <3>2
  <2> DEFINE d == Today(u) * Day
             q == SecondsIntoDay(u)
             r == v - d
  <2>4. r \in Nat /\ start <= r /\ r + wait < end + Minute /\ v + opening = d + r
    <3>1. d \in Nat /\ q \in Nat /\ u = d + q /\ start <= q /\ t < d + start
      BY <1>4, <2>1, <2>3
    <3> HIDE DEF start, end, wait, opening, d, q
    <3> QED BY <1>1, <2>2, <3>1
  <2> HIDE DEF start, end, wait, opening, r
  <2> QED BY <1>2, <1>4, <2>1, <2>4 DEF opening, wait
<1> QED BY <1>5, <1>6, <1>7

LEMMA QueueSlotTyped ==
    ASSUME NEW c \in Config, NEW t \in Nat, NEW slot \in Nat
    PROVE  msUntilQueueSlot(t, c, slot) \in Nat
<1> DEFINE cap == dailyWindowCapacity(c)
<1>1. cap \in Nat /\ c.drip \in Nat /\ ~(slot < 0)
  BY DailyCapacityIs, ConfigTyped
<1>2. ASSUME NEW index PROVE msToAllowedDayWindowStart(t, c, index) \in Nat
  <2> DEFINE days == DialingDays(t, c)
             nth == {d \in days : Cardinality({e \in days : e < d}) = index}
             start == UntilStart(t, c, CHOOSE d \in nth : TRUE)
  <2>1. days \subseteq Nat
    BY DEF DialingDays
  <2>2. nth # {} => start \in Int
    <3> SUFFICES ASSUME nth # {} PROVE start \in Int
      OBVIOUS
    <3>1. (CHOOSE d \in nth : TRUE) \in nth
      <4> HIDE DEF nth
      <4> QED OBVIOUS
    <3>2. (CHOOSE d \in nth : TRUE) \in Nat
      BY <2>1, <3>1
    <3> QED BY <3>2, UntilStartIs
  <2>3. 7 * Day \in Nat
    OBVIOUS
  <2>4. msToAllowedDayWindowStart(t, c, index) = IF nth = {} THEN 7 * Day ELSE MaxOf(start, 0)
    BY DEF msToAllowedDayWindowStart
  <2> HIDE DEF nth, start
  <2> QED BY <2>2, <2>3, <2>4 DEF MaxOf
<1>3. CASE cap <= 0
  BY <1>3, WaitTyped DEF msUntilQueueSlot
<1>4. CASE ~(cap <= 0)
  <2>1. slot % cap \in Nat
    <3>1. cap \in Nat \ {0}
      BY <1>1, <1>4
    <3> HIDE DEF cap
    <3>2. slot % cap \in 0..(cap - 1)
      BY <3>1
    <3> QED BY <3>1, <3>2
  <2>2. (slot % cap) * c.drip \in Nat
    BY <1>1, <2>1, ProductTyped
  <2>3. msUntilQueueSlot(t, c, slot)
            = msToAllowedDayWindowStart(t, c, slot \div cap) + (slot % cap) * c.drip
    BY <1>1, <1>4 DEF msUntilQueueSlot
  <2> QED BY <1>2, <2>2, <2>3
<1> QED BY <1>3, <1>4

-----------------------------------------------------------------------------
(* Type correctness.  A waiting row's contact has attempts left, a row that *)
(* is gone is the empty one, and the contact of a poll under way is due and *)
(* has no row until the poll writes it.                                     *)

PollHolds ==
    poll.stage # "idle" =>
        /\ poll.began <= now
        /\ row.status = "none"
        /\ ~contact.terminal
        /\ contact.attempts < config.maxAttempts
        /\ contact.nextEligible <= Today(now)

TypeInv ==
    /\ TypeOK
    /\ PollHolds
    /\ Pending => contact.attempts < config.maxAttempts
    /\ row.status = "none" => row = NoRow

LEMMA DayTyped ==
    ASSUME NEW t \in 0..Horizon
    PROVE  Today(t) \in Date
<1>1. Today(t) \in Nat /\ Today(Horizon) \in Nat /\ Today(t) <= Today(Horizon)
  BY MomentIs, TodayGrows
<1> QED BY <1>1 DEF Date

LEMMA GapTyped ==
    ASSUME NEW c \in Config, NEW n \in Nat, NEW date \in Nat
    PROVE  nextEligibleDate(n, c.gaps, date) \in Nat
<1>1. c.gaps \in Seq(Nat) /\ Len(c.gaps) \in Nat \ {0}
  BY ConfigTyped
<1>2. MinOf(n, Len(c.gaps) - 1) + 1 \in 1..Len(c.gaps)
  BY <1>1 DEF MinOf
<1>3. GapAfter(n, c.gaps) \in Nat
  BY <1>1, <1>2 DEF GapAfter
<1> QED BY <1>3 DEF nextEligibleDate, MaxOf

LEMMA NoRowTyped == NoRow \in Row
BY DEF NoRow, Row

LEMMA IdlePollTyped ==
    ASSUME NEW c \in Config
    PROVE  IdlePoll \in PollRun
<1>1. (CHOOSE d \in Config : TRUE) \in Config
  OBVIOUS
<1> QED BY <1>1 DEF IdlePoll, PollRun

LEMMA InitTyped == Init => TypeInv
<1> SUFFICES ASSUME Init PROVE TypeInv
  OBVIOUS
<1>1. contact \in Contact
  BY DEF Init, Contact
<1>2. contact.attempts <= config.maxAttempts
  BY ConfigTyped DEF Init
<1>3. poll \in PollRun /\ poll.stage = "idle"
  BY IdlePollTyped DEF Init, IdlePoll
<1> QED BY <1>1, <1>2, <1>3, NoRowTyped
        DEF Init, TypeInv, TypeOK, PollHolds, Pending, NoRow

LEMMA NextTyped ==
    ASSUME TypeInv, [Next]_vars
    PROVE  TypeInv'
<1>1. /\ now \in 0..Horizon /\ now \in Nat /\ config \in Config /\ contact \in Contact
      /\ row \in Row /\ edits \in 0..MaxEdits /\ contact.attempts <= config.maxAttempts
      /\ contact.attempts \in Nat /\ config.maxAttempts \in Nat
      /\ poll \in PollRun /\ poll.config \in Config /\ poll.delay \in Nat
      /\ contact.nextEligible \in Nat
  BY ConfigTyped DEF TypeInv, TypeOK, Contact, PollRun
<1>2. CASE Tick
  <2>1. now' = now + 1 /\ now' \in 0..Horizon /\ UNCHANGED <<config, contact, poll, row, edits>>
    BY <1>1, <1>2 DEF Tick
  <2>2. Today(now) \in Nat /\ Today(now + 1) \in Nat /\ Today(now) <= Today(now + 1)
    <3>1. now + 1 \in Nat /\ now <= now + 1
      BY <1>1
    <3> QED BY <1>1, <3>1, TodayGrows, MomentIs
  <2>3. PollHolds'
    <3>1. poll.began \in Nat
      BY DEF TypeInv, TypeOK, PollRun
    <3> QED BY <1>1, <2>1, <2>2, <3>1 DEF TypeInv, PollHolds
  <2> QED BY <1>1, <2>1, <2>3 DEF TypeInv, TypeOK, Pending
<1>3. CASE PollCounts
  <2>1. PICK i \in 0..(pollEnqueueCapacity(now, config) - 1) :
            poll' = [IdlePoll EXCEPT !.stage = "counted", !.config = config, !.began = now,
                                     !.delay = i * config.drip]
    BY <1>3 DEF PollCounts
  <2>2. i * config.drip \in Nat
    BY <1>1, CapacityFits
  <2>3. poll' \in PollRun
    BY <1>1, <2>1, <2>2, IdlePollTyped DEF PollRun
  <2>4. PollHolds'
    BY <1>1, <1>3, <2>1 DEF PollCounts, PollHolds, isEligible, IdlePoll
  <2> QED BY <1>1, <1>3, <2>3, <2>4 DEF PollCounts, TypeInv, TypeOK, Pending
<1>4. CASE PollSpaces
  <2>1. msUntilCallWindowOpens(now, poll.config) \in Nat
    BY <1>1, WaitTyped
  <2>2. msUntilCallWindowOpens(now, poll.config) + poll.delay \in Nat
    BY <1>1, <2>1
  <2>3. poll' \in PollRun
    BY <1>1, <1>4, <2>2 DEF PollSpaces, PollRun
  <2>4. PollHolds'
    BY <1>4 DEF PollSpaces, PollHolds, TypeInv
  <2> QED BY <1>1, <1>4, <2>3, <2>4 DEF PollSpaces, TypeInv, TypeOK, Pending
<1>5. CASE PollQueues
  <2>1. now - poll.began \in Nat
    <3>1. poll.began \in Nat /\ poll.began <= now
      BY <1>5 DEF PollQueues, TypeInv, TypeOK, PollRun, PollHolds
    <3> QED BY <1>1, <3>1
  <2>2. row' \in Row /\ row'.status = "pending"
    <3>1. PICK s \in {"poll", "queue"} :
            row' = [NoRow EXCEPT !.status = "pending", !.due = now + poll.delay,
                                 !.took = now - poll.began, !.slot = s]
      BY <1>5 DEF PollQueues
    <3>2. now + poll.delay \in Nat
      BY <1>1
    <3> QED BY <2>1, <3>1, <3>2 DEF Row, NoRow
  <2>3. poll' \in PollRun /\ PollHolds'
    BY <1>1, <1>5, IdlePollTyped DEF PollQueues, IdlePoll, PollHolds
  <2>4. contact.attempts < config.maxAttempts
    BY <1>5 DEF PollQueues, TypeInv, PollHolds
  <2> QED BY <1>1, <1>5, <2>2, <2>3, <2>4 DEF PollQueues, TypeInv, TypeOK
<1>6. CASE PollFails
  <2>1. poll' \in PollRun /\ PollHolds'
    BY <1>1, <1>6, IdlePollTyped DEF PollFails, IdlePoll, PollHolds
  <2> QED BY <1>1, <1>6, <2>1 DEF PollFails, TypeInv, TypeOK, Pending
(* While a row waits or is dialed there is no poll to disturb. *)
<1>7. ASSUME row.status # "none", UNCHANGED poll PROVE PollHolds'
  BY <1>7 DEF PollHolds, TypeInv
<1>8. ASSUME Pending, NEW c \in Config, Requeue(c)
      PROVE  row' \in Row /\ row'.status = "pending"
  <2>1. PICK slot \in 0..MaxSlot :
            row' = [row EXCEPT !.slot = "queue", !.deferrals = 0,
                               !.due = now + msUntilQueueSlot(now, c, slot)]
    BY <1>8 DEF Requeue
  <2>2. now + msUntilQueueSlot(now, c, slot) \in Nat
    <3>1. msUntilQueueSlot(now, c, slot) \in Nat
      <4>1. slot \in Nat
        OBVIOUS
      <4> QED BY <1>1, <4>1, QueueSlotTyped
    <3> QED BY <1>1, <3>1
  <2> QED BY <1>1, <1>8, <2>1, <2>2 DEF Row, Pending
<1>9. CASE SaveConfig
  <2>1. PICK c \in Config :
            /\ c.gaps = config.gaps /\ c.maxAttempts = config.maxAttempts
            /\ config' = c
            /\ IF Pending THEN Requeue(c) \/ KeepSlot ELSE UNCHANGED row
    BY <1>9 DEF SaveConfig
  <2>2. UNCHANGED <<now, contact, poll>> /\ edits' \in 0..MaxEdits
    BY <1>1, <1>9 DEF SaveConfig
  <2>3. ASSUME Pending PROVE row' \in Row /\ row'.status = "pending"
    <3>1. CASE Requeue(c)
      BY <1>8, <2>3, <3>1
    <3>2. CASE KeepSlot
      BY <1>1, <2>3, <3>2 DEF KeepSlot, Row, Pending
    <3> QED BY <2>1, <2>3, <3>1, <3>2
  <2>4. CASE Pending
    <3>1. PollHolds'
      BY <1>7, <2>2, <2>4 DEF Pending
    <3> QED BY <1>1, <2>1, <2>2, <2>3, <2>4, <3>1 DEF TypeInv, TypeOK, Pending
  <2>5. CASE ~Pending
    <3>1. PollHolds'
      BY <2>1, <2>2, <2>5 DEF PollHolds, TypeInv
    <3> QED BY <1>1, <2>1, <2>2, <2>5, <3>1 DEF TypeInv, TypeOK, Pending
  <2> QED BY <2>4, <2>5
<1>10. CASE Rebuild
  <2>1. row' \in Row /\ row'.status = "pending"
    BY <1>1, <1>8, <1>10 DEF Rebuild
  <2>2. PollHolds'
    BY <1>10, <1>7 DEF Rebuild, Pending
  <2> QED BY <1>1, <1>10, <2>1, <2>2 DEF Rebuild, TypeInv, TypeOK, Pending
<1>11. CASE Defer
  <2>1. now + deferMs(now, config) \in Nat
    <3>1. deferMs(now, config) \in Nat
      BY <1>1, WaitTyped
    <3> QED BY <1>1, <3>1
  <2>2. row' \in Row /\ row'.status = row.status
    <3>1. PICK n \in Nat : row' = [row EXCEPT !.due = now + deferMs(now, config),
                                              !.deferrals = n]
      <4>1. row.deferrals \in Nat
        BY <1>1 DEF Row
      <4>2. CASE row.due = now
        <5>1. row.deferrals + 1 \in Nat
          BY <4>1
        <5>2. row' = [row EXCEPT !.due = now + deferMs(now, config),
                                 !.deferrals = row.deferrals + 1]
          BY <1>11, <4>2 DEF Defer
        <5> QED BY <5>1, <5>2
      <4>3. CASE row.due # now
        <5>1. row' = [row EXCEPT !.due = now + deferMs(now, config),
                                 !.deferrals = row.deferrals]
          BY <1>11, <4>3 DEF Defer
        <5> QED BY <4>1, <5>1
      <4> QED BY <4>2, <4>3
    <3> QED BY <1>1, <2>1, <3>1 DEF Row
  <2>3. Pending
    BY <1>11 DEF Defer, Fire
  <2>4. PollHolds'
    BY <1>11, <1>7, <2>3 DEF Defer, Pending
  <2> QED BY <1>1, <1>11, <2>2, <2>3, <2>4 DEF Defer, TypeInv, TypeOK, Pending
<1>12. CASE Dial
  <2>1. Today(now) \in Date
    BY <1>1, DayTyped
  <2>2. contact' \in Contact /\ contact'.attempts = contact.attempts + 1
    <3>1. contact.first \in Date \cup {Never} /\ contact.attempts + 1 \in Nat
      BY <1>1 DEF Contact
    <3>2. PICK first \in Date \cup {Never} :
            contact' = [contact EXCEPT !.attempts = contact.attempts + 1,
                                       !.lastCalled = Today(now), !.first = first]
      BY <1>12, <2>1, <3>1 DEF Dial
    <3> QED BY <1>1, <2>1, <3>1, <3>2 DEF Contact
  <2>3. row' \in Row /\ row'.status = "dialing"
    BY <1>1, <1>12 DEF Dial, Row
  <2>4. contact.attempts + 1 <= config.maxAttempts
    BY <1>1, <1>12 DEF Dial, Fire, TypeInv
  <2>5. PollHolds'
    BY <1>12, <1>7 DEF Dial, Fire, Pending
  <2> QED BY <1>1, <1>12, <2>2, <2>3, <2>4, <2>5 DEF Dial, TypeInv, TypeOK, Pending
<1>13. CASE Complete
  <2>1. nextEligibleDate(contact.attempts, config.gaps, Today(now)) \in Nat
    <3>1. Today(now) \in Nat
      BY <1>1, MomentIs
    <3> QED BY <1>1, <3>1, GapTyped
  <2>2. contact' \in Contact /\ contact'.attempts = contact.attempts
    BY <1>1, <1>13, <2>1 DEF Complete, Contact
  <2>3. row' = NoRow /\ row'.status = "none"
    BY <1>13 DEF Complete, NoRow
  <2>4. PollHolds'
    BY <1>13, <1>7 DEF Complete
  <2> QED BY <1>1, <1>13, <2>2, <2>3, <2>4, NoRowTyped DEF Complete, TypeInv, TypeOK, Pending
<1>14. CASE UNCHANGED vars
  BY <1>14 DEF vars, TypeInv, TypeOK, PollHolds, Pending
<1> QED BY <1>2, <1>3, <1>4, <1>5, <1>6, <1>9, <1>10, <1>11, <1>12, <1>13, <1>14 DEF Next

(* Moments, configs, attempts and jobs keep their types: no job is due      *)
(* before the window's arithmetic can say when, and a contact is never      *)
(* dialed more often than the agent's maximum.                              *)
THEOREM ClockTypeCorrect == Spec => []TypeOK
<1>1. TypeInv => TypeOK
  BY DEF TypeInv
<1> QED BY <1>1, InitTyped, NextTyped, PTL DEF Spec

-----------------------------------------------------------------------------
(* Deferrals. *)

(* What a poll has computed so far: a slot that its count allows, and then  *)
(* the wait for the opening at some moment since.                           *)
SlotFits ==
    /\ poll.stage = "counted" =>
        \E i \in 0..(pollEnqueueCapacity(poll.began, poll.config) - 1) :
            poll.delay = i * poll.config.drip
    /\ poll.stage = "spaced" =>
        \E t \in Nat, i \in 0..(pollEnqueueCapacity(poll.began, poll.config) - 1) :
            /\ poll.began <= t /\ t <= now
            /\ poll.delay = msUntilCallWindowOpens(t, poll.config) + i * poll.config.drip

(* A job that waits in a slot of a poll that took less than a minute, or    *)
(* was deferred already, fires inside the window.                           *)
DueIsOpen ==
    /\ Pending
    /\ \/ row.slot = "poll" /\ row.took < Minute
       \/ row.deferrals > 0 /\ config.start <= config.end
    => InsideWindow(row.due, config)

DeferInv ==
    /\ SlotFits
    /\ DueIsOpen
    /\ PolledSlotIsOpen
    /\ DeferredOnce
    /\ row.status = "dialing" => row.deferrals <= 1

LEMMA DeferInit == Init => DeferInv
BY DEF Init, NoRow, IdlePoll, DeferInv, SlotFits, DueIsOpen, PolledSlotIsOpen, DeferredOnce,
        Pending

LEMMA SlotFitsKept ==
    ASSUME TypeInv, SlotFits, [Next]_vars
    PROVE  SlotFits'
<1>1. now \in Nat /\ config \in Config /\ poll \in PollRun /\ poll.began \in Nat
  BY DEF TypeInv, TypeOK, PollRun
<1>2. CASE Tick
  <2>1. now' = now + 1 /\ UNCHANGED poll
    BY <1>2 DEF Tick
  <2>2. \A t \in Nat : t <= now => t <= now'
    BY <1>1, <2>1
  <2> QED BY <2>1, <2>2 DEF SlotFits
<1>3. CASE PollCounts
  <2>1. /\ poll'.stage = "counted" /\ poll'.config = config /\ poll'.began = now
        /\ \E i \in 0..(pollEnqueueCapacity(now, config) - 1) : poll'.delay = i * config.drip
    BY <1>3 DEF PollCounts, IdlePoll
  <2> QED BY <2>1 DEF SlotFits
<1>4. CASE PollSpaces
  <2> DEFINE opening == msUntilCallWindowOpens(now, poll.config)
  <2>1. PICK i \in 0..(pollEnqueueCapacity(poll.began, poll.config) - 1) :
            poll.delay = i * poll.config.drip
    BY <1>4 DEF PollSpaces, SlotFits
  <2>2. /\ poll'.stage = "spaced" /\ poll'.config = poll.config /\ poll'.began = poll.began
        /\ poll'.delay = opening + poll.delay /\ UNCHANGED now
    BY <1>1, <1>4 DEF PollSpaces, PollRun
  <2>3. poll.began <= now
    BY <1>4 DEF PollSpaces, TypeInv, PollHolds
  <2>4. poll'.delay = opening + i * poll.config.drip
    BY <2>1, <2>2
  <2>5. \E t \in Nat, k \in 0..(pollEnqueueCapacity(poll.began, poll.config) - 1) :
            /\ poll.began <= t /\ t <= now
            /\ poll'.delay = msUntilCallWindowOpens(t, poll.config) + k * poll.config.drip
    BY <1>1, <2>3, <2>4
  <2> QED BY <2>2, <2>5 DEF SlotFits
<1>5. CASE PollQueues \/ PollFails
  BY <1>5 DEF PollQueues, PollFails, IdlePoll, SlotFits
<1>6. CASE SaveConfig \/ Rebuild \/ Defer \/ Dial \/ Complete \/ UNCHANGED vars
  <2>1. UNCHANGED <<now, poll>>
    BY <1>6 DEF SaveConfig, Rebuild, Defer, Dial, Complete, vars
  <2> QED BY <2>1 DEF SlotFits
<1> QED BY <1>2, <1>3, <1>4, <1>5, <1>6 DEF Next

(* The row that a poll writes in less than a minute is due in the window.  *)
LEMMA QueuedSlotLands ==
    ASSUME TypeInv, SlotFits, PollQueues, now - poll.began < Minute
    PROVE  InsideWindow(now + poll.delay, poll.config)
<1>1. now \in Nat /\ poll.config \in Config /\ poll.began \in Nat
  BY DEF TypeInv, TypeOK, PollRun
<1>2. PICK t \in Nat, i \in 0..(pollEnqueueCapacity(poll.began, poll.config) - 1) :
            /\ poll.began <= t /\ t <= now
            /\ poll.delay = msUntilCallWindowOpens(t, poll.config) + i * poll.config.drip
  BY DEF PollQueues, SlotFits
<1>3. InsideWindow(now + msUntilCallWindowOpens(t, poll.config) + i * poll.config.drip,
                   poll.config)
  BY <1>1, <1>2, PolledSlotLands
<1>4. /\ msUntilCallWindowOpens(t, poll.config) \in Nat
      /\ i * poll.config.drip \in Nat
  BY <1>1, WaitTyped, CapacityFits
<1>5. now + poll.delay = now + msUntilCallWindowOpens(t, poll.config) + i * poll.config.drip
  BY <1>1, <1>2, <1>4
<1> QED BY <1>3, <1>5

LEMMA DeferKept ==
    ASSUME TypeInv, DeferInv, [Next]_vars
    PROVE  DeferInv'
<1>1. SlotFits'
  BY SlotFitsKept DEF DeferInv
<1> USE DEF DeferInv, DueIsOpen, PolledSlotIsOpen, DeferredOnce, Pending
<1>2. /\ now \in Nat /\ config \in Config /\ row \in Row /\ row.due \in Nat
      /\ row.deferrals \in Nat /\ config.start \in Nat /\ config.end \in Nat
      /\ (row.status = "none" => row = NoRow)
  BY ConfigTyped DEF TypeInv, TypeOK, Row
<1>3. CASE Tick
  BY <1>1, <1>3 DEF Tick
<1>4. CASE PollCounts \/ PollSpaces \/ PollFails
  BY <1>1, <1>4 DEF PollCounts, PollSpaces, PollFails
<1>5. CASE PollQueues
  <2>1. /\ row'.due = now + poll.delay /\ row'.took = now - poll.began
        /\ row'.deferrals = 0 /\ row'.status = "pending"
        /\ row'.slot = IF poll.config = config THEN "poll" ELSE "queue"
        /\ UNCHANGED config
    BY <1>5 DEF PollQueues, NoRow
  <2>2. ASSUME row'.slot = "poll", row'.took < Minute PROVE InsideWindow(row'.due, config)
    <3>1. poll.config = config /\ InsideWindow(now + poll.delay, poll.config)
      BY <1>5, <2>1, <2>2, QueuedSlotLands
    <3> QED BY <2>1, <3>1
  <2> QED BY <1>1, <2>1, <2>2
<1>6. ASSUME row'.slot = "queue", row'.deferrals = 0 PROVE DeferInv'
  BY <1>1, <1>6
<1>7. ASSUME NEW c \in Config, Requeue(c) \/ KeepSlot
      PROVE  row'.slot = "queue" /\ row'.deferrals = 0
  BY <1>2, <1>7 DEF Requeue, KeepSlot, Row
<1>8. CASE SaveConfig
  <2>1. CASE Pending
    <3>1. PICK c \in Config : Requeue(c) \/ KeepSlot
      BY <1>8, <2>1 DEF SaveConfig
    <3> QED BY <1>6, <1>7, <3>1
  <2>2. CASE ~Pending
    <3>1. UNCHANGED row
      BY <1>8, <2>2 DEF SaveConfig
    <3>2. row.status \in {"none", "dialing"} /\ (row.status = "none" => row.deferrals = 0)
      BY <1>2, <2>2 DEF Row, NoRow
    <3> QED BY <1>1, <1>2, <2>2, <3>1, <3>2
  <2> QED BY <2>1, <2>2
<1>9. CASE Rebuild
  BY <1>2, <1>6, <1>7, <1>9 DEF Rebuild
<1>10. CASE Defer
  <2>1. /\ Pending /\ row.due <= now /\ ~InsideWindow(now, config) /\ UNCHANGED config
        /\ row'.due = now + deferMs(now, config)
        /\ row'.slot = row.slot /\ row'.took = row.took /\ row'.status = row.status
        /\ row'.deferrals = IF row.due = now THEN row.deferrals + 1 ELSE row.deferrals
    BY <1>2, <1>10 DEF Defer, Fire, Row
  <2>2. config.start <= config.end => InsideWindow(row'.due, config)
    BY <1>2, <2>1, DeferralLands
  <2>3. row.slot = "poll" /\ row.took < Minute => config.start <= config.end /\ row.due # now
    BY <1>2, <2>1, OpenWindowIs
  <2>4. config.start <= config.end /\ row.due = now => row.deferrals = 0
    BY <1>2, <2>1
  <2> QED BY <1>1, <1>2, <2>1, <2>2, <2>3, <2>4
<1>11. CASE Dial
  <2>1. row'.deferrals = row.deferrals /\ row'.slot = row.slot /\ row'.status = "dialing"
        /\ row'.took = row.took /\ UNCHANGED config /\ InsideWindow(now, config)
    BY <1>2, <1>11 DEF Dial, Row
  <2>2. config.start <= config.end
    BY <1>2, <2>1, OpenWindowIs
  <2> QED BY <1>1, <2>1, <2>2
<1>12. CASE Complete
  BY <1>1, <1>12 DEF Complete, NoRow
<1>13. CASE UNCHANGED vars
  BY <1>1, <1>13 DEF vars
<1> QED BY <1>3, <1>4, <1>5, <1>8, <1>9, <1>10, <1>11, <1>12, <1>13 DEF Next

LEMMA DeferInvariant == Spec => []DeferInv
BY DeferInit, DeferKept, InitTyped, NextTyped, PTL DEF Spec

(* The slot of a poll that takes less than a minute never falls outside the *)
(* window: whatever the second at which the poll counts, the moments since  *)
(* at which it looks at the opening and writes the row, the days of the     *)
(* window and the drip, a job that fires on time dials.                     *)
THEOREM PolledSlotsDial == Spec => []PolledSlotIsOpen
<1>1. DeferInv => PolledSlotIsOpen
  BY DEF DeferInv
<1> QED BY <1>1, DeferInvariant, PTL

(* A deferral lands in an open window, over nights, off days, edits of the  *)
(* window and rebuilt jobs.                                                 *)
THEOREM DeferralsEnd == Spec => []DeferredOnce
<1>1. DeferInv => DeferredOnce
  BY DEF DeferInv
<1> QED BY <1>1, DeferInvariant, PTL

-----------------------------------------------------------------------------
(* The schedule of the attempts. *)

(* The wait before the next attempt, after n of them. *)
Pause(gaps, n) == MaxOf(gaps[MinOf(n + 1, Len(gaps))], 1)

(* The function that WaitUpTo evaluates. *)
IsWait(w, gaps, n) ==
    w = [k \in 0..n |-> IF k <= 1 THEN 0
                        ELSE w[k - 1] + MaxOf(gaps[MinOf(k, Len(gaps))], 1)]

(* It exists for the attempts made so far, and however it is chosen the     *)
(* days since the first attempt reach what it says.                         *)
DaysKept ==
    LET n == contact.attempts
    IN  /\ \E w : IsWait(w, config.gaps, n)
        /\ \A w : IsWait(w, config.gaps, n) =>
                    w[n] \in Nat /\ contact.lastCalled - contact.first >= w[n]

(* The next attempt waits for its day. *)
NextKept ==
    LET day == contact.lastCalled + Pause(config.gaps, contact.attempts)
    IN  /\ row.status = "none" /\ ~contact.terminal => contact.nextEligible >= day
        /\ Pending => Today(now) >= day

ScheduleInv ==
    /\ row.status = "dialing" => contact.attempts > 0
    /\ contact.attempts = 0 => contact.first = Never
    /\ contact.attempts > 0 =>
        /\ contact.first # Never /\ contact.lastCalled # Never
        /\ contact.lastCalled <= Today(now)
        /\ DaysKept
        /\ NextKept

LEMMA PauseTyped ==
    ASSUME NEW c \in Config, NEW n \in Nat
    PROVE  /\ Pause(c.gaps, n) \in Nat \ {0}
           /\ \A date : nextEligibleDate(n, c.gaps, date) = date + Pause(c.gaps, n)
<1>1. c.gaps \in Seq(Nat) /\ Len(c.gaps) \in Nat \ {0}
  BY ConfigTyped
<1>2. MinOf(n + 1, Len(c.gaps)) \in 1..Len(c.gaps)
      /\ MinOf(n, Len(c.gaps) - 1) + 1 = MinOf(n + 1, Len(c.gaps))
  BY <1>1 DEF MinOf
<1>3. c.gaps[MinOf(n + 1, Len(c.gaps))] \in Nat
  BY <1>1, <1>2
<1> QED BY <1>2, <1>3 DEF Pause, MaxOf, nextEligibleDate, GapAfter

LEMMA FirstWait ==
    ASSUME NEW gaps
    PROVE  /\ \E w : IsWait(w, gaps, 1)
           /\ \A w : IsWait(w, gaps, 1) => w[1] = 0
<1>1. IsWait([k \in 0..1 |-> 0], gaps, 1)
  BY DEF IsWait
<1>2. \A w : IsWait(w, gaps, 1) => w[1] = 0
  BY DEF IsWait
<1> QED BY <1>1, <1>2

(* One attempt more. *)
LEMMA NextWait ==
    ASSUME NEW gaps, NEW n \in Nat \ {0}
    PROVE  /\ (\E w : IsWait(w, gaps, n)) => \E w : IsWait(w, gaps, n + 1)
           /\ \A w : IsWait(w, gaps, n + 1) =>
                \E v : IsWait(v, gaps, n) /\ w[n + 1] = v[n] + Pause(gaps, n)
<1> DEFINE pause(k) == MaxOf(gaps[MinOf(k, Len(gaps))], 1)
<1>1. ASSUME NEW w, IsWait(w, gaps, n)
      PROVE  IsWait([k \in 0..(n + 1) |-> IF k = n + 1 THEN w[n] + pause(n + 1) ELSE w[k]],
                    gaps, n + 1)
  <2> HIDE DEF pause
  <2> DEFINE v == [k \in 0..(n + 1) |-> IF k = n + 1 THEN w[n] + pause(n + 1) ELSE w[k]]
  <2>1. \A k \in 0..n : w[k] = IF k <= 1 THEN 0 ELSE w[k - 1] + pause(k)
    BY <1>1 DEF IsWait, pause
  <2>2. ASSUME NEW k \in 0..(n + 1)
        PROVE  v[k] = IF k <= 1 THEN 0 ELSE v[k - 1] + pause(k)
    <3>1. CASE k = n + 1
      <4>1. ~(k <= 1) /\ k - 1 = n /\ v[k - 1] = w[n]
        BY <3>1
      <4> QED BY <3>1, <4>1
    <3>2. CASE k # n + 1
      <4>1. v[k] = w[k] /\ k \in 0..n
        BY <3>2
      <4>2. ~(k <= 1) => v[k - 1] = w[k - 1]
        BY <3>2
      <4> QED BY <2>1, <4>1, <4>2
    <3> QED BY <3>1, <3>2
  <2>3. v = [k \in 0..(n + 1) |-> v[k]]
    OBVIOUS
  <2> HIDE DEF v
  <2>4. v = [k \in 0..(n + 1) |-> IF k <= 1 THEN 0 ELSE v[k - 1] + pause(k)]
    BY <2>2, <2>3
  <2>5. IsWait(v, gaps, n + 1)
    BY <2>4 DEF IsWait, pause
  <2> QED BY <2>5 DEF v
<1>2. ASSUME NEW w, IsWait(w, gaps, n + 1)
      PROVE  \E v : IsWait(v, gaps, n) /\ w[n + 1] = v[n] + Pause(gaps, n)
  <2> DEFINE v == [k \in 0..n |-> w[k]]
  <2> HIDE DEF pause
  <2>1. \A k \in 0..(n + 1) : w[k] = IF k <= 1 THEN 0 ELSE w[k - 1] + pause(k)
    BY <1>2 DEF IsWait, pause
  <2>2. \A k \in 0..n : v[k] = IF k <= 1 THEN 0 ELSE v[k - 1] + pause(k)
    BY <2>1
  <2>3. w[n + 1] = v[n] + pause(n + 1)
    <3>1. n + 1 \in 0..(n + 1) /\ ~(n + 1 <= 1) /\ (n + 1) - 1 = n /\ v[n] = w[n]
      OBVIOUS
    <3> HIDE DEF v
    <3> QED BY <2>1, <3>1
  <2>4. v = [k \in 0..n |-> v[k]]
    OBVIOUS
  <2> HIDE DEF v
  <2>5. v = [k \in 0..n |-> IF k <= 1 THEN 0 ELSE v[k - 1] + pause(k)]
    BY <2>2, <2>4
  <2>6. IsWait(v, gaps, n) /\ w[n + 1] = v[n] + Pause(gaps, n)
    BY <2>3, <2>5 DEF IsWait, pause, Pause
  <2> QED BY <2>6
<1> QED BY <1>1, <1>2

LEMMA KeptIsEnough ==
    ASSUME DaysKept
    PROVE  contact.lastCalled - contact.first >= WaitUpTo(config.gaps, contact.attempts)
<1> DEFINE n == contact.attempts
           w == CHOOSE w : IsWait(w, config.gaps, n)
<1>1. IsWait(w, config.gaps, n)
  BY DEF DaysKept
<1>2. contact.lastCalled - contact.first >= w[n]
  BY <1>1 DEF DaysKept
<1>3. WaitUpTo(config.gaps, n) = w[n]
  BY DEF WaitUpTo, IsWait
<1> QED BY <1>2, <1>3

LEMMA ScheduleInit == Init => ScheduleInv
BY DEF Init, NoRow, ScheduleInv

LEMMA ScheduleKept ==
    ASSUME TypeInv, ScheduleInv, [Next]_vars
    PROVE  ScheduleInv'
<1> DEFINE n == contact.attempts
<1>1. /\ now \in Nat /\ now \in 0..Horizon /\ config \in Config /\ row \in Row
      /\ contact \in Contact /\ n \in Nat /\ Today(now) \in Nat
      /\ contact.first \in Date \cup {Never} /\ contact.lastCalled \in Date \cup {Never}
      /\ contact.nextEligible \in Nat
      /\ Pause(config.gaps, n) \in Nat \ {0}
  <2>1. now \in Nat /\ now \in 0..Horizon /\ contact \in Contact /\ config \in Config
        /\ row \in Row
    BY DEF TypeInv, TypeOK
  <2>2. n \in Nat
    BY <2>1 DEF Contact
  <2> QED BY <2>1, <2>2, MomentIs, PauseTyped DEF Contact
<1>2. Date \subseteq Nat /\ Never \notin Date
  BY DEF Date, Never
<1>3. n > 0 => contact.lastCalled \in Nat /\ contact.lastCalled <= Today(now)
  <2>1. n > 0 => contact.lastCalled # Never /\ contact.lastCalled <= Today(now)
    BY DEF ScheduleInv
  <2> QED BY <1>1, <1>2, <2>1
(* The contact, its config's gaps and the row's status stay. *)
<1>4. ASSUME UNCHANGED contact, config'.gaps = config.gaps, row'.status = row.status,
             Today(now') \in Nat, Today(now') >= Today(now)
      PROVE  ScheduleInv'
  <2>1. DaysKept => DaysKept'
    BY <1>4 DEF DaysKept
  <2>2. n > 0 => NextKept'
    <3> SUFFICES ASSUME n > 0 PROVE NextKept'
      OBVIOUS
    <3> DEFINE day == contact.lastCalled + Pause(config.gaps, n)
    <3>1. day \in Int
      BY <1>1, <1>3
    <3>2. /\ row.status = "none" /\ ~contact.terminal => contact.nextEligible >= day
          /\ row.status = "pending" => Today(now) >= day
      BY DEF ScheduleInv, NextKept, Pending
    <3> HIDE DEF day
    <3>3. /\ row.status = "none" /\ ~contact.terminal => contact.nextEligible >= day
          /\ row.status = "pending" => Today(now') >= day
      BY <1>1, <1>4, <3>1, <3>2
    <3> QED BY <1>4, <3>3 DEF NextKept, Pending, day
  <2>3. n > 0 => contact.lastCalled <= Today(now')
    BY <1>1, <1>4, <1>3
  <2> QED BY <1>4, <2>1, <2>2, <2>3 DEF ScheduleInv
<1>5. CASE Tick
  <2>1. now' = now + 1 /\ UNCHANGED <<config, contact, row>>
    BY <1>5 DEF Tick
  <2>2. Today(now + 1) \in Nat /\ Today(now + 1) >= Today(now)
    <3>1. now + 1 \in Nat /\ now <= now + 1
      BY <1>1
    <3>2. Today(now) <= Today(now + 1) /\ Today(now + 1) \in Nat
      BY <1>1, <3>1, TodayGrows, MomentIs
    <3> QED BY <1>1, <3>2
  <2> QED BY <1>4, <2>1, <2>2
<1>6. CASE PollQueues
  <2>1. /\ UNCHANGED <<now, config, contact>> /\ row'.status = "pending"
        /\ row.status = "none" /\ ~contact.terminal /\ contact.nextEligible <= Today(now)
    BY <1>6 DEF PollQueues, NoRow, TypeInv, PollHolds
  <2>2. DaysKept => DaysKept'
    BY <2>1 DEF DaysKept
  <2>3. n > 0 => NextKept'
    <3> SUFFICES ASSUME n > 0 PROVE NextKept'
      OBVIOUS
    <3> DEFINE day == contact.lastCalled + Pause(config.gaps, n)
    <3>1. day \in Int
      BY <1>1, <1>3
    <3>2. contact.nextEligible >= day
      BY <2>1 DEF ScheduleInv, NextKept
    <3> HIDE DEF day
    <3>3. Today(now) >= day
      BY <1>1, <2>1, <3>1, <3>2
    <3> QED BY <2>1, <3>3 DEF NextKept, Pending, day
  <2> QED BY <2>1, <2>2, <2>3 DEF ScheduleInv
<1>7. ASSUME UNCHANGED <<now, contact>>, config'.gaps = config.gaps, row'.status = row.status
      PROVE  ScheduleInv'
  BY <1>1, <1>4, <1>7
<1>8. CASE PollCounts \/ PollSpaces \/ PollFails
  BY <1>1, <1>7, <1>8 DEF PollCounts, PollSpaces, PollFails
<1>9. ASSUME NEW c \in Config, Requeue(c) \/ KeepSlot PROVE row'.status = row.status
  BY <1>1, <1>9 DEF Requeue, KeepSlot, Row
<1>10. CASE SaveConfig
  BY <1>7, <1>9, <1>10 DEF SaveConfig
<1>11. CASE Rebuild
  BY <1>1, <1>7, <1>9, <1>11 DEF Rebuild
<1>12. CASE Defer
  BY <1>1, <1>7, <1>12 DEF Defer, Row
<1>13. CASE Dial
  <2>1. /\ UNCHANGED <<now, config>> /\ row'.status = "dialing" /\ Pending
        /\ contact'.attempts = n + 1 /\ contact'.lastCalled = Today(now)
        /\ contact'.first = IF contact.first = Never THEN Today(now) ELSE contact.first
    BY <1>1, <1>13 DEF Dial, Fire, Row, Contact
  <2>2. Today(now) # Never
    BY <1>1 DEF Never
  <2>3. DaysKept'
    <3>1. CASE n = 0
      <4>1. contact.first = Never
        BY <3>1 DEF ScheduleInv
      <4>2. contact'.attempts = 1 /\ contact'.first = Today(now) /\ config'.gaps = config.gaps
        BY <2>1, <3>1, <4>1
      <4>3. /\ \E w : IsWait(w, config.gaps, 1)
            /\ \A w : IsWait(w, config.gaps, 1) => w[1] \in Nat /\ Today(now) - Today(now) >= w[1]
        BY <1>1, FirstWait
      <4> QED BY <2>1, <4>2, <4>3 DEF DaysKept
    <3>2. CASE n # 0
      <4>1. /\ contact.first # Never /\ contact.lastCalled # Never /\ DaysKept
            /\ Today(now) >= contact.lastCalled + Pause(config.gaps, n)
        BY <1>1, <2>1, <3>2 DEF ScheduleInv, NextKept
      <4>2. \E w : IsWait(w, config.gaps, n + 1)
        BY <1>1, <3>2, <4>1, NextWait DEF DaysKept
      <4>3. ASSUME NEW w, IsWait(w, config.gaps, n + 1)
            PROVE  w[n + 1] \in Nat /\ Today(now) - contact.first >= w[n + 1]
        <5>1. \A u : IsWait(u, config.gaps, n + 1) =>
                \E v : IsWait(v, config.gaps, n) /\ u[n + 1] = v[n] + Pause(config.gaps, n)
          BY <1>1, <3>2, NextWait
        <5>2. PICK v : IsWait(v, config.gaps, n) /\ w[n + 1] = v[n] + Pause(config.gaps, n)
          BY <4>3, <5>1
        <5>3. v[n] \in Nat /\ contact.lastCalled - contact.first >= v[n]
          BY <4>1, <5>2 DEF DaysKept
        <5>4. contact.lastCalled \in Nat /\ contact.first \in Nat
          BY <1>1, <1>2, <4>1
        <5> QED BY <1>1, <4>1, <5>2, <5>3, <5>4
      <4>4. contact'.attempts = n + 1 /\ contact'.first = contact.first
            /\ contact'.lastCalled = Today(now) /\ config'.gaps = config.gaps
        BY <2>1, <4>1
      <4> HIDE DEF n
      <4> QED BY <4>2, <4>3, <4>4 DEF DaysKept
    <3> QED BY <3>1, <3>2
  <2>4. NextKept'
    BY <2>1 DEF NextKept, Pending
  <2>5. contact'.first # Never /\ contact'.attempts > 0 /\ contact'.attempts # 0
    BY <1>1, <2>1, <2>2
  <2>6. contact'.lastCalled <= Today(now')
    BY <1>1, <2>1
  <2> QED BY <2>1, <2>2, <2>3, <2>4, <2>5, <2>6 DEF ScheduleInv
<1>14. CASE Complete
  <2>1. /\ UNCHANGED <<now, config>> /\ row.status = "dialing" /\ row'.status = "none"
        /\ contact'.attempts = n /\ contact'.first = contact.first
        /\ contact'.lastCalled = contact.lastCalled
        /\ \/ contact'.terminal = TRUE
           \/ contact'.nextEligible = nextEligibleDate(n, config.gaps, Today(now))
    BY <1>1, <1>14 DEF Complete, NoRow, Contact
  <2>2. /\ n > 0 /\ contact.lastCalled <= Today(now) /\ contact.lastCalled \in Nat
    BY <1>1, <1>2, <2>1 DEF ScheduleInv
  <2>3. nextEligibleDate(n, config.gaps, Today(now)) = Today(now) + Pause(config.gaps, n)
    BY <1>1, PauseTyped
  <2>4. nextEligibleDate(n, config.gaps, Today(now)) >= contact.lastCalled + Pause(config.gaps, n)
    BY <1>1, <2>2, <2>3
  <2>5. NextKept'
    BY <2>1, <2>4 DEF NextKept, Pending
  <2>6. DaysKept => DaysKept'
    BY <2>1 DEF DaysKept
  <2> QED BY <1>1, <2>1, <2>2, <2>5, <2>6 DEF ScheduleInv
<1>15. CASE UNCHANGED vars
  BY <1>1, <1>7, <1>15 DEF vars
<1> QED BY <1>5, <1>6, <1>8, <1>10, <1>11, <1>12, <1>13, <1>14, <1>15 DEF Next

(* No dial comes before its day: whatever the gaps of the agent, the polls, *)
(* the edits of the window and late jobs, the n-th dial is at least as many *)
(* days after the first as the gaps before it add up to.                    *)
THEOREM ScheduleIsKept == Spec => []AttemptsKeepTheSchedule
<1>1. ScheduleInv => AttemptsKeepTheSchedule
  BY KeptIsEnough DEF ScheduleInv, AttemptsKeepTheSchedule
<1>2. TypeInv /\ ScheduleInv /\ [Next]_vars => ScheduleInv'
  BY ScheduleKept
<1> QED BY <1>1, <1>2, ScheduleInit, InitTyped, NextTyped, PTL DEF Spec

-----------------------------------------------------------------------------
(* The slots of a queue. *)

(* Every slot has its dialing day within the look-ahead. *)
SlotsInLookAhead ==
    \A c \in Config : \A t \in 0..Horizon :
        dailyWindowCapacity(c) > 0 =>
            MaxSlot \div dailyWindowCapacity(c) < Cardinality(DialingDays(t, c))

LEMMA DaysFinite ==
    ASSUME NEW S \in SUBSET (0..LookAhead)
    PROVE  IsFiniteSet(S) /\ Cardinality(S) \in Nat
<1>1. IsFiniteSet(0..LookAhead)
  BY FS_Interval
<1>2. IsFiniteSet(S)
  BY <1>1, FS_Subset
<1> QED BY <1>2, FS_CardinalityType

(* Among more than i days there is one that i others come before. *)
LEMMA NthDay ==
    ASSUME NEW S \in SUBSET (0..LookAhead), NEW i \in Nat, i < Cardinality(S)
    PROVE  \E d \in S : Cardinality({e \in S : e < d}) = i
<1> DEFINE upTo(n) == {e \in S : e <= n}
           B == {n \in 0..LookAhead : Cardinality(upTo(n)) > i}
<1> HIDE DEF upTo, B
<1>1. \A e \in S : e \in Nat /\ e <= LookAhead
  OBVIOUS
<1>2. B # {}
  <2>1. upTo(LookAhead) = S
    BY <1>1 DEF upTo
  <2>2. LookAhead \in 0..LookAhead
    OBVIOUS
  <2> QED BY <2>1, <2>2 DEF B
<1>3. PICK n \in B : \A m \in B : n <= m
  <2>1. B \in SUBSET (0..LookAhead) /\ LookAhead \in Nat
    BY DEF B
  <2> QED BY <1>2, <2>1, LeastDay
<1>4. n \in 0..LookAhead /\ Cardinality(upTo(n)) > i
  BY DEF B
<1>5. \A m \in Nat : Cardinality(upTo(m)) \in Nat /\ IsFiniteSet(upTo(m))
  BY DaysFinite DEF upTo
<1>6. ASSUME n > 0 PROVE Cardinality(upTo(n - 1)) <= i
  <2>1. n - 1 \in 0..LookAhead /\ n - 1 \in Nat /\ ~(n <= n - 1)
    BY <1>4, <1>6
  <2>2. ~(Cardinality(upTo(n - 1)) > i)
    BY <1>3, <2>1 DEF B
  <2>3. Cardinality(upTo(n - 1)) \in Nat
    BY <1>5, <2>1
  <2> QED BY <2>2, <2>3
<1>7. n \in S
  <2> SUFFICES ASSUME n \notin S PROVE FALSE
    OBVIOUS
  <2>1. CASE n = 0
    <3>1. upTo(n) = {}
      <4>1. \A e \in S : e # n
        OBVIOUS
      <4>2. \A e \in S : ~(e <= n)
        BY <1>1, <2>1, <4>1
      <4> QED BY <4>2 DEF upTo
    <3>2. Cardinality(upTo(n)) = 0
      BY <3>1, FS_EmptySet
    <3> QED BY <1>4, <3>2
  <2>2. CASE n > 0
    <3>1. upTo(n) = upTo(n - 1)
      <4>1. \A e \in S : e <= n <=> e <= n - 1
        BY <1>1, <1>4
      <4> QED BY <4>1 DEF upTo
    <3>2. Cardinality(upTo(n - 1)) \in Nat
      <4>1. n - 1 \in Nat
        BY <1>4, <2>2
      <4> QED BY <1>5, <4>1
    <3> QED BY <1>4, <1>6, <2>2, <3>1, <3>2
  <2> QED BY <1>4, <2>1, <2>2
<1> DEFINE before == {e \in S : e < n}
<1>8. before = upTo(n) \ {n} /\ n \in upTo(n)
  <2>1. \A e \in S : e < n <=> e <= n /\ e # n
    BY <1>1, <1>4
  <2>2. n <= n
    BY <1>4
  <2> QED BY <1>7, <2>1, <2>2 DEF upTo
<1>9. Cardinality(before) = Cardinality(upTo(n)) - 1
  <2> HIDE DEF before
  <2>1. IsFiniteSet(upTo(n))
    BY <1>4, <1>5
  <2> QED BY <1>8, <2>1, FS_RemoveElement
<1>10. Cardinality(before) <= i
  <2>1. CASE n = 0
    <3>1. before = {}
      <4>1. \A e \in S : ~(e < n)
        BY <1>1, <2>1
      <4> QED BY <4>1
    <3>2. Cardinality(before) = 0
      BY <3>1, FS_EmptySet
    <3> QED BY <3>2
  <2>2. CASE n > 0
    <3>1. before = upTo(n - 1)
      <4>1. \A e \in S : e < n <=> e <= n - 1
        BY <1>1, <1>4
      <4> QED BY <4>1 DEF upTo
    <3> HIDE DEF before
    <3> QED BY <1>6, <2>2, <3>1
  <2> QED BY <1>4, <2>1, <2>2
<1>11. Cardinality(before) = i
  <2>1. Cardinality(upTo(n)) \in Nat /\ Cardinality(upTo(n)) > i
    BY <1>4, <1>5
  <2> HIDE DEF before
  <2> QED BY <1>9, <1>10, <2>1
<1> QED BY <1>7, <1>11

(* The opening of the index-th dialing day. *)
LEMMA AllowedDayIs ==
    ASSUME NEW c \in Config, NEW t \in Nat, NEW index \in Nat,
           index < Cardinality(DialingDays(t, c))
    PROVE  \E d \in DialingDays(t, c) :
            /\ Cardinality({e \in DialingDays(t, c) : e < d}) = index
            /\ msToAllowedDayWindowStart(t, c, index) = MaxOf(UntilStart(t, c, d), 0)
<1> DEFINE days == DialingDays(t, c)
           nth == {d \in days : Cardinality({e \in days : e < d}) = index}
<1>1. days \in SUBSET (0..LookAhead)
  BY DEF DialingDays
<1>2. nth # {}
  <2> HIDE DEF days
  <2>1. \E d \in days : Cardinality({e \in days : e < d}) = index
    BY <1>1, NthDay DEF days
  <2> QED BY <2>1
<1>3. msToAllowedDayWindowStart(t, c, index) = MaxOf(UntilStart(t, c, CHOOSE d \in nth : TRUE), 0)
  BY <1>2 DEF msToAllowedDayWindowStart
<1>4. (CHOOSE d \in nth : TRUE) \in nth
  <2> HIDE DEF nth
  <2> QED BY <1>2
<1> QED BY <1>3, <1>4

LEMMA SlotStep ==
    ASSUME NEW k \in Nat \ {0}, NEW s \in Nat
    PROVE  \/ (s + 1) \div k = s \div k /\ (s + 1) % k = (s % k) + 1
           \/ (s + 1) \div k = (s \div k) + 1 /\ (s + 1) % k = 0 /\ s % k = k - 1
<1> DEFINE q == s \div k
           r == s % k
<1>1. q \in Int /\ r \in 0..(k - 1) /\ s = k * q + r /\ k * q \in Int
  BY Division
<1> HIDE DEF q, r
<1>2. CASE r + 1 < k
  <2>1. s + 1 = k * q + (r + 1) /\ r + 1 \in 0..(k - 1) /\ s + 1 \in Int
    BY <1>1, <1>2
  <2>2. (s + 1) \div k = q /\ (s + 1) % k = r + 1
    BY <1>1, <2>1, QuotientIs
  <2> QED BY <2>2 DEF q, r
<1>3. CASE r = k - 1
  <2>1. k * (q + 1) = k * q + k
    BY <1>1
  <2>2. s + 1 = k * (q + 1) + 0 /\ 0 \in 0..(k - 1) /\ s + 1 \in Int /\ q + 1 \in Int
    BY <1>1, <1>3, <2>1
  <2>3. (s + 1) \div k = q + 1 /\ (s + 1) % k = 0
    BY <2>2, QuotientIs
  <2> QED BY <1>3, <2>3 DEF q, r
<1> QED BY <1>1, <1>2, <1>3

(* The next dialing day opens a drip and a window after the one before, of  *)
(* which today may have passed.                                             *)
LEMMA NextDayOpens ==
    ASSUME NEW c \in Config, NEW t \in Nat, NEW index \in Nat,
           index + 1 < Cardinality(DialingDays(t, c)),
           NEW length \in Nat,
           length = hhmmToSeconds(c.end) - hhmmToSeconds(c.start),
           2 * (length + c.drip) <= Day
    PROVE  /\ msToAllowedDayWindowStart(t, c, index) \in Nat
           /\ msToAllowedDayWindowStart(t, c, index + 1) \in Nat
           /\ msToAllowedDayWindowStart(t, c, index) + length + c.drip
                <= msToAllowedDayWindowStart(t, c, index + 1)
<1> DEFINE days == DialingDays(t, c)
           open(i) == msToAllowedDayWindowStart(t, c, i)
           start == hhmmToSeconds(c.start)
           end == hhmmToSeconds(c.end)
           secs == SecondsIntoDay(t)
<1>1. /\ start \in Nat /\ end \in Nat /\ secs \in Nat /\ c.drip \in Nat /\ length = end - start
      /\ length + c.drip + length <= Day /\ length + c.drip <= Day /\ Day \in Nat
  <2>1. start \in Nat /\ end \in Nat /\ c.drip \in Nat /\ length = end - start
    BY ConfigTyped
  <2>2. secs \in Nat
    <3>1. SecondsIntoDay(t) \in 0..(Day - 1)
      BY MomentIs
    <3> QED BY <3>1
  <2>3. length + c.drip + length <= Day /\ length + c.drip <= Day
    <3> HIDE DEF start, end
    <3> QED BY <2>1
  <2> QED BY <2>1, <2>2, <2>3
<1>2. days \in SUBSET (0..LookAhead) /\ Cardinality(days) \in Nat
  <2>1. days \in SUBSET (0..LookAhead)
    BY DEF DialingDays
  <2> QED BY <2>1, DaysFinite
<1>3. index < Cardinality(days)
  BY <1>2
<1>4. PICK d \in days : /\ Cardinality({e \in days : e < d}) = index
                        /\ open(index) = MaxOf(UntilStart(t, c, d), 0)
  BY <1>3, AllowedDayIs
<1>5. PICK f \in days : /\ Cardinality({e \in days : e < f}) = index + 1
                        /\ open(index + 1) = MaxOf(UntilStart(t, c, f), 0)
  <2>1. index + 1 \in Nat
    OBVIOUS
  <2> QED BY <2>1, AllowedDayIs
<1>6. d = 0 => secs <= end
  <2>1. ~(d = 0 /\ secs > end)
    BY DEF DialingDays
  <2> QED BY <1>1, <2>1
<1> HIDE DEF days, open
<1>7. d \in Nat /\ f \in Nat
  BY <1>2
<1>8. d < f
  <2> SUFFICES ASSUME f <= d PROVE FALSE
    BY <1>7
  <2> DEFINE S == {e \in days : e < d}
             T == {e \in days : e < f}
  <2>1. T \in SUBSET S
    <3>1. \A e \in days : e \in Nat
      BY <1>2
    <3>2. \A e \in days : e < f => e < d
      BY <1>7, <3>1
    <3> QED BY <3>2
  <2>2. IsFiniteSet(S) /\ Cardinality(T) \in Nat
    <3>1. S \in SUBSET (0..LookAhead) /\ T \in SUBSET (0..LookAhead)
      BY <1>2
    <3> HIDE DEF S, T
    <3> QED BY <3>1, DaysFinite
  <2>3. Cardinality(T) <= Cardinality(S)
    <3> HIDE DEF S, T
    <3> QED BY <2>1, <2>2, FS_Subset
  <2> QED BY <1>4, <1>5, <2>3
<1>9. /\ UntilStart(t, c, d) \in Int /\ UntilStart(t, c, f) \in Int
      /\ UntilStart(t, c, f) > 0
      /\ d > 0 => UntilStart(t, c, d) > 0
      /\ UntilStart(t, c, 0) = start - secs
  BY <1>7, <1>8, UntilStartIs
<1>10. UntilStart(t, c, f) >= UntilStart(t, c, d) + Day
  <2>1. Day * (d + 1) <= Day * f /\ Day * (d + 1) = Day * d + Day
    BY <1>7, <1>8, ProductGrows
  <2>2. d * Day = Day * d /\ f * Day = Day * f /\ d * Day \in Nat /\ f * Day \in Nat
    BY <1>7, ProductTyped
  <2>3. d * Day + Day <= f * Day
    BY <2>1, <2>2
  <2>4. UntilStart(t, c, d) = d * Day + start - secs /\ UntilStart(t, c, f) = f * Day + start - secs
    BY DEF UntilStart
  <2> HIDE DEF start, secs
  <2> QED BY <1>1, <2>2, <2>3, <2>4
<1>11. /\ open(index + 1) = UntilStart(t, c, f)
       /\ open(index) = IF UntilStart(t, c, d) > 0 THEN UntilStart(t, c, d) ELSE 0
  BY <1>4, <1>5, <1>9 DEF MaxOf
<1>12. open(index) + length + c.drip <= open(index + 1)
  <2>1. CASE UntilStart(t, c, d) > 0
    <3>1. open(index) = UntilStart(t, c, d)
      BY <1>11, <2>1
    <3> HIDE DEF start, secs, end
    <3> QED BY <1>1, <1>9, <1>10, <1>11, <3>1
  <2>2. CASE ~(UntilStart(t, c, d) > 0)
    <3>1. d = 0
      BY <1>7, <1>9, <2>2
    <3>2. UntilStart(t, c, d) = start - secs /\ secs <= end
      BY <1>6, <1>9, <3>1
    <3>3. open(index) = 0
      BY <1>11, <2>2
    <3> HIDE DEF start, secs, end
    <3> QED BY <1>1, <1>9, <1>10, <1>11, <3>2, <3>3
  <2> QED BY <2>1, <2>2
<1>13. open(index) \in Nat /\ open(index + 1) \in Nat
  BY <1>9, <1>11
<1> QED BY <1>12, <1>13 DEF open

LEMMA SlotsFollow ==
    ASSUME SlotsInLookAhead, NEW c \in Config, NEW t \in 0..Horizon,
           NEW length \in Nat \ {0},
           length = hhmmToSeconds(c.end) - hhmmToSeconds(c.start),
           2 * (length + c.drip) <= Day,
           NEW slot \in 0..(MaxSlot - 1)
    PROVE  msUntilQueueSlot(t, c, slot) + c.drip <= msUntilQueueSlot(t, c, slot + 1)
<1> DEFINE cap == dailyWindowCapacity(c)
           open(i) == msToAllowedDayWindowStart(t, c, i)
<1>1. t \in Nat /\ slot \in Nat /\ slot + 1 \in Nat /\ c.drip \in Nat \ {0} /\ MaxSlot \in Nat
      /\ slot + 1 <= MaxSlot
  <2>1. c.drip \in Nat \ {0}
    BY ConfigTyped
  <2>2. t \in Nat /\ slot \in Nat /\ slot + 1 \in Nat /\ MaxSlot \in Nat /\ slot + 1 <= MaxSlot
    OBVIOUS
  <2> QED BY <2>1, <2>2
<1>2. cap \in Nat \ {0} /\ ~(cap <= 0)
  <2>1. cap = length \div c.drip + 1
    BY <1>1 DEF dailyWindowCapacity
  <2>2. length \div c.drip \in Nat
    BY <1>1, QuotientTyped
  <2> HIDE DEF cap
  <2> QED BY <2>1, <2>2
<1>3. \A i \in 0..(cap - 1) : i * c.drip \in Nat /\ i * c.drip <= length
  BY DailyCapacityIs
<1>4. /\ msUntilQueueSlot(t, c, slot) = open(slot \div cap) + (slot % cap) * c.drip
      /\ msUntilQueueSlot(t, c, slot + 1) = open((slot + 1) \div cap) + ((slot + 1) % cap) * c.drip
  BY <1>1, <1>2 DEF msUntilQueueSlot
<1>5. MaxSlot \div cap < Cardinality(DialingDays(t, c))
  BY <1>2 DEF SlotsInLookAhead
<1> HIDE DEF cap
<1>6. slot \div cap \in Nat /\ (slot + 1) \div cap \in Nat /\ MaxSlot \div cap \in Nat
      /\ slot % cap \in 0..(cap - 1)
  <2>1. slot \div cap \in Nat /\ (slot + 1) \div cap \in Nat /\ MaxSlot \div cap \in Nat
    BY <1>1, <1>2, QuotientTyped
  <2>2. slot % cap \in 0..(cap - 1)
    BY <1>1, <1>2
  <2> QED BY <2>1, <2>2
<1>7. /\ slot \div cap <= MaxSlot \div cap
      /\ (slot + 1) \div cap <= MaxSlot \div cap
  <2>1. ASSUME NEW s \in Nat, s <= MaxSlot PROVE s \div cap <= MaxSlot \div cap
    <3> DEFINE a == s \div cap
               b == MaxSlot \div cap
    <3>1. a \in Nat /\ b \in Nat
      BY <1>1, <1>2, QuotientTyped
    <3>2. a * cap <= s
      <4>1. a <= s \div cap
        BY <3>1
      <4> HIDE DEF a
      <4> QED BY <1>2, <3>1, <4>1, BelowQuotient
    <3>3. MaxSlot = cap * b + (MaxSlot % cap) /\ MaxSlot % cap \in 0..(cap - 1)
      BY <1>1, <1>2, Division
    <3>4. cap * b = b * cap /\ b * cap \in Nat /\ a * cap \in Nat
      <4> HIDE DEF a, b
      <4> QED BY <1>2, <3>1, ProductTyped
    <3>5. a * cap <= MaxSlot /\ MaxSlot < b * cap + cap
      <4> DEFINE m == MaxSlot % cap
                 k == b * cap
      <4>1. MaxSlot = k + m /\ m \in 0..(cap - 1) /\ k \in Nat
        BY <3>3, <3>4
      <4> HIDE DEF a, b, m, k
      <4>2. MaxSlot < k + cap
        BY <1>2, <4>1
      <4>3. a * cap <= MaxSlot
        BY <1>1, <2>1, <3>2, <3>4
      <4> QED BY <4>2, <4>3 DEF k
    <3>6. a <= MaxSlot \div cap
      <4> HIDE DEF a, b
      <4> QED BY <1>1, <1>2, <3>1, <3>5, QuotientBetween
    <3> QED BY <3>6
  <2> QED BY <1>1, <2>1
<1>8. Cardinality(DialingDays(t, c)) \in Nat
  <2>1. DialingDays(t, c) \in SUBSET (0..LookAhead)
    BY DEF DialingDays
  <2> QED BY <2>1, DaysFinite
<1>9. CASE (slot + 1) \div cap = slot \div cap /\ (slot + 1) % cap = (slot % cap) + 1
  <2> DEFINE r == slot % cap
  <2>1. (r + 1) * c.drip = r * c.drip + c.drip /\ r * c.drip \in Nat
    <3>1. r \in Nat
      BY <1>6
    <3> HIDE DEF r
    <3> QED BY <1>1, <3>1
  <2>2. open(slot \div cap) \in Nat
    <3>1. slot \div cap < Cardinality(DialingDays(t, c))
      BY <1>5, <1>6, <1>7, <1>8
    <3>2. PICK d \in DialingDays(t, c) :
                open(slot \div cap) = MaxOf(UntilStart(t, c, d), 0)
      BY <1>1, <1>6, <3>1, AllowedDayIs
    <3>3. d \in Nat
      BY DEF DialingDays
    <3>4. UntilStart(t, c, d) \in Int
      BY <1>1, <3>3, UntilStartIs
    <3> HIDE DEF open
    <3> QED BY <3>2, <3>4 DEF MaxOf
  <2> HIDE DEF r, open
  <2>3. open(slot \div cap) + r * c.drip + c.drip <= open(slot \div cap) + (r + 1) * c.drip
    BY <1>1, <2>1, <2>2
  <2> QED BY <1>4, <1>9, <2>3 DEF r
<1>10. CASE /\ (slot + 1) \div cap = (slot \div cap) + 1
            /\ (slot + 1) % cap = 0 /\ slot % cap = cap - 1
  <2> DEFINE i == slot \div cap
  <2>1. i \in Nat /\ i + 1 < Cardinality(DialingDays(t, c))
    <3>1. i + 1 <= MaxSlot \div cap
      BY <1>7, <1>10
    <3> HIDE DEF i
    <3>2. i \in Nat
      BY <1>6 DEF i
    <3> QED BY <1>5, <1>6, <1>8, <3>1, <3>2
  <2>2. open(i) \in Nat /\ open(i + 1) \in Nat /\ open(i) + length + c.drip <= open(i + 1)
    <3> HIDE DEF i
    <3> QED BY <1>1, <2>1, NextDayOpens
  <2>3. (cap - 1) * c.drip \in Nat /\ (cap - 1) * c.drip <= length
    BY <1>2, <1>3
  <2>4. 0 * c.drip = 0
    BY <1>1
  <2> HIDE DEF open, i
  <2>5. open(i) + (cap - 1) * c.drip + c.drip <= open(i + 1) + 0 * c.drip
    <3> DEFINE last == (cap - 1) * c.drip
    <3>1. last \in Nat /\ last <= length
      BY <2>3
    <3> HIDE DEF last
    <3>2. open(i) + last + c.drip <= open(i + 1) + 0
      BY <1>1, <2>2, <3>1
    <3> QED BY <2>4, <3>2 DEF last
  <2> QED BY <1>4, <1>10, <2>5 DEF i
<1> QED BY <1>1, <1>2, <1>9, <1>10, SlotStep

(* The jobs of a queue, spread by their slots, are in order and a drip      *)
(* apart, over nights, off days and the rest of a window that is open, for  *)
(* every window of at most half a day whose slots lie in the look-ahead.    *)
THEOREM SlotsStayApart ==
    ASSUME SlotsInLookAhead
    PROVE  Spec => []SlotsAreSpaced
<1>1. TypeInv => SlotsAreSpaced
  <2> SUFFICES ASSUME TypeInv PROVE SlotsAreSpaced
    OBVIOUS
  <2>1. now \in 0..Horizon /\ config \in Config
    BY DEF TypeInv, TypeOK
  <2>2. hhmmToSeconds(config.end) - hhmmToSeconds(config.start) \in Int
    BY <2>1, ConfigTyped
  <2> DEFINE length == hhmmToSeconds(config.end) - hhmmToSeconds(config.start)
  <2>3. length \in Int /\ (length > 0 => length \in Nat \ {0})
    BY <2>2
  <2>4. ASSUME 2 * (length + config.drip) <= Day, length > 0, NEW slot \in 0..(MaxSlot - 1)
        PROVE  msUntilQueueSlot(now, config, slot) + config.drip
                    <= msUntilQueueSlot(now, config, slot + 1)
    <3>1. PICK l \in Nat \ {0} : l = length
      BY <2>3, <2>4
    <3> QED BY <2>1, <2>4, <3>1, SlotsFollow
  <2> QED BY <2>4 DEF SlotsAreSpaced
<1> QED BY <1>1, InitTyped, NextTyped, PTL DEF Spec
=============================================================================
