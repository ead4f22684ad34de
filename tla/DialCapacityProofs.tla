------------------------- MODULE DialCapacityProofs -------------------------
(***************************************************************************)
(* Proofs about DialCapacity, for any set of contacts, any cap and any     *)
(* number of days.                                                         *)
(***************************************************************************)
EXTENDS DialCapacity, FiniteSetTheorems, TLAPS

USE CapacityAssumption

(* Counts of contacts. *)
LEMMA CountTyped ==
    ASSUME NEW S \in SUBSET Contact
    PROVE  IsFiniteSet(S) /\ Cardinality(S) \in Nat
<1>1. IsFiniteSet(S)
  BY FS_Subset
<1> QED BY <1>1, FS_CardinalityType

LEMMA CountMonotone ==
    ASSUME NEW S \in SUBSET Contact, NEW T \in SUBSET S
    PROVE  Cardinality(T) <= Cardinality(S)
BY CountTyped, FS_Subset

LEMMA CountUnion ==
    ASSUME NEW S \in SUBSET Contact, NEW T \in SUBSET Contact, NEW U \in SUBSET (S \cup T)
    PROVE  Cardinality(U) <= Cardinality(S) + Cardinality(T)
<1>1. /\ Cardinality(S) \in Nat /\ Cardinality(T) \in Nat
      /\ Cardinality(S \cap T) \in Nat /\ Cardinality(S \cup T) \in Nat
      /\ Cardinality(U) \in Nat
  BY CountTyped
<1>2. Cardinality(S \cup T) = Cardinality(S) + Cardinality(T) - Cardinality(S \cap T)
  BY CountTyped, FS_Union
<1>3. Cardinality(U) <= Cardinality(S \cup T)
  BY CountMonotone
<1> QED BY <1>1, <1>2, <1>3

LEMMA CountOne ==
    ASSUME NEW S \in SUBSET Contact, NEW c \in Contact, NEW U \in SUBSET (S \cup {c})
    PROVE  Cardinality(U) <= Cardinality(S) + 1
<1>1. Cardinality({c}) = 1
  BY FS_Singleton
<1> QED BY <1>1, CountUnion

-----------------------------------------------------------------------------
(* Type correctness. *)

LEMMA NoRowTyped == NoRow \in Row
BY DEF NoRow, Row, Status, Source

LEMMA IdleTyped == IdlePoll \in Poll /\ IdleDrain \in Drain
BY DEF IdlePoll, Poll, IdleDrain, Drain

LEMMA CountOfTyped ==
    ASSUME TypeOK, NEW pc \in Read, NEW day \in 0..MaxDay
    PROVE  CountOf(pc, day) \in Nat
<1>1. countRolloverBacklog(day) \in Nat /\ countActiveQueue(day) \in Nat
  BY CountTyped DEF countRolloverBacklog, countActiveQueue
<1>2. countDialedToday \in Nat
  BY DEF TypeOK, countDialedToday
<1> QED BY <1>1, <1>2 DEF CountOf, Read

LEMMA RoomTyped ==
    ASSUME NEW counted \in Nat
    PROVE  /\ computeRepeatedPollCapacity(counted) \in Nat
           /\ computeRepeatedPollCapacity(counted) > 0 =>
                counted + computeRepeatedPollCapacity(counted) <= Cap
BY DEF computeRepeatedPollCapacity

LEMMA CountsTyped ==
    ASSUME TypeOK, NEW p \in Poller, poll[p].pc \in Read, NEW n \in Nat
    PROVE  /\ Counts(p, n) \in Poll
           /\ Counts(p, n).pc = NextRead(poll[p].pc)
           /\ Counts(p, n).day = poll[p].day
           /\ Counts(p, n).blind = poll[p].blind
           /\ Counts(p, n).counted = poll[p].counted + n
           /\ Counts(p, n).room = computeRepeatedPollCapacity(poll[p].counted + n)
<1> DEFINE pc == poll[p].pc
           counted == poll[p].counted + n
           taken == IF pc = "queued" THEN poll[p].taken \cup {c \in Contact : Active(c)}
                                     ELSE poll[p].taken
           room == computeRepeatedPollCapacity(counted)
<1>1. poll[p] \in Poll
  BY DEF TypeOK
<1>2. counted \in Nat /\ taken \in SUBSET Contact
  BY <1>1 DEF Poll
<1>3. room \in Nat
  BY <1>2, RoomTyped
<1>4. NextRead(pc) \in {"idle", "insert"} \cup Read
  BY DEF NextRead, Read
<1>5. Counts(p, n) = [poll[p] EXCEPT !.pc = NextRead(pc), !.counted = counted,
                                     !.taken = taken, !.room = room]
  BY DEF Counts
<1> HIDE DEF counted, taken, room, pc
<1>6. /\ Counts(p, n) \in Poll
      /\ Counts(p, n).pc = NextRead(pc) /\ Counts(p, n).day = poll[p].day
      /\ Counts(p, n).blind = poll[p].blind
      /\ Counts(p, n).counted = counted /\ Counts(p, n).room = room
  BY <1>1, <1>2, <1>3, <1>4, <1>5 DEF Poll
<1> QED BY <1>6 DEF counted, room, pc

LEMMA BudgetTyped ==
    ASSUME TypeOK, NEW d \in Drainer
    PROVE  Budget(d) \in 0..Cap
<1>1. remainingDailyDialBudget \in 0..Cap
  BY DEF remainingDailyDialBudget, countDialedToday, TypeOK
<1>2. drain[d].budget \in {Unread} \cup 0..Cap
  BY DEF TypeOK, Drain
<1> QED BY <1>1, <1>2 DEF Budget

LEMMA UpsertTyped ==
    ASSUME TypeOK, NEW c \in Contact, NEW day \in 0..MaxDay, NEW by \in Source,
           Upsert(c, day, by)
    PROVE  row' \in [Contact -> Row]
<1>1. [row[c] EXCEPT !.phone = 1] \in Row
  BY DEF TypeOK, Row
<1>2. [NoRow EXCEPT !.status = "pending", !.day = day, !.by = by] \in Row
  BY NoRowTyped DEF Row, Status
<1>3. \A r \in Row : [row EXCEPT ![c] = r] \in [Contact -> Row]
  BY DEF TypeOK
<1>4. \/ row' = [row EXCEPT ![c].phone = 1]
      \/ row' = [row EXCEPT ![c] = [NoRow EXCEPT !.status = "pending", !.day = day, !.by = by]]
  BY DEF Upsert
<1>5. [row EXCEPT ![c].phone = 1] = [row EXCEPT ![c] = [row[c] EXCEPT !.phone = 1]]
  OBVIOUS
<1> QED BY <1>1, <1>2, <1>3, <1>4, <1>5

LEMMA StatusTyped ==
    ASSUME TypeOK, NEW c \in Contact, NEW status \in Status
    PROVE  [row EXCEPT ![c].status = status] \in [Contact -> Row]
BY DEF TypeOK, Row

LEMMA InitTyped == Init => TypeOK
<1> SUFFICES ASSUME Init PROVE TypeOK
  OBVIOUS
<1>1. row \in [Contact -> Row] /\ poll \in [Poller -> Poll] /\ drain \in [Drainer -> Drain]
  BY NoRowTyped, IdleTyped DEF Init
<1>2. \A d \in Drainer : Cardinality(drain[d].claim) <= 1
  BY FS_EmptySet DEF Init, IdleDrain
<1> QED BY <1>1, <1>2 DEF Init, TypeOK

LEMMA NextTyped ==
    ASSUME TypeOK, [Next]_vars
    PROVE  TypeOK'
<1> USE DEF TypeOK
<1>1. ASSUME NEW p \in Poller, PollStarts(p) PROVE TypeOK'
  <2>1. PICK blind \in BOOLEAN :
            poll' = [poll EXCEPT ![p] = [IdlePoll EXCEPT
                !.pc = "rollover", !.day = today, !.taken = called, !.blind = blind]]
    BY <1>1 DEF PollStarts
  <2>2. [IdlePoll EXCEPT !.pc = "rollover", !.day = today, !.taken = called, !.blind = blind]
            \in Poll
    BY DEF IdlePoll, Poll, Read
  <2>3. poll' \in [Poller -> Poll]
    BY <2>1, <2>2
  <2> QED BY <1>1, <2>3 DEF PollStarts
<1>2. ASSUME NEW p \in Poller, PollReads(p) PROVE TypeOK'
  <2>1. poll[p].pc \in Read /\ poll[p].day \in 0..MaxDay
    BY <1>2 DEF PollReads, Poll
  <2>2. Counts(p, CountOf(poll[p].pc, poll[p].day)) \in Poll
    <3>1. CountOf(poll[p].pc, poll[p].day) \in Nat
      BY <2>1, CountOfTyped
    <3> QED BY <2>1, <3>1, CountsTyped
  <2>3. poll' \in [Poller -> Poll]
    BY <1>2, <2>2 DEF PollReads
  <2> QED BY <1>2, <2>3 DEF PollReads
<1>3. ASSUME NEW p \in Poller, PollMiscounts(p) PROVE TypeOK'
  <2>1. poll[p].pc \in Read
    BY <1>3 DEF PollMiscounts, Read
  <2>2. Counts(p, 0) \in Poll
    BY <2>1, CountsTyped
  <2>3. [Counts(p, 0) EXCEPT !.blind = TRUE] \in Poll
    BY <2>2 DEF Poll
  <2>4. poll' \in [Poller -> Poll]
    BY <1>3, <2>3 DEF PollMiscounts
  <2>5. miscounts' \in 0..MaxMiscounts
    BY <1>3 DEF PollMiscounts
  <2> QED BY <1>3, <2>4, <2>5 DEF PollMiscounts
<1>4. ASSUME NEW p \in Poller, PollInserts(p) PROVE TypeOK'
  <2>1. PICK c \in Contact, by \in Source :
            /\ Upsert(c, poll[p].day, by)
            /\ poll' = [poll EXCEPT ![p].room = @ - 1, ![p].taken = @ \cup {c}]
    BY <1>4 DEF PollInserts, Source
  <2>2. poll[p] \in Poll /\ poll[p].room > 0
    BY <1>4 DEF PollInserts
  <2>3. row' \in [Contact -> Row]
    BY <2>1, <2>2, UpsertTyped DEF Poll
  <2>4. [poll[p] EXCEPT !.room = @ - 1, !.taken = @ \cup {c}] \in Poll
    <3>1. poll[p].room - 1 \in Nat /\ poll[p].taken \cup {c} \in SUBSET Contact
      BY <2>2 DEF Poll
    <3> QED BY <2>2, <3>1 DEF Poll
  <2>5. poll' = [poll EXCEPT ![p] = [poll[p] EXCEPT !.room = @ - 1, !.taken = @ \cup {c}]]
    BY <2>1
  <2>6. poll' \in [Poller -> Poll]
    BY <2>4, <2>5
  <2> QED BY <1>4, <2>3, <2>6 DEF PollInserts
<1>5. ASSUME NEW p \in Poller, PollEnds(p) PROVE TypeOK'
  BY <1>5, IdleTyped DEF PollEnds
<1>6. ASSUME NEW c \in Contact, QueueByHand(c) PROVE TypeOK'
  <2>1. row' \in [Contact -> Row]
    BY <1>6, UpsertTyped DEF QueueByHand, Source
  <2>2. byHand' \in 0..MaxByHand
    BY <1>6 DEF QueueByHand
  <2> QED BY <1>6, <2>1, <2>2 DEF QueueByHand
<1>7. ASSUME NEW c \in Contact, Place(c)
      PROVE  row' \in [Contact -> Row] /\ dialed' \in Nat /\ called' \in SUBSET Contact
  <2>1. "dialing" \in Status
    BY DEF Status
  <2> QED BY <1>7, <2>1, StatusTyped DEF Place
<1>8. ASSUME NEW c \in Contact, WorkerClaims(c) \/ WorkerPlaces(c) \/ CallEnds(c) PROVE TypeOK'
  <2>1. "claimed" \in Status /\ "pending" \in Status /\ "none" \in Status
    BY DEF Status
  <2>2. CASE WorkerClaims(c)
    BY <2>1, <2>2, StatusTyped DEF WorkerClaims, Claim
  <2>3. CASE WorkerPlaces(c)
    BY <1>7, <2>1, <2>3, StatusTyped DEF WorkerPlaces
  <2>4. CASE CallEnds(c)
    <3>1. ASSUME row[c].phone < Phones
          PROVE  [row EXCEPT ![c].status = "pending", ![c].phone = @ + 1] \in [Contact -> Row]
      <4>1. [row[c] EXCEPT !.status = "pending", !.phone = @ + 1] \in Row
        <5>1. row[c].phone + 1 \in 1..Phones /\ row[c] \in Row
          BY <3>1 DEF Row
        <5> QED BY <2>1, <5>1 DEF Row
      <4>2. [row EXCEPT ![c].status = "pending", ![c].phone = @ + 1]
              = [row EXCEPT ![c] = [row[c] EXCEPT !.status = "pending", !.phone = @ + 1]]
        OBVIOUS
      <4> QED BY <4>1, <4>2
    <3> QED BY <2>1, <2>4, <3>1, StatusTyped DEF CallEnds
  <2> QED BY <1>8, <2>2, <2>3, <2>4
<1>9. ASSUME NEW d \in Drainer, NEW r \in Drain, Cardinality(r.claim) <= 1,
             drain' = [drain EXCEPT ![d] = r]
      PROVE  /\ drain' \in [Drainer -> Drain]
             /\ \A e \in Drainer : Cardinality(drain'[e].claim) <= 1
  BY <1>9
<1>10. ASSUME NEW d \in Drainer, DrainStarts(d) PROVE TypeOK'
  <2>1. PICK due \in SUBSET Contact : drain' = [drain EXCEPT ![d] = [drain[d] EXCEPT !.left = due]]
    BY <1>10 DEF DrainStarts
  <2>2. [drain[d] EXCEPT !.left = due] \in Drain
    BY DEF Drain
  <2>3. [drain[d] EXCEPT !.left = due].claim = drain[d].claim
    BY DEF Drain
  <2> QED BY <1>9, <1>10, <2>1, <2>2, <2>3 DEF DrainStarts
<1>11. ASSUME NEW d \in Drainer, DrainEnds(d) PROVE TypeOK'
  <2>1. Cardinality(IdleDrain.claim) <= 1
    BY FS_EmptySet DEF IdleDrain
  <2> QED BY <1>9, <1>11, <2>1, IdleTyped DEF DrainEnds
<1>12. ASSUME NEW d \in Drainer, NEW c \in Contact, DrainLooksAt(d, c) PROVE TypeOK'
  <2>1. drain[d] \in Drain /\ Budget(d) \in 0..Cap
    BY BudgetTyped
  <2> DEFINE left == [drain[d] EXCEPT !.left = @ \ {c}]
             looked == [drain[d] EXCEPT !.left = @ \ {c}, !.budget = Budget(d)]
             claims == [looked EXCEPT !.budget = Budget(d) - 1, !.used = @ + 1, !.claim = {c}]
  <2>2. left \in Drain /\ left.claim = drain[d].claim
    BY <2>1 DEF Drain
  <2>3. looked \in Drain /\ looked.claim = drain[d].claim
    BY <2>1 DEF Drain
  <2>4. ASSUME Budget(d) > 0, drain[d].used < TickDials
        PROVE  claims \in Drain /\ claims.claim = {c}
    <3>1. Budget(d) - 1 \in 0..Cap /\ looked.used + 1 \in 0..TickDials /\ {c} \in SUBSET Contact
      BY <2>1, <2>4 DEF Drain
    <3> HIDE DEF looked
    <3> QED BY <2>3, <3>1 DEF Drain
  <2>5. Cardinality({c}) <= 1
    <3>1. Cardinality({c}) = 1
      BY FS_Singleton
    <3> QED BY <3>1
  <2>6. row' = row \/ row' = [row EXCEPT ![c].status = "claimed"]
    BY <1>12 DEF DrainLooksAt, Claim
  <2>7. row' \in [Contact -> Row]
    <3>1. "claimed" \in Status
      BY DEF Status
    <3> QED BY <2>6, <3>1, StatusTyped
  <2>8. \/ drain' = [drain EXCEPT ![d] = left]
        \/ drain' = [drain EXCEPT ![d] = looked]
        \/ /\ drain' = [drain EXCEPT ![d] = claims]
           /\ Budget(d) > 0 /\ drain[d].used < TickDials
    BY <1>12 DEF DrainLooksAt
  <2> HIDE DEF left, looked, claims
  <2>9. /\ drain' \in [Drainer -> Drain]
        /\ \A e \in Drainer : Cardinality(drain'[e].claim) <= 1
    BY <1>9, <2>2, <2>3, <2>4, <2>5, <2>8
  <2> QED BY <1>12, <2>7, <2>9 DEF DrainLooksAt
<1>13. ASSUME NEW d \in Drainer, NEW c \in Contact, DrainPlaces(d, c) PROVE TypeOK'
  <2>1. [drain[d] EXCEPT !.claim = {}] \in Drain
    BY DEF Drain
  <2>2. Cardinality([drain[d] EXCEPT !.claim = {}].claim) <= 1
    BY <2>1, FS_EmptySet DEF Drain
  <2>3. /\ drain' \in [Drainer -> Drain]
        /\ \A e \in Drainer : Cardinality(drain'[e].claim) <= 1
    BY <1>9, <1>13, <2>1, <2>2 DEF DrainPlaces
  <2>4. /\ row' \in [Contact -> Row] /\ dialed' \in Nat /\ called' \in SUBSET Contact
        /\ drained' \in Nat
    <3>1. CASE Place(c) /\ drained' = drained + 1
      BY <1>7, <3>1
    <3>2. CASE /\ \E status \in {"none", "pending"} : row' = [row EXCEPT ![c].status = status]
               /\ UNCHANGED <<dialed, called, drained>>
      <4>1. PICK status \in Status : row' = [row EXCEPT ![c].status = status]
        BY <3>2 DEF Status
      <4> QED BY <3>2, <4>1, StatusTyped
    <3> QED BY <1>13, <3>1, <3>2 DEF DrainPlaces
  <2> QED BY <1>13, <2>3, <2>4 DEF DrainPlaces
<1>14. CASE DayEnds
  BY <1>14 DEF DayEnds
<1>15. CASE UNCHANGED vars
  BY <1>15 DEF vars
<1> QED
  BY <1>1, <1>2, <1>3, <1>4, <1>5, <1>6, <1>8, <1>10, <1>11, <1>12, <1>13, <1>14, <1>15
     DEF Next

(* Rows, counts, budgets and the lists of drains and polls keep their       *)
(* types: no count and no budget goes below zero.                           *)
THEOREM CapacityTypeCorrect == Spec => []TypeOK
BY InitTyped, NextTyped, PTL DEF Spec

-----------------------------------------------------------------------------
(* One drain of an agent at a time. *)

OneDrain == \A d, e \in Drainer : d = e

(* A row the drain has claimed is on its way to the dial, unless a poll or  *)
(* the operator has reset it.                                               *)
ClaimsHold ==
    \A d \in Drainer : \A c \in drain[d].claim : row[c].status \in {"pending", "claimed"}

(* What the drain has dialed, what it is dialing and what is left of its    *)
(* budget.                                                                  *)
InHand(d) == IF drain[d].claim = {} THEN 0 ELSE 1

BudgetHolds(d) ==
    IF drain[d].budget = Unread THEN drain[d].claim = {}
                                ELSE drained + drain[d].budget + InHand(d) <= Cap

BudgetInv ==
    /\ drained <= Cap
    /\ drained <= dialed
    /\ \A d \in Drainer : BudgetHolds(d)

LEMMA ClaimsInit == Init => ClaimsHold /\ BudgetInv
BY DEF Init, ClaimsHold, BudgetInv, BudgetHolds, IdleDrain

(* What a look of the drain at one row of its list does. *)
LEMMA LooksAtEffect ==
    ASSUME TypeOK, NEW d \in Drainer, NEW c \in Contact, DrainLooksAt(d, c)
    PROVE  /\ UNCHANGED <<today, dialed, called, poll, drained, byHand, miscounts>>
           /\ drain[d].claim = {}
           /\ \/ /\ row' = row
                 /\ drain'[d].claim = {}
                 /\ drain'[d].budget \in {drain[d].budget, Budget(d)}
              \/ /\ row' = [row EXCEPT ![c].status = "claimed"]
                 /\ row[c].status = "pending"
                 /\ drain'[d].claim = {c}
                 /\ drain'[d].budget = Budget(d) - 1
                 /\ Budget(d) > 0
<1> DEFINE left == [drain[d] EXCEPT !.left = @ \ {c}]
           looked == [drain[d] EXCEPT !.left = @ \ {c}, !.budget = Budget(d)]
           claims == [looked EXCEPT !.budget = Budget(d) - 1, !.used = @ + 1, !.claim = {c}]
<1>1. drain \in [Drainer -> Drain] /\ drain[d] \in Drain
  BY DEF TypeOK
<1>2. left.claim = drain[d].claim /\ left.budget = drain[d].budget
  BY <1>1 DEF Drain
<1>3. looked.claim = drain[d].claim /\ looked.budget = Budget(d)
  BY <1>1 DEF Drain
<1>4. claims.claim = {c} /\ claims.budget = Budget(d) - 1
  BY <1>1 DEF Drain
<1>5. \/ drain' = [drain EXCEPT ![d] = left] /\ row' = row
      \/ drain' = [drain EXCEPT ![d] = looked] /\ row' = row
      \/ /\ drain' = [drain EXCEPT ![d] = claims]
         /\ row' = [row EXCEPT ![c].status = "claimed"]
         /\ Budget(d) > 0 /\ row[c].status = "pending"
  BY DEF DrainLooksAt, Claim
<1>6. /\ drain[d].claim = {}
      /\ UNCHANGED <<today, dialed, called, poll, drained, byHand, miscounts>>
  BY DEF DrainLooksAt
<1> HIDE DEF left, looked, claims
<1>7. \/ drain'[d] = left /\ row' = row
      \/ drain'[d] = looked /\ row' = row
      \/ /\ drain'[d] = claims
         /\ row' = [row EXCEPT ![c].status = "claimed"]
         /\ Budget(d) > 0 /\ row[c].status = "pending"
  BY <1>1, <1>5
<1> QED BY <1>2, <1>3, <1>4, <1>6, <1>7

LEMMA ClaimsKept ==
    ASSUME TypeOK, OneDrain, ClaimsHold, [Next]_vars
    PROVE  ClaimsHold'
<1> USE DEF ClaimsHold
<1>1. ASSUME UNCHANGED drain, NEW c \in Contact, NEW status \in {"pending", "claimed"},
             row' = [row EXCEPT ![c].status = status]
      PROVE  ClaimsHold'
  BY <1>1 DEF TypeOK, Row
<1>2. ASSUME UNCHANGED drain, NEW c \in Contact, NEW day, NEW by, Upsert(c, day, by)
      PROVE  ClaimsHold'
  <2>1. CASE row' = [row EXCEPT ![c].phone = 1]
    BY <1>2, <2>1 DEF TypeOK, Row
  <2>2. CASE row' = [row EXCEPT ![c] = [NoRow EXCEPT !.status = "pending", !.day = day, !.by = by]]
    <3>1. [NoRow EXCEPT !.status = "pending", !.day = day, !.by = by].status = "pending"
      BY DEF NoRow
    <3> QED BY <1>2, <2>2, <3>1 DEF TypeOK
  <2> QED BY <1>2, <2>1, <2>2 DEF Upsert
<1>3. ASSUME NEW p \in Poller,
             \/ PollStarts(p) \/ PollReads(p) \/ PollMiscounts(p)
             \/ PollInserts(p) \/ PollEnds(p)
      PROVE  ClaimsHold'
  BY <1>2, <1>3 DEF PollStarts, PollReads, PollMiscounts, PollInserts, PollEnds
<1>4. ASSUME NEW c \in Contact, QueueByHand(c)
      PROVE  ClaimsHold'
  BY <1>2, <1>4 DEF QueueByHand
<1>5. ASSUME NEW c \in Contact, WorkerClaims(c)
      PROVE  ClaimsHold'
  BY <1>1, <1>5 DEF WorkerClaims, Claim
<1>6. ASSUME NEW c \in Contact, UNCHANGED drain, \A d \in Drainer : c \notin drain[d].claim,
             \A e \in Contact : e # c => row'[e] = row[e]
      PROVE  ClaimsHold'
  BY <1>6 DEF TypeOK, Drain
<1>7. ASSUME NEW c \in Contact, WorkerPlaces(c)
      PROVE  ClaimsHold'
  <2>1. UNCHANGED drain /\ \A d \in Drainer : c \notin drain[d].claim
    BY <1>7 DEF WorkerPlaces, DrainsClaim
  <2>2. \A e \in Contact : e # c => row'[e] = row[e]
    BY <1>7 DEF WorkerPlaces, Place, TypeOK
  <2> QED BY <1>6, <2>1, <2>2
<1>8. ASSUME NEW c \in Contact, CallEnds(c)
      PROVE  ClaimsHold'
  <2>1. UNCHANGED drain /\ \A d \in Drainer : c \notin drain[d].claim
    BY <1>8 DEF CallEnds
  <2>2. \A e \in Contact : e # c => row'[e] = row[e]
    BY <1>8 DEF CallEnds, TypeOK
  <2> QED BY <1>6, <2>1, <2>2
<1>9. ASSUME NEW d \in Drainer, DrainStarts(d) \/ DrainEnds(d)
      PROVE  ClaimsHold'
  BY <1>9 DEF DrainStarts, DrainEnds, IdleDrain, TypeOK, Drain
<1>10. ASSUME NEW d \in Drainer, NEW c \in Contact, DrainLooksAt(d, c)
       PROVE  ClaimsHold'
  <2>1. \/ row' = row /\ drain'[d].claim = drain[d].claim
        \/ row' = [row EXCEPT ![c].status = "claimed"] /\ drain'[d].claim = {c}
    BY <1>10, LooksAtEffect
  <2>2. \A e \in Drainer : e = d
    BY DEF OneDrain
  <2> QED BY <2>1, <2>2 DEF TypeOK, Row
<1>11. ASSUME NEW d \in Drainer, NEW c \in Contact, DrainPlaces(d, c)
       PROVE  ClaimsHold'
  <2>1. drain'[d].claim = {} /\ \A e \in Drainer : e = d
    BY <1>11 DEF DrainPlaces, OneDrain, TypeOK, Drain
  <2> QED BY <2>1
<1>12. CASE DayEnds
  BY <1>12 DEF DayEnds
<1>13. CASE UNCHANGED vars
  BY <1>13 DEF vars
<1> QED
  BY <1>3, <1>4, <1>5, <1>7, <1>8, <1>9, <1>10, <1>11, <1>12, <1>13 DEF Next

-----------------------------------------------------------------------------
(* The budget of the drain. *)

LEMMA BudgetIsLeft ==
    ASSUME TypeOK, BudgetInv, NEW d \in Drainer, drain[d].claim = {}
    PROVE  Budget(d) \in 0..Cap /\ drained + Budget(d) <= Cap
<1>1. Budget(d) \in 0..Cap
  BY BudgetTyped
<1>2. drained \in Nat /\ dialed \in Nat
  BY DEF TypeOK
<1>3. drained + remainingDailyDialBudget <= Cap
  BY <1>2 DEF BudgetInv, remainingDailyDialBudget, countDialedToday
<1>4. CASE drain[d].budget # Unread
  BY <1>1, <1>2, <1>4 DEF BudgetInv, BudgetHolds, InHand, Budget
<1>5. CASE drain[d].budget = Unread
  <2>1. Budget(d) = remainingDailyDialBudget
    BY <1>5 DEF Budget
  <2> QED BY <1>1, <1>3, <2>1
<1> QED BY <1>1, <1>4, <1>5

LEMMA BudgetKept ==
    ASSUME TypeOK, TypeOK', OneDrain, BudgetInv, [Next]_vars
    PROVE  BudgetInv'
<1>1. /\ drained \in Nat /\ dialed \in Nat
      /\ \A d \in Drainer : /\ drain[d].budget \in {Unread} \cup 0..Cap
                            /\ InHand(d) \in 0..1
  BY DEF TypeOK, Drain, InHand
<1>2. ASSUME UNCHANGED drain, drained' <= drained, drained' \in Nat, drained' <= dialed'
      PROVE  BudgetInv'
  <2>1. drained' <= Cap
    BY <1>1, <1>2 DEF BudgetInv
  <2>2. ASSUME NEW d \in Drainer PROVE BudgetHolds(d)'
    <3>1. CASE drain[d].budget = Unread
      BY <1>2, <3>1 DEF BudgetInv, BudgetHolds
    <3>2. CASE drain[d].budget # Unread
      <4>1. drain[d].budget \in Nat /\ InHand(d) \in Nat
        BY <1>1, <3>2
      <4>2. drained + drain[d].budget + InHand(d) <= Cap
        BY <3>2 DEF BudgetInv, BudgetHolds
      <4>3. drained' + drain[d].budget + InHand(d) <= Cap
        BY <1>1, <1>2, <4>1, <4>2
      <4> QED BY <1>2, <3>2, <4>3 DEF BudgetHolds, InHand
    <3> QED BY <3>1, <3>2
  <2> QED BY <1>2, <2>1, <2>2 DEF BudgetInv
<1>3. ASSUME NEW d \in Drainer, UNCHANGED <<drained, dialed>>, BudgetHolds(d)'
      PROVE  BudgetInv'
  BY <1>3 DEF BudgetInv, OneDrain
<1>4. ASSUME NEW p \in Poller,
             \/ PollStarts(p) \/ PollReads(p) \/ PollMiscounts(p)
             \/ PollInserts(p) \/ PollEnds(p)
      PROVE  BudgetInv'
  <2>1. UNCHANGED <<drain, drained, dialed>>
    BY <1>4 DEF PollStarts, PollReads, PollMiscounts, PollInserts, PollEnds
  <2> QED BY <1>1, <1>2, <2>1 DEF BudgetInv
<1>5. ASSUME NEW c \in Contact, QueueByHand(c) \/ WorkerClaims(c) \/ CallEnds(c)
      PROVE  BudgetInv'
  BY <1>1, <1>2, <1>5 DEF QueueByHand, WorkerClaims, CallEnds, BudgetInv
<1>6. ASSUME NEW c \in Contact, WorkerPlaces(c)
      PROVE  BudgetInv'
  BY <1>1, <1>2, <1>6 DEF WorkerPlaces, Place, BudgetInv
<1>7. ASSUME NEW d \in Drainer, DrainStarts(d) \/ DrainEnds(d)
      PROVE  BudgetInv'
  <2>1. BudgetHolds(d)'
    BY <1>7 DEF DrainStarts, DrainEnds, IdleDrain, TypeOK, Drain, BudgetInv, BudgetHolds, InHand
  <2> QED BY <1>3, <1>7, <2>1 DEF DrainStarts, DrainEnds
<1>8. ASSUME NEW d \in Drainer, NEW c \in Contact, DrainLooksAt(d, c)
      PROVE  BudgetInv'
  <2>1. UNCHANGED <<drained, dialed>> /\ drain[d].claim = {}
    BY <1>8 DEF DrainLooksAt
  <2>2. Budget(d) \in 0..Cap /\ drained + Budget(d) <= Cap
    BY <2>1, BudgetIsLeft
  <2>3. \/ drain'[d].budget = drain[d].budget /\ drain'[d].claim = {}
        \/ drain'[d].budget = Budget(d) /\ drain'[d].claim = {}
        \/ drain'[d].budget = Budget(d) - 1 /\ drain'[d].claim = {c} /\ Budget(d) > 0
    BY <1>8, LooksAtEffect
  <2>4. BudgetHolds(d)'
    <3>1. CASE drain'[d].budget = drain[d].budget /\ drain'[d].claim = {}
      BY <2>1, <3>1 DEF BudgetInv, BudgetHolds, InHand
    <3>2. CASE drain'[d].budget = Budget(d) /\ drain'[d].claim = {}
      BY <1>1, <2>1, <2>2, <3>2 DEF BudgetHolds, InHand
    <3>3. CASE drain'[d].budget = Budget(d) - 1 /\ drain'[d].claim = {c} /\ Budget(d) > 0
      <4>1. drained + (Budget(d) - 1) + 1 <= Cap /\ Budget(d) - 1 # Unread
        BY <1>1, <2>2, <3>3 DEF Unread
      <4> QED BY <2>1, <3>3, <4>1 DEF BudgetHolds, InHand
    <3> QED BY <2>3, <3>1, <3>2, <3>3
  <2> QED BY <1>3, <2>1, <2>4
<1>9. ASSUME NEW d \in Drainer, NEW c \in Contact, DrainPlaces(d, c)
      PROVE  BudgetInv'
  <2>1. /\ drain'[d].budget = drain[d].budget /\ drain'[d].claim = {}
        /\ drain[d].claim # {}
    BY <1>9 DEF DrainPlaces, TypeOK, Drain
  <2>2. /\ drain[d].budget \in 0..Cap /\ drain[d].budget # Unread
        /\ drained + drain[d].budget + 1 <= Cap
    BY <1>1, <2>1 DEF BudgetInv, BudgetHolds, InHand
  <2>3. /\ drained' \in {drained, drained + 1}
        /\ drained' <= dialed'
    BY <1>1, <1>9 DEF DrainPlaces, Place, BudgetInv
  <2>4. drained' + drain[d].budget + 0 <= Cap /\ drained' <= Cap
    BY <1>1, <2>2, <2>3
  <2>5. BudgetHolds(d)'
    BY <2>1, <2>2, <2>4 DEF BudgetHolds, InHand
  <2> QED BY <2>3, <2>4, <2>5 DEF BudgetInv, OneDrain
<1>10. CASE DayEnds
  BY <1>1, <1>2, <1>10 DEF DayEnds
<1>11. CASE UNCHANGED vars
  BY <1>1, <1>2, <1>11 DEF vars, BudgetInv
<1> QED
  BY <1>4, <1>5, <1>6, <1>7, <1>8, <1>9, <1>10, <1>11 DEF Next

(* One drain at a time never dials more than the daily cap, over any number *)
(* of ticks and whatever the worker, polls and the operator do meanwhile.   *)
THEOREM DrainsStayInBudget ==
    ASSUME OneDrain
    PROVE  Spec => []DrainKeepsTheDailyCap
<1>1. TypeOK /\ TypeOK' /\ BudgetInv /\ [Next]_vars => BudgetInv'
  BY BudgetKept
<1>2. BudgetInv => DrainKeepsTheDailyCap
  BY DEF BudgetInv, DrainKeepsTheDailyCap
<1> QED BY <1>1, <1>2, ClaimsInit, CapacityTypeCorrect, PTL DEF Spec

-----------------------------------------------------------------------------
(* The polls. *)

PolledRows == {c \in Contact : row[c].by = "poll" /\ Active(c)}
Behind(day) == {c \in PolledRows : row[c].day < day}

(* A poll under way that is not blind.  There is at most one: whoever       *)
(* begins beside it is blind.                                               *)
Sees(p) == PollUnderWay(p) /\ ~poll[p].blind

OneSees == \A p, q \in Poller : Sees(p) /\ Sees(q) => p = q

(* What it has counted so far covers the rows of such polls it has counted, *)
(* and what room it has left is beyond every contact of one.                *)
PollHolds(p) ==
    Sees(p) =>
        /\ poll[p].day <= today
        /\ \A c \in PolledRows : row[c].day <= poll[p].day
        /\ poll[p].pc \in {"queued", "sameDay"} =>
            Cardinality(Behind(poll[p].day)) <= poll[p].counted
        /\ poll[p].pc = "dialed" => Cardinality(PolledRows) <= poll[p].counted
        /\ poll[p].pc = "insert" /\ poll[p].room > 0 =>
            Cardinality(Committed("poll")) + poll[p].room <= Cap

CapInv ==
    /\ PollsKeepTheDailyCap
    /\ Cardinality(called) <= dialed
    /\ \A c \in PolledRows : row[c].day <= today
    /\ OneSees
    /\ \A p \in Poller : PollHolds(p)

LEMMA SumHolds ==
    ASSUME NEW a \in Nat, NEW b \in Nat, NEW k \in Nat, NEW m \in Nat, NEW n \in Nat,
           a <= k, b <= m, n <= a + b
    PROVE  n <= k + m
OBVIOUS

LEMMA PolledTyped ==
    ASSUME TypeOK
    PROVE  /\ PolledRows \in SUBSET Contact /\ Cardinality(PolledRows) \in Nat
           /\ Committed("poll") \in SUBSET Contact /\ Cardinality(Committed("poll")) \in Nat
           /\ Cardinality(called) \in Nat
           /\ \A day : Behind(day) \in SUBSET Contact /\ Cardinality(Behind(day)) \in Nat
<1>1. /\ PolledRows \in SUBSET Contact /\ Committed("poll") \in SUBSET Contact
      /\ called \in SUBSET Contact /\ \A day : Behind(day) \in SUBSET Contact
  BY DEF PolledRows, Committed, Behind, TypeOK
<1> QED BY <1>1, CountTyped

LEMMA CapInit == Init => CapInv
<1> SUFFICES ASSUME Init PROVE CapInv
  OBVIOUS
<1>1. PolledRows = {} /\ Committed("poll") = {} /\ called = {} /\ dialed = 0
  BY DEF Init, PolledRows, Committed, Active, CalledToday, NoRow
<1>2. \A p \in Poller : ~Sees(p)
  BY DEF Init, IdlePoll, Sees, PollUnderWay
<1>3. Cardinality({}) = 0
  BY FS_EmptySet
<1> QED
  BY <1>1, <1>2, <1>3 DEF CapInv, OneSees, PollsKeepTheDailyCap, PollHolds

(* A step that gives no contact a row of a poll that sees. *)
PolledRowsOnlyLeave ==
    /\ \A c \in Contact : (row'[c].by = "poll" /\ row'[c].status # "none") =>
        row[c].by = "poll" /\ row[c].status # "none" /\ row'[c].day = row[c].day
    /\ \A c \in Contact :
        (row'[c].by = "poll" /\ (row'[c].status # "none" \/ c \in called')) =>
            row[c].by = "poll" /\ (row[c].status # "none" \/ c \in called)

LEMMA RowsLeave ==
    ASSUME TypeOK, TypeOK', PolledRowsOnlyLeave
    PROVE  /\ PolledRows' \in SUBSET PolledRows
           /\ \A c \in PolledRows' : row'[c].day = row[c].day
           /\ (Committed("poll"))' \in SUBSET Committed("poll")
BY DEF PolledRowsOnlyLeave, PolledRows, Committed, Active, CalledToday

(* Sets that only shrink: the counts of a poll cover them still. *)
LEMMA ShrinkHolds ==
    ASSUME NEW S \in SUBSET Contact, NEW T \in SUBSET S, NEW k \in Int, Cardinality(S) <= k
    PROVE  Cardinality(T) <= k
<1>1. Cardinality(T) <= Cardinality(S) /\ Cardinality(S) \in Nat /\ Cardinality(T) \in Nat
  BY CountMonotone, CountTyped
<1> QED BY <1>1

LEMMA CapShrinks ==
    ASSUME TypeOK, TypeOK', CapInv, PolledRowsOnlyLeave,
           \A p \in Poller : Sees(p)' => Sees(p) /\ poll'[p] = poll[p],
           today' >= today, Cardinality(called') <= dialed'
    PROVE  CapInv'
<1>1. /\ PolledRows' \in SUBSET PolledRows
      /\ \A c \in PolledRows' : row'[c].day = row[c].day
      /\ (Committed("poll"))' \in SUBSET Committed("poll")
  BY RowsLeave
<1>2. /\ PolledRows \in SUBSET Contact
      /\ Committed("poll") \in SUBSET Contact
      /\ \A day : Behind(day) \in SUBSET Contact
      /\ Cardinality(Committed("poll")) \in Nat
  BY PolledTyped
<1>3. PollsKeepTheDailyCap'
  BY <1>1, <1>2, ShrinkHolds DEF CapInv, PollsKeepTheDailyCap
<1>4. /\ today \in Int /\ today' \in Int
      /\ \A c \in Contact : row[c].day \in Int
  BY DEF TypeOK, Row
<1>5. \A c \in PolledRows' : row'[c].day <= today'
  BY <1>1, <1>2, <1>4 DEF CapInv
<1>6. ASSUME NEW p \in Poller, Sees(p)' PROVE PollHolds(p)'
  <2>1. poll'[p] = poll[p] /\ PollHolds(p) /\ Sees(p)
        /\ poll[p].day \in Int /\ poll[p].counted \in Int /\ poll[p].room \in Int
    BY <1>6 DEF TypeOK, Poll, CapInv
  <2>2. poll[p].day <= today' /\ \A c \in PolledRows' : row'[c].day <= poll[p].day
    BY <1>1, <1>4, <2>1 DEF PollHolds
  <2>3. poll[p].pc \in {"queued", "sameDay"} =>
            Cardinality(Behind(poll[p].day)') <= poll[p].counted
    <3>1. Behind(poll[p].day)' \in SUBSET Behind(poll[p].day)
      BY <1>1, <2>1 DEF Behind
    <3> QED BY <1>2, <2>1, <3>1, ShrinkHolds DEF PollHolds
  <2>4. poll[p].pc = "dialed" => Cardinality(PolledRows') <= poll[p].counted
    BY <1>1, <1>2, <2>1, ShrinkHolds DEF PollHolds
  <2>5. poll[p].pc = "insert" /\ poll[p].room > 0 =>
            Cardinality((Committed("poll"))') + poll[p].room <= Cap
    <3> SUFFICES ASSUME poll[p].pc = "insert", poll[p].room > 0
                 PROVE  Cardinality((Committed("poll"))') + poll[p].room <= Cap
      OBVIOUS
    <3> PICK T \in SUBSET Committed("poll") : T = (Committed("poll"))'
      BY <1>1
    <3>1. Cardinality(T) <= Cardinality(Committed("poll"))
          /\ Cardinality(T) \in Nat
      BY <1>2, CountMonotone, CountTyped
    <3>2. Cardinality(Committed("poll")) + poll[p].room <= Cap
      BY <2>1 DEF PollHolds
    <3>3. Cardinality(T) + poll[p].room <= Cap
      BY <1>2, <2>1, <3>1, <3>2
    <3> QED BY <3>3
  <2> QED BY <2>1, <2>2, <2>3, <2>4, <2>5 DEF PollHolds
<1>7. \A p \in Poller : PollHolds(p)'
  BY <1>6 DEF PollHolds
<1>8. OneSees'
  BY DEF OneSees, CapInv
<1> QED BY <1>3, <1>5, <1>7, <1>8 DEF CapInv

LEMMA CallsCounted ==
    ASSUME TypeOK, TypeOK', Cardinality(called) <= dialed, NEW c \in Contact,
           called' = called \cup {c}, dialed' = dialed + 1
    PROVE  Cardinality(called') <= dialed'
<1>1. called \in SUBSET Contact /\ dialed \in Nat /\ Cardinality(called) \in Nat
  BY PolledTyped DEF TypeOK
<1> PICK T \in SUBSET (called \cup {c}) : T = called'
  OBVIOUS
<1>2. Cardinality(T) <= Cardinality(called) + 1 /\ Cardinality(T) \in Nat
  BY <1>1, CountOne, CountTyped
<1>3. Cardinality(T) <= dialed + 1
  BY <1>1, <1>2
<1> QED BY <1>3

(* A step of a poll that touches no row. *)
LEMMA CapOfPoll ==
    ASSUME TypeOK, TypeOK', CapInv, UNCHANGED <<today, row, dialed, called>>,
           NEW p \in Poller, PollHolds(p)',
           \A q \in Poller : q # p => poll'[q] = poll[q],
           Sees(p)' => \A q \in Poller : q # p => ~Sees(q)
    PROVE  CapInv'
<1>1. PolledRows' = PolledRows /\ (Committed("poll"))' = Committed("poll")
      /\ \A day : Behind(day)' = {c \in PolledRows : row[c].day < day}
  BY DEF PolledRows, Committed, Active, CalledToday, Behind
<1>2. \A q \in Poller : q # p => (Sees(q)' <=> Sees(q))
  BY DEF Sees, PollUnderWay
<1>3. ASSUME NEW q \in Poller, q # p PROVE PollHolds(q)'
  <2>1. poll'[q] = poll[q] /\ PollHolds(q)
    BY <1>3 DEF CapInv
  <2>2. Behind(poll[q].day)' = Behind(poll[q].day)
    BY <1>1, <2>1 DEF Behind
  <2> QED BY <1>1, <1>2, <1>3, <2>1, <2>2 DEF PollHolds
<1>4. OneSees'
  BY <1>2 DEF OneSees, CapInv
<1>5. PollsKeepTheDailyCap' /\ Cardinality(called') <= dialed'
      /\ \A c \in PolledRows' : row'[c].day <= today'
  BY <1>1 DEF CapInv, PollsKeepTheDailyCap
<1>6. \A q \in Poller : PollHolds(q)'
  BY <1>3
<1> QED BY <1>4, <1>5, <1>6 DEF CapInv

LEMMA ReadsHold ==
    ASSUME TypeOK, TypeOK', CapInv, NEW p \in Poller, PollReads(p), Sees(p)
    PROVE  PollHolds(p)'
<1> DEFINE pc == poll[p].pc
           day == poll[p].day
           before == poll[p].counted
           counted == before + CountOf(pc, day)
           room == computeRepeatedPollCapacity(counted)
<1>1. poll \in [Poller -> Poll] /\ poll[p] \in Poll /\ pc \in Read
      /\ day \in 0..MaxDay /\ before \in Nat
  BY DEF PollReads, TypeOK, Poll
<1>2. poll'[p].pc = NextRead(pc) /\ poll'[p].counted = counted
      /\ poll'[p].room = room /\ poll'[p].day = day
  <2>1. poll'[p] = Counts(p, CountOf(pc, day))
    BY <1>1 DEF PollReads
  <2>2. CountOf(pc, day) \in Nat
    BY <1>1, CountOfTyped
  <2> HIDE DEF pc, day
  <2>3. /\ Counts(p, CountOf(pc, day)).pc = NextRead(poll[p].pc)
        /\ Counts(p, CountOf(pc, day)).day = poll[p].day
        /\ Counts(p, CountOf(pc, day)).counted = poll[p].counted + CountOf(pc, day)
        /\ Counts(p, CountOf(pc, day)).room
                = computeRepeatedPollCapacity(poll[p].counted + CountOf(pc, day))
    <3>1. poll[p].pc \in Read
      BY <1>1 DEF pc
    <3> QED BY <2>2, <3>1, CountsTyped
  <2> QED BY <2>1, <2>3 DEF pc, day
<1>3. UNCHANGED <<today, row, dialed, called>>
  BY DEF PollReads
<1>4. PolledRows' = PolledRows /\ (Committed("poll"))' = Committed("poll")
      /\ Behind(poll[p].day)' = Behind(day)
  <2>1. PolledRows' = PolledRows /\ (Committed("poll"))' = Committed("poll")
    BY <1>3 DEF PolledRows, Committed, Active, CalledToday
  <2>2. Behind(poll[p].day)' = Behind(day)
    BY <1>2, <1>3, <2>1 DEF Behind
  <2> QED BY <2>1, <2>2
<1>5. day <= today /\ \A c \in PolledRows : row[c].day <= day
  BY <1>1 DEF CapInv, PollHolds
<1>6. CountOf(pc, day) \in Nat /\ counted \in Nat
  <2>1. CountOf(pc, day) \in Nat
    BY <1>1, CountOfTyped
  <2> QED BY <1>1, <2>1
<1>7. /\ PolledRows \in SUBSET Contact /\ Cardinality(PolledRows) \in Nat
      /\ Committed("poll") \in SUBSET Contact /\ Cardinality(Committed("poll")) \in Nat
      /\ Cardinality(called) \in Nat /\ Cardinality(Behind(day)) \in Nat
      /\ Behind(day) \in SUBSET Contact /\ called \in SUBSET Contact
  BY PolledTyped DEF TypeOK
<1>8. CASE pc = "rollover"
  <2>1. NextRead(pc) = "queued" /\ CountOf(pc, day) = countRolloverBacklog(day)
    BY <1>8 DEF NextRead, CountOf
  <2>2. Cardinality(Behind(day)) <= countRolloverBacklog(day)
    <3> DEFINE S == {c \in Contact : Active(c) /\ row[c].day < day}
    <3>1. Behind(day) \in SUBSET S
      BY DEF Behind, PolledRows
    <3>2. Cardinality(Behind(day)) <= Cardinality(S)
      BY <3>1, CountMonotone
    <3> QED BY <3>2 DEF countRolloverBacklog
  <2>3. Cardinality(Behind(day)) <= counted
    BY <1>1, <1>6, <1>7, <2>1, <2>2
  <2> HIDE DEF counted, room, day, pc
  <2> QED BY <1>2, <1>3, <1>4, <1>5, <2>1, <2>3 DEF PollHolds
<1>9. CASE pc = "queued"
  <2>1. NextRead(pc) = "sameDay"
    BY <1>9 DEF NextRead
  <2>2. Cardinality(Behind(day)) <= before
    BY <1>9 DEF CapInv, PollHolds
  <2>3. Cardinality(Behind(day)) <= counted
    BY <1>1, <1>6, <1>7, <2>2
  <2> HIDE DEF counted, room, day, pc
  <2> QED BY <1>2, <1>3, <1>4, <1>5, <2>1, <2>3 DEF PollHolds
<1>10. CASE pc = "sameDay"
  <2>1. NextRead(pc) = "dialed" /\ CountOf(pc, day) = countActiveQueue(day)
    BY <1>10 DEF NextRead, CountOf
  <2>2. Cardinality(Behind(day)) <= before
    BY <1>10 DEF CapInv, PollHolds
  <2> DEFINE S == {c \in Contact : Active(c) /\ row[c].day = day}
  <2>3. PolledRows \in SUBSET (Behind(day) \cup S)
    <3>1. \A c \in Contact : row[c].day \in Int
      BY DEF TypeOK, Row
    <3> QED BY <1>1, <1>5, <3>1 DEF Behind, PolledRows
  <2>4. Cardinality(PolledRows) <= Cardinality(Behind(day)) + Cardinality(S)
    BY <1>7, <2>3, CountUnion
  <2>5. Cardinality(S) \in Nat /\ Cardinality(S) = CountOf(pc, day)
    BY <2>1, CountTyped DEF countActiveQueue
  <2>6. Cardinality(PolledRows) <= counted
    <3> HIDE DEF S
    <3> QED BY <1>1, <1>7, <2>2, <2>4, <2>5
  <2> HIDE DEF counted, room, day, pc
  <2> QED BY <1>2, <1>3, <1>4, <1>5, <2>1, <2>6 DEF PollHolds
<1>11. CASE pc = "dialed"
  <2>1. NextRead(pc) = "insert" /\ CountOf(pc, day) = dialed
    BY <1>11 DEF NextRead, CountOf, countDialedToday
  <2>2. Cardinality(PolledRows) <= before
    BY <1>11 DEF CapInv, PollHolds
  <2>3. Cardinality(called) <= dialed /\ dialed \in Nat
    BY DEF CapInv, TypeOK
  <2>4. Committed("poll") \in SUBSET (PolledRows \cup called)
    BY DEF Committed, PolledRows, CalledToday
  <2>5. Cardinality(Committed("poll")) <= Cardinality(PolledRows) + Cardinality(called)
    BY <1>7, <2>4, CountUnion
  <2>6. Cardinality(Committed("poll")) <= counted
    BY <1>1, <1>7, <2>1, <2>2, <2>3, <2>5
  <2>7. room > 0 => Cardinality(Committed("poll")) + room <= Cap
    <3>1. room \in Nat /\ (room > 0 => counted + room <= Cap)
      BY <1>6, RoomTyped
    <3> HIDE DEF counted, room
    <3> QED BY <1>6, <1>7, <2>6, <3>1
  <2> HIDE DEF counted, room, day, pc
  <2> QED BY <1>2, <1>3, <1>4, <1>5, <2>1, <2>7 DEF PollHolds
<1> QED BY <1>1, <1>8, <1>9, <1>10, <1>11 DEF Read

(* An insert of the poll uses one of its rooms for at most one contact. *)
LEMMA InsertHolds ==
    ASSUME TypeOK, TypeOK', CapInv, NEW p \in Poller, PollInserts(p), Sees(p)
    PROVE  CapInv'
<1> PICK c \in Contact : /\ Upsert(c, poll[p].day, "poll")
                         /\ poll' = [poll EXCEPT ![p].room = @ - 1, ![p].taken = @ \cup {c}]
  BY DEF PollInserts, Sees
<1>1. /\ poll[p] \in Poll /\ poll[p].day \in Int /\ poll[p].room \in Nat /\ poll[p].room > 0
      /\ today \in Int /\ row \in [Contact -> Row]
      /\ poll[p].pc = "insert"
  BY DEF PollInserts, TypeOK, Poll
<1>2. /\ poll'[p].pc = "insert" /\ poll'[p].day = poll[p].day
      /\ poll'[p].room = poll[p].room - 1
  BY <1>1 DEF TypeOK, Poll
<1>3. UNCHANGED <<today, dialed, called>>
  BY DEF PollInserts
<1>4. /\ poll[p].day <= today /\ \A e \in PolledRows : row[e].day <= poll[p].day
      /\ Cardinality(Committed("poll")) + poll[p].room <= Cap
  BY <1>1 DEF CapInv, PollHolds
<1>5. /\ \A e \in Contact : e # c => row'[e] = row[e]
      /\ row'[c].day = poll[p].day
  <2>1. CASE Active(c) /\ row[c].day = poll[p].day /\ row' = [row EXCEPT ![c].phone = 1]
    BY <1>1, <2>1 DEF Row
  <2>2. CASE row' = [row EXCEPT ![c] = [NoRow EXCEPT !.status = "pending", !.day = poll[p].day,
                                                     !.by = "poll"]]
    <3> DEFINE new == [NoRow EXCEPT !.status = "pending", !.day = poll[p].day, !.by = "poll"]
    <3>1. new.day = poll[p].day
      BY DEF NoRow
    <3>2. row' = [row EXCEPT ![c] = new]
      BY <2>2
    <3> HIDE DEF new
    <3> QED BY <1>1, <3>1, <3>2
  <2> QED BY <2>1, <2>2 DEF Upsert
<1>6. PolledRows' \in SUBSET (PolledRows \cup {c})
      /\ (Committed("poll"))' \in SUBSET (Committed("poll") \cup {c})
  BY <1>3, <1>5 DEF PolledRows, Committed, Active, CalledToday
<1>7. \A e \in PolledRows' : row'[e].day <= poll[p].day /\ row'[e].day \in Int
  <2>1. \A e \in Contact : row[e].day \in Int
    BY <1>1 DEF Row
  <2>2. PolledRows \in SUBSET Contact
    BY PolledTyped
  <2>3. ASSUME NEW e \in PolledRows' PROVE row'[e].day <= poll[p].day /\ row'[e].day \in Int
    <3>1. CASE e = c
      BY <1>1, <1>5, <3>1
    <3>2. CASE e # c
      <4>1. e \in PolledRows /\ row'[e] = row[e]
        BY <1>5, <1>6, <2>2, <3>2
      <4> QED BY <1>4, <2>1, <2>2, <4>1
    <3> QED BY <3>1, <3>2
  <2> QED BY <2>3
<1>8. Cardinality((Committed("poll"))') + (poll[p].room - 1) <= Cap
      /\ Cardinality((Committed("poll"))') <= Cap
  <2> PICK T \in SUBSET (Committed("poll") \cup {c}) : T = (Committed("poll"))'
    BY <1>6
  <2>1. Committed("poll") \in SUBSET Contact /\ Cardinality(Committed("poll")) \in Nat
    BY PolledTyped
  <2>2. Cardinality(T) <= Cardinality(Committed("poll")) + 1 /\ Cardinality(T) \in Nat
    BY <2>1, CountOne, CountTyped
  <2>3. Cardinality(T) + (poll[p].room - 1) <= Cap /\ Cardinality(T) <= Cap
    BY <1>1, <1>4, <2>1, <2>2
  <2> QED BY <2>3
<1>9. \A e \in PolledRows' : row'[e].day <= today'
  BY <1>1, <1>3, <1>4, <1>7
<1>10. PollHolds(p)'
  BY <1>2, <1>3, <1>4, <1>7, <1>8 DEF PollHolds
<1>11. \A q \in Poller : q # p => ~Sees(q) /\ ~Sees(q)'
  <2>1. \A q \in Poller : q # p => poll'[q] = poll[q]
    BY DEF TypeOK
  <2> QED BY <2>1 DEF CapInv, OneSees, Sees, PollUnderWay
<1>12. OneSees' /\ \A q \in Poller : PollHolds(q)'
  BY <1>10, <1>11 DEF OneSees, PollHolds
<1> QED BY <1>3, <1>8, <1>9, <1>12 DEF CapInv, PollsKeepTheDailyCap

(* A blind poll gives no contact a row of a poll that sees, and nothing it  *)
(* does to itself matters to one.                                           *)
LEMMA BlindHolds ==
    ASSUME TypeOK, TypeOK', CapInv, NEW p \in Poller, PollInserts(p), ~Sees(p)
    PROVE  CapInv'
<1> PICK c \in Contact : /\ Upsert(c, poll[p].day, "blind")
                         /\ poll' = [poll EXCEPT ![p].room = @ - 1, ![p].taken = @ \cup {c}]
  BY DEF PollInserts, Sees, PollUnderWay
<1>1. UNCHANGED <<today, dialed, called>> /\ row \in [Contact -> Row]
  BY DEF PollInserts, TypeOK
<1>2. \A q \in Poller : Sees(q)' => Sees(q) /\ poll'[q] = poll[q]
  <2>1. poll'[p].pc = poll[p].pc /\ poll'[p].blind = poll[p].blind
    BY DEF TypeOK, Poll
  <2>2. \A q \in Poller : q # p => poll'[q] = poll[q]
    BY DEF TypeOK
  <2> QED BY <2>1, <2>2 DEF Sees, PollUnderWay
<1>3. PolledRowsOnlyLeave
  <2>1. CASE row' = [row EXCEPT ![c].phone = 1]
    <3>1. /\ \A e \in Contact : e # c => row'[e] = row[e]
          /\ row'[c].status = row[c].status /\ row'[c].by = row[c].by /\ row'[c].day = row[c].day
      BY <1>1, <2>1 DEF Row
    <3> QED BY <1>1, <3>1 DEF PolledRowsOnlyLeave
  <2>2. CASE row' = [row EXCEPT ![c] = [NoRow EXCEPT !.status = "pending", !.day = poll[p].day,
                                                     !.by = "blind"]]
    <3> DEFINE new == [NoRow EXCEPT !.status = "pending", !.day = poll[p].day, !.by = "blind"]
    <3>1. new.by = "blind"
      BY DEF NoRow
    <3>2. row' = [row EXCEPT ![c] = new]
      BY <2>2
    <3> HIDE DEF new
    <3>3. row'[c].by = "blind" /\ \A e \in Contact : e # c => row'[e] = row[e]
      BY <1>1, <3>1, <3>2
    <3> QED BY <1>1, <3>3 DEF PolledRowsOnlyLeave
  <2> QED BY <2>1, <2>2 DEF Upsert
<1>4. today' >= today /\ Cardinality(called') <= dialed'
  BY <1>1 DEF TypeOK, CapInv
<1> QED BY <1>2, <1>3, <1>4, CapShrinks

(* No other step gives a contact a row of a poll. *)
LEMMA OthersOnlyLeave ==
    ASSUME TypeOK, TypeOK', OneDrain, ClaimsHold, CapInv,
           \/ \E c \in Contact : QueueByHand(c) \/ WorkerClaims(c) \/ WorkerPlaces(c) \/ CallEnds(c)
           \/ \E d \in Drainer :
                \/ DrainStarts(d) \/ DrainEnds(d)
                \/ \E c \in Contact : DrainLooksAt(d, c) \/ DrainPlaces(d, c)
           \/ DayEnds
    PROVE  /\ PolledRowsOnlyLeave /\ UNCHANGED poll /\ today' >= today
           /\ Cardinality(called') <= dialed'
<1> DEFINE Goal == /\ PolledRowsOnlyLeave /\ UNCHANGED poll /\ today' >= today
                   /\ Cardinality(called') <= dialed'
<1>1. /\ today \in Int /\ row \in [Contact -> Row] /\ Cardinality(called) <= dialed
      /\ \A c \in Contact : row[c].by \in Source /\ row[c].status \in Status
  BY DEF TypeOK, Row, CapInv
<1>2. ASSUME UNCHANGED <<today, row, called, dialed, poll>> PROVE Goal
  BY <1>1, <1>2 DEF PolledRowsOnlyLeave
<1>3. ASSUME NEW c \in Contact, UNCHANGED <<today, called, dialed, poll>>,
             \A e \in Contact : e # c => row'[e] = row[e],
             row'[c].by = "poll" /\ row'[c].status # "none" =>
                row[c].by = "poll" /\ row[c].status # "none" /\ row'[c].day = row[c].day,
             row'[c].by = "poll" => row[c].by = "poll"
      PROVE  Goal
  BY <1>1, <1>3 DEF PolledRowsOnlyLeave
<1>4. ASSUME NEW c \in Contact, row[c].status # "none", NEW status \in Status
      PROVE  LET r == [row EXCEPT ![c].status = status]
             IN  /\ \A e \in Contact : e # c => r[e] = row[e]
                 /\ r[c].status = status /\ r[c].by = row[c].by /\ r[c].day = row[c].day
  BY <1>1 DEF Row
<1>5. ASSUME NEW c \in Contact, row[c].status # "none", Place(c), UNCHANGED <<today, poll>>
      PROVE  Goal
  <2>1. /\ \A e \in Contact : e # c => row'[e] = row[e]
        /\ row'[c].status = "dialing" /\ row'[c].by = row[c].by /\ row'[c].day = row[c].day
    BY <1>4, <1>5 DEF Place, Status
  <2>2. called' = called \cup {c} /\ dialed' = dialed + 1
    BY <1>5 DEF Place
  <2>3. Cardinality(called') <= dialed'
    BY <1>1, <2>2, CallsCounted
  <2>4. PolledRowsOnlyLeave
    BY <1>5, <2>1, <2>2 DEF PolledRowsOnlyLeave
  <2> QED BY <1>1, <1>5, <2>3, <2>4
<1>6. ASSUME NEW c \in Contact, row[c].status # "none", NEW status \in Status,
             row' = [row EXCEPT ![c].status = status], UNCHANGED <<today, called, dialed, poll>>
      PROVE  Goal
  <2>1. /\ \A e \in Contact : e # c => row'[e] = row[e]
        /\ row'[c].by = row[c].by /\ row'[c].day = row[c].day
    BY <1>4, <1>6
  <2> QED BY <1>3, <1>6, <2>1
<1>7. ASSUME NEW c \in Contact, QueueByHand(c) PROVE Goal
  <2>1. UNCHANGED <<today, called, dialed, poll>>
    BY <1>7 DEF QueueByHand
  <2>2. CASE row' = [row EXCEPT ![c].phone = 1]
    <3>1. /\ \A e \in Contact : e # c => row'[e] = row[e]
          /\ row'[c].status = row[c].status /\ row'[c].by = row[c].by /\ row'[c].day = row[c].day
      BY <1>1, <2>2 DEF Row
    <3> QED BY <1>3, <2>1, <3>1
  <2>3. CASE row' = [row EXCEPT ![c] = [NoRow EXCEPT !.status = "pending", !.day = today,
                                                     !.by = "hand"]]
    <3> DEFINE new == [NoRow EXCEPT !.status = "pending", !.day = today, !.by = "hand"]
    <3>1. new.by = "hand"
      BY DEF NoRow
    <3>2. row' = [row EXCEPT ![c] = new]
      BY <2>3
    <3> HIDE DEF new
    <3>3. row'[c].by = "hand" /\ \A e \in Contact : e # c => row'[e] = row[e]
      BY <1>1, <3>1, <3>2
    <3> QED BY <1>3, <2>1, <3>3
  <2> QED BY <1>7, <2>2, <2>3 DEF QueueByHand, Upsert
<1>8. ASSUME NEW c \in Contact, WorkerClaims(c) PROVE Goal
  <2>1. row[c].status = "pending" /\ row' = [row EXCEPT ![c].status = "claimed"]
        /\ UNCHANGED <<today, called, dialed, poll>>
    BY <1>8 DEF WorkerClaims, Claim
  <2>2. "claimed" \in Status
    BY DEF Status
  <2> QED BY <1>6, <2>1, <2>2
<1>9. ASSUME NEW c \in Contact, WorkerPlaces(c) PROVE Goal
  <2>1. row[c].status = "claimed" /\ UNCHANGED <<today, poll>>
        /\ \/ Place(c)
           \/ row' = [row EXCEPT ![c].status = "pending"] /\ UNCHANGED <<dialed, called>>
    BY <1>9 DEF WorkerPlaces
  <2>2. "pending" \in Status
    BY DEF Status
  <2>3. CASE Place(c)
    BY <1>5, <2>1, <2>3
  <2>4. CASE row' = [row EXCEPT ![c].status = "pending"] /\ UNCHANGED <<dialed, called>>
    BY <1>6, <2>1, <2>2, <2>4
  <2> QED BY <2>1, <2>3, <2>4
<1>10. ASSUME NEW c \in Contact, CallEnds(c) PROVE Goal
  <2>1. row[c].status = "dialing" /\ UNCHANGED <<today, called, dialed, poll>>
    BY <1>10 DEF CallEnds
  <2>2. CASE row' = [row EXCEPT ![c].status = "none"]
    <3>1. "none" \in Status
      BY DEF Status
    <3> QED BY <1>6, <2>1, <2>2, <3>1
  <2>3. CASE row' = [row EXCEPT ![c].status = "pending", ![c].phone = @ + 1]
    <3>1. /\ \A e \in Contact : e # c => row'[e] = row[e]
          /\ row'[c].by = row[c].by /\ row'[c].day = row[c].day
      BY <1>1, <2>3 DEF Row
    <3> QED BY <1>3, <2>1, <3>1
  <2> QED BY <1>10, <2>2, <2>3 DEF CallEnds
<1>11. ASSUME NEW d \in Drainer, DrainStarts(d) \/ DrainEnds(d) PROVE Goal
  BY <1>2, <1>11 DEF DrainStarts, DrainEnds
<1>12. ASSUME NEW d \in Drainer, NEW c \in Contact, DrainLooksAt(d, c) PROVE Goal
  <2>1. /\ UNCHANGED <<today, called, dialed, poll>>
        /\ \/ row' = row
           \/ row' = [row EXCEPT ![c].status = "claimed"] /\ row[c].status = "pending"
    BY <1>12, LooksAtEffect
  <2>2. "claimed" \in Status
    BY DEF Status
  <2>3. CASE row' = row
    BY <1>2, <2>1, <2>3
  <2>4. CASE row' = [row EXCEPT ![c].status = "claimed"] /\ row[c].status = "pending"
    BY <1>6, <2>1, <2>2, <2>4
  <2> QED BY <2>1, <2>3, <2>4
<1>13. ASSUME NEW d \in Drainer, NEW c \in Contact, DrainPlaces(d, c) PROVE Goal
  <2>1. row[c].status # "none" /\ UNCHANGED <<today, poll>>
    BY <1>13 DEF DrainPlaces, ClaimsHold
  <2>2. CASE Place(c)
    BY <1>5, <2>1, <2>2
  <2>3. CASE /\ \E status \in {"none", "pending"} : row' = [row EXCEPT ![c].status = status]
             /\ UNCHANGED <<dialed, called>>
    <3> PICK status \in {"none", "pending"} : row' = [row EXCEPT ![c].status = status]
      BY <2>3
    <3>1. status \in Status
      BY DEF Status
    <3> QED BY <1>6, <2>1, <2>3, <3>1
  <2> QED BY <1>13, <2>2, <2>3 DEF DrainPlaces
<1>14. ASSUME DayEnds PROVE Goal
  <2>1. Cardinality({}) = 0
    BY FS_EmptySet
  <2>2. UNCHANGED <<row, poll>> /\ today' = today + 1 /\ called' = {} /\ dialed' = 0
    BY <1>14 DEF DayEnds
  <2> QED BY <1>1, <2>1, <2>2 DEF PolledRowsOnlyLeave
<1> HIDE DEF Goal
<1> DEFINE ofContact == \E c \in Contact :
                QueueByHand(c) \/ WorkerClaims(c) \/ WorkerPlaces(c) \/ CallEnds(c)
           ofDrain == \E d \in Drainer :
                \/ DrainStarts(d) \/ DrainEnds(d)
                \/ \E c \in Contact : DrainLooksAt(d, c) \/ DrainPlaces(d, c)
<1>15. ofContact \/ ofDrain \/ DayEnds
  OBVIOUS
<1>16. ofContact => Goal
  BY <1>7, <1>8, <1>9, <1>10
<1>17. ofDrain => Goal
  BY <1>11, <1>12, <1>13
<1> HIDE DEF ofContact, ofDrain
<1>18. Goal
  BY <1>14, <1>15, <1>16, <1>17
<1> QED BY <1>18 DEF Goal

LEMMA CapKept ==
    ASSUME TypeOK, TypeOK', OneDrain, ClaimsHold, CapInv, [Next]_vars
    PROVE  CapInv'
<1>1. ASSUME NEW p \in Poller, PollStarts(p) PROVE CapInv'
  <2>1. /\ UNCHANGED <<today, row, dialed, called>>
        /\ poll'[p].pc = "rollover" /\ poll'[p].day = today
        /\ poll'[p].blind = \E q \in Poller : PollUnderWay(q)
        /\ \A q \in Poller : q # p => poll'[q] = poll[q]
    BY <1>1 DEF PollStarts, TypeOK, Poll, IdlePoll
  <2>2. /\ PolledRows' = PolledRows /\ today \in Int
        /\ \A c \in PolledRows : row[c].day <= today
    BY <2>1 DEF PolledRows, Active, CapInv, TypeOK
  <2>3. PollHolds(p)'
    BY <2>1, <2>2 DEF PollHolds
  <2>4. Sees(p)' => \A q \in Poller : ~Sees(q)
    BY <2>1 DEF Sees
  <2> QED BY <2>1, <2>3, <2>4, CapOfPoll
<1>2. ASSUME NEW p \in Poller, PollReads(p) PROVE CapInv'
  <2>1. UNCHANGED <<today, row, dialed, called>>
        /\ \A q \in Poller : q # p => poll'[q] = poll[q]
    BY <1>2 DEF PollReads, TypeOK
  <2>2. Sees(p)' => Sees(p)
    <3>1. poll[p].pc \in Read /\ poll[p].day \in 0..MaxDay
      BY <1>2 DEF PollReads, TypeOK, Poll
    <3>2. CountOf(poll[p].pc, poll[p].day) \in Nat
      BY <3>1, CountOfTyped
    <3>3. poll'[p] = Counts(p, CountOf(poll[p].pc, poll[p].day))
      BY <1>2 DEF PollReads, TypeOK
    <3>4. poll'[p].blind = poll[p].blind /\ poll[p].pc # "idle"
      BY <3>1, <3>2, <3>3, CountsTyped DEF Read
    <3> QED BY <3>4 DEF Sees, PollUnderWay
  <2>3. PollHolds(p)'
    BY <1>2, <2>2, ReadsHold DEF PollHolds
  <2>4. Sees(p)' => \A q \in Poller : q # p => ~Sees(q)
    BY <2>2 DEF CapInv, OneSees
  <2> QED BY <2>1, <2>3, <2>4, CapOfPoll
<1>3. ASSUME NEW p \in Poller, PollMiscounts(p) PROVE CapInv'
  <2>1. UNCHANGED <<today, row, dialed, called>>
        /\ \A q \in Poller : q # p => poll'[q] = poll[q]
    BY <1>3 DEF PollMiscounts, TypeOK
  <2>2. poll'[p].blind
    <3>1. poll[p].pc \in Read
      BY <1>3 DEF PollMiscounts, Read
    <3>2. Counts(p, 0) \in Poll
      BY <3>1, CountsTyped
    <3>3. poll'[p] = [Counts(p, 0) EXCEPT !.blind = TRUE]
      BY <1>3 DEF PollMiscounts, TypeOK
    <3> QED BY <3>2, <3>3 DEF Poll
  <2> QED BY <2>1, <2>2, CapOfPoll DEF PollHolds, Sees
<1>4. ASSUME NEW p \in Poller, PollEnds(p) PROVE CapInv'
  <2>1. UNCHANGED <<today, row, dialed, called>> /\ poll'[p].pc = "idle"
        /\ \A q \in Poller : q # p => poll'[q] = poll[q]
    BY <1>4 DEF PollEnds, TypeOK, IdlePoll
  <2> QED BY <2>1, CapOfPoll DEF PollHolds, Sees, PollUnderWay
<1>5. ASSUME PolledRowsOnlyLeave, UNCHANGED poll, today' >= today, Cardinality(called') <= dialed'
      PROVE  CapInv'
  <2>1. \A p \in Poller : Sees(p)' => Sees(p) /\ poll'[p] = poll[p]
    BY <1>5 DEF Sees, PollUnderWay
  <2> QED BY <1>5, <2>1, CapShrinks
<1>6. CASE UNCHANGED vars
  <2>1. PolledRowsOnlyLeave /\ UNCHANGED poll /\ Cardinality(called') <= dialed'
    BY <1>6 DEF vars, PolledRowsOnlyLeave, CapInv
  <2>2. today' >= today
    BY <1>6 DEF vars, TypeOK
  <2> QED BY <1>5, <2>1, <2>2
<1>7. ASSUME \/ \E c \in Contact :
                    QueueByHand(c) \/ WorkerClaims(c) \/ WorkerPlaces(c) \/ CallEnds(c)
             \/ \E d \in Drainer :
                    \/ DrainStarts(d) \/ DrainEnds(d)
                    \/ \E c \in Contact : DrainLooksAt(d, c) \/ DrainPlaces(d, c)
             \/ DayEnds
      PROVE  CapInv'
  BY <1>5, <1>7, OthersOnlyLeave
<1>8. ASSUME NEW p \in Poller, PollInserts(p) PROVE CapInv'
  BY <1>8, InsertHolds, BlindHolds
<1> QED BY <1>1, <1>2, <1>3, <1>4, <1>6, <1>7, <1>8 DEF Next

(* Polls that count right and begin alone never commit the agent to more    *)
(* contacts than the cap: rows may move between the queue and the calls     *)
(* while they count, be dialed by worker and drain, wait since yesterday,   *)
(* see midnight pass, or be added by the operator, by polls that begin      *)
(* beside them and by polls whose count has failed.                         *)
THEOREM PollsStayInCap ==
    ASSUME OneDrain
    PROVE  Spec => []PollsKeepTheDailyCap
<1>1. TypeOK /\ TypeOK' /\ ClaimsHold /\ CapInv /\ [Next]_vars => CapInv'
  BY CapKept
<1>2. TypeOK /\ ClaimsHold /\ [Next]_vars => ClaimsHold'
  BY ClaimsKept
<1>3. CapInv => PollsKeepTheDailyCap
  BY DEF CapInv
<1> QED BY <1>1, <1>2, <1>3, CapInit, ClaimsInit, CapacityTypeCorrect, PTL DEF Spec
=============================================================================
