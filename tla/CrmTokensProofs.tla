-------------------------- MODULE CrmTokensProofs --------------------------
(***************************************************************************)
(* Proofs about CrmTokens, for any number of adapters, processes and pairs *)
(* of tokens.                                                              *)
(***************************************************************************)
EXTENDS CrmTokens, TLAPS

USE DEF PC

-----------------------------------------------------------------------------
(* Type correctness. *)

LEMMA InitTyped == Init => TypeOK
BY TokensAssumption DEF Init, TypeOK, AdapterState, AdapterPC, NoAdapter

LEMMA NextTyped ==
    ASSUME TypeOK, [Next]_vars
    PROVE  TypeOK'
<1> USE TokensAssumption DEF TypeOK, AdapterState, AdapterPC, NoAdapter
<1>1. ASSUME NEW a \in Adapter, Load(a) PROVE TypeOK'
  BY <1>1 DEF Load
<1>2. ASSUME NEW a \in Adapter, EndJob(a) PROVE TypeOK'
  BY <1>2 DEF EndJob
<1>3. ASSUME NEW a \in Adapter, Refresh(a) PROVE TypeOK'
  BY <1>3 DEF Refresh, Ask
<1>4. ASSUME NEW a \in Adapter, HighLevelAnswers(a) PROVE TypeOK'
  <2>1. CASE adapter[a].pair = live
    BY <1>4, <2>1 DEF HighLevelAnswers
  <2>2. CASE adapter[a].pair # live
    BY <1>4, <2>2 DEF HighLevelAnswers
  <2> QED BY <2>1, <2>2
<1>5. ASSUME NEW a \in Adapter, Settle(a) PROVE TypeOK'
  BY <1>5 DEF Settle, Awaiting, Adopt
<1>6. ASSUME NEW a \in Adapter, Write(a) PROVE TypeOK'
  BY <1>6 DEF Write
<1>7. ASSUME NEW a \in Adapter, Flag(a) PROVE TypeOK'
  BY <1>7 DEF Flag
<1>8. ASSUME Expire PROVE TypeOK'
  BY <1>8 DEF Expire
<1>9. ASSUME Reconnect PROVE TypeOK'
  BY <1>9 DEF Reconnect
<1>10. ASSUME NEW a \in Adapter, RefreshFails(a) PROVE TypeOK'
  <2>1. adapter' \in [Adapter -> AdapterState]
        /\ \A b \in Adapter : adapter'[b].pc # "none" => adapter'[b].pair # 0
    <3>1. \A b \in Adapter : [adapter[b] EXCEPT !.pc = "ready"]
                = [pc |-> "ready", pair |-> adapter[b].pair, answer |-> adapter[b].answer]
      OBVIOUS
    <3>2. PC(a) # "none" /\ \A b \in Adapter : PC(b) = "waiting" => PC(b) # "none"
      BY <1>10 DEF RefreshFails
    <3>3. \A b \in Adapter : [adapter[b] EXCEPT !.pc = "ready"] \in AdapterState
      BY <3>1
    <3>4. adapter' = [b \in Adapter |-> IF b \in Awaiting(a)
                                        THEN [adapter[b] EXCEPT !.pc = "ready"]
                                        ELSE adapter[b]]
      BY <1>10 DEF RefreshFails
    <3>5. \A b \in Awaiting(a) : PC(b) # "none"
      BY <3>2 DEF Awaiting
    <3> HIDE DEF AdapterState
    <3>6. adapter' \in [Adapter -> AdapterState]
      BY <3>3, <3>4
    <3>7. ASSUME NEW b \in Adapter, adapter'[b].pc # "none"
          PROVE  adapter'[b].pair # 0
      <4>1. CASE b \in Awaiting(a)
        <5>1. adapter'[b] = [adapter[b] EXCEPT !.pc = "ready"]
          BY <3>4, <4>1
        <5>2. adapter'[b].pair = adapter[b].pair
          BY <3>1, <5>1
        <5> QED BY <3>5, <4>1, <5>2
      <4>2. CASE b \notin Awaiting(a)
        BY <3>4, <3>7, <4>2
      <4> QED BY <4>1, <4>2
    <3> QED BY <3>6, <3>7
  <2>2. live' \in 1..MaxPairs /\ fresh' \in BOOLEAN /\ lost' \subseteq 1..MaxPairs
    <3>1. \/ live' = live /\ fresh' = fresh /\ lost' = lost
          \/ /\ live < MaxPairs /\ live' = live + 1
             /\ fresh' = TRUE /\ lost' = lost \cup {live + 1}
      BY <1>10 DEF RefreshFails
    <3>2. live \in 1..MaxPairs /\ fresh \in BOOLEAN /\ lost \subseteq 1..MaxPairs
      OBVIOUS
    <3>3. CASE live' = live /\ fresh' = fresh /\ lost' = lost
      BY <3>2, <3>3
    <3>4. CASE /\ live < MaxPairs /\ live' = live + 1
               /\ fresh' = TRUE /\ lost' = lost \cup {live + 1}
      <4>1. live + 1 \in 1..MaxPairs
        BY <3>2, <3>4
      <4> QED BY <3>2, <3>4, <4>1
    <3> QED BY <3>1, <3>3, <3>4
  <2>3. stored' = stored /\ status' = status
        /\ lock' = [lock EXCEPT ![Home[a]] = Free]
    BY <1>10 DEF RefreshFails
  <2> HIDE DEF AdapterState
  <2> QED BY <2>1, <2>2, <2>3
<1>11. ASSUME NEW p \in Process, ProcessDies(p) PROVE TypeOK'
  BY <1>11 DEF ProcessDies, Carried
<1>12. CASE UNCHANGED vars
  BY <1>12 DEF vars
<1> QED BY <1>1, <1>2, <1>3, <1>4, <1>5, <1>6, <1>7, <1>8, <1>9, <1>10, <1>11, <1>12 DEF Next

(* Tokens, states of the adapters and the lock stay what they are typed to *)
(* be, however many adapters of however many processes refresh.            *)
THEOREM TokensTypeCorrect == Spec => []TypeOK
BY InitTyped, NextTyped, PTL DEF Spec

-----------------------------------------------------------------------------
(* Mutual exclusion of the refreshes of a process. *)

(* An adapter whose request is under way is the one refreshLocks names. *)
LockHeld == \A a \in Adapter : InFlight(a) => lock[Home[a]] = a

LEMMA LockKept ==
    ASSUME TypeOK, LockHeld, [Next]_vars
    PROVE  LockHeld'
<1> USE TokensAssumption DEF LockHeld, InFlight
<1>1. \A a \in Adapter : Home[a] \in Process
  OBVIOUS
<1>2. ASSUME NEW a \in Adapter, Refresh(a) PROVE LockHeld'
  <2>1. CASE lock[Home[a]] # Free
    <3>1. adapter' = [adapter EXCEPT ![a].pc = "waiting"] /\ lock' = lock
      BY <1>2, <2>1 DEF Refresh, Ask
    <3> QED BY <3>1 DEF TypeOK, AdapterState
  <2>2. CASE lock[Home[a]] = Free
    BY <1>1, <1>2, <2>2 DEF Refresh, Ask, TypeOK
  <2> QED BY <2>1, <2>2
<1>3. ASSUME NEW a \in Adapter, HighLevelAnswers(a) PROVE LockHeld'
  BY <1>3 DEF HighLevelAnswers, TypeOK
<1>4. ASSUME NEW a \in Adapter, Settle(a) PROVE LockHeld'
  <2> SUFFICES ASSUME NEW b \in Adapter, InFlight(b)'
               PROVE  lock'[Home[b]] = b
    OBVIOUS
  <2>1. adapter'[b] = adapter[b] /\ b # a
    <3>1. adapter'[a].pc \in {"flagging", "writing"}
      BY <1>4 DEF Settle, Awaiting, TypeOK
    <3>2. adapter'[b] = adapter[b] \/ adapter'[b].pc \in {"flagging", "writing", "ready"}
      BY <1>4 DEF Settle, Awaiting, TypeOK
    <3> QED BY <3>1, <3>2
  <2>2. lock[Home[b]] = b /\ lock[Home[a]] = a
    BY <1>4, <2>1 DEF Settle
  <2> QED BY <1>1, <1>4, <2>1, <2>2 DEF Settle, TypeOK
<1>5. ASSUME NEW a \in Adapter, Load(a) \/ EndJob(a) \/ Write(a) \/ Flag(a)
      PROVE  LockHeld'
  <2>1. \A b \in Adapter : InFlight(b)' => adapter'[b] = adapter[b]
    BY <1>5 DEF Load, EndJob, Write, Flag, TypeOK, AdapterState, NoAdapter
  <2>2. lock' = lock
    BY <1>5 DEF Load, EndJob, Write, Flag
  <2> QED BY <2>1, <2>2
<1>6. ASSUME NEW a \in Adapter, RefreshFails(a) PROVE LockHeld'
  <2> SUFFICES ASSUME NEW b \in Adapter, InFlight(b)'
               PROVE  lock'[Home[b]] = b
    OBVIOUS
  <2>1. adapter'[b] = adapter[b] /\ b # a
    BY <1>6 DEF RefreshFails, Awaiting, TypeOK, AdapterState
  <2>2. lock[Home[b]] = b /\ lock[Home[a]] = a
    BY <1>6, <2>1 DEF RefreshFails
  <2> QED BY <1>1, <1>6, <2>1, <2>2 DEF RefreshFails, TypeOK
<1>7. ASSUME NEW p \in Process, ProcessDies(p) PROVE LockHeld'
  BY <1>1, <1>7 DEF ProcessDies, NoAdapter, TypeOK
<1>8. CASE Expire \/ Reconnect \/ UNCHANGED vars
  BY <1>8 DEF Expire, Reconnect, vars
<1> QED
  BY <1>2, <1>3, <1>4, <1>5, <1>6, <1>7, <1>8 DEF Next

(* At most one adapter of a process has a token request under way, for any *)
(* number of adapters that find their access token expired together.       *)
THEOREM RefreshIsExclusive == Spec => []OneRefreshPerProcess
<1>1. Init => LockHeld
  BY DEF Init, LockHeld, InFlight, NoAdapter
<1>2. LockHeld => OneRefreshPerProcess
  BY DEF LockHeld, OneRefreshPerProcess
<1> QED BY <1>1, <1>2, LockKept, TokensTypeCorrect, PTL DEF Spec

-----------------------------------------------------------------------------
(* The newest pair is never overwritten. *)

Carrier(a) == (PC(a) = "answered" /\ adapter[a].answer # 0) \/ PC(a) = "writing"

CarriesLive(a) == \/ PC(a) = "answered" /\ adapter[a].answer = live
                  \/ PC(a) = "writing" /\ adapter[a].pair = live

LEMMA CarriedPairs ==
    ASSUME TypeOK, NEW a \in Adapter
    PROVE  /\ Carried(a) = {} <=> ~Carrier(a)
           /\ live \in Carried(a) <=> CarriesLive(a)
<1> USE TokensAssumption DEF TypeOK, AdapterState, Carrier, CarriesLive
<1>1. CASE PC(a) = "answered"
  BY <1>1 DEF Carried
<1>2. CASE PC(a) = "writing"
  BY <1>2 DEF Carried
<1>3. CASE PC(a) \notin {"answered", "writing"}
  BY <1>3 DEF Carried
<1> QED BY <1>1, <1>2, <1>3

(* No pair is newer than the live one; who carries a pair to the row        *)
(* carries the live one, which is still fresh; and only an expired pair is  *)
(* presented while it is live, so that no second pair is issued meanwhile.  *)
CarriersAreCurrent ==
    /\ stored <= live
    /\ \A a \in Adapter :
        /\ adapter[a].pair <= live
        /\ PC(a) = "answered" => adapter[a].answer \in {0, live}
        /\ PC(a) = "writing" => adapter[a].pair = live
        /\ Carrier(a) => fresh
        /\ PC(a) = "asking" /\ adapter[a].pair = live => ~fresh

LiveIsKept == stored = live \/ live \in lost \/ \E a \in Adapter : CarriesLive(a)

NewestInv == CarriersAreCurrent /\ LiveIsKept

LEMMA InitNewest == Init => NewestInv
BY TokensAssumption DEF Init, NewestInv, CarriersAreCurrent, LiveIsKept,
   Carrier, NoAdapter

LEMMA NextNewest ==
    ASSUME TypeOK, NewestInv, [Next]_vars
    PROVE  NewestInv'
<1> USE TokensAssumption
    DEF NewestInv, CarriersAreCurrent, LiveIsKept, Carrier, CarriesLive, TypeOK,
        AdapterState, AdapterPC, NoAdapter
<1>1. ASSUME NEW a \in Adapter, Load(a) \/ EndJob(a) PROVE NewestInv'
  BY <1>1 DEF Load, EndJob
<1>2. ASSUME NEW a \in Adapter, Refresh(a) PROVE NewestInv'
  BY <1>2 DEF Refresh, Ask, Accepted
<1>3. ASSUME NEW a \in Adapter, HighLevelAnswers(a) PROVE NewestInv'
  <2>1. CASE adapter[a].pair = live
    BY <1>3, <2>1 DEF HighLevelAnswers
  <2>2. CASE adapter[a].pair # live
    BY <1>3, <2>2 DEF HighLevelAnswers
  <2> QED BY <2>1, <2>2
<1>4. ASSUME NEW a \in Adapter, RefreshFails(a) PROVE NewestInv'
  <2>1. \A b \in Adapter :
          \/ adapter'[b] = adapter[b]
          \/ adapter'[b].pc = "ready" /\ adapter'[b].pair = adapter[b].pair
             /\ PC(b) \in {"asking", "waiting"}
    BY <1>4 DEF RefreshFails, Awaiting
  <2>2. CASE UNCHANGED <<live, fresh, lost>>
    BY <1>4, <2>1, <2>2 DEF RefreshFails
  <2>3. CASE ~UNCHANGED <<live, fresh, lost>>
    BY <1>4, <2>1, <2>3 DEF RefreshFails
  <2> QED BY <2>2, <2>3
<1>5. ASSUME NEW a \in Adapter, Settle(a) PROVE NewestInv'
  BY <1>5 DEF Settle, Awaiting, Adopt
<1>6. ASSUME NEW a \in Adapter, Write(a) PROVE NewestInv'
  BY <1>6 DEF Write
<1>7. ASSUME NEW a \in Adapter, Flag(a) PROVE NewestInv'
  BY <1>7 DEF Flag
<1>8. ASSUME NEW p \in Process, ProcessDies(p) PROVE NewestInv'
  <2>1. \A a \in Adapter : Home[a] = p /\ CarriesLive(a) => live \in lost'
    BY <1>8, CarriedPairs DEF ProcessDies
  <2>2. lost \subseteq lost'
    BY <1>8 DEF ProcessDies
  <2>3. UNCHANGED <<live, fresh, stored>>
    BY <1>8 DEF ProcessDies
  <2>4. \A a \in Adapter : adapter'[a] = IF Home[a] = p THEN NoAdapter ELSE adapter[a]
    BY <1>8 DEF ProcessDies
  <2> QED BY <2>1, <2>2, <2>3, <2>4
<1>9. CASE Expire
  BY <1>9, CarriedPairs DEF Expire
<1>10. CASE Reconnect
  BY <1>10, CarriedPairs DEF Reconnect
<1>11. CASE UNCHANGED vars
  BY <1>11 DEF vars
<1> QED BY <1>1, <1>2, <1>3, <1>4, <1>5, <1>6, <1>7, <1>8, <1>9, <1>10, <1>11 DEF Next

LEMMA LiveKept == TypeOK /\ NewestInv => NewestPairIsKept
BY CarriedPairs DEF NewestInv, LiveIsKept, NewestPairIsKept

(* The pair HighLevel honours is stored or on its way to the row: jobs of   *)
(* several processes that refresh, are refused and write in any order never *)
(* leave the connection without it, unless the pair itself was lost.        *)
THEOREM NewestPairSurvives == Spec => []NewestPairIsKept
BY InitNewest, NextNewest, LiveKept, TokensTypeCorrect, PTL DEF Spec
=============================================================================
