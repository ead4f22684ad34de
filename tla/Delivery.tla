------------------------------ MODULE Delivery ------------------------------
(***************************************************************************)
(* What a post-call automation promises: a submitted item is attempted     *)
(* until one attempt succeeds or Limit attempts have failed, and then it   *)
(* is settled for good.  The queue may mislay an item: no attempt is owed  *)
(* while it is stuck, one begun before may still end, and the queue may    *)
(* find it again.                                                          *)
(***************************************************************************)
EXTENDS Naturals

CONSTANTS
    Item,   \* the deliveries
    Limit   \* how many attempts one of them gets

VARIABLES
    phase,  \* where each delivery stands
    tries   \* its finished attempts

vars == <<phase, tries>>

Phase == {"none", "due", "stuck", "done", "dropped"}
Unsettled == {"due", "stuck"}

TypeOK ==
    /\ phase \in [Item -> Phase]
    /\ tries \in [Item -> 0..Limit]

Init ==
    /\ phase = [i \in Item |-> "none"]
    /\ tries = [i \in Item |-> 0]

Move(i, from, to) ==
    /\ phase[i] = from
    /\ phase' = [phase EXCEPT ![i] = to]
    /\ UNCHANGED tries

Submit(i) == Move(i, "none", "due")
Mislay(i) == Move(i, "due", "stuck")
Find(i) == Move(i, "stuck", "due")

Finish(i, result) ==
    /\ phase[i] \in Unsettled
    /\ phase' = [phase EXCEPT ![i] = result]
    /\ tries' = [tries EXCEPT ![i] = @ + 1]

Deliver(i) == Finish(i, "done")
Fail(i) == tries[i] + 1 < Limit /\ \E still \in Unsettled : Finish(i, still)
GiveUp(i) == tries[i] + 1 = Limit /\ Finish(i, "dropped")

Attempt(i) == Deliver(i) \/ Fail(i) \/ GiveUp(i)

Next == \E i \in Item : Submit(i) \/ Attempt(i) \/ Mislay(i) \/ Find(i)

Fairness == \A i \in Item : WF_vars(phase[i] = "due" /\ Attempt(i))

Spec == Init /\ [][Next]_vars /\ Fairness
=============================================================================
