-------------------------- MODULE MCDialCapacity ---------------------------
(* Instances of DialCapacity for TLC. *)
EXTENDS DialCapacity, TLC

\* Sound for the invariants: no definition picks a contact, a poll or a drain
\* by name.
MCSymmetry == Permutations(Contact) \cup Permutations(Poller) \cup Permutations(Drainer)

\* A bound on the runs: what is blind is explored in behaviours without a dial
\* of the drain and without second numbers, which the other polls meet.
BlindPollsApart ==
    (\/ \E p \in Poller : poll[p].blind
     \/ \E c \in Contact : row[c].by = "blind") =>
        /\ \A d \in Drainer : drain[d] = IdleDrain
        /\ drained = 0
        /\ \A c \in Contact : row[c].phone = 1
=============================================================================
