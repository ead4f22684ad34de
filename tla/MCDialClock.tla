---------------------------- MODULE MCDialClock ----------------------------
(* Instances of DialClock for TLC: days of six minutes of two ticks. *)
EXTENDS DialClock

LOCAL Make(start, end, drip, days, gaps) ==
    [start |-> start, end |-> end, drip |-> drip, days |-> days, gaps |-> gaps,
     maxAttempts |-> 3]

\* Office days, one day a week up to midnight, every day by default, a window
\* of a single minute, and a window whose end lies before its start.
MCConfig == {
    Make(1, 3, 3, 1..5, <<0, 1, 2>>),
    Make(2, 5, 2, {3}, <<0, 1, 2>>),
    Make(0, 2, 1, {}, <<0, 1, 2>>),
    Make(3, 4, 2, {1, 6}, <<0, 1, 2>>),
    Make(3, 3, 2, {2, 7}, <<0, 1, 2>>),
    Make(4, 1, 2, 1..7, <<0, 1, 2>>)}
=============================================================================
