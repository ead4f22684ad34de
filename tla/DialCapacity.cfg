SPECIFICATION Spec
CONSTANTS
    Contact = {c1, c2}
    Poller = {p1, p2}
    Drainer = {d1}
    Cap = 1
    Phones = 2
    TickDials = 2
    MaxDay = 1
    MaxByHand = 1
    MaxMiscounts = 1
SYMMETRY MCSymmetry
CONSTRAINT BlindPollsApart
INVARIANTS
    TypeOK
    PollsKeepTheDailyCap
    DrainKeepsTheDailyCap
