CONSTANTS
    p1 = p1
    p2 = p2
    p3 = p3
    Players = {p1, p2, p3}
    Party = {p1, p2, p3}
    Restless = {p1, p2}
    Slots = {1, 2}
    Eligible <- SecondForOne
    Raid = FALSE
    Nobody = Nobody
SPECIFICATION Spec
INVARIANTS TypeOK GivenOnce CountersExact BestVoteWins BlockedByRoll
PROPERTY RollEnds
