CONSTANTS
    a1 = a1
    a2 = a2
    h1 = h1
    Alliance = Alliance
    Horde = Horde
    Players = {a1, a2, h1}
    Teams = {Alliance, Horde}
    Team <- TwoToOne
    Parties <- Alone
    Restless = {a1}
    Watched = {a1}
    QueueType = 2
    MinPerTeam = 1
    MaxPerTeam = 2
    MaxGroups = 2
    MaxBgs = 1
    MaxStamps = 2
SPECIFICATION Spec
CHECK_DEADLOCK FALSE
INVARIANTS TypeOK QueueAgrees InvitedExact RoomOffered
PROPERTY InvitationEnds
