SPECIFICATION FairSpec
CONSTANTS
    s1 = s1
    s2 = s2
    a = a
    b = b
    ping = ping
    None = None
    Signers = {s1, s2}
    Votes <- MCVotes
    Queries = {ping}
    MaxFaults = 1
INVARIANTS
    TypeOK
    AnswerIsTrue
    SlotIsWatched
PROPERTIES
    LeaderServes
    StopEnds
    StopAdvances
