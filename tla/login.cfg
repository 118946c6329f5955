SPECIFICATION FairSpec
CONSTANTS
    Request = {q1, q2}
    MaxFailedAttempts = 3
    LockDuration = 2
    HashSlots = 1
    MaxLag = 1
    MaxClock = 5
    MaxFailures = 1
INVARIANTS
    TypeOK
    LockFollowsStreak
    GuessesPerLock
PROPERTIES
    LockEndsEarlyOnlyBySuccess
    LoginEnds
