SPECIFICATION LiveSpec
CONSTANTS
    leader = leader
    deposed = deposed
    MaxRetry = 1
INVARIANTS ReleasedOnProof NeverBoundSound
PROPERTIES DestroyAfterAttempt TeardownEnds
CHECK_DEADLOCK FALSE
