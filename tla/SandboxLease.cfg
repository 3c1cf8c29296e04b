SPECIFICATION Spec
CONSTANTS
    leader = leader
    deposed = deposed
    Workers <- MCWorkers
    MaxUid = 2
SYMMETRY Symmetry
INVARIANTS NoWorkloadAfterProof QuotaCoversWorkload NeverNamedIsEmpty
PROPERTIES TombstoneStays
CHECK_DEADLOCK FALSE
