SPECIFICATION FairSpec
CONSTANTS
    n1 = n1
    r1 = r1
    r2 = r2
    Name = {n1}
    Revision = {r1, r2}
    Concurrency = 1
    MaxRotations = 2
    MaxRequests = 2
CHECK_DEADLOCK FALSE
INVARIANTS ActiveMatchesWorkers JobsAreTracked CancellationIsPrivate StaleIsRevisited SecretsAreServed
PROPERTY JobsAreAnswered
