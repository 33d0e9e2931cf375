SPECIFICATION FairSpec
CONSTANTS
    s1 = s1
    s2 = s2
    Stream = {s1, s2}
    Dedicated = {}
    Asking = {s1}
    Issuing = {}
    Closing = {s2}
    Concurrency = 1
    MaxPodStreams = 0
    MaxResponses <- OneEach
    MaxInput = 1
PROPERTIES WaitersProceed UpdatesAreAssigned
