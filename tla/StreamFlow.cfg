SPECIFICATION Spec
CONSTANTS
    s1 = s1
    s2 = s2
    Stream = {s1, s2}
    Dedicated = {s1}
    Asking = {s1}
    Issuing = {s2}
    Closing = {s2}
    Concurrency = 1
    MaxPodStreams = 1
    MaxResponses <- TwoOnOne
    MaxInput = 1
INVARIANTS SlotsMatchHolders LeaseCoversResponses
