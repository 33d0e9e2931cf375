CONSTANTS
    s1 = s1
    s2 = s2
    w1 = w1
    Broad = Broad
    Sub = {s1, s2}
    WorkloadOf <- OneDedicated
    Owner = {w1}
    AddressKey = {a1}
    SandboxKey = {x1}
    Watchable = {"Workload", "Secret"}
    MaxNotices = 3
SPECIFICATION Spec
CHECK_DEADLOCK FALSE
INVARIANTS NoticesAreComplete SharedNoticesAreEqual IndexesMatch
