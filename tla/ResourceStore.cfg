CONSTANTS
    k1 = k1
    k2 = k2
    k3 = k3
    Key = {k1, k2, k3}
    Content = {1, 2}
    MayRefer <- Chain
    Absent = Absent
SPECIFICATION SSpec
INVARIANTS OnlyReferencedRemain
PROPERTIES NoDanglingWithdrawal
