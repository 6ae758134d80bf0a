SPECIFICATION Spec
CONSTANTS
    a1 = a1
    a2 = a2
    k1 = k1
    k2 = k2
    k3 = k3
    NoKey = NoKey
    Accounts = {a1, a2}
    Session = {}
    Credentialed = {a1, a2}
    Keys = {k1, k2}
    Threshold = 1
    MaxConcurrent = 1
SYMMETRY PairSymmetry
INVARIANTS SlotHasAttempt
PROPERTIES LastAccountKept GateProtocol
