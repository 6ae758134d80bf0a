SPECIFICATION Spec
CONSTANTS
    a1 = a1
    a2 = a2
    k1 = k1
    k2 = k2
    k3 = k3
    NoKey = NoKey
    Accounts = {a1}
    Session = {a1}
    Credentialed = {a1}
    Keys = {k1, k2, k3}
    Threshold = 2
    MaxConcurrent = 1
SYMMETRY KeySymmetry
INVARIANTS BenchedStaysOut
PROPERTIES OperatorIntentHolds LoginReplacesItsOwnKey
