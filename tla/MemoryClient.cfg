SPECIFICATION FairSpec
CONSTANTS
    u1 = u1
    Users = {u1}
    Poison = {1}
    Left = 1
    MaxRows = 2
    Trip = 2
    MaxOpen = 2
    AuthOpen = 2
    RetainRetries = 1
    BankRetries = 0
    MaxAge = 0
    MaxChanges = 1
INVARIANTS StatusSettles
PROPERTIES OutageEnds RowsDrain KeepsPromise
