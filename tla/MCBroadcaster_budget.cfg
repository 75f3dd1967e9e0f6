CONSTANTS
    t1 = t1
    t2 = t2
    Tasks <- MCTasks
    MaxPackages = 1
    MaxFaults = 5
    MaxEvictions = 0
    MaxSeq = 3
SYMMETRY TaskSymmetry
SPECIFICATION Spec
INVARIANT ErrorBudgetRefresh
