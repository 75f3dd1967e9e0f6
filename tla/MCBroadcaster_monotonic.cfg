CONSTANTS
    t1 = t1
    t2 = t2
    Tasks <- MCTasks
    MaxPackages = 2
    MaxFaults = 0
    MaxEvictions = 1
    MaxSeq = 8
SYMMETRY TaskSymmetry
SPECIFICATION Spec
PROPERTY SeqMonotonic
