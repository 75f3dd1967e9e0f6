CONSTANTS
    t1 = t1
    t2 = t2
    Tasks <- MCTasks
    MaxPackages = 3
    MaxFaults = 2
    MaxEvictions = 1
    MaxSeq = 9
SPECIFICATION FairSpec
INVARIANT TypeOK
INVARIANT SeqNotAhead
PROPERTY FeedbackEventuallyReturns
PROPERTY ImplementsAbstract
PROPERTY SeqMonotonicUntilEviction
