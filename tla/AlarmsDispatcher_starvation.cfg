CONSTANTS
    MaxAlarmsGroup = 2
    PendingCap = 2
    MaxArrivals = 0
    UnboundedArrivals = TRUE
    SeqMod = 4
SPECIFICATION FairSpec
PROPERTY EveryContractPolled
