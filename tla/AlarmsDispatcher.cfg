CONSTANTS
    MaxAlarmsGroup = 2
    PendingCap = 3
    MaxArrivals = 5
    UnboundedArrivals = FALSE
    SeqMod = 4
SPECIFICATION FairSpec
INVARIANT TypeOK
INVARIANT SeqInSync
PROPERTY AlarmsEventuallyDispatched
PROPERTY ImplementsAbstract
