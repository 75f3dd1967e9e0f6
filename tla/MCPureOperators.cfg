CONSTANTS
    U64Bound = 128
    AdjNum = 3
    AdjDen = 2
    PriceNum = 127
    PriceDen = 3
    Alphabet = {"a", "A", "-"}
    MaxLen = 5
SPECIFICATION PureSpec
INVARIANT AdjustedGasIsExact
INVARIANT FeeIsExact
INVARIANT MarginNeverLowers
INVARIANT GrpcVarMatchesReference
INVARIANT ScanTerminates
