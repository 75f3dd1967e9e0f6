CONSTANTS
    U64Bound = 16
    AdjNum = 3
    AdjDen = 2
    PriceNum = 5
    PriceDen = 3
    GasLimit = 12
    FallbackGas = 6
    SimulatedGas = {4, 12}
    OtherCode = 5
    MaxCalls = 5
    MaxFaults = 2
SPECIFICATION Spec

INVARIANT GasWithinLimit
