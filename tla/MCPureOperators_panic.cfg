CONSTANTS
    U64Bound = 2
    AdjNum = 1
    AdjDen = 1
    PriceNum = 1
    PriceDen = 1
    Alphabet = {"a", "A", "e"}
    MaxLen = 2
SPECIFICATION PureSpec
INVARIANT NeverPanics
