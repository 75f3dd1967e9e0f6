---------------------------- MODULE GasArithmetic ----------------------------
(***************************************************************************)
(* The gas and fee arithmetic of the repository at a parametric width: a   *)
(* u64 of the code ranges over 0..U64Bound-1 here, with U64Bound a power  *)
(* of two, and a u128 over 0..U64Bound^2-1, so that the overflow branches  *)
(* of checked_mul, saturating_mul and try_from are reached on small        *)
(* numbers.                                                                *)
(***************************************************************************)
EXTENDS Naturals

CONSTANTS
    U64Bound,       \* u64::MAX + 1 in the model (a power of two)
    AdjNum,         \* gas_adjustment_numerator (non-zero)
    AdjDen,         \* gas_adjustment_denominator (non-zero)
    PriceNum,       \* gas_price_numerator (non-zero)
    PriceDen        \* gas_price_denominator (non-zero)

U64Max == U64Bound - 1
U128Max == U64Bound * U64Bound - 1
U64 == 0..U64Max

ASSUME GasConstantsAssumption ==
    /\ U64Bound \in Nat \ {0, 1}
    /\ \E width \in 1..U64Bound : U64Bound = 2^width
    /\ AdjNum \in U64 \ {0}
    /\ AdjDen \in U64 \ {0}
    /\ PriceNum \in U64 \ {0}
    /\ PriceDen \in U64 \ {0}

-----------------------------------------------------------------------------
(* Mutant: the quotient is truncated to u64 without saturating.           *)
AdjustedGasLimitUnsaturated(gas) ==
    IF gas * AdjNum > U128Max THEN gas ELSE (gas * AdjNum) \div AdjDen

(* Mutant: the product is checked at u64 width instead of u128.            *)
AdjustedGasLimitCheckedAtU64(gas) ==
    IF gas * AdjNum > U64Max THEN gas
    ELSE LET q == (gas * AdjNum) \div AdjDen
         IN  IF q > U64Max THEN U64Max ELSE q

(* commit_tx_with_gas_estimation: u128::from(gas).checked_mul(num), then   *)
(* checked_div(den), then u64::try_from(..).unwrap_or(u64::MAX); a None    *)
(* from the multiplication falls back to the unadjusted gas.               *)
AdjustedGasLimit(gas) ==
    IF gas * AdjNum > U128Max THEN gas
    ELSE LET q == (gas * AdjNum) \div AdjDen
         IN  IF q > U64Max THEN U64Max ELSE q

(* Mutant: the fee multiplication saturates at u64 width.                  *)
FeeAmountSaturatingAtU64(gas) ==
    LET p == IF gas * PriceNum > U64Max THEN U64Max ELSE gas * PriceNum
    IN  p \div PriceDen

(* calculate_fee: u128::from(gas).saturating_mul(num).saturating_div(den). *)
FeeAmount(gas) ==
    LET p == IF gas * PriceNum > U128Max THEN U128Max ELSE gas * PriceNum
    IN  p \div PriceDen

(* Mutant: the multiplication wraps instead of being checked.              *)
GasWithMarginWrapping(gasUsed) == ((gasUsed * 11) % (U64Max + 1)) \div 10

(* alarms dispatcher commit_tx: gas_used.checked_mul(11), checked_div(10), *)
(* unwrap_or(gas_used) when the multiplication overflows a u64.            *)
GasWithMargin(gasUsed) ==
    IF gasUsed * 11 > U64Max THEN gasUsed ELSE (gasUsed * 11) \div 10

-----------------------------------------------------------------------------
(* Reference definitions: what the arithmetic is meant to compute.         *)
AdjustedGasReference(gas) ==
    IF (gas * AdjNum) \div AdjDen > U64Max THEN U64Max
    ELSE (gas * AdjNum) \div AdjDen

FeeReference(gas) == (gas * PriceNum) \div PriceDen

=============================================================================
