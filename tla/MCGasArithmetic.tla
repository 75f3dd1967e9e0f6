--------------------------- MODULE MCGasArithmetic ---------------------------
(* Every u64 gas value of a small width, checked against the reference     *)
(* definitions of GasArithmetic.  MCPureOperators checks these properties *)
(* with TLC; GasArithmeticProofs proves them at every width.               *)
EXTENDS GasArithmetic

VARIABLE gas

Init == gas \in U64

Next == UNCHANGED gas

Spec == Init /\ [][Next]_gas

(* The gas limit signed after estimation is the adjusted gas saturated at  *)
(* u64::MAX: the unwrap_or(tx_gas_limit) fallback of                       *)
(* commit_tx_with_gas_estimation never yields the unadjusted gas.          *)
AdjustedGasIsExact == AdjustedGasLimit(gas) = AdjustedGasReference(gas)

(* The fee of calculate_fee is the exact gas * price_num / price_den: the  *)
(* saturating u128 multiplication never saturates for a u64 gas.           *)
FeeIsExact == FeeAmount(gas) = FeeReference(gas)

(* The 10% margin of the alarms dispatcher never lowers the gas it was     *)
(* given, including at the top of the u64 range where 11 * gas overflows.  *)
MarginNeverLowers == GasWithMargin(gas) >= gas
=============================================================================
