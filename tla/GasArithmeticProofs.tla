------------------------- MODULE GasArithmeticProofs -------------------------
(***************************************************************************)
(* The gas and fee arithmetic at every width: for every u64 gas value the  *)
(* u128 adjustment and fee never overflow their u128 product, so they      *)
(* equal their reference definitions, and the 11/10 margin never lowers   *)
(* the gas.  The run pure_operators checks the same properties at one      *)
(* width over every input.                                                 *)
(***************************************************************************)
EXTENDS MCGasArithmetic, TLAPS

(* u64::MAX + 1 of the model is a natural number above one.  Only the      *)
(* first conjunct of the assumption is used: the provers know nothing of   *)
(* 2^n.                                                                    *)
LEMMA BoundAboveOne == U64Bound \in Nat \ {0, 1}
BY GasConstantsAssumption, Zenon

(* The product of two u64 values fits a u128: (B-1)*(B-1) <= B*B - 1.      *)
LEMMA ProductFitsU128 ==
    ASSUME NEW a \in U64, NEW b \in U64
    PROVE  a * b \in 0..U128Max
<1>1. U64Bound \in Nat \ {0, 1}
  BY BoundAboveOne
<1>2. a \in 0..(U64Bound - 1) /\ b \in 0..(U64Bound - 1)
  BY DEF U64, U64Max
<1>3. a * b <= (U64Bound - 1) * (U64Bound - 1)
  BY <1>1, <1>2, SMT
<1>4. (U64Bound - 1) * (U64Bound - 1) <= U64Bound * U64Bound - 1
  BY <1>1, SMT
<1>. QED
  BY <1>1, <1>2, <1>3, <1>4, SMT DEF U128Max

(* The gas adjustment is the saturated quotient for every u64 gas: the     *)
(* checked_mul in u128 never fails, so unwrap_or(tx_gas_limit) is dead.    *)
LEMMA AdjustedGasExactAt ==
    ASSUME NEW g \in U64
    PROVE  AdjustedGasLimit(g) = AdjustedGasReference(g)
<1>1. g * AdjNum \in 0..U128Max
  BY ProductFitsU128, GasConstantsAssumption
<1>2. U128Max \in Nat
  BY BoundAboveOne, SMT DEF U128Max
<1>. QED
  BY <1>1, <1>2 DEF AdjustedGasLimit, AdjustedGasReference

(* The fee is the exact quotient for every u64 gas: saturating_mul in u128 *)
(* never saturates.                                                        *)
LEMMA FeeExactAt ==
    ASSUME NEW g \in U64
    PROVE  FeeAmount(g) = FeeReference(g)
<1>1. g * PriceNum \in 0..U128Max
  BY ProductFitsU128, GasConstantsAssumption
<1>2. U128Max \in Nat
  BY BoundAboveOne, SMT DEF U128Max
<1>. QED
  BY <1>1, <1>2 DEF FeeAmount, FeeReference

(* gas_used * 11 / 10, or gas_used on overflow, is never below gas_used.   *)
LEMMA MarginAt ==
    ASSUME NEW g \in U64
    PROVE  GasWithMargin(g) >= g
<1>1. g \in Nat
  BY BoundAboveOne DEF U64, U64Max
<1>2. (g * 11) \div 10 >= g
  BY <1>1, SMT
<1>. QED
  BY <1>1, <1>2 DEF GasWithMargin

-----------------------------------------------------------------------------
(* The u128 gas adjustment of commit_tx_with_gas_estimation equals the     *)
(* saturated quotient at every width.                                      *)
THEOREM AdjustedGasExact == Spec => []AdjustedGasIsExact
<1>1. Init => AdjustedGasIsExact
  BY AdjustedGasExactAt DEF Init, AdjustedGasIsExact
<1>2. AdjustedGasIsExact /\ [Next]_gas => AdjustedGasIsExact'
  BY DEF AdjustedGasIsExact, Next
<1>. QED
  BY <1>1, <1>2, PTL DEF Spec

(* The fee of calculate_fee never saturates at any width.                 *)
THEOREM FeeExact == Spec => []FeeIsExact
<1>1. Init => FeeIsExact
  BY FeeExactAt DEF Init, FeeIsExact
<1>2. FeeIsExact /\ [Next]_gas => FeeIsExact'
  BY DEF FeeIsExact, Next
<1>. QED
  BY <1>1, <1>2, PTL DEF Spec

(* The 10% margin of the alarms dispatcher never lowers the gas at any     *)
(* width.                                                                  *)
THEOREM MarginNeverLowersAlways == Spec => []MarginNeverLowers
<1>1. Init => MarginNeverLowers
  BY MarginAt DEF Init, MarginNeverLowers
<1>2. MarginNeverLowers /\ [Next]_gas => MarginNeverLowers'
  BY DEF MarginNeverLowers, Next
<1>. QED
  BY <1>1, <1>2, PTL DEF Spec
=============================================================================
