--------------------------- MODULE ChainCommsProofs ---------------------------
(***************************************************************************)
(* Proofs about ChainCommsCommit for every value of its constants: the     *)
(* adjusted gas is a u64 of the model's width, and the signer counts every *)
(* admission the answer of broadcast_commit tells it about.                *)
(***************************************************************************)
EXTENDS ChainCommsCommit, TLAPS

(* u64::MAX of the model is a positive natural number.  Only the first     *)
(* conjunct of the assumption is used: the provers know nothing of 2^n.    *)
LEMMA U64MaxPositive == U64Max \in Nat \ {0}
<1>1. U64Bound \in Nat \ {0, 1}
  BY GasConstantsAssumption, Zenon
<1>. QED
  BY <1>1 DEF U64Max

(* Integer division of a natural number by a positive one is a natural     *)
(* number.                                                                 *)
LEMMA DivIsNat ==
    ASSUME NEW a \in Nat, NEW b \in Nat \ {0}
    PROVE  a \div b \in Nat
BY SMT

(* The u128 adjustment of commit_tx_with_gas_estimation, with its fallback *)
(* to the unadjusted gas and its saturation, always yields a u64.          *)
LEMMA AdjustedGasIsU64 ==
    ASSUME NEW gas \in U64
    PROVE  AdjustedGasLimit(gas) \in U64
<1>1. U64Max \in Nat \ {0}
  BY U64MaxPositive
<1>2. gas * AdjNum \in Nat /\ AdjDen \in Nat \ {0}
  BY GasConstantsAssumption DEF U64
<1>3. (gas * AdjNum) \div AdjDen \in Nat
  BY <1>2, DivIsNat
<1>. QED
  BY <1>1, <1>3 DEF AdjustedGasLimit, U64

-----------------------------------------------------------------------------
(* TypeOK holds in every reachable state.                                  *)
THEOREM TypeCorrect == Spec => []TypeOK
<1> USE CommitConstantsAssumption DEF vars
<1>1. Init => TypeOK
  BY U64MaxPositive DEF Init, TypeOK, U64
<1>2. TypeOK /\ [Next]_vars => TypeOK'
  <2> SUFFICES ASSUME TypeOK, [Next]_vars PROVE TypeOK'
    OBVIOUS
  <2>1. CASE SimulateTx
    <3>1. PICK used \in SimulatedGas \cup {FallbackGas} :
                 txGasLimit' = AdjustedGasLimit(used)
      BY <2>1 DEF SimulateTx
    <3>2. txGasLimit' \in U64
      BY <3>1, AdjustedGasIsU64
    <3>. QED
      BY <2>1, <3>2 DEF SimulateTx, TypeOK
  <2>2. CASE CommitTx
    BY <2>2 DEF CommitTx, TypeOK, CheckCodes
  <2>3. CASE Done
    BY <2>3 DEF Done, TypeOK
  <2>4. CASE UNCHANGED vars
    BY <2>4 DEF TypeOK
  <2>. QED
    BY <2>1, <2>2, <2>3, <2>4 DEF Next
<1>. QED
  BY <1>1, <1>2, PTL DEF Spec

-----------------------------------------------------------------------------
(* AdmissionsTracked is inductive relative to TypeOK: an admission that   *)
(* the answer reports is confirmed in the same step (an admitted           *)
(* transaction always consumed gas, so the code-13 exception of commit_tx  *)
(* does not apply), and one hidden behind a failed call is counted in      *)
(* hidden.                                                                 *)
LEMMA AdmissionsTrackedStep ==
    TypeOK /\ AdmissionsTracked /\ [Next]_vars => AdmissionsTracked'
<1> SUFFICES ASSUME TypeOK, AdmissionsTracked, [Next]_vars
             PROVE  AdmissionsTracked'
  OBVIOUS
<1>1. CASE SimulateTx
  BY <1>1 DEF SimulateTx, AdmissionsTracked
<1>2. CASE CommitTx
  <2>1. CASE \E code \in CheckCodes, deliver \in DeliverResults :
               /\ \/ code = 0 /\ sequence = chainSeq /\ deliver \in AdmittedDeliver
                  \/ code = WrongSequenceCode /\ sequence # chainSeq
                     /\ deliver \in RejectedDeliver(code)
                  \/ code \in {InsufficientFeeCode, OtherCode}
                     /\ deliver \in RejectedDeliver(code)
               /\ chainSeq' = IF code = 0 THEN chainSeq + 1 ELSE chainSeq
               /\ sequence' = IF Confirms(deliver) THEN sequence + 1 ELSE sequence
               /\ UNCHANGED hidden
    <3>1. PICK code \in CheckCodes, deliver \in DeliverResults :
               /\ \/ code = 0 /\ sequence = chainSeq /\ deliver \in AdmittedDeliver
                  \/ code = WrongSequenceCode /\ sequence # chainSeq
                     /\ deliver \in RejectedDeliver(code)
                  \/ code \in {InsufficientFeeCode, OtherCode}
                     /\ deliver \in RejectedDeliver(code)
               /\ chainSeq' = IF code = 0 THEN chainSeq + 1 ELSE chainSeq
               /\ sequence' = IF Confirms(deliver) THEN sequence + 1 ELSE sequence
               /\ UNCHANGED hidden
      BY <2>1
    <3>2. CASE code = 0
      <4>1. deliver \in AdmittedDeliver
        BY <3>1, <3>2, CommitConstantsAssumption
           DEF WrongSequenceCode, InsufficientFeeCode
      <4>2. Confirms(deliver)
        BY <4>1 DEF AdmittedDeliver, Confirms
      <4>. QED
        BY <3>1, <3>2, <4>2 DEF TypeOK, AdmissionsTracked
    <3>3. CASE code # 0
      BY <3>1, <3>3 DEF TypeOK, AdmissionsTracked
    <3>. QED
      BY <3>2, <3>3
  <2>2. CASE /\ faults' = faults + 1
             /\ \/ chainSeq' = chainSeq + 1 /\ hidden' = hidden + 1
                \/ UNCHANGED <<chainSeq, hidden>>
             /\ UNCHANGED sequence
    BY <2>2 DEF TypeOK, AdmissionsTracked
  <2>. QED
    BY <1>2, <2>1, <2>2 DEF CommitTx
<1>3. CASE Done
  BY <1>3 DEF Done, vars, AdmissionsTracked
<1>4. CASE UNCHANGED vars
  BY <1>4 DEF vars, AdmissionsTracked
<1>. QED
  BY <1>1, <1>2, <1>3, <1>4 DEF Next

(* Every admission reported by broadcast_commit is counted by the signer:  *)
(* the chain's sequence number exceeds the signer's by at most the         *)
(* admissions answered by a failed RPC call.                               *)
THEOREM AdmissionsTrackedInvariant == Spec => []AdmissionsTracked
<1>1. Init => AdmissionsTracked
  BY DEF Init, AdmissionsTracked
<1>. QED
  BY <1>1, AdmissionsTrackedStep, TypeCorrect, PTL DEF Spec
=============================================================================
