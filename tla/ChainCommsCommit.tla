--------------------------- MODULE ChainCommsCommit ---------------------------
(***************************************************************************)
(* commit_tx_with_gas_estimation of chain-comms/src/interact/mod.rs: a     *)
(* caller commits transactions one after another; each call simulates the  *)
(* transaction (falling back to a fixed gas when the simulation fails or   *)
(* exceeds the caller's limit), adjusts the gas, signs with the signer's   *)
(* sequence number, broadcasts with broadcast_commit and bumps the         *)
(* sequence number unless DeliverTx reads code 13 with zero gas.           *)
(*                                                                         *)
(* The node is the environment.  CheckTx admits a transaction carrying the *)
(* account's sequence number, rejects another number with code 32, and may *)
(* reject any transaction with code 13 (fee) or another code.  After a     *)
(* CheckTx rejection the DeliverTx part of the answer is either empty (code *)
(* 0, no gas) or repeats the CheckTx code with no gas, depending on the    *)
(* node.  An admitted transaction always consumes gas in DeliverTx, and    *)
(* may fail there.  The RPC call itself may fail, possibly after admission.*)
(***************************************************************************)
EXTENDS GasArithmetic

CONSTANTS
    GasLimit,       \* the caller's gas_limit (simulation cap)
    FallbackGas,    \* the caller's fallback_gas_limit
    SimulatedGas,   \* gas_used values a simulation may report
    OtherCode,      \* a CheckTx rejection code other than 13 and 32
    MaxCalls,       \* bound: calls of commit_tx_with_gas_estimation
    MaxFaults       \* bound: failed RPC calls

ASSUME CommitConstantsAssumption ==
    /\ GasLimit \in U64
    /\ FallbackGas \in U64
    /\ SimulatedGas \subseteq U64
    /\ OtherCode \in Nat \ {0, 13, 32}
    /\ MaxCalls \in Nat
    /\ MaxFaults \in Nat

(* ERROR_CODE of commit_tx.                                                *)
InsufficientFeeCode == 13

(* The signature-verification / wrong-sequence code.                       *)
WrongSequenceCode == 32

(* The CheckTx codes the model distinguishes.                             *)
CheckCodes == {0, InsufficientFeeCode, WrongSequenceCode, OtherCode}

(* The DeliverTx part of a broadcast_commit answer.                        *)
DeliverResults == [code : CheckCodes, gasUsed : {0, 1}, gasWanted : {0, 1}]

VARIABLES
    pc,             \* "idle" between calls, "commit" after the simulation
    txGasLimit,     \* adjusted_gas_limit of the call in progress
    sequence,       \* the signer's sequence number
    chainSeq,       \* the account's sequence number on the node
    calls,          \* calls made so far
    faults,         \* failed RPC calls so far
    hidden,         \* history: admissions answered by a failed RPC call
    checkCode,      \* history: {CheckTx code} of the last call, {} if none
    signedGas       \* history: gas limit of the last signed transaction

vars == <<pc, txGasLimit, sequence, chainSeq, calls, faults, hidden,
          checkCode, signedGas>>

Init ==
    /\ pc = "idle"
    /\ txGasLimit = 0
    /\ sequence = 0
    /\ chainSeq = 0
    /\ calls = 0
    /\ faults = 0
    /\ hidden = 0
    /\ checkCode = {}
    /\ signedGas = 0

-----------------------------------------------------------------------------
(* simulate_tx: the node reports gas_used, or the call fails; a gas_used   *)
(* above gas_limit is an error too.  On error the fallback gas is used.    *)
(* Either way the result is adjusted (commit_tx_with_gas_estimation).      *)
SimulateTx ==
    /\ pc = "idle"
    /\ calls < MaxCalls
    /\ \E used \in SimulatedGas \cup {FallbackGas} :
          /\ used # FallbackGas => used <= GasLimit
          /\ txGasLimit' = AdjustedGasLimit(used)
    /\ pc' = "commit"
    /\ calls' = calls + 1
    /\ UNCHANGED <<sequence, chainSeq, faults, hidden, checkCode, signedGas>>

(* Mutant: the sequence number is bumped only after a successful DeliverTx.*)
ConfirmsOnlySuccess(deliver) == deliver.code = 0 /\ deliver.gasUsed # 0

(* commit_tx: the condition under which signer.tx_confirmed() is called.   *)
Confirms(deliver) ==
    ~ /\ deliver.code = InsufficientFeeCode
      /\ deliver.gasUsed = 0
      /\ deliver.gasWanted = 0

(* DeliverTx after CheckTx rejected with code c: empty, or echoing c.      *)
RejectedDeliver(c) ==
    {[code |-> 0, gasUsed |-> 0, gasWanted |-> 0],
     [code |-> c, gasUsed |-> 0, gasWanted |-> 0]}

(* DeliverTx of an admitted transaction: it ran, and succeeded or failed.  *)
AdmittedDeliver ==
    {[code |-> 0, gasUsed |-> 1, gasWanted |-> 1],
     [code |-> OtherCode, gasUsed |-> 1, gasWanted |-> 1]}

(* commit_tx: sign with calculate_fee(gas) and the current sequence number,*)
(* broadcast_commit, then tx_confirmed unless DeliverTx is code 13 without *)
(* gas.  A failed RPC call, or a failed fee calculation or signing before  *)
(* the broadcast, returns Err without touching the signer.                 *)
CommitTx ==
    /\ pc = "commit"
    /\ signedGas' = txGasLimit
    /\ pc' = "idle"
    /\ \/ \E code \in CheckCodes, deliver \in DeliverResults :
             /\ \/ code = 0 /\ sequence = chainSeq /\ deliver \in AdmittedDeliver
                \/ code = WrongSequenceCode /\ sequence # chainSeq
                   /\ deliver \in RejectedDeliver(code)
                \/ code \in {InsufficientFeeCode, OtherCode}
                   /\ deliver \in RejectedDeliver(code)
             /\ chainSeq' = IF code = 0 THEN chainSeq + 1 ELSE chainSeq
             /\ sequence' = IF Confirms(deliver) THEN sequence + 1 ELSE sequence
             /\ checkCode' = {code}
             /\ UNCHANGED <<faults, hidden>>
       \/ /\ faults < MaxFaults
          /\ faults' = faults + 1
          /\ \/ /\ sequence = chainSeq
                /\ chainSeq' = chainSeq + 1
                /\ hidden' = hidden + 1
             \/ UNCHANGED <<chainSeq, hidden>>
          /\ checkCode' = {}
          /\ UNCHANGED sequence
    /\ UNCHANGED <<txGasLimit, calls>>

(* End of a behaviour: the caller made its last call.                     *)
Done == pc = "idle" /\ calls = MaxCalls /\ UNCHANGED vars

Next == SimulateTx \/ CommitTx \/ Done

Spec == Init /\ [][Next]_vars

-----------------------------------------------------------------------------
TypeOK ==
    /\ pc \in {"idle", "commit"}
    /\ txGasLimit \in U64
    /\ sequence \in Nat
    /\ chainSeq \in Nat
    /\ calls \in 0..MaxCalls
    /\ faults \in 0..MaxFaults
    /\ hidden \in 0..faults
    /\ checkCode \in {{}} \cup {{c} : c \in CheckCodes}
    /\ signedGas \in U64

(* Every admission the answer told the caller about is counted by the      *)
(* signer: the chain is ahead of the local counter by at most the          *)
(* admissions hidden behind a failed RPC call, whether DeliverTx then      *)
(* succeeded or failed.                                                    *)
AdmissionsTracked == chainSeq <= sequence + hidden

(* Spec section 3 / P2: the sequence number is incremented by exactly one  *)
(* when the broadcast was admitted (code 0) or failed signature            *)
(* verification (code 32), and is unchanged after any other failure.      *)
SequenceAccounting ==
    [][CommitTx => (sequence' = sequence + 1 <=> checkCode' \cap {0, WrongSequenceCode} # {})
                   /\ (sequence' # sequence + 1 => sequence' = sequence)]_vars

(* Spec P5: no transaction is signed with a gas limit above the caller's   *)
(* hard limit.                                                             *)
GasWithinLimit == signedGas <= GasLimit
=============================================================================
