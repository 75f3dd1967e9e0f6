------------------------- MODULE AlarmsDispatcherProofs -------------------------
(***************************************************************************)
(* Proofs about AlarmsDispatcher for every batch size, bound and width:    *)
(* the state stays well typed, and the dispatcher's sequence number equals *)
(* the chain's for as long as the process runs.                            *)
(***************************************************************************)
EXTENDS AlarmsDispatcher, TLAPS

(* tx_confirmed keeps a sequence number of the model's width in range.    *)
LEMMA ConfirmedInRange ==
    ASSUME NEW s \in 0..(SeqMod - 1)
    PROVE  Confirmed(s) \in 0..(SeqMod - 1)
BY DispatcherConstantsAssumption DEF Confirmed

(* The contract dispatches no more alarms than it holds.                   *)
LEMMA DispatchedCountBounded ==
    ASSUME NEW p \in Nat
    PROVE  DispatchedCount(p) \in 0..p
BY DispatcherConstantsAssumption DEF DispatchedCount

(* The contract being served is one of the two of the for loop.           *)
LEMMA ContractOfIndex ==
    ASSUME NEW i \in DOMAIN ContractOrder
    PROVE  ContractOrder[i] \in Contracts
BY DEF Contracts

(* NextContract keeps the index in the domain of the for loop.             *)
LEMMA NextContractIndex ==
    ASSUME NEW i \in DOMAIN ContractOrder, NEW j,
           IF LastContract(i) THEN j = i ELSE j = i + 1
    PROVE  j \in DOMAIN ContractOrder
BY DEF LastContract, ContractOrder

-----------------------------------------------------------------------------
(* TypeOK holds in every reachable state.                                  *)
THEOREM TypeCorrect == Spec => []TypeOK
<1> USE DispatcherConstantsAssumption DEF vars
<1>1. Init => TypeOK
  BY DEF Init, TypeOK, ContractOrder
<1>2. TypeOK /\ [Next]_vars => TypeOK'
  <2> SUFFICES ASSUME TypeOK, [Next]_vars PROVE TypeOK'
    OBVIOUS
  <2>1. idx' \in DOMAIN ContractOrder
    <3>1. CASE QueryStatus \/ CommitTx
      <4>1. \/ idx' = idx
            \/ IF LastContract(idx) THEN idx' = idx ELSE idx' = idx + 1
        BY <3>1 DEF QueryStatus, CommitTx, NextContract
      <4>. QED
        BY <4>1, NextContractIndex DEF TypeOK
    <3>2. CASE Sleep
      BY <3>2 DEF Sleep, ContractOrder
    <3>3. CASE ~(QueryStatus \/ CommitTx \/ Sleep)
      BY <3>3 DEF Next, Dispatcher, Arrive, Stopped, TypeOK
    <3>. QED
      BY <3>1, <3>2, <3>3
  <2>2. pc' \in {"query", "commit", "sleep", "stopped"}
    BY DEF Next, Dispatcher, QueryStatus, CommitTx, NextContract, Sleep,
           Arrive, Stopped, TypeOK
  <2>3. sequence' \in 0..(SeqMod - 1) /\ chainSeq' \in 0..(SeqMod - 1)
    BY ConfirmedInRange
       DEF Next, Dispatcher, QueryStatus, CommitTx, Sleep, Arrive, Stopped,
           TypeOK
  <2>4. pending' \in [Contracts -> 0..PendingCap]
    <3>1. CASE CommitTx
      <4>1. ContractOrder[idx] \in Contracts
        BY ContractOfIndex DEF TypeOK
      <4>2. CASE UNCHANGED pending
        BY <4>2 DEF TypeOK
      <4>3. CASE \E outcome \in Outcomes :
                   pending' = [pending EXCEPT ![ContractOrder[idx]] =
                     @ - (IF outcome = "executed"
                          THEN DispatchedCount(pending[ContractOrder[idx]])
                          ELSE 0)]
        <5>1. PICK outcome \in Outcomes :
                   pending' = [pending EXCEPT ![ContractOrder[idx]] =
                     @ - (IF outcome = "executed"
                          THEN DispatchedCount(pending[ContractOrder[idx]])
                          ELSE 0)]
          BY <4>3
        <5>2. DispatchedCount(pending[ContractOrder[idx]])
                \in 0..pending[ContractOrder[idx]]
          BY <4>1, DispatchedCountBounded DEF TypeOK
        <5>. QED
          BY <4>1, <5>1, <5>2 DEF TypeOK
      <4>. QED
        BY <3>1, <4>2, <4>3 DEF CommitTx
    <3>2. CASE \E c \in Contracts : Arrive(c)
      BY <3>2 DEF Arrive, TypeOK
    <3>3. CASE ~CommitTx /\ ~(\E c \in Contracts : Arrive(c))
      BY <3>3 DEF Next, Dispatcher, QueryStatus, Sleep, Stopped, TypeOK
    <3>. QED
      BY <3>1, <3>2, <3>3
  <2>5. arrivals' \in 0..MaxArrivals
    BY DEF Next, Dispatcher, QueryStatus, CommitTx, Sleep, Arrive, Stopped,
           TypeOK
  <2>. QED
    BY <2>1, <2>2, <2>3, <2>4, <2>5 DEF TypeOK
<1>. QED
  BY <1>1, <1>2, PTL DEF Spec

-----------------------------------------------------------------------------
(* SeqInSync is inductive: an answered broadcast bumps the signer; when    *)
(* the chain did not move with it (rejection) the deliver data does not    *)
(* parse and the process stops, and a transaction admitted behind a       *)
(* failed call stops the process too.                                      *)
LEMMA SeqInSyncStep ==
    TypeOK /\ SeqInSync /\ [Next]_vars => SeqInSync'
<1> SUFFICES ASSUME TypeOK, SeqInSync, [Next]_vars PROVE SeqInSync'
  OBVIOUS
<1>1. CASE CommitTx
  <2>1. CASE \E outcome \in Outcomes :
               /\ outcome \in {"executed", "deliverFailed"} => sequence = chainSeq
               /\ chainSeq' = IF outcome = "rejected" THEN chainSeq
                              ELSE Confirmed(chainSeq)
               /\ sequence' = Confirmed(sequence)
               /\ ~ DeliverDataParses(outcome) => pc' = "stopped"
    <3>1. PICK outcome \in Outcomes :
               /\ outcome \in {"executed", "deliverFailed"} => sequence = chainSeq
               /\ chainSeq' = IF outcome = "rejected" THEN chainSeq
                              ELSE Confirmed(chainSeq)
               /\ sequence' = Confirmed(sequence)
               /\ ~ DeliverDataParses(outcome) => pc' = "stopped"
      BY <2>1
    <3>. QED
      BY <3>1 DEF DeliverDataParses, SeqInSync
  <2>2. CASE pc' = "stopped"
    BY <2>2 DEF SeqInSync
  <2>. QED
    <3>1. \/ pc' = "stopped"
          \/ \E outcome \in Outcomes :
               /\ outcome \in {"executed", "deliverFailed"} => sequence = chainSeq
               /\ chainSeq' = IF outcome = "rejected" THEN chainSeq
                              ELSE Confirmed(chainSeq)
               /\ sequence' = Confirmed(sequence)
               /\ ~ DeliverDataParses(outcome) => pc' = "stopped"
      BY <1>1 DEF CommitTx
    <3>. QED
      BY <3>1, <2>1, <2>2
<1>2. CASE ~CommitTx
  BY <1>2 DEF Next, Dispatcher, QueryStatus, Sleep, Arrive, Stopped, vars,
              SeqInSync, NextContract
<1>. QED
  BY <1>1, <1>2

(* While the alarms dispatcher runs, the sequence number it signs with is  *)
(* the chain's: drift after a rejection never reaches a second broadcast.  *)
THEOREM SeqInSyncInvariant == Spec => []SeqInSync
<1>1. Init => SeqInSync
  BY DEF Init, SeqInSync
<1>. QED
  BY <1>1, SeqInSyncStep, TypeCorrect, PTL DEF Spec

-----------------------------------------------------------------------------
(* AlarmsDispatcher implements AlarmsDispatcherAbstract.  The argument     *)
(* rests on CommitHasWork: dispatch_alarm commits only after query_status  *)
(* found alarms remaining, and alarms leave a contract only through the    *)
(* dispatcher's own transactions, so the contract still holds one when the *)
(* DispatchAlarms executes.                                                *)
CommitHasWork == pc = "commit" => pending[ContractOrder[idx]] > 0

(* CommitHasWork is inductive relative to TypeOK.                          *)
LEMMA CommitHasWorkStep ==
    TypeOK /\ CommitHasWork /\ [Next]_vars => CommitHasWork'
<1> SUFFICES ASSUME TypeOK, CommitHasWork, [Next]_vars PROVE CommitHasWork'
  OBVIOUS
<1>1. CASE QueryStatus
  BY <1>1 DEF QueryStatus, NextContract, RemainingForDispatch, CommitHasWork
<1>2. CASE CommitTx
  BY <1>2 DEF CommitTx, NextContract, CommitHasWork
<1>3. CASE \E c \in Contracts : Arrive(c)
  BY <1>3, ContractOfIndex DEF Arrive, CommitHasWork, TypeOK
<1>4. CASE Sleep \/ Stopped \/ UNCHANGED vars
  BY <1>4 DEF Sleep, Stopped, vars, CommitHasWork
<1>. QED
  BY <1>1, <1>2, <1>3, <1>4 DEF Next, Dispatcher

(* An executed DispatchAlarms on a contract with due alarms dispatches a   *)
(* batch the abstract service allows.                                      *)
LEMMA DispatchedBatch ==
    ASSUME NEW p \in Nat, p > 0
    PROVE  DispatchedCount(p) \in 1..MaxAlarmsGroup /\ DispatchedCount(p) <= p
BY DispatcherConstantsAssumption DEF DispatchedCount

(* Every step of the dispatcher is a step of the abstract service or      *)
(* leaves its variables alone.                                             *)
LEMMA RefinementStep ==
    ASSUME TypeOK, CommitHasWork, [Next]_vars
    PROVE  [Abstract!Next]_Abstract!avars
<1> USE DEF Abstract!avars
<1>1. CASE QueryStatus
  <2>1. CASE pc' = "stopped"
    <3>1. Abstract!Halt
      BY <1>1, <2>1 DEF QueryStatus, Abstract!Halt
    <3>. QED
      BY <3>1 DEF Abstract!Next
  <2>2. CASE pc' # "stopped"
    BY <1>1, <2>2 DEF QueryStatus
  <2>. QED
    BY <2>1, <2>2
<1>2. CASE CommitTx
  <2> DEFINE c == ContractOrder[idx]
  <2>0. c \in Contracts /\ pc = "commit" /\ pending[c] > 0
    BY <1>2, ContractOfIndex DEF CommitTx, CommitHasWork, TypeOK
  <2>1. CASE /\ pc' = "stopped"
             /\ UNCHANGED <<idx, sequence, chainSeq, pending>>
             /\ UNCHANGED arrivals
    <3>1. Abstract!Halt
      BY <2>0, <2>1 DEF Abstract!Halt
    <3>. QED
      BY <3>1 DEF Abstract!Next
  <2>2. CASE /\ pc' = "stopped"
             /\ chainSeq' = Confirmed(chainSeq)
             /\ UNCHANGED <<idx, sequence, pending>>
             /\ UNCHANGED arrivals
    <3>1. Abstract!Burn
      BY <2>0, <2>2 DEF Abstract!Burn, Abstract!Admitted, Confirmed
    <3>. QED
      BY <3>1 DEF Abstract!Next
  <2>3. ASSUME NEW outcome \in Outcomes,
               chainSeq' = IF outcome = "rejected" THEN chainSeq
                           ELSE Confirmed(chainSeq),
               LET n == IF outcome = "executed"
                        THEN DispatchedCount(pending[c]) ELSE 0
               IN  /\ pending' = [pending EXCEPT ![c] = @ - n]
                   /\ IF ~ DeliverDataParses(outcome)
                      THEN pc' = "stopped" /\ UNCHANGED idx
                      ELSE IF n = MaxAlarmsGroup
                           THEN pc' = "query" /\ UNCHANGED idx
                           ELSE NextContract,
               UNCHANGED arrivals
        PROVE  [Abstract!Next]_Abstract!avars
    <3>1. CASE outcome = "executed"
      <4>1. DispatchedCount(pending[c]) \in 1..MaxAlarmsGroup
            /\ DispatchedCount(pending[c]) <= pending[c]
        BY <2>0, DispatchedBatch DEF TypeOK
      <4>2. pc' # "stopped"
        BY <2>3, <3>1 DEF DeliverDataParses, NextContract
      <4>3. Abstract!Dispatch(c)
        BY <2>0, <2>3, <3>1, <4>1, <4>2
           DEF Abstract!Dispatch, Abstract!Admitted, Confirmed
      <4>. QED
        BY <2>0, <4>3 DEF Abstract!Next
    <3>2. CASE outcome = "deliverFailed"
      <4>1. Abstract!Burn
        BY <2>0, <2>3, <3>2 DEF Abstract!Burn, Abstract!Admitted, Confirmed,
                                DeliverDataParses, TypeOK
      <4>. QED
        BY <4>1 DEF Abstract!Next
    <3>3. CASE outcome = "rejected"
      <4>1. Abstract!Halt
        BY <2>0, <2>3, <3>3 DEF Abstract!Halt, DeliverDataParses, TypeOK
      <4>. QED
        BY <4>1 DEF Abstract!Next
    <3>. QED
      BY <3>1, <3>2, <3>3 DEF Outcomes
  <2>. QED
    BY <1>2, <2>1, <2>2, <2>3 DEF CommitTx
<1>3. CASE \E c \in Contracts : Arrive(c)
  BY <1>3 DEF Arrive, Abstract!Arrive, Abstract!Next
<1>4. CASE Sleep \/ Stopped \/ UNCHANGED vars
  BY <1>4 DEF Sleep, Stopped, vars
<1>. QED
  BY <1>1, <1>2, <1>3, <1>4 DEF Next, Dispatcher

(* The dispatcher implements the abstract service: its admitted           *)
(* transactions dispatch non-empty batches while it runs or end it, for   *)
(* every batch size, bound and width.                                      *)
THEOREM Refinement == Spec => ImplementsAbstract
<1>1. Init => Abstract!Init
  BY DEF Init, Abstract!Init
<1>2. Init => CommitHasWork
  BY DEF Init, CommitHasWork
<1>3. TypeOK /\ CommitHasWork /\ [Next]_vars => [Abstract!Next]_Abstract!avars
  BY RefinementStep
<1>. QED
  BY <1>1, <1>2, <1>3, CommitHasWorkStep, TypeCorrect, PTL
     DEF Spec, ImplementsAbstract, Abstract!Spec
=============================================================================
