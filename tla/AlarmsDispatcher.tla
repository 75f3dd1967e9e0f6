--------------------------- MODULE AlarmsDispatcher ---------------------------
(***************************************************************************)
(* The standalone alarms dispatcher (alarms-dispatcher/src/main.rs): one   *)
(* sequential loop that, every poll period, walks the price and the time   *)
(* contract; for each it queries the alarm status and, while alarms        *)
(* remain, commits a DispatchAlarms{max_count} transaction, draining the   *)
(* contract as long as a full batch was dispatched.  Every error ends the  *)
(* process.                                                                *)
(*                                                                         *)
(* Environment: the two contracts, whose due alarms arrive at any time,    *)
(* and the node, which admits a transaction carrying the account's         *)
(* sequence number and may reject any transaction, fail it in DeliverTx    *)
(* (e.g. out of gas after a stale simulation) or fail the RPC call.       *)
(*                                                                         *)
(* Sequence numbers are u64 values of the model: they wrap at SeqMod.  The *)
(* code only ever compares them for equality, and they differ by at most   *)
(* one, so the wrap loses nothing while it keeps the state space finite.   *)
(***************************************************************************)
EXTENDS Naturals, Sequences

CONSTANTS
    MaxAlarmsGroup,     \* max_alarms_group of both contracts
    PendingCap,         \* bound: due alarms a contract holds at once
    MaxArrivals,        \* bound: alarm arrivals, when arrivals are bounded
    UnboundedArrivals,  \* TRUE: alarms keep arriving without a total bound
    SeqMod              \* u64::MAX + 1 of the model for sequence numbers

ASSUME DispatcherConstantsAssumption ==
    /\ MaxAlarmsGroup \in Nat \ {0}
    /\ PendingCap \in Nat
    /\ MaxArrivals \in Nat
    /\ UnboundedArrivals \in BOOLEAN
    /\ SeqMod \in Nat \ {0, 1}

(* The contracts in the order of the for loop of dispatch_alarms.          *)
ContractOrder == <<"price", "time">>

Contracts == {ContractOrder[k] : k \in DOMAIN ContractOrder}

(* Outcomes of a broadcast_commit that answered.                           *)
Outcomes == {"executed", "deliverFailed", "rejected"}

VARIABLES
    pc,         \* "query", "commit", "sleep" or "stopped" (process exited)
    idx,        \* index in ContractOrder of the contract being served
    sequence,   \* the signer's sequence number
    chainSeq,   \* the account's sequence number on the node
    pending,    \* due alarms held by each contract
    arrivals    \* alarms arrived so far (bounded runs only)

vars == <<pc, idx, sequence, chainSeq, pending, arrivals>>

(* prepare_rpc: the signer starts from the account data fetched from the   *)
(* node.                                                                   *)
Init ==
    /\ pc = "query"
    /\ idx = 1
    /\ sequence \in 0..(SeqMod - 1)
    /\ chainSeq = sequence
    /\ pending = [c \in Contracts |-> 0]
    /\ arrivals = 0

-----------------------------------------------------------------------------
(* Mutant: the for loop is taken to run one contract further.              *)
LastContractOffByOne(i) == i = Len(ContractOrder) + 1

(* The for loop of dispatch_alarms is at its last contract.                *)
LastContract(i) == i = Len(ContractOrder)

(* Mutant: the for loop is left after the first dispatch_alarm that       *)
(* returns Ok (a return in place of the next iteration).                   *)
NextContractBreaks == pc' = "sleep" /\ UNCHANGED idx

(* dispatch_alarm returned Ok: go to the next contract of the for loop, or *)
(* sleep for the poll period after the last one.                           *)
NextContract ==
    IF LastContract(idx)
    THEN pc' = "sleep" /\ UNCHANGED idx
    ELSE pc' = "query" /\ idx' = idx + 1

(* StatusResponse::remaining_for_dispatch as the contract computes it.     *)
RemainingForDispatch(p) == p > 0

(* query_status, then the test of dispatch_alarm: dispatch if alarms       *)
(* remain, return Ok otherwise.  A failed query or an undecodable answer   *)
(* ends the process.                                                       *)
QueryStatus ==
    LET c == ContractOrder[idx] IN
    /\ pc = "query"
    /\ \/ /\ RemainingForDispatch(pending[c])
          /\ pc' = "commit"
          /\ UNCHANGED idx
       \/ /\ ~ RemainingForDispatch(pending[c])
          /\ NextContract
       \/ /\ pc' = "stopped"
          /\ UNCHANGED idx
    /\ UNCHANGED <<sequence, chainSeq, pending, arrivals>>

(* The node's DispatchAlarms handler: it dispatches at most max_count of   *)
(* the due alarms.                                                         *)
DispatchedCount(p) == IF p < MaxAlarmsGroup THEN p ELSE MaxAlarmsGroup

(* Mutant: an undecodable DeliverTx data is read as zero alarms            *)
(* dispatched instead of ending the process.                               *)
ContinuesOnAnyAnswer(outcome) == outcome \in Outcomes

(* serde_json_wasm::from_slice(&deliver_tx.data) succeeds only when the    *)
(* transaction was executed: a rejected or failed one carries no data.     *)
DeliverDataParses(outcome) == outcome = "executed"

(* tx_confirmed of the signer.                                             *)
Confirmed(s) == (s + 1) % SeqMod

(* commit_tx: build DispatchAlarms{max_count}, simulate, sign with the     *)
(* simulated gas plus 10%, broadcast_commit, tx_confirmed whatever the     *)
(* answer, then decode the DispatchResponse; back in dispatch_alarm, drain *)
(* again after a full batch, return Ok after a partial one.  Encoding,     *)
(* simulation or signing failures, a failed RPC call and undecodable       *)
(* deliver data all end the process.                                       *)
CommitTx ==
    LET c == ContractOrder[idx] IN
    /\ pc = "commit"
    /\ \/ /\ pc' = "stopped"
          /\ UNCHANGED <<idx, sequence, chainSeq, pending>>
       \/ /\ pc' = "stopped"
          /\ sequence = chainSeq
          /\ chainSeq' = Confirmed(chainSeq)
          /\ UNCHANGED <<idx, sequence, pending>>
       \/ \E outcome \in Outcomes :
             /\ outcome \in {"executed", "deliverFailed"} => sequence = chainSeq
             /\ chainSeq' = IF outcome = "rejected" THEN chainSeq
                            ELSE Confirmed(chainSeq)
             /\ sequence' = Confirmed(sequence)
             /\ LET n == IF outcome = "executed"
                         THEN DispatchedCount(pending[c]) ELSE 0
                IN  /\ pending' = [pending EXCEPT ![c] = @ - n]
                    /\ IF ~ DeliverDataParses(outcome)
                       THEN pc' = "stopped" /\ UNCHANGED idx
                       ELSE IF n = MaxAlarmsGroup
                            THEN pc' = "query" /\ UNCHANGED idx
                            ELSE NextContract
    /\ UNCHANGED arrivals

(* sleep(poll_period), then the for loop starts again.                     *)
Sleep ==
    /\ pc = "sleep"
    /\ pc' = "query"
    /\ idx' = 1
    /\ UNCHANGED <<sequence, chainSeq, pending, arrivals>>

(* Environment: an alarm of contract c becomes due.                        *)
Arrive(c) ==
    /\ pending[c] < PendingCap
    /\ UnboundedArrivals \/ arrivals < MaxArrivals
    /\ pending' = [pending EXCEPT ![c] = @ + 1]
    /\ arrivals' = IF UnboundedArrivals THEN arrivals ELSE arrivals + 1
    /\ UNCHANGED <<pc, idx, sequence, chainSeq>>

(* The process has exited; nothing happens any more.                       *)
Stopped == pc = "stopped" /\ UNCHANGED vars

Dispatcher == QueryStatus \/ CommitTx \/ Sleep

Next == Dispatcher \/ (\E c \in Contracts : Arrive(c)) \/ Stopped

Spec == Init /\ [][Next]_vars

(* The loop is never blocked: every await of it completes (the node        *)
(* answers or the call fails, the poll-period sleep ends).                 *)
FairSpec == Spec /\ WF_vars(Dispatcher)

(* The refinement mapping: the process runs until it exits; the contracts *)
(* and the chain's account are the abstract ones, and the signer, the for  *)
(* loop and the poll period are internal.                                  *)
Abstract == INSTANCE AlarmsDispatcherAbstract WITH running <- (pc # "stopped")

-----------------------------------------------------------------------------
TypeOK ==
    /\ pc \in {"query", "commit", "sleep", "stopped"}
    /\ idx \in DOMAIN ContractOrder
    /\ sequence \in 0..(SeqMod - 1)
    /\ chainSeq \in 0..(SeqMod - 1)
    /\ pending \in [Contracts -> 0..PendingCap]
    /\ arrivals \in 0..MaxArrivals

(* While the dispatcher runs, its sequence number is the chain's:          *)
(* tx_confirmed bumps it after every answered broadcast, also after a      *)
(* rejection, and only the failure to decode the deliver data of a         *)
(* rejected or failed transaction keeps the drift from being used.         *)
SeqInSync == pc # "stopped" => sequence = chainSeq

(* With finitely many alarms arriving, every due alarm is eventually       *)
(* dispatched by the drain loop of dispatch_alarm, unless the process      *)
(* exits.                                                                  *)
AlarmsEventuallyDispatched ==
    \A c \in Contracts :
        pending[c] > 0 ~> (pending[c] = 0 \/ pc = "stopped")

(* The dispatcher implements AlarmsDispatcherAbstract: every transaction  *)
(* of dispatch_alarm's drain loop that the chain admits either dispatches *)
(* one to max_alarms_group due alarms and the loop goes on, or ends the    *)
(* process; no DispatchAlarms is committed for a contract with no due      *)
(* alarm, and a failed or rejected transaction is never followed by        *)
(* another.                                                                *)
ImplementsAbstract == Abstract!Spec

(* Spec section 1: the dispatcher periodically asks each alarm contract    *)
(* whether alarms are due: while it runs, each contract is queried again   *)
(* and again.                                                              *)
EveryContractPolled ==
    \A k \in DOMAIN ContractOrder :
        []<>(pc = "stopped" \/ (pc = "query" /\ idx = k))
=============================================================================
