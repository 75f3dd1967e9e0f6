----------------------- MODULE AlarmsDispatcherAbstract -----------------------
(***************************************************************************)
(* What the alarms dispatcher promises the chain, with the for loop, the   *)
(* status queries, the poll period and the signer abstracted away.  Each   *)
(* transaction of the dispatcher that the chain admits moves the           *)
(* account's sequence number by one and either dispatches a batch of one   *)
(* to max_alarms_group due alarms of one contract, after which the         *)
(* dispatcher goes on, or dispatches nothing and ends the dispatcher.  The *)
(* dispatcher may end at any time without a transaction.  After the end    *)
(* only alarms arrive.                                                     *)
(***************************************************************************)
EXTENDS Naturals

CONSTANTS
    Contracts,          \* the alarm contracts
    MaxAlarmsGroup,     \* max_alarms_group of the contracts
    PendingCap,         \* bound: due alarms a contract holds at once
    MaxArrivals,        \* bound: alarm arrivals, when arrivals are bounded
    UnboundedArrivals,  \* TRUE: alarms keep arriving without a total bound
    SeqMod              \* u64::MAX + 1 of the model for sequence numbers

VARIABLES
    running,    \* the dispatcher process has not exited
    chainSeq,   \* the account's sequence number on the node
    pending,    \* due alarms held by each contract
    arrivals    \* alarms arrived so far (bounded runs only)

avars == <<running, chainSeq, pending, arrivals>>

Init ==
    /\ running = TRUE
    /\ chainSeq \in 0..(SeqMod - 1)
    /\ pending = [c \in Contracts |-> 0]
    /\ arrivals = 0

(* The chain admits a transaction of the account.                          *)
Admitted == chainSeq' = (chainSeq + 1) % SeqMod

(* An admitted DispatchAlarms dispatches a non-empty batch of contract c.  *)
Dispatch(c) ==
    /\ running
    /\ Admitted
    /\ \E n \in 1..MaxAlarmsGroup :
          /\ n <= pending[c]
          /\ pending' = [pending EXCEPT ![c] = @ - n]
    /\ UNCHANGED <<running, arrivals>>

(* An admitted transaction whose dispatch the dispatcher does not learn    *)
(* ends it.                                                                *)
Burn ==
    /\ running
    /\ Admitted
    /\ running' = FALSE
    /\ UNCHANGED <<pending, arrivals>>

(* The dispatcher ends without a transaction.                              *)
Halt ==
    /\ running
    /\ running' = FALSE
    /\ UNCHANGED <<chainSeq, pending, arrivals>>

(* An alarm of contract c becomes due.                                     *)
Arrive(c) ==
    /\ pending[c] < PendingCap
    /\ UnboundedArrivals \/ arrivals < MaxArrivals
    /\ pending' = [pending EXCEPT ![c] = @ + 1]
    /\ arrivals' = IF UnboundedArrivals THEN arrivals ELSE arrivals + 1
    /\ UNCHANGED <<running, chainSeq>>

Next ==
    \/ \E c \in Contracts : Dispatch(c) \/ Arrive(c)
    \/ Burn
    \/ Halt

Spec == Init /\ [][Next]_avars
=============================================================================
