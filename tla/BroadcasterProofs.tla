-------------------------- MODULE BroadcasterProofs --------------------------
(***************************************************************************)
(* Proofs about the transaction pipeline of Broadcaster: its type          *)
(* invariant and SeqNotAhead, for every value of the constants.            *)
(***************************************************************************)
EXTENDS Broadcaster, TLAPS

(* The strengthening of SeqNotAhead that is inductive.  While the node has *)
(* forgotten nothing: the local counter is at most the chain's; between    *)
(* signing and processing, the signed number is the local one; and a       *)
(* response that bumps the counter (code 0 or 32) is only ever processed   *)
(* while the local counter is strictly below the chain's.                  *)
SeqNotAheadInductive ==
    evictions = 0 =>
        /\ sequence <= chainSeq
        /\ pc \in {"send", "process"} => signedSeq = sequence
        /\ pc = "process" /\ IncrementsSequence(response) => sequence < chainSeq

-----------------------------------------------------------------------------
(* Type correctness of the pipeline: every step keeps each variable in its *)
(* range, in particular consecutive_errors in 0..4 after the (n + 1) % 5   *)
(* of the error path and the queue a sequence of tasks after Append/Tail.  *)
THEOREM TypeCorrect == Spec => []TypeOK
<1> USE ConstantsAssumption DEF taskVars, loopVars, envVars
<1>1. Init => TypeOK
  BY DEF Init, TypeOK, Responses, Feedbacks, Pcs
<1>2. TypeOK /\ [Next]_vars => TypeOK'
  <2> SUFFICES ASSUME TypeOK, [Next]_vars PROVE TypeOK'
    OBVIOUS
  <2>1. ASSUME NEW t \in Tasks, Enqueue(t) PROVE TypeOK'
    BY <2>1 DEF Enqueue, TypeOK
  <2>2. ASSUME NEW t \in Tasks, DeadlinePasses(t) PROVE TypeOK'
    BY <2>2 DEF DeadlinePasses, TypeOK
  <2>3. ASSUME NEW t \in Tasks, ReceiveFeedback(t) PROVE TypeOK'
    BY <2>3 DEF ReceiveFeedback, TypeOK, Feedbacks
  <2>4. CASE Receive
    BY <2>4 DEF Receive, TypeOK, Pcs
  <2>5. CASE SimulateAndSign
    BY <2>5 DEF SimulateAndSign, TypeOK, Pcs
  <2>6. CASE Send
    BY <2>6 DEF Send, TypeOK, Pcs, Responses, Admitted
  <2>7. CASE ProcessTxResponse
    BY <2>7 DEF ProcessTxResponse, TypeOK, Pcs, Feedbacks, NextConsecutiveErrors,
                HandsBackResponse
  <2>8. CASE ProcessTransportError
    BY <2>8 DEF ProcessTransportError, TypeOK, Pcs
  <2>9. CASE ProcessExpired
    BY <2>9 DEF ProcessExpired, TypeOK, Pcs, Feedbacks
  <2>10. CASE Evict
    BY <2>10 DEF Evict, TypeOK
  <2>11. CASE Done \/ UNCHANGED vars
    BY <2>11 DEF Done, vars, taskVars, loopVars, envVars, TypeOK
  <2>12. QED
    BY <2>1, <2>2, <2>3, <2>4, <2>5, <2>6, <2>7, <2>8, <2>9, <2>10, <2>11
       DEF Next
<1>3. QED
  BY <1>1, <1>2, PTL DEF Spec

-----------------------------------------------------------------------------
(* The inductive step of SeqNotAheadInductive, one case per action.        *)
LEMMA SeqNotAheadStep ==
    TypeOK /\ SeqNotAheadInductive /\ [Next]_vars => SeqNotAheadInductive'
<1> USE ConstantsAssumption DEF taskVars, loopVars, envVars
<1> SUFFICES ASSUME TypeOK, SeqNotAheadInductive, [Next]_vars,
                    evictions' = 0
             PROVE  SeqNotAheadInductive'
  BY DEF SeqNotAheadInductive
<1>1. evictions = 0
  <2>1. evictions' \in {evictions, evictions + 1}
    BY DEF Next, vars, Enqueue, DeadlinePasses, ReceiveFeedback, Receive,
           SimulateAndSign, Send, ProcessTxResponse, ProcessTransportError,
           ProcessExpired, Evict, Done
  <2>2. QED
    BY <2>1 DEF TypeOK
<1> DEFINE Prem == /\ sequence <= chainSeq
                   /\ pc \in {"send", "process"} => signedSeq = sequence
                   /\ pc = "process" /\ IncrementsSequence(response)
                         => sequence < chainSeq
<1>2. Prem
  BY <1>1 DEF SeqNotAheadInductive
<1>3. ASSUME NEW t \in Tasks, Enqueue(t) \/ DeadlinePasses(t) \/ ReceiveFeedback(t)
      PROVE  SeqNotAheadInductive'
  BY <1>2, <1>3 DEF Enqueue, DeadlinePasses, ReceiveFeedback, SeqNotAheadInductive
<1>4. CASE Receive
  BY <1>2, <1>4 DEF Receive, SeqNotAheadInductive
<1>5. CASE SimulateAndSign
  BY <1>2, <1>5 DEF SimulateAndSign, SeqNotAheadInductive
<1>6. CASE Send
  (* code 0 and code 32 both leave the signed number, which is the local   *)
  (* one, strictly below the chain's afterwards.                           *)
  BY <1>2, <1>6 DEF Send, Admitted, TypeOK, SeqNotAheadInductive,
                    IncrementsSequence
<1>7. CASE ProcessTxResponse
  (* the bumped counter is at most the chain's, a refetch takes the        *)
  (* chain's, and the loop leaves "process".                               *)
  BY <1>2, <1>7 DEF ProcessTxResponse, TypeOK, SeqNotAheadInductive
<1>8. CASE ProcessTransportError \/ ProcessExpired
  BY <1>2, <1>8 DEF ProcessTransportError, ProcessExpired, SeqNotAheadInductive
<1>9. CASE Evict
  BY <1>1, <1>9 DEF Evict
<1>10. CASE Done \/ UNCHANGED vars
  BY <1>2, <1>10 DEF Done, vars, SeqNotAheadInductive
<1>11. QED
  BY <1>3, <1>4, <1>5, <1>6, <1>7, <1>8, <1>9, <1>10 DEF Next

(* While the node forgets no admitted transaction, the broadcaster never   *)
(* signs with a sequence number ahead of the chain's: the code-32 bump and *)
(* the refetch of the error path in broadcast_tx only move the local       *)
(* counter up to the chain's.                                              *)
THEOREM SeqNotAheadInvariant == Spec => []SeqNotAhead
<1>1. Init => SeqNotAheadInductive
  BY DEF Init, SeqNotAheadInductive
<1>2. SeqNotAheadInductive => SeqNotAhead
  BY DEF SeqNotAheadInductive, SeqNotAhead
<1>3. QED
  BY <1>1, <1>2, SeqNotAheadStep, TypeCorrect, PTL DEF Spec
-----------------------------------------------------------------------------
(* Until the first eviction the last signed number never exceeds the       *)
(* signer's: signing copies it, and the counter itself only rises.         *)
SignedNotAbove == evictions = 0 => signedSeq <= sequence

(* No step of the model undoes an eviction.                                *)
LEMMA EvictionsOnlyGrow ==
    TypeOK /\ [Next]_vars => evictions' \in {evictions, evictions + 1}
BY DEF Next, vars, envVars, Enqueue, DeadlinePasses, ReceiveFeedback, Receive,
       SimulateAndSign, Send, ProcessTxResponse, ProcessTransportError,
       ProcessExpired, Evict, Done

(* The inductive step of SignedNotAbove, relative to SeqNotAheadInductive: *)
(* the refetch takes the chain's number, which is not below the signer's.  *)
LEMMA SignedNotAboveStep ==
    TypeOK /\ SeqNotAheadInductive /\ SignedNotAbove /\ [Next]_vars
        => SignedNotAbove'
<1> USE DEF taskVars, loopVars, envVars
<1> SUFFICES ASSUME TypeOK, SeqNotAheadInductive, SignedNotAbove, [Next]_vars,
                    evictions' = 0
             PROVE  signedSeq' <= sequence'
  BY DEF SignedNotAbove
<1>1. evictions = 0 /\ signedSeq <= sequence /\ sequence <= chainSeq
  BY EvictionsOnlyGrow DEF TypeOK, SignedNotAbove, SeqNotAheadInductive
<1>2. CASE SimulateAndSign
  BY <1>1, <1>2 DEF SimulateAndSign, TypeOK
<1>3. CASE ProcessTxResponse
  BY <1>1, <1>3 DEF ProcessTxResponse, TypeOK
<1>4. CASE Evict
  BY <1>4 DEF Evict, TypeOK
<1>5. CASE ~SimulateAndSign /\ ~ProcessTxResponse /\ ~Evict
  <2>1. UNCHANGED <<signedSeq, sequence>>
    BY <1>5 DEF Next, vars, Enqueue, DeadlinePasses, ReceiveFeedback, Receive,
              Send, ProcessTransportError, ProcessExpired, Done
  <2>2. QED
    BY <1>1, <2>1
<1>6. QED
  BY <1>2, <1>3, <1>4, <1>5

(* Spec P1 holds as long as the node forgets no admitted transaction: up   *)
(* to the first eviction, broadcast_tx never signs a transaction with a    *)
(* lower sequence number than the transaction signed before it.  After an  *)
(* eviction it fails (run broadcaster_monotonic).                          *)
THEOREM SeqMonotonicBeforeEviction == Spec => SeqMonotonicUntilEviction
<1> DEFINE Inv == TypeOK /\ SeqNotAheadInductive /\ SignedNotAbove
<1>1. Init => SeqNotAheadInductive /\ SignedNotAbove
  BY DEF Init, SeqNotAheadInductive, SignedNotAbove
<1>2. Inv /\ [Next]_vars => (SeqNotAheadInductive /\ SignedNotAbove)'
  BY SeqNotAheadStep, SignedNotAboveStep
<1>3. Inv /\ [Next]_vars => [evictions' = 0 => signedSeq' >= signedSeq]_vars
  <2> SUFFICES ASSUME Inv, [Next]_vars, evictions' = 0
               PROVE  signedSeq' >= signedSeq
    BY DEF vars
  <2>1. evictions = 0
    BY EvictionsOnlyGrow DEF TypeOK
  <2>2. CASE SimulateAndSign
    BY <2>1, <2>2 DEF SimulateAndSign, SignedNotAbove, TypeOK
  <2>3. CASE ~SimulateAndSign
    <3>1. signedSeq' = signedSeq
      BY <2>3 DEF Next, vars, loopVars, Enqueue, DeadlinePasses,
                ReceiveFeedback, Receive, Send, ProcessTxResponse,
                ProcessTransportError, ProcessExpired, Evict, Done
    <3>2. QED
      BY <3>1 DEF TypeOK
  <2>4. QED
    BY <2>2, <2>3
<1>4. QED
  BY <1>1, <1>2, <1>3, TypeCorrect, PTL DEF Spec, SeqMonotonicUntilEviction

=============================================================================
