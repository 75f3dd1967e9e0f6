----------------------------- MODULE Broadcaster -----------------------------
(***************************************************************************)
(* The transaction pipeline: producer tasks push transaction packages on   *)
(* an unbounded channel, and the single Broadcast loop of                  *)
(* libraries/broadcaster/src/lib.rs receives each package, simulates and   *)
(* signs it with the signer's sequence number, broadcasts it raced against *)
(* the package's expiration, and classifies the node's answer: it bumps    *)
(* the sequence number, counts consecutive errors, refetches the sequence  *)
(* number from the chain when the error budget runs out, retries the same  *)
(* package or hands the response back to the task.                         *)
(*                                                                         *)
(* The node is the environment.  It admits a transaction exactly when the  *)
(* transaction carries the account's current sequence number (code 0),    *)
(* rejects every other sequence number with code 32, and may also answer   *)
(* with another error code, fail at the transport level (possibly after    *)
(* having admitted the transaction), or forget a transaction it admitted   *)
(* (mempool eviction).  Faults and evictions are bounded.                  *)
(***************************************************************************)
EXTENDS Naturals, Sequences

CONSTANTS
    Tasks,          \* the producer tasks (feeders and alarm pollers)
    MaxPackages,    \* bound: packages the tasks enqueue in one behaviour
    MaxFaults,      \* bound: error codes, transport errors, failed calls
    MaxEvictions,   \* bound: admitted transactions the node forgets
    MaxSeq          \* bound: largest sequence number the signer signs with

ASSUME ConstantsAssumption ==
    /\ Tasks # {}
    /\ "none" \notin Tasks    \* HeldPackage's value when no package is held
    /\ MaxPackages \in Nat
    /\ MaxFaults \in Nat
    /\ MaxEvictions \in Nat
    /\ MaxSeq \in Nat

(* The answers of one broadcast attempt as the loop sees them: tx code 0,  *)
(* code 32 (SIGNATURE_VERIFICATION_ERROR_CODE), any other nonzero code,    *)
(* an Err from the node client, and None from broadcast_with_expiration.   *)
Responses == {"ok", "code32", "codeErr", "transportErr", "expired"}

(* What a task finds on its one-shot feedback channel.                     *)
Feedbacks == {"none", "ok", "codeErr", "closed"}

(* Control points of the Broadcast loop; "failed" is run() returning Err.  *)
Pcs == {"recv", "sign", "send", "process", "failed"}

VARIABLES
    queue,              \* the unbounded channel: packages, named by task
    task,               \* task -> "idle" | "waiting" for its feedback
    deadlinePassed,     \* task -> has its package's expiration fired
    feedback,           \* task -> its feedback channel
    pc,                 \* control point of the Broadcast loop
    current,            \* the package being broadcast (its task)
    signedSeq,          \* sequence number in the last signed raw_tx
    response,           \* answer of the last broadcast attempt
    sequence,           \* the signer's local sequence number
    consecutiveErrors,  \* Broadcast::consecutive_errors
    chainSeq,           \* the account's sequence number on the node
    faults,             \* faults spent so far
    evictions,          \* evictions so far
    issued,             \* packages enqueued so far
    failStreak          \* history: failed attempts since a success or refetch

taskVars == <<queue, task, deadlinePassed, feedback, issued>>
loopVars == <<pc, current, signedSeq, response, sequence, consecutiveErrors>>
envVars == <<chainSeq, faults, evictions>>
vars == <<taskVars, loopVars, envVars, failStreak>>

-----------------------------------------------------------------------------
(* The broadcaster owns a signer whose sequence number was fetched from   *)
(* the chain; consecutive_errors starts at 0 (Broadcast::new).             *)
Init ==
    /\ queue = <<>>
    /\ task = [t \in Tasks |-> "idle"]
    /\ deadlinePassed = [t \in Tasks |-> FALSE]
    /\ feedback = [t \in Tasks |-> "none"]
    /\ pc = "recv"
    /\ current \in Tasks
    /\ signedSeq = 0
    /\ response = "ok"
    /\ sequence = 0
    /\ consecutiveErrors = 0
    /\ chainSeq = 0
    /\ faults = 0
    /\ evictions = 0
    /\ issued = 0
    /\ failStreak = 0

-----------------------------------------------------------------------------
(* Tasks.  A task builds a package with a time-based expiration, sends it  *)
(* and awaits the feedback; a closed channel (package dropped) also ends   *)
(* the wait.  The task loop is not under src/: modelled from the spec.     *)

Enqueue(t) ==
    /\ pc # "failed"
    /\ task[t] = "idle"
    /\ issued < MaxPackages
    /\ queue' = Append(queue, t)
    /\ task' = [task EXCEPT ![t] = "waiting"]
    /\ deadlinePassed' = [deadlinePassed EXCEPT ![t] = FALSE]
    /\ issued' = issued + 1
    /\ UNCHANGED <<feedback, loopVars, envVars, failStreak>>

DeadlinePasses(t) ==
    /\ pc # "failed"
    /\ task[t] = "waiting"
    /\ ~deadlinePassed[t]
    /\ deadlinePassed' = [deadlinePassed EXCEPT ![t] = TRUE]
    /\ UNCHANGED <<queue, task, feedback, issued, loopVars, envVars, failStreak>>

ReceiveFeedback(t) ==
    /\ pc # "failed"
    /\ task[t] = "waiting"
    /\ feedback[t] # "none"
    /\ task' = [task EXCEPT ![t] = "idle"]
    /\ feedback' = [feedback EXCEPT ![t] = "none"]
    /\ UNCHANGED <<queue, deadlinePassed, issued, loopVars, envVars, failStreak>>

-----------------------------------------------------------------------------
(* The Broadcast loop.                                                     *)

(* run: receive the next package from the channel.                         *)
Receive ==
    /\ pc = "recv"
    /\ queue # <<>>
    /\ current' = Head(queue)
    /\ queue' = Tail(queue)
    /\ pc' = "sign"
    /\ UNCHANGED <<task, deadlinePassed, feedback, issued, signedSeq,
                   response, sequence, consecutiveErrors, envVars, failStreak>>

(* simulate_and_sign_tx: both the simulation tx and the broadcast tx carry *)
(* the current sequence number; the simulated gas only shapes the fee.    *)
(* A signing error ends run() with Err.                                    *)
SimulateAndSign ==
    /\ pc = "sign"
    /\ sequence <= MaxSeq
    /\ \/ /\ signedSeq' = sequence
          /\ pc' = "send"
          /\ UNCHANGED faults
       \/ /\ faults < MaxFaults
          /\ faults' = faults + 1
          /\ pc' = "failed"
          /\ UNCHANGED signedSeq
    /\ UNCHANGED <<taskVars, current, response, sequence, consecutiveErrors,
                   chainSeq, evictions, failStreak>>

(* The node's account sequence after it admits the signed transaction.     *)
Admitted == IF signedSeq = chainSeq THEN chainSeq + 1 ELSE chainSeq

(* broadcast_with_expiration: the node answers, or the expiration fires    *)
(* first.  A transport error or an expiration may come after the node      *)
(* admitted the transaction.                                               *)
Send ==
    /\ pc = "send"
    /\ \/ /\ signedSeq = chainSeq
          /\ response' = "ok"
          /\ chainSeq' = chainSeq + 1
          /\ UNCHANGED faults
       \/ /\ signedSeq # chainSeq
          /\ response' = "code32"
          /\ UNCHANGED <<chainSeq, faults>>
       \/ /\ faults < MaxFaults
          /\ response' = "codeErr"
          /\ faults' = faults + 1
          /\ UNCHANGED chainSeq
       \/ /\ faults < MaxFaults
          /\ response' = "transportErr"
          /\ faults' = faults + 1
          /\ chainSeq' \in {chainSeq, Admitted}
       \/ /\ deadlinePassed[current]
          /\ response' = "expired"
          /\ chainSeq' \in {chainSeq, Admitted}
          /\ UNCHANGED faults
    /\ pc' = "process"
    /\ UNCHANGED <<taskVars, current, signedSeq, sequence, consecutiveErrors,
                   evictions, failStreak>>

(* Mutant: the sequence number is also bumped on any other error code.     *)
IncrementsSequenceOnAnyCode(code) == code \in {"ok", "code32", "codeErr"}

(* The tx codes after which the signer's sequence number is incremented.   *)
IncrementsSequence(code) == code \in {"ok", "code32"}

(* Mutant: the budget wraps at 6 instead of 5.                             *)
NextConsecutiveErrorsOffByOne(n) == (n + 1) % 6

(* consecutive_errors after one more error.                                *)
NextConsecutiveErrors(n) == (n + 1) % 5

(* Mutant: the sequence number is never fetched again.                     *)
ErrorBudgetNeverExhausted(n) == n # n

(* The error budget is spent: the sequence number is fetched again.        *)
ErrorBudgetExhausted(n) == n = 0

(* Mutant: a code-32 response is handed back to the task as well.         *)
HandsBackAnyResponse(code) == code \in Responses

(* The code-32 test that ends the 'process block: any other tx code is     *)
(* sent on the feedback channel and finishes the package.                  *)
HandsBackResponse(code) == code # "code32"

(* The 'process block for a response with a tx code: bump the sequence     *)
(* number, count the error, refetch when the budget is spent (a failing    *)
(* fetch ends run() with Err), then retry on code 32 or hand the response  *)
(* to the task and finish the package.                                     *)
ProcessTxResponse ==
    /\ pc = "process"
    /\ response \in {"ok", "code32", "codeErr"}
    /\ LET bumped == IF IncrementsSequence(response) THEN sequence + 1
                                                      ELSE sequence
           errors == IF response = "ok" THEN 0
                     ELSE NextConsecutiveErrors(consecutiveErrors)
           refetch == response # "ok" /\ ErrorBudgetExhausted(errors)
           Finish == IF ~ HandsBackResponse(response)
                     THEN /\ pc' = "sign"
                          /\ UNCHANGED feedback
                     ELSE /\ pc' = "recv"
                          /\ feedback' = [feedback EXCEPT ![current] = response]
       IN  /\ consecutiveErrors' = errors
           /\ failStreak' = IF response = "ok" \/ refetch THEN 0
                            ELSE failStreak + 1
           /\ \/ /\ ~refetch
                 /\ sequence' = bumped
                 /\ UNCHANGED faults
                 /\ Finish
              \/ /\ refetch
                 /\ sequence' = chainSeq
                 /\ UNCHANGED faults
                 /\ Finish
              \/ /\ refetch
                 /\ faults < MaxFaults
                 /\ faults' = faults + 1
                 /\ sequence' = bumped
                 /\ pc' = "failed"
                 /\ UNCHANGED feedback
    /\ UNCHANGED <<queue, task, deadlinePassed, issued, current, signedSeq,
                   response, chainSeq, evictions>>

(* An Err from the node client: logged, nothing counted, retried after    *)
(* retry_delay_duration.                                                   *)
ProcessTransportError ==
    /\ pc = "process"
    /\ response = "transportErr"
    /\ pc' = "sign"
    /\ failStreak' = failStreak + 1
    /\ UNCHANGED <<taskVars, current, signedSeq, response, sequence,
                   consecutiveErrors, envVars>>

(* Expired: the package is dropped, which closes its feedback channel.    *)
ProcessExpired ==
    /\ pc = "process"
    /\ response = "expired"
    /\ pc' = "recv"
    /\ feedback' = [feedback EXCEPT ![current] = "closed"]
    /\ UNCHANGED <<queue, task, deadlinePassed, issued, current, signedSeq,
                   response, sequence, consecutiveErrors, envVars, failStreak>>

-----------------------------------------------------------------------------
(* The node forgets the last transaction it admitted.                      *)
Evict ==
    /\ pc # "failed"
    /\ evictions < MaxEvictions
    /\ chainSeq > 0
    /\ chainSeq' = chainSeq - 1
    /\ evictions' = evictions + 1
    /\ UNCHANGED <<taskVars, loopVars, faults, failStreak>>

(* The behaviour ends: the process exited on a fatal error, or the tasks   *)
(* have enqueued their last package and the loop has drained the channel, *)
(* or the sequence number outgrew the model's bound.                       *)
Done ==
    /\ \/ pc = "failed"
       \/ issued = MaxPackages /\ queue = <<>> /\ pc = "recv"
       \/ pc = "sign" /\ sequence > MaxSeq
    /\ UNCHANGED vars

Next ==
    \/ \E t \in Tasks : Enqueue(t) \/ DeadlinePasses(t) \/ ReceiveFeedback(t)
    \/ Receive
    \/ SimulateAndSign
    \/ Send
    \/ ProcessTxResponse
    \/ ProcessTransportError
    \/ ProcessExpired
    \/ Evict
    \/ Done

(* The loop and the node are always scheduled again (cooperative runtime,  *)
(* every suspension point resumes); a task always reads its feedback.      *)
(* Deadlines, new packages and evictions are not forced to happen.         *)
Fairness ==
    /\ WF_vars(Receive)
    /\ WF_vars(SimulateAndSign)
    /\ WF_vars(Send)
    /\ WF_vars(ProcessTxResponse)
    /\ WF_vars(ProcessTransportError)
    /\ WF_vars(ProcessExpired)
    /\ \A t \in Tasks : WF_vars(ReceiveFeedback(t))

Spec == Init /\ [][Next]_vars

FairSpec == Spec /\ Fairness

-----------------------------------------------------------------------------
(* Refinement mapping onto BroadcasterAbstract: the package being          *)
(* simulated, signed, sent or classified is the one the broadcaster holds; *)
(* run() returning Err is the halt.  Signing, sending, retries, the        *)
(* sequence numbers and the node are internal and map to stuttering.       *)
HeldPackage == IF pc \in {"sign", "send", "process"} THEN current ELSE "none"

Abstract == INSTANCE BroadcasterAbstract
                WITH held <- HeldPackage, halted <- (pc = "failed"),
                     NoTask <- "none"

-----------------------------------------------------------------------------
TypeOK ==
    /\ queue \in Seq(Tasks)
    /\ task \in [Tasks -> {"idle", "waiting"}]
    /\ deadlinePassed \in [Tasks -> BOOLEAN]
    /\ feedback \in [Tasks -> Feedbacks]
    /\ pc \in Pcs
    /\ current \in Tasks
    /\ signedSeq \in Nat
    /\ response \in Responses
    /\ sequence \in Nat
    /\ consecutiveErrors \in 0..4
    /\ chainSeq \in Nat
    /\ faults \in 0..MaxFaults
    /\ evictions \in 0..MaxEvictions
    /\ issued \in 0..MaxPackages
    /\ failStreak \in Nat

(* As long as the node never forgets an admitted transaction, the signer   *)
(* never signs with a sequence number the chain has not reached: code 32   *)
(* and the refetch only ever move the local counter up to the chain's.     *)
SeqNotAhead == evictions = 0 => sequence <= chainSeq

(* Every task that sent a package gets its feedback or sees the channel    *)
(* close, unless the process died: the code-32 retry loop converges       *)
(* without relying on the package's deadline, even when the node forgot a  *)
(* transaction and the local counter is ahead.                             *)
FeedbackEventuallyReturns ==
    \A t \in Tasks : task[t] = "waiting" ~> (task[t] = "idle" \/ pc = "failed")

(* Spec P3: after five consecutive failed broadcasts (nonzero code or     *)
(* transport error) without a success, the sequence number was refetched. *)
ErrorBudgetRefresh == failStreak < 5

(* Spec P1: the sequence number a transaction is signed with never goes   *)
(* below the one of the transaction signed before it.                     *)
SeqMonotonic == [][signedSeq' >= signedSeq]_vars

(* Spec P1 while the node forgets nothing: up to the first eviction, no     *)
(* transaction is signed with a lower sequence number than the one before  *)
(* it; the code-32 bump and the refetch of broadcast_tx only raise the      *)
(* signer's number, so the refetch never undoes a signing.                 *)
SeqMonotonicUntilEviction == [][evictions' = 0 => signedSeq' >= signedSeq]_vars

(* The loop keeps the promise of BroadcasterAbstract: it takes packages in *)
(* the order the tasks sent them, holds one at a time, hands back only a   *)
(* code-0 or non-32 response or closes the channel after the package's     *)
(* expiration, and never overwrites a feedback the task has not read.      *)
ImplementsAbstract == Abstract!Spec

=============================================================================
