--------------------- MODULE BroadcasterRefinementProofs ---------------------
(***************************************************************************)
(* Broadcaster implements BroadcasterAbstract under the mapping of         *)
(* Broadcaster.tla (HeldPackage, halted = run() returned Err), for every   *)
(* set of tasks and every bound.  The argument rests on PackageInv, which  *)
(* says where a task can be while its package is in the pipeline: queued  *)
(* and held packages belong to waiting tasks with no unread feedback, the  *)
(* queue holds a task at most once, idle tasks are neither queued nor      *)
(* held, and an expired answer is only processed after the held package's  *)
(* deadline fired.                                                         *)
(***************************************************************************)
EXTENDS BroadcasterProofs

(* The control points at which the loop holds a package.                   *)
Holding == {"sign", "send", "process"}

(* Queued packages belong to waiting tasks with no unread feedback.        *)
QueuedWaiting ==
    \A i \in DOMAIN queue : task[queue[i]] = "waiting" /\ feedback[queue[i]] = "none"

(* A task has at most one package in the channel.                          *)
QueueDistinct ==
    \A i, j \in DOMAIN queue : i # j => queue[i] # queue[j]

(* An idle task has no feedback and no package in the channel.             *)
IdleClear ==
    \A t \in Tasks : task[t] = "idle" =>
        /\ feedback[t] = "none"
        /\ \A i \in DOMAIN queue : queue[i] # t

(* The held package belongs to a waiting task with no unread feedback and  *)
(* is no longer in the channel.                                            *)
HeldClear ==
    pc \in Holding =>
        /\ task[current] = "waiting"
        /\ feedback[current] = "none"
        /\ \A i \in DOMAIN queue : queue[i] # current

(* An expired answer is processed only after the package's deadline fired. *)
ExpiredPassed == pc = "process" /\ response = "expired" => deadlinePassed[current]

PackageInv == QueuedWaiting /\ QueueDistinct /\ IdleClear /\ HeldClear /\ ExpiredPassed

-----------------------------------------------------------------------------
(* The actions of the loop that leave the tasks' variables and the queue   *)
(* alone and either keep the held package or drop it without feedback.     *)
LEMMA QuietStep ==
    ASSUME TypeOK, PackageInv,
           UNCHANGED <<queue, task, deadlinePassed, feedback, current>>,
           pc' \in Holding => pc \in Holding,
           pc' = "process" /\ response' = "expired" =>
               \/ pc = "process" /\ response = "expired"
               \/ deadlinePassed[current]
    PROVE  PackageInv'
BY DEF PackageInv, QueuedWaiting, QueueDistinct, IdleClear, HeldClear,
       ExpiredPassed

(* A step that hands a feedback to the held package's task and frees the   *)
(* loop keeps the invariant.                                               *)
LEMMA FinishStep ==
    ASSUME TypeOK, PackageInv, pc \in Holding, pc' \notin Holding,
           NEW fb, feedback' = [feedback EXCEPT ![current] = fb],
           UNCHANGED <<queue, task, deadlinePassed, current>>
    PROVE  PackageInv'
<1>1. QueuedWaiting'
  BY DEF PackageInv, QueuedWaiting, HeldClear, TypeOK
<1>2. IdleClear'
  BY DEF PackageInv, IdleClear, HeldClear, TypeOK
<1>. QED
  BY <1>1, <1>2 DEF PackageInv, QueueDistinct, HeldClear, ExpiredPassed, Holding

-----------------------------------------------------------------------------
(* PackageInv is inductive relative to TypeOK.                             *)
LEMMA PackageInvStep ==
    TypeOK /\ PackageInv /\ [Next]_vars => PackageInv'
<1> SUFFICES ASSUME TypeOK, PackageInv, [Next]_vars PROVE PackageInv'
  OBVIOUS
<1> USE DEF taskVars, loopVars, envVars
<1>1. ASSUME NEW t \in Tasks, Enqueue(t) PROVE PackageInv'
  <2>1. task[t] = "idle" /\ feedback[t] = "none"
        /\ \A i \in DOMAIN queue : queue[i] # t
    BY <1>1 DEF Enqueue, PackageInv, IdleClear
  <2>2. pc \in Holding => current # t
    BY <1>1 DEF Enqueue, PackageInv, HeldClear
  <2>3. QueuedWaiting'
    BY <1>1, <2>1 DEF Enqueue, PackageInv, QueuedWaiting, TypeOK
  <2>4. QueueDistinct'
    BY <1>1, <2>1 DEF Enqueue, PackageInv, QueueDistinct, TypeOK
  <2>5. IdleClear'
    BY <1>1, <2>1 DEF Enqueue, PackageInv, IdleClear, TypeOK
  <2>6. HeldClear'
    BY <1>1, <2>1, <2>2 DEF Enqueue, PackageInv, HeldClear, TypeOK
  <2>7. ExpiredPassed'
    BY <1>1, <2>2 DEF Enqueue, PackageInv, HeldClear, ExpiredPassed, TypeOK,
                      Holding
  <2>. QED
    BY <2>3, <2>4, <2>5, <2>6, <2>7 DEF PackageInv
<1>2. ASSUME NEW t \in Tasks, DeadlinePasses(t) PROVE PackageInv'
  BY <1>2 DEF DeadlinePasses, PackageInv, QueuedWaiting, QueueDistinct,
              IdleClear, HeldClear, ExpiredPassed, TypeOK
<1>3. ASSUME NEW t \in Tasks, ReceiveFeedback(t) PROVE PackageInv'
  <2>1. (\A i \in DOMAIN queue : queue[i] # t) /\ (pc \in Holding => current # t)
    BY <1>3 DEF ReceiveFeedback, PackageInv, QueuedWaiting, HeldClear
  <2>. QED
    BY <1>3, <2>1 DEF ReceiveFeedback, PackageInv, QueuedWaiting,
                      QueueDistinct, IdleClear, HeldClear, ExpiredPassed,
                      TypeOK
<1>4. CASE Receive
  <2>1. queue # <<>> /\ queue' = Tail(queue) /\ current' = Head(queue)
        /\ pc' = "sign"
        /\ UNCHANGED <<task, feedback, deadlinePassed>>
    BY <1>4 DEF Receive
  <2>2. /\ DOMAIN queue' = 1..(Len(queue) - 1)
        /\ \A i \in DOMAIN queue' : queue'[i] = queue[i + 1]
        /\ 1 \in DOMAIN queue /\ current' = queue[1]
    BY <2>1 DEF TypeOK
  <2>3. QueuedWaiting' /\ QueueDistinct' /\ IdleClear'
    BY <2>1, <2>2 DEF PackageInv, QueuedWaiting, QueueDistinct, IdleClear,
                      TypeOK
  <2>4. HeldClear'
    BY <2>1, <2>2 DEF PackageInv, QueuedWaiting, QueueDistinct, HeldClear,
                      TypeOK
  <2>. QED
    BY <2>1, <2>3, <2>4 DEF PackageInv, ExpiredPassed
<1>5. CASE SimulateAndSign
  BY <1>5, QuietStep DEF SimulateAndSign, Holding
<1>6. CASE Send
  BY <1>6, QuietStep DEF Send, Holding
<1>7. CASE ProcessTxResponse
  <2>1. CASE UNCHANGED feedback
    BY <1>7, <2>1, QuietStep DEF ProcessTxResponse, Holding
  <2>2. CASE pc' = "recv" /\ feedback' = [feedback EXCEPT ![current] = response]
    BY <1>7, <2>2, FinishStep DEF ProcessTxResponse, Holding
  <2>. QED
    BY <1>7, <2>1, <2>2 DEF ProcessTxResponse
<1>8. CASE ProcessTransportError
  BY <1>8, QuietStep DEF ProcessTransportError, Holding
<1>9. CASE ProcessExpired
  BY <1>9, FinishStep DEF ProcessExpired, Holding
<1>10. CASE Evict \/ Done \/ UNCHANGED vars
  BY <1>10, QuietStep DEF Evict, Done, vars, Holding
<1>. QED
  BY <1>1, <1>2, <1>3, <1>4, <1>5, <1>6, <1>7, <1>8, <1>9, <1>10 DEF Next

(* Wherever a task's package is in the pipeline, its task waits with no    *)
(* unread feedback; an expired answer follows the package's deadline.      *)
THEOREM PackageInvariant == Spec => []PackageInv
<1>1. Init => PackageInv
  BY DEF Init, PackageInv, QueuedWaiting, QueueDistinct, IdleClear, HeldClear,
         ExpiredPassed, Holding
<1>. QED
  BY <1>1, PackageInvStep, TypeCorrect, PTL DEF Spec

-----------------------------------------------------------------------------
(* Every step of the loop, the tasks or the node is a step of              *)
(* BroadcasterAbstract under the mapping, or leaves the mapped state       *)
(* alone.                                                                  *)
LEMMA RefinementStep ==
    TypeOK /\ PackageInv /\ [Next]_vars => [Abstract!Next]_Abstract!avars
<1> SUFFICES ASSUME TypeOK, PackageInv, [Next]_vars
             PROVE  [Abstract!Next]_Abstract!avars
  OBVIOUS
<1> USE DEF taskVars, loopVars, envVars
<1>1. ASSUME NEW t \in Tasks, Enqueue(t) \/ DeadlinePasses(t) \/ ReceiveFeedback(t)
      PROVE  Abstract!Next
  <2>1. /\ HeldPackage' = HeldPackage
        /\ pc # "failed" /\ pc' = pc
    BY <1>1 DEF Enqueue, DeadlinePasses, ReceiveFeedback, HeldPackage
  <2>. QED
    BY <1>1, <2>1 DEF Enqueue, DeadlinePasses, ReceiveFeedback,
                      Abstract!Next, Abstract!Enqueue, Abstract!DeadlinePasses,
                      Abstract!ReceiveFeedback
<1>2. CASE Receive
  <2>1. HeldPackage = "none" /\ HeldPackage' = Head(queue) /\ pc' # "failed"
    BY <1>2 DEF Receive, HeldPackage
  <2>. QED
    BY <1>2, <2>1 DEF Receive, Abstract!Next, Abstract!Take
<1>3. CASE SimulateAndSign \/ Send \/ ProcessTransportError
  <2>1. CASE pc' = "failed"
    <3>1. HeldPackage' = "none" /\ pc # "failed"
      BY <1>3, <2>1 DEF SimulateAndSign, Send, ProcessTransportError,
                        HeldPackage
    <3>. QED
      BY <1>3, <3>1, <2>1 DEF SimulateAndSign, Send, ProcessTransportError,
                              Abstract!Next, Abstract!Halt
  <2>2. CASE pc' # "failed"
    <3>1. HeldPackage' = HeldPackage /\ pc # "failed"
      BY <1>3, <2>2 DEF SimulateAndSign, Send, ProcessTransportError,
                        HeldPackage
    <3>. QED
      BY <1>3, <3>1, <2>2 DEF SimulateAndSign, Send, ProcessTransportError,
                              Abstract!avars
  <2>. QED
    BY <2>1, <2>2
<1>4. CASE ProcessTxResponse
  <2>1. CASE pc' = "failed"
    BY <1>4, <2>1 DEF ProcessTxResponse, HeldPackage, Abstract!Next,
                      Abstract!Halt
  <2>2. CASE pc' = "sign"
    BY <1>4, <2>2 DEF ProcessTxResponse, HeldPackage, Abstract!avars
  <2>3. CASE pc' = "recv"
    <3>1. /\ feedback' = [feedback EXCEPT ![current] = response]
          /\ response \in {"ok", "codeErr"}
      BY <1>4, <2>3 DEF ProcessTxResponse, HandsBackResponse
    <3>2. task[current] = "waiting" /\ feedback[current] = "none"
      BY <1>4 DEF ProcessTxResponse, PackageInv, HeldClear, Holding
    <3>3. HeldPackage = current /\ HeldPackage' = "none"
      BY <1>4, <2>3 DEF ProcessTxResponse, HeldPackage
    <3>4. Abstract!Finish(response)
      BY <1>4, <3>1, <3>2, <3>3, ConstantsAssumption
         DEF ProcessTxResponse, Abstract!Finish, TypeOK
    <3>. QED
      BY <3>1, <3>4 DEF Abstract!Next, Abstract!Answer
  <2>. QED
    BY <1>4, <2>1, <2>2, <2>3 DEF ProcessTxResponse
<1>5. CASE ProcessExpired
  <2>1. /\ task[current] = "waiting" /\ feedback[current] = "none"
        /\ deadlinePassed[current]
    BY <1>5 DEF ProcessExpired, PackageInv, HeldClear, ExpiredPassed, Holding
  <2>2. HeldPackage = current /\ HeldPackage' = "none"
    BY <1>5 DEF ProcessExpired, HeldPackage
  <2>3. Abstract!Finish("closed")
    BY <1>5, <2>1, <2>2, ConstantsAssumption
       DEF ProcessExpired, Abstract!Finish, TypeOK
  <2>. QED
    BY <2>1, <2>2, <2>3, ConstantsAssumption
       DEF Abstract!Next, Abstract!Drop, TypeOK
<1>6. CASE Evict \/ Done \/ UNCHANGED vars
  BY <1>6 DEF Evict, Done, vars, HeldPackage, Abstract!avars
<1>. QED
  BY <1>1, <1>2, <1>3, <1>4, <1>5, <1>6 DEF Next

(* The transaction pipeline implements BroadcasterAbstract: it hands each  *)
(* task back at most one feedback per package, only a code-0 or non-32     *)
(* response or a closure after the package's expiration, in the order the *)
(* packages were sent, for every set of tasks and every bound.             *)
THEOREM Refinement == Spec => ImplementsAbstract
<1>1. Init => Abstract!Init
  BY DEF Init, Abstract!Init, HeldPackage
<1>. QED
  BY <1>1, RefinementStep, TypeCorrect, PackageInvariant, PTL
     DEF Spec, ImplementsAbstract, Abstract!Spec

=============================================================================
