-------------------------- MODULE BroadcasterAbstract --------------------------
(***************************************************************************)
(* What the broadcaster promises its tasks (spec sections 4.3 to 4.5),     *)
(* with signing, the node and sequence numbers abstracted away.  Tasks     *)
(* enqueue one package at a time and wait.  The broadcaster takes the      *)
(* packages in the order they were sent and holds one at a time.  It ends  *)
(* the held package in one of two ways.  It answers it with the node's     *)
(* response, code 0 or another code other than 32.  Or it drops it after   *)
(* the package's expiration fired, which the task sees as a closed         *)
(* channel.  A package is answered or dropped only while its task still    *)
(* waits and has no unread feedback, so no feedback overwrites another.    *)
(* The broadcaster may halt at any time and drops the held package.        *)
(***************************************************************************)
EXTENDS Naturals, Sequences

CONSTANTS
    Tasks,          \* the producer tasks
    MaxPackages,    \* bound: packages the tasks enqueue in one behaviour
    NoTask          \* held when the broadcaster holds no package

VARIABLES
    queue,          \* packages sent and not yet taken, oldest first
    task,           \* task -> "idle" | "waiting"
    deadlinePassed, \* task -> has its package's expiration fired
    feedback,       \* task -> "none", "ok", "codeErr" or "closed"
    issued,         \* packages enqueued so far
    held,           \* the task whose package the broadcaster holds, or NoTask
    halted          \* the broadcaster has stopped for good

avars == <<queue, task, deadlinePassed, feedback, issued, held, halted>>

Init ==
    /\ queue = <<>>
    /\ task = [t \in Tasks |-> "idle"]
    /\ deadlinePassed = [t \in Tasks |-> FALSE]
    /\ feedback = [t \in Tasks |-> "none"]
    /\ issued = 0
    /\ held = NoTask
    /\ halted = FALSE

Enqueue(t) ==
    /\ ~halted
    /\ task[t] = "idle"
    /\ issued < MaxPackages
    /\ queue' = Append(queue, t)
    /\ task' = [task EXCEPT ![t] = "waiting"]
    /\ deadlinePassed' = [deadlinePassed EXCEPT ![t] = FALSE]
    /\ issued' = issued + 1
    /\ UNCHANGED <<feedback, held, halted>>

DeadlinePasses(t) ==
    /\ ~halted
    /\ task[t] = "waiting"
    /\ ~deadlinePassed[t]
    /\ deadlinePassed' = [deadlinePassed EXCEPT ![t] = TRUE]
    /\ UNCHANGED <<queue, task, feedback, issued, held, halted>>

ReceiveFeedback(t) ==
    /\ ~halted
    /\ task[t] = "waiting"
    /\ feedback[t] # "none"
    /\ task' = [task EXCEPT ![t] = "idle"]
    /\ feedback' = [feedback EXCEPT ![t] = "none"]
    /\ UNCHANGED <<queue, deadlinePassed, issued, held, halted>>

(* The broadcaster takes the oldest package.                               *)
Take ==
    /\ ~halted
    /\ held = NoTask
    /\ queue # <<>>
    /\ held' = Head(queue)
    /\ queue' = Tail(queue)
    /\ UNCHANGED <<task, deadlinePassed, feedback, issued, halted>>

(* The held package ends with feedback fb for its waiting task.            *)
Finish(fb) ==
    /\ ~halted
    /\ held # NoTask
    /\ task[held] = "waiting"
    /\ feedback[held] = "none"
    /\ feedback' = [feedback EXCEPT ![held] = fb]
    /\ held' = NoTask
    /\ UNCHANGED <<queue, task, deadlinePassed, issued, halted>>

(* The node's response, code 0 or a code other than 32, is handed back.    *)
Answer == \E fb \in {"ok", "codeErr"} : Finish(fb)

(* The package is dropped after its expiration fired.                      *)
Drop == held # NoTask /\ deadlinePassed[held] /\ Finish("closed")

(* The broadcaster stops; the held package is dropped with it.             *)
Halt ==
    /\ ~halted
    /\ halted' = TRUE
    /\ held' = NoTask
    /\ UNCHANGED <<queue, task, deadlinePassed, feedback, issued>>

Next ==
    \/ \E t \in Tasks : Enqueue(t) \/ DeadlinePasses(t) \/ ReceiveFeedback(t)
    \/ Take
    \/ Answer
    \/ Drop
    \/ Halt

Spec == Init /\ [][Next]_avars
=============================================================================
