---------------------------- MODULE LegacyBroadcast ----------------------------
(***************************************************************************)
(* The broadcast step of the legacy broadcast crate                        *)
(* (broadcast/src/broadcast.rs).  Its caller, which is not in the          *)
(* repository, hands it one signed transaction request at a time together  *)
(* with the instant of the last signing.  sleep_and_broadcast_tx first     *)
(* sleeps what is left of the between-tx margin since that instant, then   *)
(* broadcasts with broadcast_commit.  An Err hands the request back to the *)
(* caller.  On an answer it sends the result to the request's sender if    *)
(* that sender is registered, reports a closed channel, and spawns a       *)
(* poll_delivered_tx task for the hash unless the result reached a live    *)
(* receiver.                                                               *)
(*                                                                         *)
(* Time is discrete.  Tokio's sleep ends at or after its deadline.  The    *)
(* caller may pass any earlier instant as the last signing.  A generator   *)
(* may drop its receiver at any time.  The node may fail the call at most  *)
(* MaxFaults times.                                                        *)
(***************************************************************************)
EXTENDS Naturals, FiniteSets

CONSTANTS
    Senders,        \* generator ids that own a result channel
    Requests,       \* signed transaction requests
    Margin,         \* between_tx_margin_time, in ticks
    MaxTime,        \* bound: the last instant of a behaviour
    MaxFaults       \* bound: failed broadcast_commit calls

ASSUME BroadcastConstantsAssumption ==
    /\ Senders # {}
    /\ IsFiniteSet(Requests)
    /\ Margin \in Nat
    /\ MaxTime \in Nat
    /\ MaxFaults \in Nat

(* The tx codes the model tells apart: 0, 32, and any other.               *)
Codes == {"ok", "code32", "other"}

VARIABLES
    now,            \* the current instant
    senderOf,       \* request -> the sender_id of its TxRequest
    receiver,       \* sender -> "open", "closed" (receiver dropped) or
                    \*   "absent" (not in tx_result_senders)
    pending,        \* requests the caller still has to broadcast
    pc,             \* "idle", "sleep" or "broadcast"
    cur,            \* the request of the call in progress
    signedAt,       \* last_signing_timestamp of the call in progress
    wakeAt,         \* deadline of the call's sleep
    faults,         \* failed broadcast_commit calls so far
    delivered,      \* request -> the result its sender received, or "none"
    polled,         \* requests whose hash a poll_delivered_tx task watches
    closedReported  \* requests whose call returned channel_closed

vars == <<now, senderOf, receiver, pending, pc, cur, signedAt, wakeAt, faults,
          delivered, polled, closedReported>>

Init ==
    /\ now = 0
    /\ senderOf \in [Requests -> Senders]
    /\ receiver \in [Senders -> {"open", "absent"}]
    /\ pending = Requests
    /\ pc = "idle"
    /\ cur \in Requests
    /\ signedAt = 0
    /\ wakeAt = 0
    /\ faults = 0
    /\ delivered = [r \in Requests |-> "none"]
    /\ polled = {}
    /\ closedReported = {}

-----------------------------------------------------------------------------
(* Mutant: the margin is taken one tick short.                             *)
TimeLeftOffByOne(margin, elapsed) ==
    IF margin > elapsed + 1 THEN margin - elapsed - 1 ELSE 0

(* between_tx_margin_time.saturating_sub(last_signing_timestamp.elapsed()).*)
TimeLeft(margin, elapsed) == IF margin > elapsed THEN margin - elapsed ELSE 0

(* sleep_and_broadcast_tx and sleep_between_txs: the time left since the   *)
(* last signing is measured on entry; a zero time left broadcasts at once, *)
(* otherwise the call sleeps that long.  The call is only made while the   *)
(* sleep ends within the behaviour's bound.                                *)
Call(r, t) ==
    LET left == TimeLeft(Margin, now - t) IN
    /\ pc = "idle"
    /\ r \in pending
    /\ now + left <= MaxTime
    /\ cur' = r
    /\ signedAt' = t
    /\ wakeAt' = now + left
    /\ pc' = IF left = 0 THEN "broadcast" ELSE "sleep"
    /\ UNCHANGED <<now, senderOf, receiver, pending, faults, delivered, polled,
                   closedReported>>

(* tokio::time::sleep completes at or after its deadline.                  *)
Wake ==
    /\ pc = "sleep"
    /\ now >= wakeAt
    /\ pc' = "broadcast"
    /\ UNCHANGED <<now, senderOf, receiver, pending, cur, signedAt, wakeAt,
                   faults, delivered, polled, closedReported>>

(* sender.send(..).is_ok(): the result reached a registered, live          *)
(* receiver, and send_back_tx_hash returns early.                          *)
ReachesReceiver(state) == state = "open"

(* The CommitError type send_back_tx_hash derives from the tx code.        *)
ResultOf(code) == CASE code = "ok" -> "hash"
                    [] code = "code32" -> "invalidAccountSequence"
                    [] OTHER -> "unknown"

(* broadcast_and_send_back_tx_hash: broadcast_commit; an Err hands the     *)
(* request back to the caller unchanged.  On an answer, send_back_tx_hash: *)
(* a registered sender gets the result, and a failed send reports the      *)
(* channel closed; unless the result reached a live receiver, a            *)
(* poll_delivered_tx task is spawned for the hash.                         *)
BroadcastCommit ==
    LET s == senderOf[cur] IN
    /\ pc = "broadcast"
    /\ pc' = "idle"
    /\ \/ /\ faults < MaxFaults
          /\ faults' = faults + 1
          /\ UNCHANGED <<pending, delivered, polled, closedReported>>
       \/ \E code \in Codes :
             /\ pending' = pending \ {cur}
             /\ delivered' = IF receiver[s] = "open"
                             THEN [delivered EXCEPT ![cur] = ResultOf(code)]
                             ELSE delivered
             /\ IF ReachesReceiver(receiver[s])
                THEN UNCHANGED <<polled, closedReported>>
                ELSE /\ polled' = polled \cup {cur}
                     /\ closedReported' = IF receiver[s] = "closed"
                                          THEN closedReported \cup {cur}
                                          ELSE closedReported
             /\ UNCHANGED faults
    /\ UNCHANGED <<now, senderOf, receiver, cur, signedAt, wakeAt>>

(* Environment: time passes.                                               *)
Tick ==
    /\ now < MaxTime
    /\ now' = now + 1
    /\ UNCHANGED <<senderOf, receiver, pending, pc, cur, signedAt, wakeAt,
                   faults, delivered, polled, closedReported>>

(* Environment: a generator drops its result receiver.                     *)
DropReceiver(s) ==
    /\ receiver[s] = "open"
    /\ receiver' = [receiver EXCEPT ![s] = "closed"]
    /\ UNCHANGED <<now, senderOf, pending, pc, cur, signedAt, wakeAt, faults,
                   delivered, polled, closedReported>>

(* The caller has broadcast every request.                                 *)
Finished == pc = "idle" /\ pending = {} /\ UNCHANGED vars

Next ==
    \/ \E r \in Requests, t \in 0..MaxTime : t <= now /\ Call(r, t)
    \/ Wake
    \/ BroadcastCommit
    \/ Tick
    \/ \E s \in Senders : DropReceiver(s)
    \/ Finished

Spec == Init /\ [][Next]_vars

-----------------------------------------------------------------------------
TypeOK ==
    /\ now \in 0..MaxTime
    /\ senderOf \in [Requests -> Senders]
    /\ receiver \in [Senders -> {"open", "closed", "absent"}]
    /\ pending \subseteq Requests
    /\ pc \in {"idle", "sleep", "broadcast"}
    /\ cur \in Requests
    /\ signedAt \in 0..MaxTime
    /\ wakeAt \in 0..MaxTime
    /\ faults \in 0..MaxFaults
    /\ delivered \in [Requests -> {"none", "hash", "invalidAccountSequence",
                                   "unknown"}]
    /\ polled \subseteq Requests
    /\ closedReported \subseteq Requests

(* Pacing: a transaction is broadcast no earlier than between_tx_margin_time *)
(* after the last signing, whatever instant the caller passes and however  *)
(* late the sleep ends (sleep_between_txs).                                *)
PacingRespected == pc = "broadcast" => now - signedAt >= Margin
=============================================================================
