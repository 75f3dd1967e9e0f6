------------------------- MODULE LegacyBroadcastProofs -------------------------
(***************************************************************************)
(* Proofs about the legacy broadcast helpers (LegacyBroadcast), for every  *)
(* margin, set of requests and senders, and every bound.                   *)
(***************************************************************************)
EXTENDS LegacyBroadcast, TLAPS

(* The pacing argument: a sleeping call wakes exactly the margin after the *)
(* signing instant it was given (the saturating subtraction of             *)
(* sleep_between_txs cancels the time already elapsed), and a call that    *)
(* broadcasts has waited at least the margin.                              *)
PacingInv ==
    /\ pc = "sleep" => wakeAt = signedAt + Margin
    /\ PacingRespected

-----------------------------------------------------------------------------
(* The time left of sleep_between_txs is a natural number no larger than   *)
(* the margin, and zero exactly when the margin has already elapsed.       *)
LEMMA TimeLeftFacts ==
    ASSUME NEW margin \in Nat, NEW elapsed \in Nat
    PROVE  /\ TimeLeft(margin, elapsed) \in 0..margin
           /\ TimeLeft(margin, elapsed) = 0 <=> margin <= elapsed
           /\ TimeLeft(margin, elapsed) # 0 =>
                  TimeLeft(margin, elapsed) = margin - elapsed
BY DEF TimeLeft

(* send_back_tx_hash always derives one of the three results from a code, *)
(* never the "none" of a request whose sender got nothing.                 *)
LEMMA ResultOfFacts ==
    ASSUME NEW code
    PROVE  ResultOf(code) \in {"hash", "invalidAccountSequence", "unknown"}
BY Zenon DEF ResultOf

(* Every variable keeps its type.                                          *)
THEOREM TypeCorrect == Spec => []TypeOK
<1> USE BroadcastConstantsAssumption
<1>1. Init => TypeOK
  BY DEF Init, TypeOK
<1>2. TypeOK /\ [Next]_vars => TypeOK'
  <2> SUFFICES ASSUME TypeOK, [Next]_vars PROVE TypeOK'
    OBVIOUS
  <2>1. ASSUME NEW r \in Requests, NEW t \in 0..MaxTime, t <= now, Call(r, t)
        PROVE  TypeOK'
    <3>1. TimeLeft(Margin, now - t) \in Nat
      BY <2>1, TimeLeftFacts DEF TypeOK
    <3>2. QED
      BY <2>1, <3>1 DEF Call, TypeOK
  <2>2. CASE Wake
    BY <2>2 DEF Wake, TypeOK
  <2>3. CASE BroadcastCommit
    BY <2>3, ResultOfFacts DEF BroadcastCommit, TypeOK
  <2>4. CASE Tick
    BY <2>4 DEF Tick, TypeOK
  <2>5. ASSUME NEW s \in Senders, DropReceiver(s) PROVE TypeOK'
    BY <2>5 DEF DropReceiver, TypeOK
  <2>6. CASE Finished \/ UNCHANGED vars
    BY <2>6 DEF Finished, vars, TypeOK
  <2>7. QED
    BY <2>1, <2>2, <2>3, <2>4, <2>5, <2>6 DEF Next
<1>3. QED
  BY <1>1, <1>2, PTL DEF Spec

-----------------------------------------------------------------------------
(* Pacing of sleep_between_txs: no transaction is broadcast before         *)
(* between_tx_margin_time has passed since the signing instant the caller  *)
(* gave, whatever that instant and however late the sleep ends.  The       *)
(* strengthening PacingInv pins the wake-up instant of a sleeping call.    *)
THEOREM PacingRespectedInvariant == Spec => []PacingRespected
<1> USE BroadcastConstantsAssumption
<1>1. Init => PacingInv
  BY DEF Init, PacingInv, PacingRespected
<1>2. TypeOK /\ PacingInv /\ [Next]_vars => PacingInv'
  <2> SUFFICES ASSUME TypeOK, PacingInv, [Next]_vars PROVE PacingInv'
    OBVIOUS
  <2>1. ASSUME NEW r \in Requests, NEW t \in 0..MaxTime, t <= now, Call(r, t)
        PROVE  PacingInv'
    <3> DEFINE left == TimeLeft(Margin, now - t)
    <3>1. /\ left = 0 <=> Margin <= now - t
          /\ left # 0 => left = Margin - (now - t)
      BY <2>1, TimeLeftFacts DEF TypeOK
    <3>2. QED
      BY <2>1, <3>1 DEF Call, TypeOK, PacingInv, PacingRespected
  <2>2. CASE Wake
    BY <2>2 DEF Wake, TypeOK, PacingInv, PacingRespected
  <2>3. CASE BroadcastCommit
    BY <2>3 DEF BroadcastCommit, PacingInv, PacingRespected
  <2>4. CASE Tick
    BY <2>4 DEF Tick, TypeOK, PacingInv, PacingRespected
  <2>5. ASSUME NEW s \in Senders, DropReceiver(s) PROVE PacingInv'
    BY <2>5 DEF DropReceiver, PacingInv, PacingRespected
  <2>6. CASE Finished \/ UNCHANGED vars
    BY <2>6 DEF Finished, vars, PacingInv, PacingRespected
  <2>7. QED
    BY <2>1, <2>2, <2>3, <2>4, <2>5, <2>6 DEF Next
<1>3. PacingInv => PacingRespected
  BY DEF PacingInv
<1>4. QED
  BY <1>1, <1>2, <1>3, TypeCorrect, PTL DEF Spec

=============================================================================
