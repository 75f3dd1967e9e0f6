---------------------------- MODULE MCBroadcaster ----------------------------
(* Small instances of the transaction pipeline for TLC.                    *)
EXTENDS Broadcaster, TLC

CONSTANTS t1, t2

MCTasks == {t1, t2}

(* The two tasks are interchangeable in every safety run.                  *)
TaskSymmetry == Permutations(MCTasks)
=============================================================================
