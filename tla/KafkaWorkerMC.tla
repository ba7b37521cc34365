---------------------------- MODULE KafkaWorkerMC ----------------------------
(* KafkaWorker for TLC: replicas and records are interchangeable.            *)
EXTENDS KafkaWorker, TLC

Symmetry == Permutations(Worker) \union Permutations(Job)

(* Two changes of the control, or one and a second run: both bounds at once *)
(* would only repeat these interleavings.                                    *)
FewChanges == signals + reruns =< 2
=============================================================================
