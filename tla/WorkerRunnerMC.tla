--------------------------- MODULE WorkerRunnerMC ---------------------------
(* Instances of WorkerRunner for TLC. *)
EXTENDS WorkerRunner, TLC

(* A second consumer, or a second job for a batch of two, not both.         *)
StallInit == Init /\ (joined # {} \/ \E j \in Job : status[j] = "absent")
StallSpec == StallInit /\ [][Next]_vars

Symmetry == Permutations(Consumer) \cup Permutations(Job)
=============================================================================
