---------------------------- MODULE RedisQueueMC ----------------------------
(* Instances of RedisQueue for TLC. *)
EXTENDS RedisQueue, TLC

TwoTries == [max |-> 2, backoff |-> 1]
TwoTriesOnly == {TwoTries}

Symmetry == Permutations(Token) \cup Permutations(Job)
=============================================================================
