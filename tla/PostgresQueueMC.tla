--------------------------- MODULE PostgresQueueMC ---------------------------
(* Instances of PostgresQueue for TLC.  Tokens are interchangeable, so are  *)
(* sessions, and so are job identities.                                     *)
EXTENDS PostgresQueue, TLC

TwoTries == [max |-> 2, backoff |-> 1]
TwoTriesOnly == {TwoTries}

Symmetry == Permutations(Token) \cup Permutations(Session) \cup Permutations(Job)
=============================================================================
