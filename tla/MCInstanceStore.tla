--------------------------- MODULE MCInstanceStore ---------------------------
(* Instances of InstanceStore for TLC.                                       *)
EXTENDS InstanceStore, TLC

CONSTANTS t1, t2, u1, u2, c1, c2

Interchangeable == Permutations(Tasks) \cup Permutations(Users) \cup Permutations(Clients)
=============================================================================
