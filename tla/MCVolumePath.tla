---------------------------- MODULE MCVolumePath ----------------------------
(* Every node hashes to the same mutex; the slots for calls are alike. *)
EXTENDS VolumePath, TLC

MCHashKey == [n \in Node |-> CHOOSE m \in Mutex : TRUE]

MCSymmetry == Permutations(ACall) \cup Permutations(NCall)
=============================================================================
