------------------------------ MODULE MCAttach ------------------------------
(* Small instances of Attach for TLC. *)
EXTENDS Attach

\* Every node name hashes to the same mutex: the case that can go wrong.
MCHashKey == [n \in Node |-> CHOOSE m \in Mutex : TRUE]
=============================================================================
