------------------------------ MODULE Registry ------------------------------
(* What the node map promises: a table with one entry per node, in which a *)
(* node replaces its own entry and no other, only while it does not serve, *)
(* and serves under the address that its entry shows.                      *)
CONSTANTS Node, Address, None

VARIABLES entry, serving

regVars == <<entry, serving>>

RegInit ==
    /\ entry = [n \in Node |-> None]
    /\ serving = [n \in Node |-> None]

Put(n, a) ==
    /\ serving[n] = None
    /\ entry' = [entry EXCEPT ![n] = a]
    /\ UNCHANGED serving

Serve(n) ==
    /\ serving[n] = None /\ entry[n] # None
    /\ serving' = [serving EXCEPT ![n] = entry[n]]
    /\ UNCHANGED entry

Leave(n) ==
    /\ serving' = [serving EXCEPT ![n] = None]
    /\ UNCHANGED entry

RegNext == \E n \in Node : Serve(n) \/ Leave(n) \/ \E a \in Address : Put(n, a)

RegSpec == RegInit /\ [][RegNext]_regVars
=============================================================================
