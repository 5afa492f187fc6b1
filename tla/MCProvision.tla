----------------------------- MODULE MCProvision -----------------------------
(* Values for Provision: names that lower-casing changes, a unit of two and *)
(* an int64 that ends at seven, with requests at the edges of both.        *)
EXTENDS Provision

MCToLower == [a \in Claim |-> <<"lower", a>>]

MCAsk ==
    {[range |-> [required |-> 3, limit |-> 0], modes |-> <<"SINGLE_NODE_WRITER">>],
     [range |-> [required |-> -1, limit |-> 4],
      modes |-> <<"SINGLE_NODE_WRITER", "MULTI_NODE_READER_ONLY", "UNKNOWN">>],
     [range |-> [required |-> 7, limit |-> 7], modes |-> << >>],
     [range |-> [required |-> 0, limit |-> -1], modes |-> <<"UNKNOWN">>]}
=============================================================================
