------------------------------ MODULE MCExpand ------------------------------
(* Values for Expand: another disk with a serial of its own, one with two  *)
(* lines, which is passed over although its serial fits, and what is asked *)
(* of the controller.                                                      *)
EXTENDS Expand, TLC

CONSTANTS vol, one, many

MCAnswer == vol :> "one" @@ one :> "one" @@ many :> "many"

MCAsk ==
    {[range |-> [required |-> 3, limit |-> 0], cap |-> [mount |-> TRUE, mode |-> "SINGLE_NODE_WRITER", fs |-> ""]],
     [range |-> [required |-> 5, limit |-> 7], cap |-> None],
     [range |-> [required |-> 0, limit |-> 0], cap |-> [mount |-> FALSE, mode |-> "MULTI_NODE_READER_ONLY", fs |-> ""]]}
=============================================================================
