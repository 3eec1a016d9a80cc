------------------------------ MODULE MCTg3Rx ------------------------------
(* Constants of the run of Tg3Rx: one ring, of 3 slots and 2 buffers.      *)
EXTENDS Tg3Rx

CONSTANTS std

MCSize == [k \in Key |-> 3]
MCPending == [k \in Key |-> 2]
=============================================================================
