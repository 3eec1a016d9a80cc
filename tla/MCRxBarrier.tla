---------------------------- MODULE MCRxBarrier ----------------------------
(* Instances of RxBarrier for TLC. *)
EXTENDS RxBarrierFlush
=============================================================================
