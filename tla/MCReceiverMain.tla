--------------------------- MODULE MCReceiverMain ---------------------------
(* The receiver process for TLC: two rings and three ports, two of which   *)
(* share ring 1, so that a connection is redundant now and then.           *)
EXTENDS ReceiverMain
MCPort == 1 .. 3
MCRingOf == <<0, 1, 1>>

\* Every fault, with those it can meet.
MCScenarios ==
  { {"nfq", "early"}, {"barrier", "setup", "early"}, {"file", "break", "early"},
    {"nfq", "break", "again"} }
=============================================================================
