------------------------------- MODULE MCOsd -------------------------------
EXTENDS Osd

\* PeersConnected has no variables: TLC evaluates it once, for all sets within Wide.
ASSUME PeersChosenWell == PeersConnected

NoBudget == [mark |-> 0, remove |-> 0, churn |-> 0, age |-> 0, reset |-> 0, crc |-> 0, crash |-> 0, die |-> 0,
             trim |-> 0, con |-> 0, need |-> 0, noup |-> 0, rebind |-> 0, stop |-> 0, safetimer |-> 0]

First == [inst |-> [o \in Peer \cup {whoami} |-> IF o = whoami THEN 0 ELSE 1], noup |-> FALSE]
PeerDown == [First EXCEPT !.inst = [o \in DOMAIN @ |-> 0]]
Start(budget) == [maps |-> <<First>>, oldest |-> 1, left |-> budget]

\* One scenario of faults and changes per behaviour.
MCScenarios ==
  {Start([NoBudget EXCEPT !.mark = 1, !.reset = 1]),
   Start([NoBudget EXCEPT !.remove = 1]),
   Start([NoBudget EXCEPT !.churn = 1]),
   Start([NoBudget EXCEPT !.crash = 1]),
   Start([NoBudget EXCEPT !.age = 2, !.die = 1, !.con = 1]),
   Start([NoBudget EXCEPT !.age = 1, !.die = 1, !.need = 1]),
   Start([NoBudget EXCEPT !.age = 1, !.die = 1, !.reset = 1]),
   Start([NoBudget EXCEPT !.stop = 1, !.safetimer = 1]),
   [Start([NoBudget EXCEPT !.churn = 1]) EXCEPT !.maps = <<PeerDown>>],
   [Start([NoBudget EXCEPT !.mark = 1, !.rebind = 1]) EXCEPT !.maps = <<PeerDown>>],
   [Start([NoBudget EXCEPT !.noup = 1]) EXCEPT !.maps = <<PeerDown, [PeerDown EXCEPT !.noup = TRUE]>>],
   [Start([NoBudget EXCEPT !.crash = 1, !.crc = 1]) EXCEPT !.maps = <<PeerDown, PeerDown, PeerDown>>],
   [Start([NoBudget EXCEPT !.trim = 1]) EXCEPT !.maps = <<PeerDown, PeerDown, PeerDown, PeerDown>>,
                                               !.oldest = 3]}
=============================================================================
