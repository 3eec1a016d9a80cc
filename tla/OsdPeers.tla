------------------------------ MODULE OsdPeers ------------------------------
(***************************************************************************)
(* How an OSD chooses the peers it exchanges heartbeats with               *)
(* (ceph/OSD.cc, the second half of maybe_update_heartbeat_peers), as an   *)
(* operator on sets of OSD numbers.                                        *)
(***************************************************************************)
EXTENDS Integers, FiniteSetsExt

CONSTANTS
  whoami,     \* the number of this OSD
  Peer,       \* the numbers of the other OSDs
  Wide,       \* the numbers that PeersConnected is stated for
  MinPeers    \* osd_heartbeat_min_peers

ASSUME PeersAssumption ==
  /\ whoami \in Nat /\ MinPeers \in Nat
  /\ Peer \subseteq Nat \ {whoami} /\ IsFiniteSet(Peer)
  /\ Wide \subseteq Nat \ {whoami} /\ IsFiniteSet(Wide)

\* OSDMap::get_next_up_osd_after and get_previous_up_osd_before, which go round
\* the OSDs that are up and end before they reach n: here the set of the one
\* OSD they return, or the empty set for -1.
get_next_up_osd_after(up, n) ==
  LET others == up \ {n}
      above == {o \in others : o > n}
  IN  IF above # {} THEN {Min(above)} ELSE IF others # {} THEN {Min(others)} ELSE {}

get_previous_up_osd_before(up, n) ==
  LET others == up \ {n}
      below == {o \in others : o < n}
  IN  IF below # {} THEN {Max(below)} ELSE IF others # {} THEN {Max(others)} ELSE {}

want(up) == get_next_up_osd_after(up, whoami) \cup get_previous_up_osd_before(up, whoami)

\* The k first members of S on a walk that leaves from whoami upwards.
Before(S, o) == {p \in S : IF o > whoami THEN whoami < p /\ p < o
                           ELSE p > whoami \/ p < o}
FirstOnWalk(S, k) == {o \in S : Cardinality(Before(S, o)) < k}
\* The k least members of S.
Least(S, k) == {o \in S : Cardinality({p \in S : p < o}) < k}

\* _add_heartbeat_peer adds these, or renews their epoch: the peers of the PGs,
\* and the neighbours.
Refreshed(up, pg) == (pg \cap up) \cup want(up)

\* The peers after an update, from the OSDs that are up in the map, the peers
\* so far, those of them that were added or renewed in this very epoch, and
\* the peers of the PGs: down ones are removed, too few are filled up along the
\* walk, and of too many the ones whose epoch is old are removed.
Chosen(up, cur, fresh, pg) ==
  LET kept == (cur \cup Refreshed(up, pg)) \cap up
      extras == kept \ (fresh \cup Refreshed(up, pg))
      filled == kept \cup FirstOnWalk(up \ kept, MinPeers - Cardinality(kept))
  IN  filled \ Least(extras, Cardinality(filled) - MinPeers)

(* The peers are OSDs that are up, among them the neighbours in the order  *)
(* of their numbers, so that the heartbeats of all OSDs form a connected   *)
(* graph, and the peers of every PG; they are as many as the configuration *)
(* asks for while there are so many, and more only where the neighbours,   *)
(* the PGs or peers of the same epoch need it (OSD.cc:3831-3883).          *)
PeersConnected ==
  \A up, cur, pg \in SUBSET Wide :
    \A fresh \in SUBSET cur :
      LET peers == Chosen(up, cur, fresh, pg)
          needed == (fresh \cap up) \cup Refreshed(up, pg)
      IN  /\ needed \subseteq peers /\ peers \subseteq up
          /\ Cardinality(peers) >= Min({MinPeers, Cardinality(up)})
          /\ Cardinality(peers) <= Max({MinPeers, Cardinality(needed)})
=============================================================================
