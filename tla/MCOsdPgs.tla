------------------------------ MODULE MCOsdPgs ------------------------------
(***************************************************************************)
(* OsdPgs for TLC.                                                         *)
(***************************************************************************)
EXTENDS OsdPgs

\* The map of pg_num n in which this OSD has role r for every group, but role s
\* for the groups in P.
Map(n, r, P, s) ==
  [num |-> n, role |-> [p \in Pg |-> IF p \in P THEN s ELSE r], peer |-> TRUE]
Op(s, raw, e) == [s |-> s, raw |-> raw, epoch |-> e, client |-> TRUE]
RepOp(s, raw, e) == [Op(s, raw, e) EXCEPT !.client = FALSE]
Msg(k, p, e) == [kind |-> k, pg |-> p, epoch |-> e]
Calm == [maps |-> <<Map(1, "me", {}, "me")>>, missing |-> {}, ops |-> <<>>, msgs |-> <<>>,
         start |-> {}, crash |-> 0, reset |-> 0]

MCSession == 1..2

\* A group is made while operations for it arrive and the map changes.
Making == [Calm EXCEPT !.maps = <<@[1], @[1]>>,
                       !.ops = <<Op(1, 0, 1), Op(1, 0, 2), Op(1, 0, 1)>>,
                       !.msgs = <<Msg("create", 0, 1)>>]
\* The pool is split twice.
Splitting == [Calm EXCEPT !.maps = <<Map(1, "me", {}, "me"), Map(2, "me", {}, "me"), Map(4, "me", {}, "me")>>,
                          !.ops = <<Op(1, 3, 1), Op(1, 3, 2)>>,
                          !.start = {0}]
\* The group moves away, is deleted, and comes back.
Returning == [Calm EXCEPT !.maps = <<Map(1, "me", {}, "me"), Map(1, "out", {}, "me"), Map(1, "rep", {}, "me")>>,
                          !.ops = <<Op(1, 0, 1), RepOp(2, 0, 3)>>,
                          !.msgs = <<Msg("remove", 0, 2), Msg("notify", 0, 3)>>,
                          !.start = {0}]
\* The group is being deleted when the pool is split, and its child comes to us.
Inheriting == [Calm EXCEPT !.maps = <<Map(1, "out", {}, "me"), Map(2, "out", {1}, "rep")>>,
                           !.ops = <<RepOp(1, 1, 2)>>,
                           !.msgs = <<Msg("remove", 0, 1), Msg("remove", 0, 2), Msg("notify", 1, 2)>>,
                           !.start = {0}]
\* The pool is deleted while its groups are being split.
Dropping == [Calm EXCEPT !.maps = <<Map(1, "me", {}, "me"), Map(2, "me", {}, "me"), Map(0, "out", {}, "me")>>,
                         !.ops = <<Op(1, 1, 1)>>,
                         !.msgs = <<Msg("query", 1, 2)>>,
                         !.start = {0}]
Crashing == [Calm EXCEPT !.maps = <<Map(1, "me", {}, "me"), Map(2, "me", {}, "me")>>,
                         !.ops = <<Op(1, 1, 1)>>,
                         !.start = {0}, !.crash = 1]
\* A crash while the group is being deleted; it comes back.
Recovering == [Calm EXCEPT !.maps = <<Map(1, "out", {}, "me"), Map(1, "rep", {}, "me")>>,
                           !.msgs = <<Msg("remove", 0, 1), Msg("notify", 0, 2)>>,
                           !.start = {0}, !.crash = 1]
\* The connection is reset, or the peer is found dead, while operations arrive.
Resetting == [Calm EXCEPT !.maps = <<Map(1, "out", {}, "me"), Map(1, "rep", {}, "me"), [Map(1, "rep", {}, "me") EXCEPT !.peer = FALSE]>>,
                         !.ops = <<RepOp(1, 0, 2), RepOp(1, 0, 2)>>,
                         !.msgs = <<Msg("notify", 0, 2), Msg("query", 0, 2)>>, !.reset = 1]
Skipping == [Calm EXCEPT !.maps = <<Map(1, "me", {}, "me"), Map(1, "me", {}, "me"), Map(2, "me", {}, "me"), Map(2, "me", {}, "me")>>,
                         !.ops = <<Op(1, 1, 1), Op(1, 1, 4)>>,
                         !.missing = {2}, !.start = {0}]
\* A request to make the group comes twice, and late.
Repeating == [Calm EXCEPT !.maps = <<Map(1, "me", {}, "me"), Map(1, "out", {}, "me"), Map(1, "me", {}, "me")>>,
                          !.msgs = <<Msg("create", 0, 1), Msg("create", 0, 1)>>]
\* The pool is split before its groups are made.
Waiting == [Calm EXCEPT !.maps = <<Map(1, "me", {}, "me"), Map(2, "me", {0}, "out")>>,
                        !.ops = <<Op(1, 1, 1), Op(1, 0, 1), Op(1, 1, 2)>>,
                        !.msgs = <<Msg("create", 1, 2)>>]
MCScenarios == {Making, Repeating, Waiting, Splitting, Returning, Inheriting, Dropping, Crashing, Recovering, Resetting, Skipping}
=============================================================================
