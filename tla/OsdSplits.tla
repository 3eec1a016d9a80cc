----------------------------- MODULE OsdSplits -----------------------------
(***************************************************************************)
(* The bookkeeping of placement-group splits in OSDService                 *)
(* (src/ceph/OSD.cc:291-450), for one pool.  A split state is              *)
(*   pending  pending_splits: child |-> parent (rev_pending_splits is its  *)
(*            inverse), children whose parent has yet to reach the map     *)
(*            that splits it;                                              *)
(*   inprog   in_progress_splits: children made by split_pgs that are not  *)
(*            in pg_map yet;                                               *)
(*   ok       no assert of these functions has failed.                     *)
(* A placement group is its number below pg_num; pg_num 0 is a deleted     *)
(* pool.                                                                   *)
(***************************************************************************)
EXTENDS Integers, FiniteSets, TLC, SequencesExt

CONSTANT Pg
ASSUME PgAssumption == Pg = 0..(Cardinality(Pg) - 1) /\ Cardinality(Pg) \in 1..8

\* F applied to the elements of list, or of S, one after another; each result is
\* a value before the next step uses it.
InTurn(F(_, _), base, list) ==
  FoldLeft(LAMBDA acc, e : CHOOSE r \in {F(v, e) : v \in {acc}} : TRUE, base, list)
ForAll(F(_, _), base, S) ==
  FoldSet(LAMBDA e, acc : CHOOSE r \in {F(v, e) : v \in {acc}} : TRUE, base, S)

NoSplits == [pending |-> <<>>, inprog |-> {}, ok |-> TRUE]

\* pg_t::get_parent: the number without its highest bit.
get_parent(p) == p - Max({b \in {1, 2, 4} : b <= p})

\* The group that holds p's objects when there are n groups (raw_pg_to_pg).
Ancestor(p, n) == LET up[q \in Pg] == IF q < n THEN q ELSE up[get_parent(q)] IN up[p]

\* pg_t::is_split: the groups that p gives up objects to when pg_num grows.
is_split(p, old, new) == {c \in old..(new - 1) : old > 0 /\ Ancestor(c, old) = p}

_start_split(sp, parent, children) ==
  [sp EXCEPT !.ok = @ /\ children \cap (DOMAIN sp.pending \cup sp.inprog) = {},
             !.pending = [c \in children |-> parent] @@ @]

mark_split_in_progress(sp, parent, children) ==
  [pending |-> [c \in DOMAIN sp.pending \ children |-> sp.pending[c]],
   inprog |-> sp.inprog \cup children,
   ok |-> /\ sp.ok
          /\ \A c \in children : /\ c \in DOMAIN sp.pending \ sp.inprog
                                 /\ sp.pending[c] = parent]

\* The children of parent that are pending, with theirs.
PendingUnder(sp, parent) ==
  LET Kids(S) == {c \in DOMAIN sp.pending : sp.pending[c] \in S}
      all[n \in 0..Cardinality(Pg)] ==
        IF n = 0 THEN Kids({parent}) ELSE all[n - 1] \cup Kids(all[n - 1])
  IN  all[Cardinality(Pg)]

cancel_pending_splits_for_parent(sp, parent) ==
  LET gone == PendingUnder(sp, parent)
  IN  [sp EXCEPT !.pending = [c \in DOMAIN @ \ gone |-> @[c]],
                 !.ok = @ /\ gone \cap sp.inprog = {}]

\* frommap and tomap by their epochs; num gives the pg_num of each epoch kept and
\* its domain the epochs kept, so that try_get_map finds no other.
init_splits_between(sp, p, num, from, to) ==
  LET epochs == SetToSortSeq(DOMAIN num \cap (from + 1)..to, <)
      Walk(st, e) ==
        LET kids == [q \in st.pgs |-> is_split(q, num[st.cur], num[e])]
        IN  [sp |-> ForAll(LAMBDA s, q : _start_split(s, q, kids[q]), st.sp, st.pgs),
             pgs |-> st.pgs \cup UNION {kids[q] : q \in st.pgs}, cur |-> e]
  IN  IF num[to] > 0 /\ is_split(p, num[from], num[to]) # {}
      THEN InTurn(Walk, [sp |-> sp, pgs |-> {p}, cur |-> from], epochs).sp
      ELSE sp

\* The mutant: the children being split already are not looked at.
expand_pg_num_pending(sp, old, new) ==
  IF new = 0 THEN [sp EXCEPT !.inprog = {}, !.pending = <<>>]
  ELSE ForAll(LAMBDA s, p : IF p < old THEN _start_split(s, p, is_split(p, old, new)) ELSE s,
               sp, DOMAIN sp.pending)

expand_pg_num(sp, old, new) ==
  IF new = 0 THEN [sp EXCEPT !.inprog = {}, !.pending = <<>>]
  ELSE ForAll(LAMBDA s, p : IF p < old THEN _start_split(s, p, is_split(p, old, new))
                             ELSE [s EXCEPT !.ok = @ /\ p < new],
               sp, sp.inprog \cup DOMAIN sp.pending)

splitting(sp, p) == p \in sp.inprog \cup DOMAIN sp.pending

complete_split(sp, p) ==
  [sp EXCEPT !.ok = @ /\ p \in sp.inprog \ DOMAIN sp.pending, !.inprog = @ \ {p}]
=============================================================================
