------------------------------- MODULE Fence -------------------------------
(***************************************************************************)
(* The fence that holds playback until samples are resident, as operators. *)
(*                                                                         *)
(*   src/packages/ui/src/audio/fence.ts                                    *)
(*                                                                         *)
(* cps is the plan's checkpoint table sorted by order, a sequence of       *)
(* [order, samples]; got is the set of resident sample slots.  The         *)
(* timeline is measured in orders: the map from orders to seconds is       *)
(* monotonic.                                                              *)
(***************************************************************************)
EXTENDS Integers, Sequences, FiniteSets, FiniteSetsExt

\* new Fence(plan): lookahead = 1
Lookahead == 1

\* floorIdx: the last checkpoint at or before order, 0 if there is none.
FloorIdx(cps, order) == Cardinality({k \in DOMAIN cps : cps[k].order <= order})

UnionRange(cps, first, last) ==
  UNION {cps[k].samples : k \in DOMAIN cps \cap first..last}

\* Only the checkpoint the order is in.
RequiredHere(cps, order) ==
  LET i == FloorIdx(cps, order) IN UnionRange(cps, i, i)

\* requiredAt: its checkpoint and the next, which one quantum may cross into.
RequiredAt(cps, order) ==
  LET i == FloorIdx(cps, order) IN UnionRange(cps, i, i + 1)

\* ready: a stalled fence also wants the lookahead.
Ready(cps, got, stalled, order) ==
  LET i == FloorIdx(cps, order)
  IN \/ RequiredAt(cps, order) = {}
     \/ ~stalled /\ RequiredAt(cps, order) \subseteq got
     \/ UnionRange(cps, i, i + 1 + Lookahead) \subseteq got

\* Whether ready leaves the fence stalled; nothing to gate changes nothing.
StalledAfter(cps, got, stalled, order) ==
  IF RequiredAt(cps, order) = {} THEN stalled ELSE ~Ready(cps, got, stalled, order)

\* playableSeconds without the test of the opening.
PlayableFromCheckpoints(cps, got, length) ==
  LET late == {k \in DOMAIN cps : ~(RequiredAt(cps, cps[k].order) \subseteq got)}
  IN IF late = {} THEN length ELSE cps[Min(late)].order

\* playableSeconds: where playback will first stall, or the song's length.
Playable(cps, got, length) ==
  LET late == {k \in DOMAIN cps : ~(RequiredAt(cps, cps[k].order) \subseteq got)}
  IN IF ~(RequiredAt(cps, 0) \subseteq got) THEN 0
     ELSE IF late = {} THEN length ELSE cps[Min(late)].order

\* The plan's promise: what sounds from one checkpoint to the next.
Audible(cps, order) == RequiredHere(cps, order)
=============================================================================
