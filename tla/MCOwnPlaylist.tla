--------------------------- MODULE MCOwnPlaylist ---------------------------
(***************************************************************************)
(* Small instances of OwnPlaylist: two contents to save and the weathers a *)
(* .cfg chooses from: calm with one command at a time, a storm with two,   *)
(* and the two in which a single accident refutes a claim.                 *)
(***************************************************************************)
EXTENDS OwnPlaylist, TLC

CONSTANTS d1, d2, c1, c2

MCDocs == {d1, d2}

\* The two contents are interchangeable.
Contents == Permutations(MCDocs)

Weather(fails, renews, others, slots, max) ==
  [fails |-> fails, renews |-> renews, crashes |-> others, evicts |-> others,
   preempts |-> others, slots |-> slots, max |-> max]
MCWeathers == {Weather(FALSE, FALSE, FALSE, {c1}, 8), Weather(TRUE, TRUE, TRUE, {c1, c2}, 4)}
MCLostReplies == {Weather(TRUE, FALSE, FALSE, {c1}, 5)}
MCRenewals == {Weather(FALSE, TRUE, FALSE, {c1}, 5)}
=============================================================================
