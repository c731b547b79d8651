-------------------------- MODULE MCPlaylistStore --------------------------
(***************************************************************************)
(* A small instance of PlaylistStore: two entries or two units of document *)
(* fit, and three names compete for them: a foreign one with two documents *)
(* signed at one sequence number, of which the desktop refuses one, a      *)
(* foreign one with a playlist and its tombstone, and one of the user's    *)
(* own.                                                                    *)
(***************************************************************************)
EXTENDS PlaylistStore

CONSTANTS a, b, c, small, large, gone, junk

MCNames == {a, b, c}
MCDocs  == {small, large, gone, junk}

MCTombstones == {gone}
MCUnfit      == {junk}

MCDocSize == [d \in MCDocs |-> IF d = large THEN 2 ELSE 1]

MCRecord(n, s, d) == [name |-> n, seq |-> s, doc |-> d]

MCRecords ==
  {MCRecord(a, 1, small), MCRecord(a, 1, junk),
   MCRecord(b, 1, large), MCRecord(b, 2, gone), MCRecord(c, 1, small)}

\* The database starts with one row, the user's own playlist, not shared yet.
MCSavedLedger ==
  [n \in MCNames |->
     IF n # c THEN NoRow
     ELSE [rec |-> MCRecord(c, 1, small), seq |-> 0, live |-> FALSE, held |-> TRUE]]

\* A held playlist at its second number, of which the first is still about.
MCReplayed == {MCRecord(a, 1, small), MCRecord(a, 2, small)}

MCReplayedLedger ==
  [n \in MCNames |->
     IF n # a THEN NoRow
     ELSE [rec |-> MCRecord(a, 2, small), seq |-> 2, live |-> TRUE, held |-> TRUE]]
=============================================================================
