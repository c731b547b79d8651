------------------------------ MODULE MCPlayer ------------------------------
(***************************************************************************)
(* A small instance of Player: a track whose second checkpoint needs       *)
(* another sample, a track whose opening has no checkpoint of its own, and *)
(* a sample slot both tracks have.                                         *)
(***************************************************************************)
EXTENDS Player

CONSTANTS a, b

MCTracks == {a, b}

MCPlan ==
  [t \in MCTracks |->
     IF t = a THEN <<[order |-> 0, samples |-> {1}], [order |-> 1, samples |-> {2}]>>
              ELSE <<[order |-> 1, samples |-> {1}]>>]

MCLastOrder == [t \in MCTracks |-> 1]
MCSlots == [t \in MCTracks |-> IF t = a THEN {1, 2} ELSE {1}]
MCSavedQueue == <<a, b>>
=============================================================================
