------------------------------- MODULE MCBake -------------------------------
(* The catalog from the bake to its readers, checked in one run: the suite *)
(* explores the machines of SeekTables, Repack, Ingest and CatalogRecord   *)
(* one at a time, the others at rest, so its state space is the sum of     *)
(* theirs.  Fairness is Ingest's own.                                      *)
EXTENDS SeekTables, Repack, Ingest, CatalogRecord

CONSTANTS Left, Twin1, Twin2, Dud  \* sources; the twins hold the same file, the dud is no module

MCKeymap == <<[k \in Keys |-> IF k = "lo" THEN 1 ELSE 2], [k \in Keys |-> 3]>>
MCOffsetOf == <<10, 20, 30>>

\* Sample headers: lengths, a stereo one, shared and overlapping PCM, packed samples.
Raw(length, pointer) ==
  [length |-> length, channels |-> 1, pointer |-> pointer, packed |-> FALSE, span |-> 0]
Packed(length, pointer, span) ==
  [length |-> length, channels |-> 1, pointer |-> pointer, packed |-> TRUE, span |-> span]
MCHeaders ==
  {[format |-> "mod", header |-> <<Raw(1, 0), Raw(3, 0)>>],
   [format |-> "mod", header |-> <<Raw(2, 0), Raw(4, 0)>>],
   [format |-> "xm",  header |-> <<Raw(3, 0), Raw(2, 0)>>],
   [format |-> "it",  header |-> <<Raw(2, 3), Raw(2, 1)>>],
   [format |-> "s3m", header |-> <<Raw(2, 2), Raw(1, 2)>>],
   [format |-> "it",  header |-> <<Raw(2, 1), Raw(2, 2)>>],
   [format |-> "it",  header |-> <<[Raw(4, 1) EXCEPT !.channels = 2]>>],
   [format |-> "it",  header |-> <<Packed(3, 1, 1), Raw(2, 3)>>],
   [format |-> "it",  header |-> <<Packed(2, 2, 2), Packed(1, 1, 1)>>],
   [format |-> "mo3", header |-> <<>>]}
MCFiles == [1..4 -> Bytes]
MCTables ==
  {[checkpoints |-> <<{1}, {2, 3}>>, segment0 |-> {1}],
   [checkpoints |-> <<{}, {1, 2, 3}>>, segment0 |-> {}],
   [checkpoints |-> <<>>, segment0 |-> {1, 2}]}

MCFileOf == [s \in Sources |-> IF s = Left THEN "one" ELSE IF s = Dud THEN "noise" ELSE "two"]

VARIABLE machine
bakeVars == <<machine, song, repackVars, ingestVars, catalogVars>>

SeekIdle == song = [format |-> "mod", orders |-> <<>>, pats |-> [p \in Patterns |-> <<>>]]
RepackIdle ==
  /\ module = [format |-> "mo3", header |-> <<>>, data |-> <<>>, dump |-> <<>>,
               tables |-> [checkpoints |-> <<>>, segment0 |-> {}]]
  /\ dag = NoDag /\ served = Honest /\ rebuilt = Nothing
IngestIdle == IngestInit /\ version = CHOOSE v \in Versions : TRUE

Init ==
  /\ machine \in {"seek", "repack", "ingest", "catalog"}
  /\ IF machine = "seek" THEN SeekInit ELSE SeekIdle
  /\ IF machine = "repack" THEN RepackInit ELSE RepackIdle
  /\ IF machine = "ingest" THEN IngestInit ELSE IngestIdle
  /\ CatalogInit

Next ==
  /\ UNCHANGED machine
  /\ \/ machine = "seek" /\ SeekNext /\ UNCHANGED <<repackVars, ingestVars, catalogVars>>
     \/ machine = "repack" /\ RepackNext /\ UNCHANGED <<song, ingestVars, catalogVars>>
     \/ machine = "ingest" /\ IngestNext /\ UNCHANGED <<song, repackVars, catalogVars>>
     \/ machine = "catalog" /\ CatalogNext /\ UNCHANGED <<song, repackVars, ingestVars>>

Spec == Init /\ [][Next]_bakeVars /\ WF_ingestVars(machine = "ingest" /\ IngestWork)
=============================================================================
