------------------------------ MODULE MCNetwork ------------------------------
(* The node, the browser's node and the mesh around them, checked in one   *)
(* run: the suite explores the machines of its modules one at a time, the  *)
(* others at rest, so its state space is the sum of theirs.  Fairness is   *)
(* each module's own; Machines says which are explored.                    *)
EXTENDS NodeHold, NodeReach, Forward, BlockFetch, Disclosure, WebNode, WebMesh, TLC

CONSTANTS Machines,
          lan, pub, nat,           \* clients of the mesh
          asker, donor, holder, liar,  \* nodes that forward
          full, part               \* bitswap peers of a browser

\* NodeReach: a departed LAN peer, a public one, and one behind the public one's relay.
MCLinkRank == lan :> 0 @@ pub :> 1 @@ nat :> 2
MCHopOf == lan :> lan @@ pub :> pub @@ nat :> pub
\* Forward: the asker reaches the holder through the donor, or when its relayed link opens.
MCOrigin == asker :> {} @@ donor :> {} @@ holder :> Blocks @@ liar :> {}
MCWires == {{asker, donor}, {donor, holder}, {asker, liar}, {asker, holder}}
MCRelayed == {{asker, holder}}
\* BlockFetch: one donor holds the first block only.
MCCarries == part :> {1} @@ full :> {1, 2}
\* Disclosure: bounds that make each case happen.
MCDiscPlans ==
  {[edits |-> 1, faults |-> 1, asks |-> 0, beacons |-> 0, ticks |-> 1],
   [edits |-> 1, faults |-> 0, asks |-> 3, beacons |-> 0, ticks |-> 0],
   [edits |-> 1, faults |-> 0, asks |-> 0, beacons |-> 2, ticks |-> 2]}
\* WebNode, WebMesh: not every bound is at its largest at once.
Web(restarts, drops, storage) ==
  [restarts |-> restarts, drops |-> drops, faults |-> 3 - drops, visits |-> 1, storage |-> storage]
MCNodeBounds == {Web(2, 1, TRUE), Web(1, 2, FALSE), Web(1, 2, TRUE)}
Mesh(faults, warms, plays, meets) ==
  [faults |-> faults, warms |-> warms, plays |-> plays, meets |-> meets]
MCMeshBounds == {Mesh(2, 0, 0, 0), Mesh(1, 1, 0, 0), Mesh(1, 0, 2, 1), Mesh(1, 0, 0, 2)}

VARIABLE machine
netVars == <<machine, holdVars, reachVars, fwdVars, blockVars, discVars,
             nodeVars, joinVars>>

Some(S) == CHOOSE x \in S : TRUE
HoldIdle == HoldInit /\ legacy = <<>>
ReachIdle ==  \* the node that has what ReachReturns asks for
  /\ verdict = "public" /\ master = TRUE /\ linked = TRUE /\ reserved = TRUE
  /\ held = TRUE /\ turn = "rest" /\ advert = TRUE /\ adQueued = FALSE /\ adDone = TRUE
  /\ listed = Peers /\ edges = [p \in Peers |-> "connected"] /\ warm = {} /\ provs = {}
  /\ strain = [faults |-> 0, flaps |-> 0]
BlockIdle == BlockInit /\ peers = {}
DiscIdle == DiscInit /\ left = Some(DiscPlans)
NodeIdle == NodeInit /\ nodeLeft = Some(NodeBounds)
MeshIdle ==  \* nobody is there to be met
  MeshInit /\ meshLeft = Some(MeshBounds) /\ around = {}

Init ==
  /\ machine \in Machines
  /\ IF machine = "hold" THEN HoldInit ELSE HoldIdle
  /\ IF machine = "reach" THEN ReachInit ELSE ReachIdle
  /\ ForwardInit
  /\ IF machine = "block" THEN BlockInit ELSE BlockIdle
  /\ IF machine = "disclosure" THEN DiscInit ELSE DiscIdle
  /\ IF machine = "node" THEN NodeInit ELSE NodeIdle
  /\ IF machine = "mesh" THEN MeshInit ELSE MeshIdle

(* A step of one machine leaves the others as they are.                    *)
Alone(m) ==
  /\ UNCHANGED machine
  /\ m # "hold" => UNCHANGED holdVars
  /\ m # "reach" => UNCHANGED reachVars
  /\ m # "forward" => UNCHANGED fwdVars
  /\ m # "block" => UNCHANGED blockVars
  /\ m # "disclosure" => UNCHANGED discVars
  /\ m # "node" => UNCHANGED nodeVars
  /\ m # "mesh" => UNCHANGED joinVars

Next ==
  \/ machine = "hold" /\ HoldNext /\ Alone("hold")
  \/ machine = "reach" /\ ReachNext /\ Alone("reach")
  \/ machine = "forward" /\ ForwardNext /\ Alone("forward")
  \/ machine = "block" /\ BlockNext /\ Alone("block")
  \/ machine = "disclosure" /\ DiscNext /\ Alone("disclosure")
  \/ machine = "node" /\ NodeNext /\ Alone("node")
  \/ machine = "mesh" /\ MeshNext /\ Alone("mesh")

Fairness ==
  /\ WF_holdVars(machine = "hold" /\ HoldWork)
  /\ WF_holdVars(machine = "hold" /\ DhtReturns)
  /\ WF_reachVars(machine = "reach" /\ ReserveTurn)
  /\ WF_reachVars(machine = "reach" /\ MasterStarts)
  /\ WF_reachVars(machine = "reach" /\ RecordGone)
  /\ WF_reachVars(machine = "reach" /\ SweepAd)
  /\ SF_reachVars(machine = "reach" /\ MeshReaches)
  /\ \A b \in Wanted : WF_blockVars(machine = "block" /\ Progress(b))
  /\ WF_discVars(machine = "disclosure" /\ DiscWork)
  /\ WF_nodeVars(machine = "node" /\ Supervises)
  /\ WF_nodeVars(machine = "node" /\ Boots)
  /\ WF_nodeVars(machine = "node" /\ SeedStarts)
  /\ WF_nodeVars(machine = "node" /\ SeedReaps)
  /\ WF_nodeVars(machine = "node" /\ EdgePolls)
  /\ WF_nodeVars(machine = "node" /\ CooldownEnds)
  /\ WF_joinVars(machine = "mesh" /\ SweepStarts)
  /\ WF_joinVars(machine = "mesh" /\ SweepEnds)
  /\ \A d \in Neighbours : SF_joinVars(machine = "mesh" /\ SweepFinds(d))
  /\ \A p \in Dialers : WF_joinVars(machine = "mesh" /\ DialStep(p))

Spec == Init /\ [][Next]_netVars /\ Fairness
=============================================================================
