------------------------------ MODULE NodeReach -----------------------------
(* How a client node stays reachable and meshed: the standing reservation  *)
(* on the master relay (reservationLoop of src/node/node.go), the donor    *)
(* self-listing that follows it (control.go, reprovideLoop), the redials of*)
(* warm peers (control.go), the providers it dials for content and the     *)
(* direct edges to other clients (mesh.go).                                *)
EXTENDS Naturals, FiniteSets

CONSTANTS
  Peers,      \* other clients that listed themselves at the donor rendezvous
  LinkRank,   \* meshLinkRank of each: 0 LAN, 1 public, 2 circuit only
  Gone,       \* peers whose record outlived them: a dial never succeeds
  HopOf,      \* the relay a peer's circuit address names, or the peer itself
  TargetK,    \* meshTargetK
  MaxFaults,  \* bound on lost links, master restarts and refused reservations
  MaxFlaps    \* bound on AutoNAT verdicts

ASSUME ReachAssumption ==
  /\ LinkRank \in [Peers -> 0..2] /\ Gone \subseteq Peers /\ TargetK \in Nat
  /\ HopOf \in [Peers -> Peers]

VARIABLES
  verdict,   \* control.reachable
  master,    \* the master runs
  linked,    \* we hold a connection to it
  reserved,  \* it holds a reservation of ours
  held,      \* reservationHeld: we advertise the circuit path through it
  turn,      \* where reservationLoop is
  advert,    \* the DHT lists us at the donor rendezvous
  adQueued, adDone,  \* the rendezvous is in provideQ, in provDedup
  listed,    \* peers the rendezvous lookup returns
  edges,     \* connectedness of each peer
  warm,      \* control.warm, the master aside
  provs,     \* fwd.provs: providers met by DialProviders
  strain     \* bounds used

reachVars == <<verdict, master, linked, reserved, held, turn, advert, adQueued, adDone,
               listed, edges, warm, provs, strain>>
loopVars == <<linked, reserved, held, turn>>
adVars == <<advert, adQueued, adDone>>
meshVars == <<listed, edges, warm, provs>>

ReachInit ==
  /\ verdict = "unknown" /\ master = TRUE /\ linked = FALSE /\ reserved = FALSE
  /\ held = FALSE /\ turn = "dial" /\ advert = FALSE /\ adQueued = FALSE /\ adDone = FALSE
  /\ listed = Peers /\ edges = [p \in Peers |-> "none"] /\ warm = {} /\ provs = {}
  /\ strain = [faults |-> 0, flaps |-> 0]

(* selfDialable: public, or some advertised address runs over a circuit:   *)
(* AutoRelay surfaces one while private, the AddrsFactory while held.      *)
SelfDialable(v, h, r) == v = "public" \/ h \/ (v = "private" /\ r)
Dialable == SelfDialable(verdict, held, reserved)

Fault == strain.faults < MaxFaults /\ strain' = [strain EXCEPT !.faults = @ + 1]

(* One dial: a direct link, a relayed one while the hole punch is pending, *)
(* or nothing.                                                             *)
Outcome(p) == IF p \in Gone THEN {edges[p]}
              ELSE IF LinkRank[p] = 2 THEN {edges[p], "limited", "connected"}
              ELSE {edges[p], "connected"}

-----------------------------------------------------------------------------
(* reservationLoop: dial when the connection is gone, reserve, rest until  *)
(* the renewal; a failure drops held and retries after a wait.             *)
LoopDial ==
  /\ turn = "dial"
  /\ \/ linked /\ turn' = "reserve" /\ UNCHANGED <<linked, held, strain>>
     \/ ~linked /\ master /\ linked' = TRUE /\ turn' = "reserve" /\ UNCHANGED <<held, strain>>
     \/ ~linked /\ (master => Fault) /\ (~master => UNCHANGED strain)
        /\ held' = FALSE /\ turn' = "rest" /\ UNCHANGED linked
  /\ UNCHANGED <<verdict, master, reserved>> /\ UNCHANGED adVars /\ UNCHANGED meshVars

LoopReserve ==
  /\ turn = "reserve"
  /\ \/ linked /\ reserved' = TRUE /\ held' = TRUE /\ UNCHANGED strain
     \/ (linked => Fault) /\ (~linked => UNCHANGED strain)
        /\ held' = FALSE /\ UNCHANGED reserved
  /\ turn' = "rest"
  /\ UNCHANGED <<verdict, master, linked>> /\ UNCHANGED adVars /\ UNCHANGED meshVars

LoopRest ==
  /\ turn = "rest" /\ turn' = "dial"
  /\ UNCHANGED <<verdict, master, linked, reserved, held, strain>>
  /\ UNCHANGED adVars /\ UNCHANGED meshVars

(* A relay forgets a reservation with its connection.                      *)
LinkLost ==
  /\ linked /\ Fault /\ linked' = FALSE /\ reserved' = FALSE
  /\ UNCHANGED <<verdict, master, held, turn>> /\ UNCHANGED adVars /\ UNCHANGED meshVars

MasterStops ==
  /\ master /\ Fault /\ master' = FALSE /\ linked' = FALSE /\ reserved' = FALSE
  /\ UNCHANGED <<verdict, held, turn>> /\ UNCHANGED adVars /\ UNCHANGED meshVars

MasterStarts ==
  /\ ~master /\ master' = TRUE
  /\ UNCHANGED <<verdict, strain>> /\ UNCHANGED <<loopVars, adVars, meshVars>>

(* keepaliveLoop redials the master and every warm peer that dropped.      *)
KeepMaster ==
  /\ master /\ ~linked /\ linked' = TRUE
  /\ UNCHANGED <<verdict, master, reserved, held, turn, strain>>
  /\ UNCHANGED adVars /\ UNCHANGED meshVars

KeepWarm(p) ==
  /\ p \in warm /\ edges[p] # "connected"
  /\ \E e \in Outcome(p) : edges' = [edges EXCEPT ![p] = e]
  /\ UNCHANGED <<verdict, master, listed, warm, provs, strain>>
  /\ UNCHANGED loopVars /\ UNCHANGED adVars

(* control.start: an AutoNAT verdict, or a change of our addresses: a      *)
(* client that can be dialed queues the donor rendezvous.                  *)
Verdict(v) ==
  /\ strain.flaps < MaxFlaps /\ v # verdict /\ verdict' = v
  /\ strain' = [strain EXCEPT !.flaps = @ + 1]
  /\ adQueued' = (adQueued \/ SelfDialable(v, held, reserved))
  /\ UNCHANGED <<master, advert, adDone>> /\ UNCHANGED loopVars /\ UNCHANGED meshVars

AddressesUpdated ==
  /\ Dialable /\ adQueued' = TRUE
  /\ UNCHANGED <<verdict, master, advert, adDone, strain>>
  /\ UNCHANGED loopVars /\ UNCHANGED meshVars

(* provideWorker takes it from the queue, once per process: a success      *)
(* enters the dedup set.                                                   *)
ProvideAd ==
  /\ adQueued /\ adQueued' = FALSE /\ adDone' = TRUE /\ advert' = (advert \/ ~adDone)
  /\ UNCHANGED <<verdict, master, strain>> /\ UNCHANGED loopVars /\ UNCHANGED meshVars

(* The reprovide sweep refreshes it while the node can be dialed.          *)
SweepAd ==
  /\ Dialable /\ advert' = TRUE
  /\ UNCHANGED <<verdict, master, adQueued, adDone, strain>>
  /\ UNCHANGED loopVars /\ UNCHANGED meshVars

AdExpires ==
  /\ advert /\ advert' = FALSE
  /\ UNCHANGED <<verdict, master, adQueued, adDone, strain>>
  /\ UNCHANGED loopVars /\ UNCHANGED meshVars

-----------------------------------------------------------------------------
(* meshDirectEdges: only a direct link can be grafted.                     *)
MeshAnyEdges == {p \in Peers : edges[p] # "none"}  \* relayed edges count as direct
MeshDirectEdges == {p \in Peers : edges[p] = "connected"}

(* meshDialCandidates: listed peers without a direct edge, relayed ones    *)
(* included, the cheapest links first; the sweep dials the shortfall.      *)
MeshDialCandidates == {p \in listed : edges[p] # "connected"}
Picks(need) ==
  {s \in SUBSET MeshDialCandidates :
     /\ \/ Cardinality(s) = need
        \/ s = MeshDialCandidates /\ Cardinality(s) < need
     /\ \A p \in s, q \in MeshDialCandidates \ s : LinkRank[p] <= LinkRank[q]}

MeshSweep ==
  /\ Cardinality(MeshDirectEdges) < TargetK
  /\ \E s \in Picks(TargetK - Cardinality(MeshDirectEdges)) :
       \E e \in [s -> {"none", "limited", "connected"}] :
         /\ \A p \in s : e[p] \in Outcome(p)
         /\ edges' = [p \in Peers |-> IF p \in s THEN e[p] ELSE edges[p]]
  /\ UNCHANGED <<verdict, master, listed, warm, provs, strain>>
  /\ UNCHANGED loopVars /\ UNCHANGED adVars

(* DialProviders meets a provider of wanted content: the relay its address *)
(* names is kept warm, the peer is remembered for forwarding and dialed; a *)
(* new connection is kept warm.                                            *)
DialProvider(p) ==
  /\ provs' = provs \cup {p}
  /\ \/ edges[p] = "connected" /\ warm' = warm \cup ({HopOf[p]} \ {p}) /\ UNCHANGED edges
     \/ /\ edges[p] # "connected"
        /\ \E e \in Outcome(p) :
             /\ edges' = [edges EXCEPT ![p] = e]
             /\ warm' = warm \cup ({HopOf[p]} \ {p}) \cup (IF e = edges[p] THEN {} ELSE {p})
  /\ UNCHANGED <<verdict, master, listed, strain>> /\ UNCHANGED loopVars /\ UNCHANGED adVars

(* External: a link to a peer drops; the record of a peer that is gone     *)
(* expires.                                                                *)
EdgeLost(p) ==
  /\ edges[p] # "none" /\ Fault /\ edges' = [edges EXCEPT ![p] = "none"]
  /\ UNCHANGED <<verdict, master, listed, warm, provs>> /\ UNCHANGED loopVars /\ UNCHANGED adVars

RecordGone ==
  /\ listed \cap Gone # {} /\ listed' = listed \ Gone
  /\ UNCHANGED <<verdict, master, edges, warm, provs, strain>>
  /\ UNCHANGED loopVars /\ UNCHANGED adVars

ReserveTurn == LoopDial \/ LoopReserve \/ LoopRest

ReachNext ==
  \/ ReserveTurn \/ LinkLost \/ MasterStops \/ MasterStarts \/ KeepMaster
  \/ \E v \in {"unknown", "public", "private"} : Verdict(v)
  \/ AddressesUpdated \/ ProvideAd \/ SweepAd \/ AdExpires
  \/ MeshSweep \/ RecordGone
  \/ \E p \in Peers : KeepWarm(p) \/ DialProvider(p) \/ EdgeLost(p)

(* Every loop keeps running, a departed peer's record expires, the master  *)
(* comes back, and dials do not fail for ever: a sweep that is tried again *)
(* and again once reaches everyone it picked who is there.                 *)
MeshReaches == MeshSweep /\ \E p \in Peers \ Gone :
                 edges[p] # "connected" /\ edges'[p] = "connected"

ReachFairness ==
  /\ WF_reachVars(ReserveTurn) /\ WF_reachVars(MasterStarts) /\ WF_reachVars(RecordGone)
  /\ WF_reachVars(SweepAd) /\ SF_reachVars(MeshReaches)

ReachSpec == ReachInit /\ [][ReachNext]_reachVars /\ ReachFairness

-----------------------------------------------------------------------------
(* A node that lost the master, its link or its reservation gets all three *)
(* back and advertises the route; one that can be dialed is listed as a    *)
(* donor again and again; and the mesh reaches its target, or everyone who *)
(* is there: a relayed link must not count as an edge, nor a departed peer *)
(* keep the dials to itself.                                               *)
ReachReturns ==
  /\ <>[](held /\ reserved /\ linked)
  /\ []<>advert
  /\ <>[](\/ Cardinality({p \in Peers : edges[p] = "connected"}) >= TargetK
          \/ \A p \in Peers \ Gone : edges[p] = "connected")

=============================================================================
