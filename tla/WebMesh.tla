------------------------------ MODULE WebMesh ------------------------------
(* How a browser joins the mesh (apps/web/src/lib/offload.ts): sweeps for  *)
(* donors, warm dials before a track plays, addresses tried one at a time, *)
(* and the records it puts of itself and of what it played.                *)
EXTENDS Naturals, FiniteSets

CONSTANTS
  Neighbours,     \* peers that may be found at the rendezvous or under a root
  Roots,       \* modules the user plays
  Addresses,   \* addresses tried per peer, the last the one that can be reached
  Dials,       \* dials a walk may start (DONOR_MAX_DIALS, MAX_DIALS)
  MeshBounds   \* faults, warm dials, plays and meetings a run may contain

ASSUME WebMeshAssumption == Addresses \in Nat \ {0} /\ Dials \in Nat \ {0}

VARIABLES
  around,      \* peers that are running
  meshed,      \* peers we hold a connection to
  dialing,     \* dialing[<<d, path>>]: address in turn, and whether a dial is under way
  walk,        \* the walk of the rendezvous: under way, dials left
  reservation, \* a relay makes us dialable
  member,      \* our own record stands at the rendezvous
  announced,   \* Provider.announced
  putting,     \* roots whose record is on its way
  puts,        \* puts[r]: records of r put or on their way (history)
  meshLeft
joinVars == <<around, meshed, dialing, walk, reservation, member, announced, putting,
              puts, meshLeft>>

Paths == {"sweep", "warm"}
Dialers == Neighbours \X Paths
NoDial == [turn |-> 0, open |-> FALSE]

MeshInit ==
  /\ around \in SUBSET Neighbours /\ meshed = {} /\ reservation = FALSE /\ member = FALSE
  /\ dialing = [p \in Dialers |-> NoDial]
  /\ walk = [on |-> TRUE, left |-> Dials]
  /\ announced = {} /\ putting = {} /\ puts = [r \in Roots |-> 0]
  /\ meshLeft \in MeshBounds

Uses(k) == meshLeft[k] > 0 /\ meshLeft' = [meshLeft EXCEPT ![k] = @ - 1]

(* sweep: on an interval, it puts our record if we can be dialed and walks *)
(* the rendezvous for donors.                                              *)
SweepResumes ==  \* the count of dials is the last walk's
  /\ ~walk.on
  /\ walk' = [walk EXCEPT !.on = TRUE] /\ member' \in {member, member \/ reservation}
  /\ UNCHANGED <<around, meshed, dialing, reservation, announced, putting, puts, meshLeft>>
SweepStarts ==
  /\ ~walk.on
  /\ walk' = [on |-> TRUE, left |-> Dials] /\ member' \in {member, member \/ reservation}
  /\ UNCHANGED <<around, meshed, dialing, reservation, announced, putting, puts, meshLeft>>

(* connectDonorsOnce: the walk yields a donor, running or not; one that is *)
(* connected is passed over, any other is dialed beside the walk.          *)
SweepFinds(d) ==
  /\ walk.on /\ walk.left > 0 /\ d \notin meshed /\ dialing[<<d, "sweep">>] = NoDial
  /\ walk' = [walk EXCEPT !.left = @ - 1]
  /\ dialing' = [dialing EXCEPT ![<<d, "sweep">>].turn = 1]
  /\ UNCHANGED <<around, meshed, reservation, member, announced, putting, puts, meshLeft>>

SweepEnds ==
  /\ walk.on /\ walk' = [walk EXCEPT !.on = FALSE]
  /\ UNCHANGED <<around, meshed, dialing, reservation, member, announced, putting, puts,
                 meshLeft>>

(* warmRoot: the providers of a root are dialed, connected or not.         *)
WarmFinds(D) ==
  /\ Cardinality(D) <= Dials /\ \A d \in D : dialing[<<d, "warm">>] = NoDial
  /\ Uses("warms")
  /\ dialing' = [p \in Dialers |-> IF p[1] \in D /\ p[2] = "warm"
                                   THEN [turn |-> 1, open |-> FALSE] ELSE dialing[p]]
  /\ UNCHANGED <<around, meshed, walk, reservation, member, announced, putting, puts>>

(* dialPeerAddrs: a peer connected by now, on whatever path, is done; else *)
(* the next address is dialed ...                                          *)
DialBegins(p) ==
  /\ dialing[p].turn > 0 /\ ~dialing[p].open
  /\ dialing' = [dialing EXCEPT ![p] = IF p[1] \in meshed THEN NoDial
                                       ELSE [@ EXCEPT !.open = TRUE]]
  /\ UNCHANGED <<around, meshed, walk, reservation, member, announced, putting, puts, meshLeft>>

(* ... and answers, or fails and hangs up on the peer, which also drops a  *)
(* connection that came about meanwhile.                                   *)
AddressWorks(p) == p[1] \in around /\ dialing[p].turn = Addresses
DialWorks(p) ==
  /\ dialing[p].open /\ AddressWorks(p)
  /\ meshed' = meshed \cup {p[1]} /\ dialing' = [dialing EXCEPT ![p] = NoDial]
  /\ UNCHANGED <<around, walk, reservation, member, announced, putting, puts, meshLeft>>
HangsUp(p) ==
  /\ dialing[p].open /\ meshed' = meshed \ {p[1]}
  /\ dialing' = [dialing EXCEPT ![p] = IF @.turn = Addresses THEN NoDial
                                       ELSE [turn |-> @.turn + 1, open |-> FALSE]]
  /\ UNCHANGED <<around, walk, reservation, member, announced, putting, puts>>
DialFails(p) == ~AddressWorks(p) /\ HangsUp(p) /\ UNCHANGED meshLeft
DialTimesOut(p) == AddressWorks(p) /\ Uses("faults") /\ HangsUp(p)
DialStep(p) == DialBegins(p) \/ DialWorks(p) \/ DialFails(p)

(* Provider.provide, once a module has been fetched: one record per root   *)
(* and session, and none while nobody could dial us.                       *)
Provides(r) ==
  /\ r \notin announced /\ reservation /\ Uses("plays")
  /\ announced' = announced \cup {r} /\ putting' = putting \cup {r}
  /\ puts' = [puts EXCEPT ![r] = @ + 1]
  /\ UNCHANGED <<around, meshed, dialing, walk, reservation, member>>
PutEnds(r, ok) ==
  /\ r \in putting /\ putting' = putting \ {r}
  /\ IF ok THEN UNCHANGED <<puts, meshLeft>> /\ announced' = announced \cup {r}
     ELSE /\ Uses("faults") /\ announced' = announced \ {r}
          /\ puts' = [puts EXCEPT ![r] = @ - 1]
  /\ UNCHANGED <<around, meshed, dialing, walk, reservation, member>>

(* The world: reservations come and go, a peer dials us, leaves or returns.*)
Reserves ==
  /\ Uses("meets") /\ reservation' = ~reservation
  /\ UNCHANGED <<around, meshed, dialing, walk, member, announced, putting, puts>>
DialedBy(d) ==
  /\ member /\ reservation /\ d \in around \ meshed /\ Uses("meets") /\ meshed' = meshed \cup {d}
  /\ UNCHANGED <<around, dialing, walk, reservation, member, announced, putting, puts>>
Leaves(d, gone) ==
  /\ d \in around /\ Uses("faults") /\ meshed' = meshed \ {d}
  /\ around' = IF gone THEN around \ {d} ELSE around
  /\ UNCHANGED <<dialing, walk, reservation, member, announced, putting, puts>>
Returns(d) ==
  /\ d \notin around /\ Uses("faults") /\ around' = around \cup {d}
  /\ UNCHANGED <<meshed, dialing, walk, reservation, member, announced, putting, puts>>

MeshNext ==
  \/ SweepStarts \/ SweepEnds \/ Reserves
  \/ \E d \in Neighbours : SweepFinds(d) \/ DialedBy(d) \/ Returns(d)
                        \/ \E gone \in BOOLEAN : Leaves(d, gone)
  \/ \E D \in SUBSET Neighbours \ {{}} : WarmFinds(D)
  \/ \E p \in Dialers : DialStep(p) \/ DialTimesOut(p)
  \/ \E r \in Roots : Provides(r) \/ \E ok \in BOOLEAN : PutEnds(r, ok)

(* The interval sweeps and a walk that is cut short is taken up again; a   *)
(* donor that keeps its record is not left behind by every walk; and a     *)
(* dial ends, by its timeout if not before.                                *)
MeshFairness ==
  /\ WF_joinVars(SweepStarts) /\ WF_joinVars(SweepEnds)
  /\ \A d \in Neighbours : SF_joinVars(SweepFinds(d))
  /\ \A p \in Dialers : WF_joinVars(DialStep(p))
MeshSpec == MeshInit /\ [][MeshNext]_joinVars /\ MeshFairness

-----------------------------------------------------------------------------
(* A donor that stays is met and stays met, once faults are over: a failed *)
(* warm dial that hangs up on it, or a walk that spends its dials on peers *)
(* long gone, only delays that (connectDonorsOnce, dialPeerAddrs).  And the*)
(* record of a root is put once, however plays overlap with the put under  *)
(* way (Provider.provide).                                                 *)
PutOnce == \A r \in Roots : puts[r] <= 1

FriendsMet ==
  /\ \A d \in Neighbours : <>[](d \in around) => <>[](d \in meshed)
  /\ []PutOnce
=============================================================================
