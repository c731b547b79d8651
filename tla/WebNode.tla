------------------------------- MODULE WebNode -------------------------------
(* The browser's node and what keeps it connected: apps/web/src/lib/       *)
(* node.ts, the boot in client/web.ts, the page that waits for it, and the *)
(* bootstrap edge it asks where the seed is.  The seed has a new           *)
(* certificate after every restart, the edge learns of it by polling, and  *)
(* the seed refuses a second connection of a peer whose dead one it still  *)
(* holds; the only way out of that is to reload the page.                  *)
EXTENDS Naturals

CONSTANTS
  NodeBounds  \* bounds of a behaviour: restarts, drops, faults, visits; storage or not

ASSUME WebNodeAssumption ==
  NodeBounds \subseteq [restarts : Nat, drops : Nat, faults : Nat, visits : Nat, storage : BOOLEAN]

VARIABLES
  seed,      \* is it up, its certificate, does it hold our dead connection
  edge,      \* the certificate the edge serves, 0 when it has no address
  wire,      \* our connection to the seed: none, open, or dead and not known to be
  page,      \* fetch, dial, root: booting; up; broken: an error over a node that
             \* runs; dead: an error and no node
  dialled,   \* currentCerthash
  fetched,   \* the bootstrap being dialled
  sup,       \* where the supervisor is
  rootKept,  \* the catalog root is stored
  cooldown,  \* the page reloaded itself less than the cooldown ago
  reloads,   \* history: reloads within the cooldown
  refused,   \* history: the last boot that failed got an address
  nodeLeft

nodeVars == <<seed, edge, wire, page, dialled, fetched, sup, rootKept, cooldown, reloads, refused,
              nodeLeft>>

NodeInit ==
  /\ seed = [up |-> TRUE, cert |-> 1, holds |-> FALSE] /\ edge = 1 /\ wire = "none"
  /\ page = "fetch" /\ dialled = 0 /\ fetched = 0 /\ sup = "rest" /\ rootKept = FALSE
  /\ cooldown = FALSE /\ reloads = 0 /\ refused = FALSE /\ nodeLeft \in NodeBounds

Draw(what) == nodeLeft[what] > 0 /\ nodeLeft' = [nodeLeft EXCEPT ![what] = @ - 1]

-----------------------------------------------------------------------------
(* External: the seed stops and comes back with another certificate, the   *)
(* network drops the connection without a word, and the seed lets go of a  *)
(* connection it finds dead.                                               *)
Zombie == IF wire = "open" THEN "zombie" ELSE wire

SeedStops ==
  /\ seed.up /\ Draw("restarts")
  /\ seed' = [seed EXCEPT !.up = FALSE, !.holds = FALSE] /\ wire' = Zombie
  /\ UNCHANGED <<edge, page, dialled, fetched, sup, rootKept, cooldown, reloads, refused>>

SeedStarts ==
  /\ ~seed.up /\ seed' = [seed EXCEPT !.up = TRUE, !.cert = @ + 1]
  /\ UNCHANGED <<edge, wire, page, dialled, fetched, sup, rootKept, cooldown, reloads, refused,
                 nodeLeft>>

LinkDrops ==
  /\ wire = "open" /\ Draw("drops") /\ wire' = "zombie"
  /\ seed' = [seed EXCEPT !.holds = TRUE]
  /\ UNCHANGED <<edge, page, dialled, fetched, sup, rootKept, cooldown, reloads, refused>>

SeedReaps ==
  /\ seed.holds /\ seed' = [seed EXCEPT !.holds = FALSE]
  /\ UNCHANGED <<edge, wire, page, dialled, fetched, sup, rootKept, cooldown, reloads, refused,
                 nodeLeft>>

(* refresh: the poll of the edge; a seed that has only just started may    *)
(* announce no address yet.  While it is down the old answer is served.    *)
EdgePolls ==
  /\ seed.up /\ edge # seed.cert /\ edge' = seed.cert
  /\ UNCHANGED <<seed, wire, page, dialled, fetched, sup, rootKept, cooldown, reloads, refused,
                 nodeLeft>>

EdgeHasNone ==
  /\ seed.up /\ edge # seed.cert /\ edge # 0 /\ Draw("faults") /\ edge' = 0
  /\ UNCHANGED <<seed, wire, page, dialled, fetched, sup, rootKept, cooldown, reloads, refused>>

-----------------------------------------------------------------------------
(* dial: every address of the bootstrap in turn, each within its timeout.  *)
SeedTakes(cert) == seed.up /\ cert = seed.cert /\ ~seed.holds

(* startNode: fetch the bootstrap, dial it; either failure is the page's.  *)
BootFetches ==
  /\ page = "fetch" /\ page' = "dial" /\ fetched' = edge
  /\ UNCHANGED <<seed, edge, wire, dialled, sup, rootKept, cooldown, reloads, refused, nodeLeft>>

BootFetchFails ==
  /\ page = "fetch" /\ Draw("faults") /\ page' = "dead" /\ refused' = FALSE
  /\ UNCHANGED <<seed, edge, wire, dialled, fetched, sup, rootKept, cooldown, reloads>>

BootDials ==
  /\ page = "dial"
  /\ IF SeedTakes(fetched)
     THEN /\ wire' = "open" /\ dialled' = fetched /\ UNCHANGED refused
          /\ page' = IF rootKept THEN "up" ELSE "root"
     ELSE page' = "dead" /\ refused' = (fetched # 0) /\ UNCHANGED <<wire, dialled>>
  /\ UNCHANGED <<seed, edge, fetched, sup, rootKept, cooldown, reloads, nodeLeft>>

(* WebClient.create: the catalog's root is resolved on the first visit and *)
(* taken from storage on any other.  The supervisor runs by now.           *)
BootResolves ==
  /\ page = "root" /\ wire = "open" /\ page' = "up" /\ rootKept' = TRUE
  /\ UNCHANGED <<seed, edge, wire, dialled, fetched, sup, cooldown, reloads, refused, nodeLeft>>

BootResolveFails ==
  /\ page = "root" /\ (wire = "open" => nodeLeft.faults > 0) /\ page' = "broken"
  /\ nodeLeft' = IF wire = "open" THEN [nodeLeft EXCEPT !.faults = @ - 1] ELSE nodeLeft
  /\ UNCHANGED <<seed, edge, wire, dialled, fetched, sup, rootKept, cooldown, reloads, refused>>

(* A page that goes away stops its node; whether the seed hears of it in   *)
(* time is open.  Tasks of the page are gone with it.                      *)
PageGoes(heard) ==
  /\ page' = "fetch" /\ wire' = "none" /\ sup' = "rest" /\ dialled' = 0 /\ fetched' = 0
  /\ seed' = [seed EXCEPT !.holds = seed.up /\ ~heard /\ (@ \/ wire = "open")]

UserReloads(heard) ==
  /\ Draw("visits") /\ PageGoes(heard)
  /\ UNCHANGED <<edge, rootKept, cooldown, reloads, refused>>

-----------------------------------------------------------------------------
(* The supervisor: one turn at a time, probe, fetch, then dial or reload.  *)
(* A probe that is merely slow counts as dead.                             *)
Supervised == page \in {"root", "up", "broken"}

Probes ==
  /\ Supervised /\ sup = "rest" /\ wire # "open" /\ sup' = "fetch"
  /\ UNCHANGED <<seed, edge, wire, page, dialled, fetched, rootKept, cooldown, reloads, refused,
                 nodeLeft>>

ProbeIsSlow ==
  /\ Supervised /\ sup = "rest" /\ wire = "open" /\ Draw("faults") /\ sup' = "fetch"
  /\ UNCHANGED <<seed, edge, wire, page, dialled, fetched, rootKept, cooldown, reloads, refused>>

(* Without an answer it backs off; so it does within the cooldown.         *)
SupFetchFails ==
  /\ sup = "fetch" /\ Draw("faults") /\ sup' = "rest"
  /\ UNCHANGED <<seed, edge, wire, page, dialled, fetched, rootKept, cooldown, reloads, refused>>

NewAddress == edge # 0 /\ edge # dialled
\* The last reload is not remembered.
AlwaysReloads == TRUE
CanReload == ~cooldown \/ ~nodeLeft.storage

SeesNewAddress ==
  /\ sup = "fetch" /\ NewAddress /\ sup' = "dial" /\ fetched' = edge
  /\ UNCHANGED <<seed, edge, wire, page, dialled, rootKept, cooldown, reloads, refused, nodeLeft>>

BacksOff ==
  /\ sup = "fetch" /\ ~NewAddress /\ ~CanReload /\ sup' = "rest"
  /\ UNCHANGED <<seed, edge, wire, page, dialled, fetched, rootKept, cooldown, reloads, refused,
                 nodeLeft>>

(* The same certificate, or none: the page reloads and boots again.        *)
Reloads(heard) ==
  /\ sup = "fetch" /\ ~NewAddress /\ CanReload /\ PageGoes(heard)
  /\ cooldown' = TRUE /\ reloads' = reloads + 1
  /\ UNCHANGED <<edge, rootKept, refused, nodeLeft>>

(* dialFresh: hang up, forget the peer, dial.                              *)
SupDials ==
  /\ sup = "dial" /\ sup' = "rest"
  /\ LET holds == seed.holds /\ wire # "open"
         ok == seed.up /\ fetched = seed.cert /\ ~holds
     IN /\ seed' = [seed EXCEPT !.holds = holds]
        /\ wire' = IF ok THEN "open" ELSE "none"
        /\ dialled' = IF ok THEN fetched ELSE dialled
  /\ UNCHANGED <<edge, page, fetched, rootKept, cooldown, reloads, refused, nodeLeft>>

CooldownEnds ==
  /\ cooldown /\ cooldown' = FALSE /\ reloads' = 0
  /\ UNCHANGED <<seed, edge, wire, page, dialled, fetched, sup, rootKept, refused, nodeLeft>>

Supervises ==
  Probes \/ SeesNewAddress \/ BacksOff \/ SupDials \/ \E heard \in BOOLEAN : Reloads(heard)
Boots == BootFetches \/ BootDials \/ BootResolves

NodeNext ==
  \/ SeedStops \/ SeedStarts \/ LinkDrops \/ SeedReaps \/ EdgePolls \/ EdgeHasNone
  \/ Boots \/ BootFetchFails \/ BootResolveFails \/ \E heard \in BOOLEAN : UserReloads(heard)
  \/ Supervises \/ ProbeIsSlow \/ SupFetchFails \/ CooldownEnds

(* The timer of the supervisor fires and its awaits are bounded; the seed  *)
(* is restarted and reaps, the edge polls, the cooldown ends.              *)
NodeFairness ==
  /\ WF_nodeVars(Supervises) /\ WF_nodeVars(Boots) /\ WF_nodeVars(SeedStarts)
  /\ WF_nodeVars(SeedReaps) /\ WF_nodeVars(EdgePolls) /\ WF_nodeVars(CooldownEnds)

NodeSpec == NodeInit /\ [][NodeNext]_nodeVars /\ NodeFairness

-----------------------------------------------------------------------------
NodeTypeOK ==
  /\ seed \in [up : BOOLEAN, cert : Nat, holds : BOOLEAN] /\ edge \in Nat
  /\ wire \in {"none", "open", "zombie"}
  /\ page \in {"fetch", "dial", "root", "up", "broken", "dead"}
  /\ sup \in {"rest", "fetch", "dial"} /\ dialled \in Nat /\ fetched \in Nat
  /\ rootKept \in BOOLEAN /\ cooldown \in BOOLEAN /\ reloads \in Nat /\ refused \in BOOLEAN

(* However the seed restarts and the network drops, a page that had a node *)
(* has its connection back in the end or was told that it has none; and it *)
(* never reloads twice within the cooldown, even across the reload itself, *)
(* as long as the browser lets it remember.                                *)
NodeReturns ==
  /\ [](nodeLeft.storage => reloads <= 1)
  /\ (Supervised /\ wire # "open") ~> (wire = "open" \/ page = "dead")

(* "A browser dialing a dead certhash simply retries": a boot that was     *)
(* given an address is not the end.                                        *)
DeadDialRetried == page = "dead" => ~refused
=============================================================================
