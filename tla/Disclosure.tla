----------------------------- MODULE Disclosure -----------------------------
(* What a desktop tells the network about its library: the manifest that   *)
(* push_manifest posts to the node (playlists.rs, lib.rs), the answers of  *)
(* the playlist-list protocol with forced re-announces (playlistlist.go)   *)
(* and the hold beacons a remote node counts (beacon.go).                  *)
EXTENDS Naturals, FiniteSets, FiniteSetsExt

CONSTANTS
  Names,       \* playlists
  Pushers,     \* tasks that may run push_manifest at once: the tick, a command
  Streams,      \* streams of the playlist-list protocol that may be open at once
  Us, Others,  \* origins of beacons: this node, and the nodes nothing else is said of
  Unposted,    \* no manifest was posted yet, no beacon was heard
  Window, KickMin, OriginCap,  \* beaconWindow, beaconKickMin, beaconOriginsPerHash
  DiscPlans        \* bounds: edits, faults, asks, foreign beacons and ticks of a behaviour

ASSUME DisclosureAssumption ==
  /\ {Window, KickMin, OriginCap} \subseteq Nat \ {0} /\ Unposted \notin Nat
  /\ IsFiniteSet(Others) /\ IsFiniteSet(Streams)

VARIABLES
  library,   \* names the database discloses: held, or mine and published, with a record
  posted,    \* manifest_hash
  pushes,    \* what each push is doing with the set it read
  torn,      \* pushes overlapped, or an answer was lost, and no push ran alone since
  manifest,  \* plListState.manifest
  wantOf,     \* the want of each open stream: its name and step
  relayed,   \* forced re-announces since the cooldown of a name began
  cooling,   \* names inside plWantCooldown
  sent,      \* when this node's last beacon was sent (lastPub)
  ledger,    \* remote: counts, the last beacon of each origin naming a playlist
  hearings,     \* remote: origLast
  disclosed,      \* when each origin last disclosed a name
  clock, left

discVars == <<library, posted, pushes, torn, manifest, wantOf, relayed, cooling, sent,
              ledger, hearings, disclosed, clock, left>>

Origins == {Us} \cup Others
NoPush == [step |-> "idle", set |-> {}, alone |-> TRUE]
NoWant == [step |-> "idle", name |-> CHOOSE n \in Names : TRUE]
Since(t, span) == t # Unposted /\ clock - t <= span
Recent(t) == t # Unposted /\ clock - t < KickMin

DiscInit ==
  /\ library = {} /\ posted = Unposted /\ torn = FALSE /\ manifest = {}
  /\ pushes = [p \in Pushers |-> NoPush] /\ wantOf = [s \in Streams |-> NoWant]
  /\ relayed = [n \in Names |-> 0] /\ cooling = {} /\ sent = Unposted
  /\ ledger = [n \in Names |-> [o \in Origins |-> Unposted]]
  /\ hearings = [o \in Origins |-> Unposted]
  /\ disclosed = [n \in Names |-> [o \in Origins |-> Unposted]]
  /\ clock = 0 /\ left \in DiscPlans

(* A share, hold, retraction or delete, and a synced update, change the    *)
(* disclosure set the manifest query selects.                              *)
LibraryEdit(n) ==
  /\ left.edits > 0 /\ left' = [left EXCEPT !.edits = @ - 1]
  /\ library' = IF n \in library THEN library \ {n} ELSE library \cup {n}
  /\ UNCHANGED <<posted, pushes, torn, manifest, wantOf, relayed, cooling, sent, ledger,
                 hearings, disclosed, clock>>

-----------------------------------------------------------------------------
(* push_manifest: read the set, stop when it is the one posted last ...    *)
PostedOnce(set) == posted # Unposted  \* the first post is the last
Unchanged(set) == posted = set
Busy(p) == pushes[p].step # "idle"

PushManifest(p) ==
  /\ ~Busy(p) /\ ~Unchanged(library)
  /\ pushes' = [q \in Pushers |->
       IF q = p THEN [step |-> "post", set |-> library, alone |-> ~\E r \in Pushers : Busy(r)]
       ELSE IF Busy(q) THEN [pushes[q] EXCEPT !.alone = FALSE] ELSE pushes[q]]
  /\ UNCHANGED <<library, posted, torn, manifest, wantOf, relayed, cooling, sent, ledger,
                 hearings, disclosed, clock, left>>

(* ... the node replaces its manifest whole (setManifest) ...              *)
SetManifest(p) ==
  /\ pushes[p].step = "post" /\ manifest' = pushes[p].set
  /\ pushes' = [pushes EXCEPT ![p].step = "kick"]
  /\ UNCHANGED <<library, posted, torn, wantOf, relayed, cooling, sent, ledger, hearings, disclosed,
                 clock, left>>

(* A remote node's validator takes one beacon of an origin per gap, and    *)
(* its sink records every name of it for the origin while there is room.   *)
Pruned(n) == [o \in Origins |-> IF Since(ledger[n][o], Window) THEN ledger[n][o] ELSE Unposted]
Room(n, o) == LET kept == {q \in Origins : Pruned(n)[q] # Unposted}
              IN o \in kept \/ Cardinality(kept) < OriginCap

BeaconHeard(o, names) ==
  IF Recent(hearings[o]) THEN UNCHANGED <<ledger, hearings>>
  ELSE /\ hearings' = [hearings EXCEPT ![o] = clock]
       /\ ledger' = [n \in Names |->
            IF n \notin names THEN ledger[n]
            ELSE IF Room(n, o) THEN [Pruned(n) EXCEPT ![o] = clock] ELSE Pruned(n)]

(* publishBeacon names the manifest of the moment; an empty one says       *)
(* nothing.  The remote node may miss it.                                  *)
PublishBeacon ==
  IF manifest = {} THEN UNCHANGED <<sent, disclosed, ledger, hearings>>
  ELSE /\ sent' = clock
       /\ disclosed' = [n \in Names |-> IF n \in manifest THEN [disclosed[n] EXCEPT ![Us] = clock] ELSE disclosed[n]]
       /\ BeaconHeard(Us, manifest) \/ UNCHANGED <<ledger, hearings>>

(* ... beacons ahead of the cycle unless it did a moment ago (KickBeacon), *)
(* and answers.                                                            *)
KickBeacon(p) ==
  /\ pushes[p].step = "kick" /\ pushes' = [pushes EXCEPT ![p].step = "reply"]
  /\ IF Recent(sent) THEN UNCHANGED <<sent, disclosed, ledger, hearings>> ELSE PublishBeacon
  /\ UNCHANGED <<library, posted, torn, manifest, wantOf, relayed, cooling, clock, left>>

PushDone(p) ==
  /\ pushes[p].step = "reply" /\ posted' = pushes[p].set
  /\ torn' = ~pushes[p].alone
  /\ pushes' = [pushes EXCEPT ![p] = NoPush]
  /\ UNCHANGED <<library, manifest, wantOf, relayed, cooling, sent, ledger, hearings,
                 disclosed, clock, left>>

(* The post or its answer is lost: nothing is remembered, the next tick    *)
(* tries again.                                                            *)
PushFails(p) ==
  /\ Busy(p) /\ left.faults > 0 /\ left' = [left EXCEPT !.faults = @ - 1]
  /\ torn' = (torn \/ pushes[p].step # "post")
  /\ pushes' = [pushes EXCEPT ![p] = NoPush]
  /\ UNCHANGED <<library, posted, manifest, wantOf, relayed, cooling, sent, ledger,
                 hearings, disclosed, clock>>

(* beaconLoop, when no kick has just fired.                                *)
BeaconCycle ==
  /\ ~Recent(sent) /\ manifest # {} /\ PublishBeacon
  /\ UNCHANGED <<library, posted, pushes, torn, manifest, wantOf, relayed, cooling, clock, left>>

OtherBeacon(o, names) ==
  /\ left.beacons > 0 /\ left' = [left EXCEPT !.beacons = @ - 1]
  /\ disclosed' = [n \in Names |-> IF n \in names THEN [disclosed[n] EXCEPT ![o] = clock] ELSE disclosed[n]]
  /\ BeaconHeard(o, names)
  /\ UNCHANGED <<library, posted, pushes, torn, manifest, wantOf, relayed, cooling, sent, clock>>

-----------------------------------------------------------------------------
(* A met peer pulls (pull_from_peer): its want names come from the list it *)
(* was answered.  The handler checks the manifest, then the cooldown,      *)
(* which it records before it publishes; streams run at once.              *)
AskPeer(s, n) ==
  /\ wantOf[s].step = "idle" /\ left.asks > 0
  /\ left' = [left EXCEPT !.asks = @ - 1]
  /\ wantOf' = [wantOf EXCEPT ![s] = [step |-> "listed", name |-> n]]
  /\ UNCHANGED <<library, posted, pushes, torn, manifest, relayed, cooling, sent, ledger,
                 hearings, disclosed, clock>>

WantListed(s) ==
  /\ wantOf[s].step = "listed"
  /\ wantOf' = [wantOf EXCEPT ![s] =
       IF wantOf[s].name \in manifest THEN [@ EXCEPT !.step = "cool"] ELSE NoWant]
  /\ UNCHANGED <<library, posted, pushes, torn, manifest, relayed, cooling, sent, ledger,
                 hearings, disclosed, clock, left>>

WantCooled(n) == n \notin cooling

(* wantAllowed looks the name up and records it in two calls of the cache, *)
(* so two streams may both pass.                                           *)
WantChecked(s) ==
  /\ wantOf[s].step = "cool"
  /\ wantOf' = [wantOf EXCEPT ![s] =
       IF WantCooled(wantOf[s].name) THEN [@ EXCEPT !.step = "record"] ELSE NoWant]
  /\ UNCHANGED <<library, posted, pushes, torn, manifest, relayed, cooling, sent, ledger,
                 hearings, disclosed, clock, left>>

WantRecorded(s) ==
  /\ wantOf[s].step = "record" /\ cooling' = cooling \cup {wantOf[s].name}
  /\ wantOf' = [wantOf EXCEPT ![s].step = "publish"]
  /\ UNCHANGED <<library, posted, pushes, torn, manifest, relayed, sent, ledger, hearings,
                 disclosed, clock, left>>

(* The buffer may have dropped the document, and the publish may fail: the *)
(* cooldown stands all the same.                                           *)
Reannounce(s, ok) ==
  /\ wantOf[s].step = "publish" /\ wantOf' = [wantOf EXCEPT ![s] = NoWant]
  /\ relayed' = IF ok THEN [relayed EXCEPT ![wantOf[s].name] = @ + 1] ELSE relayed
  /\ UNCHANGED <<library, posted, pushes, torn, manifest, cooling, sent, ledger, hearings,
                 disclosed, clock, left>>

(* A tick outlasts every cooldown, and every publish under way.            *)
DiscTick ==
  /\ left.ticks > 0 /\ left' = [left EXCEPT !.ticks = @ - 1] /\ clock' = clock + 1
  /\ \A s \in Streams : wantOf[s].step \notin {"record", "publish"}
  /\ cooling' = {} /\ relayed' = [n \in Names |-> 0]
  /\ UNCHANGED <<library, posted, pushes, torn, manifest, wantOf, sent, ledger, hearings, disclosed>>

PushStep(p) == PushManifest(p) \/ SetManifest(p) \/ KickBeacon(p) \/ PushDone(p)
DiscNext ==
  \/ \E n \in Names : LibraryEdit(n)
  \/ \E p \in Pushers : PushStep(p) \/ PushFails(p)
  \/ BeaconCycle \/ DiscTick
  \/ \E o \in Others, names \in (SUBSET Names) \ {{}} : OtherBeacon(o, names)
  \/ \E s \in Streams : \/ \E n \in Names : AskPeer(s, n)
                       \/ WantListed(s) \/ WantChecked(s) \/ WantRecorded(s)
                       \/ \E ok \in BOOLEAN : Reannounce(s, ok)

(* Each pushing task goes on: the sync loop pushes on every tick.          *)
DiscWork == \E p \in Pushers : PushStep(p)
DiscSpec == DiscInit /\ [][DiscNext]_discVars /\ WF_discVars(DiscWork)

-----------------------------------------------------------------------------
(* backers: origins whose last beacon naming n is inside the window.       *)
Backers(n) == Cardinality({o \in Origins : Since(ledger[n][o], Window)})

(* A remote count never exceeds the origins that disclosed the name inside *)
(* the window, nor the cap, however often they beacon; and a want storm    *)
(* re-gossips a playlist at most once per cooldown and open stream.        *)
CountsHonest ==
  /\ \A n \in Names :
       Backers(n) <= Min({OriginCap, Cardinality({o \in Origins : Since(disclosed[n][o], Window)})})
  /\ \A n \in Names : relayed[n] <= Cardinality(Streams)

(* Once the library stays as it is the node discloses it exactly, also     *)
(* after lost posts.  Not so when two pushes ran at once, and the node     *)
(* keeps the older set while the hash of the newer is remembered, or when  *)
(* an answer was lost and the library went back to the set of the          *)
(* remembered hash: push_manifest compares with what was last answered,    *)
(* not with what the node may hold (playlists.rs:1020).                    *)
ManifestSettles == <>[](torn \/ manifest = library)

DisclosureSound == []CountsHonest /\ ManifestSettles
=============================================================================
