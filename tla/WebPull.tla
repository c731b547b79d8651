------------------------------ MODULE WebPull ------------------------------
(* How a browser learns what playlists a peer holds: it asks each peer it  *)
(* meets (pullFromPeer, peerPlaylists), the peer, a browser too, lists its *)
(* own and gossips again what was wanted (handlePlaylistList, with the     *)
(* limits of playlistlist.ts), and beacons are counted (BeaconLedger).     *)
EXTENDS Naturals, FiniteSets, FiniteSetsExt

CONSTANTS
  Friends,     \* peers that serve the protocol
  Lists,       \* playlists they may hold
  Pulls,       \* pulls that may be under way at once
  MaxEntries,  \* lists named in one answer (PL_MAX_ENTRIES)
  WantMax,     \* names wanted in one request (PL_WANT_MAX)
  Burst,       \* requests of one peer in a row (PEER_BURST)
  Span, Gap, Seats,  \* BEACON_WINDOW_SECS, BEACON_MIN_GAP_SECS, BEACON_MAX_ORIGINS
  PullBounds   \* meetings, edits, faults, windows, beacons and ticks of a run

ASSUME WebPullAssumption ==
  /\ {MaxEntries, WantMax, Burst, Span, Gap, Seats} \subseteq Nat \ {0}
  /\ Gap <= Span
  /\ IsFiniteSet(Friends) /\ Friends # {}

VARIABLES
  shares,      \* shares[f][n]: version of n that f has
  offered,     \* offered[f]: the lists f discloses
  mine,        \* mine[n]: version here, 0 if none
  gate,        \* peers pulled from within the cooldown (pulledPeers)
  pull,        \* pull[p]: step, peer, what it told, names wanted, rows it answers with
  tokens,      \* tokens[f]: requests f still takes from us (PeerRateLimiter)
  cooled,      \* <<f, n>>: f gossiped n again within its window (ReannounceCooldown)
  air,         \* <<n, v>>: gossip on its way to us
  excused,     \* lists a named limit or a fault kept from us (history)
  origins,     \* who is counted for one playlist, and since when: [who, at]
  now,         \* the clock of the ledger
  heardAt,     \* heardAt[f]: when f last beaconed, 0 before that (history)
  pullLeft
peerVars == <<shares, offered, mine, gate, pull, tokens, cooled, air, excused>>
pullVars == <<peerVars, origins, now, heardAt, pullLeft>>

Nothing == [n \in Lists |-> 0]
NoPull == [at |-> "idle", peer |-> CHOOSE f \in Friends : TRUE, told |-> Nothing,
           want |-> {}, rows |-> Nothing]

PullInit ==
  /\ shares = [f \in Friends |-> [n \in Lists |-> 1]] /\ mine = Nothing
  /\ offered \in [Friends -> {{}, Lists}]
  /\ gate = {} /\ pull = [p \in Pulls |-> NoPull]
  /\ tokens = [f \in Friends |-> Burst] /\ cooled = {} /\ air = {} /\ excused = {}
  /\ origins = {} /\ now = Span /\ heardAt = [f \in Friends |-> 0]
  /\ pullLeft \in PullBounds

Used(k) == pullLeft[k] > 0 /\ pullLeft' = [pullLeft EXCEPT ![k] = @ - 1]
LedgerRests == UNCHANGED <<origins, now, heardAt>>

(* slice: so many of S and no more.                                        *)
Sliced(S, k) == IF Cardinality(S) <= k THEN {S} ELSE kSubset(k, S)

(* disclosureRows: what the peer holds or has published.                   *)
Rows(f) == [n \in Lists |-> IF n \in offered[f] THEN shares[f][n] ELSE 0]

(* What of T is missing here, or older than the peer's.                    *)
OnlyMissing(t) == {n \in Lists : t[n] > 0 /\ mine[n] = 0}  \* an older version will do
Lacking(t) == {n \in Lists : t[n] > mine[n]}

(* pullFromPeer: the gate closes before the first await.                   *)
Identified(p, f) ==
  /\ pull[p].at = "idle" /\ f \notin gate /\ Used("meets")
  /\ gate' = gate \cup {f} /\ pull' = [pull EXCEPT ![p] = [NoPull EXCEPT !.at = "list", !.peer = f]]
  /\ UNCHANGED <<shares, offered, mine, tokens, cooled, air, excused>> /\ LedgerRests

(* handlePlaylistList: a request costs a token, and is answered with the   *)
(* disclosure set ...                                                      *)
TokenTaken(p) ==
  LET f == pull[p].peer IN tokens[f] >= 1 /\ tokens' = [tokens EXCEPT ![f] = @ - 1]
Listed(p) ==
  /\ pull[p].at = "list" /\ TokenTaken(p)
  /\ \E T \in Sliced(offered[pull[p].peer], MaxEntries) :
       pull' = [pull EXCEPT ![p].at = IF T = {} THEN "idle" ELSE "compare",
                            ![p].told = [n \in Lists |-> IF n \in T THEN shares[pull[p].peer][n] ELSE 0]]
  /\ UNCHANGED <<shares, offered, mine, gate, cooled, air, excused, pullLeft>> /\ LedgerRests

(* ... which is compared with the library a moment later.                  *)
Compared(p) ==
  /\ pull[p].at = "compare"
  /\ \E W \in Sliced(Lacking(pull[p].told), WantMax) :
       /\ pull' = [pull EXCEPT ![p].at = IF W = {} THEN "idle" ELSE "ask", ![p].want = W]
       /\ excused' = excused \cup (Lacking(pull[p].told) \ W)
  /\ UNCHANGED <<shares, offered, mine, gate, tokens, cooled, air, pullLeft>> /\ LedgerRests

(* The second request: the peer reads its rows, then gossips the wanted    *)
(* ones among them one by one, as read and once per window.                *)
WantsServed(p) ==
  LET f == pull[p].peer IN
  /\ pull[p].at = "ask" /\ TokenTaken(p)
  /\ pull' = [pull EXCEPT ![p].at = "serve", ![p].rows = Rows(f)]
  /\ excused' = excused \cup (pull[p].want \ offered[f])
  /\ UNCHANGED <<shares, offered, mine, gate, cooled, air, pullLeft>> /\ LedgerRests
Regossiped(p, n) ==
  LET f == pull[p].peer
      v == pull[p].rows[n]
      sent == v > 0 /\ <<f, n>> \notin cooled
  IN /\ pull[p].at = "serve" /\ n \in pull[p].want
     /\ pull' = [pull EXCEPT ![p].want = @ \ {n}]
     /\ cooled' = IF sent THEN cooled \cup {<<f, n>>} ELSE cooled
     /\ air' = IF sent THEN air \cup {<<n, v>>} ELSE air
     /\ excused' = IF sent THEN excused ELSE excused \cup {n}
     /\ UNCHANGED <<shares, offered, mine, gate, tokens, pullLeft>> /\ LedgerRests
Answered(p) ==
  /\ pull[p].at = "serve" /\ pull[p].want = {}
  /\ pull' = [pull EXCEPT ![p].at = "idle"]
  /\ UNCHANGED <<shares, offered, mine, gate, tokens, cooled, air, excused, pullLeft>> /\ LedgerRests

(* The peer is gone, or out of tokens: the gate opens for another try.     *)
PullFails(p) ==
  LET f == pull[p].peer
      limited == pull[p].at \in {"list", "ask"} /\ tokens[f] < 1
  IN /\ pull[p].at \in {"list", "ask", "serve"}
     /\ IF limited THEN UNCHANGED pullLeft ELSE Used("faults")
     /\ pull' = [pull EXCEPT ![p] = NoPull] /\ gate' = gate \ {f}
     /\ UNCHANGED <<shares, offered, mine, tokens, cooled, air, excused>> /\ LedgerRests

(* Gossip arrives and is ingested if newer, or is lost.                    *)
Lands(m, lost) ==
  /\ m \in air /\ air' = air \ {m}
  /\ IF lost THEN Used("faults") /\ UNCHANGED mine /\ excused' = excused \cup {m[1]}
     ELSE /\ mine' = [mine EXCEPT ![m[1]] = IF m[2] > @ THEN m[2] ELSE @]
          /\ UNCHANGED <<excused, pullLeft>>
  /\ UNCHANGED <<shares, offered, gate, pull, tokens, cooled>> /\ LedgerRests

(* The peer's user lets go of a list, or edits or takes up one.            *)
PeerEdits(f, n, keep) ==
  /\ keep \/ n \in offered[f]
  /\ Used("edits")
  /\ offered' = [offered EXCEPT ![f] = IF keep THEN @ \cup {n} ELSE @ \ {n}]
  /\ shares' = [shares EXCEPT ![f][n] = IF keep THEN @ + 1 ELSE @]
  /\ UNCHANGED <<mine, gate, pull, tokens, cooled, air, excused>> /\ LedgerRests

(* The pull cooldown, a re-announce window or a tenth of a second's worth  *)
(* of tokens is over.                                                      *)
WindowOver ==
  /\ Used("windows")
  /\ \/ \E f \in gate : gate' = gate \ {f} /\ UNCHANGED <<tokens, cooled>>
     \/ \E c \in cooled : cooled' = cooled \ {c} /\ UNCHANGED <<gate, tokens>>
     \/ \E f \in Friends : /\ tokens[f] < Burst /\ tokens' = [tokens EXCEPT ![f] = @ + 1]
                           /\ UNCHANGED <<gate, cooled>>
  /\ UNCHANGED <<shares, offered, mine, pull, air, excused>> /\ LedgerRests

-----------------------------------------------------------------------------
(* BeaconLedger: a beacon that comes too soon after the last counted one is*)
(* ignored; a counted one goes to the end, pushing the oldest out of a full*)
(* table.                                                                  *)
TooSoon(f) == \E e \in origins : e.who = f /\ now - e.at < Gap
OtherOrigins(f) == {e \in origins : e.who # f}
Oldest(S) == {e \in S : \A d \in S : e.at <= d.at}
Recorded(f) ==
  LET others == OtherOrigins(f)
      entry == [who |-> f, at |-> now]
  IN IF Cardinality(others) < Seats THEN {others \cup {entry}}
     ELSE {(others \ {e}) \cup {entry} : e \in Oldest(others)}
Beacon(f) ==
  /\ Used("beacons") /\ heardAt' = [heardAt EXCEPT ![f] = now]
  /\ IF TooSoon(f) THEN UNCHANGED origins ELSE origins' \in Recorded(f)
  /\ UNCHANGED <<peerVars, now>>

(* count: the origins inside the window; the rest are dropped.             *)
LedgerNow == {e \in origins : now - e.at < Span}
Counted ==
  /\ origins' = LedgerNow /\ UNCHANGED <<peerVars, now, heardAt, pullLeft>>
Tock == Used("ticks") /\ now' = now + 1 /\ UNCHANGED <<peerVars, origins, heardAt>>

PullNext ==
  \/ \E p \in Pulls : \/ Listed(p) \/ Compared(p) \/ WantsServed(p) \/ Answered(p) \/ PullFails(p)
                      \/ \E f \in Friends : Identified(p, f)
                      \/ \E n \in Lists : Regossiped(p, n)
  \/ \E m \in air, lost \in BOOLEAN : Lands(m, lost)
  \/ \E f \in Friends, n \in Lists, keep \in BOOLEAN : PeerEdits(f, n, keep)
  \/ \E f \in Friends : Beacon(f)
  \/ WindowOver \/ Counted \/ Tock

PullSpec == PullInit /\ [][PullNext]_pullVars

-----------------------------------------------------------------------------
(* A pull that ended well leaves every list the peer told of here, in its  *)
(* version or a newer one, or on its way; the exceptions are what a limit  *)
(* or a fault kept away (pullFromPeer).                                    *)
PulledIsHere ==
  \A p \in Pulls : pull[p].at = "idle" =>
    \A n \in Lists \ excused :
      \/ mine[n] >= pull[p].told[n]
      \/ \E m \in air : m[1] = n /\ m[2] >= pull[p].told[n]

(* The count names no origin that has been silent for a window, and leaves *)
(* none out that beaconed inside it, less the gap, unless as many others as*)
(* there are seats came after it (BeaconLedger, backers).                  *)
Since(f) == {g \in Friends \ {f} : heardAt[g] + Gap > heardAt[f]}
BackersHonest ==
  /\ \A d, e \in LedgerNow : d.who = e.who => d = e
  /\ \A e \in LedgerNow : heardAt[e.who] > 0 /\ now - heardAt[e.who] < Span
  /\ \A f \in Friends : /\ heardAt[f] > 0 /\ now + Gap <= heardAt[f] + Span
                        /\ Cardinality(Since(f)) < Seats
                        => f \in {e.who : e \in LedgerNow}

(* What the browser makes of its peers is right on both counts.            *)
PeersSound == PulledIsHere /\ BackersHonest
=============================================================================
