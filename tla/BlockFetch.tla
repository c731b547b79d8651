----------------------------- MODULE BlockFetch -----------------------------
(* How a browser gets a module's blocks (src/apps/web/src/lib/blockfetch.ts)*)
(* from other peers before the seed: a known deliverer, then everyone who  *)
(* says it has the block, then the seed, and at last helia's broadcast.    *)
(* Many fetches run at once and share what they learn about the donors.    *)
EXTENDS Naturals, FiniteSets

CONSTANTS
  Wanted,       \* blocks the module needs
  Donors,       \* bitswap peers that are not the seed
  Carries,      \* which blocks each donor holds
  HaverTtl,     \* HAVER_TTL_MS, in ticks
  Cooldown,     \* NO_DONOR_COOLDOWN_MS, in ticks
  SeedAttempts, \* SEED_ATTEMPTS
  MaxTicks, MaxChurn  \* bounds: clock, connections coming and going

ASSUME BlockFetchAssumption ==
  /\ Carries \in [Donors -> SUBSET Wanted]
  /\ {HaverTtl, Cooldown, SeedAttempts, MaxTicks, MaxChurn} \subseteq Nat

VARIABLES
  time,           \* performance.now()
  peers,         \* donors in wantList.peers
  resident,      \* blocks in the local blockstore
  recentHavers,  \* when each donor last delivered, 0 for never
  noDonorUntil,  \* discovery is skipped before this time
  fetch,         \* the fetch of each block
  churn          \* connections changed

blockVars == <<time, peers, resident, recentHavers, noDonorUntil, fetch, churn>>

Rest == [step |-> "idle", at |-> 0, cands |-> {}, yes |-> {}, refused |-> {},
         cooled |-> FALSE, tries |-> 0]

BlockInit ==
  /\ time = 1 /\ peers \in SUBSET Donors /\ resident = {}
  /\ recentHavers = [d \in Donors |-> 0] /\ noDonorUntil = 0
  /\ fetch = [b \in Wanted |-> Rest] /\ churn = 0

(* Donors that delivered lately, as the fetch saw the time when it began.  *)
Known(f) == {d \in f.cands : recentHavers[d] # 0 /\ f.at < recentHavers[d] + HaverTtl}

(* Discovery, unless a recent round found nobody: the clock was read before*)
(* the await, the cooldown after it.                                       *)
Discover(f) == IF f.at < noDonorUntil THEN [f EXCEPT !.step = "seed", !.cooled = TRUE]
               ELSE [f EXCEPT !.step = "ask"]

Start(b) ==
  LET f == [Rest EXCEPT !.at = time, !.cands = peers] IN
  /\ fetch[b].step = "idle" /\ b \notin resident
  /\ fetch' = [fetch EXCEPT ![b] =
       IF peers = {} THEN [f EXCEPT !.step = "seed"]
       ELSE IF Known(f) # {} THEN [f EXCEPT !.step = "known"]
       ELSE Discover(f)]
  /\ UNCHANGED <<time, peers, resident, recentHavers, noDonorUntil, churn>>

(* wantBlockFrom: a delivery is verified, stored and remembered ...        *)
Delivered(b, d) ==
  /\ resident' = resident \cup {b}
  /\ recentHavers' = [recentHavers EXCEPT ![d] = fetch[b].at]
  /\ fetch' = [fetch EXCEPT ![b] = [Rest EXCEPT !.step = "done"]]

CanDeliver(b, d) == d \in peers /\ b \in Carries[d]

KnownDelivers(b, d) ==
  /\ fetch[b].step = "known" /\ d \in Known(fetch[b]) /\ CanDeliver(b, d)
  /\ Delivered(b, d) /\ UNCHANGED <<time, peers, noDonorUntil, churn>>

(* ... and a refusal or a timeout leaves the donor a known haver.          *)
KnownFails(b) ==
  /\ fetch[b].step = "known" /\ fetch' = [fetch EXCEPT ![b] = Discover(@)]
  /\ UNCHANGED <<time, peers, resident, recentHavers, noDonorUntil, churn>>

(* A candidate answers WANT-HAVE, or stays silent past the window.         *)
Unheard(f) == f.cands \ (f.yes \cup f.refused)

Answers(b, d) ==
  /\ fetch[b].step = "ask" /\ d \in Unheard(fetch[b])
  /\ \/ CanDeliver(b, d) /\ fetch' = [fetch EXCEPT ![b].yes = @ \cup {d}]
     \/ fetch' = [fetch EXCEPT ![b].refused = @ \cup {d}]
  /\ UNCHANGED <<time, peers, resident, recentHavers, noDonorUntil, churn>>

Heard(b) ==
  /\ fetch[b].step = "ask" /\ Unheard(fetch[b]) = {}
  /\ IF fetch[b].yes = {}
     THEN /\ noDonorUntil' = fetch[b].at + Cooldown
          /\ fetch' = [fetch EXCEPT ![b].step = "seed"]
     ELSE fetch' = [fetch EXCEPT ![b].step = "pool"] /\ UNCHANGED noDonorUntil
  /\ UNCHANGED <<time, peers, resident, recentHavers, churn>>

(* The havers are tried one at a time; one that fails leaves the pool.     *)
PoolDelivers(b, d) ==
  /\ fetch[b].step = "pool" /\ d \in fetch[b].yes /\ CanDeliver(b, d)
  /\ Delivered(b, d) /\ UNCHANGED <<time, peers, noDonorUntil, churn>>

Undropped(f, d) == [f EXCEPT !.refused = @ \cup {d}]  \* a donor that refused is asked again
Dropped(f, d) == [f EXCEPT !.yes = @ \ {d}, !.refused = @ \cup {d}]

PoolFails(b, d) ==
  /\ fetch[b].step = "pool" /\ d \in fetch[b].yes
  /\ fetch' = [fetch EXCEPT ![b] = Dropped(@, d)]
  /\ UNCHANGED <<time, peers, resident, recentHavers, noDonorUntil, churn>>

PoolEmpty(b) ==
  /\ fetch[b].step = "pool" /\ fetch[b].yes = {}
  /\ fetch' = [fetch EXCEPT ![b].step = "seed"]
  /\ UNCHANGED <<time, peers, resident, recentHavers, noDonorUntil, churn>>

(* wantSeed, a few targeted attempts; then the broadcast, which has no     *)
(* timeout of its own.                                                     *)
SeedDelivers(b) ==
  /\ fetch[b].step = "seed" /\ resident' = resident \cup {b}
  /\ fetch' = [fetch EXCEPT ![b] = [Rest EXCEPT !.step = "done"]]
  /\ UNCHANGED <<time, peers, recentHavers, noDonorUntil, churn>>

SeedFails(b) ==
  /\ fetch[b].step = "seed"
  /\ fetch' = [fetch EXCEPT ![b] =
       IF fetch[b].tries + 1 < SeedAttempts THEN [fetch[b] EXCEPT !.tries = @ + 1]
       ELSE [fetch[b] EXCEPT !.step = "broadcast"]]
  /\ UNCHANGED <<time, peers, resident, recentHavers, noDonorUntil, churn>>

BroadcastDelivers(b) ==
  /\ fetch[b].step = "broadcast" /\ \E d \in Donors : CanDeliver(b, d)
  /\ resident' = resident \cup {b}
  /\ fetch' = [fetch EXCEPT ![b] = [Rest EXCEPT !.step = "done"]]
  /\ UNCHANGED <<time, peers, recentHavers, noDonorUntil, churn>>

(* External: time passes, donors connect and leave.                        *)
BlockTick == /\ time < MaxTicks /\ time' = time + 1
        /\ UNCHANGED <<peers, resident, recentHavers, noDonorUntil, fetch, churn>>

Churn(d) ==
  /\ churn < MaxChurn /\ churn' = churn + 1
  /\ peers' = IF d \in peers THEN peers \ {d} ELSE peers \cup {d}
  /\ UNCHANGED <<time, resident, recentHavers, noDonorUntil, fetch>>

Progress(b) ==
  \/ KnownFails(b) \/ Heard(b) \/ PoolEmpty(b) \/ SeedDelivers(b) \/ SeedFails(b)
  \/ \E d \in Donors : KnownDelivers(b, d) \/ Answers(b, d) \/ PoolDelivers(b, d)
                       \/ PoolFails(b, d)

BlockNext ==
  \/ \E b \in Wanted : Start(b) \/ Progress(b) \/ BroadcastDelivers(b)
  \/ BlockTick \/ \E d \in Donors : Churn(d)

(* Every await of a fetch but the last has a timeout, so it goes on.       *)
BlockSpec == BlockInit /\ [][BlockNext]_blockVars
             /\ \A b \in Wanted : WF_blockVars(Progress(b))

-----------------------------------------------------------------------------
(* blockfetch.ts: the seed is "the ONE peer we never ask for bytes while a *)
(* donor holds the block".  It is asked only when nobody else was connected*)
(* at the start, every donor connected then refused, stayed silent or did  *)
(* not deliver, or the cooldown another fetch earned says so; and a fetch  *)
(* ends with its block or in the broadcast, whatever the donors do.        *)
Exhausted(b) ==
  \/ fetch[b].cands = {} \/ fetch[b].cooled \/ fetch[b].cands \subseteq fetch[b].refused

DonorsFirst == \A b \in Wanted : fetch[b].step \in {"seed", "broadcast"} => Exhausted(b)

SeedLast ==
  /\ []DonorsFirst
  /\ \A b \in Wanted : []<>(fetch[b].step \in {"idle", "done", "broadcast"})

=============================================================================
