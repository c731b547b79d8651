---------------------------- MODULE CatalogRecord ---------------------------
(* The catalog's IPNS record on its way from the seed to its readers       *)
(* (src/node/ipns.go, pubsub.go; ipns.rs and resolve_ipns_name of lib.rs on*)
(* the desktop; src/apps/web/src/lib/ipns.ts in a browser).  The seed puts *)
(* a record to the DHT and pushes it by gossip; a desktop asks its node,   *)
(* which answers from its store or the DHT, and falls back to a record kept*)
(* on disk; a browser asks the peers it is connected to.  Records are      *)
(* numbered in the order they are signed; 0 stands for none.               *)
EXTENDS Naturals, Sequences, FiniteSets

CONSTANTS
  Lifetime,     \* CATALOG_LIFETIME, in ticks
  Servers,      \* peers that keep DHT values, the seed among them
  Seed,
  Refused,
  Attempts,     \* tries of one desktop resolution
  MaxPublish, MaxTime, MaxRestarts  \* bounds: records signed, clock, node restarts

ASSUME CatalogAssumption ==
  /\ {Lifetime, Attempts, MaxPublish, MaxTime, MaxRestarts} \subseteq Nat
  /\ Seed \in Servers /\ Refused \notin Nat

VARIABLES
  now, issued,
  kept,      \* the record each DHT server keeps
  gossip,    \* records pushed on the catalog topic, on their way to the node
  delivered,     \* history: records the running node received from the topic
  store,     \* its ipnsStore entry for the catalog
  walking,   \* ResolveIPNS awaits the DHT
  disk,      \* the desktop's IpnsCache entry
  tries,     \* attempts of the desktop's running resolution, 0 for none
  answer,    \* what each reader was told last
  restarts

catalogVars == <<now, issued, kept, gossip, delivered, store, walking, disk, tries,
                 answer, restarts>>

Readers == {"desktop", "browser"}
Records == 1..Len(issued)
Register == INSTANCE CatalogRegister
  WITH time <- now, signed <- issued, told <- answer

(* kubo.ts namePublish passes no sequence number: every record is number 0.*)
Seq0(r) == 0

(* Signature and EOL, checked by each of the verifiers.                    *)
Valid(r) == r \in Records /\ now <= issued[r] + Lifetime

CatalogInit ==
  /\ now = 0 /\ issued = <<>> /\ kept = [s \in Servers |-> 0] /\ gossip = {} /\ delivered = {}
  /\ store = 0 /\ walking = FALSE /\ disk = 0 /\ tries = 0 /\ restarts = 0
  /\ answer = [reader \in Readers |-> [record |-> Refused, at |-> 0]]

(* PublishIPNS signs, keeps, puts to the DHT and pushes by gossip.         *)
PublishIPNS ==
  /\ Len(issued) < MaxPublish /\ issued' = Append(issued, now)
  /\ kept' = [kept EXCEPT ![Seed] = Len(issued')]
  /\ gossip' = gossip \cup {Len(issued')}
  /\ UNCHANGED <<now, delivered, store, walking, disk, tries, answer, restarts>>

(* External: the put reaches another server, which keeps the better record:*)
(* the higher sequence number, then the later EOL.                         *)
Spread(s) ==
  /\ kept[s] < kept[Seed] /\ kept' = [kept EXCEPT ![s] = kept[Seed]]
  /\ UNCHANGED <<now, issued, gossip, delivered, store, walking, disk, tries, answer, restarts>>

(* ingestGossip keeps a valid record only if its number is higher than that*)
(* of the one held, expired or not.                                        *)
Newer(r) == store = 0 \/ Seq0(store) < Seq0(r)

IngestGossip(r) ==
  /\ r \in gossip /\ gossip' = gossip \ {r} /\ delivered' = delivered \cup {r}
  /\ store' = IF Valid(r) /\ Newer(r) THEN r ELSE store
  /\ UNCHANGED <<now, issued, kept, walking, disk, tries, answer, restarts>>

GossipLost(r) ==
  /\ r \in gossip /\ gossip' = gossip \ {r}
  /\ UNCHANGED <<now, issued, kept, delivered, store, walking, disk, tries, answer, restarts>>

-----------------------------------------------------------------------------
Told(reader, r) == answer' = [answer EXCEPT ![reader] = [record |-> r, at |-> now]]

(* resolve_ipns_name got r from its node (0: nothing): a record that       *)
(* verifies is written to the disk cache, whatever was there; else the disk*)
(* cache answers if it still verifies; else it tries again, a few times.   *)
SignedOnly(r) == r \in Records  \* the EOL goes unchecked
RecordVerified(r) == Valid(r)

Resolved(r) ==
  IF RecordVerified(r) THEN disk' = r /\ tries' = 0 /\ Told("desktop", r)
  ELSE /\ UNCHANGED disk
       /\ IF RecordVerified(disk) THEN tries' = 0 /\ Told("desktop", disk)
          ELSE IF tries < Attempts THEN tries' = tries + 1 /\ UNCHANGED answer
          ELSE tries' = 0 /\ Told("desktop", Refused)

Resolve ==
  /\ tries = 0 /\ tries' = 1
  /\ UNCHANGED <<now, issued, kept, gossip, delivered, store, walking, disk, answer, restarts>>

(* ResolveIPNS: the store answers at once, valid or not ...                *)
FromStore ==
  /\ tries > 0 /\ ~walking /\ store # 0 /\ Resolved(store)
  /\ UNCHANGED <<now, issued, kept, gossip, delivered, store, walking, restarts>>

(* ... else the DHT is asked, and what it says is stored unconditionally,  *)
(* whatever gossip brought meanwhile.                                      *)
DhtWalk ==
  /\ tries > 0 /\ ~walking /\ store = 0 /\ walking' = TRUE
  /\ UNCHANGED <<now, issued, kept, gossip, delivered, store, disk, tries, answer, restarts>>

WalkEnds ==
  /\ walking /\ walking' = FALSE
  /\ \/ \E s \in Servers : Valid(kept[s]) /\ store' = kept[s] /\ Resolved(kept[s])
     \/ Resolved(0) /\ UNCHANGED store
  /\ UNCHANGED <<now, issued, kept, gossip, delivered, restarts>>

(* A browser asks every connected peer and takes the highest number; among *)
(* equals the first; a DHT walk does the same over its answers.            *)
Best(rs) == {r \in rs : \A q \in rs : Seq0(q) <= Seq0(r)}

BrowserAsks ==
  /\ \E asked \in SUBSET Servers :
       LET rs == {kept[s] : s \in {t \in asked : RecordVerified(kept[t])}} IN
       \/ \E r \in Best(rs) : Told("browser", r)
       \/ rs = {} /\ Told("browser", Refused)
  /\ UNCHANGED <<now, issued, kept, gossip, delivered, store, walking, disk, tries, restarts>>

-----------------------------------------------------------------------------
(* The node restarts with an empty store; time passes.                     *)
NodeRestarts ==
  /\ restarts < MaxRestarts /\ restarts' = restarts + 1
  /\ store' = 0 /\ delivered' = {} /\ gossip' = {} /\ walking' = FALSE /\ tries' = 0
  /\ UNCHANGED <<now, issued, kept, disk, answer>>

CatalogTick ==
  /\ now < MaxTime /\ now' = now + 1
  /\ UNCHANGED <<issued, kept, gossip, delivered, store, walking, disk, tries, answer, restarts>>

CatalogNext ==
  \/ PublishIPNS \/ Resolve \/ FromStore \/ DhtWalk \/ WalkEnds \/ BrowserAsks
  \/ NodeRestarts \/ CatalogTick
  \/ \E s \in Servers : Spread(s)
  \/ \E r \in gossip : IngestGossip(r) \/ GossipLost(r)

CatalogSpec == CatalogInit /\ [][CatalogNext]_catalogVars

-----------------------------------------------------------------------------
CatalogTypeOK ==
  /\ now \in Nat /\ issued \in Seq(Nat)
  /\ kept \in [Servers -> Nat] /\ gossip \subseteq Nat /\ delivered \subseteq Nat
  /\ {store, disk, tries, restarts} \subseteq Nat /\ walking \in BOOLEAN
  /\ answer \in [Readers -> [record : Nat \cup {Refused}, at : Nat]]

(* The catalog readers implement the register: however a record travels -  *)
(* by gossip, from the DHT, from an old copy on disk, from any peer - no   *)
(* reader takes one the key did not sign or one past its EOL.              *)
ImplementsRegister == Register!RegisterSpec

(* ipns.go: "This is the zero-resolve path: a publish propagates to every  *)
(* subscriber's local store".  Once the topic delivered a record to the    *)
(* running node, its store has that record or a later one.                 *)
PublishPropagates == \A r \in delivered : Valid(r) => store >= r

=============================================================================
