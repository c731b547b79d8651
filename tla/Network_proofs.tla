---------------------------- MODULE Network_proofs ---------------------------
(* What nodes keep and tell each other, for any number of nodes, peers,    *)
(* blocks and names: the pins the Go node answered for (NodeHold), what it *)
(* fetches for others (Forward) and what others count of its playlists     *)
(* (Disclosure); and of the browser's node where it asks for blocks        *)
(* (BlockFetch), when it reloads (WebNode) and what it announces (WebMesh).*)
EXTENDS NodeHold, Forward, BlockFetch, Disclosure, WebNode, WebMesh, FiniteSetTheorems, TLAPS

-----------------------------------------------------------------------------
(* A pin that was answered is durable, for any number of identifiers,      *)
(* callers, crashes and outages.  Pinset changes memory and disk in two    *)
(* steps, so the invariant speaks of the calls between them: one that is   *)
(* alone on its identifier and has changed the memory finds there what it  *)
(* is about to write.                                                      *)

Serving(k) == handlers[k].step # "idle"

(* A stopped process serves nothing, a running one has no legacy blob.     *)
Stopped == /\ ~up => \A k \in Callers : ~Serving(k)
           /\ up => legacy = <<>>

(* A call that is alone is the only one about its identifier, and what it  *)
(* put in memory is still there.                                           *)
AloneIsAlone == \A k \in Callers : Serving(k) =>
  /\ handlers[k].op \in DOMAIN KindOf
  /\ handlers[k].alone =>
       /\ \A j \in Callers : Serving(j) /\ handlers[j].cid = handlers[k].cid => j = k
       /\ handlers[k].step = "disk" => pinned[handlers[k].cid] = KindOf[handlers[k].op]

HoldInv == HoldTypeOK /\ Stopped /\ AloneIsAlone /\ DurablePins

-----------------------------------------------------------------------------
LEMMA KindOfHeld == /\ \A op \in DOMAIN KindOf : KindOf[op] \in Held
                    /\ DOMAIN KindOf = {"pin", "track", "piece", "source", "page", "unpin"}
BY DEF KindOf, Held, Kinds

LEMMA NoneIsACall ==
  None \in [op : DOMAIN KindOf \cup {"none"}, cid : Cids,
            step : {"idle", "memory", "disk"}, alone : BOOLEAN]
BY HoldAssumption DEF None

LEMMA InitHolds == HoldInit => HoldInv
<1> SUFFICES ASSUME HoldInit PROVE HoldInv
  OBVIOUS
<1>1. PICK old \in SUBSET Cids :
        /\ legacy = [c \in old |-> "root"]
        /\ answered = [c \in Cids |-> IF c \in old THEN "root" ELSE Absent]
  BY DEF HoldInit
<1>2. \A k \in Callers : ~Serving(k)
  BY DEF HoldInit, Serving, None
<1>3. HoldTypeOK
  <2>1. queue \in Seq(Cids) /\ Len(queue) <= QueueSize
    BY HoldAssumption DEF HoldInit
  <2>2. DOMAIN legacy \subseteq Cids /\ \A c \in DOMAIN legacy : legacy[c] \in Kinds
    BY <1>1 DEF Kinds
  <2>3. answered \in [Cids -> Held \cup {Unsure}]
    BY <1>1 DEF Held, Kinds
  <2>4. handlers \in [Callers -> [op : DOMAIN KindOf \cup {"none"}, cid : Cids,
                                 step : {"idle", "memory", "disk"}, alone : BOOLEAN]]
    BY NoneIsACall DEF HoldInit
  <2> QED
    BY <2>1, <2>2, <2>3, <2>4 DEF HoldInit, HoldTypeOK, Held
<1>4. Stopped /\ AloneIsAlone
  BY <1>2 DEF HoldInit, Stopped, AloneIsAlone
<1>5. DurablePins
  BY <1>1 DEF HoldInit, DurablePins, OnDisk
<1> QED
  BY <1>3, <1>4, <1>5 DEF HoldInv

LEMMA TypeHolds == HoldInv /\ [HoldNext]_holdVars => HoldTypeOK'
<1> SUFFICES ASSUME HoldInv, [HoldNext]_holdVars PROVE HoldTypeOK'
  OBVIOUS
<1> USE DEF HoldInv, HoldTypeOK
<1>1. CASE Boot
  BY <1>1 DEF Boot, OnDisk, Held
<1>2. ASSUME NEW k \in Callers, NEW op \in Ops, NEW c \in Cids, Begin(k, op, c) PROVE HoldTypeOK'
  BY <1>2, KindOfHeld, HoldAssumption DEF Begin, InFlight
<1>3. ASSUME NEW k \in Callers, Remember(k) PROVE HoldTypeOK'
  BY <1>3, KindOfHeld DEF Remember, AloneIsAlone, Serving
<1>4. ASSUME NEW k \in Callers, NEW ok \in BOOLEAN, Persist(k, ok) PROVE HoldTypeOK'
  <2>1. handlers[k].cid \in Cids /\ KindOf[handlers[k].op] \in Held
    BY <1>4, KindOfHeld DEF Persist, AloneIsAlone, Serving
  <2>2. queue' \in Seq(Cids) /\ Len(queue') <= QueueSize
    BY <1>4, <2>1, HoldAssumption DEF Persist, ProvideNow
  <2> QED
    BY <1>4, <2>1, <2>2, NoneIsACall DEF Persist, Written
<1>5. CASE ProvideWorker
  BY <1>5, HoldAssumption DEF ProvideWorker
<1>6. CASE Sweeping
  BY <1>6 DEF Sweeping, SweepStart, SweepEnd, SweepProvide
<1>7. CASE DhtFails \/ DhtReturns \/ \E c \in Cids : RecordExpires(c)
  BY <1>7 DEF DhtFails, DhtReturns, RecordExpires
<1>8. CASE Crash
  <2>1. queue' \in Seq(Cids) /\ Len(queue') <= QueueSize
    BY <1>8, HoldAssumption DEF Crash
  <2>2. handlers' \in [Callers -> [op : DOMAIN KindOf \cup {"none"}, cid : Cids,
                                  step : {"idle", "memory", "disk"}, alone : BOOLEAN]]
    BY <1>8, NoneIsACall DEF Crash
  <2> QED
    BY <1>8, <2>1, <2>2 DEF Crash, Held
<1>9. CASE UNCHANGED holdVars
  BY <1>9 DEF holdVars
<1> QED
  BY <1>1, <1>2, <1>3, <1>4, <1>5, <1>6, <1>7, <1>8, <1>9 DEF HoldNext

-----------------------------------------------------------------------------
(* What a step may do to the calls, the memory and the disk.               *)
Aside == UNCHANGED <<up, pinned, stored, legacy, handlers, answered>>

LEMMA Parts ==
  ASSUME [HoldNext]_holdVars
  PROVE  \/ Aside \/ Boot \/ Crash
         \/ \E k \in Callers : \/ \E op \in Ops, c \in Cids : Begin(k, op, c)
                               \/ Remember(k)
                               \/ \E ok \in BOOLEAN : Persist(k, ok)
BY DEF HoldNext, holdVars, Aside, ProvideWorker, Sweeping, SweepStart, SweepEnd, SweepProvide,
   DhtFails, DhtReturns, RecordExpires

LEMMA StoppedHolds == HoldInv /\ [HoldNext]_holdVars => Stopped'
<1> SUFFICES ASSUME HoldInv, [HoldNext]_holdVars PROVE Stopped'
  OBVIOUS
<1> USE DEF HoldInv, Stopped, Serving
<1>1. CASE Aside
  BY <1>1 DEF Aside
<1>2. CASE Boot
  BY <1>2 DEF Boot
<1>3. CASE Crash
  BY <1>3 DEF Crash, None
<1>4. CASE \E k \in Callers : \/ \E op \in Ops, c \in Cids : Begin(k, op, c)
                              \/ Remember(k)
                              \/ \E ok \in BOOLEAN : Persist(k, ok)
  BY <1>4 DEF Begin, Remember, Persist
<1> QED
  BY <1>1, <1>2, <1>3, <1>4, Parts

LEMMA AloneHolds == HoldInv /\ [HoldNext]_holdVars => AloneIsAlone'
<1> SUFFICES ASSUME HoldInv, [HoldNext]_holdVars PROVE AloneIsAlone'
  OBVIOUS
<1>0. HoldTypeOK /\ AloneIsAlone /\ Stopped
  BY DEF HoldInv
<1> USE DEF Serving
<1>1. CASE Aside
  BY <1>0, <1>1 DEF Aside, AloneIsAlone
<1>2. CASE Boot
  BY <1>0, <1>2 DEF Boot, AloneIsAlone, Stopped
<1>3. CASE Crash
  BY <1>3 DEF Crash, None, AloneIsAlone
<1>4. ASSUME NEW k \in Callers, NEW op \in Ops, NEW c \in Cids, Begin(k, op, c) PROVE AloneIsAlone'
  <2> DEFINE Lone(j) == \A i \in Callers : Serving(i) /\ handlers[i].cid = handlers[j].cid => i = j
  <2>0. \A j \in Callers : handlers[j].alone \in BOOLEAN
                             /\ handlers[j] = [op |-> handlers[j].op, cid |-> handlers[j].cid,
                                  step |-> handlers[j].step, alone |-> handlers[j].alone]
    BY <1>0 DEF HoldTypeOK
  <2>1. \A j \in Callers : j # k =>
          /\ handlers'[j].op = handlers[j].op /\ handlers'[j].cid = handlers[j].cid
          /\ handlers'[j].step = handlers[j].step
          /\ handlers'[j].alone => handlers[j].alone /\ j \notin InFlight(c)
    BY <1>4, <2>0 DEF Begin, InFlight
  <2>2. /\ handlers'[k].op = op /\ handlers'[k].cid = c /\ handlers'[k].step = "memory"
        /\ handlers'[k].alone => InFlight(c) = {}
    BY <1>4 DEF Begin
  <2>3. pinned' = pinned /\ op \in DOMAIN KindOf
    BY <1>4, KindOfHeld, HoldAssumption DEF Begin
  <2>4. handlers'[k].alone => Lone(k)'
    BY <2>1, <2>2 DEF InFlight
  <2>5. ASSUME NEW j \in Callers, j # k, Serving(j)', handlers'[j].alone PROVE Lone(j)'
    BY <1>0, <2>1, <2>2, <2>5 DEF InFlight, AloneIsAlone
  <2>6. ASSUME NEW j \in Callers, Serving(j)'
        PROVE  /\ handlers'[j].op \in DOMAIN KindOf
               /\ handlers'[j].alone /\ handlers'[j].step = "disk" =>
                    pinned'[handlers'[j].cid] = KindOf[handlers'[j].op]
    BY <1>0, <2>1, <2>2, <2>3, <2>6 DEF AloneIsAlone
  <2> QED
    BY <2>4, <2>5, <2>6 DEF AloneIsAlone
<1>5. ASSUME NEW k \in Callers, Remember(k) PROVE AloneIsAlone'
  BY <1>0, <1>5 DEF Remember, AloneIsAlone, HoldTypeOK
<1>6. ASSUME NEW k \in Callers, NEW ok \in BOOLEAN, Persist(k, ok) PROVE AloneIsAlone'
  BY <1>0, <1>6 DEF Persist, AloneIsAlone, HoldTypeOK, None
<1> QED
  BY <1>1, <1>2, <1>3, <1>4, <1>5, <1>6, Parts

LEMMA DurableHolds == HoldInv /\ [HoldNext]_holdVars => DurablePins'
<1> SUFFICES ASSUME HoldInv, [HoldNext]_holdVars, NEW c \in Cids,
                    answered'[c] # Unsure, InFlight(c)' = {}
             PROVE  OnDisk(c)' = answered'[c] /\ (up' => pinned'[c] = answered'[c])
  BY DEF DurablePins
<1>0. HoldTypeOK /\ AloneIsAlone /\ Stopped
      /\ (answered[c] # Unsure /\ InFlight(c) = {} =>
            OnDisk(c) = answered[c] /\ (up => pinned[c] = answered[c]))
  BY DEF HoldInv, DurablePins
<1>1. CASE Aside
  BY <1>0, <1>1 DEF Aside, InFlight, OnDisk
<1>2. CASE Boot
  BY <1>0, <1>2 DEF Boot, InFlight, OnDisk
<1>3. CASE Crash
  BY <1>0, <1>3 DEF Crash, OnDisk
<1>4. ASSUME NEW k \in Callers, NEW op \in Ops, NEW d \in Cids, Begin(k, op, d)
      PROVE  OnDisk(c)' = answered'[c] /\ (up' => pinned'[c] = answered'[c])
  BY <1>0, <1>4 DEF Begin, InFlight, OnDisk, HoldTypeOK
<1>5. ASSUME NEW k \in Callers, Remember(k)
      PROVE  OnDisk(c)' = answered'[c] /\ (up' => pinned'[c] = answered'[c])
  BY <1>0, <1>5 DEF Remember, InFlight, OnDisk, HoldTypeOK
<1>6. ASSUME NEW k \in Callers, NEW ok \in BOOLEAN, Persist(k, ok)
      PROVE  OnDisk(c)' = answered'[c] /\ (up' => pinned'[c] = answered'[c])
  <2>0. up /\ legacy' = <<>> /\ legacy = <<>> /\ DOMAIN legacy = {}
    BY <1>0, <1>6 DEF Persist, Stopped
  <2>1. CASE handlers[k].cid = c
    <3>1. ok /\ handlers[k].alone /\ answered'[c] = KindOf[handlers[k].op]
      BY <1>0, <1>6, <2>1 DEF Persist, HoldTypeOK
    <3>2. pinned[c] = KindOf[handlers[k].op]
      BY <1>0, <1>6, <2>1, <3>1 DEF Persist, AloneIsAlone, Serving
    <3>3. stored'[c] = KindOf[handlers[k].op]
      BY <1>0, <1>6, <2>1, <3>1 DEF Persist, Written, HoldTypeOK
    <3> QED
      BY <1>6, <2>0, <3>1, <3>2, <3>3 DEF Persist, OnDisk
  <2>2. CASE handlers[k].cid # c
    <3>1. InFlight(c) = {} /\ answered'[c] = answered[c]
      BY <1>0, <1>6, <2>2 DEF Persist, InFlight, HoldTypeOK
    <3>2. stored'[c] = stored[c] /\ pinned' = pinned
      BY <1>0, <1>6, <2>2 DEF Persist, Written, HoldTypeOK
    <3> QED
      BY <1>0, <2>0, <3>1, <3>2 DEF OnDisk
  <2> QED
    BY <2>1, <2>2
<1> QED
  BY <1>1, <1>2, <1>3, <1>4, <1>5, <1>6, Parts

-----------------------------------------------------------------------------
(* pins.go: what an answered pin or unpin promised is in the datastore, and*)
(* in memory while the node runs, through kills, failed writes and the     *)
(* migration of an older pinset.                                           *)
THEOREM PinsAreDurable == HoldSpec => []DurablePins
<1>1. HoldInv /\ [HoldNext]_holdVars => HoldInv'
  BY TypeHolds, StoppedHolds, AloneHolds, DurableHolds DEF HoldInv
<1>2. HoldInv => DurablePins
  BY DEF HoldInv
<1> QED
  BY <1>1, <1>2, InitHolds, PTL DEF HoldSpec

(* node.go: the provide queue stays within its capacity, and pins, calls   *)
(* and adverts keep their types.                                           *)
THEOREM HoldTypeCorrect == HoldSpec => []HoldTypeOK
<1>1. HoldInv /\ [HoldNext]_holdVars => HoldInv'
  BY TypeHolds, StoppedHolds, AloneHolds, DurableHolds DEF HoldInv
<1>2. HoldInv => HoldTypeOK
  BY DEF HoldInv
<1> QED
  BY <1>1, <1>2, InitHolds, PTL DEF HoldSpec
-----------------------------------------------------------------------------
(* Forwarding carries only true bytes, leaves no trace in a donor's own    *)
(* store and never multiplies requests, for any number of nodes, blocks,   *)
(* liars and connections.  The three need one another: what a node keeps   *)
(* it asked for, because every request stands for a fetch of its sender.   *)

Stores == [Nodes -> SUBSET (Blocks \X Blocks)]
Requests == [from : Nodes, to : Nodes, cid : Blocks, step : {"asked", "fetching", "served"},
             bytes : Blocks]

(* The part of the types that the proof needs, with the shape of a         *)
(* request.                                                                *)
Shapes ==
  /\ main \in Stores /\ fwd \in Stores
  /\ asks \subseteq Requests /\ wants \subseteq Nodes \X Blocks
  /\ wanted \in [Nodes -> SUBSET Blocks]

(* A fetch under way is remembered among what its node asked for.          *)
WantsWanted == \A w \in wants : w[2] \in wanted[w[1]]

(* A donor's store for others is finite, so that its size is a number.     *)
FiniteStores == \A n \in Nodes : IsFiniteSet(fwd[n])

ForwardInv == Shapes /\ WantsWanted /\ FiniteStores /\ ForwardSound

-----------------------------------------------------------------------------
(* Bounded: one entry more, or one in the place of another.                *)
LEMMA BoundedFits ==
  ASSUME NEW store, NEW entry, IsFiniteSet(store), Cardinality(store) <= FwdSize,
         NEW next \in Bounded(store, entry)
  PROVE  /\ next \subseteq store \cup {entry}
         /\ IsFiniteSet(next) /\ Cardinality(next) <= FwdSize
<1>1. Cardinality(store) \in Nat /\ FwdSize \in Nat
  BY FS_CardinalityType, ForwardAssumption
<1>2. CASE Cardinality(store) < FwdSize
  <2>1. next = store \cup {entry}
    BY <1>2 DEF Bounded
  <2> QED
    BY <2>1, <1>1, <1>2, FS_AddElement
<1>3. CASE ~(Cardinality(store) < FwdSize)
  <2>1. PICK e \in store : next = (store \ {e}) \cup {entry}
    BY <1>3 DEF Bounded
  <2> DEFINE rest == store \ {e}
  <2>2. IsFiniteSet(rest) /\ Cardinality(rest) = Cardinality(store) - 1
    BY FS_RemoveElement
  <2>3. /\ IsFiniteSet(rest \cup {entry})
        /\ Cardinality(rest \cup {entry}) =
             IF entry \in rest THEN Cardinality(rest) ELSE Cardinality(rest) + 1
    BY <2>2, FS_AddElement
  <2> QED
    BY <2>1, <2>2, <2>3, <1>1
<1> QED
  BY <1>2, <1>3

(* Requests go to nodes that are no seeds, on behalf of the node's fetch.  *)
LEMMA FetchAsks ==
  ASSUME NEW n \in Nodes, NEW c \in Blocks
  PROVE  /\ asks \subseteq FwdFetch(n, c)
         /\ \A a \in FwdFetch(n, c) \ asks :
              a \in Requests /\ a.from = n /\ a.cid = c /\ a.to \notin Seeds
BY DEF FwdFetch, FwdTargets, Requests

(* When a fetch is over, its requests are over too.                        *)
LEMMA SettleClean ==
  ASSUME NEW n, NEW c, Settle(n, c), NoAmplification
  PROVE  NoAmplification' /\ wants' \subseteq wants /\ asks' \subseteq asks
BY DEF Settle, NoAmplification

-----------------------------------------------------------------------------
LEMMA InitSound == ForwardInit => ForwardInv
<1> SUFFICES ASSUME ForwardInit PROVE ForwardInv
  OBVIOUS
<1>1. Shapes /\ WantsWanted /\ OnlyVerified /\ NoAmplification
  BY ForwardAssumption
  DEF ForwardInit, Shapes, Stores, WantsWanted, OnlyVerified, NoAmplification
<1>2. \A n \in Nodes : IsFiniteSet(fwd[n]) /\ Cardinality(fwd[n]) <= FwdSize
  BY FS_EmptySet, ForwardAssumption DEF ForwardInit
<1>3. \A n \in Nodes : \A e \in main[n] : e[1] \in Origin[n]
  BY DEF ForwardInit
<1> QED
  BY <1>1, <1>2, <1>3 DEF ForwardInv, ForwardSound, DonorsStayLean, FiniteStores

(* A step that leaves the stores alone, makes no request of its own and    *)
(* forgets only fetches without requests.                                  *)
LEMMA QuietStep ==
  ASSUME ForwardInv, UNCHANGED <<main, wanted>>, Shapes',
         \/ UNCHANGED fwd
         \/ \E n \in Nodes : fwd' = [fwd EXCEPT ![n] = {}],
         wants' \subseteq wants, NoAmplification'
  PROVE  ForwardInv'
<1> USE DEF ForwardInv, ForwardSound
<1>1. \A n \in Nodes : fwd'[n] = fwd[n] \/ fwd'[n] = {}
  BY DEF Shapes, Stores
<1>2. WantsWanted'
  BY DEF WantsWanted
<1>3. OnlyVerified'
  BY <1>1 DEF OnlyVerified
<1>4. FiniteStores' /\ DonorsStayLean'
  <2>1. \A n \in Nodes : IsFiniteSet(fwd'[n]) /\ Cardinality(fwd'[n]) <= FwdSize
    <3> TAKE n \in Nodes
    <3>1. CASE fwd'[n] = fwd[n]
      BY <3>1 DEF FiniteStores, DonorsStayLean
    <3>2. CASE fwd'[n] = {}
      BY <3>2, FS_EmptySet, ForwardAssumption
    <3> QED
      BY <1>1, <3>1, <3>2
  <2> QED
    BY <2>1 DEF FiniteStores, DonorsStayLean
<1> QED
  BY <1>2, <1>3, <1>4

(* A node keeps true bytes of a block it asked for, and its fetch is over. *)
LEMMA KeepStep ==
  ASSUME ForwardInv, NEW n \in Nodes, NEW c \in Blocks, <<n, c>> \in wants,
         main' = [main EXCEPT ![n] = @ \cup {<<c, c>>}], Settle(n, c),
         UNCHANGED <<fwd, wanted>>
  PROVE  ForwardInv'
<1> USE DEF ForwardInv, ForwardSound
<1>1. NoAmplification' /\ wants' \subseteq wants /\ asks' \subseteq asks
  BY SettleClean
<1>2. \A m \in Nodes : main'[m] = main[m] \/ (m = n /\ main'[m] = main[m] \cup {<<c, c>>})
  BY DEF Shapes, Stores
<1>3. c \in wanted[n]
  BY DEF WantsWanted
<1>4. Shapes' /\ WantsWanted' /\ FiniteStores'
  BY <1>1 DEF Shapes, Stores, WantsWanted, FiniteStores
<1>5. OnlyVerified'
  BY <1>2 DEF OnlyVerified
<1>6. DonorsStayLean'
  BY <1>2, <1>3 DEF DonorsStayLean
<1> QED
  BY <1>1, <1>4, <1>5, <1>6

-----------------------------------------------------------------------------
(* Every step of a fetch or a donor.                                       *)
LEMMA FetchStep ==
  ASSUME ForwardInv, NEW n \in Nodes, NEW c \in Blocks,
         AssistGet(n, c) \/ RawGet(n, c) \/ GiveUp(n, c)
  PROVE  ForwardInv'
<1> USE DEF ForwardInv, ForwardSound
<1>1. CASE AssistGet(n, c)
  <2>1. /\ asks \subseteq asks'
        /\ \A a \in asks' \ asks :
             a \in Requests /\ a.from = n /\ a.cid = c /\ a.to \notin Seeds
    BY <1>1, FetchAsks DEF AssistGet
  <2>2. wants' = wants \cup {<<n, c>>} /\ wanted' = [wanted EXCEPT ![n] = @ \cup {c}]
        /\ UNCHANGED <<main, fwd>>
    BY <1>1 DEF AssistGet
  <2>3. Shapes' /\ WantsWanted'
    BY <2>1, <2>2 DEF Shapes, WantsWanted
  <2>4. NoAmplification'
    BY <2>1, <2>2 DEF NoAmplification
  <2>5. OnlyVerified' /\ FiniteStores' /\ DonorsStayLean'
    BY <2>2 DEF OnlyVerified, FiniteStores, DonorsStayLean, Shapes
  <2> QED
    BY <2>3, <2>4, <2>5
<1>2. CASE RawGet(n, c)
  BY <1>2, KeepStep DEF RawGet
<1>3. CASE GiveUp(n, c)
  <2>1. NoAmplification' /\ wants' \subseteq wants /\ asks' \subseteq asks
    BY <1>3, SettleClean DEF GiveUp
  <2>2. UNCHANGED <<main, fwd, wanted>>
    BY <1>3 DEF GiveUp
  <2>3. Shapes'
    BY <2>1, <2>2 DEF Shapes
  <2> QED
    BY <2>1, <2>2, <2>3, QuietStep
<1> QED
  BY <1>1, <1>2, <1>3

(* A request that ends or goes a step further still stands for its fetch.  *)
LEMMA BecomeQuiet ==
  ASSUME ForwardInv, NEW a \in asks, NEW b \in Requests,
         b.from = a.from, b.to = a.to, b.cid = a.cid,
         asks' = Become(a, b) \/ asks' = asks \ {a}, UNCHANGED wants
  PROVE  NoAmplification' /\ asks' \subseteq Requests
BY DEF ForwardInv, ForwardSound, NoAmplification, Become, Shapes

LEMMA RequestStep ==
  ASSUME ForwardInv, NEW a \in asks,
         \/ Refuse(a) \/ Serve(a) \/ FwdServe(a) \/ DonorGot(a)
         \/ DonorMissed(a) \/ Lie(a) \/ FwdGot(a)
  PROVE  ForwardInv'
<1> USE DEF ForwardInv, ForwardSound
<1>0. a \in Requests
  BY DEF Shapes
<1>1. CASE Refuse(a) \/ DonorMissed(a)
  <2>1. asks' = asks \ {a} /\ UNCHANGED <<main, fwd, wants, wanted>>
    BY <1>1 DEF Refuse, DonorMissed
  <2> QED
    BY <2>1, <1>0, BecomeQuiet, QuietStep DEF Shapes
<1>2. CASE Serve(a)
  <2> DEFINE b == [a EXCEPT !.step = "served", !.bytes = BytesAt(a.to, a.cid)]
  <2>1. BytesAt(a.to, a.cid) \in Blocks
    BY <1>2 DEF Serve, Holds, BytesAt
  <2>2. b \in Requests /\ b.from = a.from /\ b.to = a.to /\ b.cid = a.cid
    BY <1>0, <2>1 DEF Requests
  <2>3. asks' = Become(a, b) /\ UNCHANGED <<main, fwd, wants, wanted>>
    BY <1>2 DEF Serve
  <2> HIDE DEF b
  <2> QED
    BY <2>2, <2>3, BecomeQuiet, QuietStep DEF Shapes
<1>3. CASE FwdServe(a)
  <2> DEFINE b == [a EXCEPT !.step = "fetching"]
  <2>1. b \in Requests /\ b.from = a.from /\ b.to = a.to /\ b.cid = a.cid
    BY <1>0 DEF Requests
  <2>2. asks' = Become(a, b) /\ UNCHANGED <<main, fwd, wants, wanted>>
    BY <1>3 DEF FwdServe, TransitiveAsks
  <2> HIDE DEF b
  <2> QED
    BY <2>1, <2>2, BecomeQuiet, QuietStep DEF Shapes
<1>4. CASE Lie(a)
  <2>1. PICK x \in Blocks : asks' = Become(a, [a EXCEPT !.step = "served", !.bytes = x])
    BY <1>4 DEF Lie
  <2> DEFINE b == [a EXCEPT !.step = "served", !.bytes = x]
  <2>2. b \in Requests /\ b.from = a.from /\ b.to = a.to /\ b.cid = a.cid
    BY <1>0 DEF Requests
  <2>3. asks' = Become(a, b) /\ UNCHANGED <<main, fwd, wants, wanted>>
    BY <1>4, <2>1 DEF Lie
  <2> HIDE DEF b
  <2> QED
    BY <2>2, <2>3, BecomeQuiet, QuietStep DEF Shapes
<1>5. CASE DonorGot(a)
  <2> DEFINE b == [a EXCEPT !.step = "served", !.bytes = a.cid]
             d == a.to
             entry == <<a.cid, a.cid>>
  <2>1. b \in Requests /\ b.from = a.from /\ b.to = a.to /\ b.cid = a.cid
    BY <1>0 DEF Requests
  <2>2. asks' = Become(a, b) /\ UNCHANGED <<main, wants, wanted>>
    BY <1>5 DEF DonorGot
  <2>3. NoAmplification' /\ asks' \subseteq Requests
    <3> HIDE DEF b
    <3> QED
      BY <2>1, <2>2, BecomeQuiet
  <2>4. PICK store \in Bounded(fwd[d], entry) : fwd' = [fwd EXCEPT ![d] = store]
    BY <1>5 DEF DonorGot
  <2>5. d \in Nodes /\ entry \in Blocks \X Blocks
    BY <1>0 DEF Requests
  <2>6. /\ store \subseteq fwd[d] \cup {entry}
        /\ IsFiniteSet(store) /\ Cardinality(store) <= FwdSize
    BY <2>4, <2>5, BoundedFits DEF FiniteStores, DonorsStayLean
  <2>7. \A n \in Nodes : fwd'[n] = IF n = d THEN store ELSE fwd[n]
    BY <2>4, <2>5 DEF Shapes, Stores
  <2>8. Shapes'
    BY <2>2, <2>3, <2>4, <2>5, <2>6 DEF Shapes, Stores
  <2>9. OnlyVerified'
    BY <2>2, <2>6, <2>7 DEF OnlyVerified
  <2>10. FiniteStores' /\ DonorsStayLean' /\ WantsWanted'
    BY <2>2, <2>6, <2>7 DEF FiniteStores, DonorsStayLean, WantsWanted
  <2> QED
    BY <2>3, <2>8, <2>9, <2>10
<1>6. CASE FwdGot(a)
  <2>1. CASE a.bytes = a.cid
    <3>1. /\ main' = [main EXCEPT ![a.from] = @ \cup {<<a.cid, a.cid>>}]
          /\ Settle(a.from, a.cid) /\ UNCHANGED <<fwd, wanted>>
      BY <1>6, <2>1 DEF FwdGot, BytesVerified
    <3>2. a.from \in Nodes /\ a.cid \in Blocks /\ <<a.from, a.cid>> \in wants
      BY <1>0 DEF Requests, NoAmplification
    <3> QED
      BY <3>1, <3>2, KeepStep
  <2>2. CASE a.bytes # a.cid
    <3>1. asks' = asks \ {a} /\ UNCHANGED <<main, fwd, wants, wanted>>
      BY <1>6, <2>2 DEF FwdGot, BytesVerified
    <3> QED
      BY <3>1, <1>0, BecomeQuiet, QuietStep DEF Shapes
  <2> QED
    BY <2>1, <2>2
<1> QED
  BY <1>1, <1>2, <1>3, <1>4, <1>5, <1>6

(* Expiry, providers met, connections and reachability.                    *)
LEMMA WorldStep ==
  ASSUME ForwardInv, UNCHANGED <<main, wants, asks, wanted>>,
         \/ UNCHANGED fwd
         \/ \E n \in Nodes : fwd' = [fwd EXCEPT ![n] = {}]
  PROVE  ForwardInv'
<1>1. Shapes'
  BY DEF ForwardInv, Shapes, Stores
<1>2. NoAmplification'
  BY DEF ForwardInv, ForwardSound, NoAmplification
<1> QED
  BY <1>1, <1>2, QuietStep

LEMMA NextSound == ForwardInv /\ [ForwardNext]_fwdVars => ForwardInv'
<1> SUFFICES ASSUME ForwardInv, [ForwardNext]_fwdVars PROVE ForwardInv'
  OBVIOUS
<1>1. ASSUME NEW n \in Nodes, NEW c \in Blocks,
             AssistGet(n, c) \/ RawGet(n, c) \/ GiveUp(n, c)
      PROVE  ForwardInv'
  BY <1>1, FetchStep
<1>2. ASSUME NEW a \in asks,
             \/ Refuse(a) \/ Serve(a) \/ FwdServe(a) \/ DonorGot(a)
             \/ DonorMissed(a) \/ Lie(a) \/ FwdGot(a)
      PROVE  ForwardInv'
  BY <1>2, RequestStep
<1>3. ASSUME NEW n \in Nodes, FwdExpires(n) \/ TurnPrivate(n)
      PROVE  ForwardInv'
  BY <1>3, WorldStep DEF FwdExpires, TurnPrivate
<1>4. ASSUME NEW n \in Nodes, NEW p \in Nodes, RecordProvider(n, p)
      PROVE  ForwardInv'
  BY <1>4, WorldStep DEF RecordProvider
<1>5. ASSUME NEW w \in Wires, HolePunched(w) \/ WireDrops(w)
      PROVE  ForwardInv'
  BY <1>5, WorldStep DEF HolePunched, WireDrops
<1>6. ASSUME UNCHANGED fwdVars PROVE ForwardInv'
  BY <1>6, WorldStep DEF fwdVars
<1> QED
  BY <1>1, <1>2, <1>3, <1>4, <1>5, <1>6 DEF ForwardNext

(* However many requests, donors and liars there are, fwd.go keeps only    *)
(* bytes that hash to their block, keeps what it carries for others out of *)
(* a donor's own store, and never asks on another's behalf.                *)
THEOREM ForwardingIsSound == ForwardSpec => []ForwardSound
<1>1. ForwardInv => ForwardSound
  BY DEF ForwardInv
<1> QED
  BY InitSound, NextSound, <1>1, PTL DEF ForwardSpec

-----------------------------------------------------------------------------
(* BlockFetch: the seed is asked after the donors, for any number of       *)
(* blocks fetched at once, of donors and of connections that come and go.  *)
(* While havers are tried, a donor of the fetch is one of them or refused. *)

FetchSteps == {"idle", "known", "ask", "pool", "seed", "broadcast", "done"}

AFetch == [step : FetchSteps, at : Int, cands : SUBSET Donors, yes : SUBSET Donors,
           refused : SUBSET Donors, cooled : BOOLEAN, tries : Nat]
FetchTypeOK == fetch \in [Wanted -> AFetch]

PoolAccounted ==
  \A b \in Wanted : fetch[b].step = "pool" =>
    fetch[b].cands \subseteq fetch[b].yes \cup fetch[b].refused

FetchInv == FetchTypeOK /\ time \in Nat /\ peers \subseteq Donors /\ PoolAccounted /\ DonorsFirst

(* What the invariant says of one fetch.                                   *)
WellAsked(f) ==
  /\ f \in AFetch
  /\ f.step = "pool" => f.cands \subseteq f.yes \cup f.refused
  /\ f.step \in {"seed", "broadcast"} => f.cands = {} \/ f.cooled \/ f.cands \subseteq f.refused

LEMMA FetchInvIs ==
  FetchInv <=> /\ time \in Nat /\ peers \subseteq Donors
               /\ fetch \in [Wanted -> AFetch] /\ \A b \in Wanted : WellAsked(fetch[b])
BY DEF FetchInv, FetchTypeOK, PoolAccounted, DonorsFirst, Exhausted, WellAsked, AFetch

(* A step of one fetch that leaves it well asked.                         *)
LEMMA OneFetch ==
  ASSUME FetchInv, NEW b \in Wanted, NEW f, WellAsked(f), fetch' = [fetch EXCEPT ![b] = f],
         UNCHANGED <<time, peers>>
  PROVE  FetchInv'
<1>1. fetch \in [Wanted -> AFetch] /\ \A c \in Wanted : WellAsked(fetch[c])
  BY FetchInvIs
<1>2. fetch' \in [Wanted -> AFetch] /\ \A c \in Wanted : WellAsked(fetch'[c])
  BY <1>1 DEF WellAsked
<1>3. time \in Nat /\ peers \subseteq Donors
  BY DEF FetchInv
<1> QED
  BY <1>2, <1>3 DEF FetchInv, FetchTypeOK, PoolAccounted, DonorsFirst, Exhausted, WellAsked, AFetch

LEMMA DiscoverKeeps ==
  ASSUME NEW f \in AFetch PROVE WellAsked(Discover(f))
BY DEF WellAsked, AFetch, Discover, FetchSteps

LEMMA RestIs == Rest \in AFetch /\ WellAsked([Rest EXCEPT !.step = "done"])
<1>1. {} \in SUBSET Donors /\ FALSE \in BOOLEAN /\ 0 \in Nat /\ 0 \in Int
  OBVIOUS
<1>2. "idle" \in FetchSteps /\ "done" \in FetchSteps
  BY DEF FetchSteps
<1>3. Rest \in AFetch
  BY <1>1, <1>2 DEF Rest, AFetch
<1>4. [Rest EXCEPT !.step = "done"] \in AFetch
  BY <1>2, <1>3 DEF AFetch
<1>5. [Rest EXCEPT !.step = "done"].step = "done"
  BY DEF Rest
<1> QED
  BY <1>3, <1>4, <1>5 DEF WellAsked

LEMMA FetchHolds == FetchInv /\ [BlockNext]_blockVars => FetchInv'
<1> SUFFICES ASSUME FetchInv, [BlockNext]_blockVars PROVE FetchInv'
  OBVIOUS
<1>0. time \in Nat /\ peers \subseteq Donors /\ fetch \in [Wanted -> AFetch]
      /\ \A b \in Wanted : WellAsked(fetch[b])
  BY FetchInvIs
<1>1. ASSUME UNCHANGED fetch, time' \in Nat, peers' \subseteq Donors PROVE FetchInv'
  BY <1>1 DEF FetchInv, FetchTypeOK, PoolAccounted, DonorsFirst, Exhausted
<1>2. ASSUME NEW b \in Wanted, NEW f, WellAsked(f), fetch' = [fetch EXCEPT ![b] = f],
             UNCHANGED <<time, peers>>
      PROVE  FetchInv'
  BY <1>2, OneFetch
<1>3. ASSUME NEW b \in Wanted, Start(b) PROVE FetchInv'
  <2> DEFINE f == [Rest EXCEPT !.at = time, !.cands = peers]
             g == IF peers = {} THEN [f EXCEPT !.step = "seed"]
                  ELSE IF Known(f) # {} THEN [f EXCEPT !.step = "known"]
                  ELSE Discover(f)
  <2>1. f \in AFetch /\ f.cands = peers
    <3>1. time \in Int /\ peers \in SUBSET Donors
      BY <1>0
    <3> QED
      BY <3>1, RestIs DEF AFetch
  <2>2. WellAsked([f EXCEPT !.step = "seed"]) \/ peers # {}
    BY <2>1 DEF WellAsked, AFetch, FetchSteps
  <2>3. WellAsked([f EXCEPT !.step = "known"])
    BY <2>1 DEF WellAsked, AFetch, FetchSteps
  <2>4. WellAsked(Discover(f))
    BY <2>1, DiscoverKeeps
  <2>5. fetch' = [fetch EXCEPT ![b] = g] /\ UNCHANGED <<time, peers>>
    BY <1>3 DEF Start
  <2>6. WellAsked(g)
    BY <2>2, <2>3, <2>4
  <2> QED
    BY <1>2, <2>5, <2>6
<1>4. ASSUME NEW b \in Wanted, KnownFails(b) PROVE FetchInv'
  <2>1. WellAsked(Discover(fetch[b]))
    BY <1>0, DiscoverKeeps
  <2>2. fetch' = [fetch EXCEPT ![b] = Discover(fetch[b])] /\ UNCHANGED <<time, peers>>
    BY <1>4 DEF KnownFails
  <2> QED
    BY <1>2, <2>1, <2>2
<1>5. ASSUME NEW b \in Wanted, fetch' = [fetch EXCEPT ![b] = [Rest EXCEPT !.step = "done"]],
             UNCHANGED <<time, peers>>
      PROVE  FetchInv'
  BY <1>2, <1>5, RestIs
<1>6. ASSUME NEW b \in Wanted, NEW d \in Donors, KnownDelivers(b, d) \/ PoolDelivers(b, d)
      PROVE  FetchInv'
  BY <1>5, <1>6 DEF KnownDelivers, PoolDelivers, Delivered
<1>7. ASSUME NEW b \in Wanted, SeedDelivers(b) \/ BroadcastDelivers(b) PROVE FetchInv'
  BY <1>5, <1>7 DEF SeedDelivers, BroadcastDelivers
<1>8. ASSUME NEW b \in Wanted, NEW d \in Donors, Answers(b, d) PROVE FetchInv'
  <2>1. fetch[b] \in AFetch /\ fetch[b].step = "ask" /\ UNCHANGED <<time, peers>>
    BY <1>0, <1>8 DEF Answers
  <2>2. CASE fetch' = [fetch EXCEPT ![b].yes = @ \cup {d}]
    <3>1. WellAsked([fetch[b] EXCEPT !.yes = @ \cup {d}])
      BY <2>1 DEF WellAsked, AFetch
    <3> QED
      BY <1>2, <2>1, <2>2, <3>1
  <2>3. CASE fetch' = [fetch EXCEPT ![b].refused = @ \cup {d}]
    <3>1. WellAsked([fetch[b] EXCEPT !.refused = @ \cup {d}])
      BY <2>1 DEF WellAsked, AFetch
    <3> QED
      BY <1>2, <2>1, <2>3, <3>1
  <2> QED
    BY <1>8, <2>2, <2>3 DEF Answers
<1>9. ASSUME NEW b \in Wanted, Heard(b) PROVE FetchInv'
  <2>1. fetch[b] \in AFetch /\ UNCHANGED <<time, peers>>
    BY <1>0, <1>9 DEF Heard
  <2>2. fetch[b].cands \subseteq fetch[b].yes \cup fetch[b].refused
    BY <1>9 DEF Heard, Unheard
  <2>3. CASE fetch[b].yes = {}
    <3>1. WellAsked([fetch[b] EXCEPT !.step = "seed"])
      BY <2>1, <2>2, <2>3 DEF WellAsked, AFetch, FetchSteps
    <3>2. fetch' = [fetch EXCEPT ![b].step = "seed"]
      BY <1>9, <2>3 DEF Heard
    <3> QED
      BY <1>2, <2>1, <3>1, <3>2
  <2>4. CASE fetch[b].yes # {}
    <3>1. WellAsked([fetch[b] EXCEPT !.step = "pool"])
      BY <2>1, <2>2 DEF WellAsked, AFetch, FetchSteps
    <3>2. fetch' = [fetch EXCEPT ![b].step = "pool"]
      BY <1>9, <2>4 DEF Heard
    <3> QED
      BY <1>2, <2>1, <3>1, <3>2
  <2> QED
    BY <2>3, <2>4
<1>10. ASSUME NEW b \in Wanted, NEW d \in Donors, PoolFails(b, d) PROVE FetchInv'
  <2>1. fetch[b] \in AFetch /\ WellAsked(fetch[b]) /\ fetch[b].step = "pool"
    BY <1>0, <1>10 DEF PoolFails
  <2>2. WellAsked(Dropped(fetch[b], d))
    BY <2>1 DEF WellAsked, AFetch, Dropped
  <2>3. fetch' = [fetch EXCEPT ![b] = Dropped(fetch[b], d)] /\ UNCHANGED <<time, peers>>
    BY <1>10 DEF PoolFails
  <2> QED
    BY <1>2, <2>2, <2>3
<1>11. ASSUME NEW b \in Wanted, PoolEmpty(b) PROVE FetchInv'
  <2>1. /\ fetch[b] \in AFetch /\ WellAsked(fetch[b]) /\ fetch[b].step = "pool" /\ fetch[b].yes = {}
        /\ UNCHANGED <<time, peers>> /\ fetch' = [fetch EXCEPT ![b].step = "seed"]
    BY <1>0, <1>11 DEF PoolEmpty
  <2>2. WellAsked([fetch[b] EXCEPT !.step = "seed"])
    BY <2>1 DEF WellAsked, AFetch, FetchSteps
  <2> QED
    BY <1>2, <2>1, <2>2
<1>12. ASSUME NEW b \in Wanted, SeedFails(b) PROVE FetchInv'
  <2>1. fetch[b] \in AFetch /\ WellAsked(fetch[b]) /\ fetch[b].step = "seed" /\ UNCHANGED <<time, peers>>
    BY <1>0, <1>12 DEF SeedFails
  <2>2. CASE fetch[b].tries + 1 < SeedAttempts
    <3>1. WellAsked([fetch[b] EXCEPT !.tries = @ + 1])
      BY <2>1 DEF WellAsked, AFetch
    <3>2. fetch' = [fetch EXCEPT ![b].tries = @ + 1]
      BY <1>12, <2>2 DEF SeedFails
    <3> QED
      BY <1>2, <2>1, <3>1, <3>2
  <2>3. CASE ~(fetch[b].tries + 1 < SeedAttempts)
    <3>1. WellAsked([fetch[b] EXCEPT !.step = "broadcast"])
      BY <2>1 DEF WellAsked, AFetch, FetchSteps
    <3>2. fetch' = [fetch EXCEPT ![b] = [fetch[b] EXCEPT !.step = "broadcast"]]
      BY <1>12, <2>3 DEF SeedFails
    <3> QED
      BY <1>2, <2>1, <3>1, <3>2
  <2> QED
    BY <2>2, <2>3
<1>13. CASE BlockTick
  BY <1>0, <1>1, <1>13 DEF BlockTick
<1>14. ASSUME NEW d \in Donors, Churn(d) PROVE FetchInv'
  BY <1>0, <1>1, <1>14 DEF Churn
<1>15. CASE UNCHANGED blockVars
  BY <1>0, <1>1, <1>15 DEF blockVars
<1> QED
  BY <1>3, <1>4, <1>6, <1>7, <1>8, <1>9, <1>10, <1>11, <1>12, <1>13, <1>14, <1>15
     DEF BlockNext, Progress

(* A fetch turns to the seed only when nobody else was connected, when the *)
(* cooldown of an empty round says so, or when every donor connected then  *)
(* refused, kept silent or failed to deliver (get in blockfetch.ts).       *)
THEOREM SeedAskedLast == BlockSpec => []DonorsFirst
<1>1. BlockInit => FetchInv
  <2> SUFFICES ASSUME BlockInit PROVE FetchInv
    OBVIOUS
  <2>1. \A b \in Wanted : fetch[b] = Rest
    BY DEF BlockInit
  <2>2. Rest \in AFetch /\ Rest.step = "idle"
    BY RestIs DEF Rest
  <2> QED
    BY <2>1, <2>2 DEF BlockInit, FetchInv, FetchTypeOK, PoolAccounted, DonorsFirst
<1>2. FetchInv => DonorsFirst
  BY DEF FetchInv
<1> QED
  BY <1>1, <1>2, FetchHolds, PTL DEF BlockSpec

-----------------------------------------------------------------------------
(* Disclosure: what a remote node counts, for any number of names, origins,*)
(* beacons and pushes.  A beacon recorded for an origin is no later than   *)
(* its last disclosure of the name, and the recorded ones inside the window*)
(* fit the cap.  The streams that have passed the cooldown of a name, and  *)
(* the re-announces made since it began, are together no more than the     *)
(* streams: while the name is not cooling nothing was re-announced.        *)

Times == Nat \cup {Unposted}
HeardFrom(n) == {o \in Origins : Since(ledger[n][o], Window)}
DisclosedBy(n) == {o \in Origins : Since(disclosed[n][o], Window)}
Passed(n) == {s \in Streams : wantOf[s].step \in {"record", "publish"} /\ wantOf[s].name = n}

APush == [step : {"idle", "post", "kick", "reply"}, set : SUBSET Names, alone : BOOLEAN]
ManifestInv == /\ library \subseteq Names /\ manifest \subseteq Names
               /\ pushes \in [Pushers -> APush]

BeaconTypeOK ==
  /\ clock \in Nat
  /\ ledger \in [Names -> [Origins -> Times]]
  /\ disclosed \in [Names -> [Origins -> Times]]

LedgerHonest == \A n \in Names, o \in Origins : ledger[n][o] # Unposted =>
  disclosed[n][o] # Unposted /\ ledger[n][o] <= disclosed[n][o] /\ disclosed[n][o] <= clock

LedgerCapped == \A n \in Names : Cardinality(HeardFrom(n)) <= OriginCap

AWant == [step : {"idle", "listed", "cool", "record", "publish"}, name : Names \cup {NoWant.name}]
WantTypeOK == wantOf \in [Streams -> AWant] /\ relayed \in [Names -> Nat]

CooldownHolds == \A n \in Names :
  /\ n \notin cooling =>
       relayed[n] = 0 /\ \A s \in Streams : wantOf[s].step = "publish" => wantOf[s].name # n
  /\ relayed[n] + Cardinality(Passed(n)) <= Cardinality(Streams)

BeaconInv == BeaconTypeOK /\ LedgerHonest /\ LedgerCapped
WantInv == WantTypeOK /\ CooldownHolds

-----------------------------------------------------------------------------
LEMMA OriginsFinite == IsFiniteSet(Origins)
<1>1. IsFiniteSet(Others \cup {Us})
  BY DisclosureAssumption, FS_AddElement
<1>2. Origins = Others \cup {Us}
  BY DEF Origins
<1> QED
  BY <1>1, <1>2

LEMMA Bounds == Window \in Nat /\ OriginCap \in Nat /\ OriginCap > 0 /\ Unposted \notin Nat
BY DisclosureAssumption

LEMMA Smaller ==
  ASSUME NEW S, NEW T, IsFiniteSet(T), S \subseteq T
  PROVE  /\ IsFiniteSet(S) /\ Cardinality(S) \in Nat /\ Cardinality(T) \in Nat
         /\ Cardinality(S) <= Cardinality(T)
BY FS_Subset, FS_CardinalityType

(* An origin more in a set that has room.                                  *)
LEMMA OneMore ==
  ASSUME NEW S, NEW T, NEW x, IsFiniteSet(T), S \subseteq T \cup {x}
  PROVE  /\ IsFiniteSet(S) /\ Cardinality(S) \in Nat
         /\ Cardinality(S) <= Cardinality(T) + 1
<1>1. Cardinality(T) \in Nat
  BY FS_CardinalityType
<1>2. IsFiniteSet(T \cup {x})
      /\ Cardinality(T \cup {x}) = IF x \in T THEN Cardinality(T) ELSE Cardinality(T) + 1
  BY FS_AddElement
<1>3. Cardinality(S) \in Nat /\ IsFiniteSet(S) /\ Cardinality(S) <= Cardinality(T \cup {x})
  BY <1>2, Smaller
<1> QED
  BY <1>1, <1>2, <1>3

(* The heart of the remote sink: it never records more than the cap.       *)
LEMMA HeardKeepsCap ==
  ASSUME BeaconInv, NEW o \in Origins, NEW names \in SUBSET Names, UNCHANGED clock,
         BeaconHeard(o, names)
  PROVE  /\ ledger' \in [Names -> [Origins -> Times]]
         /\ LedgerCapped'
         /\ \A n \in Names, q \in Origins :
              ledger'[n][q] \in {ledger[n][q], Unposted} \/ (q = o /\ n \in names /\ ledger'[n][q] = clock)
<1>0. BeaconTypeOK /\ LedgerCapped
  BY DEF BeaconInv
<1>1. CASE Recent(hearings[o])
  <2>1. ledger' = ledger
    BY <1>1 DEF BeaconHeard
  <2> QED
    BY <1>0, <2>1 DEF BeaconTypeOK, LedgerCapped, HeardFrom, Since
<1>2. CASE ~Recent(hearings[o])
  <2>1. ledger' = [n \in Names |->
            IF n \notin names THEN ledger[n]
            ELSE IF Room(n, o) THEN [Pruned(n) EXCEPT ![o] = clock] ELSE Pruned(n)]
    BY <1>2 DEF BeaconHeard
  <2>2. ASSUME NEW n \in Names PROVE Pruned(n) \in [Origins -> Times]
    BY <1>0 DEF Pruned, BeaconTypeOK, Times
  <2>3. clock \in Times /\ clock # Unposted
    BY <1>0, Bounds DEF BeaconTypeOK, Times
  <2>4. ASSUME NEW n \in Names
        PROVE  /\ ledger'[n] \in [Origins -> Times]
               /\ \A q \in Origins : ledger'[n][q] \in {ledger[n][q], Unposted}
                                     \/ (q = o /\ n \in names /\ ledger'[n][q] = clock)
    <3>1. CASE n \notin names
      BY <1>0, <2>1, <3>1 DEF BeaconTypeOK
    <3>2. CASE n \in names /\ Room(n, o)
      <4>1. ledger'[n] = [Pruned(n) EXCEPT ![o] = clock]
        BY <2>1, <3>2
      <4> QED
        BY <2>2, <2>3, <3>2, <4>1 DEF Pruned
    <3>3. CASE n \in names /\ ~Room(n, o)
      <4>1. ledger'[n] = Pruned(n)
        BY <2>1, <3>3
      <4> QED
        BY <2>2, <4>1 DEF Pruned
    <3> QED
      BY <3>1, <3>2, <3>3
  <2>5. ASSUME NEW n \in Names PROVE Cardinality(HeardFrom(n)') <= OriginCap
    <3> DEFINE kept == {q \in Origins : Pruned(n)[q] # Unposted}
    <3>1. kept = HeardFrom(n)
      BY DEF Pruned, HeardFrom, Since
    <3>2. HeardFrom(n) \subseteq Origins /\ IsFiniteSet(HeardFrom(n))
      BY OriginsFinite, Smaller DEF HeardFrom
    <3>3. Cardinality(HeardFrom(n)) \in Nat /\ Cardinality(HeardFrom(n)) <= OriginCap
      BY <1>0, <3>2, FS_CardinalityType DEF LedgerCapped
    <3>4. HeardFrom(n)' \subseteq HeardFrom(n) \cup {o}
      <4>1. ASSUME NEW q \in HeardFrom(n)', q # o PROVE q \in HeardFrom(n)
        BY <2>4, <4>1 DEF HeardFrom, Since
      <4> QED
        BY <4>1
    <3>5. CASE HeardFrom(n)' \subseteq HeardFrom(n)
      BY <3>2, <3>3, <3>5, Smaller, Bounds
    <3>6. CASE ~(HeardFrom(n)' \subseteq HeardFrom(n))
      <4>1. o \in HeardFrom(n)' /\ o \notin HeardFrom(n)
        BY <3>4, <3>6
      <4>2. n \in names
        BY <1>0, <2>1, <4>1 DEF HeardFrom, Since
      <4>3. ledger'[n][o] # Unposted
        BY <4>1 DEF HeardFrom, Since
      <4>4. Room(n, o)
        <5>1. SUFFICES ASSUME ~Room(n, o) PROVE FALSE
          OBVIOUS
        <5>2. ledger'[n] = Pruned(n)
          BY <2>1, <4>2, <5>1
        <5>3. o \in kept
          BY <4>3, <5>2
        <5> QED
          BY <3>1, <4>1, <5>3
      <4>5. Cardinality(HeardFrom(n)) < OriginCap
        BY <3>1, <4>1, <4>4 DEF Room
      <4> QED
        <5>1. Cardinality(HeardFrom(n)') \in Nat
              /\ Cardinality(HeardFrom(n)') <= Cardinality(HeardFrom(n)) + 1
          BY <3>2, <3>4, OneMore
        <5> QED
          BY <3>3, <4>5, <5>1, Bounds
    <3> QED
      BY <3>5, <3>6
  <2>6. ledger' \in [Names -> [Origins -> Times]]
    BY <2>1, <2>4
  <2> QED
    BY <2>4, <2>5, <2>6 DEF LedgerCapped
<1> QED
  BY <1>1, <1>2

(* An origin discloses names, and the remote node hears it or not.         *)
LEMMA BeaconStep ==
  ASSUME BeaconInv, NEW o \in Origins, NEW names \in SUBSET Names, UNCHANGED clock,
         disclosed' = [n \in Names |-> IF n \in names THEN [disclosed[n] EXCEPT ![o] = clock]
                                       ELSE disclosed[n]],
         BeaconHeard(o, names) \/ UNCHANGED ledger
  PROVE  BeaconInv'
<1>0. BeaconTypeOK /\ LedgerHonest /\ LedgerCapped /\ clock \in Nat
  BY DEF BeaconInv, BeaconTypeOK
<1>1. clock \in Times /\ clock # Unposted
  BY <1>0, Bounds DEF Times
<1>2. ASSUME NEW n \in Names
      PROVE  /\ disclosed'[n] \in [Origins -> Times]
             /\ \A q \in Origins : disclosed'[n][q] = IF n \in names /\ q = o THEN clock
                                                      ELSE disclosed[n][q]
  BY <1>0, <1>1 DEF BeaconTypeOK
<1>3. disclosed' \in [Names -> [Origins -> Times]]
  BY <1>2
<1>4. /\ ledger' \in [Names -> [Origins -> Times]] /\ LedgerCapped'
      /\ \A n \in Names, q \in Origins :
           ledger'[n][q] \in {ledger[n][q], Unposted} \/ (q = o /\ n \in names /\ ledger'[n][q] = clock)
  <2>1. CASE BeaconHeard(o, names)
    BY <2>1, HeardKeepsCap
  <2>2. CASE UNCHANGED ledger
    BY <1>0, <2>2 DEF BeaconTypeOK, LedgerCapped, HeardFrom, Since
  <2> QED
    BY <2>1, <2>2
<1>5. ASSUME NEW n \in Names, NEW q \in Origins, ledger'[n][q] # Unposted
      PROVE  disclosed'[n][q] # Unposted /\ ledger'[n][q] <= disclosed'[n][q]
             /\ disclosed'[n][q] <= clock'
  <2>1. CASE n \in names /\ q = o
    <3>1. disclosed'[n][q] = clock
      BY <1>2, <2>1
    <3>2. ledger'[n][q] = clock \/ ledger'[n][q] = ledger[n][q]
      BY <1>4, <1>5
    <3>3. ledger[n][q] # Unposted => ledger[n][q] <= clock
      <4>1. ledger[n][q] \in Times /\ disclosed[n][q] \in Times
        BY <1>0 DEF BeaconTypeOK
      <4> QED
        BY <1>0, <4>1 DEF LedgerHonest, Times
    <3> QED
      BY <1>0, <1>1, <1>5, <3>1, <3>2, <3>3
  <2>2. CASE ~(n \in names /\ q = o)
    <3>1. disclosed'[n][q] = disclosed[n][q] /\ ledger'[n][q] = ledger[n][q]
      BY <1>2, <1>4, <1>5, <2>2
    <3> QED
      BY <1>0, <1>5, <3>1 DEF LedgerHonest
  <2> QED
    BY <2>1, <2>2
<1> QED
  BY <1>0, <1>3, <1>4, <1>5 DEF BeaconInv, BeaconTypeOK, LedgerHonest

LEMMA BeaconsQuiet ==
  ASSUME BeaconInv, UNCHANGED <<clock, ledger, disclosed>> PROVE BeaconInv'
BY DEF BeaconInv, BeaconTypeOK, LedgerHonest, LedgerCapped, HeardFrom, Since

LEMMA BeaconsHold == BeaconInv /\ ManifestInv /\ [DiscNext]_discVars => BeaconInv'
<1> SUFFICES ASSUME BeaconInv, ManifestInv, [DiscNext]_discVars PROVE BeaconInv'
  OBVIOUS
<1>1. ASSUME PublishBeacon, UNCHANGED clock PROVE BeaconInv'
  <2>1. CASE manifest = {}
    BY <1>1, <2>1, BeaconsQuiet DEF PublishBeacon
  <2>2. CASE manifest # {}
    <3>1. Us \in Origins /\ manifest \subseteq Names
      BY DEF Origins, ManifestInv
    <3> QED
      BY <1>1, <2>2, <3>1, BeaconStep DEF PublishBeacon
  <2> QED
    BY <2>1, <2>2
<1>2. ASSUME NEW p \in Pushers, PushStep(p) \/ PushFails(p) PROVE BeaconInv'
  <2>1. CASE PushManifest(p) \/ SetManifest(p) \/ PushDone(p) \/ PushFails(p)
    BY <2>1, BeaconsQuiet DEF PushManifest, SetManifest, PushDone, PushFails
  <2>2. CASE KickBeacon(p)
    BY <1>1, <2>2, BeaconsQuiet DEF KickBeacon
  <2> QED
    BY <1>2, <2>1, <2>2 DEF PushStep
<1>3. CASE BeaconCycle
  BY <1>1, <1>3 DEF BeaconCycle
<1>4. ASSUME NEW o \in Others, NEW names \in (SUBSET Names) \ {{}}, OtherBeacon(o, names)
      PROVE  BeaconInv'
  BY <1>4, BeaconStep DEF OtherBeacon, Origins
<1>5. CASE DiscTick
  <2>0. BeaconTypeOK /\ LedgerHonest /\ LedgerCapped /\ clock \in Nat
    BY DEF BeaconInv, BeaconTypeOK
  <2>1. clock' = clock + 1 /\ ledger' = ledger /\ disclosed' = disclosed
    BY <1>5 DEF DiscTick
  <2>2. BeaconTypeOK'
    BY <2>0, <2>1 DEF BeaconTypeOK
  <2>3. LedgerHonest'
    <3>1. ASSUME NEW n \in Names, NEW o \in Origins, ledger[n][o] # Unposted
          PROVE  disclosed[n][o] <= clock + 1
      <4>1. disclosed[n][o] \in Nat /\ disclosed[n][o] <= clock
        BY <2>0, <3>1 DEF BeaconTypeOK, LedgerHonest, Times
      <4> QED
        BY <2>0, <4>1
    <3> QED
      BY <2>0, <2>1, <3>1 DEF LedgerHonest
  <2>4. ASSUME NEW n \in Names PROVE Cardinality(HeardFrom(n)') <= OriginCap
    <3>1. HeardFrom(n)' \subseteq HeardFrom(n)
      <4>1. ASSUME NEW o \in HeardFrom(n)' PROVE o \in HeardFrom(n)
        <5>1. o \in Origins /\ ledger'[n][o] # Unposted /\ clock' - ledger'[n][o] <= Window
          BY <4>1 DEF HeardFrom, Since
        <5>2. ledger[n][o] \in Nat
          BY <2>0, <2>1, <5>1 DEF BeaconTypeOK, Times
        <5>3. clock - ledger[n][o] <= Window
          BY <2>0, <2>1, <5>1, <5>2, Bounds
        <5> QED
          BY <2>1, <5>1, <5>3 DEF HeardFrom, Since
      <4> QED
        BY <4>1
    <3>2. HeardFrom(n) \subseteq Origins /\ IsFiniteSet(HeardFrom(n))
      BY OriginsFinite, Smaller DEF HeardFrom
    <3>3. Cardinality(HeardFrom(n)) <= OriginCap
      BY <2>0 DEF LedgerCapped
    <3> QED
      BY <3>1, <3>2, <3>3, Smaller, Bounds
  <2> QED
    BY <2>2, <2>3, <2>4 DEF BeaconInv, LedgerCapped
<1>6. CASE \/ \E n \in Names : LibraryEdit(n)
           \/ \E s \in Streams : \/ \E n \in Names : AskPeer(s, n)
                                \/ WantListed(s) \/ WantChecked(s) \/ WantRecorded(s)
                                \/ \E ok \in BOOLEAN : Reannounce(s, ok)
  BY <1>6, BeaconsQuiet
     DEF LibraryEdit, AskPeer, WantListed, WantChecked, WantRecorded, Reannounce
<1>7. CASE UNCHANGED discVars
  BY <1>7, BeaconsQuiet DEF discVars
<1> QED
  BY <1>2, <1>3, <1>4, <1>5, <1>6, <1>7 DEF DiscNext

LEMMA ManifestHolds == ManifestInv /\ [DiscNext]_discVars => ManifestInv'
<1> SUFFICES ASSUME ManifestInv, [DiscNext]_discVars PROVE ManifestInv'
  OBVIOUS
<1> USE DEF ManifestInv
<1>1. ASSUME NEW n \in Names, LibraryEdit(n) PROVE ManifestInv'
  BY <1>1 DEF LibraryEdit
<1>2. ASSUME NEW p \in Pushers, PushManifest(p) PROVE ManifestInv'
  <2>1. ASSUME NEW q \in Pushers
        PROVE  /\ [step |-> "post", set |-> library, alone |-> ~\E r \in Pushers : Busy(r)] \in APush
               /\ [pushes[q] EXCEPT !.alone = FALSE] \in APush
    BY DEF APush
  <2> QED
    BY <1>2, <2>1 DEF PushManifest
<1>3. ASSUME NEW p \in Pushers, NEW s \in {"kick", "reply"}, pushes' = [pushes EXCEPT ![p].step = s]
      PROVE  pushes' \in [Pushers -> APush]
  BY <1>3 DEF APush
<1>4. ASSUME NEW p \in Pushers, SetManifest(p) \/ KickBeacon(p) PROVE ManifestInv'
  <2>1. pushes[p].set \subseteq Names
    BY DEF APush
  <2> QED
    BY <1>3, <1>4, <2>1 DEF SetManifest, KickBeacon
<1>5. ASSUME NEW p \in Pushers, PushDone(p) \/ PushFails(p) PROVE ManifestInv'
  <2>1. NoPush \in APush
    BY DEF NoPush, APush
  <2> QED
    BY <1>5, <2>1 DEF PushDone, PushFails
<1>6. ASSUME UNCHANGED <<library, manifest, pushes>> PROVE ManifestInv'
  BY <1>6
<1>7. CASE \/ BeaconCycle \/ DiscTick
           \/ \E o \in Others, names \in (SUBSET Names) \ {{}} : OtherBeacon(o, names)
           \/ \E s \in Streams : \/ \E n \in Names : AskPeer(s, n)
                                \/ WantListed(s) \/ WantChecked(s) \/ WantRecorded(s)
                                \/ \E ok \in BOOLEAN : Reannounce(s, ok)
           \/ UNCHANGED discVars
  BY <1>6, <1>7
     DEF BeaconCycle, DiscTick, OtherBeacon, AskPeer, WantListed, WantChecked, WantRecorded,
         Reannounce, discVars
<1> QED
  BY <1>1, <1>2, <1>4, <1>5, <1>7 DEF DiscNext, PushStep

-----------------------------------------------------------------------------
LEMMA StreamsFinite ==
  /\ IsFiniteSet(Streams) /\ Cardinality(Streams) \in Nat
  /\ \A n : /\ IsFiniteSet(Passed(n)) /\ Cardinality(Passed(n)) \in Nat
             /\ Cardinality(Passed(n)) <= Cardinality(Streams)
<1>1. IsFiniteSet(Streams) /\ Cardinality(Streams) \in Nat
  BY DisclosureAssumption, FS_CardinalityType
<1>2. ASSUME NEW n
      PROVE  /\ IsFiniteSet(Passed(n)) /\ Cardinality(Passed(n)) \in Nat
             /\ Cardinality(Passed(n)) <= Cardinality(Streams)
  <2>1. Passed(n) \subseteq Streams
    BY DEF Passed
  <2> QED
    BY <1>1, <2>1, Smaller
<1> QED
  BY <1>1, <1>2

(* A step that lets no stream pass and re-announces nothing.               *)
LEMMA NobodyPasses ==
  ASSUME WantInv, WantTypeOK', UNCHANGED <<relayed, cooling>>,
         \A n \in Names : Passed(n)' \subseteq Passed(n),
         \A s \in Streams : wantOf'[s].step = "publish" => wantOf'[s] = wantOf[s]
  PROVE  WantInv'
<1>1. ASSUME NEW n \in Names
      PROVE  relayed[n] + Cardinality(Passed(n)') <= Cardinality(Streams)
  <2>1. relayed[n] \in Nat /\ relayed[n] + Cardinality(Passed(n)) <= Cardinality(Streams)
    BY DEF WantInv, WantTypeOK, CooldownHolds
  <2>2. Cardinality(Passed(n)') \in Nat /\ Cardinality(Passed(n)') <= Cardinality(Passed(n))
    BY StreamsFinite, Smaller
  <2> QED
    BY <2>1, <2>2, StreamsFinite
<1> QED
  BY <1>1 DEF WantInv, CooldownHolds

LEMMA NoWantIs == NoWant \in AWant /\ NoWant.step = "idle"
BY DEF NoWant, AWant

LEMMA WantsHold == WantInv /\ [DiscNext]_discVars => WantInv'
<1> SUFFICES ASSUME WantInv, [DiscNext]_discVars PROVE WantInv'
  OBVIOUS
<1>0. wantOf \in [Streams -> AWant] /\ relayed \in [Names -> Nat] /\ CooldownHolds
  BY DEF WantInv, WantTypeOK
<1>1. ASSUME UNCHANGED <<wantOf, relayed, cooling>> PROVE WantInv'
  BY <1>1 DEF WantInv, WantTypeOK, CooldownHolds, Passed
\* One stream moves on, and passes no name.
<1>2. ASSUME NEW s \in Streams, NEW w \in AWant, w.step \in {"idle", "listed", "cool"},
             wantOf' = [wantOf EXCEPT ![s] = w], UNCHANGED <<relayed, cooling>>
      PROVE  WantInv'
  <2>1. WantTypeOK'
    BY <1>0, <1>2 DEF WantTypeOK
  <2>2. \A q \in Streams : wantOf'[q] = IF q = s THEN w ELSE wantOf[q]
    BY <1>0, <1>2
  <2>3. \A n \in Names : Passed(n)' \subseteq Passed(n)
    BY <1>2, <2>2 DEF Passed
  <2> QED
    BY <1>2, <2>1, <2>2, <2>3, NobodyPasses
<1>3. ASSUME NEW s \in Streams, NEW n \in Names, AskPeer(s, n) PROVE WantInv'
  <2>1. [step |-> "listed", name |-> n] \in AWant
    BY DEF AWant
  <2> QED
    BY <1>2, <1>3, <2>1 DEF AskPeer
<1>4. ASSUME NEW s \in Streams, WantListed(s) PROVE WantInv'
  <2>1. [wantOf[s] EXCEPT !.step = "cool"] \in AWant
        /\ [wantOf[s] EXCEPT !.step = "cool"].step = "cool"
    BY <1>0 DEF AWant
  <2> QED
    BY <1>2, <1>4, <2>1, NoWantIs DEF WantListed
<1>5. ASSUME NEW s \in Streams, WantChecked(s) PROVE WantInv'
  <2>1. CASE ~WantCooled(wantOf[s].name)
    BY <1>2, <1>5, <2>1, NoWantIs DEF WantChecked
  <2>2. CASE WantCooled(wantOf[s].name)
    <3> DEFINE w == [wantOf[s] EXCEPT !.step = "record"]
    <3>1. w \in AWant /\ w.step = "record" /\ w.name = wantOf[s].name
      BY <1>0 DEF AWant
    <3>2. wantOf' = [wantOf EXCEPT ![s] = w] /\ UNCHANGED <<relayed, cooling>>
      BY <1>5, <2>2 DEF WantChecked
    <3>3. \A q \in Streams : wantOf'[q] = IF q = s THEN w ELSE wantOf[q]
      BY <1>0, <3>2
    <3>4. WantTypeOK'
      BY <1>0, <3>1, <3>2 DEF WantTypeOK
    <3>5. ASSUME NEW n \in Names, n \notin cooling
          PROVE  relayed[n] = 0 /\ \A q \in Streams : wantOf'[q].step = "publish" => wantOf'[q].name # n
      BY <1>0, <3>1, <3>3, <3>5 DEF CooldownHolds
    <3>6. ASSUME NEW n \in Names
          PROVE  relayed[n] + Cardinality(Passed(n)') <= Cardinality(Streams)
      <4>1. CASE n \notin cooling
        <5>1. relayed[n] = 0
          BY <3>5, <4>1
        <5>2. Passed(n)' \subseteq Streams
          BY DEF Passed
        <5> QED
          BY <5>1, <5>2, StreamsFinite, Smaller
      <4>2. CASE n \in cooling
        <5>1. n # wantOf[s].name
          BY <2>2, <4>2 DEF WantCooled
        <5>2. Passed(n)' \subseteq Passed(n)
          BY <3>1, <3>3, <5>1 DEF Passed
        <5>3. Cardinality(Passed(n)') \in Nat /\ Cardinality(Passed(n)') <= Cardinality(Passed(n))
          BY <5>2, StreamsFinite, Smaller
        <5>4. relayed[n] \in Nat /\ relayed[n] + Cardinality(Passed(n)) <= Cardinality(Streams)
          BY <1>0 DEF CooldownHolds
        <5> QED
          BY <5>3, <5>4, StreamsFinite
      <4> QED
        BY <4>1, <4>2
    <3> QED
      BY <3>2, <3>4, <3>5, <3>6 DEF WantInv, CooldownHolds
  <2> QED
    BY <2>1, <2>2
<1>6. ASSUME NEW s \in Streams, WantRecorded(s) PROVE WantInv'
  <2> DEFINE w == [wantOf[s] EXCEPT !.step = "publish"]
  <2>1. w \in AWant /\ w.step = "publish" /\ w.name = wantOf[s].name /\ wantOf[s].step = "record"
    BY <1>0, <1>6 DEF AWant, WantRecorded
  <2>2. /\ wantOf' = [wantOf EXCEPT ![s] = w] /\ relayed' = relayed
        /\ cooling' = cooling \cup {wantOf[s].name}
    BY <1>6 DEF WantRecorded
  <2>3. \A q \in Streams : wantOf'[q] = IF q = s THEN w ELSE wantOf[q]
    BY <1>0, <2>2
  <2>4. WantTypeOK'
    BY <1>0, <2>1, <2>2 DEF WantTypeOK
  <2>5. \A n \in Names : Passed(n)' = Passed(n)
    BY <2>1, <2>3 DEF Passed
  <2>6. ASSUME NEW n \in Names, n \notin cooling'
        PROVE  relayed[n] = 0 /\ \A q \in Streams : wantOf'[q].step = "publish" => wantOf'[q].name # n
    BY <1>0, <2>1, <2>2, <2>3, <2>6 DEF CooldownHolds
  <2> QED
    BY <1>0, <2>2, <2>4, <2>5, <2>6 DEF WantInv, CooldownHolds
<1>7. ASSUME NEW s \in Streams, NEW ok \in BOOLEAN, Reannounce(s, ok) PROVE WantInv'
  <2>1. /\ wantOf[s].step = "publish" /\ wantOf' = [wantOf EXCEPT ![s] = NoWant]
        /\ relayed' = IF ok THEN [relayed EXCEPT ![wantOf[s].name] = @ + 1] ELSE relayed
        /\ cooling' = cooling
    BY <1>7 DEF Reannounce
  <2>2. \A q \in Streams : wantOf'[q] = IF q = s THEN NoWant ELSE wantOf[q]
    BY <1>0, <2>1
  <2>3. \A n \in Names : /\ relayed'[n] \in {relayed[n], relayed[n] + 1}
                         /\ n # wantOf[s].name => relayed'[n] = relayed[n]
    BY <1>0, <2>1
  <2>4. WantTypeOK'
    <3>1. wantOf' \in [Streams -> AWant]
      BY <1>0, <2>1, NoWantIs
    <3>2. relayed' \in [Names -> Nat]
      <4>1. \A n \in Names : relayed[n] \in Nat /\ relayed[n] + 1 \in Nat
        BY <1>0
      <4>2. \A n \in Names : relayed'[n] \in Nat
        BY <2>3, <4>1
      <4>3. relayed' = [n \in Names |-> relayed'[n]]
        BY <1>0, <2>1
      <4> QED
        BY <4>2, <4>3
    <3> QED
      BY <3>1, <3>2 DEF WantTypeOK
  <2>5. ASSUME NEW n \in Names, n \notin cooling
        PROVE  relayed'[n] = 0 /\ \A q \in Streams : wantOf'[q].step = "publish" => wantOf'[q].name # n
    <3>1. n # wantOf[s].name
      BY <1>0, <2>1, <2>5 DEF CooldownHolds
    <3> QED
      BY <1>0, <2>2, <2>3, <2>5, <3>1, NoWantIs DEF CooldownHolds
  <2>6. ASSUME NEW n \in Names
        PROVE  relayed'[n] + Cardinality(Passed(n)') <= Cardinality(Streams)
    <3>1. relayed[n] \in Nat /\ relayed[n] + Cardinality(Passed(n)) <= Cardinality(Streams)
      BY <1>0 DEF CooldownHolds
    <3>2. Passed(n)' = Passed(n) \ {s}
      BY <2>2, NoWantIs DEF Passed
    <3>3. /\ Cardinality(Passed(n)) \in Nat
          /\ Cardinality(Passed(n) \ {s}) = IF s \in Passed(n) THEN Cardinality(Passed(n)) - 1
                                                           ELSE Cardinality(Passed(n))
      BY StreamsFinite, FS_RemoveElement
    <3>4. s \in Passed(n) <=> n = wantOf[s].name
      BY <2>1 DEF Passed
    <3> QED
      BY <2>3, <3>1, <3>2, <3>3, <3>4, StreamsFinite
  <2> QED
    BY <2>1, <2>4, <2>5, <2>6 DEF WantInv, CooldownHolds
<1>8. CASE DiscTick
  <2>1. /\ wantOf' = wantOf /\ relayed' = [n \in Names |-> 0]
        /\ \A s \in Streams : wantOf[s].step \notin {"record", "publish"}
    BY <1>8 DEF DiscTick
  <2>2. ASSUME NEW n \in Names PROVE Cardinality(Passed(n)') <= Cardinality(Streams)
    <3>1. Passed(n)' \subseteq Streams
      BY DEF Passed
    <3> QED
      BY <3>1, StreamsFinite, Smaller
  <2>3. ASSUME NEW n \in Names PROVE relayed'[n] + Cardinality(Passed(n)') <= Cardinality(Streams)
    <3>1. Passed(n)' = {}
      BY <2>1 DEF Passed
    <3> QED
      BY <2>1, <3>1, FS_EmptySet, StreamsFinite
  <2> QED
    BY <1>0, <2>1, <2>3 DEF WantInv, WantTypeOK, CooldownHolds
<1>9. CASE \/ \E n \in Names : LibraryEdit(n)
           \/ \E p \in Pushers : PushStep(p) \/ PushFails(p)
           \/ BeaconCycle
           \/ \E o \in Others, names \in (SUBSET Names) \ {{}} : OtherBeacon(o, names)
           \/ UNCHANGED discVars
  BY <1>1, <1>9
     DEF LibraryEdit, PushStep, PushManifest, SetManifest, KickBeacon, PushDone, PushFails,
         BeaconCycle, OtherBeacon, discVars
<1> QED
  BY <1>3, <1>4, <1>5, <1>6, <1>7, <1>8, <1>9 DEF DiscNext

-----------------------------------------------------------------------------
LEMMA MinOfTwo ==
  ASSUME NEW a \in Nat, NEW b \in Nat, NEW c \in Nat, c <= a, c <= b PROVE c <= Min({a, b})
<1>1. \E m \in {a, b} : \A y \in {a, b} : m <= y
  OBVIOUS
<1>2. Min({a, b}) \in {a, b}
  BY <1>1 DEF Min
<1> QED
  BY <1>2

(* However often nodes beacon, a remote count never exceeds the origins    *)
(* that disclosed the name inside the window, nor the cap of the ledger    *)
(* (record and backers in beacon.go); and however many streams ask at once,*)
(* a name is re-announced at most once per stream and cooldown             *)
(* (wantAllowed in playlistlist.go).                                       *)
THEOREM CountsAlwaysHonest == DiscSpec => []CountsHonest
<1> DEFINE Inv == ManifestInv /\ BeaconInv /\ WantInv
<1>1. DiscInit => Inv
  <2> SUFFICES ASSUME DiscInit PROVE Inv
    OBVIOUS
  <2>1. ManifestInv
    <3>1. NoPush \in APush
      BY DEF NoPush, APush
    <3> QED
      BY <3>1 DEF DiscInit, ManifestInv
  <2>2. BeaconTypeOK /\ LedgerHonest
    BY DEF DiscInit, BeaconTypeOK, LedgerHonest, Times
  <2>3. ASSUME NEW n \in Names PROVE Cardinality(HeardFrom(n)) <= OriginCap
    <3>1. HeardFrom(n) = {}
      BY DEF DiscInit, HeardFrom, Since
    <3> QED
      BY <3>1, FS_EmptySet, Bounds
  <2>4. WantTypeOK
    BY NoWantIs DEF DiscInit, WantTypeOK
  <2>5. ASSUME NEW n \in Names
        PROVE  /\ relayed[n] = 0 /\ \A s \in Streams : wantOf[s].step # "publish"
               /\ relayed[n] + Cardinality(Passed(n)) <= Cardinality(Streams)
    <3>1. relayed[n] = 0 /\ \A s \in Streams : wantOf[s].step = "idle"
      BY NoWantIs DEF DiscInit
    <3>2. Passed(n) = {}
      BY <3>1 DEF Passed
    <3> QED
      BY <3>1, <3>2, FS_EmptySet, StreamsFinite
  <2> QED
    BY <2>1, <2>2, <2>3, <2>4, <2>5 DEF BeaconInv, LedgerCapped, WantInv, CooldownHolds
<1>2. Inv /\ [DiscNext]_discVars => Inv'
  BY ManifestHolds, BeaconsHold, WantsHold
<1>3. Inv => CountsHonest
  <2> SUFFICES ASSUME Inv PROVE CountsHonest
    OBVIOUS
  <2>1. ASSUME NEW n \in Names
        PROVE  Backers(n) <= Min({OriginCap,
                                  Cardinality({o \in Origins : Since(disclosed[n][o], Window)})})
    <3>1. ASSUME NEW o \in HeardFrom(n) PROVE o \in DisclosedBy(n)
      <4>1. o \in Origins /\ ledger[n][o] # Unposted /\ clock - ledger[n][o] <= Window
        BY DEF HeardFrom, Since
      <4>2. /\ clock \in Nat /\ ledger[n][o] \in Nat /\ disclosed[n][o] \in Nat
            /\ ledger[n][o] <= disclosed[n][o] /\ disclosed[n][o] # Unposted
        BY <4>1 DEF BeaconInv, BeaconTypeOK, LedgerHonest, Times
      <4>3. clock - disclosed[n][o] <= Window
        BY <4>1, <4>2, Bounds
      <4> QED
        BY <4>1, <4>2, <4>3 DEF DisclosedBy, Since
    <3>2. HeardFrom(n) \subseteq DisclosedBy(n) /\ IsFiniteSet(DisclosedBy(n))
      BY <3>1, OriginsFinite, Smaller DEF DisclosedBy
    <3>3. /\ Cardinality(HeardFrom(n)) \in Nat /\ Cardinality(DisclosedBy(n)) \in Nat
          /\ Cardinality(HeardFrom(n)) <= Cardinality(DisclosedBy(n))
      BY <3>2, Smaller
    <3>4. Cardinality(HeardFrom(n)) <= OriginCap
      BY DEF BeaconInv, LedgerCapped
    <3>5. Cardinality(HeardFrom(n)) <= Min({OriginCap, Cardinality(DisclosedBy(n))})
      BY <3>3, <3>4, Bounds, MinOfTwo
    <3> QED
      BY <3>5 DEF Backers, HeardFrom, DisclosedBy
  <2>2. ASSUME NEW n \in Names PROVE relayed[n] <= Cardinality(Streams)
    <3>1. relayed[n] \in Nat /\ relayed[n] + Cardinality(Passed(n)) <= Cardinality(Streams)
      BY DEF WantInv, WantTypeOK, CooldownHolds
    <3> QED
      BY <3>1, StreamsFinite
  <2> QED
    BY <2>1, <2>2 DEF CountsHonest
<1> QED
  BY <1>1, <1>2, <1>3, PTL DEF DiscSpec

-----------------------------------------------------------------------------
(* WebMesh: the record of a root is put once, for any number of plays of   *)
(* it and of faults.  A root is in announced exactly while one record of   *)
(* it stands or is on its way; a failed put takes both back.               *)

PutInv ==
  /\ putting \subseteq announced
  /\ puts \in [Roots -> {0, 1}]
  /\ \A r \in Roots : puts[r] = 1 <=> r \in announced

LEMMA PutStep == PutInv /\ [MeshNext]_joinVars => PutInv'
<1> SUFFICES ASSUME PutInv, [MeshNext]_joinVars PROVE PutInv'
  OBVIOUS
<1>1. ASSUME UNCHANGED <<announced, putting, puts>> PROVE PutInv'
  BY <1>1 DEF PutInv
<1>2. ASSUME NEW r \in Roots, Provides(r) PROVE PutInv'
  <2>1. puts[r] = 0
    BY <1>2 DEF Provides, PutInv
  <2>2. puts' = [puts EXCEPT ![r] = 1]
    BY <1>2, <2>1 DEF Provides, PutInv
  <2> QED
    BY <1>2, <2>2 DEF Provides, PutInv
<1>3. ASSUME NEW r \in Roots, NEW ok \in BOOLEAN, PutEnds(r, ok) PROVE PutInv'
  <2>1. r \in announced /\ puts[r] = 1
    BY <1>3 DEF PutEnds, PutInv
  <2>2. CASE ok
    BY <1>3, <2>1, <2>2 DEF PutEnds, PutInv
  <2>3. CASE ~ok
    <3>1. puts' = [puts EXCEPT ![r] = 0]
      BY <1>3, <2>1, <2>3 DEF PutEnds, PutInv
    <3> QED
      BY <1>3, <2>3, <3>1 DEF PutEnds, PutInv
  <2> QED
    BY <2>2, <2>3
<1>4. CASE SweepStarts \/ SweepEnds \/ Reserves
  BY <1>1, <1>4 DEF SweepStarts, SweepEnds, Reserves
<1>5. ASSUME NEW d \in Neighbours,
             \/ SweepFinds(d) \/ DialedBy(d) \/ Returns(d)
             \/ \E gone \in BOOLEAN : Leaves(d, gone)
      PROVE PutInv'
  BY <1>1, <1>5 DEF SweepFinds, DialedBy, Returns, Leaves
<1>6. ASSUME NEW D \in SUBSET Neighbours \ {{}}, WarmFinds(D) PROVE PutInv'
  BY <1>1, <1>6 DEF WarmFinds
<1>7. ASSUME NEW p \in Dialers, DialStep(p) \/ DialTimesOut(p) PROVE PutInv'
  BY <1>1, <1>7 DEF DialStep, DialTimesOut, DialBegins, DialWorks, DialFails, HangsUp
<1>8. CASE UNCHANGED joinVars
  BY <1>1, <1>8 DEF joinVars
<1> QED
  BY <1>2, <1>3, <1>4, <1>5, <1>6, <1>7, <1>8 DEF MeshNext

(* Every root of a session has one provider record at most, however the    *)
(* plays overlap with a put that is under way or fails (Provider.provide). *)
THEOREM RecordsPutOnce == MeshSpec => []PutOnce
<1>1. MeshInit => PutInv
  BY DEF MeshInit, PutInv
<1>2. PutInv => PutOnce
  BY DEF PutInv, PutOnce
<1> QED
  BY <1>1, <1>2, PutStep, PTL DEF MeshSpec

-----------------------------------------------------------------------------
(* WebNode: outside the cooldown no reload is counted, and within it the   *)
(* page that remembers does not reload again.                              *)

Visits == [restarts : Nat, drops : Nat, faults : Nat, visits : Nat, storage : BOOLEAN]

ReloadInv ==
  /\ reloads \in Nat
  /\ nodeLeft \in Visits
  /\ nodeLeft.storage => reloads <= 1 /\ (reloads = 1 => cooldown)

LEMMA DrawKeeps ==
  ASSUME nodeLeft \in Visits, NEW what \in {"restarts", "drops", "faults", "visits"}, Draw(what)
  PROVE  nodeLeft' \in Visits /\ nodeLeft'.storage = nodeLeft.storage
BY DEF Draw, Visits

(* A step that counts no reload and ends no cooldown.                      *)
LEMMA NoReload ==
  ASSUME ReloadInv, UNCHANGED <<cooldown, reloads>>,
         UNCHANGED nodeLeft \/ \E what \in {"restarts", "drops", "faults", "visits"} : Draw(what)
  PROVE  ReloadInv'
BY DrawKeeps DEF ReloadInv

LEMMA ReloadStep == ReloadInv /\ [NodeNext]_nodeVars => ReloadInv'
<1> SUFFICES ASSUME ReloadInv, [NodeNext]_nodeVars PROVE ReloadInv'
  OBVIOUS
<1>1. CASE SeedStops \/ SeedStarts \/ LinkDrops \/ SeedReaps \/ EdgePolls \/ EdgeHasNone
  BY <1>1, NoReload
     DEF SeedStops, SeedStarts, LinkDrops, SeedReaps, EdgePolls, EdgeHasNone
<1>2. CASE BootFetches \/ BootDials \/ BootResolves \/ BootFetchFails
  BY <1>2, NoReload DEF BootFetches, BootDials, BootResolves, BootFetchFails
<1>3. CASE BootResolveFails
  <2>1. UNCHANGED nodeLeft \/ Draw("faults")
    BY <1>3 DEF BootResolveFails, Draw
  <2> QED
    BY <1>3, <2>1, NoReload DEF BootResolveFails
<1>4. ASSUME NEW heard \in BOOLEAN, UserReloads(heard) PROVE ReloadInv'
  BY <1>4, NoReload DEF UserReloads
<1>5. ASSUME NEW heard \in BOOLEAN, Reloads(heard) PROVE ReloadInv'
  <2>1. nodeLeft' = nodeLeft /\ cooldown' = TRUE /\ reloads' = reloads + 1
    BY <1>5 DEF Reloads
  <2>2. nodeLeft.storage => reloads = 0
    BY <1>5 DEF Reloads, CanReload, ReloadInv
  <2> QED
    BY <2>1, <2>2 DEF ReloadInv
<1>6. CASE Probes \/ SeesNewAddress \/ BacksOff \/ SupDials \/ ProbeIsSlow \/ SupFetchFails
  BY <1>6, NoReload DEF Probes, SeesNewAddress, BacksOff, SupDials, ProbeIsSlow, SupFetchFails
<1>7. CASE CooldownEnds
  BY <1>7 DEF CooldownEnds, ReloadInv
<1>8. CASE UNCHANGED nodeVars
  BY <1>8, NoReload DEF nodeVars
<1> QED
  BY <1>1, <1>2, <1>3, <1>4, <1>5, <1>6, <1>7, <1>8 DEF NodeNext, Boots, Supervises

(* What NodeReturns says of every moment.                                  *)
ReloadsOnce == nodeLeft.storage => reloads <= 1

(* A page that can store when it last reloaded reloads itself at most once *)
(* per cooldown, whatever the seed, the network and the edge do            *)
(* (RELOAD_COOLDOWN_MS in node.ts).                                        *)
THEOREM PageReloadsOnce == NodeSpec => []ReloadsOnce
<1>1. NodeInit => ReloadInv
  BY WebNodeAssumption DEF NodeInit, ReloadInv, Visits
<1>2. ReloadInv => ReloadsOnce
  BY DEF ReloadInv, ReloadsOnce
<1> QED
  BY <1>1, <1>2, ReloadStep, PTL DEF NodeSpec
=============================================================================
