------------------------------ MODULE NodeHold ------------------------------
(* What a node holds and says it holds (src/node/pins.go and the provide   *)
(* half of node.go): the pinset in memory and in the datastore, the legacy *)
(* blob it is migrated from, the bounded provide queue with its dedup, and *)
(* the sweep that advertises every root again.  A call changes the map     *)
(* under its lock and the datastore after it, so calls on one CID overlap. *)
EXTENDS Naturals, Sequences, FiniteSets

CONSTANTS
  Cids,        \* content identifiers
  Callers,     \* RPC handlers that may run at once
  Ops,         \* the calls the instance makes
  Absent,      \* no pin
  Unsure,      \* the last answers about a CID promise nothing
  QueueSize,   \* capacity of the provide queue
  MaxCalls, MaxCrashes, MaxOutages  \* bounds: calls served, kills, DHT outages

ASSUME HoldAssumption ==
  /\ QueueSize \in Nat \ {0} /\ Cids # {}
  /\ Ops \subseteq {"pin", "track", "piece", "source", "page", "unpin"}

VARIABLES
  up,        \* the process runs
  pinned,    \* Pinset.roots: the kind each CID is held as
  stored,    \* the per-item keys of the datastore
  legacy,    \* the single-blob pinset of an older build, until it is folded in
  handlers,     \* what each caller is doing
  queue,     \* provideQ
  dedup,     \* provDedup
  records,   \* CIDs the DHT has a provider record of ours for
  sweep,     \* roots the running reprovide sweep still has to advertise
  sweeping,  \* a sweep runs
  dhtUp,     \* DHT puts succeed
  answered,  \* what the last answered call promised of each CID
  spent      \* bounds used

holdVars == <<up, pinned, stored, legacy, handlers, queue, dedup, records,
              sweep, sweeping, dhtUp, answered, spent>>

Kinds == {"root", "track", "piece"}
Held == Kinds \cup {Absent}
KindOf == [pin |-> "root", track |-> "track", piece |-> "piece", source |-> "root",
           page |-> "piece", unpin |-> Absent]
Cached == {"source", "page"}  \* provideCatalogSource and provideCatalogPieces
None == [op |-> "none", cid |-> CHOOSE c \in Cids : TRUE, step |-> "idle", alone |-> TRUE]

InFlight(c) == {k \in Callers : handlers[k].step # "idle" /\ handlers[k].cid = c}

(* What the datastore says of a CID, the legacy blob included.             *)
OnDisk(c) == IF c \in DOMAIN legacy THEN legacy[c] ELSE stored[c]

HoldInit ==
  /\ up = FALSE /\ pinned = [c \in Cids |-> Absent]
  /\ stored = [c \in Cids |-> Absent]
  /\ \E old \in SUBSET Cids :
       legacy = [c \in old |-> "root"]
       /\ answered = [c \in Cids |-> IF c \in old THEN "root" ELSE Absent]
  /\ handlers = [k \in Callers |-> None]
  /\ queue = <<>> /\ dedup = {} /\ records = {} /\ sweep = {} /\ sweeping = FALSE
  /\ dhtUp = TRUE /\ spent = [calls |-> 0, crashes |-> 0, outages |-> 0]

(* newPinset folds the blob into per-item keys in one batch and loads them *)
(* all; the queue and the dedup set start empty.                           *)
Boot ==
  /\ ~up /\ up' = TRUE
  /\ stored' = [c \in Cids |-> OnDisk(c)]
  /\ pinned' = stored' /\ legacy' = <<>>
  /\ UNCHANGED <<handlers, queue, dedup, records, sweep, sweeping, dhtUp, answered, spent>>

(* A call arrives; the two cached ones stop at once for a CID that is held.*)
Begin(k, op, c) ==
  /\ up /\ handlers[k].step = "idle" /\ spent.calls < MaxCalls
  /\ op \in Cached => pinned[c] = Absent
  /\ handlers' = [j \in Callers |->
       IF j = k THEN [op |-> op, cid |-> c, step |-> "memory", alone |-> InFlight(c) = {}]
       ELSE IF j \in InFlight(c) THEN [handlers[j] EXCEPT !.alone = FALSE] ELSE handlers[j]]
  /\ spent' = [spent EXCEPT !.calls = @ + 1]
  /\ UNCHANGED <<up, pinned, stored, legacy, queue, dedup, records, sweep, sweeping,
                 dhtUp, answered>>

(* The map changes under the lock ...                                      *)
Remember(k) ==
  /\ up /\ handlers[k].step = "memory"
  /\ pinned' = [pinned EXCEPT ![handlers[k].cid] = KindOf[handlers[k].op]]
  /\ handlers' = [handlers EXCEPT ![k].step = "disk"]
  /\ UNCHANGED <<up, stored, legacy, queue, dedup, records, sweep, sweeping, dhtUp,
                 answered, spent>>

(* ... and the datastore outside it, where the write may fail.             *)
WrittenOnlyPins(k, ok) ==  \* an unpin stays in memory
  IF ok /\ handlers[k].op # "unpin"
  THEN [stored EXCEPT ![handlers[k].cid] = KindOf[handlers[k].op]] ELSE stored
Written(k, ok) ==
  IF ok THEN [stored EXCEPT ![handlers[k].cid] = KindOf[handlers[k].op]] ELSE stored

(* provideNow: a full queue drops the advertisement.                       *)
ProvideNow(c) == IF Len(queue) < QueueSize THEN Append(queue, c) ELSE queue

(* The call answers.  A pin call that failed returns before provideNow, a  *)
(* cached one logs the failure and advertises all the same.                *)
Persist(k, ok) ==
  LET call == handlers[k] IN
  /\ up /\ call.step = "disk"
  /\ stored' = Written(k, ok)
  /\ queue' = IF call.op # "unpin" /\ (ok \/ call.op \in Cached)
              THEN ProvideNow(call.cid) ELSE queue
  /\ answered' = [answered EXCEPT ![call.cid] =
                    IF ok /\ call.alone THEN KindOf[call.op] ELSE Unsure]
  /\ handlers' = [handlers EXCEPT ![k] = None]
  /\ UNCHANGED <<up, pinned, legacy, dedup, records, sweep, sweeping, dhtUp, spent>>

(* A provide worker takes a CID: skipped when it advertised it before, else*)
(* put to the DHT; only a success is remembered.                           *)
ProvideWorker ==
  LET c == Head(queue) IN
  /\ up /\ queue # <<>> /\ queue' = Tail(queue)
  /\ LET put == c \notin dedup /\ dhtUp
     IN /\ records' = IF put THEN records \cup {c} ELSE records
        /\ dedup' = IF put THEN dedup \cup {c} ELSE dedup
  /\ UNCHANGED <<up, pinned, stored, legacy, handlers, sweep, sweeping, dhtUp, answered, spent>>

(* The sweep advertises a snapshot of the roots straight to the DHT, past  *)
(* the queue and the dedup set, and ends only when each was tried.         *)
SweepStart ==
  /\ up /\ ~sweeping /\ sweeping' = TRUE
  /\ sweep' = {c \in Cids : pinned[c] # Absent}
  /\ UNCHANGED <<up, pinned, stored, legacy, handlers, queue, dedup, records, dhtUp,
                 answered, spent>>

TrustDedup(c) == dhtUp /\ c \notin dedup  \* what was announced once is not announced again
SweepPuts(c) == dhtUp

SweepProvide(c) ==
  /\ up /\ c \in sweep /\ sweep' = sweep \ {c}
  /\ records' = IF SweepPuts(c) THEN records \cup {c} ELSE records
  /\ UNCHANGED <<up, pinned, stored, legacy, handlers, queue, dedup, sweeping, dhtUp,
                 answered, spent>>

SweepEnd ==
  /\ up /\ sweeping /\ sweep = {} /\ sweeping' = FALSE
  /\ UNCHANGED <<up, pinned, stored, legacy, handlers, queue, dedup, records, sweep, dhtUp,
                 answered, spent>>

(* External: the DHT forgets a record after its lifetime, and comes and    *)
(* goes.                                                                   *)
RecordExpires(c) ==
  /\ c \in records /\ records' = records \ {c}
  /\ UNCHANGED <<up, pinned, stored, legacy, handlers, queue, dedup, sweep, sweeping, dhtUp,
                 answered, spent>>

DhtFails ==
  /\ dhtUp /\ spent.outages < MaxOutages /\ dhtUp' = FALSE
  /\ spent' = [spent EXCEPT !.outages = @ + 1]
  /\ UNCHANGED <<up, pinned, stored, legacy, handlers, queue, dedup, records, sweep,
                 sweeping, answered>>

DhtReturns ==
  /\ ~dhtUp /\ dhtUp' = TRUE
  /\ UNCHANGED <<up, pinned, stored, legacy, handlers, queue, dedup, records, sweep,
                 sweeping, answered, spent>>

(* A kill drops the memory and every call; a call on its way promised      *)
(* nothing.                                                                *)
Crash ==
  /\ up /\ spent.crashes < MaxCrashes /\ up' = FALSE
  /\ spent' = [spent EXCEPT !.crashes = @ + 1]
  /\ answered' = [c \in Cids |-> IF InFlight(c) = {} THEN answered[c] ELSE Unsure]
  /\ handlers' = [k \in Callers |-> None] /\ pinned' = [c \in Cids |-> Absent]
  /\ queue' = <<>> /\ dedup' = {} /\ sweep' = {} /\ sweeping' = FALSE
  /\ UNCHANGED <<stored, legacy, records, dhtUp>>

Sweeping == SweepStart \/ SweepEnd \/ \E c \in Cids : SweepProvide(c)

HoldNext ==
  \/ Boot \/ Crash \/ ProvideWorker \/ Sweeping \/ DhtFails \/ DhtReturns
  \/ \E k \in Callers : \/ \E op \in Ops, c \in Cids : Begin(k, op, c)
                        \/ Remember(k)
                        \/ \E ok \in BOOLEAN : Persist(k, ok)
  \/ \E c \in Cids : RecordExpires(c)

(* The loops of the node run; the DHT does not stay away for ever.         *)
HoldWork == Boot \/ Sweeping

HoldSpec == HoldInit /\ [][HoldNext]_holdVars /\ WF_holdVars(HoldWork) /\ WF_holdVars(DhtReturns)

-----------------------------------------------------------------------------
HoldTypeOK ==
  /\ {up, dhtUp, sweeping} \subseteq BOOLEAN
  /\ pinned \in [Cids -> Held] /\ stored \in [Cids -> Held]
  /\ DOMAIN legacy \subseteq Cids /\ \A c \in DOMAIN legacy : legacy[c] \in Kinds
  /\ handlers \in [Callers -> [op : DOMAIN KindOf \cup {"none"}, cid : Cids,
                            step : {"idle", "memory", "disk"}, alone : BOOLEAN]]
  /\ queue \in Seq(Cids) /\ Len(queue) <= QueueSize
  /\ dedup \subseteq Cids /\ records \subseteq Cids /\ sweep \subseteq Cids
  /\ answered \in [Cids -> Held \cup {Unsure}]

(* A pin or an unpin that was answered while no other call was about the   *)
(* same CID is what the datastore and the memory say, across crashes and   *)
(* the migration of an old pinset, until another call on that CID starts:  *)
(* pins.go changes the two in separate steps and keeps neither in order.   *)
DurablePins == \A c \in Cids :
  answered[c] # Unsure /\ InFlight(c) = {} =>
    /\ OnDisk(c) = answered[c]
    /\ up => pinned[c] = answered[c]

(* A root the node goes on holding is advertised in the end, also when the *)
(* queue dropped it, the put failed, or its record expired: the sweep must *)
(* not go through the queue or the dedup set.                              *)
Advertised == \A c \in Cids : []<>(up /\ pinned[c] # Absent => c \in records)

=============================================================================
