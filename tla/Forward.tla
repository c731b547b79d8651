------------------------------- MODULE Forward ------------------------------
(* Block forwarding between clients (src/node/fwd.go) and the stores behind*)
(* it (storeviews.go): a fetch races plain bitswap with asking connected   *)
(* peers; a public donor answers from what it holds or fetches itself, and *)
(* keeps what it fetched for others apart from its own store.              *)
EXTENDS Naturals, FiniteSets

CONSTANTS
  Nodes, Seeds,     \* nodes and the seeds among them, which never forward
  Askers,           \* the clients whose users fetch something in the instance
  Blocks,           \* blocks; the bytes of a block are named by its CID
  Origin,           \* what each node's own store holds at the start
  Wires,            \* pairs {n, m} that may be connected
  Relayed,          \* those that start out relayed, a hole punch pending
  Liars,            \* donors that may answer with other bytes
  FwdSize,          \* fwdCacheSize
  FwdSem, OutSem,   \* fwdGlobalSem, fwdOutSem
  MaxWants          \* bound: fetches started

ASSUME ForwardAssumption ==
  /\ Seeds \subseteq Nodes /\ Askers \subseteq Nodes \ Seeds /\ Liars \subseteq Nodes /\ Relayed \subseteq Wires
  /\ Origin \in [Nodes -> SUBSET Blocks]
  /\ FwdSize \in Nat \ {0} /\ FwdSem \in Nat \ {0} /\ OutSem \in Nat \ {0}

VARIABLES
  link,    \* connectedness of each pair: "none", "limited", "connected"
  public,  \* nodes AutoNAT calls public
  main,    \* the GC-disabled blockstore: <<cid, bytes>> pairs
  fwd,     \* the bounded donor store
  met,     \* fwd.provs: providers met by each node
  wants,   \* fetches of a node's own: {<<node, cid>>}
  asks,    \* forwarding requests: [from, to, cid, step, bytes]
  wanted   \* history: blocks each node asked for itself

fwdVars == <<link, public, main, fwd, met, wants, asks, wanted>>

Pair(n, m) == {n, m}
Linked(n, m) == Pair(n, m) \in Wires /\ link[Pair(n, m)] = "connected"
Peered(n, m) == Pair(n, m) \in Wires /\ link[Pair(n, m)] # "none"
Holds(n, c) == \E b \in Blocks : <<c, b>> \in main[n] \cup fwd[n]
BytesAt(n, c) == CHOOSE b \in Blocks : <<c, b>> \in main[n] \cup fwd[n]

ForwardInit ==
  /\ link = [w \in Wires |-> IF w \in Relayed THEN "limited" ELSE "connected"]
  /\ public = Nodes
  /\ main = [n \in Nodes |-> {<<c, c>> : c \in Origin[n]}]
  /\ fwd = [n \in Nodes |-> {}]
  /\ met = [n \in Nodes |-> {}]
  /\ wants = {} /\ asks = {} /\ wanted = [n \in Nodes |-> {}]

(* forwardingSuppressed: a met provider is directly connected and none is  *)
(* still relayed, whatever content it was met for.                         *)
ForwardingSuppressed(n) ==
  /\ \E p \in met[n] : Linked(n, p)
  /\ \A p \in met[n] : ~(Peered(n, p) /\ ~Linked(n, p))

(* fwdTargets, within the outbound bound.                                  *)
FwdTargets(n) == {p \in Nodes \ (Seeds \cup {n}) : Peered(n, p)}
Asking(n) == {a \in asks : a.from = n}
OutFree(n) == Cardinality({a.cid : a \in Asking(n)}) < OutSem

(* assistGet: the raw fetch starts, and the forwarding one beside it unless*)
(* a direct path took over or the outbound bound is reached.               *)
FwdFetch(n, c) ==
  IF ForwardingSuppressed(n) \/ ~OutFree(n) THEN asks
  ELSE asks \cup {[from |-> n, to |-> p, cid |-> c, step |-> "asked", bytes |-> c] :
                    p \in FwdTargets(n)}

AssistGet(n, c) ==
  /\ \A b \in Blocks : <<c, b>> \notin main[n]
  /\ <<n, c>> \notin wants /\ n \in Askers
  /\ Cardinality(UNION {{<<m, d>> : d \in wanted[m]} : m \in Nodes}) < MaxWants
  /\ wants' = wants \cup {<<n, c>>} /\ asks' = FwdFetch(n, c)
  /\ wanted' = [wanted EXCEPT ![n] = @ \cup {c}]
  /\ UNCHANGED <<link, public, main, fwd, met>>

(* The fetch is over: its open requests are cancelled.                     *)
Settle(n, c) == /\ wants' = wants \ {<<n, c>>}
                /\ asks' = {a \in asks : ~(a.from = n /\ a.cid = c)}

(* Plain bitswap gets the block from a directly connected holder, which    *)
(* serves both its stores; the bytes are verified and kept.                *)
RawGet(n, c) ==
  /\ <<n, c>> \in wants /\ \E p \in Nodes : Linked(n, p) /\ Holds(p, c)
  /\ main' = [main EXCEPT ![n] = @ \cup {<<c, c>>}]
  /\ Settle(n, c) /\ UNCHANGED <<link, public, fwd, met, wanted>>

GiveUp(n, c) ==
  /\ <<n, c>> \in wants /\ Settle(n, c)
  /\ UNCHANGED <<link, public, main, fwd, met, wanted>>

-----------------------------------------------------------------------------
Reached(a) == Linked(a.from, a.to)
Become(a, b) == (asks \ {a}) \cup {b}

(* handleFwd: a donor that is not public resets the stream, one over its   *)
(* rate answers busy, a relayed link carries no such stream; all end it.   *)
Refuse(a) ==
  /\ a.step = "asked" /\ asks' = asks \ {a}
  /\ UNCHANGED <<link, public, main, fwd, met, wants, wanted>>

(* fwdServe answers a block it holds without charging the semaphore ...    *)
Serve(a) ==
  /\ a.step = "asked" /\ Reached(a) /\ a.to \in public /\ Holds(a.to, a.cid)
  /\ asks' = Become(a, [a EXCEPT !.step = "served", !.bytes = BytesAt(a.to, a.cid)])
  /\ UNCHANGED <<link, public, main, fwd, met, wants, wanted>>

(* ... else it fetches, if fewer than FwdSem such fetches run; the fetch   *)
(* rides the raw exchange, so it asks no donor in turn.                    *)
Fetching(d) == {a \in asks : a.to = d /\ a.step = "fetching"}
AssistedAsks(d, c) == FwdFetch(d, c)  \* an assisted fetch asks on in its turn
TransitiveAsks(d, c) == {}

FwdServe(a) ==
  /\ a.step = "asked" /\ Reached(a) /\ a.to \in public /\ ~Holds(a.to, a.cid)
  /\ Cardinality(Fetching(a.to)) < FwdSem
  /\ asks' = Become(a, [a EXCEPT !.step = "fetching"]) \cup TransitiveAsks(a.to, a.cid)
  /\ UNCHANGED <<link, public, main, fwd, met, wants, wanted>>

(* What the donor fetched goes to the bounded store, the oldest leaving.   *)
Bounded(store, entry) ==
  IF Cardinality(store) < FwdSize THEN {store \cup {entry}}
  ELSE {(store \ {e}) \cup {entry} : e \in store}

DonorGot(a) ==
  /\ a.step = "fetching" /\ \E p \in Nodes : Linked(a.to, p) /\ Holds(p, a.cid)
  /\ \E store \in Bounded(fwd[a.to], <<a.cid, a.cid>>) : fwd' = [fwd EXCEPT ![a.to] = store]
  /\ asks' = Become(a, [a EXCEPT !.step = "served", !.bytes = a.cid])
  /\ UNCHANGED <<link, public, main, met, wants, wanted>>

DonorMissed(a) ==
  /\ a.step = "fetching" /\ asks' = asks \ {a}
  /\ UNCHANGED <<link, public, main, fwd, met, wants, wanted>>

(* A donor may answer any bytes.                                           *)
Lie(a) ==
  /\ a.step = "asked" /\ Reached(a) /\ a.to \in Liars
  /\ \E b \in Blocks \ {a.cid} :
       asks' = Become(a, [a EXCEPT !.step = "served", !.bytes = b])
  /\ UNCHANGED <<link, public, main, fwd, met, wants, wanted>>

(* fwdFetchFrom keeps and returns an answer only if its bytes hash to the  *)
(* CID; the first good one ends the fetch.                                 *)
BytesVerified(a) == a.bytes = a.cid

FwdGot(a) ==
  /\ a.step = "served"
  /\ IF BytesVerified(a)
     THEN /\ main' = [main EXCEPT ![a.from] = @ \cup {<<a.cid, a.bytes>>}]
          /\ Settle(a.from, a.cid)
     ELSE asks' = asks \ {a} /\ UNCHANGED <<main, wants>>
  /\ UNCHANGED <<link, public, fwd, met, wanted>>

-----------------------------------------------------------------------------
(* A donor-store entry expires; a provider is met, a hole punch lands, a   *)
(* link drops, a donor is not public any more.                             *)
FwdExpires(n) ==
  /\ fwd[n] # {} /\ fwd' = [fwd EXCEPT ![n] = {}]
  /\ UNCHANGED <<link, public, main, met, wants, asks, wanted>>

RecordProvider(n, p) ==
  /\ (\E c \in Blocks : <<n, c>> \in wants) /\ Peered(n, p) /\ met' = [met EXCEPT ![n] = @ \cup {p}]
  /\ UNCHANGED <<link, public, main, fwd, wants, asks, wanted>>

HolePunched(w) ==
  /\ link[w] = "limited" /\ link' = [link EXCEPT ![w] = "connected"]
  /\ UNCHANGED <<public, main, fwd, met, wants, asks, wanted>>

WireDrops(w) ==
  /\ w \in Relayed /\ link[w] # "none" /\ link' = [link EXCEPT ![w] = "none"]
  /\ UNCHANGED <<public, main, fwd, met, wants, asks, wanted>>

TurnPrivate(n) ==
  /\ n \in public \ Liars /\ Origin[n] = {} /\ public' = public \ {n}
  /\ UNCHANGED <<link, main, fwd, met, wants, asks, wanted>>

ForwardNext ==
  \/ \E n \in Nodes, c \in Blocks : AssistGet(n, c) \/ RawGet(n, c) \/ GiveUp(n, c)
  \/ \E a \in asks : \/ Refuse(a) \/ Serve(a) \/ FwdServe(a) \/ DonorGot(a)
                     \/ DonorMissed(a) \/ Lie(a) \/ FwdGot(a)
  \/ \E n \in Nodes : FwdExpires(n) \/ TurnPrivate(n)
  \/ \E n, p \in Nodes : RecordProvider(n, p)
  \/ \E w \in Wires : HolePunched(w) \/ WireDrops(w)

ForwardSpec == ForwardInit /\ [][ForwardNext]_fwdVars

-----------------------------------------------------------------------------
(* No store ever holds bytes that are not the block's.                     *)
OnlyVerified == \A n \in Nodes : \A e \in main[n] \cup fwd[n] : e[1] = e[2]

(* Carrying blocks for others leaves no trace in a donor's own store, which*)
(* nothing ever collects, and the store that takes them stays bounded.     *)
DonorsStayLean == \A n \in Nodes :
  /\ \A e \in main[n] : e[1] \in Origin[n] \cup wanted[n]
  /\ Cardinality(fwd[n]) <= FwdSize

(* Serving a request never makes another one: every request stands for a   *)
(* fetch its sender wants for itself.                                      *)
NoAmplification == \A a \in asks :
  <<a.from, a.cid>> \in wants /\ a.to \notin Seeds

ForwardSound == OnlyVerified /\ DonorsStayLean /\ NoAmplification

=============================================================================
