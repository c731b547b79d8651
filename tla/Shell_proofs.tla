---------------------------- MODULE Shell_proofs ----------------------------
(***************************************************************************)
(* Theorems about what a shell runs: the tabs of one browser, of which one *)
(* has the node, and the stream that brings a module to the player.        *)
(***************************************************************************)
EXTENDS MultiTab, ModuleStream, FiniteSetTheorems, SequenceTheorems,
        WellFoundedInduction, TLAPS

-----------------------------------------------------------------------------
(* One node, and one execution of a call, for any number of tabs and       *)
(* calls.  A node belongs to the tab that holds the lock, and a lock is    *)
(* granted only when it is free; nothing about the messages is needed for  *)
(* that.  A call is then executed at most once because its request is in   *)
(* one channel only, the one to the tab whose node is up.                  *)

\* The inductive invariant: whoever has a node, whatever its state, holds the
\* lock (elect, promote, holdUntilPagehide).
LockInv ==
  /\ node \in [Tabs -> {"off", "booting", "up", "failed"}]
  /\ \A t \in Tabs : node[t] # "off" => lock = t

\* The invariant holds before the first tab has opened.
LEMMA InitLock == TabsInit => LockInv
  BY DEF TabsInit, LockInv

\* A step that leaves the lock and the nodes alone keeps it.
LEMMA LockUntouched == LockInv /\ UNCHANGED <<lock, node>> => LockInv'
  BY DEF LockInv

\* The free lock is taken by a tab that boots a node: while nobody held it
\* there was no node (elect, promote).
LEMMA LockTaken ==
  ASSUME LockInv, lock = NoTab,
         NEW t, lock' = t, node' = [node EXCEPT ![t] = "booting"]
  PROVE  LockInv'
  BY TabAssumption DEF LockInv

\* The holder's node comes up or fails; the lock stays where it is.
LEMMA NodeSettles ==
  ASSUME LockInv, NEW t \in Tabs, node[t] = "booting", lock' = lock,
         NEW v \in {"up", "failed"}, node' = [node EXCEPT ![t] = v]
  PROVE  LockInv'
  BY DEF LockInv

\* A tab that goes away takes its node with it before it releases the lock.
LEMMA CloseKeepsLock ==
  ASSUME LockInv, NEW t \in Tabs, Close(t)
  PROVE  LockInv'
  BY DEF LockInv, Close

\* No delivery of a message touches the lock or a node.
LEMMA ReceiveKeepsLock ==
  ASSUME LockInv, NEW s \in Tabs, NEW r \in Tabs, Receive(s, r)
  PROVE  LockInv'
<1>1. UNCHANGED <<lock, node>>
  BY DEF Receive, ProbeAnswered, RequestTaken, HelloHeard, ReplyHeard
<1> QED
  BY <1>1, LockUntouched

\* Every step keeps it, the stuttering ones included.
LEMMA NextLock == LockInv /\ [TabsNext]_tabVars => LockInv'
<1> SUFFICES ASSUME LockInv, [TabsNext]_tabVars PROVE LockInv'
  OBVIOUS
<1>1. ASSUME NEW t \in Tabs, OpenAsLeader(t) PROVE LockInv'
  BY <1>1, LockTaken DEF OpenAsLeader
<1>2. ASSUME NEW t \in Tabs, OpenAsFollower(t) \/ QueueForLock(t) \/ Probe(t)
      PROVE  LockInv'
  BY <1>2, LockUntouched DEF OpenAsFollower, QueueForLock, Probe
<1>3. ASSUME NEW t \in Tabs, StartServing(t) PROVE LockInv'
  BY <1>3, NodeSettles DEF StartServing
<1>4. ASSUME NEW t \in Tabs, BootFailed(t) PROVE LockInv'
  BY <1>4, NodeSettles DEF BootFailed
<1>5. ASSUME NEW t \in Tabs, Close(t) PROVE LockInv'
  BY <1>5, CloseKeepsLock
<1>6. ASSUME NEW t \in Tabs, NEW i \in CallIds, Call(t, i) PROVE LockInv'
  BY <1>6, LockUntouched DEF Call
<1>7. ASSUME NEW t \in Tabs, NEW c \in Calls, Reply(t, c) PROVE LockInv'
  BY <1>7, LockUntouched DEF Reply
<1>8. CASE Grant
  BY <1>8, LockTaken DEF Grant
<1>9. ASSUME NEW s \in Tabs, NEW r \in Tabs, Receive(s, r) PROVE LockInv'
  BY <1>9, ReceiveKeepsLock
<1>10. CASE UNCHANGED tabVars
  BY <1>10, LockUntouched DEF tabVars
<1> QED
  BY <1>1, <1>2, <1>3, <1>4, <1>5, <1>6, <1>7, <1>8, <1>9, <1>10 DEF TabsNext

\* Two nodes would both hold the lock.
LEMMA LockOneNode == LockInv => OneNode
  BY DEF LockInv, OneNode, OpenTabs

\* Whoever has a node holds the lock, however tabs open, close and promote.
THEOREM NodeHoldsLock == TabsSpec => []LockInv
<1> QED
  BY InitLock, NextLock, PTL DEF TabsSpec

\* However many tabs open, close, crash and take over, never do two of them
\* run a node under the one persisted identity (elect, promote).
THEOREM AlwaysOneNode == TabsSpec => []OneNode
<1> QED
  BY NodeHoldsLock, LockOneNode, PTL

-----------------------------------------------------------------------------
\* The messages the tabs exchange: probe and hello are about no call.
Sendable ==
  {Msg("probe", 0), Msg("hello", 0)}
    \cup {Msg(k, i) : k \in {"req", "ok", "err"}, i \in CallIds}

ChanType == [Tabs -> [Tabs -> Seq(Sendable)]]

Holds(q, m) == \E k \in DOMAIN q : q[k] = m

\* No request is in q twice.
ReqOnce(q) == \A k, l \in DOMAIN q : q[k].t = "req" /\ q[k] = q[l] => k = l

\* The inductive invariant: a request is in one channel once, on its way to
\* the node, and nobody has taken it up; what is executed or answered has been
\* taken up once (rpc, handle).
ServeTypes ==
  /\ chan \in ChanType
  /\ call \in [Tabs -> [CallIds -> {"idle", "pending", "ok", "failed"}]]
  /\ serving \in [Tabs -> SUBSET Calls]
  /\ taken \in [Tabs -> [CallIds -> {0, 1}]]

RequestsFresh ==
  \A s, r \in Tabs :
    /\ ReqOnce(chan[s][r])
    /\ \A i \in CallIds : Holds(chan[s][r], Msg("req", i)) =>
         node[r] = "up" /\ taken[s][i] = 0 /\ call[s][i] # "idle"

CallsTakenUp ==
  \A s \in Tabs, i \in CallIds :
    /\ call[s][i] = "idle" => taken[s][i] = 0
    /\ call[s][i] = "ok" => taken[s][i] = 1
    /\ \A r \in Tabs :
         \/ <<s, i>> \in serving[r]
         \/ Holds(chan[r][s], Msg("ok", i))
         \/ Holds(chan[r][s], Msg("err", i))
         => taken[s][i] = 1

ServeInv == LockInv /\ ServeTypes /\ RequestsFresh /\ CallsTakenUp

\* What a channel holds after a message is appended to it.
LEMMA AppendHolds ==
  ASSUME NEW q \in Seq(Sendable), NEW m \in Sendable
  PROVE  /\ Append(q, m) \in Seq(Sendable)
         /\ \A x : Holds(Append(q, m), x) => Holds(q, x) \/ x = m
         /\ ReqOnce(q) /\ (m.t = "req" => ~Holds(q, m)) => ReqOnce(Append(q, m))
<1>1. /\ Append(q, m) \in Seq(Sendable)
      /\ \A k \in DOMAIN Append(q, m) :
           \/ k \in DOMAIN q /\ Append(q, m)[k] = q[k]
           \/ k = Len(q) + 1 /\ Append(q, m)[k] = m
  OBVIOUS
<1> QED
  BY <1>1 DEF Holds, ReqOnce

\* What a channel holds after its first message is taken.
LEMMA TailHolds ==
  ASSUME NEW q \in Seq(Sendable), q # <<>>
  PROVE  /\ Head(q) \in Sendable /\ Holds(q, Head(q))
         /\ Tail(q) \in Seq(Sendable)
         /\ \A x : Holds(Tail(q), x) => Holds(q, x)
         /\ ReqOnce(q) => /\ ReqOnce(Tail(q))
                          /\ Head(q).t = "req" => ~Holds(Tail(q), Head(q))
<1>1. /\ Tail(q) \in Seq(Sendable)
      /\ Head(q) = q[1] /\ 1 \in DOMAIN q /\ Head(q) \in Sendable
      /\ \A k \in DOMAIN Tail(q) :
           k \in Nat /\ k # 0 /\ k + 1 \in DOMAIN q /\ Tail(q)[k] = q[k + 1]
  OBVIOUS
<1>2. \A k \in Nat : k # 0 => k + 1 # 1
  OBVIOUS
<1>3. \A k, l \in Nat : k + 1 = l + 1 => k = l
  OBVIOUS
<1>4. ASSUME NEW x, Holds(Tail(q), x) PROVE Holds(q, x)
  BY <1>1, <1>4 DEF Holds
<1>5. ASSUME ReqOnce(q) PROVE ReqOnce(Tail(q))
  <2> SUFFICES ASSUME NEW k \in DOMAIN Tail(q), NEW l \in DOMAIN Tail(q),
                      Tail(q)[k].t = "req", Tail(q)[k] = Tail(q)[l]
               PROVE  k = l
    BY DEF ReqOnce
  <2> QED
    BY <1>1, <1>3, <1>5 DEF ReqOnce
<1>6. ASSUME ReqOnce(q), Head(q).t = "req" PROVE ~Holds(Tail(q), Head(q))
  BY <1>1, <1>2, <1>6 DEF ReqOnce, Holds
<1> QED
  BY <1>1, <1>4, <1>5, <1>6 DEF Holds

\* Posting appends to the channels to the addressees and to no other.
LEMMA PostedChannels ==
  ASSUME NEW ch \in ChanType, NEW s \in Tabs, NEW m \in Sendable, NEW to
  PROVE  /\ Posted(ch, s, m, to) \in ChanType
         /\ \A u, r \in Tabs :
              Posted(ch, s, m, to)[u][r] =
                IF u = s /\ r \in to \ {s} THEN Append(ch[u][r], m) ELSE ch[u][r]
<1>1. \A r \in Tabs : ch[s][r] \in Seq(Sendable) /\ Append(ch[s][r], m) \in Seq(Sendable)
  BY AppendHolds DEF ChanType
<1> QED
  BY <1>1 DEF Posted, ChanType

\* The channels to a tab are emptied and no other.
LEMMA DeafChannels ==
  ASSUME NEW ch \in ChanType, NEW t \in Tabs
  PROVE  /\ Deaf(ch, t) \in ChanType
         /\ \A u, r \in Tabs :
              Deaf(ch, t)[u][r] = IF r = t THEN <<>> ELSE ch[u][r]
<1>1. <<>> \in Seq(Sendable)
  OBVIOUS
<1> QED
  BY <1>1 DEF Deaf, ChanType

\* One channel loses its first message.
LEMMA TakenChannels ==
  ASSUME chan \in ChanType, NEW s \in Tabs, NEW r \in Tabs, chan[s][r] # <<>>
  PROVE  /\ Taken(s, r) \in ChanType
         /\ \A u, v \in Tabs :
              Taken(s, r)[u][v] =
                IF u = s /\ v = r THEN Tail(chan[s][r]) ELSE chan[u][v]
<1>1. Tail(chan[s][r]) \in Seq(Sendable)
  BY DEF ChanType
<1> QED
  BY <1>1 DEF Taken, ChanType

\* ch holds no more than the channels do, and no request twice.
Shrinks(ch) ==
  /\ ch \in ChanType
  /\ \A s, r \in Tabs :
       /\ \A x : Holds(ch[s][r], x) => Holds(chan[s][r], x)
       /\ ReqOnce(chan[s][r]) => ReqOnce(ch[s][r])

\* The channels as they are.
LEMMA SameShrinks == chan \in ChanType => Shrinks(chan)
  BY DEF Shrinks

\* The channels once a tab has become deaf.
LEMMA DeafShrinks ==
  ASSUME chan \in ChanType, NEW t \in Tabs
  PROVE  Shrinks(Deaf(chan, t))
<1>1. ReqOnce(<<>>) /\ \A x : ~Holds(<<>>, x)
  BY DEF ReqOnce, Holds
<1> QED
  BY <1>1, DeafChannels DEF Shrinks

\* The channels once a message has been taken.
LEMMA TakenShrinks ==
  ASSUME chan \in ChanType, NEW s \in Tabs, NEW r \in Tabs, chan[s][r] # <<>>
  PROVE  Shrinks(Taken(s, r))
<1>1. chan[s][r] \in Seq(Sendable)
  BY DEF ChanType
<1> QED
  BY <1>1, TakenChannels, TailHolds DEF Shrinks

\* The channels cs hold what the present ones do, and no request twice, but
\* for m in those from s to the tabs of to.
GainsOnly(cs, s, m, to) ==
  \A u, r \in Tabs :
    /\ \A x : Holds(cs[u][r], x) => Holds(chan[u][r], x) \/ (u = s /\ r \in to /\ x = m)
    /\ ReqOnce(chan[u][r]) => ReqOnce(cs[u][r])

\* What the channels hold after m is posted, and that no request is doubled.
LEMMA PostedHolds ==
  ASSUME NEW ch, Shrinks(ch), NEW s \in Tabs, NEW m \in Sendable, NEW to,
         m.t = "req" => \A r \in Tabs : ~Holds(ch[s][r], m)
  PROVE  Posted(ch, s, m, to) \in ChanType /\ GainsOnly(Posted(ch, s, m, to), s, m, to)
<1>1. ch \in ChanType
  BY DEF Shrinks
<1>2. \A u, r \in Tabs :
        Posted(ch, s, m, to)[u][r] =
          IF u = s /\ r \in to \ {s} THEN Append(ch[u][r], m) ELSE ch[u][r]
  BY <1>1, PostedChannels
<1>3. ASSUME NEW u \in Tabs, NEW r \in Tabs
      PROVE  /\ \A x : Holds(Posted(ch, s, m, to)[u][r], x) =>
                  Holds(chan[u][r], x) \/ (u = s /\ r \in to /\ x = m)
             /\ ReqOnce(chan[u][r]) => ReqOnce(Posted(ch, s, m, to)[u][r])
  <2>1. ch[u][r] \in Seq(Sendable)
    BY <1>1 DEF ChanType
  <2>2. CASE u = s /\ r \in to \ {s}
    <3> PICK q \in Seq(Sendable) : q = ch[u][r]
      BY <2>1
    <3>1. Posted(ch, s, m, to)[u][r] = Append(q, m)
      BY <1>2, <2>2
    <3>2. /\ \A x : Holds(q, x) => Holds(chan[u][r], x)
          /\ ReqOnce(chan[u][r]) => ReqOnce(q)
      BY DEF Shrinks
    <3>3. m.t = "req" => ~Holds(q, m)
      BY <2>2
    <3>4. /\ \A x : Holds(Append(q, m), x) => Holds(q, x) \/ x = m
          /\ ReqOnce(q) => ReqOnce(Append(q, m))
      BY <3>3, AppendHolds
    <3>5. \A x : Holds(Append(q, m), x) => Holds(chan[u][r], x) \/ (u = s /\ r \in to /\ x = m)
      BY <2>2, <3>2, <3>4
    <3> QED
      BY <3>1, <3>2, <3>4, <3>5
  <2>3. CASE ~(u = s /\ r \in to \ {s})
    <3>1. Posted(ch, s, m, to)[u][r] = ch[u][r]
      BY <1>2, <2>3
    <3> QED
      BY <3>1 DEF Shrinks
  <2> QED
    BY <2>2, <2>3
<1> QED
  BY <1>1, <1>3, PostedChannels DEF GainsOnly

\* Every message is what its kind says.
LEMMA SentKinds ==
  /\ Msg("probe", 0) \in Sendable /\ Msg("hello", 0) \in Sendable
  /\ \A i \in CallIds, k \in {"req", "ok", "err"} : Msg(k, i) \in Sendable
  /\ \A m \in Sendable, k \in {"req", "ok", "err"} :
       m.t = k => m.id \in CallIds /\ m = Msg(k, m.id)
<1>0. Msg("probe", 0) \in Sendable /\ Msg("hello", 0) \in Sendable
  BY DEF Sendable
<1>1. ASSUME NEW i \in CallIds, NEW k \in {"req", "ok", "err"}
      PROVE  Msg(k, i) \in Sendable
  BY DEF Sendable
<1>2. ASSUME NEW m \in Sendable, NEW k \in {"req", "ok", "err"}, m.t = k
      PROVE  m.id \in CallIds /\ m = Msg(k, m.id)
  <2>1. Msg("probe", 0).t = "probe" /\ Msg("hello", 0).t = "hello"
    BY DEF Msg
  <2>2. PICK j \in {"req", "ok", "err"}, i \in CallIds : m = Msg(j, i)
    BY <1>2, <2>1 DEF Sendable
  <2> QED
    BY <1>2, <2>2 DEF Msg
<1> QED
  BY <1>0, <1>1, <1>2

-----------------------------------------------------------------------------
\* Before the first tab has opened no call has been made.
LEMMA InitServe == TabsInit => ServeInv
<1> SUFFICES ASSUME TabsInit PROVE ServeInv
  OBVIOUS
<1>1. <<>> \in Seq(Sendable) /\ ReqOnce(<<>>) /\ \A x : ~Holds(<<>>, x)
  BY DEF ReqOnce, Holds
<1>2. chan \in ChanType /\ \A s, r \in Tabs : chan[s][r] = <<>>
  BY <1>1 DEF TabsInit, ChanType
<1>3. ServeTypes
  BY <1>2 DEF TabsInit, ServeTypes, Calls
<1>4. RequestsFresh
  BY <1>1, <1>2 DEF RequestsFresh
<1>5. CallsTakenUp
  BY <1>1, <1>2 DEF TabsInit, CallsTakenUp
<1> QED
  BY <1>3, <1>4, <1>5, InitLock DEF ServeInv

\* A step that sends no request and no answer, executes nothing and at most
\* rejects what is pending keeps the invariant, provided no tab that has
\* requests to come loses its node.
LEMMA QuietStep ==
  ASSUME ServeInv, LockInv', chan' \in ChanType,
         \A s, r \in Tabs :
           /\ \A x : Holds(chan'[s][r], x) =>
                Holds(chan[s][r], x) \/ x.t \in {"probe", "hello"}
           /\ ReqOnce(chan[s][r]) => ReqOnce(chan'[s][r])
           /\ node[r] = "up" => node'[r] = "up" \/ chan'[s][r] = <<>>,
         call' \in [Tabs -> [CallIds -> {"idle", "pending", "ok", "failed"}]],
         \A s \in Tabs, i \in CallIds :
           \/ call'[s][i] = call[s][i]
           \/ call[s][i] = "pending" /\ call'[s][i] = "failed",
         serving' \in [Tabs -> SUBSET Calls],
         \A r \in Tabs : serving'[r] \subseteq serving[r],
         taken' = taken
  PROVE  ServeInv'
<1>1. \A k \in {"req", "ok", "err"}, i \in CallIds, s, r \in Tabs :
        Holds(chan'[s][r], Msg(k, i)) => Holds(chan[s][r], Msg(k, i))
  BY DEF Msg
<1>2. \A x : ~Holds(<<>>, x)
  BY DEF Holds
<1>3. ServeTypes'
  BY DEF ServeInv, ServeTypes
<1>4. RequestsFresh'
  <2> SUFFICES ASSUME NEW s \in Tabs, NEW r \in Tabs
               PROVE  /\ ReqOnce(chan'[s][r])
                      /\ \A i \in CallIds : Holds(chan'[s][r], Msg("req", i)) =>
                           node'[r] = "up" /\ taken'[s][i] = 0 /\ call'[s][i] # "idle"
    BY DEF RequestsFresh
  <2>1. ReqOnce(chan'[s][r])
    BY DEF ServeInv, RequestsFresh
  <2>2. ASSUME NEW i \in CallIds, Holds(chan'[s][r], Msg("req", i))
        PROVE  node'[r] = "up" /\ taken'[s][i] = 0 /\ call'[s][i] # "idle"
    <3>1. node[r] = "up" /\ taken[s][i] = 0 /\ call[s][i] # "idle"
      BY <1>1, <2>2 DEF ServeInv, RequestsFresh
    <3>2. chan'[s][r] # <<>>
      BY <1>2, <2>2
    <3> QED
      BY <3>1, <3>2
  <2> QED
    BY <2>1, <2>2
<1>5. CallsTakenUp'
  <2> SUFFICES ASSUME NEW s \in Tabs, NEW i \in CallIds
               PROVE  /\ call'[s][i] = "idle" => taken[s][i] = 0
                      /\ call'[s][i] = "ok" => taken[s][i] = 1
                      /\ \A r \in Tabs :
                           \/ <<s, i>> \in serving'[r]
                           \/ Holds(chan'[r][s], Msg("ok", i))
                           \/ Holds(chan'[r][s], Msg("err", i))
                           => taken[s][i] = 1
    BY DEF CallsTakenUp
  <2>1. /\ call'[s][i] = "idle" => call[s][i] = "idle"
        /\ call'[s][i] = "ok" => call[s][i] = "ok"
    OBVIOUS
  <2> QED
    BY <1>1, <2>1 DEF ServeInv, CallsTakenUp
<1> QED
  BY <1>3, <1>4, <1>5 DEF ServeInv

\* A follower puts its request in the channel to the tab whose node is up; it
\* has made this call for the first time (rpc).
LEMMA CallServe ==
  ASSUME ServeInv, LockInv', NEW t \in Tabs, NEW i \in CallIds, Call(t, i)
  PROVE  ServeInv'
<1> DEFINE m == Msg("req", i)
<1>1. m \in Sendable
  BY SentKinds
<1>2. chan \in ChanType /\ Shrinks(chan)
  BY SameShrinks DEF ServeInv, ServeTypes
<1>3. \A r \in Tabs : ~Holds(chan[t][r], m)
  BY DEF Call, ServeInv, RequestsFresh
<1>4. chan' = Posted(chan, t, m, Servers)
  BY DEF Call
<1>5. /\ chan' \in ChanType
      /\ \A u, r \in Tabs :
           /\ \A x : Holds(chan'[u][r], x) =>
                Holds(chan[u][r], x) \/ (u = t /\ r \in Servers /\ x = m)
           /\ ReqOnce(chan[u][r]) => ReqOnce(chan'[u][r])
  BY <1>1, <1>2, <1>3, <1>4, PostedHolds DEF GainsOnly
<1>6. /\ \A j \in CallIds : Msg("req", j) = m => j = i
      /\ \A j \in CallIds : Msg("ok", j) # m /\ Msg("err", j) # m
  BY DEF Msg
<1>7. /\ UNCHANGED <<node, serving, taken>>
      /\ call' = [call EXCEPT ![t][i] = "pending"]
      /\ call[t][i] = "idle" /\ taken[t][i] = 0
  BY DEF Call, ServeInv, CallsTakenUp
<1>8. /\ call' \in [Tabs -> [CallIds -> {"idle", "pending", "ok", "failed"}]]
      /\ \A s \in Tabs, j \in CallIds :
           \/ s = t /\ j = i /\ call'[s][j] = "pending"
           \/ call'[s][j] = call[s][j]
  BY <1>7 DEF ServeInv, ServeTypes
<1>9. ServeTypes'
  BY <1>5, <1>7, <1>8 DEF ServeInv, ServeTypes
<1>10. RequestsFresh'
  <2> SUFFICES ASSUME NEW s \in Tabs, NEW r \in Tabs
               PROVE  /\ ReqOnce(chan'[s][r])
                      /\ \A j \in CallIds : Holds(chan'[s][r], Msg("req", j)) =>
                           node'[r] = "up" /\ taken'[s][j] = 0 /\ call'[s][j] # "idle"
    BY DEF RequestsFresh
  <2>1. ReqOnce(chan'[s][r])
    BY <1>5 DEF ServeInv, RequestsFresh
  <2>2. ASSUME NEW j \in CallIds, Holds(chan[s][r], Msg("req", j))
        PROVE  node'[r] = "up" /\ taken'[s][j] = 0 /\ call'[s][j] # "idle"
    BY <2>2, <1>7, <1>8 DEF ServeInv, RequestsFresh
  <2>3. ASSUME s = t, r \in Servers
        PROVE  node'[r] = "up" /\ taken'[s][i] = 0 /\ call'[s][i] # "idle"
    BY <2>3, <1>7 DEF Servers, ServeInv, ServeTypes
  <2> QED
    BY <2>1, <2>2, <2>3, <1>5, <1>6
<1>11. CallsTakenUp'
  <2> SUFFICES ASSUME NEW s \in Tabs, NEW j \in CallIds
               PROVE  /\ call'[s][j] = "idle" => taken'[s][j] = 0
                      /\ call'[s][j] = "ok" => taken'[s][j] = 1
                      /\ \A r \in Tabs :
                           \/ <<s, j>> \in serving'[r]
                           \/ Holds(chan'[r][s], Msg("ok", j))
                           \/ Holds(chan'[r][s], Msg("err", j))
                           => taken'[s][j] = 1
    BY DEF CallsTakenUp
  <2>1. \A r \in Tabs, k \in {"ok", "err"} :
          Holds(chan'[r][s], Msg(k, j)) => Holds(chan[r][s], Msg(k, j))
    BY <1>5, <1>6
  <2>2. /\ call'[s][j] = "idle" => call[s][j] = "idle"
        /\ call'[s][j] = "ok" => call[s][j] = "ok"
    BY <1>8
  <2> QED
    BY <2>1, <2>2, <1>7 DEF ServeInv, CallsTakenUp
<1> QED
  BY <1>9, <1>10, <1>11 DEF ServeInv

\* The answer to a call that was executed concerns no other call (handle).
LEMMA ReplyServe ==
  ASSUME ServeInv, LockInv', NEW t \in Tabs, NEW c \in Calls, Reply(t, c)
  PROVE  ServeInv'
<1> DEFINE to == Followers \cap {c[1]}
<1>1. PICK a \in {"ok", "err"} : chan' = Posted(chan, t, Msg(a, c[2]), to)
  BY DEF Reply
<1>2. /\ c[1] \in Tabs /\ c[2] \in CallIds /\ c = <<c[1], c[2]>>
      /\ taken[c[1]][c[2]] = 1
  <2>1. c[1] \in Tabs /\ c[2] \in CallIds /\ c = <<c[1], c[2]>>
    BY DEF Calls
  <2>2. <<c[1], c[2]>> \in serving[t]
    BY <2>1 DEF Reply
  <2> QED
    BY <2>1, <2>2 DEF ServeInv, CallsTakenUp
<1> DEFINE m == Msg(a, c[2])
<1>3. m \in Sendable /\ m.t # "req"
  BY <1>2, SentKinds DEF Msg
<1>4. Shrinks(chan)
  BY SameShrinks DEF ServeInv, ServeTypes
<1>5. /\ chan' \in ChanType
      /\ \A u, r \in Tabs :
           /\ \A x : Holds(chan'[u][r], x) =>
                Holds(chan[u][r], x) \/ (u = t /\ r = c[1] /\ x = m)
           /\ ReqOnce(chan[u][r]) => ReqOnce(chan'[u][r])
  <2>1. \A r \in to : r = c[1]
    OBVIOUS
  <2> HIDE DEF to, m
  <2>2. /\ chan' \in ChanType
        /\ \A u, r \in Tabs :
             /\ \A x : Holds(chan'[u][r], x) =>
                  Holds(chan[u][r], x) \/ (u = t /\ r \in to /\ x = m)
             /\ ReqOnce(chan[u][r]) => ReqOnce(chan'[u][r])
    <3>1. chan' = Posted(chan, t, m, to)
      BY <1>1 DEF m
    <3> QED
      BY <1>3, <1>4, <3>1, PostedHolds DEF GainsOnly
  <2> QED
    BY <2>1, <2>2
<1>6. /\ \A j \in CallIds : Msg("req", j) # m
      /\ \A j \in CallIds : Msg("ok", j) = m \/ Msg("err", j) = m => j = c[2]
  BY DEF Msg
<1>7. /\ UNCHANGED <<node, call, taken>>
      /\ serving' \in [Tabs -> SUBSET Calls]
      /\ \A r \in Tabs : serving'[r] \subseteq serving[r]
  BY DEF Reply, ServeInv, ServeTypes
<1>8. ServeTypes'
  BY <1>5, <1>7 DEF ServeInv, ServeTypes
<1> HIDE DEF m
<1>9. RequestsFresh'
  <2>1. \A u, r \in Tabs, j \in CallIds :
          Holds(chan'[u][r], Msg("req", j)) => Holds(chan[u][r], Msg("req", j))
    BY <1>5, <1>6
  <2> QED
    BY <2>1, <1>5, <1>7 DEF ServeInv, RequestsFresh
<1>10. CallsTakenUp'
  <2> SUFFICES ASSUME NEW s \in Tabs, NEW j \in CallIds
               PROVE  /\ call'[s][j] = "idle" => taken'[s][j] = 0
                      /\ call'[s][j] = "ok" => taken'[s][j] = 1
                      /\ \A r \in Tabs :
                           \/ <<s, j>> \in serving'[r]
                           \/ Holds(chan'[r][s], Msg("ok", j))
                           \/ Holds(chan'[r][s], Msg("err", j))
                           => taken'[s][j] = 1
    BY DEF CallsTakenUp
  <2>1. CASE s = c[1] /\ j = c[2]
    BY <2>1, <1>2, <1>7 DEF ServeInv, CallsTakenUp
  <2>2. CASE ~(s = c[1] /\ j = c[2])
    <3>1. \A r \in Tabs, k \in {"ok", "err"} :
            Holds(chan'[r][s], Msg(k, j)) => Holds(chan[r][s], Msg(k, j))
      BY <2>2, <1>5, <1>6
    <3> QED
      BY <3>1, <1>7 DEF ServeInv, CallsTakenUp
  <2> QED
    BY <2>1, <2>2
<1> QED
  BY <1>8, <1>9, <1>10 DEF ServeInv

\* A request taken up is in no channel any more: it was once in the channel to
\* this tab, and no other tab has a node (handle).
LEMMA RequestServe ==
  ASSUME ServeInv, LockInv', NEW s \in Tabs, NEW r \in Tabs, chan[s][r] # <<>>,
         Head(chan[s][r]).t = "req", RequestTaken(s, r, Head(chan[s][r]))
  PROVE  ServeInv'
<1> DEFINE m == Head(chan[s][r])
           i == m.id
<1>1. chan \in ChanType /\ chan[s][r] \in Seq(Sendable)
  BY DEF ServeInv, ServeTypes, ChanType
<1>2. /\ m \in Sendable /\ Holds(chan[s][r], m)
      /\ ReqOnce(chan[s][r]) => ~Holds(Tail(chan[s][r]), m)
  BY <1>1, TailHolds
<1>3. i \in CallIds /\ m = Msg("req", i)
  BY <1>2, SentKinds
<1>4. node[r] = "up" /\ taken[s][i] = 0 /\ call[s][i] # "idle"
  BY <1>2, <1>3 DEF ServeInv, RequestsFresh
<1>5. /\ chan' = Taken(s, r) /\ chan' \in ChanType
      /\ \A u, v \in Tabs :
           /\ \A x : Holds(chan'[u][v], x) => Holds(chan[u][v], x)
           /\ ReqOnce(chan[u][v]) => ReqOnce(chan'[u][v])
  <2>1. chan' = Taken(s, r)
    BY DEF RequestTaken
  <2> QED
    BY <1>1, <2>1, TakenShrinks DEF Shrinks
<1>6. \A v \in Tabs : ~Holds(chan'[s][v], m)
  <2> SUFFICES ASSUME NEW v \in Tabs, Holds(chan'[s][v], m) PROVE FALSE
    OBVIOUS
  <2>1. Holds(chan[s][v], Msg("req", i))
    BY <1>3, <1>5
  <2>2. node[v] = "up"
    BY <1>3, <2>1 DEF ServeInv, RequestsFresh
  <2>3. v = r
    BY <1>4, <2>2 DEF ServeInv, LockInv
  <2>4. chan'[s][v] = Tail(chan[s][r])
    BY <1>1, <1>5, <2>3, TakenChannels
  <2> QED
    BY <1>2, <2>4 DEF ServeInv, RequestsFresh
<1>7. /\ UNCHANGED <<node, call>>
      /\ taken' = [taken EXCEPT ![s][i] = @ + 1]
      /\ serving' = [serving EXCEPT ![r] = @ \cup {<<s, i>>}]
  BY DEF RequestTaken
<1>8. /\ taken' \in [Tabs -> [CallIds -> {0, 1}]]
      /\ taken'[s][i] = 1
      /\ \A u \in Tabs, j \in CallIds :
           taken'[u][j] = taken[u][j] \/ (u = s /\ j = i)
  BY <1>3, <1>4, <1>7 DEF ServeInv, ServeTypes
<1>9. /\ serving' \in [Tabs -> SUBSET Calls]
      /\ \A u, v \in Tabs, j \in CallIds :
           <<u, j>> \in serving'[v] => <<u, j>> \in serving[v] \/ (u = s /\ j = i)
  BY <1>3, <1>7 DEF ServeInv, ServeTypes, Calls
<1> HIDE DEF m, i
<1>10. ServeTypes'
  BY <1>5, <1>7, <1>8, <1>9 DEF ServeInv, ServeTypes
<1>11. RequestsFresh'
  <2> SUFFICES ASSUME NEW u \in Tabs, NEW v \in Tabs
               PROVE  /\ ReqOnce(chan'[u][v])
                      /\ \A j \in CallIds : Holds(chan'[u][v], Msg("req", j)) =>
                           node'[v] = "up" /\ taken'[u][j] = 0 /\ call'[u][j] # "idle"
    BY DEF RequestsFresh
  <2>1. ReqOnce(chan'[u][v])
    BY <1>5 DEF ServeInv, RequestsFresh
  <2>2. ASSUME NEW j \in CallIds, Holds(chan'[u][v], Msg("req", j))
        PROVE  node'[v] = "up" /\ taken'[u][j] = 0 /\ call'[u][j] # "idle"
    <3>1. Holds(chan[u][v], Msg("req", j))
      BY <1>5, <2>2
    <3>2. ~(u = s /\ j = i)
      BY <1>3, <1>6, <2>2
    <3> QED
      BY <3>1, <3>2, <1>7, <1>8 DEF ServeInv, RequestsFresh
  <2> QED
    BY <2>1, <2>2
<1>12. CallsTakenUp'
  <2> SUFFICES ASSUME NEW u \in Tabs, NEW j \in CallIds
               PROVE  /\ call'[u][j] = "idle" => taken'[u][j] = 0
                      /\ call'[u][j] = "ok" => taken'[u][j] = 1
                      /\ \A v \in Tabs :
                           \/ <<u, j>> \in serving'[v]
                           \/ Holds(chan'[v][u], Msg("ok", j))
                           \/ Holds(chan'[v][u], Msg("err", j))
                           => taken'[u][j] = 1
    BY DEF CallsTakenUp
  <2>1. CASE u = s /\ j = i
    BY <2>1, <1>4, <1>7, <1>8
  <2>2. CASE ~(u = s /\ j = i)
    <3>1. \A v \in Tabs, k \in {"ok", "err"} :
            Holds(chan'[v][u], Msg(k, j)) => Holds(chan[v][u], Msg(k, j))
      BY <1>5
    <3>2. /\ taken'[u][j] = taken[u][j]
          /\ \A v \in Tabs : <<u, j>> \in serving'[v] => <<u, j>> \in serving[v]
      BY <2>2, <1>8, <1>9
    <3> QED
      BY <3>1, <3>2, <1>7 DEF ServeInv, CallsTakenUp
  <2> QED
    BY <2>1, <2>2
<1> QED
  BY <1>10, <1>11, <1>12 DEF ServeInv

\* A call settles by an answer, and an answer is to a call taken up (follower's
\* onmessage).
LEMMA ReplyHeardServe ==
  ASSUME ServeInv, LockInv', NEW s \in Tabs, NEW r \in Tabs, chan[s][r] # <<>>,
         Head(chan[s][r]).t \in {"ok", "err"}, ReplyHeard(s, r, Head(chan[s][r]))
  PROVE  ServeInv'
<1> DEFINE m == Head(chan[s][r])
           i == m.id
<1>1. chan \in ChanType /\ chan[s][r] \in Seq(Sendable)
  BY DEF ServeInv, ServeTypes, ChanType
<1>2. m \in Sendable /\ Holds(chan[s][r], m)
  BY <1>1, TailHolds
<1>3. i \in CallIds /\ (m = Msg("ok", i) \/ m = Msg("err", i))
  BY <1>2, SentKinds
<1>4. taken[r][i] = 1
  BY <1>2, <1>3 DEF ServeInv, CallsTakenUp
<1>5. /\ chan' \in ChanType
      /\ \A u, v \in Tabs :
           /\ \A x : Holds(chan'[u][v], x) => Holds(chan[u][v], x)
           /\ ReqOnce(chan[u][v]) => ReqOnce(chan'[u][v])
  <2>1. chan' = Taken(s, r)
    BY DEF ReplyHeard
  <2> QED
    BY <1>1, <2>1, TakenShrinks DEF Shrinks
<1>6. UNCHANGED <<node, serving, taken>>
  BY DEF ReplyHeard
<1>7. /\ call' \in [Tabs -> [CallIds -> {"idle", "pending", "ok", "failed"}]]
      /\ \A u \in Tabs, j \in CallIds :
           \/ call'[u][j] = call[u][j]
           \/ u = r /\ j = i /\ call'[u][j] \in {"ok", "failed"}
  BY <1>3 DEF ReplyHeard, ServeInv, ServeTypes
<1> HIDE DEF m, i
<1>8. ServeTypes'
  BY <1>5, <1>6, <1>7 DEF ServeInv, ServeTypes
<1>9. RequestsFresh'
  <2> SUFFICES ASSUME NEW u \in Tabs, NEW v \in Tabs
               PROVE  /\ ReqOnce(chan'[u][v])
                      /\ \A j \in CallIds : Holds(chan'[u][v], Msg("req", j)) =>
                           node'[v] = "up" /\ taken'[u][j] = 0 /\ call'[u][j] # "idle"
    BY DEF RequestsFresh
  <2>1. ReqOnce(chan'[u][v])
    BY <1>5 DEF ServeInv, RequestsFresh
  <2>2. ASSUME NEW j \in CallIds, Holds(chan'[u][v], Msg("req", j))
        PROVE  node'[v] = "up" /\ taken'[u][j] = 0 /\ call'[u][j] # "idle"
    <3>1. Holds(chan[u][v], Msg("req", j))
      BY <1>5, <2>2
    <3> QED
      BY <3>1, <1>6, <1>7 DEF ServeInv, RequestsFresh
  <2> QED
    BY <2>1, <2>2
<1>10. CallsTakenUp'
  <2> SUFFICES ASSUME NEW u \in Tabs, NEW j \in CallIds
               PROVE  /\ call'[u][j] = "idle" => taken'[u][j] = 0
                      /\ call'[u][j] = "ok" => taken'[u][j] = 1
                      /\ \A v \in Tabs :
                           \/ <<u, j>> \in serving'[v]
                           \/ Holds(chan'[v][u], Msg("ok", j))
                           \/ Holds(chan'[v][u], Msg("err", j))
                           => taken'[u][j] = 1
    BY DEF CallsTakenUp
  <2>1. \A v \in Tabs, k \in {"ok", "err"} :
          Holds(chan'[v][u], Msg(k, j)) => Holds(chan[v][u], Msg(k, j))
    BY <1>5
  <2>2. CASE u = r /\ j = i
    BY <2>2, <1>4, <1>6, <1>7 DEF ServeInv, CallsTakenUp
  <2>3. CASE ~(u = r /\ j = i)
    BY <2>1, <2>3, <1>6, <1>7 DEF ServeInv, CallsTakenUp
  <2> QED
    BY <2>2, <2>3
<1> QED
  BY <1>8, <1>9, <1>10 DEF ServeInv

-----------------------------------------------------------------------------
\* A tab loses the node it has up only by closing.
LEMMA NodeStays ==
  ASSUME LockInv, NEW t, node[t] # "up" \/ t \notin Tabs,
         NEW v, node' = [node EXCEPT ![t] = v]
  PROVE  \A r \in Tabs : node[r] = "up" => node'[r] = "up"
  BY DEF LockInv

\* What FailInflight does to the calls is what a quiet step may do.
LEMMA FailedCalls ==
  ASSUME ServeTypes, NEW t \in Tabs, FailInflight(t)
  PROVE  /\ call' \in [Tabs -> [CallIds -> {"idle", "pending", "ok", "failed"}]]
         /\ \A s \in Tabs, i \in CallIds :
              \/ call'[s][i] = call[s][i]
              \/ call[s][i] = "pending" /\ call'[s][i] = "failed"
  BY DEF ServeTypes, FailInflight

\* Steps of the election and the probes: no call's message is sent.
LEMMA ElectionServe ==
  ASSUME ServeInv, LockInv', NEW t \in Tabs,
         \/ OpenAsLeader(t) \/ OpenAsFollower(t) \/ QueueForLock(t)
         \/ BootFailed(t) \/ Probe(t)
  PROVE  ServeInv'
<1>1. UNCHANGED <<call, serving, taken>>
  BY DEF OpenAsLeader, OpenAsFollower, QueueForLock, BootFailed, Probe
<1>2. \A r \in Tabs : node[r] = "up" => node'[r] = "up"
  <2>1. CASE OpenAsLeader(t)
    BY <2>1, NodeStays, TabAssumption DEF OpenAsLeader, ServeInv, LockInv
  <2>2. CASE BootFailed(t)
    BY <2>2, NodeStays DEF BootFailed, ServeInv
  <2>3. CASE OpenAsFollower(t) \/ QueueForLock(t) \/ Probe(t)
    BY <2>3 DEF OpenAsFollower, QueueForLock, Probe
  <2> QED
    BY <2>1, <2>2, <2>3
<1>3. chan' = chan \/ chan' = Posted(chan, t, Msg("probe", 0), Servers)
  BY DEF OpenAsLeader, OpenAsFollower, QueueForLock, BootFailed, Probe
<1>4. /\ chan' \in ChanType
      /\ \A s, r \in Tabs :
           /\ \A x : Holds(chan'[s][r], x) =>
                Holds(chan[s][r], x) \/ x.t \in {"probe", "hello"}
           /\ ReqOnce(chan[s][r]) => ReqOnce(chan'[s][r])
  <2>1. chan \in ChanType /\ Shrinks(chan)
    BY SameShrinks DEF ServeInv, ServeTypes
  <2>2. Msg("probe", 0) \in Sendable /\ Msg("probe", 0).t = "probe"
    BY SentKinds DEF Msg
  <2> QED
    BY <1>3, <2>1, <2>2, PostedHolds DEF GainsOnly
<1> QED
  BY <1>1, <1>2, <1>4, QuietStep DEF ServeInv, ServeTypes

\* The lock granted, or nothing done at all: the messages stay as they are.
LEMMA GrantServe ==
  ASSUME ServeInv, LockInv', Grant \/ UNCHANGED tabVars
  PROVE  ServeInv'
<1>1. UNCHANGED <<chan, call, serving, taken>>
  BY DEF Grant, tabVars
<1>2. \A r \in Tabs : node[r] = "up" => node'[r] = "up"
  <2>1. CASE Grant
    BY <2>1, NodeStays, TabAssumption DEF Grant, ServeInv, LockInv
  <2>2. CASE UNCHANGED tabVars
    BY <2>2 DEF tabVars
  <2> QED
    BY <2>1, <2>2
<1> QED
  BY <1>1, <1>2, QuietStep DEF ServeInv, ServeTypes

\* A tab that starts serving hears nothing that was posted before, and what it
\* had asked is rejected (promote).
LEMMA StartServe ==
  ASSUME ServeInv, LockInv', NEW t \in Tabs, StartServing(t)
  PROVE  ServeInv'
<1>1. UNCHANGED <<serving, taken>>
  BY DEF StartServing
<1>2. \A r \in Tabs : node[r] = "up" => node'[r] = "up"
  BY NodeStays DEF StartServing, ServeInv
<1>3. chan' = Posted(Deaf(chan, t), t, Msg("hello", 0), Followers)
  BY DEF StartServing
<1>4. /\ chan' \in ChanType
      /\ \A s, r \in Tabs :
           /\ \A x : Holds(chan'[s][r], x) =>
                Holds(chan[s][r], x) \/ x.t \in {"probe", "hello"}
           /\ ReqOnce(chan[s][r]) => ReqOnce(chan'[s][r])
  <2>1. Shrinks(Deaf(chan, t))
    BY DeafShrinks DEF ServeInv, ServeTypes
  <2>2. Msg("hello", 0) \in Sendable /\ Msg("hello", 0).t = "hello"
    BY SentKinds DEF Msg
  <2> QED
    BY <1>3, <2>1, <2>2, PostedHolds DEF GainsOnly
<1>5. /\ call' \in [Tabs -> [CallIds -> {"idle", "pending", "ok", "failed"}]]
      /\ \A s \in Tabs, i \in CallIds :
           \/ call'[s][i] = call[s][i]
           \/ call[s][i] = "pending" /\ call'[s][i] = "failed"
  BY FailedCalls DEF StartServing, ServeInv
<1> QED
  BY <1>1, <1>2, <1>4, <1>5, QuietStep DEF ServeInv, ServeTypes

\* A tab that goes away takes the requests on their way to it with it.
LEMMA CloseServe ==
  ASSUME ServeInv, LockInv', NEW t \in Tabs, Close(t)
  PROVE  ServeInv'
<1>1. /\ taken' = taken
      /\ serving' \in [Tabs -> SUBSET Calls]
      /\ \A r \in Tabs : serving'[r] \subseteq serving[r]
  BY DEF Close, ServeInv, ServeTypes
<1>2. chan' = Deaf(chan, t) /\ chan \in ChanType
  BY DEF Close, ServeInv, ServeTypes
<1>3. \A s, r \in Tabs :
        node[r] = "up" => node'[r] = "up" \/ chan'[s][r] = <<>>
  <2>1. \A r \in Tabs : r # t => node'[r] = node[r]
    BY DEF Close, ServeInv, LockInv
  <2>2. \A s \in Tabs : chan'[s][t] = <<>>
    BY <1>2, DeafChannels
  <2> QED
    BY <2>1, <2>2
<1>4. Shrinks(Deaf(chan, t))
  BY <1>2, DeafShrinks
<1>5. /\ chan' \in ChanType
      /\ \A s, r \in Tabs :
           /\ \A x : Holds(chan'[s][r], x) =>
                Holds(chan[s][r], x) \/ x.t \in {"probe", "hello"}
           /\ ReqOnce(chan[s][r]) => ReqOnce(chan'[s][r])
  BY <1>2, <1>4 DEF Shrinks
<1>6. /\ call' \in [Tabs -> [CallIds -> {"idle", "pending", "ok", "failed"}]]
      /\ \A s \in Tabs, i \in CallIds :
           \/ call'[s][i] = call[s][i]
           \/ call[s][i] = "pending" /\ call'[s][i] = "failed"
  BY FailedCalls DEF Close, ServeInv
<1> QED
  BY <1>1, <1>3, <1>5, <1>6, QuietStep

\* A probe answered or a leader heard of: at most pending calls are rejected.
LEMMA HelloServe ==
  ASSUME ServeInv, LockInv', NEW s \in Tabs, NEW r \in Tabs, chan[s][r] # <<>>,
         ProbeAnswered(s, r) \/ HelloHeard(s, r)
  PROVE  ServeInv'
<1>1. UNCHANGED <<node, serving, taken>>
  BY DEF ProbeAnswered, HelloHeard
<1>2. \/ chan' = Taken(s, r)
      \/ chan' = Posted(Taken(s, r), r, Msg("hello", 0), Followers)
  BY DEF ProbeAnswered, HelloHeard
<1>3. Shrinks(Taken(s, r))
  BY TakenShrinks DEF ServeInv, ServeTypes
<1>4. /\ chan' \in ChanType
      /\ \A u, v \in Tabs :
           /\ \A x : Holds(chan'[u][v], x) =>
                Holds(chan[u][v], x) \/ x.t \in {"probe", "hello"}
           /\ ReqOnce(chan[u][v]) => ReqOnce(chan'[u][v])
  <2>1. CASE chan' = Taken(s, r)
    BY <1>3, <2>1 DEF Shrinks
  <2>2. CASE chan' = Posted(Taken(s, r), r, Msg("hello", 0), Followers)
    <3>1. Msg("hello", 0) \in Sendable /\ Msg("hello", 0).t = "hello"
      BY SentKinds DEF Msg
    <3> PICK ch : ch = Taken(s, r)
      OBVIOUS
    <3> PICK m \in Sendable : m = Msg("hello", 0)
      BY <3>1
    <3> PICK to : to = Followers
      OBVIOUS
    <3>2. Shrinks(ch) /\ m.t = "hello" /\ chan' = Posted(ch, r, m, to)
      BY <1>3, <2>2, <3>1
    <3>3. Posted(ch, r, m, to) \in ChanType /\ GainsOnly(Posted(ch, r, m, to), r, m, to)
      <4>1. m.t = "req" => \A v \in Tabs : ~Holds(ch[r][v], m)
        BY <3>2
      <4>2. Shrinks(ch)
        BY <3>2
      <4> QED
        BY <4>1, <4>2, PostedHolds
    <3>4. chan' \in ChanType /\ GainsOnly(chan', r, m, to)
      BY <3>2, <3>3
    <3> QED
      BY <3>2, <3>4 DEF GainsOnly
  <2> QED
    BY <1>2, <2>1, <2>2
<1>5. /\ call' \in [Tabs -> [CallIds -> {"idle", "pending", "ok", "failed"}]]
      /\ \A u \in Tabs, i \in CallIds :
           \/ call'[u][i] = call[u][i]
           \/ call[u][i] = "pending" /\ call'[u][i] = "failed"
  <2>1. call' = call \/ FailInflight(r)
    BY DEF ProbeAnswered, HelloHeard
  <2>2. CASE call' = call
    BY <2>2 DEF ServeInv, ServeTypes
  <2>3. CASE FailInflight(r)
    BY <2>3, FailedCalls DEF ServeInv
  <2> QED
    BY <2>1, <2>2, <2>3
<1> QED
  BY <1>1, <1>4, <1>5, QuietStep DEF ServeInv, ServeTypes

\* Every step keeps it.
LEMMA NextServe == ServeInv /\ [TabsNext]_tabVars => ServeInv'
<1> SUFFICES ASSUME ServeInv, [TabsNext]_tabVars PROVE ServeInv'
  OBVIOUS
<1>1. LockInv'
  BY NextLock DEF ServeInv
<1>2. ASSUME NEW t \in Tabs,
             \/ OpenAsLeader(t) \/ OpenAsFollower(t) \/ QueueForLock(t)
             \/ BootFailed(t) \/ Probe(t)
      PROVE  ServeInv'
  BY <1>1, <1>2, ElectionServe
<1>3. ASSUME NEW t \in Tabs, StartServing(t) PROVE ServeInv'
  BY <1>1, <1>3, StartServe
<1>4. ASSUME NEW t \in Tabs, Close(t) PROVE ServeInv'
  BY <1>1, <1>4, CloseServe
<1>5. ASSUME NEW t \in Tabs, NEW i \in CallIds, Call(t, i) PROVE ServeInv'
  BY <1>1, <1>5, CallServe
<1>6. ASSUME NEW t \in Tabs, NEW c \in Calls, Reply(t, c) PROVE ServeInv'
  BY <1>1, <1>6, ReplyServe
<1>7. ASSUME NEW s \in Tabs, NEW r \in Tabs, Receive(s, r) PROVE ServeInv'
  BY <1>1, <1>7, HelloServe, RequestServe, ReplyHeardServe DEF Receive
<1>8. CASE Grant \/ UNCHANGED tabVars
  BY <1>1, <1>8, GrantServe
<1> QED
  BY <1>2, <1>3, <1>4, <1>5, <1>6, <1>7, <1>8 DEF TabsNext

\* A request once taken up is nowhere else, and an answer is to one.
LEMMA ServeProperties == ServeInv => CallsServed
<1> SUFFICES ASSUME ServeInv PROVE CallsServed
  OBVIOUS
<1>1. \A t \in Tabs, i \in CallIds : taken[t][i] \in {0, 1}
  BY DEF ServeInv, ServeTypes
<1>2. \A t \in Tabs, i \in CallIds : call[t][i] = "ok" => taken[t][i] = 1
  BY DEF ServeInv, CallsTakenUp
<1> QED
  BY <1>1, <1>2 DEF CallsServed

\* However leaders come and go while a call or its answer is under way, the
\* call is executed at most once, and none resolves that no leader executed
\* (rpc, handle, failInflight).
THEOREM CallsServedOnce == TabsSpec => []CallsServed
<1> QED
  BY InitServe, NextServe, ServeProperties, PTL DEF TabsSpec

-----------------------------------------------------------------------------
(* Why a stream says only what it has put down, in the order that lets       *)
(* playback open first, for every module, every number of takes of one root  *)
(* and every playhead.  StreamInv says of a take, step by step, what it has   *)
(* told, put down and left to fetch; the rest is about the order of need_key. *)

\* The n-th smallest number of a set is what its name says (Nth).
LEMMA NthRanks ==
  ASSUME NEW S \in SUBSET Nat, IsFiniteSet(S)
  PROVE  /\ Cardinality(S) \in Nat
         /\ \A n \in 1..Cardinality(S) : Nth(S, n) \in S
         /\ \A m, n \in 1..Cardinality(S) : m < n => Nth(S, m) < Nth(S, n)
         /\ \A k \in S : \E n \in 1..Cardinality(S) : Nth(S, n) = k
<1> DEFINE N == Cardinality(S)
           Upto(k) == {j \in S : j <= k}
           rank == [k \in S |-> Cardinality(Upto(k))]
<1>0. N \in Nat
  BY FS_CardinalityType
<1>1. \A k \in S : /\ IsFiniteSet(Upto(k)) /\ Cardinality(Upto(k)) \in Nat
                   /\ Cardinality(Upto(k)) <= N
  BY FS_Subset, FS_CardinalityType
<1>2. \A k \in S : Cardinality(Upto(k)) # 0
  <2> TAKE k \in S
  <2>1. k \in Upto(k)
    OBVIOUS
  <2> QED BY <1>1, <2>1, FS_EmptySet
<1>3. ASSUME NEW j \in S, NEW k \in S, j < k
      PROVE  Cardinality(Upto(j)) < Cardinality(Upto(k))
  <2>0. j \in Nat /\ k \in Nat
    OBVIOUS
  <2>1. Upto(j) \subseteq Upto(k)
    <3> SUFFICES ASSUME NEW i \in Upto(j) PROVE i \in Upto(k)
      OBVIOUS
    <3>1. i \in S /\ i \in Nat /\ i <= j
      OBVIOUS
    <3> QED BY <1>3, <2>0, <3>1
  <2>5. k \in Upto(k) /\ k \notin Upto(j)
    BY <1>3, <2>0
  <2>2. Cardinality(Upto(j)) <= Cardinality(Upto(k)) /\ Cardinality(Upto(j)) # Cardinality(Upto(k))
    <3> HIDE DEF Upto
    <3> QED BY <1>1, <2>1, <2>5, FS_Subset
  <2> QED BY <1>1, <2>2
<1> HIDE DEF Upto
<1>4. rank \in Injection(S, 1..N)
  <2>1. rank \in [S -> 1..N]
    BY <1>0, <1>1, <1>2
  <2>2. \A j, k \in S : rank[j] = rank[k] => j = k
    <3> TAKE j, k \in S
    <3>1. j \in Nat /\ k \in Nat
      OBVIOUS
    <3>2. j < k \/ k < j \/ j = k
      BY <3>1
    <3>3. rank[j] \in Nat /\ rank[k] \in Nat
      BY <1>1
    <3> QED BY <1>3, <3>2, <3>3
  <2> QED BY <2>1, <2>2 DEF Injection, IsInjective
<1>5. IsFiniteSet(1..N) /\ Cardinality(1..N) = N
  BY <1>0, FS_Interval
<1>6. rank \in Surjection(S, 1..N)
  <2> HIDE DEF rank
  <2> QED BY <1>4, <1>5, FS_Injection
<1>7. \A n \in 1..N : \E k \in S : Cardinality(Upto(k)) = n
  BY <1>6 DEF Surjection
<1>8. \A n \in 1..N : Nth(S, n) \in S /\ Cardinality(Upto(Nth(S, n))) = n
  BY <1>7 DEF Nth, Upto
<1>9. \A m, n \in 1..N : m < n => Nth(S, m) < Nth(S, n)
  <2> TAKE m, n \in 1..N
  <2> HAVE m < n
  <2>1. PICK a, b : a = Nth(S, m) /\ b = Nth(S, n)
    OBVIOUS
  <2>2. a \in S /\ b \in S /\ Cardinality(Upto(a)) = m /\ Cardinality(Upto(b)) = n
    BY <1>8, <2>1
  <2>3. a < b \/ b < a \/ a = b
    BY <2>2
  <2>4. b < a => n < m
    BY <1>3, <2>2
  <2>5. a # b
    BY <2>2
  <2>6. m \in Nat /\ n \in Nat
    OBVIOUS
  <2> QED BY <2>1, <2>3, <2>4, <2>5, <2>6
<1>10. \A k \in S : \E n \in 1..N : Nth(S, n) = k
  <2> TAKE k \in S
  <2>1. PICK n \in 1..N : n = Cardinality(Upto(k))
    BY <1>0, <1>1, <1>2
  <2>2. PICK a : a = Nth(S, n)
    OBVIOUS
  <2>3. a \in S /\ Cardinality(Upto(a)) = n
    BY <1>8, <2>2
  <2>4. a < k \/ k < a \/ a = k
    BY <2>3
  <2>5. ~(a < k) /\ ~(k < a)
    BY <1>3, <2>1, <2>3
  <2> QED BY <2>1, <2>2, <2>4, <2>5
<1> QED BY <1>0, <1>8, <1>9, <1>10

-----------------------------------------------------------------------------
(* The plan and the opening.                                               *)

Checkpoint == [order : 0..(Passed - 1), samples : SUBSET Nat]
Ascending(cps) == \A i, j \in DOMAIN cps : i < j => cps[i].order < cps[j].order

\* The facts about a tune that the proofs need (StreamAssumption).
LEMMA TuneFacts ==
  ASSUME NEW u \in Tunes
  PROVE  /\ u.v \in 0..9 /\ u.slots \in SUBSET Nat /\ IsFiniteSet(u.slots)
         /\ u.plan \in Seq(Checkpoint) /\ Ascending(u.plan)
         /\ Len(u.plan) \in Nat /\ DOMAIN u.plan = 1..Len(u.plan)
         /\ \A k \in DOMAIN u.plan : u.plan[k] \in Checkpoint
<1>1. /\ u.v \in 0..9 /\ u.slots \in SUBSET Nat /\ IsFiniteSet(u.slots)
      /\ u.plan \in Seq(Checkpoint) /\ Ascending(u.plan)
  BY StreamAssumption DEF Checkpoint, Ascending
<1>2. /\ Len(u.plan) \in Nat /\ DOMAIN u.plan = 1..Len(u.plan)
      /\ \A k \in DOMAIN u.plan : u.plan[k] \in Checkpoint
  <2> HIDE DEF Checkpoint
  <2> QED BY <1>1
<1> QED BY <1>1, <1>2

\* Pruning leaves a plan in order, which asks for nothing that is not streamed.
LEMMA PruningSound ==
  ASSUME NEW u \in Tunes
  PROVE  /\ Pruning(u) \in Seq(Checkpoint) /\ Ascending(Pruning(u))
         /\ Asked(Pruning(u)) \subseteq u.slots
<1> DEFINE cps == u.plan
           needed == {k \in DOMAIN cps : cps[k].samples \cap u.slots # {}}
           N == Cardinality(needed)
           Cut(k) == [cps[k] EXCEPT !.samples = @ \cap u.slots]
<1>1. /\ Len(cps) \in Nat /\ DOMAIN cps = 1..Len(cps) /\ Ascending(cps)
      /\ \A k \in DOMAIN cps : cps[k] \in Checkpoint
  BY TuneFacts
<1>2. needed \in SUBSET Nat /\ IsFiniteSet(needed) /\ needed \subseteq DOMAIN cps
  <2>1. needed \in SUBSET (1..Len(cps)) /\ IsFiniteSet(1..Len(cps))
    BY <1>1, FS_Interval
  <2>2. IsFiniteSet(needed)
    BY <2>1, FS_Subset
  <2> QED BY <1>1, <2>1, <2>2
<1>3. \A k \in DOMAIN cps : /\ Cut(k) \in Checkpoint /\ Cut(k).order = cps[k].order
                            /\ Cut(k).samples \subseteq u.slots
  BY <1>1 DEF Checkpoint
<1>4. Pruning(u) = [n \in 1..N |-> Cut(Nth(needed, n))]
  BY DEF Pruning
<1> HIDE DEF needed, Cut, cps
<1>5. /\ N \in Nat /\ \A n \in 1..N : Nth(needed, n) \in DOMAIN cps
      /\ \A m, n \in 1..N : m < n => Nth(needed, m) < Nth(needed, n)
  BY <1>2, NthRanks
<1>6. \A n \in 1..N : Pruning(u)[n] = Cut(Nth(needed, n))
  BY <1>4
<1>7. Pruning(u) \in Seq(Checkpoint)
  <2>1. \A n \in 1..N : Cut(Nth(needed, n)) \in Checkpoint
    BY <1>3, <1>5
  <2> HIDE DEF N
  <2> QED BY <1>4, <1>5, <2>1
<1>8. Ascending(Pruning(u))
  <2>1. DOMAIN Pruning(u) = 1..N
    BY <1>4
  <2> SUFFICES ASSUME NEW m \in 1..N, NEW n \in 1..N, m < n
               PROVE  Pruning(u)[m].order < Pruning(u)[n].order
    BY <2>1 DEF Ascending
  <2>2. PICK a, b \in DOMAIN cps : a = Nth(needed, m) /\ b = Nth(needed, n)
    BY <1>5
  <2>3. a < b
    BY <1>5, <2>2
  <2>4. Pruning(u)[m].order = cps[a].order /\ Pruning(u)[n].order = cps[b].order
    BY <1>3, <1>6, <2>2
  <2> QED BY <1>1, <2>2, <2>3, <2>4 DEF Ascending
<1>9. Asked(Pruning(u)) \subseteq u.slots
  BY <1>3, <1>4, <1>5, <1>6 DEF Asked
<1> QED BY <1>7, <1>8, <1>9

\* The plan that is in force, on either shell.
LEMMA PlanSound ==
  ASSUME tune \in Tunes
  PROVE  /\ PlanGiven \in Seq(Checkpoint) /\ Ascending(PlanGiven)
         /\ app = "desktop" => Asked(PlanGiven) \subseteq tune.slots
         /\ Opening \in SUBSET tune.slots /\ IsFiniteSet(Opening)
<1>1. /\ PlanGiven \in Seq(Checkpoint) /\ Ascending(PlanGiven)
      /\ app = "desktop" => Asked(PlanGiven) \subseteq tune.slots
  BY TuneFacts, PruningSound DEF PlanGiven
<1>2. Opening \in SUBSET tune.slots
  BY DEF Opening
<1>3. IsFiniteSet(Opening)
  BY <1>2, TuneFacts, FS_Subset
<1> QED BY <1>1, <1>2, <1>3

-----------------------------------------------------------------------------
(* What a take says.                                                       *)

ToldTyped == told \in [Takes -> Seq(StreamEvents)]

\* The events of a stream differ in their types.
LEMMA EventTypes ==
  /\ Complete.type = "complete" /\ Error.type = "error"
  /\ \A i : SampleEvent(i).type = "sample" /\ SampleEvent(i).index = i
  /\ \A p, n : /\ SkeletonEvent(p, n).type = "skeleton" /\ SkeletonEvent(p, n).plan = p
               /\ SkeletonEvent(p, n).samples = n
BY DEF Complete, Error, SampleEvent, SkeletonEvent

\* Sequences over a set are sequences over a larger one.
LEMMA SeqMonotone == ASSUME NEW A, NEW B, A \subseteq B PROVE Seq(A) \subseteq Seq(B)
<1> SUFFICES ASSUME NEW q \in Seq(A) PROVE q \in Seq(B)
  OBVIOUS
<1>1. PICK n \in Nat : q \in [1..n -> A]
  BY SeqDef
<1>2. q \in [1..n -> B]
  BY <1>1
<1> QED BY <1>1, <1>2, SeqDef

\* What the shells send are events of a stream.
LEMMA EventsTyped ==
  /\ Complete \in StreamEvents /\ Error \in StreamEvents
  /\ \A i \in Nat : SampleEvent(i) \in StreamEvents
  /\ \A p \in Seq(Checkpoint), n \in Nat : SkeletonEvent(p, n) \in StreamEvents
<1>1. Seq(Checkpoint) \subseteq Seq([order : Nat, samples : SUBSET Nat])
  <2>1. Checkpoint \subseteq [order : Nat, samples : SUBSET Nat]
    BY DEF Checkpoint, Passed
  <2> QED BY <2>1, SeqMonotone
<1> QED BY <1>1 DEF StreamEvents, SampleEvent, SkeletonEvent

\* A take that says nothing has told what it had.
LEMMA SaysNothing ==
  ASSUME NEW t \in Takes, told'[t] = told[t]
  PROVE  /\ \A ty : EventsOf(t, ty)' = EventsOf(t, ty)
         /\ \A n : SentBefore(t, n)' = SentBefore(t, n)
         /\ Sent(t)' = Sent(t)
<1>1. \A ty : EventsOf(t, ty)' = EventsOf(t, ty)
  BY DEF EventsOf
<1>2. \A n : SentBefore(t, n)' = SentBefore(t, n)
  BY <1>1 DEF SentBefore
<1> QED BY <1>1, <1>2 DEF Sent

\* What a take has told after one more event.
LEMMA SaysOne ==
  ASSUME ToldTyped, NEW t \in Takes, NEW ev \in StreamEvents, Say(t, <<ev>>),
         NEW L, L = Len(told[t]) + 1
  PROVE  /\ ToldTyped'
         /\ \A s \in Takes : s # t => told'[s] = told[s]
         /\ L \in Nat \ {0} /\ DOMAIN told[t] = 1..(L - 1)
         /\ Len(told'[t]) = L /\ told'[t][L] = ev
         /\ \A k \in 1..(L - 1) : told'[t][k] = told[t][k]
         /\ \A ty : EventsOf(t, ty) \subseteq 1..(L - 1)
         /\ \A ty : ev.type # ty => EventsOf(t, ty)' = EventsOf(t, ty)
         /\ EventsOf(t, ev.type)' = EventsOf(t, ev.type) \cup {L}
         /\ \A n \in 1..L : SentBefore(t, n)' = SentBefore(t, n)
         /\ SentBefore(t, L)' = Sent(t)
         /\ ev.type # "sample" => Sent(t)' = Sent(t)
         /\ ev.type = "sample" => Sent(t)' = Sent(t) \cup {ev.index}
<1> DEFINE e == told[t]
           f == e \o <<ev>>
<1>1. e \in Seq(StreamEvents)
  BY DEF ToldTyped
<1>2. told' = [told EXCEPT ![t] = f] /\ told'[t] = f
  BY DEF Say, ToldTyped
<1>3. f \in Seq(StreamEvents)
  BY <1>1
<1>4. ToldTyped' /\ \A s \in Takes : s # t => told'[s] = told[s]
  <2> HIDE DEF f
  <2> QED BY <1>2, <1>3 DEF ToldTyped
<1>5. /\ L \in Nat \ {0} /\ DOMAIN e = 1..(L - 1)
      /\ Len(f) = L /\ f[L] = ev /\ DOMAIN f = 1..L
      /\ \A k \in 1..(L - 1) : f[k] = e[k]
  BY <1>1
<1> HIDE DEF f
<1>6. \A ty : ev.type # ty => EventsOf(t, ty)' = EventsOf(t, ty)
  BY <1>2, <1>5 DEF EventsOf
<1>7. EventsOf(t, ev.type)' = EventsOf(t, ev.type) \cup {L}
  BY <1>2, <1>5 DEF EventsOf
<1>16. \A ty : EventsOf(t, ty) \subseteq 1..(L - 1)
  BY <1>5 DEF EventsOf
<1> DEFINE E == EventsOf(t, "sample")
<1>8. /\ \A k \in E : k \in 1..(L - 1) /\ told'[t][k] = told[t][k]
      /\ E' = E \/ E' = E \cup {L}
  BY <1>2, <1>5, <1>6, <1>7 DEF EventsOf
<1>9. \A n \in 1..L : SentBefore(t, n)' = SentBefore(t, n)
  <2> TAKE n \in 1..L
  <2>1. {j \in E' : j < n} = {j \in E : j < n}
    BY <1>5, <1>8
  <2>2. SentBefore(t, n)' = {told'[t][k].index : k \in {j \in E' : j < n}}
    BY DEF SentBefore
  <2>3. SentBefore(t, n) = {told'[t][k].index : k \in {j \in E : j < n}}
    BY <1>8 DEF SentBefore
  <2> QED BY <2>1, <2>2, <2>3
<1>10. Sent(t) = SentBefore(t, L)
  BY DEF Sent
<1>11. SentBefore(t, L)' = Sent(t)
  BY <1>5, <1>9, <1>10
<1>12. Sent(t)' = {told'[t][k].index : k \in E'}
  <2>1. {j \in E' : j < L + 1} = E'
    BY <1>5, <1>8
  <2>2. Sent(t)' = {told'[t][k].index : k \in {j \in E' : j < Len(told'[t]) + 1}}
    BY DEF Sent, SentBefore
  <2> QED BY <1>2, <1>5, <2>1, <2>2
<1>13. Sent(t) = {told'[t][k].index : k \in E}
  <2>1. {j \in E : j < L} = E
    BY <1>5, <1>8
  <2> QED BY <1>8, <1>10, <2>1 DEF SentBefore
<1>14. ev.type # "sample" => Sent(t)' = Sent(t)
  BY <1>6, <1>12, <1>13
<1>15. ev.type = "sample" => Sent(t)' = Sent(t) \cup {ev.index}
  BY <1>2, <1>5, <1>7, <1>12, <1>13
<1> QED BY <1>2, <1>4, <1>5, <1>6, <1>7, <1>9, <1>11, <1>14, <1>15, <1>16 DEF e, f

\* What the opening asks for is a matter of the module and the shell alone.
LEMMA PlanStays ==
  ASSUME UNCHANGED <<app, tune>>
  PROVE  PlanGiven' = PlanGiven /\ Opening' = Opening /\ \A i : Decoded(i)' = Decoded(i)
<1>1. PlanGiven' = PlanGiven
  BY DEF PlanGiven
<1>2. Gate!RequiredAt(PlanGiven, 0)' = Gate!RequiredAt(PlanGiven, 0)
  BY <1>1 DEF Gate!RequiredAt, Gate!FloorIdx, Gate!UnionRange
<1> QED BY <1>1, <1>2 DEF Opening, Decoded

\* Whatever is not a sample or the skeleton leaves the story in order.
LEMMA TellsEnd ==
  ASSUME ToldTyped, NEW t \in Takes, NEW ev \in {Complete, Error}, Say(t, <<ev>>),
         UNCHANGED <<app, tune>>, Telling(t)
  PROVE  /\ Telling(t)' /\ Sent(t)' = Sent(t) /\ ToldTyped'
         /\ EventsOf(t, "skeleton")' = EventsOf(t, "skeleton")
<1> PICK L : L = Len(told[t]) + 1
  OBVIOUS
<1>1. ev \in StreamEvents /\ ev.type \notin {"skeleton", "sample"}
  BY EventTypes, EventsTyped
<1>2. /\ EventsOf(t, "skeleton")' = EventsOf(t, "skeleton")
      /\ EventsOf(t, "sample")' = EventsOf(t, "sample")
      /\ Sent(t)' = Sent(t) /\ ToldTyped'
      /\ \A k \in EventsOf(t, "sample") :
           told'[t][k] = told[t][k] /\ SentBefore(t, k)' = SentBefore(t, k)
  <2>1. /\ EventsOf(t, "skeleton")' = EventsOf(t, "skeleton")
        /\ EventsOf(t, "sample")' = EventsOf(t, "sample")
        /\ Sent(t)' = Sent(t) /\ ToldTyped'
    BY <1>1, SaysOne
  <2>2. ASSUME NEW k \in EventsOf(t, "sample")
        PROVE  told'[t][k] = told[t][k] /\ SentBefore(t, k)' = SentBefore(t, k)
    <3>1. k \in 1..(L - 1) /\ L \in Nat \ {0}
      BY <1>1, SaysOne
    <3> QED BY <1>1, <3>1, SaysOne
  <2> QED BY <2>1, <2>2
<1>3. Opening' = Opening
  BY PlanStays
<1> QED BY <1>2, <1>3 DEF Telling

\* A sample that was not sent, of the opening or after all of it, is in order.
LEMMA TellsSample ==
  ASSUME ToldTyped, NEW t \in Takes, NEW i \in Nat, Say(t, <<SampleEvent(i)>>),
         UNCHANGED <<app, tune>>, Telling(t), i \notin Sent(t), 1 \in EventsOf(t, "skeleton"),
         i \notin Opening => Opening \subseteq Sent(t)
  PROVE  /\ Telling(t)' /\ Sent(t)' = Sent(t) \cup {i} /\ ToldTyped'
         /\ \A ty \in {"skeleton", "error", "complete"} : EventsOf(t, ty)' = EventsOf(t, ty)
         /\ told'[t] # <<>> /\ told'[t][1] = told[t][1]
<1> DEFINE ev == SampleEvent(i)
<1> PICK L : L = Len(told[t]) + 1
  OBVIOUS
<1>1. ev \in StreamEvents /\ ev.type = "sample" /\ ev.index = i
  BY EventTypes, EventsTyped
<1> HIDE DEF ev
<1>0. Say(t, <<ev>>)
  BY DEF ev
<1>2. /\ EventsOf(t, "sample")' = EventsOf(t, "sample") \cup {L}
      /\ \A ty \in {"skeleton", "error", "complete"} : EventsOf(t, ty)' = EventsOf(t, ty)
      /\ Sent(t)' = Sent(t) \cup {i} /\ ToldTyped'
      /\ told'[t][L].index = i /\ SentBefore(t, L)' = Sent(t)
      /\ Len(told'[t]) = L /\ L \in Nat \ {0}
  <2>1. EventsOf(t, ev.type)' = EventsOf(t, ev.type) \cup {L}
    BY <1>0, <1>1, SaysOne
  <2>2. \A ty : ev.type # ty => EventsOf(t, ty)' = EventsOf(t, ty)
    BY <1>0, <1>1, SaysOne
  <2>3. EventsOf(t, "sample")' = EventsOf(t, "sample") \cup {L}
    BY <1>1, <2>1
  <2>4. \A ty \in {"skeleton", "error", "complete"} : EventsOf(t, ty)' = EventsOf(t, ty)
    BY <1>1, <2>2
  <2>5. /\ Sent(t)' = Sent(t) \cup {i} /\ ToldTyped'
        /\ told'[t][L] = ev /\ SentBefore(t, L)' = Sent(t)
        /\ Len(told'[t]) = L /\ L \in Nat \ {0}
    BY <1>0, <1>1, SaysOne
  <2> QED BY <1>1, <2>3, <2>4, <2>5
<1>3. \A k \in EventsOf(t, "sample") :
         /\ k \in 1..(L - 1) /\ told'[t][k] = told[t][k]
         /\ SentBefore(t, k)' = SentBefore(t, k) /\ told[t][k].index \in Sent(t)
  <2> TAKE k \in EventsOf(t, "sample")
  <2>1. k \in 1..(L - 1)
    BY <1>1, <1>0, SaysOne
  <2>2. told[t][k].index \in Sent(t)
    BY <2>1 DEF Sent, SentBefore
  <2>3. told'[t][k] = told[t][k] /\ SentBefore(t, k)' = SentBefore(t, k)
    BY <1>1, <2>1, <1>0, SaysOne
  <2> QED BY <2>1, <2>2, <2>3
<1>4. Opening' = Opening
  BY PlanStays
<1>5. told'[t] # <<>> /\ told'[t][1] = told[t][1]
  <2>1. 1 \in 1..(L - 1)
    BY <1>1, <1>0, SaysOne
  <2>2. told'[t][1] = told[t][1]
    BY <1>1, <2>1, <1>0, SaysOne
  <2> QED BY <1>2, <2>2
<1>6. \A k \in EventsOf(t, "sample")' : k \in EventsOf(t, "sample") \/ k = L
  BY <1>2
<1>7. \A j, k \in EventsOf(t, "sample")' : j # k => told'[t][j].index # told'[t][k].index
  BY <1>2, <1>3, <1>6 DEF Telling
<1>8. \A k \in EventsOf(t, "sample")' :
        told'[t][k].index \notin Opening => Opening \subseteq SentBefore(t, k)'
  BY <1>2, <1>3, <1>6 DEF Telling
<1>9. EventsOf(t, "skeleton")' \subseteq {1} /\ 1 \in EventsOf(t, "skeleton")'
  BY <1>2 DEF Telling
<1> QED BY <1>2, <1>4, <1>5, <1>7, <1>8, <1>9 DEF Telling

\* A take with nothing told has sent nothing.
LEMMA ToldNothing ==
  ASSUME NEW t \in Takes, told[t] = <<>>
  PROVE  Sent(t) = {} /\ \A ty : EventsOf(t, ty) = {}
BY DEF EventsOf, Sent, SentBefore

\* The skeleton, then the samples of the opening or none: a story in order.
LEMMA TellsOpening ==
  ASSUME tune \in Tunes, UNCHANGED <<app, tune>>, NEW t \in Takes,
         NEW O \in SUBSET Opening, NEW N, N = Cardinality(O),
         NEW f \in Seq(StreamEvents), told'[t] = f, Len(f) = N + 1,
         f[1] = SkeletonEvent(PlanGiven, Cardinality(tune.slots)),
         \A n \in 1..N : f[n + 1] = SampleEvent(Nth(O, n))
  PROVE  /\ Telling(t)' /\ Sent(t)' = O /\ Opened(t)'
         /\ EventsOf(t, "skeleton")' = {1} /\ EventsOf(t, "error")' = {}
         /\ EventsOf(t, "complete")' = {}
<1>1. O \in SUBSET Nat /\ IsFiniteSet(O)
  BY PlanSound, TuneFacts, FS_Subset
<1>2. /\ N \in Nat
      /\ \A n \in 1..N : Nth(O, n) \in O
      /\ \A m, n \in 1..N : m < n => Nth(O, m) < Nth(O, n)
      /\ \A k \in O : \E n \in 1..N : Nth(O, n) = k
  BY <1>1, NthRanks
<1>3. \A m, n \in 1..N : m # n => Nth(O, m) # Nth(O, n)
  <2> TAKE m, n \in 1..N
  <2>1. m \in Nat /\ n \in Nat
    OBVIOUS
  <2>2. m # n => m < n \/ n < m
    BY <2>1
  <2> QED
    <3>1. PICK a, b : a = Nth(O, m) /\ b = Nth(O, n)
      OBVIOUS
    <3>2. a \in Nat /\ b \in Nat
      BY <1>1, <1>2, <3>1
    <3>3. m # n => a < b \/ b < a
      BY <1>2, <2>2, <3>1
    <3> QED BY <3>1, <3>2, <3>3
<1>4. DOMAIN f = 1..(N + 1) /\ f[1].type = "skeleton"
  BY EventTypes
<1>5. \A n \in 1..N : f[n + 1].type = "sample" /\ f[n + 1].index = Nth(O, n)
  BY EventTypes
<1>6. \A k \in 2..(N + 1) : /\ k - 1 \in 1..N /\ f[k].type = "sample"
                           /\ f[k].index = Nth(O, k - 1)
  <2> TAKE k \in 2..(N + 1)
  <2>1. PICK n \in 1..N : n = k - 1 /\ k = n + 1
    BY <1>2
  <2> QED BY <1>5, <2>1
<1>7. \A k \in 1..(N + 1) : k = 1 \/ k \in 2..(N + 1)
  BY <1>2
<1>8. /\ EventsOf(t, "skeleton")' = {1} /\ EventsOf(t, "error")' = {}
      /\ EventsOf(t, "complete")' = {} /\ EventsOf(t, "sample")' = 2..(N + 1)
  <2>1. \A ty : EventsOf(t, ty)' = {k \in 1..(N + 1) : f[k].type = ty}
    BY <1>4 DEF EventsOf
  <2>2. 1 \in 1..(N + 1) /\ \A k \in 2..(N + 1) : k \in 1..(N + 1) /\ k # 1
    BY <1>2
  <2>3. \A k \in 1..(N + 1) : /\ f[k].type = "skeleton" <=> k = 1
                              /\ f[k].type = "sample" <=> k \in 2..(N + 1)
                              /\ f[k].type \notin {"error", "complete"}
    BY <1>4, <1>6, <1>7, <2>2
  <2>4. /\ {k \in 1..(N + 1) : f[k].type = "skeleton"} = {1}
        /\ {k \in 1..(N + 1) : f[k].type = "error"} = {}
        /\ {k \in 1..(N + 1) : f[k].type = "complete"} = {}
    BY <2>2, <2>3
  <2>5. {k \in 1..(N + 1) : f[k].type = "sample"} = 2..(N + 1)
    BY <2>2, <2>3
  <2> QED BY <2>1, <2>4, <2>5
<1>9. Sent(t)' = O
  <2>1. \A k \in 2..(N + 1) : k < Len(f) + 1
    BY <1>2
  <2>2. Sent(t)' = {f[k].index : k \in 2..(N + 1)}
    <3>1. Sent(t)' = {told'[t][k].index : k \in {j \in EventsOf(t, "sample")' : j < Len(told'[t]) + 1}}
      BY DEF Sent, SentBefore
    <3>2. {j \in 2..(N + 1) : j < Len(f) + 1} = 2..(N + 1)
      BY <2>1
    <3> QED BY <1>8, <3>1, <3>2
  <2>3. \A k \in 2..(N + 1) : f[k].index \in O
    BY <1>2, <1>6
  <2>4. \A i \in O : \E k \in 2..(N + 1) : f[k].index = i
    <3> TAKE i \in O
    <3>1. PICK n \in 1..N : Nth(O, n) = i
      BY <1>2
    <3>2. n + 1 \in 2..(N + 1)
      BY <1>2
    <3> QED BY <1>5, <3>1, <3>2
  <2> QED BY <2>2, <2>3, <2>4
<1>10. /\ Opening' = Opening /\ PlanGiven' = PlanGiven
  BY PlanStays
<1>11. \A j, k \in 2..(N + 1) : j # k => f[j].index # f[k].index
  <2> TAKE j, k \in 2..(N + 1)
  <2>1. j - 1 \in 1..N /\ k - 1 \in 1..N /\ (j # k => j - 1 # k - 1)
    BY <1>2
  <2>2. PICK m, n \in 1..N : m = j - 1 /\ n = k - 1
    BY <2>1
  <2>3. f[j].index = Nth(O, m) /\ f[k].index = Nth(O, n) /\ (j # k => m # n)
    BY <1>6, <2>1, <2>2
  <2> QED BY <1>3, <2>3
<1>12. \A k \in 2..(N + 1) : f[k].index \in Opening
  BY <1>2, <1>6
<1>13. Telling(t)'
  BY <1>8, <1>10, <1>11, <1>12 DEF Telling
<1>14. Opened(t)'
  <2>1. f # <<>>
    BY <1>2
  <2>2. tune' = tune
    OBVIOUS
  <2> QED BY <1>8, <1>10, <2>1, <2>2 DEF Opened
<1> QED BY <1>8, <1>9, <1>13, <1>14

\* The events of the batch that opens a take on the desktop.
Batch(O, sk) == <<>> \o (<<sk>> \o [n \in 1..Cardinality(O) |-> SampleEvent(Nth(O, n))])

LEMMA BatchIs ==
  ASSUME NEW O \in SUBSET Nat, IsFiniteSet(O), NEW sk \in StreamEvents
  PROVE  /\ Batch(O, sk) \in Seq(StreamEvents) /\ Len(Batch(O, sk)) = Cardinality(O) + 1
         /\ Batch(O, sk)[1] = sk
         /\ \A n \in 1..Cardinality(O) : Batch(O, sk)[n + 1] = SampleEvent(Nth(O, n))
<1> PICK N, f : N = Cardinality(O) /\ f = Batch(O, sk)
  OBVIOUS
<1> DEFINE g == [n \in 1..N |-> SampleEvent(Nth(O, n))]
<1>1. N \in Nat /\ \A n \in 1..N : SampleEvent(Nth(O, n)) \in StreamEvents
  BY NthRanks, EventsTyped
<1>2. g \in Seq(StreamEvents) /\ Len(g) = N /\ \A n \in 1..N : g[n] = SampleEvent(Nth(O, n))
  <2>1. g \in [1..N -> StreamEvents]
    BY <1>1
  <2>2. g \in Seq(StreamEvents)
    <3> HIDE DEF g
    <3> QED BY <1>1, <2>1, SeqDef
  <2>3. Len(g) = N
    <3>1. DOMAIN g = 1..N
      OBVIOUS
    <3> HIDE DEF g
    <3> QED BY <1>1, <2>2, <3>1
  <2> QED BY <2>2, <2>3
<1> HIDE DEF g
<1>3. f = <<>> \o (<<sk>> \o g)
  BY DEF g, Batch
<1>4. /\ <<sk>> \o g \in Seq(StreamEvents) /\ Len(<<sk>> \o g) = N + 1 /\ (<<sk>> \o g)[1] = sk
      /\ \A n \in 1..N : (<<sk>> \o g)[n + 1] = g[n]
  BY <1>1, <1>2
<1>5. f = <<sk>> \o g
  BY <1>3, <1>4, ConcatEmptySeq
<1> QED BY <1>2, <1>4, <1>5

TakeSteps == {"idle", "manifest", "index", "whole", "open", "first", "rest", "fetch", "done", "failed"}
TakeRecord(slots) == [step : TakeSteps, left : SUBSET slots, slot : slots \cup {0}]

\* What the invariant says of one take, apart.
LEMMA TakeFacts ==
  ASSUME StreamInv, NEW t \in Takes
  PROVE  /\ tune \in Tunes /\ app \in {"desktop", "web"} /\ ToldTyped
         /\ take \in [Takes -> TakeRecord(tune.slots)] /\ take[t] \in TakeRecord(tune.slots)
         /\ DOMAIN pcm = Takes /\ DOMAIN skeleton = Takes /\ TakeSound(t)
BY StreamAssumption DEF StreamInv, StreamTypeOK, ToldTyped, TakeRecord, TakeSteps

\* A take that says nothing keeps its story and what is open of it.
LEMMA TellsNothing ==
  ASSUME UNCHANGED <<app, tune>>, NEW t \in Takes, told'[t] = told[t]
  PROVE  /\ Telling(t) => Telling(t)'
         /\ Opened(t) => Opened(t)'
<1>1. PlanGiven' = PlanGiven /\ Opening' = Opening
  BY PlanStays
<1>2. /\ \A ty : EventsOf(t, ty)' = EventsOf(t, ty)
      /\ \A n : SentBefore(t, n)' = SentBefore(t, n)
  BY SaysNothing
<1>3. Telling(t) => Telling(t)'
  BY <1>1, <1>2 DEF Telling
<1>4. Opened(t) => Opened(t)'
  BY <1>1, <1>2 DEF Opened
<1> QED BY <1>3, <1>4

\* A take of which nothing moves stays sound.
LEMMA TakeRests ==
  ASSUME UNCHANGED <<app, tune>>, NEW t \in Takes, told'[t] = told[t], take'[t] = take[t],
         pcm'[t] = pcm[t], skeleton'[t] = skeleton[t], TakeSound(t)
  PROVE  TakeSound(t)'
<1>1. /\ \A ty : EventsOf(t, ty)' = EventsOf(t, ty)
      /\ Sent(t)' = Sent(t)
  BY SaysNothing
<1>2. PlanGiven' = PlanGiven /\ Opening' = Opening /\ \A i : Decoded(i)' = Decoded(i)
  BY PlanStays
<1>3. Telling(t)' /\ (Opened(t) => Opened(t)')
  BY TellsNothing DEF TakeSound
<1>4. Unsent(t)'
  BY <1>1, <1>2 DEF TakeSound, Unsent
<1>5. OnPath(t)'
  BY <1>1 DEF TakeSound, OnPath
<1>6. Standing(t)'
  BY <1>1, <1>2, <1>3 DEF TakeSound, Standing
<1>7. PutDownAll(t)'
  BY <1>1, <1>2 DEF TakeSound, PutDownAll
<1> QED BY <1>3, <1>4, <1>5, <1>6, <1>7 DEF TakeSound

-----------------------------------------------------------------------------
(* Each action keeps its own take sound.                                   *)

LEMMA StartStreamSound ==
  ASSUME StreamInv, NEW t \in Takes, StartStream(t) PROVE TakeSound(t)'
<1>1. /\ take[t].step = "idle" /\ told[t] = <<>> /\ take[t].left = {} /\ Sent(t) = {}
      /\ \A ty : EventsOf(t, ty) = {}
  BY TakeFacts, ToldNothing DEF StartStream, TakeSound, Standing
<1>2. /\ take'[t].step = "manifest" /\ take'[t].left = {}
      /\ UNCHANGED <<app, tune, pcm, skeleton, told>>
  BY <1>1, TakeFacts DEF StartStream, Step, TakeRecord
<1>3. /\ \A ty : EventsOf(t, ty)' = {}
      /\ Sent(t)' = {} /\ Telling(t)'
  BY <1>1, <1>2, SaysNothing, TellsNothing, TakeFacts DEF TakeSound
<1>4. Unsent(t)' /\ OnPath(t)' /\ Standing(t)'
  BY <1>1, <1>2, <1>3 DEF Unsent, OnPath, Standing
<1>5. PutDownAll(t)'
  BY <1>2, <1>3, TakeFacts DEF TakeSound, PutDownAll
<1> QED BY <1>3, <1>4, <1>5 DEF TakeSound

LEMMA FailSound ==
  ASSUME StreamInv, NEW t \in Takes, Fail(t) PROVE TakeSound(t)'
<1>1. /\ take[t].step \in {"manifest", "index", "whole", "open", "fetch"}
      /\ Say(t, <<Error>>) /\ UNCHANGED <<app, tune, pcm, skeleton>>
      /\ take'[t].step = "failed" /\ take'[t].left = take[t].left
  BY TakeFacts DEF Fail, Step, TakeRecord
<1>2. /\ Telling(t)' /\ Sent(t)' = Sent(t)
      /\ EventsOf(t, "skeleton")' = EventsOf(t, "skeleton")
  BY <1>1, TellsEnd, TakeFacts DEF TakeSound
<1>3. EventsOf(t, "complete") = {}
  BY <1>1, ToldNothing, TakeFacts DEF TakeSound, Standing, Opened
<1>4. EventsOf(t, "complete")' = {}
  <2>1. PICK L : L = Len(told[t]) + 1
    OBVIOUS
  <2>2. Error \in StreamEvents /\ Error.type # "complete"
    BY EventTypes, EventsTyped
  <2> QED BY <1>1, <1>3, <2>1, <2>2, SaysOne, TakeFacts
<1>5. take[t].left # {} => 1 \in EventsOf(t, "skeleton")
  <2>1. take[t].left # {} => Opened(t)
    BY <1>1, TakeFacts DEF TakeSound, Standing
  <2>2. Opened(t) => 1 \in EventsOf(t, "skeleton")
    <3>1. told[t] \in Seq(StreamEvents)
      BY TakeFacts DEF ToldTyped
    <3>2. told[t] # <<>> => 1 \in DOMAIN told[t]
      BY <3>1
    <3> QED BY <3>2, EventTypes DEF Opened, EventsOf
  <2> QED BY <2>1, <2>2
<1>6. Opening' = Opening /\ \A i : Decoded(i)' = Decoded(i)
  BY <1>1, PlanStays
<1>7. Unsent(t)'
  BY <1>1, <1>2, <1>6, TakeFacts DEF TakeSound, Unsent
<1>8. OnPath(t)'
  BY <1>1, <1>2, TakeFacts DEF TakeSound, OnPath
<1>9. Standing(t)'
  BY <1>1, <1>2, <1>4, <1>5 DEF Standing
<1>10. PutDownAll(t)'
  BY <1>1, <1>2, <1>6, TakeFacts DEF TakeSound, PutDownAll
<1> QED BY <1>2, <1>7, <1>8, <1>9, <1>10 DEF TakeSound

LEMMA ReadManifestSound ==
  ASSUME StreamInv, NEW t \in Takes, ReadManifest(t) PROVE TakeSound(t)'
<1>1. /\ take[t].step = "manifest" /\ told[t] = <<>> /\ take[t].left = {} /\ Sent(t) = {}
      /\ \A ty : EventsOf(t, ty) = {}
  BY TakeFacts, ToldNothing DEF ReadManifest, TakeSound, Standing
<1>2. /\ take'[t].step = PathOf(tune.v) /\ take'[t].left = {}
      /\ UNCHANGED <<app, tune, pcm, skeleton>> /\ tune.v \in 0..9
  BY <1>1, TakeFacts, TuneFacts DEF ReadManifest, Step, TakeRecord
<1>3. /\ EventsOf(t, "skeleton")' = {} /\ EventsOf(t, "complete")' = {}
      /\ Sent(t)' = {} /\ Telling(t)'
      /\ PathOf(tune.v) # "failed" => told'[t] = <<>>
  <2>1. CASE PathOf(tune.v) = "failed"
    <3>1. Say(t, <<Error>>)
      BY <2>1 DEF ReadManifest
    <3>2. PICK L : L = Len(told[t]) + 1
      OBVIOUS
    <3>3. Error \in StreamEvents /\ Error.type = "error"
      BY EventTypes, EventsTyped
    <3>4. EventsOf(t, "complete")' = {}
      BY <1>1, <3>1, <3>2, <3>3, SaysOne, TakeFacts
    <3> QED BY <1>1, <1>2, <2>1, <3>1, <3>4, TellsEnd, TakeFacts DEF TakeSound
  <2>2. CASE PathOf(tune.v) # "failed"
    <3>1. told'[t] = <<>>
      BY <1>1, <2>2, TakeFacts DEF ReadManifest, Say, ToldTyped
    <3> QED BY <1>1, <1>2, <3>1, SaysNothing, TellsNothing, TakeFacts DEF TakeSound
  <2> QED BY <2>1, <2>2
<1>4. Unsent(t)' /\ OnPath(t)' /\ Standing(t)'
  BY <1>2, <1>3 DEF Unsent, OnPath, Standing, PathOf
<1>5. PutDownAll(t)'
  BY <1>2, <1>3, TakeFacts DEF TakeSound, PutDownAll
<1> QED BY <1>3, <1>4, <1>5 DEF TakeSound

LEMMA ReadIndexSound ==
  ASSUME StreamInv, NEW t \in Takes, ReadIndex(t) PROVE TakeSound(t)'
<1>1. /\ take[t].step = "index" /\ told[t] = <<>> /\ take[t].left = {} /\ Sent(t) = {}
      /\ tune.v \in 2..4 /\ \A ty : EventsOf(t, ty) = {}
  BY TakeFacts, ToldNothing DEF ReadIndex, TakeSound, Standing, OnPath
<1>2. /\ take'[t].step = "open" /\ take'[t].left = {}
      /\ UNCHANGED <<app, tune, pcm, skeleton, told>>
  BY <1>1, TakeFacts DEF ReadIndex, Step, TakeRecord
<1>3. /\ \A ty : EventsOf(t, ty)' = {}
      /\ Sent(t)' = {} /\ Telling(t)'
  BY <1>1, <1>2, SaysNothing, TellsNothing, TakeFacts DEF TakeSound
<1>4. Unsent(t)' /\ OnPath(t)' /\ Standing(t)'
  BY <1>1, <1>2, <1>3 DEF Unsent, OnPath, Standing
<1>5. PutDownAll(t)'
  BY <1>2, <1>3, TakeFacts DEF TakeSound, PutDownAll
<1> QED BY <1>3, <1>4, <1>5 DEF TakeSound

LEMMA ReassembledSound ==
  ASSUME StreamInv, NEW t \in Takes, Reassembled(t) PROVE TakeSound(t)' /\ ToldTyped'
<1> DEFINE sk == SkeletonEvent(<<>>, 0)
           f == <<>> \o <<sk, Complete>>
<1>1. /\ take[t].step = "whole" /\ told[t] = <<>> /\ take[t].left = {} /\ tune.v < 2
      /\ tune.v \in 0..9
  BY TakeFacts, TuneFacts DEF Reassembled, TakeSound, Standing, OnPath
<1>2. /\ take'[t].step = "done" /\ take'[t].left = {}
      /\ skeleton'[t] = "file" /\ told' = [told EXCEPT ![t] = f]
      /\ UNCHANGED <<app, tune, pcm>>
  BY <1>1, TakeFacts DEF Reassembled, Step, Say, TakeRecord, ToldTyped
<1>3. /\ sk \in StreamEvents /\ Complete \in StreamEvents /\ sk.type = "skeleton"
      /\ Complete.type = "complete"
  <2>1. <<>> \in Seq(Checkpoint)
    OBVIOUS
  <2> QED BY <2>1, EventTypes, EventsTyped
<1> HIDE DEF sk
<1>4. /\ f \in Seq(StreamEvents) /\ Len(f) = 2 /\ DOMAIN f = 1..2 /\ f[1] = sk /\ f[2] = Complete
  BY <1>3
<1> HIDE DEF f
<1>5. told'[t] = f /\ ToldTyped'
  BY <1>2, <1>4, TakeFacts DEF ToldTyped
<1>6. /\ EventsOf(t, "skeleton")' = {1} /\ EventsOf(t, "complete")' = {2}
      /\ EventsOf(t, "error")' = {} /\ EventsOf(t, "sample")' = {}
  BY <1>3, <1>4, <1>5 DEF EventsOf
<1>7. Sent(t)' = {}
  BY <1>6 DEF Sent, SentBefore
<1>8. Telling(t)'
  BY <1>6 DEF Telling
<1>9. Unsent(t)' /\ OnPath(t)'
  BY <1>1, <1>2, <1>6, <1>7 DEF Unsent, OnPath
<1>10. Standing(t)'
  BY <1>1, <1>2, <1>4, <1>5, <1>6, <1>7 DEF Standing, sk
<1>11. PutDownAll(t)'
  BY <1>2, <1>7, TakeFacts, StreamAssumption DEF TakeSound, PutDownAll
<1> QED BY <1>5, <1>8, <1>9, <1>10, <1>11 DEF TakeSound

\* The skeleton a take announces is an event of a stream.
LEMMA SkeletonTyped ==
  ASSUME tune \in Tunes
  PROVE  SkeletonEvent(PlanGiven, Cardinality(tune.slots)) \in StreamEvents
BY PlanSound, TuneFacts, EventsTyped, FS_CardinalityType

LEMMA OpenBatchSound ==
  ASSUME StreamInv, NEW t \in Takes, OpenBatch(t) PROVE TakeSound(t)' /\ ToldTyped'
<1>01. PICK O, N, sk : /\ O = Opening /\ N = Cardinality(O)
                       /\ sk = SkeletonEvent(PlanGiven, Cardinality(tune.slots))
  OBVIOUS
<1>02. PICK f : f = Batch(O, sk)
  OBVIOUS
<1>1. /\ take[t].step = "open" /\ told[t] = <<>> /\ tune.v \in 2..4 /\ app = "desktop"
  BY TakeFacts DEF OpenBatch, TakeSound, Standing, OnPath
<1>2. /\ take'[t] = [step |-> "rest", left |-> tune.slots \ O, slot |-> 0]
      /\ skeleton'[t] = "skeleton" /\ pcm'[t] = [i \in O |-> Decoded(i)]
      /\ told' = [told EXCEPT ![t] = f]
      /\ UNCHANGED <<app, tune>>
  BY <1>1, <1>01, TakeFacts, <1>02 DEF OpenBatch, Say, ToldTyped, Batch
<1>3. O \in SUBSET tune.slots /\ IsFiniteSet(O) /\ O \in SUBSET Nat /\ sk \in StreamEvents
  BY <1>01, TakeFacts, TuneFacts, PlanSound, SkeletonTyped
<1>4. /\ f \in Seq(StreamEvents) /\ Len(f) = N + 1 /\ f[1] = sk
      /\ \A n \in 1..N : f[n + 1] = SampleEvent(Nth(O, n))
  <2>1. N = Cardinality(O) /\ f = Batch(O, sk)
    BY <1>01, <1>02
  <2> QED BY <1>3, <2>1, BatchIs
<1>5. told'[t] = f /\ ToldTyped'
  BY <1>2, <1>4, TakeFacts DEF ToldTyped
<1>6. /\ Telling(t)' /\ Sent(t)' = O /\ Opened(t)'
      /\ EventsOf(t, "skeleton")' = {1} /\ EventsOf(t, "error")' = {}
      /\ EventsOf(t, "complete")' = {}
  <2>1. /\ tune \in Tunes /\ UNCHANGED <<app, tune>> /\ O \in SUBSET Opening
        /\ N = Cardinality(O) /\ f \in Seq(StreamEvents) /\ told'[t] = f /\ Len(f) = N + 1
        /\ f[1] = SkeletonEvent(PlanGiven, Cardinality(tune.slots))
    BY <1>01, <1>2, <1>4, <1>5, TakeFacts
  <2>2. \A n \in 1..N : f[n + 1] = SampleEvent(Nth(O, n))
    BY <1>4
  <2> QED BY <2>1, <2>2, TellsOpening
<1>7. Opening' = O /\ \A i : Decoded(i)' = Decoded(i)
  BY <1>01, <1>2, PlanStays
<1>8. Unsent(t)'
  BY <1>2, <1>3, <1>6, <1>7 DEF Unsent
<1>9. OnPath(t)' /\ Standing(t)'
  BY <1>01, <1>1, <1>2, <1>3, <1>6, <1>7 DEF OnPath, Standing
<1>10. PutDownAll(t)'
  BY <1>2, <1>3, <1>6, <1>7, StreamAssumption DEF PutDownAll
<1> QED BY <1>5, <1>6, <1>8, <1>9, <1>10 DEF TakeSound

LEMMA OpenSkeletonSound ==
  ASSUME StreamInv, NEW t \in Takes, OpenSkeleton(t) PROVE TakeSound(t)' /\ ToldTyped'
<1> PICK O, sk : O = Opening /\ sk = SkeletonEvent(PlanGiven, Cardinality(tune.slots))
  OBVIOUS
<1>1. /\ take[t].step = "open" /\ told[t] = <<>> /\ tune.v \in 2..4 /\ app = "web"
  BY TakeFacts DEF OpenSkeleton, TakeSound, Standing, OnPath
<1>2. /\ take'[t] = [step |-> "first", left |-> O, slot |-> 0]
      /\ skeleton'[t] = "skeleton" /\ pcm'[t] = pcm[t]
      /\ told' = [told EXCEPT ![t] = <<>> \o <<sk>>]
      /\ UNCHANGED <<app, tune>>
  BY <1>1, TakeFacts DEF OpenSkeleton, Say, ToldTyped
<1>3. O \in SUBSET tune.slots /\ sk \in StreamEvents
  BY TakeFacts, PlanSound, SkeletonTyped
<1>4. PICK f : f = <<>> \o <<sk>>
  OBVIOUS
<1>5. f \in Seq(StreamEvents) /\ Len(f) = 1 /\ f[1] = sk
  BY <1>3, <1>4
<1>6. told'[t] = f /\ ToldTyped'
  BY <1>2, <1>4, <1>5, TakeFacts DEF ToldTyped
<1>7. /\ Telling(t)' /\ Sent(t)' = {} /\ Opened(t)'
      /\ EventsOf(t, "skeleton")' = {1} /\ EventsOf(t, "error")' = {}
      /\ EventsOf(t, "complete")' = {}
  <2>1. PICK n : n = 0
    OBVIOUS
  <2>2. n = Cardinality({}) /\ Len(f) = n + 1 /\ {} \in SUBSET Opening
    BY <1>5, <2>1, FS_EmptySet
  <2>3. \A m \in 1..n : f[m + 1] = SampleEvent(Nth({}, m))
    BY <2>1
  <2> QED BY <1>2, <1>5, <1>6, <2>2, <2>3, TellsOpening, TakeFacts
<1>8. Opening' = O /\ \A i : Decoded(i)' = Decoded(i)
  BY <1>2, PlanStays
<1>9. Unsent(t)'
  BY <1>2, <1>3, <1>7, <1>8 DEF Unsent
<1>10. OnPath(t)' /\ Standing(t)'
  BY <1>1, <1>2, <1>3, <1>7, <1>8 DEF OnPath, Standing
<1>11. PutDownAll(t)'
  BY <1>2, <1>7, TakeFacts, StreamAssumption DEF TakeSound, PutDownAll
<1> QED BY <1>6, <1>7, <1>9, <1>10, <1>11 DEF TakeSound

LEMMA PickSampleSound ==
  ASSUME StreamInv, NEW t \in Takes, PickSample(t) PROVE TakeSound(t)'
<1>1. PICK i \in take[t].left :
         take' = [take EXCEPT ![t] = [step |-> "fetch", left |-> @.left \ {i}, slot |-> i]]
  BY DEF PickSample, Nearest
<1>2. /\ take[t].step = "rest" /\ take'[t] = [step |-> "fetch", left |-> take[t].left \ {i}, slot |-> i]
      /\ app = "desktop" /\ UNCHANGED <<app, tune, pcm, skeleton, told>>
  BY <1>1, TakeFacts DEF PickSample
<1>3. /\ \A ty : EventsOf(t, ty)' = EventsOf(t, ty)
      /\ Sent(t)' = Sent(t) /\ Telling(t)' /\ (Opened(t) => Opened(t)')
  BY <1>2, SaysNothing, TellsNothing, TakeFacts DEF TakeSound
<1>4. Opening' = Opening /\ \A j : Decoded(j)' = Decoded(j)
  BY <1>2, PlanStays
<1>5. /\ Opened(t) /\ Opening \subseteq Sent(t) /\ Sent(t) \cup take[t].left = tune.slots
      /\ Sent(t) \cap take[t].left = {} /\ tune.v \in 2..4
      /\ take[t].left \subseteq tune.slots /\ Sent(t) \subseteq tune.slots
  BY <1>2, TakeFacts DEF TakeSound, Standing, OnPath, Unsent
<1>6. Unsent(t)'
  BY <1>2, <1>3, <1>4, <1>5 DEF Unsent
<1>7. OnPath(t)'
  BY <1>2, <1>3, <1>5 DEF OnPath
<1>8. Standing(t)'
  BY <1>2, <1>3, <1>4, <1>5 DEF Standing
<1>9. PutDownAll(t)'
  BY <1>2, <1>3, <1>4, TakeFacts DEF TakeSound, PutDownAll
<1> QED BY <1>3, <1>6, <1>7, <1>8, <1>9 DEF TakeSound

\* A sample that is put down and told of: the story and the table stay in step.
LEMMA SampleTold ==
  ASSUME StreamInv, NEW t \in Takes, NEW i \in tune.slots, PutDown(t, i),
         Say(t, <<SampleEvent(i)>>), UNCHANGED <<app, tune, skeleton>>,
         i \notin Sent(t), 1 \in EventsOf(t, "skeleton"),
         i \notin Opening => Opening \subseteq Sent(t)
  PROVE  /\ Telling(t)' /\ Sent(t)' = Sent(t) \cup {i} /\ PutDownAll(t)'
         /\ \A ty \in {"skeleton", "error", "complete"} : EventsOf(t, ty)' = EventsOf(t, ty)
         /\ Opened(t) => Opened(t)'
         /\ Opening' = Opening
<1>1. /\ Telling(t)' /\ Sent(t)' = Sent(t) \cup {i}
      /\ \A ty \in {"skeleton", "error", "complete"} : EventsOf(t, ty)' = EventsOf(t, ty)
      /\ told'[t] # <<>> /\ told'[t][1] = told[t][1]
  <2>1. i \in Nat
    BY TakeFacts, TuneFacts
  <2> QED BY <2>1, TellsSample, TakeFacts DEF TakeSound
<1>2. PlanGiven' = PlanGiven /\ Opening' = Opening /\ \A j : Decoded(j)' = Decoded(j)
  BY PlanStays
<1>3. Opened(t) => Opened(t)'
  BY <1>1, <1>2 DEF Opened
<1>4. pcm'[t] = [j \in DOMAIN pcm[t] \cup {i} |-> IF j = i THEN Decoded(i) ELSE pcm[t][j]]
  BY TakeFacts DEF PutDown
<1>5. PutDownAll(t)'
  BY <1>1, <1>2, <1>4, TakeFacts DEF TakeSound, PutDownAll
<1> QED BY <1>1, <1>2, <1>3, <1>5

\* Where the skeleton is the first event, it was announced.
LEMMA OpenedTold ==
  ASSUME StreamInv, NEW t \in Takes, Opened(t) PROVE 1 \in EventsOf(t, "skeleton")
<1>1. told[t] \in Seq(StreamEvents) /\ told[t] # <<>>
  BY TakeFacts DEF ToldTyped, Opened
<1>2. 1 \in DOMAIN told[t]
  BY <1>1
<1> QED BY <1>2, EventTypes DEF Opened, EventsOf

LEMMA FetchedSampleSound ==
  ASSUME StreamInv, NEW t \in Takes, FetchedSample(t) PROVE TakeSound(t)' /\ ToldTyped'
<1> PICK i : i = take[t].slot
  OBVIOUS
<1>1. /\ take[t].step = "fetch" /\ take'[t].step = "rest" /\ take'[t].left = take[t].left
      /\ PutDown(t, i) /\ Say(t, <<SampleEvent(i)>>) /\ UNCHANGED <<app, tune, skeleton>>
  BY TakeFacts DEF FetchedSample, Step, TakeRecord
<1>2. /\ Opened(t) /\ Opening \subseteq Sent(t) /\ Sent(t) \cup take[t].left \cup {i} = tune.slots
      /\ i \in tune.slots /\ i \notin Sent(t) \cup take[t].left
      /\ Sent(t) \cap take[t].left = {} /\ tune.v \in 2..4 /\ app = "desktop"
      /\ take[t].left \subseteq tune.slots /\ Sent(t) \subseteq tune.slots
  BY <1>1, TakeFacts DEF TakeSound, Standing, OnPath, Unsent
<1>3. /\ Telling(t)' /\ Sent(t)' = Sent(t) \cup {i} /\ PutDownAll(t)' /\ Opened(t)'
      /\ Opening' = Opening
  BY <1>1, <1>2, OpenedTold, SampleTold
<1>4. Unsent(t)'
  BY <1>1, <1>2, <1>3 DEF Unsent
<1>5. OnPath(t)'
  BY <1>1, <1>2, <1>3 DEF OnPath
<1>6. Standing(t)'
  BY <1>1, <1>2, <1>3 DEF Standing
<1>7. ToldTyped'
  <2>1. SampleEvent(i) \in StreamEvents
    BY <1>2, EventsTyped, TakeFacts, TuneFacts
  <2> PICK L : L = Len(told[t]) + 1
    OBVIOUS
  <2>2. ToldTyped
    BY TakeFacts
  <2> PICK ev \in StreamEvents : ev = SampleEvent(i)
    BY <2>1
  <2>3. Say(t, <<ev>>)
    BY <1>1
  <2> QED BY <2>2, <2>3, SaysOne
<1> QED BY <1>3, <1>4, <1>5, <1>6, <1>7 DEF TakeSound

\* Complete is said last, when all there is was sent.
LEMMA DoneSound ==
  ASSUME StreamInv, NEW t \in Takes, take[t].step = "rest", take[t].left = {}, Step(t, "done"),
         Say(t, <<Complete>>), UNCHANGED <<app, tune, pcm, skeleton>>
  PROVE  TakeSound(t)' /\ ToldTyped'
<1>1. take'[t].step = "done" /\ take'[t].left = {}
  BY TakeFacts DEF Step, TakeRecord
<1>2. /\ Opened(t) /\ Sent(t) = tune.slots /\ tune.v \in 2..4
  BY TakeFacts DEF TakeSound, Standing, OnPath
<1>3. /\ Telling(t)' /\ Sent(t)' = Sent(t) /\ ToldTyped'
      /\ EventsOf(t, "skeleton")' = EventsOf(t, "skeleton")
  BY TellsEnd, TakeFacts DEF TakeSound
<1>4. PICK L : L = Len(told[t]) + 1
  OBVIOUS
<1>5. Complete \in StreamEvents /\ Complete.type = "complete"
  BY EventTypes, EventsTyped
<1>6. /\ EventsOf(t, "error")' = {} /\ EventsOf(t, "complete")' = {L} /\ L = Len(told'[t])
  <2>0. PICK ev \in StreamEvents : ev = Complete
    BY <1>5
  <2>1. EventsOf(t, ev.type)' = EventsOf(t, ev.type) \cup {L} /\ L = Len(told'[t])
    <3>1. Say(t, <<ev>>)
      BY <2>0
    <3>2. ToldTyped
      BY TakeFacts
    <3>3. EventsOf(t, ev.type)' = EventsOf(t, ev.type) \cup {L}
      BY <1>4, <3>1, <3>2, SaysOne
    <3>4. Len(told'[t]) = L
      BY <1>4, <3>1, <3>2, SaysOne
    <3> QED BY <3>3, <3>4
  <2>2. \A ty : ev.type # ty => EventsOf(t, ty)' = EventsOf(t, ty)
    <3>1. Say(t, <<ev>>)
      BY <2>0
    <3>2. ToldTyped
      BY TakeFacts
    <3> QED BY <1>4, <3>1, <3>2, SaysOne
  <2>3. EventsOf(t, "error") = {} /\ EventsOf(t, "complete") = {}
    BY <1>2 DEF Opened
  <2>4. EventsOf(t, "complete")' = {L}
    BY <1>5, <2>0, <2>1, <2>3
  <2> QED BY <1>5, <2>0, <2>1, <2>2, <2>3, <2>4
<1>7. told'[t][1] = told[t][1]
  <2>1. 1 \in 1..(L - 1)
    BY <1>2, <1>4, <1>5, SaysOne, OpenedTold, TakeFacts
  <2> QED BY <1>4, <1>5, <2>1, SaysOne, TakeFacts
<1>8. PlanGiven' = PlanGiven /\ Opening' = Opening /\ \A j : Decoded(j)' = Decoded(j)
  BY PlanStays
<1>9. Unsent(t)'
  BY <1>1, <1>2, <1>3, TakeFacts DEF TakeSound, Unsent
<1>10. OnPath(t)'
  BY <1>1, <1>2 DEF OnPath
<1>11. Standing(t)'
  <2>1. told'[t][1] = SkeletonEvent(PlanGiven, Cardinality(tune.slots))
    BY <1>2, <1>7 DEF Opened
  <2> QED BY <1>1, <1>2, <1>3, <1>6, <1>8, <2>1 DEF Standing
<1>12. PutDownAll(t)'
  BY <1>3, <1>8, TakeFacts DEF TakeSound, PutDownAll
<1> QED BY <1>3, <1>9, <1>10, <1>11, <1>12 DEF TakeSound

LEMMA StreamedAllSound ==
  ASSUME StreamInv, NEW t \in Takes, StreamedAll(t) PROVE TakeSound(t)' /\ ToldTyped'
BY DoneSound DEF StreamedAll

LEMMA EmitSound ==
  ASSUME StreamInv, NEW t \in Takes, Emit(t) PROVE TakeSound(t)' /\ ToldTyped'
<1>1. PICK i \in take[t].left : /\ take' = [take EXCEPT ![t].left = @ \ {i}]
                                /\ PutDown(t, i) /\ Say(t, <<SampleEvent(i)>>)
  BY DEF Emit
<1>2. /\ take[t].step \in {"first", "rest", "failed"} /\ take'[t].step = take[t].step
      /\ take'[t].left = take[t].left \ {i} /\ app = "web" /\ UNCHANGED <<app, tune, skeleton>>
  BY <1>1, TakeFacts DEF Emit, TakeRecord
<1>3. /\ i \in tune.slots /\ i \notin Sent(t) /\ (i \notin Opening => Opening \subseteq Sent(t))
      /\ Sent(t) \cap take[t].left = {} /\ take[t].left \subseteq tune.slots
      /\ Sent(t) \subseteq tune.slots
      /\ take[t].left \subseteq Opening \/ Opening \subseteq Sent(t)
  BY <1>1, TakeFacts DEF TakeSound, Unsent
<1>4. 1 \in EventsOf(t, "skeleton") /\ tune.v \in 2..4
  BY <1>1, <1>2, OpenedTold, TakeFacts DEF TakeSound, Standing, OnPath
<1>5. /\ Telling(t)' /\ Sent(t)' = Sent(t) \cup {i} /\ PutDownAll(t)'
      /\ \A ty \in {"skeleton", "error", "complete"} : EventsOf(t, ty)' = EventsOf(t, ty)
      /\ Opened(t) => Opened(t)'
      /\ Opening' = Opening
  BY <1>1, <1>2, <1>3, <1>4, SampleTold
<1>6. Unsent(t)'
  BY <1>2, <1>3, <1>5 DEF Unsent
<1>7. OnPath(t)'
  BY <1>2, <1>4, <1>5 DEF OnPath
<1>8. Standing(t)'
  <2>1. CASE take[t].step = "first"
    BY <1>1, <1>2, <1>5, <2>1, TakeFacts DEF TakeSound, Standing
  <2>2. CASE take[t].step = "rest"
    BY <1>1, <1>2, <1>5, <2>2, TakeFacts DEF TakeSound, Standing
  <2>3. CASE take[t].step = "failed"
    BY <1>1, <1>2, <1>4, <1>5, <2>3, TakeFacts DEF TakeSound, Standing
  <2> QED BY <1>2, <2>1, <2>2, <2>3
<1>9. ToldTyped'
  <2>1. SampleEvent(i) \in StreamEvents
    BY <1>3, EventsTyped, TakeFacts, TuneFacts
  <2> PICK L : L = Len(told[t]) + 1
    OBVIOUS
  <2> QED BY <1>1, <2>1, SaysOne, TakeFacts
<1> QED BY <1>5, <1>6, <1>7, <1>8, <1>9 DEF TakeSound

LEMMA EmitFailsSound ==
  ASSUME StreamInv, NEW t \in Takes, EmitFails(t) PROVE TakeSound(t)' /\ ToldTyped'
<1>1. PICK i \in take[t].left :
         take' = [take EXCEPT ![t] = [step |-> "failed", left |-> @.left \ {i}, slot |-> 0]]
  BY DEF EmitFails
<1>2. /\ take[t].step \in {"first", "rest", "failed"} /\ take'[t].step = "failed"
      /\ take'[t].left = take[t].left \ {i} /\ app = "web" /\ UNCHANGED <<app, tune, skeleton, pcm>>
  BY <1>1, TakeFacts DEF EmitFails, TakeRecord
<1>3. /\ 1 \in EventsOf(t, "skeleton") /\ tune.v \in 2..4 /\ EventsOf(t, "complete") = {}
  BY <1>1, <1>2, OpenedTold, TakeFacts DEF TakeSound, Standing, OnPath, Opened
<1>4. /\ Telling(t)' /\ Sent(t)' = Sent(t) /\ EventsOf(t, "complete")' = {}
      /\ EventsOf(t, "skeleton")' = EventsOf(t, "skeleton") /\ ToldTyped'
  <2>1. CASE take[t].step = "failed"
    <3>1. told[t] \in Seq(StreamEvents) /\ told' = [told EXCEPT ![t] = told[t] \o <<>>]
      BY <2>1, TakeFacts DEF EmitFails, Say, ToldTyped
    <3>2. told' = told
      <4>1. told[t] \o <<>> = told[t]
        BY <3>1
      <4> QED BY <3>1, <4>1, TakeFacts DEF ToldTyped
    <3> QED BY <1>2, <1>3, <3>2, SaysNothing, TellsNothing, TakeFacts DEF TakeSound, ToldTyped
  <2>2. CASE take[t].step # "failed"
    <3>1. Say(t, <<Error>>)
      BY <2>2 DEF EmitFails
    <3> PICK L : L = Len(told[t]) + 1
      OBVIOUS
    <3>2. Error \in StreamEvents /\ Error.type # "complete"
      BY EventTypes, EventsTyped
    <3>3. EventsOf(t, "complete")' = {}
      BY <1>3, <3>1, <3>2, SaysOne, TakeFacts
    <3> QED BY <1>2, <3>1, <3>3, TellsEnd, TakeFacts DEF TakeSound
  <2> QED BY <2>1, <2>2
<1>5. Opening' = Opening /\ \A j : Decoded(j)' = Decoded(j)
  BY <1>2, PlanStays
<1>6. Unsent(t)'
  BY <1>2, <1>4, <1>5, TakeFacts DEF TakeSound, Unsent
<1>7. OnPath(t)'
  BY <1>2, <1>3 DEF OnPath
<1>8. Standing(t)'
  BY <1>2, <1>3, <1>4 DEF Standing
<1>9. PutDownAll(t)'
  BY <1>2, <1>4, <1>5, TakeFacts DEF TakeSound, PutDownAll
<1> QED BY <1>4, <1>6, <1>7, <1>8, <1>9 DEF TakeSound

LEMMA BatchIsInSound ==
  ASSUME StreamInv, NEW t \in Takes, BatchIsIn(t) PROVE TakeSound(t)' /\ ToldTyped'
<1>1. CASE take[t].step = "first"
  <2>1. /\ take'[t].step = "rest" /\ take'[t].left = tune.slots \ Opening
        /\ UNCHANGED <<app, tune, skeleton, pcm, told>>
    BY <1>1, TakeFacts DEF BatchIsIn, TakeRecord
  <2>2. /\ Opened(t) /\ Sent(t) = Opening /\ tune.v \in 2..4 /\ Sent(t) \subseteq tune.slots
    <3>1. TakeSound(t) /\ take[t].left = {}
      BY TakeFacts DEF BatchIsIn
    <3>2. Opened(t) /\ Sent(t) \cup take[t].left = Opening
      BY <1>1, <3>1 DEF TakeSound, Standing
    <3>3. tune.v \in 2..4 /\ Sent(t) \subseteq tune.slots
      BY <1>1, <3>1 DEF TakeSound, OnPath, Unsent
    <3> QED BY <3>1, <3>2, <3>3
  <2>3. /\ \A ty : EventsOf(t, ty)' = EventsOf(t, ty)
        /\ Sent(t)' = Sent(t) /\ Telling(t)' /\ Opened(t)'
    BY <2>1, <2>2, SaysNothing, TellsNothing, TakeFacts DEF TakeSound
  <2>4. Opening' = Opening /\ \A j : Decoded(j)' = Decoded(j)
    BY <2>1, PlanStays
  <2>5. Unsent(t)' /\ OnPath(t)' /\ Standing(t)'
    BY <2>1, <2>2, <2>3, <2>4 DEF Unsent, OnPath, Standing
  <2>6. PutDownAll(t)'
    BY <2>1, <2>3, <2>4, TakeFacts DEF TakeSound, PutDownAll
  <2> QED BY <2>1, <2>3, <2>5, <2>6, TakeFacts DEF TakeSound, ToldTyped
<1>2. CASE take[t].step = "rest"
  BY <1>2, DoneSound DEF BatchIsIn
<1> QED BY <1>1, <1>2 DEF BatchIsIn

-----------------------------------------------------------------------------
(* Every step keeps the invariant.                                          *)

TakeActs(t) ==
  \/ StartStream(t) \/ Fail(t) \/ ReadManifest(t) \/ ReadIndex(t) \/ Reassembled(t)
  \/ OpenBatch(t) \/ PickSample(t) \/ FetchedSample(t) \/ StreamedAll(t)
  \/ OpenSkeleton(t) \/ Emit(t) \/ EmitFails(t) \/ BatchIsIn(t)

\* A take that acts leaves what the others have told, put down and left alone.
LEMMA OneTakeActs ==
  ASSUME StreamInv, NEW t \in Takes, TakeActs(t)
  PROVE  /\ UNCHANGED <<app, tune, playhead, seeks>>
         /\ DOMAIN pcm' = Takes /\ DOMAIN skeleton' = Takes
         /\ \A s \in Takes : s # t => /\ take'[s] = take[s] /\ told'[s] = told[s]
                                      /\ pcm'[s] = pcm[s] /\ skeleton'[s] = skeleton[s]
<1>1. UNCHANGED <<app, tune, playhead, seeks>>
  BY DEF TakeActs, StartStream, Fail, ReadManifest, ReadIndex, Reassembled, OpenBatch,
     PickSample, FetchedSample, StreamedAll, OpenSkeleton, Emit, EmitFails, BatchIsIn
<1>2. DOMAIN pcm' = Takes /\ \A s \in Takes : s # t => pcm'[s] = pcm[s]
  <2>1. pcm' = pcm \/ \E p : pcm' = [pcm EXCEPT ![t] = p]
    BY DEF TakeActs, StartStream, Fail, ReadManifest, ReadIndex, Reassembled, OpenBatch,
       PickSample, FetchedSample, StreamedAll, OpenSkeleton, Emit, EmitFails, BatchIsIn, PutDown
  <2> QED BY <2>1, TakeFacts
<1>3. DOMAIN skeleton' = Takes /\ \A s \in Takes : s # t => skeleton'[s] = skeleton[s]
  <2>1. skeleton' = skeleton \/ \E p : skeleton' = [skeleton EXCEPT ![t] = p]
    BY DEF TakeActs, StartStream, Fail, ReadManifest, ReadIndex, Reassembled, OpenBatch,
       PickSample, FetchedSample, StreamedAll, OpenSkeleton, Emit, EmitFails, BatchIsIn
  <2> QED BY <2>1, TakeFacts
<1>4. \A s \in Takes : s # t => told'[s] = told[s]
  <2>1. told' = told \/ \E p : told' = [told EXCEPT ![t] = p]
    BY DEF TakeActs, StartStream, Fail, ReadManifest, ReadIndex, Reassembled, OpenBatch,
       PickSample, FetchedSample, StreamedAll, OpenSkeleton, Emit, EmitFails, BatchIsIn, Say
  <2> QED BY <2>1, TakeFacts DEF ToldTyped
<1>5. \A s \in Takes : s # t => take'[s] = take[s]
  <2>1. \E p : take' = [take EXCEPT ![t] = p]
    BY DEF TakeActs, StartStream, Fail, ReadManifest, ReadIndex, Reassembled, OpenBatch,
       PickSample, FetchedSample, StreamedAll, OpenSkeleton, Emit, EmitFails, BatchIsIn, Step
  <2> QED BY <2>1, TakeFacts
<1> QED BY <1>1, <1>2, <1>3, <1>4, <1>5

\* The steps and the slots of the takes stay what they may be.
LEMMA TakesTyped ==
  ASSUME StreamInv, NEW t \in Takes, TakeActs(t)
  PROVE  take' \in [Takes -> TakeRecord(tune.slots)]
<1> DEFINE R == TakeRecord(tune.slots)
<1>0. take \in [Takes -> R] /\ take[t] \in R
  BY TakeFacts
<1>1. /\ \A r \in R, s \in TakeSteps : [r EXCEPT !.step = s] \in R
      /\ \A r \in R, l \in SUBSET tune.slots : [r EXCEPT !.left = l] \in R
      /\ \A r \in R, s \in TakeSteps, l \in SUBSET tune.slots : [r EXCEPT !.step = s, !.left = l] \in R
      /\ \A s \in TakeSteps, l \in SUBSET tune.slots, i \in tune.slots \cup {0} :
           [step |-> s, left |-> l, slot |-> i] \in R
      /\ \A r \in R : r.left \in SUBSET tune.slots
  BY DEF TakeRecord
<1>2. Opening \in SUBSET tune.slots
  BY PlanSound, TakeFacts
<1> HIDE DEF R
<1>3. SUFFICES \E r \in R : take' = [take EXCEPT ![t] = r]
  BY <1>0 DEF R
<1>4. ASSUME NEW s \in TakeSteps, Step(t, s) PROVE \E r \in R : take' = [take EXCEPT ![t] = r]
  BY <1>0, <1>1, <1>4 DEF Step
<1>5. CASE StartStream(t)
  BY <1>4, <1>5 DEF StartStream, TakeSteps
<1>6. CASE Fail(t)
  BY <1>4, <1>6 DEF Fail, TakeSteps
<1>7. CASE ReadManifest(t)
  <2>1. PathOf(tune.v) \in TakeSteps
    BY DEF PathOf, TakeSteps
  <2> QED BY <1>4, <1>7, <2>1 DEF ReadManifest
<1>8. CASE ReadIndex(t)
  BY <1>4, <1>8 DEF ReadIndex, TakeSteps
<1>9. CASE Reassembled(t)
  BY <1>4, <1>9 DEF Reassembled, TakeSteps
<1>10. CASE OpenBatch(t)
  BY <1>1, <1>2, <1>10 DEF OpenBatch, TakeSteps
<1>11. CASE PickSample(t)
  <2>1. PICK i \in take[t].left :
           take' = [take EXCEPT ![t] = [step |-> "fetch", left |-> @.left \ {i}, slot |-> i]]
    BY <1>11 DEF PickSample, Nearest
  <2>2. PICK r : r = [step |-> "fetch", left |-> take[t].left \ {i}, slot |-> i]
    OBVIOUS
  <2>3. r \in R
    BY <1>0, <1>1, <2>2 DEF TakeSteps
  <2>4. take' = [take EXCEPT ![t] = r]
    BY <1>0, <2>1, <2>2
  <2> QED BY <2>3, <2>4
<1>12. CASE FetchedSample(t)
  BY <1>4, <1>12 DEF FetchedSample, TakeSteps
<1>13. CASE StreamedAll(t)
  BY <1>4, <1>13 DEF StreamedAll, TakeSteps
<1>14. CASE OpenSkeleton(t)
  BY <1>1, <1>2, <1>14 DEF OpenSkeleton, TakeSteps
<1>15. CASE Emit(t)
  <2>1. PICK i \in take[t].left : take' = [take EXCEPT ![t].left = @ \ {i}]
    BY <1>15 DEF Emit
  <2>2. PICK r : r = [take[t] EXCEPT !.left = take[t].left \ {i}]
    OBVIOUS
  <2>3. r \in R
    BY <1>0, <1>1, <2>2
  <2>4. take' = [take EXCEPT ![t] = r]
    BY <1>0, <2>1, <2>2
  <2> QED BY <2>3, <2>4
<1>16. CASE EmitFails(t)
  <2>1. PICK i \in take[t].left :
           take' = [take EXCEPT ![t] = [step |-> "failed", left |-> @.left \ {i}, slot |-> 0]]
    BY <1>16 DEF EmitFails
  <2>2. PICK r : r = [step |-> "failed", left |-> take[t].left \ {i}, slot |-> 0]
    OBVIOUS
  <2>3. r \in R
    BY <1>0, <1>1, <2>2 DEF TakeSteps
  <2>4. take' = [take EXCEPT ![t] = r]
    BY <1>0, <2>1, <2>2
  <2> QED BY <2>3, <2>4
<1>17. CASE BatchIsIn(t)
  <2>1. CASE take' = [take EXCEPT ![t].step = "rest", ![t].left = tune.slots \ Opening]
    <3>1. PICK r : r = [take[t] EXCEPT !.step = "rest", !.left = tune.slots \ Opening]
      OBVIOUS
    <3>2. r \in R
      BY <1>0, <1>1, <3>1 DEF TakeSteps
    <3>3. take' = [take EXCEPT ![t] = r]
      BY <1>0, <2>1, <3>1
    <3> QED BY <3>2, <3>3
  <2>2. CASE Step(t, "done")
    BY <1>4, <2>2 DEF TakeSteps
  <2> QED BY <1>17, <2>1, <2>2 DEF BatchIsIn
<1> QED BY <1>5, <1>6, <1>7, <1>8, <1>9, <1>10, <1>11, <1>12, <1>13, <1>14, <1>15, <1>16, <1>17
        DEF TakeActs

\* The takes are sound after the step of one of them.
LEMMA TakesStaySound ==
  ASSUME StreamInv, NEW t \in Takes, TakeActs(t)
  PROVE  ToldTyped' /\ \A s \in Takes : TakeSound(s)'
<1>1. TakeSound(t)'
  BY StartStreamSound, FailSound, ReadManifestSound, ReadIndexSound, ReassembledSound,
     OpenBatchSound, PickSampleSound, FetchedSampleSound, StreamedAllSound, OpenSkeletonSound,
     EmitSound, EmitFailsSound, BatchIsInSound DEF TakeActs
<1>2. ASSUME NEW s \in Takes, s # t PROVE TakeSound(s)'
  BY <1>2, OneTakeActs, TakeRests, TakeFacts
<1>3. ToldTyped'
  <2>1. ASSUME UNCHANGED told PROVE ToldTyped'
    BY <2>1, TakeFacts DEF ToldTyped
  <2>2. ASSUME Say(t, <<Error>>) PROVE ToldTyped'
    <3> PICK L : L = Len(told[t]) + 1
      OBVIOUS
    <3> QED BY <2>2, SaysOne, EventsTyped, TakeFacts
  <2>3. ASSUME ReadManifest(t) PROVE ToldTyped'
    <3>1. CASE Say(t, <<Error>>)
      BY <2>2, <3>1
    <3>2. CASE Say(t, <<>>)
      <4>1. told[t] \in Seq(StreamEvents) /\ told' = [told EXCEPT ![t] = told[t] \o <<>>]
        BY <3>2, TakeFacts DEF Say, ToldTyped
      <4>2. told[t] \o <<>> = told[t]
        BY <4>1
      <4> QED BY <4>1, <4>2, TakeFacts DEF ToldTyped
    <3> QED BY <2>3, <3>1, <3>2 DEF ReadManifest
  <2> QED
    BY <2>1, <2>2, <2>3, ReassembledSound, OpenBatchSound, FetchedSampleSound,
       StreamedAllSound, OpenSkeletonSound, EmitSound, EmitFailsSound, BatchIsInSound
       DEF TakeActs, StartStream, Fail, ReadIndex, PickSample
<1> QED BY <1>1, <1>2, <1>3

\* Which take is under the root, and what the root is held as.
LEMMA TableAndHeld ==
  ASSUME StreamInv, NEW t \in Takes, TakeActs(t)
  PROVE  TableSound' /\ HeldSound' /\ table' \in Takes \cup {0} /\ heldRoot' \in {"none", "partial", "complete"}
<1>1. /\ \A s \in Takes : s # t => take'[s] = take[s]
      /\ app' = app /\ app \in {"desktop", "web"} /\ Takes \subseteq Nat \ {0}
      /\ TableSound /\ HeldSound /\ table \in Takes \cup {0}
      /\ heldRoot \in {"none", "partial", "complete"}
  BY OneTakeActs, TakeFacts, StreamAssumption DEF StreamInv, StreamTypeOK
<1>2. CASE StartStream(t)
  <2>1. /\ take[t].step = "idle" /\ take'[t].step = "manifest"
        /\ \A s \in Takes : s < t => take[s].step # "idle"
        /\ table' = IF app = "desktop" THEN t ELSE table
        /\ heldRoot' = heldRoot \/ (heldRoot' = "partial" /\ heldRoot # "complete")
    BY <1>2, TakeFacts DEF StartStream, Step, TakeRecord, Mark
  <2>2. \A s \in Takes : take[s].step # "idle" => s < t
    BY <1>1, <2>1 DEF TableSound
  <2>3. TableSound'
    <3>1. table # t
      BY <1>1, <2>1 DEF TableSound
    <3>2. \A s, u \in Takes : s < u /\ take'[u].step # "idle" => take'[s].step # "idle"
      BY <1>1, <2>1, <2>2 DEF TableSound
    <3>3. table' # 0 => take'[table'].step # "idle"
      BY <1>1, <2>1, <3>1 DEF TableSound
    <3>4. \A s \in Takes : take'[s].step # "idle" /\ app' = "desktop" => table' >= s
      BY <1>1, <2>1, <2>2
    <3> QED BY <3>2, <3>3, <3>4 DEF TableSound
  <2>4. HeldSound'
    BY <1>1, <2>1 DEF HeldSound
  <2> QED BY <1>1, <2>1, <2>3, <2>4
<1>3. CASE ~StartStream(t)
  <2>1. (take[t].step # "idle" /\ take[t].step # "done") \/ Emit(t) \/ EmitFails(t) \/ BatchIsIn(t)
    BY <1>3 DEF TakeActs, Fail, ReadManifest, ReadIndex, Reassembled, OpenBatch, PickSample,
       FetchedSample, StreamedAll, OpenSkeleton
  <2>2. take[t].step \notin {"idle", "done"}
    BY <2>1 DEF Emit, EmitFails, BatchIsIn
  <2>7. take \in [Takes -> TakeRecord(tune.slots)]
    BY TakeFacts
  <2>8. take'[t].step # "idle"
    <3>1. ASSUME NEW s, Step(t, s), s # "idle" PROVE take'[t].step # "idle"
      BY <2>7, <3>1 DEF Step, TakeRecord
    <3>2. CASE \/ Fail(t) \/ ReadIndex(t) \/ Reassembled(t) \/ FetchedSample(t) \/ StreamedAll(t)
      BY <3>1, <3>2 DEF Fail, ReadIndex, Reassembled, FetchedSample, StreamedAll
    <3>3. CASE ReadManifest(t)
      BY <3>1, <3>3 DEF ReadManifest, PathOf
    <3>4. CASE OpenBatch(t) \/ OpenSkeleton(t)
      BY <2>7, <3>4 DEF OpenBatch, OpenSkeleton
    <3>5. CASE PickSample(t) \/ EmitFails(t)
      BY <2>7, <3>5 DEF PickSample, EmitFails
    <3>6. CASE Emit(t)
      BY <2>2, <2>7, <3>6 DEF Emit, TakeRecord
    <3>7. CASE BatchIsIn(t)
      BY <2>7, <3>1, <3>7 DEF BatchIsIn, TakeRecord
    <3> QED BY <1>3, <3>2, <3>3, <3>4, <3>5, <3>6, <3>7 DEF TakeActs
  <2>9. table' = table \/ (app = "web" /\ table' = t)
    BY <1>3 DEF TakeActs, Fail, ReadManifest, ReadIndex, Reassembled, OpenBatch, PickSample,
       FetchedSample, StreamedAll, OpenSkeleton, Emit, EmitFails, BatchIsIn
  <2>3. take'[t].step # "idle" /\ (table' = table \/ (app = "web" /\ table' = t))
    BY <2>8, <2>9
  <2>4. TableSound' /\ table' \in Takes \cup {0}
    BY <1>1, <2>2, <2>3 DEF TableSound
  <2>5. /\ heldRoot' # heldRoot => heldRoot' = "complete" /\ take'[t].step = "done"
        /\ app = "desktop" /\ take'[t].step = "done" => heldRoot' = "complete"
    <3>1. CASE Reassembled(t) \/ StreamedAll(t)
      BY <2>7, <3>1 DEF Reassembled, StreamedAll, Step, TakeRecord, Mark
    <3>2. ASSUME NEW s, Step(t, s), s # "done" PROVE take'[t].step # "done"
      BY <2>7, <3>2 DEF Step, TakeRecord
    <3>3. CASE Fail(t) \/ ReadManifest(t) \/ ReadIndex(t) \/ FetchedSample(t)
      BY <3>2, <3>3 DEF Fail, ReadManifest, ReadIndex, FetchedSample, PathOf
    <3>4. CASE OpenBatch(t) \/ PickSample(t)
      BY <2>7, <3>4 DEF OpenBatch, PickSample
    <3>5. CASE OpenSkeleton(t) \/ Emit(t) \/ EmitFails(t) \/ BatchIsIn(t)
      BY <3>5 DEF OpenSkeleton, Emit, EmitFails, BatchIsIn
    <3> QED BY <1>3, <3>1, <3>3, <3>4, <3>5 DEF TakeActs
  <2>6. HeldSound'
    BY <1>1, <2>2, <2>5 DEF HeldSound
  <2> QED BY <1>1, <2>4, <2>5, <2>6
<1> QED BY <1>2, <1>3

\* A playhead report moves the playhead of the take under the root.
LEMMA PlayheadSet ==
  ASSUME StreamInv, NEW o \in 0..LastOrder, SetPlayhead(o)
  PROVE  StreamInv'
<1>1. UNCHANGED <<app, tune, take, table, pcm, skeleton, told, heldRoot>>
  BY DEF SetPlayhead
<1>2. LastOrder \in 0..(Passed - 1)
  <2>1. tune \in Tunes
    BY DEF StreamInv, StreamTypeOK
  <2>2. CASE tune.plan = <<>>
    BY <2>2 DEF LastOrder, Passed
  <2>3. CASE tune.plan # <<>>
    <3>1. Len(tune.plan) \in DOMAIN tune.plan
      BY <2>1, <2>3, TuneFacts, EmptySeq
    <3>2. tune.plan[Len(tune.plan)] \in Checkpoint
      BY <2>1, <3>1, TuneFacts
    <3>3. tune.plan[Len(tune.plan)].order \in 0..(Passed - 1)
      BY <3>2 DEF Checkpoint, Passed
    <3> QED BY <2>3, <3>3 DEF LastOrder
  <2> QED BY <2>2, <2>3
<1>3. playhead' \in [Takes -> 0..(Passed - 1)]
  <2>1. o \in 0..(Passed - 1)
    BY <1>2 DEF Passed
  <2> QED BY <2>1 DEF SetPlayhead, StreamInv
<1>4. \A t \in Takes : TakeSound(t)'
  BY <1>1, TakeRests DEF StreamInv
<1>5. TableSound' /\ HeldSound'
  BY <1>1 DEF StreamInv, TableSound, HeldSound
<1>6. StreamTypeOK'
  <2>1. seeks' \in 0..MaxSeeks
    BY StreamAssumption DEF SetPlayhead, StreamInv, StreamTypeOK
  <2>2. \A t \in Takes : Sent(t)' = Sent(t)
    BY <1>1, SaysNothing
  <2> QED BY <1>1, <2>1, <2>2 DEF StreamInv, StreamTypeOK
<1> QED BY <1>1, <1>3, <1>4, <1>5, <1>6 DEF StreamInv

LEMMA StreamInvInit == StreamInit => StreamInv
<1> SUFFICES ASSUME StreamInit PROVE StreamInv
  OBVIOUS
<1>1. /\ app \in StreamShells /\ tune \in Tunes /\ table = 0 /\ heldRoot = "none" /\ seeks = 0
      /\ take = [t \in Takes |-> Unbegun]
      /\ pcm = [t \in Takes |-> <<>>] /\ skeleton = [t \in Takes |-> Unserved]
      /\ told = [t \in Takes |-> <<>>] /\ playhead = [t \in Takes |-> 0]
  BY DEF StreamInit
<1>2. \A t \in Takes : /\ told[t] = <<>> /\ Sent(t) = {} /\ \A ty : EventsOf(t, ty) = {}
                       /\ take[t].step = "idle" /\ take[t].left = {}
                       /\ DOMAIN pcm[t] = {}
  BY <1>1, ToldNothing DEF Unbegun
<1>3. \A t \in Takes : TakeSound(t)
  BY <1>2 DEF TakeSound, Telling, Unsent, OnPath, Standing, PutDownAll
<1>4. StreamTypeOK
  BY <1>1, <1>2, StreamAssumption DEF StreamTypeOK, Unbegun
<1>5. told \in [Takes -> Seq(StreamEvents)] /\ playhead \in [Takes -> 0..(Passed - 1)]
  BY <1>1 DEF Passed
<1>6. TableSound /\ HeldSound
  BY <1>1, <1>2 DEF TableSound, HeldSound
<1> QED BY <1>1, <1>3, <1>4, <1>5, <1>6 DEF StreamInv

\* Every step keeps the invariant.
LEMMA StreamInvStep == StreamInv /\ [StreamNext]_streamVars => StreamInv'
<1> SUFFICES ASSUME StreamInv, [StreamNext]_streamVars PROVE StreamInv'
  OBVIOUS
<1>1. ASSUME NEW t \in Takes, TakeActs(t) PROVE StreamInv'
  <2>1. /\ UNCHANGED <<app, tune, playhead, seeks>> /\ DOMAIN pcm' = Takes /\ DOMAIN skeleton' = Takes
    BY <1>1, OneTakeActs
  <2>2. ToldTyped' /\ \A s \in Takes : TakeSound(s)'
    BY <1>1, TakesStaySound
  <2>3. TableSound' /\ HeldSound' /\ table' \in Takes \cup {0} /\ heldRoot' \in {"none", "partial", "complete"}
    BY <1>1, TableAndHeld
  <2>4. StreamTypeOK'
    <3>1. take' \in [Takes -> TakeRecord(tune'.slots)]
      BY <1>1, <2>1, TakesTyped
    <3>2. \A s \in Takes : DOMAIN pcm'[s] \subseteq tune'.slots /\ Sent(s)' \subseteq tune'.slots
      BY <2>2 DEF TakeSound, PutDownAll, Unsent
    <3> QED BY <2>1, <2>3, <3>1, <3>2 DEF StreamInv, StreamTypeOK, TakeRecord, TakeSteps
  <2> QED BY <2>1, <2>2, <2>3, <2>4 DEF StreamInv, ToldTyped
<1>2. CASE \E o \in 0..LastOrder : SetPlayhead(o)
  BY <1>2, PlayheadSet
<1>3. CASE UNCHANGED streamVars
  <2>1. UNCHANGED <<app, tune, take, table, pcm, skeleton, told, playhead, heldRoot, seeks>>
    BY <1>3 DEF streamVars
  <2>2. \A t \in Takes : TakeSound(t)' /\ Sent(t)' = Sent(t)
    BY <2>1, TakeRests, SaysNothing DEF StreamInv
  <2> QED BY <2>1, <2>2 DEF StreamInv, StreamTypeOK, TableSound, HeldSound
<1> QED BY <1>1, <1>2, <1>3 DEF StreamNext, TakeActs

\* ipfs.rs, stream.ts: at each of its steps a take has told, put down and left to fetch what
\* StreamInv says, whatever the other takes of the root and the playhead do.
THEOREM StreamInvariant == StreamSpec => []StreamInv
<1> QED BY StreamInvInit, StreamInvStep, PTL DEF StreamSpec

-----------------------------------------------------------------------------
(* What the invariant gives: the story and the table.                       *)

\* A take has sent as many samples as it told of: none twice.
LEMMA NoneTwice ==
  ASSUME StreamInv, NEW t \in Takes
  PROVE  Cardinality(Sent(t)) = Cardinality(EventsOf(t, "sample"))
<1>0. PICK E, S : E = EventsOf(t, "sample") /\ S = Sent(t)
  OBVIOUS
<1> DEFINE f == [k \in E |-> told[t][k].index]
<1>1. told[t] \in Seq(StreamEvents) /\ E \subseteq 1..Len(told[t]) /\ Len(told[t]) \in Nat
  BY <1>0, TakeFacts DEF ToldTyped, EventsOf
<1>2. S = {told[t][k].index : k \in E}
  <2>0. \A j \in E : j < Len(told[t]) + 1
    BY <1>1
  <2>1. {j \in E : j < Len(told[t]) + 1} = E
    BY <2>0
  <2> QED BY <1>0, <2>1 DEF Sent, SentBefore
<1>3. \A j, k \in E : j # k => told[t][j].index # told[t][k].index
  BY <1>0, TakeFacts DEF TakeSound, Telling
<1>4. f \in Bijection(E, S)
  BY <1>2, <1>3 DEF Bijection, Injection, Surjection, IsInjective
<1>5. IsFiniteSet(E)
  <2>1. IsFiniteSet(1..Len(told[t]))
    BY <1>1, FS_Interval
  <2> QED BY <1>1, <2>1, FS_Subset
<1>6. Cardinality(E) = Cardinality(S)
  BY <1>4, <1>5, FS_Bijection DEF ExistsBijection
<1> QED BY <1>0, <1>6

\* Each take tells one story.
LEMMA StoryInOrder ==
  ASSUME StreamInv, NEW t \in Takes PROVE InOrder(t)
<1>1. /\ EventsOf(t, "skeleton") \subseteq {1}
      /\ EventsOf(t, "sample") # {} => 1 \in EventsOf(t, "skeleton")
      /\ \A k \in EventsOf(t, "sample") :
           told[t][k].index \notin Opening => Opening \subseteq SentBefore(t, k)
      /\ tune.v > 4 => EventsOf(t, "skeleton") = {}
  <2>1. tune.v \in 0..9
    BY TakeFacts, TuneFacts
  <2> QED BY <2>1, TakeFacts DEF TakeSound, Telling, OnPath
<1>2. ASSUME NEW k \in EventsOf(t, "complete")
      PROVE  /\ k = Len(told[t]) /\ EventsOf(t, "error") = {}
             /\ Sent(t) = IF tune.v < 2 THEN {} ELSE tune.slots
             /\ app = "desktop" => Asked(told[t][1].plan) \subseteq Sent(t)
  <2>1. take[t].step = "done"
    <3>1. told[t] # <<>>
      BY ToldNothing
    <3> QED BY <3>1, TakeFacts DEF TakeSound, Standing, Opened, TakeRecord, TakeSteps
  <2>2. /\ EventsOf(t, "error") = {} /\ EventsOf(t, "complete") = {Len(told[t])}
        /\ told[t][1] = IF tune.v < 2 THEN SkeletonEvent(<<>>, 0)
                        ELSE SkeletonEvent(PlanGiven, Cardinality(tune.slots))
        /\ Sent(t) = IF tune.v < 2 THEN {} ELSE tune.slots
    BY <2>1, TakeFacts DEF TakeSound, Standing
  <2>3. app = "desktop" => Asked(told[t][1].plan) \subseteq Sent(t)
    <3>1. CASE tune.v < 2
      <4>1. told[t][1].plan = <<>>
        BY <2>2, <3>1, EventTypes
      <4> QED BY <4>1 DEF Asked
    <3>2. CASE ~(tune.v < 2)
      <4>1. told[t][1].plan = PlanGiven
        BY <2>2, <3>2, EventTypes
      <4> QED BY <2>2, <3>2, <4>1, PlanSound, TakeFacts
    <3> QED BY <3>1, <3>2
  <2> QED BY <2>2, <2>3
<1> QED BY <1>1, <1>2, NoneTwice DEF InOrder

\* What the last take announced is under the root.
LEMMA LastIsPullable ==
  ASSUME StreamInv, NEW t \in Takes PROVE Pullable(t)
<1> SUFFICES ASSUME \A s \in Takes : s > t => take[s].step = "idle", ~Overtaken(t),
                    EventsOf(t, "skeleton") # {}
             PROVE  /\ table = t /\ skeleton[t] # Unserved
                    /\ \A i \in Sent(t) :
                         /\ i \in DOMAIN pcm[table]
                         /\ pcm[table][i] = "pcm" \/ (app = "web" /\ i \in tune.raw \cap tune.enc)
  <2>1. EventsOf(t, "skeleton") = {} => Sent(t) = {}
    BY TakeFacts DEF TakeSound, Telling, Sent, SentBefore
  <2> QED BY <2>1 DEF Pullable
<1>1. take[t].step # "idle"
  BY ToldNothing, TakeFacts DEF TakeSound, Standing
<1>2. t \in Nat \ {0} /\ table \in Takes \cup {0} /\ Takes \subseteq Nat /\ TableSound
  BY StreamAssumption DEF StreamInv, StreamTypeOK
<1>3. table >= t
  <2>1. app = "web" => ~(table < t)
    BY DEF Overtaken
  <2> QED BY <1>1, <1>2, <2>1, TakeFacts DEF TableSound
<1>4. table = t
  <2>1. table \in Takes /\ take[table].step # "idle"
    BY <1>2, <1>3 DEF TableSound
  <2>2. ~(table > t)
    BY <2>1
  <2> QED BY <1>2, <1>3, <2>2
<1> QED BY <1>4, TakeFacts DEF TakeSound, PutDownAll, Decoded

-----------------------------------------------------------------------------
(* What the invariant gives: need_key puts what the fence waits for first.  *)

\* A nonempty set of numbers has a least one.
LEMMA LeastNumber ==
  ASSUME NEW S \in SUBSET Nat, S # {}
  PROVE  \E m \in S : \A k \in S : m <= k
<1>1. IsWellFoundedOn(OpToRel(<, Nat), Nat)
  BY NatLessThanWellFounded
<1>2. PICK m \in S : \A k \in S : <<k, m>> \notin OpToRel(<, Nat)
  BY <1>1, WFMin, Zenon
<1>3. \A k \in S : ~(k < m)
  BY <1>2 DEF OpToRel
<1> QED BY <1>3

\* need_key at a checkpoint the playhead reached: the sooner a checkpoint asks for a sample, the
\* smaller, and what none of those ahead asks for comes after all of them.
OrdersOf(i) == {PlanGiven[k].order : k \in {j \in DOMAIN PlanGiven : i \in PlanGiven[j].samples}}

LEMMA OrdersAre ==
  ASSUME tune \in Tunes, NEW i
  PROVE  /\ OrdersOf(i) \subseteq 0..(Passed - 1)
         /\ \A o \in OrdersOf(i) : \E j \in DOMAIN PlanGiven :
              o = PlanGiven[j].order /\ i \in PlanGiven[j].samples
         /\ \A j \in DOMAIN PlanGiven : i \in PlanGiven[j].samples => PlanGiven[j].order \in OrdersOf(i)
<1>1. \A j \in DOMAIN PlanGiven : PlanGiven[j].order \in 0..(Passed - 1)
  <2>1. \A j \in DOMAIN PlanGiven : PlanGiven[j] \in Checkpoint
    <3>1. PlanGiven \in Seq(Checkpoint)
      BY PlanSound
    <3> HIDE DEF Checkpoint
    <3> QED BY <3>1
  <2> QED BY <2>1 DEF Checkpoint
<1> QED BY <1>1 DEF OrdersOf

LEMMA KeyAhead ==
  ASSUME tune \in Tunes, NEW i, NEW ph \in 0..(Passed - 1), NEW m \in OrdersOf(i), m >= ph,
         \A o \in OrdersOf(i) : o >= ph => m <= o
  PROVE  NeedKey(i, ph) = m - ph
<1> PICK S : S = OrdersOf(i)
  OBVIOUS
<1>1. S \subseteq Nat
  <2>1. S \subseteq 0..(Passed - 1)
    BY OrdersAre
  <2> QED BY <2>1 DEF Passed
<1> DEFINE ahead == {o \in S : o >= ph}
<1>2. m \in ahead /\ \A p \in ahead : m <= p
  OBVIOUS
<1>3. \A n \in ahead : (\A p \in ahead : n <= p) => n = m
  <2> TAKE n \in ahead
  <2>1. (\A p \in ahead : n <= p) => n <= m /\ m <= n
    BY <1>2
  <2>2. n \in Nat /\ m \in Nat
    BY <1>1
  <2> QED BY <2>1, <2>2
<1>4. (CHOOSE o \in ahead : \A p \in ahead : o <= p) = m
  <2> HIDE DEF ahead
  <2> QED BY <1>2, <1>3
<1>5. NeedKey(i, ph) = IF S = {} THEN Never
        ELSE IF ahead = {} THEN Passed + ph - (CHOOSE o \in S : \A p \in S : o >= p)
        ELSE (CHOOSE o \in ahead : \A p \in ahead : o <= p) - ph
  BY DEF NeedKey, OrdersOf
<1> HIDE DEF ahead
<1> QED BY <1>2, <1>4, <1>5

LEMMA KeyBehind ==
  ASSUME tune \in Tunes, NEW i, NEW ph \in 0..(Passed - 1), \A o \in OrdersOf(i) : o < ph
  PROVE  NeedKey(i, ph) \in Nat /\ NeedKey(i, ph) >= Passed
<1>0. PICK S : S = OrdersOf(i)
  OBVIOUS
<1>1. S \subseteq 0..999 /\ (\A o \in S : o < ph) /\ ph \in 0..999
  BY <1>0, OrdersAre DEF Passed
<1> DEFINE last == CHOOSE o \in S : \A p \in S : o >= p
<1>2. NeedKey(i, ph) = IF S = {} THEN Never ELSE Passed + ph - last
  <2>3. \A o \in S : o \in Nat /\ ~(o >= ph)
    BY <1>1
  <2>1. {o \in S : o >= ph} = {}
    BY <2>3
  <2>2. NeedKey(i, ph) = IF S = {} THEN Never
          ELSE IF {o \in S : o >= ph} = {} THEN Passed + ph - last
          ELSE (CHOOSE o \in {q \in S : q >= ph} : \A p \in {q \in S : q >= ph} : o <= p) - ph
    BY <1>0 DEF NeedKey, OrdersOf
  <2> HIDE DEF last
  <2> QED BY <2>1, <2>2
<1>3. CASE S = {}
  BY <1>2, <1>3 DEF Never, Passed
<1>4. CASE S # {}
  <2>1. PICK T : T = {Passed - o : o \in S}
    OBVIOUS
  <2>8. \A o \in S : Passed - o \in Nat
    BY <1>1 DEF Passed
  <2>2. T \in SUBSET Nat /\ T # {}
    <3>1. \A k \in T : k \in Nat
      BY <2>1, <2>8
    <3>2. PICK o \in S : TRUE
      BY <1>4
    <3>3. Passed - o \in T
      BY <2>1
    <3> QED BY <3>1, <3>3
  <2>3. PICK n \in T : \A k \in T : n <= k
    BY <2>2, LeastNumber
  <2>4. PICK m \in S : n = Passed - m
    BY <2>1, <2>3
  <2>5. \A p \in S : m >= p
    <3> TAKE p \in S
    <3>1. Passed - m <= Passed - p
      BY <2>1, <2>3, <2>4
    <3> QED BY <1>1, <3>1 DEF Passed
  <2>6. last \in S
    <3>1. \E o \in S : \A p \in S : o >= p
      BY <2>5
    <3> QED BY <3>1
  <2>7. last \in Nat /\ last < ph
    <3> HIDE DEF last
    <3> QED BY <1>1, <2>6
  <2> HIDE DEF last
  <2> QED BY <1>2, <1>4, <2>7 DEF Passed
<1> QED BY <1>3, <1>4

\* The fence counts as everyone does.
LEMMA GateCounts == \A S : Gate!Cardinality(S) = Cardinality(S)
BY DEF Gate!Cardinality, Cardinality

\* At checkpoint k, the fence waits for its samples and those of the next.
LEMMA FenceAt ==
  ASSUME tune \in Tunes, NEW k \in DOMAIN PlanGiven, NEW ph, PlanGiven[k].order = ph
  PROVE  Gate!RequiredAt(PlanGiven, ph) =
           UNION {PlanGiven[j].samples : j \in DOMAIN PlanGiven \cap k..(k + 1)}
<1>0. PICK cps : cps = PlanGiven
  OBVIOUS
<1>1. cps \in Seq(Checkpoint) /\ Ascending(cps)
  BY <1>0, PlanSound
<1>2. DOMAIN cps = 1..Len(cps) /\ Len(cps) \in Nat /\ \A j \in DOMAIN cps : cps[j].order \in Nat
  <2>1. DOMAIN cps = 1..Len(cps) /\ Len(cps) \in Nat /\ \A j \in DOMAIN cps : cps[j] \in Checkpoint
    <3>1. cps \in Seq(Checkpoint)
      BY <1>1
    <3>2. DOMAIN cps = 1..Len(cps) /\ Len(cps) \in Nat
      BY <3>1, LenProperties
    <3>3. \A j \in 1..Len(cps) : cps[j] \in Checkpoint
      BY <3>1, ElementOfSeq
    <3> QED BY <3>2, <3>3
  <2>2. \A j \in DOMAIN cps : cps[j].order \in 0..(Passed - 1)
    BY <2>1 DEF Checkpoint
  <2>3. 0..(Passed - 1) \subseteq Nat
    BY DEF Passed
  <2> QED BY <2>1, <2>2, <2>3
<1>3. k \in 1..Len(cps) /\ cps[k].order = ph
  BY <1>0, <1>2
<1>4. {j \in DOMAIN cps : cps[j].order <= ph} = 1..k
  <2>1. ASSUME NEW j \in DOMAIN cps PROVE cps[j].order <= ph <=> j <= k
    <3>1. j < k \/ j = k \/ k < j
      BY <1>2, <1>3
    <3> QED BY <1>1, <1>2, <1>3, <3>1 DEF Ascending
  <2>2. \A j : j \in 1..k <=> j \in DOMAIN cps /\ j <= k
    BY <1>2, <1>3
  <2> QED BY <2>1, <2>2
<1>5. Cardinality(1..k) = k
  BY <1>3, FS_Interval
<1>6. Gate!FloorIdx(cps, ph) = k
  <2>1. PICK U : U = {j \in DOMAIN cps : cps[j].order <= ph}
    OBVIOUS
  <2>2. Gate!FloorIdx(cps, ph) = Cardinality(U)
    BY <2>1, GateCounts DEF Gate!FloorIdx
  <2> QED BY <1>4, <1>5, <2>1, <2>2
<1> QED BY <1>0, <1>6 DEF Gate!RequiredAt, Gate!UnionRange

\* What the fence waits for is nearer than all else: need_key of a sample at checkpoint k.
LEMMA KeysAt ==
  ASSUME tune \in Tunes, NEW k \in DOMAIN PlanGiven, NEW ph \in 0..(Passed - 1),
         PlanGiven[k].order = ph
  PROVE  /\ \A i \in PlanGiven[k].samples : NeedKey(i, ph) = 0
         /\ k + 1 \in DOMAIN PlanGiven =>
              \A i \in PlanGiven[k + 1].samples : NeedKey(i, ph) <= PlanGiven[k + 1].order - ph
         /\ \A i : (\A j \in DOMAIN PlanGiven \cap k..(k + 1) : i \notin PlanGiven[j].samples) =>
              /\ NeedKey(i, ph) > 0
              /\ k + 1 \in DOMAIN PlanGiven => NeedKey(i, ph) > PlanGiven[k + 1].order - ph
         /\ \A i : NeedKey(i, ph) \in Int
         /\ k + 1 \in DOMAIN PlanGiven => PlanGiven[k + 1].order - ph \in Int
<1>1. PICK cps : cps = PlanGiven
  OBVIOUS
<1>2. /\ DOMAIN cps \subseteq Nat /\ k \in DOMAIN cps /\ ph \in Nat /\ ph < Passed /\ Passed = 1000
      /\ \A j \in DOMAIN cps : cps[j].order \in Nat /\ cps[j].order < Passed
      /\ \A i, j \in DOMAIN cps : i < j => cps[i].order < cps[j].order
      /\ cps[k].order = ph
  <2>1. cps \in Seq(Checkpoint) /\ Ascending(cps)
    BY <1>1, PlanSound
  <2>2. DOMAIN cps = 1..Len(cps) /\ Len(cps) \in Nat
    BY <2>1, LenProperties
  <2>3. \A j \in 1..Len(cps) : cps[j] \in Checkpoint
    BY <2>1, ElementOfSeq
  <2>4. \A j \in DOMAIN cps : cps[j].order \in 0..(Passed - 1)
    BY <2>2, <2>3 DEF Checkpoint
  <2>5. Passed = 1000
    BY DEF Passed
  <2>6. \A o \in 0..(Passed - 1) : o \in Nat /\ o < Passed
    BY <2>5
  <2>7. \A i, j \in DOMAIN cps : i < j => cps[i].order < cps[j].order
    BY <2>1 DEF Ascending
  <2>8. DOMAIN cps \subseteq Nat
    BY <2>2
  <2>9. \A j \in DOMAIN cps : cps[j].order \in Nat /\ cps[j].order < Passed
    BY <2>4, <2>6
  <2>10. ph \in Nat /\ ph < Passed /\ k \in DOMAIN cps /\ cps[k].order = ph
    BY <1>1, <2>6
  <2> QED BY <2>5, <2>7, <2>8, <2>9, <2>10
<1>3. \A i : /\ \A o \in OrdersOf(i) : \E j \in DOMAIN cps :
                  o = cps[j].order /\ i \in cps[j].samples
             /\ \A j \in DOMAIN cps : i \in cps[j].samples => cps[j].order \in OrdersOf(i)
  BY <1>1, OrdersAre
<1>4. \A j \in DOMAIN cps : cps[j].order >= ph => j >= k
  <2> SUFFICES ASSUME NEW j \in DOMAIN cps, j < k PROVE cps[j].order < ph
    BY <1>2
  <2> QED BY <1>2
<1>5. ASSUME NEW i \in cps[k].samples PROVE NeedKey(i, ph) = 0
  <2>1. ph \in OrdersOf(i)
    BY <1>2, <1>3
  <2>2. ph >= ph
    BY <1>2
  <2>3. NeedKey(i, ph) = ph - ph
    BY <2>1, <2>2, KeyAhead
  <2> QED BY <1>2, <2>3
<1>6. ASSUME NEW i, NEW o \in OrdersOf(i), o >= ph
      PROVE  \E m \in OrdersOf(i) : m >= ph /\ m <= o /\ NeedKey(i, ph) = m - ph
  <2>1. PICK A : A = {p \in OrdersOf(i) : p >= ph}
    OBVIOUS
  <2>2. A \in SUBSET Nat /\ A # {} /\ o \in A
    BY <1>2, <1>3, <1>6, <2>1
  <2>3. PICK m \in A : \A p \in A : m <= p
    BY <2>2, LeastNumber
  <2>4. m \in OrdersOf(i) /\ m >= ph /\ \A p \in OrdersOf(i) : p >= ph => m <= p
    BY <2>1, <2>3
  <2>5. NeedKey(i, ph) = m - ph
    BY <2>4, KeyAhead
  <2> QED BY <2>2, <2>3, <2>4, <2>5
<1>7. ASSUME k + 1 \in DOMAIN cps, NEW i \in cps[k + 1].samples
      PROVE  NeedKey(i, ph) <= cps[k + 1].order - ph
  <2>1. cps[k + 1].order \in OrdersOf(i) /\ cps[k + 1].order >= ph
    BY <1>2, <1>3, <1>7
  <2>2. PICK m \in OrdersOf(i) : m <= cps[k + 1].order /\ NeedKey(i, ph) = m - ph
    BY <1>6, <2>1
  <2>3. m \in Nat
    BY <1>2, <1>3
  <2> QED BY <1>2, <1>7, <2>2, <2>3
<1>8. ASSUME NEW i, \A j \in DOMAIN cps \cap k..(k + 1) : i \notin cps[j].samples
      PROVE  /\ NeedKey(i, ph) > 0
             /\ k + 1 \in DOMAIN cps => NeedKey(i, ph) > cps[k + 1].order - ph
  <2>1. CASE \A o \in OrdersOf(i) : o < ph
    <3>1. NeedKey(i, ph) \in Nat /\ NeedKey(i, ph) >= Passed
      BY <2>1, KeyBehind
    <3> QED BY <1>2, <3>1
  <2>2. CASE \E o \in OrdersOf(i) : ~(o < ph)
    <3>1. PICK o \in OrdersOf(i) : o >= ph
      BY <1>2, <1>3, <2>2
    <3>2. PICK m \in OrdersOf(i) : m >= ph /\ NeedKey(i, ph) = m - ph
      BY <1>6, <3>1
    <3>3. PICK j \in DOMAIN cps : m = cps[j].order /\ i \in cps[j].samples
      BY <1>3
    <3>4. j \notin k..(k + 1) /\ j >= k
      BY <1>4, <1>8, <3>2, <3>3
    <3>5. j > k + 1 /\ j \in Nat /\ k \in Nat
      BY <1>2, <3>4
    <3>6. cps[j].order > ph
      BY <1>2, <3>5
    <3>7. k + 1 \in DOMAIN cps => cps[j].order > cps[k + 1].order
      BY <1>2, <3>5
    <3> QED BY <1>2, <3>2, <3>3, <3>6, <3>7
  <2> QED BY <2>1, <2>2
<1>9. ASSUME NEW i PROVE NeedKey(i, ph) \in Int
  <2>1. CASE \A o \in OrdersOf(i) : o < ph
    <3>1. NeedKey(i, ph) \in Nat
      BY <2>1, KeyBehind
    <3> QED BY <3>1
  <2>2. CASE \E o \in OrdersOf(i) : ~(o < ph)
    <3>1. PICK o \in OrdersOf(i) : o >= ph
      BY <1>2, <1>3, <2>2
    <3>2. PICK m \in OrdersOf(i) : NeedKey(i, ph) = m - ph
      BY <1>6, <3>1
    <3> QED BY <1>2, <1>3, <3>2
  <2> QED BY <2>1, <2>2
<1>10. k + 1 \in DOMAIN cps => cps[k + 1].order - ph \in Int
  BY <1>2
<1> QED BY <1>1, <1>5, <1>7, <1>8, <1>9, <1>10

\* The desktop fetches what the fence waits for before anything it does not.
LEMMA FenceIsFirst ==
  ASSUME StreamInv, NEW t \in Takes PROVE FenceFirst(t)
<1> DEFINE ph == playhead[t]
           waited == Gate!RequiredAt(PlanGiven, ph) \cap take[t].left
<1> SUFFICES ASSUME waited # {}, NEW k \in DOMAIN PlanGiven, PlanGiven[k].order = ph
             PROVE  Nearest(t) \subseteq waited
  BY DEF FenceFirst
<1>1. tune \in Tunes /\ ph \in 0..(Passed - 1)
  BY TakeFacts DEF StreamInv
<1>2. Gate!RequiredAt(PlanGiven, ph) = UNION {PlanGiven[j].samples : j \in DOMAIN PlanGiven \cap k..(k + 1)}
  BY <1>1, FenceAt
<1>3. \A j \in DOMAIN PlanGiven \cap k..(k + 1) : j = k \/ j = k + 1
  <2>1. PlanGiven \in Seq(Checkpoint)
    BY <1>1, PlanSound
  <2>2. k \in Nat
    BY <2>1, LenProperties
  <2> QED BY <2>2
<1>4. PICK w \in take[t].left : \E j \in DOMAIN PlanGiven \cap k..(k + 1) : w \in PlanGiven[j].samples
  BY <1>2
<1> HIDE DEF ph
<1>5. ASSUME NEW i \in Nearest(t), i \notin waited PROVE FALSE
  <2>1. i \in take[t].left /\ NeedKey(i, ph) <= NeedKey(w, ph)
    BY <1>4, <1>5 DEF Nearest, ph
  <2>2. \A j \in DOMAIN PlanGiven \cap k..(k + 1) : i \notin PlanGiven[j].samples
    BY <1>2, <1>5, <2>1
  <2>3. PICK a, b : a = NeedKey(i, ph) /\ b = NeedKey(w, ph)
    OBVIOUS
  <2>4. a <= b
    BY <2>1, <2>3
  <2>5. CASE w \in PlanGiven[k].samples
    <3>1. b = 0 /\ a > 0 /\ a \in Int
      BY <1>1, <2>2, <2>3, <2>5, KeysAt
    <3> QED BY <2>4, <3>1
  <2>6. CASE k + 1 \in DOMAIN PlanGiven /\ w \in PlanGiven[k + 1].samples
    <3>1. PICK d : d = PlanGiven[k + 1].order - ph
      OBVIOUS
    <3>2. b <= d /\ a > d /\ a \in Int /\ b \in Int /\ d \in Int
      BY <1>1, <2>2, <2>3, <2>6, <3>1, KeysAt
    <3> QED BY <2>4, <3>2
  <2> QED BY <1>3, <1>4, <2>5, <2>6
<1> QED BY <1>5

\* ipfs.rs, stream.ts (StreamSound): a stream says only what it has put down, in the order that
\* lets playback open first, and a root is held complete only when a take fetched all of it.
THEOREM StreamAlwaysSound == StreamSpec => []StreamSound
<1>1. StreamInv => StreamSound
  BY StoryInOrder, LastIsPullable, FenceIsFirst DEF StreamSound, StreamInv, HeldSound
<1> QED BY <1>1, StreamInvariant, PTL
=============================================================================
