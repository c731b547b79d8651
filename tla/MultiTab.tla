------------------------------ MODULE MultiTab ------------------------------
(***************************************************************************)
(* Tabs of one browser that share one node: the tab holding the Web Lock   *)
(* runs it, the others call it over a BroadcastChannel, and when the       *)
(* leader's tab goes away the next one in the lock's queue promotes.       *)
(*                                                                         *)
(*   src/apps/web/src/lib/multitab/   boot, election, follower, server     *)
(*                                                                         *)
(* A tab leads at most once, so a leadership id is the tab.  Streaming     *)
(* callbacks and the playlists:changed broadcast are left out: neither     *)
(* settles a call nor moves leadership.  A tab restored from the           *)
(* back/forward cache reloads, which is a tab going and another opening.   *)
(* Web Locks, BroadcastChannel and WebClient.create are outside the tabs'  *)
(* code and modelled from how it uses them.                                *)
(***************************************************************************)
EXTENDS Integers, Sequences, FiniteSets

CONSTANTS
  Tabs,
  NoTab,
  CallIds     \* bound: calls one tab makes, in order

ASSUME TabAssumption ==
  /\ IsFiniteSet(Tabs) /\ NoTab \notin Tabs
  /\ CallIds \subseteq Nat

VARIABLES
  life,      \* unopened, open or gone
  lock,      \* who holds ts:leader/v1
  queue,     \* tabs whose persistent lock request is queued, in order
  side,       \* what bootClient has come to in the tab
  node,      \* the tab's libp2p node
  leaderId,  \* the leader a follower last heard of
  chan,      \* chan[s][r]: posted by s, not yet delivered in r
  call,      \* call[t][i]: idle, pending, ok or failed
  serving,   \* serving[t]: calls the server of t is executing
  taken      \* taken[t][i]: how many servers took the call up

tabVars == <<life, lock, queue, side, node, leaderId, chan, call, serving, taken>>

-----------------------------------------------------------------------------
Calls == Tabs \X CallIds

\* id: the call a message asks for or answers.
Messages == [t : {"probe", "hello", "req", "ok", "err"}, id : CallIds \cup {0}]

Msg(kind, id) == [t |-> kind, id |-> id]

OpenTabs == {t \in Tabs : life[t] = "open"}

\* The tabs with an open BroadcastChannel.  A server only heeds probes and
\* requests, a follower only hellos and its own replies, so a message is
\* posted to the side that heeds it.
Servers == {t \in OpenTabs : node[t] = "up"}

Followers == {t \in OpenTabs : side[t] \in {"waiting", "ready"}}

\* The channels once s has posted m to the tabs in to.
Posted(ch, s, m, to) ==
  [ch EXCEPT ![s] = [r \in Tabs |-> IF r \in to \ {s}
                                    THEN Append(ch[s][r], m) ELSE ch[s][r]]]

\* No message posted so far reaches tab t any more.
Deaf(ch, t) == [s \in Tabs |-> [ch[s] EXCEPT ![t] = <<>>]]

\* failInflight: whatever tab t is waiting for is rejected.
FailInflight(t) ==
  call' = [call EXCEPT ![t] = [i \in CallIds |->
             IF call[t][i] = "pending" THEN "failed" ELSE call[t][i]]]

-----------------------------------------------------------------------------
TabsInit ==
  /\ life     = [t \in Tabs |-> "unopened"]
  /\ lock     = NoTab
  /\ queue    = <<>>
  /\ side      = [t \in Tabs |-> "boot"]
  /\ node     = [t \in Tabs |-> "off"]
  /\ leaderId = [t \in Tabs |-> NoTab]
  /\ chan     = [s \in Tabs |-> [r \in Tabs |-> <<>>]]
  /\ call     = [t \in Tabs |-> [i \in CallIds |-> "idle"]]
  /\ serving  = [t \in Tabs |-> {}]
  /\ taken    = [t \in Tabs |-> [i \in CallIds |-> 0]]

(***************************************************************************)
(* Election                                                                *)
(***************************************************************************)

\* elect, the ifAvailable request: granted when nobody holds or awaits the
\* lock; the tab is the leader and boots its node.
OpenAsLeader(t) ==
  /\ life[t] = "unopened"
  /\ lock = NoTab /\ queue = <<>>
  /\ life' = [life EXCEPT ![t] = "open"]
  /\ lock' = t
  /\ node' = [node EXCEPT ![t] = "booting"]
  /\ UNCHANGED <<queue, side, leaderId, chan, call, serving, taken>>

\* Otherwise the tab is a follower: it listens, probes, and its persistent
\* request is on its way to the lock manager.
OpenAsFollower(t) ==
  /\ life[t] = "unopened"
  /\ lock # NoTab \/ queue # <<>>
  /\ life' = [life EXCEPT ![t] = "open"]
  /\ side' = [side EXCEPT ![t] = "waiting"]
  /\ chan' = Posted(chan, t, Msg("probe", 0), Servers)
  /\ UNCHANGED <<lock, queue, node, leaderId, call, serving, taken>>

\* The manager takes up the persistent request of a follower.
QueueForLock(t) ==
  /\ t \in OpenTabs
  /\ side[t] = "waiting" \/ side[t] = "ready"
  /\ lock # t
  /\ \A k \in DOMAIN queue : queue[k] # t
  /\ queue' = Append(queue, t)
  /\ UNCHANGED <<life, lock, side, node, leaderId, chan, call, serving, taken>>

\* The promoted tab does not keep the lock.
GrantNotHeld ==
  /\ lock = NoTab /\ queue # <<>>
  /\ queue' = Tail(queue)
  /\ node' = [node EXCEPT ![Head(queue)] = "booting"]
  /\ UNCHANGED <<life, lock, side, leaderId, chan, call, serving, taken>>

\* The free lock goes to the head of the queue, which promotes: it boots a
\* node in place and holds the lock until pagehide.
Grant ==
  /\ lock = NoTab /\ queue # <<>>
  /\ lock' = Head(queue)
  /\ queue' = Tail(queue)
  /\ node' = [node EXCEPT ![Head(queue)] = "booting"]
  /\ UNCHANGED <<life, side, leaderId, chan, call, serving, taken>>

\* WebClient.create resolves: the server starts and announces itself.  A
\* promoting follower reroutes to its own node, rejects what it had asked the
\* old leader and closes its follower channel; a channel hears nothing that
\* was posted before it was opened.
StartServing(t) ==
  /\ t \in OpenTabs
  /\ node[t] = "booting"
  /\ node' = [node EXCEPT ![t] = "up"]
  /\ side' = [side EXCEPT ![t] = "local"]
  /\ chan' = Posted(Deaf(chan, t), t, Msg("hello", 0), Followers)
  /\ FailInflight(t)
  /\ UNCHANGED <<life, lock, queue, leaderId, serving, taken>>

\* WebClient.create rejects: nothing handles it and the lock stays held.
BootFailed(t) ==
  /\ t \in OpenTabs
  /\ node[t] = "booting"
  /\ node' = [node EXCEPT ![t] = "failed"]
  /\ UNCHANGED <<life, lock, queue, side, leaderId, chan, call, serving, taken>>

\* The tab closes, crashes or is frozen: pagehide releases the lock, its
\* queued request is dropped, and what it asked or executed goes with it.
Close(t) ==
  /\ t \in OpenTabs
  /\ life' = [life EXCEPT ![t] = "gone"]
  /\ lock' = IF lock = t THEN NoTab ELSE lock
  /\ queue' = SelectSeq(queue, LAMBDA u : u # t)
  /\ node' = [node EXCEPT ![t] = "off"]
  /\ serving' = [serving EXCEPT ![t] = {}]
  /\ chan' = Deaf(chan, t)
  /\ FailInflight(t)
  /\ UNCHANGED <<side, leaderId, taken>>

-----------------------------------------------------------------------------
(***************************************************************************)
(* Calls                                                                   *)
(***************************************************************************)

\* waitReady probes again as long as no leader has answered; bound: the timer
\* is slower than a probe and its answer.
Probe(t) ==
  /\ t \in OpenTabs
  /\ side[t] = "waiting" /\ leaderId[t] = NoTab
  /\ \A r \in Tabs : /\ \A k \in DOMAIN chan[t][r] : chan[t][r][k].t # "probe"
                     /\ chan[r][t] = <<>>
  /\ chan' = Posted(chan, t, Msg("probe", 0), Servers)
  /\ UNCHANGED <<life, lock, queue, side, node, leaderId, call, serving, taken>>

\* rpc: the UI of a follower calls a method; ids are used in order.
Call(t, i) ==
  /\ t \in OpenTabs
  /\ side[t] = "ready"
  /\ call[t][i] = "idle"
  /\ \A j \in CallIds : j < i => call[t][j] # "idle"
  /\ call' = [call EXCEPT ![t][i] = "pending"]
  /\ chan' = Posted(chan, t, Msg("req", i), Servers)
  /\ UNCHANGED <<life, lock, queue, side, node, leaderId, serving, taken>>

\* The leader's node settles a call; the reply is addressed to the caller.
Reply(t, c) ==
  /\ c \in serving[t]
  /\ serving' = [serving EXCEPT ![t] = @ \ {c}]
  /\ \E answer \in {"ok", "err"} :
       chan' = Posted(chan, t, Msg(answer, c[2]), Followers \cap {c[1]})
  /\ UNCHANGED <<life, lock, queue, side, node, leaderId, call, taken>>

\* The messages left once r has taken the next one from s.
Taken(s, r) == [chan EXCEPT ![s][r] = Tail(@)]

\* The serving leader answers a probe with hello, to everyone.
ProbeAnswered(s, r) ==
  /\ chan' = Posted(Taken(s, r), r, Msg("hello", 0), Followers)
  /\ UNCHANGED <<life, lock, queue, side, node, leaderId, call, serving, taken>>

\* The serving leader starts executing a call.
RequestTaken(s, r, m) ==
  /\ chan' = Taken(s, r)
  /\ serving' = [serving EXCEPT ![r] = @ \cup {<<s, m.id>>}]
  /\ taken' = [taken EXCEPT ![s][m.id] = @ + 1]
  /\ UNCHANGED <<life, lock, queue, side, node, leaderId, call>>

\* Nothing outstanding is rejected.
HelloForgetful(s, r) ==
  /\ leaderId' = [leaderId EXCEPT ![r] = s]
  /\ side' = [side EXCEPT ![r] = "ready"]
  /\ chan' = Taken(s, r)
  /\ UNCHANGED <<life, lock, queue, node, call, serving, taken>>

\* What is outstanding is sent again to the new leader.
HelloResends(s, r) ==
  LET moved == leaderId[r] \notin {NoTab, s}
      lost  == {i \in CallIds : call[r][i] = "pending"}
  IN /\ leaderId' = [leaderId EXCEPT ![r] = s]
     /\ side' = [side EXCEPT ![r] = "ready"]
     /\ IF moved /\ lost # {}
        THEN \E i \in lost :
               chan' = Posted(Taken(s, r), r, Msg("req", i), Servers)
        ELSE chan' = Taken(s, r)
     /\ UNCHANGED <<life, lock, queue, node, call, serving, taken>>

\* A follower hears of a ready leader; if it followed another one, all it has
\* outstanding is rejected.
HelloHeard(s, r) ==
  LET moved == leaderId[r] \notin {NoTab, s}
  IN /\ leaderId' = [leaderId EXCEPT ![r] = s]
     /\ side' = [side EXCEPT ![r] = "ready"]
     /\ chan' = Taken(s, r)
     /\ IF moved THEN FailInflight(r) ELSE UNCHANGED call
     /\ UNCHANGED <<life, lock, queue, node, serving, taken>>

\* A reply settles the call it answers if that is still outstanding.
ReplyHeard(s, r, m) ==
  /\ chan' = Taken(s, r)
  /\ call' = IF call[r][m.id] # "pending" THEN call
             ELSE [call EXCEPT ![r][m.id] = IF m.t = "ok" THEN "ok" ELSE "failed"]
  /\ UNCHANGED <<life, lock, queue, side, node, leaderId, serving, taken>>

\* The next message of s reaches r: the server's onmessage, or the follower's.
Receive(s, r) ==
  /\ chan[s][r] # <<>>
  /\ LET m == Head(chan[s][r])
     IN \/ r \in Servers /\ m.t = "probe" /\ ProbeAnswered(s, r)
        \/ r \in Servers /\ m.t = "req" /\ RequestTaken(s, r, m)
        \/ r \in Followers /\ m.t = "hello" /\ HelloHeard(s, r)
        \/ r \in Followers /\ m.t \in {"ok", "err"} /\ ReplyHeard(s, r, m)

TabsNext ==
  \/ \E t \in Tabs :
       \/ OpenAsLeader(t) \/ OpenAsFollower(t) \/ QueueForLock(t)
       \/ StartServing(t) \/ BootFailed(t) \/ Close(t) \/ Probe(t)
       \/ \E i \in CallIds : Call(t, i)
       \/ \E c \in Calls : Reply(t, c)
  \/ Grant
  \/ \E s, r \in Tabs : Receive(s, r)

TabsSpec == TabsInit /\ [][TabsNext]_tabVars

\* The browser grants locks and delivers messages, nodes finish booting and
\* calls finish, and the probe timer fires; tabs need neither open, call nor
\* close.
TabsFairness ==
  /\ WF_tabVars(Grant)
  /\ \A t \in Tabs :
       /\ WF_tabVars(QueueForLock(t))
       /\ WF_tabVars(StartServing(t))
       /\ WF_tabVars(Probe(t))
       /\ \A c \in Calls : WF_tabVars(Reply(t, c))
       /\ \A r \in Tabs : WF_tabVars(Receive(t, r))

TabsFairSpec == TabsSpec /\ TabsFairness

-----------------------------------------------------------------------------
(***************************************************************************)
(* Properties                                                              *)
(***************************************************************************)

TabsTypeOK ==
  /\ life \in [Tabs -> {"unopened", "open", "gone"}]
  /\ lock \in Tabs \cup {NoTab}
  /\ queue \in Seq(Tabs)
  /\ side \in [Tabs -> {"boot", "waiting", "ready", "local"}]
  /\ node \in [Tabs -> {"off", "booting", "up", "failed"}]
  /\ leaderId \in [Tabs -> Tabs \cup {NoTab}]
  /\ chan \in [Tabs -> [Tabs -> Seq(Messages)]]
  /\ call \in [Tabs -> [CallIds -> {"idle", "pending", "ok", "failed"}]]
  /\ serving \in [Tabs -> SUBSET Calls]
  /\ taken \in [Tabs -> [CallIds -> Nat]]

\* Exactly one tab runs the node: two nodes under one persisted peer id would
\* overwrite each other's network state (elect, promote).
OneNode ==
  \A t, u \in OpenTabs :
    node[t] \in {"booting", "up"} /\ node[u] \in {"booting", "up"} => t = u

\* A call is executed at most once, whichever leaders come and go while it or
\* its answer is under way, and a call that resolved was executed (rpc,
\* handle, failInflight).
CallsServed ==
  \A t \in Tabs, i \in CallIds :
    /\ taken[t][i] <= 1
    /\ call[t][i] = "ok" => taken[t][i] = 1

\* The lock is held by a tab whose node could not boot.
Orphaned == \E t \in OpenTabs : node[t] = "failed"

\* No call hangs: leaders may close at any moment, before or after they took
\* the call up, and the caller still gets an answer or a rejection, unless
\* the lock went to a tab whose boot failed (failInflight, promote).
CallSettles ==
  \A t \in Tabs, i \in CallIds :
    call[t][i] = "pending" ~> (call[t][i] # "pending" \/ Orphaned)

\* Every tab gets a working client, its own or the leader's, unless it closes
\* or the lock went to a tab whose boot failed (waitReady, promote).
TabBoots ==
  \A t \in Tabs :
    life[t] = "open" ~> (life[t] = "gone" \/ side[t] \in {"ready", "local"} \/ Orphaned)

\* Nobody waits for ever, neither a call nor a tab.
TabsSettle == CallSettles /\ TabBoots
=============================================================================
