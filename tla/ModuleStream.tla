---------------------------- MODULE ModuleStream ----------------------------
(* How a module reaches the player: stream_v2 (src-tauri/src/ipfs.rs) with *)
(* its commands in lib.rs, and its browser twin (web/src/lib/stream.ts).   *)
(* Control events tell what arrived; the player then pulls the bytes by    *)
(* root and slot from a table the takes of one root share: a take is one   *)
(* call of start_stream.                                                   *)
EXTENDS Integers, Sequences, FiniteSets

CONSTANTS
  Tunes,     \* modules: [v, spilled, slots, raw, enc, plan], see StreamAssumption
  Takes,     \* calls of start_stream for one root, numbered as they start
  StreamShells,  \* "desktop" and "web"
  Unserved,  \* no bytes for the caller
  MaxSeeks   \* bound: playhead reports

Gate == INSTANCE Fence

(* need_key's distances: of a sample that was passed, and of one nothing   *)
(* needs.  An order is an index into the song's order list, far below.     *)
Passed == 1000
Never == 2000

ASSUME StreamAssumption ==
  /\ Takes \subseteq Nat \ {0} /\ MaxSeeks \in Nat /\ StreamShells \subseteq {"desktop", "web"}
  /\ Unserved \notin {"skeleton", "file"}
  /\ \A u \in Tunes :
       /\ u.v \in 0..9 /\ u.spilled \in BOOLEAN
       /\ u.slots \subseteq Nat /\ IsFiniteSet(u.slots)
       /\ u.plan \in Seq([order : 0..(Passed - 1), samples : SUBSET Nat])
       /\ u.raw \subseteq u.slots     \* leaves kept as plain PCM
       /\ u.enc \subseteq u.slots     \* samples whose file form differs from their PCM
       /\ \A i, j \in DOMAIN u.plan : i < j => u.plan[i].order < u.plan[j].order

VARIABLES
  app,       \* the shell
  tune,      \* the module streamed
  take,      \* each call: its step, the samples left to fetch, the one under way
  table,     \* the take that get_sample finds under the root, 0 for none
  pcm,    \* the PCM each take has put down for its slots
  skeleton,  \* what each take has put down as the skeleton
  told,      \* events each take has sent
  playhead,  \* StreamState.playhead
  heldRoot,  \* HeldRoots' word on the root
  seeks      \* playhead reports so far

streamVars == <<app, tune, take, table, pcm, skeleton, told, playhead, heldRoot, seeks>>

Unbegun == [step |-> "idle", left |-> {}, slot |-> 0]

StreamInit ==
  /\ app \in StreamShells /\ tune \in Tunes
  /\ take = [t \in Takes |-> Unbegun] /\ table = 0
  /\ pcm = [t \in Takes |-> <<>>] /\ skeleton = [t \in Takes |-> Unserved]
  /\ told = [t \in Takes |-> <<>>] /\ playhead = [t \in Takes |-> 0]
  /\ heldRoot = "none" /\ seeks = 0

(* The n-th smallest number of a set.                                      *)
Nth(S, n) == CHOOSE k \in S : Cardinality({j \in S : j <= k}) = n

(* The desktop drops from the plan what the module does not stream, and the*)
(* checkpoints that leaves empty; the browser takes the plan as it is.     *)
NoPruning(u) == u.plan  \* the plan is taken as it comes
Pruning(u) ==
  LET needed == {k \in DOMAIN u.plan : u.plan[k].samples \cap u.slots # {}} IN
  [n \in 1..Cardinality(needed) |-> [u.plan[Nth(needed, n)] EXCEPT !.samples = @ \cap u.slots]]
PlanGiven == IF app = "desktop" THEN Pruning(tune) ELSE tune.plan

(* The streamed samples of the opening, which are fetched first.           *)
Opening == Gate!RequiredAt(PlanGiven, 0) \cap tune.slots

(* What the leaves of a sample are turned into.  The browser takes the tag *)
(* that leads from PCM to the file's bytes for one that leads back.        *)
Decoded(i) == IF app = "web" /\ i \in tune.raw \cap tune.enc THEN "reencoded" ELSE "pcm"

Step(t, s) == take' = [take EXCEPT ![t].step = s]
Say(t, events) == told' = [told EXCEPT ![t] = @ \o events]
SkeletonEvent(cps, n) == [type |-> "skeleton", plan |-> cps, samples |-> n]
SampleEvent(i) == [type |-> "sample", index |-> i]
Complete == [type |-> "complete"]
Error == [type |-> "error"]

(* HeldRoots.mark: partial at the start, complete at the end, never back.  *)
Mark(complete) == IF complete \/ heldRoot = "complete" THEN "complete" ELSE "partial"

(* The desktop puts an empty state under the root at once, the browser its *)
(* own only with the skeleton.                                             *)
StartStream(t) ==
  /\ take[t].step = "idle" /\ \A s \in Takes : s < t => take[s].step # "idle"
  /\ Step(t, "manifest")
  /\ table' = IF app = "desktop" THEN t ELSE table
  /\ heldRoot' = IF app = "desktop" THEN Mark(FALSE) ELSE heldRoot
  /\ UNCHANGED <<app, tune, pcm, skeleton, told, playhead, seeks>>

(* Any fetch may end in an error: no peer has the block, or its bytes do   *)
(* not hash to its address.  The browser rejects before it sent anything,  *)
(* which the player shows like the event.                                  *)
Fail(t) ==
  /\ take[t].step \in {"manifest", "index", "whole", "open", "fetch"}
  /\ Step(t, "failed") /\ Say(t, <<Error>>)
  /\ UNCHANGED <<app, tune, table, pcm, skeleton, playhead, heldRoot, seeks>>

(* The version decides the path; one that is newer than the client is an   *)
(* error, never read as an older one.                                      *)
PathOf(v) == IF v < 2 THEN "whole" ELSE IF v > 4 THEN "failed"
             ELSE IF tune.spilled THEN "index" ELSE "open"

ReadManifest(t) ==
  /\ take[t].step = "manifest" /\ Step(t, PathOf(tune.v))
  /\ Say(t, IF PathOf(tune.v) = "failed" THEN <<Error>> ELSE <<>>)
  /\ UNCHANGED <<app, tune, table, pcm, skeleton, playhead, heldRoot, seeks>>

ReadIndex(t) ==
  /\ take[t].step = "index" /\ Step(t, "open")
  /\ UNCHANGED <<app, tune, table, pcm, skeleton, told, playhead, heldRoot, seeks>>

(* An older root is reassembled and played as a module without a plan.     *)
Reassembled(t) ==
  /\ take[t].step = "whole" /\ Step(t, "done")
  /\ skeleton' = [skeleton EXCEPT ![t] = "file"] /\ table' = IF app = "web" THEN t ELSE table
  /\ Say(t, <<SkeletonEvent(<<>>, 0), Complete>>)
  /\ heldRoot' = IF app = "desktop" THEN Mark(TRUE) ELSE heldRoot
  /\ UNCHANGED <<app, tune, pcm, playhead, seeks>>

(* The desktop fetches the skeleton and the opening as one batch and hands *)
(* them over together; the rest follows one by one.                        *)
OpenBatch(t) ==
  /\ app = "desktop" /\ take[t].step = "open"
  /\ skeleton' = [skeleton EXCEPT ![t] = "skeleton"]
  /\ pcm' = [pcm EXCEPT ![t] = [i \in Opening |-> Decoded(i)]]
  /\ Say(t, <<SkeletonEvent(PlanGiven, Cardinality(tune.slots))>>
             \o [n \in 1..Cardinality(Opening) |-> SampleEvent(Nth(Opening, n))])
  /\ take' = [take EXCEPT ![t] = [step |-> "rest", left |-> tune.slots \ Opening, slot |-> 0]]
  /\ UNCHANGED <<app, tune, table, playhead, heldRoot, seeks>>

(* need_key: how many orders ahead a checkpoint needs the sample; passed   *)
(* ones come after all of those, by how long ago, and the unplanned last.  *)
NeedKey(i, ph) ==
  LET orders == {PlanGiven[k].order : k \in {j \in DOMAIN PlanGiven : i \in PlanGiven[j].samples}}
      ahead == {o \in orders : o >= ph}
      nearest == CHOOSE o \in ahead : \A p \in ahead : o <= p
      last == CHOOSE o \in orders : \A p \in orders : o >= p IN
  IF orders = {} THEN Never ELSE IF ahead = {} THEN Passed + ph - last ELSE nearest - ph

Nearest(t) == {i \in take[t].left :
  \A j \in take[t].left : NeedKey(i, playhead[t]) <= NeedKey(j, playhead[t])}

PickSample(t) ==
  /\ app = "desktop" /\ take[t].step = "rest"
  /\ \E i \in Nearest(t) :
          take' = [take EXCEPT ![t] = [step |-> "fetch", left |-> @.left \ {i}, slot |-> i]]
  /\ UNCHANGED <<app, tune, table, pcm, skeleton, told, playhead, heldRoot, seeks>>

PutDown(t, i) == pcm' = [pcm EXCEPT ![t] =
                              [j \in DOMAIN @ \cup {i} |-> IF j = i THEN Decoded(i) ELSE @[j]]]

FetchedSample(t) ==
  /\ take[t].step = "fetch" /\ PutDown(t, take[t].slot)
  /\ Say(t, <<SampleEvent(take[t].slot)>>) /\ Step(t, "rest")
  /\ UNCHANGED <<app, tune, table, skeleton, playhead, heldRoot, seeks>>

StreamedAll(t) ==
  /\ app = "desktop" /\ take[t].step = "rest" /\ take[t].left = {}
  /\ Step(t, "done") /\ Say(t, <<Complete>>) /\ heldRoot' = Mark(TRUE)
  /\ UNCHANGED <<app, tune, table, pcm, skeleton, playhead, seeks>>

(* The browser puts its state under the root with the skeleton, then       *)
(* fetches the opening at once and, when all of it is there, the rest.     *)
OpenSkeleton(t) ==
  /\ app = "web" /\ take[t].step = "open"
  /\ table' = t /\ skeleton' = [skeleton EXCEPT ![t] = "skeleton"]
  /\ Say(t, <<SkeletonEvent(PlanGiven, Cardinality(tune.slots))>>)
  /\ take' = [take EXCEPT ![t] = [step |-> "first", left |-> Opening, slot |-> 0]]
  /\ UNCHANGED <<app, tune, pcm, playhead, heldRoot, seeks>>

(* The other samples of a batch still arrive after one of it failed.       *)
Emit(t) ==
  /\ app = "web" /\ take[t].step \in {"first", "rest", "failed"}
  /\ \E i \in take[t].left : /\ take' = [take EXCEPT ![t].left = @ \ {i}]
                             /\ PutDown(t, i) /\ Say(t, <<SampleEvent(i)>>)
  /\ UNCHANGED <<app, tune, table, skeleton, playhead, heldRoot, seeks>>

EmitFails(t) ==
  /\ app = "web" /\ take[t].step \in {"first", "rest", "failed"}
  /\ \E i \in take[t].left :
       take' = [take EXCEPT ![t] = [step |-> "failed", left |-> @.left \ {i}, slot |-> 0]]
  /\ Say(t, IF take[t].step = "failed" THEN <<>> ELSE <<Error>>)
  /\ UNCHANGED <<app, tune, table, pcm, skeleton, playhead, heldRoot, seeks>>

BatchIsIn(t) ==
  /\ app = "web" /\ take[t].left = {}
  /\ \/ /\ take[t].step = "first" /\ UNCHANGED told
        /\ take' = [take EXCEPT ![t].step = "rest", ![t].left = tune.slots \ Opening]
     \/ take[t].step = "rest" /\ Step(t, "done") /\ Say(t, <<Complete>>)
  /\ UNCHANGED <<app, tune, table, pcm, skeleton, playhead, heldRoot, seeks>>

(* set_playhead reaches the take that is under the root.                   *)
SetPlayhead(o) ==
  /\ app = "desktop" /\ table # 0 /\ seeks < MaxSeeks /\ seeks' = seeks + 1
  /\ playhead' = [playhead EXCEPT ![table] = o]
  /\ UNCHANGED <<app, tune, take, table, pcm, skeleton, told, heldRoot>>

LastOrder == IF tune.plan = <<>> THEN 0 ELSE tune.plan[Len(tune.plan)].order

StreamNext ==
  \/ \E t \in Takes :
       \/ StartStream(t) \/ Fail(t) \/ ReadManifest(t) \/ ReadIndex(t) \/ Reassembled(t)
       \/ OpenBatch(t) \/ PickSample(t) \/ FetchedSample(t) \/ StreamedAll(t)
       \/ OpenSkeleton(t) \/ Emit(t) \/ EmitFails(t) \/ BatchIsIn(t)
  \/ \E o \in 0..LastOrder : SetPlayhead(o)

StreamSpec == StreamInit /\ [][StreamNext]_streamVars

-----------------------------------------------------------------------------
EventsOf(t, type) == {k \in DOMAIN told[t] : told[t][k].type = type}
SentBefore(t, n) == {told[t][k].index : k \in {j \in EventsOf(t, "sample") : j < n}}
Sent(t) == SentBefore(t, Len(told[t]) + 1)
Asked(cps) == UNION {cps[k].samples : k \in DOMAIN cps}

StreamTypeOK ==
  /\ app \in StreamShells /\ tune \in Tunes /\ table \in Takes \cup {0}
  /\ take \in [Takes -> [step : {"idle", "manifest", "index", "whole", "open", "first", "rest",
                                 "fetch", "done", "failed"},
                         left : SUBSET tune.slots, slot : tune.slots \cup {0}]]
  /\ \A t \in Takes : DOMAIN pcm[t] \subseteq tune.slots /\ Sent(t) \subseteq tune.slots
  /\ heldRoot \in {"none", "partial", "complete"} /\ seeks \in 0..MaxSeeks

(* A take tells one story: the skeleton first, each sample once, those of  *)
(* the opening before all others, and complete last, when every sample the *)
(* plan can hold playback for was sent.  The browser's plan may ask for    *)
(* what is not streamed, which no event then brings.                       *)
InOrder(t) ==
  /\ EventsOf(t, "skeleton") \subseteq {1}
  /\ EventsOf(t, "sample") # {} => 1 \in EventsOf(t, "skeleton")
  /\ Cardinality(Sent(t)) = Cardinality(EventsOf(t, "sample"))
  /\ \A k \in EventsOf(t, "sample") :
       told[t][k].index \notin Opening => Opening \subseteq SentBefore(t, k)
  /\ \A k \in EventsOf(t, "complete") :
       /\ k = Len(told[t]) /\ EventsOf(t, "error") = {}
       /\ Sent(t) = IF tune.v < 2 THEN {} ELSE tune.slots
       /\ app = "desktop" => Asked(told[t][1].plan) \subseteq Sent(t)
  /\ tune.v > 4 => EventsOf(t, "skeleton") = {}

(* What the last take announced can be pulled, as PCM, whatever an earlier *)
(* take of the root still does.  In the browser an earlier one that reads  *)
(* its skeleton later puts its own state there, and a plain sample with a  *)
(* tag is spoiled.                                                         *)
Overtaken(t) == app = "web" /\ table < t
Pullable(t) ==
  (\A s \in Takes : s > t => take[s].step = "idle") /\ ~Overtaken(t) =>
    /\ EventsOf(t, "skeleton") # {} => table = t /\ skeleton[t] # Unserved
    /\ \A i \in Sent(t) :
         /\ i \in DOMAIN pcm[table]
         /\ pcm[table][i] = "pcm" \/ (app = "web" /\ i \in tune.raw \cap tune.enc)

(* What the fence waits for at a checkpoint the playhead reached is fetched*)
(* before anything it does not.                                            *)
FenceFirst(t) ==
  LET waited == Gate!RequiredAt(PlanGiven, playhead[t]) \cap take[t].left IN
  /\ app = "desktop" /\ take[t].step = "rest" /\ waited # {}
  /\ \E k \in DOMAIN PlanGiven : PlanGiven[k].order = playhead[t]
  => Nearest(t) \subseteq waited

(* ipfs.rs, stream.ts: a stream says only what it has put down, in the     *)
(* order that lets playback open first, and a root is held complete only   *)
(* when a take fetched all of it.                                          *)
StreamSound ==
  /\ \A t \in Takes : InOrder(t) /\ Pullable(t) /\ FenceFirst(t)
  /\ heldRoot = "complete" => \E t \in Takes : take[t].step = "done"
  /\ app = "desktop" /\ (\E t \in Takes : take[t].step = "done") => heldRoot = "complete"
-----------------------------------------------------------------------------
(* The inductive invariant behind StreamSound: at each step of a take, what*)
(* it has told, what it has put down and what it has left to fetch.        *)
StreamEvents == [type : {"skeleton"}, plan : Seq([order : Nat, samples : SUBSET Nat]), samples : Nat]
                  \cup [type : {"sample"}, index : Nat] \cup {Complete, Error}

(* The skeleton was announced, and nothing has ended the story.            *)
Opened(t) ==
  /\ told[t] # <<>> /\ told[t][1] = SkeletonEvent(PlanGiven, Cardinality(tune.slots))
  /\ EventsOf(t, "error") = {} /\ EventsOf(t, "complete") = {}

(* The parts of InOrder that hold at every step, and what is left is unsent. *)
Telling(t) ==
  /\ EventsOf(t, "skeleton") \subseteq {1}
  /\ EventsOf(t, "sample") # {} => 1 \in EventsOf(t, "skeleton")
  /\ \A j, k \in EventsOf(t, "sample") : j # k => told[t][j].index # told[t][k].index
  /\ \A k \in EventsOf(t, "sample") :
       told[t][k].index \notin Opening => Opening \subseteq SentBefore(t, k)

Unsent(t) ==
  /\ Sent(t) \subseteq tune.slots /\ take[t].left \subseteq tune.slots
  /\ Sent(t) \cap take[t].left = {}
  /\ take[t].left # {} =>  \* the opening goes before the rest
       \/ take[t].left \subseteq Opening
       \/ Opening \subseteq Sent(t)

(* Which versions lead where.                                              *)
OnPath(t) ==
  /\ take[t].step \in {"index", "open", "first", "rest", "fetch"} \/ take[t].left # {} => tune.v \in 2..4
  /\ take[t].step = "whole" => tune.v < 2
  /\ EventsOf(t, "skeleton") # {} => tune.v <= 4
  /\ take[t].step = "first" => app = "web"
  /\ take[t].step = "fetch" => app = "desktop"

Standing(t) ==
  /\ take[t].step \in {"idle", "manifest", "index", "whole", "open"} =>
       told[t] = <<>> /\ take[t].left = {}
  /\ take[t].step \in {"first", "rest", "fetch"} => Opened(t)
  /\ take[t].step = "first" => Sent(t) \cup take[t].left = Opening
  /\ take[t].step = "rest" => Opening \subseteq Sent(t) /\ Sent(t) \cup take[t].left = tune.slots
  /\ take[t].step = "fetch" =>
       /\ take[t].slot \in tune.slots /\ take[t].slot \notin Sent(t) \cup take[t].left
       /\ Opening \subseteq Sent(t)
       /\ Sent(t) \cup take[t].left \cup {take[t].slot} = tune.slots
  /\ take[t].step = "failed" =>
       /\ EventsOf(t, "complete") = {}
       /\ take[t].left # {} => 1 \in EventsOf(t, "skeleton")
  /\ take[t].step = "done" =>
       /\ take[t].left = {} /\ EventsOf(t, "error") = {}
       /\ EventsOf(t, "complete") = {Len(told[t])}
       /\ told[t][1] = IF tune.v < 2 THEN SkeletonEvent(<<>>, 0)
                       ELSE SkeletonEvent(PlanGiven, Cardinality(tune.slots))
       /\ Sent(t) = IF tune.v < 2 THEN {} ELSE tune.slots

PutDownAll(t) ==
  /\ \A i \in Sent(t) : i \in DOMAIN pcm[t] /\ pcm[t][i] = Decoded(i)
  /\ DOMAIN pcm[t] \subseteq tune.slots
  /\ EventsOf(t, "skeleton") # {} => skeleton[t] # Unserved

TakeSound(t) == Telling(t) /\ Unsent(t) /\ OnPath(t) /\ Standing(t) /\ PutDownAll(t)

(* Takes begin in their order, and the table names one that has begun: on  *)
(* the desktop the last.                                                   *)
TableSound ==
  /\ \A s, t \in Takes : s < t /\ take[t].step # "idle" => take[s].step # "idle"
  /\ table # 0 => take[table].step # "idle"
  /\ \A t \in Takes : take[t].step # "idle" /\ app = "desktop" => table >= t

HeldSound ==
  /\ heldRoot = "complete" => \E t \in Takes : take[t].step = "done"
  /\ app = "desktop" /\ (\E t \in Takes : take[t].step = "done") => heldRoot = "complete"

StreamInv ==
  /\ StreamTypeOK
  /\ told \in [Takes -> Seq(StreamEvents)] /\ playhead \in [Takes -> 0..(Passed - 1)]
  /\ DOMAIN pcm = Takes /\ DOMAIN skeleton = Takes
  /\ \A t \in Takes : TakeSound(t)
  /\ TableSound /\ HeldSound
=============================================================================
