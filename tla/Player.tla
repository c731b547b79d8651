------------------------------- MODULE Player -------------------------------
(***************************************************************************)
(* Playback: the queue and the streaming flow on the main thread, the      *)
(* audio worklet with its one module instance, and the two message ports   *)
(* between them.                                                           *)
(*                                                                         *)
(*   src/packages/ui/src/player.svelte.ts          queue, playModule       *)
(*   src/packages/ui/src/audio/ModPlayer.svelte.ts main thread's side      *)
(*   src/packages/ui/src/audio/player.worklet.ts   audio thread            *)
(*                                                                         *)
(* A call of playModule is a play, numbered by playEpoch.  It awaits the   *)
(* audio graph, then handles the events of its stream, each in a task of   *)
(* its own with awaits in the middle, while newer plays may start.  Every  *)
(* play that finds no audio graph builds one; graph g is the one built by  *)
(* play g.  The position is measured in orders.                            *)
(*                                                                         *)
(* Left out: positions and their prefetch hint, volume, interpolation and  *)
(* subsongs, the persisted queue and its refresh, percentages, media keys. *)
(***************************************************************************)
EXTENDS Integers, Sequences, FiniteSets, SequencesExt, Fence

CONSTANTS
  Tracks,
  NoTrack,
  Plan,        \* Plan[t]: the checkpoint table of track t
  LastOrder,   \* LastOrder[t]: the song's orders are 0..LastOrder[t]
  Slots,       \* Slots[t]: the sample slots of t
  Unloadable,  \* tracks whose skeleton libopenmpt refuses
  SavedQueue,  \* the queue the last session left
  MaxPlays,    \* bound: calls of playModule
  MaxEvents    \* bound: other user actions, plays, streams and fetches that fail

ASSUME TrackAssumption ==
  /\ NoTrack \notin Tracks /\ Unloadable \subseteq Tracks
  /\ LastOrder \in [Tracks -> Nat]
  /\ Slots \in [Tracks -> SUBSET (Nat \ {0})]
  /\ SavedQueue \in Seq(Tracks)
\* The bake walks the order list once: orders are distinct, ascending and in
\* the song.
ASSUME PlanAssumption ==
  /\ Plan \in [Tracks -> Seq([order : Nat, samples : SUBSET Nat])]
  /\ \A t \in Tracks : \A j, k \in DOMAIN Plan[t] :
       /\ Plan[t][k].order <= LastOrder[t]
       /\ j < k => Plan[t][j].order < Plan[t][k].order
ASSUME BoundAssumption == {MaxPlays, MaxEvents} \subseteq Nat

VARIABLES
  queue,       \* queue.items
  index,       \* queue.index, 0 when nothing is chosen
  now,         \* nowPlaying: track, streaming, buffering, error
  mirror,      \* samples in bufferFence, the main thread's copy of the fence
  epoch,       \* playEpoch
  play,        \* play[e]: the state of the e-th call of playModule
  graph,       \* the graph ModPlayer.node belongs to, 0 before init
  playing,     \* ModPlayer.playing
  info,        \* has ModPlayer.info arrived?
  toWorklet,   \* toWorklet[g]: messages main -> worklet of graph g
  fromWorklet, \* and back
  worklet,     \* worklet[g]: the audio thread's state
  missed,      \* history: samples that sounded before they were resident
  detached,    \* history: was the current item removed from the queue?
  rough,       \* history: the accidents described at Accident
  events       \* counter against MaxEvents

ui   == <<queue, index, detached>>
main == <<now, mirror, epoch, play, graph, playing, info>>
vars == <<ui, main, toWorklet, fromWorklet, worklet, missed, rough, events>>

-----------------------------------------------------------------------------
Plays == 1..MaxPlays

\* at: how far playModule and its stream have come (init, stream, complete,
\* over, and failed: no graph); skel: its skeleton handler; given: the samples
\* whose handlers are done.
NoPlay == [track |-> NoTrack, at |-> "none", builds |-> FALSE,
           skel |-> "none", given |-> {}]

\* inst: the play whose skeleton made the instance, 0 for none; pcm: what was
\* patched in, <<slot, play it was streamed for>>; pend, pendInit: messages
\* kept until there is an instance or a libopenmpt.
NoWorklet == [lib |-> FALSE, inst |-> 0, playing |-> FALSE, order |-> 0,
              pcm |-> {}, stalled |-> FALSE, wasBuffering |-> FALSE,
              reported |-> FALSE, pendInit |-> 0, pend |-> {}]

Msg(kind, e, x) == [t |-> kind, e |-> e, x |-> x]

Resident(w) == {p[1] : p \in w.pcm}

Send(msgs) == toWorklet' = [toWorklet EXCEPT ![graph] = @ \o msgs]

\* A click, or a fault.
Event == events < MaxEvents /\ events' = events + 1

-----------------------------------------------------------------------------
(***************************************************************************)
(* Main thread: the queue                                                  *)
(***************************************************************************)

Init ==
  /\ queue = SavedQueue /\ index = 0 /\ detached = FALSE
  /\ now = [track |-> NoTrack, streaming |-> FALSE, buffering |-> FALSE, error |-> FALSE]
  /\ mirror = {}
  /\ epoch = 0
  /\ play = [e \in Plays |-> NoPlay]
  /\ graph = 0
  /\ playing = FALSE /\ info = FALSE
  /\ toWorklet = [g \in Plays |-> <<>>]
  /\ fromWorklet = [g \in Plays |-> <<>>]
  /\ worklet = [g \in Plays |-> NoWorklet]
  /\ missed = {}
  /\ rough = FALSE
  /\ events = 0

\* playList(queue.items, i): playModule up to its first await, which is the
\* end of init if the graph exists already.
PlayList(items, i) ==
  /\ epoch < MaxPlays
  /\ epoch' = epoch + 1
  /\ index' = i
  /\ detached' = FALSE
  /\ now' = [track |-> items[i], streaming |-> TRUE, buffering |-> TRUE, error |-> FALSE]
  /\ mirror' = {}
  /\ play' = [play EXCEPT ![epoch + 1] =
                [NoPlay EXCEPT !.track = items[i], !.at = "init", !.builds = graph = 0]]

Settled == <<graph, playing, info, toWorklet, fromWorklet, worklet, missed, rough>>

\* A click on a queue item, next or previous.
PlayAt(i) ==
  /\ i \in DOMAIN queue
  /\ PlayList(queue, i)
  /\ UNCHANGED <<queue, events, Settled>>

\* A track is played from anywhere else: it replaces the queue.
PlayTrack(t) ==
  /\ PlayList(<<t>>, 1)
  /\ queue' = <<t>>
  /\ UNCHANGED <<events, Settled>>

\* clearQueue: what plays goes on.
ClearQueue ==
  /\ Event
  /\ queue' = <<>> /\ index' = 0
  /\ UNCHANGED <<detached, main, toWorklet, fromWorklet, worklet, missed, rough>>

\* The index is only corrected when it was behind the removed item.
RemoveFromQueueForgetful(i) ==
  /\ Event
  /\ i \in DOMAIN queue
  /\ queue' = RemoveAt(queue, i)
  /\ index' = IF i = index /\ index > Len(queue) - 1 THEN index - 1 ELSE index
  /\ detached' = (detached \/ i = index)
  /\ UNCHANGED <<main, toWorklet, fromWorklet, worklet, missed, rough>>

\* removeFromQueue: removing the current item leaves the index on the next.
RemoveFromQueue(i) ==
  /\ Event
  /\ i \in DOMAIN queue
  /\ queue' = RemoveAt(queue, i)
  /\ index' = IF i < index \/ (i = index /\ index > Len(queue) - 1)
              THEN index - 1 ELSE index
  /\ detached' = (detached \/ i = index)
  /\ UNCHANGED <<main, toWorklet, fromWorklet, worklet, missed, rough>>

\* moveInQueue(i, 1); moving i up is moving its neighbour down.
MoveInQueue(i) ==
  /\ Event
  /\ i \in DOMAIN queue /\ i + 1 \in DOMAIN queue
  /\ queue' = [queue EXCEPT ![i] = queue[i + 1], ![i + 1] = queue[i]]
  /\ index' = IF index = i THEN i + 1 ELSE IF index = i + 1 THEN i ELSE index
  /\ UNCHANGED <<detached, main, toWorklet, fromWorklet, worklet, missed, rough>>

\* enqueue with an item chosen: behind it, or at the end.
Enqueue(t) ==
  /\ Event
  /\ index # 0
  /\ queue' \in {InsertAt(queue, index + 1, t), Append(queue, t)}
  /\ UNCHANGED <<index, detached, main, toWorklet, fromWorklet, worklet, missed, rough>>

\* enqueue with none chosen starts the first item of the queue.
EnqueueFirst(t) ==
  /\ Event
  /\ index = 0
  /\ queue' = Append(queue, t)
  /\ PlayList(queue', 1)
  /\ UNCHANGED Settled

\* The button of the bar, enabled once the instance reported in; resume of a
\* context that runs resolves at once.
Toggle ==
  /\ Event
  /\ info
  /\ playing' = ~playing
  /\ Send(<<Msg(IF playing THEN "pause" ELSE "play", 0, 0)>>)
  /\ UNCHANGED <<ui, now, mirror, epoch, play, graph, info, fromWorklet,
                 worklet, missed, rough>>

\* seekSeconds
Seek(o) ==
  /\ Event
  /\ info
  /\ o \in 0..LastOrder[now.track]
  /\ Send(<<Msg("seek", 0, o)>>)
  /\ UNCHANGED <<ui, main, fromWorklet, worklet, missed, rough>>

-----------------------------------------------------------------------------
(***************************************************************************)
(* Main thread: playModule                                                 *)
(***************************************************************************)

\* The play moves to a new state; the rest of the main thread is listed by
\* the action.
Moves(e, p) == play' = [play EXCEPT ![e] = p]

NoAudio == <<ui, fromWorklet, worklet, missed>>

\* init and ensureConnected are done.  A graph that was built takes over as
\* ModPlayer.node, also from one that another play built meanwhile.
Connected(e) ==
  /\ play[e].at = "init"
  /\ Moves(e, [play[e] EXCEPT !.at = "stream"])
  /\ graph' = IF play[e].builds THEN e ELSE graph
  /\ rough' = (rough \/ (play[e].builds /\ graph # 0))
  /\ play[e].builds \/ graph # 0
  /\ UNCHANGED <<NoAudio, events, now, mirror, epoch, playing, info, toWorklet>>

\* init rejects, or startStream does, before the skeleton or in the middle; the
\* catch does not look at the epoch.
PlayRejects(e) ==
  /\ Event
  /\ \/ play[e].at = "init" /\ play[e].builds /\ Moves(e, [play[e] EXCEPT !.at = "failed"])
     \/ play[e].at = "stream" /\ Moves(e, [play[e] EXCEPT !.at = "over"])
  /\ now' = [now EXCEPT !.streaming = FALSE, !.buffering = FALSE, !.error = TRUE]
  /\ UNCHANGED <<NoAudio, mirror, epoch, graph, playing, info, toWorklet, rough>>

\* The skeleton event up to the await of getSkeleton.
SkeletonEvent(e) ==
  /\ e = epoch
  /\ play[e].at = "stream" /\ play[e].skel = "none"
  /\ Moves(e, [play[e] EXCEPT !.skel = "fetching"])
  /\ mirror' = {}
  /\ UNCHANGED <<NoAudio, events, now, epoch, graph, playing, info, toWorklet, rough>>

\* getSkeleton resolves: loadStream, then play up to its await of resume.
LoadStream(e) ==
  /\ e = epoch
  /\ play[e].skel = "fetching"
  /\ Moves(e, [play[e] EXCEPT !.skel = "resuming"])
  /\ playing' = FALSE /\ info' = FALSE
  /\ Send(<<Msg("init", e, 0)>>)
  /\ UNCHANGED <<NoAudio, events, now, mirror, epoch, graph, rough>>

\* The samples are let through without starting playback.
ResumedSilently(e) ==
  /\ play[e].skel = "resuming"
  /\ Moves(e, [play[e] EXCEPT !.skel = "inited"])
  /\ playing' = TRUE
  /\ UNCHANGED <<NoAudio, events, now, mirror, epoch, graph, info, toWorklet, rough>>

\* resume resolves: play is posted whoever is current, and the samples that
\* awaited inited may go.
Resumed(e) ==
  /\ play[e].skel = "resuming"
  /\ Moves(e, [play[e] EXCEPT !.skel = "inited"])
  /\ playing' = TRUE
  /\ Send(<<Msg("play", 0, 0)>>)
  /\ UNCHANGED <<NoAudio, events, now, mirror, epoch, graph, info, rough>>

\* A sample that was fetched and awaited inited is provided whoever is
\* current.
SampleGivenStale(e, s) ==
  /\ play[e].skel = "inited" /\ s \notin play[e].given
  /\ s \in Slots[play[e].track]
  /\ Moves(e, [play[e] EXCEPT !.given = @ \cup {s}])
  /\ Send(<<Msg("provide", e, s)>>)
  /\ mirror' = mirror \cup {s}
  /\ UNCHANGED <<NoAudio, events, now, epoch, graph, playing, info, rough>>

\* A sample of the current play was fetched and awaited inited.
SampleGiven(e, s) ==
  /\ e = epoch
  /\ play[e].skel = "inited" /\ s \notin play[e].given
  /\ s \in Slots[play[e].track]
  /\ Moves(e, [play[e] EXCEPT !.given = @ \cup {s}])
  /\ Send(<<Msg("provide", e, s)>>)
  /\ mirror' = mirror \cup {s}
  /\ UNCHANGED <<NoAudio, events, now, epoch, graph, playing, info, rough>>

\* getSkeleton or getSample rejects; the other handlers go on.
HandlerFails(e) ==
  /\ Event
  /\ e = epoch
  /\ \/ /\ play[e].skel = "fetching"
        /\ Moves(e, [play[e] EXCEPT !.skel = "failed"])
     \/ /\ play[e].skel # "none"
        /\ \E s \in Slots[play[e].track] \ play[e].given :
             Moves(e, [play[e] EXCEPT !.given = @ \cup {s}])
  /\ now' = [now EXCEPT !.error = TRUE]
  /\ UNCHANGED <<NoAudio, mirror, epoch, graph, playing, info, toWorklet, rough>>

\* A stream that ends is done with whoever is current.
StreamEndsStale(e) ==
  /\ play[e].at = "stream"
  /\ \/ /\ play[e].skel # "none"
        /\ Moves(e, [play[e] EXCEPT !.at = "complete"])
        /\ now' = [now EXCEPT !.streaming = FALSE]
        /\ UNCHANGED events
     \/ /\ Event
        /\ Moves(e, [play[e] EXCEPT !.at = "over"])
        /\ now' = [now EXCEPT !.error = TRUE]
  /\ UNCHANGED <<NoAudio, mirror, epoch, graph, playing, info, toWorklet, rough>>

\* complete or error, possibly before the handlers of earlier events resume;
\* an error leaves the stream marked as running.
StreamEnds(e) ==
  /\ e = epoch
  /\ play[e].at = "stream"
  /\ \/ /\ play[e].skel # "none"
        /\ Moves(e, [play[e] EXCEPT !.at = "complete"])
        /\ now' = [now EXCEPT !.streaming = FALSE]
        /\ UNCHANGED events
     \/ /\ Event
        /\ Moves(e, [play[e] EXCEPT !.at = "over"])
        /\ now' = [now EXCEPT !.error = TRUE]
  /\ UNCHANGED <<NoAudio, mirror, epoch, graph, playing, info, toWorklet, rough>>

\* ModPlayer.onMessage; a track that ended starts the next in the queue.
Hear(g) ==
  /\ fromWorklet[g] # <<>>
  /\ fromWorklet' = [fromWorklet EXCEPT ![g] = Tail(@)]
  /\ LET m == Head(fromWorklet[g])
         advance == m.t = "ended" /\ index # 0 /\ index < Len(queue)
     IN /\ info' = (info \/ m.t = "loaded")
        /\ playing' = (playing /\ m.t # "ended")
        /\ IF advance
           THEN PlayList(queue, index + 1)
           ELSE /\ now' = IF m.t = "buffering" THEN [now EXCEPT !.buffering = m.x = 1]
                                               ELSE now
                /\ UNCHANGED <<index, detached, mirror, epoch, play>>
  /\ UNCHANGED <<queue, graph, toWorklet, worklet, missed, rough, events>>

-----------------------------------------------------------------------------
(***************************************************************************)
(* Audio thread                                                            *)
(***************************************************************************)
PlanOf(e) == Plan[play[e].track]

\* applyProvide: libopenmpt refuses a slot the instance does not have.
Applied(w, e, pend) ==
  w.pcm \cup {p \in pend : p[1] \in Slots[play[e].track]}

\* The explicit clear is considered sent already.
DoInitQuiet(w, e) ==
  IF play[e].track \in Unloadable
  THEN [w EXCEPT !.inst = 0, !.playing = FALSE, !.wasBuffering = FALSE,
                 !.reported = TRUE, !.pendInit = 0]
  ELSE [w EXCEPT !.inst = e, !.playing = FALSE, !.wasBuffering = FALSE,
                 !.reported = TRUE, !.pendInit = 0, !.order = 0,
                 !.stalled = FALSE, !.pend = {},
                 !.pcm = {p \in w.pend : p[1] \in Slots[play[e].track]}]

\* doInit: the old instance goes, the new one starts zeroed and takes the
\* samples that were kept, whichever play they came from.
DoInit(w, e) ==
  IF play[e].track \in Unloadable
  THEN [w EXCEPT !.inst = 0, !.playing = FALSE, !.wasBuffering = FALSE,
                 !.reported = FALSE, !.pendInit = 0]
  ELSE [w EXCEPT !.inst = e, !.playing = FALSE, !.wasBuffering = FALSE,
                 !.reported = FALSE, !.pendInit = 0, !.order = 0,
                 !.stalled = FALSE, !.pend = {},
                 !.pcm = {p \in w.pend : p[1] \in Slots[play[e].track]}]

\* What doInit posts to the main thread; its error text changes nothing there.
InitReport(e) == IF play[e].track \in Unloadable THEN <<>> ELSE <<Msg("loaded", e, 0)>>

Tell(g, msgs) == fromWorklet' = [fromWorklet EXCEPT ![g] = @ \o msgs]

NoMain == <<ui, main, events>>

\* libopenmpt is instantiated; an init that came before it is done now.
LibLoaded(g) ==
  /\ play[g].builds /\ play[g].at \notin {"init", "failed"}
  /\ ~worklet[g].lib
  /\ LET w == [worklet[g] EXCEPT !.lib = TRUE]
     IN IF w.pendInit = 0
        THEN /\ worklet' = [worklet EXCEPT ![g] = w]
             /\ UNCHANGED fromWorklet
        ELSE /\ worklet' = [worklet EXCEPT ![g] = DoInit(w, w.pendInit)]
             /\ Tell(g, InitReport(w.pendInit))
  /\ UNCHANGED <<NoMain, toWorklet, missed, rough>>

\* Accident: a message that comes before libopenmpt, or a skeleton that does
\* not load.  The third kind is a second graph taking over, in Connected.
Accident(w, m) ==
  ~w.lib \/ (m.t = "init" /\ play[m.e].track \in Unloadable)

\* The state of the worklet once it has handled m.
Handled(w, m) ==
  CASE m.t = "init"    -> IF w.lib THEN DoInit(w, m.e) ELSE [w EXCEPT !.pendInit = m.e]
    [] m.t = "provide" -> IF w.inst = 0
                          THEN [w EXCEPT !.pend = @ \cup {<<m.x, m.e>>}]
                          ELSE [w EXCEPT !.pcm = Applied(w, w.inst, {<<m.x, m.e>>})]
    [] m.t = "play"    -> [w EXCEPT !.playing = w.inst # 0]
    [] m.t = "pause"   -> [w EXCEPT !.playing = FALSE]
    [] m.t = "seek"    -> IF w.inst = 0 THEN w ELSE [w EXCEPT !.order = m.x]

\* onMessage, between two quanta.
WorkletHears(g) ==
  /\ toWorklet[g] # <<>>
  /\ toWorklet' = [toWorklet EXCEPT ![g] = Tail(@)]
  /\ LET m == Head(toWorklet[g])
         w == worklet[g]
     IN /\ worklet' = [worklet EXCEPT ![g] = Handled(w, m)]
        /\ rough' = (rough \/ Accident(w, m))
        /\ IF m.t = "init" /\ w.lib THEN Tell(g, InitReport(m.e)) ELSE UNCHANGED fromWorklet
  /\ UNCHANGED <<NoMain, missed>>

Rendering(w) == w.lib /\ w.inst # 0 /\ w.playing

\* process: the fence holds this quantum.
Hold(g) ==
  LET w == worklet[g]
  IN /\ Rendering(w)
     /\ ~Ready(PlanOf(w.inst), Resident(w), w.stalled, w.order)
     /\ worklet' = [worklet EXCEPT ![g] =
          [w EXCEPT !.stalled = TRUE, !.wasBuffering = TRUE,
                    !.reported = w.reported \/ ~w.wasBuffering]]
     /\ IF w.wasBuffering THEN UNCHANGED fromWorklet
        ELSE Tell(g, <<Msg("buffering", w.inst, 1)>>)
     /\ UNCHANGED <<NoMain, toWorklet, missed, rough>>

\* process: the quantum renders, and may cross into the next order; behind
\* the last one the song ends.
Render(g) ==
  LET w == worklet[g]
      cps == PlanOf(w.inst)
      last == LastOrder[play[w.inst].track]
      clear == IF w.wasBuffering \/ ~w.reported
               THEN <<Msg("buffering", w.inst, 0)>> ELSE <<>>
      past == [w EXCEPT !.wasBuffering = FALSE, !.reported = TRUE,
                        !.stalled = StalledAfter(cps, Resident(w), w.stalled, w.order)]
  IN /\ Rendering(w)
     /\ Ready(cps, Resident(w), w.stalled, w.order)
     /\ \/ \E o \in {w.order, w.order + 1} :
             /\ o <= last
             /\ worklet' = [worklet EXCEPT ![g] = [past EXCEPT !.order = o]]
             /\ missed' = missed \cup
                  ((Audible(cps, w.order) \cup Audible(cps, o)) \ Resident(w))
             /\ Tell(g, clear)
        \/ /\ w.order >= last
           /\ worklet' = [worklet EXCEPT ![g] = [past EXCEPT !.playing = FALSE]]
           /\ Tell(g, clear \o <<Msg("ended", w.inst, 0)>>)
           /\ UNCHANGED missed
     /\ UNCHANGED <<NoMain, toWorklet, rough>>

-----------------------------------------------------------------------------
User ==
  \/ \E i \in DOMAIN queue : PlayAt(i) \/ RemoveFromQueue(i) \/ MoveInQueue(i)
  \/ \E t \in Tracks : PlayTrack(t) \/ Enqueue(t) \/ EnqueueFirst(t)
  \/ ClearQueue
  \/ Toggle
  \/ \E t \in Tracks : \E o \in 0..LastOrder[t] : Seek(o)

Next ==
  \/ User
  \/ \E e \in Plays :
       \/ Connected(e) \/ PlayRejects(e) \/ SkeletonEvent(e) \/ LoadStream(e)
       \/ Resumed(e) \/ HandlerFails(e) \/ StreamEnds(e)
       \/ \E s \in UNION {Slots[t] : t \in Tracks} : SampleGiven(e, s)
  \/ \E g \in Plays :
       Hear(g) \/ LibLoaded(g) \/ WorkletHears(g) \/ Hold(g) \/ Render(g)

Spec == Init /\ [][Next]_vars

-----------------------------------------------------------------------------
(***************************************************************************)
(* Properties                                                              *)
(***************************************************************************)

Heard(g) == toWorklet[g] = <<>> /\ fromWorklet[g] = <<>>

\* No sample sounds before it is resident, whatever is provided late, seeked
\* over or crossed into within a quantum (Fence, process).
NothingMissed == missed = {}

\* The instance only holds samples that were streamed for it: none of a
\* superseded track (playEpoch, applyProvide), unless a message met a worklet
\* without libopenmpt, a skeleton did not load, or two graphs were built.
SamplesBelong ==
  ~rough => \A g \in Plays : \A p \in worklet[g].pcm : p[2] = worklet[g].inst

\* The same without the exceptions: "a stale provide would patch samples into
\* the WRONG instance", which the token is there to prevent.
SamplesNeverCross ==
  \A g \in Plays : \A p \in worklet[g].pcm : p[2] = worklet[g].inst

\* Once the ports are empty, a player that shows playing does play; with the
\* same exceptions (loadStream, play, onMessage).
PlayReaches ==
  (~rough /\ graph # 0 /\ Heard(graph) /\ playing) => worklet[graph].playing

\* A stream is shown as done only if the current one is, or as failed
\* (playModule's token).
StreamingHonest ==
  (epoch # 0 /\ ~now.streaming /\ ~now.error) => play[epoch].at = "complete"

\* The index names what plays through every edit of the queue and every
\* advance, unless the playing item itself was removed (removeFromQueue).
IndexFollows ==
  (index # 0 /\ ~detached) => index <= Len(queue) /\ queue[index] = now.track

\* The buffered bar ends exactly where the fence would first stall
\* (playableSeconds against ready).
BarIsFirstStall ==
  now.track # NoTrack =>
    LET cps == Plan[now.track]
        length == LastOrder[now.track] + 1
        stalls == {o \in 0..LastOrder[now.track] : ~Ready(cps, mirror, FALSE, o)}
        bar == Playable(cps, mirror, length)
    IN IF stalls = {} THEN bar = length
       ELSE bar \in stalls /\ \A o \in stalls : bar <= o

\* The graphs there are.
Built == {g \in Plays : play[g].builds /\ play[g].at \notin {"init", "failed"}}

\* Once the ports are empty, the buffering indicator of a play without errors
\* says what the fence does, from the instance's first report on, unless a
\* second graph was built: the first one is still heard (process,
\* bufferingReported, onBuffering).
BufferingHonest ==
  \A g \in Plays :
    (Built = {g} /\ Heard(g) /\ worklet[g].inst = epoch /\ worklet[g].reported
     /\ epoch # 0 /\ ~now.error)
    => now.buffering = worklet[g].wasBuffering
=============================================================================
