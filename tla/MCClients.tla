----------------------------- MODULE MCClients -----------------------------
(* The clients of the node, checked in one run like MCNetwork: the tabs of *)
(* a browser, its own playlists and those it pulls from peers, and the     *)
(* catalog, the library and the module stream of either shell.  Machines   *)
(* says which are explored, one at a time.                                 *)
EXTENDS CatalogPages, Library, ModuleStream, BrowserPlaylist, WebPull, MultiTab,
        TLC

CONSTANT Machines

\* CatalogPages, Library: bounds that make each case happen.
MCPagesPlans == {[typed |-> 0, lost |-> 0, others |-> 2, reads |-> 3, pages |-> 1..3],
                 [typed |-> 2, lost |-> 1, others |-> 0, reads |-> 1, pages |-> {1, 2}]}
MCLibraryPlans == {[deliveries |-> 3, expiries |-> 1, changes |-> 2, likes |-> 0],
                   [deliveries |-> 0, expiries |-> 0, changes |-> 0, likes |-> 4]}
\* ModuleStream: a plan with every kind of sample, one that asks for a slot that is not
\* streamed, one without checkpoints, an old root and one from a newer bake.
Cp(o, s) == [order |-> o, samples |-> s]
Tune(v, slots, raw, enc, cps) ==
  [v |-> v, spilled |-> v = 4, slots |-> slots, raw |-> raw, enc |-> enc, plan |-> cps]
MCTunes ==
  {Tune(4, {1, 2, 3, 4}, {2, 4}, {2, 3},
        <<Cp(0, {1}), Cp(1, {2}), Cp(3, {3}), Cp(4, {1, 3})>>),
   Tune(2, {1, 2}, {}, {}, <<Cp(0, {9}), Cp(2, {1, 9})>>),
   Tune(3, {1, 2}, {1}, {}, <<>>), Tune(1, {}, {}, {}, <<>>), Tune(5, {1}, {}, {}, <<>>)}
MCRetired == {<<"a", 2>>}
MCBad == {<<"b", 3>>}

\* BrowserPlaylist: not every bound is at its largest at once.
Own(tasks, commands, wakes, faults, losses) ==
  [tasks |-> tasks, commands |-> commands, wakes |-> wakes, faults |-> faults, losses |-> losses]
MCOwnBounds == {Own(1, 4, 1, 1, 0), Own(1, 3, 1, 1, 1), Own(1, 5, 0, 1, 0), Own(2, 3, 1, 0, 0),
                Own(1, 3, 2, 0, 1)}
\* WebPull: meetings, edits, windows, faults, beacons and ticks.
Meet(meets, edits, windows, faults, beacons, ticks) ==
  [meets |-> meets, edits |-> edits, windows |-> windows, faults |-> faults,
   beacons |-> beacons, ticks |-> ticks]
MCPullBounds == {Meet(2, 1, 0, 0, 0, 0), Meet(1, 1, 0, 1, 0, 0), Meet(2, 0, 1, 1, 0, 0),
                 Meet(3, 0, 1, 0, 0, 0), Meet(0, 0, 0, 0, 4, 4)}

VARIABLE machine
clientVars == <<machine, pagesVars, libVars, streamVars, ownVars, pullVars, tabVars>>

Some(S) == CHOOSE x \in S : TRUE
PagesIdle == PagesInit /\ shell = Some(Shells) /\ budget = Some(PagesPlans)
StreamIdle == StreamInit /\ app = Some(StreamShells) /\ tune = Some(Tunes)
LibIdle == LibInit /\ client = Some(Clients) /\ plan = Some(LibraryPlans)
OwnIdle == OwnInit /\ ownLeft = Some(OwnBounds)
PullIdle ==
  PullInit /\ pullLeft = Some(PullBounds) /\ offered = [f \in Friends |-> {}]

Init ==
  /\ machine \in Machines
  /\ IF machine = "pages" THEN PagesInit ELSE PagesIdle
  /\ IF machine = "library" THEN LibInit ELSE LibIdle
  /\ IF machine = "stream" THEN StreamInit ELSE StreamIdle
  /\ IF machine = "playlist" THEN OwnInit ELSE OwnIdle
  /\ IF machine = "pull" THEN PullInit ELSE PullIdle
  /\ TabsInit

(* A step of one machine leaves the others as they are.                    *)
Alone(m) ==
  /\ UNCHANGED machine
  /\ m # "pages" => UNCHANGED pagesVars
  /\ m # "library" => UNCHANGED libVars
  /\ m # "stream" => UNCHANGED streamVars
  /\ m # "playlist" => UNCHANGED ownVars
  /\ m # "pull" => UNCHANGED pullVars
  /\ m # "tabs" => UNCHANGED tabVars

Next ==
  \/ machine = "pages" /\ PagesNext /\ Alone("pages")
  \/ machine = "library" /\ LibNext /\ Alone("library")
  \/ machine = "stream" /\ StreamNext /\ Alone("stream")
  \/ machine = "playlist" /\ OwnNext /\ Alone("playlist")
  \/ machine = "pull" /\ PullNext /\ Alone("pull")
  \/ machine = "tabs" /\ TabsNext /\ Alone("tabs")

Fairness ==
  /\ WF_pagesVars(machine = "pages" /\ PagesWork)
  /\ WF_ownVars(machine = "playlist" /\ \E j \in Jobs : Announce(j))
  /\ WF_ownVars(machine = "playlist" /\ WindowPasses)
  /\ \A j \in Jobs : WF_ownVars(machine = "playlist" /\ OwnStep(j))
  /\ TabsFairness

Spec == Init /\ [][Next]_clientVars /\ Fairness
=============================================================================
