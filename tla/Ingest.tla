------------------------------- MODULE Ingest -------------------------------
(***************************************************************************)
(* apps/server: the bake of a corpus into the catalog (ingest.ts, with     *)
(* bake-pool.ts, bake-worker.ts, catalog.ts and the calls of kubo.ts).     *)
(* The database, the node's pins and the published record survive a crash  *)
(* of the process; its queues and the module in hand do not.               *)
(*                                                                         *)
(* A module's root is its file and the version of the bake, so two sources *)
(* with the same file share a root.  Files does not change.                *)
(***************************************************************************)
EXTENDS Integers, FiniteSets

CONSTANTS Sources, FileOf,   \* corpus entries, and the file each of them holds
          Unreadable,        \* files libopenmpt cannot load: no metadata
          Versions,          \* bake versions (BAKE_V4)
          Workers, Slots,    \* BAKE_WORKERS, and the modules in flight (workers + 2)
          NoRoot, NoSource,
          MaxRuns, MaxCrashes  \* bounds: runs, and crashes of a worker or the process

Roots == {FileOf[s] : s \in Sources} \X Versions
Root(s, v) == <<FileOf[s], v>>

ASSUME IngestAssumption ==
  /\ NoRoot \notin Roots /\ NoSource \notin Sources
  /\ Slots \in Nat /\ MaxRuns \in Nat /\ MaxCrashes \in Nat

Modes == {"off", "add", "rebuild", "pool", "fts", "label", "publish"}

VARIABLES
  rows, searchable, total, \* modules.root_cid, rows in the FTS tables, meta.total
  pins,                    \* module roots pinned on the master
  files,                   \* catalog files added and pinned there
  published,               \* what the catalog's IPNS record names
  mode, version, todo,     \* the run: what it does, its bake, the corpus still to walk
  job,                     \* the module whose I/O is under way
  pending, busy, waiting,  \* the pool: queued, at a worker, baked and waiting for the I/O
  snapshot,                \* the copy being published
  torn,                    \* history: rows a crash left out of the FTS tables
  runs, crashes

durable == <<rows, searchable, total, pins, files, published>>
queues == <<pending, busy, waiting>>
ingestVars == <<durable, mode, version, todo, job, queues, snapshot, torn, runs, crashes>>

NoJob == [source |-> NoSource, old |-> NoRoot, root |-> NoRoot, step |-> "none"]
NoCatalog == [rows |-> [s \in Sources |-> NoRoot], searchable |-> {}, total |-> 0]
Cataloged == {s \in Sources : rows[s] # NoRoot}
InFlight == pending \cup {busy[w] : w \in {w \in Workers : busy[w] # NoSource}}
              \cup waiting \cup ({job.source} \ {NoSource})

IngestInit ==
  /\ rows = [s \in Sources |-> NoRoot] /\ searchable = {} /\ total = 0
  /\ pins = {} /\ files = {} /\ published = NoCatalog
  /\ mode = "off" /\ version \in Versions /\ todo = {} /\ job = NoJob
  /\ pending = {} /\ busy = [w \in Workers |-> NoSource] /\ waiting = {}
  /\ snapshot = NoCatalog /\ torn = {} /\ runs = 0 /\ crashes = 0

-----------------------------------------------------------------------------
(* runIngest: one run, by its mode.                                        *)

StartRun(m, v) ==
  /\ mode = "off" /\ runs < MaxRuns
  /\ mode' = m /\ version' = v /\ runs' = runs + 1
  /\ todo' = IF m \in {"add", "rebuild", "pool"} THEN Sources ELSE {}
  /\ UNCHANGED <<durable, job, queues, snapshot, torn, crashes>>

\* forEachModule hands over the entries one after the other, in one order.
InTurn(s) == todo # {} /\ s = CHOOSE t \in todo : TRUE

\* What is up to date is skipped.
Take(s) ==
  /\ mode \in {"add", "rebuild"} /\ job = NoJob /\ InTurn(s)
  /\ todo' = todo \ {s}
  /\ job' = IF rows[s] # NoRoot /\ (mode = "add" \/ rows[s] = Root(s, version)) THEN NoJob
            ELSE [source |-> s, old |-> rows[s], root |-> Root(s, version), step |-> "load"]
  /\ UNCHANGED <<durable, mode, version, queues, snapshot, torn, runs, crashes>>

\* The pool: only what is cataloged is rebuilt, and a semaphore bounds what is in flight.
Submit(s) ==
  /\ mode = "pool" /\ InTurn(s)
  /\ rows[s] = NoRoot \/ Cardinality(InFlight) < Slots
  /\ todo' = todo \ {s}
  /\ pending' = IF rows[s] = NoRoot THEN pending ELSE pending \cup {s}
  /\ UNCHANGED <<durable, mode, version, job, busy, waiting, snapshot, torn, runs, crashes>>

Pump(w, s) ==
  /\ busy[w] = NoSource /\ s \in pending
  /\ busy' = [busy EXCEPT ![w] = s] /\ pending' = pending \ {s}
  /\ UNCHANGED <<durable, mode, version, todo, job, waiting, snapshot, torn, runs, crashes>>

WorkerDone(w) ==
  /\ busy[w] # NoSource
  /\ busy' = [busy EXCEPT ![w] = NoSource] /\ waiting' = waiting \cup {busy[w]}
  /\ UNCHANGED <<durable, mode, version, todo, job, pending, snapshot, torn, runs, crashes>>

\* A crashed worker settles its module as failed, and another takes its place.
WorkerCrash(w) ==
  /\ busy[w] # NoSource /\ crashes < MaxCrashes
  /\ busy' = [busy EXCEPT ![w] = NoSource] /\ crashes' = crashes + 1
  /\ UNCHANGED <<durable, mode, version, todo, job, pending, waiting, snapshot, torn, runs>>

\* The early return for an unchanged root keeps the mutex.
ApplyRebuildKeepsMutex(s) ==
  /\ s \in waiting /\ job = NoJob
  /\ waiting' = waiting \ {s}
  /\ job' = [source |-> s, old |-> rows[s], root |-> Root(s, version),
              step |-> IF rows[s] = Root(s, version) THEN "none" ELSE "load"]
  /\ UNCHANGED <<durable, mode, version, todo, pending, busy, snapshot, torn, runs, crashes>>

\* applyRebuild holds the mutex; an unchanged root is dropped.
ApplyRebuild(s) ==
  /\ s \in waiting /\ job = NoJob
  /\ waiting' = waiting \ {s}
  /\ job' = IF rows[s] = Root(s, version) THEN NoJob
            ELSE [source |-> s, old |-> rows[s], root |-> Root(s, version), step |-> "load"]
  /\ UNCHANGED <<durable, mode, version, todo, pending, busy, snapshot, torn, runs, crashes>>

-----------------------------------------------------------------------------
(* One module's I/O.                                                       *)

\* loadDagToKubo: put the blocks, pin the root.
LoadDag ==
  /\ job.step = "load"
  /\ pins' = pins \cup {job.root}
  /\ job' = [job EXCEPT !.step = IF job.old = NoRoot THEN "insert" ELSE "update"]
  /\ UNCHANGED <<rows, searchable, total, files, published, mode, version, todo, queues, snapshot, torn, runs, crashes>>

\* It throws, or a block came back under another CID after the root was pinned.
LoadFails ==
  /\ job.step = "load"
  /\ pins' \in {pins, pins \cup {job.root}}
  /\ job' = NoJob
  /\ UNCHANGED <<rows, searchable, total, files, published, mode, version, todo, queues, snapshot, torn, runs, crashes>>

\* The row keeps the old root.
UpdateRootForgotten ==
  /\ job.step = "update"
  /\ job' = [job EXCEPT !.step = "unpin"]
  /\ UNCHANGED <<durable, mode, version, todo, queues, snapshot, torn, runs, crashes>>

UpdateRoot ==
  /\ job.step = "update"
  /\ rows' = [rows EXCEPT ![job.source] = job.root]
  /\ job' = [job EXCEPT !.step = "unpin"]
  /\ UNCHANGED <<searchable, total, pins, files, published, mode, version, todo, queues, snapshot, torn, runs, crashes>>

\* The superseded root is unpinned; a failure leaves an orphan pin.
PinRm ==
  /\ job.step = "unpin"
  /\ pins' \in {pins \ {job.old}, pins}
  /\ job' = NoJob
  /\ UNCHANGED <<rows, searchable, total, files, published, mode, version, todo, queues, snapshot, torn, runs, crashes>>

\* Catalog.insert: the row, and only then its entries in the FTS tables.
InsertRow ==
  /\ job.step = "insert"
  /\ IF FileOf[job.source] \in Unreadable
     THEN job' = NoJob /\ UNCHANGED rows
     ELSE /\ rows' = [rows EXCEPT ![job.source] = job.root]
          /\ job' = [job EXCEPT !.step = "fts"]
  /\ UNCHANGED <<searchable, total, pins, files, published, mode, version, todo, queues, snapshot, torn, runs, crashes>>

InsertFts ==
  /\ job.step = "fts"
  /\ searchable' = searchable \cup {job.source}
  /\ job' = NoJob
  /\ UNCHANGED <<rows, total, pins, files, published, mode, version, todo, queues, snapshot, torn, runs, crashes>>

-----------------------------------------------------------------------------
(* The other modes, and the end of a run.                                  *)

\* reindexFts: the tables are dropped and filled again, row by row of modules.
DropFts ==
  /\ mode = "fts" /\ job = NoJob
  /\ searchable' = {} /\ job' = [NoJob EXCEPT !.step = "fill"]
  /\ UNCHANGED <<rows, total, pins, files, published, mode, version, todo, queues, snapshot, torn, runs, crashes>>

FillFts ==
  /\ job.step = "fill"
  /\ searchable' = Cataloged /\ torn' = {}
  /\ job' = NoJob /\ mode' = "publish"
  /\ snapshot' = [rows |-> rows, searchable |-> Cataloged, total |-> total]
  /\ UNCHANGED <<rows, total, pins, files, published, version, todo, queues, runs, crashes>>

\* refreshMeta and checkpoint, then the snapshot (VACUUM INTO); the md5 and genre passes end
\* here too ("label").
Finish ==
  /\ mode \in {"add", "rebuild", "pool", "label"}
  /\ todo = {} /\ InFlight = {} /\ job = NoJob
  /\ total' = Cardinality(Cataloged)
  /\ snapshot' = [rows |-> rows, searchable |-> searchable, total |-> Cardinality(Cataloged)]
  /\ mode' = "publish"
  /\ UNCHANGED <<rows, searchable, pins, files, published, version, todo, job, queues, torn, runs, crashes>>

\* publishCatalog: the file is added and pinned (its pages too, where they are zstd blocks)
\* before the record names it.
AddFile ==
  /\ mode = "publish" /\ snapshot \notin files
  /\ files' = files \cup {snapshot}
  /\ UNCHANGED <<rows, searchable, total, pins, published, mode, version, todo, job, queues, snapshot, torn, runs, crashes>>

\* The record may name the file before it is added.
NamePublishEarly ==
  /\ mode = "publish"
  /\ published' = snapshot
  /\ mode' = "off" /\ snapshot' = NoCatalog
  /\ UNCHANGED <<rows, searchable, total, pins, files, version, todo, job, queues, torn, runs, crashes>>

NamePublish ==
  /\ mode = "publish" /\ snapshot \in files
  /\ published' = snapshot
  /\ mode' = "off" /\ snapshot' = NoCatalog
  /\ UNCHANGED <<rows, searchable, total, pins, files, version, todo, job, queues, torn, runs, crashes>>

\* The announcement fails: the run ends all the same.
PublishFails ==
  /\ mode = "publish"
  /\ mode' = "off" /\ snapshot' = NoCatalog
  /\ UNCHANGED <<durable, version, todo, job, queues, torn, runs, crashes>>

\* The process dies.
Crash ==
  /\ mode # "off" /\ crashes < MaxCrashes
  /\ mode' = "off" /\ todo' = {} /\ job' = NoJob /\ snapshot' = NoCatalog
  /\ pending' = {} /\ busy' = [w \in Workers |-> NoSource] /\ waiting' = {}
  /\ torn' = torn \cup (IF job.step \in {"fts", "fill"} THEN Cataloged \ searchable ELSE {})
  /\ crashes' = crashes + 1
  /\ UNCHANGED <<durable, version, runs>>

IngestWork ==
  \/ \E s \in Sources : Take(s) \/ Submit(s) \/ ApplyRebuild(s)
  \/ \E w \in Workers : WorkerDone(w) \/ \E s \in Sources : Pump(w, s)
  \/ LoadDag \/ UpdateRoot \/ PinRm \/ InsertRow \/ InsertFts
  \/ DropFts \/ FillFts \/ Finish \/ AddFile \/ NamePublish

IngestNext ==
  \/ \E m \in Modes \ {"off", "publish"}, v \in Versions : StartRun(m, v)
  \/ IngestWork
  \/ LoadFails \/ PublishFails \/ Crash \/ \E w \in Workers : WorkerCrash(w)

IngestSpec == IngestInit /\ [][IngestNext]_ingestVars
IngestFairSpec == IngestSpec /\ WF_ingestVars(IngestWork)

-----------------------------------------------------------------------------
Jobs == [source : Sources \cup {NoSource}, old : Roots \cup {NoRoot}, root : Roots \cup {NoRoot},
         step : {"none", "load", "insert", "update", "unpin", "fts", "fill"}]
Catalogs == [rows : [Sources -> Roots \cup {NoRoot}], searchable : SUBSET Sources, total : Nat]

IngestTypeOK ==
  /\ rows \in [Sources -> Roots \cup {NoRoot}] /\ searchable \subseteq Sources
  /\ pins \subseteq Roots /\ torn \subseteq Sources
  /\ mode \in Modes /\ version \in Versions /\ todo \subseteq Sources
  /\ job \in Jobs
  /\ pending \subseteq Sources /\ waiting \subseteq Sources
  /\ busy \in [Workers -> Sources \cup {NoSource}]

Duplicate(s) == \E t \in Sources \ {s} : FileOf[t] = FileOf[s]

(* Whatever crashes, fails or is retried between the pin of the new root,  *)
(* the row and the removal of the old pin, the root a row names is pinned  *)
(* on the master.  Not so for a file that is in the corpus twice: its      *)
(* sources share a root, and the first to be re-baked unpins it under the  *)
(* other ("shared leaves remain pinned" speaks of leaves only).            *)
RowsPinned == \A s \in Cataloged : ~Duplicate(s) => rows[s] \in pins

(* Every row can be found by search, except those a crash caught between   *)
(* the row and the FTS tables (no later ingest repairs them, it skips the  *)
(* source; only reindexFts does).  A published catalog is a file the       *)
(* master has pinned whole, and unless something crashed it counts its own *)
(* rows (the reindex does not refresh the count).                          *)
PublishedWhole ==
  /\ Cataloged \ searchable \subseteq torn \cup (IF job.step = "fts" THEN {job.source} ELSE {})
       \/ job.step = "fill"
  /\ published # NoCatalog =>
       /\ published \in files
       /\ published.total = Cardinality({s \in Sources : published.rows[s] # NoRoot}) \/ crashes > 0

(* A run ends, whatever happens to the workers: a module whose worker dies *)
(* is settled as failed, or Promise.all over the bakes would hang.         *)
RunsEnd == (mode # "off") ~> (mode = "off")
=============================================================================
