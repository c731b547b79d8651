----------------------------- MODULE Bake_proofs ----------------------------
(* The server's bake, the record under which its catalog is found, and the *)
(* seek tables of what it bakes.                                           *)
EXTENDS Ingest, CatalogRecord, SeekTables, Repack_proofs

-----------------------------------------------------------------------------
(* Why the bake never leaves a row without its pin, for every corpus, every*)
(* number of workers and slots, and any number of runs and crashes.  The   *)
(* invariant says of the module in hand, step by step, what its row and its*)
(* pins are; the removal of the superseded pin is safe because the root it *)
(* removes belongs to the file of that row alone.                          *)

Baking == {"add", "rebuild", "pool"}
OfFile(s) == {FileOf[s]} \X Versions

(* What the database and the pins are at each step of one module's I/O.    *)
JobStands ==
  /\ job.step = "none" => job = NoJob
  /\ job.step = "fill" => mode = "fts"
  /\ job.step \in {"load", "insert", "update", "unpin", "fts"} =>
       job.source \in Sources /\ job.root \in OfFile(job.source) /\ mode \in Baking
  /\ job.step = "load" => job.old = rows[job.source] /\ job.old # job.root
  /\ job.step = "insert" => job.old = NoRoot /\ job.root \in pins /\ rows[job.source] = NoRoot
  /\ job.step = "update" => /\ job.old = rows[job.source] /\ job.old # NoRoot
                            /\ job.old # job.root /\ job.root \in pins
  /\ job.step = "unpin" => /\ rows[job.source] = job.root /\ job.root \in pins
                           /\ job.old \in OfFile(job.source) /\ job.old # job.root
  /\ job.step = "fts" => rows[job.source] = job.root

(* Only the pool mode queues modules.                                      *)
QueuesEmpty == mode # "pool" => /\ pending = {} /\ waiting = {}
                                /\ \A w \in Workers : busy[w] = NoSource

(* A row's root belongs to its own file.                                   *)
RowsOfFile == \A s \in Cataloged : rows[s] \in OfFile(s)

(* PublishedWhole, in three parts: what search finds, ...                  *)
Findable ==
  Cataloged \ searchable \subseteq torn \cup (IF job.step = "fts" THEN {job.source} ELSE {})
    \/ job.step = "fill"

(* ... what is published is added and pinned, ...                          *)
PublishedAdded == published # NoCatalog => published \in files

(* ... and the counts of the table, the snapshot and the published file.   *)
RowCount(c) == Cardinality({s \in Sources : c.rows[s] # NoRoot})
Counted ==
  /\ crashes \in Nat
  /\ crashes = 0 /\ mode \notin Baking => total = Cardinality(Cataloged)
  /\ crashes = 0 /\ mode = "publish" => snapshot.total = RowCount(snapshot)
  /\ crashes = 0 /\ published # NoCatalog => published.total = RowCount(published)

IngestInv ==
  /\ IngestTypeOK /\ QueuesEmpty /\ JobStands /\ RowsOfFile /\ RowsPinned
  /\ Findable /\ PublishedAdded /\ Counted

-----------------------------------------------------------------------------
LEMMA RootOfFile ==
  ASSUME NEW s \in Sources, NEW v \in Versions
  PROVE  Root(s, v) \in OfFile(s) /\ Root(s, v) \in Roots /\ Root(s, v) # NoRoot
BY IngestAssumption DEF Root, OfFile, Roots

LEMMA OfFileIsRoot ==
  ASSUME NEW s \in Sources, NEW r \in OfFile(s)
  PROVE  r \in Roots /\ r # NoRoot
BY IngestAssumption DEF OfFile, Roots

(* Roots of two files differ: what is unpinned for one source is no other  *)
(* source's root, unless they share the file.                              *)
LEMMA OneFile ==
  ASSUME NEW s \in Sources, NEW t \in Sources, s # t, ~Duplicate(s), NEW r \in OfFile(t)
  PROVE  r \notin OfFile(s)
BY DEF Duplicate, OfFile

LEMMA InvInit == IngestInit => IngestInv
<1> SUFFICES ASSUME IngestInit PROVE IngestInv
  OBVIOUS
<1>1. Cataloged = {}
  BY DEF IngestInit, Cataloged
<1>2. IngestTypeOK
  BY IngestAssumption DEF IngestInit, IngestTypeOK, Jobs, NoJob, Modes
<1>3. QueuesEmpty /\ JobStands /\ RowsOfFile /\ RowsPinned /\ Findable /\ PublishedAdded
  BY <1>1 DEF IngestInit, QueuesEmpty, JobStands, RowsOfFile, RowsPinned, Findable, PublishedAdded, NoJob
<1>4. Counted
  BY <1>1, FS_EmptySet DEF IngestInit, Counted
<1> QED
  BY <1>2, <1>3, <1>4 DEF IngestInv

LEMMA TypeStep == IngestInv /\ [IngestNext]_ingestVars => IngestTypeOK'
<1> SUFFICES ASSUME IngestInv, [IngestNext]_ingestVars PROVE IngestTypeOK'
  OBVIOUS
<1> USE DEF IngestInv, IngestTypeOK, Jobs, NoJob, Modes, durable, queues
<1>1. ASSUME NEW m \in Modes \ {"off", "publish"}, NEW v \in Versions, StartRun(m, v)
      PROVE  IngestTypeOK'
  BY <1>1 DEF StartRun
<1>2. ASSUME NEW s \in Sources, Take(s) PROVE IngestTypeOK'
  BY <1>2, RootOfFile, IngestAssumption DEF Take
<1>3. ASSUME NEW s \in Sources, Submit(s) PROVE IngestTypeOK'
  BY <1>3 DEF Submit
<1>4. ASSUME NEW s \in Sources, ApplyRebuild(s) PROVE IngestTypeOK'
  BY <1>4, RootOfFile, IngestAssumption DEF ApplyRebuild
<1>5. ASSUME NEW w \in Workers, WorkerDone(w) \/ WorkerCrash(w) \/ \E s \in Sources : Pump(w, s)
      PROVE  IngestTypeOK'
  BY <1>5, IngestAssumption DEF WorkerDone, WorkerCrash, Pump
<1>6. CASE LoadDag \/ LoadFails
  BY <1>6, OfFileIsRoot DEF LoadDag, LoadFails, JobStands
<1>7. CASE UpdateRoot \/ PinRm
  BY <1>7 , OfFileIsRoot DEF UpdateRoot, PinRm, JobStands
<1>8. CASE InsertRow \/ InsertFts
  BY <1>8, OfFileIsRoot DEF InsertRow, InsertFts, JobStands
<1>9. CASE DropFts \/ FillFts \/ Finish \/ AddFile \/ NamePublish \/ PublishFails
  BY <1>9 DEF DropFts, FillFts, Finish, AddFile, NamePublish, PublishFails, Cataloged
<1>10. CASE Crash
  BY <1>10 DEF Crash, Cataloged
<1>11. CASE UNCHANGED ingestVars
  BY <1>11 DEF ingestVars
<1> QED
  BY <1>1, <1>2, <1>3, <1>4, <1>5, <1>6, <1>7, <1>8, <1>9, <1>10, <1>11 DEF IngestNext, IngestWork

LEMMA QueuesStep == IngestInv /\ [IngestNext]_ingestVars => QueuesEmpty'
<1> SUFFICES ASSUME IngestInv, [IngestNext]_ingestVars PROVE QueuesEmpty'
  OBVIOUS
<1>0. QueuesEmpty /\ IngestTypeOK
  BY DEF IngestInv
<1> USE DEF QueuesEmpty, durable, queues
<1>1. ASSUME NEW m \in Modes \ {"off", "publish"}, NEW v \in Versions, StartRun(m, v)
      PROVE  QueuesEmpty'
  BY <1>0, <1>1 DEF StartRun
<1>2. ASSUME NEW s \in Sources, Submit(s) \/ ApplyRebuild(s) PROVE QueuesEmpty'
  BY <1>0, <1>2 DEF Submit, ApplyRebuild
<1>3. ASSUME NEW w \in Workers, WorkerDone(w) \/ WorkerCrash(w) \/ \E s \in Sources : Pump(w, s)
      PROVE  QueuesEmpty'
  BY <1>0, <1>3 DEF WorkerDone, WorkerCrash, Pump, IngestTypeOK
<1>4. CASE Finish
  BY <1>4 DEF Finish, InFlight
<1>5. CASE Crash
  BY <1>5 DEF Crash
<1>6. CASE FillFts \/ NamePublish \/ PublishFails
  BY <1>0, <1>6 DEF FillFts, NamePublish, PublishFails, IngestInv, JobStands
<1>7. ASSUME UNCHANGED <<mode, queues>> PROVE QueuesEmpty'
  BY <1>0, <1>7
<1> QED
  BY <1>1, <1>2, <1>3, <1>4, <1>5, <1>6, <1>7 DEF IngestNext, IngestWork, ingestVars, Take,
     LoadDag, LoadFails, UpdateRoot, PinRm, InsertRow, InsertFts, DropFts, AddFile

(* The steps that leave the rows, the pins and the module in hand alone.   *)
Elsewhere ==
  \/ \E m \in Modes \ {"off", "publish"}, v \in Versions : StartRun(m, v)
  \/ \E s \in Sources : Submit(s)
  \/ \E w \in Workers : WorkerDone(w) \/ WorkerCrash(w) \/ \E s \in Sources : Pump(w, s)
  \/ Finish \/ AddFile \/ NamePublish \/ PublishFails \/ UNCHANGED ingestVars

LEMMA ElsewhereStays ==
  ASSUME IngestInv, Elsewhere
  PROVE  /\ UNCHANGED <<rows, pins, job>>
         /\ mode' = mode \/ job = NoJob
         /\ searchable' = searchable /\ torn' = torn
<1> USE DEF durable, queues, ingestVars
<1>1. CASE \E m \in Modes \ {"off", "publish"}, v \in Versions : StartRun(m, v)
  BY <1>1 DEF StartRun, IngestInv, JobStands, IngestTypeOK, Jobs, Baking
<1>2. CASE NamePublish \/ PublishFails
  BY <1>2 DEF NamePublish, PublishFails, IngestInv, JobStands, IngestTypeOK, Jobs, Baking
<1> QED
  BY <1>1, <1>2 DEF Elsewhere, Submit, WorkerDone, WorkerCrash, Pump, Finish, AddFile

(* Which steps there are.                                                  *)
LEMMA Steps ==
  ASSUME [IngestNext]_ingestVars
  PROVE  \/ Elsewhere
         \/ \E s \in Sources : Take(s) \/ ApplyRebuild(s)
         \/ LoadDag \/ LoadFails \/ UpdateRoot \/ PinRm \/ InsertRow \/ InsertFts
         \/ DropFts \/ FillFts \/ Crash
BY DEF IngestNext, IngestWork, Elsewhere

LEMMA JobStep == IngestInv /\ [IngestNext]_ingestVars => JobStands'
<1> SUFFICES ASSUME IngestInv, [IngestNext]_ingestVars PROVE JobStands'
  OBVIOUS
<1>0. JobStands /\ IngestTypeOK /\ RowsOfFile
  BY DEF IngestInv
<1> USE DEF durable, queues
<1>1. CASE Elsewhere
  BY <1>1, <1>0, ElsewhereStays DEF JobStands, NoJob
<1>2. ASSUME NEW s \in Sources, Take(s) \/ ApplyRebuild(s) PROVE JobStands'
  <2>1. s \in Sources /\ Root(s, version) \in OfFile(s)
    BY <1>0, RootOfFile DEF IngestTypeOK
  <2>2. rows' = rows /\ pins' = pins /\ mode' = mode
    BY <1>2 DEF Take, ApplyRebuild
  <2>3. CASE job' = NoJob
    BY <2>3 DEF JobStands, NoJob
  <2>4. CASE job' = [source |-> s, old |-> rows[s], root |-> Root(s, version), step |-> "load"]
    <3>1. mode \in Baking
      BY <1>2 DEF Take, ApplyRebuild, Baking, IngestInv, QueuesEmpty
    <3>2. rows[s] # Root(s, version)
      BY <2>4, <1>2, <2>1, OfFileIsRoot DEF Take, ApplyRebuild, NoJob
    <3> QED
      BY <2>1, <2>2, <2>4, <3>1, <3>2 DEF JobStands
  <2> QED
    BY <1>2, <2>3, <2>4 DEF Take, ApplyRebuild
<1>3. CASE LoadDag
  BY <1>3, <1>0 DEF LoadDag, JobStands, IngestTypeOK, Jobs
<1>4. CASE UpdateRoot
  BY <1>4, <1>0 DEF UpdateRoot, JobStands, IngestTypeOK, Jobs, RowsOfFile, Cataloged
<1>5. CASE InsertRow
  BY <1>5, <1>0 DEF InsertRow, JobStands, IngestTypeOK, Jobs, NoJob
<1>6. CASE LoadFails \/ PinRm \/ InsertFts \/ FillFts \/ Crash
  BY <1>6 DEF LoadFails, PinRm, InsertFts, FillFts, Crash, JobStands, NoJob
<1>7. CASE DropFts
  BY <1>7 DEF DropFts, JobStands, NoJob
<1> QED
  BY <1>1, <1>2, <1>3, <1>4, <1>5, <1>6, <1>7, Steps

(* How the rows and the pins may change.                                   *)
LEMMA RowsAndPins ==
  ASSUME IngestInv, [IngestNext]_ingestVars
  PROVE  \/ rows' = rows /\ pins \subseteq pins'
         \/ PinRm
         \/ /\ job.step \in {"update", "insert"} /\ pins' = pins
            /\ rows' = [rows EXCEPT ![job.source] = job.root]
<1>1. CASE Elsewhere
  BY <1>1, ElsewhereStays
<1>2. CASE LoadFails \/ LoadDag
  BY <1>2 DEF LoadFails, LoadDag
<1> QED
  BY <1>1, <1>2, Steps DEF Take, ApplyRebuild, UpdateRoot, InsertRow, InsertFts, DropFts, FillFts,
     Crash, durable

LEMMA RowsStep == IngestInv /\ [IngestNext]_ingestVars => RowsOfFile' /\ RowsPinned'
<1> SUFFICES ASSUME IngestInv, [IngestNext]_ingestVars PROVE RowsOfFile' /\ RowsPinned'
  OBVIOUS
<1>0. RowsOfFile /\ RowsPinned /\ JobStands /\ rows \in [Sources -> Roots \cup {NoRoot}]
  BY DEF IngestInv, IngestTypeOK
<1>1. CASE rows' = rows /\ pins \subseteq pins'
  BY <1>0, <1>1 DEF RowsOfFile, RowsPinned, Cataloged
<1>2. CASE PinRm
  <2>1. rows' = rows /\ pins \ {job.old} \subseteq pins' /\ job.step = "unpin"
    BY <1>2 DEF PinRm
  <2>2. RowsOfFile'
    BY <1>0, <2>1 DEF RowsOfFile, Cataloged
  <2>3. ASSUME NEW s \in Sources, rows[s] # NoRoot, ~Duplicate(s) PROVE rows[s] \in pins'
    <3>1. rows[s] \in pins /\ rows[s] \in OfFile(s)
      BY <1>0, <2>3 DEF RowsPinned, RowsOfFile, Cataloged
    <3>2. job.source \in Sources /\ job.old \in OfFile(job.source) /\ rows[job.source] # job.old
      BY <1>0, <2>1 DEF JobStands
    <3>3. rows[s] # job.old
      BY <2>3, <3>1, <3>2, OneFile
    <3> QED
      BY <2>1, <3>1, <3>3
  <2> QED
    BY <2>1, <2>2, <2>3 DEF RowsPinned, Cataloged
<1>3. CASE /\ job.step \in {"update", "insert"} /\ pins' = pins
           /\ rows' = [rows EXCEPT ![job.source] = job.root]
  <2>1. job.source \in Sources /\ job.root \in OfFile(job.source) /\ job.root \in pins
    BY <1>0, <1>3 DEF JobStands
  <2> QED
    BY <1>0, <1>3, <2>1 DEF RowsOfFile, RowsPinned, Cataloged
<1> QED
  BY <1>1, <1>2, <1>3, RowsAndPins

-----------------------------------------------------------------------------
LEMMA FindableStep == IngestInv /\ [IngestNext]_ingestVars => Findable'
<1> SUFFICES ASSUME IngestInv, [IngestNext]_ingestVars PROVE Findable'
  OBVIOUS
<1>0. Findable /\ JobStands /\ rows \in [Sources -> Roots \cup {NoRoot}] /\ job \in Jobs
  BY DEF IngestInv, IngestTypeOK
<1> USE DEF Findable, Cataloged
<1>1. CASE Elsewhere
  BY <1>0, <1>1, ElsewhereStays
<1>2. CASE \E s \in Sources : Take(s) \/ ApplyRebuild(s)
  BY <1>0, <1>2 DEF Take, ApplyRebuild, NoJob, durable
<1>3. CASE LoadDag \/ LoadFails \/ PinRm
  BY <1>0, <1>3 DEF LoadDag, LoadFails, PinRm, NoJob, Jobs
<1>4. CASE UpdateRoot
  BY <1>0, <1>4 DEF UpdateRoot, JobStands, Jobs
<1>5. CASE InsertRow
  BY <1>0, <1>5 DEF InsertRow, JobStands, Jobs, NoJob
<1>6. CASE InsertFts
  BY <1>0, <1>6 DEF InsertFts, NoJob
<1>7. CASE DropFts \/ FillFts
  BY <1>7 DEF DropFts, FillFts, NoJob
<1>8. CASE Crash
  BY <1>0, <1>8 DEF Crash, NoJob, durable
<1> QED
  BY <1>1, <1>2, <1>3, <1>4, <1>5, <1>6, <1>7, <1>8, Steps

LEMMA PublishedStep == IngestInv /\ [IngestNext]_ingestVars => PublishedAdded'
BY DEF IngestInv, PublishedAdded, IngestNext, IngestWork, ingestVars, durable, StartRun, Take,
   Submit, ApplyRebuild, WorkerDone, WorkerCrash, Pump, LoadDag, LoadFails, UpdateRoot, PinRm,
   InsertRow, InsertFts, DropFts, FillFts, Finish, AddFile, NamePublish, PublishFails, Crash

LEMMA CountedStep == IngestInv /\ [IngestNext]_ingestVars => Counted'
<1> SUFFICES ASSUME IngestInv, [IngestNext]_ingestVars PROVE Counted'
  OBVIOUS
<1>0. Counted /\ JobStands /\ IngestTypeOK
  BY DEF IngestInv
<1> USE DEF Counted, RowCount, Cataloged, durable, queues
<1>1. ASSUME NEW m \in Modes \ {"off", "publish"}, NEW v \in Versions, StartRun(m, v)
      PROVE  Counted'
  BY <1>0, <1>1 DEF StartRun, Baking
<1>2. CASE Finish
  BY <1>0, <1>2 DEF Finish, Baking
<1>3. CASE FillFts
  BY <1>0, <1>3 DEF FillFts, Baking, JobStands
<1>4. CASE NamePublish \/ PublishFails
  BY <1>0, <1>4 DEF NamePublish, PublishFails, Baking
<1>5. CASE Crash \/ \E w \in Workers : WorkerCrash(w)
  BY <1>0, <1>5 DEF Crash, WorkerCrash
<1>6. CASE UpdateRoot \/ InsertRow
  <2>1. CASE UpdateRoot
    BY <1>0, <2>1 DEF UpdateRoot, JobStands, Baking
  <2>2. CASE InsertRow
    BY <1>0, <2>2 DEF InsertRow, JobStands, Baking
  <2> QED
    BY <1>6, <2>1, <2>2
<1>7. ASSUME UNCHANGED <<rows, total, mode, snapshot, published, crashes>> PROVE Counted'
  BY <1>0, <1>7
<1> QED
  BY <1>1, <1>2, <1>3, <1>4, <1>5, <1>6, <1>7 DEF IngestNext, IngestWork, ingestVars, Take, Submit,
     ApplyRebuild, WorkerDone, Pump, LoadDag, LoadFails, PinRm, InsertFts, DropFts, AddFile

-----------------------------------------------------------------------------
(* ingest.ts, bake-pool.ts: the state of the bake keeps its shape, and the *)
(* module in hand stands as its step says.                                 *)
THEOREM IngestInvariant == IngestSpec => []IngestInv
<1>1. IngestInv /\ [IngestNext]_ingestVars => IngestInv'
  <2> SUFFICES ASSUME IngestInv, [IngestNext]_ingestVars PROVE IngestInv'
    OBVIOUS
  <2>1. IngestTypeOK' /\ QueuesEmpty' /\ JobStands'
    BY TypeStep, QueuesStep, JobStep
  <2>2. RowsOfFile' /\ RowsPinned'
    BY RowsStep
  <2>3. Findable' /\ PublishedAdded' /\ Counted'
    BY FindableStep, PublishedStep, CountedStep
  <2> QED
    BY <2>1, <2>2, <2>3 DEF IngestInv
<1> QED
  BY <1>1, InvInit, PTL DEF IngestSpec

(* ingest.ts: a row's root is pinned on the master, through every crash and*)
(* failure between the pin, the row and the unpin.                         *)
THEOREM RowsStayPinned == IngestSpec => []RowsPinned
BY IngestInvariant, PTL DEF IngestInv

(* ingest.ts, catalog.ts: what is not found by search was left by a crash, *)
(* and the catalog's record names a file added whole with its own count.   *)
THEOREM PublishedStaysWhole == IngestSpec => []PublishedWhole
<1>1. IngestInv => PublishedWhole
  BY DEF IngestInv, Findable, PublishedAdded, Counted, RowCount, PublishedWhole
<1> QED
  BY <1>1, IngestInvariant, PTL

-----------------------------------------------------------------------------
(* The catalog's readers implement the register, for any number of servers,*)
(* records, restarts and attempts, and any lifetime.  The refinement rests *)
(* on one fact about the detailed state, that the signed records are a     *)
(* sequence of times: every path to a reader checks the record itself at   *)
(* the moment it answers.                                                  *)

(* The catalog's records are numbered from 1 and dated by the clock.       *)
SignedOK == now \in Nat /\ issued \in Seq(Nat)

LEMMA SignedInit == CatalogInit => SignedOK
BY DEF CatalogInit, SignedOK

LEMMA SignedStep == SignedOK /\ [CatalogNext]_catalogVars => SignedOK'
<1> SUFFICES ASSUME SignedOK, [CatalogNext]_catalogVars PROVE SignedOK'
  OBVIOUS
<1>1. CASE PublishIPNS
  BY <1>1 DEF SignedOK, PublishIPNS
<1>2. CASE CatalogTick
  BY <1>2 DEF SignedOK, CatalogTick
<1>3. ASSUME UNCHANGED <<now, issued>> PROVE SignedOK'
  BY <1>3 DEF SignedOK
<1> QED
  BY <1>1, <1>2, <1>3 DEF CatalogNext, catalogVars, Resolve, FromStore, DhtWalk, WalkEnds,
     BrowserAsks, NodeRestarts, Spread, IngestGossip, GossipLost

-----------------------------------------------------------------------------
(* A record a reader verified is one the register lets him be told.        *)
LEMMA VerifiedIsFresh ==
  ASSUME SignedOK, NEW r, RecordVerified(r) PROVE r \in Register!Published /\ Register!Fresh(r)
BY DEF SignedOK, RecordVerified, Valid, Records, Register!Fresh, Register!Published

LEMMA ToldIsAnswer ==
  ASSUME SignedOK, NEW reader \in Readers, NEW r, r = Refused \/ RecordVerified(r),
         Told(reader, r), UNCHANGED <<now, issued>>
  PROVE  Register!RegisterNext
<1>1. r \in Register!Published \cup {Refused} /\ (r = Refused \/ Register!Fresh(r))
  BY VerifiedIsFresh
<1>2. Register!Answer(reader, r)
  BY <1>1 DEF Told, Register!Answer
<1> QED
  BY <1>1, <1>2 DEF Register!RegisterNext

LEMMA ResolvedIsAnswer ==
  ASSUME SignedOK, NEW r, Resolved(r), UNCHANGED <<now, issued>>
  PROVE  Register!RegisterNext \/ UNCHANGED answer
<1> DEFINE told == "desktop"
<1>0. told \in Readers
  BY DEF Readers
<1>1. CASE RecordVerified(r)
  <2>1. Told(told, r)
    BY <1>1 DEF Resolved
  <2> QED
    BY <2>1, <1>0, <1>1, ToldIsAnswer
<1>2. CASE ~RecordVerified(r) /\ RecordVerified(disk)
  <2>1. Told(told, disk)
    BY <1>2 DEF Resolved
  <2> QED
    BY <2>1, <1>0, <1>2, ToldIsAnswer
<1>3. CASE ~RecordVerified(r) /\ ~RecordVerified(disk)
  <2>1. UNCHANGED answer \/ Told(told, Refused)
    BY <1>3 DEF Resolved
  <2> QED
    BY <2>1, <1>0, ToldIsAnswer
<1> QED
  BY <1>1, <1>2, <1>3

LEMMA BrowserIsAnswer ==
  ASSUME SignedOK, BrowserAsks PROVE Register!RegisterNext
<1>0. "browser" \in Readers /\ UNCHANGED <<now, issued>>
  BY DEF Readers, BrowserAsks
<1>1. PICK asked \in SUBSET Servers :
        LET rs == {kept[s] : s \in {t \in asked : RecordVerified(kept[t])}} IN
        \/ \E r \in Best(rs) : Told("browser", r)
        \/ rs = {} /\ Told("browser", Refused)
  BY DEF BrowserAsks
<1> DEFINE rs == {kept[s] : s \in {t \in asked : RecordVerified(kept[t])}}
<1>2. CASE \E r \in Best(rs) : Told("browser", r)
  <2>1. PICK r \in Best(rs) : Told("browser", r)
    BY <1>2
  <2>2. RecordVerified(r)
    BY <2>1 DEF Best
  <2> QED
    BY <2>1, <2>2, <1>0, ToldIsAnswer
<1>3. CASE Told("browser", Refused)
  BY <1>0, <1>3, ToldIsAnswer
<1> QED
  BY <1>1, <1>2, <1>3

(* Every step of the readers is a step of the register, or leaves it.      *)
LEMMA StepRefines ==
  ASSUME SignedOK, [CatalogNext]_catalogVars
  PROVE  [Register!RegisterNext]_(Register!registerVars)
<1> USE DEF Register!registerVars
<1>1. CASE PublishIPNS
  <2>1. Register!Sign
    BY <1>1 DEF PublishIPNS, Register!Sign
  <2> QED
    BY <2>1 DEF Register!RegisterNext
<1>2. CASE CatalogTick
  <2>1. Register!Pass
    BY <1>2 DEF CatalogTick, Register!Pass
  <2> QED
    BY <2>1 DEF Register!RegisterNext
<1>3. CASE FromStore
  BY <1>3, ResolvedIsAnswer DEF FromStore
<1>4. CASE WalkEnds
  BY <1>4, ResolvedIsAnswer DEF WalkEnds
<1>5. CASE BrowserAsks
  BY <1>5, BrowserIsAnswer
<1>6. ASSUME UNCHANGED <<now, issued, answer>> PROVE UNCHANGED Register!registerVars
  BY <1>6
<1> QED
  BY <1>1, <1>2, <1>3, <1>4, <1>5, <1>6 DEF CatalogNext, catalogVars, Resolve, DhtWalk,
     NodeRestarts, Spread, IngestGossip, GossipLost

-----------------------------------------------------------------------------
(* ipns.go, ipns.rs, ipns.ts: by gossip, from the DHT, from the disk or    *)
(* from a peer, a reader is told only records the catalog key signed, and  *)
(* none past its EOL.                                                      *)
THEOREM ReadersImplementRegister == CatalogSpec => ImplementsRegister
<1>1. CatalogInit => Register!RegisterInit
  BY DEF CatalogInit, Register!RegisterInit
<1> QED
  BY <1>1, SignedInit, SignedStep, StepRefines, PTL
     DEF CatalogSpec, ImplementsRegister, Register!RegisterSpec

-----------------------------------------------------------------------------
(* Why a seek table covers what sounds, for every song in every format, of *)
(* any length and with any number of checkpoints.  The tables are computed *)
(* by walks over the rows of the played orders, so the proof first says    *)
(* where each row stands (PlacesStand), then what the decoders make of its *)
(* cell (EventsDecode), what the walk keeps (LatchKept, HeldKept), and     *)
(* last that the stride leaves no order without a checkpoint               *)
(* (OrderHasCheckpoint).                                                   *)

(* The orders that are played, and the rows of each.                       *)
SongOK(s) == /\ s.format \in Formats
             /\ s.orders \in Seq(Patterns \cup {Skip})
             /\ s.pats \in [Patterns -> Seq(Cell)]

LEMMA PlayedRecursion ==
  ASSUME NEW s, SongOK(s)
  PROVE  /\ PlayedUpTo(s)[0] = <<>>
         /\ \A i \in 1..Len(s.orders) : PlayedUpTo(s)[i] =
              IF s.orders[i] = Skip THEN PlayedUpTo(s)[i - 1] ELSE Append(PlayedUpTo(s)[i - 1], i)
<1> DEFINE n == Len(s.orders)
           Is(f) == f = [i \in 0..n |->
                           IF i = 0 THEN <<>>
                           ELSE IF s.orders[i] = Skip THEN f[i - 1] ELSE Append(f[i - 1], i)]
           step == [i \in 1..n |-> [p \in Seq(Nat) |->
                      IF s.orders[i] = Skip THEN p ELSE Append(p, i)]]
<1>1. n \in Nat
  BY DEF SongOK
<1>2. step \in [1..n -> [Seq(Nat) -> Seq(Nat)]]
  BY <1>1
<1>3. PICK f \in [0..n -> Seq(Nat)] :
        f[0] = <<>> /\ \A i \in 1..n : f[i] = step[i][f[i - 1]]
  <2>1. <<>> \in Seq(Nat)
    OBVIOUS
  <2>2. \E f \in [0..n -> Seq(Nat)] : Runs(f, n, <<>>, step)
    <3> HIDE DEF step, n
    <3> QED
      BY <1>1, <1>2, <2>1, RecursionIsThere, Zenon
  <2> QED
    BY <2>2 DEF Runs
<1>4. Is(f)
  <2>1. ASSUME NEW i \in 0..n
        PROVE  f[i] = IF i = 0 THEN <<>>
                      ELSE IF s.orders[i] = Skip THEN f[i - 1] ELSE Append(f[i - 1], i)
    <3>1. CASE i = 0
      BY <1>3, <3>1
    <3>2. CASE i # 0
      <4>1. i \in 1..n /\ i - 1 \in 0..n
        BY <1>1, <3>2
      <4>2. f[i - 1] \in Seq(Nat)
        BY <1>3, <4>1
      <4> QED
        BY <1>3, <3>2, <4>1, <4>2
    <3> QED
      BY <3>1, <3>2
  <2> QED
    BY <1>3, <2>1
<1>5. PlayedUpTo(s) = CHOOSE g : Is(g)
  BY DEF PlayedUpTo
<1>6. Is(PlayedUpTo(s))
  BY <1>4, <1>5
<1>7. PlayedUpTo(s)[0] = <<>>
  BY <1>1, <1>6
<1>8. ASSUME NEW i \in 1..n
      PROVE  PlayedUpTo(s)[i] =
               IF s.orders[i] = Skip THEN PlayedUpTo(s)[i - 1] ELSE Append(PlayedUpTo(s)[i - 1], i)
  <2>1. i \in 0..n /\ i # 0
    BY <1>1
  <2> QED
    BY <1>6, <2>1
<1> QED
  BY <1>7, <1>8

(* The orders played are ones of the list that are patterns, ascending.    *)
PlayedWell(s, i, p) ==
  /\ p \in Seq(1..i)
  /\ \A v \in 1..Len(p) : s.orders[p[v]] \in Patterns
  /\ \A v, w \in 1..Len(p) : v < w => p[v] < p[w]

LEMMA PlayedStep ==
  ASSUME NEW s, SongOK(s), NEW i \in 1..Len(s.orders), NEW p, PlayedWell(s, i - 1, p)
  PROVE  PlayedWell(s, i, IF s.orders[i] = Skip THEN p ELSE Append(p, i))
<1>0. Len(s.orders) \in Nat /\ s.orders[i] \in Patterns \cup {Skip}
  BY DEF SongOK
<1>1. p \in Seq(1..(i - 1)) /\ p \in Seq(1..i) /\ Len(p) \in Nat
  <2>1. 1..(i - 1) \subseteq 1..i
    BY <1>0
  <2> QED
    BY <2>1 DEF PlayedWell
<1>2. CASE s.orders[i] = Skip
  BY <1>1, <1>2 DEF PlayedWell
<1>3. CASE s.orders[i] # Skip
  <2> DEFINE q == Append(p, i)
  <2>1. q \in Seq(1..i) /\ Len(q) = Len(p) + 1 /\ q[Len(p) + 1] = i
    BY <1>0, <1>1
  <2>2. \A v \in 1..Len(p) : q[v] = p[v] /\ p[v] \in 1..(i - 1)
    BY <1>1
  <2>3. ASSUME NEW v \in 1..Len(q) PROVE s.orders[q[v]] \in Patterns
    <3>1. CASE v = Len(p) + 1
      BY <1>0, <1>3, <2>1, <3>1
    <3>2. CASE v \in 1..Len(p)
      BY <2>2, <3>2 DEF PlayedWell
    <3> QED
      BY <1>1, <2>1, <3>1, <3>2
  <2>4. ASSUME NEW v \in 1..Len(q), NEW w \in 1..Len(q), v < w PROVE q[v] < q[w]
    <3>1. CASE w = Len(p) + 1
      <4>1. v \in 1..Len(p)
        BY <1>1, <2>1, <2>4, <3>1
      <4>2. q[v] \in 1..(i - 1) /\ q[w] = i
        BY <2>1, <2>2, <3>1, <4>1
      <4> QED
        BY <1>0, <4>2
    <3>2. CASE w \in 1..Len(p)
      <4>1. v \in 1..Len(p)
        BY <1>1, <2>1, <2>4, <3>2
      <4>2. p[v] < p[w]
        BY <2>4, <3>2, <4>1 DEF PlayedWell
      <4> QED
        BY <2>2, <3>2, <4>1, <4>2
    <3> QED
      BY <1>1, <2>1, <3>1, <3>2
  <2> HIDE DEF q
  <2>5. PlayedWell(s, i, q)
    BY <2>1, <2>3, <2>4 DEF PlayedWell
  <2> QED
    BY <1>3, <2>5 DEF q
<1> QED
  BY <1>2, <1>3

LEMMA PlayedIsWell ==
  ASSUME NEW s, SongOK(s)
  PROVE  PlayedWell(s, Len(s.orders), PlayedOrders(s))
<1> DEFINE n == Len(s.orders)
           G == {i \in 0..n : PlayedWell(s, i, PlayedUpTo(s)[i])}
<1>1. n \in Nat
  BY DEF SongOK
<1>2. 0 \in G
  <2>1. PlayedWell(s, 0, <<>>)
    BY DEF PlayedWell
  <2> QED
    BY <1>1, <2>1, PlayedRecursion
<1>3. ASSUME NEW i \in (0 + 1)..n, i - 1 \in G PROVE i \in G
  <2>1. i \in 1..n /\ i \in 0..n
    BY <1>1
  <2>2. PlayedWell(s, i - 1, PlayedUpTo(s)[i - 1])
    BY <1>3
  <2>3. PlayedWell(s, i, PlayedUpTo(s)[i])
    BY <2>1, <2>2, PlayedStep, PlayedRecursion
  <2> QED
    BY <2>1, <2>3
<1>4. n \in G
  <2> HIDE DEF G, n
  <2>1. \A i \in 0..n : i \in G
    BY <1>1, <1>2, <1>3, CountUp
  <2> QED
    BY <1>1, <2>1
<1> QED
  BY <1>4 DEF PlayedOrders

LEMMA PlayedTypes ==
  ASSUME NEW s, SongOK(s)
  PROVE  /\ Len(s.orders) \in Nat /\ Len(PlayedOrders(s)) \in Nat
         /\ PlayedOrders(s) \in Seq(1..Len(s.orders))
         /\ \A v \in 1..Len(PlayedOrders(s)) : Played(s, v) \in Patterns
         /\ \A v \in 1..Len(PlayedOrders(s)) :
              s.pats[Played(s, v)] \in Seq(Cell) /\ Len(s.pats[Played(s, v)]) \in Nat
BY PlayedIsWell DEF PlayedWell, Played, SongOK

-----------------------------------------------------------------------------
(* The rows of the played orders, one after the other.                     *)
Place == [at : Nat, row : Nat]
RowsOf(s, v) == [r \in DOMAIN s.pats[Played(s, v)] |-> [at |-> v, row |-> r]]

LEMMA RowsOfOrder ==
  ASSUME NEW s, SongOK(s), NEW v \in 1..Len(PlayedOrders(s))
  PROVE  /\ RowsOf(s, v) \in Seq(Place)
         /\ Len(RowsOf(s, v)) = Len(s.pats[Played(s, v)])
         /\ \A r \in 1..Len(s.pats[Played(s, v)]) : RowsOf(s, v)[r] = [at |-> v, row |-> r]
<1>1. s.pats[Played(s, v)] \in Seq(Cell) /\ Len(s.pats[Played(s, v)]) \in Nat /\ v \in Nat
  BY PlayedTypes
<1>2. DOMAIN s.pats[Played(s, v)] = 1..Len(s.pats[Played(s, v)])
  BY <1>1
<1>3. RowsOf(s, v) \in [1..Len(s.pats[Played(s, v)]) -> Place]
  BY <1>1, <1>2 DEF RowsOf, Place
<1> QED
  BY <1>1, <1>2, <1>3 DEF RowsOf

LEMMA RowsRecursion ==
  ASSUME NEW s, SongOK(s)
  PROVE  /\ RowsUpTo(s) \in [0..Len(PlayedOrders(s)) -> Seq(Place)]
         /\ RowsUpTo(s)[0] = <<>>
         /\ \A v \in 1..Len(PlayedOrders(s)) :
              RowsUpTo(s)[v] = RowsUpTo(s)[v - 1] \o RowsOf(s, v)
<1> DEFINE n == Len(PlayedOrders(s))
           Is(f) == f = [v \in 0..n |-> IF v = 0 THEN <<>> ELSE f[v - 1] \o RowsOf(s, v)]
           step == [v \in 1..n |-> [p \in Seq(Place) |-> p \o RowsOf(s, v)]]
<1>1. n \in Nat
  BY PlayedTypes
<1>2. step \in [1..n -> [Seq(Place) -> Seq(Place)]]
  BY <1>1, RowsOfOrder
<1>3. PICK f \in [0..n -> Seq(Place)] :
        f[0] = <<>> /\ \A i \in 1..n : f[i] = step[i][f[i - 1]]
  <2>1. <<>> \in Seq(Place)
    OBVIOUS
  <2>2. \E f \in [0..n -> Seq(Place)] : Runs(f, n, <<>>, step)
    <3> HIDE DEF step, n
    <3> QED
      BY <1>1, <1>2, <2>1, RecursionIsThere, Zenon
  <2> QED
    BY <2>2 DEF Runs
<1>4. Is(f)
  <2>1. ASSUME NEW v \in 0..n
        PROVE  f[v] = IF v = 0 THEN <<>> ELSE f[v - 1] \o RowsOf(s, v)
    <3>1. CASE v = 0
      BY <1>3, <3>1
    <3>2. CASE v # 0
      <4>1. v \in 1..n /\ v - 1 \in 0..n
        BY <1>1, <3>2
      <4>2. f[v - 1] \in Seq(Place)
        BY <1>3, <4>1
      <4> QED
        BY <1>3, <3>2, <4>1, <4>2
    <3> QED
      BY <3>1, <3>2
  <2> QED
    BY <1>3, <2>1
<1>5. RowsUpTo(s) = CHOOSE g : Is(g)
  BY DEF RowsUpTo, RowsOf
<1>6. Is(RowsUpTo(s))
  BY <1>4, <1>5
<1> DEFINE R == RowsUpTo(s)
<1>7. R[0] = <<>> /\ \A v \in 1..n : R[v] = R[v - 1] \o RowsOf(s, v)
  <2>1. R[0] = <<>>
    BY <1>1, <1>6
  <2>2. ASSUME NEW v \in 1..n PROVE R[v] = R[v - 1] \o RowsOf(s, v)
    <3>1. v \in 0..n /\ v # 0
      BY <1>1
    <3> QED
      BY <1>6, <3>1
  <2> QED
    BY <2>1, <2>2
<1>8. \A v \in 0..n : R[v] \in Seq(Place)
  <2> DEFINE G == {v \in 0..n : R[v] \in Seq(Place)}
  <2>1. 0 \in G
    <3>1. <<>> \in Seq(Place)
      OBVIOUS
    <3>2. R[0] \in Seq(Place)
      BY <1>7, <3>1, Zenon
    <3> QED
      BY <1>1, <3>2
  <2>2. ASSUME NEW v \in (0 + 1)..n, v - 1 \in G PROVE v \in G
    <3>1. v \in 1..n /\ v \in 0..n /\ R[v - 1] \in Seq(Place)
      BY <1>1, <2>2
    <3>2. RowsOf(s, v) \in Seq(Place)
      BY <3>1, RowsOfOrder
    <3>3. R[v - 1] \o RowsOf(s, v) \in Seq(Place)
      BY <3>1, <3>2, ConcatProperties, Zenon
    <3>4. R[v] \in Seq(Place)
      BY <1>7, <3>1, <3>3
    <3> QED
      BY <3>1, <3>4
  <2>3. \A v \in 0..n : v \in G
    <3> HIDE DEF G, n
    <3> QED
      BY <1>1, <2>1, <2>2, CountUp
  <2> QED
    BY <2>3
<1> QED
  BY <1>6, <1>7, <1>8

LEMMA RowsBeforeGrows ==
  ASSUME NEW s, SongOK(s)
  PROVE  /\ \A v \in 1..(Len(PlayedOrders(s)) + 1) : RowsBefore(s, v) \in Nat
         /\ RowsBefore(s, 1) = 0
         /\ \A v \in 1..Len(PlayedOrders(s)) :
              RowsBefore(s, v + 1) = RowsBefore(s, v) + Len(s.pats[Played(s, v)])
         /\ Rows(s) \in Seq(Place)
         /\ RowsBefore(s, Len(PlayedOrders(s)) + 1) = Len(Rows(s))
<1> DEFINE n == Len(PlayedOrders(s))
           R == RowsUpTo(s)
<1>0. n \in Nat
  BY PlayedTypes
<1>1. /\ R \in [0..n -> Seq(Place)] /\ R[0] = <<>>
      /\ \A v \in 1..n : R[v] = R[v - 1] \o RowsOf(s, v)
  BY RowsRecursion
<1>2. ASSUME NEW v \in 1..(n + 1) PROVE RowsBefore(s, v) \in Nat
  <2>1. v - 1 \in 0..n
    BY <1>0
  <2>2. R[v - 1] \in Seq(Place)
    BY <1>1, <2>1
  <2> QED
    BY <2>2 DEF RowsBefore
<1>3. RowsBefore(s, 1) = 0
  BY <1>1 DEF RowsBefore
<1>4. ASSUME NEW v \in 1..n
      PROVE  RowsBefore(s, v + 1) = RowsBefore(s, v) + Len(s.pats[Played(s, v)])
  <2>1. R[v - 1] \in Seq(Place) /\ RowsOf(s, v) \in Seq(Place)
    <3>1. v - 1 \in 0..n
      BY <1>0
    <3>2. R[v - 1] \in Seq(Place)
      BY <1>1, <3>1
    <3>3. RowsOf(s, v) \in Seq(Place)
      BY RowsOfOrder
    <3> QED
      BY <3>2, <3>3
  <2>2. Len(R[v - 1] \o RowsOf(s, v)) = Len(R[v - 1]) + Len(RowsOf(s, v))
    <3> HIDE DEF R
    <3> QED
      BY <2>1, ConcatProperties, Zenon
  <2>3. R[v] = R[v - 1] \o RowsOf(s, v) /\ (v + 1) - 1 = v
    BY <1>0, <1>1
  <2> QED
    BY <2>2, <2>3, RowsOfOrder DEF RowsBefore
<1>5. Rows(s) = R[n] /\ R[n] \in Seq(Place) /\ (n + 1) - 1 = n
  BY <1>0, <1>1 DEF Rows
<1>6. RowsBefore(s, n + 1) = Len(Rows(s))
  BY <1>5 DEF RowsBefore
<1> QED
  BY <1>2, <1>3, <1>4, <1>5, <1>6

LEMMA RowsBeforeMonotone ==
  ASSUME NEW s, SongOK(s), NEW v \in 1..(Len(PlayedOrders(s)) + 1),
         NEW w \in v..(Len(PlayedOrders(s)) + 1)
  PROVE  RowsBefore(s, v) <= RowsBefore(s, w)
<1> DEFINE n == Len(PlayedOrders(s)) + 1
           G == {u \in v..n : RowsBefore(s, v) <= RowsBefore(s, u)}
<1>0. Len(PlayedOrders(s)) \in Nat /\ n \in Nat /\ v \in 1..n
  BY PlayedTypes
<1>1. v \in G
  BY <1>0, RowsBeforeGrows
<1>2. ASSUME NEW u \in (v + 1)..n, u - 1 \in G PROVE u \in G
  <2>1. u - 1 \in 1..Len(PlayedOrders(s)) /\ u \in v..n /\ (u - 1) + 1 = u /\ u \in 1..n
    BY <1>0
  <2>2. RowsBefore(s, u) = RowsBefore(s, u - 1) + Len(s.pats[Played(s, u - 1)])
    BY <2>1, RowsBeforeGrows
  <2>3. Len(s.pats[Played(s, u - 1)]) \in Nat
    BY <2>1, PlayedTypes
  <2>4. RowsBefore(s, u - 1) \in Nat /\ RowsBefore(s, u) \in Nat /\ RowsBefore(s, v) \in Nat
    BY <1>0, <2>1, RowsBeforeGrows
  <2>5. RowsBefore(s, v) <= RowsBefore(s, u - 1)
    BY <1>2
  <2>6. RowsBefore(s, v) <= RowsBefore(s, u)
    BY <2>2, <2>3, <2>4, <2>5
  <2> QED
    BY <2>1, <2>6
<1>3. \A u \in v..n : u \in G
  <2>1. v \in Nat
    BY <1>0
  <2> HIDE DEF G, n
  <2> QED
    BY <1>0, <1>1, <1>2, <2>1, CountUp
<1> QED
  BY <1>3

(* A row says of itself where it stands.                                   *)
StandsAt(s, k, p) ==
  /\ p.at \in 1..Len(PlayedOrders(s)) /\ p.row \in 1..Len(s.pats[Played(s, p.at)])
  /\ k = RowsBefore(s, p.at) + p.row

LEMMA PlacesStand ==
  ASSUME NEW s, SongOK(s)
  PROVE  \A k \in 1..Len(Rows(s)) : StandsAt(s, k, Rows(s)[k])
<1> DEFINE n == Len(PlayedOrders(s))
           R == RowsUpTo(s)
           Well(v) == \A k \in 1..Len(R[v]) : StandsAt(s, k, R[v][k])
           G == {v \in 0..n : Well(v)}
<1>0. n \in Nat
  BY PlayedTypes
<1>1. /\ R \in [0..n -> Seq(Place)] /\ R[0] = <<>>
      /\ \A v \in 1..n : R[v] = R[v - 1] \o RowsOf(s, v)
  BY RowsRecursion
<1>2. 0 \in G
  BY <1>0, <1>1
<1>3. ASSUME NEW v \in (0 + 1)..n, v - 1 \in G PROVE v \in G
  <2>1. v \in 1..n /\ v \in 0..n /\ Well(v - 1)
    BY <1>0, <1>3
  <2> DEFINE p == R[v - 1]
             q == RowsOf(s, v)
  <2>2. p \in Seq(Place) /\ q \in Seq(Place) /\ Len(p) \in Nat /\ Len(q) \in Nat
    <3>1. v - 1 \in 0..n
      BY <1>0, <2>1
    <3>2. p \in Seq(Place)
      BY <1>1, <3>1
    <3>3. q \in Seq(Place)
      BY <2>1, RowsOfOrder
    <3> HIDE DEF p, q
    <3> QED
      BY <3>2, <3>3
  <2>3. R[v] = p \o q
    BY <1>1, <2>1
  <2>4. Len(p) = RowsBefore(s, v)
    BY DEF RowsBefore
  <2>5. \A k \in 1..Len(p) : StandsAt(s, k, p[k])
    BY <2>1
  <2>6. /\ Len(q) = Len(s.pats[Played(s, v)])
        /\ \A r \in 1..Len(q) : q[r] = [at |-> v, row |-> r]
    BY <2>1, RowsOfOrder
  <2> HIDE DEF p, q
  <2>7. Len(p \o q) = Len(p) + Len(q)
    BY <2>2
  <2>8. ASSUME NEW k \in 1..Len(p \o q) PROVE StandsAt(s, k, (p \o q)[k])
    <3>1. CASE k <= Len(p)
      <4>1. (p \o q)[k] = p[k] /\ k \in 1..Len(p)
        BY <2>2, <2>7, <3>1
      <4> QED
        BY <2>5, <4>1
    <3>2. CASE k > Len(p)
      <4>1. (p \o q)[k] = q[k - Len(p)] /\ k - Len(p) \in 1..Len(q)
        BY <2>2, <2>7, <3>2
      <4>2. (p \o q)[k] = [at |-> v, row |-> k - Len(p)]
        BY <2>6, <4>1
      <4>3. k = Len(p) + (k - Len(p))
        BY <2>2, <2>7
      <4> QED
        BY <2>1, <2>4, <2>6, <4>1, <4>2, <4>3 DEF StandsAt
    <3> QED
      BY <2>2, <2>7, <3>1, <3>2
  <2>9. Well(v)
    BY <2>3, <2>8
  <2> QED
    BY <2>1, <2>9
<1>4. n \in G
  <2> HIDE DEF G, n
  <2>1. \A v \in 0..n : v \in G
    BY <1>0, <1>2, <1>3, CountUp
  <2> QED
    BY <1>0, <2>1
<1> QED
  BY <1>4 DEF Rows

(* The rows before an order are those of the orders before it.             *)
LEMMA RowsInOrder ==
  ASSUME NEW s, SongOK(s), NEW v \in 1..(Len(PlayedOrders(s)) + 1), NEW k \in 1..Len(Rows(s))
  PROVE  Rows(s)[k].at < v <=> k <= RowsBefore(s, v)
<1> DEFINE u == Rows(s)[k].at
           r == Rows(s)[k].row
<1>0. Len(PlayedOrders(s)) \in Nat /\ v \in Nat
  BY PlayedTypes
<1>1. /\ u \in 1..Len(PlayedOrders(s)) /\ r \in 1..Len(s.pats[Played(s, u)])
      /\ k = RowsBefore(s, u) + r
  BY PlacesStand DEF StandsAt
<1>2. Len(s.pats[Played(s, u)]) \in Nat /\ RowsBefore(s, u) \in Nat /\ RowsBefore(s, v) \in Nat
  BY <1>0, <1>1, PlayedTypes, RowsBeforeGrows
<1> HIDE DEF u, r
<1>3. CASE u < v
  <2>1. RowsBefore(s, u + 1) = RowsBefore(s, u) + Len(s.pats[Played(s, u)])
    BY <1>1, RowsBeforeGrows
  <2>2. u + 1 \in 1..(Len(PlayedOrders(s)) + 1) /\ v \in (u + 1)..(Len(PlayedOrders(s)) + 1)
    BY <1>0, <1>1, <1>3
  <2>3. RowsBefore(s, u + 1) <= RowsBefore(s, v)
    BY <2>2, RowsBeforeMonotone
  <2>4. k <= RowsBefore(s, v)
    BY <1>1, <1>2, <2>1, <2>3
  <2> QED
    BY <1>3, <2>4 DEF u
<1>4. CASE ~(u < v)
  <2>1. u \in v..(Len(PlayedOrders(s)) + 1)
    BY <1>0, <1>1, <1>4
  <2>2. RowsBefore(s, v) <= RowsBefore(s, u)
    BY <2>1, RowsBeforeMonotone
  <2>3. ~(k <= RowsBefore(s, v))
    BY <1>1, <1>2, <2>2
  <2> QED
    BY <1>4, <2>3 DEF u
<1> QED
  BY <1>3, <1>4

-----------------------------------------------------------------------------
(* What the decoders make of the cells.                                    *)
Sound == Instruments \cup Samples \cup {0}
AnEvent(e) == /\ e.ch \in Channels /\ e.sample \in Sound /\ e.speed \in Nat
              /\ e.note \in BOOLEAN /\ e.off \in BOOLEAN /\ (e.note => ~e.off)

\* The event of a cell: the sample is seen by the decoder of its format.
EventOf(s, e, c) ==
  /\ e.ch = c.ch /\ e.speed = c.speed
  /\ e.note = (c.note \in Keys) /\ e.off = (s.format # "mod" /\ c.note = "cut")
  /\ s.format \in {"mod", "s3m"} => e.sample = c.ins
  /\ s.format = "xm" => e.sample = IF c.note \in Keys /\ c.ins # 0 THEN Keymap[c.ins][c.note] ELSE 0

LEMMA CellTypes ==
  ASSUME NEW c \in Cell
  PROVE  /\ c.ch \in Channels /\ c.speed \in Nat /\ c.ins \in Instruments \cup {0}
         /\ c.note \in Keys \cup {"none", "cut"}
<1>1. CASE c \in [ch : Channels, note : Keys \cup {"none", "cut"}, ins : Instruments \cup {0},
                  speed : {0}]
  BY <1>1
<1>2. CASE c \in [ch : Channels, note : {"none"}, ins : {0}, speed : Speeds]
  BY <1>2, SeekAssumption
<1> QED
  BY <1>1, <1>2 DEF Cell

LEMMA EventFields ==
  ASSUME NEW r, NEW c, NEW x, NEW e, e = Event(r, c, x)
  PROVE  /\ e.ch = c.ch /\ e.sample = x /\ e.speed = c.speed
         /\ e.note = (c.note \in Keys) /\ e.off = (c.note = "cut")
         /\ e.note \in BOOLEAN /\ e.off \in BOOLEAN
<1>1. e = [row |-> r, ch |-> c.ch, sample |-> x, note |-> c.note \in Keys,
           off |-> c.note = "cut", speed |-> c.speed]
  BY DEF Event
<1>2. e.ch = c.ch /\ e.sample = x /\ e.speed = c.speed
  BY <1>1
<1>3. e.note = (c.note \in Keys) /\ e.off = (c.note = "cut")
  BY <1>1
<1>4. e.note \in BOOLEAN /\ e.off \in BOOLEAN
  BY <1>3
<1> QED
  BY <1>2, <1>3, <1>4, Zenon

LEMMA LastInsIsGiven ==
  ASSUME NEW pat \in Seq(Cell), NEW r \in 1..Len(pat)
  PROVE  /\ LastIns(pat, r) \in Instruments \cup {0}
         /\ \A q \in 1..r : /\ pat[q].ch = pat[r].ch /\ pat[q].ins # 0
                            /\ \A t \in (q + 1)..r : pat[t].ch = pat[r].ch => pat[t].ins = 0
                            => LastIns(pat, r) = pat[q].ins
<1> DEFINE given == {q \in 1..r : pat[q].ch = pat[r].ch /\ pat[q].ins # 0}
<1>0. Len(pat) \in Nat /\ r \in Nat
  OBVIOUS
<1>1. given \in SUBSET (0..r)
  BY <1>0
<1>2. LastIns(pat, r) = IF given = {} THEN 0 ELSE pat[Max(given)].ins
  BY DEF LastIns
<1>3. given # {} => Max(given) \in given /\ \A q \in given : q <= Max(given)
  <2> HIDE DEF given
  <2> QED
    BY <1>0, <1>1, GreatestNumber
<1>4. \A q \in 1..r : pat[q].ins \in Instruments \cup {0}
  <2>1. \A q \in 1..r : pat[q] \in Cell
    BY <1>0
  <2> QED
    BY <2>1, CellTypes
<1>5. LastIns(pat, r) \in Instruments \cup {0}
  <2>1. CASE given = {}
    BY <1>2, <2>1
  <2>2. CASE given # {}
    <3>1. Max(given) \in 1..r
      BY <1>3, <2>2
    <3> HIDE DEF given
    <3> QED
      BY <1>2, <1>4, <2>2, <3>1
  <2> QED
    BY <2>1, <2>2
<1>6. ASSUME NEW q \in 1..r, pat[q].ch = pat[r].ch, pat[q].ins # 0,
             \A t \in (q + 1)..r : pat[t].ch = pat[r].ch => pat[t].ins = 0
      PROVE  LastIns(pat, r) = pat[q].ins
  <2>1. q \in given
    BY <1>6
  <2>2. Max(given) \in given /\ q <= Max(given)
    BY <1>3, <2>1
  <2>3. Max(given) \in 1..r /\ ~(Max(given) \in (q + 1)..r)
    BY <1>6, <2>2
  <2> HIDE DEF given
  <2>4. Max(given) = q
    BY <1>0, <2>2, <2>3
  <2> QED
    BY <1>2, <2>1, <2>4
<1> QED
  BY <1>5, <1>6

LEMMA DecodedPattern ==
  ASSUME NEW s, SongOK(s), NEW p \in Patterns, NEW r \in 1..Len(s.pats[p])
  PROVE  /\ AnEvent(Decode(s, p)[r]) /\ EventOf(s, Decode(s, p)[r], s.pats[p][r])
         /\ s.format = "it" =>
              Decode(s, p)[r].sample = SampleForNote(LastIns(s.pats[p], r), s.pats[p][r].note)
<1> DEFINE pat == s.pats[p]
           c == pat[r]
           e == Decode(s, p)[r]
<1>1. pat \in Seq(Cell) /\ r \in DOMAIN pat /\ c \in Cell
  BY DEF SongOK
<1>2. /\ c.ch \in Channels /\ c.speed \in Nat /\ c.ins \in Instruments \cup {0}
      /\ c.note \in Keys \cup {"none", "cut"} /\ (c.note \in Keys => c.note # "cut")
  BY <1>1, CellTypes, SeekAssumption
<1>3. s.format \in {"mod", "s3m", "xm", "it"}
  BY SeekAssumption DEF SongOK
<1>4. CASE s.format = "mod"
  <2>1. e = [Event(r, c, c.ins) EXCEPT !.off = FALSE]
    BY <1>1, <1>4 DEF Decode, ModEvents
  <2> DEFINE full == Event(r, c, c.ins)
  <2>2. full = [row |-> r, ch |-> c.ch, sample |-> c.ins, note |-> c.note \in Keys,
                off |-> c.note = "cut", speed |-> c.speed]
    BY DEF Event
  <2>3. /\ e.ch = full.ch /\ e.sample = full.sample /\ e.speed = full.speed
        /\ e.note = full.note /\ e.off = FALSE
    <3> HIDE DEF e
    <3> QED
      BY <2>1, <2>2
  <2>4. /\ full.ch = c.ch /\ full.sample = c.ins /\ full.speed = c.speed
        /\ full.note = (c.note \in Keys) /\ full.note \in BOOLEAN
    BY EventFields
  <2> HIDE DEF e, c, full
  <2>5. AnEvent(e)
    BY <1>2, <2>3, <2>4 DEF AnEvent, Sound
  <2>6. EventOf(s, e, c)
    BY <1>4, <2>3, <2>4 DEF EventOf
  <2> QED
    BY <1>4, <2>5, <2>6 DEF e, c
<1>5. CASE s.format = "s3m"
  <2>1. e = Event(r, c, c.ins)
    BY <1>1, <1>5 DEF Decode, S3mEvents
  <2> HIDE DEF e, c, pat
  <2>2. /\ e.ch = c.ch /\ e.sample = c.ins /\ e.speed = c.speed
        /\ e.note = (c.note \in Keys) /\ e.off = (c.note = "cut")
        /\ e.note \in BOOLEAN /\ e.off \in BOOLEAN
    BY <2>1, EventFields
  <2>3. AnEvent(e)
    BY <1>2, <2>2 DEF AnEvent, Sound
  <2>4. EventOf(s, e, c)
    BY <1>5, <2>2 DEF EventOf
  <2> QED
    BY <1>5, <2>3, <2>4 DEF e, c, pat
<1>6. CASE s.format = "xm"
  <2> DEFINE x == IF c.note \in Keys /\ c.ins # 0 THEN Keymap[c.ins][c.note] ELSE 0
  <2>1. e = Event(r, c, x)
    BY <1>1, <1>6 DEF Decode, XmEvents
  <2>2. x \in Samples \cup {0}
    BY <1>2, SeekAssumption
  <2> HIDE DEF e, c, pat, x
  <2>5. /\ e.ch = c.ch /\ e.sample = x /\ e.speed = c.speed
        /\ e.note = (c.note \in Keys) /\ e.off = (c.note = "cut")
        /\ e.note \in BOOLEAN /\ e.off \in BOOLEAN
    BY <2>1, EventFields
  <2>3. AnEvent(e)
    BY <1>2, <2>2, <2>5 DEF AnEvent, Sound
  <2>4. EventOf(s, e, c)
    BY <1>6, <2>5 DEF EventOf, x
  <2> QED
    BY <1>6, <2>3, <2>4 DEF e, c, pat
<1>7. CASE s.format = "it"
  <2> DEFINE x == SampleForNote(LastIns(pat, r), c.note)
  <2>1. e = Event(r, c, x)
    BY <1>1, <1>7 DEF Decode, ItEvents
  <2>2. LastIns(pat, r) \in Instruments \cup {0}
    BY <1>1, LastInsIsGiven
  <2>3. x \in Samples \cup {0}
    BY <2>2, SeekAssumption DEF SampleForNote
  <2> HIDE DEF e, c, pat, x
  <2>4. /\ e.ch = c.ch /\ e.sample = x /\ e.speed = c.speed
        /\ e.note = (c.note \in Keys) /\ e.off = (c.note = "cut")
        /\ e.note \in BOOLEAN /\ e.off \in BOOLEAN
    BY <2>1, EventFields
  <2>5. AnEvent(e)
    BY <1>2, <2>3, <2>4 DEF AnEvent, Sound
  <2>6. EventOf(s, e, c)
    BY <1>7, <2>4 DEF EventOf
  <2> QED
    BY <2>4, <2>5, <2>6 DEF x, e, c, pat
<1> QED
  BY <1>3, <1>4, <1>5, <1>6, <1>7

LEMMA EventsDecode ==
  ASSUME NEW s, SongOK(s)
  PROVE  /\ Len(Rows(s)) \in Nat /\ DOMAIN Events(s) = 1..Len(Rows(s))
         /\ DOMAIN Cells(s) = 1..Len(Rows(s))
         /\ Len(Events(s)) = Len(Rows(s)) /\ Len(Cells(s)) = Len(Rows(s))
         /\ \A k \in 1..Len(Rows(s)) :
              /\ Cells(s)[k].at = Rows(s)[k].at /\ Cells(s)[k].cell \in Cell
              /\ AnEvent(Events(s)[k]) /\ EventOf(s, Events(s)[k], Cells(s)[k].cell)
<1> DEFINE R == Rows(s)
<1>1. R \in Seq(Place) /\ Len(R) \in Nat /\ DOMAIN R = 1..Len(R)
  BY RowsBeforeGrows
<1>2. Events(s) = [k \in 1..Len(R) |-> Decode(s, Played(s, R[k].at))[R[k].row]]
  BY <1>1 DEF Events
<1>3. Cells(s) = [k \in 1..Len(R) |->
                    [at |-> R[k].at, cell |-> s.pats[Played(s, R[k].at)][R[k].row]]]
  BY <1>1 DEF Cells
<1>4. ASSUME NEW k \in 1..Len(R)
      PROVE  /\ Cells(s)[k].at = R[k].at /\ Cells(s)[k].cell \in Cell
             /\ AnEvent(Events(s)[k]) /\ EventOf(s, Events(s)[k], Cells(s)[k].cell)
  <2> DEFINE p == Played(s, R[k].at)
             r == R[k].row
  <2>1. p \in Patterns /\ r \in 1..Len(s.pats[p])
    BY PlacesStand, PlayedTypes DEF StandsAt
  <2>2. s.pats[p][r] \in Cell
    BY <2>1 DEF SongOK
  <2>3. Cells(s)[k].at = R[k].at /\ Cells(s)[k].cell = s.pats[p][r] /\ Events(s)[k] = Decode(s, p)[r]
    BY <1>2, <1>3
  <2>4. AnEvent(Decode(s, p)[r]) /\ EventOf(s, Decode(s, p)[r], s.pats[p][r])
    BY <2>1, DecodedPattern
  <2> QED
    BY <2>2, <2>3, <2>4
<1>5. DOMAIN Events(s) = 1..Len(R) /\ Len(Events(s)) = Len(R)
  BY <1>1, <1>2
<1>6. DOMAIN Cells(s) = 1..Len(R) /\ Len(Cells(s)) = Len(R)
  BY <1>1, <1>3
<1> QED
  BY <1>1, <1>4, <1>5, <1>6

-----------------------------------------------------------------------------
(* The walk: what each channel holds and has latched after each row.       *)
WalkState == [held : [Channels -> Sound], latch : [Channels -> Sound]]

LEMMA SilentIsState == Silent \in WalkState
BY DEF Silent, WalkState, Sound

LEMMA SimIsState ==
  ASSUME NEW st \in WalkState, NEW e, AnEvent(e)
  PROVE  /\ ApplySim(st, e) \in WalkState
         /\ \A c \in Channels : c # e.ch => /\ ApplySim(st, e).held[c] = st.held[c]
                                            /\ ApplySim(st, e).latch[c] = st.latch[c]
         /\ ApplySim(st, e).latch[e.ch] = IF e.sample # 0 THEN e.sample ELSE st.latch[e.ch]
         /\ e.note /\ ApplySim(st, e).latch[e.ch] # 0
              => ApplySim(st, e).held[e.ch] = ApplySim(st, e).latch[e.ch]
         /\ ~e.note /\ ~e.off => ApplySim(st, e).held[e.ch] = st.held[e.ch]
<1> DEFINE held  == IF e.off THEN [st.held EXCEPT ![e.ch] = 0] ELSE st.held
           latch == IF e.sample # 0 THEN [st.latch EXCEPT ![e.ch] = e.sample] ELSE st.latch
           x == latch[e.ch]
           after == IF e.note /\ x # 0 THEN [held EXCEPT ![e.ch] = x] ELSE held
<1>1. st.held \in [Channels -> Sound] /\ st.latch \in [Channels -> Sound] /\ 0 \in Sound
  BY DEF WalkState, Sound
<1>2. e.ch \in Channels /\ e.sample \in Sound
  BY DEF AnEvent
<1>3. /\ latch \in [Channels -> Sound]
      /\ latch[e.ch] = IF e.sample # 0 THEN e.sample ELSE st.latch[e.ch]
      /\ \A c \in Channels : c # e.ch => latch[c] = st.latch[c]
  BY <1>1, <1>2
<1>4. /\ held \in [Channels -> Sound] /\ \A c \in Channels : c # e.ch => held[c] = st.held[c]
      /\ ~e.off => held = st.held
  BY <1>1, <1>2
<1> HIDE DEF held, latch
<1>5. /\ after \in [Channels -> Sound] /\ \A c \in Channels : c # e.ch => after[c] = st.held[c]
      /\ e.note /\ x # 0 => after[e.ch] = x
      /\ ~e.note => after = held
  BY <1>2, <1>3, <1>4
<1>6. ApplySim(st, e) = [held |-> after, latch |-> latch]
  BY DEF ApplySim, held, latch
<1> HIDE DEF after
<1> QED
  BY <1>3, <1>4, <1>5, <1>6 DEF WalkState

LEMMA ItIsState ==
  ASSUME NEW st \in WalkState, NEW e, AnEvent(e)
  PROVE  /\ ApplyIt(st, e) \in WalkState
         /\ \A c \in Channels : c # e.ch => ApplyIt(st, e).held[c] = st.held[c]
         /\ e.note /\ e.sample # 0 => ApplyIt(st, e).held[e.ch] = e.sample
         /\ ~e.note /\ ~e.off => ApplyIt(st, e).held[e.ch] = st.held[e.ch]
<1> DEFINE x == IF e.off THEN 0 ELSE IF e.note /\ e.sample # 0 THEN e.sample ELSE st.held[e.ch]
<1>1. st.held \in [Channels -> Sound] /\ st.latch \in [Channels -> Sound] /\ 0 \in Sound
  BY DEF WalkState, Sound
<1>2. e.ch \in Channels /\ e.sample \in Sound /\ (e.note => ~e.off)
  BY DEF AnEvent
<1>3. x \in Sound
  BY <1>1, <1>2
<1>4. ApplyIt(st, e) = [held |-> [st.held EXCEPT ![e.ch] = x], latch |-> st.latch]
  BY DEF ApplyIt, WalkState
<1>5. (e.note /\ e.sample # 0 => x = e.sample) /\ (~e.note /\ ~e.off => x = st.held[e.ch])
  BY <1>2
<1> HIDE DEF x
<1> QED
  BY <1>1, <1>2, <1>3, <1>4, <1>5 DEF WalkState

LEMMA ApplyIsState ==
  ASSUME NEW s, NEW st \in WalkState, NEW e, AnEvent(e)
  PROVE  /\ Apply(s, st, e) \in WalkState
         /\ \A c \in Channels : c # e.ch => Apply(s, st, e).held[c] = st.held[c]
         /\ ~e.note /\ ~e.off => Apply(s, st, e).held[e.ch] = st.held[e.ch]
<1>1. CASE s.format = "it"
  <2>1. Apply(s, st, e) = ApplyIt(st, e)
    BY <1>1 DEF Apply
  <2> QED
    BY <2>1, ItIsState
<1>2. CASE s.format # "it"
  <2>1. Apply(s, st, e) = ApplySim(st, e)
    BY <1>2 DEF Apply
  <2> QED
    BY <2>1, SimIsState
<1> QED
  BY <1>1, <1>2

LEMMA WalkRecursion ==
  ASSUME NEW s, SongOK(s)
  PROVE  /\ WalkUpTo(s) \in [0..Len(Rows(s)) -> WalkState]
         /\ WalkUpTo(s)[0] = Silent
         /\ \A k \in 1..Len(Rows(s)) :
              WalkUpTo(s)[k] = Apply(s, WalkUpTo(s)[k - 1], Events(s)[k])
<1> DEFINE n == Len(Rows(s))
           E == Events(s)
           Is(f) == f = [k \in 0..n |-> IF k = 0 THEN Silent ELSE Apply(s, f[k - 1], E[k])]
           step == [k \in 1..n |-> [st \in WalkState |-> Apply(s, st, E[k])]]
           W == WalkUpTo(s)
<1>1. n \in Nat /\ Len(E) = n /\ \A k \in 1..n : AnEvent(E[k])
  BY EventsDecode
<1>2. step \in [1..n -> [WalkState -> WalkState]]
  BY <1>1, ApplyIsState
<1>3. PICK f \in [0..n -> WalkState] :
        f[0] = Silent /\ \A i \in 1..n : f[i] = step[i][f[i - 1]]
  <2>1. \E f \in [0..n -> WalkState] : Runs(f, n, Silent, step)
    <3> HIDE DEF step, n
    <3> QED
      BY <1>1, <1>2, SilentIsState, RecursionIsThere, Zenon
  <2> QED
    BY <2>1 DEF Runs
<1>4. Is(f)
  <2>1. ASSUME NEW k \in 0..n
        PROVE  f[k] = IF k = 0 THEN Silent ELSE Apply(s, f[k - 1], E[k])
    <3>1. CASE k = 0
      BY <1>3, <3>1
    <3>2. CASE k # 0
      <4>1. k \in 1..n /\ k - 1 \in 0..n
        BY <1>1, <3>2
      <4>2. f[k - 1] \in WalkState
        BY <1>3, <4>1
      <4> QED
        BY <1>3, <3>2, <4>1, <4>2
    <3> QED
      BY <3>1, <3>2
  <2> QED
    BY <1>3, <2>1
<1>5. W = CHOOSE g : Is(g)
  BY <1>1 DEF WalkUpTo
<1>6. Is(W)
  BY <1>4, <1>5
<1>7. W[0] = Silent /\ \A k \in 1..n : W[k] = Apply(s, W[k - 1], E[k])
  <2>1. W[0] = Silent
    BY <1>1, <1>6
  <2>2. ASSUME NEW k \in 1..n PROVE W[k] = Apply(s, W[k - 1], E[k])
    <3>1. k \in 0..n /\ k # 0
      BY <1>1
    <3> QED
      BY <1>6, <3>1
  <2> QED
    BY <2>1, <2>2
<1> DEFINE G == {k \in 0..n : W[k] \in WalkState}
<1>8. \A k \in 0..n : W[k] \in WalkState
  <2>1. 0 \in G
    BY <1>1, <1>7, SilentIsState
  <2>2. ASSUME NEW k \in (0 + 1)..n, k - 1 \in G PROVE k \in G
    <3>1. k \in 1..n /\ k \in 0..n /\ W[k - 1] \in WalkState
      BY <1>1, <2>2
    <3>2. Apply(s, W[k - 1], E[k]) \in WalkState
      BY <1>1, <3>1, ApplyIsState
    <3>3. W[k] \in WalkState
      BY <1>7, <3>1, <3>2
    <3> QED
      BY <3>1, <3>3
  <2>3. \A k \in 0..n : k \in G
    <3> HIDE DEF G, n
    <3> QED
      BY <1>1, <2>1, <2>2, CountUp
  <2> QED
    BY <2>3
<1> QED
  BY <1>6, <1>7, <1>8

(* A channel keeps the sample it was last given, ...                       *)
LEMMA LatchKept ==
  ASSUME NEW s, SongOK(s), s.format # "it", NEW j \in 1..Len(Rows(s)), NEW k \in j..Len(Rows(s)),
         Events(s)[j].sample # 0,
         \A i \in (j + 1)..k : Events(s)[i].ch = Events(s)[j].ch => Events(s)[i].sample = 0
  PROVE  WalkUpTo(s)[k].latch[Events(s)[j].ch] = Events(s)[j].sample
<1> DEFINE E == Events(s)
           W == WalkUpTo(s)
           c == E[j].ch
           G == {i \in j..k : W[i].latch[c] = E[j].sample}
<1>0. /\ Len(Rows(s)) \in Nat /\ j \in Nat /\ k \in Nat
      /\ \A i \in 1..Len(Rows(s)) : AnEvent(E[i])
  BY EventsDecode
<1>1. \A i \in 1..Len(Rows(s)) : W[i - 1] \in WalkState /\ W[i] = ApplySim(W[i - 1], E[i])
  <2> TAKE i \in 1..Len(Rows(s))
  <2>1. i - 1 \in 0..Len(Rows(s))
    BY <1>0
  <2> QED
    BY <2>1, WalkRecursion DEF Apply
<1>2. c \in Channels
  BY <1>0 DEF AnEvent
<1>3. j \in G
  <2>1. W[j - 1] \in WalkState /\ W[j] = ApplySim(W[j - 1], E[j]) /\ AnEvent(E[j])
    BY <1>0, <1>1
  <2>2. ApplySim(W[j - 1], E[j]).latch[c] = E[j].sample
    <3> HIDE DEF W, E
    <3> QED
      BY <2>1, SimIsState DEF E
  <2> QED
    BY <1>0, <2>1, <2>2
<1>4. ASSUME NEW i \in (j + 1)..k, i - 1 \in G PROVE i \in G
  <2>1. i \in 1..Len(Rows(s)) /\ i \in j..k /\ W[i - 1].latch[c] = E[j].sample
    BY <1>0, <1>4
  <2>2. E[i].ch = c => E[i].sample = 0
    OBVIOUS
  <2>3. W[i - 1] \in WalkState /\ W[i] = ApplySim(W[i - 1], E[i]) /\ AnEvent(E[i])
    BY <1>0, <1>1, <2>1
  <2> HIDE DEF W, E, c
  <2>4. W[i].latch[c] = E[j].sample
    <3>1. CASE E[i].ch = c
      BY <2>1, <2>2, <2>3, <3>1, SimIsState
    <3>2. CASE E[i].ch # c
      BY <1>2, <2>1, <2>3, <3>2, SimIsState
    <3> QED
      BY <3>1, <3>2
  <2> QED
    BY <2>1, <2>4
<1>5. \A i \in j..k : i \in G
  <2> HIDE DEF G
  <2> QED
    BY <1>0, <1>3, <1>4, CountUp
<1> QED
  BY <1>0, <1>5

(* ... and holds a note until the next note or cut.                        *)
LEMMA HeldKept ==
  ASSUME NEW s, SongOK(s), NEW h \in 1..Len(Rows(s)), NEW k \in h..Len(Rows(s)),
         NEW c \in Channels, NEW x, WalkUpTo(s)[h].held[c] = x,
         \A i \in (h + 1)..k : Events(s)[i].ch = c => ~Events(s)[i].note /\ ~Events(s)[i].off
  PROVE  WalkUpTo(s)[k].held[c] = x
<1> DEFINE E == Events(s)
           W == WalkUpTo(s)
           G == {i \in h..k : W[i].held[c] = x}
<1>0. /\ Len(Rows(s)) \in Nat /\ h \in Nat /\ k \in Nat
      /\ \A i \in 1..Len(Rows(s)) : AnEvent(E[i])
  BY EventsDecode
<1>1. \A i \in 1..Len(Rows(s)) : W[i - 1] \in WalkState /\ W[i] = Apply(s, W[i - 1], E[i])
  <2> TAKE i \in 1..Len(Rows(s))
  <2>1. i - 1 \in 0..Len(Rows(s))
    BY <1>0
  <2> QED
    BY <2>1, WalkRecursion
<1>3. h \in G
  BY <1>0
<1>4. ASSUME NEW i \in (h + 1)..k, i - 1 \in G PROVE i \in G
  <2>1. i \in 1..Len(Rows(s)) /\ i \in h..k /\ W[i - 1].held[c] = x
    BY <1>0, <1>4
  <2>2. E[i].ch = c => ~E[i].note /\ ~E[i].off
    OBVIOUS
  <2>3. W[i - 1] \in WalkState /\ W[i] = Apply(s, W[i - 1], E[i]) /\ AnEvent(E[i])
    BY <1>0, <1>1, <2>1
  <2> HIDE DEF W, E
  <2>4. W[i].held[c] = x
    <3>1. CASE E[i].ch = c
      BY <2>1, <2>2, <2>3, <3>1, ApplyIsState
    <3>2. CASE E[i].ch # c
      BY <2>1, <2>3, <3>2, ApplyIsState
    <3> QED
      BY <3>1, <3>2
  <2> QED
    BY <2>1, <2>4
<1>5. \A i \in h..k : i \in G
  <2> HIDE DEF G
  <2> QED
    BY <1>0, <1>3, <1>4, CountUp
<1> QED
  BY <1>0, <1>5

-----------------------------------------------------------------------------
(* The sample a note plays, as the decoders see it.                        *)
LEMMA CellsAndEvents ==
  ASSUME NEW s, SongOK(s), NEW k \in 1..Len(Rows(s))
  PROVE  /\ Rows(s)[k].at \in 1..Len(PlayedOrders(s)) /\ Played(s, Rows(s)[k].at) \in Patterns
         /\ s.pats[Played(s, Rows(s)[k].at)] \in Seq(Cell)
         /\ Rows(s)[k].row \in 1..Len(s.pats[Played(s, Rows(s)[k].at)])
         /\ k = RowsBefore(s, Rows(s)[k].at) + Rows(s)[k].row
         /\ RowsBefore(s, Rows(s)[k].at) \in Nat
         /\ Cells(s)[k].cell = s.pats[Played(s, Rows(s)[k].at)][Rows(s)[k].row]
         /\ Events(s)[k] = Decode(s, Played(s, Rows(s)[k].at))[Rows(s)[k].row]
<1>1. StandsAt(s, k, Rows(s)[k])
  BY PlacesStand
<1>2. Len(PlayedOrders(s)) \in Nat /\ Rows(s)[k].at \in 1..(Len(PlayedOrders(s)) + 1)
  BY <1>1, PlayedTypes DEF StandsAt
<1>3. k \in DOMAIN Rows(s)
  BY RowsBeforeGrows
<1> QED
  BY <1>1, <1>2, <1>3, PlayedTypes, RowsBeforeGrows DEF StandsAt, Cells, Events

\* j is where the channel of the k-th cell was last given an instrument.
LastGiven(C, k, j) ==
  /\ j \in 1..k /\ C[j].cell.ch = C[k].cell.ch /\ C[j].cell.ins # 0
  /\ \A i \in (j + 1)..k : C[i].cell.ch = C[k].cell.ch => C[i].cell.ins = 0

LEMMA GivenIsLast ==
  ASSUME NEW C, NEW k \in Nat
  PROVE  /\ GivenAt(C, k) # 0 => LastGiven(C, k, GivenAt(C, k))
         /\ \A j \in 1..k : C[j].cell.ch = C[k].cell.ch /\ C[j].cell.ins # 0 => GivenAt(C, k) # 0
<1> DEFINE given == {0} \cup {j \in 1..k : C[j].cell.ch = C[k].cell.ch /\ C[j].cell.ins # 0}
           g == Max(given)
<1>1. GivenAt(C, k) = g
  BY DEF GivenAt
<1>2. given \in SUBSET (0..k) /\ given # {}
  OBVIOUS
<1>3. g \in given /\ \A j \in given : j <= g
  <2> HIDE DEF given
  <2> QED
    BY <1>2, GreatestNumber
<1>4. g # 0 => LastGiven(C, k, g)
  <2> SUFFICES ASSUME g # 0 PROVE LastGiven(C, k, g)
    OBVIOUS
  <2>1. g \in 1..k /\ C[g].cell.ch = C[k].cell.ch /\ C[g].cell.ins # 0
    BY <1>3
  <2>2. ASSUME NEW i \in (g + 1)..k, C[i].cell.ch = C[k].cell.ch, C[i].cell.ins # 0 PROVE FALSE
    <3> HIDE DEF g
    <3>1. i \in 1..k /\ ~(i <= g)
      BY <2>1
    <3>2. i \in given
      BY <2>2, <3>1
    <3> QED
      BY <1>3, <3>1, <3>2
  <2> HIDE DEF g
  <2> QED
    BY <2>1, <2>2 DEF LastGiven
<1>5. ASSUME NEW j \in 1..k, C[j].cell.ch = C[k].cell.ch, C[j].cell.ins # 0 PROVE g # 0
  <2>1. j \in given
    BY <1>5
  <2> HIDE DEF g, given
  <2> QED
    BY <1>3, <2>1
<1> QED
  BY <1>1, <1>4, <1>5

(* Within one pattern of the IT family the decoder sees what was given.    *)
LEMMA ItSeesGiven ==
  ASSUME NEW s, SongOK(s), NEW k \in 1..Len(Rows(s)), NEW j,
         LastGiven(Cells(s), k, j), Cells(s)[j].at = Cells(s)[k].at
  PROVE  LastIns(s.pats[Played(s, Rows(s)[k].at)], Rows(s)[k].row) = Cells(s)[j].cell.ins
<1> DEFINE C == Cells(s)
           v == Rows(s)[k].at
           pat == s.pats[Played(s, v)]
           b == RowsBefore(s, v)
           q == Rows(s)[j].row
           r == Rows(s)[k].row
<1>0. /\ Len(Rows(s)) \in Nat /\ j \in 1..Len(Rows(s)) /\ j <= k /\ j \in Nat /\ k \in Nat
      /\ \A i \in 1..Len(Rows(s)) : C[i].at = Rows(s)[i].at
  BY EventsDecode DEF LastGiven
<1>1. Rows(s)[j].at = v
  BY <1>0
<1>2. /\ v \in 1..Len(PlayedOrders(s)) /\ pat \in Seq(Cell) /\ Len(pat) \in Nat /\ b \in Nat
      /\ q \in 1..Len(pat) /\ r \in 1..Len(pat) /\ k = b + r /\ j = b + q
      /\ C[k].cell = pat[r] /\ C[j].cell = pat[q]
  <2>1. /\ v \in 1..Len(PlayedOrders(s)) /\ pat \in Seq(Cell) /\ b \in Nat
        /\ r \in 1..Len(pat) /\ k = b + r /\ C[k].cell = pat[r]
    BY CellsAndEvents
  <2>2. q \in 1..Len(pat) /\ j = b + q /\ C[j].cell = pat[q]
    <3>1. /\ q \in 1..Len(s.pats[Played(s, Rows(s)[j].at)])
          /\ j = RowsBefore(s, Rows(s)[j].at) + q
          /\ C[j].cell = s.pats[Played(s, Rows(s)[j].at)][q]
      BY <1>0, CellsAndEvents
    <3> QED
      BY <1>1, <3>1
  <2> QED
    BY <2>1, <2>2
<1>3. ASSUME NEW t \in (q + 1)..r PROVE b + t \in (j + 1)..k /\ C[b + t].cell = pat[t]
  <2> DEFINE i == b + t
  <2> HIDE DEF pat, v, b, q, r
  <2>1. i \in (j + 1)..k /\ i \in 1..Len(Rows(s)) /\ i = b + t /\ t \in 1..Len(pat)
    <3>1. t \in Nat /\ q + 1 <= t /\ t <= r /\ 1 <= q /\ r <= Len(pat) /\ q \in Nat /\ r \in Nat
      BY <1>2
    <3>2. t \in 1..Len(pat)
      BY <1>2, <3>1
    <3>3. i \in (j + 1)..k
      BY <1>2, <3>1
    <3>4. 1 <= j /\ k <= Len(Rows(s)) /\ Len(Rows(s)) \in Nat /\ j \in Nat
      BY <1>0
    <3> HIDE DEF i
    <3>5. i \in 1..Len(Rows(s))
      BY <3>3, <3>4
    <3> QED
      BY <3>2, <3>3, <3>5 DEF i
  <2>2. /\ Len(PlayedOrders(s)) \in Nat /\ v \in 1..(Len(PlayedOrders(s)) + 1) /\ v \in Nat
        /\ v + 1 \in 1..(Len(PlayedOrders(s)) + 1)
    <3>1. Len(PlayedOrders(s)) \in Nat
      BY PlayedTypes
    <3> QED
      BY <1>2, <3>1
  <2> HIDE DEF i
  <2>3. RowsBefore(s, v + 1) = b + Len(pat)
    BY <1>2, RowsBeforeGrows DEF b, pat
  <2>4. ~(i <= b) /\ i <= RowsBefore(s, v + 1)
    BY <1>2, <2>1, <2>3
  <2>5. ~(Rows(s)[i].at < v) /\ Rows(s)[i].at < v + 1
    BY <2>1, <2>2, <2>4, RowsInOrder DEF b
  <2>6. /\ Rows(s)[i].at \in 1..Len(PlayedOrders(s))
        /\ i = RowsBefore(s, Rows(s)[i].at) + Rows(s)[i].row
        /\ Rows(s)[i].row \in 1..Len(s.pats[Played(s, Rows(s)[i].at)])
        /\ C[i].cell = s.pats[Played(s, Rows(s)[i].at)][Rows(s)[i].row]
    BY <2>1, CellsAndEvents
  <2>7. Rows(s)[i].at = v
    BY <2>2, <2>5, <2>6
  <2>8. i = b + Rows(s)[i].row /\ Rows(s)[i].row \in 1..Len(pat) /\ C[i].cell = pat[Rows(s)[i].row]
    BY <2>6, <2>7 DEF b, pat
  <2>9. Rows(s)[i].row = t
    BY <1>2, <2>1, <2>8
  <2> QED
    BY <2>1, <2>8, <2>9 DEF i
<1>4. pat[q].ch = pat[r].ch /\ pat[q].ins # 0
  BY <1>2 DEF LastGiven
<1>5. ASSUME NEW t \in (q + 1)..r, pat[t].ch = pat[r].ch PROVE pat[t].ins = 0
  BY <1>2, <1>3, <1>5 DEF LastGiven
<1>6. q \in 1..r
  BY <1>0, <1>2
<1> HIDE DEF pat, q, r, v
<1>7. LastIns(pat, r) = pat[q].ins
  BY <1>2, <1>4, <1>5, <1>6, LastInsIsGiven
<1> QED
  BY <1>2, <1>7 DEF pat, r, v

\* x is what the k-th event strikes, seen by the walk from the j-th on.
Strikes(s, k, j, x) ==
  LET E == Events(s) IN
  /\ E[k].note /\ ~E[k].off /\ j \in 1..k /\ E[j].ch = E[k].ch
  /\ IF s.format = "it" THEN E[k].sample = x
     ELSE /\ E[j].sample = x
          /\ \A i \in (j + 1)..k : E[i].ch = E[k].ch => E[i].sample = 0

LEMMA NoteStrikes ==
  ASSUME NEW s, SongOK(s), NEW k \in Notes(Cells(s)), ~Unseen(s, Cells(s), k)
  PROVE  /\ k \in 1..Len(Rows(s))
         /\ Strikes(s, k, GivenAt(Cells(s), k), Plays(s, Cells(s), k))
<1> DEFINE C == Cells(s)
           E == Events(s)
           j == GivenAt(C, k)
           x == Plays(s, C, k)
<1>1. k \in 1..Len(Rows(s)) /\ C[k].cell.note \in Keys /\ j # 0
  BY EventsDecode DEF Notes
<1>2. Len(Rows(s)) \in Nat /\ k \in Nat
  BY <1>1, EventsDecode
<1>3. LastGiven(C, k, j)
  BY <1>1, <1>2, GivenIsLast
<1> HIDE DEF j
<1>4. j \in 1..k /\ j \in 1..Len(Rows(s)) /\ \A i \in (j + 1)..k : i \in 1..Len(Rows(s))
  BY <1>1, <1>2, <1>3 DEF LastGiven
<1>5. \A i \in 1..Len(Rows(s)) : AnEvent(E[i]) /\ EventOf(s, E[i], C[i].cell) /\ C[i].cell \in Cell
  BY EventsDecode
<1>6. E[k].note /\ ~E[k].off /\ E[j].ch = E[k].ch
  <2>1. E[j].ch = E[k].ch
    BY <1>1, <1>3, <1>4, <1>5 DEF EventOf, LastGiven
  <2>2. E[k].note
    BY <1>1, <1>5 DEF EventOf
  <2> QED
    BY <1>1, <1>5, <2>1, <2>2 DEF AnEvent
<1>7. s.format \in {"mod", "s3m", "xm", "it"}
  BY SeekAssumption DEF SongOK
<1>8. CASE s.format = "it"
  <2>1. C[j].at = C[k].at
    BY <1>8 DEF Unseen, j
  <2>2. LastIns(s.pats[Played(s, Rows(s)[k].at)], Rows(s)[k].row) = C[j].cell.ins
    BY <1>1, <1>3, <2>1, ItSeesGiven
  <2>3. E[k].sample = SampleForNote(C[j].cell.ins, C[k].cell.note)
    <3> DEFINE p == Played(s, Rows(s)[k].at)
               r == Rows(s)[k].row
    <3>1. p \in Patterns /\ r \in 1..Len(s.pats[p]) /\ C[k].cell = s.pats[p][r] /\ E[k] = Decode(s, p)[r]
      BY <1>1, CellsAndEvents
    <3>2. LastIns(s.pats[p], r) = C[j].cell.ins
      BY <2>2
    <3> HIDE DEF p, r
    <3>3. Decode(s, p)[r].sample = SampleForNote(LastIns(s.pats[p], r), s.pats[p][r].note)
      BY <1>8, <3>1, DecodedPattern
    <3> QED
      BY <3>1, <3>2, <3>3
  <2>4. E[k].sample = Keymap[C[j].cell.ins][C[k].cell.note]
    BY <1>1, <1>3, <2>3 DEF SampleForNote, LastGiven
  <2>5. x = Keymap[C[j].cell.ins][C[k].cell.note]
    BY <1>8 DEF Plays, j
  <2> QED
    BY <1>1, <1>4, <1>6, <1>8, <2>4, <2>5 DEF Strikes, j
<1>9. CASE s.format \in {"mod", "s3m"}
  <2>1. E[j].sample = C[j].cell.ins /\ x = C[j].cell.ins
    BY <1>4, <1>5, <1>9 DEF EventOf, Plays, j
  <2>2. ASSUME NEW i \in (j + 1)..k, E[i].ch = E[k].ch PROVE E[i].sample = 0
    <3>1. C[i].cell.ch = C[k].cell.ch
      BY <1>1, <1>4, <1>5, <2>2 DEF EventOf
    <3> QED
      BY <1>3, <1>4, <1>5, <1>9, <3>1 DEF EventOf, LastGiven
  <2> QED
    BY <1>1, <1>4, <1>6, <1>9, <2>1, <2>2 DEF Strikes, j
<1>10. CASE s.format = "xm"
  <2>1. x = Keymap[C[j].cell.ins][C[k].cell.note]
    BY <1>10 DEF Plays, j
  <2>2. C[j].cell.note \in Keys /\ Keymap[C[j].cell.ins][C[j].cell.note] = x
    <3>1. CASE j = k
      BY <1>1, <2>1, <3>1
    <3>2. CASE j # k
      BY <1>10, <3>2 DEF Unseen, j
    <3> QED
      BY <3>1, <3>2
  <2>3. E[j].sample = x
    BY <1>3, <1>4, <1>5, <1>10, <2>2 DEF EventOf, LastGiven
  <2>4. ASSUME NEW i \in (j + 1)..k, E[i].ch = E[k].ch PROVE E[i].sample = 0
    <3>1. C[i].cell.ch = C[k].cell.ch
      BY <1>1, <1>4, <1>5, <2>4 DEF EventOf
    <3> QED
      BY <1>3, <1>4, <1>5, <1>10, <3>1 DEF EventOf, LastGiven
  <2> QED
    BY <1>1, <1>4, <1>6, <1>10, <2>3, <2>4 DEF Strikes, j
<1> QED
  BY <1>7, <1>8, <1>9, <1>10

-----------------------------------------------------------------------------
(* What is struck within the span is among what the checkpoint counts as   *)
(* struck, and what rings into it is among what it counts as held.         *)
LEMMA StruckCounts ==
  ASSUME NEW s, SongOK(s), NEW k \in 1..Len(Rows(s)), NEW j, NEW x, Strikes(s, k, j, x), x # 0,
         NEW first \in 1..k, NEW last \in k..Len(Rows(s))
  PROVE  x \in Struck(s, WalkUpTo(s)[first - 1].latch, first, last)
<1> DEFINE E == Events(s)
           latch == WalkUpTo(s)[first - 1].latch
           latched(i) == {t \in first..i : E[t].ch = E[i].ch /\ E[t].sample # 0}
           sample(i) == IF s.format = "it" THEN E[i].sample
                        ELSE IF latched(i) = {} THEN latch[E[i].ch] ELSE E[Max(latched(i))].sample
<1>0. Len(Rows(s)) \in Nat /\ k \in Nat /\ first \in Nat /\ last \in Nat
  BY EventsDecode
<1>1. Struck(s, latch, first, last) = {sample(i) : i \in {t \in first..last : E[t].note}}
  BY DEF Struck
<1>2. k \in {t \in first..last : E[t].note}
  BY <1>0 DEF Strikes
<1>3. sample(k) = x
  <2>1. CASE s.format = "it"
    BY <2>1 DEF Strikes
  <2>2. CASE s.format # "it"
    <3>1. /\ j \in 1..k /\ E[j].ch = E[k].ch /\ E[j].sample = x
          /\ \A i \in (j + 1)..k : E[i].ch = E[k].ch => E[i].sample = 0
      BY <2>2 DEF Strikes
    <3>2. CASE j >= first
      <4>1. j \in latched(k)
        BY <1>0, <3>1, <3>2
      <4>2. latched(k) \in SUBSET (0..k)
        BY <1>0
      <4>3. Max(latched(k)) \in latched(k) /\ j <= Max(latched(k))
        <5> DEFINE S == latched(k)
        <5> HIDE DEF S
        <5>1. S \in SUBSET (0..k) /\ j \in S
          BY <4>1, <4>2 DEF S
        <5>2. Max(S) \in S /\ j <= Max(S)
          BY <1>0, <5>1, GreatestNumber
        <5> QED
          BY <5>2 DEF S
      <4>4. Max(latched(k)) = j
        BY <1>0, <3>1, <4>3
      <4> QED
        BY <2>2, <3>1, <4>1, <4>4
    <3>3. CASE j < first
      <4>1. latched(k) = {}
        BY <1>0, <3>1, <3>3
      <4>2. j \in 1..Len(Rows(s)) /\ first - 1 \in j..Len(Rows(s))
        BY <1>0, <3>1, <3>3
      <4>3. \A i \in (j + 1)..(first - 1) : E[i].ch = E[j].ch => E[i].sample = 0
        BY <1>0, <3>1
      <4>4. latch[E[j].ch] = E[j].sample
        BY <2>2, <3>1, <4>2, <4>3, LatchKept
      <4> QED
        BY <2>2, <3>1, <4>1, <4>4
    <3> QED
      BY <1>0, <3>1, <3>2, <3>3
  <2> QED
    BY <2>1, <2>2
<1> HIDE DEF sample
<1> QED
  BY <1>1, <1>2, <1>3

LEMMA StruckIsHeld ==
  ASSUME NEW s, SongOK(s), NEW k \in 1..Len(Rows(s)), NEW j, NEW x, Strikes(s, k, j, x), x # 0
  PROVE  WalkUpTo(s)[k].held[Events(s)[k].ch] = x
<1> DEFINE e == Events(s)[k]
           st == WalkUpTo(s)[k - 1]
<1>0. Len(Rows(s)) \in Nat /\ AnEvent(e) /\ k - 1 \in 0..Len(Rows(s))
  BY EventsDecode
<1>1. st \in WalkState /\ WalkUpTo(s)[k] = Apply(s, st, e)
  BY <1>0, WalkRecursion
<1>2. e.note
  BY DEF Strikes
<1>3. CASE s.format = "it"
  <2>1. e.sample = x
    BY <1>3 DEF Strikes
  <2>2. WalkUpTo(s)[k] = ApplyIt(st, e)
    BY <1>1, <1>3 DEF Apply
  <2> HIDE DEF e, st
  <2> QED
    BY <1>0, <1>1, <1>2, <2>1, <2>2, ItIsState DEF e
<1>4. CASE s.format # "it"
  <2>1. /\ j \in 1..k /\ Events(s)[j].ch = e.ch /\ Events(s)[j].sample = x
        /\ \A i \in (j + 1)..k : Events(s)[i].ch = Events(s)[j].ch => Events(s)[i].sample = 0
    BY <1>4 DEF Strikes
  <2>2. j \in 1..Len(Rows(s)) /\ k \in j..Len(Rows(s))
    BY <1>0, <2>1
  <2>3. WalkUpTo(s)[k].latch[e.ch] = x
    BY <1>4, <2>1, <2>2, LatchKept
  <2>4. WalkUpTo(s)[k] = ApplySim(st, e)
    BY <1>1, <1>4 DEF Apply
  <2> HIDE DEF e, st
  <2> QED
    BY <1>0, <1>1, <1>2, <2>3, <2>4, SimIsState DEF e
<1> QED
  BY <1>3, <1>4

LEMMA HeardIsCounted ==
  ASSUME NEW s, SongOK(s), NEW v \in 1..Len(PlayedOrders(s)), NEW start \in 1..v,
         NEW next \in (v + 1)..(Len(PlayedOrders(s)) + 1),
         NEW h \in HeardAt(s, Cells(s), v), ~Unseen(s, Cells(s), h), Plays(s, Cells(s), h) # 0
  PROVE  Plays(s, Cells(s), h) \in
           {Walk(s, start).held[c] : c \in Channels} \cup
             Struck(s, Walk(s, start).latch, RowsBefore(s, start) + 1, RowsBefore(s, next))
<1> DEFINE C == Cells(s)
           E == Events(s)
           x == Plays(s, C, h)
           m == RowsBefore(s, start)
           j == GivenAt(C, h)
<1>1. h \in Notes(C) /\ h \in 1..Len(Rows(s)) /\ Strikes(s, h, j, x)
  <2>1. h \in Notes(C)
    BY DEF HeardAt
  <2> QED
    BY <2>1, NoteStrikes
<1>2. /\ Len(Rows(s)) \in Nat /\ Len(PlayedOrders(s)) \in Nat /\ Len(C) = Len(Rows(s))
      /\ start \in 1..(Len(PlayedOrders(s)) + 1) /\ next \in 1..(Len(PlayedOrders(s)) + 1)
      /\ C[h].at = Rows(s)[h].at /\ Rows(s)[h].at \in 1..Len(PlayedOrders(s))
  BY <1>1, PlayedTypes, EventsDecode, CellsAndEvents
<1>3. m \in Nat /\ RowsBefore(s, next) \in Nat /\ RowsBefore(s, next) <= Len(Rows(s))
  <2>1. Len(PlayedOrders(s)) + 1 \in next..(Len(PlayedOrders(s)) + 1)
        /\ Len(PlayedOrders(s)) + 1 \in 1..(Len(PlayedOrders(s)) + 1)
    BY <1>2
  <2> QED
    BY <1>2, <2>1, RowsBeforeGrows, RowsBeforeMonotone
<1> HIDE DEF x, j
<1>4. CASE ~(C[h].at < start)
  <2>1. C[h].at <= v
    BY <1>2 DEF HeardAt
  <2>2. ~(h <= m) /\ h <= RowsBefore(s, next)
    BY <1>1, <1>2, <2>1, <1>4, RowsInOrder
  <2>3. m + 1 \in 1..h /\ RowsBefore(s, next) \in h..Len(Rows(s)) /\ (m + 1) - 1 = m
    BY <1>1, <1>2, <1>3, <2>2
  <2>4. x # 0
    BY DEF x
  <2> HIDE DEF m
  <2>5. x \in Struck(s, WalkUpTo(s)[(m + 1) - 1].latch, m + 1, RowsBefore(s, next))
    BY <1>1, <2>3, <2>4, StruckCounts
  <2> QED
    BY <2>3, <2>5 DEF Walk, x, m
<1>5. CASE C[h].at < start
  <2>1. h <= m
    BY <1>1, <1>2, <1>5, RowsInOrder
  <2>2. m <= Len(Rows(s))
    <3>1. RowsBefore(s, start) <= RowsBefore(s, next)
      BY <1>2, RowsBeforeMonotone
    <3> QED
      BY <1>2, <1>3, <3>1
  <2>3. m \in h..Len(Rows(s))
    BY <1>1, <1>2, <1>3, <2>1, <2>2
  <2>4. ASSUME NEW i \in (h + 1)..m, E[i].ch = E[h].ch PROVE ~E[i].note /\ ~E[i].off
    <3>1. i \in 1..Len(Rows(s)) /\ i \in (h + 1)..Len(C) /\ i \in Nat
      BY <1>1, <1>2, <1>3, <2>2
    <3>2. C[i].at = Rows(s)[i].at /\ Rows(s)[i].at < start /\ Rows(s)[i].at \in Nat
      BY <1>2, <1>3, <3>1, EventsDecode, CellsAndEvents, RowsInOrder
    <3>3. C[i].at < v
      BY <3>2
    <3>4. /\ EventOf(s, E[i], C[i].cell) /\ EventOf(s, E[h], C[h].cell)
          /\ C[i].cell.ch = C[h].cell.ch
      <4>1. EventOf(s, E[i], C[i].cell) /\ EventOf(s, E[h], C[h].cell)
        BY <1>1, <3>1, EventsDecode
      <4> QED
        BY <2>4, <4>1 DEF EventOf
    <3>5. ~Stops(s, C, i)
      <4>1. C[h].at # v
        BY <1>2, <1>5
      <4> QED
        BY <3>1, <3>3, <3>4, <4>1 DEF HeardAt
    <3>6. C[i].cell.note \notin Keys
      <4> SUFFICES ASSUME C[i].cell.note \in Keys PROVE FALSE
        OBVIOUS
      <4>1. LastGiven(C, h, j)
        <5>1. j # 0
          BY <1>1 DEF Notes, j
        <5> QED
          BY <1>1, <5>1, GivenIsLast DEF j
      <4>2. j \in 1..i /\ C[j].cell.ch = C[i].cell.ch /\ C[j].cell.ins # 0
        BY <1>1, <3>1, <3>4, <4>1 DEF LastGiven
      <4>3. GivenAt(C, i) # 0
        BY <3>1, <4>2, GivenIsLast
      <4>4. i \in DOMAIN C
        BY <3>1, EventsDecode
      <4> QED
        BY <3>5, <4>3, <4>4 DEF Stops, Notes
    <3>7. s.format # "mod" => C[i].cell.note # "cut"
      BY <3>5 DEF Stops
    <3> HIDE DEF E, C
    <3> QED
      BY <3>4, <3>6, <3>7 DEF EventOf
  <2>5. x # 0
    BY DEF x
  <2>6. WalkUpTo(s)[h].held[E[h].ch] = x
    BY <1>1, <2>5, StruckIsHeld
  <2>7. E[h].ch \in Channels
    BY <1>1, EventsDecode DEF AnEvent
  <2> HIDE DEF m
  <2>8. WalkUpTo(s)[m].held[E[h].ch] = x
    <3> DEFINE c == E[h].ch
    <3>1. \A i \in (h + 1)..m :
            Events(s)[i].ch = c => ~Events(s)[i].note /\ ~Events(s)[i].off
      BY <2>4
    <3>2. h \in 1..Len(Rows(s)) /\ c \in Channels /\ WalkUpTo(s)[h].held[c] = x
      BY <1>1, <2>6, <2>7
    <3>3. WalkUpTo(s)[m].held[c] = x
      <4> HIDE DEF c, x, E, C
      <4> QED
        BY <2>3, <3>1, <3>2, HeldKept
    <3> QED
      BY <3>3
  <2>9. x \in {Walk(s, start).held[c] : c \in Channels}
    BY <2>7, <2>8 DEF Walk, m
  <2> QED
    BY <2>9 DEF x
<1> QED
  BY <1>4, <1>5

-----------------------------------------------------------------------------
(* Every order has its checkpoint: the arithmetic of the stride.           *)
LEMMA MinOfTwo ==
  ASSUME NEW a \in Int, NEW b \in Int
  PROVE  Min({a, b}) = IF a <= b THEN a ELSE b
BY DEF Min

LEMMA MaxOfTwo ==
  ASSUME NEW a \in Int, NEW b \in Int
  PROVE  Max({a, b}) = IF a <= b THEN b ELSE a
BY DEF Max

LEMMA Quotient ==
  ASSUME NEW a \in Nat, NEW d \in Nat \ {0}
  PROVE  a \div d \in Nat /\ (a \div d) * d <= a /\ a < (a \div d) * d + d
OBVIOUS

LEMMA QuotientIsMost ==
  ASSUME NEW a \in Nat, NEW d \in Nat \ {0}, NEW q \in Nat, q * d <= a
  PROVE  q <= a \div d
OBVIOUS

LEMMA Multiples ==
  ASSUME NEW p \in Nat, NEW d \in Nat \ {0}, NEW q \in Nat
  PROVE  /\ p * d \in Nat /\ (p + 1) * d = p * d + d
         /\ p <= q => p * d <= q * d
OBVIOUS

LEMMA StrideIsPositive ==
  ASSUME NEW s, SongOK(s)
  PROVE  Stride(s) \in Nat \ {0}
<1>1. Len(PlayedOrders(s)) \in Nat /\ MaxCheckpoints \in Nat \ {0}
  BY PlayedTypes, SeekAssumption
<1> DEFINE a == Len(PlayedOrders(s)) + MaxCheckpoints - 1
           x == a \div MaxCheckpoints
<1>2. a \in Nat
  BY <1>1
<1> HIDE DEF a
<1>3. x \in Nat
  BY <1>1, <1>2, Quotient
<1>4. Stride(s) = Max({1, x})
  BY DEF Stride, a
<1> HIDE DEF x
<1> QED
  BY <1>3, <1>4, MaxOfTwo

\* Where the k-th checkpoint stands, and how many there are.
Start(s, k) == (k - 1) * Stride(s) + 1
Count(s) == (Len(PlayedOrders(s)) + Stride(s) - 1) \div Stride(s)

LEMMA TableShape ==
  ASSUME NEW s, SongOK(s)
  PROVE  /\ Count(s) \in Nat /\ DOMAIN Checkpoints(s) = 1..Count(s) /\ Len(Checkpoints(s)) = Count(s)
         /\ \A k \in 1..Count(s) :
              /\ Checkpoints(s)[k].order = PlayedOrders(s)[Start(s, k)]
              /\ Checkpoints(s)[k].resident = Resident(s, Start(s, k))
              /\ Start(s, k) \in 1..Len(PlayedOrders(s))
         /\ \A k \in 2..Count(s) : Start(s, k - 1) < Start(s, k)
<1> DEFINE N == Len(PlayedOrders(s))
           d == Stride(s)
           T == Checkpoints(s)
<1>1. N \in Nat /\ d \in Nat \ {0}
  BY PlayedTypes, StrideIsPositive
<1>2. Count(s) \in Nat /\ Count(s) * d <= N + d - 1
  <2>1. N + d - 1 \in Nat
    BY <1>1
  <2> HIDE DEF N, d
  <2> QED
    BY <1>1, <2>1, Quotient DEF Count, N, d
<1>3. T = [k \in 1..Count(s) |->
             [order |-> PlayedOrders(s)[Start(s, k)], resident |-> Resident(s, Start(s, k))]]
  BY DEF Checkpoints, Count, Start
<1>4. DOMAIN T = 1..Count(s) /\ Len(T) = Count(s)
  BY <1>2, <1>3
<1>5. ASSUME NEW k \in 1..Count(s) PROVE Start(s, k) \in 1..N
  <2>1. k - 1 \in Nat /\ k \in Nat /\ (k - 1) + 1 = k
    BY <1>2
  <2> HIDE DEF N, d
  <2>2. k * d <= Count(s) * d /\ k * d = (k - 1) * d + d /\ (k - 1) * d \in Nat /\ k * d \in Nat
    <3>1. k <= Count(s)
      BY <1>2
    <3>2. k * d <= Count(s) * d /\ k * d \in Nat
      BY <1>1, <1>2, <2>1, <3>1, Multiples
    <3>3. ((k - 1) + 1) * d = (k - 1) * d + d /\ (k - 1) * d \in Nat
      BY <1>1, <2>1, Multiples
    <3> QED
      BY <2>1, <3>2, <3>3
  <2>3. Count(s) * d \in Nat
    BY <1>1, <1>2, Multiples
  <2>4. Start(s, k) = (k - 1) * d + 1
    BY DEF Start, d
  <2> QED
    BY <1>1, <1>2, <2>2, <2>3, <2>4
<1>6. ASSUME NEW k \in 2..Count(s) PROVE Start(s, k - 1) < Start(s, k)
  <2>1. k - 2 \in Nat /\ (k - 2) + 1 = k - 1 /\ (k - 1) - 1 = k - 2
    BY <1>2
  <2> HIDE DEF N, d
  <2>2. (k - 1) * d = (k - 2) * d + d /\ (k - 2) * d \in Nat
    <3>1. ((k - 2) + 1) * d = (k - 2) * d + d /\ (k - 2) * d \in Nat
      BY <1>1, <2>1, Multiples
    <3> QED
      BY <2>1, <3>1
  <2>3. Start(s, k - 1) = (k - 2) * d + 1 /\ Start(s, k) = (k - 1) * d + 1
    BY <2>1 DEF Start, d
  <2> QED
    BY <1>1, <2>2, <2>3
<1>7. \A k \in 1..Count(s) : /\ T[k].order = PlayedOrders(s)[Start(s, k)]
                             /\ T[k].resident = Resident(s, Start(s, k))
  BY <1>3
<1> QED
  BY <1>2, <1>4, <1>5, <1>6, <1>7

LEMMA OrderHasCheckpoint ==
  ASSUME NEW s, SongOK(s), NEW v \in 1..Len(PlayedOrders(s))
  PROVE  LET k == (v - 1) \div Stride(s) + 1 IN
         k \in 1..Count(s) /\ Start(s, k) \in 1..v /\ v < Start(s, k) + Stride(s)
<1> DEFINE N == Len(PlayedOrders(s))
           d == Stride(s)
           q == (v - 1) \div d
<1>1. N \in Nat /\ d \in Nat \ {0} /\ v - 1 \in Nat /\ v \in Nat /\ v <= N
  BY PlayedTypes, StrideIsPositive
<1>2. q \in Nat /\ q * d <= v - 1 /\ v - 1 < q * d + d
  <2> HIDE DEF d
  <2> QED
    BY <1>1, Quotient
<1>3. q * d \in Nat /\ (q + 1) * d = q * d + d /\ (q + 1) - 1 = q
  <2> HIDE DEF d, q
  <2> QED
    BY <1>1, <1>2, Multiples
<1>4. q + 1 <= Count(s)
  <2>1. N + d - 1 \in Nat
    BY <1>1
  <2>2. (q + 1) * d <= N + d - 1
    <3> HIDE DEF d, q, N
    <3> QED
      BY <1>1, <1>2, <1>3
  <2>3. q + 1 <= (N + d - 1) \div d
    <3>1. q + 1 \in Nat
      BY <1>2
    <3> DEFINE a == N + d - 1
    <3>2. a \in Nat /\ (q + 1) * d <= a
      BY <2>1, <2>2
    <3> HIDE DEF q, d, N, a
    <3>3. q + 1 <= a \div d
      BY <1>1, <3>1, <3>2, QuotientIsMost
    <3> QED
      BY <3>3 DEF a
  <2> HIDE DEF q
  <2> QED
    BY <2>3 DEF Count
<1>5. Start(s, q + 1) = q * d + 1
  BY <1>2, <1>3 DEF Start
<1>6. Count(s) \in Nat
  BY TableShape
<1> HIDE DEF q, d
<1>7. q + 1 \in 1..Count(s) /\ Start(s, q + 1) \in 1..v /\ v < Start(s, q + 1) + d
  BY <1>1, <1>2, <1>3, <1>4, <1>5, <1>6
<1> QED
  BY <1>7 DEF q, d

LEMMA OffsetsGrow ==
  ASSUME NEW A, NEW D, A \ {0} \subseteq D
  PROVE  Offsets(A) \subseteq Offsets(D)
BY DEF Offsets

LEMMA SongCovered ==
  ASSUME SongOK(song)
  PROVE  SpanCovered
<1> DEFINE C == Cells(song)
           N == Len(PlayedOrders(song))
<1>0. N \in Nat /\ DOMAIN PlayedOrders(song) = 1..N
  BY PlayedTypes
<1>1. SUFFICES ASSUME NEW v \in 1..N
               PROVE  Offsets({Plays(song, C, k) :
                                 k \in {h \in HeardAt(song, C, v) : ~Unseen(song, C, h)}})
                        \subseteq Checkpoints(song)[(v - 1) \div Stride(song) + 1].resident
  BY <1>0 DEF SpanCovered
<1> DEFINE k == (v - 1) \div Stride(song) + 1
           start == Start(song, k)
           next == Min({start + Stride(song), N + 1})
           A == {Plays(song, C, i) : i \in {h \in HeardAt(song, C, v) : ~Unseen(song, C, h)}}
           D == {Walk(song, start).held[c] : c \in Channels} \cup
                  Struck(song, Walk(song, start).latch, RowsBefore(song, start) + 1,
                         RowsBefore(song, next))
<1>2. k \in 1..Count(song) /\ start \in 1..v /\ v < start + Stride(song)
  BY OrderHasCheckpoint
<1>3. Checkpoints(song)[k].resident = Resident(song, start)
  BY <1>2, TableShape
<1>4. Resident(song, start) = Offsets(D)
  BY DEF Resident
<1>5. next \in (v + 1)..(N + 1)
  <2>1. Stride(song) \in Nat \ {0} /\ v \in Nat /\ v <= N
    BY <1>0, StrideIsPositive
  <2> HIDE DEF start, N
  <2>2. next = IF start + Stride(song) <= N + 1 THEN start + Stride(song) ELSE N + 1
    BY <1>0, <1>2, <2>1, MinOfTwo
  <2> HIDE DEF next
  <2> QED
    BY <1>0, <1>2, <2>1, <2>2
<1>6. A \ {0} \subseteq D
  <2> SUFFICES ASSUME NEW h \in HeardAt(song, C, v), ~Unseen(song, C, h), Plays(song, C, h) # 0
               PROVE  Plays(song, C, h) \in D
    OBVIOUS
  <2> HIDE DEF start, next, N
  <2> QED
    BY <1>2, <1>5, HeardIsCounted DEF N
<1> HIDE DEF A, D, k, start
<1>7. Offsets(A) \subseteq Offsets(D)
  BY <1>6, OffsetsGrow
<1> QED
  BY <1>3, <1>4, <1>7 DEF A, k

-----------------------------------------------------------------------------
(* The timing map: time passes from one row to the next.                   *)
ClockState == [speed : Nat, t : Nat]

LEMMA ClockRecursion ==
  ASSUME NEW s, SongOK(s)
  PROVE  /\ ClockUpTo(s) \in [0..Len(Rows(s)) -> ClockState]
         /\ \A k \in 1..Len(Rows(s)) : ClockUpTo(s)[k - 1].t <= ClockUpTo(s)[k].t
<1> DEFINE n == Len(Rows(s))
           E == Events(s)
           zero == [speed |-> Speed0, t |-> 0]
           Is(f) == f = [k \in 0..n |-> IF k = 0 THEN zero ELSE RowTime(f[k - 1], E[k])]
           step == [k \in 1..n |-> [c \in ClockState |-> RowTime(c, E[k])]]
           W == ClockUpTo(s)
<1>1. n \in Nat /\ Len(E) = n /\ \A k \in 1..n : E[k].speed \in Nat
  BY EventsDecode DEF AnEvent
<1>2. zero \in ClockState
  BY DEF ClockState, Speed0
<1>3. ASSUME NEW c \in ClockState, NEW k \in 1..n
      PROVE  RowTime(c, E[k]) \in ClockState /\ c.t <= RowTime(c, E[k]).t
  <2> DEFINE x == IF E[k].speed # 0 THEN E[k].speed ELSE c.speed
  <2>1. x \in Nat /\ c.t \in Nat
    BY <1>1 DEF ClockState
  <2>2. RowTime(c, E[k]) = [speed |-> x, t |-> c.t + x]
    BY DEF RowTime
  <2> HIDE DEF x
  <2> QED
    BY <2>1, <2>2 DEF ClockState
<1>4. step \in [1..n -> [ClockState -> ClockState]]
  BY <1>3
<1>5. PICK f \in [0..n -> ClockState] : f[0] = zero /\ \A i \in 1..n : f[i] = step[i][f[i - 1]]
  <2>1. \E f \in [0..n -> ClockState] : Runs(f, n, zero, step)
    <3> HIDE DEF step, n, zero
    <3> QED
      BY <1>1, <1>2, <1>4, RecursionIsThere, Zenon
  <2> QED
    BY <2>1 DEF Runs
<1>6. Is(f)
  <2>1. ASSUME NEW k \in 0..n
        PROVE  f[k] = IF k = 0 THEN zero ELSE RowTime(f[k - 1], E[k])
    <3>1. CASE k = 0
      BY <1>5, <3>1
    <3>2. CASE k # 0
      <4>1. k \in 1..n /\ k - 1 \in 0..n
        BY <1>1, <3>2
      <4>2. f[k - 1] \in ClockState
        BY <1>5, <4>1
      <4> QED
        BY <1>5, <3>2, <4>1, <4>2
    <3> QED
      BY <3>1, <3>2
  <2> QED
    BY <1>5, <2>1
<1>7. W = CHOOSE g : Is(g)
  BY <1>1 DEF ClockUpTo
<1>8. Is(W)
  BY <1>6, <1>7
<1>9. W[0] = zero /\ \A k \in 1..n : W[k] = RowTime(W[k - 1], E[k])
  <2>1. W[0] = zero
    BY <1>1, <1>8
  <2>2. ASSUME NEW k \in 1..n PROVE W[k] = RowTime(W[k - 1], E[k])
    <3>1. k \in 0..n /\ k # 0
      BY <1>1
    <3> QED
      BY <1>8, <3>1
  <2> QED
    BY <2>1, <2>2
<1> DEFINE G == {k \in 0..n : W[k] \in ClockState}
<1>10. \A k \in 0..n : W[k] \in ClockState
  <2>1. 0 \in G
    BY <1>1, <1>2, <1>9
  <2>2. ASSUME NEW k \in (0 + 1)..n, k - 1 \in G PROVE k \in G
    <3>1. k \in 1..n /\ k \in 0..n /\ W[k - 1] \in ClockState
      BY <1>1, <2>2
    <3>2. RowTime(W[k - 1], E[k]) \in ClockState
      BY <1>3, <3>1
    <3>3. W[k] \in ClockState
      BY <1>9, <3>1, <3>2
    <3> QED
      BY <3>1, <3>3
  <2>3. \A k \in 0..n : k \in G
    <3> HIDE DEF G, n
    <3> QED
      BY <1>1, <2>1, <2>2, CountUp
  <2> QED
    BY <2>3
<1>11. ASSUME NEW k \in 1..n PROVE W[k - 1].t <= W[k].t
  <2>1. k - 1 \in 0..n
    BY <1>1
  <2>2. W[k - 1] \in ClockState /\ W[k] = RowTime(W[k - 1], E[k])
    BY <1>9, <1>10, <2>1
  <2> HIDE DEF W
  <2> QED
    BY <1>3, <2>2
<1> QED
  BY <1>8, <1>10, <1>11

LEMMA ClockRunsOn ==
  ASSUME NEW s, SongOK(s), NEW j \in 0..Len(Rows(s)), NEW k \in j..Len(Rows(s))
  PROVE  ClockUpTo(s)[j].t <= ClockUpTo(s)[k].t
<1> DEFINE W == ClockUpTo(s)
           G == {i \in j..k : W[j].t <= W[i].t}
<1>1. Len(Rows(s)) \in Nat /\ j \in Nat /\ k \in Nat /\ j \in 0..Len(Rows(s))
  BY EventsDecode
<1>2. \A i \in 0..Len(Rows(s)) : W[i].t \in Nat
  BY ClockRecursion DEF ClockState
<1>3. j \in G
  BY <1>1, <1>2
<1>4. ASSUME NEW i \in (j + 1)..k, i - 1 \in G PROVE i \in G
  <2>1. i \in 1..Len(Rows(s)) /\ i \in j..k /\ i - 1 \in 0..Len(Rows(s)) /\ i \in 0..Len(Rows(s))
    BY <1>1
  <2>2. W[i - 1].t <= W[i].t /\ W[j].t <= W[i - 1].t
    BY <1>4, <2>1, ClockRecursion
  <2>3. W[j].t <= W[i].t
    BY <1>1, <1>2, <2>1, <2>2
  <2> QED
    BY <2>1, <2>3
<1>5. \A i \in j..k : i \in G
  <2> HIDE DEF G
  <2> QED
    BY <1>1, <1>3, <1>4, CountUp
<1> QED
  BY <1>1, <1>5

LEMMA SongAgrees ==
  ASSUME SongOK(song)
  PROVE  TablesAgree
<1> DEFINE N == Len(PlayedOrders(song))
           P == PlayedOrders(song)
           T == Checkpoints(song)
           times == OrderSeconds(song)
           d == Stride(song)
<1>0. N \in Nat /\ DOMAIN P = 1..N /\ d \in Nat \ {0}
  BY PlayedTypes, StrideIsPositive
<1>1. /\ times = [v \in 1..N |-> [order |-> P[v], seconds |-> ClockUpTo(song)[RowsBefore(song, v)].t]]
      /\ DOMAIN times = 1..N /\ Len(times) = N
  BY <1>0 DEF OrderSeconds
<1>2. \A k \in DOMAIN T : \E v \in DOMAIN times : times[v].order = T[k].order
  <2> SUFFICES ASSUME NEW k \in 1..Count(song) PROVE \E v \in 1..N : times[v].order = T[k].order
    BY <1>1, TableShape
  <2>1. Start(song, k) \in 1..N /\ T[k].order = P[Start(song, k)]
    BY TableShape
  <2> QED
    BY <1>1, <2>1
<1>3. ASSUME NEW k \in 2..Len(T) PROVE T[k - 1].order < T[k].order
  <2>1. Count(song) \in Nat /\ k \in 2..Count(song) /\ k \in 1..Count(song) /\ k - 1 \in 1..Count(song)
    <3>1. Count(song) \in Nat /\ Len(T) = Count(song)
      BY TableShape
    <3> QED
      BY <3>1
  <2>2. /\ Start(song, k - 1) \in 1..N /\ Start(song, k) \in 1..N
        /\ Start(song, k - 1) < Start(song, k)
        /\ T[k - 1].order = P[Start(song, k - 1)] /\ T[k].order = P[Start(song, k)]
    BY <2>1, TableShape
  <2> QED
    BY <2>2, PlayedIsWell DEF PlayedWell
<1>4. ASSUME NEW v \in 2..Len(times) PROVE times[v - 1].seconds <= times[v].seconds
  <2>1. v - 1 \in 1..N /\ v \in 1..N /\ v - 1 \in 1..(N + 1) /\ v \in (v - 1)..(N + 1) /\ v \in 1..(N + 1)
        /\ N + 1 \in v..(N + 1) /\ N + 1 \in 1..(N + 1)
    BY <1>0, <1>1
  <2> HIDE DEF N, times
  <2>2. /\ RowsBefore(song, v - 1) <= RowsBefore(song, v)
        /\ RowsBefore(song, v) <= RowsBefore(song, N + 1)
    BY <2>1, RowsBeforeMonotone DEF N
  <2>3. /\ RowsBefore(song, v - 1) \in Nat /\ RowsBefore(song, v) \in Nat
        /\ RowsBefore(song, N + 1) = Len(Rows(song)) /\ Len(Rows(song)) \in Nat
    BY <2>1, RowsBeforeGrows, EventsDecode DEF N
  <2>4. /\ RowsBefore(song, v - 1) \in 0..Len(Rows(song))
        /\ RowsBefore(song, v) \in RowsBefore(song, v - 1)..Len(Rows(song))
    BY <2>2, <2>3
  <2>5. ClockUpTo(song)[RowsBefore(song, v - 1)].t <= ClockUpTo(song)[RowsBefore(song, v)].t
    BY <2>4, ClockRunsOn
  <2> QED
    BY <1>1, <2>1, <2>5
<1>5. ASSUME T # <<>>
      PROVE  /\ Segment0(song) \subseteq T[1].resident
             /\ d = 1 => Segment0(song) = T[1].resident
  <2> DEFINE next == Min({1 + d, N + 1})
             opening == Struck(song, Silent.latch, 1, RowsBefore(song, 2))
             span == Struck(song, Silent.latch, 1, RowsBefore(song, next))
             held == {Silent.held[c] : c \in Channels}
  <2>1. Count(song) \in Nat /\ 1 \in 1..Count(song)
    <3>1. Count(song) \in Nat /\ DOMAIN T = 1..Count(song)
      BY TableShape
    <3>2. T = [k \in 1..Count(song) |-> T[k]]
      BY <3>1 DEF Checkpoints
    <3>3. Count(song) # 0
      BY <1>5, <3>1, <3>2
    <3> QED
      BY <3>1, <3>3
  <2>2. Start(song, 1) = 1 /\ T[1].resident = Resident(song, 1) /\ 1 \in 1..N
    <3>1. (1 - 1) * d = 0
      BY <1>0
    <3>2. Start(song, 1) = 1
      BY <3>1 DEF Start
    <3> QED
      BY <2>1, <3>2, TableShape
  <2>3. N >= 1 /\ P # <<>>
    BY <1>0, <2>2
  <2>4. next \in 2..(N + 1) /\ (d = 1 => next = 2)
    <3> HIDE DEF N, d
    <3>1. next = IF 1 + d <= N + 1 THEN 1 + d ELSE N + 1
      BY <1>0, MinOfTwo
    <3> HIDE DEF next
    <3> QED
      BY <1>0, <2>3, <3>1
  <2>5. RowsBefore(song, 1) = 0 /\ Walk(song, 1) = Silent
    BY RowsBeforeGrows, WalkRecursion DEF Walk
  <2>6. Resident(song, 1) = Offsets(held \cup span)
    <3>1. RowsBefore(song, 1) + 1 = 1
      BY <2>5
    <3>2. Resident(song, 1) =
            Offsets({Walk(song, 1).held[c] : c \in Channels} \cup
              Struck(song, Walk(song, 1).latch, RowsBefore(song, 1) + 1, RowsBefore(song, next)))
      BY DEF Resident
    <3> HIDE DEF next
    <3> QED
      BY <2>5, <3>1, <3>2
  <2>7. Segment0(song) = Offsets(opening)
    BY <2>3 DEF Segment0
  <2>8. opening \subseteq span
    <3>1. RowsBefore(song, 2) \in Nat /\ RowsBefore(song, next) \in Nat
          /\ RowsBefore(song, 2) <= RowsBefore(song, next)
      <4>1. 2 \in 1..(N + 1) /\ next \in 1..(N + 1) /\ next \in 2..(N + 1)
        BY <1>0, <2>3, <2>4
      <4> HIDE DEF next
      <4> QED
        BY <4>1, RowsBeforeGrows, RowsBeforeMonotone
    <3> HIDE DEF next
    <3>2. 1..RowsBefore(song, 2) \subseteq 1..RowsBefore(song, next)
      BY <3>1
    <3> QED
      BY <3>2 DEF Struck
  <2>9. held \subseteq {0}
    BY DEF Silent
  <2> HIDE DEF opening, span, held, next
  <2>10. Offsets(opening) \subseteq Offsets(held \cup span)
    BY <2>8, OffsetsGrow
  <2>11. ASSUME d = 1 PROVE Offsets(held \cup span) = Offsets(opening)
    <3>1. span = opening
      BY <2>4, <2>11 DEF span, opening
    <3>2. (held \cup span) \ {0} \subseteq opening
      BY <2>9, <3>1
    <3>3. Offsets(held \cup span) \subseteq Offsets(opening)
      BY <3>2, OffsetsGrow
    <3> QED
      BY <2>10, <3>3
  <2> QED
    BY <2>2, <2>6, <2>7, <2>10, <2>11
<1> QED
  BY <1>2, <1>3, <1>4, <1>5 DEF TablesAgree

-----------------------------------------------------------------------------
(* Entries and rows that are added keep the song one.                      *)
LEMMA SongStaysWell == SeekSpec => []SeekTypeOK
<1>1. SeekInit => SeekTypeOK
  BY DEF SeekInit, SeekTypeOK
<1>2. SeekTypeOK /\ [SeekNext]_song => SeekTypeOK'
  <2> SUFFICES ASSUME SeekTypeOK, [SeekNext]_song PROVE SeekTypeOK'
    OBVIOUS
  <2>1. ASSUME NEW o \in Patterns \cup {Skip}, AddOrder(o) PROVE SeekTypeOK'
    <3> DEFINE orders == Append(song.orders, o)
    <3>1. song' = [song EXCEPT !.orders = orders]
      BY <2>1 DEF AddOrder, SeekTypeOK
    <3>2. orders \in Seq(Patterns \cup {Skip})
      BY DEF SeekTypeOK
    <3> HIDE DEF orders
    <3> QED
      BY <3>1, <3>2 DEF SeekTypeOK
  <2>2. ASSUME NEW p \in Patterns, NEW c \in Cell, AddRow(p, c) PROVE SeekTypeOK'
    <3> DEFINE pats == [song.pats EXCEPT ![p] = Append(song.pats[p], c)]
    <3>1. song' = [song EXCEPT !.pats = pats]
      BY <2>2 DEF AddRow, SeekTypeOK
    <3>2. pats \in [Patterns -> Seq(Cell)]
      BY DEF SeekTypeOK
    <3> HIDE DEF pats
    <3> QED
      BY <3>1, <3>2 DEF SeekTypeOK
  <2>3. CASE UNCHANGED song
    BY <2>3 DEF SeekTypeOK
  <2> QED
    BY <2>1, <2>2, <2>3 DEF SeekNext
<1> QED
  BY <1>1, <1>2, PTL DEF SeekSpec

\* The tables that simulateTables and computeItTables compute (seek.ts) are sound for every
\* song: the checkpoint at or before an order counts every sample a player makes sound
\* there, of the notes whose instrument the decoder sees; the checkpoints ascend at orders
\* the timing map knows; the first holds the opening; and the clock does not run back.
THEOREM TablesAlwaysSound == SeekSpec => []TablesSound
<1>1. SeekTypeOK => TablesSound
  <2> SUFFICES ASSUME SeekTypeOK PROVE TablesSound
    OBVIOUS
  <2>1. SongOK(song)
    BY DEF SeekTypeOK, SongOK
  <2> QED
    BY <2>1, SongCovered, SongAgrees DEF TablesSound
<1> QED
  BY <1>1, SongStaysWell, PTL
=============================================================================
