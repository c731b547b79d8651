---------------------------- MODULE OwnPlaylist ----------------------------
(***************************************************************************)
(* The life of one own playlist on its author's desktop: its row in        *)
(* playlists.db, the share / edit / unshare / delete commands that run as  *)
(* concurrent async tasks, the background loop that drains the node's      *)
(* buffer and re-announces or renews, and the node's buffer for the name.  *)
(*                                                                         *)
(*   src/apps/desktop/src-tauri/src/playlists.rs                           *)
(*   src/node/playlist.go (PublishPlaylist, ingest)                        *)
(*                                                                         *)
(* A command holds the database lock only inside one step, so a step is a  *)
(* locked section or one RPC to the node.  The commands read the row,      *)
(* await the node once or twice, and write the row back without looking    *)
(* at it again; ingest_wire compares and writes under two locks.           *)
(*                                                                         *)
(* Which accidents may happen is the weather of a behaviour, so that one   *)
(* run can ask what holds in calm weather and what survives a storm.       *)
(* Document validation, the rejected table, pinning and the liked playlist *)
(* are left out.                                                           *)
(***************************************************************************)
EXTENDS Integers, FiniteSets

CONSTANTS
  Docs,         \* playlist contents the user can save
  Tombstone,    \* the document with del set
  Commands,     \* slots for Tauri commands in flight
  Background,   \* the task of run_loops
  Weathers,     \* the accidents a behaviour may meet, one of them
  NoRow, NoRecord

ASSUME DocAssumption == Tombstone \notin Docs
ASSUME TaskAssumption == Background \notin Commands
ASSUME WeatherAssumption ==
  Weathers \subseteq [fails : BOOLEAN, renews : BOOLEAN, crashes : BOOLEAN,
                      evicts : BOOLEAN, preempts : BOOLEAN,
                      slots : SUBSET Commands, max : Nat]

VARIABLES
  row,      \* the row of the playlist in playlists.db, or NoRow
  buf,      \* the node's buffered record for the name, or NoRecord
  fresh,    \* is buf above the drain's cursor?
  signed,   \* every record the node signed: what holders may re-announce
  task,     \* commands in flight and the background loop
  intent,   \* history: the sharing the user asked for last
  started,  \* counter against MaxCommands
  weather   \* which accidents may happen

vars == <<row, buf, fresh, signed, task, intent, started, weather>>

RpcFails == weather.fails     \* may a publish fail, before or after the node acted on it?
Renews == weather.renews      \* may a record come near its EOL?
Crashes == weather.crashes    \* may the app (and its node) stop and start again?
Evicts == weather.evicts      \* may the node's buffer evict the name?
Preempts == weather.preempts  \* may a task be preempted between two locks with no await?
Slots == weather.slots        \* commands that may be in flight
MaxCommands == weather.max    \* bound: commands, renewals, crashes, evictions, redeliveries

\* Nothing fails, renews, crashes or is evicted, and commands come one by one.
Calm ==
  /\ ~RpcFails /\ ~Renews /\ ~Crashes /\ ~Evicts /\ ~Preempts
  /\ \A c, d \in Slots : c = d

-----------------------------------------------------------------------------
Tasks   == Commands \cup {Background}
Records == [seq : Nat \ {0}, doc : Docs \cup {Tombstone}]
Rows    == [doc : Docs, seq : Nat, rec : Records \cup {NoRecord},
            published : BOOLEAN, tombstoned : BOOLEAN, mine : BOOLEAN]

ASSUME SentinelAssumption == NoRecord \notin Records /\ NoRow \notin Rows

\* doc: what is being published, saved, announced; seq: read, then computed;
\* rec: the wire entry under way in the loop.
TaskStates ==
  [pc   : {"idle", "read", "save", "seq", "send", "commit", "check", "apply",
           "announce"},
   kind : {"none", "share", "edit", "update", "unshare", "delete", "renew", "sync"},
   doc  : Docs \cup {Tombstone}, base : Nat, seq : Nat,
   rec  : Records \cup {NoRecord}]

State(pc, kind, doc, base, seq, rec) ==
  [pc |-> pc, kind |-> kind, doc |-> doc, base |-> base, seq |-> seq, rec |-> rec]

Idle == State("idle", "none", Tombstone, 0, 0, NoRecord)

\* A command or a renewal that has yet to read the row.
Called(k) == State("read", k, Tombstone, 0, 0, NoRecord)

\* An update with the contents it is about to save.
Saving(k, d) == State("save", k, d, 0, 0, NoRecord)

\* A command past its read: base is the number it read, seq the one in use.
Publishing(pc, k, d, base, seq) == State(pc, k, d, base, seq, NoRecord)

\* The drain with the entry it works on.
Draining(pc, r) == State(pc, "sync", Tombstone, 0, 0, r)

Quiescent == \A t \in Tasks : task[t].pc = "idle"

Seq(r) == IF r = NoRecord THEN 0 ELSE r.seq

Larger(x, y) == IF x >= y THEN x ELSE y

\* playlistStore.ingest of a record for this name.
Buffered(r) ==
  IF r.seq > Seq(buf) THEN buf' = r /\ fresh' = TRUE ELSE UNCHANGED <<buf, fresh>>

\* Without preemption a task that released a lock and takes the next one
\* without awaiting anything runs before every other.
MayRun(t) ==
  Preempts \/ \A u \in Tasks \ {t} : task[u].pc \notin {"save", "apply"}

\* Task t is about to do step pc.
At(t, pc) == task[t].pc = pc /\ MayRun(t)

Goto(t, new) == task' = [task EXCEPT ![t] = new]

\* One of the accidents and commands that MaxCommands bounds.
Count == started < MaxCommands /\ started' = started + 1 /\ UNCHANGED weather

Row(d, s, r, published, tombstoned, mine) ==
  [doc |-> d, seq |-> s, rec |-> r, published |-> published,
   tombstoned |-> tombstoned, mine |-> mine]

\* Rows that create leaves and that upsert_row inserts for an unknown name.
NewRow(d, r, mine) == Row(d, Seq(r), r, FALSE, FALSE, mine)

\* upsert_row on conflict: a local edit keeps seq and record.
EditedRow(d) ==
  IF row = NoRow THEN NewRow(d, NoRecord, FALSE)
  ELSE Row(d, row.seq, row.rec, row.published, FALSE, row.mine)

\* upsert_row of a drained record.
SyncedRow(r) ==
  IF row = NoRow THEN NewRow(r.doc, r, FALSE)
  ELSE Row(r.doc, r.seq, r, row.published, FALSE, row.mine)

\* ingest_wire of a tombstone: library rows stay, dormant.
BuriedRow(r) ==
  IF row = NoRow \/ ~row.mine THEN NoRow
  ELSE Row(row.doc, r.seq, NoRecord, FALSE, TRUE, row.mine)

\* publish: the row as the final UPDATE of a successful publish leaves it.
SharedRow(r) ==
  IF row = NoRow THEN NoRow
  ELSE Row(row.doc, r.seq, r, TRUE, row.tombstoned, row.mine)

\* The row goes private but its record stays beside the new number.
UnsharedRowKeepsRecord(s) ==
  IF row = NoRow THEN NoRow
  ELSE Row(row.doc, s, row.rec, FALSE, FALSE, row.mine)

\* unpublish: the row as its final UPDATE leaves it.
UnsharedRow(s) ==
  IF row = NoRow THEN NoRow
  ELSE Row(row.doc, s, NoRecord, FALSE, FALSE, row.mine)

-----------------------------------------------------------------------------
\* create: a key and a private row; nothing is published.
Init ==
  /\ row \in {NewRow(d, NoRecord, TRUE) : d \in Docs}
  /\ buf = NoRecord
  /\ fresh = FALSE
  /\ signed = {}
  /\ task = [t \in Tasks |-> Idle]
  /\ intent = "never"
  /\ started = 0
  /\ weather \in Weathers

-----------------------------------------------------------------------------
(***************************************************************************)
(* Commands                                                                *)
(***************************************************************************)

\* The user calls share, unshare or delete.
StartCommand(c, kind) ==
  /\ At(c, "idle")
  /\ Count
  /\ Goto(c, Called(kind))
  /\ intent' = IF kind = "share" THEN "public" ELSE
               IF intent = "never" THEN "never" ELSE "private"
  /\ UNCHANGED <<row, buf, fresh, signed>>

\* Every save publishes.
StartUpdatePublishes(c, d) ==
  /\ At(c, "idle")
  /\ Count
  /\ row # NoRow /\ row.mine
  /\ Goto(c, Saving("update", d))
  /\ UNCHANGED <<row, buf, fresh, signed, intent>>

\* update: whether the row is published is read first and used after the save.
StartUpdate(c, d) ==
  /\ At(c, "idle")
  /\ Count
  /\ row # NoRow /\ row.mine
  /\ Goto(c, Saving(IF row.published THEN "update" ELSE "edit", d))
  /\ UNCHANGED <<row, buf, fresh, signed, intent>>

SaveUpdate(c) ==
  /\ At(c, "save")
  /\ row' = EditedRow(task[c].doc)
  /\ Goto(c, IF task[c].kind = "update" THEN Called("update") ELSE Idle)
  /\ UNCHANGED <<buf, fresh, signed, intent, started, weather>>

\* A published playlist is deleted without a tombstone.
ReadRowDeletesSilently(t) ==
  LET k == task[t].kind
      found == row # NoRow /\ (row.mine \/ k = "delete")
  IN /\ At(t, "read")
     /\ Goto(t, IF ~found THEN Idle
                ELSE Publishing(
                       IF k = "delete" \/ (k = "unshare" /\ ~row.published)
                       THEN "commit" ELSE "seq",
                       k,
                       IF k \in {"unshare", "delete"} THEN Tombstone ELSE row.doc,
                       row.seq, row.seq))
     /\ UNCHANGED <<row, buf, fresh, signed, intent, started, weather>>

\* publish, unpublish and delete read the row; only publish and unpublish
\* insist that it is theirs.
ReadRow(t) ==
  LET k == task[t].kind
      tombstones == k \in {"unshare", "delete"}
      found == row # NoRow /\ (row.mine \/ k = "delete")
  IN /\ At(t, "read")
     /\ Goto(t, IF ~found THEN Idle
                ELSE Publishing(
                       IF tombstones /\ ~(row.mine /\ row.published)
                       THEN "commit" ELSE "seq",
                       k,
                       IF tombstones THEN Tombstone ELSE row.doc,
                       row.seq, row.seq))
     /\ UNCHANGED <<row, buf, fresh, signed, intent, started, weather>>

\* The number in use is signed again.
NextSeqNoBump(local, net) == IF local = 0 THEN 1 ELSE Larger(local, net)

\* A fresh key starts from 0.
NextSeqFromZero(local, net) == Larger(local, net)

\* next_seq: a row that was never published takes 1, any other goes above its
\* own number and the one the network is known to have.
NextSeq(local, net) == IF local = 0 THEN 1 ELSE Larger(local, net) + 1

\* routing/get answers from the node's buffer; an error counts as 0.
AskSeq(t) ==
  /\ At(t, "seq")
  /\ \E net \in {Seq(buf)} \cup (IF RpcFails THEN {0} ELSE {}) :
       Goto(t, Publishing("send", task[t].kind, task[t].doc, task[t].base,
                          NextSeq(task[t].seq, net)))
  /\ UNCHANGED <<row, buf, fresh, signed, intent, started, weather>>

\* playlist/publish: the node signs what it is told, ingests and gossips it.
NodePublishes(r) ==
  /\ signed' = signed \cup {r}
  /\ Buffered(r)

Send(t) ==
  /\ At(t, "send")
  /\ NodePublishes([seq |-> task[t].seq, doc |-> task[t].doc])
  /\ Goto(t, Publishing("commit", task[t].kind, task[t].doc, task[t].base,
                        task[t].seq))
  /\ UNCHANGED <<row, intent, started, weather>>

\* The RPC fails, before the node acted or after: publish gives up, unpublish
\* and delete go on with the number they started from.
SendFails(t) ==
  /\ RpcFails
  /\ At(t, "send")
  /\ \/ NodePublishes([seq |-> task[t].seq, doc |-> task[t].doc])
     \/ UNCHANGED <<signed, buf, fresh>>
  /\ Goto(t, IF task[t].kind \in {"unshare", "delete"}
             THEN Publishing("commit", task[t].kind, task[t].doc, task[t].base,
                             task[t].base)
             ELSE Idle)
  /\ UNCHANGED <<row, intent, started, weather>>

Commit(t) ==
  LET k == task[t].kind
  IN /\ At(t, "commit")
     /\ row' = CASE k \in {"share", "update", "renew"} ->
                      SharedRow([seq |-> task[t].seq, doc |-> task[t].doc])
                 [] k = "unshare" -> UnsharedRow(task[t].seq)
                 [] k = "delete"  -> NoRow
     /\ Goto(t, Idle)
     /\ UNCHANGED <<buf, fresh, signed, intent, started, weather>>

-----------------------------------------------------------------------------
(***************************************************************************)
(* The background loop: one task, so a drain, a renewal and an announce    *)
(* never overlap one another.                                              *)
(***************************************************************************)
loop == task[Background]

\* sync_once: the poll returns the buffered entry written since the last one.
SyncPoll ==
  /\ At(Background, "idle")
  /\ fresh
  /\ fresh' = FALSE
  /\ Goto(Background, Draining("check", buf))
  /\ UNCHANGED <<row, buf, signed, intent, started, weather>>

\* ingest_wire, first lock: skip what is not newer.
SyncCheck ==
  /\ At(Background, "check")
  /\ Goto(Background, IF row # NoRow /\ row.seq >= loop.rec.seq THEN Idle
                      ELSE Draining("apply", loop.rec))
  /\ UNCHANGED <<row, buf, fresh, signed, intent, started, weather>>

\* ingest_wire, second lock: write what was compared under the first.
SyncApply ==
  /\ At(Background, "apply")
  /\ row' = IF loop.rec.doc = Tombstone THEN BuriedRow(loop.rec)
                                        ELSE SyncedRow(loop.rec)
  /\ Goto(Background, Idle)
  /\ UNCHANGED <<buf, fresh, signed, intent, started, weather>>

\* announce_once takes the library rows that have a record.
Announceable == row # NoRow /\ row.rec # NoRecord /\ row.mine

\* An own record near its EOL is published again, whatever became of the row.
StartRenewal ==
  /\ Renews
  /\ Count
  /\ At(Background, "idle")
  /\ Announceable
  /\ Goto(Background, Called("renew"))
  /\ UNCHANGED <<row, buf, fresh, signed, intent>>

StartAnnounce ==
  /\ At(Background, "idle")
  /\ Announceable
  /\ Count
  /\ Goto(Background, State("announce", "none", row.doc, 0, 0, row.rec))
  /\ UNCHANGED <<row, buf, fresh, signed, intent>>

\* AnnouncePlaylists: a document that does not hash to the record is rejected,
\* a name seen within the window is suppressed; otherwise it is ingested.
Announce ==
  /\ At(Background, "announce")
  /\ \/ loop.doc = loop.rec.doc /\ Buffered(loop.rec)
     \/ UNCHANGED <<buf, fresh>>
  /\ Goto(Background, Idle)
  /\ UNCHANGED <<row, signed, intent, started, weather>>

-----------------------------------------------------------------------------
(***************************************************************************)
(* The environment                                                         *)
(***************************************************************************)

\* A holder elsewhere re-announces any record that was ever signed.
Redeliver(r) ==
  /\ Count
  /\ r.seq > Seq(buf)
  /\ Buffered(r)
  /\ UNCHANGED <<row, signed, task, intent>>

EvictBuffer ==
  /\ Evicts
  /\ Count
  /\ buf # NoRecord
  /\ buf' = NoRecord
  /\ fresh' = FALSE
  /\ UNCHANGED <<row, signed, task, intent>>

\* The app quits and starts: tasks are gone and the node starts empty.
Restart ==
  /\ Crashes
  /\ Count
  /\ task' = [t \in Tasks |-> Idle]
  /\ buf' = NoRecord
  /\ fresh' = FALSE
  /\ UNCHANGED <<row, signed, intent>>

Next ==
  \/ \E c \in Slots :
       \/ \E kind \in {"share", "unshare", "delete"} : StartCommand(c, kind)
       \/ \E d \in Docs : StartUpdate(c, d)
       \/ SaveUpdate(c)
  \/ \E t \in Tasks : ReadRow(t) \/ AskSeq(t) \/ Send(t) \/ SendFails(t) \/ Commit(t)
  \/ SyncPoll \/ SyncCheck \/ SyncApply
  \/ StartRenewal \/ StartAnnounce \/ Announce
  \/ \E r \in signed : Redeliver(r)
  \/ EvictBuffer
  \/ Restart

Spec == Init /\ [][Next]_vars

-----------------------------------------------------------------------------
(***************************************************************************)
(* Properties                                                              *)
(***************************************************************************)

TypeOK ==
  /\ row \in Rows \cup {NoRow}
  /\ buf \in Records \cup {NoRecord}
  /\ fresh \in BOOLEAN
  /\ signed \subseteq Records
  /\ task \in [Tasks -> TaskStates]
  /\ intent \in {"never", "public", "private"}
  /\ weather \in Weathers
  /\ started \in 0..MaxCommands

\* Through every interleaving of the five writers of the row (save, publish,
\* unpublish, drained record, drained tombstone), the record the row keeps is
\* the one its sequence number names, and a row marked published has one.
RecordMatchesRow ==
  row # NoRow =>
    /\ row.rec # NoRecord => row.rec.seq = row.seq
    /\ row.published => row.rec # NoRecord

\* A playlist its author never shared is never signed: no save, delete,
\* unshare, renewal, announce or drain lets it out, in any order.
NeverSharedNeverSigned ==
  intent = "never" => signed = {}

\* Where a task may be with what in hand.
TaskShapes ==
  \A t \in Tasks :
    /\ task[t].pc = "save" => task[t].doc \in Docs /\ task[t].kind \in {"edit", "update"}
    /\ task[t].pc \in {"read", "seq", "send", "commit"} =>
         task[t].kind \in {"share", "update", "unshare", "delete", "renew"}
    /\ task[t].pc = "send" => task[t].seq # 0
    /\ task[t].pc = "commit" /\ task[t].kind \in {"share", "update", "renew"} =>
         task[t].seq # 0
    /\ task[t].pc \in {"check", "apply", "announce"} => task[t].rec # NoRecord

\* The drain is only owed a record the node still has.
FreshBuffered == fresh => buf # NoRecord

\* Until the first share the row has no
\* record and is not marked published, the node holds nothing, the loop has
\* nothing to do, and no command is on a path that ends at the node.
PrivateInv ==
  intent = "never" =>
    /\ signed = {}
    /\ buf = NoRecord
    /\ fresh = FALSE
    /\ row # NoRow => row.rec = NoRecord /\ row.published = FALSE
    /\ task[Background].pc = "idle"
    /\ \A c \in Commands :
         \/ task[c].pc = "idle"
         \/ task[c].pc = "save" /\ task[c].kind = "edit"
         \/ task[c].pc \in {"read", "commit"} /\ task[c].kind \in {"unshare", "delete"}

\* The inductive invariant behind the two: the types, what each task holds,
\* and both properties.
OwnInv ==
  /\ TypeOK
  /\ TaskShapes
  /\ FreshBuffered
  /\ RecordMatchesRow
  /\ PrivateInv

\* In calm weather no sequence number is signed twice with different contents,
\* although the number is read, awaited and used in separate steps (next_seq).
SeqNeverReused ==
  Calm => \A r, s \in signed : r.seq = s.seq => r = s

\* In calm weather an unshared or deleted playlist ends with its tombstone as
\* the newest record holders can have: nothing the loop drains or announces
\* afterwards brings the contents back (unpublish, delete).
UnshareRetracts ==
  Calm /\ Quiescent /\ intent = "private" /\ signed # {} =>
    \E r \in signed : /\ r.doc = Tombstone
                      /\ \A s \in signed : s.seq <= r.seq

\* Commands that end in a tombstone.
Retracting == {"unshare", "delete"}

\* In calm weather: who may be where.
CalmShapes ==
  /\ task[Background].pc \in {"idle", "check", "apply", "announce"}
  /\ \A c \in Commands :
       /\ task[c].pc # "idle" => c \in Slots
       /\ task[c].pc \in {"idle", "save", "read", "seq", "send", "commit"}
       /\ task[c].pc \in {"read", "seq", "send", "commit"} =>
            task[c].kind \in {"share", "update", "unshare", "delete"}
       /\ task[c].pc \in {"seq", "send", "commit"} =>
            (task[c].doc = Tombstone <=> task[c].kind \in Retracting)

\* ... the buffer holds the newest record, and no two records share a number.
CalmBuffer ==
  /\ buf = NoRecord => signed = {}
  /\ buf # NoRecord => buf \in signed
  /\ \A r \in signed : r.seq <= Seq(buf)
  /\ \A r, s \in signed : r.seq = s.seq => r = s

\* ... the loop only handles records that were signed, and what it compared
\* still holds when it writes.
CalmLoop ==
  /\ row # NoRow /\ row.rec # NoRecord => row.rec \in signed
  /\ task[Background].pc \in {"check", "apply", "announce"} => task[Background].rec \in signed
  /\ task[Background].pc = "apply" /\ row # NoRow => row.seq < task[Background].rec.seq

\* ... the row's number is the buffer's, except that it may lag by one while
\* the command that sent the newest record has yet to write it down.
Owned == row # NoRow /\ row.mine
Committing == \E c \in Commands : task[c].pc = "commit"
CalmNumbers ==
  /\ Owned => row.seq <= Seq(buf) /\ Seq(buf) <= row.seq + 1
  /\ Owned /\ ~Committing => row.seq = Seq(buf)
  /\ \A c \in Commands :
       /\ task[c].pc = "save" => Owned
       /\ task[c].pc \in {"seq", "send"} => Owned
       /\ task[c].pc = "seq" => task[c].seq = Seq(buf)
       /\ task[c].pc = "send" => task[c].seq = Seq(buf) + 1
       /\ task[c].pc = "commit" /\ task[c].kind # "delete" => Owned /\ task[c].seq = Seq(buf)
       /\ task[c].pc = "commit" /\ task[c].kind \in {"share", "update"} =>
            buf = [seq |-> task[c].seq, doc |-> task[c].doc]

\* ... contents are the newest record only of a row that is published, and a
\* row the user wants private is only published while a command retracts it.
CalmSharing ==
  /\ buf # NoRecord /\ buf.doc # Tombstone /\ ~Committing => Owned /\ row.published
  /\ \A c \in Commands :
       /\ task[c].pc = "commit" /\ task[c].kind \in Retracting =>
            buf = NoRecord \/ buf.doc = Tombstone
       /\ task[c].pc # "idle" /\ task[c].kind \in {"share", "update"} => intent = "public"
  /\ intent = "private" /\ Owned /\ row.published =>
       \E c \in Commands : task[c].pc \in {"read", "seq", "send", "commit"}
                           /\ task[c].kind \in Retracting
  /\ intent = "private" /\ buf # NoRecord /\ buf.doc # Tombstone =>
       \E c \in Commands : task[c].pc \in {"read", "seq", "send"}
                           /\ task[c].kind \in Retracting

\* The inductive invariant behind the two properties of calm weather.
CalmInv == Calm => CalmShapes /\ CalmBuffer /\ CalmLoop /\ CalmNumbers /\ CalmSharing

\* "The explicit Share action - the ONLY path that makes a playlist public":
\* with nothing in flight, a published row was last asked to be shared.
ShareOnlyPublishes ==
  Quiescent /\ row # NoRow /\ row.published => intent = "public"

\* manifest: the rows the node may disclose.
InManifest ==
  /\ row # NoRow
  /\ row.rec # NoRecord
  /\ ~row.tombstoned
  /\ row.mine /\ row.published

\* The disclosure set is "exactly what announce_once would re-gossip".
ManifestIsAnnounced ==
  Quiescent => (InManifest <=> Announceable)
=============================================================================
