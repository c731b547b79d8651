--------------------------- MODULE PlaylistStore ---------------------------
(***************************************************************************)
(* The playlist buffer of one client node and the two loops of its desktop *)
(* that use it: the drain (playlist/records polled by sync_once) and the   *)
(* announce cycle (playlist/announce called by announce_once).             *)
(*                                                                         *)
(*   src/node/playlist.go                                the buffer        *)
(*   src/apps/desktop/src-tauri/src/playlists.rs         the two loops     *)
(*                                                                         *)
(* The buffer keeps, per playlist name, the newest validated record with   *)
(* its document.  It is bounded twice (entries, document bytes), evicts    *)
(* the least recently seen name, and stamps every write with a version     *)
(* that is the cursor of the drain.  lastSeen doubles as the suppression   *)
(* input of the announce cycle.                                            *)
(*                                                                         *)
(* A record stands for a message that passed validatePlaylistMsg: its      *)
(* document hashes to the CID the record signs, so the document is a field *)
(* of the record.  Two records of one name may carry the same sequence     *)
(* number and different documents: nothing in the node prevents a signer   *)
(* from producing them.  An announce entry that does not validate is       *)
(* counted and changes nothing, so it has no action.                       *)
(*                                                                         *)
(* The desktop's database holds one row per name.  A row is in the library *)
(* (the user's own, or held) or merely seen; a tombstone leaves a library  *)
(* row dormant and drops a seen one; the byte budget and the end of a      *)
(* record's life drop seen rows.  What the user's commands do to the rows  *)
(* of names signed here is OwnPlaylist's; the drain treats them as it      *)
(* treats a held one.                                                      *)
(* Two inputs are left open at each step: which playlist is being played   *)
(* (at most one, and its row is spared), and which records the desktop     *)
(* finds expired or cannot store.                                          *)
(***************************************************************************)
EXTENDS Integers, FiniteSets, FiniteSetsExt

CONSTANTS
  Names,        \* playlist names (the signer's peer id)
  Docs,         \* documents, identified with their content hash
  Records,      \* validated messages: [name, seq, doc]
  DocSize,      \* DocSize[d]: bytes of document d
  EntryCap,     \* playlistStoreEnts
  ByteBudget,   \* playlistStoreBytes
  Window,       \* playlistAnnounceWindow, in clock ticks
  MaxClock,     \* bound: readings of the clock
  MaxVersion,   \* bound: writes to the buffer
  OwnNames,     \* names signed here: their rows are never seen rows
  Tombstones,   \* documents that delete their playlist (doc.del)
  Unfit,        \* documents validate_doc refuses although they hash right
  UserNames,    \* bound: playlists the user plays, holds or lets go
  AgingNames,   \* bound: names whose records expire, or fail to be stored
  SeenBudget,   \* budget: bytes of documents the seen rows may take
  SavedLedger,  \* the database an earlier session left: name -> row or NoRow
  NoEntry, NoRecord, NoReply, NoRow

ASSUME RecordAssumption ==
  /\ Records \subseteq [name : Names, seq : Nat, doc : Docs]
  /\ NoRecord \notin Records
ASSUME EntryAssumption ==
  NoEntry \notin [rec : Records, ver : Nat, lastSeen : Nat]
ASSUME ReplyAssumption ==
  NoReply \notin [version : Nat, recs : [Names -> Records \cup {NoRecord}]]
ASSUME SavedAssumption ==
  /\ NoRow \notin [rec : Records, seq : Nat, live : BOOLEAN, held : BOOLEAN]
  /\ SavedLedger \in [Names -> [rec : Records, seq : Nat, live : BOOLEAN,
                               held : BOOLEAN] \cup {NoRow}]
  /\ \A n \in Names : SavedLedger[n] # NoRow => SavedLedger[n].rec.name = n
ASSUME BoundAssumption ==
  /\ DocSize \in [Docs -> Nat]
  /\ EntryCap \in Nat /\ ByteBudget \in Nat /\ SeenBudget \in Nat
  /\ Window \in Nat \ {0}
  /\ MaxClock \in Nat /\ MaxVersion \in Nat

VARIABLES
  entries,      \* the buffer: name -> entry or NoEntry
  docBytes,     \* running total of the buffered documents' bytes
  version,      \* number of writes, the drain's cursor space
  clock,        \* the node's monotonic clock
  announcer,    \* the announce handler: one entry of the batch at a time
  announcedAt,  \* history: when the announce cycle last gossiped a name that
                \* has stayed buffered since; Never otherwise
  cursor,       \* the desktop's poll cursor
  reply,        \* the records reply on its way to the desktop, or NoReply
  ledger,       \* playlists.db: name -> row or NoRow
  rejected,     \* playlists.db: the (name, seq) pairs of refused documents
  offered       \* history: name -> the record ingest_wire last saw, and whether
                \* it was refused

buffer  == <<entries, docBytes, version, announcedAt>>
store   == <<ledger, rejected, offered>>
desktop == <<cursor, reply, ledger, rejected, offered>>
vars    == <<entries, docBytes, version, clock, announcer, announcedAt,
             cursor, reply, ledger, rejected, offered>>

-----------------------------------------------------------------------------
Entry == [rec : Records, ver : Nat, lastSeen : Nat]
Reply == [version : Nat, recs : [Names -> Records \cup {NoRecord}]]

\* A row keeps the record its document is of.  One without a record to announce
\* (~live) is dormant, at the sequence number of its tombstone, or a playlist
\* of the user's that was never shared, at 0.  held: the row is in the library.
Row == [rec : Records, seq : Nat, live : BOOLEAN, held : BOOLEAN]

\* Earlier than any clock reading by a whole window.
Never == -Window

Idle == [pc |-> "idle", rec |-> NoRecord]
AnnouncerState ==
  [pc : {"gossip", "store"}, rec : Records] \cup {Idle}

Resident(es) == {n \in Names : es[n] # NoEntry}

Bytes(S, es) == MapThenSumSet(LAMBDA n : DocSize[es[n].rec.doc], S)

-----------------------------------------------------------------------------
(***************************************************************************)
(* evictLocked: while a cap is exceeded, drop the name seen longest ago;   *)
(* map iteration order breaks ties.  The loop ends in any set of names     *)
(* that is within the caps (or empty), that keeps no name seen before a    *)
(* dropped one, and that would exceed a cap with its last victim back.     *)
(***************************************************************************)
Survivors(es, total) ==
  LET all == Resident(es)
      Over(S) == \/ Cardinality(S) > EntryCap
                 \/ total - Bytes(all \ S, es) > ByteBudget
      Latest(S) == {v \in S : \A u \in S : es[u].lastSeen <= es[v].lastSeen}
  IN {S \in SUBSET all :
        /\ S = {} \/ ~Over(S)
        /\ \A v \in all \ S, s \in S : es[v].lastSeen <= es[s].lastSeen
        /\ S # all => \E v \in Latest(all \ S) : Over(S \cup {v})}

\* A record that is not newer leaves the sighting alone.
SeenStale(e) == e

\* e.lastSeen = now
Seen(e) == [rec |-> e.rec, ver |-> e.ver, lastSeen |-> clock]

\* Equal sequence numbers count as newer.
NewerOrEqual(e, r) == e # NoEntry => e.rec.seq <= r.seq

\* An unknown name, or a higher sequence number than the one buffered.
Newer(e, r) == e # NoEntry => e.rec.seq < r.seq

\* The replaced document's bytes are not given back.
NothingFreed(e) == 0

\* Bytes of the document a write replaces.
Freed(e) == IF e = NoEntry THEN 0 ELSE DocSize[e.rec.doc]

\* ingest of a record that is not newer: only the sighting is refreshed.
Refresh(r) ==
  /\ ~Newer(entries[r.name], r)
  /\ entries' = [entries EXCEPT ![r.name] = Seen(@)]
  /\ UNCHANGED <<docBytes, version, announcedAt>>

\* ingest of an unknown name or a newer record: write, stamp, evict.
Accept(r) ==
  LET old     == entries[r.name]
      written == [entries EXCEPT ![r.name] =
                    [rec |-> r, ver |-> version + 1, lastSeen |-> clock]]
      total   == docBytes - Freed(old) + DocSize[r.doc]
  IN /\ Newer(old, r)
     /\ version < MaxVersion
     /\ version' = version + 1
     /\ \E keep \in Survivors(written, total) :
          /\ entries' = [n \in Names |-> IF n \in keep THEN written[n]
                                                       ELSE NoEntry]
          /\ docBytes' = total - Bytes(Resident(written) \ keep, written)
          /\ announcedAt' = [n \in Names |-> IF n \in keep THEN announcedAt[n]
                                                           ELSE Never]

Ingest(r) == Refresh(r) \/ Accept(r)

\* The entry right after the cursor is skipped.
SinceOffByOne(v) ==
  [version |-> version,
   recs    |-> [n \in Names |-> IF entries[n] # NoEntry /\ entries[n].ver > v + 1
                                THEN entries[n].rec ELSE NoRecord]]

\* The reply carries the version it was asked from.
SinceOldVersion(v) ==
  [version |-> v,
   recs    |-> [n \in Names |-> IF entries[n] # NoEntry /\ entries[n].ver > v
                                THEN entries[n].rec ELSE NoRecord]]

\* since: what was written after the cursor, and the version to poll from next.
Since(v) ==
  [version |-> version,
   recs    |-> [n \in Names |-> IF entries[n] # NoEntry /\ entries[n].ver > v
                                THEN entries[n].rec ELSE NoRecord]]

\* shouldAnnounce: unknown, or a whole window without a sighting.
ShouldAnnounce(n) ==
  entries[n] # NoEntry => clock - entries[n].lastSeen >= Window

-----------------------------------------------------------------------------
(***************************************************************************)
(* The desktop's database                                                  *)
(***************************************************************************)

SeenRows(rows) == {n \in Names : rows[n] # NoRow /\ ~rows[n].held}

RowBytes(S, rows) == MapThenSumSet(LAMBDA n : DocSize[rows[n].rec.doc], S)

\* What ingest_wire does not store: a record that is expired or that the
\* database fails on, and, when it would be newer, one whose document is unfit
\* or whose sequence number was refused before.
NotNewer(r) == ledger[r.name] # NoRow /\ ledger[r.name].seq >= r.seq
Refused(r, failing) ==
  \/ r.name \in failing
  \/ ~NotNewer(r) /\ (<<r.name, r.seq>> \in rejected \/ r.doc \in Unfit)

\* The row after ingest_wire: untouched, dropped or dormant for a tombstone,
\* or written with its place in the library kept (upsert_row).
IngestWire(r, failing, playing) ==
  LET row == ledger[r.name]
  IN IF Refused(r, failing) \/ NotNewer(r) THEN row
     ELSE IF r.doc \in Tombstones
     THEN IF row # NoRow /\ (row.held \/ r.name \in playing)
          THEN [row EXCEPT !.seq = r.seq, !.live = FALSE] ELSE NoRow
     ELSE [rec |-> r, seq |-> r.seq, live |-> TRUE,
           held |-> row # NoRow /\ row.held]

\* enforce_budget: seen rows other than the playing one are dropped, one by
\* one, until the rest fits or none is left to drop.  Which goes first (the
\* least recently updated) is left open.
WithinBudget(rows, playing) ==
  LET seen == SeenRows(rows)
  IN {keep \in SUBSET seen :
        /\ seen \cap playing \subseteq keep
        /\ keep \subseteq playing \/ RowBytes(keep, rows) <= SeenBudget
        /\ keep # seen =>
             \E v \in seen \ keep : RowBytes(keep \cup {v}, rows) > SeenBudget}

Without(rows, gone) == [n \in Names |-> IF n \in gone THEN NoRow ELSE rows[n]]

\* At most one playlist is being played.
Playing == {{}} \cup {{n} : n \in Names \cap UserNames}

-----------------------------------------------------------------------------
\* The node starts empty and polls from 0; the desktop's database is durable.
Init ==
  /\ entries = [n \in Names |-> NoEntry]
  /\ docBytes = 0
  /\ version = 0
  /\ clock = 0
  /\ announcer = Idle
  /\ announcedAt = [n \in Names |-> Never]
  /\ cursor = 0
  /\ reply = NoReply
  /\ ledger = SavedLedger
  /\ rejected = {}
  /\ offered = [n \in Names |-> [rec |-> NoRecord, refused |-> FALSE]]

\* The topic delivers an accepted message, a peer's or our own.
playlistSink(r) ==
  /\ Ingest(r)
  /\ UNCHANGED <<clock, announcer, desktop>>

\* playlist/publish: sign, ingest, then push to the topic.  A failed push is
\* only logged; a successful one comes back through playlistSink.  What the
\* desktop does with the answer is OwnPlaylist's.
PublishPlaylist(r) ==
  /\ r.name \in OwnNames
  /\ Ingest(r)
  /\ UNCHANGED <<clock, announcer, desktop>>

\* announce_once, AnnouncePlaylists, one entry: only the library is announced,
\* without its dormant rows, and an entry the window suppresses ends here.
AnnounceCheck(n) ==
  /\ announcer = Idle
  /\ ledger[n] # NoRow /\ ledger[n].held /\ ledger[n].live
  /\ ShouldAnnounce(n)
  /\ announcer' = [pc |-> "gossip", rec |-> ledger[n].rec]
  /\ UNCHANGED <<buffer, clock, desktop>>

\* The push, made without the store's lock; its failure is only logged.
AnnounceGossip ==
  /\ announcer.pc = "gossip"
  /\ announcer' = [pc |-> "store", rec |-> announcer.rec]
  /\ \E pushed \in BOOLEAN :
       announcedAt' = IF pushed
                      THEN [announcedAt EXCEPT ![announcer.rec.name] = clock]
                      ELSE announcedAt
  /\ UNCHANGED <<entries, docBytes, version, clock, desktop>>

AnnounceStore ==
  /\ announcer.pc = "store"
  /\ Ingest(announcer.rec)
  /\ announcer' = Idle
  /\ UNCHANGED <<clock, desktop>>

\* The poll of sync_once: the node answers from the cursor it is given.
PollRecords ==
  /\ reply = NoReply
  /\ reply' = Since(cursor)
  /\ UNCHANGED <<buffer, clock, announcer, cursor, store>>

\* The names a reply brings a record of.
Drained == {n \in Names : reply.recs[n] # NoRecord}

\* A reply reaches the loop, which polls next from its version.
ReplyTaken ==
  /\ reply # NoReply
  /\ cursor' = reply.version
  /\ reply' = NoReply

\* The rows after each record of the reply went through ingest_wire.
Ingested(failing, playing) ==
  [n \in Names |-> IF n \in Drained
                   THEN IngestWire(reply.recs[n], failing, playing) ELSE ledger[n]]

\* The budget is enforced when the reply brought something.
Enforced(rows, playing) ==
  IF Drained = {} THEN {SeenRows(rows)} ELSE WithinBudget(rows, playing)

\* remember_rejected, for a document that was validated and refused.
NowRejected(failing) ==
  {<<n, reply.recs[n].seq>> :
     n \in {m \in Drained \ failing : /\ ~NotNewer(reply.recs[m])
                                     /\ reply.recs[m].doc \in Unfit}}

\* sync_once over a reply that arrives: every record goes through ingest_wire,
\* whose refusals are only logged, then the budget is enforced, and the cursor
\* moves to the version of the reply whatever was refused.
SyncOnce ==
  /\ ReplyTaken
  /\ UNCHANGED <<buffer, clock, announcer>>
  /\ \E failing \in SUBSET (Drained \cap AgingNames), playing \in Playing :
       LET rows == Ingested(failing, playing)
       IN /\ \E keep \in Enforced(rows, playing) :
               ledger' = Without(rows, SeenRows(rows) \ keep)
          /\ rejected' = rejected \cup NowRejected(failing)
          /\ offered' = [n \in Names |-> IF n \in Drained
               THEN [rec |-> reply.recs[n], refused |-> Refused(reply.recs[n], failing)]
               ELSE offered[n]]

\* The poll errors or times out: the cursor stays.
PollLost ==
  /\ reply # NoReply
  /\ reply' = NoReply
  /\ UNCHANGED <<buffer, clock, announcer, cursor, store>>

\* decay_expired, at the head of announce_once: seen rows that are dormant or
\* whose record has expired go, except the one being played.
DecayExpired ==
  /\ \E playing \in Playing :
       LET loose   == SeenRows(ledger) \ playing
           dormant == {n \in loose : ~ledger[n].live}
       IN \E expired \in SUBSET (loose \cap AgingNames) :
            /\ dormant \cup expired # {}
            /\ ledger' = Without(ledger, dormant \cup expired)
  /\ UNCHANGED <<buffer, clock, announcer, cursor, reply, rejected, offered>>

\* set_held: the user puts a playlist in the library or takes it out.
Toggled(row) == [row EXCEPT !.held = ~row.held]

SetHeld(n) ==
  /\ n \in UserNames \ OwnNames
  /\ ledger[n] # NoRow
  /\ ledger' = [ledger EXCEPT ![n] = Toggled(@)]
  /\ UNCHANGED <<buffer, clock, announcer, cursor, reply, rejected, offered>>

Tick ==
  /\ clock < MaxClock
  /\ clock' = clock + 1
  /\ UNCHANGED <<buffer, announcer, desktop>>

Next ==
  \/ \E r \in Records : playlistSink(r) \/ PublishPlaylist(r)
  \/ \E n \in Names : AnnounceCheck(n) \/ SetHeld(n)
  \/ AnnounceGossip
  \/ AnnounceStore
  \/ PollRecords
  \/ SyncOnce
  \/ PollLost
  \/ DecayExpired
  \/ Tick

Spec == Init /\ [][Next]_vars

\* run_loops polls for ever, and a reply is not lost every time.
FairSpec == Spec /\ WF_vars(PollRecords) /\ SF_<<cursor, reply>>(ReplyTaken)

-----------------------------------------------------------------------------
(***************************************************************************)
(* Properties                                                              *)
(***************************************************************************)

\* Every variable keeps its shape (docBytes is pinned by BytesAccounted).
TypeOK ==
  /\ entries \in [Names -> Entry \cup {NoEntry}]
  /\ version \in Nat
  /\ clock \in Nat
  /\ announcer \in AnnouncerState
  /\ announcedAt \in [Names -> Nat \cup {Never}]
  /\ cursor \in Nat
  /\ reply \in Reply \cup {NoReply}
  /\ ledger \in [Names -> Row \cup {NoRow}]
  /\ rejected \subseteq Names \X Nat
  /\ offered \in [Names -> [rec : Records \cup {NoRecord}, refused : BOOLEAN]]

\* The incremental byte counter of ingest and evictLocked never drifts from
\* the documents that are buffered, and both caps hold after every call.
BytesAccounted ==
  /\ docBytes = Bytes(Resident(entries), entries)
  /\ docBytes <= ByteBudget
  /\ Cardinality(Resident(entries)) <= EntryCap

\* Entries carry distinct versions, none above the store's: this is what lets
\* one number be the cursor of the drain (ingest, since).
VersionsOrdered ==
  /\ \A n \in Names : entries[n] # NoEntry => entries[n].ver <= version
  /\ \A m, n \in Names :
       /\ m # n
       /\ entries[m] # NoEntry
       /\ entries[n] # NoEntry
       => entries[m].ver # entries[n].ver

\* Entries are filed under the name their record signs.
FiledUnderName ==
  /\ \A n \in Names : entries[n] # NoEntry => entries[n].rec.name = n
  /\ \A n \in Names : ledger[n] # NoRow => ledger[n].rec.name = n

\* A reply on its way covers everything between the cursor and its version
\* that is still buffered: writes made after the snapshot are above it, and a
\* name it brings is buffered above the cursor, if at all.
ReplyCovers ==
  reply # NoReply =>
    /\ cursor <= reply.version
    /\ reply.version <= version
    /\ \A n \in Names :
         /\ entries[n] # NoEntry
         /\ entries[n].ver > cursor
         /\ entries[n].ver <= reply.version
         => reply.recs[n] = entries[n].rec
    /\ \A n \in Names : reply.recs[n] # NoRecord =>
         /\ reply.recs[n].name = n
         /\ entries[n] # NoEntry => entries[n].ver > cursor

\* The drain skips nothing: a buffered record at or below the poll cursor has
\* been through ingest_wire, whatever was written, evicted, rewritten or lost
\* while replies were under way; and unless ingest_wire refused it, a row the
\* desktop has of its name is at least as new.  A record that is refused is
\* not offered again, and there may be no row: a tombstone, the budget or the
\* decay has dropped it (since, sync_once, ingest_wire, enforce_budget).
DrainComplete ==
  \A n \in Names :
    /\ entries[n] # NoEntry
    /\ entries[n].ver <= cursor
    => /\ offered[n].rec = entries[n].rec
       /\ \/ offered[n].refused
          \/ ledger[n] = NoRow
          \/ ledger[n].seq >= entries[n].rec.seq

\* The inductive invariant behind DrainComplete.
DrainInv ==
  /\ TypeOK
  /\ FiledUnderName
  /\ VersionsOrdered
  /\ cursor <= version
  /\ ReplyCovers
  /\ DrainComplete

\* Newest sequence wins for as long as a name stays buffered: its record is
\* replaced only by one with a higher sequence number, and an equal one signed
\* over another document never displaces it (ingest).
NewestWins ==
  [][\A n \in Names :
       entries[n] # NoEntry /\ entries'[n] # NoEntry =>
         \/ entries'[n].rec = entries[n].rec
         \/ entries'[n].rec.seq > entries[n].rec.seq]_vars

\* The announce cycle gossips a name at most once per window unless the name
\* was evicted in between, although the check, the push and the ingest that
\* arms the window are three steps (AnnouncePlaylists).
AnnounceSpacing ==
  [][\A n \in Names :
       announcedAt'[n] > announcedAt[n] /\ announcedAt[n] # Never =>
         announcedAt'[n] - announcedAt[n] >= Window]_vars

\* The inductive invariant behind AnnounceSpacing: a name with an announce on
\* record is still buffered and was sighted no earlier than that announce, or
\* its announce is between the push and the ingest; and a push that is due
\* comes a window after the previous one.
SpacingInv ==
  /\ \A n \in Names : entries[n] # NoEntry => entries[n].lastSeen <= clock
  /\ \A n \in Names : announcedAt[n] # Never =>
       /\ announcedAt[n] <= clock
       /\ \/ announcer.pc = "store" /\ announcer.rec.name = n
          \/ entries[n] # NoEntry /\ announcedAt[n] <= entries[n].lastSeen
  /\ announcer.pc = "gossip" =>
       LET at == announcedAt[announcer.rec.name]
       IN at # Never => clock - at >= Window

\* Every write to the buffer is eventually behind the poll cursor.
CursorCatchesUp ==
  \A v \in 1..MaxVersion : version >= v ~> cursor >= v

\* "A duplicate announce from elsewhere means we need not re-announce it
\* ourselves": when the window holds back the record the desktop would
\* announce, the node has seen a record of that name at least as new.
SuppressedOnlyIfCovered ==
  \A n \in Names :
    ledger[n] # NoRow /\ ledger[n].held /\ ledger[n].live /\ ~ShouldAnnounce(n) =>
      entries[n].rec.seq >= ledger[n].seq
=============================================================================
