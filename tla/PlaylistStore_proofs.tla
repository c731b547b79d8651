----------------------- MODULE PlaylistStore_proofs ------------------------
(***************************************************************************)
(* Proofs about PlaylistStore, for every set of names and records, every   *)
(* cap, budget, window and bound.                                          *)
(***************************************************************************)
EXTENDS PlaylistStore, FiniteSetTheorems, WellFoundedInduction, TLAPS

\* What ingest does to the buffer, whichever entries eviction drops: each
\* entry afterwards is an old one with the same record and version, or the
\* ingested record under a fresh version (ingest, evictLocked).
LEMMA IngestEffect ==
  ASSUME TypeOK, NEW r \in Records, Ingest(r)
  PROVE  /\ entries' \in [Names -> Entry \cup {NoEntry}]
         /\ announcedAt' \in [Names -> Nat \cup {Never}]
         /\ version' \in Nat
         /\ version <= version'
         /\ \A n \in Names : entries'[n] # NoEntry =>
              \/ /\ entries[n] # NoEntry
                 /\ entries'[n].rec = entries[n].rec
                 /\ entries'[n].ver = entries[n].ver
              \/ /\ n = r.name
                 /\ entries[n] # NoEntry => entries[n].rec.seq < r.seq
                 /\ entries'[n].rec = r
                 /\ entries'[n].ver = version + 1
                 /\ version' = version + 1
<1>1. r.name \in Names /\ r.seq \in Nat
  BY RecordAssumption
<1>2. CASE Refresh(r)
  <2>1. /\ entries[r.name] # NoEntry
        /\ entries[r.name] \in Entry
    BY <1>1, <1>2 DEF Refresh, Newer, TypeOK
  <2>2. /\ entries' = [entries EXCEPT ![r.name] = Seen(entries[r.name])]
        /\ version' = version
        /\ announcedAt' = announcedAt
    BY <1>2 DEF Refresh
  <2>3. Seen(entries[r.name]) \in Entry
    BY <2>1 DEF TypeOK, Entry, Seen
  <2>4. entries' \in [Names -> Entry \cup {NoEntry}]
    BY <1>1, <2>2, <2>3 DEF TypeOK
  <2>5. ASSUME NEW n \in Names, entries'[n] # NoEntry
        PROVE  /\ entries[n] # NoEntry
               /\ entries'[n].rec = entries[n].rec
               /\ entries'[n].ver = entries[n].ver
    <3>1. CASE n = r.name
      BY <1>1, <2>1, <2>2, <3>1 DEF TypeOK, Seen
    <3>2. CASE n # r.name
      BY <2>2, <2>5, <3>2 DEF TypeOK
    <3> QED BY <3>1, <3>2
  <2> QED BY <2>2, <2>4, <2>5 DEF TypeOK
<1>3. CASE Accept(r)
  <2> DEFINE written == [entries EXCEPT ![r.name] =
                           [rec |-> r, ver |-> version + 1, lastSeen |-> clock]]
  <2>1. PICK keep :
          /\ entries' = [n \in Names |-> IF n \in keep THEN written[n]
                                                       ELSE NoEntry]
          /\ announcedAt' = [n \in Names |-> IF n \in keep THEN announcedAt[n]
                                                           ELSE Never]
    BY <1>3 DEF Accept
  <2>2. /\ version' = version + 1
        /\ entries[r.name] # NoEntry => entries[r.name].rec.seq < r.seq
    BY <1>3 DEF Accept, Newer
  <2>3. /\ written \in [Names -> Entry \cup {NoEntry}]
        /\ \A n \in Names : n # r.name => written[n] = entries[n]
        /\ written[r.name] = [rec |-> r, ver |-> version + 1, lastSeen |-> clock]
    BY <1>1 DEF TypeOK, Entry
  <2>4. /\ entries' \in [Names -> Entry \cup {NoEntry}]
        /\ announcedAt' \in [Names -> Nat \cup {Never}]
    BY <2>1, <2>3 DEF TypeOK
  <2>5. ASSUME NEW n \in Names, entries'[n] # NoEntry
        PROVE  \/ /\ entries[n] # NoEntry
                  /\ entries'[n].rec = entries[n].rec
                  /\ entries'[n].ver = entries[n].ver
               \/ /\ n = r.name
                  /\ entries[n] # NoEntry => entries[n].rec.seq < r.seq
                  /\ entries'[n].rec = r
                  /\ entries'[n].ver = version + 1
                  /\ version' = version + 1
    <3>1. entries'[n] = written[n]
      BY <2>1, <2>5
    <3>2. CASE n = r.name
      BY <2>2, <2>3, <3>1, <3>2
    <3>3. CASE n # r.name
      BY <2>3, <2>5, <3>1, <3>3
    <3> QED BY <3>2, <3>3
  <2> HIDE DEF written
  <2> QED BY <2>2, <2>4, <2>5 DEF TypeOK
<1> QED BY <1>2, <1>3 DEF Ingest

-----------------------------------------------------------------------------
\* The empty buffer with a saved database satisfies the invariant.
LEMMA DrainInvInit == Init => DrainInv
<1> SUFFICES ASSUME Init PROVE DrainInv
  OBVIOUS
<1>1. TypeOK
  BY SavedAssumption, BoundAssumption
     DEF Init, TypeOK, AnnouncerState, Never, Row
<1>2. FiledUnderName /\ VersionsOrdered /\ ReplyCovers /\ DrainComplete
  BY SavedAssumption
     DEF Init, FiledUnderName, VersionsOrdered, ReplyCovers, DrainComplete
<1>3. cursor <= version
  BY DEF Init
<1> QED BY <1>1, <1>2, <1>3 DEF DrainInv

\* ingest, from any of its callers, keeps the part of the invariant that
\* relates the buffer to the drain.
LEMMA IngestKeepsDrain ==
  ASSUME DrainInv, NEW r \in Records, Ingest(r), UNCHANGED desktop
  PROVE  /\ FiledUnderName' /\ VersionsOrdered' /\ ReplyCovers' /\ DrainComplete'
         /\ (cursor <= version)'
<1> DEFINE Kept(n)  == /\ entries[n] # NoEntry
                       /\ entries'[n].rec = entries[n].rec
                       /\ entries'[n].ver = entries[n].ver
           Fresh(n) == /\ n = r.name
                       /\ entries[n] # NoEntry => entries[n].rec.seq < r.seq
                       /\ entries'[n].rec = r
                       /\ entries'[n].ver = version + 1
                       /\ version' = version + 1
<1>1. /\ TypeOK /\ cursor' = cursor /\ reply' = reply
      /\ ledger' = ledger /\ offered' = offered
  BY DEF DrainInv, desktop
<1>2. /\ version \in Nat /\ version' \in Nat /\ cursor \in Nat
      /\ version <= version' /\ cursor <= version
  BY <1>1, IngestEffect DEF DrainInv, TypeOK
<1>3. \A n \in Names : entries'[n] # NoEntry => Kept(n) \/ Fresh(n)
  BY <1>1, IngestEffect
<1>4. \A n \in Names : entries[n] # NoEntry =>
        entries[n].ver \in Nat /\ entries[n].ver <= version
  BY <1>1 DEF DrainInv, TypeOK, Entry, VersionsOrdered
<1>5. FiledUnderName'
  BY <1>1, <1>3 DEF DrainInv, FiledUnderName
<1>6. VersionsOrdered'
  <2>1. ASSUME NEW n \in Names, entries'[n] # NoEntry
        PROVE  entries'[n].ver <= version'
    BY <1>2, <1>3, <1>4, <2>1
  <2>2. ASSUME NEW m \in Names, NEW n \in Names, m # n,
               entries'[m] # NoEntry, entries'[n] # NoEntry
        PROVE  entries'[m].ver # entries'[n].ver
    BY <1>2, <1>3, <1>4, <2>2 DEF DrainInv, VersionsOrdered
  <2> QED BY <2>1, <2>2 DEF VersionsOrdered
<1>7. ReplyCovers'
  <2> SUFFICES ASSUME reply # NoReply
               PROVE  ReplyCovers'
    BY <1>1 DEF ReplyCovers
  <2>1. /\ cursor <= reply.version /\ reply.version <= version
        /\ reply.version \in Nat
    BY <1>1 DEF DrainInv, ReplyCovers, TypeOK, Reply
  <2>2. ASSUME NEW n \in Names, entries'[n] # NoEntry,
               entries'[n].ver > cursor, entries'[n].ver <= reply.version
        PROVE  reply.recs[n] = entries'[n].rec
    BY <1>2, <1>3, <2>1, <2>2 DEF DrainInv, ReplyCovers
  <2>3. ASSUME NEW n \in Names, reply.recs[n] # NoRecord
        PROVE  /\ reply.recs[n].name = n
               /\ entries'[n] # NoEntry => entries'[n].ver > cursor
    BY <1>2, <1>3, <2>3 DEF DrainInv, ReplyCovers
  <2> QED BY <1>1, <1>2, <2>1, <2>2, <2>3 DEF ReplyCovers
<1>8. DrainComplete'
  <2> SUFFICES ASSUME NEW n \in Names, entries'[n] # NoEntry,
                      entries'[n].ver <= cursor
               PROVE  /\ offered[n].rec = entries'[n].rec
                      /\ \/ offered[n].refused
                         \/ ledger[n] = NoRow
                         \/ ledger[n].seq >= entries'[n].rec.seq
    BY <1>1 DEF DrainComplete
  <2>1. Kept(n)
    BY <1>2, <1>3
  <2> QED BY <2>1 DEF DrainInv, DrainComplete
<1> QED BY <1>1, <1>2, <1>5, <1>6, <1>7, <1>8

\* The row ingest_wire leaves: it is filed under its name, and unless the
\* record was refused or left no row, it is at least as new as the record.
LEMMA IngestWireRow ==
  ASSUME TypeOK, FiledUnderName, NEW r \in Records, NEW failing, NEW playing
  PROVE  LET row == IngestWire(r, failing, playing)
         IN /\ row \in Row \cup {NoRow}
            /\ row # NoRow => row.rec.name = r.name
            /\ Refused(r, failing) \/ row = NoRow \/ row.seq >= r.seq
<1> DEFINE row == IngestWire(r, failing, playing)
           old == ledger[r.name]
<1>1. /\ r.name \in Names /\ r.seq \in Nat
      /\ old \in Row \cup {NoRow}
      /\ old # NoRow => old.rec.name = r.name
  BY RecordAssumption DEF TypeOK, FiledUnderName
<1>2. NoRow \notin Row
  BY SavedAssumption DEF Row
<1>3. CASE Refused(r, failing) \/ NotNewer(r)
  <2>1. row = old
    BY <1>3 DEF IngestWire
  <2>2. Refused(r, failing) \/ old = NoRow \/ old.seq >= r.seq
    BY <1>3 DEF NotNewer
  <2> HIDE DEF row
  <2> QED BY <1>1, <2>1, <2>2 DEF row
<1>4. CASE ~Refused(r, failing) /\ ~NotNewer(r) /\ r.doc \in Tombstones
  <2>1. row \in {NoRow, [old EXCEPT !.seq = r.seq, !.live = FALSE]}
    BY <1>4 DEF IngestWire
  <2>2. CASE row = NoRow
    <3> HIDE DEF row
    <3> QED BY <2>2 DEF row
  <2>3. CASE row # NoRow
    <3>1. old # NoRow /\ row = [old EXCEPT !.seq = r.seq, !.live = FALSE]
      BY <1>4, <2>3 DEF IngestWire
    <3>2. old \in Row
      BY <1>1, <3>1
    <3> HIDE DEF row, old
    <3>3. row \in Row /\ row.rec = old.rec /\ row.seq = r.seq
      BY <1>1, <3>1, <3>2 DEF Row
    <3>4. row.rec.name = r.name /\ row.seq >= r.seq
      BY <1>1, <3>1, <3>3
    <3> QED BY <3>3, <3>4 DEF row
  <2> QED BY <2>2, <2>3
<1>5. CASE ~Refused(r, failing) /\ ~NotNewer(r) /\ r.doc \notin Tombstones
  <2>1. row = [rec |-> r, seq |-> r.seq, live |-> TRUE,
               held |-> old # NoRow /\ old.held]
    BY <1>5 DEF IngestWire
  <2>2. (old # NoRow /\ old.held) \in BOOLEAN
    BY <1>1 DEF Row
  <2> HIDE DEF row, old
  <2>3. row \in Row /\ row.rec = r /\ row.seq = r.seq
    BY <1>1, <2>1, <2>2 DEF Row
  <2>4. row.rec.name = r.name /\ row.seq >= r.seq
    BY <1>1, <2>3
  <2> QED BY <2>3, <2>4 DEF row
<1> QED BY <1>3, <1>4, <1>5

\* Dropping rows, or changing their place in the library, loses nothing of what
\* the drain owes (enforce_budget, decay_expired, set_held).
RowsKept(rows) ==
  \A n \in Names :
    /\ rows[n] \in Row \cup {NoRow}
    /\ rows[n] # NoRow => /\ ledger[n] # NoRow
                          /\ rows[n].rec = ledger[n].rec
                          /\ rows[n].seq = ledger[n].seq

LEMMA RowsKeepDrain ==
  ASSUME DrainInv, ledger' \in [Names -> Row \cup {NoRow}], RowsKept(ledger'),
         UNCHANGED <<buffer, clock, announcer, cursor, reply, rejected, offered>>
  PROVE  DrainInv'
<1>1. TypeOK'
  BY DEF DrainInv, TypeOK, buffer
<1>2. FiledUnderName'
  BY DEF DrainInv, FiledUnderName, RowsKept, buffer
<1>3. DrainComplete'
  BY DEF DrainInv, DrainComplete, RowsKept, buffer
<1> QED BY <1>1, <1>2, <1>3 DEF DrainInv, VersionsOrdered, ReplyCovers, buffer

\* A reply that is taken: every record it brings was offered, and the cursor
\* may move to its version (sync_once).
LEMMA SyncOnceKeepsDrain == DrainInv /\ SyncOnce => DrainInv'
<1> SUFFICES ASSUME DrainInv, SyncOnce PROVE DrainInv'
  OBVIOUS
<1>1. /\ TypeOK /\ FiledUnderName /\ VersionsOrdered /\ ReplyCovers
      /\ DrainComplete /\ cursor <= version
  BY DEF DrainInv
<1>2. /\ UNCHANGED <<buffer, clock, announcer>>
      /\ reply # NoReply /\ reply' = NoReply /\ cursor' = reply.version
  BY DEF SyncOnce, ReplyTaken
<1>3. PICK failing, playing, gone :
        /\ ledger' = Without(Ingested(failing, playing), gone)
        /\ rejected' = rejected \cup NowRejected(failing)
        /\ offered' = [n \in Names |-> IF n \in Drained
             THEN [rec |-> reply.recs[n], refused |-> Refused(reply.recs[n], failing)]
             ELSE offered[n]]
  BY DEF SyncOnce
<1> DEFINE rows == Ingested(failing, playing)
<1>4. /\ reply \in Reply /\ reply.recs \in [Names -> Records \cup {NoRecord}]
      /\ \A n \in Drained : /\ n \in Names
                            /\ reply.recs[n] \in Records
                            /\ reply.recs[n].name = n
                            /\ reply.recs[n].seq \in Nat
  BY <1>1, <1>2, RecordAssumption DEF TypeOK, Reply, Drained, ReplyCovers
<1>5. \A n \in Drained :
        /\ rows[n] \in Row \cup {NoRow}
        /\ rows[n] # NoRow => rows[n].rec.name = n
        /\ \/ Refused(reply.recs[n], failing)
           \/ rows[n] = NoRow
           \/ rows[n].seq >= reply.recs[n].seq
  <2> TAKE n \in Drained
  <2>1. rows[n] = IngestWire(reply.recs[n], failing, playing)
    BY <1>4 DEF Ingested
  <2> HIDE DEF rows
  <2> QED BY <1>1, <1>4, <2>1, IngestWireRow
<1>6. \A n \in Names \ Drained : rows[n] = ledger[n]
  BY DEF Ingested
<1>7. ledger' \in [Names -> {NoRow} \cup {rows[n] : n \in Names}]
      /\ \A n \in Names : ledger'[n] = NoRow \/ ledger'[n] = rows[n]
  <2> HIDE DEF rows
  <2> QED BY <1>3 DEF Without, rows
<1> HIDE DEF rows
<1>8. TypeOK'
  <2>1. ledger' \in [Names -> Row \cup {NoRow}]
    BY <1>1, <1>5, <1>6, <1>7 DEF TypeOK
  <2>2. rejected' \subseteq Names \X Nat
    BY <1>1, <1>3, <1>4 DEF TypeOK, NowRejected
  <2>3. offered' \in [Names -> [rec : Records \cup {NoRecord}, refused : BOOLEAN]]
    <3>1. \A n \in Drained : Refused(reply.recs[n], failing) \in BOOLEAN
      BY DEF Refused
    <3> QED BY <1>1, <1>3, <1>4, <3>1 DEF TypeOK
  <2>4. cursor' \in Nat
    BY <1>2, <1>4 DEF Reply
  <2> QED BY <1>1, <1>2, <2>1, <2>2, <2>3, <2>4 DEF TypeOK, buffer
<1>9. FiledUnderName'
  BY <1>1, <1>2, <1>5, <1>6, <1>7 DEF FiledUnderName, buffer
<1>10. VersionsOrdered' /\ ReplyCovers' /\ (cursor <= version)'
  BY <1>1, <1>2 DEF VersionsOrdered, ReplyCovers, buffer
<1>11. DrainComplete'
  <2> SUFFICES ASSUME NEW n \in Names, entries[n] # NoEntry,
                      entries[n].ver <= reply.version
               PROVE  /\ offered'[n].rec = entries[n].rec
                      /\ \/ offered'[n].refused
                         \/ ledger'[n] = NoRow
                         \/ ledger'[n].seq >= entries[n].rec.seq
    BY <1>2 DEF DrainComplete, buffer
  <2>1. entries[n].ver \in Nat /\ cursor \in Nat /\ entries[n].rec \in Records
    BY <1>1 DEF TypeOK, Entry
  <2>2. CASE entries[n].ver <= cursor
    <3>1. n \notin Drained
      BY <1>1, <1>2, <2>1, <2>2 DEF ReplyCovers, Drained
    <3>2. offered'[n] = offered[n] /\ rows[n] = ledger[n]
      BY <1>3, <1>6, <3>1
    <3> QED BY <1>1, <1>7, <2>2, <3>2 DEF DrainComplete
  <2>3. CASE entries[n].ver > cursor
    <3>1. reply.recs[n] = entries[n].rec
      BY <1>1, <1>2, <2>3 DEF ReplyCovers
    <3>2. n \in Drained
      BY <2>1, <3>1, RecordAssumption DEF Drained
    <3>3. /\ offered'[n].rec = entries[n].rec
          /\ offered'[n].refused = Refused(entries[n].rec, failing)
      BY <1>3, <3>1, <3>2
    <3>4. \/ Refused(entries[n].rec, failing) \/ rows[n] = NoRow
          \/ rows[n].seq >= entries[n].rec.seq
      BY <1>5, <3>1, <3>2
    <3> QED BY <1>7, <3>3, <3>4
  <2> QED BY <2>1, <2>2, <2>3
<1> QED BY <1>8, <1>9, <1>10, <1>11 DEF DrainInv

\* Every step keeps the invariant.
LEMMA DrainInvStep == DrainInv /\ [Next]_vars => DrainInv'
<1> SUFFICES ASSUME DrainInv, [Next]_vars PROVE DrainInv'
  OBVIOUS
<1> USE DEF DrainInv
<1>1. ASSUME NEW r \in Records, playlistSink(r) \/ PublishPlaylist(r)
      PROVE  DrainInv'
  <2>1. /\ Ingest(r) /\ UNCHANGED desktop
        /\ clock' = clock /\ announcer' = announcer
    BY <1>1 DEF playlistSink, PublishPlaylist
  <2>2. TypeOK'
    BY <2>1, IngestEffect DEF TypeOK, desktop, AnnouncerState, Idle
  <2> QED BY <2>1, <2>2, IngestKeepsDrain
<1>2. ASSUME NEW n \in Names, AnnounceCheck(n) PROVE DrainInv'
  <2>1. /\ UNCHANGED <<buffer, clock, desktop>>
        /\ announcer' = [pc |-> "gossip", rec |-> ledger[n].rec]
        /\ ledger[n].rec \in Records
    BY <1>2 DEF AnnounceCheck, TypeOK, Row
  <2>2. TypeOK'
    BY <2>1 DEF TypeOK, buffer, desktop, AnnouncerState
  <2> QED BY <2>1, <2>2 DEF buffer, desktop, FiledUnderName, VersionsOrdered,
                            ReplyCovers, DrainComplete
<1>3. ASSUME AnnounceGossip PROVE DrainInv'
  <2>1. /\ UNCHANGED <<entries, docBytes, version, clock, desktop>>
        /\ announcer.pc = "gossip"
        /\ announcer' = [pc |-> "store", rec |-> announcer.rec]
    BY <1>3 DEF AnnounceGossip
  <2>2. announcer.rec \in Records
    BY <2>1 DEF TypeOK, AnnouncerState, Idle
  <2>3. announcedAt' \in [Names -> Nat \cup {Never}]
    BY <1>3 DEF AnnounceGossip, TypeOK
  <2>4. TypeOK'
    BY <2>1, <2>2, <2>3 DEF TypeOK, desktop, AnnouncerState
  <2> QED BY <2>1, <2>4 DEF desktop, FiledUnderName, VersionsOrdered,
                            ReplyCovers, DrainComplete
<1>4. ASSUME AnnounceStore PROVE DrainInv'
  <2>1. /\ announcer.rec \in Records /\ Ingest(announcer.rec)
        /\ UNCHANGED desktop /\ clock' = clock /\ announcer' = Idle
    BY <1>4 DEF AnnounceStore, TypeOK, AnnouncerState, Idle
  <2>2. TypeOK'
    BY <2>1, IngestEffect DEF TypeOK, desktop, AnnouncerState
  <2> QED BY <2>1, <2>2, IngestKeepsDrain
<1>5. ASSUME PollRecords PROVE DrainInv'
  <2>1. /\ UNCHANGED <<buffer, clock, announcer, cursor, ledger, rejected, offered>>
        /\ reply' = Since(cursor)
    BY <1>5 DEF PollRecords, store
  <2>2. /\ Since(cursor) \in Reply
        /\ Since(cursor).version = version
        /\ \A n \in Names :
             Since(cursor).recs[n] =
               IF entries[n] # NoEntry /\ entries[n].ver > cursor
               THEN entries[n].rec ELSE NoRecord
    BY DEF Since, Reply, TypeOK, Entry
  <2>3. TypeOK'
    BY <2>1, <2>2 DEF TypeOK, buffer
  <2>4. ReplyCovers'
    BY <2>1, <2>2 DEF TypeOK, ReplyCovers, buffer, FiledUnderName
  <2> QED BY <2>1, <2>3, <2>4 DEF buffer, FiledUnderName, VersionsOrdered,
                                  DrainComplete
<1>6. ASSUME SyncOnce PROVE DrainInv'
  BY <1>6, SyncOnceKeepsDrain
<1>7. ASSUME PollLost PROVE DrainInv'
  BY <1>7 DEF PollLost, TypeOK, buffer, store, FiledUnderName, VersionsOrdered,
              ReplyCovers, DrainComplete
<1>8. ASSUME Tick PROVE DrainInv'
  BY <1>8 DEF Tick, TypeOK, buffer, desktop, FiledUnderName, VersionsOrdered,
              ReplyCovers, DrainComplete
<1>9. ASSUME UNCHANGED vars PROVE DrainInv'
  BY <1>9 DEF vars, TypeOK, FiledUnderName, VersionsOrdered,
              ReplyCovers, DrainComplete
<1>10. ASSUME DecayExpired PROVE DrainInv'
  <2>1. PICK gone : ledger' = Without(ledger, gone)
    BY <1>10 DEF DecayExpired
  <2>2. ledger' \in [Names -> Row \cup {NoRow}] /\ RowsKept(ledger')
    BY <2>1 DEF TypeOK, Without, RowsKept
  <2> QED BY <1>10, <2>2, RowsKeepDrain DEF DecayExpired
<1>11. ASSUME NEW n \in Names, SetHeld(n) PROVE DrainInv'
  <2>1. /\ ledger[n] # NoRow /\ ledger[n] \in Row /\ NoRow \notin Row
        /\ ledger' = [ledger EXCEPT ![n] = Toggled(ledger[n])]
    BY <1>11, SavedAssumption DEF SetHeld, TypeOK, Row
  <2>2. /\ Toggled(ledger[n]) \in Row
        /\ Toggled(ledger[n]).rec = ledger[n].rec
        /\ Toggled(ledger[n]).seq = ledger[n].seq
    BY <2>1 DEF Row, Toggled
  <2>3. ledger' \in [Names -> Row \cup {NoRow}] /\ RowsKept(ledger')
    BY <2>1, <2>2 DEF TypeOK, RowsKept
  <2> QED BY <1>11, <2>3, RowsKeepDrain DEF SetHeld
<1> QED BY <1>1, <1>2, <1>3, <1>4, <1>5, <1>6, <1>7, <1>8, <1>9, <1>10, <1>11 DEF Next

\* The invariant of the buffer, the reply under way and the desktop's database
\* holds in every reachable state.
THEOREM DrainInvariant == Spec => []DrainInv
<1>1. DrainInv /\ [Next]_vars => DrainInv'
  BY DrainInvStep
<1> QED BY DrainInvInit, <1>1, PTL DEF Spec

\* Every variable keeps its shape.
THEOREM TypeCorrect == Spec => []TypeOK
<1>1. DrainInv => TypeOK
  BY DEF DrainInv
<1> QED BY DrainInvariant, <1>1, PTL

\* The drain skips nothing that is still buffered at or below its cursor
\* (since, sync_once).
THEOREM DrainIsComplete == Spec => []DrainComplete
<1>1. DrainInv => DrainComplete
  BY DEF DrainInv
<1> QED BY DrainInvariant, <1>1, PTL

-----------------------------------------------------------------------------
\* Newest sequence wins while a name stays buffered (ingest).
THEOREM NewestRecordWins == Spec => NewestWins
<1>1. DrainInv /\ [Next]_vars =>
        [\A n \in Names :
           entries[n] # NoEntry /\ entries'[n] # NoEntry =>
             \/ entries'[n].rec = entries[n].rec
             \/ entries'[n].rec.seq > entries[n].rec.seq]_vars
  <2> SUFFICES ASSUME DrainInv, Next, NEW n \in Names,
                      entries[n] # NoEntry, entries'[n] # NoEntry
               PROVE  \/ entries'[n].rec = entries[n].rec
                      \/ entries'[n].rec.seq > entries[n].rec.seq
    OBVIOUS
  <2>1. TypeOK
    BY DEF DrainInv
  <2>2. ASSUME NEW r \in Records, Ingest(r)
        PROVE  \/ entries'[n].rec = entries[n].rec
               \/ entries'[n].rec.seq > entries[n].rec.seq
    <3>1. entries[n].rec.seq \in Nat /\ r.seq \in Nat
      BY <2>1, RecordAssumption DEF TypeOK, Entry
    <3>2. \/ entries'[n].rec = entries[n].rec
          \/ entries[n].rec.seq < r.seq /\ entries'[n].rec = r
      BY <2>1, <2>2, IngestEffect
    <3> QED BY <3>1, <3>2
  <2>3. AnnounceStore => announcer.rec \in Records
    BY <2>1 DEF AnnounceStore, TypeOK, AnnouncerState, Idle
  <2>4. CASE \/ \E r \in Records : playlistSink(r) \/ PublishPlaylist(r)
             \/ AnnounceStore
    BY <2>2, <2>3, <2>4 DEF playlistSink, PublishPlaylist, AnnounceStore
  <2>5. CASE \/ \E m \in Names : AnnounceCheck(m) \/ SetHeld(m)
             \/ AnnounceGossip \/ PollRecords \/ SyncOnce \/ PollLost \/ DecayExpired \/ Tick
    BY <2>5 DEF AnnounceCheck, AnnounceGossip, PollRecords, SyncOnce, PollLost,
                DecayExpired, SetHeld, Tick, buffer
  <2> QED BY <2>4, <2>5 DEF Next
<1> QED BY DrainInvariant, <1>1, PTL DEF Spec, NewestWins

-----------------------------------------------------------------------------
\* What ingest does to the sightings and to the record of announces.
LEMMA IngestSightings ==
  ASSUME TypeOK, NEW r \in Records, Ingest(r)
  PROVE  \A n \in Names :
           /\ announcedAt'[n] \in {announcedAt[n], Never}
           /\ entries'[n] # NoEntry =>
                \/ entries'[n].lastSeen = clock
                \/ n # r.name /\ entries'[n] = entries[n]
           /\ entries'[n] = NoEntry =>
                \/ announcedAt'[n] = Never
                \/ n # r.name /\ entries[n] = NoEntry
<1>1. r.name \in Names
  BY RecordAssumption
<1>2. ASSUME NEW n \in Names, Refresh(r)
      PROVE  /\ announcedAt'[n] = announcedAt[n]
             /\ n = r.name => /\ entries'[n] # NoEntry
                              /\ entries'[n].lastSeen = clock
             /\ n # r.name => entries'[n] = entries[n]
  <2>1. Seen(entries[r.name]) \in Entry
    BY <1>1, <1>2 DEF Refresh, Newer, TypeOK, Entry, Seen
  <2>2. Seen(entries[r.name]).lastSeen = clock
    BY DEF Seen
  <2> QED BY <1>1, <1>2, <2>1, <2>2, EntryAssumption DEF Refresh, TypeOK, Entry
<1>3. ASSUME NEW n \in Names, Accept(r)
      PROVE  \/ /\ announcedAt'[n] = announcedAt[n]
                /\ n = r.name => /\ entries'[n] # NoEntry
                                 /\ entries'[n].lastSeen = clock
                /\ n # r.name => entries'[n] = entries[n]
             \/ announcedAt'[n] = Never /\ entries'[n] = NoEntry
  <2> DEFINE written == [entries EXCEPT ![r.name] =
                           [rec |-> r, ver |-> version + 1, lastSeen |-> clock]]
  <2>1. PICK keep :
          /\ entries' = [m \in Names |-> IF m \in keep THEN written[m]
                                                       ELSE NoEntry]
          /\ announcedAt' = [m \in Names |-> IF m \in keep THEN announcedAt[m]
                                                           ELSE Never]
    BY <1>3 DEF Accept
  <2>2. /\ \A m \in Names : m # r.name => written[m] = entries[m]
        /\ written[r.name] = [rec |-> r, ver |-> version + 1, lastSeen |-> clock]
        /\ written[r.name] # NoEntry
    BY <1>1, EntryAssumption DEF TypeOK, Entry
  <2> HIDE DEF written
  <2> QED BY <2>1, <2>2
<1>4. CASE Refresh(r)
  BY <1>2, <1>4
<1>5. CASE Accept(r)
  BY <1>3, <1>5
<1> QED BY <1>4, <1>5 DEF Ingest

LEMMA SpacingInvInit == Init => SpacingInv
  BY DEF Init, SpacingInv, Idle

\* ingest on behalf of the topic or a publish leaves the spacing intact.
LEMMA IngestKeepsSpacing ==
  ASSUME TypeOK, SpacingInv, NEW r \in Records, Ingest(r),
         clock' = clock, announcer' = announcer
  PROVE  SpacingInv'
<1>1. ASSUME NEW n \in Names
      PROVE  /\ announcedAt[n] \in Nat \cup {Never} /\ clock \in Nat
             /\ entries[n] # NoEntry => entries[n].lastSeen \in Nat
  BY DEF TypeOK, Entry
<1>2. ASSUME NEW n \in Names, entries'[n] # NoEntry
      PROVE  entries'[n].lastSeen <= clock
  BY <1>1, <1>2, IngestSightings DEF SpacingInv
<1>3. ASSUME NEW n \in Names, announcedAt'[n] # Never
      PROVE  /\ announcedAt'[n] <= clock
             /\ \/ announcer.pc = "store" /\ announcer.rec.name = n
                \/ entries'[n] # NoEntry /\ announcedAt'[n] <= entries'[n].lastSeen
  <2>1. announcedAt'[n] = announcedAt[n]
    BY <1>3, IngestSightings
  <2> QED BY <1>1, <1>3, <2>1, IngestSightings DEF SpacingInv
<1>4. ASSUME announcer.pc = "gossip", announcedAt'[announcer.rec.name] # Never
      PROVE  clock - announcedAt'[announcer.rec.name] >= Window
  <2>1. announcer.rec.name \in Names
    BY <1>4, RecordAssumption DEF TypeOK, AnnouncerState, Idle
  <2> QED BY <1>4, <2>1, IngestSightings DEF SpacingInv
<1> QED BY <1>2, <1>3, <1>4 DEF SpacingInv

\* Every step keeps the spacing invariant.
LEMMA SpacingInvStep == DrainInv /\ SpacingInv /\ [Next]_vars => SpacingInv'
<1> SUFFICES ASSUME TypeOK, FiledUnderName, SpacingInv, [Next]_vars
             PROVE  SpacingInv'
  BY DEF DrainInv
<1>0. clock \in Nat /\ Window \in Nat
  BY BoundAssumption DEF TypeOK
<1>1. ASSUME NEW r \in Records, playlistSink(r) \/ PublishPlaylist(r)
      PROVE  SpacingInv'
  BY <1>1, IngestKeepsSpacing DEF playlistSink, PublishPlaylist
<1>2. ASSUME NEW n \in Names, AnnounceCheck(n) PROVE SpacingInv'
  <2>1. /\ announcer = Idle /\ ledger[n] # NoRow /\ ledger[n].rec.name = n
        /\ ShouldAnnounce(n)
        /\ announcer' = [pc |-> "gossip", rec |-> ledger[n].rec]
        /\ entries' = entries /\ announcedAt' = announcedAt /\ clock' = clock
    BY <1>2 DEF AnnounceCheck, FiledUnderName, buffer
  <2>2. ASSUME announcedAt[n] # Never
        PROVE  clock - announcedAt[n] >= Window
    <3>1. entries[n] # NoEntry /\ announcedAt[n] <= entries[n].lastSeen
      BY <2>1, <2>2 DEF SpacingInv, Idle
    <3>2. announcedAt[n] \in Nat /\ entries[n].lastSeen \in Nat
      BY <2>2, <3>1 DEF TypeOK, Entry
    <3> QED BY <1>0, <2>1, <3>1, <3>2 DEF ShouldAnnounce
  <2> QED BY <2>1, <2>2 DEF SpacingInv, Idle
<1>3. ASSUME AnnounceGossip PROVE SpacingInv'
  <2> DEFINE who == announcer.rec.name
  <2>1. /\ entries' = entries /\ clock' = clock
        /\ announcer.pc = "gossip"
        /\ announcer' = [pc |-> "store", rec |-> announcer.rec]
    BY <1>3 DEF AnnounceGossip
  <2>2. \A n \in Names : \/ announcedAt'[n] = announcedAt[n]
                         \/ n = who /\ announcedAt'[n] = clock
    BY <1>3 DEF AnnounceGossip, TypeOK
  <2>3. ASSUME NEW n \in Names, announcedAt'[n] # Never
        PROVE  /\ announcedAt'[n] <= clock
               /\ \/ n = who
                  \/ entries[n] # NoEntry /\ announcedAt'[n] <= entries[n].lastSeen
    BY <1>0, <2>1, <2>2, <2>3 DEF SpacingInv
  <2> QED BY <2>1, <2>3 DEF SpacingInv
<1>4. ASSUME AnnounceStore PROVE SpacingInv'
  <2> DEFINE r == announcer.rec
  <2>1. /\ r \in Records /\ Ingest(r) /\ clock' = clock /\ announcer' = Idle
        /\ announcer.pc = "store"
    BY <1>4 DEF AnnounceStore, TypeOK, AnnouncerState, Idle
  <2>2. ASSUME NEW n \in Names
        PROVE  /\ announcedAt[n] \in Nat \cup {Never}
               /\ entries[n] # NoEntry => entries[n].lastSeen \in Nat
    BY DEF TypeOK, Entry
  <2>3. ASSUME NEW n \in Names, entries'[n] # NoEntry
        PROVE  entries'[n].lastSeen <= clock
    BY <1>0, <2>1, <2>3, IngestSightings DEF SpacingInv
  <2>4. ASSUME NEW n \in Names, announcedAt'[n] # Never
        PROVE  /\ announcedAt'[n] <= clock
               /\ entries'[n] # NoEntry /\ announcedAt'[n] <= entries'[n].lastSeen
    <3>1. announcedAt'[n] = announcedAt[n] /\ announcedAt[n] <= clock
      BY <2>1, <2>4, IngestSightings DEF SpacingInv
    <3> QED BY <1>0, <2>1, <2>2, <2>4, <3>1, IngestSightings DEF SpacingInv
  <2> QED BY <2>1, <2>3, <2>4 DEF SpacingInv, Idle
<1>5. ASSUME \/ PollRecords \/ SyncOnce \/ PollLost \/ DecayExpired
             \/ \E n \in Names : SetHeld(n)
             \/ UNCHANGED vars
      PROVE  SpacingInv'
  BY <1>5 DEF PollRecords, SyncOnce, PollLost, DecayExpired, SetHeld, vars, buffer,
              SpacingInv
<1>6. ASSUME Tick PROVE SpacingInv'
  <2>1. /\ UNCHANGED <<entries, announcedAt, announcer>> /\ clock' = clock + 1
    BY <1>6 DEF Tick, buffer
  <2>2. ASSUME NEW n \in Names
        PROVE  /\ announcedAt[n] # Never => announcedAt[n] \in Nat
               /\ entries[n] # NoEntry => entries[n].lastSeen \in Nat
    BY DEF TypeOK, Entry
  <2>3. announcer.pc = "gossip" => announcer.rec.name \in Names
    BY RecordAssumption DEF TypeOK, AnnouncerState, Idle
  <2> QED BY <1>0, <2>1, <2>2, <2>3 DEF SpacingInv
<1> QED BY <1>1, <1>2, <1>3, <1>4, <1>5, <1>6 DEF Next

\* The announce cycle gossips a buffered name at most once per window
\* (AnnouncePlaylists, shouldAnnounce).
THEOREM AnnouncesAreSpaced == Spec => AnnounceSpacing
<1>1. Spec => []SpacingInv
  <2>1. Init => SpacingInv
    BY SpacingInvInit
  <2>2. DrainInv /\ SpacingInv /\ [Next]_vars => SpacingInv'
    BY SpacingInvStep
  <2> QED BY DrainInvariant, <2>1, <2>2, PTL DEF Spec
<1>2. DrainInv /\ SpacingInv /\ [Next]_vars =>
        [\A n \in Names :
           announcedAt'[n] > announcedAt[n] /\ announcedAt[n] # Never =>
             announcedAt'[n] - announcedAt[n] >= Window]_vars
  <2> SUFFICES ASSUME TypeOK, SpacingInv, Next, NEW n \in Names,
                      announcedAt'[n] > announcedAt[n], announcedAt[n] # Never
               PROVE  announcedAt'[n] - announcedAt[n] >= Window
    BY DEF DrainInv
  <2>1. /\ announcedAt[n] \in Nat /\ Never \in Int /\ Never < 0
    BY BoundAssumption DEF TypeOK, Never
  <2>2. ASSUME NEW r \in Records, Ingest(r) PROVE FALSE
    BY <2>1, <2>2, IngestSightings
  <2>3. AnnounceStore => announcer.rec \in Records
    BY DEF AnnounceStore, TypeOK, AnnouncerState, Idle
  <2>4. CASE \/ \E r \in Records : playlistSink(r) \/ PublishPlaylist(r)
             \/ AnnounceStore
    BY <2>2, <2>3, <2>4 DEF playlistSink, PublishPlaylist, AnnounceStore
  <2>5. CASE AnnounceGossip
    <3>1. announcer.pc = "gossip" /\ announcer.rec.name = n /\ announcedAt'[n] = clock
      BY <2>1, <2>5 DEF AnnounceGossip, TypeOK
    <3> QED BY <3>1 DEF SpacingInv
  <2>6. CASE \/ \E m \in Names : AnnounceCheck(m) \/ SetHeld(m)
             \/ PollRecords \/ SyncOnce \/ PollLost \/ DecayExpired \/ Tick
    BY <2>1, <2>6 DEF AnnounceCheck, PollRecords, SyncOnce, PollLost, DecayExpired, SetHeld, Tick, buffer
  <2> QED BY <2>4, <2>5, <2>6 DEF Next
<1> QED BY DrainInvariant, <1>1, <1>2, PTL DEF Spec, AnnounceSpacing

-----------------------------------------------------------------------------
(* The byte counter.  Bytes is a sum over a set, computed by a function that *)
(* takes one member after the other: first that there is such a function,    *)
(* then that the order does not matter.  Induction is by the least size at   *)
(* which something would fail.                                               *)

\* A nonempty set of numbers has a least one.
LEMMA LeastNumber ==
  ASSUME NEW S \in SUBSET Nat, S # {}
  PROVE  \E m \in S : \A k \in S : m <= k
<1>1. IsWellFoundedOn(OpToRel(<, Nat), Nat)
  BY NatLessThanWellFounded
<1>2. PICK m \in S : \A k \in S : <<k, m>> \notin OpToRel(<, Nat)
  BY <1>1, WFMin, Zenon
<1>3. \A k \in S : ~(k < m)
  BY <1>2 DEF OpToRel
<1> QED BY <1>3

\* The function by which Bytes is computed, one member after the other.
Weigher(S, es, f) ==
  f = [s \in SUBSET S |-> IF s = {} THEN 0
         ELSE LET x == CHOOSE x \in s : TRUE IN DocSize[es[x].rec.doc] + f[s \ {x}]]

Weighed(S, es) == \A n \in S : DocSize[es[n].rec.doc] \in Nat

\* There is such a function: it is built up by the size of the set.
LEMMA WeigherExists ==
  ASSUME NEW S, IsFiniteSet(S), NEW es
  PROVE  \E f : Weigher(S, es, f)
<1> DEFINE Part(n) == {s \in SUBSET S : Cardinality(s) <= n}
           Next1(f, s) == IF s = {} THEN 0
                         ELSE LET x == CHOOSE x \in s : TRUE
                              IN DocSize[es[x].rec.doc] + f[s \ {x}]
           On(n, f) == f = [s \in Part(n) |-> Next1(f, s)]
           Bad == {n \in Nat : ~\E f : On(n, f)}
<1>1. \A s \in SUBSET S : /\ IsFiniteSet(s) /\ Cardinality(s) \in Nat
                          /\ Cardinality(s) <= Cardinality(S)
                          /\ Cardinality(s) = 0 <=> s = {}
  BY FS_Subset, FS_CardinalityType, FS_EmptySet
<1>2. \A s \in SUBSET S : s # {} =>
        LET x == CHOOSE x \in s : TRUE
        IN x \in s /\ s \ {x} \in SUBSET S /\ Cardinality(s \ {x}) = Cardinality(s) - 1
  <2> TAKE s \in SUBSET S
  <2> HAVE s # {}
  <2>1. PICK y : y = CHOOSE x \in s : TRUE
    OBVIOUS
  <2>2. y \in s
    BY <2>1
  <2>3. Cardinality(s \ {y}) = Cardinality(s) - 1
    BY <1>1, <2>2, FS_RemoveElement
  <2> QED BY <2>1, <2>2, <2>3
<1>3. Bad = {}
  <2> SUFFICES ASSUME Bad # {} PROVE FALSE
    OBVIOUS
  <2>1. PICK n \in Bad : \A k \in Bad : n <= k
    BY LeastNumber
  <2>2. CASE n = 0
    <3>1. Part(0) = {{}}
      BY <1>1, FS_EmptySet
    <3>2. On(0, [s \in Part(0) |-> 0])
      BY <3>1
    <3> QED BY <2>1, <2>2, <3>2
  <2>3. CASE n # 0
    <3>1. n - 1 \in Nat /\ n - 1 \notin Bad
      <4>1. n \in Nat /\ n - 1 \in Nat /\ ~(n <= n - 1)
        BY <2>1, <2>3
      <4> HIDE DEF Bad
      <4> QED BY <2>1, <4>1
    <3>2. PICK f : On(n - 1, f)
      BY <3>1
    <3>0. /\ Part(n - 1) \subseteq Part(n)
          /\ \A s \in Part(n - 1) : s # {} =>
               LET x == CHOOSE x \in s : TRUE IN s \ {x} \in Part(n - 1)
      BY <1>1, <1>2, <2>1, <3>1
    <3>3. PICK g : g = [s \in Part(n) |-> Next1(f, s)]
      OBVIOUS
    <3>5. \A s \in Part(n) : s # {} =>
            LET x == CHOOSE x \in s : TRUE IN s \ {x} \in Part(n - 1)
      BY <1>1, <1>2, <2>1, <3>1
    <3> HIDE DEF Part
    <3>4. \A s \in Part(n - 1) : g[s] = f[s]
      <4> HIDE DEF Next1
      <4> QED BY <3>0, <3>2, <3>3
    <3>6. \A s \in Part(n) : Next1(f, s) = Next1(g, s)
      <4> TAKE s \in Part(n)
      <4>1. CASE s = {}
        BY <4>1
      <4>2. CASE s # {}
        <5>1. PICK x : x = CHOOSE v \in s : TRUE
          OBVIOUS
        <5>2. s \ {x} \in Part(n - 1)
          BY <3>5, <4>2, <5>1
        <5>3. f[s \ {x}] = g[s \ {x}]
          BY <3>4, <5>2
        <5> QED BY <4>2, <5>1, <5>3
      <4> QED BY <4>1, <4>2
    <3> HIDE DEF Next1
    <3>7. On(n, g)
      BY <3>3, <3>6
    <3> HIDE DEF On
    <3> QED BY <2>1, <3>7
  <2> QED BY <2>2, <2>3
<1>4. Cardinality(S) \in Nat /\ Part(Cardinality(S)) = SUBSET S
  BY <1>1
<1>5. PICK f : On(Cardinality(S), f)
  BY <1>3, <1>4
<1>6. f = [s \in SUBSET S |-> Next1(f, s)]
  BY <1>4, <1>5
<1> QED BY <1>6 DEF Weigher

\* Two of them agree wherever they weigh the same documents.
LEMMA WeighersAgree ==
  ASSUME NEW S, IsFiniteSet(S), NEW T \in SUBSET S, NEW es, NEW other,
         \A n \in T : es[n].rec = other[n].rec,
         NEW f, Weigher(S, es, f), NEW g, Weigher(T, other, g)
  PROVE  \A U \in SUBSET T : f[U] = g[U]
<1> DEFINE Bad == {Cardinality(U) : U \in {V \in SUBSET T : f[V] # g[V]}}
<1>1. \A U \in SUBSET T : IsFiniteSet(U) /\ Cardinality(U) \in Nat
  BY FS_Subset, FS_CardinalityType
<1>2. Bad \in SUBSET Nat
  BY <1>1
<1>3. Bad = {}
  <2> SUFFICES ASSUME Bad # {} PROVE FALSE
    OBVIOUS
  <2>1. PICK n \in Bad : \A k \in Bad : n <= k
    BY <1>2, LeastNumber
  <2>2. PICK U \in SUBSET T : f[U] # g[U] /\ Cardinality(U) = n
    BY <2>1
  <2>3. U # {}
    BY <2>2 DEF Weigher
  <2>4. PICK x : x = CHOOSE v \in U : TRUE
    OBVIOUS
  <2>5. x \in U /\ U \in SUBSET S /\ es[x].rec = other[x].rec
    BY <2>3, <2>4
  <2>6. f[U] = DocSize[es[x].rec.doc] + f[U \ {x}]
    BY <2>3, <2>4, <2>5 DEF Weigher
  <2>7. g[U] = DocSize[other[x].rec.doc] + g[U \ {x}]
    BY <2>3, <2>4, <2>5 DEF Weigher
  <2>8. Cardinality(U \ {x}) = n - 1
    BY <1>1, <2>2, <2>5, FS_RemoveElement
  <2>9. f[U \ {x}] = g[U \ {x}]
    BY <1>1, <1>2, <2>1, <2>8
  <2> QED BY <2>2, <2>5, <2>6, <2>7, <2>9
<1> QED BY <1>3

\* Bytes is what such a function says of the whole set.
LEMMA BytesWeighed ==
  ASSUME NEW S, IsFiniteSet(S), NEW es
  PROVE  \E f : Weigher(S, es, f) /\ Bytes(S, es) = f[S]
<1>1. Bytes(S, es) = (CHOOSE f : Weigher(S, es, f))[S]
  BY DEF Bytes, MapThenSumSet, MapThenFoldSet, Weigher
<1>2. Weigher(S, es, CHOOSE f : Weigher(S, es, f))
  BY WeigherExists
<1> QED BY <1>1, <1>2

LEMMA BytesCongruent ==
  ASSUME NEW S, IsFiniteSet(S), NEW es, NEW other, \A n \in S : es[n].rec = other[n].rec
  PROVE  Bytes(S, es) = Bytes(S, other)
<1>1. PICK f : Weigher(S, es, f) /\ Bytes(S, es) = f[S]
  BY BytesWeighed
<1>2. PICK g : Weigher(S, other, g) /\ Bytes(S, other) = g[S]
  BY BytesWeighed
<1>3. S \in SUBSET S
  OBVIOUS
<1>4. \A U \in SUBSET S : f[U] = g[U]
  BY <1>1, <1>2, <1>3, WeighersAgree
<1> QED BY <1>1, <1>2, <1>4

\* Bytes of the empty set, and of a set with the member taken first.
LEMMA BytesByChoice ==
  ASSUME NEW S, IsFiniteSet(S), NEW es
  PROVE  /\ S = {} => Bytes(S, es) = 0
         /\ S # {} => \E x \in S : Bytes(S, es) = DocSize[es[x].rec.doc] + Bytes(S \ {x}, es)
<1>1. PICK f : Weigher(S, es, f) /\ Bytes(S, es) = f[S]
  BY BytesWeighed
<1>2. S = {} => Bytes(S, es) = 0
  BY <1>1 DEF Weigher
<1>3. ASSUME S # {}
      PROVE  \E x \in S : Bytes(S, es) = DocSize[es[x].rec.doc] + Bytes(S \ {x}, es)
  <2>1. PICK x : x = CHOOSE v \in S : TRUE
    OBVIOUS
  <2>2. x \in S
    BY <1>3, <2>1
  <2>3. f[S] = DocSize[es[x].rec.doc] + f[S \ {x}]
    BY <1>1, <1>3, <2>1 DEF Weigher
  <2>4. IsFiniteSet(S \ {x}) /\ S \ {x} \in SUBSET S
    BY FS_RemoveElement
  <2>5. PICK g : Weigher(S \ {x}, es, g) /\ Bytes(S \ {x}, es) = g[S \ {x}]
    BY <2>4, BytesWeighed
  <2>6. f[S \ {x}] = g[S \ {x}]
    BY <1>1, <2>4, <2>5, WeighersAgree
  <2> QED BY <1>1, <2>2, <2>3, <2>5, <2>6
<1> QED BY <1>2, <1>3

\* Bytes adds numbers, and any member may be taken first.
LEMMA BytesRemove ==
  ASSUME NEW S, IsFiniteSet(S), NEW es, Weighed(S, es)
  PROVE  /\ Bytes(S, es) \in Nat
         /\ \A x \in S : Bytes(S, es) = DocSize[es[x].rec.doc] + Bytes(S \ {x}, es)
<1> DEFINE W(x) == DocSize[es[x].rec.doc]
           Good(U) == /\ Bytes(U, es) \in Nat
                      /\ \A x \in U : Bytes(U, es) = W(x) + Bytes(U \ {x}, es)
           Bad == {Cardinality(U) : U \in {V \in SUBSET S : ~Good(V)}}
<1>1. \A U \in SUBSET S : IsFiniteSet(U) /\ Cardinality(U) \in Nat
  BY FS_Subset, FS_CardinalityType
<1>2. Bad \in SUBSET Nat
  BY <1>1
<1>3. \A x \in S : W(x) \in Nat
  BY DEF Weighed
<1> HIDE DEF W
<1>4. Bad = {}
  <2> SUFFICES ASSUME Bad # {} PROVE FALSE
    OBVIOUS
  <2>1. PICK n \in Bad : \A k \in Bad : n <= k
    BY <1>2, LeastNumber
  <2>2. PICK U \in SUBSET S : ~Good(U) /\ Cardinality(U) = n
    BY <2>1
  <2>3. \A V \in SUBSET S : Cardinality(V) < n => Good(V)
    BY <1>1, <1>2, <2>1
  <2>4. \A x \in U : Cardinality(U \ {x}) < n
    BY <1>1, <2>2, FS_RemoveElement
  <2>5. \A x \in U : Good(U \ {x})
    BY <2>3, <2>4
  <2>6. U # {}
    <3> SUFFICES ASSUME U = {} PROVE FALSE
      OBVIOUS
    <3>1. Bytes(U, es) = 0
      BY <1>1, BytesByChoice
    <3> QED BY <2>2, <3>1
  <2>7. PICK x \in U : Bytes(U, es) = W(x) + Bytes(U \ {x}, es)
    BY <1>1, <2>6, BytesByChoice DEF W
  <2>8. Bytes(U, es) \in Nat
    BY <1>3, <2>5, <2>7
  <2>9. ASSUME NEW y \in U PROVE Bytes(U, es) = W(y) + Bytes(U \ {y}, es)
    <3>1. CASE y = x
      BY <2>7, <3>1
    <3>2. CASE y # x
      <4>1. Bytes(U \ {x}, es) = W(y) + Bytes((U \ {x}) \ {y}, es)
        BY <2>5, <3>2
      <4>2. Bytes(U \ {y}, es) = W(x) + Bytes((U \ {y}) \ {x}, es)
        BY <2>5, <3>2
      <4>3. (U \ {x}) \ {y} = (U \ {y}) \ {x}
        OBVIOUS
      <4>4. PICK b : b = Bytes((U \ {x}) \ {y}, es)
        OBVIOUS
      <4>5. b \in Nat
        <5>1. Good((U \ {x}) \ {y})
          <6>1. (U \ {x}) \ {y} \in SUBSET S
            OBVIOUS
          <6>2. Cardinality((U \ {x}) \ {y}) < n
            <7>1. IsFiniteSet(U \ {x}) /\ Cardinality(U \ {x}) = n - 1 /\ n \in Nat
              BY <1>1, <2>2, FS_RemoveElement
            <7>4. PICK V : V = U \ {x}
              OBVIOUS
            <7>5. Cardinality(V \ {y}) = Cardinality(V) - 1
              BY <3>2, <7>1, <7>4, FS_RemoveElement
            <7>2. Cardinality((U \ {x}) \ {y}) <= n - 1
              BY <7>1, <7>4, <7>5
            <7>3. Cardinality((U \ {x}) \ {y}) \in Nat
              BY <1>1, <6>1
            <7> QED BY <7>1, <7>2, <7>3
          <6> QED BY <2>3, <6>1, <6>2
        <5> QED BY <4>4, <5>1
      <4>6. W(x) \in Nat /\ W(y) \in Nat
        BY <1>3
      <4>7. /\ Bytes(U, es) = W(x) + (W(y) + b)
            /\ Bytes(U \ {y}, es) = W(x) + b
        BY <2>7, <4>1, <4>2, <4>3, <4>4
      <4> QED BY <4>5, <4>6, <4>7
    <3> QED BY <3>1, <3>2
  <2> QED BY <2>2, <2>8, <2>9
<1>5. Good(S)
  BY <1>1, <1>4
<1> QED BY <1>5 DEF W

\* What is dropped and what stays add up.
LEMMA BytesSplit ==
  ASSUME NEW S, IsFiniteSet(S), NEW es, Weighed(S, es), NEW T \in SUBSET S
  PROVE  Bytes(S, es) = Bytes(S \ T, es) + Bytes(T, es)
<1> DEFINE Bad == {Cardinality(U) : U \in
             {V \in SUBSET S : Bytes(S, es) # Bytes(S \ V, es) + Bytes(V, es)}}
<1>1. \A U \in SUBSET S : /\ IsFiniteSet(U) /\ Cardinality(U) \in Nat
                          /\ Weighed(U, es) /\ Bytes(U, es) \in Nat
  BY FS_Subset, FS_CardinalityType, BytesRemove DEF Weighed
<1>2. Bad \in SUBSET Nat
  BY <1>1
<1>3. Bad = {}
  <2> SUFFICES ASSUME Bad # {} PROVE FALSE
    OBVIOUS
  <2>1. PICK n \in Bad : \A k \in Bad : n <= k
    BY <1>2, LeastNumber
  <2>2. PICK U \in SUBSET S : /\ Bytes(S, es) # Bytes(S \ U, es) + Bytes(U, es)
                              /\ Cardinality(U) = n
    BY <2>1
  <2>3. U # {}
    <3> SUFFICES ASSUME U = {} PROVE FALSE
      OBVIOUS
    <3>1. Bytes(U, es) = 0 /\ S \ U = S
      BY <1>1, BytesByChoice
    <3> QED BY <1>1, <2>2, <3>1
  <2>4. PICK x \in U : TRUE
    BY <2>3
  <2>5. Cardinality(U \ {x}) = n - 1
    BY <1>1, <2>2, FS_RemoveElement
  <2>6. Bytes(S, es) = Bytes(S \ (U \ {x}), es) + Bytes(U \ {x}, es)
    <3>1. U \ {x} \in SUBSET S /\ n \in Nat /\ ~(n <= n - 1)
      BY <1>1, <2>2
    <3>2. Cardinality(U \ {x}) \notin Bad
      <4> HIDE DEF Bad
      <4> QED BY <2>1, <2>5, <3>1
    <3> QED BY <3>1, <3>2
  <2>7. Bytes(U, es) = DocSize[es[x].rec.doc] + Bytes(U \ {x}, es)
    BY <1>1, BytesRemove
  <2>8. (S \ (U \ {x})) \ {x} = S \ U /\ x \in S \ (U \ {x}) /\ S \ (U \ {x}) \in SUBSET S
    OBVIOUS
  <2>9. Bytes(S \ (U \ {x}), es) = DocSize[es[x].rec.doc] + Bytes(S \ U, es)
    BY <1>1, <2>8, BytesRemove
  <2>10. /\ DocSize[es[x].rec.doc] \in Nat /\ Bytes(S \ U, es) \in Nat
         /\ Bytes(U \ {x}, es) \in Nat
    BY <1>1 DEF Weighed
  <2> QED BY <2>2, <2>6, <2>7, <2>9, <2>10
<1> QED BY <1>3

-----------------------------------------------------------------------------
\* The inductive invariant behind BytesAccounted: the counter is the sum over a
\* buffer that stays finite, whatever names there are.
AccountInv == IsFiniteSet(Resident(entries)) /\ BytesAccounted

\* Every buffered document has a size.
LEMMA BufferWeighed ==
  ASSUME NEW es \in [Names -> Entry \cup {NoEntry}], NEW S \in SUBSET Resident(es)
  PROVE  Weighed(S, es)
<1> SUFFICES ASSUME NEW n \in S PROVE DocSize[es[n].rec.doc] \in Nat
  BY DEF Weighed
<1>1. es[n] \in Entry
  BY DEF Resident
<1>2. es[n].rec \in Records
  BY <1>1 DEF Entry
<1> QED BY <1>2, RecordAssumption, BoundAssumption

\* A write moves the counter by what it adds and what it replaces, and eviction
\* gives back what it drops, until both caps hold (ingest, evictLocked).
LEMMA AcceptAccounts ==
  ASSUME TypeOK, AccountInv, NEW r \in Records, Accept(r)
  PROVE  AccountInv'
<1> DEFINE n == r.name
           written == [entries EXCEPT ![n] =
                         [rec |-> r, ver |-> version + 1, lastSeen |-> clock]]
           total == docBytes - Freed(entries[n]) + DocSize[r.doc]
           all == Resident(written)
           old == Resident(entries)
           others == old \ {n}
<1>1. n \in Names /\ DocSize[r.doc] \in Nat
  BY RecordAssumption, BoundAssumption
<1>2. /\ written \in [Names -> Entry \cup {NoEntry}]
      /\ written[n].rec = r /\ written[n] # NoEntry
      /\ \A m \in Names : m # n => written[m] = entries[m]
  <2>1. [rec |-> r, ver |-> version + 1, lastSeen |-> clock] \in Entry
    BY DEF TypeOK, Entry
  <2> QED BY <1>1, <2>1, EntryAssumption DEF TypeOK, Entry
<1>3. /\ entries \in [Names -> Entry \cup {NoEntry}]
      /\ IsFiniteSet(old) /\ docBytes = Bytes(old, entries)
  BY DEF TypeOK, AccountInv, BytesAccounted
<1>4. PICK keep \in Survivors(written, total) :
        /\ entries' = [m \in Names |-> IF m \in keep THEN written[m] ELSE NoEntry]
        /\ docBytes' = total - Bytes(all \ keep, written)
  BY DEF Accept
<1> HIDE DEF written
<1>5. /\ all = others \cup {n} /\ all \ {n} = others /\ n \in all
      /\ \A m \in others : written[m] = entries[m]
      /\ IsFiniteSet(others) /\ IsFiniteSet(all)
  <2>1. all = others \cup {n}
    BY <1>1, <1>2 DEF Resident
  <2>2. IsFiniteSet(others)
    BY <1>3, FS_RemoveElement
  <2>3. IsFiniteSet(others \cup {n})
    BY <2>2, FS_AddElement
  <2> QED BY <1>2, <2>1, <2>2, <2>3 DEF Resident
<1>6. Weighed(all, written) /\ Weighed(old, entries)
  BY <1>2, <1>3, BufferWeighed
<1> HIDE DEF all, old, others
<1>7. Bytes(others, written) = Bytes(others, entries)
  <2>1. \A m \in others : written[m].rec = entries[m].rec
    BY <1>5
  <2> QED BY <1>5, <2>1, BytesCongruent
<1>8. Bytes(all, written) = DocSize[r.doc] + Bytes(others, written)
  BY <1>2, <1>5, <1>6, BytesRemove
<1>9. Bytes(others, entries) \in Nat /\ docBytes - Freed(entries[n]) = Bytes(others, entries)
  <2>0. Bytes(old, entries) \in Nat
    BY <1>3, <1>6, BytesRemove
  <2>1. CASE entries[n] = NoEntry
    <3>1. n \notin old
      BY <2>1 DEF old, Resident
    <3>2. others = old
      BY <3>1 DEF others
    <3> QED BY <1>3, <2>0, <2>1, <3>2 DEF Freed
  <2>2. CASE entries[n] # NoEntry
    <3>1. n \in old
      BY <1>1, <2>2 DEF old, Resident
    <3>2. DocSize[entries[n].rec.doc] \in Nat
      BY <1>6, <3>1 DEF Weighed
    <3>3. Bytes(old, entries) = DocSize[entries[n].rec.doc] + Bytes(others, entries)
      BY <1>3, <1>6, <3>1, BytesRemove DEF others
    <3>4. Bytes(others, entries) \in Nat
      <4>1. Weighed(others, entries)
        BY <1>6 DEF Weighed, others
      <4> QED BY <1>5, <4>1, BytesRemove
    <3> QED BY <1>3, <2>2, <3>2, <3>3, <3>4 DEF Freed
  <2> QED BY <2>1, <2>2
<1>10. total = Bytes(all, written)
  BY <1>1, <1>7, <1>8, <1>9
<1>11. /\ keep \in SUBSET all
       /\ keep = {} \/ ~(\/ Cardinality(keep) > EntryCap
                         \/ total - Bytes(all \ keep, written) > ByteBudget)
  BY <1>4 DEF Survivors, all
<1> HIDE DEF total
<1>12. /\ IsFiniteSet(keep) /\ Bytes(keep, written) \in Nat
       /\ Cardinality(keep) \in Nat
       /\ Bytes(all \ keep, written) \in Nat
  <2>1. IsFiniteSet(keep) /\ IsFiniteSet(all \ keep)
    BY <1>5, <1>11, FS_Subset
  <2>2. Weighed(keep, written) /\ Weighed(all \ keep, written)
    BY <1>6, <1>11 DEF Weighed
  <2> QED BY <2>1, <2>2, BytesRemove, FS_CardinalityType
<1>13. docBytes' = Bytes(keep, written)
  <2>1. Bytes(all, written) = Bytes(all \ keep, written) + Bytes(keep, written)
    BY <1>5, <1>6, <1>11, BytesSplit
  <2> QED BY <1>4, <1>10, <1>12, <2>1
<1>14. Resident(entries') = keep /\ \A m \in keep : entries'[m] = written[m]
  <2>1. \A m \in keep : m \in Names /\ written[m] # NoEntry
    BY <1>11 DEF all, Resident
  <2> QED BY <1>4, <2>1 DEF Resident
<1>15. Bytes(keep, entries') = Bytes(keep, written)
  BY <1>12, <1>14, BytesCongruent
<1>16. Bytes(keep, written) <= ByteBudget /\ Cardinality(keep) <= EntryCap
  <2>1. CASE keep = {}
    BY <1>12, <2>1, BytesByChoice, FS_EmptySet, BoundAssumption
  <2>2. CASE keep # {}
    BY <1>4, <1>11, <1>12, <1>13, <2>2, BoundAssumption
  <2> QED BY <2>1, <2>2
<1> QED BY <1>12, <1>13, <1>14, <1>15, <1>16 DEF AccountInv, BytesAccounted

\* A sighting changes no document (ingest).
LEMMA RefreshAccounts ==
  ASSUME TypeOK, AccountInv, NEW r \in Records, Refresh(r)
  PROVE  AccountInv'
<1>1. r.name \in Names
  BY RecordAssumption
<1>2. entries[r.name] # NoEntry /\ entries[r.name] \in Entry
  BY <1>1 DEF Refresh, Newer, TypeOK
<1>3. /\ entries' = [entries EXCEPT ![r.name] = Seen(entries[r.name])]
      /\ docBytes' = docBytes
  BY DEF Refresh
<1>4. Seen(entries[r.name]) \in Entry /\ Seen(entries[r.name]).rec = entries[r.name].rec
  BY <1>2 DEF TypeOK, Entry, Seen
<1>5. \A m \in Names : m # r.name => entries'[m] = entries[m]
  BY <1>3 DEF TypeOK
<1>6. entries'[r.name] = Seen(entries[r.name])
  BY <1>1, <1>3 DEF TypeOK
<1>7. Resident(entries') = Resident(entries)
  BY <1>2, <1>4, <1>5, <1>6, EntryAssumption DEF Resident, Entry
<1>8. \A m \in Resident(entries) : entries'[m].rec = entries[m].rec
  BY <1>4, <1>5, <1>6 DEF Resident
<1>9. Bytes(Resident(entries), entries') = Bytes(Resident(entries), entries)
  BY <1>8, BytesCongruent DEF AccountInv
<1> QED BY <1>3, <1>7, <1>9 DEF AccountInv, BytesAccounted

LEMMA AccountInvStep == TypeOK /\ AccountInv /\ [Next]_vars => AccountInv'
<1> SUFFICES ASSUME TypeOK, AccountInv, [Next]_vars PROVE AccountInv'
  OBVIOUS
<1>1. ASSUME NEW r \in Records, Ingest(r) PROVE AccountInv'
  BY <1>1, AcceptAccounts, RefreshAccounts DEF Ingest
<1>2. AnnounceStore => announcer.rec \in Records
  BY DEF AnnounceStore, TypeOK, AnnouncerState, Idle
<1>3. ASSUME UNCHANGED <<entries, docBytes>> PROVE AccountInv'
  BY <1>3 DEF AccountInv, BytesAccounted
<1>4. CASE \/ \E r \in Records : playlistSink(r) \/ PublishPlaylist(r)
           \/ AnnounceStore
  BY <1>1, <1>2, <1>4 DEF playlistSink, PublishPlaylist, AnnounceStore
<1>5. CASE \/ \E m \in Names : AnnounceCheck(m) \/ SetHeld(m)
           \/ AnnounceGossip \/ PollRecords \/ SyncOnce \/ PollLost \/ DecayExpired \/ Tick
           \/ UNCHANGED vars
  BY <1>3, <1>5 DEF AnnounceCheck, AnnounceGossip, PollRecords, SyncOnce, PollLost, DecayExpired, SetHeld, Tick,
                    buffer, vars
<1> QED BY <1>4, <1>5 DEF Next

\* The byte counter never drifts from the documents that are buffered, and both
\* caps hold after every call, however many names there are and however an
\* eviction breaks ties (ingest, evictLocked).
THEOREM BytesAlwaysAccounted == Spec => []BytesAccounted
<1>1. Init => AccountInv
  <2> SUFFICES ASSUME Init PROVE AccountInv
    OBVIOUS
  <2>1. Resident(entries) = {} /\ docBytes = 0
    BY DEF Init, Resident
  <2>2. Bytes({}, entries) = 0
    BY FS_EmptySet, BytesByChoice
  <2> QED BY <2>1, <2>2, FS_EmptySet, BoundAssumption DEF AccountInv, BytesAccounted
<1>2. TypeOK /\ AccountInv /\ [Next]_vars => AccountInv'
  BY AccountInvStep
<1>3. AccountInv => BytesAccounted
  BY DEF AccountInv
<1> QED BY TypeCorrect, <1>1, <1>2, <1>3, PTL DEF Spec
=============================================================================
