--------------------------- MODULE BrowserPlaylist ---------------------------
(* One playlist of the user's own in the browser: packages/playlists-web's *)
(* index.ts, store.ts, keys.ts.  Its commands, the announce loop, the      *)
(* answer to a peer and the ingest of gossip are tasks that suspend at     *)
(* every await, each with the row it read before; the store serialises     *)
(* single statements only.  A record and the document beside it must hash  *)
(* together, or every peer drops them.                                     *)
EXTENDS Naturals, FiniteSets

CONSTANTS
  Drafts,     \* contents the user may give the list
  Buried,     \* the tombstone document
  Jobs,       \* tasks that may be under way at once
  OwnBounds   \* bounds of a behaviour: tasks at once, commands, wakes, faults, losses

ASSUME DraftAssumption == Buried \notin Drafts

VARIABLES
  ownRow,    \* the row of the list in playlists.db
  keyHere,   \* its key is in the browser's storage
  jobs,      \* the tasks: what they are doing and what they read
  mesh,      \* what was gossiped or linked: payload, and the record beside it
  recent,    \* announced within the window (lastSeen)
  savedDoc,  \* what the user saved last
  spoiled,   \* tasks met that must not, a stop cut one short, or it found no key
  ownLeft    \* what is left of the bounds

ownVars == <<ownRow, keyHere, jobs, mesh, recent, savedDoc, spoiled, ownLeft>>

Sheets == Drafts \cup {Buried}
Signatures == [doc : Sheets, seq : Nat]
Unsigned == [doc |-> Buried, seq |-> 0]  \* record_b64 NULL
OwnRows == [there : BOOLEAN, mine : BOOLEAN, published : BOOLEAN, tomb : BOOLEAN,
            due : BOOLEAN, doc : Sheets, rec : Signatures, seq : Nat]
Vacant == [there |-> FALSE, mine |-> FALSE, published |-> FALSE, tomb |-> FALSE,
           due |-> FALSE, doc |-> Buried, rec |-> Unsigned, seq |-> 0]
Tasks == [op : {"none", "create", "edit", "share", "renew", "unshare", "remove", "announce",
                "answer", "ingest", "evict"},
          at : {"rest", "insert", "own", "write", "reread", "sign", "store", "flag", "send",
                "retire", "private", "delete", "forget", "take", "evict"},
          row : OwnRows, rec : Signatures]
Rested == [op |-> "none", at |-> "rest", row |-> Vacant, rec |-> Unsigned]

OwnInit ==
  /\ ownRow = Vacant /\ keyHere = FALSE /\ jobs = [j \in Jobs |-> Rested] /\ mesh = {}
  /\ recent = FALSE /\ savedDoc = Buried /\ spoiled = FALSE
  /\ ownLeft \in OwnBounds

Pay(what) == ownLeft[what] > 0 /\ ownLeft' = [ownLeft EXCEPT ![what] = @ - 1]

(* Tasks that only read the row cross only an edit; the others cross each  *)
(* other.                                                                  *)
OnlyReads(op) == op \in {"announce", "answer"}
Crosses(op, other) ==
  \/ ~OnlyReads(op) /\ ~OnlyReads(other)
  \/ "edit" \in {op, other}
Engaged(j) == jobs[j].at # "rest"

Enter(j, op, at, row, rec) ==
  /\ ~Engaged(j) /\ Cardinality({k \in Jobs : Engaged(k)}) < ownLeft.tasks
  /\ jobs' = [jobs EXCEPT ![j] = [op |-> op, at |-> at, row |-> row, rec |-> rec]]
  /\ spoiled' = (spoiled \/ \E k \in Jobs : Engaged(k) /\ Crosses(op, jobs[k].op))
At(j, place) == jobs[j].at = place
Proceed(j, at) == jobs' = [jobs EXCEPT ![j].at = at]
Leave(j) == jobs' = [jobs EXCEPT ![j] = Rested]

Doc(j) == jobs[j].row.doc
MineHere == ownRow.there /\ ownRow.mine
Disclosed == MineHere /\ ownRow.published /\ ~ownRow.tomb

-----------------------------------------------------------------------------
(* store.upsert: an unknown name gets a row that is not the user's; a      *)
(* known one keeps whose it is and whether it is published.                *)
Upserted(doc, rec, seq, due) ==
  [ownRow EXCEPT !.there = TRUE, !.doc = doc, !.rec = rec, !.seq = seq, !.due = due,
                 !.tomb = doc = Buried]
(* A later UPDATE finds the row or does nothing.                           *)
IfThere(row) == IF ownRow.there THEN row ELSE ownRow

(* create: the key, then the row, then that it is the user's.              *)
Create(j, d) ==
  /\ savedDoc = Buried /\ Pay("commands")
  /\ Enter(j, "create", "insert", [Vacant EXCEPT !.doc = d], Unsigned)
  /\ keyHere' = TRUE /\ savedDoc' = d
  /\ UNCHANGED <<ownRow, mesh, recent>>

Insert(j) ==
  /\ At(j, "insert") /\ Proceed(j, "own")
  /\ ownRow' = Upserted(Doc(j), Unsigned, 0, FALSE)
  /\ UNCHANGED <<keyHere, mesh, recent, savedDoc, spoiled, ownLeft>>

OwnIt(j) ==
  /\ At(j, "own") /\ Leave(j) /\ ownRow' = IfThere([ownRow EXCEPT !.mine = TRUE])
  /\ UNCHANGED <<keyHere, mesh, recent, savedDoc, spoiled, ownLeft>>

(* update: the new document is stored with the record and number read      *)
(* before, and a published list is then published again.                   *)
Edit(j, d) ==
  /\ MineHere /\ Pay("commands") /\ savedDoc' = d
  /\ Enter(j, "edit", "write", ownRow, [Unsigned EXCEPT !.doc = d])
  /\ UNCHANGED <<ownRow, keyHere, mesh, recent>>

WriteEdit(j) ==
  /\ At(j, "write")
  /\ LET r == jobs[j].row IN
       /\ ownRow' = Upserted(jobs[j].rec.doc, r.rec, r.seq, r.due)
       /\ IF r.published THEN Proceed(j, "reread") ELSE Leave(j)
  /\ UNCHANGED <<keyHere, mesh, recent, savedDoc, spoiled, ownLeft>>

Reread(j) ==
  /\ At(j, "reread")
  /\ IF MineHere THEN jobs' = [jobs EXCEPT ![j].at = "sign", ![j].row = ownRow] ELSE Leave(j)
  /\ UNCHANGED <<ownRow, keyHere, mesh, recent, savedDoc, spoiled, ownLeft>>

(* publish, unpublish, remove: read the row and go to sign.                *)
Share(j) ==
  /\ MineHere /\ Pay("commands") /\ Enter(j, "share", "sign", ownRow, Unsigned)
  /\ UNCHANGED <<ownRow, keyHere, mesh, recent, savedDoc>>

Retract(j, op) ==
  /\ ownRow.there /\ Pay("commands")
  /\ Enter(j, op, IF ownRow.mine /\ ownRow.published THEN "sign"
                  ELSE IF op = "unshare" THEN "private" ELSE "delete", ownRow, Unsigned)
  /\ UNCHANGED <<ownRow, keyHere, mesh, recent, savedDoc>>

\* A record near its end is sent as it is.
NeverRenewed == FALSE

(* announceOnce: a record near its end is signed again, any other is sent  *)
(* as it was listed.                                                       *)
MustRenew == ownRow.due
Announce(j) ==
  /\ Disclosed /\ ~recent /\ keyHere
  /\ IF MustRenew THEN Enter(j, "renew", "sign", ownRow, Unsigned)
     ELSE ownRow.rec # Unsigned /\ Enter(j, "announce", "send", ownRow, ownRow.rec)
  /\ UNCHANGED <<ownRow, keyHere, mesh, recent, savedDoc, ownLeft>>

(* handlePlaylistList: a peer wants the list again.                        *)
AnswerWant(j) ==
  /\ Disclosed /\ ownRow.rec # Unsigned /\ Pay("wakes")
  /\ Enter(j, "answer", "send", ownRow, ownRow.rec)
  /\ UNCHANGED <<ownRow, keyHere, mesh, recent, savedDoc>>

-----------------------------------------------------------------------------
Retracts(j) == jobs[j].op \in {"unshare", "remove"}
Tells(j) == IF Retracts(j) THEN Buried ELSE Doc(j)

\* The number read is used again.
SameNumber(seq) == seq

(* nextSeq *)
NextNumber(seq) == seq + 1

(* loadKey and sign.  Without the key a tombstone is skipped in silence,   *)
(* anything else fails.                                                    *)
SignNext(j) ==
  /\ At(j, "sign")
  /\ IF keyHere
     THEN jobs' = [jobs EXCEPT ![j].rec = [doc |-> Tells(j), seq |-> NextNumber(jobs[j].row.seq)],
                               ![j].at = IF Retracts(j) THEN "send" ELSE "store"]
     ELSE CASE jobs[j].op = "unshare" -> Proceed(j, "private")
            [] jobs[j].op = "remove" -> Proceed(j, "delete")
            [] OTHER -> Leave(j)
  /\ spoiled' = (spoiled \/ (~keyHere /\ jobs[j].op \in {"edit", "unshare", "remove"}))
  /\ UNCHANGED <<ownRow, keyHere, mesh, recent, savedDoc, ownLeft>>

(* The record is stored before it is sent: a renewal writes number and     *)
(* record, a publish the document it read as well ...                      *)
StoreRecord(j) ==
  LET rec == jobs[j].rec IN
  /\ At(j, "store")
  /\ IF jobs[j].op = "renew"
     THEN /\ ownRow' = IfThere([ownRow EXCEPT !.rec = rec, !.seq = rec.seq, !.due = FALSE])
          /\ Proceed(j, "send")
     ELSE ownRow' = Upserted(Doc(j), rec, rec.seq, FALSE) /\ Proceed(j, "flag")
  /\ UNCHANGED <<keyHere, mesh, recent, savedDoc, spoiled, ownLeft>>

Flag(j) ==
  /\ At(j, "flag") /\ Proceed(j, "send") /\ ownRow' = IfThere([ownRow EXCEPT !.published = TRUE])
  /\ UNCHANGED <<keyHere, mesh, recent, savedDoc, spoiled, ownLeft>>

(* ... a tombstone is sent first.  gossip throws when it reaches nobody.   *)
Send(j) ==
  /\ At(j, "send") /\ recent' = TRUE
  /\ mesh' = mesh \cup {[payload |-> Tells(j), doc |-> jobs[j].rec.doc, seq |-> jobs[j].rec.seq]}
  /\ IF Retracts(j) THEN Proceed(j, "retire") ELSE Leave(j)
  /\ UNCHANGED <<ownRow, keyHere, savedDoc, spoiled, ownLeft>>

SendFails(j) ==
  /\ At(j, "send") /\ Pay("faults")
  /\ IF jobs[j].op = "remove" THEN Proceed(j, "delete") ELSE Leave(j)
  /\ UNCHANGED <<ownRow, keyHere, mesh, recent, savedDoc, spoiled>>

BuryOwn(j) ==
  LET rec == jobs[j].rec IN
  /\ At(j, "retire") /\ Proceed(j, IF jobs[j].op = "unshare" THEN "private" ELSE "delete")
  /\ ownRow' = IfThere([ownRow EXCEPT !.seq = rec.seq, !.rec = rec, !.tomb = TRUE])
  /\ UNCHANGED <<keyHere, mesh, recent, savedDoc, spoiled, ownLeft>>

MakePrivate(j) ==
  /\ At(j, "private") /\ Leave(j) /\ ownRow' = IfThere([ownRow EXCEPT !.published = FALSE])
  /\ UNCHANGED <<keyHere, mesh, recent, savedDoc, spoiled, ownLeft>>

Delete(j) ==
  /\ At(j, "delete") /\ Proceed(j, "forget") /\ ownRow' = Vacant
  /\ UNCHANGED <<keyHere, mesh, recent, savedDoc, spoiled, ownLeft>>

Forget(j) ==
  /\ At(j, "forget") /\ Leave(j) /\ keyHere' = FALSE
  /\ UNCHANGED <<ownRow, mesh, recent, savedDoc, spoiled, ownLeft>>

-----------------------------------------------------------------------------
(* ingestWire, ingestLink: a record that verifies and is newer than the    *)
(* row, read back from the mesh or a link; the check and the write are two *)
(* statements.                                                             *)
Hear(j, m) ==
  /\ m.payload = m.doc /\ (ownRow.there => ownRow.seq < m.seq) /\ Pay("wakes")
  /\ Enter(j, "ingest", "take", [Vacant EXCEPT !.doc = m.payload],
           [doc |-> m.doc, seq |-> m.seq])
  /\ UNCHANGED <<ownRow, keyHere, mesh, recent, savedDoc>>

TakeIn(j) ==
  /\ At(j, "take") /\ Leave(j) /\ recent' = TRUE
  /\ ownRow' = Upserted(Doc(j), jobs[j].rec, jobs[j].rec.seq, FALSE)
  /\ UNCHANGED <<keyHere, mesh, savedDoc, spoiled, ownLeft>>

(* enforceBudget: lists the rows that are not the user's, then deletes.    *)
ListToEvict(j) ==
  /\ ownRow.there /\ ~ownRow.mine /\ Pay("wakes") /\ Enter(j, "evict", "evict", ownRow, Unsigned)
  /\ UNCHANGED <<ownRow, keyHere, mesh, recent, savedDoc>>

EvictRow(j) ==
  /\ At(j, "evict") /\ Leave(j) /\ ownRow' = Vacant
  /\ UNCHANGED <<keyHere, mesh, recent, savedDoc, spoiled, ownLeft>>

(* copyLink: the record and the document of the row, in a link.            *)
CopyLink ==
  /\ ownRow.there /\ ownRow.rec # Unsigned /\ Pay("wakes")
  /\ mesh' = mesh \cup {[payload |-> ownRow.doc, doc |-> ownRow.rec.doc, seq |-> ownRow.rec.seq]}
  /\ spoiled' = (spoiled \/ \E k \in Jobs : Engaged(k) /\ jobs[k].op = "edit")
  /\ UNCHANGED <<ownRow, keyHere, jobs, recent, savedDoc>>

(* The tab closes and opens again: the tasks are gone.  Cut short, a       *)
(* creation leaves a row nobody owns, an edit a record that is not of its  *)
(* document, and a tombstone that is out is not in the row.                *)
Brittle(j) ==
  \/ jobs[j].at \in {"insert", "own", "write", "reread", "flag", "retire"}
  \/ jobs[j].op = "edit" /\ (At(j, "sign") \/ At(j, "store"))
CloseTab ==
  /\ Pay("losses") /\ jobs' = [j \in Jobs |-> Rested] /\ recent' = FALSE
  /\ spoiled' = (spoiled \/ \E j \in Jobs : Brittle(j))
  /\ UNCHANGED <<ownRow, keyHere, mesh, savedDoc>>

(* External: the browser evicts the key, or the user imports it again; the *)
(* record comes near its end; the announce window passes.                  *)
LoseKey ==
  /\ keyHere /\ Pay("losses") /\ keyHere' = FALSE
  /\ UNCHANGED <<ownRow, jobs, mesh, recent, savedDoc, spoiled>>

ImportKey ==
  /\ ~keyHere /\ MineHere /\ keyHere' = TRUE
  /\ UNCHANGED <<ownRow, jobs, mesh, recent, savedDoc, spoiled, ownLeft>>

NearEnd ==
  /\ ownRow.rec # Unsigned /\ ~ownRow.due /\ Pay("wakes")
  /\ ownRow' = [ownRow EXCEPT !.due = TRUE]
  /\ UNCHANGED <<keyHere, jobs, mesh, recent, savedDoc, spoiled>>

WindowPasses ==
  /\ recent /\ recent' = FALSE
  /\ UNCHANGED <<ownRow, keyHere, jobs, mesh, savedDoc, spoiled, ownLeft>>

OwnStep(j) ==
  \/ Insert(j) \/ OwnIt(j) \/ WriteEdit(j) \/ Reread(j) \/ SignNext(j) \/ StoreRecord(j)
  \/ Flag(j) \/ Send(j) \/ BuryOwn(j) \/ MakePrivate(j) \/ Delete(j) \/ Forget(j)
  \/ TakeIn(j) \/ EvictRow(j)

OwnNext ==
  \/ \E j \in Jobs :
       \/ \E d \in Drafts : Create(j, d) \/ Edit(j, d)
       \/ \E op \in {"unshare", "remove"} : Retract(j, op)
       \/ \E m \in mesh : Hear(j, m)
       \/ Share(j) \/ Announce(j) \/ AnswerWant(j) \/ ListToEvict(j)
       \/ OwnStep(j) \/ SendFails(j)
  \/ CopyLink \/ CloseTab \/ LoseKey \/ ImportKey \/ NearEnd \/ WindowPasses

(* Awaited statements finish, the timer of the announce loop fires and the *)
(* clock runs.                                                             *)
OwnSpec == /\ OwnInit /\ [][OwnNext]_ownVars
           /\ WF_ownVars(\E j \in Jobs : Announce(j)) /\ WF_ownVars(WindowPasses)
           /\ \A j \in Jobs : WF_ownVars(OwnStep(j))

-----------------------------------------------------------------------------
OwnTypeOK ==
  /\ ownRow \in OwnRows /\ keyHere \in BOOLEAN /\ recent \in BOOLEAN
  /\ jobs \in [Jobs -> Tasks]
  /\ mesh \subseteq [payload : Sheets, doc : Sheets, seq : Nat]
  /\ savedDoc \in Sheets /\ spoiled \in BOOLEAN

Quiet == \A j \in Jobs : Engaged(j) => OnlyReads(jobs[j].op)

(* What leaves the browser verifies: a record is out with the document it  *)
(* was signed for, and no number is out for two documents.  Only a link to *)
(* a list made private carries its tombstone's record with the list.       *)
SentVerifies ==
  /\ \A m \in mesh : m.payload = m.doc \/ m.doc = Buried
  /\ \A m, n \in mesh : m.seq = n.seq => m.doc = n.doc

(* Between tasks the row is what the user saved last, and nothing that is  *)
(* out is ahead of it: gossip never overwrites the user's own list.        *)
RowIsAhead == Quiet /\ MineHere =>
  /\ ownRow.doc = savedDoc
  /\ \A m \in mesh : m.seq <= ownRow.seq

(* ... a published row verifies, so that announcing it is of use; and a    *)
(* list made private ends on a tombstone that nothing out supersedes.      *)
RowVerifies == Quiet /\ MineHere =>
  /\ ownRow.published /\ ~ownRow.tomb => ownRow.rec = [doc |-> ownRow.doc, seq |-> ownRow.seq]
  /\ ~ownRow.published /\ mesh # {} =>
       \E m \in mesh : m.doc = Buried /\ \A n \in mesh : n.seq <= m.seq

OwnKept == ~spoiled => SentVerifies /\ RowIsAhead /\ RowVerifies

(* A published list reaches the mesh as it stands, whatever failed before, *)
(* and its record is renewed before it ends.                               *)
OwnAnnounced ==
  /\ (Disclosed /\ keyHere) ~>
       \/ ~Disclosed \/ ~keyHere \/ spoiled
       \/ [payload |-> ownRow.doc, doc |-> ownRow.doc, seq |-> ownRow.seq] \in mesh
  /\ (Disclosed /\ keyHere /\ ownRow.due) ~> ~(Disclosed /\ keyHere /\ ownRow.due)
=============================================================================
