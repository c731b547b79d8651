------------------------------ MODULE Library ------------------------------
(* The playlists of others in a client's library: what the desktop's       *)
(* playlists.rs and the browser's packages/playlists-web keep, replace and *)
(* drop.  Records come by gossip and by link, tombstones empty or retire a *)
(* row, the budget and the decay of expired records clear the seen tier,   *)
(* and what the user holds or plays must survive all of it.  The desktop   *)
(* works in locked sections, the browser one awaited statement at a time.  *)
EXTENDS Naturals, FiniteSets, FiniteSetsExt

CONSTANTS
  Foreign,      \* playlists signed by others
  Versions,     \* sequence numbers of their records
  Half,         \* from here on a number does not fit the column's sign (2^63)
  Retired, Bad, \* <<name, version>>: tombstones, and documents that do not validate
  Budget,       \* seen rows that fit the budget
  NoRow, NoName,
  Ingesters,    \* tasks that may ingest at once: the sync loop, a link
  Togglers,     \* like commands that may run at once
  Tracks,
  Clients,      \* which clients the instance explores: "desktop", "web"
  LibraryPlans  \* bounds of a behaviour: deliveries, expiries, user's changes, likes

RowShape == [seq : Nat, doc : Nat, record : BOOLEAN, tomb : BOOLEAN, held : BOOLEAN,
             dead : BOOLEAN]

ASSUME LibraryAssumption ==
  /\ Versions \subseteq Nat \ {0} /\ Half \in Nat /\ Budget \in Nat /\ NoRow \notin RowShape
  /\ Clients \subseteq {"desktop", "web"} /\ Foreign # {} /\ Tracks # {}

VARIABLES
  client,
  rowOf,     \* the row of each playlist
  rejected,  \* <<name, version>> remembered as bad
  entering,  \* what each ingester has checked and not yet stored
  playing,   \* the pinned playlist
  clearing,  \* names a decay pass or the browser's eviction is about to delete
  holding,      \* names the user holds, as he was last told
  late,      \* those among them the user held or played after the pass listed them
  exposed,   \* names of which two ingests overlapped
  highest,   \* the largest number stored for a row while it lives
  likedRows, \* liked playlists created, created without their flag, being created
  liked, toggling, lastLikes, \* tracks in it, toggles under way, what they add up to
  plan

libVars == <<client, rowOf, rejected, entering, playing, clearing, late, holding, exposed, highest,
             likedRows, liked, toggling, lastLikes, plan>>
rowVars == <<rowOf, rejected, entering, clearing, late, holding, exposed, highest>>
likeVars == <<likedRows, liked, toggling, lastLikes>>

Desktop == client = "desktop"
Here(n) == rowOf[n] # NoRow
Seen(n) == Here(n) /\ ~rowOf[n].held
NoEntry == [step |-> "idle", name |-> CHOOSE n \in Foreign : TRUE, version |-> 0]
NoToggle == [step |-> "idle", track |-> CHOOSE t \in Tracks : TRUE, read |-> {}, alone |-> TRUE]
NewRow(v, dead) == [seq |-> v, doc |-> v, record |-> TRUE, tomb |-> FALSE, held |-> FALSE,
                    dead |-> dead]

LibInit ==
  /\ client \in Clients /\ rowOf = [n \in Foreign |-> NoRow] /\ rejected = {}
  /\ entering = [i \in Ingesters |-> NoEntry] /\ playing = NoName /\ clearing = {}
  /\ late = {} /\ holding = {} /\ exposed = {} /\ highest = [n \in Foreign |-> 0]
  /\ likedRows = [whole |-> 0, bare |-> 0, making |-> FALSE] /\ liked = {} /\ lastLikes = {}
  /\ toggling = [t \in Togglers |-> NoToggle] /\ plan \in LibraryPlans

Spend(what) == plan[what] > 0 /\ plan' = [plan EXCEPT ![what] = @ - 1]

-----------------------------------------------------------------------------
(* ingest_wire, ingestVerified: a record not newer than the row, or known  *)
(* to be bad, stops at the check ...                                       *)
NewerRow(n, v) == IF Here(n) THEN rowOf[n].seq < v ELSE TRUE
Entering(n) == {i \in Ingesters : entering[i].step = "checked" /\ entering[i].name = n}

Check(i, n, v) ==
  /\ entering[i].step = "idle" /\ Spend("deliveries")
  /\ NewerRow(n, v) /\ <<n, v>> \notin rejected
  /\ entering' = [entering EXCEPT ![i] = [step |-> "checked", name |-> n, version |-> v]]
  /\ exposed' = IF Entering(n) = {} THEN exposed ELSE exposed \cup {n}
  /\ UNCHANGED <<client, rowOf, rejected, playing, clearing, late, holding, highest, likeVars>>

(* The column is signed: a number from Half on is stored as 0 in a new row *)
(* and leaves an old one's as it is (upsert_row).                          *)
Column(n, v) == IF ~Desktop \/ v < Half THEN v ELSE IF Here(n) THEN rowOf[n].seq ELSE 0

(* The row after a record, or a tombstone: the desktop keeps the document  *)
(* of a held or playing row and drops its record, and deletes a seen row;  *)
(* the browser stores the tombstone's empty document over whatever it has. *)
Put(n, v) ==
  [NewRow(v, FALSE) EXCEPT !.seq = Column(n, v), !.held = Here(n) /\ rowOf[n].held]
Dormant(n, v) == [rowOf[n] EXCEPT !.seq = v, !.record = FALSE, !.tomb = TRUE]
RetireAll(n, v) == NoRow  \* a retired version takes the row with it
Retire(n, v) ==
  IF Desktop
  THEN IF Here(n) /\ (rowOf[n].held \/ playing = n) THEN Dormant(n, v) ELSE NoRow
  ELSE [Put(n, v) EXCEPT !.doc = 0, !.tomb = TRUE]

(* ... and is stored under another lock, without another look.             *)
Store(i) ==
  LET n == entering[i].name
      v == entering[i].version
      row == IF <<n, v>> \in Retired THEN Retire(n, v) ELSE Put(n, v)
  IN /\ entering[i].step = "checked" /\ entering' = [entering EXCEPT ![i] = NoEntry]
     /\ IF <<n, v>> \in Bad
        THEN /\ rejected' = IF Desktop THEN rejected \cup {<<n, v>>} ELSE rejected
             /\ UNCHANGED <<rowOf, highest>>
        ELSE /\ rowOf' = [rowOf EXCEPT ![n] = row] /\ UNCHANGED rejected
             /\ highest' = [highest EXCEPT ![n] =
                  IF row = NoRow THEN 0 ELSE IF ~Here(n) THEN v ELSE Max({@, v})]
     /\ exposed' = IF rowOf'[n] = NoRow /\ Entering(n) = {i} THEN exposed \ {n} ELSE exposed
     /\ UNCHANGED <<client, playing, clearing, late, holding, likeVars, plan>>

-----------------------------------------------------------------------------
(* set_held, hold, and the player's pin (the browser has none).            *)
Hold(n, hold) ==
  /\ Here(n) /\ rowOf[n].held # hold /\ Spend("changes")
  /\ rowOf' = [rowOf EXCEPT ![n].held = hold]
  /\ holding' = IF hold THEN holding \cup {n} ELSE holding \ {n}
  /\ late' = IF hold /\ n \in clearing THEN late \cup {n} ELSE late
  /\ UNCHANGED <<client, rejected, entering, playing, clearing, exposed, highest, likeVars>>

PinPlaying(n) ==
  /\ Desktop /\ playing # n /\ Spend("changes") /\ playing' = n
  /\ late' = IF n \in clearing THEN late \cup {n} ELSE late
  /\ UNCHANGED <<client, rowOf, rejected, entering, clearing, holding, exposed, highest, likeVars>>

(* External: the record of a row passes its EOL.                           *)
Expire(n) ==
  /\ Here(n) /\ ~rowOf[n].dead /\ Spend("expiries")
  /\ rowOf' = [rowOf EXCEPT ![n].dead = TRUE]
  /\ UNCHANGED <<client, rejected, entering, playing, clearing, late, holding, exposed, highest, likeVars>>

(* enforce_budget on the desktop: one locked section, until the seen rows  *)
(* fit or none is left to evict.                                           *)
Over == Cardinality({n \in Foreign : Seen(n)}) > Budget
Victims == {n \in Foreign : Seen(n) /\ n # playing}
EnforceBudget(n) ==
  /\ Desktop /\ Over /\ n \in Victims
  /\ rowOf' = [rowOf EXCEPT ![n] = NoRow]
  /\ highest' = [highest EXCEPT ![n] = 0]
  /\ UNCHANGED <<client, rejected, entering, playing, clearing, late, holding, exposed, likeVars, plan>>

(* decay_expired and the browser's enforceBudget list the rows to go, and  *)
(* delete them one by one under other locks, without looking again.        *)
Decayed == {n \in Victims : rowOf[n].dead \/ ~rowOf[n].record}
ScanSeen ==
  /\ clearing = {}
  /\ clearing' \in IF Desktop THEN {Decayed}
                   ELSE IF Over THEN kSubset(Cardinality(Victims) - Budget, Victims)
                        ELSE {{}}
  /\ clearing' # {}
  /\ UNCHANGED <<client, rowOf, rejected, entering, playing, late, holding, exposed, highest, likeVars, plan>>

DeleteSeen(n) ==
  /\ n \in clearing /\ clearing' = clearing \ {n}
  /\ rowOf' = [rowOf EXCEPT ![n] = NoRow] /\ highest' = [highest EXCEPT ![n] = 0]
  /\ late' = late \ {n} /\ holding' = holding \ (late \cap {n})
  /\ UNCHANGED <<client, rejected, entering, playing, exposed, likeVars, plan>>

-----------------------------------------------------------------------------
(* ensure_liked, likedRow: one creation at a time; the playlist exists     *)
(* before its flag is set, and the app may stop in between.                *)
CreateLiked ==
  /\ likedRows.whole = 0 /\ ~likedRows.making /\ Spend("likes")
  /\ likedRows' = [likedRows EXCEPT !.making = TRUE]
  /\ UNCHANGED <<client, rowVars, playing, liked, toggling, lastLikes>>

FlagLiked(ok) ==
  /\ likedRows.making
  /\ likedRows' = IF ok THEN [likedRows EXCEPT !.making = FALSE, !.whole = @ + 1]
                  ELSE [likedRows EXCEPT !.making = FALSE, !.bare = @ + 1]
  /\ UNCHANGED <<client, rowVars, playing, liked, toggling, lastLikes, plan>>

(* like_toggle reads the list under one lock and writes it under another.  *)
Toggled(set, t) == IF t \in set THEN set \ {t} ELSE set \cup {t}
Toggling == {s \in Togglers : toggling[s].step # "idle"}

LikeRead(s, t) ==
  /\ likedRows.whole > 0 /\ toggling[s].step = "idle" /\ Spend("likes")
  /\ toggling' = [r \in Togglers |->
       IF r = s THEN [step |-> "read", track |-> t, read |-> liked, alone |-> Toggling = {}]
       ELSE [toggling[r] EXCEPT !.alone = FALSE]]
  /\ lastLikes' = Toggled(lastLikes, t)
  /\ UNCHANGED <<client, rowVars, playing, likedRows, liked>>

LikeWritten(s) == Toggled(toggling[s].read, toggling[s].track)

LikeWrite(s) ==
  /\ toggling[s].step = "read" /\ liked' = LikeWritten(s)
  /\ lastLikes' = IF toggling[s].alone THEN lastLikes ELSE liked'
  /\ toggling' = [toggling EXCEPT ![s] = NoToggle]
  /\ UNCHANGED <<client, rowVars, playing, likedRows, plan>>

LibNext ==
  \/ \E i \in Ingesters : Store(i) \/ \E n \in Foreign, v \in Versions : Check(i, n, v)
  \/ \E n \in Foreign : \/ \E hold \in BOOLEAN : Hold(n, hold)
                      \/ Expire(n) \/ EnforceBudget(n) \/ DeleteSeen(n)
  \/ \E n \in Foreign \cup {NoName} : PinPlaying(n)
  \/ ScanSeen \/ CreateLiked \/ \E ok \in BOOLEAN : FlagLiked(ok)
  \/ \E s \in Togglers : LikeWrite(s) \/ \E t \in Tracks : LikeRead(s, t)

LibSpec == LibInit /\ [][LibNext]_libVars

-----------------------------------------------------------------------------
LibTypeOK ==
  /\ client \in Clients /\ rowOf \in [Foreign -> RowShape \cup {NoRow}]
  /\ entering \in [Ingesters -> [step : {"idle", "checked"}, name : Foreign,
                                  version : Versions \cup {0}]]
  /\ playing \in Foreign \cup {NoName} /\ holding \subseteq Foreign
  /\ highest \in [Foreign -> Nat] /\ late \subseteq clearing /\ clearing \subseteq Foreign
  /\ likedRows \in [whole : Nat, bare : Nat, making : BOOLEAN]
  /\ liked \subseteq Tracks /\ lastLikes \subseteq Tracks
  /\ toggling \in [Togglers -> [step : {"idle", "read"}, track : Tracks, read : SUBSET Tracks,
                                 alone : BOOLEAN]]

(* What the user holds stays, with its document, through tombstones, the   *)
(* budget and decay: unless he held it while a clearing pass that had      *)
(* listed it was under way.  The browser stores a tombstone over it.       *)
HeldStays == \A n \in holding \ late :
  /\ Here(n) /\ rowOf[n].held
  /\ rowOf[n].doc # 0 \/ (~Desktop /\ rowOf[n].tomb)

(* A row never goes back to an older record while it lives: unless two     *)
(* ingests of it overlapped, or its number does not fit the column.        *)
NeverOlder == \A n \in Foreign \ exposed :
  Here(n) /\ (\A v \in Versions : Desktop /\ v >= Half => v > highest[n]) =>
    rowOf[n].seq = highest[n]

(* There is one liked playlist and it holds what the toggles add up to:    *)
(* toggles that overlap may lose one, and a stop between creation and flag *)
(* leaves a second playlist of that title behind.                          *)
LikesAddUp ==
  /\ likedRows.whole <= 1
  /\ Toggling = {} => liked = lastLikes

RowsKept == HeldStays /\ NeverOlder /\ LikesAddUp
=============================================================================
