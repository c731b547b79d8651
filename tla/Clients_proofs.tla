---------------------------- MODULE Clients_proofs ---------------------------
(* What a client keeps of its own and of others' playlists, and what its   *)
(* search shows, for any number of lists, records, tasks, peers, queries.  *)
EXTENDS Library, WebPull, BrowserPlaylist, CatalogPages, FiniteSetTheorems, SequenceTheorems,
        NaturalsInduction, TLAPS

-----------------------------------------------------------------------------
(* Library: the rows of others' playlists.  A row changes in locked or     *)
(* awaited steps between which the user holds it, plays it or another      *)
(* record comes in, so the invariant speaks of the steps that are pending: *)
(* the passes that have listed a row, the ingests that have checked one and*)
(* the toggles that have read the liked list.                              *)

(* What a clearing pass has listed and the user holds, he took up after it *)
(* was listed; and only the browser empties a document.                    *)
HeldInv ==
  /\ clearing \cap holding \subseteq late
  /\ \A n \in Foreign : Here(n) => rowOf[n].doc # 0 \/ (~Desktop /\ rowOf[n].tomb)
  /\ HeldStays

(* Of a list that no two ingests have overlapped on, at most one ingester  *)
(* holds a checked record, and it is still newer than the row.             *)
AgeInv ==
  /\ \A i \in Ingesters : entering[i].step = "checked" => entering[i].version \in Versions
  /\ \A n \in Foreign \ exposed :
       /\ \A i, j \in Entering(n) : i = j
       /\ \A i \in Entering(n) : NewerRow(n, entering[i].version)
  /\ NeverOlder

(* A toggle that is alone has read what is there, and the toggles add up to*)
(* what it is going to write.                                              *)
LikeInv ==
  /\ likedRows.making => likedRows.whole = 0
  /\ \A s \in Toggling : toggling[s].alone =>
       /\ Toggling = {s} /\ toggling[s].read = liked
       /\ lastLikes = Toggled(liked, toggling[s].track)
  /\ LikesAddUp

LibInv == LibTypeOK /\ HeldInv /\ AgeInv /\ LikeInv

(* What Store puts into a row.                                             *)
RowStored(n, v) == IF <<n, v>> \in Retired THEN Retire(n, v) ELSE Put(n, v)

LEMMA ColumnFits ==
  ASSUME LibTypeOK, NEW n \in Foreign, NEW v \in Versions
  PROVE  /\ Column(n, v) \in Nat
         /\ (Desktop /\ v >= Half) \/ Column(n, v) = v
<1>1. v \in Nat /\ Half \in Nat
  BY LibraryAssumption
<1>2. Here(n) => rowOf[n].seq \in Nat
  BY DEF LibTypeOK, Here, RowShape
<1> QED
  BY <1>1, <1>2 DEF Column

LEMMA PutIs ==
  ASSUME LibTypeOK, NEW n \in Foreign, NEW v \in Versions
  PROVE  /\ Put(n, v) \in RowShape
         /\ Put(n, v).held = (Here(n) /\ rowOf[n].held)
         /\ Put(n, v).doc = v /\ Put(n, v).seq = Column(n, v)
<1>1. Column(n, v) \in Nat /\ v \in Nat
  BY ColumnFits, LibraryAssumption
<1>2. Here(n) => rowOf[n].held \in BOOLEAN
  BY DEF LibTypeOK, Here, RowShape
<1>3. (Here(n) /\ rowOf[n].held) \in BOOLEAN
  OBVIOUS
<1> QED
  BY <1>1, <1>3 DEF Put, NewRow, RowShape

LEMMA StoredIs ==
  ASSUME LibTypeOK, NEW n \in Foreign, NEW v \in Versions
  PROVE  /\ RowStored(n, v) \in RowShape \cup {NoRow}
         /\ Here(n) /\ rowOf[n].held => RowStored(n, v) # NoRow /\ RowStored(n, v).held
         /\ RowStored(n, v) # NoRow =>
              \/ RowStored(n, v).doc = v
              \/ ~Desktop /\ RowStored(n, v).tomb
              \/ Desktop /\ Here(n) /\ RowStored(n, v).doc = rowOf[n].doc
         /\ RowStored(n, v) # NoRow => RowStored(n, v).seq \in {v, Column(n, v)}
<1> DEFINE p == Put(n, v)
           t == [p EXCEPT !.doc = 0, !.tomb = TRUE]
           d == Dormant(n, v)
<1>1. /\ p \in RowShape /\ p.held = (Here(n) /\ rowOf[n].held)
      /\ p.doc = v /\ p.seq = Column(n, v)
  BY PutIs
<1>2. v \in Nat /\ NoRow \notin RowShape
  BY LibraryAssumption
<1>3. /\ t \in RowShape /\ t.held = p.held /\ t.tomb = TRUE /\ t.seq = p.seq
  <2> HIDE DEF p
  <2> QED
    BY <1>1 DEF RowShape
<1>4. Here(n) => /\ d \in RowShape /\ d.held = rowOf[n].held
                 /\ d.doc = rowOf[n].doc /\ d.seq = v
  <2> SUFFICES ASSUME Here(n) PROVE /\ d \in RowShape /\ d.held = rowOf[n].held
                                    /\ d.doc = rowOf[n].doc /\ d.seq = v
    OBVIOUS
  <2> DEFINE r == rowOf[n]
  <2>1. r \in RowShape
    BY DEF LibTypeOK, Here
  <2>2. d = [r EXCEPT !.seq = v, !.record = FALSE, !.tomb = TRUE]
    BY DEF Dormant
  <2> HIDE DEF r, d
  <2>3. /\ d \in RowShape /\ d.held = r.held /\ d.doc = r.doc /\ d.seq = v
    BY <2>1, <2>2, <1>2 DEF RowShape
  <2> QED
    BY <2>3 DEF r
<1>5. RowStored(n, v) = IF <<n, v>> \in Retired
                     THEN IF Desktop THEN IF Here(n) /\ (rowOf[n].held \/ playing = n) THEN d ELSE NoRow
                                     ELSE t
                     ELSE p
  BY DEF RowStored, Retire
<1> HIDE DEF p, t, d
<1> QED
  BY <1>1, <1>2, <1>3, <1>4, <1>5

LEMMA LibInitHolds == LibInit => LibInv
<1> SUFFICES ASSUME LibInit PROVE LibInv
  OBVIOUS
<1>1. /\ \A n \in Foreign : rowOf[n] = NoRow /\ ~Here(n)
      /\ \A i \in Ingesters : entering[i] = NoEntry /\ entering[i].step = "idle"
      /\ \A s \in Togglers : toggling[s] = NoToggle /\ toggling[s].step = "idle"
  BY DEF LibInit, Here, NoEntry, NoToggle
<1>2. LibTypeOK
  <2>1. NoEntry \in [step : {"idle", "checked"}, name : Foreign, version : Versions \cup {0}]
    BY LibraryAssumption DEF NoEntry
  <2>2. NoToggle \in [step : {"idle", "read"}, track : Tracks, read : SUBSET Tracks,
                       alone : BOOLEAN]
    BY LibraryAssumption DEF NoToggle
  <2>3. /\ rowOf \in [Foreign -> RowShape \cup {NoRow}]
        /\ highest \in [Foreign -> Nat]
        /\ likedRows \in [whole : Nat, bare : Nat, making : BOOLEAN]
    BY DEF LibInit
  <2> QED
    BY <2>1, <2>2, <2>3 DEF LibInit, LibTypeOK
<1>3. HeldInv /\ AgeInv
  BY <1>1 DEF LibInit, HeldInv, HeldStays, AgeInv, NeverOlder, Entering
<1>4. LikeInv
  BY <1>1 DEF LibInit, LikeInv, LikesAddUp, Toggling
<1> QED
  BY <1>2, <1>3, <1>4 DEF LibInv

LEMMA MaxOfTwo ==
  ASSUME NEW a \in Nat, NEW b \in Nat
  PROVE  Max({a, b}) = IF a >= b THEN a ELSE b
<1> DEFINE m == IF a >= b THEN a ELSE b
<1>1. m \in {a, b} /\ \A y \in {a, b} : m >= y
  OBVIOUS
<1>2. \A x \in {a, b} : (\A y \in {a, b} : x >= y) => x = m
  OBVIOUS
<1> HIDE DEF m
<1>3. Max({a, b}) \in {a, b} /\ \A y \in {a, b} : Max({a, b}) >= y
  BY <1>1 DEF Max
<1> QED
  BY <1>2, <1>3 DEF m

(* What Store does, in the terms of the invariant.                         *)
LEMMA StoreDoes ==
  ASSUME LibTypeOK, AgeInv, NEW i \in Ingesters, Store(i)
  PROVE  \E n \in Foreign, v \in Versions :
           /\ i \in Entering(n) /\ n = entering[i].name /\ v = entering[i].version
           /\ entering' = [entering EXCEPT ![i] = NoEntry]
           /\ \/ rowOf' = rowOf /\ highest' = highest
              \/ /\ rowOf' = [rowOf EXCEPT ![n] = RowStored(n, v)]
                 /\ highest' = [highest EXCEPT ![n] =
                      IF RowStored(n, v) = NoRow THEN 0 ELSE IF ~Here(n) THEN v
                      ELSE Max({highest[n], v})]
           /\ exposed' = IF rowOf'[n] = NoRow /\ Entering(n) = {i} THEN exposed \ {n} ELSE exposed
           /\ UNCHANGED <<client, playing, clearing, late, holding, likeVars>>
<1> DEFINE n == entering[i].name
           v == entering[i].version
<1>1. n \in Foreign /\ v \in Versions /\ i \in Entering(n)
  BY DEF Store, LibTypeOK, AgeInv, Entering
<1> QED
  BY <1>1 DEF Store, RowStored

LEMMA LibTypeKept == LibInv /\ [LibNext]_libVars => LibTypeOK'
<1> SUFFICES ASSUME LibInv, [LibNext]_libVars PROVE LibTypeOK'
  OBVIOUS
<1> USE DEF LibInv
<1>1. /\ NoEntry \in [step : {"idle", "checked"}, name : Foreign, version : Versions \cup {0}]
      /\ NoToggle \in [step : {"idle", "read"}, track : Tracks, read : SUBSET Tracks,
                       alone : BOOLEAN]
  BY LibraryAssumption DEF NoEntry, NoToggle
<1>2. ASSUME NEW i \in Ingesters, Store(i) PROVE LibTypeOK'
  <2>1. PICK n \in Foreign, v \in Versions :
          /\ entering' = [entering EXCEPT ![i] = NoEntry]
          /\ \/ rowOf' = rowOf /\ highest' = highest
             \/ /\ rowOf' = [rowOf EXCEPT ![n] = RowStored(n, v)]
                /\ highest' = [highest EXCEPT ![n] =
                     IF RowStored(n, v) = NoRow THEN 0 ELSE IF ~Here(n) THEN v
                     ELSE Max({highest[n], v})]
          /\ UNCHANGED <<client, playing, clearing, late, holding, likeVars>>
    BY <1>2, StoreDoes
  <2>2. v \in Nat /\ highest[n] \in Nat
    BY LibraryAssumption DEF LibTypeOK
  <2>3. Max({highest[n], v}) \in Nat
    BY <2>2, MaxOfTwo
  <2>4. highest' \in [Foreign -> Nat]
    BY <2>1, <2>2, <2>3 DEF LibTypeOK
  <2>5. rowOf' \in [Foreign -> RowShape \cup {NoRow}]
    BY <2>1, StoredIs DEF LibTypeOK
  <2> QED
    BY <2>1, <2>4, <2>5, <1>1 DEF LibTypeOK, likeVars
<1>3. ASSUME NEW i \in Ingesters, NEW n \in Foreign, NEW v \in Versions, Check(i, n, v)
      PROVE  LibTypeOK'
  BY <1>3 DEF Check, LibTypeOK, likeVars
<1>4. ASSUME NEW n \in Foreign, NEW hold \in BOOLEAN, Hold(n, hold) PROVE LibTypeOK'
  <2>1. rowOf[n] \in RowShape /\ rowOf' = [rowOf EXCEPT ![n] = [rowOf[n] EXCEPT !.held = hold]]
    BY <1>4 DEF Hold, Here, LibTypeOK
  <2>2. [rowOf[n] EXCEPT !.held = hold] \in RowShape
    BY <2>1 DEF RowShape
  <2>3. rowOf' \in [Foreign -> RowShape \cup {NoRow}]
    BY <2>1, <2>2 DEF LibTypeOK
  <2> QED
    BY <1>4, <2>3 DEF Hold, LibTypeOK, likeVars
<1>5. ASSUME NEW n \in Foreign, Expire(n) PROVE LibTypeOK'
  <2>1. rowOf[n] \in RowShape /\ rowOf' = [rowOf EXCEPT ![n] = [rowOf[n] EXCEPT !.dead = TRUE]]
    BY <1>5 DEF Expire, Here, LibTypeOK
  <2>2. [rowOf[n] EXCEPT !.dead = TRUE] \in RowShape
    BY <2>1 DEF RowShape
  <2>3. rowOf' \in [Foreign -> RowShape \cup {NoRow}]
    BY <2>1, <2>2 DEF LibTypeOK
  <2> QED
    BY <1>5, <2>3 DEF Expire, LibTypeOK, likeVars
<1>6. ASSUME NEW n \in Foreign, EnforceBudget(n) \/ DeleteSeen(n) PROVE LibTypeOK'
  BY <1>6 DEF EnforceBudget, DeleteSeen, LibTypeOK, likeVars
<1>7. ASSUME NEW n \in Foreign \cup {NoName}, PinPlaying(n) PROVE LibTypeOK'
  BY <1>7 DEF PinPlaying, LibTypeOK, likeVars
<1>8. CASE ScanSeen
  BY <1>8 DEF ScanSeen, LibTypeOK, likeVars, Decayed, Victims, kSubset
<1>9. ASSUME CreateLiked \/ \E ok \in BOOLEAN : FlagLiked(ok) PROVE LibTypeOK'
  <2> DEFINE q == likedRows
  <2>1. q \in [whole : Nat, bare : Nat, making : BOOLEAN]
    BY DEF LibTypeOK
  <2>2. \/ likedRows' = [q EXCEPT !.making = TRUE]
        \/ likedRows' = [q EXCEPT !.making = FALSE, !.whole = q.whole + 1]
        \/ likedRows' = [q EXCEPT !.making = FALSE, !.bare = q.bare + 1]
    BY <1>9 DEF CreateLiked, FlagLiked
  <2> HIDE DEF q
  <2>3. q.whole + 1 \in Nat /\ q.bare + 1 \in Nat
    BY <2>1
  <2>4. likedRows' \in [whole : Nat, bare : Nat, making : BOOLEAN]
    <3>1. \A k \in Nat : /\ [q EXCEPT !.making = FALSE, !.whole = k] \in
                              [whole : Nat, bare : Nat, making : BOOLEAN]
                        /\ [q EXCEPT !.making = FALSE, !.bare = k] \in
                              [whole : Nat, bare : Nat, making : BOOLEAN]
      BY <2>1
    <3>2. [q EXCEPT !.making = TRUE] \in [whole : Nat, bare : Nat, making : BOOLEAN]
      BY <2>1
    <3> QED
      BY <2>2, <2>3, <3>1, <3>2
  <2> QED
    BY <1>9, <2>4 DEF CreateLiked, FlagLiked, LibTypeOK, rowVars
<1>10. ASSUME NEW s \in Togglers, LikeWrite(s) \/ \E t \in Tracks : LikeRead(s, t)
       PROVE  LibTypeOK'
  <2>1. \A set \in SUBSET Tracks, t \in Tracks : Toggled(set, t) \subseteq Tracks
    BY DEF Toggled
  <2>2. CASE LikeWrite(s)
    BY <2>1, <2>2, <1>1 DEF LikeWrite, LikeWritten, LibTypeOK, rowVars
  <2>3. ASSUME NEW t \in Tracks, LikeRead(s, t) PROVE LibTypeOK'
    <3>1. toggling' \in [Togglers -> [step : {"idle", "read"}, track : Tracks,
                                      read : SUBSET Tracks, alone : BOOLEAN]]
      BY <2>3 DEF LikeRead, LibTypeOK
    <3> QED
      BY <2>1, <2>3, <3>1 DEF LikeRead, LibTypeOK, rowVars
  <2> QED
    BY <1>10, <2>2, <2>3
<1>11. CASE UNCHANGED libVars
  BY <1>11 DEF libVars, LibTypeOK
<1> QED
  BY <1>2, <1>3, <1>4, <1>5, <1>6, <1>7, <1>8, <1>9, <1>10, <1>11 DEF LibNext

LEMMA HeldKept == LibInv /\ [LibNext]_libVars => HeldInv'
<1> SUFFICES ASSUME LibInv, [LibNext]_libVars PROVE HeldInv'
  OBVIOUS
<1> USE DEF LibInv
<1>0. NoRow \notin RowShape /\ \A v \in Versions : v # 0
  BY LibraryAssumption
<1>1. ASSUME NEW i \in Ingesters, Store(i) PROVE HeldInv'
  <2>1. PICK n \in Foreign, v \in Versions :
          /\ rowOf' = rowOf \/ rowOf' = [rowOf EXCEPT ![n] = RowStored(n, v)]
          /\ UNCHANGED <<client, playing, clearing, late, holding, likeVars>>
    BY <1>1, StoreDoes
  <2> DEFINE row == RowStored(n, v)
  <2>2. /\ Here(n) /\ rowOf[n].held => row # NoRow /\ row.held
        /\ row # NoRow => \/ row.doc = v
                          \/ ~Desktop /\ row.tomb
                          \/ Desktop /\ Here(n) /\ row.doc = rowOf[n].doc
    <3> LibTypeOK
      OBVIOUS
    <3> QED
      BY StoredIs
  <2> HIDE DEF row
  <2>3. row # NoRow => row.doc # 0 \/ (~Desktop /\ row.tomb)
    BY <2>2, <1>0 DEF HeldInv
  <2>4. rowOf' = rowOf \/ rowOf' = [rowOf EXCEPT ![n] = row]
    BY <2>1 DEF row
  <2>5. \A m \in Foreign : rowOf'[m] = rowOf[m] \/ (m = n /\ rowOf'[m] = row)
    <3>1. rowOf \in [Foreign -> RowShape \cup {NoRow}]
      BY DEF LibTypeOK
    <3> QED
      BY <2>4, <3>1
  <2>6. \A m \in Foreign : Here(m)' => rowOf'[m].doc # 0 \/ (~Desktop /\ rowOf'[m].tomb)
    BY <2>3, <2>5 DEF HeldInv, Here
  <2>7. ASSUME NEW m \in holding \ late PROVE Here(m)' /\ rowOf'[m].held
    <3>1. m \in Foreign /\ Here(m) /\ rowOf[m].held
      BY DEF HeldInv, HeldStays, LibTypeOK
    <3> QED
      BY <3>1, <2>2, <2>5 DEF Here
  <2> QED
    BY <2>1, <2>6, <2>7 DEF HeldInv, HeldStays, Desktop, LibTypeOK
<1>2. ASSUME NEW i \in Ingesters, NEW n \in Foreign, NEW v \in Versions, Check(i, n, v)
      PROVE  HeldInv'
  BY <1>2 DEF Check, HeldInv, HeldStays, Here, Desktop
<1>3. ASSUME NEW n \in Foreign, NEW hold \in BOOLEAN, Hold(n, hold) PROVE HeldInv'
  <2>1. rowOf[n] \in RowShape /\ rowOf' = [rowOf EXCEPT ![n] = [rowOf[n] EXCEPT !.held = hold]]
    BY <1>3 DEF Hold, Here, LibTypeOK
  <2> DEFINE row == [rowOf[n] EXCEPT !.held = hold]
  <2>2. row \in RowShape /\ row.held = hold /\ row.doc = rowOf[n].doc /\ row.tomb = rowOf[n].tomb
    BY <2>1 DEF RowShape
  <2>3. row # NoRow /\ Here(n)
    BY <2>2, <1>0, <1>3 DEF Hold
  <2>4. rowOf' = [rowOf EXCEPT ![n] = row]
    BY <2>1
  <2> HIDE DEF row
  <2>5. /\ client' = client /\ clearing' = clearing
        /\ holding' = IF hold THEN holding \cup {n} ELSE holding \ {n}
        /\ late' = IF hold /\ n \in clearing THEN late \cup {n} ELSE late
    BY <1>3 DEF Hold
  <2>6. \A m \in Foreign : m # n => rowOf'[m] = rowOf[m]
    BY <2>4 DEF LibTypeOK
  <2>7. rowOf'[n] = row
    BY <2>4 DEF LibTypeOK
  <2>8. clearing' \cap holding' \subseteq late'
    BY <2>5 DEF HeldInv
  <2>9. \A m \in Foreign : Here(m)' => rowOf'[m].doc # 0 \/ (~Desktop /\ rowOf'[m].tomb)
    BY <2>2, <2>3, <2>6, <2>7 DEF HeldInv, Here
  <2>10. ASSUME NEW m \in holding' \ late' PROVE Here(m)' /\ rowOf'[m].held
    <3>1. CASE m = n
      BY <3>1, <2>2, <2>3, <2>5, <2>7 DEF Here
    <3>2. CASE m # n
      <4>1. m \in holding \ late /\ m \in Foreign
        BY <3>2, <2>5 DEF LibTypeOK
      <4> QED
        BY <4>1, <3>2, <2>6 DEF HeldInv, HeldStays, Here
    <3> QED
      BY <3>1, <3>2
  <2>11. \A m \in holding' \ late' : m \in Foreign
    BY <2>5 DEF LibTypeOK
  <2> QED
    BY <2>5, <2>8, <2>9, <2>10, <2>11 DEF HeldInv, HeldStays, Desktop
<1>4. ASSUME NEW n \in Foreign, Expire(n) PROVE HeldInv'
  <2>1. rowOf[n] \in RowShape /\ rowOf' = [rowOf EXCEPT ![n] = [rowOf[n] EXCEPT !.dead = TRUE]]
    BY <1>4 DEF Expire, Here, LibTypeOK
  <2> DEFINE row == [rowOf[n] EXCEPT !.dead = TRUE]
  <2>2. /\ row \in RowShape /\ row.held = rowOf[n].held /\ row.doc = rowOf[n].doc
        /\ row.tomb = rowOf[n].tomb
    BY <2>1 DEF RowShape
  <2>3. row # NoRow /\ Here(n) /\ rowOf' = [rowOf EXCEPT ![n] = row]
    BY <2>1, <2>2, <1>0, <1>4 DEF Expire
  <2> HIDE DEF row
  <2>4. \A m \in Foreign : /\ Here(m)' = Here(m)
                           /\ Here(m) => /\ rowOf'[m].held = rowOf[m].held
                                         /\ rowOf'[m].doc = rowOf[m].doc
                                         /\ rowOf'[m].tomb = rowOf[m].tomb
    BY <2>2, <2>3 DEF LibTypeOK, Here
  <2>5. UNCHANGED <<client, clearing, late, holding>>
    BY <1>4 DEF Expire
  <2> QED
    BY <2>4, <2>5 DEF HeldInv, HeldStays, Desktop, LibTypeOK
<1>5. ASSUME NEW n \in Foreign, EnforceBudget(n) PROVE HeldInv'
  <2>1. ~rowOf[n].held /\ rowOf' = [rowOf EXCEPT ![n] = NoRow]
    BY <1>5 DEF EnforceBudget, Victims, Seen
  <2>2. \A m \in Foreign : m # n => rowOf'[m] = rowOf[m]
    BY <2>1
  <2>3. n \notin holding \ late /\ ~Here(n)'
    BY <2>1 DEF HeldInv, HeldStays, Here, LibTypeOK
  <2>4. UNCHANGED <<client, clearing, late, holding>>
    BY <1>5 DEF EnforceBudget
  <2> QED
    BY <2>2, <2>3, <2>4 DEF HeldInv, HeldStays, Here, Desktop, LibTypeOK
<1>6. ASSUME NEW n \in Foreign, DeleteSeen(n) PROVE HeldInv'
  <2>1. /\ n \in clearing /\ clearing' = clearing \ {n} /\ client' = client
        /\ rowOf' = [rowOf EXCEPT ![n] = NoRow]
        /\ late' = late \ {n} /\ holding' = holding \ (late \cap {n})
    BY <1>6 DEF DeleteSeen
  <2>2. \A m \in Foreign : m # n => rowOf'[m] = rowOf[m]
    BY <2>1
  <2>3. n \in holding => n \in late
    BY <2>1 DEF HeldInv
  <2>4. n \notin holding' /\ holding' \ late' \subseteq holding \ late /\ ~Here(n)'
    BY <2>1, <2>3 DEF Here, LibTypeOK
  <2> QED
    BY <2>1, <2>2, <2>4 DEF HeldInv, HeldStays, Here, Desktop, LibTypeOK
<1>7. ASSUME NEW n \in Foreign \cup {NoName}, PinPlaying(n) PROVE HeldInv'
  BY <1>7 DEF PinPlaying, HeldInv, HeldStays, Here, Desktop
<1>8. CASE ScanSeen
  <2>1. /\ UNCHANGED <<client, rowOf, late, holding>> /\ clearing = {} /\ clearing' \subseteq Victims
    BY <1>8 DEF ScanSeen, Decayed, kSubset
  <2>2. late = {}
    BY <2>1 DEF LibTypeOK
  <2>3. holding \cap Victims = {}
    BY <2>2 DEF HeldInv, HeldStays, Victims, Seen
  <2> QED
    BY <2>1, <2>3 DEF HeldInv, HeldStays, Here, Desktop
<1>9. ASSUME \/ CreateLiked \/ \E ok \in BOOLEAN : FlagLiked(ok)
             \/ \E s \in Togglers : LikeWrite(s) \/ \E t \in Tracks : LikeRead(s, t)
             \/ UNCHANGED libVars
      PROVE  HeldInv'
  <2>1. UNCHANGED <<client, rowOf, clearing, late, holding>>
    BY <1>9 DEF CreateLiked, FlagLiked, LikeWrite, LikeRead, libVars, rowVars
  <2> QED
    BY <2>1 DEF HeldInv, HeldStays, Here, Desktop
<1> QED
  BY <1>1, <1>2, <1>3, <1>4, <1>5, <1>6, <1>7, <1>8, <1>9 DEF LibNext

(* A step that leaves numbers, checks and names alone keeps AgeInv.        *)
LEMMA AgeRests ==
  ASSUME LibInv, UNCHANGED <<client, entering, exposed, highest>>,
         \A n \in Foreign : Here(n)' = Here(n) /\ (Here(n) => rowOf'[n].seq = rowOf[n].seq)
  PROVE  AgeInv'
<1>1. \A n \in Foreign : Entering(n)' = Entering(n)
  BY DEF Entering
<1>2. \A n \in Foreign, v \in Versions \cup {0} : NewerRow(n, v)' = NewerRow(n, v)
  BY DEF NewerRow
<1>3. \A n \in Foreign : \A i \in Entering(n) : entering[i].version \in Versions
  BY DEF LibInv, AgeInv, Entering
<1>4. NeverOlder'
  BY DEF LibInv, AgeInv, NeverOlder, Desktop
<1> QED
  BY <1>1, <1>2, <1>3, <1>4 DEF LibInv, AgeInv

(* So does one that deletes a row.                                         *)
LEMMA AgeDeletes ==
  ASSUME LibInv, NEW n \in Foreign, UNCHANGED <<client, entering, exposed>>,
         rowOf' = [rowOf EXCEPT ![n] = NoRow], highest' = [highest EXCEPT ![n] = 0]
  PROVE  AgeInv'
<1>0. LibTypeOK /\ AgeInv
  BY DEF LibInv
<1>1. \A m \in Foreign : Entering(m)' = Entering(m)
  BY DEF Entering
<1>2. ~Here(n)' /\ \A m \in Foreign : m # n => rowOf'[m] = rowOf[m] /\ highest'[m] = highest[m]
  BY <1>0 DEF LibTypeOK, Here
<1>3. \A m \in Foreign, v \in Versions \cup {0} : NewerRow(m, v) => NewerRow(m, v)'
  BY <1>2 DEF NewerRow, Here
<1>4. \A m \in Foreign : \A i \in Entering(m) : entering[i].version \in Versions
  BY <1>0 DEF AgeInv, Entering
<1>5. NeverOlder'
  BY <1>0, <1>2 DEF AgeInv, NeverOlder, Desktop, Here
<1> QED
  BY <1>0, <1>1, <1>3, <1>4, <1>5 DEF AgeInv

LEMMA AgeStores ==
  ASSUME LibInv, NEW i \in Ingesters, Store(i)
  PROVE  AgeInv'
<1>0. LibTypeOK /\ AgeInv
  BY DEF LibInv
<1>1. PICK n \in Foreign, v \in Versions :
        /\ i \in Entering(n) /\ n = entering[i].name /\ v = entering[i].version
        /\ entering' = [entering EXCEPT ![i] = NoEntry]
        /\ \/ rowOf' = rowOf /\ highest' = highest
           \/ /\ rowOf' = [rowOf EXCEPT ![n] = RowStored(n, v)]
              /\ highest' = [highest EXCEPT ![n] =
                   IF RowStored(n, v) = NoRow THEN 0 ELSE IF ~Here(n) THEN v
                   ELSE Max({highest[n], v})]
        /\ exposed' = IF rowOf'[n] = NoRow /\ Entering(n) = {i} THEN exposed \ {n} ELSE exposed
        /\ UNCHANGED <<client, playing, clearing, late, holding, likeVars>>
  BY <1>0, StoreDoes
<1> DEFINE row == RowStored(n, v)
<1>2. /\ v \in Nat /\ Half \in Nat /\ highest[n] \in Nat
      /\ \A w \in Versions : w \in Nat
      /\ \A m \in Foreign : Here(m) => rowOf[m].seq \in Nat
  BY <1>0, LibraryAssumption DEF LibTypeOK, Here, RowShape
<1>3. /\ row \in RowShape \cup {NoRow}
      /\ row # NoRow => row.seq \in {v, Column(n, v)}
      /\ (Desktop /\ v >= Half) \/ Column(n, v) = v
  <2>1. /\ RowStored(n, v) \in RowShape \cup {NoRow}
        /\ RowStored(n, v) # NoRow => RowStored(n, v).seq \in {v, Column(n, v)}
    BY <1>0, StoredIs
  <2> QED
    BY <1>0, <2>1, ColumnFits
<1>4. /\ \/ rowOf' = rowOf /\ highest' = highest
         \/ /\ rowOf' = [rowOf EXCEPT ![n] = row]
            /\ highest' = [highest EXCEPT ![n] =
                 IF row = NoRow THEN 0 ELSE IF ~Here(n) THEN v
                 ELSE IF highest[n] >= v THEN highest[n] ELSE v]
  BY <1>1, <1>2, MaxOfTwo
<1> HIDE DEF row
<1>5. \A m \in Foreign : m # n => rowOf'[m] = rowOf[m] /\ highest'[m] = highest[m]
  <2>1. \A m \in Foreign : m # n => rowOf'[m] = rowOf[m]
    BY <1>0, <1>4 DEF LibTypeOK
  <2>2. \A m \in Foreign : m # n => highest'[m] = highest[m]
    BY <1>0, <1>4 DEF LibTypeOK
  <2> QED
    BY <2>1, <2>2
<1>6. NoEntry.step = "idle"
  BY DEF NoEntry
<1>7. /\ \A m \in Foreign : Entering(m)' \subseteq Entering(m) \ {i}
      /\ \A j \in Ingesters : j # i => entering'[j] = entering[j]
      /\ entering'[i].step = "idle"
  BY <1>0, <1>1, <1>6 DEF Entering, LibTypeOK
<1>8. Entering(n) = {i} => Entering(n)' = {}
  BY <1>7
<1>9. \A m \in Foreign : m \notin exposed' => m \notin exposed \/ (m = n /\ Entering(n) = {i}
                                                                 /\ rowOf'[n] = NoRow)
  BY <1>1
<1>10. \A j \in Ingesters : entering'[j].step = "checked" => entering'[j].version \in Versions
  BY <1>0, <1>7 DEF AgeInv
<1>11. ASSUME NEW m \in Foreign \ exposed'
       PROVE  /\ \A j, k \in Entering(m)' : j = k
              /\ \A j \in Entering(m)' : NewerRow(m, entering[j].version)'
  <2>1. CASE m = n
    <3>1. Entering(n) \subseteq {i}
      BY <1>0, <1>1, <1>9, <2>1 DEF AgeInv
    <3>2. Entering(m)' = {}
      BY <2>1, <3>1, <1>7
    <3> QED
      BY <3>2
  <2>2. CASE m # n
    <3>1. /\ m \notin exposed /\ rowOf'[m] = rowOf[m]
          /\ \A j \in Entering(m)' : j \in Entering(m) /\ entering'[j] = entering[j]
      BY <1>5, <1>7, <1>9, <2>2 DEF Entering
    <3> QED
      BY <1>0, <3>1 DEF AgeInv, NewerRow, Here
  <2> QED
    BY <2>1, <2>2
<1>12. ASSUME NEW m \in Foreign \ exposed', Here(m)',
              \A w \in Versions : Desktop /\ w >= Half => w > highest'[m]
       PROVE  rowOf'[m].seq = highest'[m]
  <2>1. m \notin exposed
    BY <1>9, <1>12 DEF Here
  <2>2. CASE rowOf'[m] = rowOf[m] /\ highest'[m] = highest[m]
    BY <1>0, <1>12, <2>1, <2>2 DEF AgeInv, NeverOlder, Here
  <2>3. CASE /\ m = n /\ row # NoRow /\ rowOf'[n] = row
             /\ highest'[n] = IF ~Here(n) THEN v ELSE IF highest[n] >= v THEN highest[n] ELSE v
    <3>1. highest'[n] >= v /\ (Here(n) => highest'[n] >= highest[n])
      BY <1>2, <2>3
    <3>2. Column(n, v) = v
      BY <1>2, <1>3, <1>12, <2>3, <3>1
    <3>3. Here(n) => rowOf[n].seq = highest[n]
      <4> SUFFICES ASSUME Here(n) PROVE rowOf[n].seq = highest[n]
        OBVIOUS
      <4>1. \A w \in Versions : Desktop /\ w >= Half => w > highest[n]
        <5>1. \A w \in Versions : Desktop /\ w >= Half => w > highest'[n]
          BY <1>12, <2>3
        <5>2. highest'[n] \in Nat /\ highest'[n] >= highest[n]
          BY <1>2, <2>3, <3>1
        <5> QED
          BY <1>2, <5>1, <5>2
      <4> QED
        BY <1>0, <2>1, <2>3, <4>1 DEF AgeInv, NeverOlder
    <3>4. Here(n) => rowOf[n].seq < v
      BY <1>0, <1>1, <2>1, <2>3 DEF AgeInv, NewerRow
    <3> QED
      BY <1>2, <1>3, <2>3, <3>2, <3>3, <3>4
  <2> QED
    BY <1>0, <1>4, <1>5, <1>12, <2>2, <2>3 DEF LibTypeOK, Here
<1>13. NeverOlder'
  BY <1>1, <1>12 DEF NeverOlder, Desktop
<1> QED
  BY <1>10, <1>11, <1>13 DEF AgeInv

LEMMA AgeKept == LibInv /\ [LibNext]_libVars => AgeInv'
<1> SUFFICES ASSUME LibInv, [LibNext]_libVars PROVE AgeInv'
  OBVIOUS
<1>0. /\ LibTypeOK /\ AgeInv /\ NoRow \notin RowShape
      /\ \A n \in Foreign : Here(n) => rowOf[n] \in RowShape
  BY LibraryAssumption DEF LibInv, LibTypeOK, Here
<1>1. ASSUME NEW i \in Ingesters, Store(i) PROVE AgeInv'
  BY <1>1, AgeStores
<1>2. ASSUME NEW i \in Ingesters, NEW n \in Foreign, NEW v \in Versions, Check(i, n, v)
      PROVE  AgeInv'
  <2> DEFINE entry == [step |-> "checked", name |-> n, version |-> v]
  <2>1. /\ entering[i].step = "idle" /\ NewerRow(n, v)
        /\ entering' = [entering EXCEPT ![i] = entry]
        /\ exposed' = IF Entering(n) = {} THEN exposed ELSE exposed \cup {n}
        /\ UNCHANGED <<client, rowOf, highest>>
    BY <1>2 DEF Check
  <2>2. entry.step = "checked" /\ entry.name = n /\ entry.version = v
    OBVIOUS
  <2> HIDE DEF entry
  <2>3. entering'[i] = entry /\ \A j \in Ingesters : j # i => entering'[j] = entering[j]
    BY <1>0, <2>1 DEF LibTypeOK
  <2>4. \A m \in Foreign : Entering(m)' = IF m = n THEN Entering(m) \cup {i} ELSE Entering(m)
    BY <2>1, <2>2, <2>3 DEF Entering
  <2>5. \A m \in Foreign : m \notin exposed' => m \notin exposed /\ (m = n => Entering(n) = {})
    BY <2>1
  <2>6. \A j \in Ingesters : entering'[j].step = "checked" => entering'[j].version \in Versions
    BY <1>0, <2>2, <2>3 DEF AgeInv
  <2>7. ASSUME NEW m \in Foreign \ exposed'
        PROVE  /\ \A j, k \in Entering(m)' : j = k
               /\ \A j \in Entering(m)' : NewerRow(m, entering[j].version)'
    <3>1. CASE m = n
      <4>1. Entering(m)' = {i} /\ entering'[i].version = v
        BY <2>2, <2>3, <2>4, <2>5, <3>1
      <4> QED
        BY <2>1, <3>1, <4>1 DEF NewerRow, Here
    <3>2. CASE m # n
      <4>1. /\ m \notin exposed /\ Entering(m)' = Entering(m)
            /\ \A j \in Entering(m) : entering'[j] = entering[j]
        BY <2>1, <2>3, <2>4, <2>5, <3>2 DEF Entering
      <4> QED
        BY <1>0, <2>1, <4>1 DEF AgeInv, NewerRow, Here
    <3> QED
      BY <3>1, <3>2
  <2>8. NeverOlder'
    BY <1>0, <2>1, <2>5 DEF AgeInv, NeverOlder, Here, Desktop
  <2> QED
    BY <2>6, <2>7, <2>8 DEF AgeInv
<1>3. ASSUME NEW n \in Foreign, NEW hold \in BOOLEAN, Hold(n, hold) PROVE AgeInv'
  <2> DEFINE row == [rowOf[n] EXCEPT !.held = hold]
  <2>1. Here(n) /\ rowOf' = [rowOf EXCEPT ![n] = row]
    BY <1>3 DEF Hold
  <2>2. row \in RowShape /\ row.seq = rowOf[n].seq
    BY <1>0, <2>1 DEF RowShape
  <2> HIDE DEF row
  <2>3. \A m \in Foreign : Here(m)' = Here(m) /\ (Here(m) => rowOf'[m].seq = rowOf[m].seq)
    BY <1>0, <2>1, <2>2 DEF LibTypeOK, Here
  <2>4. UNCHANGED <<client, entering, exposed, highest>>
    BY <1>3 DEF Hold
  <2> QED
    BY <2>3, <2>4, AgeRests
<1>4. ASSUME NEW n \in Foreign, Expire(n) PROVE AgeInv'
  <2> DEFINE row == [rowOf[n] EXCEPT !.dead = TRUE]
  <2>1. Here(n) /\ rowOf' = [rowOf EXCEPT ![n] = row]
    BY <1>4 DEF Expire
  <2>2. row \in RowShape /\ row.seq = rowOf[n].seq
    BY <1>0, <2>1 DEF RowShape
  <2> HIDE DEF row
  <2>3. \A m \in Foreign : Here(m)' = Here(m) /\ (Here(m) => rowOf'[m].seq = rowOf[m].seq)
    BY <1>0, <2>1, <2>2 DEF LibTypeOK, Here
  <2>4. UNCHANGED <<client, entering, exposed, highest>>
    BY <1>4 DEF Expire
  <2> QED
    BY <2>3, <2>4, AgeRests
<1>5. ASSUME NEW n \in Foreign, EnforceBudget(n) \/ DeleteSeen(n) PROVE AgeInv'
  <2>1. /\ UNCHANGED <<client, entering, exposed>>
        /\ rowOf' = [rowOf EXCEPT ![n] = NoRow] /\ highest' = [highest EXCEPT ![n] = 0]
    BY <1>5 DEF EnforceBudget, DeleteSeen
  <2> QED
    BY <2>1, AgeDeletes
<1>6. ASSUME \/ \E n \in Foreign \cup {NoName} : PinPlaying(n)
             \/ ScanSeen \/ CreateLiked \/ \E ok \in BOOLEAN : FlagLiked(ok)
             \/ \E s \in Togglers : LikeWrite(s) \/ \E t \in Tracks : LikeRead(s, t)
             \/ UNCHANGED libVars
      PROVE  AgeInv'
  <2>1. UNCHANGED <<client, entering, exposed, highest, rowOf>>
    BY <1>6 DEF PinPlaying, ScanSeen, CreateLiked, FlagLiked, LikeWrite, LikeRead, libVars, rowVars
  <2>2. \A m \in Foreign : Here(m)' = Here(m) /\ (Here(m) => rowOf'[m].seq = rowOf[m].seq)
    BY <2>1 DEF Here
  <2> QED
    BY <2>1, <2>2, AgeRests
<1> QED
  BY <1>1, <1>2, <1>3, <1>4, <1>5, <1>6 DEF LibNext

LEMMA LikeKept == LibInv /\ [LibNext]_libVars => LikeInv'
<1> SUFFICES ASSUME LibInv, [LibNext]_libVars PROVE LikeInv'
  OBVIOUS
<1>0. LibTypeOK /\ LikeInv
  BY DEF LibInv
<1>1. ASSUME NEW s \in Togglers, NEW t \in Tracks, LikeRead(s, t) PROVE LikeInv'
  <2>1. /\ toggling[s].step = "idle" /\ UNCHANGED <<likedRows, liked>>
        /\ toggling' = [r \in Togglers |->
             IF r = s THEN [step |-> "read", track |-> t, read |-> liked, alone |-> Toggling = {}]
             ELSE [toggling[r] EXCEPT !.alone = FALSE]]
        /\ lastLikes' = Toggled(lastLikes, t)
    BY <1>1 DEF LikeRead
  <2>2. /\ toggling'[s].step = "read" /\ toggling'[s].track = t /\ toggling'[s].read = liked
        /\ toggling'[s].alone = (Toggling = {})
    BY <2>1
  <2>3. \A r \in Togglers : r # s => toggling'[r].step = toggling[r].step /\ ~toggling'[r].alone
    BY <1>0, <2>1 DEF LibTypeOK
  <2>4. Toggling' = Toggling \cup {s}
    BY <2>2, <2>3 DEF Toggling
  <2>5. Toggling = {} => lastLikes' = Toggled(liked, t)
    BY <1>0, <2>1 DEF LikeInv, LikesAddUp
  <2>6. \A r \in Toggling' : toggling'[r].alone => r = s /\ Toggling = {}
    BY <2>2, <2>3 DEF Toggling
  <2>7. \A r \in Toggling' : toggling'[r].alone =>
          /\ Toggling' = {r} /\ toggling'[r].read = liked'
          /\ lastLikes' = Toggled(liked', toggling'[r].track)
    BY <2>1, <2>2, <2>4, <2>5, <2>6
  <2>8. Toggled(liked, toggling[s].track)' = Toggled(liked', toggling'[s].track)
    BY DEF Toggled
  <2>9. \A r \in Togglers : Toggled(liked, toggling[r].track)' = Toggled(liked', toggling'[r].track)
    BY DEF Toggled
  <2>10. LikesAddUp'
    BY <1>0, <2>1, <2>4 DEF LikeInv, LikesAddUp
  <2>11. likedRows'.making => likedRows'.whole = 0
    BY <1>0, <2>1 DEF LikeInv
  <2> QED
    BY <2>7, <2>9, <2>10, <2>11 DEF LikeInv, Toggling
<1>2. ASSUME NEW s \in Togglers, LikeWrite(s) PROVE LikeInv'
  <2>1. /\ toggling[s].step = "read" /\ liked' = LikeWritten(s) /\ likedRows' = likedRows
        /\ lastLikes' = IF toggling[s].alone THEN lastLikes ELSE liked'
        /\ toggling' = [toggling EXCEPT ![s] = NoToggle]
    BY <1>2 DEF LikeWrite
  <2>2. NoToggle.step = "idle" /\ s \in Toggling
    BY <2>1 DEF NoToggle, Toggling
  <2>3. toggling'[s].step = "idle" /\ \A r \in Togglers : r # s => toggling'[r] = toggling[r]
    BY <1>0, <2>1, <2>2 DEF LibTypeOK
  <2>4. Toggling' = Toggling \ {s}
    BY <2>3 DEF Toggling
  <2>5. toggling[s].alone => liked' = lastLikes
    BY <1>0, <2>1, <2>2 DEF LikeInv, LikeWritten
  <2>6. lastLikes' = liked'
    BY <2>1, <2>5
  <2>7. \A r \in Toggling' : ~toggling'[r].alone
    BY <1>0, <2>2, <2>3, <2>4 DEF LikeInv, Toggling
  <2>8. LikesAddUp'
    BY <1>0, <2>1, <2>6 DEF LikeInv, LikesAddUp
  <2> QED
    BY <1>0, <2>1, <2>7, <2>8 DEF LikeInv
<1>3. CASE CreateLiked
  <2>1. /\ likedRows.whole = 0 /\ likedRows' = [likedRows EXCEPT !.making = TRUE]
        /\ UNCHANGED <<liked, toggling, lastLikes>>
    BY <1>3 DEF CreateLiked
  <2>2. likedRows'.whole = 0
    BY <1>0, <2>1 DEF LibTypeOK
  <2> QED
    BY <1>0, <2>1, <2>2 DEF LikeInv, LikesAddUp, Toggling, Toggled
<1>4. ASSUME NEW ok \in BOOLEAN, FlagLiked(ok) PROVE LikeInv'
  <2>1. /\ likedRows.making /\ UNCHANGED <<liked, toggling, lastLikes>>
        /\ likedRows' = IF ok THEN [likedRows EXCEPT !.making = FALSE, !.whole = @ + 1]
                        ELSE [likedRows EXCEPT !.making = FALSE, !.bare = @ + 1]
    BY <1>4 DEF FlagLiked
  <2>2. likedRows.whole = 0
    BY <1>0, <2>1 DEF LikeInv
  <2>3. ~likedRows'.making /\ likedRows'.whole \in {0, 1}
    BY <1>0, <2>1, <2>2 DEF LibTypeOK
  <2> QED
    BY <1>0, <2>1, <2>3 DEF LikeInv, LikesAddUp, Toggling, Toggled
<1>5. ASSUME \/ \E i \in Ingesters : Store(i) \/ \E n \in Foreign, v \in Versions : Check(i, n, v)
             \/ \E n \in Foreign : \/ \E hold \in BOOLEAN : Hold(n, hold)
                                   \/ Expire(n) \/ EnforceBudget(n) \/ DeleteSeen(n)
             \/ \E n \in Foreign \cup {NoName} : PinPlaying(n)
             \/ ScanSeen \/ UNCHANGED libVars
      PROVE  LikeInv'
  <2>1. UNCHANGED likeVars
    BY <1>5 DEF Store, Check, Hold, Expire, EnforceBudget, DeleteSeen, PinPlaying, ScanSeen, libVars,
                likeVars
  <2> QED
    BY <1>0, <2>1 DEF likeVars, LikeInv, LikesAddUp, Toggling, Toggled
<1> QED
  BY <1>1, <1>2, <1>3, <1>4, <1>5 DEF LibNext

(* The rows of others' playlists: their types and the steps in between.    *)
THEOREM LibraryInvariant == LibSpec => []LibInv
<1>1. LibInv /\ [LibNext]_libVars => LibInv'
  BY LibTypeKept, HeldKept, AgeKept, LikeKept DEF LibInv
<1> QED
  BY <1>1, LibInitHolds, PTL DEF LibSpec

(* What the user holds stays with its document, a row never goes back to an*)
(* older record, and there is one liked playlist that holds what the       *)
(* toggles add up to: through tombstones, the budget, decay and the ingests*)
(* that cross them (playlists.rs, playlists-web).                          *)
THEOREM LibraryRowsKept == LibSpec => []RowsKept
<1>1. LibInv => RowsKept
  BY DEF LibInv, HeldInv, AgeInv, LikeInv, RowsKept
<1> QED
  BY <1>1, LibraryInvariant, PTL

-----------------------------------------------------------------------------
(* WebPull: what the browser makes of its peers.  A pull runs over several *)
(* requests while the peer edits its lists and other pulls and gossip come *)
(* in between; the count of origins is a bounded table of last beacons.    *)

PullRecord == [at : {"idle", "list", "compare", "ask", "serve"}, peer : Friends,
               told : [Lists -> Nat], want : SUBSET Lists, rows : [Lists -> Nat]]

(* The part of the types that the proof needs.                             *)
PullShapes ==
  /\ shares \in [Friends -> [Lists -> Nat]] /\ offered \in [Friends -> SUBSET Lists]
  /\ mine \in [Lists -> Nat] /\ air \subseteq Lists \X Nat
  /\ pull \in [Pulls -> PullRecord]

(* A version of n that is here, or on its way.                             *)
Covered(n, v) == mine[n] >= v \/ \E m \in air : m[1] = n /\ m[2] >= v

(* What a peer told and is not here, nor excused, is still among the names *)
(* that are wanted, and the peer has that version to give.                 *)
PullOnTrack(p) ==
  LET heard == pull[p].told IN
  /\ pull[p].at \in {"compare", "ask"} =>
       \A n \in Lists : heard[n] <= shares[pull[p].peer][n]
  /\ pull[p].at \in {"idle", "ask", "serve"} =>
       \A n \in Lists \ excused :
         \/ Covered(n, heard[n])
         \/ pull[p].at = "ask" /\ n \in pull[p].want
         \/ pull[p].at = "serve" /\ n \in pull[p].want /\ pull[p].rows[n] >= heard[n]

PullInv == PullShapes /\ \A p \in Pulls : PullOnTrack(p)

(* An origin is counted from its last beacon that did not come too soon.   *)
LedgerShapes ==
  /\ now \in Nat /\ heardAt \in [Friends -> 0..now]
  /\ origins \subseteq [who : Friends, at : 1..now] /\ IsFiniteSet(origins)
  /\ now > 0

(* One that is not counted was pushed out by as many that came after it, or*)
(* has been silent for a window, less the gap.                             *)
CountedOrNot(f) ==
  \/ heardAt[f] = 0
  \/ \E e \in origins : e.who = f
  \/ Cardinality(Since(f)) >= Seats
  \/ now + Gap > heardAt[f] + Span

LedgerInv ==
  /\ LedgerShapes
  /\ \A d, e \in origins : d.who = e.who => d = e
  /\ \A e \in origins : e.at <= heardAt[e.who] /\ heardAt[e.who] < e.at + Gap
  /\ \A f \in Friends : CountedOrNot(f)

LEMMA NoPullIs == NoPull \in PullRecord /\ NoPull.at = "idle" /\ \A n \in Lists : NoPull.told[n] = 0
BY WebPullAssumption DEF NoPull, PullRecord, Nothing

LEMMA PullInitHolds == PullInit => PullInv /\ LedgerInv
<1> SUFFICES ASSUME PullInit PROVE PullInv /\ LedgerInv
  OBVIOUS
<1>1. Span \in Nat \ {0}
  BY WebPullAssumption
<1>2. PullShapes
  BY NoPullIs DEF PullInit, PullShapes, Nothing
<1>3. ASSUME NEW p \in Pulls PROVE PullOnTrack(p)
  <2>1. pull[p].at = "idle" /\ \A n \in Lists : pull[p].told[n] = 0 /\ mine[n] = 0
    BY NoPullIs DEF PullInit, Nothing
  <2> QED
    BY <2>1 DEF PullOnTrack, Covered
<1>4. LedgerInv
  BY <1>1, FS_EmptySet DEF PullInit, LedgerInv, LedgerShapes, CountedOrNot
<1> QED
  BY <1>2, <1>3, <1>4 DEF PullInv

(* A version that is here or coming stays so while nothing is lost.        *)
LEMMA CoveredStays ==
  ASSUME PullShapes, PullShapes', air \subseteq air', \A n \in Lists : mine[n] <= mine'[n],
         NEW n \in Lists, NEW v \in Nat, Covered(n, v)
  PROVE  Covered(n, v)'
<1>1. mine[n] \in Nat /\ mine'[n] \in Nat
  BY DEF PullShapes
<1> QED
  BY <1>1 DEF Covered

(* What a step leaves as it is, of a pull, stays on track.                 *)
LEMMA OthersOnTrack ==
  ASSUME PullInv, PullShapes', NEW p \in Pulls, pull'[p] = pull[p], excused \subseteq excused',
         \A f \in Friends, n \in Lists : shares[f][n] <= shares'[f][n],
         \A n \in Lists \ excused', v \in Nat : Covered(n, v) => Covered(n, v)'
  PROVE  PullOnTrack(p)'
<1> DEFINE q == pull[p]
<1>1. /\ q \in PullRecord /\ PullOnTrack(p)
      /\ \A f \in Friends, n \in Lists : shares[f][n] \in Nat /\ shares'[f][n] \in Nat
  BY DEF PullInv, PullShapes
<1>2. q.peer \in Friends /\ \A n \in Lists : q.told[n] \in Nat
  BY <1>1 DEF PullRecord
<1>3. q.at \in {"compare", "ask"} => \A n \in Lists : q.told[n] <= shares'[q.peer][n]
  BY <1>1, <1>2 DEF PullOnTrack
<1>4. q.at \in {"idle", "ask", "serve"} =>
        \A n \in Lists \ excused' :
          \/ Covered(n, q.told[n])'
          \/ q.at = "ask" /\ n \in q.want
          \/ q.at = "serve" /\ n \in q.want /\ q.rows[n] >= q.told[n]
  <2> SUFFICES ASSUME q.at \in {"idle", "ask", "serve"}, NEW n \in Lists \ excused',
                      Covered(n, q.told[n])
               PROVE  Covered(n, q.told[n])'
    BY <1>1 DEF PullOnTrack
  <2>1. Covered(n, q.told[n])' = (mine'[n] >= q.told[n] \/ \E m \in air' : m[1] = n /\ m[2] >= q.told[n])
    BY DEF Covered
  <2>2. \A v \in Nat : Covered(n, v) => (mine'[n] >= v \/ \E m \in air' : m[1] = n /\ m[2] >= v)
    BY DEF Covered
  <2> QED
    BY <1>2, <2>1, <2>2
<1> QED
  BY <1>3, <1>4 DEF PullOnTrack, Covered

(* A step of one pull: it keeps the invariant if its own pull stays on     *)
(* track.                                                                  *)
LEMMA OnePullSteps ==
  ASSUME PullInv, NEW p \in Pulls, NEW new \in PullRecord, pull' = [pull EXCEPT ![p] = new],
         UNCHANGED <<shares, offered, mine>>, air \subseteq air', air' \subseteq Lists \X Nat,
         excused \subseteq excused',
         new.at \in {"compare", "ask"} =>
           \A n \in Lists : new.told[n] <= shares[new.peer][n],
         new.at \in {"idle", "ask", "serve"} =>
           \A n \in Lists \ excused' :
             \/ Covered(n, new.told[n])'
             \/ new.at = "ask" /\ n \in new.want
             \/ new.at = "serve" /\ n \in new.want /\ new.rows[n] >= new.told[n]
  PROVE  PullInv'
<1>1. PullShapes /\ PullShapes'
  BY DEF PullInv, PullShapes
<1>2. \A n \in Lists, v \in Nat : Covered(n, v) => Covered(n, v)'
  BY <1>1, CoveredStays DEF PullShapes
<1>3. pull'[p] = new /\ \A q \in Pulls : q # p => pull'[q] = pull[q]
  BY <1>1 DEF PullShapes
<1>4. \A f \in Friends, n \in Lists : shares[f][n] <= shares'[f][n]
  BY <1>1 DEF PullShapes
<1>5. PullOnTrack(p)'
  BY <1>3 DEF PullOnTrack, Covered
<1>6. \A q \in Pulls : q # p => PullOnTrack(q)'
  BY <1>1, <1>2, <1>3, <1>4, OthersOnTrack
<1> QED
  BY <1>1, <1>5, <1>6 DEF PullInv

LEMMA PullTracks == PullInv /\ [PullNext]_pullVars => PullInv'
<1> SUFFICES ASSUME PullInv, [PullNext]_pullVars PROVE PullInv'
  OBVIOUS
<1>1. PullShapes /\ \A p \in Pulls : pull[p] \in PullRecord /\ PullOnTrack(p)
  BY DEF PullInv, PullShapes
<1>2. \A p \in Pulls : /\ pull[p].peer \in Friends /\ pull[p].want \subseteq Lists
                       /\ \A n \in Lists : pull[p].told[n] \in Nat /\ pull[p].rows[n] \in Nat
  BY <1>1 DEF PullRecord
<1>3. ASSUME NEW p \in Pulls, NEW f \in Friends, Identified(p, f) PROVE PullInv'
  <2>1. PICK new \in PullRecord : new = [NoPull EXCEPT !.at = "list", !.peer = f]
    BY NoPullIs DEF PullRecord
  <2>2. new.at = "list"
    BY <2>1, NoPullIs DEF PullRecord
  <2>3. /\ pull' = [pull EXCEPT ![p] = new]
        /\ UNCHANGED <<shares, offered, mine, air, excused>>
    BY <1>3, <2>1 DEF Identified
  <2> QED
    BY <1>1, <2>2, <2>3, OnePullSteps DEF PullShapes
<1>4. ASSUME NEW p \in Pulls, Listed(p) PROVE PullInv'
  <2>1. PICK T \in Sliced(offered[pull[p].peer], MaxEntries) :
          pull' = [pull EXCEPT ![p].at = IF T = {} THEN "idle" ELSE "compare",
                               ![p].told = [n \in Lists |-> IF n \in T THEN shares[pull[p].peer][n]
                                                            ELSE 0]]
    BY <1>4 DEF Listed
  <2>2. PICK heard \in [Lists -> Nat] :
          heard = [n \in Lists |-> IF n \in T THEN shares[pull[p].peer][n] ELSE 0]
    BY <1>1, <1>2 DEF PullShapes
  <2>3. PICK old \in PullRecord : old = pull[p]
    BY <1>1
  <2>4. PICK new \in PullRecord :
          new = [old EXCEPT !.at = IF T = {} THEN "idle" ELSE "compare", !.told = heard]
    BY DEF PullRecord
  <2>5. /\ new.told = heard /\ new.peer = old.peer
        /\ new.at = IF T = {} THEN "idle" ELSE "compare"
    BY <2>4 DEF PullRecord
  <2>6. pull' = [pull EXCEPT ![p] = new]
    BY <1>1, <2>1, <2>2, <2>3, <2>4 DEF PullShapes
  <2>7. \A n \in Lists : heard[n] <= shares[old.peer][n] /\ (T = {} => heard[n] = 0)
    BY <1>1, <1>2, <2>2, <2>3 DEF PullShapes
  <2>8. UNCHANGED <<shares, offered, mine, air, excused>> /\ air' \subseteq Lists \X Nat
    BY <1>1, <1>4 DEF Listed, PullShapes
  <2>9. new.at \in {"idle", "ask", "serve"} => \A n \in Lists : Covered(n, new.told[n])'
    BY <1>1, <2>5, <2>7, <2>8 DEF Covered, PullShapes
  <2> QED
    BY <2>5, <2>6, <2>7, <2>8, <2>9, OnePullSteps
<1>5. ASSUME NEW p \in Pulls, Compared(p) PROVE PullInv'
  <2>1. PICK W \in Sliced(Lacking(pull[p].told), WantMax) :
          /\ pull' = [pull EXCEPT ![p].at = IF W = {} THEN "idle" ELSE "ask", ![p].want = W]
          /\ excused' = excused \cup (Lacking(pull[p].told) \ W)
    BY <1>5 DEF Compared
  <2>2. PICK old \in PullRecord : old = pull[p]
    BY <1>1
  <2>3. PICK lack \in SUBSET Lists : lack = Lacking(old.told)
    BY DEF Lacking
  <2>4. W \subseteq lack
    BY <2>1, <2>2, <2>3 DEF Sliced, kSubset
  <2>5. PICK new \in PullRecord : new = [old EXCEPT !.at = IF W = {} THEN "idle" ELSE "ask", !.want = W]
    BY <2>4 DEF PullRecord
  <2>6. /\ new.told = old.told /\ new.peer = old.peer /\ new.want = W
        /\ new.at = IF W = {} THEN "idle" ELSE "ask"
    BY <2>5 DEF PullRecord
  <2>7. pull' = [pull EXCEPT ![p] = new]
    BY <1>1, <2>1, <2>2, <2>5 DEF PullShapes
  <2>8. \A n \in Lists \ lack : mine[n] >= old.told[n]
    BY <1>1, <1>2, <2>2, <2>3 DEF Lacking, PullShapes
  <2>9. \A n \in Lists : old.told[n] <= shares[old.peer][n]
    BY <1>1, <1>5, <2>2 DEF PullOnTrack, Compared
  <2>10. UNCHANGED <<shares, offered, mine, air>> /\ air' \subseteq Lists \X Nat
    BY <1>1, <1>5 DEF Compared, PullShapes
  <2>11. \A n \in Lists \ excused' : Covered(n, new.told[n])' \/ (new.at = "ask" /\ n \in new.want)
    <3> SUFFICES ASSUME NEW n \in Lists \ excused', n \notin W
                 PROVE  Covered(n, new.told[n])'
      BY <2>6
    <3>1. n \notin lack
      BY <2>1, <2>2, <2>3
    <3> QED
      BY <2>6, <2>8, <2>10, <3>1 DEF Covered
  <2>12. excused \subseteq excused'
    BY <2>1
  <2> QED
    BY <2>6, <2>7, <2>9, <2>10, <2>11, <2>12, OnePullSteps
<1>6. ASSUME NEW p \in Pulls, WantsServed(p) PROVE PullInv'
  <2>1. PICK old \in PullRecord : old = pull[p]
    BY <1>1
  <2>2. PICK f \in Friends : f = old.peer
    BY <1>2, <2>1
  <2>3. PICK answer \in [Lists -> Nat] : answer = Rows(f)
    BY <1>1 DEF Rows, PullShapes
  <2>4. PICK new \in PullRecord : new = [old EXCEPT !.at = "serve", !.rows = answer]
    BY DEF PullRecord
  <2>5. /\ new.told = old.told /\ new.peer = f /\ new.at = "serve"
        /\ new.want = old.want /\ new.rows = answer
    BY <2>2, <2>4 DEF PullRecord
  <2>6. /\ old.at = "ask" /\ excused' = excused \cup (old.want \ offered[f])
        /\ UNCHANGED <<shares, offered, mine, air>>
    BY <1>6, <2>1, <2>2 DEF WantsServed
  <2>7. pull' = [pull EXCEPT ![p] = new]
    BY <1>1, <1>6, <2>1, <2>2, <2>3, <2>4 DEF PullShapes, WantsServed
  <2>8. \A n \in Lists \ excused : Covered(n, old.told[n]) \/ n \in old.want
    BY <1>1, <2>1, <2>6 DEF PullOnTrack
  <2>9. \A n \in offered[f] \cap Lists : answer[n] >= old.told[n]
    <3>1. \A n \in Lists : /\ old.told[n] <= shares[f][n]
                           /\ old.told[n] \in Nat /\ shares[f][n] \in Nat
      BY <1>1, <1>2, <2>1, <2>2, <2>6 DEF PullOnTrack, PullShapes
    <3> QED
      BY <2>3, <3>1 DEF Rows
  <2>10. \A n \in Lists \ excused' :
           Covered(n, new.told[n])' \/ (n \in new.want /\ new.rows[n] >= new.told[n])
    <3> SUFFICES ASSUME NEW n \in Lists \ excused'
                 PROVE  Covered(n, old.told[n])' \/ (n \in old.want /\ answer[n] >= old.told[n])
      BY <2>5
    <3>1. CASE Covered(n, old.told[n])
      BY <2>6, <3>1 DEF Covered
    <3>2. CASE n \in old.want
      BY <2>6, <2>9, <3>2
    <3> QED
      BY <2>6, <2>8, <3>1, <3>2
  <2>11. air' \subseteq Lists \X Nat /\ excused \subseteq excused'
    BY <1>1, <2>6 DEF PullShapes
  <2> QED
    BY <2>5, <2>6, <2>7, <2>10, <2>11, OnePullSteps
<1>7. ASSUME NEW p \in Pulls, NEW n \in Lists, Regossiped(p, n) PROVE PullInv'
  <2>1. PICK old \in PullRecord : old = pull[p]
    BY <1>1
  <2>2. PICK v \in Nat : v = old.rows[n]
    BY <1>2, <2>1
  <2>3. PICK new \in PullRecord : new = [old EXCEPT !.want = old.want \ {n}]
    BY DEF PullRecord
  <2>4. /\ new.told = old.told /\ new.at = old.at /\ new.want = old.want \ {n}
        /\ new.rows = old.rows
    BY <2>3 DEF PullRecord
  <2>5. /\ old.at = "serve" /\ n \in old.want /\ UNCHANGED <<shares, offered, mine>>
        /\ \/ air' = air \cup {<<n, v>>} /\ excused' = excused
           \/ air' = air /\ excused' = excused \cup {n}
    BY <1>7, <2>1, <2>2 DEF Regossiped
  <2>6. pull' = [pull EXCEPT ![p] = new]
    BY <1>1, <1>7, <2>1, <2>3 DEF PullShapes, Regossiped
  <2>7. \A m \in Lists \ excused :
          Covered(m, old.told[m]) \/ (m \in old.want /\ old.rows[m] >= old.told[m])
    BY <1>1, <2>1, <2>5 DEF PullOnTrack
  <2>8. air \subseteq air' /\ air' \subseteq Lists \X Nat /\ excused \subseteq excused'
    BY <1>1, <2>5 DEF PullShapes
  <2>9. ASSUME NEW m \in Lists \ excused'
        PROVE  \/ Covered(m, old.told[m])'
               \/ m \in old.want \ {n} /\ old.rows[m] >= old.told[m]
    <3>1. CASE Covered(m, old.told[m])
      BY <2>5, <2>8, <3>1 DEF Covered
    <3>2. CASE ~Covered(m, old.told[m]) /\ m # n
      BY <2>7, <2>8, <3>2
    <3>3. CASE ~Covered(m, old.told[m]) /\ m = n
      <4>1. <<n, v>> \in air' /\ v >= old.told[m]
        BY <2>2, <2>5, <2>7, <2>8, <3>3
      <4> QED
        BY <4>1, <3>3 DEF Covered
    <3> QED
      BY <3>1, <3>2, <3>3
  <2> QED
    BY <2>4, <2>5, <2>6, <2>8, <2>9, OnePullSteps
<1>8. ASSUME NEW p \in Pulls, Answered(p) PROVE PullInv'
  <2>1. PICK old \in PullRecord : old = pull[p]
    BY <1>1
  <2>2. PICK new \in PullRecord : new = [old EXCEPT !.at = "idle"]
    BY DEF PullRecord
  <2>3. new.told = old.told /\ new.at = "idle"
    BY <2>2 DEF PullRecord
  <2>4. /\ old.at = "serve" /\ old.want = {} /\ UNCHANGED <<shares, offered, mine, air, excused>>
        /\ pull' = [pull EXCEPT ![p] = new]
    BY <1>1, <1>8, <2>1, <2>2 DEF PullShapes, Answered
  <2>5. \A n \in Lists \ excused' : Covered(n, new.told[n])'
    BY <1>1, <2>1, <2>3, <2>4 DEF PullOnTrack, Covered
  <2>6. air' \subseteq Lists \X Nat
    BY <1>1, <2>4 DEF PullShapes
  <2> QED
    BY <2>3, <2>4, <2>5, <2>6, OnePullSteps
<1>9. ASSUME NEW p \in Pulls, PullFails(p) PROVE PullInv'
  <2>1. PICK new \in PullRecord : new = NoPull
    BY NoPullIs
  <2>2. /\ UNCHANGED <<shares, offered, mine, air, excused>> /\ pull' = [pull EXCEPT ![p] = new]
        /\ air' \subseteq Lists \X Nat
    BY <1>1, <1>9, <2>1 DEF PullShapes, PullFails
  <2>3. new.at = "idle" /\ \A n \in Lists : Covered(n, new.told[n])'
    BY <1>1, <2>1, <2>2, NoPullIs DEF PullShapes, Covered
  <2> QED
    BY <2>2, <2>3, OnePullSteps
<1>10. ASSUME NEW m \in air, NEW lost \in BOOLEAN, Lands(m, lost) PROVE PullInv'
  <2>1. m \in Lists \X Nat
    BY <1>1 DEF PullShapes
  <2>2. PICK n \in Lists, v \in Nat : m = <<n, v>>
    BY <2>1
  <2>3. /\ air' = air \ {m} /\ UNCHANGED <<shares, offered, pull>>
        /\ \/ mine' = mine /\ excused' = excused \cup {n}
           \/ mine' = [mine EXCEPT ![n] = IF v > mine[n] THEN v ELSE mine[n]] /\ excused' = excused
    BY <1>10, <2>2 DEF Lands
  <2>4. PullShapes' /\ \A k \in Lists : mine[k] \in Nat /\ mine'[k] \in Nat /\ mine'[k] >= mine[k]
    BY <1>1, <2>3 DEF PullShapes
  <2>5. n \notin excused' => mine'[n] >= v
    BY <1>1, <2>3 DEF PullShapes
  <2>6. ASSUME NEW k \in Lists \ excused', NEW w \in Nat, Covered(k, w) PROVE Covered(k, w)'
    <3>1. CASE mine[k] >= w
      BY <2>4, <3>1 DEF Covered
    <3>2. CASE \E e \in air : e[1] = k /\ e[2] >= w
      <4>1. PICK e \in air : e[1] = k /\ e[2] >= w
        BY <3>2
      <4>2. CASE e = m
        BY <2>2, <2>4, <2>5, <2>6, <4>1, <4>2 DEF Covered
      <4>3. CASE e # m
        BY <2>3, <4>1, <4>3 DEF Covered
      <4> QED
        BY <4>2, <4>3
    <3> QED
      BY <2>6, <3>1, <3>2 DEF Covered
  <2>7. /\ excused \subseteq excused' /\ \A q \in Pulls : pull'[q] = pull[q]
        /\ \A f \in Friends, k \in Lists : shares[f][k] <= shares'[f][k]
    BY <1>1, <2>3 DEF PullShapes
  <2> QED
    BY <2>4, <2>6, <2>7, OthersOnTrack DEF PullInv
<1>11. ASSUME NEW f \in Friends, NEW n \in Lists, NEW keep \in BOOLEAN, PeerEdits(f, n, keep)
       PROVE  PullInv'
  <2>1. /\ UNCHANGED <<mine, pull, air, excused>>
        /\ offered' = [offered EXCEPT ![f] = IF keep THEN @ \cup {n} ELSE @ \ {n}]
        /\ shares' = [shares EXCEPT ![f][n] = IF keep THEN @ + 1 ELSE @]
    BY <1>11 DEF PeerEdits
  <2>2. shares' \in [Friends -> [Lists -> Nat]] /\ offered' \in [Friends -> SUBSET Lists]
    BY <1>1, <2>1 DEF PullShapes
  <2>3. \A g \in Friends, k \in Lists : shares[g][k] <= shares'[g][k]
    BY <1>1, <2>1 DEF PullShapes
  <2>4. PullShapes' /\ \A k \in Lists, w \in Nat : Covered(k, w) => Covered(k, w)'
    BY <1>1, <2>1, <2>2 DEF PullShapes, Covered
  <2> QED
    BY <2>1, <2>3, <2>4, OthersOnTrack DEF PullInv
<1>12. ASSUME UNCHANGED <<shares, offered, mine, pull, air, excused>> PROVE PullInv'
  <2>1. PullShapes' /\ \A k \in Lists, w \in Nat : Covered(k, w) => Covered(k, w)'
    BY <1>1, <1>12 DEF PullShapes, Covered
  <2>2. \A g \in Friends, k \in Lists : shares[g][k] <= shares'[g][k]
    BY <1>1, <1>12 DEF PullShapes
  <2> QED
    BY <1>12, <2>1, <2>2, OthersOnTrack DEF PullInv
<1>13. ASSUME (\E f \in Friends : Beacon(f)) \/ WindowOver \/ Counted \/ Tock \/ UNCHANGED pullVars
       PROVE  PullInv'
  <2>1. UNCHANGED <<shares, offered, mine, pull, air, excused>>
    BY <1>13 DEF Beacon, WindowOver, Counted, Tock, pullVars, peerVars
  <2> QED
    BY <2>1, <1>12
<1> QED
  BY <1>3, <1>4, <1>5, <1>6, <1>7, <1>8, <1>9, <1>10, <1>11, <1>13 DEF PullNext

(* As many entries as there are others counted means as many origins.      *)
LEMMA AsManyOrigins ==
  ASSUME NEW S, NEW F, IsFiniteSet(F), \A d, e \in S : d.who = e.who => d = e,
         \A e \in S : e.who \in F
  PROVE  IsFiniteSet(S) /\ Cardinality(S) <= Cardinality(F)
<1> DEFINE whose == [e \in S |-> e.who]
<1>1. whose \in Injection(S, F)
  BY DEF Injection, IsInjective
<1> QED
  BY <1>1, FS_Injection

LEMMA RecordedKeeps ==
  ASSUME LedgerInv, NEW f \in Friends, heardAt' = [heardAt EXCEPT ![f] = now], now' = now,
         ~TooSoon(f), origins' \in Recorded(f)
  PROVE  LedgerInv'
<1>0. /\ Span \in Nat \ {0} /\ Gap \in Nat \ {0} /\ Seats \in Nat \ {0} /\ IsFiniteSet(Friends)
      /\ now \in Nat /\ now > 0
  BY WebPullAssumption DEF LedgerInv, LedgerShapes
<1>1. PICK others : others = OtherOrigins(f)
  OBVIOUS
<1>2. PICK entry \in [who : Friends, at : 1..now] : entry.who = f /\ entry.at = now
  <2>1. [who |-> f, at |-> now] \in [who : Friends, at : 1..now]
    BY <1>0
  <2> QED
    BY <2>1
<1>3. entry = [who |-> f, at |-> now]
  BY <1>2
<1>4. /\ others \subseteq origins /\ IsFiniteSet(others) /\ Cardinality(others) \in Nat
      /\ \A e \in origins : e \in others <=> e.who # f
  <2>1. others \subseteq origins /\ \A e \in origins : e \in others <=> e.who # f
    BY <1>1 DEF OtherOrigins
  <2> QED
    BY <2>1, FS_Subset, FS_CardinalityType DEF LedgerInv, LedgerShapes
<1>5. PICK kept \in SUBSET others :
        /\ origins' = kept \cup {entry}
        /\ \/ kept = others
           \/ \E e \in Oldest(others) : kept = others \ {e} /\ Cardinality(others) >= Seats
  <2>1. origins' \in (IF Cardinality(others) < Seats THEN {others \cup {entry}}
                     ELSE {(others \ {e}) \cup {entry} : e \in Oldest(others)})
    BY <1>1, <1>3 DEF Recorded
  <2>2. CASE Cardinality(others) < Seats
    BY <2>1, <2>2
  <2>3. CASE ~(Cardinality(others) < Seats)
    <3>1. PICK e \in Oldest(others) : origins' = (others \ {e}) \cup {entry}
      BY <2>1, <2>3
    <3>2. others \ {e} \in SUBSET others /\ Cardinality(others) >= Seats
      BY <1>0, <1>4, <2>3
    <3> QED
      BY <3>1, <3>2
  <2> QED
    BY <2>2, <2>3
<1>6. \A e \in kept : e \in origins /\ e.who \in Friends \ {f} /\ e.at \in 1..now
  BY <1>4, <1>5 DEF LedgerInv, LedgerShapes
<1>7. /\ heardAt'[f] = now /\ \A g \in Friends : g # f => heardAt'[g] = heardAt[g]
      /\ \A g \in Friends : heardAt[g] \in 0..now /\ heardAt'[g] \in 0..now
      /\ \A g \in Friends : heardAt[g] \in Nat /\ heardAt'[g] \in Nat /\ heardAt[g] <= heardAt'[g]
  BY <1>0 DEF LedgerInv, LedgerShapes
<1>8. LedgerShapes'
  <2>1. IsFiniteSet(kept \cup {entry})
    BY <1>4, <1>5, FS_Subset, FS_AddElement
  <2>2. origins' \subseteq [who : Friends, at : 1..now]
    BY <1>2, <1>4, <1>5 DEF LedgerInv, LedgerShapes
  <2>3. heardAt' \in [Friends -> 0..now]
    BY <1>0, <1>7 DEF LedgerInv, LedgerShapes
  <2> QED
    BY <1>0, <1>5, <2>1, <2>2, <2>3 DEF LedgerShapes
<1>9. \A d, e \in origins' : d.who = e.who => d = e
  BY <1>2, <1>5, <1>6 DEF LedgerInv
<1>10. \A e \in origins' : e.at <= heardAt'[e.who] /\ heardAt'[e.who] < e.at + Gap
  BY <1>0, <1>2, <1>5, <1>6, <1>7 DEF LedgerInv
<1>11. \A g \in Friends : Since(g) \subseteq Friends /\ Since(g)' \subseteq Friends
  BY DEF Since
<1>12. \A g \in Friends : g # f => Since(g) \subseteq Since(g)'
  BY <1>0, <1>7 DEF Since
<1>13. \A g \in Friends : g # f /\ Cardinality(Since(g)) >= Seats => Cardinality(Since(g)') >= Seats
  <2> SUFFICES ASSUME NEW g \in Friends, g # f, Cardinality(Since(g)) >= Seats
               PROVE  Cardinality(Since(g)') >= Seats
    OBVIOUS
  <2>1. IsFiniteSet(Since(g)') /\ IsFiniteSet(Since(g))
    BY <1>0, <1>11, FS_Subset
  <2>2. /\ Cardinality(Since(g)) <= Cardinality(Since(g)')
        /\ Cardinality(Since(g)) \in Nat /\ Cardinality(Since(g)') \in Nat
    BY <1>12, <2>1, FS_Subset, FS_CardinalityType
  <2> QED
    BY <1>0, <2>2
<1>14. ASSUME NEW e \in Oldest(others), kept = others \ {e}, Cardinality(others) >= Seats
       PROVE  Cardinality(Since(e.who)') >= Seats
  <2> DEFINE g == e.who
  <2>1. /\ e \in origins /\ g \in Friends \ {f} /\ e.at \in Nat /\ e \in others
        /\ \A d \in others : e.at <= d.at
    BY <1>4, <1>14 DEF Oldest, LedgerInv, LedgerShapes
  <2>2. ASSUME NEW d \in kept \cup {entry} PROVE d.who \in Since(g)'
    <3>1. CASE d \in kept
      <4>1. d \in origins /\ d \in others /\ d # e
        BY <1>4, <1>14, <3>1
      <4>2. d.who # g
        BY <2>1, <4>1 DEF LedgerInv
      <4>3. heardAt'[d.who] = heardAt[d.who] /\ d.at <= heardAt[d.who] /\ e.at <= d.at
        BY <1>6, <1>7, <2>1, <3>1, <4>1 DEF LedgerInv
      <4>4. heardAt'[g] < e.at + Gap
        BY <1>7, <2>1 DEF LedgerInv
      <4> QED
        BY <1>0, <1>6, <1>7, <2>1, <3>1, <4>2, <4>3, <4>4 DEF Since
    <3>2. CASE d = entry
      BY <1>0, <1>2, <1>7, <2>1, <3>2 DEF Since
    <3> QED
      BY <3>1, <3>2
  <2>3. IsFiniteSet(Since(g)')
    BY <1>0, <1>11, <2>1, FS_Subset
  <2>4. Cardinality(kept \cup {entry}) <= Cardinality(Since(g)')
    BY <1>5, <1>9, <2>2, <2>3, AsManyOrigins
  <2>5. Cardinality(kept \cup {entry}) = Cardinality(others)
    <3>1. IsFiniteSet(kept) /\ Cardinality(kept) = Cardinality(others) - 1
      BY <1>4, <1>14, <2>1, FS_RemoveElement
    <3>2. entry \notin kept
      BY <1>2, <1>6
    <3>3. Cardinality(kept \cup {entry}) = Cardinality(kept) + 1
      BY <3>1, <3>2, FS_AddElement
    <3> QED
      BY <1>4, <3>1, <3>3
  <2>6. Cardinality(Since(g)') \in Nat
    BY <2>3, FS_CardinalityType
  <2> QED
    BY <1>0, <1>4, <1>14, <2>4, <2>5, <2>6
<1>15. ASSUME NEW g \in Friends PROVE CountedOrNot(g)'
  <2>1. CASE g = f
    BY <1>2, <1>5, <2>1 DEF CountedOrNot
  <2>2. CASE g # f /\ \E e \in origins : e.who = g
    <3>1. PICK e \in others : e.who = g
      BY <1>4, <2>2
    <3>2. CASE e \in kept
      BY <1>5, <3>1, <3>2 DEF CountedOrNot
    <3>3. CASE e \notin kept
      <4>1. e \in Oldest(others) /\ kept = others \ {e} /\ Cardinality(others) >= Seats
        BY <1>5, <3>1, <3>3
      <4>2. Cardinality(Since(e.who)') >= Seats
        BY <1>14, <4>1
      <4>3. Cardinality(Since(g)') >= Seats
        BY <3>1, <4>2
      <4> QED
        BY <4>3 DEF CountedOrNot
    <3> QED
      BY <3>2, <3>3
  <2>3. CASE g # f /\ ~\E e \in origins : e.who = g
    <3>1. CountedOrNot(g) /\ heardAt'[g] = heardAt[g]
      BY <1>7, <2>3 DEF LedgerInv
    <3> QED
      BY <1>13, <2>3, <3>1 DEF CountedOrNot
  <2> QED
    BY <2>1, <2>2, <2>3
<1> QED
  BY <1>8, <1>9, <1>10, <1>15 DEF LedgerInv

(* Counting forgets only those silent for a window, less the gap.          *)
LEMMA CountedKeeps == LedgerInv /\ Counted => LedgerInv'
<1> SUFFICES ASSUME LedgerInv, Counted PROVE LedgerInv'
  OBVIOUS
<1>1. /\ Span \in Nat \ {0} /\ Gap \in Nat \ {0} /\ now \in Nat
      /\ UNCHANGED <<heardAt, now>> /\ origins' = {e \in origins : now - e.at < Span}
      /\ heardAt \in [Friends -> 0..now] /\ origins \subseteq [who : Friends, at : 1..now]
  BY WebPullAssumption DEF Counted, LedgerNow, LedgerInv, LedgerShapes
<1>2. LedgerShapes'
  BY <1>1, FS_Subset DEF LedgerInv, LedgerShapes
<1>3. ASSUME NEW f \in Friends PROVE CountedOrNot(f)'
  <2>1. CASE \E e \in origins : e.who = f /\ now - e.at >= Span
    <3>1. PICK e \in origins : e.who = f /\ now - e.at >= Span
      BY <2>1
    <3>2. e.at \in 1..now /\ heardAt[f] < e.at + Gap /\ heardAt[f] \in Nat
      BY <1>1, <3>1 DEF LedgerInv
    <3>3. now + Gap > heardAt[f] + Span
      BY <1>1, <3>1, <3>2
    <3> QED
      BY <1>1, <3>3 DEF CountedOrNot
  <2>2. CASE ~\E e \in origins : e.who = f /\ now - e.at >= Span
    <3>1. CountedOrNot(f)
      BY DEF LedgerInv
    <3>2. \A e \in origins : e.who = f => e \in origins'
      BY <1>1, <2>2
    <3> QED
      BY <1>1, <3>1, <3>2 DEF CountedOrNot, Since
  <2> QED
    BY <2>1, <2>2
<1> QED
  BY <1>1, <1>2, <1>3 DEF LedgerInv

(* A beacon that comes too soon leaves its origin counted as it was.       *)
LEMMA IgnoredKeeps ==
  ASSUME LedgerInv, NEW f \in Friends, heardAt' = [heardAt EXCEPT ![f] = now], now' = now,
         TooSoon(f), origins' = origins
  PROVE  LedgerInv'
<1>1. /\ Gap \in Nat \ {0} /\ Seats \in Nat \ {0} /\ Span \in Nat \ {0} /\ IsFiniteSet(Friends)
      /\ now \in Nat /\ heardAt \in [Friends -> 0..now]
      /\ origins \subseteq [who : Friends, at : 1..now]
  BY WebPullAssumption DEF LedgerInv, LedgerShapes
<1>2. LedgerShapes'
  BY <1>1 DEF LedgerInv, LedgerShapes
<1>3. PICK its \in origins : its.who = f /\ now - its.at < Gap
  BY DEF TooSoon
<1>4. \A e \in origins' : e.at <= heardAt'[e.who] /\ heardAt'[e.who] < e.at + Gap
  <2> SUFFICES ASSUME NEW e \in origins PROVE e.at <= heardAt'[e.who] /\ heardAt'[e.who] < e.at + Gap
    OBVIOUS
  <2>1. CASE e.who = f
    <3>1. e = its
      BY <1>3, <2>1 DEF LedgerInv
    <3> QED
      BY <1>1, <1>3, <2>1, <3>1
  <2>2. CASE e.who # f
    BY <1>1, <2>2 DEF LedgerInv
  <2> QED
    BY <2>1, <2>2
<1>5. ASSUME NEW g \in Friends, g # f PROVE CountedOrNot(g)'
  <2>1. CountedOrNot(g) /\ heardAt'[g] = heardAt[g]
    BY <1>1, <1>5 DEF LedgerInv
  <2>2. Since(g) \subseteq Since(g)'
    BY <1>1, <1>5 DEF Since
  <2>3. IsFiniteSet(Since(g)) /\ IsFiniteSet(Since(g)')
    BY <1>1, FS_Subset DEF Since
  <2>4. /\ Cardinality(Since(g)) <= Cardinality(Since(g)')
        /\ Cardinality(Since(g)) \in Nat /\ Cardinality(Since(g)') \in Nat
    BY <2>2, <2>3, FS_Subset, FS_CardinalityType
  <2>5. Cardinality(Since(g)) >= Seats => Cardinality(Since(g)') >= Seats
    BY <1>1, <2>4
  <2> QED
    BY <2>1, <2>5 DEF CountedOrNot
<1>6. CountedOrNot(f)'
  BY <1>3 DEF CountedOrNot
<1> QED
  BY <1>2, <1>4, <1>5, <1>6 DEF LedgerInv

LEMMA LedgerKept == LedgerInv /\ [PullNext]_pullVars => LedgerInv'
<1> SUFFICES ASSUME LedgerInv, [PullNext]_pullVars PROVE LedgerInv'
  OBVIOUS
<1>1. ASSUME NEW f \in Friends, Beacon(f) PROVE LedgerInv'
  <2>1. heardAt' = [heardAt EXCEPT ![f] = now] /\ now' = now
    BY <1>1 DEF Beacon
  <2>2. CASE TooSoon(f)
    BY <1>1, <2>1, <2>2, IgnoredKeeps DEF Beacon
  <2>3. CASE ~TooSoon(f)
    BY <1>1, <2>1, <2>3, RecordedKeeps DEF Beacon
  <2> QED
    BY <2>2, <2>3
<1>2. CASE Counted
  BY <1>2, CountedKeeps
<1>3. CASE Tock
  <2>1. /\ now' = now + 1 /\ UNCHANGED <<origins, heardAt>> /\ now \in Nat /\ now > 0
        /\ heardAt \in [Friends -> 0..now] /\ origins \subseteq [who : Friends, at : 1..now]
        /\ Gap \in Nat /\ Span \in Nat
    BY <1>3, WebPullAssumption DEF Tock, LedgerInv, LedgerShapes
  <2>2. 0..now \subseteq 0..(now + 1) /\ 1..now \subseteq 1..(now + 1)
    BY <2>1
  <2>3. LedgerShapes'
    BY <2>1, <2>2 DEF LedgerInv, LedgerShapes
  <2>4. ASSUME NEW f \in Friends PROVE CountedOrNot(f)'
    <3>1. CountedOrNot(f) /\ heardAt[f] \in Nat /\ Since(f)' = Since(f)
      BY <2>1 DEF LedgerInv, Since
    <3> QED
      BY <2>1, <3>1 DEF CountedOrNot
  <2> QED
    BY <2>1, <2>3, <2>4 DEF LedgerInv
<1>4. ASSUME UNCHANGED <<origins, now, heardAt>> PROVE LedgerInv'
  BY <1>4 DEF LedgerInv, LedgerShapes, CountedOrNot, Since
<1>5. ASSUME NEW p \in Pulls,
             \/ Listed(p) \/ Compared(p) \/ WantsServed(p) \/ Answered(p) \/ PullFails(p)
             \/ \E f \in Friends : Identified(p, f)
             \/ \E n \in Lists : Regossiped(p, n)
      PROVE  UNCHANGED <<origins, now, heardAt>>
  BY <1>5 DEF Listed, Compared, WantsServed, Answered, PullFails, Identified, Regossiped, LedgerRests
<1>6. ASSUME \/ \E m \in air, lost \in BOOLEAN : Lands(m, lost)
             \/ \E f \in Friends, n \in Lists, keep \in BOOLEAN : PeerEdits(f, n, keep)
             \/ WindowOver \/ UNCHANGED pullVars
      PROVE  UNCHANGED <<origins, now, heardAt>>
  BY <1>6 DEF Lands, PeerEdits, WindowOver, pullVars, LedgerRests
<1> QED
  BY <1>1, <1>2, <1>3, <1>4, <1>5, <1>6 DEF PullNext

LEMMA LedgerCountsRight == LedgerInv => BackersHonest
<1> SUFFICES ASSUME LedgerInv PROVE BackersHonest
  OBVIOUS
<1>1. /\ Span \in Nat \ {0} /\ Gap \in Nat \ {0} /\ Seats \in Nat \ {0} /\ IsFiniteSet(Friends)
      /\ now \in Nat /\ heardAt \in [Friends -> 0..now]
      /\ origins \subseteq [who : Friends, at : 1..now]
  BY WebPullAssumption DEF LedgerInv, LedgerShapes
<1>2. \A e \in LedgerNow : heardAt[e.who] > 0 /\ now - heardAt[e.who] < Span
  BY <1>1 DEF LedgerInv, LedgerNow
<1>3. ASSUME NEW f \in Friends, heardAt[f] > 0, now + Gap <= heardAt[f] + Span,
             Cardinality(Since(f)) < Seats
      PROVE  f \in {e.who : e \in LedgerNow}
  <2>1. IsFiniteSet(Since(f))
    BY <1>1, FS_Subset DEF Since
  <2>2. Cardinality(Since(f)) \in Nat /\ heardAt[f] \in Nat
    BY <1>1, <2>1, FS_CardinalityType
  <2>3. /\ heardAt[f] # 0 /\ ~(Cardinality(Since(f)) >= Seats)
        /\ ~(now + Gap > heardAt[f] + Span)
    BY <1>1, <1>3, <2>2
  <2>4. PICK e \in origins : e.who = f
    BY <2>3 DEF LedgerInv, CountedOrNot
  <2>5. e.at \in 1..now /\ heardAt[f] < e.at + Gap
    BY <1>1, <2>4 DEF LedgerInv
  <2>6. now - e.at < Span
    BY <1>1, <1>3, <2>2, <2>5
  <2> QED
    BY <2>4, <2>6 DEF LedgerNow
<1>4. \A d, e \in LedgerNow : d.who = e.who => d = e
  BY DEF LedgerInv, LedgerNow
<1> QED
  BY <1>2, <1>3, <1>4 DEF BackersHonest

(* Whatever the peers do and the wires lose, a pull that ended well leaves *)
(* what it was told of here or on its way, but for the named limits, and   *)
(* the backers counted are those heard inside the window (pullFromPeer,    *)
(* handlePlaylistList, BeaconLedger).                                      *)
THEOREM PeersAlwaysSound == PullSpec => []PeersSound
<1>1. PullInit => PullInv /\ LedgerInv
  BY PullInitHolds
<1>2. PullInv /\ LedgerInv /\ [PullNext]_pullVars => PullInv' /\ LedgerInv'
  BY PullTracks, LedgerKept
<1>3. PullInv /\ LedgerInv => PeersSound
  <2> SUFFICES ASSUME PullInv, LedgerInv PROVE PeersSound
    OBVIOUS
  <2>1. PulledIsHere
    BY DEF PullInv, PullOnTrack, Covered, PulledIsHere
  <2> QED
    BY <2>1, LedgerCountsRight DEF PeersSound
<1> QED
  BY <1>1, <1>2, <1>3, PTL DEF PullSpec

-----------------------------------------------------------------------------
(* BrowserPlaylist.  OwnKept is not inductive: between the steps of a task *)
(* the row may be unlike what it promises.  As long as no two tasks that   *)
(* change the row met and none was cut short (~spoiled), there is one such *)
(* task at most, and what it finds at each of its steps is known.          *)
Reader(j) == Engaged(j) /\ OnlyReads(jobs[j].op)
Writer(j) == Engaged(j) /\ ~OnlyReads(jobs[j].op)

(* The records that are out, in the row or with a task that will send one. *)
Signed == {[doc |-> m.doc, seq |-> m.seq] : m \in mesh}
          \cup {r \in {ownRow.rec} : ownRow.there /\ r # Unsigned}
          \cup {jobs[j].rec : j \in {k \in Jobs : Reader(k)}}
EndsBuried == Signed = {} \/ \E m \in mesh : m.doc = Buried /\ m.seq = ownRow.seq

(* What a row of the user's own is while no task is changing it.           *)
Bounded == \A r \in Signed : r.seq <= ownRow.seq
Fits ==
  /\ ownRow.rec # Unsigned => ownRow.rec.doc \in {ownRow.doc, Buried}
  /\ ownRow.published /\ ~ownRow.tomb => ownRow.rec = [doc |-> ownRow.doc, seq |-> ownRow.seq]
  /\ ~ownRow.published => ownRow.rec.doc = Buried /\ EndsBuried
AtEase == MineHere => ownRow.doc = savedDoc /\ Bounded /\ Fits

(* What a task that changes the row finds at each of its steps.            *)
Agrees(row) ==
  /\ row.doc = ownRow.doc /\ row.published = ownRow.published
  /\ row.rec = ownRow.rec /\ row.seq = ownRow.seq
WriterStands(j) ==
  LET op == jobs[j].op
      row == jobs[j].row
      rec == jobs[j].rec
      at == jobs[j].at
      next == [doc |-> IF op \in {"unshare", "remove"} THEN Buried ELSE ownRow.doc,
               seq |-> ownRow.seq + 1]
  IN \/ /\ at = "insert" /\ op = "create" /\ ~ownRow.there /\ Signed = {}
        /\ row.doc = savedDoc
     \/ /\ at = "own" /\ op = "create" /\ ~ownRow.mine /\ ~ownRow.published /\ Signed = {}
        /\ ownRow.there /\ ownRow.doc = savedDoc /\ ownRow.rec = Unsigned
     \/ /\ at = "write" /\ op = "edit" /\ MineHere /\ rec.doc = savedDoc
        /\ Agrees(row) /\ Bounded /\ Fits
     \/ /\ at = "reread" /\ op = "edit" /\ MineHere /\ ownRow.published
        /\ ownRow.doc = savedDoc /\ Bounded
     \/ /\ at \in {"sign", "store"} /\ MineHere /\ Agrees(row) /\ ownRow.doc = savedDoc
        /\ Bounded /\ op \in {"edit", "share", "renew", "unshare", "remove"}
        /\ op # "edit" => Fits
        /\ op # "share" => ownRow.published
        /\ at = "store" => rec = next /\ op \in {"edit", "share", "renew"}
     \/ /\ at = "flag" /\ op \in {"edit", "share"} /\ MineHere /\ ownRow.doc = savedDoc
        /\ Bounded /\ rec = ownRow.rec /\ row.doc = ownRow.doc
        /\ rec = [doc |-> ownRow.doc, seq |-> ownRow.seq]
     \/ /\ at = "send" /\ op \in {"edit", "share", "renew"} /\ MineHere /\ AtEase
        /\ rec = ownRow.rec /\ rec # Unsigned /\ row.doc = rec.doc
     \/ /\ at = "send" /\ op \in {"unshare", "remove"} /\ MineHere /\ AtEase
        /\ ownRow.published /\ rec = next
     \/ /\ at = "retire" /\ op \in {"unshare", "remove"} /\ MineHere /\ ownRow.doc = savedDoc
        /\ rec = next /\ Fits /\ ownRow.published
        /\ \A r \in Signed : r.seq <= ownRow.seq \/ r = rec
        /\ \E m \in mesh : m.doc = rec.doc /\ m.seq = rec.seq
     \/ /\ at = "private" /\ op = "unshare" /\ AtEase
        /\ MineHere => ownRow.rec.doc = Buried /\ EndsBuried
     \/ at = "delete" /\ op = "remove" /\ AtEase
     \/ at = "forget" /\ op = "remove" /\ ~MineHere
     \/ /\ at = "take" /\ op = "ingest" /\ ~MineHere /\ row.doc = rec.doc
        /\ \E m \in mesh : m.doc = rec.doc /\ m.seq = rec.seq
     \/ at = "evict" /\ op = "evict" /\ ~MineHere

ReaderStands(j) == jobs[j].at = "send" /\ jobs[j].row.doc = jobs[j].rec.doc
Apart == \A j, k \in Jobs : Engaged(j) /\ Engaged(k) /\ j # k => ~Crosses(jobs[j].op, jobs[k].op)
MeshVerifies == \A m \in mesh : m.payload = m.doc \/ m.doc = Buried
OneDocEach == \A r, s \in Signed : r.seq = s.seq => r.doc = s.doc
NotYetMade == savedDoc = Buried => ~ownRow.there /\ mesh = {} /\ \A j \in Jobs : ~Engaged(j)
NotMine ==
  /\ ~ownRow.there => ~ownRow.mine /\ ~ownRow.published
  /\ ~MineHere /\ ownRow.there /\ ownRow.rec # Unsigned => ownRow.doc = ownRow.rec.doc
TasksStand ==
  /\ (\A j \in Jobs : ~Writer(j)) => AtEase
  /\ \A j \in Jobs : (Reader(j) => ReaderStands(j)) /\ (Writer(j) => WriterStands(j))

OwnInv == ~spoiled => Apart /\ MeshVerifies /\ OneDocEach /\ NotYetMade /\ NotMine /\ TasksStand

(* The shapes of the state, kept whatever runs.                            *)
LEMMA OwnConstants ==
  /\ Vacant \in OwnRows /\ Unsigned \in Signatures /\ Rested \in Tasks
  /\ ~Vacant.there /\ ~Vacant.mine /\ ~Vacant.published
  /\ Unsigned.doc = Buried /\ Unsigned.seq = 0 /\ Rested.at = "rest"
  /\ Buried \in Sheets /\ Drafts \subseteq Sheets /\ Buried \notin Drafts
<1>1. Buried \in Sheets /\ Drafts \subseteq Sheets /\ Buried \notin Drafts
  BY DraftAssumption DEF Sheets
<1>2. Unsigned \in Signatures /\ Unsigned.doc = Buried /\ Unsigned.seq = 0
  BY <1>1 DEF Unsigned, Signatures
<1>3. Vacant \in OwnRows /\ ~Vacant.there /\ ~Vacant.mine /\ ~Vacant.published
  BY <1>1, <1>2 DEF Vacant, OwnRows
<1>4. Rested \in Tasks /\ Rested.at = "rest"
  BY <1>2, <1>3 DEF Rested, Tasks
<1> QED
  BY <1>1, <1>2, <1>3, <1>4

(* What a step does to the tasks: it starts, moves or ends one.            *)
LEMMA OneJobMoves ==
  ASSUME OwnTypeOK, NEW j \in Jobs, NEW new \in Tasks, jobs' = [jobs EXCEPT ![j] = new]
  PROVE  /\ jobs' \in [Jobs -> Tasks] /\ jobs'[j] = new
         /\ \A k \in Jobs : k # j => jobs'[k] = jobs[k]
BY DEF OwnTypeOK, Tasks

LEMMA Proceeds ==
  ASSUME OwnTypeOK, NEW j \in Jobs, NEW at, [jobs[j] EXCEPT !.at = at] \in Tasks, Proceed(j, at)
  PROVE  /\ jobs' \in [Jobs -> Tasks]
         /\ \A k \in Jobs : k # j => jobs'[k] = jobs[k]
         /\ jobs'[j].at = at /\ jobs'[j].op = jobs[j].op
         /\ jobs'[j].row = jobs[j].row /\ jobs'[j].rec = jobs[j].rec
<1>1. PICK old \in Tasks : old = jobs[j]
  BY DEF OwnTypeOK, Tasks
<1>2. PICK new \in Tasks : new = [old EXCEPT !.at = at]
  BY DEF Tasks
<1>3. new.at = at /\ new.op = old.op /\ new.row = old.row /\ new.rec = old.rec
  BY <1>2 DEF Tasks
<1>4. jobs' = [jobs EXCEPT ![j] = new]
  BY <1>1, <1>2 DEF Proceed, OwnTypeOK
<1> QED
  BY <1>1, <1>3, <1>4, OneJobMoves

LEMMA Leaves ==
  ASSUME OwnTypeOK, NEW j \in Jobs, Leave(j)
  PROVE  /\ jobs' \in [Jobs -> Tasks] /\ ~Engaged(j)'
         /\ \A k \in Jobs : k # j => jobs'[k] = jobs[k]
BY OwnConstants, OneJobMoves DEF Leave, Engaged

LEMMA Enters ==
  ASSUME OwnTypeOK, NEW j \in Jobs, NEW op, NEW at, NEW row, NEW rec,
         [op |-> op, at |-> at, row |-> row, rec |-> rec] \in Tasks, Enter(j, op, at, row, rec)
  PROVE  /\ jobs' \in [Jobs -> Tasks] /\ ~Engaged(j)
         /\ \A k \in Jobs : k # j => jobs'[k] = jobs[k]
         /\ jobs'[j].at = at /\ jobs'[j].op = op /\ jobs'[j].row = row /\ jobs'[j].rec = rec
         /\ spoiled' \in BOOLEAN /\ (spoiled => spoiled')
         /\ ~spoiled' => \A k \in Jobs : Engaged(k) => ~Crosses(op, jobs[k].op)
<1>1. PICK new \in Tasks : new = [op |-> op, at |-> at, row |-> row, rec |-> rec]
  BY DEF Tasks
<1>2. /\ jobs' = [jobs EXCEPT ![j] = new] /\ ~Engaged(j)
      /\ spoiled' = (spoiled \/ \E k \in Jobs : Engaged(k) /\ Crosses(op, jobs[k].op))
  BY <1>1 DEF Enter
<1>3. spoiled \in BOOLEAN
  BY DEF OwnTypeOK
<1> QED
  BY <1>1, <1>2, <1>3, OneJobMoves

LEMMA UpsertedIs ==
  ASSUME OwnTypeOK, NEW doc \in Sheets, NEW rec \in Signatures, NEW seq \in Nat, NEW due \in BOOLEAN
  PROVE  /\ Upserted(doc, rec, seq, due) \in OwnRows
         /\ Upserted(doc, rec, seq, due).there /\ Upserted(doc, rec, seq, due).doc = doc
         /\ Upserted(doc, rec, seq, due).rec = rec /\ Upserted(doc, rec, seq, due).seq = seq
         /\ Upserted(doc, rec, seq, due).mine = ownRow.mine
         /\ Upserted(doc, rec, seq, due).published = ownRow.published
         /\ Upserted(doc, rec, seq, due).tomb = (doc = Buried)
BY DEF OwnTypeOK, Upserted, OwnRows

LEMMA UpsertedFresh ==
  ASSUME OwnTypeOK, NEW doc \in Sheets, NEW rec \in Signatures, NEW seq \in Nat
  PROVE  /\ Upserted(doc, rec, seq, FALSE) \in OwnRows
         /\ Upserted(doc, rec, seq, FALSE).there /\ Upserted(doc, rec, seq, FALSE).doc = doc
         /\ Upserted(doc, rec, seq, FALSE).rec = rec /\ Upserted(doc, rec, seq, FALSE).seq = seq
         /\ Upserted(doc, rec, seq, FALSE).mine = ownRow.mine
         /\ Upserted(doc, rec, seq, FALSE).published = ownRow.published
BY DEF OwnTypeOK, Upserted, OwnRows

LEMMA TaskShape ==
  ASSUME OwnTypeOK, NEW j \in Jobs
  PROVE  /\ jobs[j] \in Tasks /\ jobs[j].row \in OwnRows /\ jobs[j].rec \in Signatures
         /\ jobs[j].row.doc \in Sheets /\ jobs[j].row.seq \in Nat /\ jobs[j].row.due \in BOOLEAN
         /\ jobs[j].row.rec \in Signatures /\ jobs[j].row.published \in BOOLEAN
         /\ jobs[j].rec.doc \in Sheets /\ jobs[j].rec.seq \in Nat
<1>1. jobs[j] \in Tasks
  BY DEF OwnTypeOK
<1>2. jobs[j].row \in OwnRows /\ jobs[j].rec \in Signatures
  BY <1>1 DEF Tasks
<1> QED
  BY <1>1, <1>2 DEF OwnRows, Signatures

(* Each step that starts a task gives it a shape.                          *)
LEMMA StartShape ==
  ASSUME OwnTypeOK, NEW d \in Drafts
  PROVE  /\ [Vacant EXCEPT !.doc = d] \in OwnRows /\ [Unsigned EXCEPT !.doc = d] \in Signatures
         /\ [Vacant EXCEPT !.doc = d].doc = d /\ [Unsigned EXCEPT !.doc = d].doc = d
BY OwnConstants DEF OwnRows, Signatures

LEMMA OwnTyped == OwnTypeOK /\ [OwnNext]_ownVars => OwnTypeOK'
<1> SUFFICES ASSUME OwnTypeOK, [OwnNext]_ownVars PROVE OwnTypeOK'
  OBVIOUS
<1>0. /\ ownRow \in OwnRows /\ keyHere \in BOOLEAN /\ recent \in BOOLEAN /\ spoiled \in BOOLEAN
      /\ mesh \subseteq [payload : Sheets, doc : Sheets, seq : Nat] /\ savedDoc \in Sheets
      /\ jobs \in [Jobs -> Tasks] /\ ownRow.rec \in Signatures /\ ownRow.doc \in Sheets
      /\ ownRow.seq \in Nat /\ ownRow.rec.doc \in Sheets /\ ownRow.rec.seq \in Nat
  BY DEF OwnTypeOK, OwnRows, Signatures
<1>1. ASSUME NEW j \in Jobs, NEW op, NEW at, NEW row \in OwnRows, NEW rec \in Signatures,
             [op |-> op, at |-> at, row |-> row, rec |-> rec] \in Tasks,
             Enter(j, op, at, row, rec)
      PROVE  jobs' \in [Jobs -> Tasks] /\ spoiled' \in BOOLEAN
  BY <1>1, Enters
<1>2. ASSUME NEW j \in Jobs, NEW d \in Drafts, Create(j, d) \/ Edit(j, d) PROVE OwnTypeOK'
  <2>1. CASE Create(j, d)
    BY <1>0, <1>1, <2>1, StartShape, OwnConstants DEF Create, OwnTypeOK, Tasks
  <2>2. CASE Edit(j, d)
    BY <1>0, <1>1, <2>2, StartShape, OwnConstants DEF Edit, OwnTypeOK, Tasks
  <2> QED
    BY <1>2, <2>1, <2>2
<1>3. ASSUME NEW j \in Jobs, NEW op \in {"unshare", "remove"}, Retract(j, op) PROVE OwnTypeOK'
  <2>1. \A at \in {"sign", "private", "delete"} :
          [op |-> op, at |-> at, row |-> ownRow, rec |-> Unsigned] \in Tasks
    BY <1>0, OwnConstants DEF Tasks
  <2> QED
    BY <1>0, <1>1, <1>3, <2>1, OwnConstants DEF Retract, OwnTypeOK
<1>4. ASSUME NEW j \in Jobs, Share(j) \/ Announce(j) \/ AnswerWant(j) \/ ListToEvict(j)
      PROVE  OwnTypeOK'
  <2>1. \A op \in {"share", "renew", "announce", "answer", "evict"} :
          \A at \in {"sign", "send", "evict"} : \A rec \in {Unsigned, ownRow.rec} :
            [op |-> op, at |-> at, row |-> ownRow, rec |-> rec] \in Tasks
    BY <1>0, OwnConstants DEF Tasks
  <2>2. /\ UNCHANGED <<ownRow, keyHere, mesh, recent, savedDoc>>
        /\ \E op \in {"share", "renew", "announce", "answer", "evict"} :
             \E at \in {"sign", "send", "evict"} : \E rec \in {Unsigned, ownRow.rec} :
               Enter(j, op, at, ownRow, rec)
    BY <1>4 DEF Share, Announce, AnswerWant, ListToEvict
  <2> QED
    BY <1>0, <1>1, <2>1, <2>2, OwnConstants DEF OwnTypeOK
<1>5. ASSUME NEW j \in Jobs, NEW m \in mesh, Hear(j, m) PROVE OwnTypeOK'
  <2>1. /\ m.payload \in Sheets /\ m.doc \in Sheets /\ m.seq \in Nat
    BY <1>0
  <2>2. /\ [Vacant EXCEPT !.doc = m.payload] \in OwnRows
        /\ [doc |-> m.doc, seq |-> m.seq] \in Signatures
    BY <2>1, OwnConstants DEF OwnRows, Signatures
  <2> QED
    BY <1>0, <1>1, <1>5, <2>2 DEF Hear, OwnTypeOK, Tasks
<1>6. ASSUME NEW j \in Jobs, OwnStep(j) \/ SendFails(j)
      PROVE  jobs' \in [Jobs -> Tasks]
  <2>1. PICK t \in Tasks : t = jobs[j]
    BY <1>0
  <2>2. \A at \in {"own", "reread", "sign", "store", "flag", "send", "retire", "private", "delete",
                   "forget"} : [t EXCEPT !.at = at] \in Tasks
    BY DEF Tasks
  <2>3. \A at \in {"own", "reread", "sign", "store", "flag", "send", "retire", "private", "delete",
                   "forget"} : Proceed(j, at) => jobs' \in [Jobs -> Tasks]
    BY <2>1, <2>2, Proceeds
  <2>4. Leave(j) => jobs' \in [Jobs -> Tasks]
    BY Leaves
  <2>5. CASE SignNext(j)
    <3>1. PICK rec \in Signatures : rec = [doc |-> Tells(j), seq |-> NextNumber(jobs[j].row.seq)]
      <4>1. Tells(j) \in Sheets /\ NextNumber(jobs[j].row.seq) \in Nat
        BY TaskShape, OwnConstants DEF Tells, Doc, NextNumber
      <4> QED
        BY <4>1 DEF Signatures
    <3>2. \A at \in {"send", "store"} : [t EXCEPT !.rec = rec, !.at = at] \in Tasks
      BY DEF Tasks
    <3>3. ASSUME keyHere
          PROVE  \E at \in {"send", "store"} :
                   jobs' = [jobs EXCEPT ![j] = [t EXCEPT !.rec = rec, !.at = at]]
      BY <1>0, <2>1, <2>5, <3>1, <3>3 DEF SignNext
    <3> QED
      BY <1>0, <2>3, <2>4, <2>5, <3>2, <3>3 DEF SignNext
  <2>6. CASE Reread(j)
    <3>1. [t EXCEPT !.at = "sign", !.row = ownRow] \in Tasks
      BY <1>0 DEF Tasks
    <3>2. MineHere => jobs' = [jobs EXCEPT ![j] = [t EXCEPT !.at = "sign", !.row = ownRow]]
      BY <1>0, <2>1, <2>6 DEF Reread
    <3> QED
      BY <1>0, <2>4, <2>6, <3>1, <3>2 DEF Reread
  <2>7. CASE Insert(j) \/ OwnIt(j) \/ WriteEdit(j) \/ StoreRecord(j) \/ Flag(j) \/ Send(j)
    BY <2>3, <2>4, <2>7 DEF Insert, OwnIt, WriteEdit, StoreRecord, Flag, Send
  <2>8. CASE \/ BuryOwn(j) \/ MakePrivate(j) \/ Delete(j) \/ Forget(j) \/ TakeIn(j) \/ EvictRow(j)
             \/ SendFails(j)
    BY <2>3, <2>4, <2>8 DEF BuryOwn, MakePrivate, Delete, Forget, TakeIn, EvictRow, SendFails
  <2> QED
    BY <1>6, <2>5, <2>6, <2>7, <2>8 DEF OwnStep
<1>7. ASSUME NEW j \in Jobs, OwnStep(j) \/ SendFails(j) PROVE ownRow' \in OwnRows
  <2>1. /\ jobs[j].rec \in Signatures /\ jobs[j].rec.seq \in Nat /\ jobs[j].row.doc \in Sheets
        /\ jobs[j].row.rec \in Signatures /\ jobs[j].row.seq \in Nat /\ jobs[j].row.due \in BOOLEAN
        /\ jobs[j].rec.doc \in Sheets
    BY TaskShape
  <2>2. CASE Insert(j) \/ WriteEdit(j) \/ TakeIn(j)
    <3>1. /\ Upserted(jobs[j].row.doc, Unsigned, 0, FALSE) \in OwnRows
          /\ Upserted(jobs[j].row.doc, jobs[j].rec, jobs[j].rec.seq, FALSE) \in OwnRows
          /\ Upserted(jobs[j].rec.doc, jobs[j].row.rec, jobs[j].row.seq, jobs[j].row.due) \in OwnRows
      <4>1. Upserted(jobs[j].row.doc, Unsigned, 0, FALSE) \in OwnRows
        BY <2>1, OwnConstants DEF Upserted, OwnTypeOK, OwnRows
      <4>2. Upserted(jobs[j].row.doc, jobs[j].rec, jobs[j].rec.seq, FALSE) \in OwnRows
        BY <2>1, UpsertedFresh
      <4>3. Upserted(jobs[j].rec.doc, jobs[j].row.rec, jobs[j].row.seq, jobs[j].row.due) \in OwnRows
        BY <2>1, UpsertedIs
      <4> QED
        BY <4>1, <4>2, <4>3
    <3> QED
      BY <2>2, <3>1 DEF Insert, WriteEdit, TakeIn, Doc
  <2>3. CASE StoreRecord(j)
    <3>1. [ownRow EXCEPT !.rec = jobs[j].rec, !.seq = jobs[j].rec.seq, !.due = FALSE] \in OwnRows
      BY <1>0, <2>1 DEF OwnRows
    <3>2. Upserted(jobs[j].row.doc, jobs[j].rec, jobs[j].rec.seq, FALSE) \in OwnRows
      BY <2>1, UpsertedFresh
    <3> QED
      BY <1>0, <2>3, <3>1, <3>2 DEF StoreRecord, Doc, IfThere
  <2>4. CASE BuryOwn(j) \/ OwnIt(j) \/ Flag(j) \/ MakePrivate(j)
    <3>1. /\ [ownRow EXCEPT !.mine = TRUE] \in OwnRows
          /\ [ownRow EXCEPT !.published = TRUE] \in OwnRows
          /\ [ownRow EXCEPT !.published = FALSE] \in OwnRows
          /\ [ownRow EXCEPT !.seq = jobs[j].rec.seq, !.rec = jobs[j].rec, !.tomb = TRUE] \in OwnRows
      BY <1>0, <2>1 DEF OwnRows
    <3> QED
      BY <1>0, <2>4, <3>1 DEF BuryOwn, OwnIt, Flag, MakePrivate, IfThere
  <2>5. CASE \/ Reread(j) \/ SignNext(j) \/ Send(j) \/ Delete(j) \/ Forget(j) \/ EvictRow(j)
             \/ SendFails(j)
    BY <1>0, <2>5, OwnConstants DEF Reread, SignNext, Send, Delete, Forget, EvictRow, SendFails
  <2> QED
    BY <1>7, <2>2, <2>3, <2>4, <2>5 DEF OwnStep
<1>8. ASSUME NEW j \in Jobs, OwnStep(j) \/ SendFails(j)
      PROVE  /\ keyHere' \in BOOLEAN /\ recent' \in BOOLEAN /\ spoiled' \in BOOLEAN
             /\ savedDoc' \in Sheets /\ mesh' \subseteq [payload : Sheets, doc : Sheets, seq : Nat]
  <2>1. CASE Send(j)
    <3>1. [payload |-> Tells(j), doc |-> jobs[j].rec.doc, seq |-> jobs[j].rec.seq]
            \in [payload : Sheets, doc : Sheets, seq : Nat]
      BY TaskShape, OwnConstants DEF Tells, Doc
    <3> QED
      BY <1>0, <2>1, <3>1 DEF Send
  <2>2. CASE \/ Insert(j) \/ OwnIt(j) \/ WriteEdit(j) \/ Reread(j) \/ SignNext(j) \/ StoreRecord(j)
             \/ Flag(j)
    BY <1>0, <2>2 DEF Insert, OwnIt, WriteEdit, Reread, SignNext, StoreRecord, Flag
  <2>3. CASE \/ BuryOwn(j) \/ MakePrivate(j) \/ Delete(j) \/ Forget(j) \/ TakeIn(j) \/ EvictRow(j)
             \/ SendFails(j)
    BY <1>0, <2>3 DEF BuryOwn, MakePrivate, Delete, Forget, TakeIn, EvictRow, SendFails
  <2> QED
    BY <1>8, <2>1, <2>2, <2>3 DEF OwnStep
<1>9. ASSUME CopyLink \/ CloseTab PROVE OwnTypeOK'
  <2>1. [payload |-> ownRow.doc, doc |-> ownRow.rec.doc, seq |-> ownRow.rec.seq]
          \in [payload : Sheets, doc : Sheets, seq : Nat]
    BY <1>0
  <2> QED
    BY <1>0, <1>9, <2>1, OwnConstants DEF CopyLink, CloseTab, OwnTypeOK
<1>10. ASSUME LoseKey \/ ImportKey \/ NearEnd \/ WindowPasses \/ UNCHANGED ownVars PROVE OwnTypeOK'
  <2>1. [ownRow EXCEPT !.due = TRUE] \in OwnRows
    BY <1>0 DEF OwnRows
  <2> QED
    BY <1>0, <1>10, <2>1 DEF LoseKey, ImportKey, NearEnd, WindowPasses, ownVars, OwnTypeOK
<1> QED
  BY <1>2, <1>3, <1>4, <1>5, <1>6, <1>7, <1>8, <1>9, <1>10 DEF OwnNext, OwnTypeOK

LEMMA SignedIs ==
  /\ \A r : r \in Signed <=> \/ \E m \in mesh : r = [doc |-> m.doc, seq |-> m.seq]
                             \/ r = ownRow.rec /\ ownRow.there /\ r # Unsigned
                             \/ \E k \in Jobs : Reader(k) /\ r = jobs[k].rec
  /\ (\A r : r \in Signed <=> \/ \E m \in mesh : r = [doc |-> m.doc, seq |-> m.seq]
                              \/ r = ownRow.rec /\ ownRow.there /\ r # Unsigned
                              \/ \E k \in Jobs : Reader(k) /\ r = jobs[k].rec)'
BY DEF Signed

LEMMA SignedTyped == OwnTypeOK => \A r \in Signed : r \in Signatures /\ r.doc \in Sheets /\ r.seq \in Nat
<1> SUFFICES ASSUME OwnTypeOK, NEW r \in Signed PROVE r \in Signatures
  BY DEF Signatures
<1>1. ASSUME NEW m \in mesh PROVE [doc |-> m.doc, seq |-> m.seq] \in Signatures
  BY DEF OwnTypeOK, Signatures
<1>2. ownRow.rec \in Signatures
  BY DEF OwnTypeOK, OwnRows
<1> QED
  BY <1>1, <1>2, TaskShape, SignedIs

(* What the invariants read of the row.                                    *)
SameRow ==
  /\ ownRow'.there = ownRow.there /\ ownRow'.mine = ownRow.mine
  /\ ownRow'.published = ownRow.published /\ ownRow'.tomb = ownRow.tomb
  /\ ownRow'.doc = ownRow.doc /\ ownRow'.rec = ownRow.rec /\ ownRow'.seq = ownRow.seq

(* Records that drop out of sight or reach the mesh take nothing back.     *)
LEMMA RowRests ==
  ASSUME SameRow, savedDoc' = savedDoc, Signed' \subseteq Signed, mesh \subseteq mesh'
  PROVE  /\ MineHere' = MineHere /\ (Bounded => Bounded') /\ (EndsBuried => EndsBuried')
         /\ (Fits => Fits') /\ (AtEase => AtEase')
<1>1. MineHere' = MineHere
  BY DEF MineHere, SameRow
<1>2. Bounded => Bounded'
  BY DEF Bounded, SameRow
<1>3. EndsBuried => EndsBuried'
  BY DEF EndsBuried, SameRow
<1>4. Fits => Fits'
  BY <1>3 DEF Fits, SameRow
<1> QED
  BY <1>1, <1>2, <1>3, <1>4 DEF AtEase, SameRow

LEMMA WriterRests ==
  ASSUME SameRow, savedDoc' = savedDoc, Signed' \subseteq Signed, mesh \subseteq mesh',
         NEW j \in Jobs, jobs'[j] = jobs[j], WriterStands(j)
  PROVE  WriterStands(j)'
<1>1. /\ MineHere' = MineHere /\ (Bounded => Bounded') /\ (EndsBuried => EndsBuried')
      /\ (Fits => Fits') /\ (AtEase => AtEase')
  BY RowRests
<1>2. \A row : Agrees(row) => Agrees(row)'
  BY DEF Agrees, SameRow
<1>3. Signed = {} => Signed' = {}
  OBVIOUS
<1> QED
  BY <1>1, <1>2, <1>3 DEF WriterStands, SameRow

(* A step that leaves the row alone, starts no task and moves none that    *)
(* changes the row.                                                        *)
LEMMA OthersGoOn ==
  ASSUME OwnInv, ~spoiled, SameRow, savedDoc' = savedDoc, Signed' \subseteq Signed,
         mesh \subseteq mesh', MeshVerifies',
         \A j \in Jobs : jobs'[j] = jobs[j] \/ (~Engaged(j)' /\ Reader(j)),
         mesh' = {} \/ savedDoc # Buried
  PROVE  OwnInv'
<1>1. /\ Apart /\ OneDocEach /\ NotYetMade /\ NotMine /\ TasksStand
  BY DEF OwnInv
<1>2. /\ \A j \in Jobs : Engaged(j)' => Engaged(j) /\ jobs'[j] = jobs[j]
      /\ \A j \in Jobs : Writer(j)' <=> Writer(j)
      /\ \A j \in Jobs : Reader(j)' => Reader(j) /\ jobs'[j] = jobs[j]
      /\ \A j \in Jobs : Writer(j)' => jobs'[j] = jobs[j]
  BY DEF Engaged, Writer, Reader
<1>3. Apart'
  BY <1>1, <1>2 DEF Apart
<1>4. OneDocEach'
  BY <1>1 DEF OneDocEach
<1>5. NotYetMade'
  BY <1>1, <1>2 DEF NotYetMade, SameRow
<1>6. NotMine'
  BY <1>1, RowRests DEF NotMine, SameRow
<1>7. TasksStand'
  <2>1. (\A j \in Jobs : ~Writer(j)') => AtEase'
    BY <1>1, <1>2, RowRests DEF TasksStand
  <2>2. \A j \in Jobs : Reader(j)' => ReaderStands(j)'
    BY <1>1, <1>2 DEF TasksStand, ReaderStands
  <2>3. \A j \in Jobs : Writer(j)' => WriterStands(j)'
    BY <1>1, <1>2, WriterRests DEF TasksStand
  <2> QED
    BY <2>1, <2>2, <2>3 DEF TasksStand
<1> QED
  BY <1>3, <1>4, <1>5, <1>6, <1>7 DEF OwnInv

(* A task that changes the row is the only one of its kind, and an edit is *)
(* alone.                                                                  *)
LEMMA WriterIsAlone ==
  ASSUME Apart, NEW j \in Jobs, Writer(j), NEW k \in Jobs, k # j
  PROVE  ~Writer(k) /\ (jobs[j].op = "edit" => ~Engaged(k))
BY DEF Apart, Writer, Crosses

(* Without an edit under way the row's record fits its document.           *)
LEMMA RowFits ==
  ASSUME OwnInv, ~spoiled, \A j \in Jobs : Engaged(j) => jobs[j].op # "edit"
  PROVE  /\ ownRow.there /\ ownRow.rec # Unsigned => ownRow.rec.doc \in {ownRow.doc, Buried}
         /\ Disclosed /\ ownRow.rec # Unsigned => ownRow.rec.doc = ownRow.doc
<1>1. Apart /\ NotMine /\ TasksStand
  BY DEF OwnInv
<1>2. CASE ~MineHere
  BY <1>1, <1>2 DEF NotMine, Disclosed
<1>3. CASE MineHere /\ \A j \in Jobs : ~Writer(j)
  BY <1>1, <1>3 DEF TasksStand, AtEase, Fits, Disclosed
<1>4. ASSUME MineHere, NEW j \in Jobs, Writer(j)
      PROVE  /\ ownRow.rec # Unsigned => ownRow.rec.doc \in {ownRow.doc, Buried}
             /\ ownRow.published /\ ~ownRow.tomb => ownRow.rec.doc = ownRow.doc
  <2>1. WriterStands(j) /\ jobs[j].op # "edit"
    BY <1>1, <1>4 DEF TasksStand, Writer
  <2>2. Fits \/ ownRow.rec = [doc |-> ownRow.doc, seq |-> ownRow.seq]
    BY <1>4, <2>1 DEF WriterStands, AtEase, MineHere
  <2> QED
    BY <2>2 DEF Fits
<1> QED
  BY <1>2, <1>3, <1>4 DEF Disclosed, MineHere

(* A task that changes the row starts: nothing else that does is under way.*)
LEMMA WriterEnters ==
  ASSUME OwnInv, OwnTypeOK, NEW j \in Jobs, NEW op, ~OnlyReads(op),
         ~Engaged(j), Engaged(j)', jobs'[j].op = op, \A k \in Jobs : k # j => jobs'[k] = jobs[k],
         ~spoiled, \A k \in Jobs : Engaged(k) => ~Crosses(op, jobs[k].op),
         UNCHANGED <<ownRow, mesh>>, savedDoc' # Buried, WriterStands(j)'
  PROVE  OwnInv'
<1>1. /\ Apart /\ OneDocEach /\ MeshVerifies /\ NotMine /\ TasksStand
  BY DEF OwnInv
<1>2. /\ \A k \in Jobs : k # j => /\ Engaged(k)' = Engaged(k) /\ jobs'[k] = jobs[k]
                                  /\ Reader(k)' = Reader(k) /\ ~Writer(k)'
      /\ ~Reader(j) /\ ~Reader(j)'
  BY DEF Engaged, Reader, Writer, Crosses
<1>3. Signed' = Signed
  <2>1. \A r : (\E k \in Jobs : Reader(k)' /\ r = jobs'[k].rec) <=> \E k \in Jobs : Reader(k) /\ r = jobs[k].rec
    BY <1>2
  <2> QED
    BY <2>1, SignedIs
<1>4. Apart'
  <2>1. \A a, b : Crosses(a, b) = Crosses(b, a)
    BY DEF Crosses
  <2> QED
    BY <1>1, <1>2, <2>1 DEF Apart
<1>5. TasksStand'
  BY <1>1, <1>2 DEF TasksStand, ReaderStands, Writer
<1>6. OneDocEach' /\ MeshVerifies' /\ NotMine' /\ NotYetMade'
  BY <1>1, <1>3 DEF OneDocEach, MeshVerifies, NotMine, MineHere, NotYetMade
<1> QED
  BY <1>4, <1>5, <1>6 DEF OwnInv

(* ... takes a step, or ends.                                              *)
LEMMA WriterSteps ==
  ASSUME OwnInv, NEW j \in Jobs, ~spoiled, Writer(j),
         \A k \in Jobs : k # j => jobs'[k] = jobs[k],
         \/ ~Engaged(j)' /\ AtEase'
         \/ Engaged(j)' /\ jobs'[j].op = jobs[j].op /\ WriterStands(j)',
         savedDoc' = savedDoc, MeshVerifies', OneDocEach', NotMine'
  PROVE  OwnInv'
<1>1. Apart /\ TasksStand /\ NotYetMade
  BY DEF OwnInv
<1>2. \A k \in Jobs : k # j => /\ Engaged(k)' = Engaged(k) /\ jobs'[k] = jobs[k]
                               /\ Reader(k)' = Reader(k) /\ ~Writer(k)'
  BY <1>1, WriterIsAlone DEF Engaged, Reader, Writer
<1>3. ~Reader(j)' /\ (Engaged(j)' => jobs'[j].op = jobs[j].op /\ Writer(j)')
  BY DEF Reader, Writer
<1>4. Apart'
  BY <1>1, <1>2, <1>3 DEF Apart, Writer
<1>5. NotYetMade'
  BY <1>1 DEF NotYetMade, Writer
<1>6. TasksStand'
  BY <1>1, <1>2, <1>3 DEF TasksStand, ReaderStands, Writer
<1> QED
  BY <1>4, <1>5, <1>6 DEF OwnInv

LEMMA WhoIsAt ==
  ASSUME OwnInv, ~spoiled, NEW j \in Jobs, jobs[j].at \notin {"rest", "send"}
  PROVE  Writer(j) /\ ~Reader(j) /\ WriterStands(j)
BY DEF OwnInv, TasksStand, ReaderStands, Reader, Writer, Engaged

(* A step of such a task may add the row's record to what is out.          *)
LEMMA StepSigned ==
  ASSUME NEW j \in Jobs, ~Reader(j), ~Reader(j)', \A k \in Jobs : k # j => jobs'[k] = jobs[k],
         mesh' = mesh
  PROVE  /\ \A r \in Signed' : r \in Signed \/ (r = ownRow'.rec /\ ownRow'.there /\ r # Unsigned)
         /\ ownRow'.rec = ownRow.rec /\ ownRow'.there = ownRow.there => Signed' = Signed
<1>1. \A r : (\E k \in Jobs : Reader(k)' /\ r = jobs'[k].rec) <=> \E k \in Jobs : Reader(k) /\ r = jobs[k].rec
  BY DEF Reader, Engaged
<1>2. \A r : r \in Signed' <=> \/ \E m \in mesh : r = [doc |-> m.doc, seq |-> m.seq]
                               \/ r = ownRow'.rec /\ ownRow'.there /\ r # Unsigned
                               \/ \E k \in Jobs : Reader(k) /\ r = jobs[k].rec
  BY <1>1, SignedIs
<1>3. \A r \in Signed' : r \in Signed \/ (r = ownRow'.rec /\ ownRow'.there /\ r # Unsigned)
  BY <1>2, SignedIs
<1>4. ASSUME ownRow'.rec = ownRow.rec, ownRow'.there = ownRow.there PROVE Signed' = Signed
  <2>1. \A r : r \in Signed' <=> r \in Signed
    BY <1>2, <1>4, SignedIs
  <2> QED
    BY <2>1
<1> QED
  BY <1>3, <1>4

LEMMA CreateSteps ==
  ASSUME OwnInv, OwnTypeOK, ~spoiled, NEW j \in Jobs, Insert(j) \/ OwnIt(j)
  PROVE  OwnInv'
<1>1. MeshVerifies /\ OneDocEach /\ NotMine
  BY DEF OwnInv
<1>2. ASSUME Insert(j) PROVE OwnInv'
  <2>1. /\ jobs[j].at = "insert" /\ Proceed(j, "own") /\ UNCHANGED <<mesh, savedDoc>>
        /\ ownRow' = Upserted(jobs[j].row.doc, Unsigned, 0, FALSE)
    BY <1>2 DEF Insert, At, Doc
  <2>2. Writer(j) /\ ~Reader(j) /\ WriterStands(j)
    BY <2>1, WhoIsAt
  <2>3. jobs[j].op = "create" /\ ~ownRow.there /\ Signed = {} /\ jobs[j].row.doc = savedDoc
    BY <2>1, <2>2 DEF WriterStands
  <2>4. [jobs[j] EXCEPT !.at = "own"] \in Tasks
    BY TaskShape DEF Tasks
  <2>5. /\ \A k \in Jobs : k # j => jobs'[k] = jobs[k]
        /\ jobs'[j].at = "own" /\ jobs'[j].op = jobs[j].op
    BY <2>1, <2>4, Proceeds
  <2>6. Unsigned \in Signatures /\ 0 \in Nat
    BY OwnConstants
  <2>7. /\ ownRow'.there /\ ownRow'.doc = savedDoc /\ ownRow'.rec = Unsigned
        /\ ownRow'.mine = ownRow.mine /\ ownRow'.published = ownRow.published
    <3>1. PICK d \in Sheets : d = savedDoc
      BY DEF OwnTypeOK
    <3>2. ownRow' = Upserted(d, Unsigned, 0, FALSE)
      BY <2>1, <2>3, <3>1
    <3> QED
      BY <2>6, <3>1, <3>2 DEF Upserted, OwnTypeOK, OwnRows
  <2>8. ~Reader(j)' /\ Engaged(j)'
    BY <2>3, <2>5 DEF Reader, Engaged, OnlyReads
  <2>9. Signed' = {}
    BY <2>1, <2>2, <2>3, <2>5, <2>7, <2>8, StepSigned
  <2>10. WriterStands(j)'
    BY <1>1, <2>1, <2>3, <2>5, <2>7, <2>9 DEF WriterStands, NotMine
  <2>11. MeshVerifies' /\ OneDocEach' /\ NotMine'
    BY <1>1, <2>1, <2>7, <2>9 DEF MeshVerifies, OneDocEach, NotMine
  <2> QED
    BY <2>1, <2>2, <2>5, <2>8, <2>10, <2>11, WriterSteps
<1>3. ASSUME OwnIt(j) PROVE OwnInv'
  <2>1. /\ jobs[j].at = "own" /\ Leave(j) /\ UNCHANGED <<mesh, savedDoc>>
    BY <1>3 DEF OwnIt, At
  <2>2. Writer(j) /\ ~Reader(j) /\ WriterStands(j)
    BY <2>1, WhoIsAt
  <2>3. /\ ~ownRow.published /\ Signed = {} /\ ownRow.there /\ ownRow.doc = savedDoc
        /\ ownRow.rec = Unsigned
    BY <2>1, <2>2 DEF WriterStands
  <2>4. ~Engaged(j)' /\ \A k \in Jobs : k # j => jobs'[k] = jobs[k]
    BY <2>1, Leaves
  <2>5. /\ ownRow'.there /\ ownRow'.doc = savedDoc /\ ownRow'.rec = Unsigned /\ ownRow'.mine
        /\ ~ownRow'.published
    BY <1>3, <2>3 DEF OwnIt, IfThere, OwnTypeOK, OwnRows
  <2>6. Signed' = {}
    BY <2>1, <2>2, <2>3, <2>4, <2>5, StepSigned DEF Reader
  <2>7. AtEase'
    BY <2>1, <2>5, <2>6, OwnConstants DEF AtEase, Bounded, Fits, EndsBuried
  <2>8. MeshVerifies' /\ OneDocEach' /\ NotMine'
    BY <1>1, <2>1, <2>5, <2>6 DEF MeshVerifies, OneDocEach, NotMine, MineHere
  <2> QED
    BY <2>1, <2>2, <2>4, <2>7, <2>8, WriterSteps
<1> QED
  BY <1>2, <1>3

LEMMA EditSteps ==
  ASSUME OwnInv, OwnTypeOK, ~spoiled, NEW j \in Jobs, WriteEdit(j) \/ Reread(j)
  PROVE  OwnInv'
<1>1. MeshVerifies /\ OneDocEach /\ NotMine /\ NotYetMade
  BY DEF OwnInv
<1>2. ASSUME WriteEdit(j) PROVE OwnInv'
  <2> DEFINE r == jobs[j].row
  <2>1. /\ jobs[j].at = "write" /\ UNCHANGED <<mesh, savedDoc>>
        /\ ownRow' = Upserted(jobs[j].rec.doc, r.rec, r.seq, r.due)
        /\ IF r.published THEN Proceed(j, "reread") ELSE Leave(j)
    BY <1>2 DEF WriteEdit, At
  <2>2. Writer(j) /\ ~Reader(j) /\ WriterStands(j)
    BY <2>1, WhoIsAt
  <2>3. /\ jobs[j].op = "edit" /\ MineHere /\ jobs[j].rec.doc = savedDoc /\ Bounded /\ Fits
        /\ r.published = ownRow.published /\ r.rec = ownRow.rec /\ r.seq = ownRow.seq
    BY <2>1, <2>2 DEF WriterStands, Agrees
  <2>4. [jobs[j] EXCEPT !.at = "reread"] \in Tasks
    BY TaskShape DEF Tasks
  <2>5. /\ \A k \in Jobs : k # j => jobs'[k] = jobs[k]
        /\ IF ownRow.published THEN jobs'[j].at = "reread" /\ jobs'[j].op = "edit" ELSE ~Engaged(j)'
    BY <2>1, <2>3, <2>4, Proceeds, Leaves
  <2>6. ownRow' = Upserted(savedDoc, ownRow.rec, ownRow.seq, r.due)
    BY <2>1, <2>3
  <2>7. /\ savedDoc \in Sheets /\ ownRow.rec \in Signatures /\ ownRow.seq \in Nat /\ r.due \in BOOLEAN
    BY TaskShape DEF OwnTypeOK, OwnRows
  <2>8. /\ ownRow'.there /\ ownRow'.doc = savedDoc /\ ownRow'.rec = ownRow.rec
        /\ ownRow'.seq = ownRow.seq /\ ownRow'.mine = ownRow.mine
        /\ ownRow'.published = ownRow.published
    BY <2>6, <2>7, UpsertedIs
  <2>9. ~Reader(j)' /\ (ownRow.published => Engaged(j)')
    BY <2>5 DEF Reader, Engaged, OnlyReads
  <2>10. Signed' = Signed /\ MineHere'
    BY <2>1, <2>2, <2>3, <2>5, <2>8, <2>9, StepSigned DEF MineHere
  <2>11. Bounded' /\ (EndsBuried => EndsBuried')
    BY <2>1, <2>3, <2>8, <2>10 DEF Bounded, EndsBuried
  <2>12. ownRow.published => WriterStands(j)'
    BY <2>1, <2>5, <2>8, <2>10, <2>11 DEF WriterStands
  <2>13. ~ownRow.published => AtEase'
    BY <2>1, <2>3, <2>8, <2>10, <2>11 DEF AtEase, Fits
  <2>14. MeshVerifies' /\ OneDocEach' /\ NotMine'
    BY <1>1, <2>1, <2>8, <2>10 DEF MeshVerifies, OneDocEach, NotMine
  <2> QED
    BY <2>1, <2>2, <2>3, <2>5, <2>9, <2>12, <2>13, <2>14, WriterSteps
<1>3. ASSUME Reread(j) PROVE OwnInv'
  <2>1. jobs[j].at = "reread" /\ UNCHANGED <<ownRow, mesh, savedDoc>>
    BY <1>3 DEF Reread, At
  <2>2. Writer(j) /\ ~Reader(j) /\ WriterStands(j)
    BY <2>1, WhoIsAt
  <2>3. /\ jobs[j].op = "edit" /\ MineHere /\ ownRow.published /\ ownRow.doc = savedDoc /\ Bounded
    BY <2>1, <2>2 DEF WriterStands
  <2>4. PICK new \in Tasks : new = [jobs[j] EXCEPT !.at = "sign", !.row = ownRow]
    BY TaskShape DEF Tasks, OwnTypeOK
  <2>5. jobs' = [jobs EXCEPT ![j] = new]
    BY <1>3, <2>3, <2>4 DEF Reread, OwnTypeOK
  <2>6. new.at = "sign" /\ new.row = ownRow /\ new.op = "edit"
    BY <2>3, <2>4, TaskShape DEF Tasks
  <2>7. jobs'[j] = new /\ \A k \in Jobs : k # j => jobs'[k] = jobs[k]
    BY <2>5, OneJobMoves
  <2>8. ~Reader(j)' /\ Engaged(j)'
    BY <2>6, <2>7 DEF Reader, Engaged, OnlyReads
  <2>9. Signed' = Signed /\ MineHere'
    BY <2>1, <2>2, <2>3, <2>7, <2>8, StepSigned DEF MineHere
  <2>10. WriterStands(j)'
    BY <2>1, <2>3, <2>6, <2>7, <2>9 DEF WriterStands, Agrees, Bounded
  <2>11. MeshVerifies' /\ OneDocEach' /\ NotMine'
    BY <1>1, <2>1, <2>9 DEF MeshVerifies, OneDocEach, NotMine
  <2> QED
    BY <2>1, <2>2, <2>3, <2>6, <2>7, <2>8, <2>10, <2>11, WriterSteps
<1> QED
  BY <1>2, <1>3

LEMMA SignSteps ==
  ASSUME OwnInv, OwnTypeOK, ~spoiled, ~spoiled', NEW j \in Jobs, SignNext(j)
  PROVE  OwnInv'
<1>1. MeshVerifies /\ OneDocEach /\ NotMine
  BY DEF OwnInv
<1>2. jobs[j].at = "sign" /\ UNCHANGED <<ownRow, mesh, savedDoc>>
  BY DEF SignNext, At
<1>3. Writer(j) /\ ~Reader(j) /\ WriterStands(j)
  BY <1>2, WhoIsAt
<1>4. /\ MineHere /\ Agrees(jobs[j].row) /\ ownRow.doc = savedDoc /\ Bounded
      /\ jobs[j].op \in {"edit", "share", "renew", "unshare", "remove"}
      /\ jobs[j].op # "edit" => Fits
      /\ jobs[j].op # "share" => ownRow.published
  BY <1>2, <1>3 DEF WriterStands
<1>5. ASSUME ~Reader(j)' /\ \A k \in Jobs : k # j => jobs'[k] = jobs[k]
      PROVE  /\ Signed' = Signed /\ MineHere' /\ (\A row : Agrees(row) => Agrees(row)') /\ Bounded' /\ (Fits => Fits')
             /\ MeshVerifies' /\ OneDocEach' /\ NotMine'
  <2>1. Signed' = Signed
    BY <1>2, <1>3, <1>5, StepSigned
  <2>2. MineHere' /\ Bounded' /\ (Fits => Fits')
    BY <1>2, <1>4, <2>1 DEF MineHere, Bounded, Fits, EndsBuried
  <2>3. MeshVerifies' /\ OneDocEach' /\ NotMine'
    BY <1>1, <1>2, <2>1 DEF MeshVerifies, OneDocEach, NotMine, MineHere
  <2> QED
    BY <1>2, <1>4, <2>1, <2>2, <2>3 DEF Agrees
<1>6. CASE keyHere
  <2>1. PICK rec \in Signatures : rec = [doc |-> Tells(j), seq |-> NextNumber(jobs[j].row.seq)]
    <3>1. Tells(j) \in Sheets /\ NextNumber(jobs[j].row.seq) \in Nat
      BY TaskShape, OwnConstants DEF Tells, Doc, NextNumber
    <3> QED
      BY <3>1 DEF Signatures
  <2>2. rec = [doc |-> IF jobs[j].op \in {"unshare", "remove"} THEN Buried ELSE ownRow.doc,
               seq |-> ownRow.seq + 1]
    BY <1>4, <2>1 DEF Tells, Doc, Retracts, NextNumber, Agrees
  <2>3. PICK new \in Tasks :
          new = [jobs[j] EXCEPT !.rec = rec, !.at = IF Retracts(j) THEN "send" ELSE "store"]
    BY TaskShape DEF Tasks
  <2>4. jobs' = [jobs EXCEPT ![j] = new]
    BY <1>6, <2>1, <2>3 DEF SignNext, OwnTypeOK
  <2>5. /\ new.at = IF Retracts(j) THEN "send" ELSE "store"
        /\ new.rec = rec /\ new.op = jobs[j].op /\ new.row = jobs[j].row
    BY <2>3, TaskShape DEF Tasks
  <2>6. jobs'[j] = new /\ \A k \in Jobs : k # j => jobs'[k] = jobs[k]
    BY <2>4, OneJobMoves
  <2>7. ~Reader(j)' /\ Engaged(j)'
    BY <1>4, <2>5, <2>6 DEF Reader, Engaged, OnlyReads
  <2>8. /\ Signed' = Signed /\ MineHere' /\ (\A row : Agrees(row) => Agrees(row)') /\ Bounded' /\ (Fits => Fits')
        /\ MeshVerifies' /\ OneDocEach' /\ NotMine'
    BY <1>5, <2>6, <2>7
  <2>9. Agrees(new.row)' /\ ownRow' = ownRow /\ savedDoc' = savedDoc
    BY <1>2, <1>4, <2>5 DEF Agrees
  <2>10. WriterStands(j)'
    <3>1. CASE Retracts(j)
      <4>1. AtEase'
        BY <1>4, <2>8, <2>9, <3>1 DEF AtEase, Retracts
      <4> QED
        BY <1>4, <2>2, <2>5, <2>6, <2>8, <2>9, <3>1, <4>1 DEF WriterStands, Retracts
    <3>2. CASE ~Retracts(j)
      <4>1. new.at = "store" /\ new.op \in {"edit", "share", "renew"}
        BY <1>4, <2>5, <3>2 DEF Retracts
      <4> QED
        BY <1>4, <2>2, <2>5, <2>6, <2>8, <2>9, <4>1 DEF WriterStands
    <3> QED
      BY <3>1, <3>2
  <2> QED
    BY <1>2, <1>3, <2>5, <2>6, <2>7, <2>8, <2>10, WriterSteps
<1>7. CASE ~keyHere
  <2>1. jobs[j].op \in {"share", "renew"}
    BY <1>4, <1>7 DEF SignNext
  <2>2. Leave(j)
    BY <1>7, <2>1 DEF SignNext
  <2>3. ~Engaged(j)' /\ ~Reader(j)' /\ \A k \in Jobs : k # j => jobs'[k] = jobs[k]
    BY <2>2, Leaves DEF Reader
  <2>4. AtEase' /\ MeshVerifies' /\ OneDocEach' /\ NotMine'
    BY <1>2, <1>4, <1>5, <2>1, <2>3 DEF AtEase
  <2> QED
    BY <1>2, <1>3, <2>3, <2>4, WriterSteps
<1> QED
  BY <1>6, <1>7

LEMMA StoreSteps ==
  ASSUME OwnInv, OwnTypeOK, ~spoiled, NEW j \in Jobs, StoreRecord(j) \/ Flag(j)
  PROVE  OwnInv'
<1>1. MeshVerifies /\ OneDocEach /\ NotMine /\ NotYetMade
  BY DEF OwnInv
<1>2. ASSUME StoreRecord(j) PROVE OwnInv'
  <2>1. jobs[j].at = "store" /\ UNCHANGED <<mesh, savedDoc>>
    BY <1>2 DEF StoreRecord, At
  <2>2. Writer(j) /\ ~Reader(j) /\ WriterStands(j)
    BY <2>1, WhoIsAt
  <2>3. /\ MineHere /\ Agrees(jobs[j].row) /\ ownRow.doc = savedDoc /\ Bounded
        /\ jobs[j].rec = [doc |-> ownRow.doc, seq |-> ownRow.seq + 1]
        /\ jobs[j].op \in {"edit", "share", "renew"}
        /\ jobs[j].op = "renew" => Fits /\ ownRow.published
    BY <2>1, <2>2 DEF WriterStands
  <2>4. PICK rec \in Signatures : rec = jobs[j].rec
    BY TaskShape
  <2>5. /\ rec = [doc |-> ownRow.doc, seq |-> ownRow.seq + 1] /\ rec.doc = ownRow.doc
        /\ rec.seq = ownRow.seq + 1 /\ ownRow.seq \in Nat /\ rec.seq \in Nat /\ rec # Unsigned
    <3>1. rec = [doc |-> ownRow.doc, seq |-> ownRow.seq + 1] /\ ownRow.seq \in Nat
      BY <2>3, <2>4 DEF OwnTypeOK, OwnRows
    <3> QED
      BY <3>1, OwnConstants
  <2>6. \A at \in {"send", "flag"} : [jobs[j] EXCEPT !.at = at] \in Tasks
    BY TaskShape DEF Tasks
  <2>7. /\ \A k \in Jobs : k # j => jobs'[k] = jobs[k]
        /\ jobs'[j].at = IF jobs[j].op = "renew" THEN "send" ELSE "flag"
        /\ jobs'[j].op = jobs[j].op /\ jobs'[j].row = jobs[j].row /\ jobs'[j].rec = rec
    BY <1>2, <2>4, <2>6, Proceeds DEF StoreRecord
  <2>8. /\ ownRow'.there /\ ownRow'.mine /\ ownRow'.doc = ownRow.doc /\ ownRow'.rec = rec
        /\ ownRow'.seq = ownRow.seq + 1 /\ ownRow'.published = ownRow.published
    <3>1. CASE jobs[j].op = "renew"
      <4>1. ownRow' = [ownRow EXCEPT !.rec = rec, !.seq = rec.seq, !.due = FALSE]
        BY <1>2, <2>3, <2>4, <3>1 DEF StoreRecord, IfThere, MineHere
      <4> QED
        BY <2>3, <2>5, <4>1 DEF OwnTypeOK, OwnRows, MineHere
    <3>2. CASE jobs[j].op # "renew"
      <4>1. PICK d \in Sheets : d = ownRow.doc
        BY DEF OwnTypeOK, OwnRows
      <4>2. ownRow' = Upserted(d, rec, rec.seq, FALSE)
        BY <1>2, <2>3, <2>4, <3>2, <4>1 DEF StoreRecord, Doc, Agrees
      <4>3. /\ ownRow'.there /\ ownRow'.mine = ownRow.mine /\ ownRow'.doc = d /\ ownRow'.rec = rec
            /\ ownRow'.seq = rec.seq /\ ownRow'.published = ownRow.published
        BY <2>5, <4>2 DEF Upserted, OwnTypeOK, OwnRows
      <4> QED
        BY <2>3, <2>5, <4>1, <4>3 DEF MineHere
    <3> QED
      BY <3>1, <3>2
  <2>9. ~Reader(j)' /\ Engaged(j)' /\ MineHere'
    BY <2>3, <2>7, <2>8 DEF Reader, Engaged, OnlyReads, MineHere
  <2>10. \A r \in Signed' : r \in Signed \/ r = rec
    BY <2>1, <2>2, <2>7, <2>8, <2>9, StepSigned
  <2>11. \A r \in Signed : r.seq \in Nat /\ r.seq <= ownRow.seq
    BY <2>3, SignedTyped DEF Bounded
  <2>12. Bounded'
    BY <2>5, <2>8, <2>10, <2>11 DEF Bounded
  <2>13. OneDocEach'
    BY <1>1, <2>5, <2>10, <2>11 DEF OneDocEach
  <2>14. WriterStands(j)'
    <3>1. CASE jobs[j].op = "renew"
      <4>1. Fits'
        BY <2>3, <2>5, <2>8, <3>1 DEF Fits
      <4>2. AtEase'
        BY <2>1, <2>3, <2>8, <2>12, <4>1 DEF AtEase
      <4> QED
        BY <2>3, <2>5, <2>7, <2>8, <2>9, <3>1, <4>2 DEF WriterStands, Agrees
    <3>2. CASE jobs[j].op # "renew"
      BY <2>1, <2>3, <2>5, <2>7, <2>8, <2>9, <2>12, <3>2 DEF WriterStands, Agrees
    <3> QED
      BY <3>1, <3>2
  <2>15. MeshVerifies' /\ NotMine'
    BY <1>1, <2>1, <2>8, <2>9 DEF MeshVerifies, NotMine
  <2> QED
    BY <2>1, <2>2, <2>7, <2>9, <2>13, <2>14, <2>15, WriterSteps
<1>3. ASSUME Flag(j) PROVE OwnInv'
  <2>1. /\ jobs[j].at = "flag" /\ UNCHANGED <<mesh, savedDoc>> /\ Proceed(j, "send")
    BY <1>3 DEF Flag, At
  <2>2. Writer(j) /\ ~Reader(j) /\ WriterStands(j)
    BY <2>1, WhoIsAt
  <2>3. /\ jobs[j].op \in {"edit", "share"} /\ MineHere /\ ownRow.doc = savedDoc /\ Bounded
        /\ jobs[j].rec = ownRow.rec /\ jobs[j].row.doc = ownRow.doc
        /\ ownRow.rec = [doc |-> ownRow.doc, seq |-> ownRow.seq]
    BY <2>1, <2>2 DEF WriterStands
  <2>4. [jobs[j] EXCEPT !.at = "send"] \in Tasks
    BY TaskShape DEF Tasks
  <2>5. /\ \A k \in Jobs : k # j => jobs'[k] = jobs[k]
        /\ jobs'[j].at = "send" /\ jobs'[j].op = jobs[j].op /\ jobs'[j].row = jobs[j].row
        /\ jobs'[j].rec = jobs[j].rec
    BY <2>1, <2>4, Proceeds
  <2>6. ownRow' = [ownRow EXCEPT !.published = TRUE]
    BY <1>3, <2>3 DEF Flag, IfThere, MineHere
  <2>7. /\ ownRow'.there /\ ownRow'.mine /\ ownRow'.doc = ownRow.doc /\ ownRow'.rec = ownRow.rec
        /\ ownRow'.seq = ownRow.seq /\ ownRow'.published
    BY <2>3, <2>6 DEF OwnTypeOK, OwnRows, MineHere
  <2>8. ~Reader(j)' /\ Engaged(j)' /\ MineHere'
    BY <2>3, <2>5, <2>7 DEF Reader, Engaged, OnlyReads, MineHere
  <2>9. Signed' = Signed
    BY <2>1, <2>2, <2>3, <2>5, <2>7, <2>8, StepSigned DEF MineHere
  <2>10. AtEase'
    BY <2>1, <2>3, <2>7, <2>9 DEF AtEase, Fits, Bounded
  <2>11. savedDoc # Buried
    BY <1>1, <2>2 DEF NotYetMade, Writer
  <2>12. WriterStands(j)'
    <3>1. ownRow.rec.doc = ownRow.doc /\ ownRow.rec # Unsigned
      BY <2>3, <2>11, OwnConstants
    <3> QED
      BY <2>3, <2>5, <2>7, <2>8, <2>10, <3>1 DEF WriterStands
  <2>13. MeshVerifies' /\ NotMine' /\ OneDocEach'
    BY <1>1, <2>1, <2>7, <2>8, <2>9 DEF MeshVerifies, NotMine, OneDocEach
  <2> QED
    BY <2>1, <2>2, <2>5, <2>8, <2>12, <2>13, WriterSteps
<1> QED
  BY <1>2, <1>3

(* What a task that is not a mere reader sends.                            *)
LEMMA WriterSends ==
  ASSUME OwnInv, OwnTypeOK, ~spoiled, NEW j \in Jobs, Writer(j), Send(j) \/ SendFails(j)
  PROVE  OwnInv'
<1>1. MeshVerifies /\ OneDocEach /\ NotMine /\ TasksStand
  BY DEF OwnInv
<1>2. jobs[j].at = "send" /\ UNCHANGED <<ownRow, savedDoc>> /\ WriterStands(j) /\ ~Reader(j)
  BY <1>1 DEF Send, SendFails, At, TasksStand, Writer, Reader
<1>3. /\ MineHere /\ AtEase
      /\ \/ /\ jobs[j].op \in {"edit", "share", "renew"} /\ jobs[j].rec = ownRow.rec
            /\ jobs[j].rec # Unsigned /\ jobs[j].row.doc = jobs[j].rec.doc
         \/ /\ jobs[j].op \in {"unshare", "remove"} /\ ownRow.published
            /\ jobs[j].rec = [doc |-> Buried, seq |-> ownRow.seq + 1]
  BY <1>2 DEF WriterStands
<1>4. ownRow.doc = savedDoc /\ Bounded /\ Fits
  BY <1>3 DEF AtEase
<1>5. PICK rec \in Signatures : rec = jobs[j].rec /\ rec = [doc |-> rec.doc, seq |-> rec.seq]
  BY TaskShape DEF Signatures
<1>6. \A at \in {"retire", "delete"} : [jobs[j] EXCEPT !.at = at] \in Tasks
  BY TaskShape DEF Tasks
<1>7. \A at \in {"retire", "delete"} : Proceed(j, at) =>
        /\ \A k \in Jobs : k # j => jobs'[k] = jobs[k]
        /\ jobs'[j].at = at /\ jobs'[j].op = jobs[j].op /\ jobs'[j].rec = rec
  BY <1>5, <1>6, Proceeds
<1>8. Leave(j) => ~Engaged(j)' /\ \A k \in Jobs : k # j => jobs'[k] = jobs[k]
  BY Leaves
<1>9. MineHere' /\ ownRow.seq \in Nat
  BY <1>2, <1>3 DEF MineHere, OwnTypeOK, OwnRows
<1>10. CASE SendFails(j)
  <2>1. mesh' = mesh /\ IF jobs[j].op = "remove" THEN Proceed(j, "delete") ELSE Leave(j)
    BY <1>10 DEF SendFails
  <2>2. /\ \A k \in Jobs : k # j => jobs'[k] = jobs[k]
        /\ IF jobs[j].op = "remove" THEN jobs'[j].at = "delete" /\ jobs'[j].op = "remove"
           ELSE ~Engaged(j)'
    BY <1>7, <1>8, <2>1
  <2>3. ~Reader(j)' /\ (jobs[j].op = "remove" => Engaged(j)')
    BY <2>2 DEF Reader, Engaged, OnlyReads
  <2>4. Signed' = Signed
    BY <1>2, <2>1, <2>2, <2>3, StepSigned
  <2>5. AtEase' /\ MeshVerifies' /\ OneDocEach' /\ NotMine'
    BY <1>1, <1>2, <1>4, <1>9, <2>1, <2>4
       DEF AtEase, Bounded, Fits, EndsBuried, MeshVerifies, OneDocEach, NotMine
  <2>6. jobs[j].op = "remove" => WriterStands(j)'
    BY <2>2, <2>5 DEF WriterStands
  <2> QED
    BY <1>2, <2>2, <2>3, <2>5, <2>6, WriterSteps
<1>11. CASE Send(j)
  <2>1. PICK m : /\ m = [payload |-> Tells(j), doc |-> rec.doc, seq |-> rec.seq]
                 /\ mesh' = mesh \cup {m}
    BY <1>5, <1>11 DEF Send
  <2>2. m.doc = rec.doc /\ m.seq = rec.seq /\ m.payload = rec.doc
    BY <1>3, <1>5, <2>1 DEF Tells, Retracts, Doc
  <2>3. MeshVerifies'
    BY <1>1, <2>1, <2>2 DEF MeshVerifies
  <2>4. /\ \A k \in Jobs : k # j => jobs'[k] = jobs[k]
        /\ IF Retracts(j) THEN jobs'[j].at = "retire" /\ jobs'[j].op = jobs[j].op /\ jobs'[j].rec = rec
           ELSE ~Engaged(j)'
    BY <1>7, <1>8, <1>11 DEF Send
  <2>5. ~Reader(j)' /\ (Retracts(j) => Engaged(j)')
    BY <2>4 DEF Reader, Engaged, OnlyReads, Retracts
  <2>6. \A r \in Signed' : r \in Signed \/ r = rec
    <3>1. \A r : (\E k \in Jobs : Reader(k)' /\ r = jobs'[k].rec) => \E k \in Jobs : Reader(k) /\ r = jobs[k].rec
      BY <1>2, <2>4, <2>5 DEF Reader, Engaged
    <3>2. \A r : (\E n \in mesh' : r = [doc |-> n.doc, seq |-> n.seq])
                   => r = rec \/ \E n \in mesh : r = [doc |-> n.doc, seq |-> n.seq]
      BY <1>5, <2>1, <2>2
    <3> QED
      BY <1>2, <3>1, <3>2, SignedIs
  <2>7. NotMine'
    BY <1>1, <1>2, <1>9 DEF NotMine
  <2>8. CASE Retracts(j)
    <3>1. /\ jobs[j].op \in {"unshare", "remove"} /\ ownRow.published
          /\ rec = [doc |-> Buried, seq |-> ownRow.seq + 1]
      BY <1>3, <1>5, <2>8 DEF Retracts
    <3>2. rec.doc = Buried /\ rec.seq = ownRow.seq + 1
      BY <3>1
    <3>3. \A r \in Signed : r.seq \in Nat /\ r.seq <= ownRow.seq
      BY <1>4, SignedTyped DEF Bounded
    <3>4. OneDocEach'
      BY <1>1, <1>9, <2>6, <3>2, <3>3 DEF OneDocEach
    <3>5. Fits'
      BY <1>2, <1>4, <3>1 DEF Fits
    <3>6. WriterStands(j)'
      BY <1>2, <1>4, <1>9, <2>1, <2>2, <2>4, <2>6, <2>8, <3>1, <3>3, <3>5 DEF WriterStands
    <3> QED
      BY <1>2, <2>3, <2>4, <2>5, <2>7, <2>8, <3>4, <3>6, WriterSteps
  <2>9. CASE ~Retracts(j)
    <3>1. rec = ownRow.rec /\ rec # Unsigned /\ ownRow.there
      BY <1>3, <1>5, <2>9 DEF Retracts, MineHere
    <3>2. Signed' \subseteq Signed /\ mesh \subseteq mesh' /\ SameRow
      BY <1>2, <2>1, <2>6, <3>1, SignedIs DEF SameRow
    <3>3. AtEase' /\ OneDocEach'
      BY <1>1, <1>2, <1>3, <3>2, RowRests DEF OneDocEach
    <3> QED
      BY <1>2, <2>3, <2>4, <2>7, <2>9, <3>3, WriterSteps
  <2> QED
    BY <2>8, <2>9
<1> QED
  BY <1>10, <1>11

LEMMA RetractSteps ==
  ASSUME OwnInv, OwnTypeOK, ~spoiled, NEW j \in Jobs, BuryOwn(j) \/ MakePrivate(j)
  PROVE  OwnInv'
<1>1. MeshVerifies /\ OneDocEach /\ NotMine
  BY DEF OwnInv
<1>2. ASSUME BuryOwn(j) PROVE OwnInv'
  <2>1. jobs[j].at = "retire" /\ UNCHANGED <<mesh, savedDoc>>
    BY <1>2 DEF BuryOwn, At
  <2>2. Writer(j) /\ ~Reader(j) /\ WriterStands(j)
    BY <2>1, WhoIsAt
  <2>3. PICK rec \in Signatures : rec = jobs[j].rec
    BY TaskShape
  <2>4. /\ jobs[j].op \in {"unshare", "remove"} /\ MineHere /\ ownRow.doc = savedDoc
        /\ rec = [doc |-> Buried, seq |-> ownRow.seq + 1] /\ Fits /\ ownRow.published
        /\ \A r \in Signed : r.seq <= ownRow.seq \/ r = rec
        /\ \E m \in mesh : m.doc = rec.doc /\ m.seq = rec.seq
    BY <2>1, <2>2, <2>3 DEF WriterStands
  <2>5. /\ rec.doc = Buried /\ rec.seq = ownRow.seq + 1 /\ ownRow.seq \in Nat
    BY <2>4 DEF OwnTypeOK, OwnRows
  <2>6. \A at \in {"private", "delete"} : [jobs[j] EXCEPT !.at = at] \in Tasks
    BY TaskShape DEF Tasks
  <2>7. /\ \A k \in Jobs : k # j => jobs'[k] = jobs[k]
        /\ jobs'[j].at = IF jobs[j].op = "unshare" THEN "private" ELSE "delete"
        /\ jobs'[j].op = jobs[j].op
    BY <1>2, <2>6, Proceeds DEF BuryOwn
  <2>8. ownRow' = [ownRow EXCEPT !.seq = rec.seq, !.rec = rec, !.tomb = TRUE]
    BY <1>2, <2>3, <2>4 DEF BuryOwn, IfThere, MineHere
  <2>9. /\ ownRow'.there /\ ownRow'.mine /\ ownRow'.doc = ownRow.doc /\ ownRow'.rec = rec
        /\ ownRow'.seq = ownRow.seq + 1 /\ ownRow'.published /\ ownRow'.tomb
    BY <2>4, <2>5, <2>8 DEF OwnTypeOK, OwnRows, MineHere
  <2>10. ~Reader(j)' /\ Engaged(j)' /\ MineHere'
    BY <2>4, <2>7, <2>9 DEF Reader, Engaged, OnlyReads, MineHere
  <2>11. \A r \in Signed' : r \in Signed \/ r = rec
    BY <2>1, <2>2, <2>7, <2>9, <2>10, StepSigned
  <2>12. \A r \in Signed : r.seq \in Nat
    BY SignedTyped
  <2>13. Bounded'
    BY <2>4, <2>5, <2>9, <2>11, <2>12 DEF Bounded
  <2>14. [doc |-> rec.doc, seq |-> rec.seq] \in Signed /\ rec = [doc |-> rec.doc, seq |-> rec.seq]
    BY <2>4, SignedIs DEF Signatures
  <2>15. OneDocEach'
    BY <1>1, <2>11, <2>14 DEF OneDocEach
  <2>16. AtEase' /\ EndsBuried'
    BY <2>1, <2>4, <2>5, <2>9, <2>13 DEF AtEase, Fits, EndsBuried
  <2>17. WriterStands(j)'
    BY <2>4, <2>5, <2>7, <2>9, <2>16 DEF WriterStands
  <2>18. MeshVerifies' /\ NotMine'
    BY <1>1, <2>1, <2>9, <2>10 DEF MeshVerifies, NotMine
  <2> QED
    BY <2>1, <2>2, <2>7, <2>10, <2>15, <2>17, <2>18, WriterSteps
<1>3. ASSUME MakePrivate(j) PROVE OwnInv'
  <2>1. jobs[j].at = "private" /\ UNCHANGED <<mesh, savedDoc>> /\ Leave(j)
    BY <1>3 DEF MakePrivate, At
  <2>2. Writer(j) /\ ~Reader(j) /\ WriterStands(j)
    BY <2>1, WhoIsAt
  <2>3. AtEase /\ (MineHere => ownRow.rec.doc = Buried /\ EndsBuried)
    BY <2>1, <2>2 DEF WriterStands
  <2>4. ~Engaged(j)' /\ ~Reader(j)' /\ \A k \in Jobs : k # j => jobs'[k] = jobs[k]
    BY <2>1, Leaves DEF Reader
  <2>5. /\ ownRow'.there = ownRow.there /\ ownRow'.mine = ownRow.mine /\ ownRow'.doc = ownRow.doc
        /\ ownRow'.rec = ownRow.rec /\ ownRow'.seq = ownRow.seq
        /\ ownRow'.published = (ownRow.published /\ ~ownRow.there)
    BY <1>1, <1>3 DEF MakePrivate, IfThere, OwnTypeOK, OwnRows, NotMine
  <2>6. Signed' = Signed /\ MineHere' = MineHere
    BY <2>1, <2>2, <2>4, <2>5, StepSigned DEF MineHere
  <2>7. AtEase'
    BY <2>1, <2>3, <2>5, <2>6 DEF AtEase, Bounded, Fits, EndsBuried, MineHere
  <2>8. MeshVerifies' /\ NotMine' /\ OneDocEach'
    BY <1>1, <2>1, <2>5, <2>6 DEF MeshVerifies, NotMine, OneDocEach
  <2> QED
    BY <2>1, <2>2, <2>4, <2>7, <2>8, WriterSteps
<1> QED
  BY <1>2, <1>3

(* Steps after which the row is not the user's.                            *)
LEMMA ForeignSteps ==
  ASSUME OwnInv, OwnTypeOK, ~spoiled, NEW j \in Jobs,
         Delete(j) \/ Forget(j) \/ TakeIn(j) \/ EvictRow(j)
  PROVE  OwnInv'
<1>1. MeshVerifies /\ OneDocEach /\ NotMine
  BY DEF OwnInv
<1>2. jobs[j].at \in {"delete", "forget", "take", "evict"} /\ UNCHANGED <<mesh, savedDoc>>
  BY DEF Delete, Forget, TakeIn, EvictRow, At
<1>3. Writer(j) /\ ~Reader(j) /\ WriterStands(j)
  BY <1>2, WhoIsAt
<1>4. [jobs[j] EXCEPT !.at = "forget"] \in Tasks
  BY TaskShape DEF Tasks
<1>5. /\ \A k \in Jobs : k # j => jobs'[k] = jobs[k]
      /\ IF Delete(j) THEN jobs'[j].at = "forget" /\ jobs'[j].op = jobs[j].op ELSE ~Engaged(j)'
  BY <1>4, Proceeds, Leaves DEF Delete, Forget, TakeIn, EvictRow
<1>6. ~Reader(j)' /\ (Delete(j) => Engaged(j)')
  BY <1>2, <1>3, <1>5 DEF Reader, Engaged, OnlyReads, Delete, WriterStands, At
<1>7. ASSUME TakeIn(j)
      PROVE  /\ ownRow'.there /\ ~ownRow'.mine /\ ownRow'.doc = ownRow'.rec.doc
             /\ ownRow'.rec \in Signed
  <2>1. /\ ~MineHere /\ jobs[j].row.doc = jobs[j].rec.doc
        /\ \E m \in mesh : m.doc = jobs[j].rec.doc /\ m.seq = jobs[j].rec.seq
    BY <1>3, <1>7 DEF TakeIn, At, WriterStands
  <2>2. ~ownRow.mine
    BY <1>1, <2>1 DEF NotMine, MineHere
  <2>3. PICK rec \in Signatures : rec = jobs[j].rec
    BY TaskShape
  <2>4. ownRow' = Upserted(rec.doc, rec, rec.seq, FALSE)
    BY <1>7, <2>1, <2>3 DEF TakeIn, Doc
  <2>5. ownRow'.there /\ ~ownRow'.mine /\ ownRow'.doc = rec.doc /\ ownRow'.rec = rec
    BY <2>2, <2>4 DEF Upserted, OwnTypeOK, OwnRows
  <2>6. rec \in Signed
    BY <2>1, <2>3, SignedIs DEF Signatures
  <2> QED
    BY <2>5, <2>6
<1>8. ASSUME Delete(j) \/ EvictRow(j) PROVE ownRow' = Vacant
  BY <1>8 DEF Delete, EvictRow
<1>9. ASSUME Forget(j) PROVE UNCHANGED ownRow /\ ~MineHere
  BY <1>3, <1>9 DEF Forget, At, WriterStands
<1>10. /\ ~MineHere' /\ (~ownRow'.there => ~ownRow'.mine /\ ~ownRow'.published)
       /\ ownRow'.there /\ ownRow'.rec # Unsigned => ownRow'.doc = ownRow'.rec.doc
       /\ ownRow'.there /\ ownRow'.rec # Unsigned => ownRow'.rec \in Signed
  BY <1>1, <1>7, <1>8, <1>9, OwnConstants, SignedIs DEF MineHere, NotMine
<1>11. \A r \in Signed' : r \in Signed
  BY <1>2, <1>3, <1>5, <1>6, <1>10, StepSigned
<1>12. MeshVerifies' /\ OneDocEach' /\ NotMine' /\ AtEase'
  BY <1>1, <1>2, <1>10, <1>11 DEF MeshVerifies, OneDocEach, NotMine, AtEase
<1>13. Delete(j) => WriterStands(j)'
  <2> SUFFICES ASSUME Delete(j) PROVE WriterStands(j)'
    OBVIOUS
  <2>1. jobs[j].op = "remove"
    BY <1>3 DEF Delete, At, WriterStands
  <2> QED
    BY <1>5, <1>10, <2>1 DEF WriterStands
<1> QED
  BY <1>2, <1>3, <1>5, <1>6, <1>12, <1>13, WriterSteps

(* What a mere reader sends was fit to send when it read the row.          *)
LEMMA ReaderSends ==
  ASSUME OwnInv, OwnTypeOK, ~spoiled, NEW j \in Jobs, Reader(j), Send(j) \/ SendFails(j)
  PROVE  OwnInv'
<1>1. MeshVerifies /\ OneDocEach /\ NotYetMade /\ TasksStand
  BY DEF OwnInv
<1>2. jobs[j].row.doc = jobs[j].rec.doc /\ jobs[j].op \in {"announce", "answer"}
  BY <1>1 DEF TasksStand, ReaderStands, Reader, OnlyReads
<1>3. Leave(j) /\ UNCHANGED <<ownRow, savedDoc>>
  BY <1>2 DEF Send, SendFails, Retracts
<1>4. ~Engaged(j)' /\ ~Reader(j)' /\ \A k \in Jobs : k # j => jobs'[k] = jobs[k]
  BY <1>3, Leaves DEF Reader
<1>5. PICK rec \in Signatures : rec = jobs[j].rec /\ rec = [doc |-> rec.doc, seq |-> rec.seq]
  BY TaskShape DEF Signatures
<1>6. rec \in Signed
  BY <1>5, SignedIs
<1>7. /\ mesh \subseteq mesh' /\ MeshVerifies'
      /\ \A n \in mesh' : n \in mesh \/ [doc |-> n.doc, seq |-> n.seq] = rec
  <2>1. CASE SendFails(j)
    BY <1>1, <2>1 DEF SendFails, MeshVerifies
  <2>2. CASE Send(j)
    <3>1. PICK m : /\ m = [payload |-> Tells(j), doc |-> rec.doc, seq |-> rec.seq]
                   /\ mesh' = mesh \cup {m}
      BY <1>5, <2>2 DEF Send
    <3>2. m.doc = rec.doc /\ m.seq = rec.seq /\ m.payload = rec.doc
      BY <1>2, <1>5, <3>1 DEF Tells, Retracts, Doc
    <3> QED
      BY <1>1, <1>5, <3>1, <3>2 DEF MeshVerifies
  <2> QED
    BY <2>1, <2>2
<1>8. Signed' \subseteq Signed
  <2>1. \A r : (\E k \in Jobs : Reader(k)' /\ r = jobs'[k].rec) => \E k \in Jobs : Reader(k) /\ r = jobs[k].rec
    BY <1>4 DEF Reader, Engaged
  <2>2. \A r : (\E n \in mesh' : r = [doc |-> n.doc, seq |-> n.seq]) => r \in Signed
    BY <1>6, <1>7, SignedIs
  <2> QED
    BY <1>3, <2>1, <2>2, SignedIs
<1>9. savedDoc # Buried
  BY <1>1 DEF NotYetMade, Reader
<1>10. SameRow
  BY <1>3 DEF SameRow
<1> QED
  BY <1>3, <1>4, <1>7, <1>8, <1>9, <1>10, OthersGoOn

LEMMA ReaderEnters ==
  ASSUME OwnInv, OwnTypeOK, ~spoiled, ~spoiled', NEW j \in Jobs, NEW op \in {"announce", "answer"},
         Disclosed, ownRow.rec # Unsigned, Enter(j, op, "send", ownRow, ownRow.rec),
         UNCHANGED <<ownRow, mesh, savedDoc>>
  PROVE  OwnInv'
<1>1. MeshVerifies /\ OneDocEach /\ NotYetMade /\ TasksStand /\ Apart /\ NotMine
  BY DEF OwnInv
<1>2. [op |-> op, at |-> "send", row |-> ownRow, rec |-> ownRow.rec] \in Tasks
  BY DEF Tasks, OwnTypeOK, OwnRows
<1>3. /\ ~Engaged(j) /\ \A k \in Jobs : k # j => jobs'[k] = jobs[k]
      /\ jobs'[j].at = "send" /\ jobs'[j].op = op /\ jobs'[j].row = ownRow
      /\ jobs'[j].rec = ownRow.rec
      /\ \A k \in Jobs : Engaged(k) => ~Crosses(op, jobs[k].op)
  BY <1>2, Enters
<1>4. \A k \in Jobs : Engaged(k) => jobs[k].op # "edit"
  BY <1>3 DEF Crosses
<1>5. ownRow.rec.doc = ownRow.doc
  BY <1>4, RowFits
<1>6. /\ Reader(j)' /\ ReaderStands(j)' /\ ~Writer(j)' /\ ~Writer(j) /\ ~Reader(j)
      /\ \A k \in Jobs : k # j => /\ Engaged(k)' = Engaged(k) /\ Reader(k)' = Reader(k)
                                  /\ Writer(k)' = Writer(k)
  BY <1>3, <1>5 DEF Reader, Writer, ReaderStands, Engaged, OnlyReads
<1>7. Signed' = Signed
  <2>1. ownRow.rec \in Signed
    BY SignedIs DEF Disclosed, MineHere
  <2>2. \A r : (\E k \in Jobs : Reader(k)' /\ r = jobs'[k].rec)
               <=> r = ownRow.rec \/ \E k \in Jobs : Reader(k) /\ r = jobs[k].rec
    BY <1>3, <1>6
  <2> QED
    BY <2>1, <2>2, SignedIs
<1>8. Apart'
  <2>1. \A a, b : Crosses(a, b) = Crosses(b, a)
    BY DEF Crosses
  <2> QED
    BY <1>1, <1>3, <1>6, <2>1 DEF Apart
<1>9. TasksStand'
  <2>1. SameRow
    BY DEF SameRow
  <2>2. (\A k \in Jobs : ~Writer(k)') => AtEase'
    BY <1>1, <1>6, <1>7, <2>1, RowRests DEF TasksStand
  <2>3. \A k \in Jobs : Writer(k)' => WriterStands(k)'
    BY <1>1, <1>3, <1>6, <1>7, <2>1, WriterRests DEF TasksStand
  <2>4. \A k \in Jobs : Reader(k)' => ReaderStands(k)'
    BY <1>1, <1>3, <1>6 DEF TasksStand, ReaderStands
  <2> QED
    BY <2>2, <2>3, <2>4 DEF TasksStand
<1>10. MeshVerifies' /\ OneDocEach' /\ NotMine' /\ NotYetMade'
  BY <1>1, <1>7 DEF MeshVerifies, OneDocEach, NotMine, MineHere, NotYetMade, Disclosed
<1> QED
  BY <1>8, <1>9, <1>10 DEF OwnInv

(* Whatever starts to change the row finds it at ease.                     *)
LEMMA StartsAtEase ==
  ASSUME OwnInv, ~spoiled, NEW op, ~OnlyReads(op),
         \A k \in Jobs : Engaged(k) => ~Crosses(op, jobs[k].op)
  PROVE  AtEase
<1>1. \A k \in Jobs : ~Writer(k)
  BY DEF Writer, Crosses
<1> QED
  BY <1>1 DEF OwnInv, TasksStand

LEMMA CommandsStart ==
  ASSUME OwnInv, OwnTypeOK, ~spoiled', NEW j \in Jobs,
         \/ \E d \in Drafts : Create(j, d) \/ Edit(j, d)
         \/ \E op \in {"unshare", "remove"} : Retract(j, op)
         \/ Share(j)
  PROVE  OwnInv'
<1>0. /\ ownRow \in OwnRows /\ Unsigned \in Signatures /\ Vacant \in OwnRows
      /\ ownRow.there => savedDoc # Buried \/ spoiled
  BY OwnConstants DEF OwnTypeOK, OwnInv, NotYetMade
<1>1. ASSUME NEW op, NEW at, NEW row \in OwnRows, NEW rec \in Signatures,
             [op |-> op, at |-> at, row |-> row, rec |-> rec] \in Tasks, at # "rest",
             ~OnlyReads(op), Enter(j, op, at, row, rec)
      PROVE  /\ ~spoiled /\ AtEase /\ Engaged(j)' /\ ~Engaged(j) /\ ~Reader(j) /\ ~Reader(j)'
             /\ \A k \in Jobs : Engaged(k) => ~Crosses(op, jobs[k].op)
             /\ \A k \in Jobs : k # j => jobs'[k] = jobs[k]
             /\ jobs'[j].at = at /\ jobs'[j].op = op /\ jobs'[j].row = row /\ jobs'[j].rec = rec
  <2>1. /\ ~Engaged(j) /\ \A k \in Jobs : k # j => jobs'[k] = jobs[k]
        /\ jobs'[j].at = at /\ jobs'[j].op = op /\ jobs'[j].row = row /\ jobs'[j].rec = rec
        /\ ~spoiled /\ \A k \in Jobs : Engaged(k) => ~Crosses(op, jobs[k].op)
    BY <1>1, Enters
  <2>2. AtEase
    BY <1>1, <2>1, StartsAtEase
  <2> QED
    BY <1>1, <2>1, <2>2 DEF Engaged, Reader
<1>2. ASSUME NEW d \in Drafts, Create(j, d) PROVE OwnInv'
  <2>1. PICK row \in OwnRows : row = [Vacant EXCEPT !.doc = d] /\ row.doc = d
    BY StartShape
  <2>2. [op |-> "create", at |-> "insert", row |-> row, rec |-> Unsigned] \in Tasks
    BY <1>0 DEF Tasks
  <2>3. /\ Enter(j, "create", "insert", row, Unsigned) /\ UNCHANGED <<ownRow, mesh>>
        /\ savedDoc = Buried /\ savedDoc' = d
    BY <1>2, <2>1 DEF Create
  <2>4. /\ ~spoiled /\ Engaged(j)' /\ ~Engaged(j) /\ ~Reader(j) /\ ~Reader(j)'
        /\ \A k \in Jobs : Engaged(k) => ~Crosses("create", jobs[k].op)
        /\ \A k \in Jobs : k # j => jobs'[k] = jobs[k]
        /\ jobs'[j].at = "insert" /\ jobs'[j].op = "create" /\ jobs'[j].row = row
    BY <1>0, <1>1, <2>2, <2>3 DEF OnlyReads
  <2>5. ~ownRow.there /\ mesh = {} /\ \A k \in Jobs : ~Engaged(k)
    BY <2>3, <2>4 DEF OwnInv, NotYetMade
  <2>6. Signed = {}
    BY <2>5 DEF Signed, Reader
  <2>7. Signed' = {}
    BY <2>3, <2>4, <2>6, StepSigned
  <2>8. WriterStands(j)'
    BY <2>1, <2>3, <2>4, <2>5, <2>7 DEF WriterStands
  <2>9. savedDoc' # Buried
    BY <2>3, OwnConstants
  <2> QED
    BY <2>3, <2>4, <2>8, <2>9, WriterEnters DEF OnlyReads
<1>3. ASSUME NEW d \in Drafts, Edit(j, d) PROVE OwnInv'
  <2>1. PICK rec \in Signatures : rec = [Unsigned EXCEPT !.doc = d] /\ rec.doc = d
    BY StartShape
  <2>2. [op |-> "edit", at |-> "write", row |-> ownRow, rec |-> rec] \in Tasks
    BY <1>0 DEF Tasks
  <2>3. /\ Enter(j, "edit", "write", ownRow, rec) /\ UNCHANGED <<ownRow, mesh>>
        /\ MineHere /\ savedDoc' = d
    BY <1>3, <2>1 DEF Edit
  <2>4. /\ ~spoiled /\ AtEase /\ Engaged(j)' /\ ~Engaged(j) /\ ~Reader(j) /\ ~Reader(j)'
        /\ \A k \in Jobs : Engaged(k) => ~Crosses("edit", jobs[k].op)
        /\ \A k \in Jobs : k # j => jobs'[k] = jobs[k]
        /\ jobs'[j].at = "write" /\ jobs'[j].op = "edit" /\ jobs'[j].row = ownRow
        /\ jobs'[j].rec = rec
    BY <1>0, <1>1, <2>2, <2>3 DEF OnlyReads
  <2>5. Signed' = Signed /\ MineHere'
    BY <2>3, <2>4, StepSigned DEF MineHere
  <2>6. Bounded' /\ Fits'
    BY <2>3, <2>4, <2>5 DEF AtEase, Bounded, Fits, EndsBuried
  <2>7. WriterStands(j)'
    BY <2>1, <2>3, <2>4, <2>5, <2>6 DEF WriterStands, Agrees
  <2>8. savedDoc' # Buried
    BY <2>3, OwnConstants
  <2> QED
    BY <2>3, <2>4, <2>7, <2>8, WriterEnters DEF OnlyReads
<1>4. ASSUME NEW op \in {"share", "unshare", "remove"}, NEW at \in {"sign", "private", "delete"},
             Enter(j, op, at, ownRow, Unsigned), UNCHANGED <<ownRow, mesh, savedDoc>>, ownRow.there,
             op = "share" => at = "sign" /\ ownRow.mine,
             op # "share" => at = IF ownRow.mine /\ ownRow.published THEN "sign"
                                  ELSE IF op = "unshare" THEN "private" ELSE "delete"
      PROVE  OwnInv'
  <2>1. [op |-> op, at |-> at, row |-> ownRow, rec |-> Unsigned] \in Tasks
    BY <1>0 DEF Tasks
  <2>2. /\ ~spoiled /\ AtEase /\ Engaged(j)' /\ ~Engaged(j) /\ ~Reader(j) /\ ~Reader(j)'
        /\ \A k \in Jobs : Engaged(k) => ~Crosses(op, jobs[k].op)
        /\ \A k \in Jobs : k # j => jobs'[k] = jobs[k]
        /\ jobs'[j].at = at /\ jobs'[j].op = op /\ jobs'[j].row = ownRow
    BY <1>0, <1>1, <1>4, <2>1 DEF OnlyReads
  <2>3. Signed' = Signed /\ SameRow /\ MineHere' = MineHere
    BY <1>4, <2>2, StepSigned DEF SameRow, MineHere
  <2>4. /\ AtEase' /\ (Fits => Fits') /\ (Bounded => Bounded') /\ (EndsBuried => EndsBuried')
    BY <1>4, <2>2, <2>3, RowRests
  <2>5. WriterStands(j)'
    <3>1. CASE at = "sign"
      <4>1. MineHere /\ ownRow.doc = savedDoc /\ Bounded /\ Fits /\ (op # "share" => ownRow.published)
        BY <1>4, <2>2, <3>1 DEF AtEase, MineHere
      <4> QED
        BY <1>4, <2>2, <2>3, <2>4, <3>1, <4>1 DEF WriterStands, Agrees
    <3>2. CASE at = "private"
      <4>1. MineHere => ownRow.rec.doc = Buried /\ EndsBuried
        BY <1>4, <2>2, <3>2 DEF AtEase, MineHere, Fits
      <4> QED
        BY <1>4, <2>2, <2>3, <2>4, <3>2, <4>1 DEF WriterStands
    <3>3. CASE at = "delete"
      BY <1>4, <2>2, <2>4, <3>3 DEF WriterStands
    <3> QED
      BY <3>1, <3>2, <3>3
  <2>6. savedDoc' # Buried
    BY <1>0, <1>4, <2>2
  <2> QED
    BY <1>4, <2>2, <2>5, <2>6, WriterEnters DEF OnlyReads
<1>5. ASSUME NEW op \in {"unshare", "remove"}, Retract(j, op) PROVE OwnInv'
  BY <1>4, <1>5 DEF Retract
<1>6. ASSUME Share(j) PROVE OwnInv'
  BY <1>4, <1>6 DEF Share, MineHere
<1> QED
  BY <1>2, <1>3, <1>5, <1>6

LEMMA LoopsStart ==
  ASSUME OwnInv, OwnTypeOK, ~spoiled', NEW j \in Jobs,
         Announce(j) \/ AnswerWant(j) \/ ListToEvict(j) \/ \E m \in mesh : Hear(j, m)
  PROVE  OwnInv'
<1>0. /\ ownRow \in OwnRows /\ Unsigned \in Signatures /\ Vacant \in OwnRows
      /\ ownRow.rec \in Signatures /\ spoiled \in BOOLEAN
      /\ ~spoiled /\ (ownRow.there \/ mesh # {}) => savedDoc # Buried
  BY OwnConstants DEF OwnTypeOK, OwnInv, NotYetMade, OwnRows
<1>1. ASSUME NEW op, NEW at, NEW row \in OwnRows, NEW rec \in Signatures,
             [op |-> op, at |-> at, row |-> row, rec |-> rec] \in Tasks, at # "rest",
             Enter(j, op, at, row, rec)
      PROVE  /\ ~spoiled /\ Engaged(j)' /\ ~Engaged(j)
             /\ \A k \in Jobs : Engaged(k) => ~Crosses(op, jobs[k].op)
             /\ \A k \in Jobs : k # j => jobs'[k] = jobs[k]
             /\ jobs'[j].at = at /\ jobs'[j].op = op /\ jobs'[j].row = row /\ jobs'[j].rec = rec
  BY <1>1, Enters DEF Engaged
<1>2. CASE AnswerWant(j) \/ (Announce(j) /\ ~MustRenew)
  <2>1. PICK op \in {"announce", "answer"} :
          /\ Enter(j, op, "send", ownRow, ownRow.rec) /\ UNCHANGED <<ownRow, mesh, savedDoc>>
          /\ Disclosed /\ ownRow.rec # Unsigned
    BY <1>2 DEF AnswerWant, Announce
  <2>2. [op |-> op, at |-> "send", row |-> ownRow, rec |-> ownRow.rec] \in Tasks
    BY <1>0 DEF Tasks
  <2>3. ~spoiled
    BY <1>0, <1>1, <2>1, <2>2
  <2> QED
    BY <2>1, <2>3, ReaderEnters
<1>3. CASE Announce(j) /\ MustRenew
  <2>1. [op |-> "renew", at |-> "sign", row |-> ownRow, rec |-> Unsigned] \in Tasks
    BY <1>0 DEF Tasks
  <2>2. /\ Enter(j, "renew", "sign", ownRow, Unsigned) /\ UNCHANGED <<ownRow, mesh, savedDoc>>
        /\ MineHere /\ ownRow.published /\ ownRow.there
    BY <1>3 DEF Announce, Disclosed, MineHere
  <2>3. /\ ~spoiled /\ Engaged(j)' /\ ~Engaged(j)
        /\ \A k \in Jobs : Engaged(k) => ~Crosses("renew", jobs[k].op)
        /\ \A k \in Jobs : k # j => jobs'[k] = jobs[k]
        /\ jobs'[j].at = "sign" /\ jobs'[j].op = "renew" /\ jobs'[j].row = ownRow
    BY <1>0, <1>1, <2>1, <2>2
  <2>4. AtEase /\ ~Reader(j) /\ ~Reader(j)'
    BY <2>3, StartsAtEase DEF OnlyReads, Reader
  <2>5. Signed' = Signed /\ SameRow /\ MineHere' = MineHere
    BY <2>2, <2>3, <2>4, StepSigned DEF SameRow, MineHere
  <2>6. ownRow.doc = savedDoc /\ Bounded' /\ Fits'
    BY <2>2, <2>4, <2>5, RowRests DEF AtEase
  <2>7. WriterStands(j)'
    BY <2>2, <2>3, <2>5, <2>6 DEF WriterStands, Agrees
  <2>8. savedDoc' # Buried
    BY <1>0, <2>2, <2>3
  <2> QED
    BY <2>2, <2>3, <2>7, <2>8, WriterEnters DEF OnlyReads
<1>4. ASSUME NEW m \in mesh, Hear(j, m) PROVE OwnInv'
  <2>1. m.payload \in Sheets /\ m.doc \in Sheets /\ m.seq \in Nat /\ m.payload = m.doc
    BY <1>4 DEF OwnTypeOK, Hear
  <2>2. PICK row \in OwnRows : row = [Vacant EXCEPT !.doc = m.payload] /\ row.doc = m.doc
    <3>1. [Vacant EXCEPT !.doc = m.payload] \in OwnRows
      BY <2>1, OwnConstants DEF OwnRows
    <3>2. [Vacant EXCEPT !.doc = m.payload].doc = m.payload
      BY OwnConstants DEF OwnRows
    <3> QED
      BY <2>1, <3>1, <3>2
  <2>3. PICK rec \in Signatures :
          rec = [doc |-> m.doc, seq |-> m.seq] /\ rec.doc = m.doc /\ rec.seq = m.seq
    <3>1. [doc |-> m.doc, seq |-> m.seq] \in Signatures
      BY <2>1 DEF Signatures
    <3> QED
      BY <3>1
  <2>4. [op |-> "ingest", at |-> "take", row |-> row, rec |-> rec] \in Tasks
    BY DEF Tasks
  <2>5. /\ Enter(j, "ingest", "take", row, rec) /\ UNCHANGED <<ownRow, mesh, savedDoc>>
        /\ ownRow.there => ownRow.seq < m.seq
    BY <1>4, <2>2, <2>3 DEF Hear
  <2>6. /\ ~spoiled /\ Engaged(j)' /\ ~Engaged(j)
        /\ \A k \in Jobs : Engaged(k) => ~Crosses("ingest", jobs[k].op)
        /\ \A k \in Jobs : k # j => jobs'[k] = jobs[k]
        /\ jobs'[j].at = "take" /\ jobs'[j].op = "ingest" /\ jobs'[j].row = row
        /\ jobs'[j].rec = rec
    BY <1>0, <1>1, <2>4, <2>5
  <2>7. AtEase
    BY <2>6, StartsAtEase DEF OnlyReads
  <2>8. ~MineHere
    <3>1. rec \in Signed
      BY <2>3, SignedIs
    <3> QED
      BY <2>1, <2>3, <2>5, <2>7, <3>1 DEF AtEase, Bounded, MineHere, OwnTypeOK, OwnRows
  <2>9. WriterStands(j)'
    BY <2>2, <2>3, <2>5, <2>6, <2>8 DEF WriterStands, MineHere
  <2>10. savedDoc' # Buried
    BY <1>0, <2>5, <2>6
  <2> QED
    BY <2>5, <2>6, <2>9, <2>10, WriterEnters DEF OnlyReads
<1>5. CASE ListToEvict(j)
  <2>1. [op |-> "evict", at |-> "evict", row |-> ownRow, rec |-> Unsigned] \in Tasks
    BY <1>0 DEF Tasks
  <2>2. /\ Enter(j, "evict", "evict", ownRow, Unsigned) /\ UNCHANGED <<ownRow, mesh, savedDoc>>
        /\ ~MineHere /\ ownRow.there
    BY <1>5 DEF ListToEvict, MineHere
  <2>3. /\ ~spoiled /\ Engaged(j)' /\ ~Engaged(j)
        /\ \A k \in Jobs : Engaged(k) => ~Crosses("evict", jobs[k].op)
        /\ \A k \in Jobs : k # j => jobs'[k] = jobs[k]
        /\ jobs'[j].at = "evict" /\ jobs'[j].op = "evict"
    BY <1>0, <1>1, <2>1, <2>2
  <2>4. WriterStands(j)'
    BY <2>2, <2>3 DEF WriterStands, MineHere
  <2>5. savedDoc' # Buried
    BY <1>0, <2>2, <2>3
  <2> QED
    BY <2>2, <2>3, <2>4, <2>5, WriterEnters DEF OnlyReads
<1> QED
  BY <1>2, <1>3, <1>4, <1>5

(* A link carries the row's record with its document, or with a tombstone. *)
LEMMA LinkCopied == ASSUME OwnInv, OwnTypeOK, ~spoiled', CopyLink PROVE OwnInv'
<1>1. /\ ownRow.there /\ ownRow.rec # Unsigned /\ UNCHANGED <<ownRow, jobs, savedDoc>>
      /\ ~spoiled /\ \A k \in Jobs : Engaged(k) => jobs[k].op # "edit"
  BY DEF CopyLink, OwnTypeOK
<1>2. /\ ownRow.rec.doc \in {ownRow.doc, Buried} /\ MeshVerifies /\ NotYetMade
  BY <1>1, RowFits DEF OwnInv
<1>3. PICK rec \in Signatures : rec = ownRow.rec /\ rec = [doc |-> rec.doc, seq |-> rec.seq]
  BY DEF OwnTypeOK, OwnRows, Signatures
<1>4. PICK m : /\ m = [payload |-> ownRow.doc, doc |-> rec.doc, seq |-> rec.seq]
               /\ mesh' = mesh \cup {m}
  BY <1>3 DEF CopyLink
<1>5. m.payload = ownRow.doc /\ m.doc = rec.doc /\ [doc |-> m.doc, seq |-> m.seq] = rec
  BY <1>3, <1>4
<1>6. Signed' \subseteq Signed
  <2>1. \A r : (\E k \in Jobs : Reader(k)' /\ r = jobs'[k].rec) => \E k \in Jobs : Reader(k) /\ r = jobs[k].rec
    BY <1>1 DEF Reader, Engaged
  <2>2. \A r : (\E n \in mesh' : r = [doc |-> n.doc, seq |-> n.seq]) => r \in Signed
    BY <1>1, <1>3, <1>4, <1>5, SignedIs
  <2> QED
    BY <1>1, <2>1, <2>2, SignedIs
<1>7. MeshVerifies' /\ mesh \subseteq mesh'
  BY <1>2, <1>3, <1>4, <1>5 DEF MeshVerifies
<1>8. SameRow /\ savedDoc # Buried
  BY <1>1, <1>2 DEF SameRow, NotYetMade
<1> QED
  BY <1>1, <1>6, <1>7, <1>8, OthersGoOn

(* A task that may be cut short leaves the row at ease.                    *)
LEMMA TabCloses == ASSUME OwnInv, OwnTypeOK, ~spoiled', CloseTab PROVE OwnInv'
<1>1. /\ ~spoiled /\ (\A j \in Jobs : ~Brittle(j)) /\ UNCHANGED <<ownRow, mesh, savedDoc>>
      /\ jobs' = [j \in Jobs |-> Rested]
  BY DEF CloseTab, OwnTypeOK
<1>2. MeshVerifies /\ OneDocEach /\ NotYetMade /\ NotMine /\ TasksStand
  BY <1>1 DEF OwnInv
<1>3. \A j \in Jobs : ~Engaged(j)' /\ ~Reader(j)' /\ ~Writer(j)'
  BY <1>1, OwnConstants DEF Engaged, Reader, Writer
<1>4. Signed' \subseteq Signed /\ mesh' = mesh /\ SameRow
  BY <1>1, <1>3, SignedIs DEF SameRow
<1>5. AtEase
  <2>1. ASSUME NEW j \in Jobs, Writer(j) PROVE AtEase
    <3>1. /\ WriterStands(j)
          /\ jobs[j].at \notin {"insert", "own", "write", "reread", "flag", "retire"}
          /\ ~(jobs[j].op = "edit" /\ jobs[j].at \in {"sign", "store"})
      BY <1>1, <1>2, <2>1 DEF Brittle, At, TasksStand
    <3> QED
      BY <3>1 DEF WriterStands, AtEase
  <2> QED
    BY <1>2, <2>1 DEF TasksStand
<1>6. AtEase'
  BY <1>1, <1>4, <1>5, RowRests
<1>7. Apart' /\ TasksStand'
  BY <1>3, <1>6 DEF Apart, TasksStand
<1>8. MeshVerifies' /\ OneDocEach' /\ NotYetMade' /\ NotMine'
  BY <1>1, <1>2, <1>3, <1>4 DEF MeshVerifies, OneDocEach, NotYetMade, NotMine, MineHere
<1> QED
  BY <1>7, <1>8 DEF OwnInv

LEMMA WorldTurns ==
  ASSUME OwnInv, OwnTypeOK, ~spoiled',
         LoseKey \/ ImportKey \/ NearEnd \/ WindowPasses \/ UNCHANGED ownVars
  PROVE  OwnInv'
<1>1. UNCHANGED <<jobs, mesh, savedDoc, spoiled>> /\ SameRow
  BY DEF LoseKey, ImportKey, NearEnd, WindowPasses, ownVars, SameRow, OwnTypeOK, OwnRows
<1>2. Signed' = Signed
  BY <1>1 DEF Signed, Reader, Engaged, SameRow
<1>3. ~spoiled /\ MeshVerifies' /\ (mesh' = {} \/ savedDoc # Buried)
  BY <1>1 DEF OwnInv, MeshVerifies, NotYetMade
<1> QED
  BY <1>1, <1>2, <1>3, OthersGoOn

(* A task, once met that must not or cut short, stays so.                  *)
LEMMA SpoiledStays == OwnTypeOK /\ [OwnNext]_ownVars /\ spoiled => spoiled'
<1> SUFFICES ASSUME OwnTypeOK, [OwnNext]_ownVars, spoiled PROVE spoiled'
  OBVIOUS
<1>1. ASSUME NEW j \in Jobs, NEW d \in Drafts, Create(j, d) \/ Edit(j, d) PROVE spoiled'
  BY <1>1 DEF Create, Edit, Enter
<1>2. ASSUME NEW j \in Jobs, NEW op \in {"unshare", "remove"}, Retract(j, op) PROVE spoiled'
  BY <1>2 DEF Retract, Enter
<1>3. ASSUME NEW j \in Jobs, NEW m \in mesh, Hear(j, m) PROVE spoiled'
  BY <1>3 DEF Hear, Enter
<1>4. ASSUME NEW j \in Jobs, Share(j) \/ Announce(j) \/ AnswerWant(j) \/ ListToEvict(j)
      PROVE  spoiled'
  BY <1>4 DEF Share, Announce, AnswerWant, ListToEvict, Enter
<1>5. ASSUME NEW j \in Jobs, OwnStep(j) \/ SendFails(j) PROVE spoiled'
  BY <1>5 DEF OwnStep, SendFails, Insert, OwnIt, WriteEdit, Reread, SignNext, StoreRecord, Flag, Send,
              BuryOwn, MakePrivate, Delete, Forget, TakeIn, EvictRow
<1>6. ASSUME \/ CopyLink \/ CloseTab \/ LoseKey \/ ImportKey \/ NearEnd \/ WindowPasses
             \/ UNCHANGED ownVars
      PROVE  spoiled'
  BY <1>6 DEF CopyLink, CloseTab, LoseKey, ImportKey, NearEnd, WindowPasses, ownVars
<1> QED
  BY <1>1, <1>2, <1>3, <1>4, <1>5, <1>6 DEF OwnNext

LEMMA OwnKeeps == OwnTypeOK /\ OwnInv /\ [OwnNext]_ownVars => OwnInv'
<1> SUFFICES ASSUME OwnTypeOK, OwnInv, [OwnNext]_ownVars, ~spoiled' PROVE OwnInv'
  BY DEF OwnInv
<1>1. ~spoiled
  BY SpoiledStays
<1>2. ASSUME NEW j \in Jobs, OwnStep(j) \/ SendFails(j) PROVE OwnInv'
  <2>1. CASE Send(j) \/ SendFails(j)
    <3>1. Writer(j) \/ Reader(j)
      BY <2>1 DEF Send, SendFails, At, Writer, Reader, Engaged
    <3> QED
      BY <1>1, <2>1, <3>1, WriterSends, ReaderSends
  <2>2. CASE Insert(j) \/ OwnIt(j)
    BY <1>1, <2>2, CreateSteps
  <2>3. CASE WriteEdit(j) \/ Reread(j)
    BY <1>1, <2>3, EditSteps
  <2>4. CASE SignNext(j)
    BY <1>1, <2>4, SignSteps
  <2>5. CASE StoreRecord(j) \/ Flag(j)
    BY <1>1, <2>5, StoreSteps
  <2>6. CASE BuryOwn(j) \/ MakePrivate(j)
    BY <1>1, <2>6, RetractSteps
  <2>7. CASE Delete(j) \/ Forget(j) \/ TakeIn(j) \/ EvictRow(j)
    BY <1>1, <2>7, ForeignSteps
  <2> QED
    BY <1>2, <2>1, <2>2, <2>3, <2>4, <2>5, <2>6, <2>7 DEF OwnStep
<1>3. ASSUME NEW j \in Jobs, NEW d \in Drafts, Create(j, d) \/ Edit(j, d) PROVE OwnInv'
  BY <1>3, CommandsStart
<1>4. ASSUME NEW j \in Jobs, NEW op \in {"unshare", "remove"}, Retract(j, op) PROVE OwnInv'
  BY <1>4, CommandsStart
<1>5. ASSUME NEW j \in Jobs, Share(j) PROVE OwnInv'
  BY <1>5, CommandsStart
<1>6. ASSUME NEW j \in Jobs,
             Announce(j) \/ AnswerWant(j) \/ ListToEvict(j) \/ \E m \in mesh : Hear(j, m)
      PROVE  OwnInv'
  BY <1>6, LoopsStart
<1>7. CASE CopyLink
  BY <1>7, LinkCopied
<1>8. CASE CloseTab
  BY <1>8, TabCloses
<1>9. CASE LoseKey \/ ImportKey \/ NearEnd \/ WindowPasses \/ UNCHANGED ownVars
  BY <1>9, WorldTurns
<1> QED
  BY <1>2, <1>3, <1>4, <1>5, <1>6, <1>7, <1>8, <1>9 DEF OwnNext

LEMMA OwnStarts == OwnInit => OwnTypeOK /\ OwnInv
<1> SUFFICES ASSUME OwnInit PROVE OwnTypeOK /\ OwnInv
  OBVIOUS
<1>1. OwnTypeOK
  BY OwnConstants DEF OwnInit, OwnTypeOK
<1>2. \A j \in Jobs : ~Engaged(j) /\ ~Reader(j) /\ ~Writer(j)
  BY OwnConstants DEF OwnInit, Engaged, Reader, Writer
<1>3. ~ownRow.there /\ ~ownRow.mine /\ ~ownRow.published /\ mesh = {}
  BY OwnConstants DEF OwnInit
<1>4. \A r : r \notin Signed
  BY <1>2, <1>3, SignedIs
<1>5. Apart /\ MeshVerifies /\ OneDocEach /\ NotYetMade /\ NotMine /\ TasksStand
  BY <1>2, <1>3, <1>4 DEF Apart, MeshVerifies, OneDocEach, NotYetMade, NotMine, TasksStand, AtEase,
                         MineHere
<1> QED
  BY <1>1, <1>5 DEF OwnInv

LEMMA OwnInvKeeps == OwnTypeOK /\ OwnInv => OwnKept
<1> SUFFICES ASSUME OwnTypeOK, OwnInv, ~spoiled PROVE SentVerifies /\ RowIsAhead /\ RowVerifies
  BY DEF OwnKept
<1>1. MeshVerifies /\ OneDocEach /\ TasksStand
  BY DEF OwnInv
<1>2. \A m \in mesh : [doc |-> m.doc, seq |-> m.seq] \in Signed
  BY SignedIs
<1>3. SentVerifies
  <2>1. ASSUME NEW m \in mesh, NEW n \in mesh, m.seq = n.seq PROVE m.doc = n.doc
    <3>1. [doc |-> m.doc, seq |-> m.seq].seq = [doc |-> n.doc, seq |-> n.seq].seq
      BY <2>1
    <3>2. [doc |-> m.doc, seq |-> m.seq].doc = [doc |-> n.doc, seq |-> n.seq].doc
      BY <1>1, <1>2, <3>1 DEF OneDocEach
    <3> QED
      BY <3>2
  <2> QED
    BY <1>1, <2>1 DEF SentVerifies, MeshVerifies
<1>4. ASSUME Quiet, MineHere PROVE ownRow.doc = savedDoc /\ Bounded /\ Fits
  BY <1>1, <1>4 DEF Quiet, Writer, TasksStand, AtEase
<1>5. Bounded => \A m \in mesh : m.seq <= ownRow.seq
  <2> SUFFICES ASSUME Bounded, NEW m \in mesh PROVE m.seq <= ownRow.seq
    OBVIOUS
  <2>1. [doc |-> m.doc, seq |-> m.seq].seq <= ownRow.seq
    BY <1>2 DEF Bounded
  <2> QED
    BY <2>1
<1>6. RowIsAhead
  BY <1>4, <1>5 DEF RowIsAhead
<1>7. RowVerifies
  <2> SUFFICES ASSUME Quiet, MineHere
               PROVE  /\ ownRow.published /\ ~ownRow.tomb =>
                           ownRow.rec = [doc |-> ownRow.doc, seq |-> ownRow.seq]
                      /\ ~ownRow.published /\ mesh # {} =>
                           \E m \in mesh : m.doc = Buried /\ \A n \in mesh : n.seq <= m.seq
    BY DEF RowVerifies
  <2>1. ASSUME ~ownRow.published, mesh # {}
        PROVE  \E m \in mesh : m.doc = Buried /\ \A n \in mesh : n.seq <= m.seq
    <3>1. Signed # {}
      BY <1>2, <2>1
    <3> QED
      BY <1>4, <1>5, <2>1, <3>1 DEF Fits, EndsBuried
  <2> QED
    BY <1>4, <2>1 DEF Fits
<1> QED
  BY <1>3, <1>6, <1>7

(* As long as no two of its tasks met that must not and none was cut short,*)
(* the browser's own list is kept: what leaves it verifies and no number   *)
(* stands for two documents, between tasks the row is what the user saved  *)
(* and ahead of everything out, and a list made private ends on its        *)
(* tombstone (publish, update, unpublish, remove, announceOnce,            *)
(* ingestVerified).                                                        *)
THEOREM OwnListKept == OwnSpec => []OwnKept
<1>1. OwnInit => OwnTypeOK /\ OwnInv
  BY OwnStarts
<1>2. OwnTypeOK /\ OwnInv /\ [OwnNext]_ownVars => OwnTypeOK' /\ OwnInv'
  BY OwnTyped, OwnKeeps
<1>3. OwnTypeOK /\ OwnInv => OwnKept
  BY OwnInvKeeps
<1> QED
  BY <1>1, <1>2, <1>3, PTL DEF OwnSpec

-----------------------------------------------------------------------------
(* CatalogPages: the screen shows the hits of one text, for any number of  *)
(* keystrokes, queries and failures.  One call at most may still change    *)
(* the screen: the one whose ticket is the view's, which then says that it *)
(* is fetching.  From its first hit on, and whenever none is under way,    *)
(* the hits shown are of the text typed last, unless a failure kept those  *)
(* of another.                                                             *)

Fields == {"kind", "text", "ticket", "first", "phase", "epoch", "at", "run", "batch", "reads",
           "crowd"}
UnderWay == {"queued", "ready", "fetching", "fetched"}
OfView(c) == calls[c].kind \in {"search", "more"}
Awaited(c) == calls[c].phase \in UnderWay /\ OfView(c) /\ Mine(c)

CallsShaped == /\ calls = [c \in Queries |-> calls[c]]
               /\ \A c \in Queries : DOMAIN calls[c] = Fields

ViewTypeOK ==
  /\ view \in [text : Texts \cup {""}, ticket : Nat, armed : BOOLEAN, fetching : BOOLEAN,
               done : BOOLEAN]
  /\ offline \in BOOLEAN

(* The tickets of calls: a search and what follows it are never ahead of   *)
(* the view, any other call has the one the view had before a key was hit. *)
Ticketed == \A c \in Queries :
  /\ OfView(c) => calls[c].ticket \in Nat /\ calls[c].ticket <= view.ticket
  /\ calls[c].phase # "unmade" => OfView(c) \/ (calls[c].kind = "other" /\ calls[c].ticket = 0)

(* Between the keystroke and the timer no call is the view's; nothing is   *)
(* fetched or shown before the first keystroke.                            *)
ArmedAlone == /\ view.fetching \/ rows # {} => view.ticket > 0
              /\ view.armed => view.fetching /\ \A c \in Queries : OfView(c) => ~Mine(c)

OneAwaited == \A c \in Queries : Awaited(c) =>
  /\ view.fetching /\ calls[c].text = view.text
  /\ \A d \in Queries : Awaited(d) => d = c

Begins(c) == calls[c].kind = "search" /\ calls[c].first
OfTextTyped ==
  ~offline /\ (~view.fetching \/ \E c \in Queries : Awaited(c) /\ ~Begins(c))
    => rows \subseteq {view.text}
OfOneText == ~offline => \E t : rows \subseteq {t}

ScreenInv == CallsShaped /\ ViewTypeOK /\ Ticketed /\ ArmedAlone /\ OneAwaited /\ OfTextTyped
             /\ OfOneText

-----------------------------------------------------------------------------
(* A step that leaves the screen alone and ends or moves calls on.         *)
Same(c) == /\ calls'[c].kind = calls[c].kind /\ calls'[c].text = calls[c].text
           /\ calls'[c].ticket = calls[c].ticket /\ calls'[c].first = calls[c].first
Moves(c) == /\ calls'[c].phase \in UnderWay => calls[c].phase \in UnderWay
            /\ calls'[c].phase # "unmade" => calls[c].phase # "unmade"

LEMMA ScreenAlone ==
  ASSUME ScreenInv, CallsShaped', UNCHANGED <<view, rows, offline>>,
         \A c \in Queries : Same(c) /\ Moves(c)
  PROVE  ScreenInv'
<1>1. ASSUME NEW c \in Queries
      PROVE  /\ OfView(c)' = OfView(c) /\ Mine(c)' = Mine(c) /\ Begins(c)' = Begins(c)
             /\ Awaited(c)' => Awaited(c)
  BY DEF OfView, Mine, Begins, Awaited, Same, Moves
<1>2. ViewTypeOK' /\ OfOneText'
  BY DEF ScreenInv, ViewTypeOK, OfOneText
<1>3. Ticketed'
  BY <1>1 DEF ScreenInv, Ticketed, Same, Moves
<1>4. ArmedAlone'
  BY <1>1 DEF ScreenInv, ArmedAlone
<1>5. OneAwaited'
  BY <1>1 DEF ScreenInv, OneAwaited, Same
<1>6. OfTextTyped'
  BY <1>1 DEF ScreenInv, OfTextTyped
<1> QED
  BY <1>2, <1>3, <1>4, <1>5, <1>6 DEF ScreenInv

(* One call changes, in fields that the screen does not depend on.         *)
LEMMA OneCallMoves ==
  ASSUME ScreenInv, NEW c \in Queries, NEW r, calls' = [calls EXCEPT ![c] = r],
         DOMAIN r = Fields, UNCHANGED <<view, rows, offline>>,
         r.kind = calls[c].kind, r.text = calls[c].text, r.ticket = calls[c].ticket,
         r.first = calls[c].first, calls[c].phase \in UnderWay, r.phase # "unmade"
  PROVE  ScreenInv'
<1>1. CallsShaped /\ \A d \in Queries : calls'[d] = IF d = c THEN r ELSE calls[d]
  BY DEF ScreenInv, CallsShaped
<1>2. CallsShaped'
  BY <1>1 DEF CallsShaped
<1>3. \A d \in Queries : Same(d) /\ Moves(d)
  BY <1>1 DEF Same, Moves, UnderWay
<1> QED
  BY <1>2, <1>3, ScreenAlone

(* The first free slot is a free one.                                      *)
LEMMA LeastNumber ==
  ASSUME NEW S \in SUBSET Nat, S # {}
  PROVE  \E m \in S : \A k \in S : m <= k
<1>1. IsWellFoundedOn(OpToRel(<, Nat), Nat)
  BY NatLessThanWellFounded
<1>2. PICK m \in S : \A k \in S : <<k, m>> \notin OpToRel(<, Nat)
  BY <1>1, WFMin, Zenon
<1>3. \A k \in S : ~(k < m)
  BY <1>2 DEF OpToRel
<1> QED BY <1>3

CallIs(c, kind, text, ticket) ==
  /\ CallsShaped' /\ \A d \in Queries \ {c} : calls'[d] = calls[d]
  /\ calls'[c].kind = kind /\ calls'[c].text = text /\ calls'[c].ticket = ticket
  /\ calls'[c].first = TRUE
  /\ calls'[c].phase = IF opened = "failed" THEN "settled" ELSE "queued"

LEMMA CallMade ==
  ASSUME ScreenInv, NEW kind, NEW text, NEW ticket, MakeCall(kind, text, ticket)
  PROVE  \E c \in Queries : calls[c].phase = "unmade" /\ CallIs(c, kind, text, ticket)
<1> DEFINE free == {c \in Queries : calls[c].phase = "unmade"}
           new == [Unmade EXCEPT !.kind = kind, !.text = text, !.ticket = ticket,
                     !.phase = IF opened = "failed" THEN "settled" ELSE "queued"]
           slot == CHOOSE c \in free : \A d \in free : c <= d
<1>1. free # {} /\ calls' = [calls EXCEPT ![slot] = new]
  BY DEF MakeCall
<1>2. slot \in free
  <2>1. free \in SUBSET Nat
    BY PagesAssumption
  <2>2. \E m \in free : \A k \in free : m <= k
    BY <1>1, <2>1, LeastNumber
  <2> HIDE DEF free
  <2> QED
    BY <2>2
<1>3. slot \in Queries /\ calls[slot].phase = "unmade"
  BY <1>2
<1> HIDE DEF slot
<1>4. /\ DOMAIN new = Fields /\ new.kind = kind /\ new.text = text /\ new.ticket = ticket
      /\ new.first = TRUE /\ new.phase = IF opened = "failed" THEN "settled" ELSE "queued"
  BY DEF Unmade, Fields
<1> HIDE DEF new
<1>5. \A d \in Queries : calls'[d] = IF d = slot THEN new ELSE calls[d]
  BY <1>1, <1>3 DEF ScreenInv, CallsShaped
<1>6. CallsShaped'
  BY <1>1, <1>4, <1>5 DEF ScreenInv, CallsShaped
<1> QED
  BY <1>3, <1>4, <1>5, <1>6 DEF CallIs

(* The end of a call, with hits or without.                                *)
LEMMA SettledStep ==
  ASSUME ScreenInv, NEW c \in Queries, NEW failed \in BOOLEAN, calls[c].phase \in UnderWay,
         Settled(c, failed)
  PROVE  ScreenInv'
<1>0. CallsShaped /\ ViewTypeOK /\ Ticketed /\ ArmedAlone /\ OneAwaited /\ OfTextTyped /\ OfOneText
  BY DEF ScreenInv
<1>1. calls' = [calls EXCEPT ![c] = [calls[c] EXCEPT !.phase = "settled", !.batch = {}]]
  BY <1>0 DEF Settled, CallsShaped
<1> DEFINE r == [calls[c] EXCEPT !.phase = "settled", !.batch = {}]
<1>2. /\ DOMAIN r = Fields /\ r.phase = "settled" /\ r.kind = calls[c].kind
      /\ r.text = calls[c].text /\ r.ticket = calls[c].ticket /\ r.first = calls[c].first
  BY <1>0 DEF CallsShaped, Fields
<1> HIDE DEF r
<1>3. CASE calls[c].kind = "other" \/ ~Mine(c)
  <2>1. UNCHANGED <<view, rows, offline>>
    BY <1>3 DEF Settled
  <2> QED
    BY <1>1, <1>2, <2>1, OneCallMoves DEF r
<1>4. CASE calls[c].kind # "other" /\ Mine(c)
  <2>1. \A d \in Queries : calls'[d] = IF d = c THEN r ELSE calls[d]
    BY <1>0, <1>1 DEF CallsShaped, r
  <2>2. Awaited(c) /\ view.fetching
    BY <1>0, <1>4 DEF Awaited, Ticketed, OneAwaited, UnderWay
  <2>3. PICK done \in BOOLEAN :
          view' = [view EXCEPT !.fetching = FALSE, !.done = IF failed THEN @ ELSE done]
    BY <1>4 DEF Settled
  <2>4. /\ rows' = IF ~failed /\ Begins(c) THEN {} ELSE rows
        /\ offline' = (offline \/ (failed /\ Begins(c) /\ rows # {}))
    BY <1>4 DEF Settled, Begins
  <2>5. /\ ViewTypeOK' /\ view'.text = view.text /\ view'.ticket = view.ticket
        /\ view'.armed = view.armed /\ view'.fetching = FALSE
    BY <1>0, <2>3, <2>4 DEF ViewTypeOK
  <2>6. CallsShaped'
    BY <1>0, <1>1, <1>2, <2>1 DEF CallsShaped, r
  <2>7. \A d \in Queries : /\ OfView(d)' = OfView(d) /\ Mine(d)' = Mine(d)
                           /\ ~Awaited(d)'
    <3>1. \A d \in Queries : OfView(d)' = OfView(d) /\ Mine(d)' = Mine(d)
      BY <1>2, <2>1, <2>5 DEF OfView, Mine
    <3>2. \A d \in Queries : ~Awaited(d)'
      BY <1>0, <1>2, <2>1, <2>2, <3>1 DEF Awaited, OneAwaited, UnderWay
    <3> QED
      BY <3>1, <3>2
  <2>8. Ticketed'
    BY <1>0, <1>2, <2>1, <2>5, <2>7, <1>4 DEF Ticketed, UnderWay
  <2>9. ~view.armed
    BY <1>0, <2>2 DEF ArmedAlone, Awaited
  <2>11. ArmedAlone'
    <3>1. view.ticket > 0
      BY <1>0, <2>2 DEF ArmedAlone
    <3> QED
      BY <2>5, <2>9, <3>1 DEF ArmedAlone
  <2>12. OneAwaited'
    BY <2>7 DEF OneAwaited
  <2>10. OfTextTyped' /\ OfOneText'
    <3>1. ~offline' => rows' \subseteq {view.text}
      <4>1. CASE Begins(c)
        BY <2>4, <4>1
      <4>2. CASE ~Begins(c)
        BY <1>0, <2>2, <2>4, <4>2 DEF OfTextTyped
      <4> QED
        BY <4>1, <4>2
    <3> QED
      BY <2>5, <3>1 DEF OfTextTyped, OfOneText
  <2> QED
    BY <2>5, <2>6, <2>8, <2>10, <2>11, <2>12 DEF ScreenInv
<1> QED
  BY <1>3, <1>4

LEMMA NextTicket ==
  ASSUME NEW n \in Nat
  PROVE  /\ n + 1 \in Nat /\ n + 1 > 0 /\ \A k \in Nat : k <= n => k <= n + 1 /\ k # n + 1
OBVIOUS

LEMMA KeyStep ==
  ASSUME ScreenInv, NEW t \in Texts \cup {""}, Type(t) PROVE ScreenInv'
<1>0. CallsShaped /\ ViewTypeOK /\ Ticketed /\ OfOneText /\ view.ticket \in Nat
  BY DEF ScreenInv, ViewTypeOK
<1>1. /\ view' = [text |-> t, ticket |-> view.ticket + 1, armed |-> t # "",
                 fetching |-> t # "", done |-> FALSE]
      /\ rows' = IF t = "" THEN {} ELSE rows
      /\ offline' = (offline /\ t # "") /\ calls' = calls
  BY DEF Type
<1>2. /\ view'.text = t /\ view'.ticket = view.ticket + 1 /\ view'.armed = (t # "")
      /\ view'.fetching = (t # "")
  BY <1>1
<1>3. CallsShaped'
  BY <1>0, <1>1 DEF CallsShaped
<1>4. ViewTypeOK'
  <2>1. (t # "") \in BOOLEAN
    OBVIOUS
  <2>2. offline' \in BOOLEAN
    BY <1>0, <1>1 DEF ViewTypeOK
  <2>3. view.ticket + 1 \in Nat
    BY <1>0, NextTicket, Zenon
  <2> QED
    BY <1>1, <2>1, <2>2, <2>3 DEF ViewTypeOK
<1>5. \A c \in Queries : OfView(c)' = OfView(c) /\ (OfView(c) => ~Mine(c)')
  <2> SUFFICES ASSUME NEW c \in Queries PROVE OfView(c)' = OfView(c) /\ (OfView(c) => ~Mine(c)')
    OBVIOUS
  <2>1. OfView(c)' = OfView(c)
    BY <1>1 DEF OfView
  <2>2. OfView(c) => calls[c].ticket \in Nat /\ calls[c].ticket <= view.ticket
    BY <1>0 DEF Ticketed
  <2>3. calls'[c].ticket = calls[c].ticket /\ view'.ticket = view.ticket + 1
    BY <1>1, <1>2
  <2>4. OfView(c) => calls'[c].ticket # view'.ticket
    BY <1>0, <2>2, <2>3, NextTicket, Zenon
  <2> QED
    BY <2>1, <2>4 DEF Mine
<1>6. Ticketed'
  <2>1. \A c \in Queries : OfView(c) => calls[c].ticket <= view.ticket + 1
    <3> SUFFICES ASSUME NEW c \in Queries, OfView(c) PROVE calls[c].ticket <= view.ticket + 1
      OBVIOUS
    <3>1. calls[c].ticket \in Nat /\ calls[c].ticket <= view.ticket
      BY <1>0 DEF Ticketed
    <3> QED
      BY <1>0, <3>1, NextTicket, Zenon
  <2> QED
    BY <1>0, <1>1, <1>2, <1>5, <2>1 DEF Ticketed
<1>7. ArmedAlone'
  <2>1. view'.ticket > 0
    BY <1>0, <1>2, NextTicket, Zenon
  <2> QED
    BY <1>2, <1>5, <2>1 DEF ArmedAlone
<1>8. \A c \in Queries : ~Awaited(c)'
  BY <1>5 DEF Awaited
<1>9. OneAwaited' /\ OfTextTyped' /\ OfOneText'
  BY <1>0, <1>1, <1>2, <1>8 DEF OneAwaited, OfTextTyped, OfOneText
<1> QED
  BY <1>3, <1>4, <1>6, <1>7, <1>9 DEF ScreenInv

LEMMA SearchStep == ASSUME ScreenInv, Search PROVE ScreenInv'
<1>0. CallsShaped /\ ViewTypeOK /\ Ticketed /\ ArmedAlone /\ OfOneText /\ view.ticket \in Nat
  BY DEF ScreenInv, ViewTypeOK
<1>1. PICK c \in Queries :
        /\ CallsShaped' /\ \A d \in Queries \ {c} : calls'[d] = calls[d]
        /\ calls'[c].kind = "search" /\ calls'[c].text = view.text
        /\ calls'[c].ticket = view.ticket + 1 /\ calls'[c].first = TRUE
        /\ calls'[c].phase = IF opened = "failed" THEN "settled" ELSE "queued"
  <2>1. MakeCall("search", view.text, view.ticket + 1)
    BY DEF Search
  <2>2. PICK c \in Queries : CallIs(c, "search", view.text, view.ticket + 1)
    BY <2>1, CallMade, Zenon
  <2> QED
    BY <2>2 DEF CallIs
<1>2. /\ view' = [view EXCEPT !.armed = FALSE, !.ticket = @ + 1, !.fetching = opened # "failed"]
      /\ offline' = (offline \/ (opened = "failed" /\ rows # {})) /\ rows' = rows
  BY DEF Search
<1>3. /\ view'.text = view.text /\ view'.ticket = view.ticket + 1 /\ view'.armed = FALSE
      /\ view'.fetching = (opened # "failed")
  BY <1>0, <1>2 DEF ViewTypeOK
<1>4. ViewTypeOK'
  <2>1. (opened # "failed") \in BOOLEAN
    OBVIOUS
  <2>2. offline' \in BOOLEAN
    BY <1>0, <1>2 DEF ViewTypeOK
  <2>3. view.ticket + 1 \in Nat
    BY <1>0
  <2> QED
    BY <1>0, <1>2, <2>1, <2>2, <2>3 DEF ViewTypeOK
<1>5. \A d \in Queries \ {c} : OfView(d)' = OfView(d) /\ (OfView(d) => ~Mine(d)')
  <2> SUFFICES ASSUME NEW d \in Queries \ {c}
               PROVE  OfView(d)' = OfView(d) /\ (OfView(d) => ~Mine(d)')
    OBVIOUS
  <2>1. OfView(d)' = OfView(d) /\ calls'[d].ticket = calls[d].ticket
    BY <1>1 DEF OfView
  <2>2. OfView(d) => calls[d].ticket \in Nat /\ calls[d].ticket <= view.ticket
    BY <1>0 DEF Ticketed
  <2>3. OfView(d) => calls'[d].ticket # view'.ticket
    BY <1>0, <1>3, <2>1, <2>2
  <2> QED
    BY <2>1, <2>3 DEF Mine
<1>6. Ticketed'
  <2>1. \A d \in Queries : OfView(d) => calls[d].ticket \in Nat /\ calls[d].ticket <= view.ticket + 1
    BY <1>0 DEF Ticketed
  <2>2. OfView(c)' /\ calls'[c].ticket \in Nat /\ calls'[c].ticket <= view'.ticket
    BY <1>0, <1>1, <1>3 DEF OfView
  <2>3. ASSUME NEW d \in Queries \ {c}
        PROVE  /\ OfView(d)' => calls'[d].ticket \in Nat /\ calls'[d].ticket <= view'.ticket
               /\ calls'[d].phase # "unmade"
                    => OfView(d)' \/ (calls'[d].kind = "other" /\ calls'[d].ticket = 0)
    BY <1>0, <1>1, <1>3, <1>5, <2>1 DEF Ticketed
  <2> QED
    BY <2>2, <2>3 DEF Ticketed
<1>7. ArmedAlone'
  BY <1>0, <1>3 DEF ArmedAlone
<1>8. \A d \in Queries : Awaited(d)' => d = c
  BY <1>5 DEF Awaited
<1>9. /\ Awaited(c)' => opened # "failed"
      /\ Begins(c)' /\ calls'[c].text = view'.text
  BY <1>1, <1>3 DEF Awaited, Begins, UnderWay
<1>10. OneAwaited'
  BY <1>3, <1>8, <1>9 DEF OneAwaited
<1>11. OfTextTyped'
  BY <1>2, <1>3, <1>8, <1>9 DEF OfTextTyped
<1>12. OfOneText'
  BY <1>0, <1>2 DEF OfOneText
<1> QED
  BY <1>1, <1>4, <1>6, <1>7, <1>10, <1>11, <1>12 DEF ScreenInv

LEMMA MoreStep == ASSUME ScreenInv, LoadMore PROVE ScreenInv'
<1>0. /\ CallsShaped /\ ViewTypeOK /\ Ticketed /\ ArmedAlone /\ OneAwaited /\ OfTextTyped
      /\ OfOneText /\ view.ticket \in Nat
  BY DEF ScreenInv, ViewTypeOK
<1>1. PICK c \in Queries :
        /\ CallsShaped' /\ \A d \in Queries \ {c} : calls'[d] = calls[d]
        /\ calls'[c].kind = "more" /\ calls'[c].text = view.text
        /\ calls'[c].ticket = view.ticket
        /\ calls'[c].phase = IF opened = "failed" THEN "settled" ELSE "queued"
  <2>1. MakeCall("more", view.text, view.ticket)
    BY DEF LoadMore
  <2>2. PICK c \in Queries : CallIs(c, "more", view.text, view.ticket)
    BY <2>1, CallMade, Zenon
  <2> QED
    BY <2>2 DEF CallIs
<1>2. /\ ~view.fetching /\ view' = [view EXCEPT !.fetching = opened # "failed"]
      /\ offline' = offline /\ rows' = rows /\ rows # {}
  BY DEF LoadMore
<1>3. /\ view'.text = view.text /\ view'.ticket = view.ticket /\ view'.armed = view.armed
      /\ view'.fetching = (opened # "failed") /\ ~view.armed
  BY <1>0, <1>2 DEF ViewTypeOK, ArmedAlone
<1>4. ViewTypeOK'
  <2>1. (opened # "failed") \in BOOLEAN
    OBVIOUS
  <2> QED
    BY <1>0, <1>2, <2>1 DEF ViewTypeOK
<1>5. Ticketed'
  <2>1. OfView(c)' /\ calls'[c].ticket \in Nat /\ calls'[c].ticket <= view'.ticket
    BY <1>0, <1>1, <1>3 DEF OfView
  <2>2. ASSUME NEW d \in Queries \ {c}
        PROVE  /\ OfView(d)' => calls'[d].ticket \in Nat /\ calls'[d].ticket <= view'.ticket
               /\ calls'[d].phase # "unmade"
                    => OfView(d)' \/ (calls'[d].kind = "other" /\ calls'[d].ticket = 0)
    BY <1>0, <1>1, <1>3 DEF Ticketed, OfView
  <2> QED
    BY <2>1, <2>2 DEF Ticketed
<1>6. ~offline => rows \subseteq {view.text}
  BY <1>0, <1>2 DEF OfTextTyped
<1>7. \A d \in Queries : Awaited(d)' => d = c
  <2>1. ASSUME NEW d \in Queries \ {c}, Awaited(d)' PROVE Awaited(d)
    BY <1>1, <1>3, <2>1 DEF Awaited, OfView, Mine
  <2> QED
    BY <1>0, <1>2, <2>1 DEF OneAwaited
<1>8. Awaited(c)' => opened # "failed"
  BY <1>1 DEF Awaited, UnderWay
<1>9. OneAwaited'
  BY <1>1, <1>3, <1>7, <1>8 DEF OneAwaited
<1>10. OfTextTyped' /\ OfOneText'
  BY <1>0, <1>2, <1>3, <1>6 DEF OfTextTyped, OfOneText
<1>11. view.ticket > 0
  BY <1>0, <1>2 DEF ArmedAlone
<1>12. ArmedAlone'
  BY <1>3, <1>11 DEF ArmedAlone
<1> QED
  BY <1>1, <1>4, <1>5, <1>9, <1>10, <1>12 DEF ScreenInv

LEMMA OtherStep == ASSUME ScreenInv, Other PROVE ScreenInv'
<1>0. CallsShaped /\ ViewTypeOK /\ Ticketed /\ ArmedAlone /\ OneAwaited /\ OfTextTyped /\ OfOneText
  BY DEF ScreenInv
<1>1. PICK c \in Queries :
        /\ CallsShaped' /\ \A d \in Queries \ {c} : calls'[d] = calls[d]
        /\ calls'[c].kind = "other" /\ calls'[c].ticket = 0
  <2>1. MakeCall("other", "", 0)
    BY DEF Other
  <2>2. PICK c \in Queries : CallIs(c, "other", "", 0)
    BY <2>1, CallMade, Zenon
  <2> QED
    BY <2>2 DEF CallIs
<1>2. UNCHANGED <<view, rows, offline>>
  BY DEF Other
<1>3. ~OfView(c)' /\ ~Awaited(c)'
  BY <1>1 DEF OfView, Awaited
<1>4. \A d \in Queries \ {c} : /\ OfView(d)' = OfView(d) /\ Mine(d)' = Mine(d)
                               /\ Awaited(d)' = Awaited(d) /\ Begins(d)' = Begins(d)
  BY <1>1, <1>2 DEF OfView, Mine, Awaited, Begins
<1>5. Ticketed'
  BY <1>0, <1>1, <1>2, <1>3, <1>4 DEF Ticketed
<1>6. ViewTypeOK' /\ OfOneText'
  BY <1>0, <1>2 DEF ViewTypeOK, OfOneText
<1>7. ArmedAlone'
  BY <1>0, <1>2, <1>3, <1>4 DEF ArmedAlone
<1>8. OneAwaited'
  BY <1>0, <1>1, <1>2, <1>3, <1>4 DEF OneAwaited
<1>9. OfTextTyped'
  BY <1>0, <1>2, <1>3, <1>4 DEF OfTextTyped
<1> QED
  BY <1>1, <1>5, <1>6, <1>7, <1>8, <1>9 DEF ScreenInv

(* The open failed: every call that waits for it ends, the view's among    *)
(* them.                                                                   *)
LEMMA OpenStep == ASSUME ScreenInv, NEW ok \in BOOLEAN, Open(ok) PROVE ScreenInv'
<1>0. CallsShaped /\ ViewTypeOK /\ Ticketed /\ ArmedAlone /\ OneAwaited /\ OfTextTyped /\ OfOneText
  BY DEF ScreenInv
<1> DEFINE hit == {c \in Queries : calls[c].phase = "queued" /\ Mine(c)}
<1>1. /\ calls' = IF ok THEN calls ELSE [c \in Queries |->
           IF calls[c].phase = "queued" THEN [calls[c] EXCEPT !.phase = "settled"] ELSE calls[c]]
      /\ view' = IF ok \/ hit = {} THEN view ELSE [view EXCEPT !.fetching = FALSE]
      /\ offline' = (offline \/ (~ok /\ rows # {} /\ \E c \in hit : calls[c].kind = "search"))
      /\ rows' = rows
  BY DEF Open
<1>2. ASSUME NEW c \in Queries
      PROVE  /\ DOMAIN calls'[c] = Fields /\ Same(c)
             /\ calls'[c].phase = IF ~ok /\ calls[c].phase = "queued" THEN "settled"
                                                                     ELSE calls[c].phase
  <2>1. CASE ok
    BY <1>0, <1>1, <2>1 DEF CallsShaped, Same
  <2>2. CASE ~ok /\ calls[c].phase = "queued"
    <3>1. calls'[c] = [calls[c] EXCEPT !.phase = "settled"]
      BY <1>1, <2>2
    <3> QED
      BY <1>0, <2>2, <3>1 DEF CallsShaped, Same, Fields
  <2>3. CASE ~ok /\ calls[c].phase # "queued"
    <3>1. calls'[c] = calls[c]
      BY <1>1, <2>3
    <3> QED
      BY <1>0, <2>3, <3>1 DEF CallsShaped, Same
  <2> QED
    BY <2>1, <2>2, <2>3
<1>3. CallsShaped'
  <2>1. calls' = [c \in Queries |-> calls'[c]]
    BY <1>0, <1>1 DEF CallsShaped
  <2> QED
    BY <1>2, <2>1 DEF CallsShaped
<1>4. \A c \in Queries : Moves(c)
  BY <1>2 DEF Moves, UnderWay
<1>5. CASE ok \/ hit = {}
  <2>1. UNCHANGED <<view, rows, offline>>
    <3>1. view' = view /\ rows' = rows
      BY <1>1, <1>5
    <3>2. offline' = offline
      BY <1>0, <1>1, <1>5 DEF ViewTypeOK
    <3> QED
      BY <3>1, <3>2
  <2> QED
    BY <1>2, <1>3, <1>4, <2>1, ScreenAlone
<1>6. CASE ~ok /\ hit # {}
  <2>1. /\ view'.text = view.text /\ view'.ticket = view.ticket /\ view'.armed = view.armed
        /\ view'.fetching = FALSE /\ ViewTypeOK'
    <3>1. offline' \in BOOLEAN
      BY <1>0, <1>1 DEF ViewTypeOK
    <3> QED
      BY <1>0, <1>1, <1>6, <3>1 DEF ViewTypeOK
  <2>2. \A c \in Queries : /\ OfView(c)' = OfView(c) /\ Mine(c)' = Mine(c)
                           /\ Awaited(c)' => Awaited(c) /\ c \notin hit
    BY <1>2, <1>6, <2>1 DEF OfView, Mine, Awaited, Same, UnderWay
  \* The view's call is among them, unless nothing was typed yet.
  <2>3. view.fetching => \E c \in hit : TRUE
    BY <1>6
  <2>4. ASSUME NEW c \in hit PROVE Awaited(c) \/ view.ticket = 0
    BY <1>0 DEF Ticketed, Awaited, Mine, UnderWay
  <2>5. \A c \in Queries : ~Awaited(c)'
    <3> SUFFICES ASSUME NEW c \in Queries, Awaited(c)' PROVE FALSE
      OBVIOUS
    <3>1. Awaited(c) /\ c \notin hit /\ view.fetching
      BY <1>0, <2>2 DEF OneAwaited
    <3>2. PICK d \in hit : TRUE
      BY <1>6
    <3>3. view.ticket > 0 /\ view.ticket \in Nat
      BY <1>0, <3>1 DEF ArmedAlone, ViewTypeOK
    <3>4. Awaited(d)
      BY <2>4, <3>3
    <3> QED
      BY <1>0, <3>1, <3>2, <3>4 DEF OneAwaited
  <2>6. Ticketed'
    BY <1>0, <1>2, <2>1, <2>2, <1>4 DEF Ticketed, Same, Moves
  <2>7. ~view.armed
    <3> SUFFICES ASSUME view.armed PROVE FALSE
      OBVIOUS
    <3>1. PICK d \in hit : TRUE
      BY <1>6
    <3>2. view.ticket > 0 /\ view.ticket \in Nat /\ \A c \in Queries : OfView(c) => ~Mine(c)
      BY <1>0 DEF ArmedAlone, ViewTypeOK
    <3>3. Awaited(d)
      BY <2>4, <3>1, <3>2
    <3> QED
      BY <3>2, <3>3 DEF Awaited
  <2>8. ArmedAlone'
    BY <1>0, <1>1, <2>1, <2>7 DEF ArmedAlone
  <2>9. ~offline' => rows \subseteq {view.text}
    <3>1. PICK d \in hit : TRUE
      BY <1>6
    <3>2. CASE Awaited(d)
      <4>1. CASE calls[d].kind = "search"
        BY <1>1, <1>6, <3>1, <4>1
      <4>2. CASE calls[d].kind # "search"
        BY <1>0, <1>1, <3>2, <4>2 DEF OfTextTyped, Begins
      <4> QED
        BY <4>1, <4>2
    <3>3. CASE view.ticket = 0
      BY <1>0, <3>3 DEF ArmedAlone
    <3> QED
      BY <2>4, <3>2, <3>3
  <2>10. OneAwaited' /\ OfTextTyped' /\ OfOneText'
    BY <1>1, <2>1, <2>5, <2>9 DEF OneAwaited, OfTextTyped, OfOneText
  <2> QED
    BY <1>3, <2>1, <2>6, <2>8, <2>10 DEF ScreenInv
<1> QED
  BY <1>5, <1>6

LEMMA RowStep == ASSUME ScreenInv, NEW c \in Queries, Row(c) PROVE ScreenInv'
<1>0. CallsShaped /\ ViewTypeOK /\ Ticketed /\ ArmedAlone /\ OneAwaited /\ OfTextTyped /\ OfOneText
  BY DEF ScreenInv
<1>1. /\ Awaited(c) /\ view.fetching /\ calls[c].text = view.text
  BY <1>0 DEF Row, Awaited, Ticketed, OneAwaited, UnderWay
<1>2. /\ rows' = IF Begins(c) THEN {view.text} ELSE rows \cup {view.text}
      /\ offline' = (offline /\ ~Begins(c)) /\ view' = view
  BY <1>1 DEF Row, Begins
<1> DEFINE r == [calls[c] EXCEPT !.first = FALSE]
<1>3. /\ DOMAIN r = Fields /\ r.first = FALSE /\ r.kind = calls[c].kind
      /\ r.text = calls[c].text /\ r.ticket = calls[c].ticket /\ r.phase = calls[c].phase
  BY <1>0 DEF CallsShaped, Fields
<1>4. calls' = [calls EXCEPT ![c] = r]
  BY <1>0 DEF Row, CallsShaped
<1> HIDE DEF r
<1>5. /\ CallsShaped'
      /\ \A d \in Queries : calls'[d] = IF d = c THEN r ELSE calls[d]
  BY <1>0, <1>3, <1>4 DEF CallsShaped
<1>6. \A d \in Queries : OfView(d)' = OfView(d) /\ Mine(d)' = Mine(d) /\ Awaited(d)' = Awaited(d)
  BY <1>2, <1>3, <1>5 DEF OfView, Mine, Awaited
<1>7. Ticketed'
  BY <1>0, <1>2, <1>3, <1>5, <1>6 DEF Ticketed
<1>8. ViewTypeOK'
  <2>1. offline' \in BOOLEAN
    BY <1>0, <1>2 DEF ViewTypeOK
  <2> QED
    BY <1>0, <1>2, <2>1 DEF ViewTypeOK
<1>9. ArmedAlone'
  BY <1>0, <1>1, <1>2, <1>6 DEF ArmedAlone
<1>10. OneAwaited'
  BY <1>0, <1>2, <1>3, <1>5, <1>6 DEF OneAwaited
<1>11. ~offline' => rows' \subseteq {view.text}
  <2>1. CASE Begins(c)
    BY <1>2, <2>1
  <2>2. CASE ~Begins(c)
    BY <1>0, <1>1, <1>2, <2>2 DEF OfTextTyped
  <2> QED
    BY <2>1, <2>2
<1> QED
  BY <1>2, <1>5, <1>7, <1>8, <1>9, <1>10, <1>11 DEF ScreenInv, OfTextTyped, OfOneText

(* The steps of a query that do not reach the screen.                      *)
LEMMA QueryStep ==
  ASSUME ScreenInv, NEW c \in Queries,
         Begun(c) \/ Fetched(c) \/ Take(c) \/ Finish(c) \/ FetchFails(c) \/ \E p : Read(c, p)
  PROVE  ScreenInv'
<1>0. CallsShaped
  BY DEF ScreenInv
<1>1. CASE Begun(c)
  <2>1. calls' = [d \in Queries |->
          IF d = c THEN [calls[c] EXCEPT !.phase = "ready", !.epoch = epoch, !.crowd = Live # {}]
          ELSE IF Running(d) THEN [calls[d] EXCEPT !.crowd = TRUE] ELSE calls[d]]
        /\ calls[c].phase = "queued" /\ UNCHANGED <<view, rows, offline>>
    BY <1>1 DEF Begun
  <2>2. ASSUME NEW d \in Queries PROVE DOMAIN calls'[d] = Fields /\ Same(d) /\ Moves(d)
    <3>1. CASE d = c
      <4>1. calls'[c] = [calls[c] EXCEPT !.phase = "ready", !.epoch = epoch, !.crowd = Live # {}]
        BY <2>1
      <4> QED
        BY <1>0, <2>1, <3>1, <4>1 DEF CallsShaped, Same, Moves, Fields, UnderWay
    <3>2. CASE d # c
      <4>1. calls'[d] = [calls[d] EXCEPT !.crowd = TRUE] \/ calls'[d] = calls[d]
        BY <2>1, <3>2
      <4> QED
        BY <1>0, <4>1 DEF CallsShaped, Same, Moves, Fields
    <3> QED
      BY <3>1, <3>2
  <2>3. CallsShaped'
    BY <2>1, <2>2 DEF CallsShaped
  <2> QED
    BY <2>1, <2>2, <2>3, ScreenAlone
\* A query moves to another phase, or is asked for other pages.
<1>2. ASSUME NEW r, calls' = [calls EXCEPT ![c] = r], DOMAIN r = Fields,
             UNCHANGED <<view, rows, offline>>,
             r.kind = calls[c].kind, r.text = calls[c].text, r.ticket = calls[c].ticket,
             r.first = calls[c].first, calls[c].phase \in UnderWay, r.phase # "unmade"
      PROVE  ScreenInv'
  BY <1>2, OneCallMoves
<1>3. CASE Fetched(c)
  <2>1. calls[c].phase \in UnderWay
    BY <1>3 DEF Fetched, UnderWay
  <2>2. CASE Cancelled(c)
    BY <1>3, <2>1, <2>2, SettledStep DEF Fetched
  <2>3. CASE ~Cancelled(c)
    <3>1. PICK order : Arrives(c, order)
      BY <1>3, <2>3 DEF Fetched
    <3> DEFINE r == [calls[c] EXCEPT !.phase = IF shell = "web" THEN "ready" ELSE "fetched",
                                     !.batch = {}]
    <3>2. calls' = [calls EXCEPT ![c] = r] /\ UNCHANGED <<view, rows, offline>>
      BY <1>0, <3>1 DEF Arrives, CallsShaped
    <3>3. /\ DOMAIN r = Fields /\ r.phase \in {"ready", "fetched"} /\ r.kind = calls[c].kind
          /\ r.text = calls[c].text /\ r.ticket = calls[c].ticket /\ r.first = calls[c].first
      BY <1>0 DEF CallsShaped, Fields
    <3> HIDE DEF r
    <3>4. r.phase # "unmade"
      BY <3>3
    <3> QED
      BY <1>2, <2>1, <3>2, <3>3, <3>4
  <2> QED
    BY <2>2, <2>3
<1>4. CASE Take(c)
  <2>1. calls[c].phase \in UnderWay
    BY <1>4 DEF Take, UnderWay
  <2>2. CASE Contains(cache, calls[c].at)
    <3> DEFINE r == [calls[c] EXCEPT !.phase = "ready"]
    <3>1. calls' = [calls EXCEPT ![c] = r] /\ UNCHANGED <<view, rows, offline>>
      BY <1>4, <2>2 DEF Take
    <3>2. /\ DOMAIN r = Fields /\ r.phase = "ready" /\ r.kind = calls[c].kind
          /\ r.text = calls[c].text /\ r.ticket = calls[c].ticket /\ r.first = calls[c].first
      BY <1>0 DEF CallsShaped, Fields
    <3> HIDE DEF r
    <3> QED
      BY <1>2, <2>1, <3>1, <3>2
  <2>3. CASE ~Contains(cache, calls[c].at)
    BY <1>4, <2>1, <2>3, SettledStep DEF Take
  <2> QED
    BY <2>2, <2>3
<1>5. CASE Finish(c) \/ FetchFails(c)
  BY <1>5, SettledStep DEF Finish, FetchFails, UnderWay
<1>6. ASSUME NEW p, Read(c, p) PROVE ScreenInv'
  <2>1. calls[c].phase \in UnderWay
    BY <1>6 DEF Read, UnderWay
  <2>2. CASE ReadWeb(c, p)
    <3> DEFINE batch == {q \in WantedPages(p, Advanced(c, p)) : ~Contains(cache, q)}
               phase == IF batch = {} THEN "ready" ELSE "fetching"
               r == [calls[c] EXCEPT !.at = p, !.run = Advanced(c, p), !.reads = @ + 1,
                                     !.batch = batch, !.epoch = epoch, !.phase = phase]
    <3>1. calls' = [calls EXCEPT ![c] = r]
      BY <2>2, Zenon DEF ReadWeb
    <3>2. /\ DOMAIN r = Fields /\ r.phase = phase /\ r.kind = calls[c].kind
          /\ r.text = calls[c].text /\ r.ticket = calls[c].ticket /\ r.first = calls[c].first
      BY <1>0 DEF CallsShaped, Fields
    <3>3. calls' = [calls EXCEPT ![c] = r] /\ UNCHANGED <<view, rows, offline>>
      BY <2>2, <3>1 DEF ReadWeb
    <3> HIDE DEF r
    <3> QED
      BY <1>2, <2>1, <3>2, <3>3
  <2>3. CASE ReadDesktop(c, p) /\ Cancelled(c)
    BY <2>1, <2>3, SettledStep DEF ReadDesktop
  <2>4. CASE ReadDesktop(c, p) /\ ~Cancelled(c)
    <3> DEFINE batch == IF Contains(cache, p) THEN {}
                        ELSE {q \in WantedPages(p, Advanced(c, p)) : ~Contains(cache, q)}
               phase == IF Contains(cache, p) THEN "fetched" ELSE "fetching"
               r == [calls[c] EXCEPT !.at = p, !.run = Advanced(c, p), !.reads = @ + 1,
                                     !.batch = batch, !.phase = phase]
    <3>1. calls' = [calls EXCEPT ![c] = r]
      BY <2>4, Zenon DEF ReadDesktop
    <3>2. /\ DOMAIN r = Fields /\ r.phase = phase /\ r.kind = calls[c].kind
          /\ r.text = calls[c].text /\ r.ticket = calls[c].ticket /\ r.first = calls[c].first
      BY <1>0 DEF CallsShaped, Fields
    <3>3. calls' = [calls EXCEPT ![c] = r] /\ UNCHANGED <<view, rows, offline>>
      BY <2>4, <3>1 DEF ReadDesktop
    <3> HIDE DEF r
    <3> QED
      BY <1>2, <2>1, <3>2, <3>3
  <2> QED
    BY <1>6, <2>2, <2>3, <2>4 DEF Read
<1> QED
  BY <1>1, <1>3, <1>4, <1>5, <1>6

(* The view before the first keystroke, and each step of it.               *)
LEMMA ScreenStarts == ASSUME PagesInit PROVE ScreenInv
<1>1. calls = [c \in Queries |-> Unmade] /\ rows = {} /\ offline = FALSE
      /\ view = [text |-> "", ticket |-> 0, armed |-> FALSE, fetching |-> FALSE, done |-> FALSE]
  BY DEF PagesInit
<1>2. \A c \in Queries : /\ DOMAIN calls[c] = Fields /\ calls[c].kind = "none"
                         /\ calls[c].phase = "unmade"
  BY <1>1 DEF Unmade, Fields
<1>3. CallsShaped
  BY <1>1, <1>2 DEF CallsShaped
<1>4. \A c \in Queries : ~OfView(c) /\ ~Awaited(c)
  BY <1>2 DEF OfView, Awaited
<1>5. ViewTypeOK
  BY <1>1 DEF ViewTypeOK
<1>6. Ticketed /\ ArmedAlone /\ OneAwaited /\ OfTextTyped /\ OfOneText
  BY <1>1, <1>2, <1>4 DEF Ticketed, ArmedAlone, OneAwaited, OfTextTyped, OfOneText
<1> QED
  BY <1>3, <1>5, <1>6 DEF ScreenInv

(* Every step keeps it.                                                    *)
LEMMA ScreenKeeps == ASSUME ScreenInv, [PagesNext]_pagesVars PROVE ScreenInv'
<1>1. CASE UNCHANGED pagesVars
  BY <1>1 DEF pagesVars, ScreenInv, CallsShaped, ViewTypeOK, Ticketed, ArmedAlone, OneAwaited,
              OfTextTyped, OfOneText, OfView, Mine, Awaited, Begins
<1> QED
  BY <1>1, KeyStep, SearchStep, MoreStep, OtherStep, OpenStep, RowStep, QueryStep
     DEF PagesNext, CallStep

(* However late the rows of a superseded search come, and whatever fails   *)
(* or is cancelled, the hits on screen are of one text; only a failed      *)
(* search that kept the old hits lets those of another join them (reqSeq   *)
(* in SearchView.svelte).                                                  *)
THEOREM OneTextAlwaysShown == PagesSpec => []OneTextShown
<1>1. PagesInit => ScreenInv
  BY ScreenStarts
<1>2. ScreenInv /\ [PagesNext]_pagesVars => ScreenInv'
  BY ScreenKeeps
<1>3. ScreenInv => OneTextShown
  <2> SUFFICES ASSUME ScreenInv, ~offline PROVE Cardinality(rows) <= 1
    BY DEF OneTextShown
  <2>1. PICK t : rows \subseteq {t}
    BY DEF ScreenInv, OfOneText
  <2>2. IsFiniteSet({t}) /\ Cardinality({t}) = 1
    BY FS_Singleton
  <2>3. Cardinality(rows) <= Cardinality({t})
    BY <2>1, <2>2, FS_Subset
  <2> QED
    BY <2>2, <2>3
<1> QED
  BY <1>1, <1>2, <1>3, PTL DEF PagesSpec

-----------------------------------------------------------------------------
(* CatalogPages: a page that was ensured is there when it is read.  What   *)
(* the cache holds behind the page of a read under way was put or moved    *)
(* there by that read, so it is of its read-ahead, and that is shorter than*)
(* the cache.                                                              *)

Ahead(p) == (p + 1)..(p + PrefetchPages)
CacheSound(s) == s \in Seq(Pages) /\ Len(s) <= CachePages /\ IsInjective(s)
\* The page p is there and only its read-ahead would outlive it.
Behind(s, p) == \E i \in 1..Len(s) : s[i] = p /\ \A j \in (i + 1)..Len(s) : s[j] \in Ahead(p)

Beside(c) == /\ Running(c) /\ ~calls[c].crowd => \A d \in Queries : Running(d) => d = c
             /\ Running(c) /\ calls[c].crowd => shell = "desktop"
Awaiting(c) == calls[c].phase = "fetching" =>
  /\ calls[c].at \in Pages /\ calls[c].batch \subseteq Pages \cap ({calls[c].at} \cup Ahead(calls[c].at))
  /\ calls[c].crowd \/ Behind(cache, calls[c].at)
     \/ (calls[c].at \in calls[c].batch /\ ~Contains(cache, calls[c].at))
Came(c) == calls[c].phase = "fetched" =>
  shell = "desktop" /\ calls[c].at \in Pages /\ (calls[c].crowd \/ Contains(cache, calls[c].at))

PagesBound == "pages" \in DOMAIN budget /\ budget.pages \subseteq Pages
PageInv == /\ CacheSound(cache) /\ ~missed /\ PagesBound /\ shell \in {"web", "desktop"}
           /\ \A c \in Queries : Beside(c) /\ Awaiting(c) /\ Came(c)

(* Counting up to n, each step keeping what is so of the last one.         *)
LEMMA StepUp ==
  ASSUME NEW n \in Nat, NEW G, 0 \in G, \A i \in 1..n : i - 1 \in G => i \in G
  PROVE  \A i \in 0..n : i \in G
<1> DEFINE Out == {i \in 0..n : i \notin G}
<1>1. SUFFICES ASSUME Out # {} PROVE FALSE
  OBVIOUS
<1>2. PICK b \in Out : \A j \in Out : b <= j
  <2> Out \in SUBSET Nat
    OBVIOUS
  <2> HIDE DEF Out
  <2> QED
    BY <1>1, LeastNumber
<1>3. b \in 1..n /\ b - 1 \notin Out
  BY <1>2
<1> QED
  BY <1>2, <1>3

\* f runs n steps from base.
Runs(f, n, base, step) == f[0] = base /\ \A i \in 1..n : f[i] = step[i][f[i - 1]]

(* What a recursion over 1..n computes is there.                           *)
LEMMA RunIsThere ==
  ASSUME NEW n \in Nat, NEW V, NEW base \in V, NEW step \in [1..n -> [V -> V]]
  PROVE  \E f \in [0..n -> V] : Runs(f, n, base, step)
<1> DEFINE Upto(m) == \E f \in [0..m -> V] : Runs(f, m, base, step)
           G == {m \in 0..n : Upto(m)}
<1>1. 0 \in G
  <2> DEFINE f == [i \in 0..0 |-> base]
  <2>1. f \in [0..0 -> V] /\ f[0] = base /\ \A i \in 1..0 : f[i] = step[i][f[i - 1]]
    OBVIOUS
  <2>2. Upto(0)
    BY <2>1 DEF Runs
  <2> QED
    BY <2>2
<1>2. ASSUME NEW m \in 1..n, m - 1 \in G PROVE m \in G
  <2>1. PICK f \in [0..(m - 1) -> V] :
          f[0] = base /\ \A i \in 1..(m - 1) : f[i] = step[i][f[i - 1]]
    BY <1>2 DEF Runs
  <2> DEFINE g == [i \in 0..m |-> IF i = m THEN step[m][f[m - 1]] ELSE f[i]]
  <2>2. step[m] \in [V -> V] /\ f[m - 1] \in V
    BY <2>1
  <2>3. g \in [0..m -> V]
    BY <2>1, <2>2
  <2>4. g[0] = base
    BY <2>1
  <2>5. ASSUME NEW i \in 1..m PROVE g[i] = step[i][g[i - 1]]
    <3>1. CASE i = m
      BY <3>1
    <3>2. CASE i # m
      <4>1. i \in 1..(m - 1) /\ i - 1 # m
        BY <3>2
      <4> QED
        BY <2>1, <3>2, <4>1
    <3> QED
      BY <3>1, <3>2
  <2>6. Upto(m)
    <3> HIDE DEF g
    <3> QED
      BY <2>3, <2>4, <2>5 DEF Runs
  <2> HIDE DEF Upto
  <2> QED
    BY <2>6
<1>3. \A i \in 0..n : i \in G
  <2> HIDE DEF G
  <2>1. \A i \in 1..n : i - 1 \in G => i \in G
    BY <1>2
  <2> QED
    BY <1>1, <2>1, StepUp
<1> QED
  BY <1>3

(* PageCache.get: the page found moves to the end, the others keep their   *)
(* order.                                                                  *)
LEMMA MovedToEnd ==
  ASSUME NEW s, CacheSound(s), NEW i \in 1..Len(s)
  PROVE  /\ Refreshed(s, s[i]) \in Seq(Pages) /\ Len(Refreshed(s, s[i])) = Len(s)
         /\ \A k \in 1..Len(s) : Refreshed(s, s[i])[k] =
              IF k < i THEN s[k] ELSE IF k < Len(s) THEN s[k + 1] ELSE s[i]
<1> DEFINE n == Len(s)
           at == CHOOSE j \in DOMAIN s : s[j] = s[i]
           front == SubSeq(s, 1, i - 1)
           back == SubSeq(s, i + 1, n)
           rest == front \o back
<1>1. s \in Seq(Pages) /\ n \in Nat /\ DOMAIN s = 1..n
      /\ \A a, b \in 1..n : s[a] = s[b] => a = b
  BY DEF CacheSound, IsInjective
<1>2. at = i
  <2>1. at \in DOMAIN s /\ s[at] = s[i]
    BY <1>1
  <2> QED
    BY <1>1, <2>1
<1>3. Refreshed(s, s[i]) = Append(rest, s[i])
  <2>1. Contains(s, s[i])
    BY DEF Contains
  <2>2. Without(s, s[i]) = rest
    BY <1>2 DEF Without, RemoveAt
  <2> QED
    BY <2>1, <2>2 DEF Refreshed
<1>0. i \in Nat /\ i >= 1 /\ i <= n
  BY <1>1
<1>4. front \in Seq(Pages) /\ Len(front) = i - 1 /\ \A k \in 1..(i - 1) : front[k] = s[k]
  BY <1>1
<1>5. back \in Seq(Pages) /\ Len(back) = n - i /\ \A k \in 1..(n - i) : back[k] = s[k + i]
  <2>1. i + 1 \in 1..(n + 1) /\ n \in (i + 1 - 1)..n /\ n - (i + 1) + 1 = n - i
    BY <1>1
  <2>2. /\ back \in Seq(Pages) /\ Len(back) = IF i + 1 <= n THEN n - (i + 1) + 1 ELSE 0
        /\ \A k \in 1..(n - (i + 1) + 1) : back[k] = s[(i + 1) + k - 1]
    BY <1>1, <2>1, SubSeqProperties
  <2>3. Len(back) = n - i
    <3> HIDE DEF back, n
    <3> QED
      BY <1>0, <1>1, <2>2
  <2>4. \A k \in 1..(n - i) : back[k] = s[k + i]
    <3> TAKE k \in 1..(n - i)
    <3>1. (i + 1) + k - 1 = k + i
      BY <1>1
    <3> QED
      BY <2>1, <2>2, <3>1
  <2> QED
    BY <2>2, <2>3, <2>4
<1> HIDE DEF front, back, n
<1>6. rest \in Seq(Pages) /\ Len(rest) = n - 1
  <2>1. rest \in Seq(Pages) /\ Len(rest) = Len(front) + Len(back)
    BY <1>4, <1>5, ConcatProperties
  <2> QED
    BY <1>0, <1>1, <1>4, <1>5, <2>1
<1>7. ASSUME NEW k \in 1..(n - 1) PROVE rest[k] = IF k < i THEN s[k] ELSE s[k + 1]
  <2>1. CASE k < i
    BY <1>1, <1>4, <1>5, <2>1
  <2>2. CASE ~(k < i)
    <3>1. rest[k] = back[k - (i - 1)] /\ k - (i - 1) \in 1..(n - i)
      BY <1>1, <1>4, <1>5, <2>2
    <3>2. back[k - (i - 1)] = s[(k - (i - 1)) + i] /\ (k - (i - 1)) + i = k + 1
      BY <1>1, <1>5, <3>1
    <3> QED
      BY <2>2, <3>1, <3>2
  <2> QED
    BY <2>1, <2>2
<1> HIDE DEF rest
<1>8. s[i] \in Pages
  BY <1>1
<1>9. Append(rest, s[i]) \in Seq(Pages) /\ Len(Append(rest, s[i])) = n
  <2>1. Append(rest, s[i]) \in Seq(Pages) /\ Len(Append(rest, s[i])) = Len(rest) + 1
    BY <1>6, <1>8
  <2> QED
    BY <1>0, <1>1, <1>6, <2>1
<1>10. Append(rest, s[i])[n] = s[i] /\ \A k \in 1..(n - 1) : Append(rest, s[i])[k] = rest[k]
  BY <1>1, <1>6, <1>8, AppendProperties
<1> QED
  BY <1>1, <1>3, <1>7, <1>9, <1>10 DEF n

(* A lookup drops no page, and moves behind a page only what was looked up.*)
LEMMA RefreshedSound ==
  ASSUME NEW s, CacheSound(s), NEW q
  PROVE  /\ CacheSound(Refreshed(s, q))
         /\ \A p : Contains(Refreshed(s, q), p) <=> Contains(s, p)
         /\ Contains(s, q) => Behind(Refreshed(s, q), q)
         /\ \A p : Behind(s, p) /\ q \in Ahead(p) => Behind(Refreshed(s, q), p)
<1> DEFINE t == Refreshed(s, q)
<1>1. CASE ~Contains(s, q)
  BY <1>1 DEF Refreshed
<1>2. CASE Contains(s, q)
  <2>1. PICK i \in 1..Len(s) : s[i] = q
    BY <1>2 DEF Contains
  <2>2. /\ s \in Seq(Pages) /\ Len(s) \in Nat /\ DOMAIN s = 1..Len(s) /\ Len(s) <= CachePages
        /\ \A a, b \in 1..Len(s) : s[a] = s[b] => a = b
    BY DEF CacheSound, IsInjective
  <2>3. /\ t \in Seq(Pages) /\ Len(t) = Len(s) /\ DOMAIN t = 1..Len(s)
        /\ \A k \in 1..Len(s) : t[k] = IF k < i THEN s[k] ELSE IF k < Len(s) THEN s[k + 1] ELSE q
    BY <2>1, MovedToEnd
  <2> HIDE DEF t
  <2> DEFINE From(k) == IF k < i THEN k ELSE IF k < Len(s) THEN k + 1 ELSE i
  <2>4. \A k \in 1..Len(s) : From(k) \in 1..Len(s) /\ t[k] = s[From(k)]
    BY <2>1, <2>2, <2>3
  <2>5. \A a, b \in 1..Len(s) : From(a) = From(b) => a = b
    BY <2>2
  <2>6. CacheSound(t)
    <3>1. \A a, b \in 1..Len(s) : t[a] = t[b] => a = b
      <4> HIDE DEF From
      <4> QED
        BY <2>2, <2>4, <2>5
    <3> QED
      BY <2>2, <2>3, <3>1 DEF CacheSound, IsInjective
  <2>7. \A k \in 1..Len(s) : \E j \in 1..Len(s) : From(j) = k
    <3> TAKE k \in 1..Len(s)
    <3>1. CASE k < i
      BY <2>2, <3>1
    <3>2. CASE k = i
      <4>1. i \in Nat /\ i >= 1 /\ i <= Len(s)
        BY <2>1, <2>2
      <4>2. Len(s) \in 1..Len(s) /\ ~(Len(s) < i) /\ ~(Len(s) < Len(s))
        BY <2>2, <4>1
      <4>3. From(Len(s)) = i
        BY <4>2
      <4> QED
        BY <3>2, <4>2, <4>3
    <3>3. CASE k > i
      <4>1. k - 1 \in 1..Len(s) /\ From(k - 1) = k
        BY <2>2, <3>3
      <4> QED
        BY <4>1
    <3> QED
      BY <2>2, <3>1, <3>2, <3>3
  <2>8. \A p : Contains(t, p) <=> Contains(s, p)
    <3> TAKE p
    <3>1. ASSUME Contains(t, p) PROVE Contains(s, p)
      <4>1. PICK k \in 1..Len(s) : t[k] = p
        BY <2>3, <3>1 DEF Contains
      <4>2. From(k) \in 1..Len(s) /\ s[From(k)] = p
        BY <2>4, <4>1
      <4> QED
        BY <4>2 DEF Contains
    <3>2. ASSUME Contains(s, p) PROVE Contains(t, p)
      <4>1. PICK k \in 1..Len(s) : s[k] = p
        BY <3>2 DEF Contains
      <4>2. PICK j \in 1..Len(s) : From(j) = k
        BY <2>7
      <4>3. t[j] = p
        BY <2>4, <4>1, <4>2
      <4> QED
        BY <2>3, <4>3 DEF Contains
    <3> QED
      BY <3>1, <3>2
  <2>9. Behind(t, q)
    <3>1. Len(s) \in 1..Len(t) /\ t[Len(s)] = q /\ \A j \in (Len(s) + 1)..Len(t) : FALSE
      BY <2>2, <2>3
    <3> QED
      BY <3>1 DEF Behind
  <2>10. ASSUME NEW p, Behind(s, p), q \in Ahead(p) PROVE Behind(t, p)
    <3>1. PICK k \in 1..Len(s) : s[k] = p /\ \A j \in (k + 1)..Len(s) : s[j] \in Ahead(p)
      BY <2>10 DEF Behind
    <3>2. CASE k < i
      <4>1. t[k] = p
        BY <2>3, <3>1, <3>2
      <4>2. \A j \in (k + 1)..Len(t) : t[j] \in Ahead(p)
        BY <2>2, <2>3, <2>10, <3>1, <3>2
      <4> QED
        BY <2>3, <4>1, <4>2 DEF Behind
    <3>3. CASE k > i
      <4>1. k - 1 \in 1..Len(t) /\ t[k - 1] = p
        BY <2>2, <2>3, <3>1, <3>3
      <4>2. \A j \in k..Len(t) : t[j] \in Ahead(p)
        BY <2>2, <2>3, <2>10, <3>1, <3>3
      <4>3. (k - 1) + 1 = k
        OBVIOUS
      <4> QED
        BY <4>1, <4>2, <4>3 DEF Behind
    <3>4. CASE k = i
      <4>1. p = q
        BY <2>1, <3>1, <3>4
      <4>2. Behind(t, p)
        BY <2>9, <4>1
      <4> QED
        BY <4>2
    <3> QED
      BY <2>2, <3>2, <3>3, <3>4
  <2> QED
    BY <2>6, <2>8, <2>9, <2>10 DEF t
<1> QED
  BY <1>1, <1>2

(* PageCache.put: a new page goes to the end, and in a full cache takes the*)
(* place of the oldest, which is not the page that only its read-ahead     *)
(* outlives, for that is shorter than the cache.                           *)
LEMMA NotOldest ==
  ASSUME NEW s, CacheSound(s), NEW p \in Pages, NEW q \in Ahead(p), ~Contains(s, q),
         Len(s) >= CachePages, s[1] = p, \A j \in 2..Len(s) : s[j] \in Ahead(p)
  PROVE  FALSE
<1> DEFINE n == Len(s)
           T == Ahead(p) \ {q}
           f == [j \in 2..n |-> s[j]]
<1>1. /\ n \in Nat /\ DOMAIN s = 1..n /\ n = CachePages
      /\ \A a, b \in 1..n : s[a] = s[b] => a = b
  BY PagesAssumption DEF CacheSound, IsInjective
<1>2. p \in Nat /\ PrefetchPages \in Nat /\ CachePages \in Nat /\ PrefetchPages < CachePages
  BY PagesAssumption DEF Pages
<1>3. \A j \in 2..n : s[j] \in T
  BY <1>1 DEF Contains
<1>4. f \in Injection(2..n, T)
  <2>1. f \in [2..n -> T]
    BY <1>3
  <2>2. \A a, b \in 2..n : f[a] = f[b] => a = b
    BY <1>1
  <2> QED
    BY <2>1, <2>2 DEF Injection, IsInjective
<1>5. IsFiniteSet(Ahead(p)) /\ Cardinality(Ahead(p)) = PrefetchPages
  <2>1. p + 1 \in Int /\ p + PrefetchPages \in Int
    BY <1>2
  <2> DEFINE a == p + 1
             b == p + PrefetchPages
  <2>2. Ahead(p) = a..b
    BY DEF Ahead
  <2>3. b - a + 1 = PrefetchPages /\ (a > b => PrefetchPages = 0)
    BY <1>2
  <2> HIDE DEF a, b
  <2>4. IsFiniteSet(Ahead(p)) /\ Cardinality(Ahead(p)) = IF a > b THEN 0 ELSE b - a + 1
    BY <2>1, <2>2, FS_Interval DEF a, b
  <2> QED
    BY <1>2, <2>3, <2>4
<1>6. IsFiniteSet(T) /\ Cardinality(T) = PrefetchPages - 1
  BY <1>5, FS_RemoveElement
<1>7. Cardinality(2..n) <= Cardinality(T)
  <2> HIDE DEF f, T, n
  <2> QED
    BY <1>4, <1>6, FS_Injection
<1>8. Cardinality(2..n) = n - 1
  <2>1. Cardinality(2..n) = IF 2 > n THEN 0 ELSE n - 2 + 1
    BY <1>1, FS_Interval
  <2> QED
    BY <1>1, <1>2, <2>1
<1> HIDE DEF n, T, f
<1> QED
  BY <1>1, <1>2, <1>6, <1>7, <1>8

(* A page that is put pushes out no page that only its read-ahead outlives.*)
LEMMA StoredSound ==
  ASSUME NEW s, CacheSound(s), NEW q \in Pages
  PROVE  /\ CacheSound(Stored(s, q))
         /\ ~Contains(s, q) => Behind(Stored(s, q), q)
         /\ \A p \in Pages : Behind(s, p) /\ q \in Ahead(p) => Behind(Stored(s, q), p)
         /\ \A p : p # q /\ ~Contains(s, p) => ~Contains(Stored(s, q), p)
<1> DEFINE t == Stored(s, q)
           n == Len(s)
<1>1. CASE Contains(s, q)
  BY <1>1 DEF Stored
<1>2. /\ s \in Seq(Pages) /\ n \in Nat /\ DOMAIN s = 1..n /\ n <= CachePages
      /\ \A a, b \in 1..n : s[a] = s[b] => a = b
  BY DEF CacheSound, IsInjective
<1>3. CachePages \in Nat /\ CachePages >= 1
  BY PagesAssumption
\* What was there, the first k left out, and then q.
<1>4. ASSUME ~Contains(s, q), NEW k \in {0, 1}, k <= n, t \in Seq(Pages), n - k + 1 <= CachePages,
             Len(t) = n - k + 1, \A j \in 1..(n - k) : t[j] = s[j + k], t[n - k + 1] = q,
             \A p \in Pages : q \in Ahead(p) /\ k = 1 /\ Behind(s, p) => s[1] # p
      PROVE  /\ CacheSound(t) /\ Behind(t, q)
             /\ \A p \in Pages : Behind(s, p) /\ q \in Ahead(p) => Behind(t, p)
             /\ \A p : p # q /\ ~Contains(s, p) => ~Contains(t, p)
  <2> HIDE DEF t
  <2> DEFINE m == n - k
  <2>1. m \in Nat /\ n = m + k /\ Len(t) = m + 1 /\ DOMAIN t = 1..(m + 1)
        /\ \A j \in 1..m : j + k \in 1..n /\ t[j] = s[j + k]
    BY <1>2, <1>4
  <2>2. \A j \in 1..n : s[j] # q
    BY <1>4 DEF Contains
  <2>3. t[m + 1] = q
    BY <1>4
  <2> HIDE DEF m
  <2>4. CacheSound(t)
    <3>1. ASSUME NEW a \in 1..(m + 1), NEW b \in 1..(m + 1), t[a] = t[b] PROVE a = b
      <4>1. CASE a \in 1..m /\ b \in 1..m
        <5>1. a + k \in 1..n /\ b + k \in 1..n /\ s[a + k] = s[b + k]
          BY <2>1, <3>1, <4>1
        <5>2. a + k = b + k
          BY <1>2, <5>1
        <5> QED
          BY <1>4, <4>1, <5>2
      <4>2. CASE a = m + 1 /\ b # m + 1
        BY <2>1, <2>2, <2>3, <3>1, <4>2
      <4>3. CASE b = m + 1 /\ a # m + 1
        BY <2>1, <2>2, <2>3, <3>1, <4>3
      <4> QED
        BY <2>1, <4>1, <4>2, <4>3
    <3> QED
      BY <1>4, <2>1, <3>1 DEF CacheSound, IsInjective, m
  <2>5. Behind(t, q)
    <3>1. m + 1 \in 1..Len(t) /\ t[m + 1] = q /\ \A j \in ((m + 1) + 1)..Len(t) : FALSE
      BY <2>1, <2>3
    <3> QED
      BY <3>1 DEF Behind
  <2>6. ASSUME NEW p \in Pages, Behind(s, p), q \in Ahead(p) PROVE Behind(t, p)
    <3>1. PICK i \in 1..n : s[i] = p /\ \A j \in (i + 1)..n : s[j] \in Ahead(p)
      BY <2>6 DEF Behind
    <3>2. i > k
      BY <1>2, <1>4, <2>6, <3>1
    <3>3. i - k \in 1..m /\ (i - k) + k = i
      BY <1>2, <1>4, <2>1, <3>2
    <3>4. i - k \in 1..Len(t) /\ t[i - k] = p
      BY <2>1, <3>1, <3>3
    <3>5. ASSUME NEW j \in ((i - k) + 1)..Len(t) PROVE t[j] \in Ahead(p)
      <4>1. CASE j = m + 1
        BY <2>3, <2>6, <4>1
      <4>2. CASE j # m + 1
        <5>1. j \in 1..m /\ j + k \in (i + 1)..n
          BY <1>2, <1>4, <2>1, <3>3, <4>2
        <5> QED
          BY <2>1, <3>1, <5>1
      <4> QED
        BY <4>1, <4>2
    <3> QED
      BY <3>4, <3>5 DEF Behind
  <2>7. ASSUME NEW p, p # q, Contains(t, p) PROVE Contains(s, p)
    <3>1. PICK j \in 1..(m + 1) : t[j] = p
      BY <2>1, <2>7 DEF Contains
    <3>2. j \in 1..m
      BY <2>1, <2>3, <2>7, <3>1
    <3>3. j + k \in 1..n /\ s[j + k] = p
      BY <2>1, <3>1, <3>2
    <3> QED
      BY <3>3 DEF Contains
  <2> QED
    BY <2>4, <2>5, <2>6, <2>7
<1>5. CASE ~Contains(s, q) /\ n < CachePages
  <2>1. t = Append(s, q)
    BY <1>5 DEF Stored
  <2>2. t \in Seq(Pages) /\ Len(t) = n + 1 /\ (\A j \in 1..n : t[j] = s[j]) /\ t[n + 1] = q
    BY <1>2, <2>1, AppendProperties
  <2> HIDE DEF t, n
  <2>3. /\ 0 <= n /\ n - 0 + 1 <= CachePages /\ Len(t) = n - 0 + 1 /\ t[n - 0 + 1] = q
        /\ \A j \in 1..(n - 0) : t[j] = s[j + 0]
    BY <1>2, <1>3, <1>5, <2>2
  <2>4. 0 \in {0, 1} /\ 0 # 1
    OBVIOUS
  <2> QED
    BY <1>4, <1>5, <2>2, <2>3, <2>4 DEF t
<1>6. CASE ~Contains(s, q) /\ ~(n < CachePages)
  <2>1. t = Append(Tail(s), q)
    BY <1>6 DEF Stored
  <2>2. n >= 1 /\ s # <<>>
    BY <1>2, <1>3, <1>6
  <2>3. /\ Tail(s) \in Seq(Pages) /\ Len(Tail(s)) = n - 1
        /\ \A j \in 1..(n - 1) : Tail(s)[j] = s[j + 1]
    BY <1>2, <2>2
  <2>4. /\ t \in Seq(Pages) /\ Len(t) = n - 1 + 1 /\ t[n - 1 + 1] = q
        /\ \A j \in 1..(n - 1) : t[j] = s[j + 1]
    BY <2>1, <2>3, AppendProperties
  <2>5. ASSUME NEW p \in Pages, q \in Ahead(p), Behind(s, p) PROVE s[1] # p
    <3> SUFFICES ASSUME s[1] = p PROVE FALSE
      OBVIOUS
    <3>1. PICK i \in 1..n : s[i] = p /\ \A j \in (i + 1)..n : s[j] \in Ahead(p)
      BY <2>5 DEF Behind
    <3>2. i = 1
      BY <1>2, <2>2, <3>1
    <3>3. \A j \in 2..n : s[j] \in Ahead(p)
      BY <3>1, <3>2
    <3>4. n >= CachePages
      BY <1>2, <1>3, <1>6
    <3> QED
      BY <1>6, <2>5, <3>3, <3>4, NotOldest
  <2>6. 1 \in {0, 1} /\ 1 <= n /\ n - 1 + 1 <= CachePages
    BY <1>2, <2>2
  <2> HIDE DEF t, n
  <2> QED
    BY <1>4, <1>6, <2>4, <2>5, <2>6 DEF t
<1> QED
  BY <1>1, <1>5, <1>6

(* PageScheduler.ensure looks the wanted pages up one by one; the page     *)
(* itself comes first, so only its read-ahead is moved behind it.          *)
LEMMA LookUps ==
  ASSUME NEW s, CacheSound(s), NEW p, NEW n \in Nat
  PROVE  /\ LookedUp(s, p, n)[0] = s
         /\ \A k \in 1..n : LookedUp(s, p, n)[k] = Refreshed(LookedUp(s, p, n)[k - 1], p + k - 1)
<1> DEFINE V == {v \in Seq(Pages) : CacheSound(v)}
           Is(f) == f = [k \in 0..n |-> IF k = 0 THEN s ELSE Refreshed(f[k - 1], p + k - 1)]
           step == [k \in 1..n |-> [v \in V |-> Refreshed(v, p + k - 1)]]
           W == LookedUp(s, p, n)
<1>1. s \in V
  BY DEF CacheSound
<1>2. step \in [1..n -> [V -> V]]
  <2>1. \A v \in V : \A q : Refreshed(v, q) \in V
    <3>1. \A v \in V : \A q : CacheSound(Refreshed(v, q))
      BY RefreshedSound
    <3> QED
      BY <3>1 DEF CacheSound
  <2> HIDE DEF V
  <2> QED
    BY <2>1
<1>3. PICK f \in [0..n -> V] : f[0] = s /\ \A i \in 1..n : f[i] = step[i][f[i - 1]]
  <2>1. \E f \in [0..n -> V] : Runs(f, n, s, step)
    <3> HIDE DEF step, V
    <3> QED
      BY <1>1, <1>2, RunIsThere, Zenon
  <2> QED
    BY <2>1 DEF Runs
<1>4. Is(f)
  <2> HIDE DEF V
  <2>1. ASSUME NEW i \in 0..n
        PROVE  f[i] = IF i = 0 THEN s ELSE Refreshed(f[i - 1], p + i - 1)
    <3>1. CASE i = 0
      BY <1>3, <3>1
    <3>2. CASE i # 0
      <4>1. i \in 1..n /\ i - 1 \in 0..n
        BY <3>2
      <4>2. f[i - 1] \in V
        BY <1>3, <4>1
      <4> QED
        BY <1>3, <3>2, <4>1, <4>2
    <3> QED
      BY <3>1, <3>2
  <2> QED
    BY <1>3, <2>1
<1>5. W = CHOOSE f1 : Is(f1)
  BY DEF LookedUp
<1>6. Is(W)
  BY <1>4, <1>5
<1>7. W[0] = s
  BY <1>6
<1>8. ASSUME NEW i \in 1..n PROVE W[i] = Refreshed(W[i - 1], p + i - 1)
  <2>1. i \in 0..n /\ i # 0
    OBVIOUS
  <2> QED
    BY <1>6, <2>1
<1> QED
  BY <1>7, <1>8

(* Looking up the wanted pages drops none, and leaves the page itself in   *)
(* front of its read-ahead only.                                           *)
LEMMA LookedUpSound ==
  ASSUME NEW s, CacheSound(s), NEW p \in Pages, NEW n \in Nat, n >= 1, n <= PrefetchPages + 1
  PROVE  /\ CacheSound(LookedUp(s, p, n)[n])
         /\ Contains(LookedUp(s, p, n)[n], p) <=> Contains(s, p)
         /\ Contains(s, p) => Behind(LookedUp(s, p, n)[n], p)
<1> DEFINE W == LookedUp(s, p, n)
           Good(v) == CacheSound(v) /\ (Contains(v, p) <=> Contains(s, p))
           G == {k \in 0..n : Good(W[k]) /\ (k >= 1 /\ Contains(s, p) => Behind(W[k], p))}
<1>1. W[0] = s /\ \A k \in 1..n : W[k] = Refreshed(W[k - 1], p + k - 1)
  BY LookUps
<1>2. p \in Nat /\ PrefetchPages \in Nat
  BY PagesAssumption DEF Pages
<1> HIDE DEF W
<1>3. 0 \in G
  BY <1>1
<1>4. ASSUME NEW k \in 1..n, k - 1 \in G PROVE k \in G
  <2>1. Good(W[k - 1]) /\ (k - 1 >= 1 /\ Contains(s, p) => Behind(W[k - 1], p))
    BY <1>4
  <2>2. Good(W[k])
    BY <1>1, <2>1, RefreshedSound
  <2>3. CASE k = 1
    <3>1. p + k - 1 = p
      BY <1>2, <2>3
    <3>2. Contains(s, p) => Behind(W[k], p)
      BY <1>1, <2>1, <3>1, RefreshedSound
    <3> QED
      BY <2>2, <3>2
  <2>4. CASE k # 1
    <3>1. k - 1 >= 1 /\ p + k - 1 \in Ahead(p)
      BY <1>2, <2>4 DEF Ahead
    <3>2. Contains(s, p) => Behind(W[k], p)
      BY <1>1, <2>1, <3>1, RefreshedSound
    <3> QED
      BY <2>2, <3>2
  <2> QED
    BY <2>3, <2>4
<1>5. n \in G
  <2> HIDE DEF G
  <2>1. \A i \in 0..n : i \in G
    BY <1>3, <1>4, StepUp
  <2> QED
    BY <2>1
<1> QED
  BY <1>5 DEF W

(* A batch is put page by page, in any order: the page it was asked for is *)
(* put with it or was there, and only its read-ahead is put after it.      *)
LEMMA Puts ==
  ASSUME NEW s, CacheSound(s), NEW order \in Seq(Pages)
  PROVE  /\ StoredUpTo(s, order)[0] = s
         /\ \A k \in 1..Len(order) :
              StoredUpTo(s, order)[k] = Stored(StoredUpTo(s, order)[k - 1], order[k])
<1> DEFINE n == Len(order)
           V == {v \in Seq(Pages) : CacheSound(v)}
           Is(f) == f = [k \in 0..n |-> IF k = 0 THEN s ELSE Stored(f[k - 1], order[k])]
           step == [k \in 1..n |-> [v \in V |-> Stored(v, order[k])]]
           W == StoredUpTo(s, order)
<1>1. s \in V /\ n \in Nat /\ \A k \in 1..n : order[k] \in Pages
  BY DEF CacheSound
<1>2. step \in [1..n -> [V -> V]]
  <2>1. \A v \in V, q \in Pages : Stored(v, q) \in V
    <3>1. \A v \in V, q \in Pages : CacheSound(Stored(v, q))
      BY StoredSound
    <3> QED
      BY <3>1 DEF CacheSound
  <2> HIDE DEF V
  <2> QED
    BY <1>1, <2>1
<1>3. PICK f \in [0..n -> V] : f[0] = s /\ \A i \in 1..n : f[i] = step[i][f[i - 1]]
  <2>1. \E f \in [0..n -> V] : Runs(f, n, s, step)
    <3> HIDE DEF step, V, n
    <3> QED
      BY <1>1, <1>2, RunIsThere, Zenon
  <2> QED
    BY <2>1 DEF Runs
<1>4. Is(f)
  <2> HIDE DEF V
  <2>1. ASSUME NEW i \in 0..n
        PROVE  f[i] = IF i = 0 THEN s ELSE Stored(f[i - 1], order[i])
    <3>1. CASE i = 0
      BY <1>3, <3>1
    <3>2. CASE i # 0
      <4>1. i \in 1..n /\ i - 1 \in 0..n
        BY <3>2
      <4>2. f[i - 1] \in V
        BY <1>3, <4>1
      <4> QED
        BY <1>3, <3>2, <4>1, <4>2
    <3> QED
      BY <3>1, <3>2
  <2> QED
    BY <1>3, <2>1
<1>5. W = CHOOSE f1 : Is(f1)
  BY DEF StoredUpTo
<1>6. Is(W)
  BY <1>4, <1>5
<1>7. W[0] = s
  BY <1>1, <1>6
<1>8. ASSUME NEW i \in 1..n PROVE W[i] = Stored(W[i - 1], order[i])
  <2>1. i \in 0..n /\ i # 0
    BY <1>1
  <2> QED
    BY <1>6, <2>1
<1> QED
  BY <1>7, <1>8

(* So the page is there when the whole batch is.                           *)
LEMMA BatchPut ==
  ASSUME NEW s, CacheSound(s), NEW order \in Seq(Pages)
  PROVE  /\ CacheSound(StoredAll(s, order))
         /\ \A p \in Pages :
              /\ \A k \in 1..Len(order) : order[k] = p \/ order[k] \in Ahead(p)
              /\ Behind(s, p) \/ (~Contains(s, p) /\ \E k \in 1..Len(order) : order[k] = p)
              => Behind(StoredAll(s, order), p)
<1> DEFINE n == Len(order)
           W == StoredUpTo(s, order)
           S == {k \in 0..n : CacheSound(W[k])}
<1>1. /\ W[0] = s /\ \A k \in 1..n : W[k] = Stored(W[k - 1], order[k])
      /\ n \in Nat /\ \A k \in 1..n : order[k] \in Pages
  BY Puts
<1>2. StoredAll(s, order) = W[n]
  BY DEF StoredAll
<1> HIDE DEF W, n
<1>3. \A k \in 0..n : CacheSound(W[k])
  <2>1. 0 \in S
    BY <1>1
  <2>2. \A k \in 1..n : k - 1 \in S => k \in S
    BY <1>1, StoredSound
  <2>3. \A k \in 0..n : k \in S
    <3> HIDE DEF S
    <3> QED
      BY <1>1, <2>1, <2>2, StepUp
  <2> QED
    BY <2>3
<1>4. ASSUME NEW p \in Pages, \A k \in 1..n : order[k] = p \/ order[k] \in Ahead(p),
             Behind(s, p) \/ (~Contains(s, p) /\ \E k \in 1..n : order[k] = p)
      PROVE  Behind(W[n], p)
  <2> DEFINE Late(k) == ~Contains(W[k], p) /\ \E j \in (k + 1)..n : order[j] = p
             G == {k \in 0..n : Behind(W[k], p) \/ Late(k)}
  <2>1. 0 \in G
    BY <1>1, <1>4
  <2>2. ASSUME NEW k \in 1..n, k - 1 \in G PROVE k \in G
    <3>1. k - 1 \in 0..n /\ k \in 0..n /\ CacheSound(W[k - 1]) /\ order[k] \in Pages
          /\ W[k] = Stored(W[k - 1], order[k])
      BY <1>1, <1>3
    <3>2. CASE Behind(W[k - 1], p)
      <4>1. CASE order[k] \in Ahead(p)
        <5>1. Behind(W[k], p)
          BY <3>1, <3>2, <4>1, StoredSound
        <5> QED
          BY <3>1, <5>1
      <4>2. CASE order[k] = p
        <5>1. Contains(W[k - 1], p)
          BY <3>2 DEF Behind, Contains
        <5>2. Behind(W[k], p)
          BY <3>1, <3>2, <4>2, <5>1 DEF Stored
        <5> QED
          BY <3>1, <5>2
      <4> QED
        BY <1>4, <4>1, <4>2
    <3>3. CASE Late(k - 1)
      <4>1. ~Contains(W[k - 1], p)
        BY <3>3
      <4>2. PICK j \in k..n : order[j] = p
        <5>1. (k - 1) + 1 = k
          OBVIOUS
        <5> QED
          BY <3>3, <5>1
      <4>3. CASE order[k] = p
        <5>1. Behind(W[k], p)
          BY <3>1, <4>1, <4>3, StoredSound
        <5> QED
          BY <3>1, <5>1
      <4>4. CASE order[k] # p
        <5>1. ~Contains(W[k], p)
          BY <3>1, <4>1, <4>4, StoredSound
        <5>2. j \in (k + 1)..n
          BY <1>1, <4>2, <4>4
        <5>3. Late(k)
          BY <4>2, <5>1, <5>2
        <5> QED
          BY <3>1, <5>3
      <4> QED
        BY <4>3, <4>4
    <3> QED
      BY <2>2, <3>2, <3>3
  <2>3. n \in G
    <3> HIDE DEF G
    <3>1. \A k \in 0..n : k \in G
      BY <1>1, <2>1, <2>2, StepUp
    <3> QED
      BY <1>1, <3>1
  <2>4. ~Late(n)
    BY <1>1
  <2> QED
    BY <2>3, <2>4
<1> QED
  BY <1>1, <1>2, <1>3, <1>4 DEF n

-----------------------------------------------------------------------------
(* The steps that leave the cache and the reads under way alone.           *)
Kept(c) == /\ calls'[c].phase = calls[c].phase /\ calls'[c].crowd = calls[c].crowd
           /\ calls'[c].at = calls[c].at /\ calls'[c].batch = calls[c].batch
Idle(c) == calls'[c].phase \notin {"ready", "fetching", "fetched"}
PagesAlone == UNCHANGED <<shell, cache>> /\ (missed' => missed) /\ PagesBound'
              /\ \A c \in Queries : Kept(c) \/ Idle(c)

(* They keep what the cache owes the others.                               *)
LEMMA AloneKeeps == ASSUME PageInv, PagesAlone PROVE PageInv'
<1>1. ASSUME NEW c \in Queries PROVE Running(c)' => Running(c) /\ Kept(c)
  BY DEF PagesAlone, Running, Kept, Idle
<1>2. ASSUME NEW c \in Queries PROVE Beside(c)' /\ Awaiting(c)' /\ Came(c)'
  <2>1. Beside(c) /\ Awaiting(c) /\ Came(c)
    BY DEF PageInv
  <2>2. CASE Idle(c)
    BY <2>2 DEF Idle, Beside, Awaiting, Came, Running
  <2>3. CASE Kept(c)
    <3>1. Beside(c)'
      BY <1>1, <2>1, <2>3 DEF Beside, PagesAlone, Kept
    <3>2. Awaiting(c)'
      BY <2>1, <2>3 DEF Awaiting, PagesAlone, Kept
    <3>3. Came(c)'
      BY <2>1, <2>3 DEF Came, PagesAlone, Kept
    <3> QED
      BY <3>1, <3>2, <3>3
  <2> QED
    BY <2>2, <2>3 DEF PagesAlone
<1>3. CacheSound(cache)' /\ ~missed' /\ PagesBound' /\ shell' \in {"web", "desktop"}
  BY DEF PageInv, PagesAlone
<1> QED
  BY <1>2, <1>3 DEF PageInv

(* A call that is made is not running yet.                                 *)
LEMMA MadeCallIdle ==
  ASSUME CallsShaped, NEW kind, NEW text, NEW ticket, MakeCall(kind, text, ticket)
  PROVE  \A c \in Queries : Kept(c) \/ Idle(c)
<1> DEFINE free == {c \in Queries : calls[c].phase = "unmade"}
           slot == CHOOSE c \in free : \A d \in free : c <= d
           new == [Unmade EXCEPT !.kind = kind, !.text = text, !.ticket = ticket,
                     !.phase = IF opened = "failed" THEN "settled" ELSE "queued"]
<1>1. calls' = [calls EXCEPT ![slot] = new]
  BY DEF MakeCall
<1>2. new.phase \in {"settled", "queued"}
  BY DEF Unmade
<1> HIDE DEF slot, new
<1>3. \A c \in Queries : calls'[c] = calls[c] \/ calls'[c] = new
  BY <1>1 DEF CallsShaped
<1> QED
  BY <1>2, <1>3 DEF Kept, Idle

(* The end of a call leaves the others alone.                              *)
LEMMA SettledIdle ==
  ASSUME CallsShaped, NEW c \in Queries, NEW failed, Settled(c, failed)
  PROVE  \A d \in Queries : Kept(d) \/ Idle(d)
<1> DEFINE r == [calls[c] EXCEPT !.phase = "settled", !.batch = {}]
<1>1. calls' = [calls EXCEPT ![c] = r]
  BY DEF Settled, CallsShaped
<1>2. r.phase = "settled"
  BY DEF CallsShaped, Fields
<1> HIDE DEF r
<1>3. \A d \in Queries : calls'[d] = IF d = c THEN r ELSE calls[d]
  BY <1>1 DEF CallsShaped
<1> QED
  BY <1>2, <1>3 DEF Kept, Idle

(* Keystrokes, the timer, the open, hits, failures and ends of queries.    *)
LEMMA QuietPages ==
  ASSUME PageInv, CallsShaped,
         \/ \E t \in Texts \cup {""} : Type(t)
         \/ Search \/ LoadMore \/ Other
         \/ \E ok \in BOOLEAN : Open(ok)
         \/ \E c \in Queries : FetchFails(c) \/ Row(c) \/ Finish(c)
  PROVE  PageInv'
<1>1. PagesBound
  BY DEF PageInv
<1>2. CASE \E t \in Texts \cup {""} : Type(t)
  <2>1. UNCHANGED <<shell, cache, missed, calls>> /\ budget' = [budget EXCEPT !.typed = @ - 1]
    BY <1>2 DEF Type
  <2>2. PagesBound' /\ \A c \in Queries : Kept(c)
    BY <1>1, <2>1 DEF PagesBound, Kept
  <2> QED
    BY <2>1, <2>2, AloneKeeps DEF PagesAlone
<1>3. CASE Search \/ LoadMore
  <2>1. UNCHANGED <<shell, cache, missed, budget>>
        /\ \E kind, text, ticket : MakeCall(kind, text, ticket)
    BY <1>3 DEF Search, LoadMore
  <2>2. PagesBound' /\ \A c \in Queries : Kept(c) \/ Idle(c)
    BY <1>1, <2>1, MadeCallIdle DEF PagesBound
  <2> QED
    BY <2>1, <2>2, AloneKeeps DEF PagesAlone
<1>4. CASE Other
  <2>1. UNCHANGED <<shell, cache, missed>> /\ budget' = [budget EXCEPT !.others = @ - 1]
        /\ MakeCall("other", "", 0)
    BY <1>4 DEF Other
  <2>2. PagesBound' /\ \A c \in Queries : Kept(c) \/ Idle(c)
    BY <1>1, <2>1, MadeCallIdle DEF PagesBound
  <2> QED
    BY <2>1, <2>2, AloneKeeps DEF PagesAlone
<1>5. CASE \E ok \in BOOLEAN : Open(ok)
  <2>1. PICK ok \in BOOLEAN : Open(ok)
    BY <1>5
  <2>2. /\ UNCHANGED <<shell, cache, missed, budget>>
        /\ calls' = IF ok THEN calls ELSE [c \in Queries |->
             IF calls[c].phase = "queued" THEN [calls[c] EXCEPT !.phase = "settled"] ELSE calls[c]]
    BY <2>1 DEF Open
  <2>3. ASSUME NEW c \in Queries PROVE Kept(c) \/ Idle(c)
    <3>1. calls'[c] = calls[c] \/ calls'[c] = [calls[c] EXCEPT !.phase = "settled"]
      BY <2>2
    <3>2. [calls[c] EXCEPT !.phase = "settled"].phase = "settled"
      BY DEF CallsShaped, Fields
    <3> QED
      BY <3>1, <3>2 DEF Kept, Idle
  <2>4. PagesBound'
    BY <1>1, <2>2 DEF PagesBound
  <2> QED
    BY <2>2, <2>3, <2>4, AloneKeeps DEF PagesAlone
<1>6. CASE \E c \in Queries : FetchFails(c)
  <2>1. PICK c \in Queries : FetchFails(c)
    BY <1>6
  <2>2. /\ UNCHANGED <<shell, cache, missed>> /\ budget' = [budget EXCEPT !.lost = @ - 1]
        /\ Settled(c, TRUE)
    BY <2>1 DEF FetchFails
  <2>3. PagesBound' /\ \A d \in Queries : Kept(d) \/ Idle(d)
    BY <1>1, <2>2, SettledIdle DEF PagesBound
  <2> QED
    BY <2>2, <2>3, AloneKeeps DEF PagesAlone
<1>7. CASE \E c \in Queries : Finish(c)
  <2>1. PICK c \in Queries : Finish(c)
    BY <1>7
  <2>2. UNCHANGED <<shell, cache, missed, budget>> /\ Settled(c, FALSE)
    BY <2>1 DEF Finish
  <2>3. PagesBound' /\ \A d \in Queries : Kept(d) \/ Idle(d)
    BY <1>1, <2>2, SettledIdle DEF PagesBound
  <2> QED
    BY <2>2, <2>3, AloneKeeps DEF PagesAlone
<1>8. CASE \E c \in Queries : Row(c)
  <2>1. PICK c \in Queries : Row(c)
    BY <1>8
  <2> DEFINE r == [calls[c] EXCEPT !.first = FALSE]
  <2>2. UNCHANGED <<shell, cache, missed, budget>> /\ calls' = [calls EXCEPT ![c] = r]
    BY <2>1 DEF Row, CallsShaped
  <2>3. /\ r.phase = calls[c].phase /\ r.crowd = calls[c].crowd /\ r.at = calls[c].at
        /\ r.batch = calls[c].batch
    BY DEF CallsShaped, Fields
  <2> HIDE DEF r
  <2>4. \A d \in Queries : calls'[d] = IF d = c THEN r ELSE calls[d]
    BY <2>2 DEF CallsShaped
  <2>5. PagesBound' /\ \A d \in Queries : Kept(d)
    BY <1>1, <2>2, <2>3, <2>4 DEF PagesBound, Kept
  <2> QED
    BY <2>2, <2>5, AloneKeeps DEF PagesAlone
<1> QED
  BY <1>2, <1>3, <1>4, <1>5, <1>6, <1>7, <1>8

(* A query that begins beside others, and every query it joins, may lose   *)
(* the page it asked for; only the desktop lets it begin.                  *)
LEMMA BegunKeeps == ASSUME PageInv, CallsShaped, NEW c \in Queries, Begun(c) PROVE PageInv'
<1>1. /\ calls[c].phase = "queued" /\ Turn(c) /\ UNCHANGED <<shell, cache, missed, budget>>
      /\ calls' = [d \in Queries |->
            IF d = c THEN [calls[c] EXCEPT !.phase = "ready", !.epoch = epoch, !.crowd = Live # {}]
            ELSE IF Running(d) THEN [calls[d] EXCEPT !.crowd = TRUE] ELSE calls[d]]
  BY DEF Begun
<1> DEFINE r == [calls[c] EXCEPT !.phase = "ready", !.epoch = epoch, !.crowd = Live # {}]
           Joined(d) == [calls[d] EXCEPT !.crowd = TRUE]
<1>2. r.phase = "ready" /\ r.crowd = (Live # {})
  BY DEF CallsShaped, Fields
<1>3. \A d \in Queries : /\ Joined(d).phase = calls[d].phase /\ Joined(d).crowd = TRUE
                         /\ Joined(d).at = calls[d].at /\ Joined(d).batch = calls[d].batch
  BY DEF CallsShaped, Fields
<1>4. \A d \in Queries : calls'[d] = IF d = c THEN r ELSE IF Running(d) THEN Joined(d) ELSE calls[d]
  BY <1>1
<1>5. ~Running(c) /\ shell \in {"web", "desktop"} /\ (Live # {} => shell = "desktop")
  BY <1>1 DEF Running, PageInv, Turn
<1> HIDE DEF r, Joined
<1>6. calls'[c].phase = "ready" /\ calls'[c].crowd = (Live # {}) /\ Running(c)'
  BY <1>2, <1>4 DEF Running
<1>7. ASSUME NEW d \in Queries, d # c
      PROVE  /\ Running(d)' = Running(d) /\ calls'[d].phase = calls[d].phase
             /\ calls'[d].at = calls[d].at /\ calls'[d].batch = calls[d].batch
             /\ Running(d) => calls'[d].crowd
  BY <1>3, <1>4, <1>7 DEF Running
<1>8. ASSUME NEW d \in Queries PROVE Beside(d)' /\ Awaiting(d)' /\ Came(d)'
  <2>1. CASE d = c
    <3>1. \A e \in Queries : Running(e)' /\ ~calls'[c].crowd => e = c
      BY <1>6, <1>7 DEF Live
    <3>2. Beside(c)'
      BY <1>1, <1>5, <1>6, <3>1 DEF Beside
    <3>3. Awaiting(c)' /\ Came(c)'
      BY <1>6 DEF Awaiting, Came
    <3> QED
      BY <2>1, <3>2, <3>3
  <2>2. CASE d # c
    <3>1. Beside(d) /\ Awaiting(d) /\ Came(d)
      BY DEF PageInv
    <3>2. Running(d) => shell = "desktop"
      BY <1>5 DEF Live
    <3>3. Beside(d)'
      BY <1>1, <1>7, <2>2, <3>2 DEF Beside
    <3>4. Awaiting(d)'
      BY <1>7, <2>2, <3>1 DEF Awaiting, Running
    <3>5. Came(d)'
      BY <1>1, <1>7, <2>2, <3>1 DEF Came, Running
    <3> QED
      BY <3>3, <3>4, <3>5
  <2> QED
    BY <2>1, <2>2
<1>9. CacheSound(cache)' /\ ~missed' /\ PagesBound' /\ shell' \in {"web", "desktop"}
  BY <1>1 DEF PageInv, PagesBound
<1> QED
  BY <1>8, <1>9 DEF PageInv

(* One read under way moves on; with queries beside it, the cache may      *)
(* change under them, and they claim nothing of it.                        *)
LEMMA OneReads ==
  ASSUME PageInv, CallsShaped, NEW c \in Queries, Running(c), NEW r, calls' = [calls EXCEPT ![c] = r],
         r.crowd = calls[c].crowd, UNCHANGED <<shell, budget>>,
         CacheSound(cache'), ~missed', Awaiting(c)', Came(c)'
  PROVE  PageInv'
<1>1. \A d \in Queries : calls'[d] = IF d = c THEN r ELSE calls[d]
  BY DEF CallsShaped
<1>2. ASSUME NEW d \in Queries
      PROVE  /\ Running(d)' => Running(d) /\ calls'[d].crowd = calls[d].crowd
             /\ d # c /\ Running(d) => calls[d].crowd
  <2>1. Running(d)' => Running(d)
    BY <1>1 DEF Running
  <2>2. calls'[d].crowd = calls[d].crowd
    BY <1>1
  <2>3. d # c /\ Running(d) => calls[d].crowd
    BY DEF PageInv, Beside
  <2> QED
    BY <2>1, <2>2, <2>3
<1>3. ASSUME NEW d \in Queries PROVE Beside(d)' /\ Awaiting(d)' /\ Came(d)'
  <2>1. Beside(d) /\ Awaiting(d) /\ Came(d)
    BY DEF PageInv
  <2>2. Beside(d)'
    BY <1>2, <2>1 DEF Beside
  <2>3. CASE d = c
    BY <2>2, <2>3
  <2>4. CASE d # c
    <3>1. calls'[d] = calls[d] /\ (Running(d) => calls[d].crowd)
      BY <1>1, <1>2, <2>4
    <3>2. Awaiting(d)'
      BY <2>1, <3>1 DEF Awaiting, Running
    <3>3. Came(d)'
      BY <2>1, <3>1 DEF Came, Running
    <3> QED
      BY <2>2, <3>2, <3>3
  <2> QED
    BY <2>3, <2>4
<1>4. PagesBound' /\ shell' \in {"web", "desktop"}
  BY DEF PageInv, PagesBound
<1> QED
  BY <1>3, <1>4 DEF PageInv

(* What a read asks for is its page and read-ahead of the catalog.         *)
LEMMA WantedAre ==
  ASSUME NEW p \in Pages, NEW run
  PROVE  /\ WantedPages(p, run) \subseteq Pages \cap ({p} \cup Ahead(p)) /\ p \in WantedPages(p, run)
         /\ LastWanted(p, run) - p + 1 \in Nat /\ LastWanted(p, run) - p + 1 >= 1
         /\ LastWanted(p, run) - p + 1 <= PrefetchPages + 1
<1>1. p \in Nat /\ p >= 1 /\ p <= PageCount /\ PageCount \in Nat /\ PrefetchPages \in Nat
  BY PagesAssumption DEF Pages
<1>2. /\ LastWanted(p, run) \in Nat /\ LastWanted(p, run) >= p
      /\ LastWanted(p, run) <= p + PrefetchPages /\ LastWanted(p, run) <= PageCount
  BY <1>1 DEF LastWanted
<1>3. WantedPages(p, run) \subseteq Pages \cap ({p} \cup Ahead(p)) /\ p \in WantedPages(p, run)
  BY <1>1, <1>2 DEF WantedPages, Pages, Ahead
<1> QED
  BY <1>1, <1>2, <1>3

(* A read asks for what is missing, and what it finds it has moved to the  *)
(* end of the cache (ensure, ensure_pages).                                *)
LEMMA ReadKeeps ==
  ASSUME PageInv, CallsShaped, NEW c \in Queries, NEW p \in budget.pages, Read(c, p)
  PROVE  PageInv'
<1>0. Beside(c) /\ CacheSound(cache) /\ ~missed /\ p \in Pages
  BY DEF PageInv, PagesBound
<1>1. /\ calls[c].phase = "ready" /\ Running(c) /\ UNCHANGED <<shell, budget, missed>>
      /\ ReadWeb(c, p) \/ ReadDesktop(c, p)
  BY DEF Read, Running
<1> DEFINE run == Advanced(c, p)
           missing == {q \in WantedPages(p, run) : ~Contains(cache, q)}
<1>2. missing \subseteq Pages \cap ({p} \cup Ahead(p))
  BY <1>0, WantedAre
<1>3. CASE ReadWeb(c, p)
  <2> DEFINE n == LastWanted(p, run) - p + 1
             kept == LookedUp(cache, p, n)[n]
             phase == IF missing = {} THEN "ready" ELSE "fetching"
             r == [calls[c] EXCEPT !.at = p, !.run = run, !.reads = @ + 1, !.batch = missing,
                                   !.epoch = epoch, !.phase = phase]
  <2>1. calls' = [calls EXCEPT ![c] = r] /\ cache' = IF missing = {} THEN Refreshed(kept, p) ELSE kept
    BY <1>3, Zenon DEF ReadWeb
  <2>2. /\ r.phase = phase /\ r.crowd = calls[c].crowd /\ r.at = p /\ r.batch = missing
    BY DEF CallsShaped, Fields
  <2>3. /\ CacheSound(kept) /\ (Contains(kept, p) <=> Contains(cache, p))
        /\ Contains(cache, p) => Behind(kept, p)
    <3>1. n \in Nat /\ n >= 1 /\ n <= PrefetchPages + 1
      BY <1>0, WantedAre
    <3> HIDE DEF n
    <3> QED
      BY <1>0, <3>1, LookedUpSound
  <2>4. CacheSound(cache')
    <3>1. CacheSound(Refreshed(kept, p))
      BY <2>3, RefreshedSound
    <3> QED
      BY <2>1, <2>3, <3>1
  <2> HIDE DEF r, kept, run
  <2>5. calls'[c] = r
    BY <2>1 DEF CallsShaped
  <2>6. Awaiting(c)'
    <3> SUFFICES ASSUME missing # {} PROVE Awaiting(c)'
      BY <2>2, <2>5 DEF Awaiting
    <3>1. cache' = kept
      BY <2>1
    <3>2. Behind(cache', p) \/ (p \in missing /\ ~Contains(cache', p))
      BY <1>0, <2>3, <3>1, WantedAre
    <3> HIDE DEF missing
    <3> QED
      BY <1>0, <1>2, <2>2, <2>5, <3>2 DEF Awaiting
  <2>7. Came(c)'
    BY <2>2, <2>5 DEF Came
  <2> HIDE DEF missing
  <2> QED
    BY <1>0, <1>1, <2>1, <2>2, <2>4, <2>6, <2>7, OneReads
<1>4. CASE ReadDesktop(c, p) /\ Cancelled(c)
  <2>1. UNCHANGED cache /\ Settled(c, TRUE)
    BY <1>4 DEF ReadDesktop
  <2>2. \A d \in Queries : Kept(d) \/ Idle(d)
    BY <2>1, SettledIdle
  <2>3. PagesBound'
    BY <1>1 DEF PageInv, PagesBound
  <2> QED
    BY <1>1, <2>1, <2>2, <2>3, AloneKeeps DEF PagesAlone
<1>5. CASE ReadDesktop(c, p) /\ ~Cancelled(c)
  <2> DEFINE phase == IF Contains(cache, p) THEN "fetched" ELSE "fetching"
             batch == IF Contains(cache, p) THEN {} ELSE missing
             r == [calls[c] EXCEPT !.at = p, !.run = run, !.reads = @ + 1, !.batch = batch,
                                   !.phase = phase]
  <2>1. calls' = [calls EXCEPT ![c] = r] /\ cache' = cache /\ shell = "desktop"
    BY <1>5, Zenon DEF ReadDesktop
  <2>2. /\ r.phase = phase /\ r.crowd = calls[c].crowd /\ r.at = p /\ r.batch = batch
    BY DEF CallsShaped, Fields
  <2> HIDE DEF r
  <2>3. calls'[c] = r
    BY <2>1 DEF CallsShaped
  <2>4. p \in WantedPages(p, run)
    BY <1>0, WantedAre
  <2>5. Awaiting(c)'
    <3> SUFFICES ASSUME ~Contains(cache, p) PROVE Awaiting(c)'
      BY <2>2, <2>3 DEF Awaiting
    <3>1. p \in missing
      BY <2>4
    <3> HIDE DEF missing
    <3> QED
      BY <1>0, <1>2, <2>1, <2>2, <2>3, <3>1 DEF Awaiting
  <2>6. Came(c)'
    BY <1>0, <1>1, <2>1, <2>2, <2>3 DEF Came
  <2> HIDE DEF missing
  <2> QED
    BY <1>0, <1>1, <2>1, <2>2, <2>5, <2>6, OneReads
<1> QED
  BY <1>1, <1>3, <1>4, <1>5

(* A batch that is all there was put in some order.                        *)
LEMMA OrderWhole ==
  ASSUME NEW batch \in SUBSET Pages, NEW order \in SetToSeqs(batch)
  PROVE  /\ order \in Seq(Pages) /\ \A k \in 1..Len(order) : order[k] \in batch
         /\ \A p \in batch : \E k \in 1..Len(order) : order[k] = p
<1> DEFINE n == Cardinality(batch)
<1>1. IsFiniteSet(batch) /\ n \in Nat
  <2>1. IsFiniteSet(Pages)
    BY PagesAssumption, FS_Interval DEF Pages
  <2>2. IsFiniteSet(batch)
    BY <2>1, FS_Subset
  <2> QED
    BY <2>2, FS_CardinalityType
<1>2. order \in [1..n -> batch] /\ \A i, j \in 1..n : i # j => order[i] # order[j]
  BY DEF SetToSeqs
<1> HIDE DEF n
<1>3. order \in Seq(Pages) /\ Len(order) = n
  BY <1>1, <1>2
<1>4. order \in Injection(1..n, batch)
  BY <1>2 DEF Injection, IsInjective
<1>5. Cardinality(1..n) = n
  <2>1. Cardinality(1..n) = IF 1 > n THEN 0 ELSE n - 1 + 1
    BY <1>1, FS_Interval
  <2> QED
    BY <1>1, <2>1
<1>6. order \in Surjection(1..n, batch)
  BY <1>1, <1>4, <1>5, FS_Injection DEF n
<1> QED
  BY <1>2, <1>3, <1>6 DEF Surjection

(* A batch arrives, fails or was superseded.                               *)
LEMMA FetchedKeeps == ASSUME PageInv, CallsShaped, NEW c \in Queries, Fetched(c) PROVE PageInv'
<1>0. Beside(c) /\ Awaiting(c) /\ CacheSound(cache) /\ ~missed /\ shell \in {"web", "desktop"}
  BY DEF PageInv
<1>1. calls[c].phase = "fetching" /\ Running(c) /\ UNCHANGED <<shell, budget>>
  BY DEF Fetched, Running
<1>2. CASE Cancelled(c)
  <2>1. UNCHANGED <<cache, missed>> /\ Settled(c, TRUE)
    BY <1>2 DEF Fetched
  <2>2. \A d \in Queries : Kept(d) \/ Idle(d)
    BY <2>1, SettledIdle
  <2>3. PagesBound'
    BY <1>1 DEF PageInv, PagesBound
  <2> QED
    BY <1>1, <2>1, <2>2, <2>3, AloneKeeps DEF PagesAlone
<1>3. CASE ~Cancelled(c)
  <2> DEFINE at == calls[c].at
             batch == calls[c].batch
  <2>1. PICK order \in SetToSeqs(batch) : Arrives(c, order)
    BY <1>3 DEF Fetched
  <2>2. /\ at \in Pages /\ batch \subseteq Pages \cap ({at} \cup Ahead(at))
        /\ calls[c].crowd \/ Behind(cache, at) \/ (at \in batch /\ ~Contains(cache, at))
    BY <1>0, <1>1 DEF Awaiting
  <2> DEFINE stored == StoredAll(cache, order)
             r == [calls[c] EXCEPT !.phase = IF shell = "web" THEN "ready" ELSE "fetched",
                                   !.batch = {}]
  <2>3. /\ calls' = [calls EXCEPT ![c] = r]
        /\ cache' = IF shell = "web" THEN Refreshed(stored, at) ELSE stored
        /\ missed' = (missed \/ (shell = "web" /\ ~Contains(stored, at)))
    BY <2>1 DEF Arrives, CallsShaped
  <2>4. /\ r.phase = IF shell = "web" THEN "ready" ELSE "fetched"
        /\ r.crowd = calls[c].crowd /\ r.at = at
    BY DEF CallsShaped, Fields
  <2> HIDE DEF at, batch, r
  <2>5. /\ order \in Seq(Pages) /\ \A k \in 1..Len(order) : order[k] \in batch
        /\ \A p \in batch : \E k \in 1..Len(order) : order[k] = p
    BY <2>1, <2>2, OrderWhole
  <2>6. CacheSound(stored)
    BY <1>0, <2>5, BatchPut
  <2>7. calls[c].crowd \/ Contains(stored, at)
    <3>1. CASE Behind(cache, at) \/ (at \in batch /\ ~Contains(cache, at))
      <4>1. \A k \in 1..Len(order) : order[k] = at \/ order[k] \in Ahead(at)
        BY <2>2, <2>5
      <4>2. Behind(cache, at) \/ (~Contains(cache, at) /\ \E k \in 1..Len(order) : order[k] = at)
        BY <2>5, <3>1
      <4>3. Behind(stored, at)
        BY <1>0, <2>2, <2>5, <4>1, <4>2, BatchPut
      <4> QED
        BY <4>3 DEF Behind, Contains
    <3> QED
      BY <2>2, <3>1
  <2> HIDE DEF stored
  <2>8. CacheSound(cache')
    BY <2>3, <2>6, RefreshedSound
  <2>9. ~missed'
    BY <1>0, <1>1, <2>3, <2>7 DEF Beside
  <2>10. calls'[c] = r
    BY <2>3 DEF CallsShaped
  <2>11. Awaiting(c)'
    BY <2>4, <2>10 DEF Awaiting
  <2>12. Came(c)'
    <3> SUFFICES ASSUME shell # "web" PROVE Came(c)'
      BY <2>4, <2>10 DEF Came
    <3>1. cache' = stored /\ shell' = "desktop" /\ at \in Pages
      BY <1>0, <1>1, <2>2, <2>3
    <3>2. calls'[c].at = at /\ calls'[c].crowd = calls[c].crowd
      BY <2>4, <2>10
    <3> QED
      BY <2>7, <3>1, <3>2 DEF Came
  <2> QED
    BY <1>1, <2>3, <2>4, <2>8, <2>9, <2>11, <2>12, OneReads
<1> QED
  BY <1>2, <1>3

(* The desktop takes the page under a second lock of the cache.            *)
LEMMA TakeKeeps == ASSUME PageInv, CallsShaped, NEW c \in Queries, Take(c) PROVE PageInv'
<1>0. Beside(c) /\ Came(c) /\ CacheSound(cache) /\ ~missed
  BY DEF PageInv
<1>1. calls[c].phase = "fetched" /\ Running(c) /\ UNCHANGED <<shell, budget>>
      /\ cache' = Refreshed(cache, calls[c].at)
  BY DEF Take, Running
<1>2. CASE Contains(cache, calls[c].at)
  <2> DEFINE r == [calls[c] EXCEPT !.phase = "ready"]
  <2>1. calls' = [calls EXCEPT ![c] = r] /\ missed' = missed
    BY <1>2 DEF Take, CallsShaped
  <2>2. r.phase = "ready" /\ r.crowd = calls[c].crowd
    BY DEF CallsShaped, Fields
  <2> HIDE DEF r
  <2>3. calls'[c] = r
    BY <2>1 DEF CallsShaped
  <2>4. CacheSound(cache')
    BY <1>0, <1>1, RefreshedSound
  <2>5. Awaiting(c)' /\ Came(c)'
    BY <2>2, <2>3 DEF Awaiting, Came
  <2> QED
    BY <1>0, <1>1, <2>1, <2>2, <2>4, <2>5, OneReads
<1>3. CASE ~Contains(cache, calls[c].at)
  <2>1. Settled(c, TRUE) /\ missed' = (missed \/ ~calls[c].crowd) /\ cache' = cache
    BY <1>1, <1>3 DEF Take, Refreshed
  <2>2. ~missed'
    BY <1>0, <1>1, <1>3, <2>1 DEF Came
  <2>3. \A d \in Queries : Kept(d) \/ Idle(d)
    BY <2>1, SettledIdle
  <2>4. PagesBound'
    BY <1>1 DEF PageInv, PagesBound
  <2> QED
    BY <1>1, <2>1, <2>2, <2>3, <2>4, AloneKeeps DEF PagesAlone
<1> QED
  BY <1>2, <1>3

(* Before the first read nothing is under way.                             *)
LEMMA PagesStart == ASSUME PagesInit PROVE PageInv
<1>1. /\ cache = <<>> /\ missed = FALSE /\ shell \in Shells /\ budget \in PagesPlans
      /\ calls = [c \in Queries |-> Unmade]
  BY DEF PagesInit
<1>2. \A c \in Queries : calls[c].phase = "unmade"
  BY <1>1 DEF Unmade
<1>3. \A c \in Queries : Beside(c) /\ Awaiting(c) /\ Came(c)
  BY <1>2 DEF Beside, Awaiting, Came, Running
<1>4. CacheSound(cache)
  BY <1>1, PagesAssumption DEF CacheSound, IsInjective
<1>5. PagesBound /\ shell \in {"web", "desktop"}
  BY <1>1, PagesAssumption DEF PagesBound, Pages
<1> QED
  BY <1>1, <1>3, <1>4, <1>5 DEF PageInv

(* Every step keeps what the cache owes the reads under way.               *)
LEMMA PagesKeep == ASSUME PageInv, CallsShaped, [PagesNext]_pagesVars PROVE PageInv'
<1>1. CASE UNCHANGED pagesVars
  <2>1. UNCHANGED <<shell, cache, missed, budget, calls>>
    BY <1>1 DEF pagesVars
  <2>2. PagesBound' /\ \A c \in Queries : Kept(c)
    BY <2>1 DEF PageInv, PagesBound, Kept
  <2> QED
    BY <2>1, <2>2, AloneKeeps DEF PagesAlone
<1> QED
  BY <1>1, QuietPages, BegunKeeps, ReadKeeps, FetchedKeeps, TakeKeeps DEF PagesNext, CallStep

(* A page that was ensured is there when it is read, whatever the cache    *)
(* holds and however long the read-ahead is, as long as it is shorter than *)
(* the cache: always in the browser, and on the desktop unless another     *)
(* query ran beside the read (scheduler.ts ensure and page, catalog.rs     *)
(* read_zstd).                                                             *)
THEOREM PagesAlwaysResident == PagesSpec => []Resident
<1>1. PagesInit => ScreenInv /\ PageInv
  BY ScreenStarts, PagesStart
<1>2. ScreenInv /\ PageInv /\ [PagesNext]_pagesVars => ScreenInv' /\ PageInv'
  BY ScreenKeeps, PagesKeep DEF ScreenInv
<1>3. PageInv => Resident
  BY DEF PageInv, Resident
<1> QED
  BY <1>1, <1>2, <1>3, PTL DEF PagesSpec
=============================================================================
