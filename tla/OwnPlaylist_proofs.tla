------------------------ MODULE OwnPlaylist_proofs ------------------------
(***************************************************************************)
(* Proofs about OwnPlaylist, for any contents, any number of commands in   *)
(* flight and every kind of accident.                                      *)
(***************************************************************************)
EXTENDS OwnPlaylist, TLAPS

-----------------------------------------------------------------------------
(***************************************************************************)
(* The pieces a step is built from                                         *)
(***************************************************************************)

\* Moving one task leaves the others where they are.
LEMMA GotoEffect ==
  ASSUME TypeOK, NEW t \in Tasks, NEW new \in TaskStates, Goto(t, new)
  PROVE  /\ task' \in [Tasks -> TaskStates]
         /\ task'[t] = new
         /\ \A u \in Tasks \ {t} : task'[u] = task[u]
BY DEF TypeOK, Goto

\* The shapes a task may take.
LEMMA States ==
  /\ Idle \in TaskStates
  /\ \A k \in {"share", "update", "unshare", "delete", "renew"} : Called(k) \in TaskStates
  /\ \A k \in {"edit", "update"}, d \in Docs : Saving(k, d) \in TaskStates
  /\ \A k \in {"share", "update", "unshare", "delete", "renew"},
        pc \in {"seq", "send", "commit"}, d \in Docs \cup {Tombstone},
        b \in Nat, s \in Nat : Publishing(pc, k, d, b, s) \in TaskStates
  /\ \A pc \in {"check", "apply"}, r \in Records : Draining(pc, r) \in TaskStates
BY DEF TaskStates, State, Idle, Called, Saving, Publishing, Draining

\* What each writer of the row makes of it: a row of the right type whose
\* record is the one its number names.
LEMMA RowWriters ==
  ASSUME TypeOK, RecordMatchesRow
  PROVE  /\ \A d \in Docs :
              /\ EditedRow(d) \in Rows
              /\ (RecordMatchesRow /\ row' = EditedRow(d)) => RecordMatchesRow'
         /\ \A r \in Records :
              /\ SharedRow(r) \in Rows \cup {NoRow}
              /\ row' = SharedRow(r) => RecordMatchesRow'
              /\ BuriedRow(r) \in Rows \cup {NoRow}
              /\ row' = BuriedRow(r) => RecordMatchesRow'
         /\ \A r \in Records : r.doc # Tombstone =>
              /\ SyncedRow(r) \in Rows \cup {NoRow}
              /\ row' = SyncedRow(r) => RecordMatchesRow'
         /\ \A s \in Nat :
              /\ UnsharedRow(s) \in Rows \cup {NoRow}
              /\ row' = UnsharedRow(s) => RecordMatchesRow'
<1> USE SentinelAssumption DEF Rows, Row, NewRow, Seq, TypeOK, RecordMatchesRow
<1>1. ASSUME NEW d \in Docs
      PROVE  /\ EditedRow(d) \in Rows
             /\ row' = EditedRow(d) => RecordMatchesRow'
  BY <1>1 DEF EditedRow
<1>2. ASSUME NEW r \in Records
      PROVE  /\ SharedRow(r) \in Rows \cup {NoRow}
             /\ row' = SharedRow(r) => RecordMatchesRow'
  BY <1>2 DEF SharedRow, Records
<1>3. ASSUME NEW r \in Records
      PROVE  /\ BuriedRow(r) \in Rows \cup {NoRow}
             /\ row' = BuriedRow(r) => RecordMatchesRow'
  BY <1>3 DEF BuriedRow, Records
<1>4. ASSUME NEW r \in Records, r.doc # Tombstone
      PROVE  /\ SyncedRow(r) \in Rows \cup {NoRow}
             /\ row' = SyncedRow(r) => RecordMatchesRow'
  BY <1>4 DEF SyncedRow, Records
<1>5. ASSUME NEW s \in Nat
      PROVE  /\ UnsharedRow(s) \in Rows \cup {NoRow}
             /\ row' = UnsharedRow(s) => RecordMatchesRow'
  BY <1>5 DEF UnsharedRow
<1> QED BY <1>1, <1>2, <1>3, <1>4, <1>5

-----------------------------------------------------------------------------
(***************************************************************************)
(* OwnInv is inductive                                                     *)
(***************************************************************************)

LEMMA OwnInvInit == Init => OwnInv
<1> SUFFICES ASSUME Init PROVE OwnInv
  OBVIOUS
<1>1. PICK d \in Docs : row = NewRow(d, NoRecord, TRUE)
  BY DEF Init
<1>2. /\ row \in Rows
      /\ row.rec = NoRecord
      /\ row.published = FALSE
  BY <1>1 DEF NewRow, Row, Rows, Seq
<1>3. TypeOK
  <2>1. task \in [Tasks -> TaskStates]
    BY States DEF Init
  <2>2. started \in 0..MaxCommands
    <3>1. MaxCommands \in Nat
      BY WeatherAssumption DEF Init, MaxCommands
    <3> QED BY <3>1 DEF Init
  <2> QED BY <1>2, <2>1, <2>2 DEF Init, TypeOK
<1>4. TaskShapes /\ FreshBuffered /\ RecordMatchesRow /\ PrivateInv
  BY <1>2 DEF Init, TaskShapes, FreshBuffered, RecordMatchesRow, PrivateInv, Tasks, Idle, State
<1> QED BY <1>3, <1>4 DEF OwnInv

\* What the weather allows.
LEMMA WeatherTyped == TypeOK => MaxCommands \in Nat /\ Slots \subseteq Commands
BY WeatherAssumption DEF TypeOK, MaxCommands, Slots

\* Count stays within its bound.
LEMMA CountEffect ==
  ASSUME TypeOK, Count
  PROVE  weather' = weather /\ started' \in 0..MaxCommands
BY WeatherTyped DEF TypeOK, Count

\* The user's commands: starting one and saving an edit.
LEMMA CommandsKeepOwnInv ==
  ASSUME OwnInv, NEW c \in Commands,
         \/ \E kind \in {"share", "unshare", "delete"} : StartCommand(c, kind)
         \/ \E d \in Docs : StartUpdate(c, d)
         \/ SaveUpdate(c)
  PROVE  OwnInv'
<1>1. c \in Tasks /\ c # Background
  BY TaskAssumption DEF Tasks
<1>2. CASE \E kind \in {"share", "unshare", "delete"} : StartCommand(c, kind)
  <2>1. PICK kind \in {"share", "unshare", "delete"} : StartCommand(c, kind)
    BY <1>2
  <2>2. /\ task' \in [Tasks -> TaskStates]
        /\ task'[c] = Called(kind)
        /\ \A u \in Tasks \ {c} : task'[u] = task[u]
    BY <1>1, <2>1, GotoEffect, States DEF StartCommand, OwnInv
  <2>3. TypeOK'
    BY <2>1, <2>2, CountEffect DEF OwnInv, TypeOK, StartCommand, MaxCommands
  <2>4. TaskShapes'
    BY <2>2 DEF OwnInv, TaskShapes, Called, State
  <2>5. RecordMatchesRow'
    BY <2>1 DEF OwnInv, RecordMatchesRow, StartCommand
  <2>6. PrivateInv'
    BY <1>1, <2>1, <2>2 DEF OwnInv, PrivateInv, StartCommand, Called, State, Tasks
  <2>7. FreshBuffered'
    BY <2>1 DEF OwnInv, FreshBuffered, StartCommand
  <2> QED BY <2>3, <2>4, <2>5, <2>6, <2>7 DEF OwnInv
<1>3. CASE \E d \in Docs : StartUpdate(c, d)
  <2>1. PICK d \in Docs : StartUpdate(c, d)
    BY <1>3
  <2> DEFINE k == IF row.published THEN "update" ELSE "edit"
  <2>2. /\ task' \in [Tasks -> TaskStates]
        /\ task'[c] = Saving(k, d)
        /\ \A u \in Tasks \ {c} : task'[u] = task[u]
    BY <1>1, <2>1, GotoEffect, States DEF StartUpdate, OwnInv
  <2>3. TypeOK'
    BY <2>1, <2>2, CountEffect DEF OwnInv, TypeOK, StartUpdate, MaxCommands
  <2>4. TaskShapes'
    BY <2>2 DEF OwnInv, TaskShapes, Saving, State
  <2>5. RecordMatchesRow'
    BY <2>1 DEF OwnInv, RecordMatchesRow, StartUpdate
  <2>6. PrivateInv'
    BY <1>1, <2>1, <2>2 DEF OwnInv, PrivateInv, StartUpdate, Saving, State, Tasks
  <2>7. FreshBuffered'
    BY <2>1 DEF OwnInv, FreshBuffered, StartUpdate
  <2> QED BY <2>3, <2>4, <2>5, <2>6, <2>7 DEF OwnInv
<1>4. CASE SaveUpdate(c)
  <2>1. /\ task[c].doc \in Docs
        /\ task[c].kind \in {"edit", "update"}
    BY <1>1, <1>4 DEF OwnInv, TaskShapes, SaveUpdate, At
  <2>2. /\ task' \in [Tasks -> TaskStates]
        /\ task'[c] = IF task[c].kind = "update" THEN Called("update") ELSE Idle
        /\ \A u \in Tasks \ {c} : task'[u] = task[u]
    BY <1>1, <1>4, GotoEffect, States DEF SaveUpdate, OwnInv
  <2>3. TypeOK'
    BY <1>4, <2>1, <2>2, RowWriters DEF OwnInv, TypeOK, SaveUpdate, MaxCommands
  <2>4. TaskShapes'
    BY <2>2 DEF OwnInv, TaskShapes, Called, Idle, State
  <2>5. RecordMatchesRow'
    BY <1>4, <2>1, RowWriters DEF OwnInv, SaveUpdate
  <2>6. PrivateInv'
    <3> SUFFICES ASSUME intent' = "never" PROVE PrivateInv'
      BY DEF PrivateInv
    <3>1. intent = "never" /\ PrivateInv
      BY <1>4 DEF SaveUpdate, OwnInv
    <3>2. row'.rec = NoRecord /\ row'.published = FALSE
      BY <1>4, <3>1 DEF SaveUpdate, PrivateInv, EditedRow, NewRow, Row
    <3>3. task[c].kind = "edit"
      BY <1>4, <3>1 DEF SaveUpdate, PrivateInv, At
    <3>4. task'[c].pc = "idle"
      BY <2>2, <3>3 DEF Idle, State
    <3> QED
      BY <1>1, <1>4, <2>2, <3>1, <3>2, <3>4 DEF SaveUpdate, PrivateInv, Tasks
  <2>7. FreshBuffered'
    BY <1>4 DEF OwnInv, FreshBuffered, SaveUpdate
  <2> QED BY <2>3, <2>4, <2>5, <2>6, <2>7 DEF OwnInv
<1> QED BY <1>2, <1>3, <1>4

\* Before the first share no task is on its way to the node or drains a record.
LEMMA PrivateTasks ==
  ASSUME OwnInv, intent = "never", NEW t \in Tasks
  PROVE  /\ task[t].pc \in {"idle", "save", "read", "commit"}
         /\ task[t].pc \in {"read", "commit"} =>
              t \in Commands /\ task[t].kind \in {"unshare", "delete"}
BY DEF OwnInv, PrivateInv, Tasks

\* What the node's ingest does to the buffer.
LEMMA BufferedEffect ==
  ASSUME TypeOK, NEW r \in Records, Buffered(r)
  PROVE  /\ buf' \in Records \cup {NoRecord} /\ fresh' \in BOOLEAN
         /\ FreshBuffered => FreshBuffered'
BY SentinelAssumption DEF TypeOK, Buffered, FreshBuffered

\* The record a task is about to publish.
LEMMA SentRecord ==
  ASSUME OwnInv, NEW t \in Tasks,
         \/ task[t].pc = "send"
         \/ task[t].pc = "commit" /\ task[t].kind \in {"share", "update", "renew"}
  PROVE  [seq |-> task[t].seq, doc |-> task[t].doc] \in Records
<1>1. task[t] \in TaskStates
  BY DEF OwnInv, TypeOK
<1>2. task[t].seq \in Nat /\ task[t].doc \in Docs \cup {Tombstone}
  BY <1>1 DEF TaskStates
<1>3. task[t].seq # 0
  BY DEF OwnInv, TaskShapes
<1> QED BY <1>2, <1>3 DEF Records

\* Reading the row and asking for a number.
LEMMA ReadKeepsOwnInv ==
  ASSUME OwnInv, NEW t \in Tasks, ReadRow(t)
  PROVE  OwnInv'
<1> DEFINE k == task[t].kind
           tombstones == k \in {"unshare", "delete"}
           found == row # NoRow /\ (row.mine \/ k = "delete")
           new == IF ~found THEN Idle
                  ELSE Publishing(IF tombstones /\ ~(row.mine /\ row.published)
                                  THEN "commit" ELSE "seq",
                                  k,
                                  IF tombstones THEN Tombstone ELSE row.doc,
                                  row.seq, row.seq)
<1>1. /\ task[t].pc = "read"
      /\ Goto(t, new)
      /\ UNCHANGED <<row, buf, fresh, signed, intent, started, weather>>
  BY DEF ReadRow, At
<1>2. k \in {"share", "update", "unshare", "delete", "renew"}
  BY <1>1 DEF OwnInv, TaskShapes
<1>3. new \in TaskStates
  <2>1. CASE ~found
    BY <2>1, States
  <2>2. CASE found
    <3>1. row \in Rows
      BY <2>2 DEF OwnInv, TypeOK
    <3>2. row.seq \in Nat /\ row.doc \in Docs
      BY <3>1 DEF Rows
    <3> QED BY <1>2, <2>2, <3>2, States
  <2> QED BY <2>1, <2>2
<1> HIDE DEF new
<1>4. /\ task' \in [Tasks -> TaskStates]
      /\ task'[t] = new
      /\ \A u \in Tasks \ {t} : task'[u] = task[u]
  BY <1>1, <1>3, GotoEffect DEF OwnInv
<1>5. \/ new.pc = "idle"
      \/ new.pc = "seq" /\ new.kind = k /\ (tombstones => row.published)
      \/ new.pc = "commit" /\ new.kind = k /\ tombstones
  BY DEF new, Idle, Publishing, State
<1>6. TypeOK'
  BY <1>1, <1>4 DEF OwnInv, TypeOK, MaxCommands
<1>7. TaskShapes'
  BY <1>2, <1>4, <1>5 DEF OwnInv, TaskShapes
<1>8. RecordMatchesRow'
  BY <1>1 DEF OwnInv, RecordMatchesRow
<1>9. PrivateInv'
  <2> SUFFICES ASSUME intent' = "never" PROVE PrivateInv'
    BY DEF PrivateInv
  <2>1. intent = "never" /\ PrivateInv
    BY <1>1 DEF OwnInv
  <2>2. t \in Commands /\ k \in {"unshare", "delete"}
    BY <1>1, <2>1, PrivateTasks
  <2>3. \/ new.pc = "idle"
        \/ new.pc = "commit" /\ new.kind \in {"unshare", "delete"}
    <3>1. CASE row = NoRow
      BY <3>1 DEF new, Idle, State
    <3>2. CASE row # NoRow
      <4>1. row.published = FALSE
        BY <2>1, <3>2 DEF PrivateInv
      <4> QED BY <1>5, <2>2, <4>1
    <3> QED BY <3>1, <3>2
  <2>4. t # Background
    BY <2>2, TaskAssumption
  <2> QED
    BY <1>1, <1>4, <2>1, <2>3, <2>4 DEF PrivateInv, Tasks
<1>10. FreshBuffered'
  BY <1>1 DEF OwnInv, FreshBuffered
<1> QED BY <1>6, <1>7, <1>8, <1>9, <1>10 DEF OwnInv

LEMMA AskKeepsOwnInv ==
  ASSUME OwnInv, NEW t \in Tasks, AskSeq(t)
  PROVE  OwnInv'
<1>1. PICK net \in {Seq(buf)} \cup (IF RpcFails THEN {0} ELSE {}) :
        Goto(t, Publishing("send", task[t].kind, task[t].doc, task[t].base,
                           NextSeq(task[t].seq, net)))
  BY DEF AskSeq
<1>2. /\ task[t].pc = "seq"
      /\ UNCHANGED <<row, buf, fresh, signed, intent, started, weather>>
  BY DEF AskSeq, At
<1>3. /\ task[t].seq \in Nat /\ task[t].base \in Nat
      /\ task[t].doc \in Docs \cup {Tombstone}
  BY DEF OwnInv, TypeOK, TaskStates
<1>4. task[t].kind \in {"share", "update", "unshare", "delete", "renew"}
  BY <1>2 DEF OwnInv, TaskShapes
<1>5. net \in Nat
  BY DEF Seq, OwnInv, TypeOK, Records
<1>6. NextSeq(task[t].seq, net) \in Nat \ {0}
  BY <1>3, <1>5 DEF NextSeq, Larger
<1> DEFINE new == Publishing("send", task[t].kind, task[t].doc, task[t].base,
                             NextSeq(task[t].seq, net))
<1>7. new \in TaskStates
  BY <1>3, <1>4, <1>6, States
<1>8. new.pc = "send" /\ new.kind = task[t].kind /\ new.seq # 0
  BY <1>6 DEF Publishing, State
<1> HIDE DEF new
<1>9. /\ task' \in [Tasks -> TaskStates]
      /\ task'[t] = new
      /\ \A u \in Tasks \ {t} : task'[u] = task[u]
  BY <1>1, <1>7, GotoEffect DEF OwnInv, new
<1>10. TypeOK'
  BY <1>2, <1>9 DEF OwnInv, TypeOK, MaxCommands
<1>11. TaskShapes'
  BY <1>4, <1>8, <1>9 DEF OwnInv, TaskShapes
<1>12. RecordMatchesRow'
  BY <1>2 DEF OwnInv, RecordMatchesRow
<1>13. intent # "never"
  BY <1>2, PrivateTasks
<1>14. PrivateInv'
  BY <1>2, <1>13 DEF PrivateInv
<1>15. FreshBuffered'
  BY <1>2 DEF OwnInv, FreshBuffered
<1> QED BY <1>10, <1>11, <1>12, <1>14, <1>15 DEF OwnInv

\* A publish that reaches the node, answered or not.
LEMMA SendKeepsOwnInv ==
  ASSUME OwnInv, NEW t \in Tasks, Send(t) \/ SendFails(t)
  PROVE  OwnInv'
<1> DEFINE r == [seq |-> task[t].seq, doc |-> task[t].doc]
           sent(s) == Publishing("commit", task[t].kind, task[t].doc,
                                 task[t].base, s)
<1>1. /\ task[t].pc = "send"
      /\ UNCHANGED <<row, intent, started, weather>>
      /\ \/ NodePublishes(r)
         \/ UNCHANGED <<signed, buf, fresh>>
  BY DEF Send, SendFails, At
<1>2. r \in Records
  BY <1>1, SentRecord
<1>3. /\ task[t].seq \in Nat \ {0} /\ task[t].base \in Nat
      /\ task[t].doc \in Docs \cup {Tombstone}
      /\ task[t].kind \in {"share", "update", "unshare", "delete", "renew"}
  BY <1>1 DEF OwnInv, TypeOK, TaskShapes, TaskStates
<1>4. PICK new \in TaskStates :
        /\ Goto(t, new)
        /\ \/ new.pc = "idle"
           \/ /\ new.pc = "commit" /\ new.kind = task[t].kind
              /\ new.kind \in {"share", "update", "renew"} => new.seq # 0
  <2>1. CASE Send(t)
    <3>1. Goto(t, sent(task[t].seq))
      BY <2>1 DEF Send
    <3>2. sent(task[t].seq) \in TaskStates
      BY <1>3, States
    <3>3. /\ sent(task[t].seq).pc = "commit"
          /\ sent(task[t].seq).kind = task[t].kind
          /\ sent(task[t].seq).seq # 0
      BY <1>3 DEF Publishing, State
    <3> HIDE DEF sent
    <3> QED BY <3>1, <3>2, <3>3
  <2>2. CASE SendFails(t) /\ task[t].kind \in {"unshare", "delete"}
    <3>1. Goto(t, sent(task[t].base))
      BY <2>2 DEF SendFails
    <3>2. sent(task[t].base) \in TaskStates
      BY <1>3, States
    <3>3. /\ sent(task[t].base).pc = "commit"
          /\ sent(task[t].base).kind = task[t].kind
      BY DEF Publishing, State
    <3> HIDE DEF sent
    <3> QED BY <2>2, <3>1, <3>2, <3>3
  <2>3. CASE SendFails(t) /\ task[t].kind \notin {"unshare", "delete"}
    <3>1. Goto(t, Idle)
      BY <2>3 DEF SendFails
    <3>2. Idle.pc = "idle"
      BY DEF Idle, State
    <3> QED BY <3>1, <3>2, States
  <2> QED BY <2>1, <2>2, <2>3
<1>5. /\ task' \in [Tasks -> TaskStates]
      /\ task'[t] = new
      /\ \A u \in Tasks \ {t} : task'[u] = task[u]
  BY <1>4, GotoEffect DEF OwnInv
<1>6. TypeOK'
  <2>1. /\ buf' \in Records \cup {NoRecord}
        /\ fresh' \in BOOLEAN
        /\ signed' \subseteq Records
    BY <1>1, <1>2, BufferedEffect DEF OwnInv, TypeOK, NodePublishes
  <2> QED BY <1>1, <1>5, <2>1 DEF OwnInv, TypeOK, MaxCommands
<1>7. TaskShapes'
  BY <1>3, <1>4, <1>5 DEF OwnInv, TaskShapes
<1>8. RecordMatchesRow'
  BY <1>1 DEF OwnInv, RecordMatchesRow
<1>9. intent # "never"
  BY <1>1, PrivateTasks
<1>10. PrivateInv'
  BY <1>1, <1>9 DEF PrivateInv
<1>11. FreshBuffered'
  BY <1>1, <1>2, BufferedEffect DEF OwnInv, FreshBuffered, NodePublishes
<1> QED BY <1>6, <1>7, <1>8, <1>10, <1>11 DEF OwnInv

\* The final write of a command.
LEMMA CommitKeepsOwnInv ==
  ASSUME OwnInv, NEW t \in Tasks, Commit(t)
  PROVE  OwnInv'
<1> DEFINE r == [seq |-> task[t].seq, doc |-> task[t].doc]
<1>1. /\ task[t].pc = "commit"
      /\ Goto(t, Idle)
      /\ UNCHANGED <<buf, fresh, signed, intent, started, weather>>
  BY DEF Commit, At
<1>2. task[t].kind \in {"share", "update", "unshare", "delete", "renew"}
  BY <1>1 DEF OwnInv, TaskShapes
<1>3. \/ /\ task[t].kind \in {"share", "update", "renew"}
         /\ row' = SharedRow(r)
      \/ /\ task[t].kind = "unshare"
         /\ row' = UnsharedRow(task[t].seq)
      \/ /\ task[t].kind = "delete"
         /\ row' = NoRow
  BY <1>2 DEF Commit
<1>4. /\ task' \in [Tasks -> TaskStates]
      /\ task'[t] = Idle
      /\ \A u \in Tasks \ {t} : task'[u] = task[u]
  BY <1>1, States, GotoEffect DEF OwnInv
<1>5. row' \in Rows \cup {NoRow} /\ RecordMatchesRow'
  <2>1. CASE task[t].kind \in {"share", "update", "renew"} /\ row' = SharedRow(r)
    <3>1. r \in Records
      BY <1>1, <2>1, SentRecord
    <3> HIDE DEF r
    <3> QED BY <2>1, <3>1, RowWriters DEF OwnInv
  <2>2. CASE row' = UnsharedRow(task[t].seq)
    <3>1. task[t].seq \in Nat
      BY DEF OwnInv, TypeOK, TaskStates
    <3> QED BY <2>2, <3>1, RowWriters DEF OwnInv
  <2>3. CASE row' = NoRow
    BY <2>3 DEF RecordMatchesRow
  <2> QED BY <1>3, <2>1, <2>2, <2>3
<1>6. TypeOK'
  BY <1>1, <1>4, <1>5 DEF OwnInv, TypeOK, MaxCommands
<1>7. TaskShapes'
  BY <1>4 DEF OwnInv, TaskShapes, Idle, State
<1>8. PrivateInv'
  <2> SUFFICES ASSUME intent' = "never" PROVE PrivateInv'
    BY DEF PrivateInv
  <2>1. intent = "never" /\ PrivateInv
    BY <1>1 DEF OwnInv
  <2>2. t \in Commands /\ task[t].kind \in {"unshare", "delete"}
    BY <1>1, <2>1, PrivateTasks
  <2>3. row' # NoRow => row'.rec = NoRecord /\ row'.published = FALSE
    BY <1>3, <2>2 DEF UnsharedRow, Row
  <2>4. task'[t].pc = "idle"
    BY <1>4 DEF Idle, State
  <2>5. t # Background
    BY <2>2, TaskAssumption
  <2> QED BY <1>1, <1>4, <2>1, <2>3, <2>4, <2>5 DEF PrivateInv, Tasks
<1>9. FreshBuffered'
  BY <1>1 DEF OwnInv, FreshBuffered
<1> QED BY <1>5, <1>6, <1>7, <1>8, <1>9 DEF OwnInv

\* The drain: poll, compare, write.
LEMMA DrainKeepsOwnInv ==
  ASSUME OwnInv, SyncPoll \/ SyncCheck \/ SyncApply
  PROVE  OwnInv'
<1> DEFINE b == Background
<1>1. b \in Tasks
  BY DEF Tasks
<1>2. intent # "never"
  <2>1. SyncPoll => fresh
    BY DEF SyncPoll
  <2>2. SyncCheck \/ SyncApply => task[b].pc \in {"check", "apply"}
    BY DEF SyncCheck, SyncApply, At
  <2> QED BY <1>1, <2>1, <2>2, PrivateTasks DEF OwnInv, PrivateInv
<1>3. /\ UNCHANGED <<buf, signed, intent, started, weather>>
      /\ fresh' \in BOOLEAN
      /\ fresh' => fresh
  <2>1. CASE SyncPoll
    BY <2>1 DEF SyncPoll
  <2>2. CASE (SyncCheck \/ SyncApply)
    <3>1. UNCHANGED <<buf, fresh, signed, intent, started, weather>>
      BY <2>2 DEF SyncCheck, SyncApply
    <3>2. fresh \in BOOLEAN
      BY DEF OwnInv, TypeOK
    <3> QED BY <3>1, <3>2
  <2> QED BY <2>1, <2>2
<1>4. SyncPoll => buf \in Records
  BY DEF SyncPoll, OwnInv, TypeOK, FreshBuffered
<1>5. SyncCheck \/ SyncApply => loop.rec \in Records
  <2>1. SyncCheck \/ SyncApply => loop.rec # NoRecord
    BY <1>1 DEF SyncCheck, SyncApply, At, OwnInv, TaskShapes, loop
  <2>2. loop.rec \in Records \cup {NoRecord}
    BY <1>1 DEF OwnInv, TypeOK, TaskStates, loop
  <2> QED BY <2>1, <2>2
<1>6. PICK new \in TaskStates :
        /\ Goto(b, new)
        /\ new.pc = "idle" \/ (new.pc \in {"check", "apply"} /\ new.rec # NoRecord)
  <2>1. \A pc \in {"check", "apply"}, r \in Records :
          /\ Draining(pc, r) \in TaskStates
          /\ Draining(pc, r).pc = pc
          /\ Draining(pc, r).rec # NoRecord
    BY States, SentinelAssumption DEF Draining, State
  <2>2. Idle \in TaskStates /\ Idle.pc = "idle"
    BY States DEF Idle, State
  <2>3. CASE SyncPoll
    BY <1>4, <2>1, <2>3 DEF SyncPoll
  <2>4. CASE SyncCheck
    BY <1>5, <2>1, <2>2, <2>4 DEF SyncCheck
  <2>5. CASE SyncApply
    BY <2>2, <2>5 DEF SyncApply
  <2> QED BY <2>3, <2>4, <2>5
<1>7. /\ task' \in [Tasks -> TaskStates]
      /\ task'[b] = new
      /\ \A u \in Tasks \ {b} : task'[u] = task[u]
  BY <1>1, <1>6, GotoEffect DEF OwnInv
<1>8. row' \in Rows \cup {NoRow} /\ RecordMatchesRow'
  <2>1. CASE row' = row
    BY <2>1 DEF OwnInv, TypeOK, RecordMatchesRow
  <2>2. CASE SyncApply
    <3>1. \/ row' = BuriedRow(loop.rec)
          \/ loop.rec.doc # Tombstone /\ row' = SyncedRow(loop.rec)
      BY <2>2 DEF SyncApply
    <3> QED BY <1>5, <2>2, <3>1, RowWriters DEF OwnInv
  <2> QED BY <2>1, <2>2 DEF SyncPoll, SyncCheck
<1>9. TypeOK'
  BY <1>3, <1>7, <1>8 DEF OwnInv, TypeOK, MaxCommands
<1>10. TaskShapes'
  BY <1>6, <1>7 DEF OwnInv, TaskShapes
<1>11. FreshBuffered'
  BY <1>3 DEF OwnInv, FreshBuffered
<1>12. PrivateInv'
  BY <1>2, <1>3 DEF PrivateInv
<1> QED BY <1>8, <1>9, <1>10, <1>11, <1>12 DEF OwnInv

\* Renewals and announces.
LEMMA AnnouncesKeepOwnInv ==
  ASSUME OwnInv, StartRenewal \/ StartAnnounce \/ Announce
  PROVE  OwnInv'
<1> DEFINE b == Background
<1>1. b \in Tasks
  BY DEF Tasks
<1>2. row' = row /\ signed' = signed /\ intent' = intent
  BY DEF StartRenewal, StartAnnounce, Announce
<1>3. intent # "never"
  <2>1. StartRenewal \/ StartAnnounce => row # NoRow /\ row.rec # NoRecord
    BY DEF StartRenewal, StartAnnounce, Announceable
  <2>2. Announce => task[b].pc = "announce"
    BY DEF Announce, At
  <2> QED BY <1>1, <2>1, <2>2, PrivateTasks DEF OwnInv, PrivateInv
<1>4. PICK new \in TaskStates :
        /\ Goto(b, new)
        /\ \/ new.pc = "idle"
           \/ new.pc = "read" /\ new.kind = "renew"
           \/ new.pc = "announce" /\ new.rec # NoRecord
  <2>1. CASE StartRenewal
    <3>1. Called("renew") \in TaskStates
      BY States
    <3>2. Called("renew").pc = "read" /\ Called("renew").kind = "renew"
      BY DEF Called, State
    <3> QED BY <2>1, <3>1, <3>2 DEF StartRenewal
  <2>2. CASE StartAnnounce
    <3> DEFINE s == State("announce", "none", row.doc, 0, 0, row.rec)
    <3>1. row \in Rows /\ row.rec # NoRecord
      BY <2>2 DEF StartAnnounce, Announceable, OwnInv, TypeOK
    <3>2. s \in TaskStates
      BY <3>1 DEF TaskStates, State, Rows
    <3>3. s.pc = "announce" /\ s.rec # NoRecord
      BY <3>1 DEF State
    <3>4. Goto(b, s)
      BY <2>2 DEF StartAnnounce
    <3> HIDE DEF s
    <3> QED BY <3>2, <3>3, <3>4
  <2>3. CASE Announce
    <3>1. Idle \in TaskStates /\ Idle.pc = "idle"
      BY States DEF Idle, State
    <3> QED BY <2>3, <3>1 DEF Announce
  <2> QED BY <2>1, <2>2, <2>3
<1>5. /\ task' \in [Tasks -> TaskStates]
      /\ task'[b] = new
      /\ \A u \in Tasks \ {b} : task'[u] = task[u]
  BY <1>1, <1>4, GotoEffect DEF OwnInv
<1>6. /\ buf' \in Records \cup {NoRecord}
      /\ fresh' \in BOOLEAN
      /\ FreshBuffered'
  <2>1. CASE UNCHANGED <<buf, fresh>>
    BY <2>1 DEF OwnInv, TypeOK, FreshBuffered
  <2>2. CASE Announce /\ Buffered(loop.rec)
    <3>1. loop.rec \in Records
      BY <1>1, <2>2 DEF Announce, At, OwnInv, TypeOK, TaskShapes, TaskStates, loop
    <3> QED BY <2>2, <3>1, BufferedEffect DEF OwnInv
  <2> QED BY <2>1, <2>2 DEF StartRenewal, StartAnnounce, Announce
<1>7. weather' = weather /\ started' \in 0..MaxCommands
  BY CountEffect DEF StartRenewal, StartAnnounce, Announce, OwnInv, TypeOK
<1>8. TypeOK'
  BY <1>2, <1>5, <1>6, <1>7 DEF OwnInv, TypeOK, MaxCommands
<1>9. TaskShapes'
  BY <1>4, <1>5 DEF OwnInv, TaskShapes
<1>10. RecordMatchesRow'
  BY <1>2 DEF OwnInv, RecordMatchesRow
<1>11. PrivateInv'
  BY <1>2, <1>3 DEF PrivateInv
<1> QED BY <1>6, <1>8, <1>9, <1>10, <1>11 DEF OwnInv

\* What happens to the node and the app from outside.
LEMMA EnvironmentKeepsOwnInv ==
  ASSUME OwnInv,
         \/ \E r \in signed : Redeliver(r)
         \/ EvictBuffer
         \/ Restart
  PROVE  OwnInv'
<1>1. /\ UNCHANGED <<row, signed, intent>>
      /\ weather' = weather /\ started' \in 0..MaxCommands
  BY CountEffect DEF Redeliver, EvictBuffer, Restart, OwnInv
<1>2. RecordMatchesRow'
  BY <1>1 DEF OwnInv, RecordMatchesRow
<1>3. CASE \E r \in signed : Redeliver(r)
  <2>1. PICK r \in signed : Redeliver(r)
    BY <1>3
  <2>2. r \in Records
    BY DEF OwnInv, TypeOK
  <2>3. /\ buf' \in Records \cup {NoRecord}
        /\ fresh' \in BOOLEAN
        /\ FreshBuffered'
    BY <2>1, <2>2, BufferedEffect DEF Redeliver, OwnInv
  <2>4. task' = task
    BY <2>1 DEF Redeliver
  <2>5. TypeOK' /\ TaskShapes'
    BY <1>1, <2>3, <2>4 DEF OwnInv, TypeOK, TaskShapes, MaxCommands
  <2>6. intent # "never"
    BY DEF OwnInv, PrivateInv
  <2>7. PrivateInv'
    BY <1>1, <2>6 DEF PrivateInv
  <2> QED BY <1>2, <2>3, <2>5, <2>7 DEF OwnInv
<1>4. CASE EvictBuffer \/ Restart
  <2>1. buf' = NoRecord /\ fresh' = FALSE
    BY <1>4 DEF EvictBuffer, Restart
  <2>2. \/ task' = task
        \/ task' = [t \in Tasks |-> Idle]
    BY <1>4 DEF EvictBuffer, Restart
  <2>3. task' \in [Tasks -> TaskStates]
    BY <2>2, States DEF OwnInv, TypeOK
  <2>4. TypeOK'
    BY <1>1, <2>1, <2>3 DEF OwnInv, TypeOK, MaxCommands
  <2>5. TaskShapes' /\ PrivateInv'
    <3>1. CASE task' = task
      BY <1>1, <2>1, <3>1 DEF OwnInv, TaskShapes, PrivateInv
    <3>2. CASE task' = [t \in Tasks |-> Idle]
      <4>1. \A t \in Tasks : task'[t].pc = "idle"
        BY <3>2 DEF Idle, State
      <4> QED BY <1>1, <2>1, <4>1 DEF OwnInv, TaskShapes, PrivateInv, Tasks
    <3> QED BY <2>2, <3>1, <3>2
  <2>6. FreshBuffered'
    BY <2>1 DEF FreshBuffered
  <2> QED BY <1>2, <2>4, <2>5, <2>6 DEF OwnInv
<1> QED BY <1>3, <1>4

LEMMA OwnInvStep == OwnInv /\ [Next]_vars => OwnInv'
<1> SUFFICES ASSUME OwnInv, [Next]_vars PROVE OwnInv'
  OBVIOUS
<1>1. CASE UNCHANGED vars
  BY <1>1 DEF vars, OwnInv, TypeOK, TaskShapes, FreshBuffered, RecordMatchesRow,
              PrivateInv, MaxCommands
<1>2. CASE \E c \in Slots :
             \/ \E kind \in {"share", "unshare", "delete"} : StartCommand(c, kind)
             \/ \E d \in Docs : StartUpdate(c, d)
             \/ SaveUpdate(c)
  BY <1>2, WeatherTyped, CommandsKeepOwnInv DEF OwnInv
<1>3. CASE \E t \in Tasks :
             ReadRow(t) \/ AskSeq(t) \/ Send(t) \/ SendFails(t) \/ Commit(t)
  BY <1>3, ReadKeepsOwnInv, AskKeepsOwnInv, SendKeepsOwnInv, CommitKeepsOwnInv
<1>4. CASE SyncPoll \/ SyncCheck \/ SyncApply
  BY <1>4, DrainKeepsOwnInv
<1>5. CASE StartRenewal \/ StartAnnounce \/ Announce
  BY <1>5, AnnouncesKeepOwnInv
<1>6. CASE (\E r \in signed : Redeliver(r)) \/ EvictBuffer \/ Restart
  BY <1>6, EnvironmentKeepsOwnInv
<1> QED BY <1>1, <1>2, <1>3, <1>4, <1>5, <1>6 DEF Next

-----------------------------------------------------------------------------
(***************************************************************************)
(* Calm weather: CalmInv is inductive relative to OwnInv                   *)
(***************************************************************************)

\* In calm weather at most one command is in flight, so a step of command c
\* is a step of the only one, and Committing is a matter of c.
LEMMA OnlyCommand ==
  ASSUME OwnInv, CalmInv, Calm, NEW c \in Slots
  PROVE  /\ c \in Commands /\ c \in Tasks /\ c # Background
         /\ \A d \in Commands \ {c} : task[d].pc = "idle"
         /\ Committing <=> task[c].pc = "commit"
<1>1. c \in Commands /\ c \in Tasks /\ c # Background
  BY WeatherTyped, TaskAssumption DEF OwnInv, Tasks
<1>2. \A d \in Commands \ {c} : task[d].pc = "idle"
  BY DEF Calm, CalmInv, CalmShapes
<1> QED BY <1>1, <1>2 DEF Committing

\* What such a step changes among the tasks, and that the loop is not about
\* to write: it would run first.
LEMMA OnlyCommandSteps ==
  ASSUME OwnInv, CalmInv, Calm, NEW c \in Slots, NEW pc, At(c, pc),
         NEW new \in TaskStates, Goto(c, new)
  PROVE  /\ task[c].pc = pc /\ task'[c] = new
         /\ task'[Background] = task[Background]
         /\ task[Background].pc # "apply"
         /\ \A d \in Commands \ {c} : task'[d].pc = "idle"
         /\ \A d \in Commands \ {c} : task'[d] = task[d]
         /\ Committing' <=> new.pc = "commit"
<1>1. task'[c] = new /\ \A u \in Tasks \ {c} : task'[u] = task[u]
  BY OnlyCommand, GotoEffect DEF OwnInv
<1>2. task[Background].pc # "apply" /\ task[c].pc = pc
  BY OnlyCommand DEF At, MayRun, Calm, Tasks
<1>3. /\ task'[Background] = task[Background]
      /\ \A d \in Commands \ {c} : task'[d].pc = "idle" /\ task'[d] = task[d]
  BY <1>1, OnlyCommand DEF Tasks
<1> QED BY <1>1, <1>2, <1>3, OnlyCommand DEF Committing

\* The conjuncts that only look at what the step leaves alone.
LEMMA CalmUntouched ==
  ASSUME CalmInv, Calm, UNCHANGED weather
  PROVE  /\ Calm'
         /\ UNCHANGED <<buf, signed>> => CalmBuffer'
         /\ UNCHANGED <<row, signed>> /\ task'[Background] = task[Background] => CalmLoop'
<1>1. Calm'
  BY DEF Calm, RpcFails, Renews, Crashes, Evicts, Preempts, Slots
<1>2. UNCHANGED <<buf, signed>> => CalmBuffer'
  BY DEF CalmInv, CalmBuffer, Seq
<1>3. UNCHANGED <<row, signed>> /\ task'[Background] = task[Background] => CalmLoop'
  BY DEF CalmInv, CalmLoop
<1> QED BY <1>1, <1>2, <1>3

\* Starting a command: nothing but its task and the wish of the user changes.
LEMMA StartKeepsCalm ==
  ASSUME OwnInv, CalmInv, Calm, NEW c \in Slots,
         \/ \E kind \in {"share", "unshare", "delete"} : StartCommand(c, kind)
         \/ \E d \in Docs : StartUpdate(c, d)
  PROVE  CalmInv'
<1>1. /\ At(c, "idle")
      /\ UNCHANGED <<row, buf, signed, weather>>
  BY DEF StartCommand, StartUpdate, Count
<1>2. PICK new \in TaskStates :
        /\ Goto(c, new)
        /\ \/ /\ new.pc = "read" /\ new.kind \in {"share", "unshare", "delete"}
              /\ intent' = IF new.kind = "share" THEN "public" ELSE
                           IF intent = "never" THEN "never" ELSE "private"
           \/ /\ new.pc = "save" /\ new.kind = (IF row.published THEN "update" ELSE "edit")
              /\ Owned /\ intent' = intent
  <2>1. CASE \E kind \in {"share", "unshare", "delete"} : StartCommand(c, kind)
    <3>1. PICK kind \in {"share", "unshare", "delete"} : StartCommand(c, kind)
      BY <2>1
    <3>2. Called(kind) \in TaskStates /\ Called(kind).pc = "read" /\ Called(kind).kind = kind
      BY States DEF Called, State
    <3> QED BY <3>1, <3>2 DEF StartCommand
  <2>2. CASE \E d \in Docs : StartUpdate(c, d)
    <3>1. PICK d \in Docs : StartUpdate(c, d)
      BY <2>2
    <3> DEFINE k == IF row.published THEN "update" ELSE "edit"
    <3>2. Saving(k, d) \in TaskStates /\ Saving(k, d).pc = "save" /\ Saving(k, d).kind = k
      BY States DEF Saving, State
    <3> QED BY <3>1, <3>2 DEF StartUpdate, Owned
  <2> QED BY <2>1, <2>2
<1>3. /\ task[c].pc = "idle" /\ task'[c] = new /\ task'[Background] = task[Background]
      /\ \A d \in Commands \ {c} : task[d].pc = "idle" /\ task'[d].pc = "idle"
      /\ ~Committing /\ ~Committing' /\ c \in Commands
  BY <1>1, <1>2, OnlyCommand, OnlyCommandSteps
<1>4. Calm' /\ CalmBuffer' /\ CalmLoop'
  BY <1>1, <1>3, CalmUntouched
<1>5. CalmShapes'
  BY <1>1, <1>2, <1>3 DEF CalmInv, CalmShapes, Slots
<1>6. CalmNumbers'
  <2>1. UNCHANGED <<Owned, Seq(buf)>>
    BY <1>1 DEF Owned, Seq
  <2> QED BY <1>1, <1>2, <1>3, <2>1 DEF CalmInv, CalmNumbers
<1>7. CalmSharing'
  <2>1. /\ Owned' <=> Owned
        /\ buf' = buf /\ row' = row
    BY <1>1 DEF Owned
  <2>2. buf # NoRecord /\ buf.doc # Tombstone => Owned /\ row.published
    BY <1>3 DEF CalmInv, CalmSharing
  <2>3. intent = "private" => ~(Owned /\ row.published)
    BY <1>3 DEF CalmInv, CalmSharing
  <2>4. Owned /\ row.published => intent # "never"
    BY DEF OwnInv, PrivateInv, Owned
  <2>5. intent \in {"never", "public", "private"}
    BY DEF OwnInv, TypeOK
  <2>6. \A d \in Commands : /\ task'[d].pc # "commit"
                            /\ task'[d].pc # "idle" => d = c
    BY <1>2, <1>3
  <2>7. CASE new.pc = "read"
    <3>1. new.kind = "share" => intent' = "public"
      BY <1>2, <2>7
    <3>2. new.kind # "share" => new.kind \in Retracting
      BY <1>2, <2>7 DEF Retracting
    <3>3. intent' = "private" => new.kind \in Retracting
      BY <1>2, <2>7, <3>2
    <3>4. new.kind # "update"
      BY <1>2, <2>7
    <3> QED BY <1>3, <2>1, <2>2, <2>6, <2>7, <3>1, <3>3, <3>4 DEF CalmSharing
  <2>8. CASE new.pc = "save"
    <3>1. intent' = intent /\ new.kind \in {"update", "edit"}
      BY <1>2, <2>8
    <3>2. new.kind = "update" => Owned /\ row.published
      BY <1>2, <2>8
    <3>3. new.kind \in {"share", "update"} => intent' = "public"
      BY <2>3, <2>4, <2>5, <3>1, <3>2
    <3> QED BY <1>3, <2>1, <2>2, <2>3, <2>6, <2>8, <3>1, <3>3 DEF CalmSharing
  <2> QED BY <1>2, <2>7, <2>8
<1> QED BY <1>4, <1>5, <1>6, <1>7 DEF CalmInv

\* The save of an edit: contents change, whose it is and what is public do not.
LEMMA SaveKeepsCalm ==
  ASSUME OwnInv, CalmInv, Calm, NEW c \in Slots, SaveUpdate(c)
  PROVE  CalmInv'
<1> DEFINE new == IF task[c].kind = "update" THEN Called("update") ELSE Idle
<1>1. /\ At(c, "save") /\ Goto(c, new)
      /\ row' = EditedRow(task[c].doc)
      /\ UNCHANGED <<buf, signed, intent, weather>>
  BY DEF SaveUpdate
<1>2. /\ new \in TaskStates
      /\ \/ new.pc = "read" /\ new.kind = "update" /\ task[c].kind = "update"
         \/ new.pc = "idle"
  BY States DEF Called, Idle, State
<1> HIDE DEF new
<1>3. /\ task[c].pc = "save" /\ task'[c] = new /\ task'[Background] = task[Background]
      /\ task[Background].pc # "apply"
      /\ \A d \in Commands \ {c} : task[d].pc = "idle" /\ task'[d].pc = "idle"
      /\ ~Committing /\ ~Committing' /\ c \in Commands
  BY <1>1, <1>2, OnlyCommand, OnlyCommandSteps
<1>4. /\ Owned /\ Owned'
      /\ row'.seq = row.seq /\ row'.rec = row.rec /\ row'.published = row.published
  <2>1. Owned
    BY <1>3 DEF CalmInv, CalmNumbers
  <2>2. row' = Row(task[c].doc, row.seq, row.rec, row.published, FALSE, row.mine)
    BY <1>1, <2>1 DEF EditedRow, Owned
  <2>3. row' # NoRow
    BY <1>1, <1>3, RowWriters, SentinelAssumption DEF OwnInv, TaskShapes, Tasks
  <2> QED BY <2>1, <2>2, <2>3 DEF Row, Owned
<1>5. Calm' /\ CalmBuffer'
  BY <1>1, CalmUntouched
<1>6. CalmLoop'
  BY <1>1, <1>3, <1>4 DEF CalmInv, CalmLoop, Owned
<1>7. CalmShapes'
  BY <1>1, <1>2, <1>3 DEF CalmInv, CalmShapes, Slots
<1>8. CalmNumbers'
  <2>1. Seq(buf)' = Seq(buf)
    BY <1>1 DEF Seq
  <2> QED BY <1>1, <1>2, <1>3, <1>4, <2>1 DEF CalmInv, CalmNumbers
<1>9. CalmSharing'
  <2>1. task[c].kind \notin Retracting
    BY <1>3 DEF OwnInv, TaskShapes, Retracting, Tasks
  <2>2. task[c].kind = "update" => intent = "public"
    BY <1>3 DEF CalmInv, CalmSharing
  <2>3. intent = "private" => ~row.published /\ (buf = NoRecord \/ buf.doc = Tombstone)
    BY <1>3, <1>4, <2>1 DEF CalmInv, CalmSharing
  <2>4. buf # NoRecord /\ buf.doc # Tombstone => row.published
    BY <1>3 DEF CalmInv, CalmSharing
  <2> QED BY <1>1, <1>2, <1>3, <1>4, <2>2, <2>3, <2>4 DEF CalmSharing
<1> QED BY <1>5, <1>6, <1>7, <1>8, <1>9 DEF CalmInv

\* A command reads the row: nothing lags now, so what it reads is the buffer's
\* number, and a row with public contents is on its way to be retracted.
LEMMA ReadKeepsCalm ==
  ASSUME OwnInv, CalmInv, Calm, NEW c \in Slots, ReadRow(c)
  PROVE  CalmInv'
<1> DEFINE k == task[c].kind
           found == row # NoRow /\ (row.mine \/ k = "delete")
           pc == IF k \in Retracting /\ ~(row.mine /\ row.published) THEN "commit" ELSE "seq"
           new == IF ~found THEN Idle
                  ELSE Publishing(pc, k, IF k \in Retracting THEN Tombstone ELSE row.doc,
                                  row.seq, row.seq)
<1>1. /\ At(c, "read") /\ Goto(c, new)
      /\ UNCHANGED <<row, buf, signed, intent, weather>>
  BY DEF ReadRow, Retracting
<1>2. c \in Commands /\ c \in Tasks /\ k \in {"share", "update", "unshare", "delete"}
  BY <1>1, OnlyCommand DEF CalmInv, CalmShapes, At
<1>3. row # NoRow => row.seq \in Nat /\ row.doc \in Docs /\ row.doc # Tombstone
  BY DocAssumption DEF OwnInv, TypeOK, Rows
<1>4. /\ new \in TaskStates
      /\ \/ new.pc = "idle" /\ ~found
         \/ /\ new.pc = pc /\ found /\ new.kind = k /\ new.seq = row.seq
            /\ new.doc = Tombstone <=> k \in Retracting
  BY <1>2, <1>3, States DEF Idle, Publishing, State
<1> HIDE DEF new
<1>5. /\ task[c].pc = "read" /\ task'[c] = new /\ task'[Background] = task[Background]
      /\ \A d \in Commands \ {c} : task[d].pc = "idle" /\ task'[d].pc = "idle"
      /\ ~Committing /\ (Committing' <=> new.pc = "commit")
  BY <1>1, <1>4, OnlyCommand, OnlyCommandSteps
<1>6. Calm' /\ CalmBuffer' /\ CalmLoop'
  BY <1>1, <1>5, CalmUntouched
<1>7. CalmShapes'
  BY <1>1, <1>2, <1>4, <1>5 DEF CalmInv, CalmShapes, Slots
<1>8. /\ Owned' <=> Owned
      /\ Seq(buf)' = Seq(buf) /\ row' = row /\ buf' = buf
  BY <1>1 DEF Seq, Owned
<1>9. Owned => row.seq = Seq(buf)
  BY <1>5 DEF CalmInv, CalmNumbers
<1>10. CalmNumbers'
  <2>1. found /\ k # "delete" => Owned
    BY DEF Owned
  <2>2. found /\ pc = "seq" => Owned
    BY DEF Owned, Retracting
  <2>3. pc = "commit" => k \in Retracting
    OBVIOUS
  <2>4. Seq(buf) \in Nat
    BY DEF Seq, OwnInv, TypeOK, Records
  <2> QED
    BY <1>4, <1>5, <1>8, <1>9, <2>1, <2>2, <2>3, <2>4 DEF CalmNumbers, Retracting
<1>11. CalmSharing'
  <2>1. buf # NoRecord /\ buf.doc # Tombstone => Owned /\ row.published
    BY <1>5 DEF CalmInv, CalmSharing
  <2>2. k \in {"share", "update"} => intent = "public"
    BY <1>2, <1>5 DEF CalmInv, CalmSharing
  <2>3. intent = "private" /\ Owned /\ row.published => k \in Retracting
    BY <1>5 DEF CalmInv, CalmSharing
  <2>4. Owned => found
    BY DEF Owned
  <2>5. Owned /\ row.published => pc = "seq"
    BY DEF Owned
  <2>6. pc = "commit" => k \in Retracting
    OBVIOUS
  <2>7. pc = "commit" => ~(Owned /\ row.published)
    BY DEF Owned
  <2> QED
    BY <1>1, <1>2, <1>4, <1>5, <1>8, <2>1, <2>2, <2>3, <2>4, <2>5, <2>6, <2>7
    DEF CalmSharing
<1> QED BY <1>6, <1>7, <1>10, <1>11 DEF CalmInv

\* It asks for its number: with the network's number its own, the next one.
LEMMA AskKeepsCalm ==
  ASSUME OwnInv, CalmInv, Calm, NEW c \in Slots, AskSeq(c)
  PROVE  CalmInv'
<1> DEFINE n == NextSeq(task[c].seq, Seq(buf))
           new == Publishing("send", task[c].kind, task[c].doc, task[c].base, n)
<1>1. /\ At(c, "seq") /\ Goto(c, new)
      /\ UNCHANGED <<row, buf, signed, intent, weather>>
  BY DEF AskSeq, Calm
<1>2. /\ c \in Commands /\ c \in Tasks /\ task[c].pc = "seq"
      /\ task[c].kind \in {"share", "update", "unshare", "delete"}
  BY <1>1, OnlyCommand DEF CalmInv, CalmShapes, At
<1>3. /\ task[c].seq = Seq(buf) /\ Seq(buf) \in Nat /\ task[c].base \in Nat
      /\ task[c].doc \in Docs \cup {Tombstone}
  BY <1>2 DEF CalmInv, CalmNumbers, OwnInv, TypeOK, TaskStates, Seq, Records
<1>4. n = Seq(buf) + 1
  BY <1>3 DEF NextSeq, Larger
<1>5. /\ new \in TaskStates
      /\ new.pc = "send" /\ new.kind = task[c].kind /\ new.doc = task[c].doc
      /\ new.seq = Seq(buf) + 1
  BY <1>2, <1>3, <1>4, States DEF Publishing, State
<1> HIDE DEF new
<1>6. /\ task'[c] = new /\ task'[Background] = task[Background]
      /\ \A d \in Commands \ {c} : task[d].pc = "idle" /\ task'[d].pc = "idle"
      /\ ~Committing /\ ~Committing'
  BY <1>1, <1>2, <1>5, OnlyCommand, OnlyCommandSteps
<1>7. Calm' /\ CalmBuffer' /\ CalmLoop'
  BY <1>1, <1>6, CalmUntouched
<1>8. CalmShapes'
  BY <1>1, <1>2, <1>5, <1>6 DEF CalmInv, CalmShapes, Slots
<1>9. /\ Owned' <=> Owned
      /\ Seq(buf)' = Seq(buf) /\ row' = row /\ buf' = buf
  BY <1>1 DEF Seq, Owned
<1>10. CalmNumbers'
  BY <1>2, <1>5, <1>6, <1>9 DEF CalmInv, CalmNumbers
<1>11. CalmSharing'
  <2>1. buf # NoRecord /\ buf.doc # Tombstone => Owned /\ row.published
    BY <1>6 DEF CalmInv, CalmSharing
  <2>2. task[c].kind \in {"share", "update"} => intent = "public"
    BY <1>2 DEF CalmInv, CalmSharing
  <2>3. intent = "private" /\ Owned /\ row.published => task[c].kind \in Retracting
    BY <1>6 DEF CalmInv, CalmSharing
  <2> QED BY <1>1, <1>2, <1>5, <1>6, <1>9, <2>1, <2>2, <2>3 DEF CalmSharing
<1> QED BY <1>7, <1>8, <1>10, <1>11 DEF CalmInv

\* The node signs and buffers a record whose number is above every other.
LEMMA SendKeepsCalm ==
  ASSUME OwnInv, CalmInv, Calm, NEW c \in Slots, Send(c)
  PROVE  CalmInv'
<1> DEFINE r == [seq |-> task[c].seq, doc |-> task[c].doc]
           new == Publishing("commit", task[c].kind, task[c].doc, task[c].base, task[c].seq)
<1>1. /\ At(c, "send") /\ Goto(c, new) /\ signed' = signed \cup {r} /\ Buffered(r)
      /\ UNCHANGED <<row, intent, weather>>
  BY DEF Send, NodePublishes
<1>2. /\ c \in Commands /\ c \in Tasks /\ task[c].pc = "send"
      /\ task[c].kind \in {"share", "update", "unshare", "delete"}
      /\ task[c].doc = Tombstone <=> task[c].kind \in Retracting
  BY <1>1, OnlyCommand DEF CalmInv, CalmShapes, At
<1>3. /\ task[c].seq = Seq(buf) + 1 /\ Seq(buf) \in Nat /\ task[c].base \in Nat
      /\ task[c].doc \in Docs \cup {Tombstone} /\ Owned
      /\ r.seq = task[c].seq /\ r.doc = task[c].doc
  BY <1>2 DEF CalmInv, CalmNumbers, OwnInv, TypeOK, TaskStates, Seq, Records
<1>4. r \in Records /\ r # NoRecord
  BY <1>2, SentRecord, SentinelAssumption
<1>5. /\ new \in TaskStates
      /\ new.pc = "commit" /\ new.kind = task[c].kind /\ new.doc = r.doc /\ new.seq = r.seq
  BY <1>2, <1>3, States DEF Publishing, State
<1>6. r = [seq |-> new.seq, doc |-> new.doc]
  BY <1>3, <1>5
<1> HIDE DEF new, r
<1>7. buf' = r /\ Seq(buf)' = r.seq
  BY <1>1, <1>3, <1>4 DEF Buffered, Seq
<1>8. /\ task'[c] = new /\ task'[Background] = task[Background]
      /\ task[Background].pc # "apply"
      /\ \A d \in Commands \ {c} : task[d].pc = "idle" /\ task'[d].pc = "idle"
      /\ ~Committing /\ Committing'
  BY <1>1, <1>2, <1>5, OnlyCommand, OnlyCommandSteps
<1>9. Calm'
  BY <1>1, CalmUntouched
<1>10. CalmShapes'
  BY <1>1, <1>2, <1>3, <1>5, <1>8 DEF CalmInv, CalmShapes, Slots
<1>11. CalmBuffer'
  <2>1. \A s \in signed : s.seq <= Seq(buf) /\ s.seq \in Nat
    BY DEF CalmInv, CalmBuffer, OwnInv, TypeOK, Records
  <2>2. \A s \in signed : s.seq < r.seq
    BY <1>3, <2>1
  <2>3. \A s \in signed' : s = r \/ (s \in signed /\ s.seq < r.seq)
    BY <1>1, <2>2
  <2>4. r.seq \in Nat /\ \A s, u \in signed : s.seq = u.seq => s = u
    BY <1>3 DEF CalmInv, CalmBuffer
  <2>5. \A s \in signed' : s.seq <= r.seq
    BY <2>1, <2>3, <2>4
  <2>6. \A s, u \in signed' : s.seq = u.seq => s = u
    BY <2>1, <2>3, <2>4
  <2> QED BY <1>1, <1>4, <1>7, <2>5, <2>6 DEF CalmBuffer
<1>12. CalmLoop'
  BY <1>1, <1>8 DEF CalmInv, CalmLoop
<1>13. Owned' /\ row' = row /\ row.seq = Seq(buf)
  BY <1>1, <1>3, <1>8 DEF Owned, CalmInv, CalmNumbers
<1>14. CalmNumbers'
  <2>1. row.seq <= r.seq /\ r.seq <= row.seq + 1
    BY <1>3, <1>13
  <2> QED BY <1>2, <1>5, <1>6, <1>7, <1>8, <1>13, <2>1 DEF CalmNumbers
<1>15. CalmSharing'
  <2>1. task[c].kind \in {"share", "update"} => intent = "public"
    BY <1>2 DEF CalmInv, CalmSharing
  <2>2. intent = "private" /\ row.published => task[c].kind \in Retracting
    BY <1>3, <1>8 DEF CalmInv, CalmSharing
  <2>3. task[c].kind \in Retracting => r.doc = Tombstone
    BY <1>2, <1>3
  <2>4. task[c].kind \in {"share", "update"} \/ task[c].kind \in Retracting
    BY <1>2 DEF Retracting
  <2> QED
    BY <1>1, <1>2, <1>5, <1>7, <1>8, <1>13, <2>1, <2>2, <2>3, <2>4 DEF CalmSharing
<1> QED BY <1>9, <1>10, <1>11, <1>12, <1>14, <1>15 DEF CalmInv

\* The final write of a command brings the row level with the buffer.
LEMMA CommitKeepsCalm ==
  ASSUME OwnInv, OwnInv', CalmInv, Calm, NEW c \in Slots, Commit(c)
  PROVE  CalmInv'
<1> DEFINE k == task[c].kind
           r == [seq |-> task[c].seq, doc |-> task[c].doc]
<1>1. /\ At(c, "commit") /\ Goto(c, Idle)
      /\ UNCHANGED <<buf, signed, intent, weather>>
  BY DEF Commit
<1>2. /\ c \in Commands /\ c \in Tasks /\ task[c].pc = "commit"
      /\ k \in {"share", "update", "unshare", "delete"}
      /\ task[c].doc = Tombstone <=> k \in Retracting
  BY <1>1, OnlyCommand DEF CalmInv, CalmShapes, At
<1>3. /\ task'[c].pc = "idle" /\ task'[Background] = task[Background]
      /\ task[Background].pc # "apply"
      /\ \A d \in Commands \ {c} : task[d].pc = "idle" /\ task'[d].pc = "idle"
      /\ ~Committing'
  <2>1. Idle \in TaskStates /\ Idle.pc = "idle"
    BY States DEF Idle, State
  <2> HIDE DEF Idle
  <2> QED BY <1>1, <2>1, OnlyCommand, OnlyCommandSteps
<1>4. Calm' /\ CalmBuffer'
  BY <1>1, CalmUntouched
<1>5. CalmShapes'
  BY <1>1, <1>2, <1>3 DEF CalmInv, CalmShapes, Slots
<1>6. Seq(buf)' = Seq(buf) /\ buf' = buf /\ Seq(buf) \in Nat
  BY <1>1 DEF Seq, OwnInv, TypeOK, Records
<1>7. CASE k \in {"share", "update"}
  <2>1. /\ Owned /\ buf = r /\ r.seq = Seq(buf) /\ intent = "public"
    BY <1>2, <1>7 DEF CalmInv, CalmNumbers, CalmSharing
  <2>2. row' = SharedRow(r)
    BY <1>7 DEF Commit
  <2>3. r \in signed
    <3>1. r \in Records
      BY <1>2, <1>7, SentRecord
    <3> QED BY <2>1, <3>1, SentinelAssumption DEF CalmInv, CalmBuffer
  <2>4. Owned' /\ row'.seq = r.seq /\ row'.rec = r /\ row'.published
    <3>1. row' = Row(row.doc, r.seq, r, TRUE, row.tombstoned, row.mine)
      BY <2>1, <2>2 DEF SharedRow, Owned
    <3>2. row' \in Rows
      BY <2>1, <3>1, <1>2, <1>7, SentRecord, RowWriters, SentinelAssumption
      DEF OwnInv, TypeOK, Rows, Row, Owned, Records
    <3> QED BY <2>1, <3>1, <3>2, SentinelAssumption DEF Row, Owned
  <2> HIDE DEF r
  <2>5. CalmLoop'
    BY <1>1, <1>3, <2>3, <2>4 DEF CalmInv, CalmLoop
  <2>6. CalmNumbers'
    BY <1>2, <1>3, <1>6, <2>1, <2>4 DEF CalmNumbers
  <2>7. CalmSharing'
    BY <1>1, <1>2, <1>3, <2>1, <2>4 DEF CalmSharing
  <2> QED BY <1>4, <1>5, <2>5, <2>6, <2>7 DEF CalmInv
<1>8. CASE k = "unshare"
  <2>1. Owned /\ task[c].seq = Seq(buf) /\ (buf = NoRecord \/ buf.doc = Tombstone)
    BY <1>2, <1>8 DEF CalmInv, CalmNumbers, CalmSharing, Retracting
  <2>2. row' = Row(row.doc, task[c].seq, NoRecord, FALSE, FALSE, row.mine)
    BY <1>8, <2>1 DEF Commit, UnsharedRow, Owned
  <2>3. row' \in Rows
    BY <1>6, <2>1, <2>2 DEF OwnInv, TypeOK, Rows, Row, Owned
  <2>4. Owned' /\ row'.seq = Seq(buf) /\ row'.rec = NoRecord /\ row'.published = FALSE
    BY <2>1, <2>2, <2>3, SentinelAssumption DEF Row, Owned
  <2>5. CalmLoop'
    BY <1>1, <1>3, <2>4 DEF CalmInv, CalmLoop
  <2>6. CalmNumbers'
    BY <1>2, <1>3, <1>6, <2>4 DEF CalmNumbers
  <2>7. CalmSharing'
    BY <1>1, <1>2, <1>3, <2>1, <2>4 DEF CalmSharing
  <2> QED BY <1>4, <1>5, <2>5, <2>6, <2>7 DEF CalmInv
<1>9. CASE k = "delete"
  <2>1. buf = NoRecord \/ buf.doc = Tombstone
    BY <1>2, <1>9 DEF CalmInv, CalmSharing, Retracting
  <2>2. row' = NoRow /\ ~Owned'
    BY <1>9 DEF Commit, Owned
  <2>3. CalmLoop'
    BY <1>1, <1>3, <2>2 DEF CalmInv, CalmLoop
  <2>4. CalmNumbers'
    BY <1>2, <1>3, <2>2 DEF CalmNumbers
  <2>5. CalmSharing'
    BY <1>1, <1>2, <1>3, <2>1, <2>2 DEF CalmSharing
  <2> QED BY <1>4, <1>5, <2>3, <2>4, <2>5 DEF CalmInv
<1> QED BY <1>2, <1>7, <1>8, <1>9

\* The drain polls the buffer, compares and writes.
LEMMA DrainKeepsCalm ==
  ASSUME OwnInv, OwnInv', CalmInv, Calm, SyncPoll \/ SyncCheck \/ SyncApply
  PROVE  CalmInv'
<1> DEFINE b == Background
<1>1. /\ UNCHANGED <<buf, signed, intent, weather>> /\ b \in Tasks
      /\ b \notin Commands
  BY TaskAssumption DEF SyncPoll, SyncCheck, SyncApply, Tasks
<1>2. SyncPoll => buf \in Records /\ buf \in signed
  BY DEF SyncPoll, OwnInv, TypeOK, FreshBuffered, CalmInv, CalmBuffer
<1>3. SyncCheck \/ SyncApply => loop.rec \in Records /\ loop.rec \in signed
  BY DEF SyncCheck, SyncApply, At, CalmInv, CalmLoop, OwnInv, TypeOK, loop
<1>4. PICK new \in TaskStates :
        /\ Goto(b, new)
        /\ \/ new.pc = "idle"
           \/ SyncPoll /\ new.pc = "check" /\ new.rec = buf
           \/ /\ SyncCheck /\ new.pc = "apply" /\ new.rec = loop.rec
              /\ row # NoRow => ~(row.seq >= loop.rec.seq)
  <2>1. \A pc \in {"check", "apply"}, r \in Records :
          /\ Draining(pc, r) \in TaskStates
          /\ Draining(pc, r).pc = pc
          /\ Draining(pc, r).rec = r
    BY States DEF Draining, State
  <2>2. Idle \in TaskStates /\ Idle.pc = "idle"
    BY States DEF Idle, State
  <2>3. CASE SyncPoll
    BY <1>2, <2>1, <2>3 DEF SyncPoll
  <2>4. CASE SyncCheck
    BY <1>3, <2>1, <2>2, <2>4 DEF SyncCheck
  <2>5. CASE SyncApply
    BY <2>2, <2>5 DEF SyncApply
  <2> QED BY <2>3, <2>4, <2>5
<1>5. /\ task'[b] = new
      /\ \A c \in Commands : task'[c] = task[c]
      /\ Committing' <=> Committing
  BY <1>1, <1>4, GotoEffect DEF OwnInv, Tasks, Committing
<1>6. Calm' /\ CalmBuffer'
  BY <1>1, CalmUntouched
<1>7. CalmShapes'
  BY <1>1, <1>4, <1>5 DEF CalmInv, CalmShapes, Slots
<1>8. Seq(buf)' = Seq(buf) /\ buf' = buf /\ Seq(buf) \in Nat
  BY <1>1 DEF Seq, OwnInv, TypeOK, Records
<1>9. CASE row' = row
  <2>1. CalmLoop'
    <3>1. new.pc = "apply" /\ row # NoRow => row.seq < new.rec.seq
      BY <1>3, <1>4 DEF OwnInv, TypeOK, Rows, Records
    <3>2. new.pc \in {"check", "apply", "announce"} => new.rec \in signed
      BY <1>2, <1>3, <1>4
    <3> QED BY <1>1, <1>5, <1>9, <3>1, <3>2 DEF CalmInv, CalmLoop
  <2>2. Owned' <=> Owned
    BY <1>9 DEF Owned
  <2>3. CalmNumbers'
    BY <1>5, <1>8, <1>9, <2>2 DEF CalmInv, CalmNumbers
  <2>4. CalmSharing'
    BY <1>1, <1>5, <1>9, <2>2 DEF CalmInv, CalmSharing
  <2> QED BY <1>6, <1>7, <2>1, <2>3, <2>4 DEF CalmInv
<1>10. CASE SyncApply
  <2>1. /\ new.pc = "idle" /\ task[b].pc = "apply"
        /\ row' = IF loop.rec.doc = Tombstone THEN BuriedRow(loop.rec)
                                              ELSE SyncedRow(loop.rec)
    BY <1>4, <1>10 DEF SyncApply, SyncPoll, SyncCheck, At
  <2>2. /\ loop.rec.seq <= Seq(buf) /\ loop.rec.seq \in Nat
        /\ loop.rec.doc \in Docs \cup {Tombstone}
    BY <1>3, <1>10 DEF CalmInv, CalmBuffer, Records
  <2>3. row # NoRow => row.seq < loop.rec.seq /\ row.seq \in Nat
    BY <2>1 DEF CalmInv, CalmLoop, loop, OwnInv, TypeOK, Rows
  <2>4. Owned => Committing /\ loop.rec = buf /\ loop.rec.seq = Seq(buf)
    <3> SUFFICES ASSUME Owned PROVE Committing /\ loop.rec = buf /\ loop.rec.seq = Seq(buf)
      OBVIOUS
    <3>1. Committing
      BY <1>8, <2>2, <2>3 DEF CalmInv, CalmNumbers, Owned
    <3>2. Seq(buf) <= row.seq + 1 /\ row # NoRow
      BY DEF CalmInv, CalmNumbers, Owned
    <3>3. loop.rec.seq = Seq(buf)
      BY <1>8, <2>2, <2>3, <3>2
    <3>4. buf # NoRecord
      BY <1>3, <1>10 DEF CalmInv, CalmBuffer
    <3>5. buf \in signed /\ buf.seq = Seq(buf)
      BY <3>4 DEF CalmInv, CalmBuffer, Seq
    <3> QED BY <1>3, <1>10, <3>1, <3>3, <3>5 DEF CalmInv, CalmBuffer
  <2>5. /\ Owned' <=> Owned
        /\ Owned => row'.seq = loop.rec.seq /\ (row'.published => row.published)
        /\ row' # NoRow => row'.rec \in signed \cup {NoRecord}
    <3>1. row' # NoRow => row' \in Rows
      BY DEF OwnInv, TypeOK
    <3>2. CASE row = NoRow
      BY <1>3, <1>10, <2>1, <3>2 DEF BuriedRow, SyncedRow, NewRow, Row, Owned
    <3>3. CASE row # NoRow
      <4>1. \/ row' = NoRow /\ ~row.mine
            \/ row' = Row(row.doc, loop.rec.seq, NoRecord, FALSE, TRUE, row.mine)
            \/ row' = Row(loop.rec.doc, loop.rec.seq, loop.rec, row.published, FALSE, row.mine)
        BY <2>1, <3>3 DEF BuriedRow, SyncedRow
      <4>2. row' # NoRow \/ ~row.mine
        <5>1. BuriedRow(loop.rec) \in Rows \/ ~row.mine
          BY <2>2, <3>3 DEF BuriedRow, Row, Rows, OwnInv, TypeOK
        <5>2. loop.rec.doc # Tombstone => SyncedRow(loop.rec) \in Rows
          BY <1>3, <1>10, <2>2, <3>3 DEF SyncedRow, Row, Rows, OwnInv, TypeOK
        <5> QED BY <2>1, <5>1, <5>2, SentinelAssumption
      <4> QED BY <1>3, <1>10, <3>3, <4>1, <4>2 DEF Row, Owned
    <3> QED BY <3>2, <3>3
  <2>6. CalmLoop'
    BY <1>1, <1>5, <2>1, <2>5 DEF CalmLoop
  <2>7. CalmNumbers'
    <3>1. Owned => row'.seq = Seq(buf)
      BY <2>4, <2>5
    <3> QED BY <1>5, <1>8, <2>4, <2>5, <3>1 DEF CalmInv, CalmNumbers
  <2>8. CalmSharing'
    <3>1. ~Committing => (buf = NoRecord \/ buf.doc = Tombstone)
      BY <2>4 DEF CalmInv, CalmSharing
    <3> QED BY <1>1, <1>5, <2>5, <3>1 DEF CalmInv, CalmSharing
  <2> QED BY <1>6, <1>7, <2>6, <2>7, <2>8 DEF CalmInv
<1> QED BY <1>9, <1>10 DEF SyncPoll, SyncCheck

\* Announcing, and a holder elsewhere: every record they have was signed, so
\* the buffer has it or a newer one.
LEMMA AnnounceKeepsCalm ==
  ASSUME OwnInv, CalmInv, Calm,
         StartAnnounce \/ Announce \/ \E r \in signed : Redeliver(r)
  PROVE  CalmInv'
<1> DEFINE b == Background
<1>1. /\ UNCHANGED <<row, signed, intent, weather>> /\ b \in Tasks /\ b \notin Commands
  BY TaskAssumption DEF StartAnnounce, Announce, Redeliver, Count, Tasks
<1>2. \A r \in signed : ~(r.seq > Seq(buf))
  <2>1. \A r \in signed : r.seq <= Seq(buf) /\ r.seq \in Nat
    BY DEF CalmInv, CalmBuffer, OwnInv, TypeOK, Records
  <2>2. Seq(buf) \in Nat
    BY DEF Seq, OwnInv, TypeOK, Records
  <2> QED BY <2>1, <2>2
<1>3. buf' = buf
  <2>1. CASE StartAnnounce
    BY <2>1 DEF StartAnnounce
  <2>2. CASE Announce
    <3>1. loop.rec \in signed
      BY <2>2 DEF Announce, At, loop, CalmInv, CalmLoop
    <3> QED BY <1>2, <2>2, <3>1 DEF Announce, Buffered
  <2>3. CASE \E r \in signed : Redeliver(r)
    BY <1>2, <2>3 DEF Redeliver
  <2> QED BY <2>1, <2>2, <2>3
<1>4. \/ task' = task
      \/ \E new \in TaskStates :
           /\ Goto(b, new)
           /\ \/ new.pc = "idle"
              \/ new.pc = "announce" /\ new.rec \in signed
  <2>1. CASE StartAnnounce
    <3> DEFINE s == State("announce", "none", row.doc, 0, 0, row.rec)
    <3>1. row \in Rows /\ row.rec # NoRecord /\ row # NoRow
      BY <2>1 DEF StartAnnounce, Announceable, OwnInv, TypeOK
    <3>2. s \in TaskStates
      BY <3>1 DEF TaskStates, State, Rows
    <3>3. s.pc = "announce" /\ s.rec \in signed
      BY <3>1 DEF State, CalmInv, CalmLoop
    <3>4. Goto(b, s)
      BY <2>1 DEF StartAnnounce
    <3> HIDE DEF s
    <3> QED BY <3>2, <3>3, <3>4
  <2>2. CASE Announce
    <3>1. Idle \in TaskStates /\ Idle.pc = "idle"
      BY States DEF Idle, State
    <3> QED BY <2>2, <3>1 DEF Announce
  <2>3. CASE \E r \in signed : Redeliver(r)
    BY <2>3 DEF Redeliver
  <2> QED BY <2>1, <2>2, <2>3
<1>5. /\ \A c \in Commands : task'[c] = task[c]
      /\ \/ task'[b] = task[b]
         \/ task'[b].pc = "idle"
         \/ task'[b].pc = "announce" /\ task'[b].rec \in signed
      /\ Committing' <=> Committing
  <2>1. CASE task' = task
    BY <2>1 DEF Committing
  <2>2. CASE task' # task
    <3>1. PICK new \in TaskStates :
            /\ Goto(b, new)
            /\ \/ new.pc = "idle"
               \/ new.pc = "announce" /\ new.rec \in signed
      BY <1>4, <2>2
    <3> QED BY <1>1, <3>1, GotoEffect DEF OwnInv, Tasks, Committing
  <2> QED BY <2>1, <2>2
<1>6. Calm' /\ CalmBuffer'
  BY <1>1, <1>3, CalmUntouched
<1>7. CalmShapes'
  BY <1>1, <1>5 DEF CalmInv, CalmShapes, Slots
<1>8. CalmLoop'
  BY <1>1, <1>5 DEF CalmInv, CalmLoop
<1>9. Seq(buf)' = Seq(buf) /\ (Owned' <=> Owned)
  BY <1>1, <1>3 DEF Seq, Owned
<1>10. CalmNumbers'
  BY <1>1, <1>3, <1>5, <1>9 DEF CalmInv, CalmNumbers
<1>11. CalmSharing'
  BY <1>1, <1>3, <1>5, <1>9 DEF CalmInv, CalmSharing
<1> QED BY <1>6, <1>7, <1>8, <1>10, <1>11 DEF CalmInv

LEMMA CalmInvInit == Init => CalmInv
<1> SUFFICES ASSUME Init, Calm PROVE CalmInv
  BY DEF CalmInv
<1>1. \A t \in Tasks : task[t].pc = "idle"
  BY DEF Init, Idle, State
<1>2. /\ row.seq = 0 /\ row.rec = NoRecord /\ row.published = FALSE
      /\ buf = NoRecord /\ signed = {} /\ intent = "never"
  BY DEF Init, NewRow, Row, Seq
<1>3. CalmShapes
  BY <1>1 DEF CalmShapes, Tasks
<1>4. CalmBuffer /\ CalmLoop
  BY <1>1, <1>2 DEF CalmBuffer, CalmLoop, Tasks
<1>5. CalmNumbers
  BY <1>1, <1>2 DEF CalmNumbers, Seq, Tasks
<1>6. CalmSharing
  BY <1>1, <1>2 DEF CalmSharing, Tasks
<1> QED BY <1>3, <1>4, <1>5, <1>6 DEF CalmInv

LEMMA CalmInvStep == OwnInv /\ OwnInv' /\ CalmInv /\ [Next]_vars => CalmInv'
<1> SUFFICES ASSUME OwnInv, OwnInv', CalmInv, [Next]_vars PROVE CalmInv'
  OBVIOUS
<1>1. UNCHANGED weather
  BY DEF Next, vars, StartCommand, StartUpdate, SaveUpdate, ReadRow, AskSeq, Send, SendFails,
         Commit, SyncPoll, SyncCheck, SyncApply, StartRenewal, StartAnnounce, Announce,
         Redeliver, EvictBuffer, Restart, Count
<1>2. CASE ~Calm
  BY <1>1, <1>2 DEF CalmInv, Calm, RpcFails, Renews, Crashes, Evicts, Preempts, Slots
<1>3. CASE Calm
  <2>1. CASE UNCHANGED vars
    BY <1>3, <2>1 DEF vars, CalmInv, CalmShapes, CalmBuffer, CalmLoop, CalmNumbers, CalmSharing,
                      Committing, Owned, Seq, Slots
  <2>2. CASE \E c \in Slots :
               \/ \E kind \in {"share", "unshare", "delete"} : StartCommand(c, kind)
               \/ \E d \in Docs : StartUpdate(c, d)
               \/ SaveUpdate(c)
    BY <1>3, <2>2, StartKeepsCalm, SaveKeepsCalm
  <2>3. CASE \E t \in Tasks : ReadRow(t) \/ AskSeq(t) \/ Send(t) \/ SendFails(t) \/ Commit(t)
    <3>1. PICK t \in Tasks : ReadRow(t) \/ AskSeq(t) \/ Send(t) \/ SendFails(t) \/ Commit(t)
      BY <2>3
    <3>2. task[t].pc \in {"read", "seq", "send", "commit"} /\ ~SendFails(t)
      BY <1>3, <3>1 DEF ReadRow, AskSeq, Send, SendFails, Commit, At, Calm
    <3>3. t \in Slots
      BY <1>3, <3>2 DEF CalmInv, CalmShapes, Tasks
    <3> QED
      BY <1>3, <3>1, <3>2, <3>3, ReadKeepsCalm, AskKeepsCalm, SendKeepsCalm, CommitKeepsCalm
  <2>4. CASE SyncPoll \/ SyncCheck \/ SyncApply
    BY <1>3, <2>4, DrainKeepsCalm
  <2>5. CASE StartAnnounce \/ Announce \/ \E r \in signed : Redeliver(r)
    BY <1>3, <2>5, AnnounceKeepsCalm
  <2>6. ~StartRenewal /\ ~EvictBuffer /\ ~Restart
    BY <1>3 DEF Calm, StartRenewal, EvictBuffer, Restart
  <2> QED BY <2>1, <2>2, <2>3, <2>4, <2>5, <2>6 DEF Next
<1> QED BY <1>2, <1>3

-----------------------------------------------------------------------------
(***************************************************************************)
(* Theorems                                                                *)
(***************************************************************************)

\* Every behaviour keeps the inductive invariant.
THEOREM OwnInvariant == Spec => []OwnInv
<1>1. Init => OwnInv
  BY OwnInvInit
<1>2. OwnInv /\ [Next]_vars => OwnInv'
  BY OwnInvStep
<1> QED BY <1>1, <1>2, PTL DEF Spec

\* The record a row keeps is the one its number names, whatever the commands,
\* the loop and the accidents do to the row (publish, unpublish, ingest_wire).
THEOREM RecordAlwaysMatches == Spec => []RecordMatchesRow
<1>1. OwnInv => RecordMatchesRow
  BY DEF OwnInv
<1> QED BY <1>1, OwnInvariant, PTL

\* A playlist that was never shared is never signed: no edit, deletion, drain,
\* renewal, crash or lost reply lets it out (update, delete, announce_once).
THEOREM PrivateStaysPrivate == Spec => []NeverSharedNeverSigned
<1>1. OwnInv => NeverSharedNeverSigned
  BY DEF OwnInv, PrivateInv, NeverSharedNeverSigned
<1> QED BY <1>1, OwnInvariant, PTL
\* In calm weather the inductive invariant holds throughout.
THEOREM CalmInvariant == Spec => []CalmInv
<1>1. Init => CalmInv
  BY CalmInvInit
<1>2. OwnInv /\ OwnInv' /\ CalmInv /\ [Next]_vars => CalmInv'
  BY CalmInvStep
<1> QED BY <1>1, <1>2, OwnInvariant, PTL DEF Spec

\* No number is signed twice while commands come one at a time and nothing
\* fails, however the loop's drains and announces fall between the steps of a
\* command (next_seq).
THEOREM NumbersStayUnique == Spec => []SeqNeverReused
<1>1. CalmInv => SeqNeverReused
  BY DEF CalmInv, CalmBuffer, SeqNeverReused
<1> QED BY <1>1, CalmInvariant, PTL

\* Then too, what was retracted stays retracted: the newest record there is
\* is its tombstone (unpublish, delete).
THEOREM RetractedStaysRetracted == Spec => []UnshareRetracts
<1>1. OwnInv /\ CalmInv => UnshareRetracts
  <2> SUFFICES ASSUME OwnInv, CalmInv, Calm, Quiescent, intent = "private", signed # {}
               PROVE  \E r \in signed : r.doc = Tombstone /\ \A s \in signed : s.seq <= r.seq
    BY DEF UnshareRetracts
  <2>1. buf # NoRecord /\ buf \in signed
    BY DEF CalmInv, CalmBuffer
  <2>2. buf.doc = Tombstone
    BY <2>1 DEF CalmInv, CalmSharing, Quiescent, Tasks
  <2>3. \A s \in signed : s.seq <= buf.seq
    BY <2>1 DEF CalmInv, CalmBuffer, Seq
  <2> QED BY <2>1, <2>2, <2>3
<1> QED BY <1>1, OwnInvariant, CalmInvariant, PTL
=============================================================================
