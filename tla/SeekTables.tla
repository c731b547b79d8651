----------------------------- MODULE SeekTables -----------------------------
(***************************************************************************)
(* packages/repack/src/seek.ts: the tables a bake computes from a module's *)
(* patterns, without rendering it.  A checkpoint names the samples that    *)
(* must be resident when playback stands at its order; the fence of the    *)
(* player holds the audio until they are.                                  *)
(*                                                                         *)
(* A song is the part of a module that seek.ts reads: its format, its      *)
(* order list and its patterns.  The bytes of a cell are left out; what    *)
(* each decoder makes of a cell is kept.  The machine of this module grows *)
(* songs one entry at a time, so that every song within the bounds is a    *)
(* state.  Samples and instruments are numbered from 1, 0 is none.         *)
(***************************************************************************)
EXTENDS Integers, SequencesExt, FiniteSetsExt

CONSTANTS Formats,        \* of "mod", "s3m", "xm", "it"
          Channels, Keys, Samples,
          Keymap,         \* [instrument -> [Keys -> sample or 0]]
          OffsetOf,       \* [Samples -> offset of its PCM, or -1 where it has none]
          Patterns,       \* pattern numbers
          Skip,           \* an order-list entry that is no pattern
          Speeds,         \* values of a set-speed command
          MaxCheckpoints, \* MAX_CHECKPOINTS
          MaxOrders, MaxRows  \* bounds on a song: entries, and rows in all

Instruments == DOMAIN Keymap
Speed0 == 6

ASSUME SeekAssumption ==
  /\ Keymap \in [Instruments -> [Keys -> Samples \cup {0}]]
  /\ 0 \notin Instruments \cup Samples
  /\ Formats \subseteq {"mod", "s3m", "xm", "it"} /\ Speeds \subseteq Nat
  /\ Skip \notin Patterns
  /\ "none" \notin Keys /\ "cut" \notin Keys
  /\ MaxCheckpoints \in Nat \ {0}

\* A row of a pattern holds one cell; a set-speed command (0 is none) stands in a cell
\* of its own, for it acts on nothing else of its cell.
Cell == [ch : Channels, note : Keys \cup {"none", "cut"}, ins : Instruments \cup {0}, speed : {0}]
          \cup [ch : Channels, note : {"none"}, ins : {0}, speed : Speeds]

VARIABLE song  \* [format, orders, pats]

SeekTypeOK ==
  song \in [format : Formats, orders : Seq(Patterns \cup {Skip}), pats : [Patterns -> Seq(Cell)]]

-----------------------------------------------------------------------------
(* The decoders.  An event says which sample a cell names (0 if it does    *)
(* not), whether a note is struck, and whether the channel is silenced.    *)

Event(row, c, sample) ==
  [row |-> row, ch |-> c.ch, sample |-> sample, note |-> c.note \in Keys,
   off |-> c.note = "cut", speed |-> c.speed]

\* ProTracker has no note-off; an instrument number is a sample number.
ModEvents(pat) ==
  [r \in DOMAIN pat |->
     [Event(r, pat[r], pat[r].ins) EXCEPT !.off = FALSE]]

S3mEvents(pat) == [r \in DOMAIN pat |-> Event(r, pat[r], pat[r].ins)]

\* The keymap of the instrument is asked only where a note is struck with it.
XmEvents(pat) ==
  [r \in DOMAIN pat |->
     LET c == pat[r] IN
     Event(r, c, IF c.note \in Keys /\ c.ins # 0 THEN Keymap[c.ins][c.note] ELSE 0)]

\* decodeEvents remembers the last instrument of each channel, within the pattern.
LastIns(pat, r) ==
  LET given == {q \in 1..r : pat[q].ch = pat[r].ch /\ pat[q].ins # 0} IN
  IF given = {} THEN 0 ELSE pat[Max(given)].ins

SampleForNote(ins, note) == IF ins = 0 \/ note \notin Keys THEN 0 ELSE Keymap[ins][note]

ItEvents(pat) ==
  [r \in DOMAIN pat |-> Event(r, pat[r], SampleForNote(LastIns(pat, r), pat[r].note))]

Decode(s, p) ==
  CASE s.format = "mod" -> ModEvents(s.pats[p])
    [] s.format = "s3m" -> S3mEvents(s.pats[p])
    [] s.format = "xm"  -> XmEvents(s.pats[p])
    [] s.format = "it"  -> ItEvents(s.pats[p])

-----------------------------------------------------------------------------
(* simulateTables, and computeItTables for the IT family.                  *)

\* orderPats: the indices of the order list that are patterns, in play sequence.
PlayedUpTo(s) ==
  LET played[i \in 0..Len(s.orders)] ==
        IF i = 0 THEN <<>>
        ELSE IF s.orders[i] = Skip THEN played[i - 1] ELSE Append(played[i - 1], i) IN
  played
PlayedOrders(s) == PlayedUpTo(s)[Len(s.orders)]
Played(s, v) == s.orders[PlayedOrders(s)[v]]

\* The rows of the played orders, one order after the other.
RowsUpTo(s) ==
  LET rows[v \in 0..Len(PlayedOrders(s))] ==
        IF v = 0 THEN <<>>
        ELSE rows[v - 1] \o [r \in DOMAIN s.pats[Played(s, v)] |-> [at |-> v, row |-> r]] IN
  rows
Rows(s) == RowsUpTo(s)[Len(PlayedOrders(s))]
RowsBefore(s, v) == Len(RowsUpTo(s)[v - 1])

Events(s) == LET R == Rows(s) IN
  [k \in DOMAIN R |-> Decode(s, Played(s, R[k].at))[R[k].row]]

\* An instrument given without a note is not latched.
ApplySimLatchOnNote(st, e) ==
  LET held  == IF e.off THEN [st.held EXCEPT ![e.ch] = 0] ELSE st.held
      latch == IF e.sample # 0 /\ e.note THEN [st.latch EXCEPT ![e.ch] = e.sample] ELSE st.latch
      s == latch[e.ch] IN
  [held  |-> IF e.note /\ s # 0 THEN [held EXCEPT ![e.ch] = s] ELSE held,
   latch |-> latch]

\* applySim: what one event does to the channel's held note and its latched sample.
ApplySim(st, e) ==
  LET held  == IF e.off THEN [st.held EXCEPT ![e.ch] = 0] ELSE st.held
      latch == IF e.sample # 0 THEN [st.latch EXCEPT ![e.ch] = e.sample] ELSE st.latch
      s == latch[e.ch] IN
  [held  |-> IF e.note /\ s # 0 THEN [held EXCEPT ![e.ch] = s] ELSE held,
   latch |-> latch]

\* The walk of computeItTables: no latch, and a note that resolves to no sample is ignored.
ApplyIt(st, e) ==
  [st EXCEPT !.held[e.ch] = IF e.off THEN 0
                            ELSE IF e.note /\ e.sample # 0 THEN e.sample ELSE @]

Silent == [held |-> [c \in Channels |-> 0], latch |-> [c \in Channels |-> 0]]

Apply(s, st, e) == IF s.format = "it" THEN ApplyIt(st, e) ELSE ApplySim(st, e)

\* The walk over every played order strictly before the v-th.
WalkUpTo(s) ==
  LET E == Events(s)
      walk[k \in 0..Len(E)] == IF k = 0 THEN Silent ELSE Apply(s, walk[k - 1], E[k]) IN
  walk
Walk(s, v) == WalkUpTo(s)[RowsBefore(s, v)]

Offsets(samples) == {OffsetOf[x] : x \in samples \ {0}} \ {-1}

\* What is struck from one event up to another, beginning with these latched samples.
Struck(s, latch, first, last) ==
  LET E == Events(s)
      latched(k) == {j \in first..k : E[j].ch = E[k].ch /\ E[j].sample # 0}
      sample(k) == IF s.format = "it" THEN E[k].sample
                   ELSE IF latched(k) = {} THEN latch[E[k].ch] ELSE E[Max(latched(k))].sample IN
  {sample(k) : k \in {j \in first..last : E[j].note}}

Stride(s) == Max({1, (Len(PlayedOrders(s)) + MaxCheckpoints - 1) \div MaxCheckpoints})

Resident(s, v) ==
  LET st == Walk(s, v)
      next == Min({v + Stride(s), Len(PlayedOrders(s)) + 1}) IN
  Offsets({st.held[c] : c \in Channels}
            \cup Struck(s, st.latch, RowsBefore(s, v) + 1, RowsBefore(s, next)))

Checkpoints(s) ==
  [k \in 1..((Len(PlayedOrders(s)) + Stride(s) - 1) \div Stride(s)) |->
     LET v == (k - 1) * Stride(s) + 1 IN
     [order |-> PlayedOrders(s)[v], resident |-> Resident(s, v)]]

Segment0(s) ==
  IF PlayedOrders(s) = <<>> THEN {} ELSE Offsets(Struck(s, Silent.latch, 1, RowsBefore(s, 2)))

\* The timing map: a row lasts as long as the speed in force (tempo and scale left out).
RowTime(acc, e) ==
  LET speed == IF e.speed # 0 THEN e.speed ELSE acc.speed IN
  [speed |-> speed, t |-> acc.t + speed]

ClockUpTo(s) ==
  LET E == Events(s)
      clock[k \in 0..Len(E)] ==
        IF k = 0 THEN [speed |-> Speed0, t |-> 0] ELSE RowTime(clock[k - 1], E[k]) IN
  clock

OrderSeconds(s) ==
  [v \in DOMAIN PlayedOrders(s) |->
     [order |-> PlayedOrders(s)[v], seconds |-> ClockUpTo(s)[RowsBefore(s, v)].t]]

-----------------------------------------------------------------------------
(* Songs.                                                                  *)

SeekInit == \E f \in Formats :
  song = [format |-> f, orders |-> <<>>, pats |-> [p \in Patterns |-> <<>>]]

AddOrder(o) ==
  /\ Len(song.orders) < MaxOrders
  /\ song' = [song EXCEPT !.orders = Append(@, o)]

AddRow(p, c) ==
  /\ FoldFunction(+, 0, [q \in Patterns |-> Len(song.pats[q])]) < MaxRows
  /\ song' = [song EXCEPT !.pats[p] = Append(@, c)]

SeekNext == \/ \E o \in Patterns \cup {Skip} : AddOrder(o)
            \/ \E p \in Patterns, c \in Cell : AddRow(p, c)

SeekSpec == SeekInit /\ [][SeekNext]_song

-----------------------------------------------------------------------------
(* What a player makes of the same song, said without a walk: a note plays *)
(* the instrument its channel was last given, and it may ring until the    *)
(* channel's next note or cut.                                             *)

Cells(s) == LET R == Rows(s) IN
  [k \in DOMAIN R |-> [at |-> R[k].at, cell |-> s.pats[Played(s, R[k].at)][R[k].row]]]

\* Where the channel of the k-th cell was last given an instrument, or 0.
GivenAt(E, k) == Max({0} \cup {j \in 1..k : E[j].cell.ch = E[k].cell.ch /\ E[j].cell.ins # 0})
Notes(E) == {k \in DOMAIN E : E[k].cell.note \in Keys /\ GivenAt(E, k) # 0}
Plays(s, E, k) ==
  LET ins == E[GivenAt(E, k)].cell.ins IN
  IF s.format \in {"mod", "s3m"} THEN ins ELSE Keymap[ins][E[k].cell.note]
Stops(s, E, j) == j \in Notes(E) \/ (s.format # "mod" /\ E[j].cell.note = "cut")

HeardAt(s, E, v) ==
  {k \in Notes(E) :
     \/ E[k].at = v
     \/ E[k].at < v /\ \A j \in (k + 1)..Len(E) :
          (E[j].at < v /\ E[j].cell.ch = E[k].cell.ch) => ~Stops(s, E, j)}

\* Notes whose instrument the decoder does not see: in XM one given without a note or for
\* another sample of the instrument, in IT one given in an earlier pattern.
Unseen(s, E, k) ==
  LET j == GivenAt(E, k) IN
  \/ /\ s.format = "xm" /\ j # k
     /\ E[j].cell.note \notin Keys \/ Keymap[E[j].cell.ins][E[j].cell.note] # Plays(s, E, k)
  \/ s.format = "it" /\ E[j].at # E[k].at

(* Whatever sounds while playback stands at an order is in the checkpoint  *)
(* that covers that order, so the fence can wait for it: the safety rule   *)
(* at the head of seek.ts (over-counting is safe, under-counting chops).   *)
SpanCovered ==
  LET E == Cells(song) table == Checkpoints(song) IN
  \A v \in DOMAIN PlayedOrders(song) :
    Offsets({Plays(song, E, k) : k \in {h \in HeardAt(song, E, v) : ~Unseen(song, E, h)}})
      \subseteq table[(v - 1) \div Stride(song) + 1].resident

(* What the fence takes from the tables: checkpoints at ascending orders   *)
(* that the timing map knows, the first of them holding the opening that   *)
(* segment0 names (with a checkpoint at every order they are the same),    *)
(* and a clock that does not run backwards.                                *)
TablesAgree ==
  LET table == Checkpoints(song) times == OrderSeconds(song) IN
  /\ \A k \in DOMAIN table : \E v \in DOMAIN times : times[v].order = table[k].order
  /\ \A k \in 2..Len(table) : table[k - 1].order < table[k].order
  /\ \A v \in 2..Len(times) : times[v - 1].seconds <= times[v].seconds
  /\ table # <<>> => /\ Segment0(song) \subseteq table[1].resident
                     /\ Stride(song) = 1 => Segment0(song) = table[1].resident

(* The seek tables of a song are sound on both counts (simChannels).       *)
TablesSound == SpanCovered /\ TablesAgree
=============================================================================
