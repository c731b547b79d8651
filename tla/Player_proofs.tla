--------------------------- MODULE Player_proofs ---------------------------
(***************************************************************************)
(* Proofs about Player, for any number of tracks and plays and any plans:  *)
(* the fence keeps what is not resident from sounding, the index of the    *)
(* queue names what plays, only a stream that is done is shown as done, the*)
(* bar ends where the fence would stall; and, from what may be under way   *)
(* in the ports, an instance holds its own samples only and what is shown  *)
(* of playing and buffering is so once the ports are empty.                *)
(***************************************************************************)
EXTENDS Player, FiniteSetTheorems, SequenceTheorems, WellFoundedInduction, TLAPS

-----------------------------------------------------------------------------
(***************************************************************************)
(* The fence                                                               *)
(***************************************************************************)

Checkpoint == [order : Nat, samples : SUBSET Nat]

Ascending(cps) ==
  \A j, k \in DOMAIN cps : j < k => cps[j].order < cps[k].order

\* One order further there is at most one checkpoint more.
LEMMA FloorStep ==
  ASSUME NEW cps \in Seq(Checkpoint), Ascending(cps),
         NEW o \in Nat
  PROVE  /\ FloorIdx(cps, o) \in Nat
         /\ FloorIdx(cps, o + 1) \in {FloorIdx(cps, o), FloorIdx(cps, o) + 1}
<1> DEFINE Before(n) == {k \in DOMAIN cps : cps[k].order <= n}
<1>1. /\ Len(cps) \in Nat /\ DOMAIN cps = 1..Len(cps)
      /\ \A k \in DOMAIN cps : cps[k].order \in Nat
  <2>1. Len(cps) \in Nat /\ DOMAIN cps = 1..Len(cps)
    BY LenProperties
  <2>2. \A k \in 1..Len(cps) : cps[k] \in Checkpoint
    BY ElementOfSeq
  <2> QED  BY <2>1, <2>2 DEF Checkpoint
<1>2. IsFiniteSet(DOMAIN cps)
  BY <1>1, FS_Interval
<1>3. IsFiniteSet(Before(o)) /\ Cardinality(Before(o)) \in Nat
  <2>1. Before(o) \in SUBSET DOMAIN cps
    OBVIOUS
  <2> QED  BY <1>2, <2>1, FS_Subset, FS_CardinalityType
<1>4. CASE Before(o + 1) = Before(o)
  BY <1>3, <1>4 DEF FloorIdx
<1>5. CASE Before(o + 1) # Before(o)
  <2>1. PICK k \in DOMAIN cps : cps[k].order = o + 1
    BY <1>1, <1>5
  <2>2. \A j \in DOMAIN cps : cps[j].order = o + 1 => j = k
    BY <1>1, <2>1 DEF Ascending
  <2>3. Before(o + 1) = Before(o) \cup {k} /\ k \notin Before(o)
    BY <1>1, <2>1, <2>2
  <2>4. Cardinality(Before(o + 1)) = Cardinality(Before(o)) + 1
    BY <1>3, <2>3, FS_AddElement
  <2> QED  BY <1>3, <2>4 DEF FloorIdx
<1> QED  BY <1>4, <1>5

\* What the fence lets through is resident, in this order and the next.
LEMMA ReadyCovers ==
  ASSUME NEW cps \in Seq(Checkpoint), Ascending(cps),
         NEW got, NEW stalled, NEW o \in Nat, NEW next \in {o, o + 1},
         Ready(cps, got, stalled, o)
  PROVE  Audible(cps, o) \cup Audible(cps, next) \subseteq got
<1> DEFINE i == FloorIdx(cps, o)
           j == FloorIdx(cps, next)
<1>1. i \in Nat /\ j \in {i, i + 1}
  BY FloorStep
<1> HIDE DEF i, j
<1>2. RequiredAt(cps, o) = UnionRange(cps, i, i + 1)
  BY DEF RequiredAt, i
<1>3. RequiredAt(cps, o) \subseteq got
  <2>1. UnionRange(cps, i, i + 1) \subseteq UnionRange(cps, i, i + 2)
    BY <1>1 DEF UnionRange
  <2>2. \/ RequiredAt(cps, o) \subseteq got
        \/ UnionRange(cps, i, i + 2) \subseteq got
    BY <1>1 DEF Ready, Lookahead, i
  <2> QED  BY <1>2, <2>1, <2>2
<1>4. Audible(cps, o) \subseteq RequiredAt(cps, o)
  BY <1>1, <1>2 DEF Audible, RequiredHere, UnionRange, i
<1>5. Audible(cps, next) \subseteq RequiredAt(cps, o)
  <2>1. Audible(cps, next) = UnionRange(cps, j, j)
    BY DEF Audible, RequiredHere, j
  <2>2. UnionRange(cps, j, j) \subseteq UnionRange(cps, i, i + 1)
    BY <1>1 DEF UnionRange
  <2> QED  BY <1>2, <2>1, <2>2
<1> QED  BY <1>3, <1>4, <1>5

\* A set of numbers has a least one, which Min returns.
LEMMA MinIsLeast ==
  ASSUME NEW S \in SUBSET Nat, S # {}
  PROVE  Min(S) \in S /\ \A y \in S : Min(S) <= y
<1>1. IsWellFoundedOn(OpToRel(<, Nat), Nat)
  BY NatLessThanWellFounded
<1>2. PICK x \in S : \A y \in S : <<y, x>> \notin OpToRel(<, Nat)
  BY <1>1, WFMin, Zenon
<1>3. \A y \in S : ~(y < x)
  BY <1>2 DEF OpToRel
<1>4. \A y \in S : x <= y
  BY <1>3
<1> QED  BY <1>4 DEF Min

\* The checkpoints at or before an order are the first ones of the table.
LEMMA FloorIsPrefix ==
  ASSUME NEW cps \in Seq(Checkpoint), Ascending(cps), NEW o \in Nat
  PROVE  /\ FloorIdx(cps, o) \in 0..Len(cps)
         /\ \A k \in DOMAIN cps : cps[k].order <= o <=> k <= FloorIdx(cps, o)
<1> DEFINE n == Len(cps)
           Before == {k \in DOMAIN cps : cps[k].order <= o}
           After == {k \in DOMAIN cps : ~(cps[k].order <= o)}
<1>1. /\ n \in Nat /\ DOMAIN cps = 1..n
      /\ \A k \in DOMAIN cps : cps[k].order \in Nat
  <2>1. n \in Nat /\ DOMAIN cps = 1..n
    BY LenProperties
  <2>2. \A k \in 1..n : cps[k] \in Checkpoint
    BY ElementOfSeq
  <2> QED  BY <2>1, <2>2 DEF Checkpoint
<1>2. PICK m \in 0..n : Before = 1..m
  <2>1. CASE After = {}
    BY <1>1, <2>1
  <2>2. CASE After # {}
    <3> DEFINE f == Min(After)
    <3>0. After \in SUBSET Nat
      BY <1>1
    <3> HIDE DEF After
    <3>1. f \in After /\ \A k \in After : f <= k
      BY <2>2, <3>0, MinIsLeast
    <3> USE DEF After
    <3> HIDE DEF f
    <3>2. \A k \in DOMAIN cps : cps[k].order <= o <=> k < f
      <4> TAKE k \in DOMAIN cps
      <4>1. k < f => cps[k].order <= o
        BY <1>1, <3>1
      <4>2. f <= k => cps[f].order <= cps[k].order
        BY <1>1, <3>1 DEF Ascending
      <4> QED  BY <1>1, <3>1, <4>1, <4>2
    <3>3. f - 1 \in 0..n
      BY <1>1, <3>1
    <3>4. Before = 1..(f - 1)
      BY <1>1, <3>1, <3>2
    <3> QED  BY <3>3, <3>4
  <2> QED  BY <2>1, <2>2
<1>3. Cardinality(1..m) = m
  BY <1>1, <1>2, FS_Interval
<1>4. FloorIdx(cps, o) = m
  BY <1>2, <1>3 DEF FloorIdx
<1> HIDE DEF n
<1>5. \A k \in DOMAIN cps : cps[k].order <= o <=> k \in 1..m
  BY <1>2
<1>6. \A k \in DOMAIN cps : k \in 1..m <=> k <= m
  BY <1>1, <1>2
<1> QED  BY <1>2, <1>4, <1>5, <1>6 DEF n

\* What an order requires is what the checkpoint it is in requires, and
\* before the first one what the opening does.
LEMMA RequiredByFloor ==
  ASSUME NEW cps \in Seq(Checkpoint), Ascending(cps), NEW o \in Nat
  PROVE  LET i == FloorIdx(cps, o)
         IN /\ i = 0 => RequiredAt(cps, o) = RequiredAt(cps, 0)
            /\ i # 0 => /\ i \in DOMAIN cps /\ cps[i].order \in Nat
                        /\ cps[i].order <= o
                        /\ RequiredAt(cps, o) = RequiredAt(cps, cps[i].order)
<1> DEFINE i == FloorIdx(cps, o)
<1>1. i \in 0..Len(cps) /\ \A k \in DOMAIN cps : cps[k].order <= o <=> k <= i
  BY FloorIsPrefix
<1>2. /\ Len(cps) \in Nat /\ DOMAIN cps = 1..Len(cps)
      /\ \A k \in DOMAIN cps : cps[k].order \in Nat
  <2>1. Len(cps) \in Nat /\ DOMAIN cps = 1..Len(cps)
    BY LenProperties
  <2>2. \A k \in 1..Len(cps) : cps[k] \in Checkpoint
    BY ElementOfSeq
  <2> QED  BY <2>1, <2>2 DEF Checkpoint
<1> HIDE DEF i
<1>3. CASE i = 0
  <2> DEFINE z == FloorIdx(cps, 0)
  <2>1. z \in 0..Len(cps) /\ \A k \in DOMAIN cps : cps[k].order <= 0 <=> k <= z
    BY FloorIsPrefix
  <2> HIDE DEF z
  <2>2. z = 0
    <3> SUFFICES ASSUME z # 0 PROVE FALSE
      OBVIOUS
    <3>1. z \in DOMAIN cps /\ cps[z].order <= 0
      BY <1>2, <2>1
    <3> QED  BY <1>1, <1>2, <1>3, <2>1, <3>1
  <2> QED  BY <1>3, <2>2 DEF RequiredAt, i, z
<1>4. CASE i # 0
  <2>1. i \in DOMAIN cps /\ cps[i].order \in Nat /\ cps[i].order <= o
    BY <1>1, <1>2, <1>4
  <2> DEFINE z == FloorIdx(cps, cps[i].order)
  <2>2. /\ z \in 0..Len(cps)
        /\ \A k \in DOMAIN cps : cps[k].order <= cps[i].order <=> k <= z
    BY <2>1, FloorIsPrefix
  <2> HIDE DEF z
  <2>3. i <= z
    BY <2>1, <2>2
  <2>4. z \in DOMAIN cps /\ cps[z].order <= cps[i].order
    BY <1>1, <1>2, <2>1, <2>2, <2>3
  <2>5. ~(i < z)
    BY <1>2, <2>1, <2>4 DEF Ascending
  <2>6. z = i
    BY <1>1, <2>2, <2>3, <2>5
  <2> QED  BY <1>4, <2>1, <2>6 DEF RequiredAt, i, z
<1> QED  BY <1>3, <1>4 DEF i

\* A fence that is not stalled asks for nothing beyond the next checkpoint.
LEMMA ReadyUnstalled ==
  ASSUME NEW cps \in Seq(Checkpoint), Ascending(cps), NEW got, NEW o \in Nat
  PROVE  Ready(cps, got, FALSE, o) <=> RequiredAt(cps, o) \subseteq got
<1> DEFINE i == FloorIdx(cps, o)
<1>1. i \in Nat
  BY FloorStep
<1> HIDE DEF i
<1>2. UnionRange(cps, i, i + 1) \subseteq UnionRange(cps, i, i + 1 + Lookahead)
  BY <1>1 DEF UnionRange, Lookahead
<1>3. RequiredAt(cps, o) = UnionRange(cps, i, i + 1)
  BY DEF RequiredAt, i
<1> QED  BY <1>2, <1>3 DEF Ready, i

LEMMA PlayableIsFirstStall ==
  ASSUME NEW cps \in Seq(Checkpoint), Ascending(cps), NEW got, NEW last \in Nat,
         \A k \in DOMAIN cps : cps[k].order <= last
  PROVE  LET stalls == {o \in 0..last : ~Ready(cps, got, FALSE, o)}
             bar == Playable(cps, got, last + 1)
         IN IF stalls = {} THEN bar = last + 1
            ELSE bar \in stalls /\ \A o \in stalls : bar <= o
<1> DEFINE stalls == {o \in 0..last : ~Ready(cps, got, FALSE, o)}
           bar == Playable(cps, got, last + 1)
           late == {k \in DOMAIN cps : ~(RequiredAt(cps, cps[k].order) \subseteq got)}
<1>1. /\ DOMAIN cps = 1..Len(cps) /\ Len(cps) \in Nat
      /\ \A k \in DOMAIN cps : cps[k].order \in Nat
  <2>1. Len(cps) \in Nat /\ DOMAIN cps = 1..Len(cps)
    BY LenProperties
  <2>2. \A k \in 1..Len(cps) : cps[k] \in Checkpoint
    BY ElementOfSeq
  <2> QED  BY <2>1, <2>2 DEF Checkpoint
<1>2. \A o \in 0..last : o \in stalls <=> ~(RequiredAt(cps, o) \subseteq got)
  <2> TAKE o \in 0..last
  <2>1. o \in Nat
    OBVIOUS
  <2>2. Ready(cps, got, FALSE, o) <=> RequiredAt(cps, o) \subseteq got
    BY <2>1, ReadyUnstalled, Zenon
  <2>3. o \in stalls <=> ~Ready(cps, got, FALSE, o)
    OBVIOUS
  <2> QED  BY <2>2, <2>3
<1>0. \A o \in stalls : o \in 0..last
  OBVIOUS
<1> HIDE DEF stalls
<1>3. CASE ~(RequiredAt(cps, 0) \subseteq got)
  <2>1. bar = 0
    BY <1>3 DEF Playable
  <2>2. 0 \in stalls
    BY <1>2, <1>3
  <2>3. \A o \in stalls : 0 <= o
    BY <1>0
  <2> HIDE DEF bar
  <2>4. stalls # {} /\ bar \in stalls /\ \A o \in stalls : bar <= o
    BY <2>1, <2>2, <2>3
  <2> QED  BY <2>4 DEF stalls, bar
<1>4. CASE RequiredAt(cps, 0) \subseteq got
  \* A stall is in the reach of a late checkpoint.
  <2>1. \A o \in stalls : \E k \in late : cps[k].order <= o
    <3> TAKE o \in stalls
    <3>1. o \in Nat /\ ~(RequiredAt(cps, o) \subseteq got)
      BY <1>2, <1>0
    <3> DEFINE i == FloorIdx(cps, o)
    <3>2. /\ i = 0 => RequiredAt(cps, o) = RequiredAt(cps, 0)
          /\ i # 0 => /\ i \in DOMAIN cps /\ cps[i].order <= o
                      /\ RequiredAt(cps, o) = RequiredAt(cps, cps[i].order)
      BY <3>1, RequiredByFloor
    <3> HIDE DEF i
    <3>3. i # 0
      BY <1>4, <3>1, <3>2
    <3>4. i \in late /\ cps[i].order <= o
      BY <3>1, <3>2, <3>3
    <3> QED  BY <3>4
  <2>2. CASE late = {}
    <3>1. stalls = {}
      BY <2>1, <2>2
    <3>2. bar = last + 1
      BY <1>4, <2>2 DEF Playable
    <3> QED  BY <3>1, <3>2 DEF stalls
  <2>3. CASE late # {}
    <3> DEFINE m == Min(late)
    <3>0. late \in SUBSET Nat
      BY <1>1
    <3> HIDE DEF late
    <3>1. m \in late /\ \A k \in late : m <= k
      BY <2>3, <3>0, MinIsLeast
    <3> USE DEF late
    <3>2. bar = cps[m].order
      BY <1>4, <2>3 DEF Playable
    <3> HIDE DEF m
    <3>3. m \in DOMAIN cps /\ cps[m].order \in 0..last
      BY <1>1, <3>1
    <3>4. cps[m].order \in stalls
      BY <1>2, <3>1, <3>3
    <3>5. \A k \in late : cps[m].order <= cps[k].order
      BY <1>1, <3>1 DEF Ascending
    <3> HIDE DEF bar
    <3>7. \A o \in stalls : bar <= o
      <4> TAKE o \in stalls
      <4>1. PICK k \in late : cps[k].order <= o
        BY <2>1
      <4>2. cps[m].order <= cps[k].order /\ cps[k].order \in Nat
        BY <1>1, <3>5, <4>1
      <4> QED  BY <1>0, <3>2, <3>3, <4>1, <4>2
    <3>8. stalls # {} /\ bar \in stalls /\ \A o \in stalls : bar <= o
      BY <3>2, <3>4, <3>7
    <3> QED  BY <3>8 DEF stalls, bar
  <2> QED  BY <2>2, <2>3
<1> QED  BY <1>3, <1>4

-----------------------------------------------------------------------------
(***************************************************************************)
(* The shape of the state: whatever reaches a worklet names a play that    *)
(* started, so an instance always has a plan                               *)
(***************************************************************************)

PlayType ==
  [track : Tracks \cup {NoTrack},
   at : {"none", "init", "stream", "complete", "over", "failed"},
   builds : BOOLEAN,
   skel : {"none", "fetching", "resuming", "inited", "failed"},
   given : SUBSET Nat]

ToMsg(n) ==
  [t : {"init"}, e : 1..n, x : {0}]
    \cup [t : {"provide", "play", "pause", "seek"}, e : 0..MaxPlays, x : Nat]

WorkletType(n) ==
  [lib : BOOLEAN, inst : 0..n, playing : BOOLEAN, order : Nat,
   pcm : SUBSET (Nat \X Nat), stalled : BOOLEAN, wasBuffering : BOOLEAN,
   reported : BOOLEAN, pendInit : 0..n, pend : SUBSET (Nat \X Nat)]

Shapes ==
  /\ queue \in Seq(Tracks) /\ index \in 0..Len(queue)
  /\ now \in [track : Tracks \cup {NoTrack}, streaming : BOOLEAN,
              buffering : BOOLEAN, error : BOOLEAN]
  /\ epoch \in 0..MaxPlays
  /\ play \in [Plays -> PlayType]
  /\ \A e \in 1..epoch : play[e].track \in Tracks
  /\ toWorklet \in [Plays -> Seq(ToMsg(epoch))]
  /\ worklet \in [Plays -> WorkletType(epoch)]

-----------------------------------------------------------------------------
(***************************************************************************)
(* Lemmas on sequences                                                     *)
(***************************************************************************)

LEMMA RemoveAtIsShorter ==
  ASSUME NEW S, NEW s \in Seq(S), NEW i \in DOMAIN s
  PROVE  /\ RemoveAt(s, i) \in Seq(S)
         /\ Len(RemoveAt(s, i)) = Len(s) - 1
         /\ \A k \in 1..(Len(s) - 1) :
              RemoveAt(s, i)[k] = IF k < i THEN s[k] ELSE s[k + 1]
<1>1. Len(s) \in Nat /\ DOMAIN s = 1..Len(s) /\ \A k \in 1..Len(s) : s[k] \in S
  BY LenProperties, ElementOfSeq
<1> DEFINE before == SubSeq(s, 1, i - 1)
           after  == SubSeq(s, i + 1, Len(s))
<1>2. /\ before \in Seq(S) /\ Len(before) = i - 1
      /\ \A k \in 1..(i - 1) : before[k] = s[k]
  BY <1>1, SubSeqProperties
<1>3. /\ after \in Seq(S) /\ Len(after) = Len(s) - i
      /\ \A k \in 1..(Len(s) - i) : after[k] = s[i + k]
  BY <1>1, SubSeqProperties
<1> HIDE DEF before, after
<1>4. RemoveAt(s, i) = before \o after
  BY DEF RemoveAt, before, after
<1>5. /\ before \o after \in Seq(S)
      /\ Len(before \o after) = Len(before) + Len(after)
      /\ \A k \in 1..(Len(before) + Len(after)) : (before \o after)[k] =
           IF k <= Len(before) THEN before[k] ELSE after[k - Len(before)]
  BY <1>2, <1>3, ConcatProperties
<1>6. \A k \in 1..(Len(s) - 1) : (before \o after)[k] = IF k < i THEN s[k] ELSE s[k + 1]
  <2> TAKE k \in 1..(Len(s) - 1)
  <2>1. CASE k < i
    BY <1>1, <1>2, <1>3, <1>5, <2>1
  <2>2. CASE ~(k < i)
    <3>1. k - (i - 1) \in 1..(Len(s) - i) /\ i + (k - (i - 1)) = k + 1
      BY <1>1, <2>2
    <3>2. (before \o after)[k] = after[k - (i - 1)]
      BY <1>1, <1>2, <1>3, <1>5, <2>2
    <3> QED  BY <1>3, <2>2, <3>1, <3>2
  <2> QED  BY <2>1, <2>2
<1> QED  BY <1>1, <1>2, <1>3, <1>4, <1>5, <1>6

LEMMA InsertAtIsLonger ==
  ASSUME NEW S, NEW s \in Seq(S), NEW i \in 1..(Len(s) + 1), NEW t \in S
  PROVE  /\ InsertAt(s, i, t) \in Seq(S)
         /\ Len(InsertAt(s, i, t)) = Len(s) + 1
         /\ \A k \in 1..(i - 1) : InsertAt(s, i, t)[k] = s[k]
<1>1. Len(s) \in Nat /\ DOMAIN s = 1..Len(s) /\ \A k \in 1..Len(s) : s[k] \in S
  BY LenProperties, ElementOfSeq
<1> DEFINE before == SubSeq(s, 1, i - 1)
           after  == SubSeq(s, i, Len(s))
<1>2. /\ before \in Seq(S) /\ Len(before) = i - 1
      /\ \A k \in 1..(i - 1) : before[k] = s[k]
  BY <1>1, SubSeqProperties
<1>3. after \in Seq(S) /\ Len(after) = Len(s) - i + 1
  BY <1>1, SubSeqProperties
<1> HIDE DEF before, after
<1> DEFINE front == before \o <<t>>
<1>4. /\ front \in Seq(S) /\ Len(front) = i
      /\ \A k \in 1..(i - 1) : front[k] = before[k]
  <2>1. <<t>> \in Seq(S) /\ Len(<<t>>) = 1
    OBVIOUS
  <2> QED  BY <1>2, <2>1, ConcatProperties
<1>5. InsertAt(s, i, t) = front \o after
  BY DEF InsertAt, before, after
<1> HIDE DEF front
<1>6. /\ front \o after \in Seq(S)
      /\ Len(front \o after) = Len(front) + Len(after)
      /\ \A k \in 1..(Len(front) + Len(after)) : (front \o after)[k] =
           IF k <= Len(front) THEN front[k] ELSE after[k - Len(front)]
  BY <1>3, <1>4, ConcatProperties
<1>7. \A k \in 1..(i - 1) : (front \o after)[k] = s[k]
  <2> TAKE k \in 1..(i - 1)
  <2>1. (front \o after)[k] = front[k]
    BY <1>1, <1>3, <1>4, <1>6
  <2> QED  BY <1>2, <1>4, <2>1
<1>8. Len(front) + Len(after) = Len(s) + 1
  BY <1>1, <1>3, <1>4
<1> QED  BY <1>5, <1>6, <1>7, <1>8

-----------------------------------------------------------------------------
(***************************************************************************)
(* The shape of the state is kept: what the actions have in common         *)
(***************************************************************************)

LEMMA SendShape ==
  ASSUME NEW n, toWorklet \in [Plays -> Seq(ToMsg(n))],
         NEW m \in ToMsg(n), Send(<<m>>)
  PROVE  toWorklet' \in [Plays -> Seq(ToMsg(n))]
<1>1. CASE graph \in Plays
  <2>1. toWorklet[graph] \o <<m>> \in Seq(ToMsg(n))
    BY <1>1
  <2> QED  BY <1>1, <2>1 DEF Send
<1>2. CASE graph \notin Plays
  BY <1>2 DEF Send
<1> QED  BY <1>1, <1>2

LEMMA MovesShape ==
  ASSUME NEW e \in Plays, NEW p \in PlayType, Shapes,
         p.track = play[e].track, Moves(e, p)
  PROVE  /\ play' \in [Plays -> PlayType]
         /\ \A f \in Plays : play'[f].track = play[f].track
BY DEF Shapes, Moves

\* The rest of the shape when one play moves.
LEMMA PlaysKept ==
  ASSUME Shapes, UNCHANGED <<queue, index, epoch, worklet>>,
         now' \in [track : Tracks \cup {NoTrack}, streaming : BOOLEAN,
                   buffering : BOOLEAN, error : BOOLEAN],
         toWorklet' \in [Plays -> Seq(ToMsg(epoch))],
         play' \in [Plays -> PlayType],
         \A f \in Plays : play'[f].track = play[f].track
  PROVE  Shapes'
<1>1. 1..epoch \subseteq Plays
  BY BoundAssumption DEF Shapes, Plays
<1>2. \A e \in 1..epoch' : play'[e].track \in Tracks
  BY <1>1 DEF Shapes
<1>3. worklet' \in [Plays -> WorkletType(epoch')] /\ epoch' \in 0..MaxPlays
  BY DEF Shapes
<1>4. queue' \in Seq(Tracks) /\ index' \in 0..Len(queue')
  BY DEF Shapes
<1> QED  BY <1>2, <1>3, <1>4 DEF Shapes

\* What a play may send and be held back for grows with the plays.
LEMMA ShapesGrow ==
  ASSUME NEW n \in Nat
  PROVE  /\ ToMsg(n) \subseteq ToMsg(n + 1)
         /\ WorkletType(n) \subseteq WorkletType(n + 1)
<1>1. 1..n \subseteq 1..(n + 1) /\ 0..n \subseteq 0..(n + 1)
  OBVIOUS
<1> QED  BY <1>1 DEF ToMsg, WorkletType

LEMMA PlayListShape ==
  ASSUME Shapes, NEW items \in Seq(Tracks), NEW i \in DOMAIN items,
         PlayList(items, i), queue' = items, UNCHANGED <<toWorklet, worklet>>
  PROVE  Shapes'
<1>1. items[i] \in Tracks /\ i \in 1..Len(items)
  BY LenProperties, ElementOfSeq
<1>2. epoch' = epoch + 1 /\ epoch + 1 \in Plays /\ epoch \in Nat
  BY BoundAssumption DEF Shapes, PlayList, Plays
<1>3. queue' \in Seq(Tracks) /\ index' \in 0..Len(queue')
  <2>1. Len(items) \in Nat
    BY LenProperties
  <2> QED  BY <1>1, <2>1 DEF PlayList
<1>4. now' \in [track : Tracks \cup {NoTrack}, streaming : BOOLEAN,
                buffering : BOOLEAN, error : BOOLEAN]
  BY <1>1 DEF PlayList
<1>5. play' \in [Plays -> PlayType]
  <2>1. [NoPlay EXCEPT !.track = items[i], !.at = "init", !.builds = graph = 0]
          \in PlayType
    BY <1>1 DEF NoPlay, PlayType
  <2> QED  BY <1>2, <2>1 DEF PlayList, Shapes
<1>6. \A e \in 1..epoch' : play'[e].track \in Tracks
  <2>1. play'[epoch + 1].track = items[i]
    BY <1>2 DEF PlayList, Shapes, NoPlay
  <2>2. \A e \in 1..epoch : play'[e] = play[e]
    BY <1>2 DEF PlayList, Shapes
  <2>3. \A e \in 1..epoch' : e \in 1..epoch \/ e = epoch + 1
    BY <1>2
  <2>4. \A e \in 1..epoch : play[e].track \in Tracks
    BY DEF Shapes
  <2> QED  BY <1>1, <2>1, <2>2, <2>3, <2>4
<1>7. toWorklet' \in [Plays -> Seq(ToMsg(epoch'))]
  <2>1. \A g \in Plays : toWorklet[g] \in Seq(ToMsg(epoch + 1))
    <3> TAKE g \in Plays
    <3>1. toWorklet[g] \in Seq(ToMsg(epoch))
      BY DEF Shapes
    <3>2. ToMsg(epoch) \subseteq ToMsg(epoch + 1)
      BY <1>2, ShapesGrow
    <3> QED  BY <3>1, <3>2
  <2> QED  BY <1>2, <2>1 DEF Shapes
<1>8. worklet' \in [Plays -> WorkletType(epoch')]
  <2>1. WorkletType(epoch) \subseteq WorkletType(epoch + 1)
    BY <1>2, ShapesGrow
  <2> QED  BY <1>2, <2>1 DEF Shapes
<1>9. epoch' \in 0..MaxPlays
  BY <1>2 DEF Plays
<1> QED  BY <1>3, <1>4, <1>5, <1>6, <1>7, <1>8, <1>9 DEF Shapes

LEMMA DoInitShape ==
  ASSUME NEW n \in Nat, NEW w \in WorkletType(n), NEW e \in 1..n
  PROVE  DoInit(w, e) \in WorkletType(n)
<1> DEFINE kept == {p \in w.pend : p[1] \in Slots[play[e].track]}
           gone == [w EXCEPT !.inst = 0, !.playing = FALSE, !.wasBuffering = FALSE,
                             !.reported = FALSE, !.pendInit = 0]
<1>1. kept \in SUBSET (Nat \X Nat) /\ e \in 0..n /\ 0 \in 0..n
  BY DEF WorkletType
<1> HIDE DEF kept
<1>2. gone \in WorkletType(n)
  BY <1>1 DEF WorkletType
<1>3. [w EXCEPT !.inst = e, !.playing = FALSE, !.wasBuffering = FALSE,
                !.reported = FALSE, !.pendInit = 0, !.order = 0,
                !.stalled = FALSE, !.pend = {}, !.pcm = kept] \in WorkletType(n)
  BY <1>1 DEF WorkletType
<1> QED  BY <1>2, <1>3 DEF DoInit, kept

LEMMA HandledShape ==
  ASSUME NEW n \in 0..MaxPlays, NEW w \in WorkletType(n), NEW m \in ToMsg(n)
  PROVE  Handled(w, m) \in WorkletType(n)
<1>0. n \in Nat /\ MaxPlays \in Nat
  BY BoundAssumption
<1>1. CASE m.t = "init"
  <2>1. m.e \in 1..n
    BY <1>1 DEF ToMsg
  <2>2. DoInit(w, m.e) \in WorkletType(n)
    BY <1>0, <2>1, DoInitShape
  <2>3. [w EXCEPT !.pendInit = m.e] \in WorkletType(n)
    BY <1>0, <2>1 DEF WorkletType
  <2> QED  BY <1>1, <2>2, <2>3 DEF Handled
<1>2. CASE m.t = "provide"
  <2>1. <<m.x, m.e>> \in Nat \X Nat
    BY <1>0, <1>2 DEF ToMsg
  <2>2. [w EXCEPT !.pend = @ \cup {<<m.x, m.e>>}] \in WorkletType(n)
    BY <2>1 DEF WorkletType
  <2>3. Applied(w, w.inst, {<<m.x, m.e>>}) \in SUBSET (Nat \X Nat)
    BY <2>1 DEF Applied, WorkletType
  <2>4. [w EXCEPT !.pcm = Applied(w, w.inst, {<<m.x, m.e>>})] \in WorkletType(n)
    BY <2>3 DEF WorkletType
  <2> QED  BY <1>2, <2>2, <2>4 DEF Handled
<1>3. CASE m.t = "play"
  BY <1>3 DEF Handled, WorkletType
<1>4. CASE m.t = "pause"
  BY <1>4 DEF Handled, WorkletType
<1>5. CASE m.t = "seek"
  BY <1>0, <1>5 DEF Handled, WorkletType, ToMsg
<1> QED  BY <1>1, <1>2, <1>3, <1>4, <1>5 DEF ToMsg

LEMMA EditShape ==
  ASSUME Shapes, queue' \in Seq(Tracks), index' \in 0..Len(queue'),
         UNCHANGED <<now, epoch, play, toWorklet, worklet>>
  PROVE  Shapes'
BY DEF Shapes

LEMMA WorkletShape ==
  ASSUME Shapes, NEW g \in Plays, NEW w \in WorkletType(epoch),
         worklet' = [worklet EXCEPT ![g] = w],
         toWorklet' \in [Plays -> Seq(ToMsg(epoch))],
         UNCHANGED <<ui, main>>
  PROVE  Shapes'
BY DEF Shapes, ui, main

-----------------------------------------------------------------------------
(***************************************************************************)
(* One step keeps the shape of the state                                   *)
(***************************************************************************)

LEMMA InitShapes == ASSUME Init PROVE Shapes
<1>1. queue \in Seq(Tracks) /\ index \in 0..Len(queue)
  <2>1. Len(SavedQueue) \in Nat
    BY TrackAssumption, LenProperties
  <2> QED  BY <2>1, TrackAssumption DEF Init
<1>2. NoPlay \in PlayType /\ NoWorklet \in WorkletType(0)
  BY DEF NoPlay, PlayType, NoWorklet, WorkletType
<1>3. <<>> \in Seq(ToMsg(0))
  OBVIOUS
<1>4. epoch \in 0..MaxPlays /\ 1..epoch = {}
  BY BoundAssumption DEF Init
<1> QED  BY <1>1, <1>2, <1>3, <1>4 DEF Init, Shapes

LEMMA UserShape == ASSUME Shapes, User PROVE Shapes'
<1>0. Len(queue) \in Nat /\ DOMAIN queue = 1..Len(queue)
      /\ \A k \in 1..Len(queue) : queue[k] \in Tracks
  BY LenProperties, ElementOfSeq DEF Shapes
<1>1. ASSUME NEW i \in DOMAIN queue, PlayAt(i)
      PROVE  Shapes'
  BY <1>1, PlayListShape DEF PlayAt, Settled, Shapes
<1>2. ASSUME NEW i \in DOMAIN queue, RemoveFromQueue(i)
      PROVE  Shapes'
  <2>1. queue' \in Seq(Tracks) /\ Len(queue') = Len(queue) - 1
    BY <1>2, RemoveAtIsShorter DEF RemoveFromQueue, Shapes
  <2>2. index' \in 0..Len(queue')
    BY <1>0, <1>2, <2>1 DEF RemoveFromQueue, Shapes
  <2> QED  BY <1>2, <2>1, <2>2, EditShape DEF RemoveFromQueue, main
<1>3. ASSUME NEW i \in DOMAIN queue, MoveInQueue(i)
      PROVE  Shapes'
  <2>1. queue' \in Seq(Tracks) /\ Len(queue') = Len(queue)
    BY <1>0, <1>3 DEF MoveInQueue, Shapes
  <2>2. index' \in 0..Len(queue')
    BY <1>0, <1>3, <2>1 DEF MoveInQueue, Shapes
  <2> QED  BY <1>3, <2>1, <2>2, EditShape DEF MoveInQueue, main
<1>4. ASSUME NEW t \in Tracks, PlayTrack(t)
      PROVE  Shapes'
  <2>1. <<t>> \in Seq(Tracks) /\ 1 \in DOMAIN <<t>>
    OBVIOUS
  <2> QED  BY <1>4, <2>1, PlayListShape DEF PlayTrack, Settled
<1>5. ASSUME NEW t \in Tracks, Enqueue(t)
      PROVE  Shapes'
  <2>1. index + 1 \in 1..(Len(queue) + 1)
    BY <1>0 DEF Shapes
  <2>2. queue' \in Seq(Tracks) /\ Len(queue') = Len(queue) + 1
    <3>1. queue \in Seq(Tracks)
      BY DEF Shapes
    <3>2. /\ InsertAt(queue, index + 1, t) \in Seq(Tracks)
          /\ Len(InsertAt(queue, index + 1, t)) = Len(queue) + 1
      BY <2>1, <3>1, InsertAtIsLonger
    <3>3. Append(queue, t) \in Seq(Tracks) /\ Len(Append(queue, t)) = Len(queue) + 1
      BY <3>1, AppendProperties
    <3>4. queue' \in {InsertAt(queue, index + 1, t), Append(queue, t)}
      BY <1>5 DEF Enqueue
    <3> QED  BY <3>2, <3>3, <3>4
  <2>3. index' \in 0..Len(queue')
    BY <1>0, <1>5, <2>2 DEF Enqueue, Shapes
  <2> QED  BY <1>5, <2>2, <2>3, EditShape DEF Enqueue, main
<1>6. ASSUME NEW t \in Tracks, EnqueueFirst(t)
      PROVE  Shapes'
  <2>1. queue' \in Seq(Tracks) /\ Len(queue') = Len(queue) + 1
    BY <1>6, AppendProperties DEF EnqueueFirst, Shapes
  <2>2. 1 \in DOMAIN queue'
    BY <1>0, <2>1, LenProperties
  <2> QED  BY <1>6, <2>1, <2>2, PlayListShape DEF EnqueueFirst, Settled
<1>7. ASSUME ClearQueue
      PROVE  Shapes'
  <2>1. queue' \in Seq(Tracks) /\ index' \in 0..Len(queue')
    BY <1>7 DEF ClearQueue
  <2> QED  BY <1>7, <2>1, EditShape DEF ClearQueue, main
<1>8. ASSUME Toggle
      PROVE  Shapes'
  <2>1. Msg(IF playing THEN "pause" ELSE "play", 0, 0) \in ToMsg(epoch)
    BY BoundAssumption DEF Msg, ToMsg
  <2>2. toWorklet' \in [Plays -> Seq(ToMsg(epoch))]
    BY <1>8, <2>1, SendShape DEF Toggle, Shapes
  <2> QED  BY <1>8, <2>2 DEF Toggle, Shapes, ui
<1>9. ASSUME NEW t \in Tracks, NEW o \in 0..LastOrder[t], Seek(o)
      PROVE  Shapes'
  <2>1. Msg("seek", 0, o) \in ToMsg(epoch)
    BY BoundAssumption, TrackAssumption DEF Msg, ToMsg
  <2>2. toWorklet' \in [Plays -> Seq(ToMsg(epoch))]
    BY <1>9, <2>1, SendShape DEF Seek, Shapes
  <2> QED  BY <1>9, <2>2 DEF Seek, Shapes, ui, main
<1> QED  BY <1>1, <1>2, <1>3, <1>4, <1>5, <1>6, <1>7, <1>8, <1>9 DEF User

LEMMA PlayModuleShape ==
  ASSUME Shapes, NEW e \in Plays,
         \/ Connected(e) \/ PlayRejects(e) \/ SkeletonEvent(e) \/ LoadStream(e)
         \/ Resumed(e) \/ HandlerFails(e) \/ StreamEnds(e)
         \/ \E s \in UNION {Slots[t] : t \in Tracks} : SampleGiven(e, s)
  PROVE  Shapes'
<1>0. /\ play[e] \in PlayType /\ MaxPlays \in Nat /\ epoch \in 0..MaxPlays
      /\ toWorklet \in [Plays -> Seq(ToMsg(epoch))]
  BY BoundAssumption DEF Shapes
<1>1. CASE Connected(e)
  <2>1. [play[e] EXCEPT !.at = "stream"] \in PlayType
    BY <1>0 DEF PlayType
  <2>2. PICK p \in PlayType : p.track = play[e].track /\ Moves(e, p)
    BY <1>0, <1>1, <2>1 DEF Connected, PlayType
  <2> QED  BY <1>1, <2>2, MovesShape, PlaysKept DEF Connected, NoAudio, ui, Shapes
<1>2. CASE PlayRejects(e)
  <2>1. /\ [play[e] EXCEPT !.at = "failed"] \in PlayType
        /\ [play[e] EXCEPT !.at = "over"] \in PlayType
    BY <1>0 DEF PlayType
  <2>2. PICK p \in PlayType : p.track = play[e].track /\ Moves(e, p)
    BY <1>0, <1>2, <2>1 DEF PlayRejects, PlayType
  <2> QED  BY <1>2, <2>2, MovesShape, PlaysKept DEF PlayRejects, NoAudio, ui, Shapes
<1>3. CASE SkeletonEvent(e)
  <2>1. [play[e] EXCEPT !.skel = "fetching"] \in PlayType
    BY <1>0 DEF PlayType
  <2>2. PICK p \in PlayType : p.track = play[e].track /\ Moves(e, p)
    BY <1>0, <1>3, <2>1 DEF SkeletonEvent, PlayType
  <2> QED  BY <1>3, <2>2, MovesShape, PlaysKept DEF SkeletonEvent, NoAudio, ui, Shapes
<1>4. CASE LoadStream(e)
  <2>1. [play[e] EXCEPT !.skel = "resuming"] \in PlayType
    BY <1>0 DEF PlayType
  <2>2. PICK p \in PlayType : p.track = play[e].track /\ Moves(e, p)
    BY <1>0, <1>4, <2>1 DEF LoadStream, PlayType
  <2>3. Msg("init", e, 0) \in ToMsg(epoch)
    BY <1>0, <1>4 DEF LoadStream, Msg, ToMsg, Plays
  <2>4. toWorklet' \in [Plays -> Seq(ToMsg(epoch))]
    BY <1>0, <1>4, <2>3, SendShape DEF LoadStream
  <2> QED  BY <1>4, <2>2, <2>4, MovesShape, PlaysKept DEF LoadStream, NoAudio, ui, Shapes
<1>5. CASE Resumed(e)
  <2>1. [play[e] EXCEPT !.skel = "inited"] \in PlayType
    BY <1>0 DEF PlayType
  <2>2. PICK p \in PlayType : p.track = play[e].track /\ Moves(e, p)
    BY <1>0, <1>5, <2>1 DEF Resumed, PlayType
  <2>3. Msg("play", 0, 0) \in ToMsg(epoch)
    BY <1>0 DEF Msg, ToMsg
  <2>4. toWorklet' \in [Plays -> Seq(ToMsg(epoch))]
    BY <1>0, <1>5, <2>3, SendShape DEF Resumed
  <2> QED  BY <1>5, <2>2, <2>4, MovesShape, PlaysKept DEF Resumed, NoAudio, ui, Shapes
<1>6. CASE HandlerFails(e)
  <2>1. e \in 1..epoch /\ play[e].track \in Tracks
    BY <1>0, <1>6 DEF HandlerFails, Shapes, Plays
  <2>2. [play[e] EXCEPT !.skel = "failed"] \in PlayType
    BY <1>0 DEF PlayType
  <2>3. \A s \in Slots[play[e].track] :
          [play[e] EXCEPT !.given = @ \cup {s}] \in PlayType
    BY <1>0, <2>1, TrackAssumption DEF PlayType
  <2>4. PICK p \in PlayType : p.track = play[e].track /\ Moves(e, p)
    BY <1>0, <1>6, <2>2, <2>3 DEF HandlerFails, PlayType
  <2> QED  BY <1>6, <2>4, MovesShape, PlaysKept DEF HandlerFails, NoAudio, ui, Shapes
<1>7. CASE StreamEnds(e)
  <2>1. /\ [play[e] EXCEPT !.at = "complete"] \in PlayType
        /\ [play[e] EXCEPT !.at = "over"] \in PlayType
    BY <1>0 DEF PlayType
  <2>2. PICK p \in PlayType : p.track = play[e].track /\ Moves(e, p)
    BY <1>0, <1>7, <2>1 DEF StreamEnds, PlayType
  <2>3. now' \in [track : Tracks \cup {NoTrack}, streaming : BOOLEAN,
                  buffering : BOOLEAN, error : BOOLEAN]
    BY <1>7 DEF StreamEnds, Shapes
  <2> QED  BY <1>7, <2>2, <2>3, MovesShape, PlaysKept DEF StreamEnds, NoAudio, ui, Shapes
<1>8. ASSUME NEW s \in UNION {Slots[t] : t \in Tracks}, SampleGiven(e, s)
      PROVE  Shapes'
  <2>1. s \in Nat
    BY TrackAssumption
  <2>2. [play[e] EXCEPT !.given = @ \cup {s}] \in PlayType
    BY <1>0, <2>1 DEF PlayType
  <2>3. PICK p \in PlayType : p.track = play[e].track /\ Moves(e, p)
    BY <1>0, <1>8, <2>2 DEF SampleGiven, PlayType
  <2>4. Msg("provide", e, s) \in ToMsg(epoch)
    BY <1>0, <2>1 DEF Msg, ToMsg, Plays
  <2>5. toWorklet' \in [Plays -> Seq(ToMsg(epoch))]
    BY <1>0, <1>8, <2>4, SendShape DEF SampleGiven
  <2> QED  BY <1>8, <2>3, <2>5, MovesShape, PlaysKept DEF SampleGiven, NoAudio, ui, Shapes
<1> QED  BY <1>1, <1>2, <1>3, <1>4, <1>5, <1>6, <1>7, <1>8

LEMMA PortsShape ==
  ASSUME Shapes, NEW g \in Plays,
         Hear(g) \/ LibLoaded(g) \/ WorkletHears(g) \/ Hold(g) \/ Render(g)
  PROVE  Shapes'
<1>0. /\ worklet[g] \in WorkletType(epoch) /\ epoch \in 0..MaxPlays /\ epoch \in Nat
      /\ toWorklet \in [Plays -> Seq(ToMsg(epoch))]
  BY BoundAssumption DEF Shapes
<1>1. CASE Hear(g)
  <2> DEFINE m == Head(fromWorklet[g])
             advance == m.t = "ended" /\ index # 0 /\ index < Len(queue)
  <2>1. CASE advance
    <3>1. index + 1 \in DOMAIN queue /\ queue \in Seq(Tracks)
      BY <2>1, LenProperties DEF Shapes
    <3> QED  BY <1>1, <2>1, <3>1, PlayListShape DEF Hear
  <2>2. CASE ~advance
    <3>1. now' \in [track : Tracks \cup {NoTrack}, streaming : BOOLEAN,
                    buffering : BOOLEAN, error : BOOLEAN]
      BY <1>1, <2>2 DEF Hear, Shapes
    <3> QED  BY <1>1, <2>2, <3>1 DEF Hear, Shapes
  <2> QED  BY <2>1, <2>2
<1>2. CASE LibLoaded(g)
  <2> DEFINE w == [worklet[g] EXCEPT !.lib = TRUE]
  <2>1. w \in WorkletType(epoch) /\ w.pendInit \in 0..epoch
    BY <1>0 DEF WorkletType
  <2> HIDE DEF w
  <2>2. w.pendInit # 0 => DoInit(w, w.pendInit) \in WorkletType(epoch)
    BY <1>0, <2>1, DoInitShape
  <2>3. PICK v \in WorkletType(epoch) : worklet' = [worklet EXCEPT ![g] = v]
    BY <1>2, <2>1, <2>2 DEF LibLoaded, w
  <2> QED  BY <1>0, <1>2, <2>3, WorkletShape DEF LibLoaded, NoMain
<1>3. CASE WorkletHears(g)
  <2>1. /\ Head(toWorklet[g]) \in ToMsg(epoch)
        /\ Tail(toWorklet[g]) \in Seq(ToMsg(epoch))
    BY <1>0, <1>3, HeadTailProperties DEF WorkletHears
  <2>2. Handled(worklet[g], Head(toWorklet[g])) \in WorkletType(epoch)
    BY <1>0, <2>1, HandledShape
  <2>3. toWorklet' \in [Plays -> Seq(ToMsg(epoch))]
    BY <1>0, <1>3, <2>1 DEF WorkletHears
  <2> QED  BY <1>3, <2>2, <2>3, WorkletShape DEF WorkletHears, NoMain
<1>4. CASE Hold(g)
  <2> DEFINE v == [worklet[g] EXCEPT !.stalled = TRUE, !.wasBuffering = TRUE,
                     !.reported = worklet[g].reported \/ ~worklet[g].wasBuffering]
  <2>1. v \in WorkletType(epoch)
    BY <1>0 DEF WorkletType
  <2>2. worklet' = [worklet EXCEPT ![g] = v]
    BY <1>4 DEF Hold
  <2> HIDE DEF v
  <2> QED  BY <1>0, <1>4, <2>1, <2>2, WorkletShape DEF Hold, NoMain
<1>5. CASE Render(g)
  <2> DEFINE w == worklet[g]
             past == [w EXCEPT !.wasBuffering = FALSE, !.reported = TRUE,
                        !.stalled = StalledAfter(PlanOf(w.inst), Resident(w),
                                                 w.stalled, w.order)]
  <2>1. StalledAfter(PlanOf(w.inst), Resident(w), w.stalled, w.order) \in BOOLEAN
    BY <1>0 DEF StalledAfter, Ready, WorkletType
  <2>2. past \in WorkletType(epoch) /\ w.order \in Nat
    BY <1>0, <2>1 DEF WorkletType
  <2> HIDE DEF past
  <2>3. \A o \in {w.order, w.order + 1} : [past EXCEPT !.order = o] \in WorkletType(epoch)
    BY <2>2 DEF WorkletType
  <2>4. [past EXCEPT !.playing = FALSE] \in WorkletType(epoch)
    BY <2>2 DEF WorkletType
  <2>5. PICK v \in WorkletType(epoch) : worklet' = [worklet EXCEPT ![g] = v]
    BY <1>5, <2>3, <2>4 DEF Render, past
  <2> QED  BY <1>0, <1>5, <2>5, WorkletShape DEF Render, NoMain
<1> QED  BY <1>1, <1>2, <1>3, <1>4, <1>5

LEMMA ShapesStep == Shapes /\ [Next]_vars => Shapes'
<1> SUFFICES ASSUME Shapes, [Next]_vars PROVE Shapes'
  OBVIOUS
<1>1. CASE UNCHANGED vars
  BY <1>1 DEF vars, ui, main, Shapes
<1> QED  BY <1>1, UserShape, PlayModuleShape, PortsShape DEF Next

\* The state always has its shape.
THEOREM AlwaysShaped == Spec => []Shapes
<1>1. Init => Shapes
  BY InitShapes
<1> QED  BY <1>1, ShapesStep, PTL DEF Spec

-----------------------------------------------------------------------------
(***************************************************************************)
(* Nothing sounds before it is resident                                    *)
(***************************************************************************)

LEMMA MissedStep ==
  ASSUME Shapes, NothingMissed, [Next]_vars
  PROVE  NothingMissed'
<1>1. CASE UNCHANGED vars
  BY <1>1 DEF vars, NothingMissed
<1>2. CASE User
  <2>1. missed' = missed
    BY <1>2 DEF User, PlayAt, RemoveFromQueue, MoveInQueue, PlayTrack, Enqueue,
                EnqueueFirst, ClearQueue, Toggle, Seek, Settled
  <2> QED  BY <2>1 DEF NothingMissed
<1>3. ASSUME NEW e \in Plays,
             \/ Connected(e) \/ PlayRejects(e) \/ SkeletonEvent(e) \/ LoadStream(e)
             \/ Resumed(e) \/ HandlerFails(e) \/ StreamEnds(e)
             \/ \E s \in UNION {Slots[t] : t \in Tracks} : SampleGiven(e, s)
      PROVE  NothingMissed'
  <2>1. missed' = missed
    BY <1>3 DEF Connected, PlayRejects, SkeletonEvent, LoadStream, Resumed,
                HandlerFails, StreamEnds, SampleGiven, NoAudio
  <2> QED  BY <2>1 DEF NothingMissed
<1>4. ASSUME NEW g \in Plays, Hear(g) \/ LibLoaded(g) \/ WorkletHears(g) \/ Hold(g)
      PROVE  NothingMissed'
  <2>1. missed' = missed
    BY <1>4 DEF Hear, LibLoaded, WorkletHears, Hold
  <2> QED  BY <2>1 DEF NothingMissed
<1>5. ASSUME NEW g \in Plays, Render(g)
      PROVE  NothingMissed'
  <2> DEFINE w == worklet[g]
             cps == PlanOf(w.inst)
  <2>1. w \in WorkletType(epoch) /\ w.inst \in 1..epoch /\ w.order \in Nat
    BY <1>5, BoundAssumption DEF Shapes, WorkletType, Render, Rendering
  <2>2. cps \in Seq(Checkpoint) /\ Ascending(cps)
    <3>1. play[w.inst].track \in Tracks
      BY <2>1 DEF Shapes
    <3> QED  BY <3>1, PlanAssumption DEF PlanOf, Checkpoint, Ascending
  <2>3. Ready(cps, Resident(w), w.stalled, w.order)
    BY <1>5 DEF Render
  <2> HIDE DEF cps
  <2>4. \A o \in {w.order, w.order + 1} :
          (Audible(cps, w.order) \cup Audible(cps, o)) \ Resident(w) = {}
    BY <2>1, <2>2, <2>3, ReadyCovers
  <2>5. \/ missed' = missed
        \/ \E o \in {w.order, w.order + 1} :
             missed' = missed \cup
               ((Audible(cps, w.order) \cup Audible(cps, o)) \ Resident(w))
    BY <1>5 DEF Render, cps
  <2> QED  BY <2>4, <2>5 DEF NothingMissed
<1> QED  BY <1>1, <1>2, <1>3, <1>4, <1>5 DEF Next

\* For any plans whose orders ascend, no sample sounds before it is resident
\* (Fence.ready, process).
THEOREM NothingIsMissed == Spec => []NothingMissed
<1>1. Init => NothingMissed
  BY DEF Init, NothingMissed
<1>2. Shapes /\ NothingMissed /\ [Next]_vars => NothingMissed'
  BY MissedStep
<1> QED  BY <1>1, <1>2, AlwaysShaped, PTL DEF Spec

-----------------------------------------------------------------------------
(***************************************************************************)
(* The index names what plays                                              *)
(***************************************************************************)

LEMMA IndexSame ==
  ASSUME IndexFollows, UNCHANGED <<queue, index, detached>>, now'.track = now.track
  PROVE  IndexFollows'
BY DEF IndexFollows

LEMMA IndexPlays ==
  ASSUME NEW items \in Seq(Tracks), NEW i \in DOMAIN items,
         PlayList(items, i), queue' = items
  PROVE  IndexFollows'
<1>1. i \in 1..Len(items) /\ Len(items) \in Nat
  BY LenProperties
<1> QED  BY <1>1 DEF PlayList, IndexFollows

LEMMA IndexStep ==
  ASSUME Shapes, IndexFollows, [Next]_vars
  PROVE  IndexFollows'
<1>0. /\ queue \in Seq(Tracks) /\ Len(queue) \in Nat /\ DOMAIN queue = 1..Len(queue)
      /\ index \in 0..Len(queue)
  BY LenProperties DEF Shapes
<1>1. CASE UNCHANGED vars
  BY <1>1, IndexSame DEF vars, ui, main
<1>2. ASSUME NEW i \in DOMAIN queue, PlayAt(i)
      PROVE  IndexFollows'
  BY <1>0, <1>2, IndexPlays DEF PlayAt
<1>3. ASSUME NEW i \in DOMAIN queue, RemoveFromQueue(i)
      PROVE  IndexFollows'
  <2>1. /\ Len(queue') = Len(queue) - 1
        /\ \A k \in 1..(Len(queue) - 1) :
             queue'[k] = IF k < i THEN queue[k] ELSE queue[k + 1]
    BY <1>0, <1>3, RemoveAtIsShorter DEF RemoveFromQueue
  <2>2. now' = now /\ detached' = (detached \/ i = index)
    BY <1>3 DEF RemoveFromQueue, main
  <2>3. CASE i = index
    BY <2>2, <2>3 DEF IndexFollows
  <2>4. CASE i < index
    <3>1. index' = index - 1
      BY <1>3, <2>4 DEF RemoveFromQueue
    <3>2. index - 1 \in 1..(Len(queue) - 1) /\ ~(index - 1 < i) /\ (index - 1) + 1 = index
      BY <1>0, <2>4
    <3>3. queue'[index - 1] = queue[index]
      BY <2>1, <3>2
    <3>4. index # 0 /\ index - 1 <= Len(queue) - 1
      BY <1>0, <2>4
    <3> QED  BY <2>1, <2>2, <3>1, <3>3, <3>4 DEF IndexFollows
  <2>5. CASE index < i
    <3>1. index' = index
      BY <1>0, <1>3, <2>5 DEF RemoveFromQueue
    <3>2. index # 0 => queue'[index] = queue[index] /\ index <= Len(queue) - 1
      BY <1>0, <2>1, <2>5
    <3> QED  BY <2>1, <2>2, <3>1, <3>2 DEF IndexFollows
  <2> QED  BY <1>0, <2>3, <2>4, <2>5
<1>4. ASSUME NEW i \in DOMAIN queue, MoveInQueue(i)
      PROVE  IndexFollows'
  <2>1. now' = now /\ detached' = detached
    BY <1>4 DEF MoveInQueue, main
  <2>2. Len(queue') = Len(queue)
    BY <1>0, <1>4 DEF MoveInQueue
  <2> QED  BY <1>0, <1>4, <2>1, <2>2 DEF MoveInQueue, IndexFollows
<1>5. ASSUME NEW t \in Tracks, PlayTrack(t)
      PROVE  IndexFollows'
  <2>1. <<t>> \in Seq(Tracks) /\ 1 \in DOMAIN <<t>>
    OBVIOUS
  <2> QED  BY <1>5, <2>1, IndexPlays DEF PlayTrack
<1>6. ASSUME NEW t \in Tracks, Enqueue(t)
      PROVE  IndexFollows'
  <2>1. index' = index /\ detached' = detached /\ now' = now /\ index \in 1..Len(queue)
    BY <1>0, <1>6 DEF Enqueue, main
  <2>2. CASE queue' = InsertAt(queue, index + 1, t)
    <3>1. index + 1 \in 1..(Len(queue) + 1)
      BY <1>0
    <3>2. Len(queue') = Len(queue) + 1 /\ \A k \in 1..index : queue'[k] = queue[k]
      <4>1. /\ Len(InsertAt(queue, index + 1, t)) = Len(queue) + 1
            /\ \A k \in 1..((index + 1) - 1) : InsertAt(queue, index + 1, t)[k] = queue[k]
        BY <1>0, <3>1, InsertAtIsLonger
      <4>2. (index + 1) - 1 = index
        BY <2>1
      <4> QED  BY <2>2, <4>1, <4>2
    <3> QED  BY <1>0, <2>1, <3>2 DEF IndexFollows
  <2>3. CASE queue' = Append(queue, t)
    <3>1. Len(queue') = Len(queue) + 1 /\ \A k \in 1..Len(queue) : queue'[k] = queue[k]
      BY <1>0, <2>3, AppendProperties
    <3> QED  BY <1>0, <2>1, <3>1 DEF IndexFollows
  <2> QED  BY <1>6, <2>2, <2>3 DEF Enqueue
<1>7. ASSUME NEW t \in Tracks, EnqueueFirst(t)
      PROVE  IndexFollows'
  <2>1. queue' \in Seq(Tracks) /\ Len(queue') = Len(queue) + 1
    BY <1>0, <1>7, AppendProperties DEF EnqueueFirst
  <2>2. 1 \in DOMAIN queue'
    BY <1>0, <2>1, LenProperties
  <2> QED  BY <1>7, <2>1, <2>2, IndexPlays DEF EnqueueFirst
<1>8. ASSUME ClearQueue
      PROVE  IndexFollows'
  BY <1>8 DEF ClearQueue, IndexFollows
<1>9. ASSUME Toggle \/ \E o \in Nat : Seek(o)
      PROVE  IndexFollows'
  BY <1>9, IndexSame DEF Toggle, Seek, ui, main
<1>10. ASSUME NEW e \in Plays,
              \/ Connected(e) \/ PlayRejects(e) \/ SkeletonEvent(e) \/ LoadStream(e)
              \/ Resumed(e) \/ HandlerFails(e) \/ StreamEnds(e)
              \/ \E s \in UNION {Slots[t] : t \in Tracks} : SampleGiven(e, s)
       PROVE  IndexFollows'
  <2>1. UNCHANGED ui
    BY <1>10 DEF Connected, PlayRejects, SkeletonEvent, LoadStream, Resumed,
                 HandlerFails, StreamEnds, SampleGiven, NoAudio
  <2>2. now'.track = now.track
    BY <1>10 DEF Connected, PlayRejects, SkeletonEvent, LoadStream, Resumed,
                 HandlerFails, StreamEnds, SampleGiven, Shapes
  <2> QED  BY <2>1, <2>2, IndexSame DEF ui
<1>11. ASSUME NEW g \in Plays, Hear(g)
       PROVE  IndexFollows'
  <2> DEFINE m == Head(fromWorklet[g])
             advance == m.t = "ended" /\ index # 0 /\ index < Len(queue)
  <2>1. CASE advance
    <3>1. index + 1 \in DOMAIN queue
      BY <1>0, <2>1
    <3> QED  BY <1>0, <1>11, <2>1, <3>1, IndexPlays DEF Hear
  <2>2. CASE ~advance
    <3>1. now'.track = now.track
      BY <1>11, <2>2 DEF Hear, Shapes
    <3> QED  BY <1>11, <2>2, <3>1, IndexSame DEF Hear
  <2> QED  BY <2>1, <2>2
<1>12. ASSUME NEW g \in Plays, LibLoaded(g) \/ WorkletHears(g) \/ Hold(g) \/ Render(g)
       PROVE  IndexFollows'
  BY <1>12, IndexSame DEF LibLoaded, WorkletHears, Hold, Render, NoMain, ui, main
<1>13. \A t \in Tracks : 0..LastOrder[t] \subseteq Nat
  BY TrackAssumption
<1> QED  BY <1>1, <1>2, <1>3, <1>4, <1>5, <1>6, <1>7, <1>8, <1>9, <1>10, <1>11,
            <1>12, <1>13 DEF Next, User

\* Through any edits and advances, the index names what plays unless the item
\* itself was removed (removeFromQueue, moveInQueue, enqueue, playNext).
THEOREM IndexAlwaysFollows == Spec => []IndexFollows
<1>1. Init => IndexFollows
  BY DEF Init, IndexFollows
<1>2. Shapes /\ IndexFollows /\ [Next]_vars => IndexFollows'
  BY IndexStep
<1> QED  BY <1>1, <1>2, AlwaysShaped, PTL DEF Spec

-----------------------------------------------------------------------------
(***************************************************************************)
(* A stream is shown as done only if it is                                 *)
(***************************************************************************)

\* A play keeps being complete, and now is not taken for done by accident.
LEMMA HonestSame ==
  ASSUME StreamingHonest, UNCHANGED epoch,
         epoch # 0 /\ play[epoch].at = "complete" => play'[epoch].at = "complete",
         now'.streaming = now.streaming, now.error => now'.error
  PROVE  StreamingHonest'
BY DEF StreamingHonest

LEMMA HonestPlays ==
  ASSUME NEW items, NEW i, PlayList(items, i)
  PROVE  StreamingHonest'
BY DEF PlayList, StreamingHonest

LEMMA HonestStep ==
  ASSUME Shapes, StreamingHonest, [Next]_vars
  PROVE  StreamingHonest'
<1>0. /\ play \in [Plays -> PlayType] /\ (epoch # 0 => epoch \in Plays)
      /\ now \in [track : Tracks \cup {NoTrack}, streaming : BOOLEAN,
                  buffering : BOOLEAN, error : BOOLEAN]
  BY BoundAssumption DEF Shapes, Plays
<1>1. CASE UNCHANGED vars
  BY <1>1, HonestSame DEF vars, main
<1>2. CASE User
  <2>1. ASSUME NEW i \in DOMAIN queue, PlayAt(i)
        PROVE  StreamingHonest'
    BY <2>1, HonestPlays DEF PlayAt
  <2>2. ASSUME NEW t \in Tracks, PlayTrack(t) \/ EnqueueFirst(t)
        PROVE  StreamingHonest'
    BY <2>2, HonestPlays DEF PlayTrack, EnqueueFirst
  <2>3. ASSUME \/ \E i \in DOMAIN queue : RemoveFromQueue(i) \/ MoveInQueue(i)
               \/ \E t \in Tracks : Enqueue(t)
               \/ ClearQueue \/ Toggle
               \/ \E t \in Tracks : \E o \in 0..LastOrder[t] : Seek(o)
        PROVE  StreamingHonest'
    <3>1. UNCHANGED <<epoch, play, now>>
      BY <2>3 DEF RemoveFromQueue, MoveInQueue, Enqueue, ClearQueue, Toggle, Seek, main
    <3> QED  BY <3>1, HonestSame
  <2> QED  BY <1>2, <2>1, <2>2, <2>3 DEF User
<1>3. ASSUME NEW e \in Plays, Connected(e)
      PROVE  StreamingHonest'
  BY <1>0, <1>3, HonestSame DEF Connected, Moves
<1>4. ASSUME NEW e \in Plays, PlayRejects(e)
      PROVE  StreamingHonest'
  BY <1>0, <1>4 DEF PlayRejects, StreamingHonest
<1>5. ASSUME NEW e \in Plays,
             \/ SkeletonEvent(e) \/ LoadStream(e) \/ Resumed(e)
             \/ \E s \in UNION {Slots[t] : t \in Tracks} : SampleGiven(e, s)
      PROVE  StreamingHonest'
  <2>1. UNCHANGED <<epoch, now>>
    BY <1>5 DEF SkeletonEvent, LoadStream, Resumed, SampleGiven
  <2>2. epoch # 0 => play'[epoch].at = play[epoch].at
    <3>1. play[e] \in PlayType
      BY <1>0
    <3>2. PICK p : p.at = play[e].at /\ play' = [play EXCEPT ![e] = p]
      <4>1. CASE SkeletonEvent(e)
        BY <3>1, <4>1 DEF SkeletonEvent, Moves, PlayType
      <4>2. CASE LoadStream(e)
        BY <3>1, <4>2 DEF LoadStream, Moves, PlayType
      <4>3. CASE Resumed(e)
        BY <3>1, <4>3 DEF Resumed, Moves, PlayType
      <4>4. CASE \E s \in UNION {Slots[t] : t \in Tracks} : SampleGiven(e, s)
        BY <3>1, <4>4 DEF SampleGiven, Moves, PlayType
      <4> QED  BY <1>5, <4>1, <4>2, <4>3, <4>4
    <3> QED  BY <1>0, <3>2
  <2> QED  BY <2>1, <2>2, HonestSame
<1>6. ASSUME NEW e \in Plays, HandlerFails(e)
      PROVE  StreamingHonest'
  BY <1>0, <1>6 DEF HandlerFails, StreamingHonest
<1>7. ASSUME NEW e \in Plays, StreamEnds(e)
      PROVE  StreamingHonest'
  <2>1. e = epoch /\ epoch' = epoch
    BY <1>7 DEF StreamEnds
  <2>2. CASE Moves(e, [play[e] EXCEPT !.at = "complete"])
    <3>1. play'[e].at = "complete"
      BY <1>0, <2>2 DEF Moves, PlayType
    <3> QED  BY <2>1, <3>1 DEF StreamingHonest
  <2>3. CASE now' = [now EXCEPT !.error = TRUE]
    BY <1>0, <2>3 DEF StreamingHonest
  <2> QED  BY <1>7, <2>2, <2>3 DEF StreamEnds
<1>8. ASSUME NEW g \in Plays, Hear(g)
      PROVE  StreamingHonest'
  <2> DEFINE m == Head(fromWorklet[g])
             advance == m.t = "ended" /\ index # 0 /\ index < Len(queue)
  <2>1. CASE advance
    BY <1>8, <2>1, HonestPlays DEF Hear
  <2>2. CASE ~advance
    <3>1. UNCHANGED <<epoch, play>> /\ now'.streaming = now.streaming
          /\ now'.error = now.error
      BY <1>0, <1>8, <2>2 DEF Hear
    <3> QED  BY <3>1, HonestSame
  <2> QED  BY <2>1, <2>2
<1>9. ASSUME NEW g \in Plays, LibLoaded(g) \/ WorkletHears(g) \/ Hold(g) \/ Render(g)
      PROVE  StreamingHonest'
  BY <1>9, HonestSame DEF LibLoaded, WorkletHears, Hold, Render, NoMain, main
<1> QED  BY <1>1, <1>2, <1>3, <1>4, <1>5, <1>6, <1>7, <1>8, <1>9 DEF Next

\* However many plays overlap, the current one is shown as done only when its
\* own stream completed or something failed (playModule's token).
THEOREM StreamingAlwaysHonest == Spec => []StreamingHonest
<1>1. Init => StreamingHonest
  BY DEF Init, StreamingHonest
<1>2. Shapes /\ StreamingHonest /\ [Next]_vars => StreamingHonest'
  BY HonestStep
<1> QED  BY <1>1, <1>2, AlwaysShaped, PTL DEF Spec

-----------------------------------------------------------------------------
(***************************************************************************)
(* The buffered bar                                                        *)
(***************************************************************************)

LEMMA BarOfShape == Shapes => BarIsFirstStall
<1> SUFFICES ASSUME Shapes, now.track # NoTrack
             PROVE  LET cps == Plan[now.track]
                        length == LastOrder[now.track] + 1
                        stalls == {o \in 0..LastOrder[now.track] :
                                     ~Ready(cps, mirror, FALSE, o)}
                        bar == Playable(cps, mirror, length)
                    IN IF stalls = {} THEN bar = length
                       ELSE bar \in stalls /\ \A o \in stalls : bar <= o
  BY DEF BarIsFirstStall
<1>1. now.track \in Tracks
  BY DEF Shapes
<1>2. /\ Plan[now.track] \in Seq(Checkpoint) /\ Ascending(Plan[now.track])
      /\ LastOrder[now.track] \in Nat
      /\ \A k \in DOMAIN Plan[now.track] :
           Plan[now.track][k].order <= LastOrder[now.track]
  BY <1>1, TrackAssumption, PlanAssumption DEF Checkpoint, Ascending
<1> QED  BY <1>2, PlayableIsFirstStall

\* For any plan of the song and any samples the main thread holds, the
\* buffered bar ends where the fence would first stall (playableSeconds).
THEOREM BarAlwaysFirstStall == Spec => []BarIsFirstStall
BY AlwaysShaped, BarOfShape, PTL

-----------------------------------------------------------------------------
(***************************************************************************)
(* What is under way in a port                                             *)
(***************************************************************************)

Has(q, kinds) == \E k \in DOMAIN q : q[k].t \in kinds

\* With messages q under way to a worklet whose instance is of play i, the
\* k-th will find the instance of play e; or at least some instance.
Finds(q, i, k, e) ==
  \/ i = e /\ \A j \in 1..(k - 1) : q[j].t # "init"
  \/ \E j \in 1..(k - 1) : /\ q[j].t = "init" /\ q[j].e = e
                           /\ \A l \in (j + 1)..(k - 1) : q[l].t # "init"
FindsOne(q, i, k) == i # 0 \/ \E j \in 1..(k - 1) : q[j].t = "init"

\* Playback is on, or will be once q is handled.
WillPlay(q, on) ==
  \/ on /\ ~Has(q, {"init", "pause"})
  \/ \E k \in DOMAIN q : /\ q[k].t = "play"
                         /\ \A j \in DOMAIN q : j > k => q[j].t \notin {"init", "pause"}

\* What the last report in q says of buffering, or without one what was
\* heard, is what the fence does.
Reporting(q, heard, does) ==
  /\ ~Has(q, {"buffering"}) => (heard <=> does)
  /\ \A k \in DOMAIN q :
       q[k].t = "buffering" /\ (\A j \in DOMAIN q : j > k => q[j].t # "buffering")
         => (q[k].x = 1 <=> does)

LEMMA AddOne ==
  ASSUME NEW S, NEW q \in Seq(S), NEW m \in S
  PROVE  /\ q \o <<m>> \in Seq(S)
         /\ Len(q) \in Nat /\ DOMAIN q = 1..Len(q)
         /\ Len(q \o <<m>>) = Len(q) + 1 /\ DOMAIN (q \o <<m>>) = 1..(Len(q) + 1)
         /\ \A k \in 1..Len(q) : (q \o <<m>>)[k] = q[k]
         /\ (q \o <<m>>)[Len(q) + 1] = m
<1>1. <<m>> \in Seq(S) /\ Len(<<m>>) = 1 /\ <<m>>[1] = m
  OBVIOUS
<1>2. Len(q) \in Nat /\ DOMAIN q = 1..Len(q)
  BY LenProperties
<1>3. /\ q \o <<m>> \in Seq(S) /\ Len(q \o <<m>>) = Len(q) + 1
      /\ \A k \in 1..(Len(q) + 1) : (q \o <<m>>)[k] =
           IF k <= Len(q) THEN q[k] ELSE <<m>>[k - Len(q)]
  BY <1>1, ConcatProperties
<1>4. DOMAIN (q \o <<m>>) = 1..(Len(q) + 1)
  BY <1>3, LenProperties
<1> QED  BY <1>1, <1>2, <1>3, <1>4

LEMMA TakeOne ==
  ASSUME NEW S, NEW q \in Seq(S), q # <<>>
  PROVE  /\ Tail(q) \in Seq(S) /\ Head(q) \in S /\ Head(q) = q[1]
         /\ Len(q) \in Nat /\ Len(q) > 0 /\ DOMAIN q = 1..Len(q)
         /\ DOMAIN Tail(q) = 1..(Len(q) - 1) /\ Len(Tail(q)) = Len(q) - 1
         /\ \A k \in 1..(Len(q) - 1) : Tail(q)[k] = q[k + 1]
<1>1. /\ Len(q) \in Nat /\ DOMAIN q = 1..Len(q) /\ Len(q) > 0
  BY LenProperties, EmptySeq
<1>2. /\ Tail(q) \in Seq(S) /\ Head(q) \in S /\ Len(Tail(q)) = Len(q) - 1
      /\ \A k \in 1..Len(Tail(q)) : Tail(q)[k] = q[k + 1]
  BY HeadTailProperties
<1>3. DOMAIN Tail(q) = 1..(Len(q) - 1)
  BY <1>2, LenProperties
<1> QED  BY <1>1, <1>2, <1>3

LEMMA FindsAdd ==
  ASSUME NEW S, NEW q \in Seq(S), NEW m \in S, NEW i, NEW e
  PROVE  /\ \A k \in 1..(Len(q) + 1) : Finds(q, i, k, e) => Finds(q \o <<m>>, i, k, e)
         /\ \A k \in 1..(Len(q) + 1) : FindsOne(q, i, k) => FindsOne(q \o <<m>>, i, k)
         /\ m.t # "init" /\ Finds(q, i, Len(q) + 1, e)
              => Finds(q \o <<m>>, i, Len(q) + 2, e)
         /\ m.t = "init" /\ m.e = e => Finds(q \o <<m>>, i, Len(q) + 2, e)
         /\ m.t = "init" \/ FindsOne(q, i, Len(q) + 1) => FindsOne(q \o <<m>>, i, Len(q) + 2)
<1> DEFINE r == q \o <<m>>
           n == Len(q)
<1>1. n \in Nat /\ (\A k \in 1..n : r[k] = q[k]) /\ r[n + 1] = m
  BY AddOne
<1> HIDE DEF r, n
<1>2. \A k \in 1..(n + 1) : Finds(q, i, k, e) => Finds(r, i, k, e)
  <2> SUFFICES ASSUME NEW k \in 1..(n + 1), Finds(q, i, k, e) PROVE Finds(r, i, k, e)
    OBVIOUS
  <2>1. \A j \in 1..(k - 1) : r[j] = q[j]
    BY <1>1
  <2> QED  BY <2>1 DEF Finds
<1>3. \A k \in 1..(n + 1) : FindsOne(q, i, k) => FindsOne(r, i, k)
  BY <1>1 DEF FindsOne
<1>4. m.t # "init" /\ Finds(q, i, n + 1, e) => Finds(r, i, n + 2, e)
  <2> SUFFICES ASSUME m.t # "init", Finds(q, i, n + 1, e) PROVE Finds(r, i, n + 2, e)
    OBVIOUS
  <2>1. /\ (n + 1) - 1 = n /\ (n + 2) - 1 = n + 1
        /\ \A j \in 1..(n + 1) : j \in 1..n \/ j = n + 1
    BY <1>1
  <2>2. CASE i = e /\ \A j \in 1..n : q[j].t # "init"
    BY <1>1, <2>1, <2>2 DEF Finds
  <2>3. CASE \E j \in 1..n : /\ q[j].t = "init" /\ q[j].e = e
                             /\ \A l \in (j + 1)..n : q[l].t # "init"
    <3>1. PICK j \in 1..n : /\ q[j].t = "init" /\ q[j].e = e
                            /\ \A l \in (j + 1)..n : q[l].t # "init"
      BY <2>3
    <3>2. \A l \in (j + 1)..(n + 1) : r[l].t # "init"
      BY <1>1, <3>1
    <3>3. j \in 1..(n + 1) /\ r[j].t = "init" /\ r[j].e = e
      BY <1>1, <3>1
    <3> QED  BY <2>1, <3>2, <3>3 DEF Finds
  <2> QED  BY <2>1, <2>2, <2>3 DEF Finds
<1>5. m.t = "init" /\ m.e = e => Finds(r, i, n + 2, e)
  <2> SUFFICES ASSUME m.t = "init", m.e = e PROVE Finds(r, i, n + 2, e)
    OBVIOUS
  <2>1. (n + 2) - 1 = n + 1 /\ n + 1 \in 1..(n + 1) /\ ((n + 1) + 1)..(n + 1) = {}
    BY <1>1
  <2> QED  BY <1>1, <2>1 DEF Finds
<1>6. m.t = "init" \/ FindsOne(q, i, n + 1) => FindsOne(r, i, n + 2)
  <2>1. /\ (n + 1) - 1 = n /\ (n + 2) - 1 = n + 1 /\ n + 1 \in 1..(n + 1)
        /\ \A j \in 1..n : j \in 1..(n + 1)
    BY <1>1
  <2> QED  BY <1>1, <2>1 DEF FindsOne
<1> QED  BY <1>2, <1>3, <1>4, <1>5, <1>6 DEF r, n

LEMMA FindsTake ==
  ASSUME NEW S, NEW q \in Seq(S), q # <<>>, NEW i, NEW j, NEW e,
         j = IF Head(q).t = "init" THEN Head(q).e ELSE i,
         Head(q).t = "init" => Head(q).e # 0,
         NEW k \in 1..Len(q)
  PROVE  /\ Finds(q, i, k + 1, e) => Finds(Tail(q), j, k, e)
         /\ FindsOne(q, i, k + 1) => FindsOne(Tail(q), j, k)
<1> DEFINE r == Tail(q)
           n == Len(q)
<1>1. /\ n \in Nat /\ n > 0 /\ Head(q) = q[1]
      /\ \A l \in 1..(n - 1) : r[l] = q[l + 1]
  BY TakeOne
<1> HIDE DEF r, n
<1>2. \A l \in 1..(k - 1) : l + 1 \in 1..k /\ r[l] = q[l + 1]
  BY <1>1 DEF n
<1>3. (k + 1) - 1 = k
  BY <1>1 DEF n
<1>4. ASSUME Finds(q, i, k + 1, e) PROVE Finds(r, j, k, e)
  <2>1. CASE i = e /\ \A l \in 1..k : q[l].t # "init"
    <3>1. j = e
      BY <1>1, <2>1 DEF n
    <3>2. \A l \in 1..(k - 1) : r[l].t # "init"
      BY <1>2, <2>1
    <3> QED  BY <3>1, <3>2 DEF Finds
  <2>2. ASSUME NEW l \in 1..k, q[l].t = "init", q[l].e = e,
               \A h \in (l + 1)..k : q[h].t # "init"
        PROVE  Finds(r, j, k, e)
    <3>1. \A h \in 1..(k - 1) : h + 1 > l => r[h].t # "init"
      BY <1>2, <2>2
    <3>2. CASE l = 1
      BY <1>1, <2>2, <3>1, <3>2 DEF Finds
    <3>3. CASE l # 1
      <4>1. l - 1 \in 1..(k - 1) /\ (l - 1) + 1 = l
        BY <3>3 DEF n
      <4>2. r[l - 1].t = "init" /\ r[l - 1].e = e
        BY <1>2, <2>2, <4>1
      <4>3. \A h \in ((l - 1) + 1)..(k - 1) : r[h].t # "init"
        BY <3>1, <4>1
      <4> QED  BY <4>1, <4>2, <4>3 DEF Finds
    <3> QED  BY <3>2, <3>3
  <2> QED  BY <1>3, <1>4, <2>1, <2>2 DEF Finds
<1>5. ASSUME FindsOne(q, i, k + 1) PROVE FindsOne(r, j, k)
  <2>1. CASE Head(q).t = "init"
    BY <2>1 DEF FindsOne
  <2>2. CASE i # 0 /\ Head(q).t # "init"
    BY <2>2 DEF FindsOne
  <2>3. ASSUME NEW l \in 1..k, q[l].t = "init", Head(q).t # "init"
        PROVE  FindsOne(r, j, k)
    <3>1. l # 1
      BY <1>1, <2>3
    <3>2. l - 1 \in 1..(k - 1) /\ (l - 1) + 1 = l
      BY <3>1 DEF n
    <3>3. r[l - 1].t = "init"
      BY <1>2, <2>3, <3>2
    <3> QED  BY <3>2, <3>3 DEF FindsOne
  <2> QED  BY <1>3, <1>5, <2>1, <2>2, <2>3 DEF FindsOne
<1> QED  BY <1>4, <1>5 DEF r

LEMMA HasAdd ==
  ASSUME NEW S, NEW q \in Seq(S), NEW m \in S, NEW kinds
  PROVE  Has(q \o <<m>>, kinds) <=> Has(q, kinds) \/ m.t \in kinds
<1> DEFINE r == q \o <<m>>
<1>1. /\ Len(q) \in Nat /\ DOMAIN q = 1..Len(q) /\ DOMAIN r = 1..(Len(q) + 1)
      /\ (\A k \in 1..Len(q) : r[k] = q[k]) /\ r[Len(q) + 1] = m
  BY AddOne
<1> HIDE DEF r
<1>2. Has(r, kinds) => Has(q, kinds) \/ m.t \in kinds
  BY <1>1 DEF Has
<1>3. Has(q, kinds) => Has(r, kinds)
  <2>1. DOMAIN q \subseteq DOMAIN r
    BY <1>1
  <2> QED  BY <1>1, <2>1 DEF Has
<1>4. m.t \in kinds => Has(r, kinds)
  <2>1. Len(q) + 1 \in DOMAIN r
    BY <1>1
  <2> QED  BY <1>1, <2>1 DEF Has
<1> QED  BY <1>2, <1>3, <1>4 DEF r

LEMMA HasTake ==
  ASSUME NEW S, NEW q \in Seq(S), q # <<>>, NEW kinds
  PROVE  Has(q, kinds) <=> Has(Tail(q), kinds) \/ Head(q).t \in kinds
<1> DEFINE r == Tail(q)
<1>1. /\ Len(q) \in Nat /\ DOMAIN q = 1..Len(q) /\ DOMAIN r = 1..(Len(q) - 1)
      /\ Head(q) = q[1] /\ Len(q) > 0
      /\ \A k \in 1..(Len(q) - 1) : r[k] = q[k + 1]
  BY TakeOne
<1> HIDE DEF r
<1>2. ASSUME NEW k \in DOMAIN q, q[k].t \in kinds
      PROVE  Has(r, kinds) \/ Head(q).t \in kinds
  <2>1. CASE k = 1
    BY <1>1, <1>2, <2>1
  <2>2. CASE k # 1
    <3>1. k - 1 \in 1..(Len(q) - 1) /\ (k - 1) + 1 = k
      BY <1>1, <2>2
    <3>2. r[k - 1] = q[k]
      BY <1>1, <3>1
    <3> QED  BY <1>1, <1>2, <3>1, <3>2 DEF Has
  <2> QED  BY <2>1, <2>2
<1>3. ASSUME NEW k \in DOMAIN r, r[k].t \in kinds
      PROVE  Has(q, kinds)
  <2>1. k + 1 \in DOMAIN q /\ r[k] = q[k + 1]
    BY <1>1
  <2> QED  BY <1>3, <2>1 DEF Has
<1>4. 1 \in DOMAIN q
  BY <1>1
<1>5. Head(q).t \in kinds => Has(q, kinds)
  BY <1>1, <1>4 DEF Has
<1>6. Has(q, kinds) => Has(r, kinds) \/ Head(q).t \in kinds
  BY <1>2 DEF Has
<1>7. Has(r, kinds) => Has(q, kinds)
  BY <1>3 DEF Has
<1> QED  BY <1>5, <1>6, <1>7 DEF r

LEMMA WillPlayAdd ==
  ASSUME NEW S, NEW q \in Seq(S), NEW m \in S, NEW on
  PROVE  /\ WillPlay(q, on) /\ m.t \notin {"init", "pause"} => WillPlay(q \o <<m>>, on)
         /\ m.t = "play" => WillPlay(q \o <<m>>, on)
<1> DEFINE r == q \o <<m>>
           Ends == {"init", "pause"}
<1>1. /\ Len(q) \in Nat /\ DOMAIN q = 1..Len(q) /\ DOMAIN r = 1..(Len(q) + 1)
      /\ (\A k \in 1..Len(q) : r[k] = q[k]) /\ r[Len(q) + 1] = m
  BY AddOne
<1>2. Has(r, Ends) <=> Has(q, Ends) \/ m.t \in Ends
  BY HasAdd
<1> HIDE DEF r
<1>3. ASSUME WillPlay(q, on), m.t \notin Ends PROVE WillPlay(r, on)
  <2>1. CASE on /\ ~Has(q, Ends)
    BY <1>2, <1>3, <2>1 DEF WillPlay
  <2>2. ASSUME NEW k \in DOMAIN q, q[k].t = "play",
               \A j \in DOMAIN q : j > k => q[j].t \notin Ends
        PROVE  WillPlay(r, on)
    <3>1. k \in DOMAIN r /\ r[k].t = "play"
      BY <1>1, <2>2
    <3>2. \A j \in DOMAIN r : j > k => r[j].t \notin Ends
      BY <1>1, <1>3, <2>2
    <3> QED  BY <3>1, <3>2 DEF WillPlay
  <2> QED  BY <1>3, <2>1, <2>2 DEF WillPlay
<1>4. ASSUME m.t = "play" PROVE WillPlay(r, on)
  <2>1. Len(q) + 1 \in DOMAIN r /\ r[Len(q) + 1].t = "play"
    BY <1>1, <1>4
  <2>2. \A j \in DOMAIN r : ~(j > Len(q) + 1)
    BY <1>1
  <2> QED  BY <2>1, <2>2 DEF WillPlay
<1> QED  BY <1>3, <1>4 DEF r

LEMMA WillPlayTake ==
  ASSUME NEW S, NEW q \in Seq(S), q # <<>>, NEW on, NEW turned,
         WillPlay(q, on),
         Head(q).t = "play" => turned,
         on /\ Head(q).t \notin {"init", "pause"} => turned
  PROVE  WillPlay(Tail(q), turned)
<1> DEFINE r == Tail(q)
           Ends == {"init", "pause"}
<1>1. /\ Len(q) \in Nat /\ DOMAIN q = 1..Len(q) /\ DOMAIN r = 1..(Len(q) - 1)
      /\ Head(q) = q[1] /\ Len(q) > 0
      /\ \A k \in 1..(Len(q) - 1) : r[k] = q[k + 1]
  BY TakeOne
<1>2. Has(q, Ends) <=> Has(r, Ends) \/ Head(q).t \in Ends
  BY HasTake
<1> HIDE DEF r
<1>3. CASE on /\ ~Has(q, Ends)
  <2>1. ~Has(r, Ends) /\ Head(q).t \notin Ends
    BY <1>2, <1>3
  <2>2. turned
    BY <1>3, <2>1
  <2> QED  BY <2>1, <2>2 DEF WillPlay, r
<1>4. ASSUME NEW k \in DOMAIN q, q[k].t = "play",
             \A j \in DOMAIN q : j > k => q[j].t \notin Ends
      PROVE  WillPlay(r, turned)
  <2>1. \A j \in DOMAIN r : j + 1 > k => r[j].t \notin Ends
    <3> TAKE j \in DOMAIN r
    <3>1. j + 1 \in DOMAIN q /\ r[j] = q[j + 1]
      BY <1>1
    <3> QED  BY <1>4, <3>1
  <2>2. CASE k = 1
    <3>1. turned
      BY <1>1, <1>4, <2>2
    <3>2. \A j \in DOMAIN r : j + 1 > 1
      BY <1>1
    <3>3. ~Has(r, Ends)
      BY <2>1, <2>2, <3>2 DEF Has
    <3> QED  BY <3>1, <3>3 DEF WillPlay
  <2>3. CASE k # 1
    <3>1. k - 1 \in DOMAIN r /\ (k - 1) + 1 = k
      BY <1>1, <2>3
    <3>2. r[k - 1].t = "play"
      BY <1>1, <1>4, <3>1
    <3>3. \A j \in DOMAIN r : j > k - 1 => r[j].t \notin Ends
      BY <1>1, <2>1
    <3> QED  BY <3>1, <3>2, <3>3 DEF WillPlay
  <2> QED  BY <2>2, <2>3
<1> QED  BY <1>3, <1>4 DEF WillPlay, r

LEMMA ReportingAdd ==
  ASSUME NEW S, NEW q \in Seq(S), NEW m \in S, NEW heard \in BOOLEAN,
         NEW does \in BOOLEAN
  PROVE  /\ m.t # "buffering" /\ Reporting(q, heard, does)
              => Reporting(q \o <<m>>, heard, does)
         /\ m.t = "buffering" /\ (m.x = 1 <=> does) => Reporting(q \o <<m>>, heard, does)
<1> DEFINE r == q \o <<m>>
           n == Len(q) + 1
<1>1. /\ Len(q) \in Nat /\ DOMAIN q = 1..Len(q) /\ DOMAIN r = 1..n
      /\ (\A k \in 1..Len(q) : r[k] = q[k]) /\ r[n] = m
  BY AddOne
<1>2. Has(r, {"buffering"}) <=> Has(q, {"buffering"}) \/ m.t \in {"buffering"}
  BY HasAdd
<1> HIDE DEF r
<1>3. ASSUME m.t # "buffering", Reporting(q, heard, does)
      PROVE  Reporting(r, heard, does)
  <2>1. ASSUME NEW k \in DOMAIN r, r[k].t = "buffering",
               \A j \in DOMAIN r : j > k => r[j].t # "buffering"
        PROVE  r[k].x = 1 <=> does
    <3>1. k \in DOMAIN q /\ r[k] = q[k]
      BY <1>1, <1>3, <2>1
    <3>2. \A j \in DOMAIN q : j \in DOMAIN r /\ r[j] = q[j]
      BY <1>1
    <3>3. \A j \in DOMAIN q : j > k => q[j].t # "buffering"
      BY <2>1, <3>2
    <3> QED  BY <1>3, <2>1, <3>1, <3>3 DEF Reporting
  <2>2. ~Has(r, {"buffering"}) => (heard <=> does)
    BY <1>2, <1>3 DEF Reporting
  <2> QED  BY <2>1, <2>2 DEF Reporting
<1>4. ASSUME m.t = "buffering", m.x = 1 <=> does
      PROVE  Reporting(r, heard, does)
  <2>1. ASSUME NEW k \in DOMAIN r, r[k].t = "buffering",
               \A j \in DOMAIN r : j > k => r[j].t # "buffering"
        PROVE  k = n
    <3>1. n \in DOMAIN r /\ r[n].t = "buffering"
      BY <1>1, <1>4
    <3>2. ~(n > k)
      BY <2>1, <3>1
    <3> QED  BY <1>1, <3>2
  <2>2. \A k \in DOMAIN r :
          r[k].t = "buffering" /\ (\A j \in DOMAIN r : j > k => r[j].t # "buffering")
            => (r[k].x = 1 <=> does)
    <3> TAKE k \in DOMAIN r
    <3>1. k = n => (r[k].x = 1 <=> does)
      BY <1>1, <1>4
    <3> QED  BY <2>1, <3>1
  <2>3. Has(r, {"buffering"})
    BY <1>2, <1>4
  <2> QED  BY <2>2, <2>3 DEF Reporting
<1> QED  BY <1>3, <1>4 DEF r

LEMMA ReportingTake ==
  ASSUME NEW S, NEW q \in Seq(S), q # <<>>, NEW heard \in BOOLEAN,
         NEW does \in BOOLEAN, Reporting(q, heard, does), NEW now1 \in BOOLEAN,
         Head(q).t = "buffering" => (now1 <=> Head(q).x = 1),
         Head(q).t # "buffering" => (now1 <=> heard)
  PROVE  Reporting(Tail(q), now1, does)
<1> DEFINE r == Tail(q)
<1>1. /\ Len(q) \in Nat /\ DOMAIN q = 1..Len(q) /\ DOMAIN r = 1..(Len(q) - 1)
      /\ Head(q) = q[1] /\ Len(q) > 0
      /\ \A k \in 1..(Len(q) - 1) : r[k] = q[k + 1]
  BY TakeOne
<1>2. Has(q, {"buffering"}) <=> Has(r, {"buffering"}) \/ Head(q).t \in {"buffering"}
  BY HasTake
<1> HIDE DEF r
<1>3. ASSUME NEW k \in DOMAIN r, r[k].t = "buffering",
             \A j \in DOMAIN r : j > k => r[j].t # "buffering"
      PROVE  r[k].x = 1 <=> does
  <2>1. k + 1 \in DOMAIN q /\ r[k] = q[k + 1]
    BY <1>1
  <2>2. \A j \in DOMAIN q : j > k + 1 => q[j].t # "buffering"
    <3> SUFFICES ASSUME NEW j \in DOMAIN q, j > k + 1 PROVE q[j].t # "buffering"
      OBVIOUS
    <3>1. j - 1 \in DOMAIN r /\ j - 1 > k /\ (j - 1) + 1 = j
      BY <1>1, <2>1
    <3> QED  BY <1>1, <1>3, <3>1
  <2> QED  BY <1>3, <2>1, <2>2 DEF Reporting
<1>4. ASSUME ~Has(r, {"buffering"}) PROVE now1 <=> does
  <2>1. CASE Head(q).t # "buffering"
    BY <1>2, <1>4, <2>1 DEF Reporting
  <2>2. CASE Head(q).t = "buffering"
    <3>1. 1 \in DOMAIN q
      BY <1>1
    <3>2. \A j \in DOMAIN q : j > 1 => q[j].t # "buffering"
      <4> SUFFICES ASSUME NEW j \in DOMAIN q, j > 1 PROVE q[j].t # "buffering"
        OBVIOUS
      <4>1. j - 1 \in DOMAIN r /\ (j - 1) + 1 = j
        BY <1>1
      <4>2. r[j - 1] = q[j]
        BY <1>1, <4>1
      <4> QED  BY <1>4, <4>1, <4>2 DEF Has
    <3>3. q[1].x = 1 <=> does
      BY <1>1, <2>2, <3>1, <3>2 DEF Reporting
    <3> QED  BY <1>1, <2>2, <3>3
  <2> QED  BY <2>1, <2>2
<1> QED  BY <1>3, <1>4 DEF Reporting, r

-----------------------------------------------------------------------------
(***************************************************************************)
(* The wiring: only a graph that was built has a libopenmpt, an instance   *)
(* or something to say, and nothing is posted before there is one          *)
(***************************************************************************)

FromMsg == [t : {"loaded", "buffering", "ended"}, e : Nat, x : {0, 1}]

Flags == playing \in BOOLEAN /\ info \in BOOLEAN /\ rough \in BOOLEAN

Wired ==
  /\ Flags
  /\ graph \in Plays \cup {0}
  /\ fromWorklet \in [Plays -> Seq(FromMsg)]
  /\ \A e \in Plays : e > epoch => play[e] = NoPlay
  /\ graph = 0 => \A e \in Plays : play[e].at # "stream" /\ play[e].skel = "none"
  /\ \A f \in Plays : worklet[f].lib \/ fromWorklet[f] # <<>> => f \in Built
  /\ \A f \in Plays : worklet[f].inst # 0 => worklet[f].lib

LEMMA WiredMoves ==
  ASSUME Shapes, Wired, NEW e \in Plays, NEW p \in PlayType, Moves(e, p),
         play[e] # NoPlay, p.builds = play[e].builds,
         p.at \in {"init", "failed"} => play[e].at \in {"init", "failed"},
         graph' \in Plays \cup {0}, graph # 0 => graph' # 0,
         p.at = "stream" \/ p.skel # "none" => graph' # 0,
         Flags', UNCHANGED <<epoch, fromWorklet, worklet>>
  PROVE  Wired'
<1>1. /\ play \in [Plays -> PlayType] /\ play' = [play EXCEPT ![e] = p]
      /\ epoch \in 0..MaxPlays /\ MaxPlays \in Nat
  BY BoundAssumption DEF Shapes, Moves
<1>2. play'[e] = p /\ \A f \in Plays : f # e => play'[f] = play[f]
  BY <1>1
<1>3. Built \subseteq Built'
  BY <1>2 DEF Built
<1>4. \A f \in Plays : f > epoch => play'[f] = NoPlay
  BY <1>2 DEF Wired
<1>5. graph' = 0 => \A f \in Plays : play'[f].at # "stream" /\ play'[f].skel = "none"
  BY <1>2 DEF Wired
<1>6. \A f \in Plays : worklet'[f].lib \/ fromWorklet'[f] # <<>> => f \in Built'
  BY <1>3 DEF Wired
<1> QED  BY <1>4, <1>5, <1>6 DEF Wired

LEMMA WiredPlayList ==
  ASSUME Shapes, Wired, NEW items, NEW i, PlayList(items, i),
         Flags', UNCHANGED <<graph, worklet>>,
         fromWorklet' \in [Plays -> Seq(FromMsg)],
         \A f \in Plays : fromWorklet'[f] # <<>> => fromWorklet[f] # <<>>
  PROVE  Wired'
<1> DEFINE p == [NoPlay EXCEPT !.track = items[i], !.at = "init", !.builds = graph = 0]
<1>1. /\ play \in [Plays -> PlayType] /\ play' = [play EXCEPT ![epoch + 1] = p]
      /\ epoch' = epoch + 1 /\ epoch \in Nat /\ epoch + 1 \in Plays
  BY BoundAssumption DEF Shapes, PlayList, Plays
<1>2. p.at = "init" /\ p.skel = "none"
  BY DEF NoPlay
<1> HIDE DEF p
<1>3. /\ play'[epoch + 1] = p
      /\ \A f \in Plays : f # epoch + 1 => play'[f] = play[f]
  BY <1>1
<1>4. epoch + 1 \notin Built
  <2>1. play[epoch + 1] = NoPlay
    BY <1>1 DEF Wired
  <2> QED  BY <2>1 DEF Built, NoPlay
<1>5. Built \subseteq Built'
  BY <1>3, <1>4 DEF Built
<1>6. \A f \in Plays : f > epoch' => play'[f] = NoPlay
  <2> SUFFICES ASSUME NEW f \in Plays, f > epoch + 1 PROVE play'[f] = NoPlay
    BY <1>1
  <2>1. f \in Nat /\ f # epoch + 1 /\ f > epoch
    BY <1>1 DEF Plays
  <2> QED  BY <1>3, <2>1 DEF Wired
<1>7. graph' = 0 => \A f \in Plays : play'[f].at # "stream" /\ play'[f].skel = "none"
  BY <1>2, <1>3 DEF Wired
<1>8. \A f \in Plays : worklet'[f].lib \/ fromWorklet'[f] # <<>> => f \in Built'
  BY <1>5 DEF Wired
<1> QED  BY <1>6, <1>7, <1>8 DEF Wired

LEMMA WiredWorklet ==
  ASSUME Shapes, Wired, NEW g \in Plays, NEW v, NEW q \in Seq(FromMsg),
         worklet' = [worklet EXCEPT ![g] = v],
         fromWorklet' = [fromWorklet EXCEPT ![g] = q],
         v.lib \/ q # <<>> => g \in Built,
         v.inst # 0 => v.lib,
         Flags', UNCHANGED main
  PROVE  Wired'
<1>1. /\ DOMAIN worklet = Plays
      /\ worklet'[g] = v /\ \A f \in Plays : f # g => worklet'[f] = worklet[f]
  BY DEF Shapes
<1>2. /\ fromWorklet' \in [Plays -> Seq(FromMsg)]
      /\ fromWorklet'[g] = q
      /\ \A f \in Plays : f # g => fromWorklet'[f] = fromWorklet[f]
  BY DEF Wired
<1>3. Built' = Built
  BY DEF Built, main
<1>4. \A f \in Plays : worklet'[f].lib \/ fromWorklet'[f] # <<>> => f \in Built'
  BY <1>1, <1>2, <1>3 DEF Wired
<1>5. \A f \in Plays : worklet'[f].inst # 0 => worklet'[f].lib
  BY <1>1 DEF Wired
<1> QED  BY <1>2, <1>4, <1>5 DEF Wired, main

LEMMA WiredSame ==
  ASSUME Wired, Flags', UNCHANGED <<graph, fromWorklet, epoch, play, worklet>>
  PROVE  Wired'
BY DEF Wired, Built

LEMMA WiredMain ==
  ASSUME Shapes, Wired,
         \/ User
         \/ \E e \in Plays :
              \/ Connected(e) \/ PlayRejects(e) \/ SkeletonEvent(e) \/ LoadStream(e)
              \/ Resumed(e) \/ HandlerFails(e) \/ StreamEnds(e)
              \/ \E s \in UNION {Slots[t] : t \in Tracks} : SampleGiven(e, s)
  PROVE  Wired'
<1>0. /\ Flags /\ graph \in Plays \cup {0}
      /\ fromWorklet \in [Plays -> Seq(FromMsg)] /\ play \in [Plays -> PlayType]
  BY DEF Wired, Shapes
<1>00. 0 \notin Plays
  BY DEF Plays
<1>1. ASSUME NEW i, PlayAt(i) PROVE Wired'
  BY <1>0, <1>1, WiredPlayList DEF PlayAt, Settled, Flags
<1>2. ASSUME NEW t, PlayTrack(t) PROVE Wired'
  BY <1>0, <1>2, WiredPlayList DEF PlayTrack, Settled, Flags
<1>3. ASSUME NEW t, EnqueueFirst(t) PROVE Wired'
  BY <1>0, <1>3, WiredPlayList DEF EnqueueFirst, Settled, Flags
<1>4. ASSUME NEW i, RemoveFromQueue(i) \/ MoveInQueue(i) \/ Enqueue(i) \/ ClearQueue
      PROVE  Wired'
  BY <1>0, <1>4, WiredSame DEF RemoveFromQueue, MoveInQueue, Enqueue, ClearQueue,
                             main, Flags
<1>5. CASE Toggle
  <2>1. Flags'
    BY <1>0, <1>5 DEF Toggle, Flags
  <2> QED  BY <1>5, <2>1, WiredSame DEF Toggle
<1>6. ASSUME NEW o, Seek(o) PROVE Wired'
  BY <1>0, <1>6, WiredSame DEF Seek, main, Flags
<1>7. CASE User
  BY <1>1, <1>2, <1>3, <1>4, <1>5, <1>6, <1>7 DEF User
<1>8. ASSUME NEW e \in Plays,
             \/ Connected(e) \/ PlayRejects(e) \/ SkeletonEvent(e) \/ LoadStream(e)
             \/ Resumed(e) \/ HandlerFails(e) \/ StreamEnds(e)
             \/ \E s \in UNION {Slots[t] : t \in Tracks} : SampleGiven(e, s)
      PROVE  Wired'
  <2>0. /\ play[e] \in PlayType /\ NoPlay.at = "none" /\ NoPlay.skel = "none"
        /\ play[e].at = "stream" \/ play[e].skel # "none" => graph # 0
    BY <1>0 DEF NoPlay, Wired
  <2>1. CASE Connected(e)
    <3>1. [play[e] EXCEPT !.at = "stream"] \in PlayType
      BY <2>0 DEF PlayType
    <3>2. PICK p \in PlayType : /\ Moves(e, p) /\ p.at = "stream"
                                /\ p.builds = play[e].builds
      BY <2>0, <2>1, <3>1 DEF Connected, PlayType
    <3>3. graph' \in Plays /\ Flags' /\ play[e] # NoPlay
      BY <1>0, <2>0, <2>1 DEF Connected, Flags
    <3> QED  BY <1>00, <2>1, <3>2, <3>3, WiredMoves DEF Connected, NoAudio
  <2>2. CASE PlayRejects(e)
    <3>1. /\ [play[e] EXCEPT !.at = "failed"] \in PlayType
          /\ [play[e] EXCEPT !.at = "over"] \in PlayType
      BY <2>0 DEF PlayType
    <3>2. PICK p \in PlayType :
            /\ Moves(e, p) /\ p.builds = play[e].builds /\ p.skel = play[e].skel
            /\ \/ p.at = "failed" /\ play[e].at = "init"
               \/ p.at = "over" /\ play[e].at = "stream"
      BY <2>0, <2>2, <3>1 DEF PlayRejects, PlayType
    <3>3. play[e] # NoPlay /\ Flags'
      BY <1>0, <2>0, <3>2, <2>2 DEF PlayRejects, Flags
    <3> QED  BY <1>0, <2>0, <2>2, <3>2, <3>3, WiredMoves DEF PlayRejects, NoAudio
  <2>3. CASE SkeletonEvent(e) \/ LoadStream(e) \/ Resumed(e) \/ HandlerFails(e)
               \/ (\E s \in UNION {Slots[t] : t \in Tracks} : SampleGiven(e, s))
    <3>1. graph # 0 /\ play[e] # NoPlay
      BY <2>0, <2>3 DEF SkeletonEvent, LoadStream, Resumed, HandlerFails, SampleGiven
    <3>2. PICK p \in PlayType : /\ Moves(e, p) /\ p.at = play[e].at
                                /\ p.builds = play[e].builds
      <4>1. e \in 1..epoch /\ epoch # 0 => play[e].track \in Tracks
        BY DEF Shapes
      <4>2. \A s \in {"fetching", "resuming", "inited", "failed"} :
              [play[e] EXCEPT !.skel = s] \in PlayType
        BY <2>0 DEF PlayType
      <4>3. \A s \in Nat : [play[e] EXCEPT !.given = @ \cup {s}] \in PlayType
        BY <2>0 DEF PlayType
      <4>4. HandlerFails(e) => Slots[play[e].track] \subseteq Nat
        BY <1>0, <4>1, TrackAssumption DEF HandlerFails, Plays, Shapes
      <4>5. UNION {Slots[t] : t \in Tracks} \subseteq Nat
        BY TrackAssumption
      <4>6. CASE SkeletonEvent(e)
        BY <2>0, <4>2, <4>6 DEF SkeletonEvent, PlayType
      <4>7. CASE LoadStream(e)
        BY <2>0, <4>2, <4>7 DEF LoadStream, PlayType
      <4>8. CASE Resumed(e)
        BY <2>0, <4>2, <4>8 DEF Resumed, PlayType
      <4>9. CASE HandlerFails(e)
        <5>1. CASE Moves(e, [play[e] EXCEPT !.skel = "failed"])
          BY <2>0, <4>2, <5>1 DEF PlayType
        <5>2. ASSUME NEW s \in Slots[play[e].track],
                     Moves(e, [play[e] EXCEPT !.given = @ \cup {s}])
              PROVE  \E p \in PlayType : /\ Moves(e, p) /\ p.at = play[e].at
                                         /\ p.builds = play[e].builds
          BY <2>0, <4>3, <4>4, <4>9, <5>2 DEF PlayType
        <5> QED  BY <4>9, <5>1, <5>2 DEF HandlerFails
      <4>10. ASSUME NEW s \in UNION {Slots[t] : t \in Tracks}, SampleGiven(e, s)
             PROVE  \E p \in PlayType : /\ Moves(e, p) /\ p.at = play[e].at
                                        /\ p.builds = play[e].builds
        BY <2>0, <4>3, <4>5, <4>10 DEF SampleGiven, PlayType
      <4> QED  BY <2>3, <4>6, <4>7, <4>8, <4>9, <4>10
    <3>3. Flags'
      BY <1>0, <2>3 DEF SkeletonEvent, LoadStream, Resumed, HandlerFails, SampleGiven,
                        Flags
    <3>4. UNCHANGED <<graph, epoch, fromWorklet, worklet>>
      BY <2>3 DEF SkeletonEvent, LoadStream, Resumed, HandlerFails, SampleGiven, NoAudio
    <3> QED  BY <1>0, <3>1, <3>2, <3>3, <3>4, WiredMoves
  <2>4. CASE StreamEnds(e)
    <3>1. /\ [play[e] EXCEPT !.at = "complete"] \in PlayType
          /\ [play[e] EXCEPT !.at = "over"] \in PlayType
      BY <2>0 DEF PlayType
    <3>2. PICK p \in PlayType : /\ Moves(e, p) /\ p.builds = play[e].builds
                                /\ p.skel = play[e].skel /\ p.at \in {"complete", "over"}
      BY <2>0, <2>4, <3>1 DEF StreamEnds, PlayType
    <3>3. play[e] # NoPlay /\ Flags'
      BY <1>0, <2>0, <2>4 DEF StreamEnds, Flags
    <3> QED  BY <1>0, <2>0, <2>4, <3>2, <3>3, WiredMoves DEF StreamEnds, NoAudio
  <2> QED  BY <1>8, <2>1, <2>2, <2>3, <2>4
<1> QED  BY <1>7, <1>8

\* What is said in a port is one message or nothing.
LEMMA TellShape ==
  ASSUME Wired, NEW g \in Plays, NEW m \in FromMsg,
         Tell(g, <<m>>) \/ UNCHANGED fromWorklet
  PROVE  \E q \in Seq(FromMsg) :
           /\ fromWorklet' = [fromWorklet EXCEPT ![g] = q]
           /\ q \in {fromWorklet[g], fromWorklet[g] \o <<m>>}
<1>1. fromWorklet \in [Plays -> Seq(FromMsg)] /\ fromWorklet[g] \in Seq(FromMsg)
  BY DEF Wired
<1>2. fromWorklet[g] \o <<m>> \in Seq(FromMsg)
  BY <1>1, AddOne
<1>3. CASE Tell(g, <<m>>)
  BY <1>1, <1>2, <1>3 DEF Tell
<1>4. CASE UNCHANGED fromWorklet
  BY <1>1, <1>4
<1> QED  BY <1>3, <1>4

\* What a worklet makes of a message it hears.
LEMMA HandledKeeps ==
  ASSUME NEW n \in 0..MaxPlays, NEW w \in WorkletType(n), NEW m \in ToMsg(n)
  PROVE  /\ Handled(w, m).lib = w.lib
         /\ ~w.lib => Handled(w, m).inst = w.inst
<1>1. CASE m.t = "init"
  BY <1>1 DEF Handled, DoInit, WorkletType
<1>2. CASE m.t = "provide"
  BY <1>2 DEF Handled, WorkletType
<1>3. CASE m.t \in {"play", "pause", "seek"}
  BY <1>3 DEF Handled, WorkletType
<1> QED  BY <1>1, <1>2, <1>3 DEF ToMsg

LEMMA WiredPorts ==
  ASSUME Shapes, Wired, NEW g \in Plays,
         Hear(g) \/ LibLoaded(g) \/ WorkletHears(g) \/ Hold(g) \/ Render(g)
  PROVE  Wired'
<1> DEFINE w == worklet[g]
<1>0. /\ w \in WorkletType(epoch) /\ epoch \in 0..MaxPlays /\ epoch \in Nat
      /\ worklet \in [Plays -> WorkletType(epoch)]
      /\ Flags /\ fromWorklet[g] \in Seq(FromMsg)
      /\ fromWorklet \in [Plays -> Seq(FromMsg)]
      /\ w.lib \/ fromWorklet[g] # <<>> => g \in Built
      /\ w.inst # 0 => w.lib
  BY BoundAssumption DEF Shapes, Wired
<1>1. CASE Hear(g)
  <2>1. Tail(fromWorklet[g]) \in Seq(FromMsg)
    BY <1>0, <1>1, TakeOne DEF Hear
  <2>2. /\ fromWorklet' \in [Plays -> Seq(FromMsg)]
        /\ \A f \in Plays : fromWorklet'[f] # <<>> => fromWorklet[f] # <<>>
    BY <1>0, <1>1, <2>1 DEF Hear
  <2>3. Flags'
    BY <1>0, <1>1 DEF Hear, Flags
  <2>4. CASE PlayList(queue, index + 1)
    BY <1>1, <2>2, <2>3, <2>4, WiredPlayList DEF Hear
  <2>5. CASE UNCHANGED <<epoch, play>>
    BY <1>1, <2>2, <2>3, <2>5 DEF Hear, Wired, Built
  <2> QED  BY <1>1, <2>4, <2>5 DEF Hear
<1>2. CASE LibLoaded(g)
  <2> DEFINE v == [w EXCEPT !.lib = TRUE]
  <2>1. v \in WorkletType(epoch) /\ v.lib /\ v.pendInit \in 0..epoch
    BY <1>0 DEF WorkletType
  <2>2. g \in Built /\ Flags' /\ UNCHANGED main
    BY <1>0, <1>2 DEF LibLoaded, Built, NoMain, Flags, main
  <2> HIDE DEF v
  <2>3. CASE v.pendInit = 0
    <3>1. worklet' = [worklet EXCEPT ![g] = v] /\ UNCHANGED fromWorklet
      BY <1>2, <2>3 DEF LibLoaded, v
    <3>2. fromWorklet' = [fromWorklet EXCEPT ![g] = fromWorklet[g]]
      BY <1>0, <3>1
    <3> QED  BY <1>0, <2>1, <2>2, <3>1, <3>2, WiredWorklet
  <2>4. CASE v.pendInit # 0
    <3> DEFINE u == DoInit(v, v.pendInit)
               m == Msg("loaded", v.pendInit, 0)
    <3>1. u.lib
      BY <2>1 DEF DoInit, WorkletType
    <3>2. worklet' = [worklet EXCEPT ![g] = u] /\ Tell(g, InitReport(v.pendInit))
      BY <1>2, <2>4 DEF LibLoaded, v
    <3>3. m \in FromMsg
      BY <1>0, <2>1 DEF Msg, FromMsg
    <3>4. Tell(g, <<m>>) \/ UNCHANGED fromWorklet
      <4>1. fromWorklet[g] \o <<>> = fromWorklet[g]
        BY <1>0, ConcatEmptySeq
      <4>2. Tell(g, <<>>) => UNCHANGED fromWorklet
        BY <1>0, <4>1 DEF Tell
      <4> QED  BY <3>2, <4>2 DEF InitReport
    <3> HIDE DEF u, m
    <3>5. PICK q \in Seq(FromMsg) : fromWorklet' = [fromWorklet EXCEPT ![g] = q]
      BY <3>3, <3>4, TellShape
    <3> QED  BY <2>2, <3>1, <3>2, <3>5, WiredWorklet
  <2> QED  BY <2>3, <2>4
<1>3. CASE WorkletHears(g)
  <2> DEFINE m == Head(toWorklet[g])
             v == Handled(w, m)
             r == Msg("loaded", m.e, 0)
  <2>1. m \in ToMsg(epoch) /\ toWorklet[g] \in Seq(ToMsg(epoch))
    BY <1>3, TakeOne DEF WorkletHears, Shapes
  <2>2. v.lib = w.lib /\ (~w.lib => v.inst = w.inst)
    BY <1>0, <2>1, HandledKeeps
  <2>3. r \in FromMsg
    BY <1>0, <2>1 DEF Msg, FromMsg, ToMsg
  <2>4. (w.lib /\ Tell(g, <<r>>)) \/ UNCHANGED fromWorklet
    <3>1. fromWorklet[g] \o <<>> = fromWorklet[g]
      BY <1>0, ConcatEmptySeq
    <3>2. Tell(g, <<>>) => UNCHANGED fromWorklet
      BY <1>0, <3>1 DEF Tell
    <3> QED  BY <1>3, <3>2 DEF WorkletHears, InitReport
  <2>5. worklet' = [worklet EXCEPT ![g] = v] /\ UNCHANGED main
    BY <1>3 DEF WorkletHears, NoMain
  <2>6. Flags'
    <3>1. Accident(w, m) \in BOOLEAN
      BY <1>0, <2>1 DEF Accident, WorkletType
    <3> QED  BY <1>0, <1>3, <2>5, <3>1 DEF WorkletHears, Flags, main
  <2> HIDE DEF v, r, m
  <2>7. CASE w.lib /\ Tell(g, <<r>>)
    <3>1. PICK q \in Seq(FromMsg) : fromWorklet' = [fromWorklet EXCEPT ![g] = q]
      BY <2>3, <2>7, TellShape
    <3>2. g \in Built /\ v.lib
      BY <1>0, <2>2, <2>7
    <3> QED  BY <2>5, <2>6, <3>1, <3>2, WiredWorklet
  <2>8. CASE UNCHANGED fromWorklet
    <3>1. fromWorklet' = [fromWorklet EXCEPT ![g] = fromWorklet[g]]
      BY <1>0, <2>8
    <3>2. /\ v.lib \/ fromWorklet[g] # <<>> => g \in Built
          /\ v.inst # 0 => v.lib
      BY <1>0, <2>2
    <3> QED  BY <1>0, <2>5, <2>6, <3>1, <3>2, WiredWorklet
  <2> QED  BY <2>4, <2>7, <2>8
<1>4. CASE Hold(g) \/ Render(g)
  <2>1. w.lib /\ g \in Built /\ Flags' /\ UNCHANGED main
    BY <1>0, <1>4 DEF Hold, Render, Rendering, NoMain, Flags, main
  <2>2. PICK v : worklet' = [worklet EXCEPT ![g] = v] /\ v.lib
    <3>1. CASE Hold(g)
      <4> DEFINE v == [w EXCEPT !.stalled = TRUE, !.wasBuffering = TRUE,
                                !.reported = w.reported \/ ~w.wasBuffering]
      <4>1. v.lib
        BY <1>0, <2>1 DEF WorkletType
      <4>2. worklet' = [worklet EXCEPT ![g] = v]
        BY <3>1 DEF Hold
      <4> HIDE DEF v
      <4> QED  BY <4>1, <4>2
    <3>2. CASE Render(g)
      <4> DEFINE past == [w EXCEPT !.wasBuffering = FALSE, !.reported = TRUE,
                            !.stalled = StalledAfter(PlanOf(w.inst), Resident(w),
                                                     w.stalled, w.order)]
      <4>1. /\ \A o : [past EXCEPT !.order = o].lib
            /\ [past EXCEPT !.playing = FALSE].lib
        BY <1>0, <2>1 DEF WorkletType
      <4> HIDE DEF past
      <4>2. \/ \E o : worklet' = [worklet EXCEPT ![g] = [past EXCEPT !.order = o]]
            \/ worklet' = [worklet EXCEPT ![g] = [past EXCEPT !.playing = FALSE]]
        BY <3>2 DEF Render, past
      <4> QED  BY <4>1, <4>2
    <3> QED  BY <1>4, <3>1, <3>2
  <2>3. PICK q \in Seq(FromMsg) : fromWorklet' = [fromWorklet EXCEPT ![g] = q]
    <3> DEFINE said == fromWorklet[g]
    <3>1. /\ \A x \in {0, 1} : Msg("buffering", w.inst, x) \in FromMsg
          /\ Msg("ended", w.inst, 0) \in FromMsg
      BY <1>0 DEF Msg, FromMsg, WorkletType
    <3>2. \A m \in FromMsg : <<m>> \in Seq(FromMsg)
      OBVIOUS
    <3>3. \A s, t \in Seq(FromMsg) : s \o t \in Seq(FromMsg)
      BY ConcatProperties
    <3>4. <<>> \in Seq(FromMsg)
      OBVIOUS
    <3>5. PICK msgs \in Seq(FromMsg) : Tell(g, msgs) \/ UNCHANGED fromWorklet
      <4>1. CASE Hold(g)
        BY <3>1, <3>2, <4>1 DEF Hold
      <4>2. CASE Render(g)
        <5> DEFINE clear == IF w.wasBuffering \/ ~w.reported
                            THEN <<Msg("buffering", w.inst, 0)>> ELSE <<>>
        <5>1. clear \in Seq(FromMsg)
          BY <3>1, <3>2, <3>4
        <5>2. clear \o <<Msg("ended", w.inst, 0)>> \in Seq(FromMsg)
          BY <3>1, <3>2, <3>3, <5>1
        <5> QED  BY <4>2, <5>1, <5>2 DEF Render
      <4> QED  BY <1>4, <4>1, <4>2
    <3>6. CASE Tell(g, msgs)
      BY <1>0, <3>3, <3>6 DEF Tell
    <3>7. CASE UNCHANGED fromWorklet
      BY <1>0, <3>7
    <3> QED  BY <3>5, <3>6, <3>7
  <2> QED  BY <2>1, <2>2, <2>3, WiredWorklet
<1> QED  BY <1>1, <1>2, <1>3, <1>4

LEMMA WiredStep == Shapes /\ Wired /\ [Next]_vars => Wired'
<1> SUFFICES ASSUME Shapes, Wired, [Next]_vars PROVE Wired'
  OBVIOUS
<1>1. CASE UNCHANGED vars
  BY <1>1, WiredSame DEF vars, main, Wired, Flags
<1>2. CASE User
  BY <1>2, WiredMain
<1>3. ASSUME NEW e \in Plays,
             \/ Connected(e) \/ PlayRejects(e) \/ SkeletonEvent(e) \/ LoadStream(e)
             \/ Resumed(e) \/ HandlerFails(e) \/ StreamEnds(e)
             \/ \E s \in UNION {Slots[t] : t \in Tracks} : SampleGiven(e, s)
      PROVE  Wired'
  BY <1>3, WiredMain
<1> QED  BY <1>1, <1>2, <1>3, WiredPorts DEF Next

LEMMA InitWired == Init => Wired
<1> SUFFICES ASSUME Init PROVE Wired
  OBVIOUS
<1>1. fromWorklet \in [Plays -> Seq(FromMsg)] /\ \A f \in Plays : fromWorklet[f] = <<>>
  BY DEF Init
<1>2. \A f \in Plays : ~worklet[f].lib /\ worklet[f].inst = 0
  BY DEF Init, NoWorklet
<1>3. Flags /\ graph = 0
  BY DEF Init, Flags
<1>4. \A e \in Plays : play[e] = NoPlay /\ NoPlay.at = "none" /\ NoPlay.skel = "none"
  BY DEF Init, NoPlay
<1> QED  BY <1>1, <1>2, <1>3, <1>4 DEF Wired

-----------------------------------------------------------------------------
(***************************************************************************)
(* The ports, as long as there was no accident                             *)
(***************************************************************************)

\* A skeleton handler in one of these states has posted its init.
Waiting == {"resuming", "inited"}

\* What is under way to a worklet with an instance of play i finds the
\* instance it is for.
WellSent(q, i) ==
  \A k \in DOMAIN q :
    /\ q[k].t = "provide" => Finds(q, i, k, q[k].e)
    /\ q[k].t \in {"play", "provide"} => FindsOne(q, i, k)

Clean(w) == w.pend = {} /\ w.pendInit = 0 /\ \A p \in w.pcm : p[2] = w.inst

Silent(f) == toWorklet[f] = <<>> /\ fromWorklet[f] = <<>> /\ worklet[f].inst = 0

PortSound(g) ==
  LET q == toWorklet[g]
      i == worklet[g].inst
  IN /\ WellSent(q, i)
     /\ epoch # 0 /\ play[epoch].skel \in Waiting => Finds(q, i, Len(q) + 1, epoch)
     /\ (\E e \in Plays : play[e].skel \in Waiting) => FindsOne(q, i, Len(q) + 1)
     /\ info \/ Has(fromWorklet[g], {"loaded"}) => i # 0
     /\ playing => \/ Has(fromWorklet[g], {"ended"})
                   \/ WillPlay(q, worklet[g].playing)

PortsSound ==
  ~rough =>
    /\ \A f \in Plays : Clean(worklet[f]) /\ (f # graph => Silent(f))
    /\ graph = 0 => ~info /\ ~playing
    /\ graph # 0 => PortSound(graph)

\* As long as there is one graph, what is shown of buffering is what its last
\* report says.
ReportsSound ==
  \A g \in Plays :
    (Built = {g} /\ worklet[g].inst = epoch /\ worklet[g].reported /\ epoch # 0
     /\ ~now.error)
    => Reporting(fromWorklet[g], now.buffering, worklet[g].wasBuffering)

LEMMA WellSentAdd ==
  ASSUME NEW S, NEW q \in Seq(S), NEW m \in S, NEW i, WellSent(q, i),
         m.t = "provide" => Finds(q, i, Len(q) + 1, m.e),
         m.t \in {"play", "provide"} => FindsOne(q, i, Len(q) + 1)
  PROVE  WellSent(q \o <<m>>, i)
<1> DEFINE r == q \o <<m>>
           n == Len(q) + 1
<1>1. /\ Len(q) \in Nat /\ DOMAIN q = 1..Len(q) /\ DOMAIN r = 1..n
      /\ (\A k \in 1..Len(q) : r[k] = q[k]) /\ r[n] = m
      /\ 1..Len(q) \subseteq 1..n /\ n \in 1..n
      /\ \A k \in 1..n : k \in 1..Len(q) \/ k = n
  BY AddOne
<1>2. /\ \A e : \A k \in 1..n : Finds(q, i, k, e) => Finds(r, i, k, e)
      /\ \A k \in 1..n : FindsOne(q, i, k) => FindsOne(r, i, k)
  BY FindsAdd
<1> HIDE DEF r, n
<1>3. ASSUME NEW k \in DOMAIN r
      PROVE  /\ r[k].t = "provide" => Finds(r, i, k, r[k].e)
             /\ r[k].t \in {"play", "provide"} => FindsOne(r, i, k)
  <2>1. CASE k \in DOMAIN q
    BY <1>1, <1>2, <2>1 DEF WellSent
  <2>2. CASE k = n
    BY <1>1, <1>2, <2>2 DEF n
  <2> QED  BY <1>1, <1>3, <2>1, <2>2
<1> QED  BY <1>3 DEF WellSent, r

LEMMA WellSentTake ==
  ASSUME NEW S, NEW q \in Seq(S), q # <<>>, NEW i, NEW j, WellSent(q, i),
         j = IF Head(q).t = "init" THEN Head(q).e ELSE i,
         Head(q).t = "init" => Head(q).e # 0
  PROVE  WellSent(Tail(q), j)
<1>1. /\ Len(q) \in Nat /\ DOMAIN q = 1..Len(q) /\ DOMAIN Tail(q) = 1..(Len(q) - 1)
      /\ \A k \in 1..(Len(q) - 1) : Tail(q)[k] = q[k + 1]
  BY TakeOne
<1>2. ASSUME NEW k \in DOMAIN Tail(q)
      PROVE  /\ Tail(q)[k].t = "provide" => Finds(Tail(q), j, k, Tail(q)[k].e)
             /\ Tail(q)[k].t \in {"play", "provide"} => FindsOne(Tail(q), j, k)
  <2>1. k \in 1..Len(q) /\ k + 1 \in DOMAIN q /\ Tail(q)[k] = q[k + 1]
    BY <1>1
  <2>2. /\ \A e : Finds(q, i, k + 1, e) => Finds(Tail(q), j, k, e)
        /\ FindsOne(q, i, k + 1) => FindsOne(Tail(q), j, k)
    BY <2>1, FindsTake
  <2> QED  BY <2>1, <2>2 DEF WellSent
<1> QED  BY <1>2 DEF WellSent

LEMMA InitSound == Init => PortsSound
<1> SUFFICES ASSUME Init PROVE PortsSound
  OBVIOUS
<1>1. \A f \in Plays : Clean(worklet[f]) /\ Silent(f)
  BY DEF Init, Clean, Silent, NoWorklet
<1> QED  BY <1>1 DEF Init, PortsSound

\* A step that posts nothing and lets no skeleton handler on.
LEMMA SoundQuiet ==
  ASSUME PortsSound, UNCHANGED <<graph, playing, info, toWorklet, fromWorklet, worklet, rough>>,
         \A e \in Plays : play'[e].skel \in Waiting => play[e].skel \in Waiting,
         epoch' # 0 /\ play'[epoch'].skel \in Waiting
           => epoch' = epoch /\ play[epoch].skel \in Waiting
  PROVE  PortsSound'
<1>1. \A f \in Plays : (Silent(f) => Silent(f)') /\ (Clean(worklet[f]) => Clean(worklet'[f]))
  BY DEF Silent
<1>2. ASSUME graph # 0, PortSound(graph) PROVE PortSound(graph)'
  BY <1>2 DEF PortSound
<1> QED  BY <1>1, <1>2 DEF PortsSound

\* A new play starts with a skeleton handler that waits for nothing.
LEMMA PlayListWaits ==
  ASSUME Shapes, NEW items, NEW i, PlayList(items, i)
  PROVE  /\ \A e \in Plays : play'[e].skel \in Waiting => play[e].skel \in Waiting
         /\ epoch' # 0 /\ play'[epoch'].skel \in Waiting
              => epoch' = epoch /\ play[epoch].skel \in Waiting
<1> DEFINE p == [NoPlay EXCEPT !.track = items[i], !.at = "init", !.builds = graph = 0]
<1>1. /\ play \in [Plays -> PlayType] /\ play' = [play EXCEPT ![epoch + 1] = p]
      /\ epoch' = epoch + 1 /\ epoch + 1 \in Plays
  BY BoundAssumption DEF Shapes, PlayList, Plays
<1>2. p.skel = "none"
  BY DEF NoPlay
<1> HIDE DEF p
<1> QED  BY <1>1, <1>2 DEF Waiting

\* A message is posted to a graph that is there.
LEMMA SoundSent ==
  ASSUME Shapes, Wired, PortsSound, NEW m \in ToMsg(epoch), Send(<<m>>),
         graph # 0, ~rough,
         UNCHANGED <<graph, fromWorklet, worklet, rough, epoch>>,
         LET q == toWorklet[graph]
             i == worklet[graph].inst
         IN /\ m.t = "provide" => Finds(q, i, Len(q) + 1, m.e)
            /\ m.t \in {"play", "provide"} => FindsOne(q, i, Len(q) + 1),
         \A e \in Plays : play'[e].skel \in Waiting => m.t = "init" \/ play[e].skel \in Waiting,
         m.t = "init" => m.e = epoch,
         info' => info,
         playing' => m.t = "play" \/ (playing /\ m.t \notin {"init", "pause"})
  PROVE  PortsSound'
<1> DEFINE q == toWorklet[graph]
           i == worklet[graph].inst
           r == q \o <<m>>
<1>1. /\ graph \in Plays /\ toWorklet \in [Plays -> Seq(ToMsg(epoch))]
      /\ q \in Seq(ToMsg(epoch)) /\ epoch \in 0..MaxPlays
  BY DEF Shapes, Wired
<1>2. toWorklet'[graph] = r /\ \A f \in Plays : f # graph => toWorklet'[f] = toWorklet[f]
  BY <1>1 DEF Send
<1>3. Len(r) = Len(q) + 1 /\ Len(q) \in Nat /\ Len(r) + 1 = Len(q) + 2
  BY <1>1, AddOne
<1>4. PortSound(graph)
  BY DEF PortsSound
<1>5. WellSent(r, i)
  BY <1>1, <1>4, WellSentAdd DEF PortSound
<1> HIDE DEF r
<1>6. epoch # 0 /\ play'[epoch].skel \in Waiting => Finds(r, i, Len(r) + 1, epoch)
  <2> SUFFICES ASSUME epoch # 0, play'[epoch].skel \in Waiting
               PROVE  Finds(r, i, Len(q) + 2, epoch)
    BY <1>3
  <2>1. epoch \in Plays
    BY <1>1, BoundAssumption DEF Plays
  <2>2. CASE m.t = "init"
    BY <1>1, <2>2, FindsAdd DEF r
  <2>3. CASE m.t # "init"
    <3>1. Finds(q, i, Len(q) + 1, epoch)
      BY <1>4, <2>1, <2>3 DEF PortSound
    <3> QED  BY <1>1, <2>3, <3>1, FindsAdd DEF r
  <2> QED  BY <2>2, <2>3
<1>7. (\E e \in Plays : play'[e].skel \in Waiting) => FindsOne(r, i, Len(r) + 1)
  <2> SUFFICES ASSUME \E e \in Plays : play'[e].skel \in Waiting
               PROVE  FindsOne(r, i, Len(q) + 2)
    BY <1>3
  <2>1. m.t = "init" \/ FindsOne(q, i, Len(q) + 1)
    BY <1>4 DEF PortSound
  <2> QED  BY <1>1, <2>1, FindsAdd DEF r
<1>8. info' \/ Has(fromWorklet[graph], {"loaded"}) => i # 0
  BY <1>4 DEF PortSound
<1>9. playing' => Has(fromWorklet[graph], {"ended"}) \/ WillPlay(r, worklet[graph].playing)
  <2>1. CASE m.t = "play"
    BY <1>1, <2>1, WillPlayAdd DEF r
  <2>2. CASE playing /\ m.t \notin {"init", "pause"}
    <3>1. Has(fromWorklet[graph], {"ended"}) \/ WillPlay(q, worklet[graph].playing)
      BY <1>4, <2>2 DEF PortSound
    <3> QED  BY <1>1, <2>2, <3>1, WillPlayAdd DEF r
  <2> QED  BY <2>1, <2>2
<1>10. PortSound(graph)'
  BY <1>2, <1>5, <1>6, <1>7, <1>8, <1>9 DEF PortSound
<1>11. \A f \in Plays : Clean(worklet'[f]) /\ (f # graph => Silent(f)')
  BY <1>2 DEF PortsSound, Silent
<1> QED  BY <1>10, <1>11 DEF PortsSound

\* What a worklet does on its own leaves its instance and what was patched in
\* alone; playback only stops with a report.
LEMMA SoundTold ==
  ASSUME Shapes, Wired, PortsSound, ~rough, NEW g \in Plays, NEW v, NEW q,
         worklet[g].inst # 0,
         worklet' = [worklet EXCEPT ![g] = v],
         fromWorklet' = [fromWorklet EXCEPT ![g] = q],
         v.inst = worklet[g].inst, v.pcm = worklet[g].pcm,
         v.pend = worklet[g].pend, v.pendInit = worklet[g].pendInit,
         Has(q, {"loaded"}) => Has(fromWorklet[g], {"loaded"}),
         Has(fromWorklet[g], {"ended"}) => Has(q, {"ended"}),
         v.playing = worklet[g].playing \/ Has(q, {"ended"}),
         UNCHANGED <<main, toWorklet, rough>>
  PROVE  PortsSound'
<1>1. /\ g = graph /\ graph # 0 /\ PortSound(g)
      /\ \A f \in Plays : Clean(worklet[f]) /\ (f # graph => Silent(f))
  BY DEF PortsSound, Silent, Plays
<1>2. /\ worklet'[g] = v /\ fromWorklet'[g] = q
      /\ \A f \in Plays : f # g => worklet'[f] = worklet[f] /\ fromWorklet'[f] = fromWorklet[f]
  BY DEF Shapes, Wired
<1>3. \A f \in Plays : Clean(worklet'[f]) /\ (f # graph => Silent(f)')
  BY <1>1, <1>2 DEF Clean, Silent
<1>4. playing => Has(q, {"ended"}) \/ WillPlay(toWorklet[g], v.playing)
  <2>1. CASE Has(q, {"ended"})
    BY <2>1
  <2>2. CASE v.playing = worklet[g].playing
    BY <1>1, <2>2 DEF PortSound
  <2> QED  BY <2>1, <2>2
<1>5. PortSound(g)'
  BY <1>1, <1>2, <1>4 DEF PortSound, main
<1> QED  BY <1>1, <1>3, <1>5 DEF PortsSound, main

LEMMA SoundUser ==
  ASSUME Shapes, Wired, PortsSound, User
  PROVE  PortsSound'
<1>1. ASSUME NEW i, PlayAt(i) PROVE PortsSound'
  BY <1>1, PlayListWaits, SoundQuiet DEF PlayAt, Settled
<1>2. ASSUME NEW t, PlayTrack(t) PROVE PortsSound'
  BY <1>2, PlayListWaits, SoundQuiet DEF PlayTrack, Settled
<1>3. ASSUME NEW t, EnqueueFirst(t) PROVE PortsSound'
  BY <1>3, PlayListWaits, SoundQuiet DEF EnqueueFirst, Settled
<1>4. ASSUME NEW i, RemoveFromQueue(i) \/ MoveInQueue(i) \/ Enqueue(i) \/ ClearQueue
      PROVE  PortsSound'
  BY <1>4, SoundQuiet DEF RemoveFromQueue, MoveInQueue, Enqueue, ClearQueue, main
\* What the bar posts needs an instance, and there is one once info is there.
<1>5. ASSUME ~rough, info
      PROVE  /\ graph # 0
             /\ FindsOne(toWorklet[graph], worklet[graph].inst, Len(toWorklet[graph]) + 1)
  BY <1>5 DEF PortsSound, PortSound, FindsOne
<1>6. CASE Toggle
  <2>1. CASE rough
    BY <1>6, <2>1 DEF Toggle, PortsSound
  <2>2. CASE ~rough
    <3> DEFINE m == Msg(IF playing THEN "pause" ELSE "play", 0, 0)
    <3>1. m \in ToMsg(epoch) /\ m.t \in {"pause", "play"} /\ (~playing => m.t = "play")
      BY BoundAssumption DEF Msg, ToMsg, Shapes
    <3>2. Send(<<m>>) /\ playing' = ~playing
      BY <1>6 DEF Toggle
    <3> HIDE DEF m
    <3>3. UNCHANGED <<graph, fromWorklet, worklet, rough, epoch, play, info>>
      BY <1>6 DEF Toggle
    <3> QED  BY <1>5, <1>6, <2>2, <3>1, <3>2, <3>3, SoundSent DEF Toggle
  <2> QED  BY <2>1, <2>2
<1>7. ASSUME NEW t \in Tracks, NEW o \in 0..LastOrder[t], Seek(o) PROVE PortsSound'
  <2>1. CASE rough
    BY <1>7, <2>1 DEF Seek, PortsSound
  <2>2. CASE ~rough
    <3> DEFINE m == Msg("seek", 0, o)
    <3>1. m \in ToMsg(epoch) /\ m.t = "seek"
      BY BoundAssumption, TrackAssumption DEF Msg, ToMsg, Shapes
    <3>2. Send(<<m>>)
      BY <1>7 DEF Seek
    <3> HIDE DEF m
    <3>3. UNCHANGED <<graph, fromWorklet, worklet, rough, epoch, play, info, playing>>
      BY <1>7 DEF Seek, main
    <3> QED  BY <1>5, <1>7, <2>2, <3>1, <3>2, <3>3, SoundSent DEF Seek
  <2> QED  BY <2>1, <2>2
<1> QED  BY <1>1, <1>2, <1>3, <1>4, <1>6, <1>7 DEF User

\* Only LoadStream makes a skeleton handler wait that did not.
LEMMA SoundPlay ==
  ASSUME Shapes, Wired, PortsSound, NEW e \in Plays,
         \/ Connected(e) \/ PlayRejects(e) \/ SkeletonEvent(e) \/ LoadStream(e)
         \/ Resumed(e) \/ HandlerFails(e) \/ StreamEnds(e)
         \/ \E s \in UNION {Slots[t] : t \in Tracks} : SampleGiven(e, s)
  PROVE  PortsSound'
<1>0. /\ play \in [Plays -> PlayType] /\ play[e] \in PlayType
      /\ epoch \in 0..MaxPlays /\ MaxPlays \in Nat /\ 0 \notin Plays /\ Flags
      /\ graph = 0 => \A f \in Plays : play[f].at # "stream" /\ play[f].skel = "none"
  <2>1. play \in [Plays -> PlayType] /\ epoch \in 0..MaxPlays
    BY DEF Shapes
  <2>2. MaxPlays \in Nat /\ 0 \notin Plays
    BY BoundAssumption DEF Plays
  <2>3. Flags /\ (graph = 0 => \A f \in Plays : play[f].at # "stream" /\ play[f].skel = "none")
    BY DEF Wired
  <2> QED  BY <2>1, <2>2, <2>3
<1>1. CASE PlayRejects(e) \/ SkeletonEvent(e) \/ HandlerFails(e) \/ StreamEnds(e)
  <2>1. PICK p : /\ Moves(e, p)
                 /\ p.skel = play[e].skel \/ p.skel \in {"fetching", "failed"}
    <3>1. /\ \A at : [play[e] EXCEPT !.at = at].skel = play[e].skel
          /\ \A s : [play[e] EXCEPT !.given = @ \cup {s}].skel = play[e].skel
          /\ \A k : [play[e] EXCEPT !.skel = k].skel = k
      BY <1>0 DEF PlayType
    <3>2. CASE PlayRejects(e) \/ StreamEnds(e)
      <4>1. PICK at : Moves(e, [play[e] EXCEPT !.at = at])
        BY <3>2 DEF PlayRejects, StreamEnds
      <4> QED  BY <3>1, <4>1
    <3>3. CASE SkeletonEvent(e) \/ HandlerFails(e)
      <4>1. \/ \E k \in {"fetching", "failed"} : Moves(e, [play[e] EXCEPT !.skel = k])
            \/ \E s : Moves(e, [play[e] EXCEPT !.given = @ \cup {s}])
        BY <3>3 DEF SkeletonEvent, HandlerFails
      <4> QED  BY <3>1, <4>1
    <3> QED  BY <1>1, <3>2, <3>3
  <2>2. \A f \in Plays : play'[f].skel \in Waiting => play[f].skel \in Waiting
    BY <1>0, <2>1 DEF Moves, Waiting
  <2>3. UNCHANGED <<graph, playing, info, toWorklet, fromWorklet, worklet, rough, epoch>>
    BY <1>1 DEF PlayRejects, SkeletonEvent, HandlerFails, StreamEnds, NoAudio
  <2>4. epoch' # 0 => epoch' \in Plays
    BY <1>0, <2>3 DEF Plays
  <2> QED  BY <2>2, <2>3, <2>4, SoundQuiet
<1>2. CASE Connected(e)
  <2>1. [play[e] EXCEPT !.at = "stream"].skel = play[e].skel
    BY <1>0 DEF PlayType
  <2>2. \A f \in Plays : play'[f].skel = play[f].skel
    BY <1>0, <1>2, <2>1 DEF Connected, Moves
  <2>3. UNCHANGED <<playing, info, toWorklet, fromWorklet, worklet, epoch>>
    BY <1>2 DEF Connected, NoAudio
  <2>4. epoch # 0 => epoch \in Plays
    BY <1>0 DEF Plays
  <2> SUFFICES ASSUME ~rough' PROVE PortsSound'
    BY DEF PortsSound
  <2>5. ~rough /\ (graph # 0 => ~play[e].builds)
    BY <1>0, <1>2 DEF Connected, Flags
  <2>6. CASE graph # 0
    <3>1. graph' = graph /\ rough' = rough
      BY <1>0, <1>2, <2>5, <2>6 DEF Connected, Flags
    <3> QED  BY <2>2, <2>3, <2>4, <3>1, SoundQuiet
  <2>7. CASE graph = 0
    <3>1. graph' = e /\ e # 0
      BY <1>0, <1>2, <2>7 DEF Connected
    <3>2. \A f \in Plays : Clean(worklet[f]) /\ Silent(f)
      BY <1>0, <2>5, <2>7 DEF PortsSound
    <3>3. \A f \in Plays : Clean(worklet[f])' /\ Silent(f)'
      BY <2>3, <3>2 DEF Clean, Silent
    <3>4. ~info /\ ~playing /\ \A f \in Plays : play[f].skel = "none"
      BY <1>0, <2>5, <2>7 DEF PortsSound
    <3>5. \A kinds : ~Has(<<>>, kinds)
      BY DEF Has
    <3>6. WellSent(<<>>, 0)
      BY DEF WellSent
    <3>7. PortSound(e)'
      BY <2>2, <2>3, <2>4, <3>2, <3>4, <3>5, <3>6 DEF PortSound, Silent, Waiting
    <3> QED  BY <3>1, <3>3, <3>7 DEF PortsSound
  <2> QED  BY <2>6, <2>7
<1>3. CASE rough /\ (LoadStream(e) \/ Resumed(e)
                    \/ (\E s \in UNION {Slots[t] : t \in Tracks} : SampleGiven(e, s)))
  <2>1. rough'
    BY <1>3 DEF LoadStream, Resumed, SampleGiven
  <2> QED  BY <2>1 DEF PortsSound
<1>4. ASSUME ~rough, play[e].skel # "none"
      PROVE  /\ graph # 0 /\ PortSound(graph)
             /\ play[e].skel \in Waiting
                  => FindsOne(toWorklet[graph], worklet[graph].inst, Len(toWorklet[graph]) + 1)
  BY <1>0, <1>4 DEF PortsSound, PortSound
<1>5. CASE ~rough /\ LoadStream(e)
  <2> DEFINE m == Msg("init", e, 0)
  <2>1. m \in ToMsg(epoch) /\ m.t = "init" /\ m.e = epoch
    BY <1>0, <1>5 DEF LoadStream, Msg, ToMsg, Plays
  <2>2. Send(<<m>>) /\ playing' = FALSE /\ info' = FALSE
    BY <1>5 DEF LoadStream
  <2>3. graph # 0
    BY <1>4, <1>5 DEF LoadStream
  <2>4. UNCHANGED <<graph, fromWorklet, worklet, rough, epoch>>
    BY <1>5 DEF LoadStream, NoAudio
  <2> HIDE DEF m
  <2> QED  BY <1>5, <2>1, <2>2, <2>3, <2>4, SoundSent
<1>6. CASE ~rough /\ Resumed(e)
  <2> DEFINE m == Msg("play", 0, 0)
  <2>1. m \in ToMsg(epoch) /\ m.t = "play"
    BY <1>0 DEF Msg, ToMsg
  <2>2. Send(<<m>>)
    BY <1>6 DEF Resumed
  <2>3. /\ graph # 0
        /\ FindsOne(toWorklet[graph], worklet[graph].inst, Len(toWorklet[graph]) + 1)
    BY <1>4, <1>6 DEF Resumed, Waiting
  <2>4. UNCHANGED <<graph, fromWorklet, worklet, rough, epoch, info>>
    BY <1>6 DEF Resumed, NoAudio
  <2>5. \A f \in Plays : play'[f].skel \in Waiting => play[f].skel \in Waiting
    BY <1>0, <1>6 DEF Resumed, Moves, Waiting
  <2> HIDE DEF m
  <2> QED  BY <1>6, <2>1, <2>2, <2>3, <2>4, <2>5, SoundSent
<1>7. ASSUME ~rough, NEW s \in UNION {Slots[t] : t \in Tracks}, SampleGiven(e, s)
      PROVE  PortsSound'
  <2> DEFINE m == Msg("provide", e, s)
  <2>1. m \in ToMsg(epoch) /\ m.t = "provide" /\ m.e = epoch /\ epoch # 0
    BY <1>0, <1>7, TrackAssumption DEF SampleGiven, Msg, ToMsg, Plays
  <2>2. Send(<<m>>)
    BY <1>7 DEF SampleGiven
  <2>3. /\ graph # 0
        /\ FindsOne(toWorklet[graph], worklet[graph].inst, Len(toWorklet[graph]) + 1)
        /\ Finds(toWorklet[graph], worklet[graph].inst, Len(toWorklet[graph]) + 1, epoch)
    BY <1>0, <1>4, <1>7 DEF SampleGiven, Waiting, PortSound
  <2>4. UNCHANGED <<graph, fromWorklet, worklet, rough, epoch, info, playing>>
    BY <1>7 DEF SampleGiven, NoAudio
  <2>5. [play[e] EXCEPT !.given = @ \cup {s}].skel = play[e].skel
    BY <1>0 DEF PlayType
  <2>6. \A f \in Plays : play'[f].skel \in Waiting => play[f].skel \in Waiting
    BY <1>0, <1>7, <2>5 DEF SampleGiven, Moves
  <2> HIDE DEF m
  <2> QED  BY <1>7, <2>1, <2>2, <2>3, <2>4, <2>6, SoundSent
<1> QED  BY <1>1, <1>2, <1>3, <1>5, <1>6, <1>7

LEMMA SoundHear ==
  ASSUME Shapes, Wired, PortsSound, NEW g \in Plays, Hear(g)
  PROVE  PortsSound'
<1> SUFFICES ASSUME ~rough PROVE PortsSound'
  BY DEF Hear, PortsSound
<1> DEFINE q == fromWorklet[g]
           m == Head(q)
<1>1. /\ q \in Seq(FromMsg) /\ q # <<>> /\ 0 \notin Plays
      /\ fromWorklet \in [Plays -> Seq(FromMsg)] /\ epoch \in 0..MaxPlays
  BY DEF Wired, Hear, Shapes, Plays
<1>2. /\ g = graph /\ graph # 0 /\ PortSound(g)
      /\ \A f \in Plays : Clean(worklet[f]) /\ (f # graph => Silent(f))
  BY <1>1 DEF PortsSound, Silent
<1>3. /\ fromWorklet'[g] = Tail(q)
      /\ \A f \in Plays : f # g => fromWorklet'[f] = fromWorklet[f]
      /\ UNCHANGED <<graph, toWorklet, worklet, rough>>
      /\ info' = (info \/ m.t = "loaded")
      /\ playing' = (playing /\ m.t # "ended")
  BY <1>1 DEF Hear
<1>4. \A kinds : Has(q, kinds) <=> Has(Tail(q), kinds) \/ m.t \in kinds
  BY <1>1, HasTake
<1>5. /\ \A e \in Plays : play'[e].skel \in Waiting => play[e].skel \in Waiting
      /\ epoch' # 0 /\ play'[epoch'].skel \in Waiting
           => epoch' = epoch /\ play[epoch].skel \in Waiting
  <2>1. CASE PlayList(queue, index + 1)
    BY <2>1, PlayListWaits
  <2>2. CASE UNCHANGED <<epoch, play>>
    BY <2>2
  <2> QED  BY <2>1, <2>2 DEF Hear
<1>6. info' \/ Has(Tail(q), {"loaded"}) => worklet[g].inst # 0
  BY <1>2, <1>3, <1>4 DEF PortSound
<1>7. playing' => Has(Tail(q), {"ended"}) \/ WillPlay(toWorklet[g], worklet[g].playing)
  BY <1>2, <1>3, <1>4 DEF PortSound
<1> HIDE DEF m, q
<1>8. PortSound(g)'
  BY <1>2, <1>3, <1>5, <1>6, <1>7 DEF PortSound
<1>9. \A f \in Plays : Clean(worklet[f])' /\ (f # graph => Silent(f)')
  BY <1>2, <1>3 DEF Clean, Silent
<1> QED  BY <1>2, <1>3, <1>8, <1>9 DEF PortsSound

LEMMA SoundLib ==
  ASSUME Shapes, Wired, PortsSound, NEW g \in Plays, LibLoaded(g)
  PROVE  PortsSound'
<1> SUFFICES ASSUME ~rough PROVE PortsSound'
  BY DEF LibLoaded, PortsSound
<1> DEFINE v == [worklet[g] EXCEPT !.lib = TRUE]
<1>1. /\ v.inst = worklet[g].inst /\ v.pcm = worklet[g].pcm /\ v.pend = worklet[g].pend
      /\ v.pendInit = worklet[g].pendInit /\ v.playing = worklet[g].playing
  BY DEF Shapes, WorkletType
<1>2. \A f \in Plays : Clean(worklet[f]) /\ (f # graph => Silent(f))
  BY DEF PortsSound
<1>3. worklet' = [worklet EXCEPT ![g] = v] /\ UNCHANGED <<fromWorklet, toWorklet, main, rough>>
  BY <1>1, <1>2 DEF LibLoaded, Clean, NoMain
<1> HIDE DEF v
<1>4. worklet'[g] = v /\ \A f \in Plays : f # g => worklet'[f] = worklet[f]
  BY <1>3 DEF Shapes
<1>5. \A f \in Plays : Clean(worklet'[f]) /\ (f # graph => Silent(f)')
  BY <1>1, <1>2, <1>3, <1>4 DEF Clean, Silent
<1>6. graph # 0 => PortSound(graph)'
  <2> SUFFICES ASSUME graph # 0 PROVE PortSound(graph)'
    OBVIOUS
  <2>1. PortSound(graph) /\ graph \in Plays
    BY DEF PortsSound, Wired
  <2>2. /\ worklet'[graph].inst = worklet[graph].inst
        /\ worklet'[graph].playing = worklet[graph].playing
    BY <1>1, <1>4, <2>1
  <2> QED  BY <1>3, <2>1, <2>2 DEF PortSound, main
<1> QED  BY <1>3, <1>5, <1>6 DEF PortsSound, main

\* An instance only starts for what was posted for it, and what is patched in
\* finds the instance it was streamed for.
LEMMA HandledSound ==
  ASSUME NEW n \in 0..MaxPlays, NEW w \in WorkletType(n), NEW q \in Seq(ToMsg(n)),
         q # <<>>, Clean(w), WellSent(q, w.inst), ~Accident(w, Head(q))
  PROVE  LET m == Head(q)
             v == Handled(w, m)
         IN /\ Clean(v)
            /\ v.inst = IF m.t = "init" THEN m.e ELSE w.inst
            /\ m.t = "play" => v.playing
            /\ w.playing /\ m.t \notin {"init", "pause"} => v.playing
<1> DEFINE m == Head(q)
           v == Handled(w, m)
<1>1. m \in ToMsg(n) /\ m = q[1] /\ 1 \in DOMAIN q
  BY TakeOne
<1>2. /\ m.t = "provide" => Finds(q, w.inst, 1, m.e)
      /\ m.t \in {"play", "provide"} => FindsOne(q, w.inst, 1)
  BY <1>1 DEF WellSent
<1>3. /\ m.t = "provide" => w.inst = m.e
      /\ m.t \in {"play", "provide"} => w.inst # 0
  BY <1>2 DEF Finds, FindsOne
<1>4. w.lib /\ (m.t = "init" => play[m.e].track \notin Unloadable)
  BY DEF Accident
<1>5. w.pend = {} /\ w.pendInit = 0 /\ \A p \in w.pcm : p[2] = w.inst
  BY DEF Clean
<1> HIDE DEF m
<1>6. CASE m.t = "init"
  <2> DEFINE u == DoInit(w, m.e)
  <2>1. /\ u.inst = m.e /\ u.pend = {} /\ u.pendInit = 0 /\ u.pcm = {}
    BY <1>4, <1>5, <1>6 DEF DoInit, WorkletType
  <2>2. v = u
    BY <1>4, <1>6 DEF Handled
  <2> HIDE DEF u, v
  <2> QED  BY <1>6, <2>1, <2>2 DEF Clean, m, v
<1>7. CASE m.t = "provide"
  <2> DEFINE pcm == Applied(w, w.inst, {<<m.x, m.e>>})
  <2>1. v = [w EXCEPT !.pcm = pcm]
    BY <1>3, <1>7 DEF Handled
  <2>2. \A p \in pcm : p[2] = w.inst
    BY <1>3, <1>5, <1>7 DEF Applied
  <2> HIDE DEF pcm, v
  <2>3. /\ v.inst = w.inst /\ v.pend = w.pend /\ v.pendInit = w.pendInit /\ v.pcm = pcm
        /\ v.playing = w.playing
    BY <2>1 DEF WorkletType
  <2> QED  BY <1>5, <1>7, <2>2, <2>3 DEF Clean, m, v
<1>8. CASE m.t \in {"play", "pause", "seek"}
  <2>1. /\ v.inst = w.inst /\ v.pend = w.pend /\ v.pendInit = w.pendInit /\ v.pcm = w.pcm
    BY <1>8 DEF Handled, WorkletType
  <2>2. m.t = "play" => v.playing
    BY <1>3 DEF Handled, WorkletType
  <2>3. m.t = "seek" => v.playing = w.playing
    BY DEF Handled, WorkletType
  <2> HIDE DEF v
  <2> QED  BY <1>5, <1>8, <2>1, <2>2, <2>3 DEF Clean, m, v
<1> QED  BY <1>1, <1>6, <1>7, <1>8 DEF ToMsg, m

LEMMA SoundHears ==
  ASSUME Shapes, Wired, PortsSound, NEW g \in Plays, WorkletHears(g)
  PROVE  PortsSound'
<1> SUFFICES ASSUME ~rough' PROVE PortsSound'
  BY DEF PortsSound
<1> DEFINE q == toWorklet[g]
           m == Head(q)
           w == worklet[g]
           v == Handled(w, m)
           fr == fromWorklet[g]
<1>1. /\ q \in Seq(ToMsg(epoch)) /\ q # <<>> /\ w \in WorkletType(epoch)
      /\ epoch \in 0..MaxPlays /\ epoch \in Nat /\ 0 \notin Plays
      /\ toWorklet \in [Plays -> Seq(ToMsg(epoch))]
      /\ worklet \in [Plays -> WorkletType(epoch)]
      /\ fr \in Seq(FromMsg) /\ fromWorklet \in [Plays -> Seq(FromMsg)]
  <2>1. fr \in Seq(FromMsg) /\ fromWorklet \in [Plays -> Seq(FromMsg)]
    BY DEF Wired
  <2>2. /\ toWorklet \in [Plays -> Seq(ToMsg(epoch))]
        /\ worklet \in [Plays -> WorkletType(epoch)] /\ epoch \in 0..MaxPlays
    BY DEF Shapes
  <2>3. q # <<>> /\ 0 \notin Plays /\ epoch \in Nat
    BY <2>2, BoundAssumption DEF WorkletHears, Plays
  <2> QED  BY <2>1, <2>2, <2>3
<1>2. ~rough /\ ~Accident(w, m) /\ rough' = rough
  <2>1. rough' = (rough \/ Accident(w, m)) /\ rough \in BOOLEAN
    BY DEF WorkletHears, Wired, Flags
  <2> QED  BY <2>1
<1>3. /\ g = graph /\ graph # 0 /\ PortSound(g)
      /\ \A f \in Plays : Clean(worklet[f]) /\ (f # graph => Silent(f))
  BY <1>1, <1>2 DEF PortsSound, Silent
<1>4. /\ toWorklet'[g] = Tail(q) /\ worklet'[g] = v
      /\ \A f \in Plays : f # g => worklet'[f] = worklet[f] /\ toWorklet'[f] = toWorklet[f]
      /\ UNCHANGED main
  BY <1>1 DEF WorkletHears, NoMain
<1>5. /\ Clean(v) /\ v.inst = IF m.t = "init" THEN m.e ELSE w.inst
      /\ m.t = "play" => v.playing
      /\ w.playing /\ m.t \notin {"init", "pause"} => v.playing
  BY <1>1, <1>2, <1>3, HandledSound DEF PortSound
<1>6. m \in ToMsg(epoch) /\ (m.t = "init" => m.e # 0)
  BY <1>1, TakeOne DEF ToMsg
<1>7. /\ Len(q) \in 1..Len(q) /\ Len(Tail(q)) + 1 = Len(q)
  BY <1>1, TakeOne
<1> HIDE DEF v
<1>8. WellSent(Tail(q), v.inst)
  BY <1>1, <1>3, <1>5, <1>6, WellSentTake DEF PortSound
<1>9. /\ \A e : Finds(q, w.inst, Len(q) + 1, e) => Finds(Tail(q), v.inst, Len(q), e)
      /\ FindsOne(q, w.inst, Len(q) + 1) => FindsOne(Tail(q), v.inst, Len(q))
  BY <1>1, <1>5, <1>6, <1>7, FindsTake
<1>10. /\ \A f \in Plays : f # g => fromWorklet'[f] = fromWorklet[f]
       /\ Has(fromWorklet'[g], {"ended"}) <=> Has(fr, {"ended"})
       /\ Has(fromWorklet'[g], {"loaded"}) => Has(fr, {"loaded"}) \/ m.t = "init"
  <2> DEFINE r == Msg("loaded", m.e, 0)
  <2>1. r \in FromMsg /\ r.t = "loaded"
    BY <1>1, <1>6 DEF Msg, FromMsg, ToMsg
  <2>2. (m.t = "init" /\ Tell(g, <<r>>)) \/ UNCHANGED fromWorklet
    BY <1>2 DEF WorkletHears, InitReport, Accident
  <2> HIDE DEF r
  <2>3. CASE m.t = "init" /\ Tell(g, <<r>>)
    <3>1. fromWorklet'[g] = fr \o <<r>>
      BY <1>1, <2>3 DEF Tell
    <3>2. \A f \in Plays : f # g => fromWorklet'[f] = fromWorklet[f]
      BY <1>1, <2>3 DEF Tell
    <3>3. Has(fr \o <<r>>, {"ended"}) <=> Has(fr, {"ended"})
      BY <1>1, <2>1, HasAdd
    <3> QED  BY <2>3, <3>1, <3>2, <3>3
  <2>4. CASE UNCHANGED fromWorklet
    BY <2>4
  <2> QED  BY <2>2, <2>3, <2>4
<1>11. info' \/ Has(fromWorklet'[g], {"loaded"}) => v.inst # 0
  BY <1>3, <1>4, <1>5, <1>6, <1>10 DEF PortSound, main
<1>12. playing' => Has(fromWorklet'[g], {"ended"}) \/ WillPlay(Tail(q), v.playing)
  <2>1. WillPlay(q, w.playing) => WillPlay(Tail(q), v.playing)
    BY <1>1, <1>5, WillPlayTake
  <2> QED  BY <1>3, <1>4, <1>10, <2>1 DEF PortSound, main
<1> HIDE DEF m, q, w, fr
<1>13. PortSound(g)'
  <2>1. UNCHANGED <<epoch, play, graph>>
    BY <1>4 DEF main
  <2>2. /\ epoch # 0 /\ play[epoch].skel \in Waiting => Finds(q, w.inst, Len(q) + 1, epoch)
        /\ (\E e \in Plays : play[e].skel \in Waiting) => FindsOne(q, w.inst, Len(q) + 1)
    BY <1>3 DEF PortSound, q, w
  <2>3. /\ epoch # 0 /\ play[epoch].skel \in Waiting
             => Finds(Tail(q), v.inst, Len(Tail(q)) + 1, epoch)
        /\ (\E e \in Plays : play[e].skel \in Waiting)
             => FindsOne(Tail(q), v.inst, Len(Tail(q)) + 1)
    BY <1>7, <1>9, <2>2
  <2> QED  BY <1>4, <1>8, <1>11, <1>12, <2>1, <2>3 DEF PortSound
<1>14. \A f \in Plays : Clean(worklet'[f]) /\ (f # graph => Silent(f)')
  BY <1>3, <1>4, <1>5, <1>10 DEF Silent
<1>15. UNCHANGED graph
  BY <1>4 DEF main
<1> QED  BY <1>3, <1>13, <1>14, <1>15 DEF PortsSound

LEMMA SoundHold ==
  ASSUME Shapes, Wired, PortsSound, NEW g \in Plays, Hold(g)
  PROVE  PortsSound'
<1> SUFFICES ASSUME ~rough PROVE PortsSound'
  BY DEF Hold, PortsSound
<1> DEFINE w == worklet[g]
           fr == fromWorklet[g]
           m == Msg("buffering", w.inst, 1)
           v == [w EXCEPT !.stalled = TRUE, !.wasBuffering = TRUE,
                          !.reported = w.reported \/ ~w.wasBuffering]
<1>1. /\ w \in WorkletType(epoch) /\ w.inst # 0 /\ epoch \in Nat
      /\ fr \in Seq(FromMsg)
  BY BoundAssumption DEF Shapes, Wired, Hold, Rendering
<1>2. v.inst = w.inst /\ v.pcm = w.pcm /\ v.pend = w.pend /\ v.pendInit = w.pendInit
      /\ v.playing = w.playing
  BY <1>1 DEF WorkletType
<1>3. m \in FromMsg /\ m.t = "buffering"
  BY <1>1 DEF Msg, FromMsg, WorkletType
<1>4. worklet' = [worklet EXCEPT ![g] = v] /\ UNCHANGED <<main, toWorklet, rough>>
  BY DEF Hold, NoMain
<1>5. Tell(g, <<m>>) \/ UNCHANGED fromWorklet
  BY DEF Hold
<1> HIDE DEF m, v
<1>6. PICK q \in Seq(FromMsg) : /\ fromWorklet' = [fromWorklet EXCEPT ![g] = q]
                                /\ q \in {fr, fr \o <<m>>}
  BY <1>3, <1>5, TellShape
<1>7. /\ Has(q, {"loaded"}) <=> Has(fr, {"loaded"})
      /\ Has(q, {"ended"}) <=> Has(fr, {"ended"})
  <2>1. CASE q = fr
    BY <2>1
  <2>2. CASE q = fr \o <<m>>
    <3> HIDE DEF fr
    <3>1. \A kinds : Has(fr \o <<m>>, kinds) <=> Has(fr, kinds) \/ m.t \in kinds
      BY <1>1, <1>3, HasAdd
    <3> QED  BY <1>3, <2>2, <3>1
  <2> QED  BY <1>6, <2>1, <2>2
<1> QED  BY <1>1, <1>2, <1>4, <1>6, <1>7, SoundTold

\* What a quantum that renders reports.
LEMMA RenderSays ==
  ASSUME Shapes, Wired, NEW g \in Plays, Render(g)
  PROVE  LET w == worklet[g]
             fr == fromWorklet[g]
         IN \E v \in WorkletType(epoch), q \in Seq(FromMsg) :
              /\ worklet' = [worklet EXCEPT ![g] = v]
              /\ fromWorklet' = [fromWorklet EXCEPT ![g] = q]
              /\ v.inst = w.inst /\ v.pcm = w.pcm
              /\ v.pend = w.pend /\ v.pendInit = w.pendInit
              /\ v.wasBuffering = FALSE
              /\ v.playing = w.playing \/ Has(q, {"ended"})
              /\ Has(q, {"loaded"}) => Has(fr, {"loaded"})
              /\ Has(fr, {"ended"}) => Has(q, {"ended"})
              /\ \A heard \in BOOLEAN :
                   w.wasBuffering \/ ~w.reported \/ Reporting(fr, heard, FALSE)
                     => Reporting(q, heard, FALSE)
<1> DEFINE w == worklet[g]
           fr == fromWorklet[g]
           b == Msg("buffering", w.inst, 0)
           e == Msg("ended", w.inst, 0)
           clear == IF w.wasBuffering \/ ~w.reported THEN <<b>> ELSE <<>>
           past == [w EXCEPT !.wasBuffering = FALSE, !.reported = TRUE,
                      !.stalled = StalledAfter(PlanOf(w.inst), Resident(w),
                                               w.stalled, w.order)]
<1>1. w \in WorkletType(epoch) /\ epoch \in Nat /\ fr \in Seq(FromMsg)
  BY BoundAssumption DEF Shapes, Wired
<1>2. /\ b \in FromMsg /\ b.t = "buffering" /\ b.x = 0
      /\ e \in FromMsg /\ e.t = "ended"
  BY <1>1 DEF Msg, FromMsg, WorkletType
<1>3. past \in WorkletType(epoch)
  <2>1. StalledAfter(PlanOf(w.inst), Resident(w), w.stalled, w.order) \in BOOLEAN
    BY <1>1 DEF StalledAfter, Ready, WorkletType
  <2> QED  BY <1>1, <2>1 DEF WorkletType
<1>4. /\ past.inst = w.inst /\ past.pcm = w.pcm /\ past.pend = w.pend
      /\ past.pendInit = w.pendInit /\ past.wasBuffering = FALSE
      /\ past.playing = w.playing
  BY <1>1 DEF WorkletType
<1>5. w.order \in Nat /\ w.wasBuffering \in BOOLEAN /\ w.reported \in BOOLEAN
  BY <1>1 DEF WorkletType
<1> DEFINE q1 == fr \o clear
<1>6. /\ q1 \in Seq(FromMsg)
      /\ Has(q1, {"loaded"}) <=> Has(fr, {"loaded"})
      /\ Has(q1, {"ended"}) <=> Has(fr, {"ended"})
      /\ \A heard \in BOOLEAN :
           w.wasBuffering \/ ~w.reported \/ Reporting(fr, heard, FALSE)
             => Reporting(q1, heard, FALSE)
  <2>1. CASE w.wasBuffering \/ ~w.reported
    <3>1. q1 = fr \o <<b>>
      BY <2>1
    <3> HIDE DEF q1, b
    <3>2. \A heard \in BOOLEAN : Reporting(fr \o <<b>>, heard, FALSE)
      <4> TAKE heard \in BOOLEAN
      <4>1. (b.x = 1 <=> FALSE) /\ FALSE \in BOOLEAN
        BY <1>2
      <4> HIDE DEF fr
      <4> QED  BY <1>1, <1>2, <4>1, ReportingAdd
    <3>3. /\ fr \o <<b>> \in Seq(FromMsg)
          /\ Has(fr \o <<b>>, {"loaded"}) <=> Has(fr, {"loaded"})
          /\ Has(fr \o <<b>>, {"ended"}) <=> Has(fr, {"ended"})
      BY <1>1, <1>2, HasAdd, AddOne
    <3> QED  BY <3>1, <3>2, <3>3
  <2>2. CASE ~(w.wasBuffering \/ ~w.reported)
    <3>1. q1 = fr
      BY <1>1, <2>2, ConcatEmptySeq
    <3> HIDE DEF q1
    <3> QED  BY <1>1, <2>2, <3>1
  <2> QED  BY <2>1, <2>2
<1> DEFINE q2 == q1 \o <<e>>
<1> HIDE DEF b, e, past
<1>7. fr \o (clear \o <<e>>) = q2
  <2>1. clear \in Seq(FromMsg) /\ <<e>> \in Seq(FromMsg)
    BY <1>2
  <2>2. \A r, s, t \in Seq(FromMsg) : (r \o s) \o t = r \o (s \o t)
    BY ConcatAssociative
  <2> HIDE DEF clear, fr
  <2> QED  BY <1>1, <2>1, <2>2
<1>8. \/ /\ \E o \in {w.order, w.order + 1} :
               worklet' = [worklet EXCEPT ![g] = [past EXCEPT !.order = o]]
         /\ Tell(g, clear)
      \/ /\ worklet' = [worklet EXCEPT ![g] = [past EXCEPT !.playing = FALSE]]
         /\ Tell(g, clear \o <<e>>)
  BY DEF Render, past, b, e
<1> HIDE DEF q1
<1>9. ASSUME NEW o \in {w.order, w.order + 1},
             worklet' = [worklet EXCEPT ![g] = [past EXCEPT !.order = o]],
             Tell(g, clear)
      PROVE  \E v \in WorkletType(epoch) :
               /\ worklet' = [worklet EXCEPT ![g] = v]
               /\ fromWorklet' = [fromWorklet EXCEPT ![g] = q1]
               /\ v.inst = w.inst /\ v.pcm = w.pcm
               /\ v.pend = w.pend /\ v.pendInit = w.pendInit
               /\ v.wasBuffering = FALSE /\ v.playing = w.playing
  <2> DEFINE v == [past EXCEPT !.order = o]
  <2>1. v \in WorkletType(epoch)
    BY <1>3, <1>5, <1>9 DEF WorkletType
  <2>2. /\ v.inst = past.inst /\ v.pcm = past.pcm /\ v.pend = past.pend
        /\ v.pendInit = past.pendInit /\ v.wasBuffering = past.wasBuffering
        /\ v.playing = past.playing
    BY <1>3 DEF WorkletType
  <2>3. fromWorklet' = [fromWorklet EXCEPT ![g] = q1]
    BY <1>9 DEF Tell, q1
  <2>4. worklet' = [worklet EXCEPT ![g] = v]
    BY <1>9
  <2> HIDE DEF v
  <2> QED  BY <1>4, <2>1, <2>2, <2>3, <2>4
<1>10. ASSUME worklet' = [worklet EXCEPT ![g] = [past EXCEPT !.playing = FALSE]],
              Tell(g, clear \o <<e>>)
       PROVE  \E v \in WorkletType(epoch) :
                /\ worklet' = [worklet EXCEPT ![g] = v]
                /\ fromWorklet' = [fromWorklet EXCEPT ![g] = q2]
                /\ v.inst = w.inst /\ v.pcm = w.pcm
                /\ v.pend = w.pend /\ v.pendInit = w.pendInit
                /\ v.wasBuffering = FALSE
  <2> DEFINE v == [past EXCEPT !.playing = FALSE]
  <2>1. v \in WorkletType(epoch)
    BY <1>3 DEF WorkletType
  <2>2. /\ v.inst = past.inst /\ v.pcm = past.pcm /\ v.pend = past.pend
        /\ v.pendInit = past.pendInit /\ v.wasBuffering = past.wasBuffering
    BY <1>3 DEF WorkletType
  <2>3. fromWorklet' = [fromWorklet EXCEPT ![g] = fr \o (clear \o <<e>>)]
    BY <1>10 DEF Tell
  <2>4. worklet' = [worklet EXCEPT ![g] = v]
    BY <1>10
  <2> HIDE DEF v, q2, clear
  <2> QED  BY <1>4, <1>7, <2>1, <2>2, <2>3, <2>4
<1>11. /\ q2 \in Seq(FromMsg)
       /\ Has(q2, {"loaded"}) <=> Has(q1, {"loaded"})
       /\ Has(q2, {"ended"})
       /\ \A heard \in BOOLEAN : Reporting(q1, heard, FALSE) => Reporting(q2, heard, FALSE)
  <2>1. q2 \in Seq(FromMsg)
    BY <1>2, <1>6, AddOne
  <2>2. \A kinds : Has(q2, kinds) <=> Has(q1, kinds) \/ e.t \in kinds
    BY <1>2, <1>6, HasAdd
  <2>3. \A heard \in BOOLEAN : Reporting(q1, heard, FALSE) => Reporting(q2, heard, FALSE)
    <3> TAKE heard \in BOOLEAN
    <3>1. FALSE \in BOOLEAN /\ e.t # "buffering"
      BY <1>2
    <3> QED  BY <1>2, <1>6, <3>1, ReportingAdd
  <2> HIDE DEF q2
  <2> QED  BY <1>2, <2>1, <2>2, <2>3
<1> HIDE DEF q2, clear
<1>12. CASE \E o \in {w.order, w.order + 1} :
               /\ worklet' = [worklet EXCEPT ![g] = [past EXCEPT !.order = o]]
               /\ Tell(g, clear)
  <2>1. PICK v \in WorkletType(epoch) :
               /\ worklet' = [worklet EXCEPT ![g] = v]
               /\ fromWorklet' = [fromWorklet EXCEPT ![g] = q1]
               /\ v.inst = w.inst /\ v.pcm = w.pcm
               /\ v.pend = w.pend /\ v.pendInit = w.pendInit
               /\ v.wasBuffering = FALSE /\ v.playing = w.playing
    BY <1>9, <1>12
  <2> QED  BY <1>6, <2>1
<1>13. CASE /\ worklet' = [worklet EXCEPT ![g] = [past EXCEPT !.playing = FALSE]]
            /\ Tell(g, clear \o <<e>>)
  <2>1. PICK v \in WorkletType(epoch) :
                /\ worklet' = [worklet EXCEPT ![g] = v]
                /\ fromWorklet' = [fromWorklet EXCEPT ![g] = q2]
                /\ v.inst = w.inst /\ v.pcm = w.pcm
                /\ v.pend = w.pend /\ v.pendInit = w.pendInit
                /\ v.wasBuffering = FALSE
    BY <1>10, <1>13
  <2> QED  BY <1>6, <1>11, <2>1
<1> QED  BY <1>8, <1>12, <1>13

LEMMA SoundRender ==
  ASSUME Shapes, Wired, PortsSound, NEW g \in Plays, Render(g)
  PROVE  PortsSound'
<1> SUFFICES ASSUME ~rough PROVE PortsSound'
  BY DEF Render, PortsSound
<1>1. worklet[g].inst # 0 /\ UNCHANGED <<main, toWorklet, rough>>
  BY DEF Render, Rendering, NoMain
<1>2. PICK v \in WorkletType(epoch), q \in Seq(FromMsg) :
        /\ worklet' = [worklet EXCEPT ![g] = v]
        /\ fromWorklet' = [fromWorklet EXCEPT ![g] = q]
        /\ v.inst = worklet[g].inst /\ v.pcm = worklet[g].pcm
        /\ v.pend = worklet[g].pend /\ v.pendInit = worklet[g].pendInit
        /\ v.playing = worklet[g].playing \/ Has(q, {"ended"})
        /\ Has(q, {"loaded"}) => Has(fromWorklet[g], {"loaded"})
        /\ Has(fromWorklet[g], {"ended"}) => Has(q, {"ended"})
  BY RenderSays
<1> QED  BY <1>1, <1>2, SoundTold

LEMMA SoundStep == Shapes /\ Wired /\ PortsSound /\ [Next]_vars => PortsSound'
<1> SUFFICES ASSUME Shapes, Wired, PortsSound, [Next]_vars PROVE PortsSound'
  OBVIOUS
<1>1. CASE UNCHANGED vars
  BY <1>1, SoundQuiet DEF vars, main
<1> QED  BY <1>1, SoundUser, SoundPlay, SoundHear, SoundLib, SoundHears, SoundHold,
           SoundRender DEF Next

-----------------------------------------------------------------------------
(***************************************************************************)
(* What is reported of buffering                                           *)
(***************************************************************************)

\* The steps of the main thread that post to nobody and hear nothing: only a
\* new play takes an error away, and then no instance is the current play's.
LEMMA ReportsKept ==
  ASSUME Shapes, Wired, ReportsSound, UNCHANGED worklet,
         UNCHANGED <<fromWorklet, epoch>>,
         \/ now'.error = TRUE
         \/ now'.error = now.error /\ now'.buffering = now.buffering,
         \A g \in Plays : Built' = {g} => Built = {g} \/ ~worklet[g].lib
  PROVE  ReportsSound'
<1>1. now.error \in BOOLEAN /\ now.buffering \in BOOLEAN
  BY DEF Shapes
<1> SUFFICES ASSUME NEW g \in Plays, Built' = {g}, worklet[g].inst = epoch,
                    worklet[g].reported, epoch # 0, ~now'.error
             PROVE  Reporting(fromWorklet[g], now'.buffering, worklet[g].wasBuffering)
  BY DEF ReportsSound
<1>2. worklet[g].lib
  BY DEF Wired
<1>3. Built = {g}
  BY <1>2
<1>4. now'.error = now.error /\ now'.buffering = now.buffering
  OBVIOUS
<1> QED  BY <1>3, <1>4 DEF ReportsSound

\* The instance is never the one of a play that starts now.
LEMMA ReportsPlayList ==
  ASSUME Shapes, NEW items, NEW i, PlayList(items, i), UNCHANGED worklet
  PROVE  ReportsSound'
<1>1. epoch' = epoch + 1 /\ epoch \in Nat
  BY BoundAssumption DEF Shapes, PlayList
<1>2. \A g \in Plays : worklet'[g].inst \in 0..epoch
  BY DEF Shapes, WorkletType
<1>3. \A g \in Plays : worklet'[g].inst # epoch'
  BY <1>1, <1>2
<1> QED  BY <1>3 DEF ReportsSound

LEMMA ReportsUser ==
  ASSUME Shapes, Wired, ReportsSound, User
  PROVE  ReportsSound'
<1>1. ASSUME NEW i, PlayAt(i) PROVE ReportsSound'
  BY <1>1, ReportsPlayList DEF PlayAt, Settled
<1>2. ASSUME NEW t, PlayTrack(t) PROVE ReportsSound'
  BY <1>2, ReportsPlayList DEF PlayTrack, Settled
<1>3. ASSUME NEW t, EnqueueFirst(t) PROVE ReportsSound'
  BY <1>3, ReportsPlayList DEF EnqueueFirst, Settled
<1>4. CASE UNCHANGED <<now, epoch, play, fromWorklet, worklet>>
  <2>1. Built' = Built
    BY <1>4 DEF Built
  <2> QED  BY <1>4, <2>1, ReportsKept
<1>5. ASSUME NEW i, RemoveFromQueue(i) \/ MoveInQueue(i) \/ Enqueue(i) \/ ClearQueue
      PROVE  UNCHANGED <<now, epoch, play, fromWorklet, worklet>>
  BY <1>5 DEF RemoveFromQueue, MoveInQueue, Enqueue, ClearQueue, main
<1>6. ASSUME NEW o, Toggle \/ Seek(o)
      PROVE  UNCHANGED <<now, epoch, play, fromWorklet, worklet>>
  BY <1>6 DEF Toggle, Seek, main
<1> QED  BY <1>1, <1>2, <1>3, <1>4, <1>5, <1>6 DEF User

LEMMA ReportsPlay ==
  ASSUME Shapes, Wired, ReportsSound, NEW e \in Plays,
         \/ Connected(e) \/ PlayRejects(e) \/ SkeletonEvent(e) \/ LoadStream(e)
         \/ Resumed(e) \/ HandlerFails(e) \/ StreamEnds(e)
         \/ \E s \in UNION {Slots[t] : t \in Tracks} : SampleGiven(e, s)
  PROVE  ReportsSound'
<1>0. /\ play \in [Plays -> PlayType] /\ play[e] \in PlayType
      /\ now \in [track : Tracks \cup {NoTrack}, streaming : BOOLEAN,
                  buffering : BOOLEAN, error : BOOLEAN]
  BY DEF Shapes
<1>1. UNCHANGED <<worklet, fromWorklet, epoch>>
  BY DEF Connected, PlayRejects, SkeletonEvent, LoadStream, Resumed, HandlerFails,
         StreamEnds, SampleGiven, NoAudio
<1>2. \/ now'.error = TRUE
      \/ now'.error = now.error /\ now'.buffering = now.buffering
  BY <1>0 DEF Connected, PlayRejects, SkeletonEvent, LoadStream, Resumed, HandlerFails,
              StreamEnds, SampleGiven
<1>3. PICK p : /\ Moves(e, p) /\ p.builds = play[e].builds
               /\ \/ p.at = play[e].at
                  \/ play[e].at = "init" /\ p.at \in {"stream", "failed"}
                  \/ play[e].at = "stream" /\ p.at \in {"over", "complete"}
  <2>1. /\ \A at : /\ [play[e] EXCEPT !.at = at].at = at
                   /\ [play[e] EXCEPT !.at = at].builds = play[e].builds
        /\ \A s : /\ [play[e] EXCEPT !.given = @ \cup {s}].at = play[e].at
                  /\ [play[e] EXCEPT !.given = @ \cup {s}].builds = play[e].builds
        /\ \A k : /\ [play[e] EXCEPT !.skel = k].at = play[e].at
                  /\ [play[e] EXCEPT !.skel = k].builds = play[e].builds
    BY <1>0 DEF PlayType
  <2>2. CASE Connected(e) \/ PlayRejects(e) \/ StreamEnds(e)
    <3>1. PICK at : /\ Moves(e, [play[e] EXCEPT !.at = at])
                    /\ \/ play[e].at = "init" /\ at \in {"stream", "failed"}
                       \/ play[e].at = "stream" /\ at \in {"over", "complete"}
      BY <2>2 DEF Connected, PlayRejects, StreamEnds
    <3> QED  BY <2>1, <3>1
  <2>3. CASE SkeletonEvent(e) \/ LoadStream(e) \/ Resumed(e) \/ HandlerFails(e)
             \/ (\E s \in UNION {Slots[t] : t \in Tracks} : SampleGiven(e, s))
    <3>1. \/ \E k : Moves(e, [play[e] EXCEPT !.skel = k])
          \/ \E s : Moves(e, [play[e] EXCEPT !.given = @ \cup {s}])
      BY <2>3 DEF SkeletonEvent, LoadStream, Resumed, HandlerFails, SampleGiven
    <3>2. ASSUME NEW k, Moves(e, [play[e] EXCEPT !.skel = k])
          PROVE  \E p : Moves(e, p) /\ p.builds = play[e].builds /\ p.at = play[e].at
      <4> WITNESS [play[e] EXCEPT !.skel = k]
      <4> QED  BY <2>1, <3>2
    <3>3. ASSUME NEW s, Moves(e, [play[e] EXCEPT !.given = @ \cup {s}])
          PROVE  \E p : Moves(e, p) /\ p.builds = play[e].builds /\ p.at = play[e].at
      <4> WITNESS [play[e] EXCEPT !.given = @ \cup {s}]
      <4> QED  BY <2>1, <3>3
    <3>4. PICK p : Moves(e, p) /\ p.builds = play[e].builds /\ p.at = play[e].at
      BY <3>1, <3>2, <3>3
    <3> QED  BY <3>4
  <2> QED  BY <2>2, <2>3
<1>4. play'[e] = p /\ \A f \in Plays : f # e => play'[f] = play[f]
  BY <1>0, <1>3 DEF Moves
<1>5. Built' \in {Built, Built \cup {e}}
  BY <1>3, <1>4 DEF Built
\* A graph that was just built has nothing yet.
<1>6. \A g \in Plays : Built' = {g} => Built = {g} \/ ~worklet[g].lib
  <2> SUFFICES ASSUME NEW g \in Plays, Built' = {g}, Built # {g} PROVE ~worklet[g].lib
    OBVIOUS
  <2>1. g \notin Built
    BY <1>5
  <2>2. worklet[g].lib \in BOOLEAN
    BY DEF Shapes, WorkletType
  <2> QED  BY <2>1, <2>2 DEF Wired
<1> QED  BY <1>1, <1>2, <1>6, ReportsKept

LEMMA ReportsHear ==
  ASSUME Shapes, Wired, ReportsSound, NEW g \in Plays, Hear(g)
  PROVE  ReportsSound'
<1> DEFINE q == fromWorklet[g]
           m == Head(q)
<1>1. CASE PlayList(queue, index + 1)
  BY <1>1, ReportsPlayList DEF Hear
<1>2. CASE /\ UNCHANGED <<epoch, play>>
           /\ now' = IF m.t = "buffering" THEN [now EXCEPT !.buffering = m.x = 1] ELSE now
  <2> SUFFICES ASSUME NEW f \in Plays, Built' = {f}, worklet[f].inst = epoch,
                      worklet[f].reported, epoch # 0, ~now'.error
               PROVE  Reporting(fromWorklet'[f], now'.buffering, worklet[f].wasBuffering)
    BY <1>2 DEF ReportsSound, Hear
  <2>1. Built' = Built /\ q # <<>> /\ g \in Built /\ g = f
    BY <1>2 DEF Built, Hear, Wired
  <2>2. /\ now.error \in BOOLEAN /\ now.buffering \in BOOLEAN
        /\ now'.error = now.error /\ now'.buffering \in BOOLEAN
        /\ m.t = "buffering" => (now'.buffering <=> m.x = 1)
        /\ m.t # "buffering" => (now'.buffering <=> now.buffering)
    BY <1>2 DEF Shapes
  <2>3. Reporting(q, now.buffering, worklet[g].wasBuffering)
    BY <2>1, <2>2 DEF ReportsSound
  <2>4. fromWorklet'[g] = Tail(q) /\ q \in Seq(FromMsg) /\ worklet[g].wasBuffering \in BOOLEAN
    BY DEF Hear, Wired, Shapes, WorkletType
  <2> HIDE DEF m, q
  <2>5. Reporting(Tail(q), now'.buffering, worklet[g].wasBuffering)
    BY <2>1, <2>2, <2>3, <2>4, ReportingTake DEF m
  <2> QED  BY <2>1, <2>4, <2>5
<1> QED  BY <1>1, <1>2 DEF Hear

\* A graph that is not alone, or that has nothing to report yet, is not spoken
\* of; any other report is the last one.
LEMMA ReportsWorklet ==
  ASSUME Shapes, Wired, ReportsSound, NEW g \in Plays, NEW v, NEW q,
         worklet' = [worklet EXCEPT ![g] = v],
         fromWorklet' = [fromWorklet EXCEPT ![g] = q],
         UNCHANGED main,
         (v.inst = epoch /\ v.reported /\ Built = {g} /\ ~now.error /\ epoch # 0)
           => Reporting(q, now.buffering, v.wasBuffering)
  PROVE  ReportsSound'
<1>1. /\ worklet'[g] = v /\ fromWorklet'[g] = q
      /\ \A f \in Plays : f # g => worklet'[f] = worklet[f] /\ fromWorklet'[f] = fromWorklet[f]
  BY DEF Shapes, Wired
<1>2. UNCHANGED <<now, epoch>> /\ Built' = Built
  BY DEF Built, main
<1>3. ASSUME NEW f \in Plays, Built = {f}, worklet'[f].inst = epoch,
             worklet'[f].reported, epoch # 0, ~now.error
      PROVE  Reporting(fromWorklet'[f], now.buffering, worklet'[f].wasBuffering)
  <2>1. CASE f = g
    BY <1>1, <1>3, <2>1
  <2>2. CASE f # g
    BY <1>1, <1>3, <2>2 DEF ReportsSound
  <2> QED  BY <2>1, <2>2
<1> QED  BY <1>2, <1>3 DEF ReportsSound

LEMMA ReportsPorts ==
  ASSUME Shapes, Wired, ReportsSound, NEW g \in Plays,
         LibLoaded(g) \/ WorkletHears(g) \/ Hold(g) \/ Render(g)
  PROVE  ReportsSound'
<1> DEFINE w == worklet[g]
           fr == fromWorklet[g]
<1>0. /\ w \in WorkletType(epoch) /\ epoch \in 0..MaxPlays /\ epoch \in Nat
      /\ worklet \in [Plays -> WorkletType(epoch)] /\ fr \in Seq(FromMsg)
      /\ fromWorklet \in [Plays -> Seq(FromMsg)]
      /\ now.buffering \in BOOLEAN /\ w.wasBuffering \in BOOLEAN
  <2>1. fr \in Seq(FromMsg) /\ fromWorklet \in [Plays -> Seq(FromMsg)]
    BY DEF Wired
  <2>2. /\ w \in WorkletType(epoch) /\ epoch \in 0..MaxPlays /\ now.buffering \in BOOLEAN
        /\ worklet \in [Plays -> WorkletType(epoch)]
    BY DEF Shapes
  <2> QED  BY <2>1, <2>2, BoundAssumption DEF WorkletType
<1>1. (w.inst = epoch /\ w.reported /\ Built = {g} /\ ~now.error /\ epoch # 0)
        => Reporting(fr, now.buffering, w.wasBuffering)
  BY DEF ReportsSound
<1>2. CASE LibLoaded(g) \/ WorkletHears(g)
  <2>1. PICK v, msgs :
           /\ worklet' = [worklet EXCEPT ![g] = v]
           /\ Tell(g, msgs) \/ UNCHANGED fromWorklet
           /\ \/ ~v.reported
              \/ /\ UNCHANGED fromWorklet
                 /\ v.inst = w.inst /\ v.reported = w.reported
                 /\ v.wasBuffering = w.wasBuffering
    <3>1. \A u \in WorkletType(epoch) : \A e : ~DoInit(u, e).reported
      BY DEF DoInit, WorkletType
    <3>2. CASE LibLoaded(g)
      <4> DEFINE u == [w EXCEPT !.lib = TRUE]
      <4>1. /\ u \in WorkletType(epoch) /\ u.pendInit \in 0..epoch
            /\ u.inst = w.inst /\ u.reported = w.reported
            /\ u.wasBuffering = w.wasBuffering
        BY <1>0 DEF WorkletType
      <4>2. IF u.pendInit = 0
            THEN worklet' = [worklet EXCEPT ![g] = u] /\ UNCHANGED fromWorklet
            ELSE /\ worklet' = [worklet EXCEPT ![g] = DoInit(u, u.pendInit)]
                 /\ Tell(g, InitReport(u.pendInit))
        BY <3>2 DEF LibLoaded
      <4> HIDE DEF u
      <4>3. CASE u.pendInit = 0
        <5>1. worklet' = [worklet EXCEPT ![g] = u] /\ UNCHANGED fromWorklet
          BY <4>2, <4>3
        <5> HIDE DEF w
        <5> QED  BY <4>1, <5>1
      <4>4. CASE u.pendInit # 0
        <5>1. /\ worklet' = [worklet EXCEPT ![g] = DoInit(u, u.pendInit)]
              /\ Tell(g, InitReport(u.pendInit))
          BY <4>2, <4>4
        <5>2. ~DoInit(u, u.pendInit).reported
          BY <3>1, <4>1
        <5> QED  BY <5>1, <5>2
      <4> QED  BY <4>3, <4>4
    <3>3. CASE WorkletHears(g)
      <4> DEFINE m == Head(toWorklet[g])
      <4>1. m \in ToMsg(epoch)
        BY <3>3, TakeOne DEF WorkletHears, Shapes
      <4>2. worklet' = [worklet EXCEPT ![g] = Handled(w, m)]
        BY <3>3 DEF WorkletHears
      <4>3. CASE m.t = "init" /\ w.lib
        <5>1. Handled(w, m) = DoInit(w, m.e) /\ Tell(g, InitReport(m.e))
          BY <3>3, <4>3 DEF Handled, WorkletHears
        <5>2. ~DoInit(w, m.e).reported
          BY <1>0, <3>1
        <5> QED  BY <4>2, <5>1, <5>2
      <4>4. CASE ~(m.t = "init" /\ w.lib)
        <5>1. UNCHANGED fromWorklet
          BY <3>3, <4>4 DEF WorkletHears
        <5> DEFINE v == Handled(w, m)
        <5>2. /\ v.inst = w.inst /\ v.reported = w.reported
              /\ v.wasBuffering = w.wasBuffering
          <6>1. CASE m.t = "init"
            BY <1>0, <4>4, <6>1 DEF Handled, WorkletType
          <6>2. CASE m.t = "provide"
            BY <1>0, <6>2 DEF Handled, WorkletType
          <6>3. CASE m.t \in {"play", "pause", "seek"}
            BY <1>0, <6>3 DEF Handled, WorkletType
          <6> QED  BY <4>1, <6>1, <6>2, <6>3 DEF ToMsg
        <5>3. worklet' = [worklet EXCEPT ![g] = v]
          BY <4>2
        <5> HIDE DEF v, w, m
        <5> QED  BY <5>1, <5>2, <5>3
      <4> QED  BY <4>3, <4>4
    <3> QED  BY <1>2, <3>2, <3>3
  <2>2. UNCHANGED main
    BY <1>2 DEF LibLoaded, WorkletHears, NoMain
  <2>3. CASE ~v.reported
    <3>1. PICK q : fromWorklet' = [fromWorklet EXCEPT ![g] = q]
      BY <1>0, <2>1 DEF Tell
    <3> QED  BY <2>1, <2>2, <2>3, <3>1, ReportsWorklet
  <2>4. CASE /\ UNCHANGED fromWorklet
             /\ v.inst = w.inst /\ v.reported = w.reported
             /\ v.wasBuffering = w.wasBuffering
    <3>1. fromWorklet' = [fromWorklet EXCEPT ![g] = fr]
      BY <1>0, <2>4
    <3> HIDE DEF fr, w
    <3> QED  BY <1>1, <2>1, <2>2, <2>4, <3>1, ReportsWorklet
  <2> QED  BY <2>1, <2>3, <2>4
<1>3. CASE Hold(g)
  <2> DEFINE m == Msg("buffering", w.inst, 1)
             v == [w EXCEPT !.stalled = TRUE, !.wasBuffering = TRUE,
                            !.reported = w.reported \/ ~w.wasBuffering]
  <2>1. /\ v.inst = w.inst /\ v.wasBuffering = TRUE
        /\ v.reported <=> (w.reported \/ ~w.wasBuffering)
    BY <1>0 DEF WorkletType
  <2>2. worklet' = [worklet EXCEPT ![g] = v] /\ UNCHANGED main
    BY <1>3 DEF Hold, NoMain
  <2>3. m \in FromMsg /\ m.t = "buffering" /\ m.x = 1
    BY <1>0 DEF Msg, FromMsg, WorkletType
  <2>4. IF w.wasBuffering THEN UNCHANGED fromWorklet ELSE Tell(g, <<m>>)
    BY <1>3 DEF Hold
  <2> HIDE DEF v, m
  <2>5. CASE w.wasBuffering
    <3>1. fromWorklet' = [fromWorklet EXCEPT ![g] = fr]
      BY <1>0, <2>4, <2>5
    <3>2. w.wasBuffering = TRUE
      BY <1>0, <2>5
    <3>3. v.reported => w.reported
      BY <2>1, <2>5
    <3> HIDE DEF fr, w
    <3> QED  BY <1>1, <2>1, <2>2, <3>1, <3>2, <3>3, ReportsWorklet
  <2>6. CASE ~w.wasBuffering
    <3>1. fromWorklet' = [fromWorklet EXCEPT ![g] = fr \o <<m>>]
      BY <2>4, <2>6 DEF Tell
    <3>2. Reporting(fr \o <<m>>, now.buffering, TRUE)
      <4>1. TRUE \in BOOLEAN /\ (m.x = 1 <=> TRUE)
        BY <2>3
      <4> HIDE DEF fr
      <4> QED  BY <1>0, <2>3, <4>1, ReportingAdd
    <3> QED  BY <2>1, <2>2, <3>1, <3>2, ReportsWorklet
  <2> QED  BY <2>5, <2>6
<1>4. CASE Render(g)
  <2>1. PICK v \in WorkletType(epoch), q \in Seq(FromMsg) :
          /\ worklet' = [worklet EXCEPT ![g] = v]
          /\ fromWorklet' = [fromWorklet EXCEPT ![g] = q]
          /\ v.inst = w.inst /\ v.wasBuffering = FALSE
          /\ \A heard \in BOOLEAN :
               w.wasBuffering \/ ~w.reported \/ Reporting(fr, heard, FALSE)
                 => Reporting(q, heard, FALSE)
    BY <1>4, RenderSays
  <2>2. UNCHANGED main
    BY <1>4 DEF Render, NoMain
  <2>3. ASSUME v.inst = epoch, Built = {g}, ~now.error, epoch # 0
        PROVE  Reporting(q, now.buffering, v.wasBuffering)
    <3>1. CASE w.wasBuffering \/ ~w.reported
      BY <1>0, <2>1, <3>1
    <3>2. CASE ~w.wasBuffering /\ w.reported
      <4>1. w.wasBuffering = FALSE
        BY <1>0, <3>2
      <4>2. Reporting(fr, now.buffering, FALSE)
        BY <1>1, <2>1, <2>3, <3>2, <4>1
      <4> QED  BY <1>0, <2>1, <4>2
    <3> QED  BY <3>1, <3>2
  <2> HIDE DEF w, fr
  <2> QED  BY <2>1, <2>2, <2>3, ReportsWorklet
<1> QED  BY <1>2, <1>3, <1>4

LEMMA ReportsStep == Shapes /\ Wired /\ ReportsSound /\ [Next]_vars => ReportsSound'
<1> SUFFICES ASSUME Shapes, Wired, ReportsSound, [Next]_vars PROVE ReportsSound'
  OBVIOUS
<1>1. CASE UNCHANGED vars
  BY <1>1 DEF vars, main, ReportsSound, Built
<1> QED  BY <1>1, ReportsUser, ReportsPlay, ReportsHear, ReportsPorts DEF Next

-----------------------------------------------------------------------------
(***************************************************************************)
(* The theorems about the ports                                            *)
(***************************************************************************)

\* Everything the ports rely on always holds.
PortsInvariant == Shapes /\ Wired /\ PortsSound /\ ReportsSound

THEOREM PortsAlwaysSound == Spec => []PortsInvariant
<1>1. Init => ReportsSound
  BY DEF Init, ReportsSound
<1>2. Init => PortsInvariant
  BY <1>1, InitShapes, InitWired, InitSound DEF PortsInvariant
<1>3. PortsInvariant /\ [Next]_vars => PortsInvariant'
  BY ShapesStep, WiredStep, SoundStep, ReportsStep DEF PortsInvariant
<1> QED  BY <1>2, <1>3, PTL DEF Spec

\* For any tracks, plays and clicks, an instance only holds samples that were
\* streamed for it, short of the accidents (playEpoch, applyProvide).
THEOREM SamplesAlwaysBelong == Spec => []SamplesBelong
<1>1. PortsInvariant => SamplesBelong
  BY DEF PortsInvariant, PortsSound, SamplesBelong, Clean
<1> QED  BY <1>1, PortsAlwaysSound, PTL

\* For any number of plays, a player that shows playing plays once the ports
\* are empty, short of the accidents (loadStream, play, onMessage).
THEOREM PlayAlwaysReaches == Spec => []PlayReaches
<1>1. PortsInvariant => PlayReaches
  <2> SUFFICES ASSUME PortsSound, ~rough, graph # 0, Heard(graph), playing
               PROVE  worklet[graph].playing
    BY DEF PortsInvariant, PlayReaches
  <2>1. \A kinds : ~Has(<<>>, kinds)
    BY DEF Has
  <2>2. WillPlay(<<>>, worklet[graph].playing)
    BY <2>1 DEF PortsSound, PortSound, Heard
  <2> QED  BY <2>2 DEF WillPlay
<1> QED  BY <1>1, PortsAlwaysSound, PTL

\* For any number of plays, the indicator says what the fence does once the
\* ports are empty, short of an error and a second graph (process,
\* onBuffering).
THEOREM BufferingAlwaysHonest == Spec => []BufferingHonest
<1>1. PortsInvariant => BufferingHonest
  <2> SUFFICES ASSUME Shapes, ReportsSound, NEW g \in Plays, Built = {g}, Heard(g),
                      worklet[g].inst = epoch, worklet[g].reported, epoch # 0, ~now.error
               PROVE  now.buffering = worklet[g].wasBuffering
    BY DEF PortsInvariant, BufferingHonest
  <2>1. Reporting(<<>>, now.buffering, worklet[g].wasBuffering)
    BY DEF ReportsSound, Heard
  <2>2. now.buffering \in BOOLEAN /\ worklet[g].wasBuffering \in BOOLEAN
    BY DEF Shapes, WorkletType
  <2>3. ~Has(<<>>, {"buffering"})
    BY DEF Has
  <2>4. now.buffering <=> worklet[g].wasBuffering
    BY <2>1, <2>3 DEF Reporting
  <2> QED  BY <2>2, <2>4
<1> QED  BY <1>1, PortsAlwaysSound, PTL
=============================================================================
