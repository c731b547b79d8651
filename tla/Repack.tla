------------------------------- MODULE Repack -------------------------------
(***************************************************************************)
(* packages/repack: a module is baked into content-addressed blocks        *)
(* (dag.ts, with parse.ts, cdc.ts and flac.ts) and rebuilt from whatever   *)
(* blocks a peer hands over.                                               *)
(*                                                                         *)
(* A module is its bytes, the sample headers a parser reads from them and  *)
(* what libopenmpt decodes for each sample; all three are inputs.  A CID   *)
(* is the content it names, so two blocks are one exactly when their       *)
(* contents are.  Headers and patterns are not among the bytes.            *)
(***************************************************************************)
EXTENDS Integers, SequencesExt, FiniteSetsExt

CONSTANTS Bytes,      \* 0..B - 1
          Files,      \* the byte sequences of modules
          Headers,    \* what the parser reads: [format, header], numbers without a sign
          Tables,     \* what computeSeekTables gives: [checkpoints, segment0], as offsets
          MinChunk, MaxChunk, CutByte,  \* CdcConfig, and where the rolling hash cuts
          MinSaving   \* COMPRESSED_STREAM_MIN_SAVING

B == Cardinality(Bytes)
Header == [length : Nat, channels : Nat, pointer : Nat, packed : BOOLEAN, span : Nat]
ASSUME RepackAssumption ==
  /\ B \in Nat /\ B > 0 /\ Bytes = 0..(B - 1) /\ MinChunk \in 1..MaxChunk
  /\ Files \subseteq Seq(Bytes)
  /\ \A h \in Headers : h.format \in {"mod", "s3m", "xm", "it", "mo3"} /\ h.header \in Seq(Header)
  /\ \A t \in Tables : t.checkpoints \in Seq(SUBSET Nat)

VARIABLES module, dag, served, rebuilt
repackVars == <<module, dag, served, rebuilt>>

Sub(s, offset, len) == SubSeq(s, offset, offset + len - 1)
Zeros(n) == [i \in 1..n |-> 0]
Put(s, offset, piece) ==
  [i \in DOMAIN s |-> IF i - offset + 1 \in DOMAIN piece THEN piece[i - offset + 1] ELSE s[i]]

\* The elements of s at these places, in their order.
OnlyUpTo(s, places) ==
  LET only[i \in 0..Len(s)] ==
        IF i = 0 THEN <<>>
        ELSE IF i \in places THEN Append(only[i - 1], s[i]) ELSE only[i - 1] IN
  only
Only(s, places) == OnlyUpTo(s, places)[Len(s)]

-----------------------------------------------------------------------------
(* parse.ts.  header[i] is the sample header of slot i: its length, and    *)
(* where the format has pointers, where its PCM lies and how it is packed. *)

SlotRec(m, i, offset, len) ==
  [index |-> i, offset |-> offset, length |-> len, channels |-> m.header[i].channels,
   packed |-> m.header[i].packed, span |-> 0]

\* PCM lies in header order from the start of the file's sample area.
OffsetUpTo(m) ==
  LET at[i \in 0..Len(m.header)] == IF i = 0 THEN 1 ELSE at[i - 1] + m.header[i].length IN
  at
OffsetOfSlot(m, i) == OffsetUpTo(m)[i - 1]

ModSlot(m, i) ==    \* the sample that runs past the end is cut short and is the last
  SlotRec(m, i, OffsetOfSlot(m, i), Min({m.header[i].length, Len(m.data) + 1 - OffsetOfSlot(m, i)}))

XmSlot(m, i) == SlotRec(m, i, OffsetOfSlot(m, i), m.header[i].length)

\* A packed sample keeps its decoded length, and the bytes it takes up if they are all there;
\* the others are clamped to the file.
ItLikeSlot(m, i) == LET h == m.header[i] left == Len(m.data) + 1 - h.pointer IN
  IF h.packed
  THEN [SlotRec(m, i, h.pointer, h.length) EXCEPT !.span = IF h.span <= left THEN h.span ELSE 0]
  ELSE SlotRec(m, i, h.pointer, Min({h.length, left}))

ReadSlot(m, i) ==
  CASE m.format = "mod" -> ModSlot(m, i)
    [] m.format = "xm" -> XmSlot(m, i)
    [] m.format \in {"it", "s3m"} -> ItLikeSlot(m, i)
    [] m.format = "mo3" -> SlotRec(m, i, 0, 0)

\* The slots whose bytes are all in the file.
WholeSlots(m, slots) ==
  Only(slots, {i \in DOMAIN slots : slots[i].length > 0 /\ slots[i].offset > 0
                                     /\ slots[i].offset + slots[i].length - 1 <= Len(m.data)})
SampleSlots(m) == WholeSlots(m, [i \in DOMAIN m.header |-> ReadSlot(m, i)])

\* sampleRegions: unpacked regions by offset, those that overlap an earlier one dropped.
End(regions) == IF regions = <<>> THEN 1 ELSE Last(regions).offset + Last(regions).length
Leftmost(S) == CHOOSE s \in S : \A t \in S :
  s.offset < t.offset \/ (s.offset = t.offset /\ s.index <= t.index)
AddRegion(kept, slots) ==
  LET rest == {s \in ToSet(slots) : ~s.packed /\ s.offset >= End(kept)} IN
  IF rest = {} THEN kept ELSE Append(kept, Leftmost(rest))
RegionsUpTo(slots) ==
  LET regions[n \in 0..Len(slots)] == IF n = 0 THEN <<>> ELSE AddRegion(regions[n - 1], slots) IN
  regions
SampleRegions(m) == RegionsUpTo(SampleSlots(m))[Len(SampleSlots(m))]

-----------------------------------------------------------------------------
(* cdc.ts and flac.ts.                                                     *)

Cuts(chunk) == \/ Len(chunk) = MaxChunk
               \/ Len(chunk) > MinChunk /\ Last(chunk) = CutByte

ChunksUpTo(buf) ==
  LET chunks[i \in 0..Len(buf)] ==
        IF i = 0 THEN <<>>
        ELSE LET done == chunks[i - 1] IN
             IF done = <<>> \/ Cuts(Last(done)) THEN Append(done, <<buf[i]>>)
             ELSE Append(Front(done), Append(Last(done), buf[i])) IN
  chunks
CdcChunks(buf) == ChunksUpTo(buf)[Len(buf)]

\* FLAC is lossless and pays on runs only: a run is one token, all else grows by a frame header.
FlacEncode(pcm) ==
  IF Len(pcm) > 1 /\ \A i \in DOMAIN pcm : pcm[i] = pcm[1]
  THEN <<B + Len(pcm) * B + pcm[1]>>
  ELSE <<B>> \o pcm

FlacDecode(stream) ==
  IF Len(stream) = 1
  THEN [i \in 1..((stream[1] - B) \div B) |-> stream[1] % B]
  ELSE Tail(stream)

-----------------------------------------------------------------------------
(* The ENC transforms from decoded PCM to the bytes on disk.               *)

Deint(d) == LET half == Len(d) \div 2 IN
  [i \in DOMAIN d |-> d[2 * ((i - 1) % half) + ((i - 1) \div half) + 1]]
Sign(d) == [i \in DOMAIN d |-> (d[i] + B \div 2) % B]
Delta(d, planes) == LET plane == Len(d) \div planes IN
  [i \in DOMAIN d |-> (d[i] - (IF (i - 1) % plane = 0 THEN 0 ELSE d[i - 1])) % B]

EncMasks == << {}, {"sign"}, {"delta"}, {"sign", "delta"}, {"deint"}, {"sign", "deint"},
               {"delta", "deint"}, {"sign", "delta", "deint"} >>

ApplyEnc(enc, d, channels) ==
  LET planar == "deint" \in enc /\ channels = 2 /\ Len(d) % 2 = 0
      d1 == IF planar THEN Deint(d) ELSE d
      d2 == IF "sign" \in enc THEN Sign(d1) ELSE d1 IN
  IF "delta" \in enc THEN Delta(d2, IF planar THEN 2 ELSE 1) ELSE d2

\* The first mask that reproduces the bytes on disk, 0 if none does.
PickEnc(d, onDisk, channels) ==
  Min({k \in DOMAIN EncMasks : ApplyEnc(EncMasks[k], d, channels) = onDisk} \cup {9}) % 9

-----------------------------------------------------------------------------
(* What is streamed, and the plan the fence gates it by.                   *)

\* Slots whose dump is there and as long as the slot says.
Dumped(m, slots) ==
  Only(slots, {k \in DOMAIN slots : LET dump == m.dump[slots[k].index] IN
                                     dump # <<>> /\ Len(dump) = slots[k].length})
Candidates(m) == Dumped(m, SampleSlots(m))

\* v3 and v4: and some mask turns the dump into the bytes on disk.
Enc(m, s) == PickEnc(m.dump[s.index], Sub(m.data, s.offset, s.length), s.channels)
Invertible(m) == LET cands == Candidates(m) IN
  Only(cands, {k \in DOMAIN cands : Enc(m, cands[k]) # 0})

Indices(slots) == {slots[i].index : i \in DOMAIN slots}

\* idxByOffset: of several slots at one offset the last stands for all.
ToSlots(slots, offsets) ==
  {slots[i].index : i \in {k \in DOMAIN slots :
     slots[k].offset \in offsets /\ \A j \in (k + 1)..Len(slots) : slots[j].offset # slots[k].offset}}

\* Checkpoints with nothing to wait for are dropped; without any, segment0 is one.
PlanFor(slots, tables) ==
  LET named == [k \in DOMAIN tables.checkpoints |->
                  [order |-> k - 1, samples |-> ToSlots(slots, tables.checkpoints[k])]]
      some == Only(named, {k \in DOMAIN named : named[k].samples # {}})
      opening == ToSlots(slots, tables.segment0) IN
  IF some # <<>> THEN some
  ELSE IF opening # {} THEN <<[order |-> 0, samples |-> opening]>> ELSE <<>>

CoveredBy(plan) == UNION {plan[k].samples : k \in DOMAIN plan}

\* A packed sample is streamed only where the plan can gate it.
StreamedV2(m, noPacked) ==
  LET cands == Candidates(m) covered == CoveredBy(PlanFor(cands, m.tables)) IN
  Only(cands, {k \in DOMAIN cands : ~cands[k].packed \/ (~noPacked /\ cands[k].index \in covered)})

\* The plan is left as it was for the candidates.
TightenNothing(plan, streamed) == plan

\* The plan names only what is streamed, or the fence would wait for ever.
Tighten(plan, streamed) ==
  LET tight == [k \in DOMAIN plan |-> [plan[k] EXCEPT !.samples = @ \cap Indices(streamed)]] IN
  Only(tight, {k \in DOMAIN tight : tight[k].samples # {}})

-----------------------------------------------------------------------------
(* Skeletons.                                                              *)

\* buildSkeleton (v1): everything that is not sample PCM, in file order.
From(regions, k) == IF k = 1 THEN 1 ELSE regions[k - 1].offset + regions[k - 1].length
SkeletonUpTo(data, regions) ==
  LET skel[k \in 0..Len(regions)] ==
        IF k = 0 THEN <<>>
        ELSE skel[k - 1] \o SubSeq(data, From(regions, k), regions[k].offset - 1) IN
  skel
SkeletonV1(data, regions) ==
  SkeletonUpTo(data, regions)[Len(regions)]
    \o SubSeq(data, From(regions, Len(regions) + 1), Len(data))

\* buildSkeletonV2: streamed PCM is zeroed; a packed slot gets a zeroed region at the end
\* and its header is repointed there.
Zeroed(s) == IF s.packed THEN s.offset..(s.offset + s.span - 1)
             ELSE s.offset..(s.offset + s.length - 1)

TailUpTo(packed) ==
  LET tail[k \in 0..Len(packed)] == IF k = 0 THEN 0 ELSE tail[k - 1] + packed[k].length IN
  tail

SkeletonV2(m, streamed) ==
  LET packed == Only(streamed, {k \in DOMAIN streamed : streamed[k].packed})
      tail == TailUpTo(packed)
      all == tail[Len(packed)]
      zeroed == UNION {Zeroed(s) : s \in ToSet(streamed)} IN
  [bytes |-> [i \in DOMAIN m.data |-> IF i \in zeroed THEN 0 ELSE m.data[i]] \o Zeros(all),
   zeroed |-> (zeroed \cap DOMAIN m.data) \cup (Len(m.data) + 1)..(Len(m.data) + all),
   moved |-> [i \in Indices(packed) |->
                LET k == CHOOSE k \in DOMAIN packed : packed[k].index = i IN
                Len(m.data) + 1 + tail[k - 1]]]

\* mergeSpans: the zeroed ones of the first n positions as ascending runs <<first, last>>.
SpansUpTo(zeroed, n) ==
  LET spans[i \in 0..n] ==
        IF i = 0 THEN <<>>
        ELSE LET done == spans[i - 1] IN
             IF i \notin zeroed THEN done
             ELSE IF done # <<>> /\ Last(done)[2] = i - 1
                  THEN Append(Front(done), <<Last(done)[1], i>>)
             ELSE Append(done, <<i, i>>) IN
  spans
MergeSpans(zeroed, n) == SpansUpTo(zeroed, n)[n]

\* The recipe: groups of chunks of structure, each followed by zeros nobody transfers.
Group(acc, bytes, last, zeros) ==
  LET chunks == CdcChunks(SubSeq(bytes, acc.pos, last)) IN
  [parts |-> acc.parts \o chunks, layout |-> Append(acc.layout, <<Len(chunks), zeros>>),
   pos |-> last + zeros + 1]
RecipeUpTo(bytes, spans) ==
  LET groups[k \in 0..Len(spans)] ==
        IF k = 0 THEN [parts |-> <<>>, layout |-> <<>>, pos |-> 1]
        ELSE Group(groups[k - 1], bytes, spans[k][1] - 1, spans[k][2] - spans[k][1] + 1) IN
  groups
Recipe(sk) ==
  LET spans == MergeSpans(sk.zeroed, Len(sk.bytes))
      acc == RecipeUpTo(sk.bytes, spans)[Len(spans)] IN
  IF acc.pos <= Len(sk.bytes) THEN Group(acc, sk.bytes, Len(sk.bytes), 0) ELSE acc

\* assembleSkeletonV2: the chunks of each group, then its zeros.
AddGroup(acc, parts, entry) ==
  LET next == acc.at + entry[1] IN
  [at  |-> next,
   out |-> acc.out \o FlattenSeq(SubSeq(parts, acc.at, next - 1)) \o Zeros(entry[2])]
AssembleUpTo(parts, layout) ==
  LET groups[k \in 0..Len(layout)] ==
        IF k = 0 THEN [at |-> 1, out |-> <<>>] ELSE AddGroup(groups[k - 1], parts, layout[k]) IN
  groups
Assemble(parts, layout) == AssembleUpTo(parts, layout)[Len(layout)].out

-----------------------------------------------------------------------------
(* The bakes.  A dag holds what its manifest names; its blocks are the     *)
(* leaves, and the manifest's own CID stands beside them.                  *)

Failed(v) == [v |-> v, ok |-> FALSE]

BuildDag(m) ==
  LET regions == SampleRegions(m) IN
  [v |-> 1, ok |-> TRUE, length |-> Len(m.data), parts |-> CdcChunks(SkeletonV1(m.data, regions)),
   layout |-> <<>>,
   samples |-> [k \in DOMAIN regions |->
     [offset |-> regions[k].offset, length |-> regions[k].length,
      chunks |-> CdcChunks(Sub(m.data, regions[k].offset, regions[k].length))]],
   plan |-> <<>>, moved |-> <<>>]

Built(m, v, streamed, plan, samples) ==
  LET sk == SkeletonV2(m, streamed) recipe == Recipe(sk) IN
  [v |-> v, ok |-> TRUE, length |-> Len(m.data), parts |-> recipe.parts, layout |-> recipe.layout,
   samples |-> samples, plan |-> plan, moved |-> sk.moved]

SampleV2(m, s) == [index |-> s.index, chunks |-> CdcChunks(m.dump[s.index])]

\* required_at(0): the checkpoint at order 0 and the next one.
RequiredAtZero(plan) ==
  IF plan = <<>> THEN {}
  ELSE LET at0 == {k \in DOMAIN plan : plan[k].order <= 0}
           floor == IF at0 = {} THEN 0 ELSE Max(at0) IN
       UNION {plan[k].samples : k \in Max({floor, 1})..Min({floor + 1, Len(plan)})}

BytesOf(chunks) == FoldFunction(+, 0, [c \in chunks |-> Len(c)])

\* What must arrive before the first sound, against the whole file.
Saving(m, d) ==
  LET opening == RequiredAtZero(d.plan)
      warm == ToSet(d.parts) \cup UNION {ToSet(d.samples[k].chunks) :
                k \in {k \in DOMAIN d.samples : d.samples[k].index \in opening}} IN
  Len(m.data) - BytesOf(warm)

BuildDagV2(m) ==
  LET streamed(noPacked) == StreamedV2(m, noPacked)
      plan(noPacked) == Tighten(PlanFor(Candidates(m), m.tables), streamed(noPacked))
      samples(slots) == [k \in DOMAIN slots |-> SampleV2(m, slots[k])]
      built(noPacked) == Built(m, 2, streamed(noPacked), plan(noPacked), samples(streamed(noPacked)))
      regress == /\ \E s \in ToSet(streamed(FALSE)) : s.packed
                 /\ Saving(m, built(FALSE)) < MinSaving IN
  built(regress)

SampleV3(m, s) ==
  [index |-> s.index, chunks |-> CdcChunks(m.dump[s.index]), offset |-> s.offset,
   channels |-> s.channels, flac |-> FALSE,
   enc |-> Enc(m, s)]

\* v4 packs the leaves where that makes them shorter.
SampleV4(m, s) ==
  LET flac == FlacEncode(m.dump[s.index])
      pays == Len(flac) < Len(m.dump[s.index]) IN
  [SampleV3(m, s) EXCEPT !.flac = pays,
                         !.chunks = CdcChunks(IF pays THEN flac ELSE m.dump[s.index])]

HasPacked(m) == \E s \in ToSet(SampleSlots(m)) : s.packed

BuildDagV3(m) ==
  IF HasPacked(m) THEN Failed(3)
  ELSE LET slots == Invertible(m) IN
       Built(m, 3, slots, PlanFor(slots, m.tables), [k \in DOMAIN slots |-> SampleV3(m, slots[k])])
BuildDagV4(m) ==
  IF HasPacked(m) THEN Failed(4)
  ELSE LET slots == Invertible(m) IN
       Built(m, 4, slots, PlanFor(slots, m.tables), [k \in DOMAIN slots |-> SampleV4(m, slots[k])])

Leaves(d) == ToSet(d.parts) \cup UNION {ToSet(d.samples[k].chunks) : k \in DOMAIN d.samples}

-----------------------------------------------------------------------------
(* The way back.                                                           *)

ManifestCid == <<-1>>

\* fetchVerified: a getter answers with other bytes than the CID names, which must show.
Tampered(c) == [c EXCEPT ![1] = (@ + 1) % B]
Get(c) == IF c = served THEN Tampered(c) ELSE c
\* The bytes are not hashed.
FetchUnverified(c) == [ok |-> TRUE, bytes |-> Get(c)]
FetchVerified(c) == [ok |-> Get(c) = c, bytes |-> Get(c)]
AllVerified(d) == served # ManifestCid /\ \A c \in Leaves(d) : FetchVerified(c).ok
Pcm(chunks) == FlattenSeq([k \in DOMAIN chunks |-> FetchVerified(chunks[k]).bytes])
Parts(d) == [k \in DOMAIN d.parts |-> FetchVerified(d.parts[k]).bytes]

\* reassemble (v1): into an empty buffer, each gap from the skeleton and then the sample.
AddSample(acc, skeleton, from, s) ==
  LET gap == s.offset - from
      piece == Sub(skeleton, acc.cursor, gap) IN
  [out |-> Put(Put(acc.out, from, piece), s.offset, Pcm(s.chunks)), cursor |-> acc.cursor + gap]
ReassembleUpTo(d) ==
  LET samples[k \in 0..Len(d.samples)] ==
        IF k = 0 THEN [out |-> Zeros(d.length), cursor |-> 1]
        ELSE AddSample(samples[k - 1], FlattenSeq(Parts(d)), From(d.samples, k), d.samples[k]) IN
  samples
Reassemble(d) ==
  LET n == Len(d.samples) skeleton == FlattenSeq(Parts(d)) acc == ReassembleUpTo(d)[n] IN
  Put(acc.out, From(d.samples, n + 1), SubSeq(skeleton, acc.cursor, Len(skeleton)))

DecodeV4Sample(s) == IF s.flac THEN FlacDecode(Pcm(s.chunks)) ELSE Pcm(s.chunks)

\* reassembleV3 and reassembleV4: write every sample back over the skeleton's zeros.
OnDisk(s) == ApplyEnc(EncMasks[s.enc], DecodeV4Sample(s), s.channels)
ReassembleV3UpTo(d) ==
  LET out[k \in 0..Len(d.samples)] ==
        IF k = 0 THEN Assemble(Parts(d), d.layout)
        ELSE Put(out[k - 1], d.samples[k].offset, OnDisk(d.samples[k])) IN
  out
ReassembleV3(d) == ReassembleV3UpTo(d)[Len(d.samples)]

-----------------------------------------------------------------------------
(* The machine: one module is baked, a peer serves its blocks (perhaps one *)
(* of them with other bytes), and the file is rebuilt.                     *)

NoDag == [v |-> 0, ok |-> FALSE]
Honest == <<>>
Nothing == [ok |-> FALSE, bytes |-> <<>>]

\* libopenmpt dumps PCM of the header's length for a slot, or nothing.
Dumps(h) ==
  {u \in [DOMAIN h -> UNION {[1..n -> Bytes] : n \in {0} \cup {h[i].length : i \in DOMAIN h}}] :
     \A i \in DOMAIN h : Len(u[i]) \in {0, h[i].length}}

RepackInit ==
  /\ \E h \in Headers, d \in Files, t \in Tables :
       \E u \in Dumps(h.header) :
         module = [format |-> h.format, header |-> h.header, data |-> d, dump |-> u, tables |-> t]
  /\ dag = NoDag /\ served = Honest /\ rebuilt = Nothing

Bake(v) ==
  /\ dag = NoDag
  /\ dag' = CASE v = 1 -> BuildDag(module)
              [] v = 2 -> BuildDagV2(module)
              [] v = 3 -> BuildDagV3(module)
              [] v = 4 -> BuildDagV4(module)
  /\ UNCHANGED <<module, served, rebuilt>>

\* A peer hands out other bytes under the CID of a leaf, or under that of the manifest.
Tamper ==
  /\ dag.ok /\ served = Honest /\ rebuilt = Nothing
  /\ served' \in Leaves(dag) \cup {ManifestCid}
  /\ UNCHANGED <<module, dag, rebuilt>>

Rebuild ==
  /\ dag.ok /\ dag.v # 2 /\ rebuilt = Nothing
  /\ AllVerified(dag)
  /\ rebuilt' = [ok |-> TRUE, bytes |-> IF dag.v = 1 THEN Reassemble(dag) ELSE ReassembleV3(dag)]
  /\ UNCHANGED <<module, dag, served>>

RepackNext == (\E v \in 1..4 : Bake(v)) \/ Tamper \/ Rebuild
RepackSpec == RepackInit /\ [][RepackNext]_repackVars

-----------------------------------------------------------------------------
(* Whatever is rebuilt, from whatever a peer served, is the original file, *)
(* byte for byte: reassemble, reassembleV3 and reassembleV4 promise        *)
(* byte-exactness, and CID verification must stop everything else.         *)
RebuildExact == rebuilt.ok => rebuilt.bytes = module.data

\* Slots at one offset: the plan names only the last of them.
SharesOffset(m, i) ==
  LET slots == SampleSlots(m) IN
  \E j, k \in DOMAIN slots : j # k /\ slots[k].index = i /\ slots[j].offset = slots[k].offset

\* Where in the skeleton the slot's PCM lies.
SkeletonPcm(m, d, s) ==
  LET bytes == Assemble(d.parts, d.layout)
      at == IF s.index \in DOMAIN d.moved THEN d.moved[s.index] ELSE s.offset IN
  Sub(bytes, at, IF s.packed /\ s.index \notin DOMAIN d.moved THEN s.span ELSE s.length)

(* A streaming player hears every sample it is told to wait for and no     *)
(* silence in place of one: the plan waits for no sample that never comes; *)
(* a slot that is not streamed finds its own bytes in the skeleton; and    *)
(* one that is streamed from a table is named wherever the tables name its *)
(* offset, unless another slot lies there too (idxByOffset keeps one) or   *)
(* its bytes lie under a streamed neighbour.                               *)
StreamsSound ==
  dag.ok /\ dag.v # 1 =>
    LET streamed == {dag.samples[k].index : k \in DOMAIN dag.samples}
        slots == ToSet(SampleSlots(module)) IN
    /\ CoveredBy(dag.plan) \subseteq streamed
    /\ \A s \in slots : s.index \notin streamed =>
         \/ SkeletonPcm(module, dag, s) = Sub(module.data, s.offset, IF s.packed THEN s.span ELSE s.length)
         \/ \E t \in slots : t.index \in streamed /\ Zeroed(t) \cap Zeroed(s) # {}
    /\ \A s \in slots : s.index \in streamed /\ ~SharesOffset(module, s.index) =>
         \A k \in DOMAIN module.tables.checkpoints :
           s.offset \in module.tables.checkpoints[k] =>
             \E c \in ToSet(dag.plan) : c.order = k - 1 /\ s.index \in c.samples

RepackTypeOK ==
  /\ module.data \in Seq(Bytes)
  /\ \A i \in DOMAIN module.dump : module.dump[i] \in Seq(Bytes)
  /\ dag.v \in 0..4
  /\ rebuilt.bytes \in Seq(Bytes)
=============================================================================
