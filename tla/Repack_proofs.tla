---------------------------- MODULE Repack_proofs ----------------------------
(***************************************************************************)
(* Theorems about Repack, for every file, header, dump and seek table:    *)
(* what is rebuilt is the file (RebuildAlwaysExact), and a player that    *)
(* streams hears what it waits for (StreamsAlwaysSound).                  *)
(***************************************************************************)
EXTENDS Repack, FiniteSetTheorems, SequenceTheorems, WellFoundedInduction, TLAPS

-----------------------------------------------------------------------------
(* Numbers and recursions.  The recursive functions of the model count    *)
(* from 0 to the length of a sequence; what such a recursion yields is    *)
(* what its steps make of its base (RecursionIsThere), and of the type    *)
(* they keep (RecursionStays).                                            *)

\* Every set of numbers has a least one.
LEMMA LeastNumber ==
  ASSUME NEW S \in SUBSET Nat, S # {}
  PROVE  \E i \in S : \A j \in S : i <= j
<1>1. IsWellFoundedOn(OpToRel(<, Nat), Nat)
  BY NatLessThanWellFounded
<1>2. PICK i \in S : \A j \in S : <<j, i>> \notin OpToRel(<, Nat)
  BY <1>1, WFMin, Zenon
<1>3. \A j \in S : ~(j < i)
  BY <1>2 DEF OpToRel
<1> QED
  BY <1>3

(* Counting up from a to n, each step keeping what is so of the last one. *)
LEMMA CountUp ==
  ASSUME NEW a \in Nat, NEW n \in Nat, NEW G, a \in G,
         \A i \in (a + 1)..n : i - 1 \in G => i \in G
  PROVE  \A i \in a..n : i \in G
<1> DEFINE Bad == {i \in a..n : i \notin G}
<1>1. SUFFICES ASSUME Bad # {} PROVE FALSE
  OBVIOUS
<1>2. PICK b \in Bad : \A j \in Bad : b <= j
  <2> Bad \in SUBSET Nat
    OBVIOUS
  <2> HIDE DEF Bad
  <2> QED
    BY <1>1, LeastNumber
<1>3. b \in (a + 1)..n /\ b - 1 \notin Bad
  BY <1>2
<1> QED
  BY <1>2, <1>3

\* Max picks the greatest number of a bounded set.
LEMMA GreatestNumber ==
  ASSUME NEW n \in Nat, NEW S \in SUBSET (0..n), S # {}
  PROVE  Max(S) \in S /\ \A j \in S : j <= Max(S)
<1> DEFINE T == {n - i : i \in S}
<1>1. T \in SUBSET Nat /\ T # {}
  <2>1. \A i \in S : n - i \in Nat
    OBVIOUS
  <2>2. PICK i \in S : TRUE
    OBVIOUS
  <2>3. n - i \in T
    BY <2>2
  <2> QED
    BY <2>1, <2>3
<1>2. PICK t \in T : \A u \in T : t <= u
  <2> HIDE DEF T
  <2> QED
    BY <1>1, LeastNumber
<1>3. PICK i \in S : t = n - i
  BY <1>2
<1>4. \A j \in S : i >= j
  BY <1>2, <1>3
<1>5. \E x \in S : \A y \in S : x >= y
  BY <1>4
<1>6. Max(S) \in S /\ \A y \in S : Max(S) >= y
  BY <1>5 DEF Max
<1> QED
  BY <1>6

\* f runs n steps from base.
Runs(f, n, base, step) == f[0] = base /\ \A i \in 1..n : f[i] = step[i][f[i - 1]]

(* What a recursion over 1..n computes is there.                          *)
LEMMA RecursionIsThere ==
  ASSUME NEW n \in Nat, NEW V, NEW base \in V, NEW step \in [1..n -> [V -> V]]
  PROVE  \E f \in [0..n -> V] : Runs(f, n, base, step)
<1> DEFINE Upto(m) == \E f \in [0..m -> V] : Runs(f, m, base, step)
           G == {m \in 0..n : Upto(m)}
<1>1. 0 \in G
  <2> DEFINE f == [i \in 0..0 |-> base]
  <2>1. f \in [0..0 -> V] /\ f[0] = base /\ \A i \in 1..0 : f[i] = step[i][f[i - 1]]
    OBVIOUS
  <2>2. Upto(0)
    BY <2>1 DEF Runs
  <2> QED
    BY <2>2
<1>2. ASSUME NEW m \in 1..n, m - 1 \in G PROVE m \in G
  <2>1. PICK f \in [0..(m - 1) -> V] :
          f[0] = base /\ \A i \in 1..(m - 1) : f[i] = step[i][f[i - 1]]
    BY <1>2 DEF Runs
  <2> DEFINE g == [i \in 0..m |-> IF i = m THEN step[m][f[m - 1]] ELSE f[i]]
  <2>2. step[m] \in [V -> V] /\ f[m - 1] \in V
    BY <2>1
  <2>3. g \in [0..m -> V]
    BY <2>1, <2>2
  <2>4. g[0] = base
    BY <2>1
  <2>5. ASSUME NEW i \in 1..m PROVE g[i] = step[i][g[i - 1]]
    <3>1. CASE i = m
      BY <3>1
    <3>2. CASE i # m
      <4>1. i \in 1..(m - 1) /\ i - 1 # m
        BY <3>2
      <4> QED
        BY <2>1, <3>2, <4>1
    <3> QED
      BY <3>1, <3>2
  <2>6. Upto(m)
    <3> HIDE DEF g
    <3> QED
      BY <2>3, <2>4, <2>5 DEF Runs
  <2> HIDE DEF Upto
  <2> QED
    BY <2>6
<1>3. \A i \in 0..n : i \in G
  <2> HIDE DEF G
  <2>1. \A i \in (0 + 1)..n : i - 1 \in G => i \in G
    BY <1>2
  <2> QED
    BY <1>1, <2>1, CountUp
<1> QED
  BY <1>3

(* What a recursion yields is of the type its steps keep.                 *)
LEMMA RecursionStays ==
  ASSUME NEW n \in Nat, NEW V, NEW W, W[0] \in V,
         \A i \in 1..n : W[i - 1] \in V => W[i] \in V
  PROVE  \A i \in 0..n : W[i] \in V
<1> DEFINE G == {i \in 0..n : W[i] \in V}
<1>1. 0 \in G
  OBVIOUS
<1>2. \A i \in (0 + 1)..n : i - 1 \in G => i \in G
  OBVIOUS
<1>3. \A i \in 0..n : i \in G
  <2> HIDE DEF G
  <2> QED
    BY <1>1, <1>2, CountUp
<1> QED
  BY <1>3

(* The elements at some places of a sequence.                             *)
LEMMA OnlyRecursion ==
  ASSUME NEW X, NEW s \in Seq(X), NEW K
  PROVE  /\ OnlyUpTo(s, K)[0] = <<>>
         /\ \A i \in 1..Len(s) : OnlyUpTo(s, K)[i] =
              IF i \in K THEN Append(OnlyUpTo(s, K)[i - 1], s[i]) ELSE OnlyUpTo(s, K)[i - 1]
         /\ \A i \in 0..Len(s) : OnlyUpTo(s, K)[i] \in Seq(X)
<1> DEFINE n == Len(s)
           V == Seq(X)
           Is(f) == f = [i \in 0..n |-> IF i = 0 THEN <<>>
                                        ELSE IF i \in K THEN Append(f[i - 1], s[i]) ELSE f[i - 1]]
           step == [i \in 1..n |-> [p \in V |-> IF i \in K THEN Append(p, s[i]) ELSE p]]
           W == OnlyUpTo(s, K)
<1>1. n \in Nat /\ <<>> \in V
  OBVIOUS
<1>2. step \in [1..n -> [V -> V]]
  OBVIOUS
<1>3. PICK f \in [0..n -> V] : f[0] = <<>> /\ \A i \in 1..n : f[i] = step[i][f[i - 1]]
  <2>1. \E f \in [0..n -> V] : Runs(f, n, <<>>, step)
    <3> HIDE DEF step, n, V
    <3> QED
      BY <1>1, <1>2, RecursionIsThere, Zenon
  <2> QED
    BY <2>1 DEF Runs
<1>4. Is(f)
  <2>1. ASSUME NEW i \in 0..n
        PROVE  f[i] = IF i = 0 THEN <<>> ELSE IF i \in K THEN Append(f[i - 1], s[i]) ELSE f[i - 1]
    <3>1. CASE i = 0
      BY <1>3, <3>1
    <3>2. CASE i # 0
      <4>1. i \in 1..n /\ i - 1 \in 0..n
        BY <3>2
      <4>2. f[i - 1] \in V
        BY <1>3, <4>1
      <4> QED
        BY <1>3, <3>2, <4>1, <4>2
    <3> QED
      BY <3>1, <3>2
  <2> QED
    BY <1>3, <2>1
<1>5. W = CHOOSE f1 : Is(f1)
  BY DEF OnlyUpTo
<1>6. Is(W)
  BY <1>4, <1>5
<1>7. W[0] = <<>>
  BY <1>6
<1>8. ASSUME NEW i \in 1..n
      PROVE  W[i] = IF i \in K THEN Append(W[i - 1], s[i]) ELSE W[i - 1]
  <2>1. i \in 0..n /\ i # 0
    OBVIOUS
  <2> QED
    BY <1>6, <2>1
<1>9. \A i \in 0..n : W[i] \in V
  <2>1. ASSUME NEW i \in 1..n, W[i - 1] \in V PROVE W[i] \in V
    <3>1. s[i] \in X
      OBVIOUS
    <3> HIDE DEF W
    <3>2. Append(W[i - 1], s[i]) \in V
      BY <2>1, <3>1
    <3> QED
      BY <1>8, <2>1, <3>2
  <2> HIDE DEF W, V, n
  <2> QED
    BY <1>1, <1>7, <2>1, RecursionStays
<1> QED
  BY <1>7, <1>8, <1>9

\* f tells where each element of p stands in s.
Picks(f, s, K, i, p) ==
  /\ f \in [1..Len(p) -> 1..i]
  /\ \A j \in 1..Len(p) : f[j] \in K /\ p[j] = s[f[j]]
  /\ \A j, k \in 1..Len(p) : j < k => f[j] < f[k]
  /\ \A t \in 1..i : t \in K => \E j \in 1..Len(p) : f[j] = t

(* Only picks the elements at the places K, all of them and in their order. *)
LEMMA OnlyPicks ==
  ASSUME NEW X, NEW s \in Seq(X), NEW K
  PROVE  /\ Only(s, K) \in Seq(X)
         /\ \E f : Picks(f, s, K, Len(s), Only(s, K))
<1> DEFINE n == Len(s)
           W == OnlyUpTo(s, K)
           G == {i \in 0..n : \E f : Picks(f, s, K, i, W[i])}
<1>1. /\ W[0] = <<>>
      /\ \A i \in 1..n : W[i] = IF i \in K THEN Append(W[i - 1], s[i]) ELSE W[i - 1]
      /\ \A i \in 0..n : W[i] \in Seq(X)
  BY OnlyRecursion
<1> HIDE DEF W
<1>2. 0 \in G
  <2>1. Picks(<<>>, s, K, 0, W[0])
    BY <1>1 DEF Picks
  <2> QED
    BY <2>1
<1>3. ASSUME NEW i \in (0 + 1)..n, i - 1 \in G PROVE i \in G
  <2> DEFINE p == W[i - 1]
  <2>1. p \in Seq(X) /\ Len(p) \in Nat /\ i \in 1..n
    BY <1>1
  <2>2. PICK f : Picks(f, s, K, i - 1, p)
    BY <1>3
  <2> HIDE DEF p
  <2>3. CASE i \notin K
    <3>1. W[i] = p
      BY <1>1, <2>1, <2>3 DEF p
    <3>2. Picks(f, s, K, i, p)
      BY <2>1, <2>2, <2>3 DEF Picks
    <3> QED
      BY <3>1, <3>2
  <2>4. CASE i \in K
    <3> DEFINE q == Append(p, s[i])
               g == [j \in 1..(Len(p) + 1) |-> IF j = Len(p) + 1 THEN i ELSE f[j]]
    <3>1. W[i] = q
      BY <1>1, <2>1, <2>4 DEF p
    <3>2. Len(q) = Len(p) + 1 /\ q[Len(p) + 1] = s[i] /\ \A j \in 1..Len(p) : q[j] = p[j]
      BY <2>1
    <3>3. f \in [1..Len(p) -> 1..(i - 1)]
      BY <2>2 DEF Picks
    <3>4. g \in [1..Len(q) -> 1..i]
      BY <2>1, <3>2, <3>3
    <3>5. \A j \in 1..Len(q) : g[j] \in K /\ q[j] = s[g[j]]
      <4> TAKE j \in 1..Len(q)
      <4>1. CASE j = Len(p) + 1
        BY <2>1, <2>4, <3>2, <4>1
      <4>2. CASE j # Len(p) + 1
        <5>1. j \in 1..Len(p)
          BY <2>1, <3>2, <4>2
        <5> QED
          BY <2>1, <2>2, <3>2, <4>2, <5>1 DEF Picks
      <4> QED
        BY <4>1, <4>2
    <3>6. \A j, k \in 1..Len(q) : j < k => g[j] < g[k]
      <4> TAKE j, k \in 1..Len(q)
      <4> HAVE j < k
      <4>1. j \in 1..Len(p) /\ g[j] = f[j] /\ f[j] \in 1..(i - 1)
        BY <2>1, <3>2, <3>3
      <4>2. CASE k = Len(p) + 1
        BY <2>1, <4>1, <4>2
      <4>3. CASE k # Len(p) + 1
        <5>1. k \in 1..Len(p) /\ g[k] = f[k]
          BY <2>1, <3>2, <4>3
        <5> QED
          BY <2>2, <4>1, <5>1 DEF Picks
      <4> QED
        BY <4>2, <4>3
    <3>7. \A t \in 1..i : t \in K => \E j \in 1..Len(q) : g[j] = t
      <4> TAKE t \in 1..i
      <4> HAVE t \in K
      <4>1. CASE t = i
        BY <2>1, <3>2, <4>1
      <4>2. CASE t # i
        <5>1. t \in 1..(i - 1)
          BY <2>1, <4>2
        <5>2. PICK j \in 1..Len(p) : f[j] = t
          BY <2>2, <5>1 DEF Picks
        <5>3. j \in 1..Len(q) /\ g[j] = t
          BY <2>1, <3>2, <5>2
        <5> QED
          BY <5>3
      <4> QED
        BY <4>1, <4>2
    <3> HIDE DEF g, q
    <3>8. Picks(g, s, K, i, q)
      BY <3>4, <3>5, <3>6, <3>7 DEF Picks
    <3> QED
      BY <3>1, <3>8
  <2> QED
    BY <2>3, <2>4
<1>4. \A i \in 0..n : i \in G
  <2>1. n \in Nat
    OBVIOUS
  <2> HIDE DEF G, n
  <2> QED
    BY <1>2, <1>3, <2>1, CountUp
<1>5. n \in 0..n
  OBVIOUS
<1> QED
  BY <1>1, <1>4, <1>5 DEF Only, W

(* The runs of a sequence of sequences, one after the other.              *)
FlattenUpTo(ss) ==
  LET flatten[i \in 1..Len(ss)] == IF i = 1 THEN ss[i] ELSE flatten[i - 1] \o ss[i] IN flatten

(* A flattening goes on by one sequence at a time.                        *)
LEMMA FlattenRecursion ==
  ASSUME NEW X, NEW ss \in Seq(Seq(X))
  PROVE  /\ Len(ss) > 0 => FlattenUpTo(ss)[1] = ss[1]
         /\ \A i \in 2..Len(ss) : FlattenUpTo(ss)[i] = FlattenUpTo(ss)[i - 1] \o ss[i]
         /\ \A i \in 1..Len(ss) : FlattenUpTo(ss)[i] \in Seq(X)
<1> DEFINE n == Len(ss)
           V == Seq(X)
           Is(f) == f = [i \in 1..n |-> IF i = 1 THEN ss[i] ELSE f[i - 1] \o ss[i]]
           step == [i \in 1..n |-> [p \in V |-> p \o ss[i]]]
           W == FlattenUpTo(ss)
<1>1. n \in Nat /\ <<>> \in V /\ \A i \in 1..n : ss[i] \in V
  OBVIOUS
<1>2. step \in [1..n -> [V -> V]]
  BY <1>1
<1>3. PICK f \in [0..n -> V] : f[0] = <<>> /\ \A i \in 1..n : f[i] = step[i][f[i - 1]]
  <2>1. \E f \in [0..n -> V] : Runs(f, n, <<>>, step)
    <3> HIDE DEF step, n, V
    <3> QED
      BY <1>1, <1>2, RecursionIsThere, Zenon
  <2> QED
    BY <2>1 DEF Runs
<1> DEFINE g == [i \in 1..n |-> f[i]]
<1>4. Is(g)
  <2>1. ASSUME NEW i \in 1..n
        PROVE  f[i] = IF i = 1 THEN ss[i] ELSE g[i - 1] \o ss[i]
    <3>1. i - 1 \in 0..n /\ f[i - 1] \in V
      BY <1>3
    <3>2. f[i] = f[i - 1] \o ss[i]
      BY <1>3, <3>1
    <3>3. CASE i = 1
      BY <1>1, <1>3, <3>2, <3>3
    <3>4. CASE i # 1
      <4>1. i - 1 \in 1..n
        BY <3>4
      <4> QED
        BY <3>2, <3>4, <4>1
    <3> QED
      BY <3>3, <3>4
  <2> QED
    BY <2>1
<1>5. W = CHOOSE f1 : Is(f1)
  BY DEF FlattenUpTo
<1> HIDE DEF g
<1>6. Is(W)
  BY <1>4, <1>5
<1>7. n > 0 => W[1] = ss[1]
  BY <1>1, <1>6
<1>8. ASSUME NEW i \in 2..n
      PROVE  W[i] = W[i - 1] \o ss[i]
  <2>1. i \in 1..n /\ i # 1
    OBVIOUS
  <2> QED
    BY <1>6, <2>1
<1>9. \A i \in 1..n : W[i] \in V
  <2> DEFINE G == {i \in 1..n : W[i] \in V}
  <2>1. CASE n = 0
    BY <2>1
  <2>2. CASE n # 0
    <3>1. 1 \in G
      BY <1>1, <1>7, <2>2
    <3>2. ASSUME NEW i \in (1 + 1)..n, i - 1 \in G PROVE i \in G
      <4>1. i \in 2..n /\ i \in 1..n
        OBVIOUS
      <4>2. W[i] = W[i - 1] \o ss[i]
        BY <1>8, <4>1
      <4>3. W[i - 1] \in V /\ ss[i] \in V
        BY <1>1, <3>2, <4>1
      <4> HIDE DEF W
      <4>4. W[i - 1] \o ss[i] \in V
        BY <4>3
      <4> QED
        BY <4>1, <4>2, <4>4
    <3>3. \A i \in 1..n : i \in G
      <4> HIDE DEF G, n
      <4> QED
        BY <1>1, <3>1, <3>2, CountUp
    <3> QED
      BY <3>3
  <2> QED
    BY <2>1, <2>2
<1> QED
  BY <1>7, <1>8, <1>9

\* FlattenSeq is the last step of that recursion.
LEMMA FlattenIs ==
  ASSUME NEW ss
  PROVE  FlattenSeq(ss) = IF Len(ss) = 0 THEN ss ELSE FlattenUpTo(ss)[Len(ss)]
BY DEF FlattenSeq, FlattenUpTo

\* Two sequences of sequences that begin alike flatten alike so far.
LEMMA FlattenAlike ==
  ASSUME NEW X, NEW ss \in Seq(Seq(X)), NEW tt \in Seq(Seq(X)),
         NEW n \in 1..Len(ss), n <= Len(tt), \A i \in 1..n : ss[i] = tt[i]
  PROVE  FlattenUpTo(ss)[n] = FlattenUpTo(tt)[n]
<1> DEFINE G == {i \in 1..n : FlattenUpTo(ss)[i] = FlattenUpTo(tt)[i]}
<1>0. n \in Nat /\ n >= 1 /\ n <= Len(ss)
  OBVIOUS
<1>1. 1 \in G
  <2>1. FlattenUpTo(ss)[1] = ss[1]
    <3>1. Len(ss) > 0
      BY <1>0
    <3> QED
      BY <3>1, FlattenRecursion
  <2>2. Len(tt) > 0
    BY <1>0
  <2>3. FlattenUpTo(tt)[1] = tt[1]
    BY <2>2, FlattenRecursion
  <2> QED
    BY <1>0, <2>1, <2>3
<1>2. ASSUME NEW i \in (1 + 1)..n, i - 1 \in G PROVE i \in G
  <2>1. i \in 2..Len(ss) /\ i \in 2..Len(tt) /\ i \in 1..n
    BY <1>0
  <2>2. FlattenUpTo(ss)[i] = FlattenUpTo(ss)[i - 1] \o ss[i]
    BY <2>1, FlattenRecursion
  <2>3. FlattenUpTo(tt)[i] = FlattenUpTo(tt)[i - 1] \o tt[i]
    BY <2>1, FlattenRecursion
  <2> QED
    BY <1>2, <2>1, <2>2, <2>3
<1>3. \A i \in 1..n : i \in G
  <2> HIDE DEF G
  <2> QED
    BY <1>0, <1>1, <1>2, CountUp
<1> QED
  BY <1>0, <1>3

\* Sequences over X flatten to a sequence over X.
LEMMA FlattenType ==
  ASSUME NEW X, NEW ss \in Seq(Seq(X))
  PROVE  FlattenSeq(ss) \in Seq(X) /\ FlattenSeq(<<>>) = <<>>
<1>1. CASE Len(ss) = 0
  <2>1. FlattenSeq(ss) = ss /\ ss = <<>>
    BY <1>1, FlattenIs
  <2> QED
    BY <2>1
<1>2. CASE Len(ss) # 0
  <2>1. Len(ss) \in 1..Len(ss)
    BY <1>2
  <2> QED
    BY <1>2, <2>1, FlattenIs, FlattenRecursion
<1>3. FlattenSeq(<<>>) = <<>>
  BY FlattenIs
<1> QED
  BY <1>1, <1>2, <1>3

\* One more sequence adds its elements at the end.
LEMMA FlattenAppend ==
  ASSUME NEW X, NEW ss \in Seq(Seq(X)), NEW x \in Seq(X)
  PROVE  FlattenSeq(Append(ss, x)) = FlattenSeq(ss) \o x
<1> DEFINE tt == Append(ss, x)
           n == Len(ss)
<1>1. tt \in Seq(Seq(X)) /\ Len(tt) = n + 1 /\ tt[n + 1] = x /\ n \in Nat
      /\ \A i \in 1..n : tt[i] = ss[i]
  OBVIOUS
<1> HIDE DEF tt
<1>2. FlattenSeq(tt) = FlattenUpTo(tt)[n + 1]
  BY <1>1, FlattenIs
<1>3. CASE n = 0
  <2>1. FlattenUpTo(tt)[1] = x
    <3>1. Len(tt) > 0 /\ tt[1] = x
      BY <1>1, <1>3
    <3> QED
      BY <1>1, <3>1, FlattenRecursion
  <2>2. FlattenSeq(ss) = <<>>
    BY <1>3, FlattenIs
  <2> QED
    BY <1>2, <1>3, <2>1, <2>2 DEF tt
<1>4. CASE n # 0
  <2>1. n + 1 \in 2..Len(tt) /\ n \in 1..n /\ n <= Len(tt) /\ (n + 1) - 1 = n
    BY <1>1, <1>4
  <2>2. FlattenUpTo(tt)[n + 1] = FlattenUpTo(tt)[n] \o x
    BY <1>1, <2>1, FlattenRecursion
  <2>3. FlattenUpTo(tt)[n] = FlattenUpTo(ss)[n]
    BY <1>1, <2>1, FlattenAlike
  <2>4. FlattenSeq(ss) = FlattenUpTo(ss)[n]
    BY <1>4, FlattenIs
  <2> QED
    BY <1>2, <2>2, <2>3, <2>4 DEF tt
<1> QED
  BY <1>3, <1>4

-----------------------------------------------------------------------------
(* cdc.ts: the chunks of a buffer, one after the other, are the buffer.   *)

(* A sequence is its front and its last element.                          *)
LEMMA FrontLast ==
  ASSUME NEW X, NEW p \in Seq(X), p # <<>>
  PROVE  /\ Len(p) \in Nat \ {0} /\ Last(p) \in X /\ Last(p) = p[Len(p)]
         /\ Front(p) \in Seq(X) /\ Len(Front(p)) = Len(p) - 1
         /\ \A k \in 1..(Len(p) - 1) : Front(p)[k] = p[k]
         /\ p = Append(Front(p), Last(p))
<1>1. PICK s \in Seq(X), e \in X : p = Append(s, e)
  BY SequenceEmptyOrAppend
<1>2. Len(p) = Len(s) + 1 /\ p[Len(s) + 1] = e /\ Len(s) \in Nat
      /\ \A i \in 1..Len(s) : p[i] = s[i] /\ p[i] \in X
  BY <1>1
<1>3. Last(p) = e
  BY <1>2 DEF Last
<1>4. Front(p) = SubSeq(p, 1, Len(s))
  BY <1>2 DEF Front
<1>5. /\ SubSeq(p, 1, Len(s)) \in Seq(X) /\ Len(SubSeq(p, 1, Len(s))) = Len(s)
      /\ \A i \in 1..Len(s) : SubSeq(p, 1, Len(s))[i] = s[i]
  BY <1>2
<1>6. Front(p) = s
  BY <1>4, <1>5, SeqEqual
<1> QED
  BY <1>1, <1>2, <1>3, <1>6

(* Chunking loses nothing: the chunks of a buffer, one after the other.   *)
NextChunk(done, b) ==
  IF done = <<>> \/ Cuts(Last(done)) THEN Append(done, <<b>>)
  ELSE Append(Front(done), Append(Last(done), b))

\* One more byte adds itself to the chunks.
LEMMA NextChunkFlat ==
  ASSUME NEW X, NEW done \in Seq(Seq(X)), NEW b \in X
  PROVE  /\ NextChunk(done, b) \in Seq(Seq(X))
         /\ FlattenSeq(NextChunk(done, b)) = Append(FlattenSeq(done), b)
<1>1. FlattenSeq(done) \in Seq(X) /\ <<b>> \in Seq(X)
  BY FlattenType
<1>2. CASE done = <<>> \/ Cuts(Last(done))
  <2>1. NextChunk(done, b) = Append(done, <<b>>)
    BY <1>2 DEF NextChunk
  <2>2. Append(done, <<b>>) \in Seq(Seq(X))
    BY <1>1, AppendProperties
  <2>3. FlattenSeq(Append(done, <<b>>)) = FlattenSeq(done) \o <<b>>
    BY <1>1, FlattenAppend
  <2>4. FlattenSeq(done) \o <<b>> = Append(FlattenSeq(done), b)
    BY <1>1, AppendIsConcat
  <2> QED
    BY <2>1, <2>2, <2>3, <2>4
<1>3. CASE ~(done = <<>> \/ Cuts(Last(done)))
  <2> DEFINE front == Front(done)
             last == Last(done)
             longer == Append(last, b)
  <2>1. front \in Seq(Seq(X)) /\ last \in Seq(X) /\ done = Append(front, last)
    <3>1. done # <<>>
      BY <1>3
    <3> QED
      BY <3>1, FrontLast
  <2>2. NextChunk(done, b) = Append(front, longer)
    BY <1>3 DEF NextChunk
  <2> HIDE DEF front, last
  <2>3. longer \in Seq(X) /\ FlattenSeq(front) \in Seq(X)
    BY <2>1, FlattenType
  <2>4. FlattenSeq(Append(front, longer)) = FlattenSeq(front) \o longer
    BY <2>1, <2>3, FlattenAppend
  <2>5. FlattenSeq(done) = FlattenSeq(front) \o last
    BY <2>1, FlattenAppend
  <2>6. FlattenSeq(front) \o longer = Append(FlattenSeq(front) \o last, b)
    BY <2>1, <2>3
  <2>7. Append(front, longer) \in Seq(Seq(X))
    BY <2>1, <2>3, AppendProperties
  <2> QED
    BY <2>2, <2>4, <2>5, <2>6, <2>7
<1> QED
  BY <1>2, <1>3

(* The chunker goes on by one byte at a time.                             *)
LEMMA ChunksRecursion ==
  ASSUME NEW X, NEW buf \in Seq(X)
  PROVE  /\ ChunksUpTo(buf)[0] = <<>>
         /\ \A i \in 1..Len(buf) : ChunksUpTo(buf)[i] = NextChunk(ChunksUpTo(buf)[i - 1], buf[i])
         /\ \A i \in 0..Len(buf) : ChunksUpTo(buf)[i] \in Seq(Seq(X))
<1> DEFINE n == Len(buf)
           V == Seq(Seq(X))
           Is(f) == f = [i \in 0..n |-> IF i = 0 THEN <<>> ELSE NextChunk(f[i - 1], buf[i])]
           step == [i \in 1..n |-> [p \in V |-> NextChunk(p, buf[i])]]
           W == ChunksUpTo(buf)
<1>1. n \in Nat /\ <<>> \in V /\ \A i \in 1..n : buf[i] \in X
  OBVIOUS
<1>2. step \in [1..n -> [V -> V]]
  BY <1>1, NextChunkFlat
<1>3. PICK f \in [0..n -> V] : f[0] = <<>> /\ \A i \in 1..n : f[i] = step[i][f[i - 1]]
  <2>1. \E f \in [0..n -> V] : Runs(f, n, <<>>, step)
    <3> HIDE DEF step, n, V
    <3> QED
      BY <1>1, <1>2, RecursionIsThere, Zenon
  <2> QED
    BY <2>1 DEF Runs
<1>4. Is(f)
  <2>1. ASSUME NEW i \in 0..n
        PROVE  f[i] = IF i = 0 THEN <<>> ELSE NextChunk(f[i - 1], buf[i])
    <3>1. CASE i = 0
      BY <1>3, <3>1
    <3>2. CASE i # 0
      <4>1. i \in 1..n /\ i - 1 \in 0..n
        BY <3>2
      <4>2. f[i - 1] \in V
        BY <1>3, <4>1
      <4> QED
        BY <1>3, <3>2, <4>1, <4>2
    <3> QED
      BY <3>1, <3>2
  <2> QED
    BY <1>3, <2>1
<1>5. W = CHOOSE f1 : Is(f1)
  BY DEF ChunksUpTo, NextChunk
<1>6. Is(W)
  BY <1>4, <1>5
<1>7. W[0] = <<>>
  BY <1>6
<1>8. ASSUME NEW i \in 1..n
      PROVE  W[i] = NextChunk(W[i - 1], buf[i])
  <2>1. i \in 0..n /\ i # 0
    OBVIOUS
  <2> QED
    BY <1>6, <2>1
<1>9. \A i \in 0..n : W[i] \in V
  <2>1. ASSUME NEW i \in 1..n, W[i - 1] \in V PROVE W[i] \in V
    BY <1>1, <1>8, <2>1, NextChunkFlat
  <2> HIDE DEF W, V, n
  <2> QED
    BY <1>1, <1>7, <2>1, RecursionStays
<1> QED
  BY <1>7, <1>8, <1>9

(* cdcChunks: the chunks of a buffer put together are the buffer.         *)
LEMMA ChunksWhole ==
  ASSUME NEW X, NEW buf \in Seq(X)
  PROVE  CdcChunks(buf) \in Seq(Seq(X)) /\ FlattenSeq(CdcChunks(buf)) = buf
<1> DEFINE n == Len(buf)
           W == ChunksUpTo(buf)
           G == {i \in 0..n : FlattenSeq(W[i]) = SubSeq(buf, 1, i)}
<1>1. /\ W[0] = <<>> /\ n \in Nat
      /\ \A i \in 1..n : W[i] = NextChunk(W[i - 1], buf[i])
      /\ \A i \in 0..n : W[i] \in Seq(Seq(X))
  BY ChunksRecursion
<1> HIDE DEF W
<1>2. 0 \in G
  <2>1. FlattenSeq(<<>>) = <<>>
    BY FlattenIs
  <2> QED
    BY <1>1, <2>1
<1>3. ASSUME NEW i \in (0 + 1)..n, i - 1 \in G PROVE i \in G
  <2>1. i \in 1..n /\ i \in 0..n /\ i - 1 \in 0..n /\ buf[i] \in X /\ W[i - 1] \in Seq(Seq(X))
    BY <1>1
  <2>2. FlattenSeq(W[i]) = Append(FlattenSeq(W[i - 1]), buf[i])
    BY <1>1, <2>1, NextChunkFlat
  <2>3. Append(SubSeq(buf, 1, i - 1), buf[i]) = SubSeq(buf, 1, i)
    <3>1. SubSeq(buf, 1, i) = SubSeq(buf, 1, i - 1) \o <<buf[i]>>
      BY <2>1, SubSeqRecursiveSecond
    <3>2. SubSeq(buf, 1, i - 1) \in Seq(X)
      BY <2>1
    <3> QED
      BY <2>1, <3>1, <3>2, AppendIsConcat
  <2> QED
    BY <1>3, <2>1, <2>2, <2>3
<1>4. \A i \in 0..n : i \in G
  <2> HIDE DEF G, n
  <2> QED
    BY <1>1, <1>2, <1>3, CountUp
<1>5. FlattenSeq(W[n]) = SubSeq(buf, 1, n) /\ W[n] \in Seq(Seq(X))
  BY <1>1, <1>4
<1>6. SubSeq(buf, 1, n) = buf
  BY SubSeqFull
<1> QED
  BY <1>5, <1>6 DEF CdcChunks, W

-----------------------------------------------------------------------------
(* dag.ts: the recipe of a skeleton.  mergeSpans finds ascending runs of  *)
(* zeros, the groups of chunks lie between them, and what assembleSkeleton *)
(* makes of the recipe is the skeleton (RecipeWhole).                     *)

\* The runs after one more position.
NextSpans(done, i, zeroed) ==
  IF i \notin zeroed THEN done
  ELSE IF done # <<>> /\ Last(done)[2] = i - 1
       THEN Append(Front(done), <<Last(done)[1], i>>)
  ELSE Append(done, <<i, i>>)

(* mergeSpans: the runs of zeroed positions.                              *)
LEMMA SpansRecursion ==
  ASSUME NEW zeroed, NEW m \in Nat
  PROVE  /\ SpansUpTo(zeroed, m)[0] = <<>>
         /\ \A i \in 1..m : SpansUpTo(zeroed, m)[i] = NextSpans(SpansUpTo(zeroed, m)[i - 1], i, zeroed)
         /\ \A i \in 0..m : SpansUpTo(zeroed, m)[i] \in Seq(Nat \X Nat)
<1> DEFINE n == m
           V == Seq(Nat \X Nat)
           W == SpansUpTo(zeroed, m)
           Next(p, i) == NextSpans(p, i, zeroed)
           step == [i \in 1..n |-> [p \in V |-> Next(p, i)]]
           Is(f) == f = [i \in 0..n |-> IF i = 0 THEN <<>> ELSE Next(f[i - 1], i)]
<1>1. n \in Nat /\ <<>> \in V /\ \A i \in 1..n, p \in V : Next(p, i) \in V
  <2> SUFFICES ASSUME NEW i \in 1..m, NEW p \in V PROVE NextSpans(p, i, zeroed) \in V
    BY EmptySeq
  <2>1. CASE p # <<>>
    <3>1. Front(p) \in V /\ Last(p) \in Nat \X Nat
      BY <2>1, FrontLast
    <3>2. <<Last(p)[1], i>> \in Nat \X Nat /\ <<i, i>> \in Nat \X Nat
      BY <3>1
    <3>3. Append(Front(p), <<Last(p)[1], i>>) \in V /\ Append(p, <<i, i>>) \in V
      BY <3>1, <3>2, AppendProperties
    <3> QED
      BY <3>3 DEF NextSpans
  <2>2. CASE p = <<>>
    <3>1. <<i, i>> \in Nat \X Nat
      OBVIOUS
    <3>2. Append(p, <<i, i>>) \in V
      BY <3>1, AppendProperties
    <3> QED
      BY <2>2, <3>2 DEF NextSpans
  <2> QED
    BY <2>1, <2>2
<1>2. W = CHOOSE f1 : Is(f1)
  BY DEF SpansUpTo, NextSpans
<1>3. \E f \in [0..n -> V] : Is(f)
  <2>1. step \in [1..n -> [V -> V]]
    <3> HIDE DEF Next, V, n
    <3> QED
      BY <1>1
  <2>2. \E f \in [0..n -> V] : Runs(f, n, <<>>, step)
    <3> HIDE DEF step, n, V
    <3> QED
      BY <1>1, <2>1, RecursionIsThere, Zenon
  <2>3. PICK f \in [0..n -> V] : f[0] = <<>> /\ \A i \in 1..n : f[i] = step[i][f[i - 1]]
    BY <2>2 DEF Runs
  <2> HIDE DEF Next, V, n
  <2>4. ASSUME NEW i \in 0..n
        PROVE  f[i] = IF i = 0 THEN <<>> ELSE Next(f[i - 1], i)
    <3>1. CASE i = 0
      BY <2>3, <3>1
    <3>2. CASE i # 0
      <4>1. i \in 1..n /\ i - 1 \in 0..n
        BY <1>1, <3>2
      <4>2. f[i - 1] \in V
        BY <2>3, <4>1
      <4> QED
        BY <2>3, <3>2, <4>1, <4>2
    <3> QED
      BY <3>1, <3>2
  <2> QED
    BY <2>3, <2>4
<1>4. Is(W)
  <2> HIDE DEF Next, V, n, W
  <2> QED
    BY <1>2, <1>3
<1>5. W[0] = <<>> /\ \A i \in 1..n : W[i] = Next(W[i - 1], i)
  <2> HIDE DEF Next, V, n, W
  <2>1. ASSUME NEW i \in 1..n PROVE i \in 0..n /\ i # 0
    BY <1>1
  <2> QED
    BY <1>1, <1>4, <2>1
<1>6. \A i \in 0..n : W[i] \in V
  <2> HIDE DEF Next, V, n, W, Is
  <2> QED
    BY <1>1, <1>5, RecursionStays
<1> QED
  BY <1>5, <1>6

\* Ascending runs of zeroed positions, the last of which ends at i or before it.
Ascending(spans, zeroed, i) ==
  /\ \A k \in 1..Len(spans) : /\ 1 <= spans[k][1] /\ spans[k][1] <= spans[k][2] /\ spans[k][2] <= i
                              /\ spans[k][1]..spans[k][2] \subseteq zeroed
  /\ \A k \in 2..Len(spans) : spans[k - 1][2] < spans[k][1]

\* One more position keeps the runs in order.
LEMMA NextAscending ==
  ASSUME NEW zeroed, NEW i \in Nat \ {0}, NEW p \in Seq(Nat \X Nat), Ascending(p, zeroed, i - 1)
  PROVE  Ascending(NextSpans(p, i, zeroed), zeroed, i)
<1> DEFINE q == NextSpans(p, i, zeroed)
<1>0. Len(p) \in Nat /\ \A k \in 1..Len(p) : p[k][1] \in Nat /\ p[k][2] \in Nat
  <2>1. \A k \in 1..Len(p) : p[k] \in Nat \X Nat
    OBVIOUS
  <2> QED
    BY <2>1
<1>1. CASE i \notin zeroed
  <2>1. q = p
    BY <1>1 DEF NextSpans
  <2> QED
    BY <1>0, <2>1 DEF Ascending
<1>2. CASE i \in zeroed /\ p # <<>> /\ Last(p)[2] = i - 1
  <2> DEFINE f == Front(p)
             e == <<Last(p)[1], i>>
             n == Len(p)
  <2>1. /\ n \in Nat \ {0} /\ Last(p) = p[n] /\ f \in Seq(Nat \X Nat) /\ Len(f) = n - 1
        /\ \A k \in 1..(n - 1) : f[k] = p[k]
    BY <1>2, FrontLast
  <2>2. e \in Nat \X Nat /\ e[1] = p[n][1] /\ e[2] = i /\ p[n][1] \in Nat
    BY <1>0, <2>1
  <2>3. q = Append(f, e)
    BY <1>2 DEF NextSpans
  <2> HIDE DEF f, e
  <2>4. Len(q) = n /\ q[n] = e /\ \A k \in 1..(n - 1) : q[k] = p[k]
    BY <2>1, <2>2, <2>3
  <2> HIDE DEF q, n
  <2>5. /\ \A k \in 1..n : /\ 1 <= p[k][1] /\ p[k][1] <= p[k][2] /\ p[k][2] <= i - 1
                           /\ p[k][1]..p[k][2] \subseteq zeroed
        /\ \A k \in 2..n : p[k - 1][2] < p[k][1]
    BY DEF Ascending, n
  <2>6. /\ 1 <= q[n][1] /\ q[n][1] <= q[n][2] /\ q[n][2] <= i
        /\ q[n][1]..q[n][2] \subseteq zeroed
    <3>1. n \in 1..n
      BY <2>1
    <3>2. p[n][2] = i - 1
      BY <1>2, <2>1
    <3>3. \A x \in q[n][1]..i : x \in p[n][1]..p[n][2] \/ x = i
      BY <2>2, <2>4, <3>2
    <3> QED
      BY <1>2, <2>2, <2>4, <2>5, <3>1, <3>2, <3>3
  <2>7. ASSUME NEW k \in 1..n
        PROVE  /\ 1 <= q[k][1] /\ q[k][1] <= q[k][2] /\ q[k][2] <= i
               /\ q[k][1]..q[k][2] \subseteq zeroed
    <3>1. CASE k = n
      BY <2>6, <3>1
    <3>2. CASE k # n
      <4>0. k \in 1..(n - 1)
        BY <2>1, <3>2
      <4>1. k \in 1..(n - 1) /\ q[k] = p[k]
        BY <2>4, <4>0
      <4>2. p[k][1] \in Nat /\ p[k][2] \in Nat
        BY <1>0 DEF n
      <4> QED
        BY <2>5, <4>1, <4>2
    <3> QED
      BY <3>1, <3>2
  <2>8. ASSUME NEW k \in 2..n PROVE q[k - 1][2] < q[k][1]
    <3>1. k - 1 \in 1..(n - 1) /\ q[k - 1] = p[k - 1]
      BY <2>1, <2>4
    <3>2. q[k][1] = p[k][1]
      <4>1. CASE k = n
        BY <2>2, <2>4, <4>1
      <4>2. CASE k # n
        <5>1. k \in 1..(n - 1)
          BY <2>1, <4>2
        <5> QED
          BY <2>4, <5>1
      <4> QED
        BY <4>1, <4>2
    <3> QED
      BY <2>5, <3>1, <3>2
  <2> QED
    BY <2>4, <2>7, <2>8 DEF Ascending, q
<1>3. CASE i \in zeroed /\ ~(p # <<>> /\ Last(p)[2] = i - 1)
  <2> DEFINE e == <<i, i>>
             n == Len(p)
  <2>1. q = Append(p, e)
    BY <1>3 DEF NextSpans
  <2>2. Len(q) = n + 1 /\ q[n + 1] = <<i, i>> /\ \A k \in 1..n : q[k] = p[k]
    BY <2>1
  <2>5. /\ \A k \in 1..n : /\ 1 <= p[k][1] /\ p[k][1] <= p[k][2] /\ p[k][2] <= i - 1
                           /\ p[k][1]..p[k][2] \subseteq zeroed
        /\ \A k \in 2..n : p[k - 1][2] < p[k][1]
    BY DEF Ascending
  <2> HIDE DEF q, e, n
  <2>6. ASSUME NEW k \in 1..(n + 1)
        PROVE  /\ 1 <= q[k][1] /\ q[k][1] <= q[k][2] /\ q[k][2] <= i
               /\ q[k][1]..q[k][2] \subseteq zeroed
    <3>1. CASE k = n + 1
      <4>1. q[k][1] = i /\ q[k][2] = i
        BY <2>2, <3>1
      <4>2. \A x \in i..i : x = i
        OBVIOUS
      <4> QED
        BY <1>3, <4>1, <4>2
    <3>2. CASE k # n + 1
      <4>1. k \in 1..n /\ q[k] = p[k]
        BY <1>0, <2>2, <3>2 DEF n
      <4>2. p[k][1] \in Nat /\ p[k][2] \in Nat
        BY <1>0, <4>1 DEF n
      <4> QED
        BY <2>5, <4>1, <4>2
    <3> QED
      BY <3>1, <3>2
  <2>7. ASSUME NEW k \in 2..(n + 1) PROVE q[k - 1][2] < q[k][1]
    <3>1. k - 1 \in 1..n /\ q[k - 1] = p[k - 1] /\ p[k - 1][2] \in Nat /\ p[k - 1][2] <= i - 1
      BY <1>0, <2>2, <2>5 DEF n
    <3>2. CASE k = n + 1
      BY <2>2, <3>1, <3>2
    <3>3. CASE k # n + 1
      <4>1. k \in 2..n /\ q[k] = p[k]
        BY <1>0, <2>2, <3>3 DEF n
      <4> QED
        BY <2>5, <3>1, <4>1
    <3> QED
      BY <3>2, <3>3
  <2> QED
    BY <2>2, <2>6, <2>7 DEF Ascending, q
<1> QED
  BY <1>1, <1>2, <1>3

(* mergeSpans: its runs ascend, do not touch and hold zeroed positions only. *)
LEMMA SpansAscending ==
  ASSUME NEW zeroed, NEW m \in Nat
  PROVE  MergeSpans(zeroed, m) \in Seq(Nat \X Nat) /\ Ascending(MergeSpans(zeroed, m), zeroed, m)
<1> DEFINE W == SpansUpTo(zeroed, m)
           G == {i \in 0..m : Ascending(W[i], zeroed, i)}
<1>1. /\ W[0] = <<>>
      /\ \A i \in 1..m : W[i] = NextSpans(W[i - 1], i, zeroed)
      /\ \A i \in 0..m : W[i] \in Seq(Nat \X Nat)
  BY SpansRecursion
<1> HIDE DEF W
<1>2. 0 \in G
  BY <1>1 DEF Ascending
<1>3. ASSUME NEW i \in (0 + 1)..m, i - 1 \in G PROVE i \in G
  <2>1. i \in 1..m /\ i \in Nat \ {0} /\ i \in 0..m /\ i - 1 \in 0..m
    OBVIOUS
  <2>2. Ascending(NextSpans(W[i - 1], i, zeroed), zeroed, i)
    BY <1>1, <1>3, <2>1, NextAscending
  <2> QED
    BY <1>1, <2>1, <2>2
<1>4. \A i \in 0..m : i \in G
  <2> HIDE DEF G
  <2> QED
    BY <1>2, <1>3, CountUp
<1>5. m \in 0..m
  OBVIOUS
<1> QED
  BY <1>1, <1>4, <1>5 DEF MergeSpans, W

(* The recipe of a skeleton puts it together again.                       *)
Groups(X) == [parts : Seq(Seq(X)), layout : Seq(Nat \X Nat), pos : Nat \ {0}]
\* Before the first group.
NoGroups == [parts |-> <<>>, layout |-> <<>>, pos |-> 1]

\* The chunks of a group: of the bytes from pos to last.
ChunksOf(bytes, pos, last) == CdcChunks(SubSeq(bytes, pos, last))

\* A group is chunks of the bytes it stands for.
LEMMA GroupType ==
  ASSUME NEW X, NEW bytes \in Seq(X), NEW acc \in Groups(X),
         NEW last \in Nat, NEW zeros \in Nat, last <= Len(bytes)
  PROVE  /\ Group(acc, bytes, last, zeros) \in Groups(X)
         /\ ChunksOf(bytes, acc.pos, last) \in Seq(Seq(X))
         /\ FlattenSeq(ChunksOf(bytes, acc.pos, last)) = SubSeq(bytes, acc.pos, last)
<1> DEFINE part == SubSeq(bytes, acc.pos, last)
           cs == CdcChunks(part)
           g == Group(acc, bytes, last, zeros)
<1>1. acc.parts \in Seq(Seq(X)) /\ acc.layout \in Seq(Nat \X Nat) /\ acc.pos \in Nat \ {0}
  BY DEF Groups
<1>2. part \in Seq(X)
  <2>1. \A i \in acc.pos..last : bytes[i] \in X
    BY <1>1
  <2> QED
    BY <1>1, <2>1, SubSeqProperties
<1> HIDE DEF part
<1>3. cs \in Seq(Seq(X)) /\ FlattenSeq(cs) = part
  BY <1>2, ChunksWhole
<1>4. g = [parts |-> acc.parts \o cs, layout |-> Append(acc.layout, <<Len(cs), zeros>>),
           pos |-> last + zeros + 1]
  BY DEF Group, part
<1> HIDE DEF cs
<1>5. acc.parts \o cs \in Seq(Seq(X))
  BY <1>1, <1>3, ConcatProperties
<1>6. Append(acc.layout, <<Len(cs), zeros>>) \in Seq(Nat \X Nat)
  <2>1. <<Len(cs), zeros>> \in Nat \X Nat
    BY <1>3
  <2> QED
    BY <1>1, <2>1, AppendProperties
<1>7. last + zeros + 1 \in Nat \ {0}
  OBVIOUS
<1>8. g \in Groups(X)
  BY <1>4, <1>5, <1>6, <1>7 DEF Groups
<1>9. cs = ChunksOf(bytes, acc.pos, last)
  BY DEF cs, part, ChunksOf
<1>10. FlattenSeq(cs) = SubSeq(bytes, acc.pos, last)
  BY <1>3 DEF part
<1> QED
  BY <1>3, <1>8, <1>9, <1>10

\* The group before the i-th run of zeros.
NextGroup(acc, i, bytes, spans) ==
  Group(acc, bytes, spans[i][1] - 1, spans[i][2] - spans[i][1] + 1)

(* The groups of a recipe.                                                *)
LEMMA RecipeRecursion ==
  ASSUME NEW X, NEW bytes \in Seq(X), NEW spans \in Seq(Nat \X Nat), NEW zeroed,
         Ascending(spans, zeroed, Len(bytes))
  PROVE  /\ RecipeUpTo(bytes, spans)[0] = NoGroups
         /\ \A i \in 1..Len(spans) : RecipeUpTo(bytes, spans)[i] =
              NextGroup(RecipeUpTo(bytes, spans)[i - 1], i, bytes, spans)
         /\ \A i \in 0..Len(spans) : RecipeUpTo(bytes, spans)[i] \in Groups(X)
<1> DEFINE n == Len(spans)
           V == Groups(X)
           W == RecipeUpTo(bytes, spans)
           Next(p, i) == NextGroup(p, i, bytes, spans)
           step == [i \in 1..n |-> [p \in V |-> Next(p, i)]]
           Is(f) == f = [i \in 0..n |-> IF i = 0 THEN NoGroups ELSE Next(f[i - 1], i)]
<1>1. n \in Nat /\ NoGroups \in V /\ \A i \in 1..n, p \in V : Next(p, i) \in V
  <2>0. n \in Nat /\ NoGroups \in V
    <3>1. <<>> \in Seq(Seq(X)) /\ <<>> \in Seq(Nat \X Nat)
      OBVIOUS
    <3> QED
      BY <3>1 DEF NoGroups, Groups
  <2> SUFFICES ASSUME NEW i \in 1..n, NEW p \in V PROVE NextGroup(p, i, bytes, spans) \in V
    BY <2>0
  <2>1. /\ spans[i][1] \in Nat /\ spans[i][2] \in Nat /\ 1 <= spans[i][1]
        /\ spans[i][1] <= spans[i][2] /\ spans[i][2] <= Len(bytes)
    <3>1. spans[i] \in Nat \X Nat
      OBVIOUS
    <3> QED
      BY <3>1 DEF Ascending
  <2>2. p.pos \in Nat \ {0} /\ p \in Groups(X)
    BY DEF Groups
  <2>3. /\ spans[i][1] - 1 \in Nat /\ spans[i][2] - spans[i][1] + 1 \in Nat
        /\ spans[i][1] - 1 <= Len(bytes)
    BY <2>1
  <2>4. Group(p, bytes, spans[i][1] - 1, spans[i][2] - spans[i][1] + 1) \in Groups(X)
    BY <2>2, <2>3, GroupType
  <2> QED
    BY <2>4 DEF NextGroup
<1>2. W = CHOOSE f1 : Is(f1)
  BY DEF RecipeUpTo, NextGroup, NoGroups
<1>3. \E f \in [0..n -> V] : Is(f)
  <2>1. step \in [1..n -> [V -> V]]
    <3> HIDE DEF Next, V, n
    <3> QED
      BY <1>1
  <2>2. \E f \in [0..n -> V] : Runs(f, n, NoGroups, step)
    <3> HIDE DEF step, n, V
    <3> QED
      BY <1>1, <2>1, RecursionIsThere, Zenon
  <2>3. PICK f \in [0..n -> V] : f[0] = NoGroups /\ \A i \in 1..n : f[i] = step[i][f[i - 1]]
    BY <2>2 DEF Runs
  <2> HIDE DEF Next, V, n
  <2>4. ASSUME NEW i \in 0..n
        PROVE  f[i] = IF i = 0 THEN NoGroups ELSE Next(f[i - 1], i)
    <3>1. CASE i = 0
      BY <2>3, <3>1
    <3>2. CASE i # 0
      <4>1. i \in 1..n /\ i - 1 \in 0..n
        BY <1>1, <3>2
      <4>2. f[i - 1] \in V
        BY <2>3, <4>1
      <4> QED
        BY <2>3, <3>2, <4>1, <4>2
    <3> QED
      BY <3>1, <3>2
  <2> QED
    BY <2>3, <2>4
<1>4. Is(W)
  <2> HIDE DEF Next, V, n, W
  <2> QED
    BY <1>2, <1>3
<1>5. W[0] = NoGroups /\ \A i \in 1..n : W[i] = Next(W[i - 1], i)
  <2> HIDE DEF Next, V, n, W
  <2>1. ASSUME NEW i \in 1..n PROVE i \in 0..n /\ i # 0
    BY <1>1
  <2> QED
    BY <1>1, <1>4, <2>1
<1>6. \A i \in 0..n : W[i] \in V
  <2> HIDE DEF Next, V, n, W, Is
  <2> QED
    BY <1>1, <1>5, RecursionStays
<1> QED
  BY <1>5, <1>6

\* acc is a run of groups over the bytes: group k ends its chunks at a[k] and has z[k] zeros.
GroupRun(acc, K, X, bytes, a, z) ==
  /\ acc \in [0..K -> Groups(X)] /\ acc[0] = NoGroups
  /\ a \in [1..K -> Nat] /\ z \in [1..K -> Nat]
  /\ \A k \in 1..K : /\ acc[k] = Group(acc[k - 1], bytes, a[k], z[k])
                     /\ acc[k - 1].pos <= a[k] + 1 /\ a[k] + z[k] <= Len(bytes)
                     /\ \A j \in (a[k] + 1)..(a[k] + z[k]) : bytes[j] = 0

\* The chunks of the k-th group of such a run.
Chunk(acc, bytes, a, k) == ChunksOf(bytes, acc[k - 1].pos, a[k])

\* The layout entry of a group.
Entry(cs, zeros) == <<Len(cs), zeros>>

(* What a group adds to the recipe.                                       *)
LEMMA GroupRunStep ==
  ASSUME NEW X, NEW bytes \in Seq(X), NEW K \in Nat, NEW acc, NEW a, NEW z,
         GroupRun(acc, K, X, bytes, a, z), NEW k \in 1..K
  PROVE  /\ acc[k] \in Groups(X) /\ acc[k - 1] \in Groups(X) /\ a[k] \in Nat /\ z[k] \in Nat
         /\ Chunk(acc, bytes, a, k) \in Seq(Seq(X))
         /\ FlattenSeq(Chunk(acc, bytes, a, k)) = SubSeq(bytes, acc[k - 1].pos, a[k])
         /\ acc[k].parts = acc[k - 1].parts \o Chunk(acc, bytes, a, k)
         /\ acc[k].layout = Append(acc[k - 1].layout, Entry(Chunk(acc, bytes, a, k), z[k]))
         /\ acc[k].pos = a[k] + z[k] + 1
<1>1. k - 1 \in 0..K /\ k \in 0..K
  OBVIOUS
<1>2. /\ acc[k] \in Groups(X) /\ acc[k - 1] \in Groups(X) /\ a[k] \in Nat /\ z[k] \in Nat
      /\ acc[k] = Group(acc[k - 1], bytes, a[k], z[k]) /\ a[k] + z[k] <= Len(bytes)
  BY <1>1 DEF GroupRun
<1>3. a[k] <= Len(bytes)
  BY <1>2
<1> DEFINE p == acc[k - 1]
           last == a[k]
           zeros == z[k]
<1>4. p \in Groups(X) /\ last \in Nat /\ zeros \in Nat /\ last <= Len(bytes)
  BY <1>2, <1>3
<1>5. /\ ChunksOf(bytes, p.pos, last) \in Seq(Seq(X))
      /\ FlattenSeq(ChunksOf(bytes, p.pos, last)) = SubSeq(bytes, p.pos, last)
      /\ Group(p, bytes, last, zeros) =
           [parts |-> p.parts \o ChunksOf(bytes, p.pos, last),
            layout |-> Append(p.layout, Entry(ChunksOf(bytes, p.pos, last), zeros)),
            pos |-> last + zeros + 1]
  <2> HIDE DEF p, last, zeros
  <2>1. Group(p, bytes, last, zeros) =
          [parts |-> p.parts \o ChunksOf(bytes, p.pos, last),
           layout |-> Append(p.layout, Entry(ChunksOf(bytes, p.pos, last), zeros)),
           pos |-> last + zeros + 1]
    BY DEF Group, ChunksOf, Entry
  <2>2. /\ ChunksOf(bytes, p.pos, last) \in Seq(Seq(X))
        /\ FlattenSeq(ChunksOf(bytes, p.pos, last)) = SubSeq(bytes, p.pos, last)
    BY <1>4, GroupType
  <2> QED
    BY <2>1, <2>2
<1>6. acc[k] = Group(p, bytes, last, zeros) /\ Chunk(acc, bytes, a, k) = ChunksOf(bytes, p.pos, last)
  BY <1>2 DEF Chunk
<1>7. /\ acc[k].parts = p.parts \o Chunk(acc, bytes, a, k)
      /\ acc[k].layout = Append(p.layout, Entry(Chunk(acc, bytes, a, k), zeros))
      /\ acc[k].pos = last + zeros + 1
      /\ Chunk(acc, bytes, a, k) \in Seq(Seq(X))
      /\ FlattenSeq(Chunk(acc, bytes, a, k)) = SubSeq(bytes, p.pos, last)
  <2> DEFINE cs == ChunksOf(bytes, p.pos, last)
             e == Entry(cs, zeros)
  <2>1. acc[k] = [parts |-> p.parts \o cs, layout |-> Append(p.layout, e), pos |-> last + zeros + 1]
    BY <1>5, <1>6
  <2> HIDE DEF p, last, zeros, cs, e
  <2>2. acc[k].parts = p.parts \o cs /\ acc[k].layout = Append(p.layout, e) /\ acc[k].pos = last + zeros + 1
    BY <2>1
  <2> QED
    BY <1>5, <1>6, <2>2 DEF cs, e
<1> QED
  BY <1>2, <1>7

\* What all of the groups add.
GroupSteps(X, bytes, K, acc, a, z) ==
  /\ \A j \in 1..K : Chunk(acc, bytes, a, j) \in Seq(Seq(X)) /\ z[j] \in Nat /\ a[j] \in Nat
  /\ \A j \in 1..K : FlattenSeq(Chunk(acc, bytes, a, j)) = SubSeq(bytes, acc[j - 1].pos, a[j])
  /\ \A j \in 1..K : acc[j].parts = acc[j - 1].parts \o Chunk(acc, bytes, a, j)
  /\ \A j \in 1..K : acc[j].layout = Append(acc[j - 1].layout, Entry(Chunk(acc, bytes, a, j), z[j]))
  /\ \A j \in 1..K : acc[j].pos = a[j] + z[j] + 1

\* All of them do (GroupRunStep).
LEMMA GroupRunSteps ==
  ASSUME NEW X, NEW bytes \in Seq(X), NEW K \in Nat, NEW acc, NEW a, NEW z,
         GroupRun(acc, K, X, bytes, a, z)
  PROVE  GroupSteps(X, bytes, K, acc, a, z)
<1>1. \A j \in 1..K : Chunk(acc, bytes, a, j) \in Seq(Seq(X)) /\ z[j] \in Nat /\ a[j] \in Nat
  BY GroupRunStep
<1>2. ASSUME NEW j \in 1..K PROVE acc[j].parts = acc[j - 1].parts \o Chunk(acc, bytes, a, j)
  BY GroupRunStep
<1>3. ASSUME NEW j \in 1..K
      PROVE  acc[j].layout = Append(acc[j - 1].layout, Entry(Chunk(acc, bytes, a, j), z[j]))
  BY GroupRunStep
<1>4. ASSUME NEW j \in 1..K
      PROVE  FlattenSeq(Chunk(acc, bytes, a, j)) = SubSeq(bytes, acc[j - 1].pos, a[j])
  BY GroupRunStep
<1>5. ASSUME NEW j \in 1..K PROVE acc[j].pos = a[j] + z[j] + 1
  BY GroupRunStep
<1> QED
  BY <1>1, <1>2, <1>3, <1>4, <1>5 DEF GroupSteps

\* The recipe of the first k groups is the beginning of that of all K.
GroupPrefix(acc, K, k) ==
  /\ Len(acc[k].layout) = k
  /\ Len(acc[k].parts) <= Len(acc[K].parts)
  /\ \A i \in 1..Len(acc[k].parts) : acc[K].parts[i] = acc[k].parts[i]
  /\ \A i \in 1..k : acc[K].layout[i] = acc[k].layout[i]

\* What later groups add stands behind it.
LEMMA GroupRunPrefix ==
  ASSUME NEW X, NEW bytes \in Seq(X), NEW K \in Nat, NEW acc, NEW a, NEW z,
         GroupRun(acc, K, X, bytes, a, z), NEW k \in 0..K
  PROVE  GroupPrefix(acc, K, k)
<1>0. \A j \in 0..K : /\ acc[j] \in Groups(X) /\ acc[j].parts \in Seq(Seq(X))
                      /\ acc[j].layout \in Seq(Nat \X Nat)
  BY DEF GroupRun, Groups
<1>00. /\ \A j \in 1..K : Chunk(acc, bytes, a, j) \in Seq(Seq(X)) /\ z[j] \in Nat
       /\ \A j \in 1..K : acc[j].parts = acc[j - 1].parts \o Chunk(acc, bytes, a, j)
       /\ \A j \in 1..K : acc[j].layout = Append(acc[j - 1].layout, Entry(Chunk(acc, bytes, a, j), z[j]))
  <2>1. GroupSteps(X, bytes, K, acc, a, z)
    BY GroupRunSteps
  <2> QED
    BY <2>1 DEF GroupSteps
<1>1. \A j \in 0..K : Len(acc[j].layout) = j
  <2> DEFINE G == {j \in 0..K : Len(acc[j].layout) = j}
  <2>1. 0 \in G
    BY DEF GroupRun, NoGroups
  <2>2. ASSUME NEW j \in (0 + 1)..K, j - 1 \in G PROVE j \in G
    <3>1. j \in 1..K /\ j - 1 \in 0..K /\ j \in 0..K
      OBVIOUS
    <3>2. acc[j].layout = Append(acc[j - 1].layout, Entry(Chunk(acc, bytes, a, j), z[j]))
          /\ z[j] \in Nat /\ Chunk(acc, bytes, a, j) \in Seq(Seq(X))
      BY <3>1, <1>00
    <3>3. Entry(Chunk(acc, bytes, a, j), z[j]) \in Nat \X Nat
      BY <3>2 DEF Entry
    <3>4. acc[j - 1].layout \in Seq(Nat \X Nat)
      BY <1>0, <3>1
    <3>5. Len(acc[j].layout) = Len(acc[j - 1].layout) + 1
      BY <3>2, <3>3, <3>4, AppendProperties
    <3> QED
      BY <2>2, <3>1, <3>5
  <2>3. \A j \in 0..K : j \in G
    <3> HIDE DEF G
    <3> QED
      BY <2>1, <2>2, CountUp
  <2> QED
    BY <2>3
<1> DEFINE Begins(j) ==
             /\ Len(acc[k].parts) <= Len(acc[j].parts)
             /\ \A i \in 1..Len(acc[k].parts) : acc[j].parts[i] = acc[k].parts[i]
             /\ \A i \in 1..k : acc[j].layout[i] = acc[k].layout[i]
           G == {j \in k..K : Begins(j)}
<1>2. k \in G
  BY <1>0
<1>3. ASSUME NEW j \in (k + 1)..K, j - 1 \in G PROVE j \in G
  <2> DEFINE cs == Chunk(acc, bytes, a, j)
             q == acc[j - 1].parts
             l == acc[j - 1].layout
  <2>0. k \in Nat /\ j \in Nat
    OBVIOUS
  <2>1. j \in 1..K /\ j - 1 \in 0..K /\ j \in k..K /\ k <= j - 1
    OBVIOUS
  <2>2. /\ acc[j].parts = q \o cs /\ cs \in Seq(Seq(X)) /\ z[j] \in Nat
        /\ acc[j].layout = Append(l, Entry(cs, z[j]))
    BY <2>1, <1>00
  <2>3. q \in Seq(Seq(X)) /\ l \in Seq(Nat \X Nat) /\ Len(l) = j - 1
    BY <1>0, <1>1, <2>1
  <2>4. acc[k].parts \in Seq(Seq(X)) /\ Len(acc[k].parts) \in Nat
    BY <1>0
  <2>5. Begins(j - 1)
    BY <1>3
  <2> HIDE DEF cs
  <2>6. Entry(cs, z[j]) \in Nat \X Nat
    BY <2>2 DEF Entry
  <2>7. Len(q \o cs) = Len(q) + Len(cs) /\ Len(cs) \in Nat /\ Len(q) \in Nat
        /\ \A i \in 1..Len(q) : (q \o cs)[i] = q[i]
    BY <2>2, <2>3
  <2>8. \A i \in 1..(j - 1) : Append(l, Entry(cs, z[j]))[i] = l[i]
    BY <2>3, <2>6, AppendProperties
  <2>9. Begins(j)
    <3>1. Len(acc[k].parts) <= Len(acc[j].parts)
      <4>1. Len(acc[j].parts) = Len(q) + Len(cs) /\ Len(acc[k].parts) <= Len(q)
        BY <2>2, <2>5, <2>7
      <4> HIDE DEF q
      <4> QED
        BY <2>4, <2>7, <4>1
    <3>2. \A i \in 1..Len(acc[k].parts) : acc[j].parts[i] = acc[k].parts[i]
      BY <2>2, <2>4, <2>5, <2>7
    <3>3. \A i \in 1..k : acc[j].layout[i] = acc[k].layout[i]
      <4>1. \A i \in 1..k : i \in 1..(j - 1)
        BY <2>1
      <4> QED
        BY <2>2, <2>5, <2>8, <4>1
    <3> QED
      BY <3>1, <3>2, <3>3
  <2> QED
    BY <2>1, <2>9
<1>4. \A j \in k..K : j \in G
  <2>1. k \in Nat
    OBVIOUS
  <2> HIDE DEF G
  <2> QED
    BY <1>2, <1>3, <2>1, CountUp
<1>5. K \in k..K
  OBVIOUS
<1> QED
  BY <1>1, <1>4, <1>5 DEF GroupPrefix

\* Zeros nobody transfers are what the skeleton has there.
LEMMA ZerosThere ==
  ASSUME NEW X, NEW bytes \in Seq(X), NEW a \in Nat, NEW z \in Nat, a + z <= Len(bytes),
         \A j \in (a + 1)..(a + z) : bytes[j] = 0
  PROVE  Zeros(z) = SubSeq(bytes, a + 1, a + z)
<1>1. \A j \in (a + 1)..(a + z) : bytes[j] \in Int
  OBVIOUS
<1>2. /\ SubSeq(bytes, a + 1, a + z) \in Seq(Int) /\ Len(SubSeq(bytes, a + 1, a + z)) = z
      /\ \A i \in 1..z : SubSeq(bytes, a + 1, a + z)[i] = 0
  <2>1. /\ SubSeq(bytes, a + 1, a + z) \in Seq(Int)
        /\ Len(SubSeq(bytes, a + 1, a + z)) = IF a + 1 <= a + z THEN a + z - (a + 1) + 1 ELSE 0
        /\ \A i \in 1..(a + z - (a + 1) + 1) : SubSeq(bytes, a + 1, a + z)[i] = bytes[a + 1 + i - 1]
    BY <1>1, SubSeqProperties
  <2>2. \A i \in 1..z : i \in 1..(a + z - (a + 1) + 1) /\ a + 1 + i - 1 \in (a + 1)..(a + z)
    OBVIOUS
  <2> QED
    BY <2>1, <2>2
<1>3. Zeros(z) \in Seq(Int) /\ Len(Zeros(z)) = z /\ \A i \in 1..z : Zeros(z)[i] = 0
  BY DEF Zeros
<1> QED
  BY <1>2, <1>3, SeqEqual

(* assembleSkeletonV2 over the parts of a run: the bytes so far.          *)
LEMMA RunPart ==
  ASSUME NEW X, 0 \in X, NEW bytes \in Seq(X), NEW K \in Nat, NEW acc, NEW a, NEW z,
         GroupRun(acc, K, X, bytes, a, z), NEW i \in 1..K, NEW done,
         done.at = Len(acc[i - 1].parts) + 1, done.out = SubSeq(bytes, 1, acc[i - 1].pos - 1)
  PROVE  AddGroup(done, acc[K].parts, acc[K].layout[i]) =
           [at |-> Len(acc[i].parts) + 1, out |-> SubSeq(bytes, 1, acc[i].pos - 1)]
<1> DEFINE P == acc[K].parts
           L == acc[K].layout
           p == acc[i - 1]
           q == acc[i]
           cs == Chunk(acc, bytes, a, i)
           n == Len(p.parts)
<1>1. i \in 0..K /\ i - 1 \in 0..K /\ K \in 0..K
  OBVIOUS
<1>0. /\ \A j \in 1..K : Chunk(acc, bytes, a, j) \in Seq(Seq(X)) /\ z[j] \in Nat /\ a[j] \in Nat
      /\ \A j \in 1..K : FlattenSeq(Chunk(acc, bytes, a, j)) = SubSeq(bytes, acc[j - 1].pos, a[j])
      /\ \A j \in 1..K : acc[j].parts = acc[j - 1].parts \o Chunk(acc, bytes, a, j)
      /\ \A j \in 1..K : acc[j].layout = Append(acc[j - 1].layout, Entry(Chunk(acc, bytes, a, j), z[j]))
      /\ \A j \in 1..K : acc[j].pos = a[j] + z[j] + 1
  <2>1. GroupSteps(X, bytes, K, acc, a, z)
    BY GroupRunSteps
  <2> QED
    BY <2>1 DEF GroupSteps
<1>2. /\ p \in Groups(X) /\ q \in Groups(X) /\ a[i] \in Nat /\ z[i] \in Nat /\ cs \in Seq(Seq(X))
  BY <1>0, <1>1 DEF GroupRun
<1>3. FlattenSeq(cs) = SubSeq(bytes, p.pos, a[i])
  BY <1>0
<1>4. q.parts = p.parts \o cs
  BY <1>0
<1>5. q.layout = Append(p.layout, Entry(cs, z[i]))
  BY <1>0
<1>6. q.pos = a[i] + z[i] + 1
  BY <1>0
<1>7. p.pos \in Nat \ {0} /\ p.parts \in Seq(Seq(X)) /\ p.layout \in Seq(Nat \X Nat)
      /\ q.parts \in Seq(Seq(X)) /\ q.layout \in Seq(Nat \X Nat)
  BY <1>2 DEF Groups
<1>8. P \in Seq(Seq(X)) /\ L \in Seq(Nat \X Nat)
  BY <1>1 DEF GroupRun, Groups
<1>9. Len(p.layout) = i - 1 /\ Len(q.parts) <= Len(P)
      /\ (\A j \in 1..Len(q.parts) : P[j] = q.parts[j]) /\ \A j \in 1..i : L[j] = q.layout[j]
  <2>1. GroupPrefix(acc, K, i) /\ GroupPrefix(acc, K, i - 1)
    BY <1>1, GroupRunPrefix
  <2> QED
    BY <2>1 DEF GroupPrefix
<1>10. p.pos <= a[i] + 1 /\ a[i] + z[i] <= Len(bytes)
       /\ \A j \in (a[i] + 1)..(a[i] + z[i]) : bytes[j] = 0
  BY DEF GroupRun
<1> HIDE DEF P, L, p, q, cs
<1>11. L[i] = Entry(cs, z[i])
  <2>1. Entry(cs, z[i]) \in Nat \X Nat
    BY <1>2 DEF Entry
  <2>2. Append(p.layout, Entry(cs, z[i]))[Len(p.layout) + 1] = Entry(cs, z[i])
    BY <1>7, <2>1, AppendProperties
  <2>3. Len(p.layout) + 1 = i /\ i \in 1..i
    BY <1>9
  <2> QED
    BY <1>5, <1>9, <2>2, <2>3
<1>12. L[i][1] = Len(cs) /\ L[i][2] = z[i]
  BY <1>11 DEF Entry
<1>13. n \in Nat /\ Len(cs) \in Nat /\ Len(q.parts) = n + Len(cs)
       /\ \A j \in 1..Len(cs) : q.parts[n + j] = cs[j]
  <2>1. n \in Nat /\ Len(cs) \in Nat
    BY <1>2, <1>7
  <2>2. Len(p.parts \o cs) = n + Len(cs)
        /\ \A j \in 1..(n + Len(cs)) : (p.parts \o cs)[j] = IF j <= n THEN p.parts[j] ELSE cs[j - n]
    BY <1>2, <1>7, ConcatProperties
  <2>3. \A j \in 1..Len(cs) : n + j \in 1..(n + Len(cs)) /\ ~(n + j <= n) /\ (n + j) - n = j
    BY <2>1
  <2> HIDE DEF n
  <2> QED
    BY <1>4, <2>1, <2>2, <2>3
<1> HIDE DEF n
<1>14. SubSeq(P, n + 1, n + Len(cs)) = cs
  <2> DEFINE s == SubSeq(P, n + 1, n + Len(cs))
  <2>1. \A j \in (n + 1)..(n + Len(cs)) : P[j] \in Seq(X)
    <3>1. \A j \in (n + 1)..(n + Len(cs)) : j \in 1..Len(P)
      BY <1>8, <1>9, <1>13
    <3> QED
      BY <1>8, <3>1
  <2>2. /\ s \in Seq(Seq(X))
        /\ Len(s) = IF n + 1 <= n + Len(cs) THEN n + Len(cs) - (n + 1) + 1 ELSE 0
        /\ \A j \in 1..(n + Len(cs) - (n + 1) + 1) : s[j] = P[n + 1 + j - 1]
    BY <1>13, <2>1, SubSeqProperties
  <2> HIDE DEF s
  <2>3. Len(s) = Len(cs)
    BY <1>13, <2>2
  <2>4. \A j \in 1..Len(s) : s[j] = cs[j]
    <3> TAKE j \in 1..Len(s)
    <3>1. /\ j \in 1..Len(cs) /\ j \in 1..(n + Len(cs) - (n + 1) + 1) /\ n + 1 + j - 1 = n + j
          /\ n + j \in 1..Len(q.parts)
      BY <1>13, <2>3
    <3>2. s[j] = P[n + j]
      BY <2>2, <3>1
    <3> QED
      BY <1>9, <1>13, <3>1, <3>2
  <2>5. s = cs
    BY <1>2, <2>2, <2>3, <2>4, SeqEqual
  <2> QED
    BY <2>5 DEF s
<1>15. Zeros(z[i]) = SubSeq(bytes, a[i] + 1, a[i] + z[i])
  BY <1>2, <1>10, ZerosThere
<1>16. SubSeq(bytes, 1, p.pos - 1) \o SubSeq(bytes, p.pos, a[i]) = SubSeq(bytes, 1, a[i])
  <2> DEFINE m == p.pos - 1
  <2>0. Len(bytes) \in Nat
    OBVIOUS
  <2>1. m \in (1 - 1)..Len(bytes) /\ a[i] \in m..Len(bytes) /\ 1 \in 1..(Len(bytes) + 1) /\ m + 1 = p.pos
    <3> DEFINE b == a[i]
               pp == p.pos
               nn == Len(bytes)
               zz == z[i]
    <3>1. b \in Nat /\ pp \in Nat \ {0} /\ nn \in Nat /\ zz \in Nat /\ pp <= b + 1 /\ b + zz <= nn
      BY <1>2, <1>7, <1>10, <2>0
    <3> HIDE DEF b, pp, nn, zz
    <3>2. pp - 1 \in (1 - 1)..nn /\ b \in (pp - 1)..nn /\ 1 \in 1..(nn + 1) /\ (pp - 1) + 1 = pp
      BY <3>1
    <3> QED
      BY <3>2 DEF b, pp, nn
  <2> HIDE DEF m
  <2>2. SubSeq(bytes, 1, m) \o SubSeq(bytes, m + 1, a[i]) = SubSeq(bytes, 1, a[i])
    BY <2>1, ConcatAdjacentSubSeq
  <2> QED
    BY <2>1, <2>2 DEF m
<1>17. SubSeq(bytes, 1, a[i]) \o SubSeq(bytes, a[i] + 1, a[i] + z[i]) = SubSeq(bytes, 1, a[i] + z[i])
  <2>1. a[i] \in (1 - 1)..Len(bytes) /\ a[i] + z[i] \in a[i]..Len(bytes) /\ 1 \in 1..(Len(bytes) + 1)
    BY <1>2, <1>10
  <2> QED
    BY <2>1, ConcatAdjacentSubSeq
<1>18. done.at = n + 1 /\ done.out = SubSeq(bytes, 1, p.pos - 1)
  BY DEF n, p
<1>19. L[i][1] \in Nat /\ done.at \in Nat /\ done.at + L[i][1] = Len(q.parts) + 1
       /\ Len(q.parts) = n + Len(cs)
  BY <1>12, <1>13, <1>18
<1>20. q.pos - 1 = a[i] + z[i]
  BY <1>2, <1>6
<1>21. done.out \o FlattenSeq(cs) \o Zeros(z[i]) = SubSeq(bytes, 1, q.pos - 1)
  BY <1>3, <1>15, <1>16, <1>17, <1>18, <1>20
<1>22. AddGroup(done, P, L[i]) = [at |-> Len(q.parts) + 1, out |-> SubSeq(bytes, 1, q.pos - 1)]
  <2> DEFINE next == done.at + L[i][1]
             out == done.out \o FlattenSeq(SubSeq(P, done.at, next - 1)) \o Zeros(L[i][2])
  <2>1. AddGroup(done, P, L[i]) = [at |-> next, out |-> out]
    BY DEF AddGroup
  <2>2. next = Len(q.parts) + 1 /\ next = n + Len(cs) + 1
    BY <1>13, <1>19
  <2>3. next - 1 = n + Len(cs)
    <3> HIDE DEF next
    <3> QED
      BY <1>13, <2>2
  <2> HIDE DEF next
  <2>4. SubSeq(P, done.at, next - 1) = cs
    BY <1>14, <1>18, <2>3
  <2>5. out = SubSeq(bytes, 1, q.pos - 1)
    BY <1>12, <1>21, <2>4
  <2> HIDE DEF out
  <2> QED
    BY <2>1, <2>2, <2>5
<1> QED
  BY <1>22 DEF P, L, q

(* The assembly of a run of groups is the skeleton as far as they reach.  *)
LEMMA RunAssembles ==
  ASSUME NEW X, 0 \in X, NEW bytes \in Seq(X), NEW K \in Nat, NEW acc, NEW a, NEW z,
         GroupRun(acc, K, X, bytes, a, z)
  PROVE  Assemble(acc[K].parts, acc[K].layout) = SubSeq(bytes, 1, acc[K].pos - 1)
<1> DEFINE P == acc[K].parts
           L == acc[K].layout
           none == [at |-> 1, out |-> <<>>]
           F == [i \in 0..K |-> [at |-> Len(acc[i].parts) + 1, out |-> SubSeq(bytes, 1, acc[i].pos - 1)]]
           Is(f) == f = [i \in 0..Len(L) |-> IF i = 0 THEN none ELSE AddGroup(f[i - 1], P, L[i])]
           W == AssembleUpTo(P, L)
<1>1. Len(L) = K
  <2>1. GroupPrefix(acc, K, K)
    BY GroupRunPrefix
  <2> QED
    BY <2>1 DEF GroupPrefix
<1>2. F[0] = none
  <2>1. acc[0].parts = <<>> /\ acc[0].pos = 1
    BY DEF GroupRun, NoGroups
  <2>2. SubSeq(bytes, 1, acc[0].pos - 1) = <<>>
    <3>1. SubSeq(bytes, 1, 0) = <<>>
      BY SubSeqEmpty
    <3> QED
      BY <2>1, <3>1
  <2>3. Len(acc[0].parts) + 1 = 1
    BY <2>1
  <2>4. F[0] = [at |-> Len(acc[0].parts) + 1, out |-> SubSeq(bytes, 1, acc[0].pos - 1)]
    OBVIOUS
  <2> HIDE DEF F
  <2> QED
    BY <2>2, <2>3, <2>4
<1>3. ASSUME NEW i \in 1..K PROVE F[i] = AddGroup(F[i - 1], P, L[i])
  <2>1. /\ F[i - 1] = [at |-> Len(acc[i - 1].parts) + 1, out |-> SubSeq(bytes, 1, acc[i - 1].pos - 1)]
        /\ F[i] = [at |-> Len(acc[i].parts) + 1, out |-> SubSeq(bytes, 1, acc[i].pos - 1)]
    OBVIOUS
  <2>2. F[i - 1].at = Len(acc[i - 1].parts) + 1 /\ F[i - 1].out = SubSeq(bytes, 1, acc[i - 1].pos - 1)
    <3> DEFINE x == Len(acc[i - 1].parts) + 1
               y == SubSeq(bytes, 1, acc[i - 1].pos - 1)
    <3>1. F[i - 1] = [at |-> x, out |-> y]
      BY <2>1
    <3> HIDE DEF x, y, F
    <3>2. F[i - 1].at = x /\ F[i - 1].out = y
      BY <3>1
    <3> QED
      BY <3>2 DEF x, y
  <2> HIDE DEF F
  <2>3. AddGroup(F[i - 1], acc[K].parts, acc[K].layout[i]) =
          [at |-> Len(acc[i].parts) + 1, out |-> SubSeq(bytes, 1, acc[i].pos - 1)]
    <3>1. PICK done : done = F[i - 1]
      OBVIOUS
    <3>2. done.at = Len(acc[i - 1].parts) + 1 /\ done.out = SubSeq(bytes, 1, acc[i - 1].pos - 1)
      BY <2>2, <3>1
    <3>3. AddGroup(done, acc[K].parts, acc[K].layout[i]) =
            [at |-> Len(acc[i].parts) + 1, out |-> SubSeq(bytes, 1, acc[i].pos - 1)]
      BY <3>2, RunPart, Zenon
    <3> QED
      BY <3>1, <3>3
  <2> QED
    BY <2>1, <2>3
<1> HIDE DEF P, L, F
<1>4. W = CHOOSE f1 : Is(f1)
  BY DEF AssembleUpTo
<1> HIDE DEF W
<1>5. Is(F)
  <2>1. F = [i \in 0..K |-> F[i]]
    BY DEF F
  <2> HIDE DEF F, none, P, L
  <2>2. ASSUME NEW i \in 0..K
        PROVE  F[i] = IF i = 0 THEN none ELSE AddGroup(F[i - 1], P, L[i])
    <3>1. i = 0 \/ i \in 1..K
      OBVIOUS
    <3> QED
      BY <1>2, <1>3, <3>1
  <2> QED
    BY <1>1, <2>1, <2>2
<1>6. Is(W)
  <2> HIDE DEF Is
  <2> QED
    BY <1>4, <1>5
<1>7. W[0] = none /\ \A i \in 1..K : W[i] = AddGroup(W[i - 1], P, L[i])
  <2> HIDE DEF none, P, L
  <2>1. \A i \in 1..K : i \in 0..K /\ i # 0
    OBVIOUS
  <2> QED
    BY <1>1, <1>6, <2>1
<1>8. \A i \in 0..K : W[i] = F[i]
  <2> HIDE DEF F, none, P, L
  <2> DEFINE G == {i \in 0..K : W[i] = F[i]}
  <2>1. 0 \in G /\ \A i \in (0 + 1)..K : i - 1 \in G => i \in G
    BY <1>2, <1>3, <1>7
  <2>2. \A i \in 0..K : i \in G
    <3> HIDE DEF G
    <3> QED
      BY <2>1, CountUp
  <2> QED
    BY <2>2
<1>9. W[K] = F[K] /\ F[K].out = SubSeq(bytes, 1, acc[K].pos - 1)
  BY <1>8 DEF F
<1> QED
  BY <1>1, <1>9 DEF Assemble, W, P, L

(* The recipe of a skeleton whose zeroed bytes are zero gives it back.    *)
LEMMA RecipeWhole ==
  ASSUME NEW X, 0 \in X, NEW sk, sk.bytes \in Seq(X),
         \A i \in 1..Len(sk.bytes) : i \in sk.zeroed => sk.bytes[i] = 0
  PROVE  /\ Recipe(sk).parts \in Seq(Seq(X))
         /\ Assemble(Recipe(sk).parts, Recipe(sk).layout) = sk.bytes
<1> DEFINE bytes == sk.bytes
           m == Len(bytes)
           spans == MergeSpans(sk.zeroed, m)
           n == Len(spans)
           R == RecipeUpTo(bytes, spans)
           A == [k \in 1..(n + 1) |-> IF k <= n THEN spans[k][1] - 1 ELSE m]
           Z == [k \in 1..(n + 1) |-> IF k <= n THEN spans[k][2] - spans[k][1] + 1 ELSE 0]
           rest == Group(R[n], bytes, m, 0)
           At == [k \in 0..(n + 1) |-> IF k <= n THEN R[k] ELSE rest]
<1>1. bytes \in Seq(X) /\ m \in Nat
  OBVIOUS
<1>2. spans \in Seq(Nat \X Nat) /\ Ascending(spans, sk.zeroed, m) /\ n \in Nat
  <2>1. spans \in Seq(Nat \X Nat) /\ Ascending(spans, sk.zeroed, m)
    <3> HIDE DEF m
    <3> QED
      BY <1>1, SpansAscending
  <2> QED
    BY <2>1
<1> HIDE DEF spans
<1>3. \A k \in 1..n : /\ spans[k][1] \in Nat /\ spans[k][2] \in Nat /\ 1 <= spans[k][1]
                      /\ spans[k][1] <= spans[k][2] /\ spans[k][2] <= m
                      /\ spans[k][1]..spans[k][2] \subseteq sk.zeroed
  <2>1. \A k \in 1..n : spans[k] \in Nat \X Nat
    BY <1>2
  <2> QED
    BY <1>2, <2>1 DEF Ascending
<1>4. \A k \in 2..n : spans[k - 1][2] < spans[k][1]
  BY <1>2 DEF Ascending
<1>5. /\ R[0] = NoGroups
      /\ \A k \in 1..n : R[k] = NextGroup(R[k - 1], k, bytes, spans)
      /\ \A k \in 0..n : R[k] \in Groups(X)
  <2> HIDE DEF bytes
  <2> QED
    BY <1>1, <1>2, RecipeRecursion
<1> HIDE DEF R, n
<1>6. \A k \in 1..n : /\ A[k] = spans[k][1] - 1 /\ Z[k] = spans[k][2] - spans[k][1] + 1
                      /\ A[k] \in Nat /\ Z[k] \in Nat /\ A[k] + Z[k] = spans[k][2]
  <2> TAKE k \in 1..n
  <2>1. A[k] = spans[k][1] - 1 /\ Z[k] = spans[k][2] - spans[k][1] + 1
    BY <1>2
  <2> HIDE DEF A, Z
  <2> QED
    BY <1>3, <2>1
<1>7. A[n + 1] = m /\ Z[n + 1] = 0
  BY <1>2
<1> HIDE DEF A, Z
<1>8. \A k \in 1..n : R[k] = Group(R[k - 1], bytes, A[k], Z[k])
  BY <1>5, <1>6 DEF NextGroup
<1>9. \A k \in 1..n : R[k].pos = spans[k][2] + 1
  <2> TAKE k \in 1..n
  <2>1. R[k].pos = A[k] + Z[k] + 1
    <3>1. Group(R[k - 1], bytes, A[k], Z[k]).pos = A[k] + Z[k] + 1
      BY DEF Group
    <3> QED
      BY <1>8, <3>1
  <2> QED
    BY <1>6, <2>1
<1>10. \A k \in 1..n : R[k - 1].pos <= A[k] + 1
  <2> TAKE k \in 1..n
  <2>1. CASE k = 1
    BY <1>3, <1>5, <1>6, <2>1 DEF NoGroups
  <2>2. CASE k # 1
    <3>1. k \in 2..n /\ k - 1 \in 1..n
      BY <1>2, <2>2
    <3>2. R[k - 1].pos = spans[k - 1][2] + 1 /\ spans[k - 1][2] < spans[k][1] /\ A[k] = spans[k][1] - 1
      BY <1>4, <1>6, <1>9, <3>1
    <3> QED
      BY <1>3, <3>1, <3>2
  <2> QED
    BY <2>1, <2>2
<1>11. \A k \in 1..n : A[k] + Z[k] <= m /\ \A j \in (A[k] + 1)..(A[k] + Z[k]) : bytes[j] = 0
  <2> TAKE k \in 1..n
  <2>1. A[k] + Z[k] = spans[k][2] /\ A[k] + 1 = spans[k][1]
    BY <1>3, <1>6
  <2>2. \A j \in spans[k][1]..spans[k][2] : j \in 1..m /\ j \in sk.zeroed
    BY <1>1, <1>3
  <2> QED
    BY <1>3, <2>1, <2>2
<1>12. R[n].pos \in Nat /\ R[n].pos <= m + 1
  <2>1. CASE n = 0
    BY <1>1, <1>5, <2>1 DEF NoGroups
  <2>2. CASE n # 0
    <3>1. n \in 1..n
      BY <1>2, <2>2
    <3> QED
      BY <1>1, <1>3, <1>9, <3>1
  <2> QED
    BY <2>1, <2>2
<1>13. n \in 0..n /\ R[n] \in Groups(X)
  BY <1>2, <1>5
<1>14. CASE R[n].pos <= m
  <2>1. Recipe(sk) = rest
    BY <1>14 DEF Recipe, R, n, spans
  <2>2. rest \in Groups(X) /\ rest.pos = m + 1
    <3>1. rest \in Groups(X)
      <4>1. m <= Len(bytes)
        BY <1>1
      <4> HIDE DEF bytes, m
      <4> QED
        BY <1>1, <1>13, <4>1, GroupType
    <3>2. rest.pos = m + 0 + 1
      BY DEF Group
    <3> QED
      BY <1>1, <3>1, <3>2
  <2> HIDE DEF rest
  <2>3. At[0] = NoGroups /\ At[n + 1] = rest /\ \A k \in 0..n : At[k] = R[k]
    BY <1>2, <1>5
  <2>4. At \in [0..(n + 1) -> Groups(X)]
    BY <1>2, <1>5, <2>2
  <2>5. A \in [1..(n + 1) -> Nat] /\ Z \in [1..(n + 1) -> Nat]
    <3>1. \A k \in 1..(n + 1) : A[k] \in Nat /\ Z[k] \in Nat
      <4> TAKE k \in 1..(n + 1)
      <4>1. k \in 1..n \/ k = n + 1
        BY <1>2
      <4> QED
        BY <1>1, <1>6, <1>7, <4>1
    <3>2. A = [k \in 1..(n + 1) |-> A[k]] /\ Z = [k \in 1..(n + 1) |-> Z[k]]
      BY DEF A, Z
    <3> QED
      BY <3>1, <3>2
  <2> HIDE DEF At
  <2>6. ASSUME NEW k \in 1..(n + 1)
        PROVE  /\ At[k] = Group(At[k - 1], bytes, A[k], Z[k])
               /\ At[k - 1].pos <= A[k] + 1 /\ A[k] + Z[k] <= m
               /\ \A j \in (A[k] + 1)..(A[k] + Z[k]) : bytes[j] = 0
    <3>1. CASE k \in 1..n
      <4>1. At[k] = R[k] /\ At[k - 1] = R[k - 1]
        <5>1. k \in 0..n /\ k - 1 \in 0..n
          BY <1>2, <3>1
        <5> QED
          BY <2>3, <5>1
      <4> QED
        BY <1>8, <1>10, <1>11, <3>1, <4>1
    <3>2. CASE k = n + 1
      <4>1. k - 1 = n
        BY <1>2, <3>2
      <4>2. At[k] = rest /\ At[k - 1] = R[n] /\ A[k] = m /\ Z[k] = 0
        BY <1>7, <1>13, <2>3, <3>2, <4>1
      <4>3. \A j \in (m + 1)..(m + 0) : FALSE
        BY <1>1
      <4>4. m + 0 <= m
        BY <1>1
      <4> QED
        BY <1>12, <4>2, <4>3, <4>4 DEF rest
    <3>3. k \in 1..n \/ k = n + 1
      BY <1>2
    <3> QED
      BY <3>1, <3>2, <3>3, Zenon
  <2>7. GroupRun(At, n + 1, X, bytes, A, Z)
    BY <2>3, <2>4, <2>5, <2>6 DEF GroupRun
  <2>8. n + 1 \in Nat
    BY <1>2
  <2>9. Assemble(At[n + 1].parts, At[n + 1].layout) = SubSeq(bytes, 1, At[n + 1].pos - 1)
    <3> HIDE DEF bytes
    <3> QED
      BY <1>1, <2>7, <2>8, RunAssembles
  <2>10. SubSeq(bytes, 1, m + 1 - 1) = bytes
    <3>1. m + 1 - 1 = m
      BY <1>1
    <3>2. SubSeq(bytes, 1, m) = bytes
      BY <1>1, SubSeqFull
    <3> QED
      BY <3>1, <3>2
  <2>11. rest.parts \in Seq(Seq(X))
    BY <2>2 DEF Groups
  <2> QED
    BY <2>1, <2>2, <2>3, <2>9, <2>10, <2>11
<1>15. CASE ~(R[n].pos <= m)
  <2>1. Recipe(sk) = R[n]
    BY <1>15 DEF Recipe, R, n, spans
  <2>2. R[n].pos = m + 1
    BY <1>1, <1>12, <1>15
  <2> DEFINE Q == [k \in 0..n |-> R[k]]
             a == [k \in 1..n |-> A[k]]
             z == [k \in 1..n |-> Z[k]]
  <2>3. \A k \in 0..n : Q[k] = R[k]
    OBVIOUS
  <2>4. Q \in [0..n -> Groups(X)] /\ Q[0] = NoGroups
    BY <1>2, <1>5
  <2>5. a \in [1..n -> Nat] /\ z \in [1..n -> Nat] /\ \A k \in 1..n : a[k] = A[k] /\ z[k] = Z[k]
    BY <1>6
  <2> HIDE DEF Q, a, z
  <2>6. ASSUME NEW k \in 1..n
        PROVE  /\ Q[k] = Group(Q[k - 1], bytes, a[k], z[k])
               /\ Q[k - 1].pos <= a[k] + 1 /\ a[k] + z[k] <= m
               /\ \A j \in (a[k] + 1)..(a[k] + z[k]) : bytes[j] = 0
    <3>1. k \in 0..n /\ k - 1 \in 0..n
      BY <1>2
    <3> QED
      BY <1>8, <1>10, <1>11, <2>3, <2>5, <3>1
  <2>7. GroupRun(Q, n, X, bytes, a, z)
    BY <2>4, <2>5, <2>6 DEF GroupRun
  <2>8. Assemble(Q[n].parts, Q[n].layout) = SubSeq(bytes, 1, Q[n].pos - 1)
    <3> HIDE DEF bytes
    <3> QED
      BY <1>1, <1>2, <2>7, RunAssembles
  <2>9. SubSeq(bytes, 1, m + 1 - 1) = bytes
    <3>1. m + 1 - 1 = m
      BY <1>1
    <3>2. SubSeq(bytes, 1, m) = bytes
      BY <1>1, SubSeqFull
    <3> QED
      BY <3>1, <3>2
  <2>10. R[n].parts \in Seq(Seq(X))
    BY <1>13 DEF Groups
  <2>11. Q[n] = R[n] /\ SubSeq(bytes, 1, R[n].pos - 1) = bytes
    BY <1>13, <2>2, <2>3, <2>9
  <2>12. Assemble(R[n].parts, R[n].layout) = bytes
    BY <2>8, <2>11
  <2> QED
    BY <2>1, <2>10, <2>12
<1> QED
  BY <1>14, <1>15

-----------------------------------------------------------------------------
(* parse.ts: the slots of a module, and the regions of the file they take *)
(* up, which ascend and do not overlap (RegionsInFile).                   *)

(* What a module is, and what its sample slots are.                       *)
ModuleOK(m) ==
  /\ m.data \in Seq(Bytes) /\ m.header \in Seq(Header)
  /\ m.format \in {"mod", "s3m", "xm", "it", "mo3"}
  /\ m.dump \in [DOMAIN m.header -> Seq(Bytes)] /\ m.tables.checkpoints \in Seq(SUBSET Nat)

\* A slot, before the parser has looked at whether it lies in the file.
Slot == [index : Nat, offset : Int, length : Int, channels : Nat, packed : BOOLEAN, span : Nat]

(* Where the PCM of each slot of a format without pointers begins.        *)
LEMMA OffsetRecursion ==
  ASSUME NEW m, m.header \in Seq(Header)
  PROVE  /\ OffsetUpTo(m)[0] = 1
         /\ \A i \in 1..Len(m.header) : OffsetUpTo(m)[i] = OffsetUpTo(m)[i - 1] + m.header[i].length
         /\ \A i \in 0..Len(m.header) : OffsetUpTo(m)[i] \in Nat
<1> DEFINE n == Len(m.header)
           V == Nat
           W == OffsetUpTo(m)
           Next(p, i) == p + m.header[i].length
           step == [i \in 1..n |-> [p \in V |-> Next(p, i)]]
           Is(f) == f = [i \in 0..n |-> IF i = 0 THEN 1 ELSE Next(f[i - 1], i)]
<1>1. n \in Nat /\ 1 \in V /\ \A i \in 1..n, p \in V : Next(p, i) \in V
  <2>1. \A i \in 1..n : m.header[i] \in Header
    OBVIOUS
  <2>2. \A i \in 1..n : m.header[i].length \in Nat
    BY <2>1 DEF Header
  <2> QED
    BY <2>2
<1>2. W = CHOOSE f1 : Is(f1)
  BY DEF OffsetUpTo
<1>3. \E f \in [0..n -> V] : Is(f)
  <2>1. step \in [1..n -> [V -> V]]
    <3> HIDE DEF Next, V, n
    <3> QED
      BY <1>1
  <2>2. \E f \in [0..n -> V] : Runs(f, n, 1, step)
    <3> HIDE DEF step, n, V
    <3> QED
      BY <1>1, <2>1, RecursionIsThere, Zenon
  <2>3. PICK f \in [0..n -> V] : f[0] = 1 /\ \A i \in 1..n : f[i] = step[i][f[i - 1]]
    BY <2>2 DEF Runs
  <2> HIDE DEF Next, V, n
  <2>4. ASSUME NEW i \in 0..n
        PROVE  f[i] = IF i = 0 THEN 1 ELSE Next(f[i - 1], i)
    <3>1. CASE i = 0
      BY <2>3, <3>1
    <3>2. CASE i # 0
      <4>1. i \in 1..n /\ i - 1 \in 0..n
        BY <1>1, <3>2
      <4>2. f[i - 1] \in V
        BY <2>3, <4>1
      <4> QED
        BY <2>3, <3>2, <4>1, <4>2
    <3> QED
      BY <3>1, <3>2
  <2> QED
    BY <2>3, <2>4
<1>4. Is(W)
  <2> HIDE DEF Next, V, n, W
  <2> QED
    BY <1>2, <1>3
<1>5. W[0] = 1 /\ \A i \in 1..n : W[i] = Next(W[i - 1], i)
  <2> HIDE DEF Next, V, n, W
  <2>1. ASSUME NEW i \in 1..n PROVE i \in 0..n /\ i # 0
    BY <1>1
  <2> QED
    BY <1>1, <1>4, <2>1
<1>6. \A i \in 0..n : W[i] \in V
  <2> HIDE DEF Next, V, n, W, Is
  <2> QED
    BY <1>1, <1>5, RecursionStays
<1> QED
  BY <1>5, <1>6

\* The lesser of two numbers.
LEMMA MinBounds ==
  ASSUME NEW a \in Int, NEW b \in Int
  PROVE  Min({a, b}) \in Int /\ Min({a, b}) <= a /\ Min({a, b}) <= b
<1>1. \E x \in {a, b} : \A y \in {a, b} : x <= y
  <2>1. CASE a <= b
    BY <2>1
  <2>2. CASE ~(a <= b)
    BY <2>2
  <2> QED
    BY <2>1, <2>2
<1>2. Min({a, b}) \in {a, b} /\ \A y \in {a, b} : Min({a, b}) <= y
  BY <1>1 DEF Min
<1> QED
  BY <1>2

\* A slot record is one.
LEMMA SlotRecType ==
  ASSUME NEW m, ModuleOK(m), NEW i \in DOMAIN m.header, NEW o \in Int, NEW l \in Int
  PROVE  SlotRec(m, i, o, l) \in Slot /\ SlotRec(m, i, o, l).index = i
<1>1. m.header \in Seq(Header)
  BY DEF ModuleOK
<1>2. m.header[i] \in Header /\ i \in Nat
  BY <1>1
<1>3. m.header[i].channels \in Nat /\ m.header[i].packed \in BOOLEAN
  BY <1>2 DEF Header
<1> QED
  BY <1>2, <1>3 DEF SlotRec, Slot

\* Whatever the format, a header yields a slot of its index.
LEMMA ReadSlotType ==
  ASSUME NEW m, ModuleOK(m), NEW i \in DOMAIN m.header
  PROVE  ReadSlot(m, i) \in Slot /\ ReadSlot(m, i).index = i
<1> DEFINE h == m.header[i]
<1>1. m.header \in Seq(Header) /\ Len(m.data) \in Nat /\ i \in 1..Len(m.header)
      /\ m.format \in {"mod", "s3m", "xm", "it", "mo3"}
  BY DEF ModuleOK
<1>2. h.length \in Nat /\ h.pointer \in Nat /\ h.span \in Nat /\ h.packed \in BOOLEAN
  <2>1. h \in Header
    BY <1>1
  <2> QED
    BY <2>1 DEF Header
<1>3. OffsetOfSlot(m, i) \in Nat
  <2>1. i - 1 \in 0..Len(m.header)
    BY <1>1
  <2> QED
    BY <1>1, <2>1, OffsetRecursion DEF OffsetOfSlot
<1> HIDE DEF h
<1>4. CASE m.format = "mod"
  <2> DEFINE left == Len(m.data) + 1 - OffsetOfSlot(m, i)
             l == Min({h.length, left})
  <2>1. left \in Int
    BY <1>1, <1>3
  <2>2. l \in Int
    <3> HIDE DEF left
    <3>1. h.length \in Int
      BY <1>2
    <3> QED
      BY <2>1, <3>1, MinBounds
  <2> HIDE DEF l
  <2>3. ReadSlot(m, i) = SlotRec(m, i, OffsetOfSlot(m, i), l)
    BY <1>4 DEF ReadSlot, ModSlot, l, h
  <2>4. OffsetOfSlot(m, i) \in Int
    BY <1>3
  <2> QED
    BY <2>2, <2>3, <2>4, SlotRecType
<1>5. CASE m.format = "xm"
  <2>1. ReadSlot(m, i) = SlotRec(m, i, OffsetOfSlot(m, i), h.length)
    BY <1>5 DEF ReadSlot, XmSlot, h
  <2>2. OffsetOfSlot(m, i) \in Int /\ h.length \in Int
    BY <1>2, <1>3
  <2> QED
    BY <2>1, <2>2, SlotRecType
<1>6. CASE m.format \in {"it", "s3m"}
  <2> DEFINE left == Len(m.data) + 1 - h.pointer
             l == Min({h.length, left})
             w == IF h.span <= left THEN h.span ELSE 0
             r == SlotRec(m, i, h.pointer, h.length)
  <2>1. left \in Int
    BY <1>1, <1>2
  <2>2. h.length \in Int /\ h.pointer \in Int
    BY <1>2
  <2>3. l \in Int /\ w \in Nat
    <3>1. w \in Nat
      BY <1>2
    <3> HIDE DEF left
    <3> QED
      BY <2>1, <2>2, <3>1, MinBounds
  <2>4. r \in Slot /\ r.index = i
    BY <2>2, SlotRecType
  <2>5. ReadSlot(m, i) = IF h.packed THEN [r EXCEPT !.span = w] ELSE SlotRec(m, i, h.pointer, l)
    BY <1>6 DEF ReadSlot, ItLikeSlot, h
  <2> HIDE DEF l, w, r
  <2>6. [r EXCEPT !.span = w] \in Slot /\ [r EXCEPT !.span = w].index = i
    BY <2>3, <2>4 DEF Slot
  <2>7. SlotRec(m, i, h.pointer, l) \in Slot /\ SlotRec(m, i, h.pointer, l).index = i
    BY <2>2, <2>3, SlotRecType
  <2> QED
    BY <2>5, <2>6, <2>7
<1>7. CASE m.format = "mo3"
  <2>1. ReadSlot(m, i) = SlotRec(m, i, 0, 0)
    BY <1>7 DEF ReadSlot
  <2> QED
    BY <2>1, SlotRecType
<1> QED
  BY <1>1, <1>4, <1>5, <1>6, <1>7

\* A slot the parser keeps: its PCM lies in the file.
GoodSlot(m, s) ==
  /\ s \in Slot /\ s.index \in DOMAIN m.header /\ s.length > 0 /\ s.offset > 0
  /\ s.offset + s.length - 1 <= Len(m.data)

(* The slots the parser keeps lie in the file, in the order of the headers. *)
LEMMA SlotsGood ==
  ASSUME NEW m, ModuleOK(m)
  PROVE  /\ SampleSlots(m) \in Seq(Slot)
         /\ \A k \in 1..Len(SampleSlots(m)) : GoodSlot(m, SampleSlots(m)[k])
         /\ \A j, k \in 1..Len(SampleSlots(m)) :
              j < k => SampleSlots(m)[j].index < SampleSlots(m)[k].index
<1> DEFINE all == [i \in DOMAIN m.header |-> ReadSlot(m, i)]
           K == {i \in DOMAIN all : all[i].length > 0 /\ all[i].offset > 0
                                      /\ all[i].offset + all[i].length - 1 <= Len(m.data)}
           slots == SampleSlots(m)
<1>1. DOMAIN m.header = 1..Len(m.header) /\ Len(m.header) \in Nat
  BY DEF ModuleOK
<1>2. \A i \in DOMAIN m.header : ReadSlot(m, i) \in Slot /\ ReadSlot(m, i).index = i
  BY ReadSlotType
<1>3. all \in Seq(Slot) /\ Len(all) = Len(m.header)
  BY <1>1, <1>2
<1>4. \A i \in 1..Len(all) : all[i] \in Slot /\ all[i].index = i
  BY <1>1, <1>2, <1>3
<1>5. slots = Only(all, K)
  BY DEF SampleSlots, WholeSlots
<1>6. \A i \in 1..Len(all) : i \in K => GoodSlot(m, all[i])
  BY <1>1, <1>3, <1>4 DEF GoodSlot
<1> HIDE DEF all, K, slots
<1>7. slots \in Seq(Slot)
  BY <1>3, <1>5, OnlyPicks
<1>8. PICK f : Picks(f, all, K, Len(all), slots)
  BY <1>3, <1>5, OnlyPicks
<1>9. /\ f \in [1..Len(slots) -> 1..Len(all)]
      /\ \A j \in 1..Len(slots) : f[j] \in K /\ slots[j] = all[f[j]]
      /\ \A j, k \in 1..Len(slots) : j < k => f[j] < f[k]
  BY <1>8 DEF Picks
<1>10. \A k \in 1..Len(slots) : GoodSlot(m, slots[k]) /\ slots[k].index = f[k]
  BY <1>4, <1>6, <1>9
<1> QED
  BY <1>7, <1>9, <1>10 DEF slots

(* sampleRegions: the leftmost slot of those that may still come.         *)
LEMMA LeftmostIs ==
  ASSUME NEW S \in SUBSET Slot, S # {}, \A s \in S : s.offset > 0
  PROVE  Leftmost(S) \in S
<1>1. \A s \in S : s.offset \in Nat /\ s.index \in Nat
  BY DEF Slot
<1> DEFINE O == {s.offset : s \in S}
<1>2. PICK o \in O : \A p \in O : o <= p
  <2>1. O \in SUBSET Nat /\ O # {}
    BY <1>1
  <2> HIDE DEF O
  <2> QED
    BY <2>1, LeastNumber
<1> DEFINE I == {s.index : s \in {t \in S : t.offset = o}}
<1>3. PICK i \in I : \A p \in I : i <= p
  <2>1. I \in SUBSET Nat /\ I # {}
    BY <1>1, <1>2
  <2> HIDE DEF I
  <2> QED
    BY <2>1, LeastNumber
<1>4. PICK s \in S : s.offset = o /\ s.index = i
  BY <1>3
<1>5. ASSUME NEW t \in S
      PROVE  s.offset < t.offset \/ (s.offset = t.offset /\ s.index <= t.index)
  <2>1. o \in Nat /\ t.offset \in Nat /\ o <= t.offset
    BY <1>1, <1>2
  <2>2. CASE t.offset = o
    BY <1>3, <1>4, <2>2
  <2>3. CASE t.offset # o
    BY <1>4, <2>1, <2>3
  <2> QED
    BY <2>2, <2>3
<1>6. \E x \in S : \A t \in S : x.offset < t.offset \/ (x.offset = t.offset /\ x.index <= t.index)
  BY <1>5
<1> QED
  BY <1>6 DEF Leftmost

\* A region more is a slot behind the last region, or none.
LEMMA AddRegionIs ==
  ASSUME NEW slots \in Seq(Slot), \A k \in 1..Len(slots) : slots[k].offset > 0, NEW kept \in Seq(Slot)
  PROVE  \/ AddRegion(kept, slots) = kept
         \/ \E k \in 1..Len(slots) : /\ slots[k].offset >= End(kept) /\ ~slots[k].packed /\ slots[k] \in Slot
                                     /\ AddRegion(kept, slots) = Append(kept, slots[k])
<1> DEFINE rest == {s \in ToSet(slots) : ~s.packed /\ s.offset >= End(kept)}
<1>1. \A s \in rest : \E k \in 1..Len(slots) : s = slots[k]
  BY DEF ToSet
<1>2. rest \in SUBSET Slot /\ \A s \in rest : s.offset > 0
  BY <1>1
<1>3. AddRegion(kept, slots) = IF rest = {} THEN kept ELSE Append(kept, Leftmost(rest))
  BY DEF AddRegion
<1>4. ASSUME rest # {}
      PROVE  \E k \in 1..Len(slots) : /\ slots[k].offset >= End(kept) /\ ~slots[k].packed /\ slots[k] \in Slot
                                     /\ AddRegion(kept, slots) = Append(kept, slots[k])
  <2>1. Leftmost(rest) \in rest
    <3> HIDE DEF rest
    <3> QED
      BY <1>2, <1>4, LeftmostIs
  <2>2. PICK k \in 1..Len(slots) : Leftmost(rest) = slots[k]
    BY <1>1, <2>1
  <2>3. ~slots[k].packed /\ slots[k].offset >= End(kept) /\ slots[k] \in Slot
    BY <2>1, <2>2
  <2> HIDE DEF rest
  <2> QED
    BY <1>3, <1>4, <2>2, <2>3
<1> HIDE DEF rest
<1> QED
  BY <1>3, <1>4

(* The regions are found one at a time.                                   *)
LEMMA RegionsRecursion ==
  ASSUME NEW slots \in Seq(Slot), \A k \in 1..Len(slots) : slots[k].offset > 0
  PROVE  /\ RegionsUpTo(slots)[0] = <<>>
         /\ \A i \in 1..Len(slots) : RegionsUpTo(slots)[i] = AddRegion(RegionsUpTo(slots)[i - 1], slots)
         /\ \A i \in 0..Len(slots) : RegionsUpTo(slots)[i] \in Seq(Slot)
<1> DEFINE n == Len(slots)
           V == Seq(Slot)
           W == RegionsUpTo(slots)
           Next(p, i) == AddRegion(p, slots)
           step == [i \in 1..n |-> [p \in V |-> Next(p, i)]]
           Is(f) == f = [i \in 0..n |-> IF i = 0 THEN <<>> ELSE Next(f[i - 1], i)]
<1>1. n \in Nat /\ <<>> \in V /\ \A i \in 1..n, p \in V : Next(p, i) \in V
  <2> SUFFICES ASSUME NEW p \in V PROVE AddRegion(p, slots) \in V
    OBVIOUS
  <2> QED
    BY AddRegionIs, AppendProperties
<1>2. W = CHOOSE f1 : Is(f1)
  BY DEF RegionsUpTo
<1>3. \E f \in [0..n -> V] : Is(f)
  <2>1. step \in [1..n -> [V -> V]]
    <3> HIDE DEF Next, V, n
    <3> QED
      BY <1>1
  <2>2. \E f \in [0..n -> V] : Runs(f, n, <<>>, step)
    <3> HIDE DEF step, n, V
    <3> QED
      BY <1>1, <2>1, RecursionIsThere, Zenon
  <2>3. PICK f \in [0..n -> V] : f[0] = <<>> /\ \A i \in 1..n : f[i] = step[i][f[i - 1]]
    BY <2>2 DEF Runs
  <2> HIDE DEF Next, V, n
  <2>4. ASSUME NEW i \in 0..n
        PROVE  f[i] = IF i = 0 THEN <<>> ELSE Next(f[i - 1], i)
    <3>1. CASE i = 0
      BY <2>3, <3>1
    <3>2. CASE i # 0
      <4>1. i \in 1..n /\ i - 1 \in 0..n
        BY <1>1, <3>2
      <4>2. f[i - 1] \in V
        BY <2>3, <4>1
      <4> QED
        BY <2>3, <3>2, <4>1, <4>2
    <3> QED
      BY <3>1, <3>2
  <2> QED
    BY <2>3, <2>4
<1>4. Is(W)
  <2> HIDE DEF Next, V, n, W
  <2> QED
    BY <1>2, <1>3
<1>5. W[0] = <<>> /\ \A i \in 1..n : W[i] = Next(W[i - 1], i)
  <2> HIDE DEF Next, V, n, W
  <2>1. ASSUME NEW i \in 1..n PROVE i \in 0..n /\ i # 0
    BY <1>1
  <2> QED
    BY <1>1, <1>4, <2>1
<1>6. \A i \in 0..n : W[i] \in V
  <2> HIDE DEF Next, V, n, W, Is
  <2> QED
    BY <1>1, <1>5, RecursionStays
<1> QED
  BY <1>5, <1>6

\* Regions one after the other, all in a file of so many bytes.
InFile(regions, size) ==
  /\ size \in Nat
  /\ \A k \in 1..Len(regions) :
       /\ regions[k].offset \in Nat \ {0} /\ regions[k].length \in Nat \ {0}
       /\ regions[k].offset + regions[k].length <= size + 1
       /\ From(regions, k) <= regions[k].offset

\* The gap before a region begins in the file, or right behind it.
LEMMA FromIs ==
  ASSUME NEW regions \in Seq(Slot), NEW size, InFile(regions, size), NEW k \in 1..(Len(regions) + 1)
  PROVE  From(regions, k) \in 1..(size + 1)
<1>1. CASE k = 1
  BY <1>1 DEF From, InFile
<1>2. CASE k # 1
  <2>1. k - 1 \in 1..Len(regions) /\ From(regions, k) = regions[k - 1].offset + regions[k - 1].length
    BY <1>2 DEF From
  <2> QED
    BY <2>1 DEF InFile
<1> QED
  BY <1>1, <1>2

\* Where the PCM of such a slot lies, in numbers.
LEMMA GoodSlotIs ==
  ASSUME NEW m, Len(m.data) \in Nat, NEW s, GoodSlot(m, s)
  PROVE  /\ s \in Slot /\ s.offset \in Nat \ {0} /\ s.length \in Nat \ {0} /\ s.span \in Nat
         /\ s.offset + s.length <= Len(m.data) + 1
<1>1. s.offset \in Int /\ s.length \in Int /\ s.span \in Nat /\ s \in Slot
  BY DEF GoodSlot, Slot
<1> QED
  BY <1>1 DEF GoodSlot

(* sampleRegions: the regions lie in the file and none begins before the  *)
(* last one ends.                                                         *)
LEMMA RegionsInFile ==
  ASSUME NEW m, ModuleOK(m)
  PROVE  SampleRegions(m) \in Seq(Slot) /\ InFile(SampleRegions(m), Len(m.data))
<1> DEFINE slots == SampleSlots(m)
           n == Len(slots)
           size == Len(m.data)
           R == RegionsUpTo(slots)
           G == {i \in 0..n : InFile(R[i], size)}
<1>1. /\ slots \in Seq(Slot) /\ n \in Nat /\ size \in Nat
      /\ \A k \in 1..n : GoodSlot(m, slots[k])
  BY SlotsGood DEF ModuleOK
<1> HIDE DEF slots
<1>2. \A k \in 1..n : slots[k].offset \in Nat \ {0} /\ slots[k].length \in Nat \ {0}
                      /\ slots[k].offset + slots[k].length <= size + 1
  <2> TAKE k \in 1..n
  <2>1. GoodSlot(m, slots[k])
    BY <1>1
  <2> QED
    BY <1>1, <2>1, GoodSlotIs
<1>3. \A k \in 1..n : slots[k].offset > 0
  BY <1>2
<1>4. /\ R[0] = <<>>
      /\ \A i \in 1..n : R[i] = AddRegion(R[i - 1], slots)
      /\ \A i \in 0..n : R[i] \in Seq(Slot)
  BY <1>1, <1>3, RegionsRecursion
<1> HIDE DEF R
<1>5. 0 \in G
  BY <1>1, <1>4 DEF InFile
<1>6. ASSUME NEW i \in (0 + 1)..n, i - 1 \in G PROVE i \in G
  <2> DEFINE p == R[i - 1]
             l == Len(p)
  <2>1. i \in 1..n /\ i \in 0..n /\ i - 1 \in 0..n
    BY <1>1
  <2>2. p \in Seq(Slot) /\ InFile(p, size) /\ l \in Nat
    BY <1>4, <1>6, <2>1
  <2>3. CASE R[i] = p
    BY <2>1, <2>2, <2>3
  <2>4. ASSUME NEW k \in 1..n, slots[k].offset >= End(p), slots[k] \in Slot, R[i] = Append(p, slots[k])
        PROVE  InFile(R[i], size)
    <3> DEFINE q == R[i]
    <3>1. q = Append(p, slots[k])
      BY <2>4
    <3> HIDE DEF p, q
    <3>2. Len(q) = l + 1 /\ q[l + 1] = slots[k] /\ \A j \in 1..l : q[j] = p[j]
      BY <2>2, <2>4, <3>1, AppendProperties
    <3>3. From(q, l + 1) = End(p)
      <4>1. CASE l = 0
        BY <2>2, <4>1 DEF From, End
      <4>2. CASE l # 0
        <5>1. l + 1 # 1 /\ (l + 1) - 1 = l /\ l \in 1..l /\ p # <<>>
          BY <2>2, <4>2
        <5>2. Last(p) = p[l]
          BY <2>2, <5>1 DEF Last
        <5> HIDE DEF l
        <5> QED
          BY <3>2, <5>1, <5>2 DEF From, End
      <4> QED
        BY <4>1, <4>2
    <3> HIDE DEF l
    <3>4. ASSUME NEW j \in 1..(l + 1)
          PROVE  /\ q[j].offset \in Nat \ {0} /\ q[j].length \in Nat \ {0}
                 /\ q[j].offset + q[j].length <= size + 1
                 /\ From(q, j) <= q[j].offset
      <4>1. CASE j = l + 1
        <5>1. End(p) <= slots[k].offset
          <6>1. End(p) \in Int
            <7>1. From(p, l + 1) \in 1..(size + 1)
              <8>1. l + 1 \in 1..(Len(p) + 1)
                BY <2>2 DEF l
              <8> QED
                BY <2>2, <8>1, FromIs
            <7>2. From(p, l + 1) = From(q, l + 1)
              <8>1. l + 1 = 1 \/ (l + 1) - 1 \in 1..l
                BY <2>2
              <8> QED
                BY <3>2, <8>1 DEF From
            <7> QED
              BY <1>1, <3>3, <7>1, <7>2
          <6> QED
            BY <1>2, <2>4, <6>1
        <5> QED
          BY <1>2, <3>2, <3>3, <4>1, <5>1
      <4>2. CASE j # l + 1
        <5>1. j \in 1..l
          BY <2>2, <4>2
        <5>2. From(q, j) = From(p, j)
          <6>1. j = 1 \/ j - 1 \in 1..l
            BY <2>2, <5>1
          <6> QED
            BY <3>2, <6>1 DEF From
        <5> QED
          BY <2>2, <3>2, <5>1, <5>2 DEF InFile, l
      <4> QED
        BY <4>1, <4>2
    <3>5. InFile(q, size)
      BY <1>1, <3>2, <3>4 DEF InFile
    <3> QED
      BY <3>5 DEF q
  <2>5. R[i] = AddRegion(p, slots)
    BY <1>4, <2>1
  <2>6. R[i] = p \/ \E k \in 1..n : slots[k].offset >= End(p) /\ slots[k] \in Slot /\ R[i] = Append(p, slots[k])
    <3> HIDE DEF p
    <3> QED
      BY <1>1, <1>3, <2>2, <2>5, AddRegionIs
  <2>7. InFile(R[i], size)
    BY <2>2, <2>3, <2>4, <2>6
  <2> QED
    BY <2>1, <2>7
<1>7. \A i \in 0..n : i \in G
  <2> HIDE DEF G, n
  <2> QED
    BY <1>1, <1>5, <1>6, CountUp
<1>8. n \in 0..n
  BY <1>1
<1> QED
  BY <1>4, <1>7, <1>8 DEF SampleRegions, R, slots

\* The bytes between two regions, and how many they are.
LEMMA GapIs ==
  ASSUME NEW data \in Seq(Bytes), NEW regions \in Seq(Slot), InFile(regions, Len(data)),
         NEW k \in 1..Len(regions)
  PROVE  /\ SubSeq(data, From(regions, k), regions[k].offset - 1) \in Seq(Bytes)
         /\ Len(SubSeq(data, From(regions, k), regions[k].offset - 1)) = regions[k].offset - From(regions, k)
<1> DEFINE a == From(regions, k)
           o == regions[k].offset
           s == SubSeq(data, a, o - 1)
<1>1. a \in Nat \ {0} /\ o \in Nat \ {0} /\ a <= o /\ o - 1 <= Len(data)
  <2>1. k \in 1..(Len(regions) + 1)
    OBVIOUS
  <2>2. a \in 1..(Len(data) + 1)
    BY <2>1, FromIs
  <2>3. o \in Nat \ {0} /\ regions[k].length \in Nat \ {0} /\ o + regions[k].length <= Len(data) + 1 /\ a <= o
    BY DEF InFile
  <2> QED
    BY <2>2, <2>3
<1> HIDE DEF a, o
<1>2. \A i \in a..(o - 1) : data[i] \in Bytes
  BY <1>1
<1>3. s \in Seq(Bytes) /\ Len(s) = IF a <= o - 1 THEN o - 1 - a + 1 ELSE 0
  BY <1>1, <1>2, SubSeqProperties
<1>4. Len(s) = o - a
  <2> HIDE DEF s
  <2> QED
    BY <1>1, <1>3
<1> QED
  BY <1>3, <1>4 DEF a, o

(* buildSkeleton: the gaps so far.                                        *)
LEMMA SkeletonRecursion ==
  ASSUME NEW data \in Seq(Bytes), NEW regions \in Seq(Slot), InFile(regions, Len(data))
  PROVE  /\ SkeletonUpTo(data, regions)[0] = <<>>
         /\ \A i \in 1..Len(regions) :
              SkeletonUpTo(data, regions)[i] =
                SkeletonUpTo(data, regions)[i - 1] \o SubSeq(data, From(regions, i), regions[i].offset - 1)
         /\ \A i \in 0..Len(regions) : SkeletonUpTo(data, regions)[i] \in Seq(Bytes)
<1> DEFINE n == Len(regions)
           V == Seq(Bytes)
           W == SkeletonUpTo(data, regions)
           Next(p, i) == p \o SubSeq(data, From(regions, i), regions[i].offset - 1)
           step == [i \in 1..n |-> [p \in V |-> Next(p, i)]]
           Is(f) == f = [i \in 0..n |-> IF i = 0 THEN <<>> ELSE Next(f[i - 1], i)]
<1>1. n \in Nat /\ <<>> \in V /\ \A i \in 1..n, p \in V : Next(p, i) \in V
  <2> SUFFICES ASSUME NEW i \in 1..n, NEW p \in V
               PROVE  p \o SubSeq(data, From(regions, i), regions[i].offset - 1) \in V
    OBVIOUS
  <2>1. SubSeq(data, From(regions, i), regions[i].offset - 1) \in Seq(Bytes)
    BY GapIs
  <2> QED
    BY <2>1, ConcatProperties
<1>2. W = CHOOSE f1 : Is(f1)
  BY DEF SkeletonUpTo
<1>3. \E f \in [0..n -> V] : Is(f)
  <2>1. step \in [1..n -> [V -> V]]
    <3> HIDE DEF Next, V, n
    <3> QED
      BY <1>1
  <2>2. \E f \in [0..n -> V] : Runs(f, n, <<>>, step)
    <3> HIDE DEF step, n, V
    <3> QED
      BY <1>1, <2>1, RecursionIsThere, Zenon
  <2>3. PICK f \in [0..n -> V] : f[0] = <<>> /\ \A i \in 1..n : f[i] = step[i][f[i - 1]]
    BY <2>2 DEF Runs
  <2> HIDE DEF Next, V, n
  <2>4. ASSUME NEW i \in 0..n
        PROVE  f[i] = IF i = 0 THEN <<>> ELSE Next(f[i - 1], i)
    <3>1. CASE i = 0
      BY <2>3, <3>1
    <3>2. CASE i # 0
      <4>1. i \in 1..n /\ i - 1 \in 0..n
        BY <1>1, <3>2
      <4>2. f[i - 1] \in V
        BY <2>3, <4>1
      <4> QED
        BY <2>3, <3>2, <4>1, <4>2
    <3> QED
      BY <3>1, <3>2
  <2> QED
    BY <2>3, <2>4
<1>4. Is(W)
  <2> HIDE DEF Next, V, n, W
  <2> QED
    BY <1>2, <1>3
<1>5. W[0] = <<>> /\ \A i \in 1..n : W[i] = Next(W[i - 1], i)
  <2> HIDE DEF Next, V, n, W
  <2>1. ASSUME NEW i \in 1..n PROVE i \in 0..n /\ i # 0
    BY <1>1
  <2> QED
    BY <1>1, <1>4, <2>1
<1>6. \A i \in 0..n : W[i] \in V
  <2> HIDE DEF Next, V, n, W, Is
  <2> QED
    BY <1>1, <1>5, RecursionStays
<1> QED
  BY <1>5, <1>6

-----------------------------------------------------------------------------
(* reassemble (v1) walks the regions as buildSkeleton does, so the gaps and *)
(* the samples fall back into their places (FirstExact).                  *)

\* new is old with the bytes of the file from a to b written where they belong.
Filled(new, old, data, a, b) ==
  /\ new \in [1..Len(data) -> Bytes]
  /\ \A j \in 1..Len(data) : new[j] = IF j \in a..b THEN data[j] ELSE old[j]

\* Writing bytes of the file where they belong makes that part of it true.
LEMMA PutTrue ==
  ASSUME NEW data \in Seq(Bytes), NEW out \in [1..Len(data) -> Bytes],
         NEW a \in Nat \ {0}, NEW b \in Nat, b <= Len(data)
  PROVE  Filled(Put(out, a, SubSeq(data, a, b)), out, data, a, b)
<1> DEFINE piece == SubSeq(data, a, b)
<1>1. \A i \in a..b : data[i] \in Bytes
  OBVIOUS
<1>2. /\ piece \in Seq(Bytes) /\ Len(piece) = IF a <= b THEN b - a + 1 ELSE 0
      /\ \A i \in 1..(b - a + 1) : piece[i] = data[a + i - 1]
  BY <1>1, SubSeqProperties
<1> HIDE DEF piece
<1>3. ASSUME NEW j \in 1..Len(data)
      PROVE  (IF j - a + 1 \in DOMAIN piece THEN piece[j - a + 1] ELSE out[j])
               = IF j \in a..b THEN data[j] ELSE out[j]
  <2>1. DOMAIN piece = 1..Len(piece)
    BY <1>2
  <2>2. CASE j \in a..b
    <3>1. j - a + 1 \in 1..(b - a + 1) /\ j - a + 1 \in 1..Len(piece) /\ a + (j - a + 1) - 1 = j
      BY <1>2, <2>2
    <3> QED
      BY <1>2, <2>1, <2>2, <3>1
  <2>3. CASE j \notin a..b
    <3>1. j - a + 1 \notin 1..Len(piece)
      BY <1>2, <2>3
    <3> QED
      BY <2>1, <2>3, <3>1
  <2> QED
    BY <2>2, <2>3
<1>4. Put(out, a, piece) =
        [j \in 1..Len(data) |-> IF j - a + 1 \in DOMAIN piece THEN piece[j - a + 1] ELSE out[j]]
  BY DEF Put
<1>5. \A j \in 1..Len(data) : Put(out, a, piece)[j] = IF j \in a..b THEN data[j] ELSE out[j]
  BY <1>3, <1>4
<1>6. \A j \in 1..Len(data) : Put(out, a, piece)[j] \in Bytes
  BY <1>5
<1> QED
  BY <1>4, <1>5, <1>6 DEF Filled, piece

(* What follows u in a sequence that begins with u and v.                 *)
LEMMA Middle ==
  ASSUME NEW X, NEW u \in Seq(X), NEW v \in Seq(X), NEW t \in Seq(X), Len(u \o v) <= Len(t),
         \A i \in 1..Len(u \o v) : t[i] = (u \o v)[i]
  PROVE  SubSeq(t, Len(u) + 1, Len(u) + Len(v)) = v
<1> DEFINE n == Len(u)
           l == Len(v)
           s == SubSeq(t, n + 1, n + l)
<1>1. n \in Nat /\ l \in Nat /\ Len(u \o v) = n + l /\ n + l <= Len(t)
      /\ \A i \in 1..(n + l) : t[i] = IF i <= n THEN u[i] ELSE v[i - n]
  <2>1. Len(u \o v) = n + l /\ \A i \in 1..(n + l) : (u \o v)[i] = IF i <= n THEN u[i] ELSE v[i - n]
    BY ConcatProperties
  <2> QED
    BY <2>1
<1> HIDE DEF n, l
<1>2. \A i \in (n + 1)..(n + l) : t[i] \in X
  BY <1>1
<1>3. /\ s \in Seq(X) /\ Len(s) = IF n + 1 <= n + l THEN n + l - (n + 1) + 1 ELSE 0
      /\ \A i \in 1..(n + l - (n + 1) + 1) : s[i] = t[n + 1 + i - 1]
  BY <1>1, <1>2, SubSeqProperties
<1> HIDE DEF s
<1>4. Len(s) = l
  BY <1>1, <1>3
<1>5. \A i \in 1..Len(s) : s[i] = v[i]
  <2> TAKE i \in 1..Len(s)
  <2>1. /\ i \in 1..(n + l - (n + 1) + 1) /\ n + 1 + i - 1 = n + i /\ n + i \in 1..(n + l)
        /\ ~(n + i <= n) /\ (n + i) - n = i
    BY <1>1, <1>4
  <2> QED
    BY <1>1, <1>3, <2>1
<1>6. Len(s) = Len(v)
  BY <1>4 DEF l
<1>7. s = v
  BY <1>3, <1>5, <1>6, SeqEqual
<1> QED
  BY <1>7 DEF s, n, l

\* t begins with s.
Begins(s, t) == Len(s) <= Len(t) /\ \A i \in 1..Len(s) : t[i] = s[i]

\* And does so however t goes on.
LEMMA BeginsConcat ==
  ASSUME NEW X, NEW s \in Seq(X), NEW t \in Seq(X), NEW u \in Seq(X), Begins(s, t)
  PROVE  Begins(s, t \o u)
<1>1. Len(t \o u) = Len(t) + Len(u) /\ Len(t) \in Nat /\ Len(u) \in Nat /\ Len(s) \in Nat
      /\ \A i \in 1..Len(t) : (t \o u)[i] = t[i]
  BY ConcatProperties
<1> QED
  BY <1>1 DEF Begins

(* The skeleton begins with the gaps before any of its regions.           *)
LEMMA SkeletonBegins ==
  ASSUME NEW data \in Seq(Bytes), NEW regions \in Seq(Slot), InFile(regions, Len(data)),
         NEW k \in 0..Len(regions)
  PROVE  Begins(SkeletonUpTo(data, regions)[k], SkeletonV1(data, regions))
         /\ SkeletonV1(data, regions) \in Seq(Bytes)
<1> DEFINE n == Len(regions)
           W == SkeletonUpTo(data, regions)
           gap(i) == SubSeq(data, From(regions, i), regions[i].offset - 1)
           tail == SubSeq(data, From(regions, n + 1), Len(data))
           G == {i \in k..n : Begins(W[k], W[i])}
<1>1. /\ n \in Nat /\ k \in Nat /\ W[0] = <<>>
      /\ \A i \in 1..n : W[i] = W[i - 1] \o gap(i)
      /\ \A i \in 0..n : W[i] \in Seq(Bytes)
  <2>1. W[0] = <<>> /\ \A i \in 0..n : W[i] \in Seq(Bytes)
    BY SkeletonRecursion
  <2>2. \A i \in 1..n : W[i] = W[i - 1] \o gap(i)
    BY SkeletonRecursion
  <2>3. n \in Nat /\ k \in Nat
    OBVIOUS
  <2> HIDE DEF W, gap, n
  <2> QED
    BY <2>1, <2>2, <2>3
<1>2. \A i \in 1..n : gap(i) \in Seq(Bytes)
  BY GapIs
<1>3. tail \in Seq(Bytes)
  <2>1. From(regions, n + 1) \in 1..(Len(data) + 1)
    <3>1. n + 1 \in 1..(Len(regions) + 1)
      BY <1>1
    <3> QED
      BY <3>1, FromIs
  <2> DEFINE f == From(regions, n + 1)
  <2> HIDE DEF f
  <2>2. f \in Int /\ Len(data) \in Int /\ \A i \in f..Len(data) : data[i] \in Bytes
    BY <2>1 DEF f
  <2>3. SubSeq(data, f, Len(data)) \in Seq(Bytes)
    BY <2>2, SubSeqProperties
  <2> QED
    BY <2>3 DEF f
<1> HIDE DEF W, gap, tail
<1>4. k \in G
  BY <1>1 DEF Begins
<1>5. ASSUME NEW i \in (k + 1)..n, i - 1 \in G PROVE i \in G
  <2>1. i \in 1..n /\ i \in k..n /\ i - 1 \in 0..n /\ k \in 0..n
    BY <1>1
  <2>2. Begins(W[k], W[i - 1] \o gap(i))
    BY <1>1, <1>2, <1>5, <2>1, BeginsConcat
  <2> QED
    BY <1>1, <2>1, <2>2
<1>6. \A i \in k..n : i \in G
  <2> HIDE DEF G, n
  <2> QED
    BY <1>1, <1>4, <1>5, CountUp
<1>7. n \in k..n /\ n \in 0..n
  BY <1>1
<1>8. Begins(W[k], W[n] \o tail) /\ W[n] \o tail \in Seq(Bytes)
  BY <1>1, <1>3, <1>6, <1>7, BeginsConcat, ConcatProperties
<1> QED
  BY <1>8 DEF SkeletonV1, W, tail

(* Verified blocks are the blocks that were baked.                        *)
LEMMA VerifiedIs ==
  ASSUME NEW d, AllVerified(d), NEW chunks, NEW X, chunks \in Seq(X), ToSet(chunks) \subseteq Leaves(d)
  PROVE  [k \in DOMAIN chunks |-> FetchVerified(chunks[k]).bytes] = chunks
<1>1. \A k \in DOMAIN chunks : chunks[k] \in Leaves(d)
  BY DEF ToSet
<1>2. \A c \in Leaves(d) : FetchVerified(c).bytes = c
  <2>1. \A c \in Leaves(d) : FetchVerified(c).ok
    BY DEF AllVerified
  <2>2. \A c \in Leaves(d) : FetchVerified(c).ok = (Get(c) = c) /\ FetchVerified(c).bytes = Get(c)
    BY DEF FetchVerified
  <2> QED
    BY <2>1, <2>2
<1>3. chunks = [k \in DOMAIN chunks |-> chunks[k]]
  OBVIOUS
<1>4. \A k \in DOMAIN chunks : FetchVerified(chunks[k]).bytes = chunks[k]
  BY <1>1, <1>2
<1> QED
  BY <1>3, <1>4

\* So are the parts of a dag,
LEMMA VerifiedParts ==
  ASSUME NEW d, AllVerified(d), NEW X, d.parts \in Seq(X)
  PROVE  Parts(d) = d.parts
<1>1. ToSet(d.parts) \subseteq Leaves(d)
  BY DEF Leaves
<1> QED
  BY <1>1, VerifiedIs DEF Parts

\* and the leaves of its samples, which put together are what was chunked.
LEMMA VerifiedPcm ==
  ASSUME NEW d, AllVerified(d), NEW X, NEW k \in DOMAIN d.samples, d.samples[k].chunks \in Seq(X)
  PROVE  Pcm(d.samples[k].chunks) = FlattenSeq(d.samples[k].chunks)
<1> DEFINE chunks == d.samples[k].chunks
<1>1. ToSet(chunks) \subseteq Leaves(d)
  BY DEF Leaves
<1>2. chunks \in Seq(X)
  OBVIOUS
<1> HIDE DEF chunks
<1>3. [j \in DOMAIN chunks |-> FetchVerified(chunks[j]).bytes] = chunks
  BY <1>1, <1>2, VerifiedIs
<1>4. Pcm(chunks) = FlattenSeq(chunks)
  BY <1>3 DEF Pcm
<1> QED
  BY <1>4 DEF chunks

(* reassemble: what is written when k samples are in place.               *)
Written(data, regions, k) ==
  [out |-> [j \in 1..Len(data) |-> IF j < From(regions, k + 1) THEN data[j] ELSE 0],
   cursor |-> Len(SkeletonUpTo(data, regions)[k]) + 1]

(* One more sample with the gap before it.                                *)
LEMMA WrittenStep ==
  ASSUME NEW data \in Seq(Bytes), NEW regions \in Seq(Slot), InFile(regions, Len(data)),
         NEW k \in 1..Len(regions), NEW s, s.offset = regions[k].offset,
         Pcm(s.chunks) = SubSeq(data, regions[k].offset, regions[k].offset + regions[k].length - 1)
  PROVE  AddSample(Written(data, regions, k - 1), SkeletonV1(data, regions), From(regions, k), s)
           = Written(data, regions, k)
<1> DEFINE a == From(regions, k)
           o == regions[k].offset
           l == regions[k].length
           N == Len(data)
           S == SkeletonV1(data, regions)
           u == SkeletonUpTo(data, regions)[k - 1]
           v == SubSeq(data, a, o - 1)
           old == [j \in 1..N |-> IF j < a THEN data[j] ELSE 0]
           mid == Put(old, a, v)
           new == Put(mid, o, SubSeq(data, o, o + l - 1))
<1>1. /\ a \in Nat \ {0} /\ o \in Nat \ {0} /\ l \in Nat \ {0} /\ N \in Nat /\ a <= o /\ o + l <= N + 1
      /\ k \in Nat /\ (k - 1) + 1 = k
  <2>1. k \in 1..(Len(regions) + 1)
    OBVIOUS
  <2>2. a \in 1..(Len(data) + 1)
    BY <2>1, FromIs
  <2>3. o \in Nat \ {0} /\ l \in Nat \ {0} /\ o + l <= Len(data) + 1 /\ a <= o
    BY DEF InFile
  <2> QED
    BY <2>2, <2>3
<1>2. From(regions, k + 1) = o + l
  <2>1. k + 1 # 1 /\ (k + 1) - 1 = k
    BY <1>1
  <2> QED
    BY <2>1 DEF From
<1>3. k - 1 \in 0..Len(regions) /\ k \in 0..Len(regions)
  OBVIOUS
<1>4. /\ u \in Seq(Bytes) /\ SkeletonUpTo(data, regions)[k] = u \o v
  <2>1. u \in Seq(Bytes)
    BY <1>3, SkeletonRecursion
  <2>2. SkeletonUpTo(data, regions)[k] = u \o v
    BY SkeletonRecursion
  <2> QED
    BY <2>1, <2>2
<1>5. v \in Seq(Bytes) /\ Len(v) = o - a
  BY GapIs
<1>6. Begins(SkeletonUpTo(data, regions)[k], S) /\ S \in Seq(Bytes)
  BY <1>3, SkeletonBegins
<1> HIDE DEF a, o, l, S, u, v
<1>7. SubSeq(S, Len(u) + 1, Len(u) + Len(v)) = v
  <2>1. Len(u \o v) <= Len(S) /\ \A i \in 1..Len(u \o v) : S[i] = (u \o v)[i]
    BY <1>4, <1>6 DEF Begins
  <2> QED
    BY <1>4, <1>5, <1>6, <2>1, Middle
<1>8. Len(u) \in Nat /\ Len(u \o v) = Len(u) + (o - a)
  BY <1>4, <1>5
<1>9. Written(data, regions, k - 1) = [out |-> old, cursor |-> Len(u) + 1]
  BY <1>1 DEF Written, a, u
<1>10. Written(data, regions, k) =
         [out |-> [j \in 1..N |-> IF j < o + l THEN data[j] ELSE 0], cursor |-> Len(u) + (o - a) + 1]
  BY <1>2, <1>4, <1>8 DEF Written
<1>0. old \in [1..N -> Bytes]
  BY RepackAssumption
<1>11. mid \in [1..N -> Bytes] /\ \A j \in 1..N : mid[j] = IF j \in a..(o - 1) THEN data[j] ELSE old[j]
  <2> DEFINE b == o - 1
  <2>1. old \in [1..Len(data) -> Bytes] /\ b \in Nat /\ b <= Len(data)
    BY <1>0, <1>1
  <2>2. v = SubSeq(data, a, b)
    BY DEF v
  <2> HIDE DEF old, b
  <2>3. Filled(Put(old, a, SubSeq(data, a, b)), old, data, a, b)
    BY <1>1, <2>1, PutTrue
  <2> QED
    BY <2>2, <2>3 DEF b, Filled
<1>12. new \in [1..N -> Bytes] /\ \A j \in 1..N : new[j] = IF j \in o..(o + l - 1) THEN data[j] ELSE mid[j]
  <2> DEFINE b == o + l - 1

  <2>1. mid \in [1..Len(data) -> Bytes] /\ b \in Nat /\ b <= Len(data)
    BY <1>1, <1>11
  <2> HIDE DEF mid, b
  <2>3. Filled(Put(mid, o, SubSeq(data, o, b)), mid, data, o, b)
    BY <1>1, <2>1, PutTrue
  <2> QED
    BY <2>3 DEF b, Filled
<1>13. new = [j \in 1..N |-> IF j < o + l THEN data[j] ELSE 0]
  <2>1. ASSUME NEW j \in 1..N
        PROVE  new[j] = IF j < o + l THEN data[j] ELSE 0
    <3>1. mid[j] = IF j \in a..(o - 1) THEN data[j] ELSE old[j]
      BY <1>11
    <3>2. old[j] = IF j < a THEN data[j] ELSE 0
      OBVIOUS
    <3>3. new[j] = IF j \in o..(o + l - 1) THEN data[j] ELSE mid[j]
      BY <1>12
    <3> HIDE DEF mid, old, new
    <3> QED
      BY <1>1, <3>1, <3>2, <3>3
  <2> HIDE DEF new, mid
  <2> QED
    BY <1>12, <2>1
<1>14. AddSample([out |-> old, cursor |-> Len(u) + 1], S, a, s) =
         [out |-> new, cursor |-> Len(u) + 1 + (o - a)]
  <2> DEFINE c == Len(u) + 1
             acc == [out |-> old, cursor |-> c]
             gap == s.offset - a
             piece == Sub(S, acc.cursor, gap)
  <2>1. AddSample(acc, S, a, s) =
          [out |-> Put(Put(acc.out, a, piece), s.offset, Pcm(s.chunks)), cursor |-> acc.cursor + gap]
    BY DEF AddSample
  <2>2. acc.out = old /\ acc.cursor = c
    <3> HIDE DEF old, c
    <3> QED
      OBVIOUS
  <2>3. s.offset = o /\ gap = o - a /\ Pcm(s.chunks) = SubSeq(data, o, o + l - 1)
    BY DEF o, l
  <2>4. c + (o - a) - 1 = Len(u) + Len(v)
    BY <1>1, <1>5, <1>8
  <2>5. piece = v
    <3>1. piece = SubSeq(S, c, c + (o - a) - 1)
      <4> HIDE DEF c, acc
      <4> QED
        BY <2>2, <2>3 DEF Sub
    <3> QED
      BY <1>7, <2>4, <3>1
  <2> HIDE DEF acc, piece, gap, c, old
  <2>6. AddSample(acc, S, a, s) = [out |-> new, cursor |-> c + (o - a)]
    BY <2>1, <2>2, <2>3, <2>5
  <2> QED
    BY <2>6 DEF acc, c
<1>15. Len(u) + 1 + (o - a) = Len(u) + (o - a) + 1
  BY <1>1, <1>8
<1> QED
  BY <1>9, <1>10, <1>13, <1>14, <1>15 DEF a, S

(* reassemble gives back the file that was cut into regions.              *)
LEMMA ReassembleTrue ==
  ASSUME NEW data \in Seq(Bytes), NEW regions \in Seq(Slot), InFile(regions, Len(data)), NEW d,
         d.length = Len(data), DOMAIN d.samples = 1..Len(regions), Len(d.samples) = Len(regions),
         \A k \in 1..Len(regions) : /\ d.samples[k].offset = regions[k].offset
                                    /\ d.samples[k].length = regions[k].length,
         FlattenSeq(Parts(d)) = SkeletonV1(data, regions),
         \A k \in 1..Len(regions) :
           Pcm(d.samples[k].chunks) = SubSeq(data, regions[k].offset, regions[k].offset + regions[k].length - 1)
  PROVE  Reassemble(d) = data
<1> DEFINE n == Len(regions)
           N == Len(data)
           S == SkeletonV1(data, regions)
           none == [out |-> Zeros(d.length), cursor |-> 1]
           F == [k \in 0..n |-> Written(data, regions, k)]
           Add(acc, k) == AddSample(acc, FlattenSeq(Parts(d)), From(d.samples, k), d.samples[k])
           Is(f) == f = [k \in 0..Len(d.samples) |-> IF k = 0 THEN none ELSE Add(f[k - 1], k)]
           last == From(regions, n + 1)
           u == SkeletonUpTo(data, regions)[n]
           tail == SubSeq(data, last, N)
<1>1. n \in Nat /\ N \in Nat /\ last \in 1..(N + 1) /\ n \in 0..n
  <2>1. n \in Nat /\ N \in Nat /\ n + 1 \in 1..(Len(regions) + 1)
    OBVIOUS
  <2> QED
    BY <2>1, FromIs
<1>2. \A k \in 1..(n + 1) : From(d.samples, k) = From(regions, k)
  <2> TAKE k \in 1..(n + 1)
  <2>1. CASE k = 1
    BY <2>1 DEF From
  <2>2. CASE k # 1
    <3>1. k - 1 \in 1..n
      BY <2>2
    <3> QED
      BY <2>2, <3>1 DEF From
  <2> QED
    BY <2>1, <2>2
<1>3. F[0] = none
  <2>1. SkeletonUpTo(data, regions)[0] = <<>>
    BY SkeletonRecursion
  <2>2. From(regions, 0 + 1) = 1
    BY DEF From
  <2>3. Len(SkeletonUpTo(data, regions)[0]) + 1 = 1
    BY <2>1
  <2>4. [j \in 1..N |-> IF j < From(regions, 0 + 1) THEN data[j] ELSE 0] = Zeros(d.length)
    <3>1. \A j \in 1..N : (IF j < From(regions, 0 + 1) THEN data[j] ELSE 0) = 0
      BY <2>2
    <3> QED
      BY <3>1 DEF Zeros
  <2>5. F[0] = Written(data, regions, 0)
    BY <1>1
  <2> HIDE DEF F
  <2> QED
    BY <2>3, <2>4, <2>5 DEF Written
<1>4. ASSUME NEW k \in 1..n PROVE F[k] = Add(F[k - 1], k)
  <2>1. F[k - 1] = Written(data, regions, k - 1) /\ F[k] = Written(data, regions, k)
    BY <1>1
  <2>2. From(d.samples, k) = From(regions, k)
    BY <1>1, <1>2
  <2> DEFINE s == d.samples[k]
  <2>3. /\ s.offset = regions[k].offset
        /\ Pcm(s.chunks) = SubSeq(data, regions[k].offset, regions[k].offset + regions[k].length - 1)
    OBVIOUS
  <2> HIDE DEF s, F
  <2>4. AddSample(Written(data, regions, k - 1), S, From(regions, k), s) = Written(data, regions, k)
    BY <2>3, WrittenStep
  <2> QED
    BY <2>1, <2>2, <2>4 DEF s
<1>0. PICK W : W = ReassembleUpTo(d)
  OBVIOUS
<1>5. W = CHOOSE f1 : Is(f1)
  BY <1>0 DEF ReassembleUpTo
<1>6. Is(F)
  <2>1. F = [k \in 0..n |-> F[k]]
    OBVIOUS
  <2> HIDE DEF F, none, Add
  <2>2. ASSUME NEW k \in 0..n
        PROVE  F[k] = IF k = 0 THEN none ELSE Add(F[k - 1], k)
    <3>1. k = 0 \/ k \in 1..n
      BY <1>1
    <3> QED
      BY <1>3, <1>4, <3>1
  <2> QED
    BY <2>1, <2>2
<1>7. Is(W)
  <2> HIDE DEF Is
  <2> QED
    BY <1>5, <1>6
<1>8. W[0] = none /\ \A k \in 1..n : W[k] = Add(W[k - 1], k)
  <2> HIDE DEF none, Add
  <2>1. \A k \in 1..n : k \in 0..n /\ k # 0
    BY <1>1
  <2>2. Len(d.samples) = n
    OBVIOUS
  <2> HIDE DEF n
  <2> QED
    BY <1>1, <1>7, <2>1, <2>2
<1>9. \A k \in 0..n : W[k] = F[k]
  <2>1. ASSUME NEW k \in 1..n, W[k - 1] = F[k - 1] PROVE W[k] = F[k]
    <3>1. F[k] = Add(F[k - 1], k) /\ W[k] = Add(W[k - 1], k)
      BY <1>4, <1>8
    <3> HIDE DEF F
    <3> QED
      BY <2>1, <3>1
  <2>2. W[0] = F[0]
    BY <1>3, <1>8
  <2>3. n \in Nat
    BY <1>1
  <2>4. \A k \in 1..n : W[k - 1] = F[k - 1] => W[k] = F[k]
    BY <2>1
  <2> HIDE DEF F, n, N, S, none, Add, Is, last, u, tail
  <2> DEFINE H == {k \in 0..n : W[k] = F[k]}
  <2>5. 0 \in H /\ \A k \in (0 + 1)..n : k - 1 \in H => k \in H
    BY <2>2, <2>3, <2>4
  <2>6. \A k \in 0..n : k \in H
    <3> HIDE DEF H
    <3> QED
      BY <2>3, <2>5, CountUp
  <2> QED
    BY <2>6
<1>10. W[n] = Written(data, regions, n)
  BY <1>1, <1>9
<1>11. W[n].cursor = Len(u) + 1 /\ W[n].out = [j \in 1..N |-> IF j < last THEN data[j] ELSE 0]
  BY <1>10 DEF Written
<1>12. S = u \o tail
  BY DEF SkeletonV1
<1>13. u \in Seq(Bytes)
  BY <1>1, SkeletonRecursion
<1>14. tail \in Seq(Bytes)
  <2> HIDE DEF last
  <2>1. \A i \in last..N : data[i] \in Bytes
    BY <1>1
  <2> QED
    BY <1>1, <2>1, SubSeqProperties
<1> HIDE DEF S, u, tail, last
<1>15. SubSeq(S, Len(u) + 1, Len(S)) = tail
  <2>1. Len(S) = Len(u) + Len(tail) /\ Len(S) \in Nat
    BY <1>12, <1>13, <1>14
  <2>2. SubSeq(u \o tail, Len(u) + 1, Len(u) + Len(tail)) = tail
    <3>1. u \o tail \in Seq(Bytes) /\ Len(u \o tail) <= Len(u \o tail)
      BY <1>13, <1>14
    <3> QED
      BY <1>13, <1>14, <3>1, Middle
  <2> QED
    BY <1>12, <2>1, <2>2
<1> DEFINE old == [j \in 1..N |-> IF j < last THEN data[j] ELSE 0]
<1>16. Reassemble(d) = Put(old, last, tail)
  <2>1. Reassemble(d) = Put(W[n].out, From(d.samples, n + 1), SubSeq(S, W[n].cursor, Len(S)))
    BY <1>0 DEF Reassemble, S
  <2>2. From(d.samples, n + 1) = last
    BY <1>1, <1>2 DEF last
  <2> HIDE DEF n, old
  <2> QED
    BY <1>11, <1>15, <2>1, <2>2 DEF old
<1>17. old \in [1..N -> Bytes]
  BY RepackAssumption
<1>18. Filled(Put(old, last, SubSeq(data, last, N)), old, data, last, N)
  <2>1. last \in Nat \ {0} /\ N \in Nat /\ N <= Len(data)
    BY <1>1
  <2>2. old \in [1..Len(data) -> Bytes] /\ N = Len(data)
    BY <1>17
  <2> HIDE DEF old, N
  <2> QED
    BY <2>1, <2>2, PutTrue
<1> DEFINE new == Put(old, last, tail)
<1>19. new \in [1..N -> Bytes] /\ \A j \in 1..N : new[j] = IF j \in last..N THEN data[j] ELSE old[j]
  BY <1>18 DEF Filled, tail
<1>20. ASSUME NEW j \in 1..N PROVE new[j] = data[j]
  <2>1. old[j] = IF j < last THEN data[j] ELSE 0
    OBVIOUS
  <2>2. new[j] = IF j \in last..N THEN data[j] ELSE old[j]
    BY <1>19
  <2> HIDE DEF new, old
  <2> QED
    BY <1>1, <2>1, <2>2
<1>21. data \in [1..N -> Bytes]
  OBVIOUS
<1>22. new = data
  <2> HIDE DEF new
  <2> QED
    BY <1>19, <1>20, <1>21
<1> QED
  BY <1>16, <1>22

(* A region of the file, by offset and length.                            *)
LEMMA SubIs ==
  ASSUME NEW data \in Seq(Bytes), NEW o \in Nat \ {0}, NEW l \in Nat \ {0}, o + l <= Len(data) + 1
  PROVE  /\ Sub(data, o, l) = SubSeq(data, o, o + l - 1) /\ Sub(data, o, l) \in Seq(Bytes)
         /\ Len(Sub(data, o, l)) = l
<1> DEFINE b == o + l - 1
           piece == SubSeq(data, o, b)
<1>1. b \in Nat /\ o <= b /\ b - o + 1 = l /\ \A i \in o..b : data[i] \in Bytes
  OBVIOUS
<1> HIDE DEF b
<1>2. piece \in Seq(Bytes) /\ Len(piece) = IF o <= b THEN b - o + 1 ELSE 0
  BY <1>1, SubSeqProperties
<1>3. Sub(data, o, l) = piece
  BY DEF Sub, b
<1> HIDE DEF piece
<1>4. piece \in Seq(Bytes) /\ Len(piece) = l
  BY <1>1, <1>2
<1> QED
  BY <1>3, <1>4 DEF piece, b

(* What buildDag and reassemble make of a module.                         *)
LEMMA FirstExact ==
  ASSUME NEW m, ModuleOK(m), NEW d, d = BuildDag(m), AllVerified(d)
  PROVE  Reassemble(d) = m.data
<1> DEFINE regions == SampleRegions(m)
           data == m.data
           n == Len(regions)
           sk == SkeletonV1(data, regions)
           samples == [k \in DOMAIN regions |->
             [offset |-> regions[k].offset, length |-> regions[k].length,
              chunks |-> CdcChunks(Sub(data, regions[k].offset, regions[k].length))]]
<1>1. data \in Seq(Bytes) /\ regions \in Seq(Slot) /\ InFile(regions, Len(data))
  BY RegionsInFile DEF ModuleOK
<1>2. d.length = Len(data) /\ d.parts = CdcChunks(sk) /\ d.samples = samples
  BY DEF BuildDag
<1> HIDE DEF data, regions
<1>3. DOMAIN regions = 1..n /\ n \in Nat
  BY <1>1
<1>4. samples \in Seq(
        {[offset |-> regions[k].offset, length |-> regions[k].length,
              chunks |-> CdcChunks(Sub(data, regions[k].offset, regions[k].length))] : k \in 1..n})
      /\ Len(samples) = n
      /\ DOMAIN samples = 1..n
  BY <1>3
<1>5. \A k \in 1..n : /\ samples[k].offset = regions[k].offset /\ samples[k].length = regions[k].length
                      /\ samples[k].chunks = CdcChunks(Sub(data, regions[k].offset, regions[k].length))
  BY <1>3
<1> HIDE DEF samples, n
<1>6. DOMAIN d.samples = 1..n /\ Len(d.samples) = n
  BY <1>2, <1>4
<1>7. sk \in Seq(Bytes)
  <2>1. 0 \in 0..Len(regions)
    BY <1>3 DEF n
  <2> QED
    BY <1>1, <2>1, SkeletonBegins
<1> HIDE DEF sk
<1>8. FlattenSeq(Parts(d)) = sk
  <2>1. d.parts \in Seq(Seq(Bytes)) /\ FlattenSeq(d.parts) = sk
    BY <1>2, <1>7, ChunksWhole
  <2>2. Parts(d) = d.parts
    BY <2>1, VerifiedParts
  <2> QED
    BY <2>1, <2>2
<1>9. ASSUME NEW k \in 1..n
      PROVE  Pcm(d.samples[k].chunks)
               = SubSeq(data, regions[k].offset, regions[k].offset + regions[k].length - 1)
  <2> DEFINE o == regions[k].offset
             l == regions[k].length
  <2>1. o \in Nat \ {0} /\ l \in Nat \ {0} /\ o + l <= Len(data) + 1
    BY <1>1 DEF InFile, n
  <2>2. d.samples[k].chunks = CdcChunks(Sub(data, o, l))
    BY <1>2, <1>5
  <2> HIDE DEF o, l
  <2>3. Sub(data, o, l) = SubSeq(data, o, o + l - 1) /\ Sub(data, o, l) \in Seq(Bytes)
    BY <1>1, <2>1, SubIs
  <2>4. d.samples[k].chunks \in Seq(Seq(Bytes)) /\ FlattenSeq(d.samples[k].chunks) = Sub(data, o, l)
    BY <2>2, <2>3, ChunksWhole
  <2>5. Pcm(d.samples[k].chunks) = FlattenSeq(d.samples[k].chunks)
    BY <1>6, <2>4, VerifiedPcm
  <2> QED
    BY <2>3, <2>4, <2>5 DEF o, l
<1>10. \A k \in 1..n : d.samples[k].offset = regions[k].offset /\ d.samples[k].length = regions[k].length
  BY <1>2, <1>5
<1>11. d.length = Len(data) /\ FlattenSeq(Parts(d)) = SkeletonV1(data, regions)
  BY <1>2, <1>8 DEF sk
<1>12. Reassemble(d) = data
  BY <1>1, <1>6, <1>9, <1>10, <1>11, ReassembleTrue DEF n
<1> QED
  BY <1>12 DEF data

-----------------------------------------------------------------------------
(* What v3 and v4 stream, and how it gets back to the bytes on disk: FLAC *)
(* is lossless, pickEnc keeps only a mask that reproduces them, and writing *)
(* them back leaves no zero of the skeleton (LaterExact).                 *)

(* What is kept of a sequence is of it.                                   *)
LEMMA OnlyOf ==
  ASSUME NEW X, NEW s \in Seq(X), NEW K, NEW j \in 1..Len(Only(s, K))
  PROVE  Only(s, K) \in Seq(X) /\ \E i \in 1..Len(s) : i \in K /\ Only(s, K)[j] = s[i]
<1>1. Only(s, K) \in Seq(X)
  BY OnlyPicks
<1>2. PICK f : Picks(f, s, K, Len(s), Only(s, K))
  BY OnlyPicks
<1>3. f[j] \in 1..Len(s) /\ f[j] \in K /\ Only(s, K)[j] = s[f[j]]
  BY <1>2 DEF Picks
<1> QED
  BY <1>1, <1>3

\* Nothing is kept of it at no places.
LEMMA OnlyNone ==
  ASSUME NEW X, NEW s \in Seq(X)
  PROVE  Only(s, {}) = <<>>
<1>1. Only(s, {}) \in Seq(X)
  BY OnlyPicks
<1>2. \A j \in 1..Len(Only(s, {})) : FALSE
  BY OnlyOf
<1> DEFINE p == Only(s, {})
<1> HIDE DEF p
<1>3. p \in Seq(X) /\ \A j \in 1..Len(p) : FALSE
  BY <1>1, <1>2 DEF p
<1>4. Len(p) = 0
  <2>1. Len(p) \in Nat
    BY <1>3
  <2>2. Len(p) # 0 => 1 \in 1..Len(p)
    BY <2>1
  <2> QED
    BY <1>3, <2>2
<1>5. p = <<>>
  BY <1>3, <1>4
<1> QED
  BY <1>5 DEF p

\* A slot that v3 and v4 stream.
GoodSample(m, s) ==
  /\ GoodSlot(m, s) /\ Len(m.dump[s.index]) = s.length /\ Enc(m, s) # 0
  /\ \E i \in 1..Len(SampleSlots(m)) : s = SampleSlots(m)[i]

(* v3 and v4 stream only what some mask turns back into the bytes on disk.  *)
LEMMA InvertibleIs ==
  ASSUME NEW m, ModuleOK(m)
  PROVE  /\ Invertible(m) \in Seq(Slot)
         /\ \A k \in 1..Len(Invertible(m)) : GoodSample(m, Invertible(m)[k])
<1> DEFINE slots == SampleSlots(m)
           cands == Candidates(m)
           inv == Invertible(m)
           K1 == {k \in DOMAIN slots : LET dump == m.dump[slots[k].index] IN
                                     dump # <<>> /\ Len(dump) = slots[k].length}
           K2 == {k \in DOMAIN cands : Enc(m, cands[k]) # 0}
<1>1. slots \in Seq(Slot) /\ \A k \in 1..Len(slots) : GoodSlot(m, slots[k])
  BY SlotsGood
<1>2. cands = Only(slots, K1) /\ inv = Only(cands, K2)
  BY DEF Candidates, Dumped, Invertible
<1>3. \A k \in K1 : Len(m.dump[slots[k].index]) = slots[k].length
  OBVIOUS
<1>4. \A k \in K2 : Enc(m, cands[k]) # 0
  OBVIOUS
<1> HIDE DEF slots, cands, inv, K1, K2
<1>5. cands \in Seq(Slot)
  BY <1>1, <1>2, OnlyPicks
<1>6. inv \in Seq(Slot)
  BY <1>2, <1>5, OnlyPicks
<1>7. ASSUME NEW k \in 1..Len(inv) PROVE GoodSample(m, inv[k])
  <2>1. PICK j \in 1..Len(cands) : j \in K2 /\ inv[k] = cands[j]
    BY <1>2, <1>5, OnlyOf
  <2>2. PICK i \in 1..Len(slots) : i \in K1 /\ cands[j] = slots[i]
    BY <1>1, <1>2, OnlyOf
  <2>3. GoodSlot(m, inv[k]) /\ Len(m.dump[inv[k].index]) = inv[k].length
    BY <1>1, <1>3, <2>1, <2>2
  <2>4. Enc(m, inv[k]) # 0
    BY <1>4, <2>1
  <2> QED
    BY <2>1, <2>2, <2>3, <2>4 DEF GoodSample, slots
<1> QED
  BY <1>6, <1>7 DEF inv

(* pickEnc: the mask that is kept reproduces the bytes on disk.           *)
LEMMA EncReproduces ==
  ASSUME NEW d, NEW onDisk, NEW channels, PickEnc(d, onDisk, channels) # 0
  PROVE  ApplyEnc(EncMasks[PickEnc(d, onDisk, channels)], d, channels) = onDisk
<1> DEFINE K == {k \in DOMAIN EncMasks : ApplyEnc(EncMasks[k], d, channels) = onDisk}
           T == K \cup {9}
<1>1. DOMAIN EncMasks = 1..8
  BY DEF EncMasks
<1>2. T \in SUBSET Nat /\ T # {} /\ \A k \in T : k \in 1..9
  BY <1>1
<1>3. \A k \in K : ApplyEnc(EncMasks[k], d, channels) = onDisk
  OBVIOUS
<1>4. PickEnc(d, onDisk, channels) = Min(T) % 9
  BY DEF PickEnc
<1>5. \A k \in T : k \in K \/ k = 9
  OBVIOUS
<1> HIDE DEF K, T
<1>6. Min(T) \in T
  BY <1>2, LeastNumber DEF Min
<1>7. Min(T) # 9
  <2>1. 9 % 9 = 0
    OBVIOUS
  <2> QED
    BY <1>4, <2>1
<1>8. Min(T) \in K /\ Min(T) \in 1..9
  BY <1>2, <1>5, <1>6, <1>7
<1>9. Min(T) % 9 = Min(T)
  <2> DEFINE x == Min(T)
  <2>1. x \in 1..9 /\ x # 9
    BY <1>7, <1>8
  <2> HIDE DEF x
  <2>2. x % 9 = x
    BY <2>1
  <2> QED
    BY <2>2 DEF x
<1> QED
  BY <1>3, <1>4, <1>8, <1>9

(* A number of two digits is taken apart again.                           *)
LEMMA Digits ==
  ASSUME NEW b \in Nat \ {0}, NEW n \in Nat, NEW p \in 0..(b - 1)
  PROVE  /\ n * b + p \in Nat /\ (n * b + p) \div b = n
         /\ (b + n * b + p) % b = p
<1>0. n * b \in Nat
  OBVIOUS
<1>1. n * b + p \in Nat
  BY <1>0
<1>2. (n * b + p) \div b = n
  <2> DEFINE q == (n * b + p) \div b
             r == (n * b + p) % b
  <2>1. q \in Int /\ r \in 0..(b - 1) /\ n * b + p = b * q + r
    BY <1>1
  <2> HIDE DEF q, r
  <2>2. b * (n - q) = r - p
    BY <2>1
  <2>3. r - p > -b /\ r - p < b
    BY <2>1
  <2>4. ~(n - q >= 1)
    <3> SUFFICES ASSUME n - q >= 1 PROVE FALSE
      OBVIOUS
    <3>1. b * (n - q) >= b
      BY <2>1
    <3> QED
      BY <2>1, <2>2, <2>3, <3>1
  <2>5. ~(q - n >= 1)
    <3> SUFFICES ASSUME q - n >= 1 PROVE FALSE
      OBVIOUS
    <3>1. b * (q - n) >= b /\ b * (q - n) = -(b * (n - q))
      BY <2>1
    <3> QED
      BY <2>1, <2>2, <2>3, <3>1
  <2> QED
    BY <2>1, <2>4, <2>5 DEF q
<1>3. (b + n * b + p) % b = p
  <2> DEFINE x == b + n * b + p
             q == x \div b
             r == x % b
  <2>1. x \in Nat /\ q \in Int /\ r \in 0..(b - 1) /\ x = b * q + r
    BY <1>0
  <2>2. x = b * (n + 1) + p
    OBVIOUS
  <2> HIDE DEF x, q, r
  <2>3. b * (n + 1 - q) = r - p
    BY <2>1, <2>2
  <2>4. ~(n + 1 - q >= 1)
    <3> SUFFICES ASSUME n + 1 - q >= 1 PROVE FALSE
      OBVIOUS
    <3>1. b * (n + 1 - q) >= b
      BY <2>1
    <3> QED
      BY <2>1, <2>3, <3>1
  <2>5. ~(q - (n + 1) >= 1)
    <3> SUFFICES ASSUME q - (n + 1) >= 1 PROVE FALSE
      OBVIOUS
    <3>1. b * (q - (n + 1)) >= b /\ b * (q - (n + 1)) = -(b * (n + 1 - q))
      BY <2>1
    <3> QED
      BY <2>1, <2>3, <3>1
  <2>6. q = n + 1
    BY <2>1, <2>4, <2>5
  <2>7. r = p
    BY <2>1, <2>2, <2>6
  <2> QED
    BY <2>7 DEF r, x
<1> QED
  BY <1>1, <1>2, <1>3

(* FLAC is lossless.                                                      *)
LEMMA FlacLossless ==
  ASSUME NEW pcm \in Seq(Bytes)
  PROVE  FlacEncode(pcm) \in Seq(Nat) /\ FlacDecode(FlacEncode(pcm)) = pcm
<1> DEFINE n == Len(pcm)
           p == pcm[1]
           x == B + n * B + p
<1>0. B \in Nat \ {0} /\ Bytes = 0..(B - 1) /\ n \in Nat
  BY RepackAssumption
<1>1. CASE n > 1 /\ \A i \in DOMAIN pcm : pcm[i] = pcm[1]
  <2>1. p \in 0..(B - 1)
    BY <1>0, <1>1
  <2>2. n * B + p \in Nat /\ (n * B + p) \div B = n /\ x % B = p
    BY <1>0, <2>1, Digits
  <2>3. x \in Nat /\ x - B = n * B + p
    <3>1. n * B \in Nat
      BY <1>0
    <3> QED
      BY <1>0, <2>1, <3>1
  <2>4. FlacEncode(pcm) = <<x>>
    BY <1>1 DEF FlacEncode
  <2> HIDE DEF x
  <2>5. FlacDecode(<<x>>) = [i \in 1..n |-> p]
    <3>1. Len(<<x>>) = 1 /\ <<x>>[1] = x
      OBVIOUS
    <3> QED
      BY <2>2, <2>3, <3>1 DEF FlacDecode
  <2>6. pcm = [i \in 1..n |-> p]
    BY <1>0, <1>1
  <2> QED
    BY <2>3, <2>4, <2>5, <2>6
<1>2. CASE ~(n > 1 /\ \A i \in DOMAIN pcm : pcm[i] = pcm[1])
  <2>1. FlacEncode(pcm) = <<B>> \o pcm
    BY <1>2 DEF FlacEncode
  <2>2. pcm \in Seq(Nat)
    BY <1>0
  <2> DEFINE t == <<B>> \o pcm
  <2>3. t \in Seq(Nat) /\ Len(t) = n + 1 /\ t[1] = B /\ \A i \in 1..n : t[i + 1] = pcm[i]
    BY <1>0, <2>2
  <2>4. CASE n = 0
    <3>1. FlacDecode(t) = [i \in 1..((t[1] - B) \div B) |-> t[1] % B]
      BY <2>3, <2>4 DEF FlacDecode
    <3>2. (t[1] - B) \div B = 0
      BY <1>0, <2>3
    <3>3. pcm = <<>> /\ 1..0 = {}
      BY <2>4
    <3> HIDE DEF t
    <3>4. FlacDecode(t) = pcm
      BY <3>1, <3>2, <3>3
    <3> QED
      BY <2>1, <2>3, <3>4 DEF t
  <2>5. CASE n # 0
    <3>1. FlacDecode(t) = Tail(t)
      BY <1>0, <2>3, <2>5 DEF FlacDecode
    <3>2. Tail(t) = pcm
      <4> HIDE DEF t
      <4>1. Tail(t) \in Seq(Nat) /\ Len(Tail(t)) = n /\ \A i \in 1..n : Tail(t)[i] = t[i + 1]
        BY <1>0, <2>3
      <4> QED
        BY <2>2, <2>3, <4>1, SeqEqual
    <3> QED
      BY <2>1, <2>3, <3>1, <3>2
  <2> QED
    BY <2>4, <2>5
<1> QED
  BY <1>1, <1>2

\* A streamed sample as v3 and v4 bake it.
SampleOf(m, s, e) == e = SampleV3(m, s) \/ e = SampleV4(m, s)

(* A sample comes out of its leaves as it lies on disk.                   *)
LEMMA OnDiskTrue ==
  ASSUME NEW m, ModuleOK(m), NEW s, GoodSample(m, s), NEW d, AllVerified(d),
         NEW k \in DOMAIN d.samples, SampleOf(m, s, d.samples[k])
  PROVE  OnDisk(d.samples[k]) = Sub(m.data, s.offset, s.length)
<1> DEFINE e == d.samples[k]
           dump == m.dump[s.index]
           flac == FlacEncode(dump)
<1>1. dump \in Seq(Bytes)
  <2>1. s.index \in DOMAIN m.header
    BY DEF GoodSample, GoodSlot
  <2> QED
    BY <2>1 DEF ModuleOK
<1>2. /\ e.channels = s.channels /\ e.enc = Enc(m, s)
      /\ \/ ~e.flac /\ e.chunks = CdcChunks(dump)
         \/ e.flac /\ e.chunks = CdcChunks(flac)
  <2> DEFINE e3 == SampleV3(m, s)
             pays == Len(flac) < Len(dump)
             enc == Enc(m, s)
             whole == CdcChunks(dump)
             packed == CdcChunks(flac)
  <2>1. e3 = [index |-> s.index, chunks |-> whole, offset |-> s.offset, channels |-> s.channels,
              flac |-> FALSE, enc |-> enc]
    BY DEF SampleV3
  <2>2. SampleV4(m, s) = [e3 EXCEPT !.flac = pays, !.chunks = CdcChunks(IF pays THEN flac ELSE dump)]
    BY DEF SampleV4
  <2>3. CdcChunks(IF pays THEN flac ELSE dump) = IF pays THEN packed ELSE whole
    <3> HIDE DEF pays, flac, dump
    <3> QED
      OBVIOUS
  <2>4. pays \in BOOLEAN
    OBVIOUS
  <2>5. e = e3 \/ e = SampleV4(m, s)
    BY DEF SampleOf
  <2> HIDE DEF e, e3, pays, enc, whole, packed, flac, dump
  <2>6. SampleV4(m, s) = [index |-> s.index, chunks |-> IF pays THEN packed ELSE whole, offset |-> s.offset,
              channels |-> s.channels, flac |-> pays, enc |-> enc]
    BY <2>1, <2>2, <2>3
  <2>7. e.channels = s.channels /\ e.enc = enc
    BY <2>1, <2>5, <2>6
  <2>8. (~e.flac /\ e.chunks = whole) \/ (e.flac /\ e.chunks = packed)
    <3>1. CASE e = e3
      BY <2>1, <3>1
    <3>2. CASE e = SampleV4(m, s) /\ pays = TRUE
      BY <2>6, <3>2
    <3>3. CASE e = SampleV4(m, s) /\ pays = FALSE
      BY <2>6, <3>3
    <3>4. pays = TRUE \/ pays = FALSE
      BY <2>4
    <3> QED
      BY <2>5, <3>1, <3>2, <3>3, <3>4
  <2> QED
    BY <2>7, <2>8 DEF enc, whole, packed
<1>3. \/ ~e.flac /\ e.chunks = CdcChunks(dump)
      \/ e.flac /\ e.chunks = CdcChunks(flac)
  BY <1>2
<1> HIDE DEF dump
<1>4. flac \in Seq(Nat) /\ FlacDecode(flac) = dump
  BY <1>1, FlacLossless
<1> HIDE DEF flac
<1>5. CdcChunks(dump) \in Seq(Seq(Bytes)) /\ FlattenSeq(CdcChunks(dump)) = dump
  BY <1>1, ChunksWhole
<1>6. CdcChunks(flac) \in Seq(Seq(Nat)) /\ FlattenSeq(CdcChunks(flac)) = flac
  BY <1>4, ChunksWhole
<1>7. DecodeV4Sample(e) = dump
  <2>1. CASE ~e.flac /\ e.chunks = CdcChunks(dump)
    <3>1. Pcm(e.chunks) = dump
      BY <1>5, <2>1, VerifiedPcm
    <3> QED
      BY <2>1, <3>1 DEF DecodeV4Sample
  <2>2. CASE e.flac /\ e.chunks = CdcChunks(flac)
    <3>1. Pcm(e.chunks) = flac
      BY <1>6, <2>2, VerifiedPcm
    <3> QED
      BY <1>4, <2>2, <3>1 DEF DecodeV4Sample
  <2> QED
    BY <1>3, <2>1, <2>2
<1>8. OnDisk(e) = ApplyEnc(EncMasks[Enc(m, s)], dump, s.channels)
  BY <1>2, <1>7 DEF OnDisk
<1>9. Enc(m, s) = PickEnc(dump, Sub(m.data, s.offset, s.length), s.channels) /\ Enc(m, s) # 0
  BY DEF Enc, dump, GoodSample
<1> HIDE DEF e
<1>10. ApplyEnc(EncMasks[Enc(m, s)], dump, s.channels) = Sub(m.data, s.offset, s.length)
  BY <1>9, EncReproduces
<1> QED
  BY <1>8, <1>10 DEF e

\* The positions buildSkeletonV2 zeroes for these slots.
ZeroedOf(slots) == UNION {Zeroed(s) : s \in ToSet(slots)}

\* The file with its PCM zeroed.
Blank(data, zeroed) == [i \in 1..Len(data) |-> IF i \in zeroed THEN 0 ELSE data[i]]

(* Where the zeros for each packed slot begin behind the file.            *)
LEMMA TailRecursion ==
  ASSUME NEW packed \in Seq(Slot), \A i \in 1..Len(packed) : packed[i].length \in Nat
  PROVE  /\ TailUpTo(packed)[0] = 0
         /\ \A i \in 1..Len(packed) : TailUpTo(packed)[i] = TailUpTo(packed)[i - 1] + packed[i].length
         /\ \A i \in 0..Len(packed) : TailUpTo(packed)[i] \in Nat
<1> DEFINE n == Len(packed)
           V == Nat
           W == TailUpTo(packed)
           Next(p, i) == p + packed[i].length
           step == [i \in 1..n |-> [p \in V |-> Next(p, i)]]
           Is(f) == f = [i \in 0..n |-> IF i = 0 THEN 0 ELSE Next(f[i - 1], i)]
<1>1. n \in Nat /\ 0 \in V /\ \A i \in 1..n, p \in V : Next(p, i) \in V
  OBVIOUS
<1>2. W = CHOOSE f1 : Is(f1)
  BY DEF TailUpTo
<1>3. \E f \in [0..n -> V] : Is(f)
  <2>1. step \in [1..n -> [V -> V]]
    <3> HIDE DEF Next, V, n
    <3> QED
      BY <1>1
  <2>2. \E f \in [0..n -> V] : Runs(f, n, 0, step)
    <3> HIDE DEF step, n, V
    <3> QED
      BY <1>1, <2>1, RecursionIsThere, Zenon
  <2>3. PICK f \in [0..n -> V] : f[0] = 0 /\ \A i \in 1..n : f[i] = step[i][f[i - 1]]
    BY <2>2 DEF Runs
  <2> HIDE DEF Next, V, n
  <2>4. ASSUME NEW i \in 0..n
        PROVE  f[i] = IF i = 0 THEN 0 ELSE Next(f[i - 1], i)
    <3>1. CASE i = 0
      BY <2>3, <3>1
    <3>2. CASE i # 0
      <4>1. i \in 1..n /\ i - 1 \in 0..n
        BY <1>1, <3>2
      <4>2. f[i - 1] \in V
        BY <2>3, <4>1
      <4> QED
        BY <2>3, <3>2, <4>1, <4>2
    <3> QED
      BY <3>1, <3>2
  <2> QED
    BY <2>3, <2>4
<1>4. Is(W)
  <2> HIDE DEF Next, V, n, W
  <2> QED
    BY <1>2, <1>3
<1>5. W[0] = 0 /\ \A i \in 1..n : W[i] = Next(W[i - 1], i)
  <2> HIDE DEF Next, V, n, W
  <2>1. ASSUME NEW i \in 1..n PROVE i \in 0..n /\ i # 0
    BY <1>1
  <2> QED
    BY <1>1, <1>4, <2>1
<1>6. \A i \in 0..n : W[i] \in V
  <2> HIDE DEF Next, V, n, W, Is
  <2> QED
    BY <1>1, <1>5, RecursionStays
<1> QED
  BY <1>5, <1>6

\* Those that need room behind the file.
PackedOf(slots) == Only(slots, {k \in DOMAIN slots : slots[k].packed})
\* How many zeros follow the file for the packed slots.
Behind(slots) == TailUpTo(PackedOf(slots))[Len(PackedOf(slots))]

(* buildSkeletonV2: the file with its PCM zeroed, and zeros behind it.    *)
LEMMA SkeletonIs ==
  ASSUME NEW m, ModuleOK(m), NEW slots \in Seq(Slot), \A k \in 1..Len(slots) : slots[k].length \in Nat
  PROVE  /\ Behind(slots) \in Nat
         /\ Blank(m.data, ZeroedOf(slots)) \in Seq(Bytes)
         /\ Len(Blank(m.data, ZeroedOf(slots))) = Len(m.data)
         /\ SkeletonV2(m, slots).bytes = Blank(m.data, ZeroedOf(slots)) \o Zeros(Behind(slots))
         /\ SkeletonV2(m, slots).zeroed = (ZeroedOf(slots) \cap (1..Len(m.data)))
               \cup (Len(m.data) + 1)..(Len(m.data) + Behind(slots))
         /\ DOMAIN SkeletonV2(m, slots).moved = Indices(PackedOf(slots))
<1> DEFINE N == Len(m.data)
           packed == PackedOf(slots)
           all == TailUpTo(packed)[Len(packed)]
           base == [i \in DOMAIN m.data |-> IF i \in ZeroedOf(slots) THEN 0 ELSE m.data[i]]
<1>0. m.data \in Seq(Bytes) /\ DOMAIN m.data = 1..N /\ N \in Nat
  BY DEF ModuleOK
<1>1. packed \in Seq(Slot)
  BY OnlyPicks DEF PackedOf
<1>2. ASSUME NEW j \in 1..Len(packed) PROVE packed[j].length \in Nat
  <2> DEFINE K == {k \in DOMAIN slots : slots[k].packed}
  <2>0. packed = Only(slots, K)
    BY DEF PackedOf
  <2> HIDE DEF K, packed
  <2>1. PICK i \in 1..Len(slots) : packed[j] = slots[i]
    BY <2>0, OnlyOf
  <2> QED
    BY <2>1
<1>3. all \in Nat
  <2> HIDE DEF packed
  <2>1. Len(packed) \in 0..Len(packed)
    BY <1>1
  <2> QED
    BY <1>1, <1>2, <2>1, TailRecursion
<1>4. /\ SkeletonV2(m, slots).bytes = base \o Zeros(all)
      /\ SkeletonV2(m, slots).zeroed = (ZeroedOf(slots) \cap DOMAIN m.data) \cup (N + 1)..(N + all)
  BY DEF SkeletonV2, ZeroedOf, PackedOf
<1>5. DOMAIN SkeletonV2(m, slots).moved = Indices(packed)
  BY DEF SkeletonV2, PackedOf
<1>6. base = Blank(m.data, ZeroedOf(slots)) /\ base \in Seq(Bytes) /\ Len(base) = N
  <2>1. base = Blank(m.data, ZeroedOf(slots))
    BY <1>0 DEF Blank
  <2>2. 0 \in Bytes
    BY RepackAssumption
  <2>3. base \in [1..N -> Bytes]
    BY <1>0, <2>2
  <2> HIDE DEF base
  <2> QED
    BY <1>0, <2>1, <2>3
<1> QED
  BY <1>0, <1>3, <1>4, <1>5, <1>6 DEF Behind

(* buildSkeletonV2 without packed slots: the file with its PCM zeroed.    *)
LEMMA PlainSkeleton ==
  ASSUME NEW m, ModuleOK(m), NEW slots \in Seq(Slot),
         \A k \in 1..Len(slots) : ~slots[k].packed /\ slots[k].length \in Nat
  PROVE  /\ SkeletonV2(m, slots).bytes = Blank(m.data, ZeroedOf(slots))
         /\ SkeletonV2(m, slots).zeroed = ZeroedOf(slots) \cap (1..Len(m.data))
<1> DEFINE N == Len(m.data)
           K == {k \in DOMAIN slots : slots[k].packed}
           base == Blank(m.data, ZeroedOf(slots))
<1>1. K = {}
  OBVIOUS
<1>2. PackedOf(slots) = <<>>
  <2>1. PackedOf(slots) = Only(slots, K)
    BY DEF PackedOf
  <2> HIDE DEF K
  <2> QED
    BY <1>1, <2>1, OnlyNone
<1>3. Behind(slots) = 0
  <2>1. TailUpTo(<<>>)[0] = 0
    <3>1. <<>> \in Seq(Slot) /\ \A i \in 1..Len(<<>>) : <<>>[i].length \in Nat
      OBVIOUS
    <3> QED
      BY <3>1, TailRecursion
  <2>2. Len(<<>>) = 0
    OBVIOUS
  <2> QED
    BY <1>2, <2>1, <2>2 DEF Behind
<1>4. /\ base \in Seq(Bytes) /\ N \in Nat
      /\ SkeletonV2(m, slots).bytes = base \o Zeros(0)
      /\ SkeletonV2(m, slots).zeroed = (ZeroedOf(slots) \cap (1..N)) \cup (N + 1)..(N + 0)
  <2>1. N \in Nat
    BY DEF ModuleOK
  <2>2. \A k \in 1..Len(slots) : slots[k].length \in Nat
    OBVIOUS
  <2>3. /\ base \in Seq(Bytes)
        /\ SkeletonV2(m, slots).bytes = base \o Zeros(Behind(slots))
    BY <2>2, SkeletonIs
  <2>4. SkeletonV2(m, slots).zeroed = (ZeroedOf(slots) \cap (1..N)) \cup (N + 1)..(N + Behind(slots))
    BY <2>2, SkeletonIs
  <2> QED
    BY <1>3, <2>1, <2>3, <2>4
<1> HIDE DEF base, N
<1>5. Zeros(0) = <<>>
  <2>1. 1..0 = {}
    OBVIOUS
  <2> QED
    BY <2>1 DEF Zeros
<1>6. base \o <<>> = base
  BY <1>4
<1>7. (N + 1)..(N + 0) = {}
  BY <1>4
<1> QED
  BY <1>4, <1>5, <1>6, <1>7 DEF base, N

\* Slots v3 and v4 may stream: unpacked, and in the file.
Streamable(slots, size) ==
  \A k \in 1..Len(slots) : /\ slots[k].offset \in Nat \ {0} /\ slots[k].length \in Nat \ {0}
                           /\ slots[k].offset + slots[k].length <= size + 1 /\ ~slots[k].packed

\* The file when the first k slots are written back.
Restored(data, slots, k) ==
  [j \in 1..Len(data) |-> IF j \in ZeroedOf(slots) /\ ~\E i \in 1..k : j \in Zeroed(slots[i])
                          THEN 0 ELSE data[j]]

\* It is as long as the file.
LEMMA RestoredType ==
  ASSUME NEW data \in Seq(Bytes), NEW slots, NEW k
  PROVE  Restored(data, slots, k) \in [1..Len(data) -> Bytes]
<1>1. 0 \in Bytes
  BY RepackAssumption
<1> QED
  BY <1>1 DEF Restored

\* One more slot is written back.
LEMMA RestoreStep ==
  ASSUME NEW data \in Seq(Bytes), NEW slots \in Seq(Slot), Streamable(slots, Len(data)),
         NEW k \in 1..Len(slots)
  PROVE  Put(Restored(data, slots, k - 1), slots[k].offset, Sub(data, slots[k].offset, slots[k].length))
           = Restored(data, slots, k)
<1> DEFINE o == slots[k].offset
           l == slots[k].length
           b == o + l - 1
           old == Restored(data, slots, k - 1)
           new == Put(old, o, SubSeq(data, o, b))
           N == Len(data)
<1>1. /\ o \in Nat \ {0} /\ l \in Nat \ {0} /\ o + l <= N + 1 /\ N \in Nat
      /\ ~slots[k].packed
  BY DEF Streamable
<1>2. b \in Nat /\ b <= N
  BY <1>1
<1>3. Zeroed(slots[k]) = o..b
  BY <1>1 DEF Zeroed
<1>4. Sub(data, o, l) = SubSeq(data, o, b)
  BY DEF Sub
<1>5. old \in [1..N -> Bytes]
  BY RestoredType
<1> HIDE DEF o, l, b
<1>6. new \in [1..N -> Bytes] /\ \A j \in 1..N : new[j] = IF j \in o..b THEN data[j] ELSE old[j]
  <2> HIDE DEF old
  <2>1. Filled(new, old, data, o, b)
    BY <1>1, <1>2, <1>5, PutTrue
  <2> QED
    BY <2>1 DEF Filled
<1>7. ASSUME NEW j \in 1..N PROVE new[j] = Restored(data, slots, k)[j]
  <2> DEFINE P(n) == \E i \in 1..n : j \in Zeroed(slots[i])
             z == j \in ZeroedOf(slots)
  <2>1. new[j] = IF j \in o..b THEN data[j] ELSE old[j]
    BY <1>6
  <2>2. old[j] = IF z /\ ~P(k - 1) THEN 0 ELSE data[j]
    BY DEF Restored
  <2>3. Restored(data, slots, k)[j] = IF z /\ ~P(k) THEN 0 ELSE data[j]
    BY DEF Restored
  <2>4. P(k) <=> P(k - 1) \/ j \in Zeroed(slots[k])
    <3>1. \A i : i \in 1..k <=> i \in 1..(k - 1) \/ i = k
      OBVIOUS
    <3> QED
      BY <3>1
  <2> HIDE DEF P, z, new, old
  <2> QED
    BY <1>3, <2>1, <2>2, <2>3, <2>4
<1>8. Restored(data, slots, k) \in [1..N -> Bytes]
  BY RestoredType
<1>9. new = Restored(data, slots, k)
  <2> DEFINE r == Restored(data, slots, k)
  <2> HIDE DEF new, r
  <2>1. new \in [1..N -> Bytes] /\ r \in [1..N -> Bytes] /\ \A j \in 1..N : new[j] = r[j]
    BY <1>6, <1>7, <1>8 DEF r
  <2> QED
    BY <2>1 DEF r
<1> QED
  BY <1>4, <1>9 DEF o, l

(* reassembleV3 gives back the file whose PCM was zeroed.                 *)
LEMMA RestoreTrue ==
  ASSUME NEW data \in Seq(Bytes), NEW slots \in Seq(Slot), Streamable(slots, Len(data)), NEW d,
         Len(d.samples) = Len(slots),
         \A k \in 1..Len(slots) : /\ d.samples[k].offset = slots[k].offset
                                  /\ OnDisk(d.samples[k]) = Sub(data, slots[k].offset, slots[k].length),
         Assemble(Parts(d), d.layout) = Blank(data, ZeroedOf(slots))
  PROVE  ReassembleV3(d) = data
<1> DEFINE n == Len(slots)
           N == Len(data)
           base == Assemble(Parts(d), d.layout)
           Next(out, k) == Put(out, d.samples[k].offset, OnDisk(d.samples[k]))
           F == [k \in 0..n |-> Restored(data, slots, k)]
           Is(f) == f = [k \in 0..Len(d.samples) |-> IF k = 0 THEN base ELSE Next(f[k - 1], k)]
<1>1. n \in Nat /\ N \in Nat /\ n \in 0..n /\ Len(d.samples) = n
  OBVIOUS
<1>2. F[0] = base
  <2>1. Restored(data, slots, 0) = Blank(data, ZeroedOf(slots))
    <3>1. \A j : ~\E i \in 1..0 : j \in Zeroed(slots[i])
      OBVIOUS
    <3> QED
      BY <3>1 DEF Restored, Blank
  <2>2. F[0] = Restored(data, slots, 0)
    BY <1>1
  <2> QED
    BY <2>1, <2>2
<1>3. ASSUME NEW k \in 1..n PROVE F[k] = Next(F[k - 1], k)
  <2>1. F[k - 1] = Restored(data, slots, k - 1) /\ F[k] = Restored(data, slots, k)
    BY <1>1
  <2>2. /\ d.samples[k].offset = slots[k].offset
        /\ OnDisk(d.samples[k]) = Sub(data, slots[k].offset, slots[k].length)
    OBVIOUS
  <2>3. Put(Restored(data, slots, k - 1), slots[k].offset, Sub(data, slots[k].offset, slots[k].length))
           = Restored(data, slots, k)
    BY RestoreStep
  <2> HIDE DEF F
  <2> QED
    BY <2>1, <2>2, <2>3
<1>4. PICK W : W = ReassembleV3UpTo(d)
  OBVIOUS
<1>5. W = CHOOSE f : Is(f)
  BY <1>4 DEF ReassembleV3UpTo
<1>6. Is(F)
  <2>1. F = [k \in 0..n |-> F[k]]
    OBVIOUS
  <2> HIDE DEF F, base, Next
  <2>2. ASSUME NEW k \in 0..n PROVE F[k] = IF k = 0 THEN base ELSE Next(F[k - 1], k)
    <3>1. k = 0 \/ k \in 1..n
      BY <1>1
    <3> QED
      BY <1>2, <1>3, <3>1
  <2> QED
    BY <1>1, <2>1, <2>2
<1>7. Is(W)
  <2> HIDE DEF Is
  <2> QED
    BY <1>5, <1>6
<1>8. W[0] = base /\ \A k \in 1..n : W[k] = Next(W[k - 1], k)
  <2> HIDE DEF base, Next
  <2>1. \A k \in 1..n : k \in 0..n /\ k # 0
    BY <1>1
  <2>2. 0 \in 0..n
    BY <1>1
  <2> HIDE DEF n
  <2> QED
    BY <1>1, <1>7, <2>1, <2>2
<1>9. \A k \in 0..n : W[k] = F[k]
  <2>1. ASSUME NEW k \in 1..n, W[k - 1] = F[k - 1] PROVE W[k] = F[k]
    <3>1. F[k] = Next(F[k - 1], k) /\ W[k] = Next(W[k - 1], k)
      BY <1>3, <1>8
    <3> HIDE DEF F, Next
    <3> QED
      BY <2>1, <3>1
  <2>2. W[0] = F[0]
    BY <1>2, <1>8
  <2>3. n \in Nat
    BY <1>1
  <2>4. \A k \in 1..n : W[k - 1] = F[k - 1] => W[k] = F[k]
    BY <2>1
  <2> HIDE DEF F, n
  <2> DEFINE H == {k \in 0..n : W[k] = F[k]}
  <2>5. 0 \in H /\ \A k \in (0 + 1)..n : k - 1 \in H => k \in H
    BY <2>2, <2>3, <2>4
  <2>6. \A k \in 0..n : k \in H
    <3> HIDE DEF H
    <3> QED
      BY <2>3, <2>5, CountUp
  <2> QED
    BY <2>6
<1>10. W[n] = Restored(data, slots, n)
  BY <1>1, <1>9
<1>11. Restored(data, slots, n) = data
  <2>1. ASSUME NEW j \in 1..N, j \in ZeroedOf(slots)
        PROVE  \E i \in 1..n : j \in Zeroed(slots[i])
    <3>1. ToSet(slots) = {slots[i] : i \in 1..n}
      BY DEF ToSet
    <3> QED
      BY <2>1, <3>1 DEF ZeroedOf
  <2>2. \A j \in 1..N : Restored(data, slots, n)[j] = data[j]
    BY <2>1 DEF Restored
  <2>3. Restored(data, slots, n) \in [1..N -> Bytes] /\ data \in [1..N -> Bytes]
    BY RestoredType
  <2> DEFINE r == Restored(data, slots, n)
  <2> HIDE DEF r
  <2>4. r \in [1..N -> Bytes] /\ data \in [1..N -> Bytes] /\ \A j \in 1..N : r[j] = data[j]
    BY <2>2, <2>3 DEF r
  <2> QED
    BY <2>4 DEF r
<1>12. ReassembleV3(d) = W[Len(d.samples)]
  BY <1>4 DEF ReassembleV3
<1> HIDE DEF n
<1> QED
  BY <1>1, <1>10, <1>11, <1>12

(* What v3 and v4 bake of a module.                                       *)
BuiltOf(m, d) ==
  LET slots == Invertible(m) recipe == Recipe(SkeletonV2(m, slots)) IN
  /\ ~HasPacked(m) /\ d.parts = recipe.parts /\ d.layout = recipe.layout
  /\ Len(d.samples) = Len(slots) /\ DOMAIN d.samples = 1..Len(slots)
  /\ \A k \in 1..Len(slots) : SampleOf(m, slots[k], d.samples[k]) /\ d.samples[k].offset = slots[k].offset

\* A sample says where its bytes belong.
LEMMA SampleOffset ==
  ASSUME NEW m, NEW s
  PROVE  SampleV3(m, s).offset = s.offset /\ SampleV4(m, s).offset = s.offset
<1> DEFINE flac == FlacEncode(m.dump[s.index])
           pays == Len(flac) < Len(m.dump[s.index])
           leaves == CdcChunks(IF pays THEN flac ELSE m.dump[s.index])
           e3 == SampleV3(m, s)
           enc == Enc(m, s)
           whole == CdcChunks(m.dump[s.index])
<1>1. SampleV4(m, s) = [e3 EXCEPT !.flac = pays, !.chunks = leaves]
  BY DEF SampleV4
<1>2. e3 = [index |-> s.index, chunks |-> whole, offset |-> s.offset, channels |-> s.channels,
            flac |-> FALSE, enc |-> enc]
  BY DEF SampleV3
<1> HIDE DEF pays, leaves, e3, enc, whole
<1>3. SampleV4(m, s).offset = s.offset /\ e3.offset = s.offset
  BY <1>1, <1>2
<1> QED
  BY <1>3 DEF e3

\* Such are the dags buildDagV3 and buildDagV4 do not refuse.
LEMMA BuildsThat ==
  ASSUME NEW m, ModuleOK(m), NEW d, d = BuildDagV3(m) \/ d = BuildDagV4(m), d.ok
  PROVE  BuiltOf(m, d)
<1> DEFINE slots == Invertible(m)
           recipe == Recipe(SkeletonV2(m, slots))
           n == Len(slots)
           s3 == [k \in DOMAIN slots |-> SampleV3(m, slots[k])]
           s4 == [k \in DOMAIN slots |-> SampleV4(m, slots[k])]
<1>1. ~HasPacked(m)
  <2> SUFFICES ASSUME HasPacked(m) PROVE FALSE
    OBVIOUS
  <2>1. d = Failed(3) \/ d = Failed(4)
    BY DEF BuildDagV3, BuildDagV4
  <2> QED
    BY <2>1 DEF Failed
<1>2. /\ d.parts = recipe.parts /\ d.layout = recipe.layout
      /\ d.samples = s3 \/ d.samples = s4
  <2>1. CASE d = BuildDagV3(m)
    BY <1>1, <2>1 DEF BuildDagV3, Built
  <2>2. CASE d = BuildDagV4(m)
    BY <1>1, <2>2 DEF BuildDagV4, Built
  <2> QED
    BY <2>1, <2>2
<1>3. slots \in Seq(Slot)
  BY InvertibleIs
<1> HIDE DEF slots, recipe
<1>4. DOMAIN slots = 1..n /\ n \in Nat
  BY <1>3
<1>5. DOMAIN d.samples = 1..n
  BY <1>2, <1>4
<1>6. Len(d.samples) = n
  <2>1. s3 \in Seq({SampleV3(m, slots[k]) : k \in 1..n}) /\ s4 \in Seq({SampleV4(m, slots[k]) : k \in 1..n})
    BY <1>4
  <2>2. DOMAIN s3 = 1..n /\ DOMAIN s4 = 1..n
    BY <1>4
  <2> HIDE DEF s3, s4
  <2>3. Len(s3) = n /\ Len(s4) = n
    BY <1>4, <2>1, <2>2
  <2> QED
    BY <1>2, <2>3
<1>7. ASSUME NEW k \in 1..n
      PROVE  SampleOf(m, slots[k], d.samples[k]) /\ d.samples[k].offset = slots[k].offset
  <2>1. s3[k] = SampleV3(m, slots[k]) /\ s4[k] = SampleV4(m, slots[k])
    BY <1>4
  <2> HIDE DEF s3, s4
  <2>2. d.samples[k] = SampleV3(m, slots[k]) \/ d.samples[k] = SampleV4(m, slots[k])
    BY <1>2, <2>1
  <2> QED
    BY <2>2, SampleOffset DEF SampleOf
<1> QED
  BY <1>1, <1>2, <1>5, <1>6, <1>7 DEF BuiltOf, slots, recipe

(* What buildDagV3, buildDagV4 and their way back make of a module.       *)
LEMMA LaterExact ==
  ASSUME NEW m, ModuleOK(m), NEW d, BuiltOf(m, d), AllVerified(d)
  PROVE  ReassembleV3(d) = m.data
<1> DEFINE slots == Invertible(m)
           data == m.data
           sk == SkeletonV2(m, slots)
           n == Len(slots)
<1>1. slots \in Seq(Slot) /\ \A k \in 1..n : GoodSample(m, slots[k])
  BY InvertibleIs
<1>2. /\ ~HasPacked(m) /\ d.parts = Recipe(sk).parts /\ d.layout = Recipe(sk).layout
      /\ Len(d.samples) = n /\ DOMAIN d.samples = 1..n
      /\ \A k \in 1..n : SampleOf(m, slots[k], d.samples[k]) /\ d.samples[k].offset = slots[k].offset
  BY DEF BuiltOf
<1>3. data \in Seq(Bytes) /\ Len(data) \in Nat /\ Len(m.data) = Len(data)
  BY DEF ModuleOK
<1> HIDE DEF slots
<1>4. ASSUME NEW k \in 1..n PROVE ~slots[k].packed
  <2>1. PICK i \in 1..Len(SampleSlots(m)) : slots[k] = SampleSlots(m)[i]
    BY <1>1 DEF GoodSample
  <2>2. SampleSlots(m)[i] \in ToSet(SampleSlots(m))
    <3>1. SampleSlots(m) \in Seq(Slot)
      BY SlotsGood
    <3> QED
      BY <3>1 DEF ToSet
  <2> QED
    BY <1>2, <2>1, <2>2 DEF HasPacked
<1>5. Streamable(slots, Len(data))
  <2>1. ASSUME NEW k \in 1..n
        PROVE  /\ slots[k].offset \in Nat \ {0} /\ slots[k].length \in Nat \ {0}
               /\ slots[k].offset + slots[k].length <= Len(data) + 1
    <3>1. GoodSlot(m, slots[k])
      BY <1>1 DEF GoodSample
    <3> QED
      BY <1>3, <3>1, GoodSlotIs
  <2> QED
    BY <1>4, <2>1 DEF Streamable
<1>6. sk.bytes = Blank(data, ZeroedOf(slots)) /\ sk.zeroed = ZeroedOf(slots) \cap (1..Len(data))
  <2>1. \A k \in 1..Len(slots) : ~slots[k].packed /\ slots[k].length \in Nat
    BY <1>4, <1>5 DEF Streamable
  <2> QED
    BY <1>1, <2>1, PlainSkeleton
<1> HIDE DEF data, sk
<1>7. 0 \in Bytes
  BY RepackAssumption
<1>8. sk.bytes \in Seq(Bytes) /\ Len(sk.bytes) = Len(data)
  <2> DEFINE z == ZeroedOf(slots)
             blank == Blank(data, z)
  <2>1. blank \in [1..Len(data) -> Bytes]
    BY <1>3, <1>7 DEF Blank
  <2> HIDE DEF blank
  <2>2. blank \in Seq(Bytes) /\ Len(blank) = Len(data)
    BY <1>3, <2>1
  <2> QED
    BY <1>6, <2>2 DEF blank
<1>9. \A i \in 1..Len(sk.bytes) : i \in sk.zeroed => sk.bytes[i] = 0
  BY <1>6, <1>8 DEF Blank
<1>10. Recipe(sk).parts \in Seq(Seq(Bytes)) /\ Assemble(Recipe(sk).parts, Recipe(sk).layout) = sk.bytes
  BY <1>7, <1>8, <1>9, RecipeWhole
<1>11. Assemble(Parts(d), d.layout) = Blank(data, ZeroedOf(slots))
  <2>1. Parts(d) = Recipe(sk).parts
    BY <1>2, <1>10, VerifiedParts
  <2> QED
    BY <1>2, <1>6, <1>10, <2>1
<1>12. ASSUME NEW k \in 1..n
       PROVE  OnDisk(d.samples[k]) = Sub(data, slots[k].offset, slots[k].length)
  <2>1. k \in DOMAIN d.samples /\ SampleOf(m, slots[k], d.samples[k]) /\ GoodSample(m, slots[k])
    BY <1>1, <1>2
  <2> QED
    BY <2>1, OnDiskTrue DEF data
<1>13. ReassembleV3(d) = data
  <2>1. \A k \in 1..Len(slots) : /\ d.samples[k].offset = slots[k].offset
                                 /\ OnDisk(d.samples[k]) = Sub(data, slots[k].offset, slots[k].length)
    BY <1>2, <1>12
  <2> QED
    BY <1>1, <1>2, <1>3, <1>5, <1>11, <2>1, RestoreTrue
<1> QED
  BY <1>13 DEF data

-----------------------------------------------------------------------------
(* The machine: what is rebuilt is the file that was baked.               *)

(* The module stays what the parser read, the dag is a bake of it, and    *)
(* what is rebuilt is the file.                                           *)
RebuildInv ==
  /\ ModuleOK(module)
  /\ dag \in {NoDag, BuildDag(module), BuildDagV2(module), BuildDagV3(module), BuildDagV4(module)}
  /\ RebuildExact

\* It holds before anything is baked,
LEMMA RebuildInitial == RepackInit => RebuildInv
<1> SUFFICES ASSUME RepackInit PROVE RebuildInv
  OBVIOUS
<1>0. PICK h \in Headers, data \in Files, t \in Tables : \E u \in Dumps(h.header) :
        module = [format |-> h.format, header |-> h.header, data |-> data, dump |-> u, tables |-> t]
  BY DEF RepackInit
<1>1. PICK u \in Dumps(h.header) :
        module = [format |-> h.format, header |-> h.header, data |-> data, dump |-> u, tables |-> t]
  BY <1>0
<1>2. dag = NoDag /\ rebuilt = Nothing
  BY DEF RepackInit
<1>3. h.header \in Seq(Header) /\ h.format \in {"mod", "s3m", "xm", "it", "mo3"} /\ data \in Seq(Bytes)
  BY RepackAssumption
<1>4. u \in [DOMAIN h.header -> Seq(Bytes)]
  <2> DEFINE hs == h.header
             L == {0} \cup {hs[i].length : i \in DOMAIN hs}
  <2>1. u \in [DOMAIN hs -> UNION {[1..n -> Bytes] : n \in L}]
    BY DEF Dumps
  <2>2. L \subseteq Nat
    <3>1. ASSUME NEW i \in DOMAIN hs PROVE hs[i].length \in Nat
      <4>1. hs[i] \in Header
        BY <1>3
      <4> QED
        BY <4>1 DEF Header
    <3> QED
      BY <3>1
  <2> HIDE DEF hs, L
  <2>3. UNION {[1..n -> Bytes] : n \in L} \subseteq Seq(Bytes)
    BY <2>2
  <2>4. u \in [DOMAIN hs -> Seq(Bytes)]
    BY <2>1, <2>3
  <2> QED
    BY <2>4 DEF hs
<1>5. ModuleOK(module)
  <2>1. t.checkpoints \in Seq(SUBSET Nat)
    BY RepackAssumption
  <2> QED
    BY <1>1, <1>3, <1>4, <2>1 DEF ModuleOK
<1>6. RebuildExact
  BY <1>2 DEF RebuildExact, Nothing
<1> QED
  BY <1>2, <1>5, <1>6 DEF RebuildInv

(* Each bake says of which kind it is.                                    *)
LEMMA Kinds ==
  ASSUME NEW m
  PROVE  /\ ~NoDag.ok /\ BuildDag(m).v = 1 /\ BuildDagV2(m).v = 2
         /\ BuildDagV3(m).v = 3 /\ BuildDagV4(m).v = 4
<1>1. ~NoDag.ok /\ BuildDag(m).v = 1
  BY DEF NoDag, BuildDag
<1>2. \A v, streamed, plan, samples : Built(m, v, streamed, plan, samples).v = v
  BY DEF Built
<1>3. Failed(3).v = 3 /\ Failed(4).v = 4
  BY DEF Failed
<1>4. BuildDagV2(m).v = 2
  <2>1. \E streamed, plan, samples : BuildDagV2(m) = Built(m, 2, streamed, plan, samples)
    BY DEF BuildDagV2
  <2> QED
    BY <1>2, <2>1
<1>5. BuildDagV3(m).v = 3
  BY <1>2, <1>3 DEF BuildDagV3
<1>6. BuildDagV4(m).v = 4
  BY <1>2, <1>3 DEF BuildDagV4
<1> QED
  BY <1>1, <1>4, <1>5, <1>6

\* and baking, tampering and rebuilding keep it.
LEMMA RebuildStep == RebuildInv /\ [RepackNext]_repackVars => RebuildInv'
<1> SUFFICES ASSUME RebuildInv, [RepackNext]_repackVars PROVE RebuildInv'
  OBVIOUS
<1> USE DEF RebuildInv
<1>1. ASSUME NEW v \in 1..4, Bake(v) PROVE RebuildInv'
  <2>1. module' = module /\ rebuilt' = rebuilt
    BY <1>1 DEF Bake
  <2>2. dag' \in {BuildDag(module), BuildDagV2(module), BuildDagV3(module), BuildDagV4(module)}
    BY <1>1 DEF Bake
  <2> QED
    BY <2>1, <2>2 DEF RebuildExact
<1>2. ASSUME Tamper PROVE RebuildInv'
  <2>1. module' = module /\ rebuilt' = rebuilt /\ dag' = dag
    BY <1>2 DEF Tamper
  <2> QED
    BY <2>1 DEF RebuildExact
<1>3. ASSUME Rebuild PROVE RebuildInv'
  <2>1. /\ dag.ok /\ dag.v # 2 /\ AllVerified(dag) /\ module' = module /\ dag' = dag
        /\ rebuilt' = [ok |-> TRUE, bytes |-> IF dag.v = 1 THEN Reassemble(dag) ELSE ReassembleV3(dag)]
    BY <1>3 DEF Rebuild
  <2>2. CASE dag = BuildDag(module)
    <3>1. dag.v = 1
      BY <2>2, Kinds
    <3>2. Reassemble(dag) = module.data
      BY <2>1, <2>2, FirstExact
    <3>3. rebuilt'.bytes = module'.data
      BY <2>1, <3>1, <3>2
    <3> QED
      BY <2>1, <3>3 DEF RebuildExact
  <2>3. CASE dag = BuildDagV3(module) \/ dag = BuildDagV4(module)
    <3>1. dag.v # 1
      BY <2>3, Kinds
    <3>2. ReassembleV3(dag) = module.data
      BY <2>1, <2>3, BuildsThat, LaterExact
    <3>3. rebuilt'.bytes = module'.data
      BY <2>1, <3>1, <3>2
    <3> QED
      BY <2>1, <3>3 DEF RebuildExact
  <2>4. dag # NoDag /\ dag # BuildDagV2(module)
    BY <2>1, Kinds
  <2> QED
    BY <2>2, <2>3, <2>4
<1>4. CASE UNCHANGED repackVars
  BY <1>4 DEF repackVars, RebuildExact
<1> QED
  BY <1>1, <1>2, <1>3, <1>4 DEF RepackNext

(* RebuildExact: whatever a peer serves, a file that reassemble,          *)
(* reassembleV3 or reassembleV4 gives back is the original, byte for byte: *)
(* for every module in every format, every dump and every chunking.       *)
THEOREM RebuildAlwaysExact == RepackSpec => []RebuildExact
<1>1. RebuildInv => RebuildExact
  BY DEF RebuildInv
<1> QED
  BY RebuildInitial, RebuildStep, <1>1, PTL DEF RepackSpec

-----------------------------------------------------------------------------
(* The plan and the skeleton of what is streamed.  Of slots in the order  *)
(* of their headers an index names one, so what the tables name at an     *)
(* offset is named in the plan (PlanKeeps), and what is not zeroed is as  *)
(* it was (SkeletonKeeps).                                                *)

(* The bytes a packed slot takes up are in the file, or count as none.    *)
LEMMA SpanFits ==
  ASSUME NEW m, ModuleOK(m), NEW i \in DOMAIN m.header
  PROVE  ReadSlot(m, i).span = 0 \/ ReadSlot(m, i).offset + ReadSlot(m, i).span <= Len(m.data) + 1
<1> DEFINE h == m.header[i]
           left == Len(m.data) + 1 - h.pointer
           w == IF h.span <= left THEN h.span ELSE 0
           r == SlotRec(m, i, h.pointer, h.length)
<1>1. \A o, l : SlotRec(m, i, o, l).span = 0 /\ SlotRec(m, i, o, l).offset = o
  BY DEF SlotRec
<1>2. m.format \in {"mod", "s3m", "xm", "it", "mo3"} /\ Len(m.data) \in Nat
      /\ h.length \in Nat /\ h.pointer \in Nat /\ h.span \in Nat /\ h.packed \in BOOLEAN
  <2>1. m.header \in Seq(Header) /\ Len(m.data) \in Nat /\ m.format \in {"mod", "s3m", "xm", "it", "mo3"}
    BY DEF ModuleOK
  <2>2. h \in Header
    BY <2>1
  <2> HIDE DEF h
  <2> QED
    BY <2>1, <2>2 DEF Header
<1>3. CASE m.format \in {"it", "s3m"} /\ h.packed
  <2>1. ReadSlot(m, i) = [r EXCEPT !.span = w]
    BY <1>3 DEF ReadSlot, ItLikeSlot
  <2>2. r.offset = h.pointer
    BY <1>1
  <2>3. r \in Slot
    <3>1. h.length \in Int /\ h.pointer \in Int
      BY <1>2
    <3> HIDE DEF h
    <3> QED
      BY <3>1, SlotRecType
  <2> HIDE DEF r, w, h, left
  <2>4. ReadSlot(m, i).span = w /\ ReadSlot(m, i).offset = h.pointer
    BY <2>1, <2>2, <2>3 DEF Slot
  <2>5. w = 0 \/ h.pointer + w <= Len(m.data) + 1
    BY <1>2 DEF w, left
  <2> QED
    BY <2>4, <2>5
<1>4. CASE ~(m.format \in {"it", "s3m"} /\ h.packed)
  <2>1. \E o, l : ReadSlot(m, i) = SlotRec(m, i, o, l)
    BY <1>2, <1>4 DEF ReadSlot, ModSlot, XmSlot, ItLikeSlot
  <2> QED
    BY <1>1, <2>1
<1> QED
  BY <1>3, <1>4

\* Slots in the order of their headers.
Ordered(slots) == \A j, k \in 1..Len(slots) : j < k => slots[j].index < slots[k].index
\* Every one of sub is one of slots.
Of(sub, slots) == \A j \in 1..Len(sub) : \E i \in 1..Len(slots) : sub[j] = slots[i]
\* What is kept of slots at the places K.
KeptOf(sub, slots, K) ==
  /\ sub \in Seq(Slot) /\ Ordered(sub) /\ Of(sub, slots)
  /\ \A i \in 1..Len(slots) : i \in K => \E j \in 1..Len(sub) : sub[j] = slots[i]

\* What Only keeps is that.
LEMMA OnlySlots ==
  ASSUME NEW slots \in Seq(Slot), Ordered(slots), NEW K
  PROVE  KeptOf(Only(slots, K), slots, K)
<1> DEFINE sub == Only(slots, K)
<1>1. sub \in Seq(Slot)
  BY OnlyPicks
<1>2. PICK f : Picks(f, slots, K, Len(slots), sub)
  BY OnlyPicks
<1> HIDE DEF sub
<1>3. /\ f \in [1..Len(sub) -> 1..Len(slots)]
      /\ \A j \in 1..Len(sub) : f[j] \in K /\ sub[j] = slots[f[j]]
      /\ \A j, k \in 1..Len(sub) : j < k => f[j] < f[k]
      /\ \A t \in 1..Len(slots) : t \in K => \E j \in 1..Len(sub) : f[j] = t
  BY <1>2 DEF Picks
<1>4. Ordered(sub)
  <2> SUFFICES ASSUME NEW j \in 1..Len(sub), NEW k \in 1..Len(sub), j < k
               PROVE  sub[j].index < sub[k].index
    BY DEF Ordered
  <2>1. f[j] < f[k] /\ f[j] \in 1..Len(slots) /\ f[k] \in 1..Len(slots)
    BY <1>3
  <2>2. slots[f[j]].index < slots[f[k]].index
    BY <2>1 DEF Ordered
  <2> QED
    BY <1>3, <2>2
<1>5. Of(sub, slots)
  BY <1>3 DEF Of
<1>6. \A i \in 1..Len(slots) : i \in K => \E j \in 1..Len(sub) : sub[j] = slots[i]
  BY <1>3
<1> QED
  BY <1>1, <1>4, <1>5, <1>6 DEF KeptOf, sub

\* Slots of slots of the module are slots of the module.
LEMMA OfTwice ==
  ASSUME NEW a, NEW b, NEW c, Of(a, b), Of(b, c)
  PROVE  Of(a, c)
BY DEF Of

(* Of slots in their order no two have one index.                         *)
LEMMA OneIndex ==
  ASSUME NEW slots \in Seq(Slot), Ordered(slots), NEW j \in 1..Len(slots), NEW k \in 1..Len(slots),
         slots[j].index = slots[k].index
  PROVE  j = k
<1>1. slots[j] \in Slot /\ slots[k] \in Slot
  OBVIOUS
<1>2. slots[j].index \in Nat /\ slots[k].index \in Nat
  BY <1>1 DEF Slot
<1>3. j < k \/ k < j \/ j = k
  OBVIOUS
<1> QED
  BY <1>2, <1>3 DEF Ordered

\* What the bakes take: slots of the module, in their order.
SlotsOf(m, slots) == slots \in Seq(Slot) /\ Ordered(slots) /\ Of(slots, SampleSlots(m))

\* All of them are,
LEMMA SlotsAreOf ==
  ASSUME NEW m, ModuleOK(m)
  PROVE  SlotsOf(m, SampleSlots(m))
BY SlotsGood DEF SlotsOf, Ordered, Of

\* and so is what is kept of such slots,
LEMMA OnlySlotsOf ==
  ASSUME NEW m, NEW slots, SlotsOf(m, slots), NEW K
  PROVE  /\ SlotsOf(m, Only(slots, K)) /\ Of(Only(slots, K), slots)
         /\ \A i \in 1..Len(slots) : i \in K => \E j \in 1..Len(Only(slots, K)) : Only(slots, K)[j] = slots[i]
<1>1. KeptOf(Only(slots, K), slots, K)
  BY OnlySlots DEF SlotsOf
<1> DEFINE sub == Only(slots, K)
<1> HIDE DEF sub
<1>2. KeptOf(sub, slots, K)
  BY <1>1 DEF sub
<1>3. SlotsOf(m, sub) /\ Of(sub, slots)
  BY <1>2, OfTwice DEF KeptOf, SlotsOf
<1>4. \A i \in 1..Len(slots) : i \in K => \E j \in 1..Len(sub) : sub[j] = slots[i]
  BY <1>2 DEF KeptOf
<1> QED
  BY <1>3, <1>4 DEF sub

\* like the slots each bake looks at.
LEMMA BakedSlots ==
  ASSUME NEW m, ModuleOK(m)
  PROVE  /\ SlotsOf(m, Candidates(m)) /\ SlotsOf(m, Invertible(m))
         /\ \A noPacked : SlotsOf(m, StreamedV2(m, noPacked)) /\ Of(StreamedV2(m, noPacked), Candidates(m))
<1>1. SlotsOf(m, Candidates(m))
  <2>1. \E K : Candidates(m) = Only(SampleSlots(m), K)
    BY DEF Candidates, Dumped
  <2> QED
    BY <2>1, SlotsAreOf, OnlySlotsOf
<1>2. SlotsOf(m, Invertible(m))
  <2>1. \E K : Invertible(m) = Only(Candidates(m), K)
    BY DEF Invertible
  <2> QED
    BY <1>1, <2>1, OnlySlotsOf
<1>3. ASSUME NEW noPacked
      PROVE  SlotsOf(m, StreamedV2(m, noPacked)) /\ Of(StreamedV2(m, noPacked), Candidates(m))
  <2>1. \E K : StreamedV2(m, noPacked) = Only(Candidates(m), K)
    BY DEF StreamedV2
  <2> QED
    BY <1>1, <2>1, OnlySlotsOf
<1> QED
  BY <1>1, <1>2, <1>3

\* An entry of a plan.
Checkpoint == [order : Int, samples : SUBSET Nat]

(* idxByOffset: the plan names slots only.                                *)
LEMMA ToSlotsOf ==
  ASSUME NEW slots \in Seq(Slot), NEW offsets
  PROVE  ToSlots(slots, offsets) \subseteq Indices(slots) /\ ToSlots(slots, offsets) \in SUBSET Nat
<1>1. \A i \in DOMAIN slots : slots[i].index \in Nat
  <2> TAKE i \in DOMAIN slots
  <2>1. slots[i] \in Slot
    OBVIOUS
  <2> QED
    BY <2>1 DEF Slot
<1>2. ToSlots(slots, offsets) \subseteq Indices(slots)
  BY DEF ToSlots, Indices
<1>3. Indices(slots) \subseteq Nat
  BY <1>1 DEF Indices
<1> QED
  BY <1>2, <1>3

\* A plan that waits for these slots, at every checkpoint its table names them.
PlanOf(plan, slots, tables) ==
  /\ plan \in Seq(Checkpoint)
  /\ \A c \in 1..Len(plan) : plan[c].samples \subseteq Indices(slots)
  /\ \A k \in 1..Len(tables.checkpoints) : \A x \in ToSlots(slots, tables.checkpoints[k]) :
       \E c \in 1..Len(plan) : plan[c].order = k - 1 /\ x \in plan[c].samples

(* planFor: the plan names what the tables name, and slots only.          *)
LEMMA PlanForIs ==
  ASSUME NEW slots \in Seq(Slot), NEW tables, tables.checkpoints \in Seq(SUBSET Nat)
  PROVE  PlanOf(PlanFor(slots, tables), slots, tables)
<1> DEFINE points == tables.checkpoints
           n == Len(points)
           named == [k \in DOMAIN points |-> [order |-> k - 1, samples |-> ToSlots(slots, points[k])]]
           K == {k \in DOMAIN named : named[k].samples # {}}
           some == Only(named, K)
           opening == ToSlots(slots, tables.segment0)
           plan == PlanFor(slots, tables)
<1>1. n \in Nat /\ DOMAIN points = 1..n
  OBVIOUS
<1>2. \A k \in 1..n : /\ named[k].order = k - 1 /\ named[k].samples = ToSlots(slots, points[k])
                      /\ named[k] = [order |-> k - 1, samples |-> ToSlots(slots, points[k])]
  BY <1>1
<1>3. plan = IF some # <<>> THEN some
             ELSE IF opening # {} THEN <<[order |-> 0, samples |-> opening]>> ELSE <<>>
  BY DEF PlanFor
<1>4. named \in Seq(Checkpoint) /\ Len(named) = n
  <2>1. \A k \in 1..n : [order |-> k - 1, samples |-> ToSlots(slots, points[k])] \in Checkpoint
    <3> TAKE k \in 1..n
    <3>1. k - 1 \in Int /\ ToSlots(slots, points[k]) \in SUBSET Nat
      BY ToSlotsOf
    <3> DEFINE S == ToSlots(slots, points[k])
    <3> HIDE DEF S
    <3> QED
      BY <3>1 DEF Checkpoint, S
  <2> HIDE DEF points, n
  <2> QED
    BY <1>1, <2>1
<1>5. \A k \in 1..n : k \in K <=> named[k].samples # {}
  BY <1>1
<1> HIDE DEF named, K, opening, plan, points, n
<1>6. some \in Seq(Checkpoint)
  BY <1>4, OnlyPicks
<1>7. PICK f : Picks(f, named, K, n, some)
  BY <1>4, OnlyPicks
<1>8. /\ \A j \in 1..Len(some) : f[j] \in 1..n /\ some[j] = named[f[j]]
      /\ \A t \in 1..n : t \in K => \E j \in 1..Len(some) : f[j] = t
  BY <1>7 DEF Picks
<1>9. \A j \in 1..Len(some) : some[j].samples \subseteq Indices(slots)
  <2> TAKE j \in 1..Len(some)
  <2>1. some[j].samples = ToSlots(slots, points[f[j]])
    <3> HIDE DEF some
    <3> QED
      BY <1>2, <1>8
  <2> HIDE DEF some
  <2> QED
    BY <2>1, ToSlotsOf
<1>10. opening \subseteq Indices(slots) /\ opening \in SUBSET Nat
  BY ToSlotsOf DEF opening
<1> HIDE DEF some
<1>11. plan \in Seq(Checkpoint) /\ \A c \in 1..Len(plan) : plan[c].samples \subseteq Indices(slots)
  <2>1. CASE some # <<>>
    BY <1>3, <1>6, <1>9, <2>1
  <2>2. CASE some = <<>> /\ opening # {}
    <3> DEFINE e == [order |-> 0, samples |-> opening]
    <3>1. e \in Checkpoint /\ e.samples \subseteq Indices(slots)
      BY <1>10 DEF Checkpoint
    <3> HIDE DEF e
    <3>2. plan = <<e>>
      BY <1>3, <2>2 DEF e
    <3>3. <<e>> \in Seq(Checkpoint) /\ Len(<<e>>) = 1 /\ <<e>>[1] = e
      BY <3>1
    <3> QED
      BY <3>1, <3>2, <3>3
  <2>3. CASE some = <<>> /\ ~(opening # {})
    <3>1. plan = <<>>
      BY <1>3, <2>3
    <3> QED
      BY <3>1
  <2> QED
    BY <2>1, <2>2, <2>3
<1>12. ASSUME NEW k \in 1..n, NEW x \in ToSlots(slots, points[k])
       PROVE  \E c \in 1..Len(plan) : plan[c].order = k - 1 /\ x \in plan[c].samples
  <2>1. k \in K
    BY <1>2, <1>5, <1>12
  <2>2. PICK j \in 1..Len(some) : f[j] = k
    BY <1>8, <2>1
  <2>3. some # <<>>
    BY <1>6, <2>2
  <2>4. some[j].order = k - 1 /\ x \in some[j].samples
    BY <1>2, <1>8, <1>12, <2>2
  <2> QED
    BY <1>3, <2>2, <2>3, <2>4
<1> QED
  BY <1>11, <1>12 DEF PlanOf, plan, points, n

\* What is left of a plan waits for these slots, and wherever the plan did.
Tightened(left, plan, streamed) ==
  /\ left \in Seq(Checkpoint)
  /\ \A c \in 1..Len(left) : left[c].samples \subseteq Indices(streamed)
  /\ \A e \in 1..Len(plan) : \A x \in plan[e].samples \cap Indices(streamed) :
       \E c \in 1..Len(left) : left[c].order = plan[e].order /\ x \in left[c].samples

(* What a tightened plan still waits for.                                 *)
LEMMA TightenIs ==
  ASSUME NEW plan \in Seq(Checkpoint), NEW streamed \in Seq(Slot)
  PROVE  Tightened(Tighten(plan, streamed), plan, streamed)
<1> DEFINE n == Len(plan)
           I == Indices(streamed)
           tight == [k \in DOMAIN plan |-> [plan[k] EXCEPT !.samples = @ \cap Indices(streamed)]]
           K == {k \in DOMAIN tight : tight[k].samples # {}}
           left == Only(tight, K)
<1>1. n \in Nat /\ DOMAIN plan = 1..n
  OBVIOUS
<1>2. \A k \in 1..n : plan[k] \in Checkpoint
  OBVIOUS
<1>3. left = Tighten(plan, streamed)
  BY DEF Tighten
<1>4. ASSUME NEW k \in 1..n
      PROVE  /\ tight[k] \in Checkpoint /\ tight[k].order = plan[k].order
             /\ tight[k].samples = plan[k].samples \cap I
  <2> DEFINE e == plan[k]
             S == e.samples \cap I
  <2>1. e \in Checkpoint
    BY <1>2
  <2>2. tight[k] = [e EXCEPT !.samples = S]
    BY <1>1
  <2>3. S \in SUBSET Nat
    BY <2>1 DEF Checkpoint
  <2> HIDE DEF e, S, tight
  <2>4. tight[k] \in Checkpoint /\ tight[k].order = e.order /\ tight[k].samples = S
    BY <2>1, <2>2, <2>3 DEF Checkpoint
  <2> QED
    BY <2>4 DEF e, S
<1>5. tight \in Seq(Checkpoint) /\ Len(tight) = n
  <2>1. tight = [k \in 1..n |-> tight[k]]
    BY <1>1
  <2> HIDE DEF tight
  <2>2. \A k \in 1..n : tight[k] \in Checkpoint
    BY <1>4
  <2> HIDE DEF n
  <2> QED
    BY <1>1, <2>1, <2>2
<1>6. \A k \in 1..n : k \in K <=> tight[k].samples # {}
  BY <1>1
<1> HIDE DEF tight, K, I, n
<1>7. left \in Seq(Checkpoint)
  BY <1>5, OnlyPicks
<1>8. PICK f : Picks(f, tight, K, n, left)
  BY <1>5, OnlyPicks
<1>9. /\ \A j \in 1..Len(left) : f[j] \in 1..n /\ left[j] = tight[f[j]]
      /\ \A t \in 1..n : t \in K => \E j \in 1..Len(left) : f[j] = t
  BY <1>8 DEF Picks
<1>10. \A j \in 1..Len(left) : left[j].samples \subseteq I
  BY <1>4, <1>9
<1>11. ASSUME NEW e \in 1..n, NEW x \in plan[e].samples \cap I
       PROVE  \E c \in 1..Len(left) : left[c].order = plan[e].order /\ x \in left[c].samples
  <2>1. e \in K
    BY <1>4, <1>6, <1>11
  <2>2. PICK j \in 1..Len(left) : f[j] = e
    BY <1>9, <2>1
  <2>3. left[j].order = plan[e].order /\ x \in left[j].samples
    BY <1>4, <1>9, <2>2
  <2> QED
    BY <2>2, <2>3
<1> HIDE DEF left
<1>12. Tightened(left, plan, streamed)
  BY <1>7, <1>10, <1>11 DEF Tightened, I, n
<1> QED
  BY <1>3, <1>12

(* A slot alone at its offset is the one the plan names there.            *)
LEMMA AloneNamed ==
  ASSUME NEW m, NEW slots, SlotsOf(m, slots), NEW i \in 1..Len(slots), NEW offsets,
         ~SharesOffset(m, slots[i].index), slots[i].offset \in offsets
  PROVE  slots[i].index \in ToSlots(slots, offsets)
<1>1. slots \in Seq(Slot) /\ Ordered(slots) /\ Of(slots, SampleSlots(m))
  BY DEF SlotsOf
<1> DEFINE all == SampleSlots(m)
<1>2. \A j, k \in DOMAIN all :
        j # k => ~(all[k].index = slots[i].index /\ all[j].offset = all[k].offset)
  BY DEF SharesOffset
<1>3. ASSUME NEW j \in (i + 1)..Len(slots), slots[j].offset = slots[i].offset
      PROVE  FALSE
  <2>1. j \in 1..Len(slots) /\ j # i
    BY <1>1
  <2>2. PICK a \in 1..Len(all) : slots[j] = all[a]
    BY <1>1, <2>1 DEF Of
  <2>3. PICK b \in 1..Len(all) : slots[i] = all[b]
    BY <1>1 DEF Of
  <2>4. a = b => slots[j].index = slots[i].index
    BY <2>2, <2>3
  <2>5. a # b
    BY <1>1, <2>1, <2>4, OneIndex
  <2> QED
    BY <1>2, <1>3, <2>2, <2>3, <2>5
<1>4. i \in {k \in DOMAIN slots :
             slots[k].offset \in offsets /\ \A j \in (k + 1)..Len(slots) : slots[j].offset # slots[k].offset}
  BY <1>1, <1>3
<1> QED
  BY <1>4 DEF ToSlots

\* A dag that is a skeleton with these slots zeroed and a sample for each.
SkeletonOf(m, d, slots) ==
  LET sk == SkeletonV2(m, slots) recipe == Recipe(sk) IN
  /\ d.parts = recipe.parts /\ d.layout = recipe.layout /\ d.moved = sk.moved
  /\ {d.samples[k].index : k \in DOMAIN d.samples} = Indices(slots)

(* A slot of the module lies in the file, whether packed or not.          *)
LEMMA SlotFits ==
  ASSUME NEW m, ModuleOK(m), NEW k \in 1..Len(SampleSlots(m))
  PROVE  /\ SampleSlots(m)[k].offset \in Nat \ {0} /\ SampleSlots(m)[k].length \in Nat \ {0}
         /\ SampleSlots(m)[k].span \in Nat
         /\ SampleSlots(m)[k].offset + SampleSlots(m)[k].length <= Len(m.data) + 1
         /\ SampleSlots(m)[k].offset + SampleSlots(m)[k].span <= Len(m.data) + 1
<1> DEFINE all == [i \in DOMAIN m.header |-> ReadSlot(m, i)]
           K == {i \in DOMAIN all : all[i].length > 0 /\ all[i].offset > 0
                                      /\ all[i].offset + all[i].length - 1 <= Len(m.data)}
           slots == SampleSlots(m)
           s == slots[k]
<1>1. DOMAIN m.header = 1..Len(m.header) /\ Len(m.header) \in Nat /\ Len(m.data) \in Nat
  BY DEF ModuleOK
<1>2. all \in Seq(Slot) /\ Len(all) = Len(m.header)
  BY <1>1, ReadSlotType
<1>3. slots = Only(all, K)
  BY DEF SampleSlots, WholeSlots
<1>4. GoodSlot(m, s)
  BY SlotsGood
<1>5. \A i \in 1..Len(all) : all[i].span = 0 \/ all[i].offset + all[i].span <= Len(m.data) + 1
  BY <1>1, <1>2, SpanFits
<1> HIDE DEF all, K, slots
<1>6. PICK i \in 1..Len(all) : s = all[i]
  BY <1>2, <1>3, OnlyOf DEF slots
<1>7. s.span = 0 \/ s.offset + s.span <= Len(m.data) + 1
  BY <1>5, <1>6
<1> HIDE DEF s
<1>8. /\ s.offset \in Nat \ {0} /\ s.length \in Nat \ {0} /\ s.span \in Nat
      /\ s.offset + s.length <= Len(m.data) + 1
  BY <1>1, <1>4, GoodSlotIs
<1>9. s.offset + s.span <= Len(m.data) + 1
  BY <1>1, <1>7, <1>8
<1> QED
  BY <1>8, <1>9 DEF s, slots

(* The recipe of a skeleton assembles to it.                              *)
LEMMA SkeletonAssembles ==
  ASSUME NEW m, ModuleOK(m), NEW slots, SlotsOf(m, slots)
  PROVE  /\ Behind(slots) \in Nat
         /\ Assemble(Recipe(SkeletonV2(m, slots)).parts, Recipe(SkeletonV2(m, slots)).layout)
              = Blank(m.data, ZeroedOf(slots)) \o Zeros(Behind(slots))
<1> DEFINE sk == SkeletonV2(m, slots)
           base == Blank(m.data, ZeroedOf(slots))
           N == Len(m.data)
           l == Behind(slots)
           zeros == Zeros(l)
<1>1. slots \in Seq(Slot) /\ N \in Nat
  BY DEF SlotsOf, ModuleOK
<1>2. \A k \in 1..Len(slots) : slots[k].length \in Nat
  <2> TAKE k \in 1..Len(slots)
  <2>1. PICK i \in 1..Len(SampleSlots(m)) : slots[k] = SampleSlots(m)[i]
    BY DEF SlotsOf, Of
  <2> QED
    BY <2>1, SlotFits
<1>3. /\ l \in Nat /\ base \in Seq(Bytes) /\ Len(base) = N
      /\ sk.bytes = base \o zeros
      /\ sk.zeroed = (ZeroedOf(slots) \cap (1..N)) \cup (N + 1)..(N + l)
  <2>1. l \in Nat
    BY <1>1, <1>2, SkeletonIs
  <2>2. base \in Seq(Bytes) /\ Len(base) = N
    BY <1>1, <1>2, SkeletonIs
  <2>3. sk.bytes = base \o zeros
    BY <1>1, <1>2, SkeletonIs
  <2>4. sk.zeroed = (ZeroedOf(slots) \cap (1..N)) \cup (N + 1)..(N + l)
    BY <1>1, <1>2, SkeletonIs
  <2> QED
    BY <2>1, <2>2, <2>3, <2>4
<1>4. \A i \in 1..N : i \in ZeroedOf(slots) => base[i] = 0
  BY DEF Blank
<1> HIDE DEF l, base, N, sk
<1>5. 0 \in Bytes
  BY RepackAssumption
<1>6. zeros \in Seq(Bytes) /\ Len(zeros) = l /\ \A i \in 1..l : zeros[i] = 0
  <2>1. zeros \in [1..l -> Bytes] /\ \A i \in 1..l : zeros[i] = 0
    BY <1>5 DEF Zeros
  <2> HIDE DEF zeros
  <2> QED
    BY <1>3, <2>1
<1> HIDE DEF zeros
<1>7. /\ sk.bytes \in Seq(Bytes) /\ Len(sk.bytes) = N + l
      /\ \A i \in 1..(N + l) : sk.bytes[i] = IF i <= N THEN base[i] ELSE zeros[i - N]
  <2>1. base \o zeros \in Seq(Bytes) /\ Len(base \o zeros) = N + l
        /\ \A i \in 1..(N + l) : (base \o zeros)[i] = IF i <= N THEN base[i] ELSE zeros[i - N]
    <3>1. base \o zeros \in Seq(Bytes) /\ Len(base \o zeros) = Len(base) + Len(zeros)
      BY <1>3, <1>6, ConcatProperties
    <3>2. \A i \in 1..(Len(base) + Len(zeros)) :
            (base \o zeros)[i] = IF i <= Len(base) THEN base[i] ELSE zeros[i - Len(base)]
      BY <1>3, <1>6, ConcatProperties
    <3> QED
      BY <1>3, <1>6, <3>1, <3>2
  <2> QED
    BY <1>3, <2>1
<1>8. ASSUME NEW i \in 1..Len(sk.bytes), i \in sk.zeroed PROVE sk.bytes[i] = 0
  <2>1. i \in 1..(N + l) /\ sk.bytes[i] = IF i <= N THEN base[i] ELSE zeros[i - N]
    BY <1>7
  <2>2. CASE i <= N
    <3>1. i \in 1..N /\ i \in ZeroedOf(slots)
      BY <1>1, <1>3, <1>8, <2>1, <2>2
    <3> QED
      BY <1>4, <2>1, <2>2, <3>1
  <2>3. CASE ~(i <= N)
    <3>1. i - N \in 1..l
      BY <1>1, <1>3, <2>1, <2>3
    <3> QED
      BY <1>6, <2>1, <2>3, <3>1
  <2> QED
    BY <2>2, <2>3
<1>9. Assemble(Recipe(sk).parts, Recipe(sk).layout) = sk.bytes
  BY <1>5, <1>7, <1>8, RecipeWhole
<1> QED
  BY <1>3, <1>9 DEF sk, base, l, zeros

(* What is not zeroed is as it was.                                       *)
LEMMA BlankKeeps ==
  ASSUME NEW data \in Seq(Bytes), NEW zeroed, Blank(data, zeroed) \in Seq(Bytes),
         Len(Blank(data, zeroed)) = Len(data), NEW l \in Nat,
         NEW o \in Nat \ {0}, NEW n \in Nat, o + n <= Len(data) + 1,
         zeroed \cap o..(o + n - 1) = {}
  PROVE  Sub(Blank(data, zeroed) \o Zeros(l), o, n) = Sub(data, o, n)
<1> DEFINE base == Blank(data, zeroed)
           t == base \o Zeros(l)
           N == Len(data)
           b == o + n - 1
<1>1. N \in Nat /\ b \in Int /\ b <= N
  OBVIOUS
<1>2. \A i \in 1..N : i \notin zeroed => base[i] = data[i]
  BY DEF Blank
<1>3. \A i \in 1..N : t[i] = base[i]
  <2>1. Zeros(l) \in Seq(Bytes)
    <3>1. 0 \in Bytes
      BY RepackAssumption
    <3>2. Zeros(l) \in [1..l -> Bytes]
      BY <3>1 DEF Zeros
    <3> QED
      BY <3>2
  <2> DEFINE z == Zeros(l)
  <2> HIDE DEF base, z
  <2>2. base \in Seq(Bytes) /\ z \in Seq(Bytes) /\ Len(base) = N
    BY <2>1 DEF base, z
  <2>3. \A i \in 1..N : (base \o z)[i] = base[i]
    BY <1>1, <2>2, ConcatProperties
  <2> QED
    BY <2>3 DEF z
<1>4. \A i \in o..b : i \notin zeroed
  OBVIOUS
<1> HIDE DEF t, base, b
<1>5. ASSUME NEW i \in 1..(b - o + 1) PROVE t[o + i - 1] = data[o + i - 1]
  <2>1. o + i - 1 \in o..b /\ o + i - 1 \in 1..N
    BY <1>1
  <2> QED
    BY <1>2, <1>3, <1>4, <2>1
<1>6. SubSeq(t, o, b) = [i \in 1..(b - o + 1) |-> t[o + i - 1]]
      /\ SubSeq(data, o, b) = [i \in 1..(b - o + 1) |-> data[o + i - 1]]
  BY <1>1
<1>7. SubSeq(t, o, b) = SubSeq(data, o, b)
  BY <1>5, <1>6
<1> QED
  BY <1>7 DEF Sub, t, base, b

\* A plan waits for these slots only, and for each where its tables name it.
PlanGood(m, plan, slots) ==
  /\ CoveredBy(plan) \subseteq Indices(slots)
  /\ \A s \in ToSet(SampleSlots(m)) : s.index \in Indices(slots) /\ ~SharesOffset(m, s.index) =>
       \A k \in DOMAIN m.tables.checkpoints :
         s.offset \in m.tables.checkpoints[k] =>
           \E c \in ToSet(plan) : c.order = k - 1 /\ s.index \in c.samples

(* A slot of the module with the index of one of these is that one.       *)
LEMMA SameSlot ==
  ASSUME NEW m, ModuleOK(m), NEW slots, SlotsOf(m, slots), NEW s \in ToSet(SampleSlots(m)),
         s.index \in Indices(slots)
  PROVE  \E i \in 1..Len(slots) : slots[i] = s
<1> DEFINE all == SampleSlots(m)
<1>1. all \in Seq(Slot) /\ Ordered(all)
  BY SlotsGood DEF Ordered
<1>2. PICK i \in 1..Len(slots) : slots[i].index = s.index
  BY DEF Indices, SlotsOf
<1> HIDE DEF all
<1>3. PICK a \in 1..Len(all) : slots[i] = all[a]
  BY DEF SlotsOf, Of, all
<1>4. PICK b \in 1..Len(all) : s = all[b]
  BY <1>1 DEF ToSet, all
<1>5. a = b
  BY <1>1, <1>2, <1>3, <1>4, OneIndex
<1> QED
  BY <1>3, <1>4, <1>5

(* The plan of a bake is such a plan.                                     *)
LEMMA PlanKeeps ==
  ASSUME NEW m, ModuleOK(m), NEW cands, NEW slots, SlotsOf(m, cands), SlotsOf(m, slots), Of(slots, cands),
         NEW plan,
         \/ plan = Tighten(PlanFor(cands, m.tables), slots)
         \/ slots = cands /\ plan = PlanFor(cands, m.tables)
  PROVE  PlanGood(m, plan, slots)
<1> DEFINE first == PlanFor(cands, m.tables)
           points == m.tables.checkpoints
<1>1. points \in Seq(SUBSET Nat) /\ cands \in Seq(Slot) /\ slots \in Seq(Slot)
  BY DEF ModuleOK, SlotsOf
<1>2. PlanOf(first, cands, m.tables)
  BY <1>1, PlanForIs
<1> HIDE DEF first
<1>3. /\ first \in Seq(Checkpoint)
      /\ \A c \in 1..Len(first) : first[c].samples \subseteq Indices(cands)
      /\ \A k \in 1..Len(points) : \A x \in ToSlots(cands, points[k]) :
           \E c \in 1..Len(first) : first[c].order = k - 1 /\ x \in first[c].samples
  BY <1>2 DEF PlanOf
<1>4. /\ plan \in Seq(Checkpoint)
      /\ \A c \in 1..Len(plan) : plan[c].samples \subseteq Indices(slots)
      /\ \A e \in 1..Len(first) : \A x \in first[e].samples \cap Indices(slots) :
           \E c \in 1..Len(plan) : plan[c].order = first[e].order /\ x \in plan[c].samples
  <2>1. CASE plan = Tighten(first, slots)
    <3>1. Tightened(plan, first, slots)
      BY <1>1, <1>3, <2>1, TightenIs
    <3> QED
      BY <3>1 DEF Tightened
  <2>2. CASE slots = cands /\ plan = first
    BY <1>3, <2>2
  <2> QED
    BY <2>1, <2>2 DEF first
<1>5. CoveredBy(plan) \subseteq Indices(slots)
  BY <1>4 DEF CoveredBy
<1>6. ASSUME NEW s \in ToSet(SampleSlots(m)), s.index \in Indices(slots), ~SharesOffset(m, s.index),
             NEW k \in DOMAIN points, s.offset \in points[k]
      PROVE  \E c \in ToSet(plan) : c.order = k - 1 /\ s.index \in c.samples
  <2>1. PICK i \in 1..Len(slots) : slots[i] = s
    BY <1>6, SameSlot
  <2>2. PICK j \in 1..Len(cands) : slots[i] = cands[j]
    BY DEF Of
  <2>3. s.index \in ToSlots(cands, points[k])
    <3>1. cands[j] = s
      BY <2>1, <2>2
    <3>2. ~SharesOffset(m, cands[j].index) /\ cands[j].offset \in points[k]
      BY <1>6, <3>1
    <3>3. cands[j].index \in ToSlots(cands, points[k])
      BY <3>2, AloneNamed
    <3> QED
      BY <3>1, <3>3
  <2>4. k \in 1..Len(points)
    BY <1>1
  <2>5. PICK e \in 1..Len(first) : first[e].order = k - 1 /\ s.index \in first[e].samples
    BY <1>3, <2>3, <2>4
  <2>6. PICK c \in 1..Len(plan) : plan[c].order = first[e].order /\ s.index \in plan[c].samples
    BY <1>4, <1>6, <2>5
  <2>7. plan[c] \in ToSet(plan)
    BY <1>4 DEF ToSet
  <2> QED
    BY <2>5, <2>6, <2>7
<1> QED
  BY <1>5, <1>6 DEF PlanGood

(* What is not streamed is heard from the skeleton.                       *)
LEMMA SkeletonKeeps ==
  ASSUME NEW m, ModuleOK(m), NEW slots, SlotsOf(m, slots), NEW d, SkeletonOf(m, d, slots),
         NEW s \in ToSet(SampleSlots(m)), s.index \notin Indices(slots),
         ~\E t \in ToSet(SampleSlots(m)) : t.index \in Indices(slots) /\ Zeroed(t) \cap Zeroed(s) # {}
  PROVE  SkeletonPcm(m, d, s) = Sub(m.data, s.offset, IF s.packed THEN s.span ELSE s.length)
<1> DEFINE sk == SkeletonV2(m, slots)
           base == Blank(m.data, ZeroedOf(slots))
           l == Behind(slots)
           n == IF s.packed THEN s.span ELSE s.length
           o == s.offset
           all == SampleSlots(m)
<1>1. slots \in Seq(Slot) /\ all \in Seq(Slot) /\ m.data \in Seq(Bytes)
  BY SlotsGood DEF SlotsOf, ModuleOK
<1>2. \A j \in 1..Len(slots) : \E i \in 1..Len(all) : slots[j] = all[i]
  BY DEF SlotsOf, Of
<1>3. o \in Nat \ {0} /\ n \in Nat /\ o + n <= Len(m.data) + 1
  <2>1. PICK k \in 1..Len(all) : s = all[k]
    BY <1>1 DEF ToSet
  <2>2. /\ s.offset \in Nat \ {0} /\ s.length \in Nat /\ s.span \in Nat
        /\ s.offset + s.length <= Len(m.data) + 1 /\ s.offset + s.span <= Len(m.data) + 1
    BY <2>1, SlotFits
  <2> QED
    BY <2>2
<1>4. \A j \in 1..Len(slots) : slots[j].length \in Nat
  <2> TAKE j \in 1..Len(slots)
  <2>1. PICK i \in 1..Len(all) : slots[j] = all[i]
    BY <1>2
  <2> QED
    BY <2>1, SlotFits
<1>5. s.index \notin DOMAIN d.moved
  <2>1. DOMAIN sk.moved = Indices(PackedOf(slots))
    BY <1>1, <1>4, SkeletonIs
  <2>2. d.moved = sk.moved
    BY DEF SkeletonOf
  <2>3. Indices(PackedOf(slots)) \subseteq Indices(slots)
    <3> DEFINE K == {k \in DOMAIN slots : slots[k].packed}
               packed == Only(slots, K)
    <3>1. packed = PackedOf(slots)
      BY DEF PackedOf
    <3> HIDE DEF K
    <3>2. packed \in Seq(Slot) /\ \A j \in 1..Len(packed) : \E i \in 1..Len(slots) : packed[j] = slots[i]
      <4>1. packed \in Seq(Slot)
        BY <1>1, OnlyPicks
      <4>2. ASSUME NEW j \in 1..Len(packed) PROVE \E i \in 1..Len(slots) : packed[j] = slots[i]
        BY <1>1, OnlyOf
      <4> QED
        BY <4>1, <4>2
    <3> HIDE DEF packed
    <3>3. Indices(packed) \subseteq Indices(slots)
      BY <1>1, <3>2 DEF Indices
    <3> QED
      BY <3>1, <3>3
  <2> QED
    BY <2>1, <2>2, <2>3
<1>6. Assemble(d.parts, d.layout) = base \o Zeros(l) /\ l \in Nat
  BY SkeletonAssembles DEF SkeletonOf
<1>7. base \in Seq(Bytes) /\ Len(base) = Len(m.data)
  BY <1>1, <1>4, SkeletonIs
<1>8. Zeroed(s) = o..(o + n - 1)
  BY DEF Zeroed
<1>9. ZeroedOf(slots) \cap Zeroed(s) = {}
  <2>1. ASSUME NEW t \in ToSet(slots) PROVE Zeroed(t) \cap Zeroed(s) = {}
    <3>1. PICK j \in 1..Len(slots) : t = slots[j]
      BY <1>1 DEF ToSet
    <3>2. t \in ToSet(all)
      BY <1>1, <1>2, <3>1 DEF ToSet
    <3>3. t.index \in Indices(slots)
      BY <1>1, <3>1 DEF Indices
    <3> QED
      BY <3>2, <3>3
  <2> QED
    BY <2>1 DEF ZeroedOf
<1>10. SkeletonPcm(m, d, s) = Sub(Assemble(d.parts, d.layout), o, n)
  BY <1>5 DEF SkeletonPcm
<1> HIDE DEF o, n, l
<1>11. Sub(base \o Zeros(l), o, n) = Sub(m.data, o, n)
  BY <1>1, <1>3, <1>6, <1>7, <1>8, <1>9, BlankKeeps
<1> QED
  BY <1>6, <1>10, <1>11 DEF o, n

\* StreamsSound, of a dag of a module.
StreamsOf(m, d) ==
  LET streamed == {d.samples[k].index : k \in DOMAIN d.samples}
      slots == ToSet(SampleSlots(m)) IN
  /\ CoveredBy(d.plan) \subseteq streamed
  /\ \A s \in slots : s.index \notin streamed =>
       \/ SkeletonPcm(m, d, s) = Sub(m.data, s.offset, IF s.packed THEN s.span ELSE s.length)
       \/ \E t \in slots : t.index \in streamed /\ Zeroed(t) \cap Zeroed(s) # {}
  /\ \A s \in slots : s.index \in streamed /\ ~SharesOffset(m, s.index) =>
       \A k \in DOMAIN m.tables.checkpoints :
         s.offset \in m.tables.checkpoints[k] =>
           \E c \in ToSet(d.plan) : c.order = k - 1 /\ s.index \in c.samples

\* A skeleton and a plan for the same slots make a dag of that kind.
LEMMA StreamsKept ==
  ASSUME NEW m, ModuleOK(m), NEW slots, SlotsOf(m, slots), NEW d, SkeletonOf(m, d, slots),
         PlanGood(m, d.plan, slots)
  PROVE  StreamsOf(m, d)
<1>1. {d.samples[k].index : k \in DOMAIN d.samples} = Indices(slots)
  BY DEF SkeletonOf
<1>2. ASSUME NEW s \in ToSet(SampleSlots(m)), s.index \notin Indices(slots)
      PROVE  \/ SkeletonPcm(m, d, s) = Sub(m.data, s.offset, IF s.packed THEN s.span ELSE s.length)
             \/ \E t \in ToSet(SampleSlots(m)) : t.index \in Indices(slots) /\ Zeroed(t) \cap Zeroed(s) # {}
  BY <1>2, SkeletonKeeps
<1> QED
  BY <1>1, <1>2 DEF StreamsOf, PlanGood

(* The samples of a bake carry the indices of its slots.                  *)
LEMMA SampleIndex ==
  ASSUME NEW m, NEW s
  PROVE  SampleV2(m, s).index = s.index /\ SampleV3(m, s).index = s.index /\ SampleV4(m, s).index = s.index
<1> DEFINE flac == FlacEncode(m.dump[s.index])
           pays == Len(flac) < Len(m.dump[s.index])
           leaves == CdcChunks(IF pays THEN flac ELSE m.dump[s.index])
           e3 == SampleV3(m, s)
           enc == Enc(m, s)
           whole == CdcChunks(m.dump[s.index])
<1>1. SampleV4(m, s) = [e3 EXCEPT !.flac = pays, !.chunks = leaves]
  BY DEF SampleV4
<1>2. e3 = [index |-> s.index, chunks |-> whole, offset |-> s.offset, channels |-> s.channels,
            flac |-> FALSE, enc |-> enc]
  BY DEF SampleV3
<1>3. SampleV2(m, s) = [index |-> s.index, chunks |-> whole]
  BY DEF SampleV2
<1> HIDE DEF pays, leaves, e3, enc, whole
<1>4. SampleV4(m, s).index = s.index /\ e3.index = s.index /\ SampleV2(m, s).index = s.index
  BY <1>1, <1>2, <1>3
<1> QED
  BY <1>4 DEF e3

\* What Built makes of slots and their samples.
LEMMA BuiltIs ==
  ASSUME NEW m, NEW v, NEW slots, NEW plan, NEW samples, DOMAIN samples = DOMAIN slots,
         \A k \in DOMAIN slots : samples[k].index = slots[k].index
  PROVE  /\ SkeletonOf(m, Built(m, v, slots, plan, samples), slots)
         /\ Built(m, v, slots, plan, samples).plan = plan
<1> DEFINE sk == SkeletonV2(m, slots)
           recipe == Recipe(sk)
           d == Built(m, v, slots, plan, samples)
<1>1. /\ d.parts = recipe.parts /\ d.layout = recipe.layout /\ d.moved = sk.moved
      /\ d.samples = samples /\ d.plan = plan
  BY DEF Built
<1> HIDE DEF d
<1>2. {d.samples[k].index : k \in DOMAIN d.samples} = Indices(slots)
  BY <1>1 DEF Indices
<1> QED
  BY <1>1, <1>2 DEF SkeletonOf, d

(* buildDagV2, packed slots streamed or left in the skeleton.             *)
LEMMA SecondStreams ==
  ASSUME NEW m, ModuleOK(m)
  PROVE  StreamsOf(m, BuildDagV2(m))
<1> DEFINE d == BuildDagV2(m)
           cands == Candidates(m)
           slots(noPacked) == StreamedV2(m, noPacked)
           plan(noPacked) == Tighten(PlanFor(cands, m.tables), slots(noPacked))
           samples(noPacked) == [k \in DOMAIN slots(noPacked) |-> SampleV2(m, slots(noPacked)[k])]
<1>1. PICK noPacked : d = Built(m, 2, slots(noPacked), plan(noPacked), samples(noPacked))
  BY DEF BuildDagV2
<1> DEFINE S == slots(noPacked)
           P == plan(noPacked)
           Q == samples(noPacked)
<1>2. SlotsOf(m, S) /\ Of(S, cands) /\ SlotsOf(m, cands)
  BY BakedSlots
<1>3. DOMAIN Q = DOMAIN S /\ \A k \in DOMAIN S : Q[k].index = S[k].index
  BY SampleIndex
<1>4. d = Built(m, 2, S, P, Q)
  BY <1>1
<1>5. P = Tighten(PlanFor(cands, m.tables), S)
  OBVIOUS
<1> HIDE DEF S, P, Q, d, slots, plan, samples
<1>6. SkeletonOf(m, d, S) /\ d.plan = P
  BY <1>3, <1>4, BuiltIs
<1>7. PlanGood(m, P, S)
  BY <1>2, <1>5, PlanKeeps
<1>8. StreamsOf(m, d)
  BY <1>2, <1>6, <1>7, StreamsKept
<1> QED
  BY <1>8 DEF d

(* buildDagV3 and buildDagV4.                                             *)
LEMMA LaterStreams ==
  ASSUME NEW m, ModuleOK(m), NEW d, d = BuildDagV3(m) \/ d = BuildDagV4(m), d.ok
  PROVE  StreamsOf(m, d)
<1> DEFINE S == Invertible(m)
           P == PlanFor(S, m.tables)
           s3 == [k \in DOMAIN S |-> SampleV3(m, S[k])]
           s4 == [k \in DOMAIN S |-> SampleV4(m, S[k])]
<1>1. ~HasPacked(m)
  <2> SUFFICES ASSUME HasPacked(m) PROVE FALSE
    OBVIOUS
  <2>1. d = Failed(3) \/ d = Failed(4)
    BY DEF BuildDagV3, BuildDagV4
  <2> QED
    BY <2>1 DEF Failed
<1>2. d = Built(m, 3, S, P, s3) \/ d = Built(m, 4, S, P, s4)
  <2>1. CASE d = BuildDagV3(m)
    BY <1>1, <2>1 DEF BuildDagV3
  <2>2. CASE d = BuildDagV4(m)
    BY <1>1, <2>2 DEF BuildDagV4
  <2> QED
    BY <2>1, <2>2
<1>3. SlotsOf(m, S)
  BY BakedSlots
<1>4. Of(S, S)
  BY DEF Of
<1>5. DOMAIN s3 = DOMAIN S /\ \A k \in DOMAIN S : s3[k].index = S[k].index
  BY SampleIndex
<1>6. DOMAIN s4 = DOMAIN S /\ \A k \in DOMAIN S : s4[k].index = S[k].index
  BY SampleIndex
<1>7. PlanGood(m, P, S)
  <2>1. P = PlanFor(S, m.tables)
    OBVIOUS
  <2> HIDE DEF S
  <2> QED
    BY <1>3, <1>4, <2>1, PlanKeeps
<1> HIDE DEF S, P, s3, s4
<1>8. SkeletonOf(m, d, S) /\ d.plan = P
  <2>1. CASE d = Built(m, 3, S, P, s3)
    BY <1>5, <2>1, BuiltIs
  <2>2. CASE d = Built(m, 4, S, P, s4)
    BY <1>6, <2>2, BuiltIs
  <2> QED
    BY <1>2, <2>1, <2>2
<1> QED
  BY <1>3, <1>7, <1>8, StreamsKept

(* StreamsSound: a streaming player hears every sample it is told to wait *)
(* for, and no silence in place of one.                                   *)
THEOREM StreamsAlwaysSound == RepackSpec => []StreamsSound
<1>1. RebuildInv => StreamsSound
  <2> SUFFICES ASSUME RebuildInv, dag.ok, dag.v # 1 PROVE StreamsOf(module, dag)
    BY DEF StreamsSound, StreamsOf
  <2>1. ModuleOK(module)
    BY DEF RebuildInv
  <2>2. dag = BuildDagV2(module) \/ dag = BuildDagV3(module) \/ dag = BuildDagV4(module)
    BY Kinds DEF RebuildInv
  <2> QED
    BY <2>1, <2>2, SecondStreams, LaterStreams
<1> QED
  BY RebuildInitial, RebuildStep, <1>1, PTL DEF RepackSpec
=============================================================================
