---------------------------- MODULE ConfigProofs ----------------------------
(***************************************************************************)
(* Loading a configuration: proofs for every tree of files, however files  *)
(* include one another.                                                    *)
(*                                                                         *)
(* What a file stands for does not depend on the load: the files that give *)
(* a name, in the order in which the includes reach them (Givers), say     *)
(* what its grid, its condition and its growth are (Represents).  A city   *)
(* that two files give is a union, and a union represents the givers of    *)
(* both (UnionRepresents), so each include that is merged adds its givers  *)
(* (MergeIncludedFine).  The invariant follows them through the stack and  *)
(* the cache.  Files are cached after the files they include, so no chain  *)
(* behind a cached file is longer than there are cached files (Settled),   *)
(* and the walk that Givers takes is long enough.                          *)
(***************************************************************************)
EXTENDS ConfigLoad, SumProofs

-----------------------------------------------------------------------------
(* Sequences put end to end.                                               *)

Joined(seqs, k, f) == f = [i \in 1..k |-> IF i = 1 THEN seqs[i] ELSE f[i - 1] \o seqs[i]]

SameStart(seqs, other, n) == \A i \in 1..n : other[i] = seqs[i]

\* The recursion of FlattenSeq has a solution.
LEMMA JoinsThereAre ==
  ASSUME NEW seqs, NEW n \in Nat
  PROVE  \E f : Joined(seqs, n, f)
<1> DEFINE P == {k \in Nat : \E f : Joined(seqs, k, f)}
<1>1. 0 \in P
  <2> DEFINE f == [i \in 1..0 |-> <<>>]
  <2>1. Joined(seqs, 0, f)
    BY DEF Joined
  <2> HIDE DEF f
  <2> QED BY <2>1
<1>2. ASSUME NEW k \in Nat, k \in P PROVE k + 1 \in P
  <2>1. PICK g : Joined(seqs, k, g)
    BY <1>2
  <2> DEFINE last == IF k = 0 THEN seqs[1] ELSE g[k] \o seqs[k + 1]
             f == [i \in 1..(k + 1) |-> IF i <= k THEN g[i] ELSE last]
  <2>2. \A i \in 1..k : g[i] = IF i = 1 THEN seqs[i] ELSE g[i - 1] \o seqs[i]
    BY <2>1, Zenon DEF Joined
  <2> HIDE DEF last
  <2>3. ASSUME NEW i \in 1..(k + 1) PROVE f[i] = IF i = 1 THEN seqs[i] ELSE f[i - 1] \o seqs[i]
    <3>1. CASE i <= k
      <4>0. i \in 1..k
        BY <3>1
      <4>1. f[i] = g[i] /\ (i # 1 => f[i - 1] = g[i - 1])
        BY <3>1
      <4>2. g[i] = IF i = 1 THEN seqs[i] ELSE g[i - 1] \o seqs[i]
        BY <2>2, <4>0
      <4> HIDE DEF f
      <4> QED BY <4>1, <4>2
    <3>2. CASE i = k + 1
      <4>1. f[i] = last /\ (i # 1 => f[i - 1] = g[k])
        BY <3>2
      <4>2. (i = 1) <=> (k = 0)
        BY <3>2
      <4>3. CASE k = 0
        <5>1. last = seqs[1] /\ i = 1
          BY <4>2, <4>3 DEF last
        <5> HIDE DEF f
        <5> QED BY <4>1, <5>1
      <4>4. CASE k # 0
        <5>1. last = g[k] \o seqs[i] /\ i # 1
          BY <3>2, <4>2, <4>4 DEF last
        <5> HIDE DEF f
        <5> QED BY <4>1, <5>1
      <4> QED BY <4>3, <4>4
    <3> QED BY <3>1, <3>2
  <2>4. f = [i \in 1..(k + 1) |-> f[i]]
    OBVIOUS
  <2> HIDE DEF f
  <2>5. Joined(seqs, k + 1, f)
    BY <2>3, <2>4 DEF Joined
  <2> QED BY <2>5
<1>3. n \in P
  <2> HIDE DEF P
  <2> QED BY <1>1, <1>2, FromZeroOn
<1> QED BY <1>3

\* What is put together of the first sequences does not depend on the others.
LEMMA JoinsAgree ==
  ASSUME NEW seqs, NEW other, NEW n \in Nat, NEW m \in Nat, n <= m, NEW f, NEW g, Joined(seqs, n, f), Joined(other, m, g),
         SameStart(seqs, other, n), NEW k \in 1..n
  PROVE  f[k] = g[k]
<1> DEFINE P == {i \in Nat : i + 1 <= n => f[i + 1] = g[i + 1]}
<1>1. \A i \in 1..n : f[i] = IF i = 1 THEN seqs[i] ELSE f[i - 1] \o seqs[i]
  BY Zenon DEF Joined
<1>2. \A i \in 1..m : g[i] = IF i = 1 THEN other[i] ELSE g[i - 1] \o other[i]
  BY Zenon DEF Joined
<1>3. 0 \in P
  <2> SUFFICES ASSUME 1 <= n PROVE f[1] = g[1]
    OBVIOUS
  <2>1. 1 \in 1..n /\ 1 \in 1..m
    OBVIOUS
  <2>2. f[1] = seqs[1]
    BY <1>1, <2>1
  <2>3. g[1] = other[1]
    BY <1>2, <2>1
  <2> QED BY <2>1, <2>2, <2>3 DEF SameStart
<1>4. ASSUME NEW i \in Nat, i \in P PROVE i + 1 \in P
  <2> SUFFICES ASSUME (i + 1) + 1 <= n PROVE f[(i + 1) + 1] = g[(i + 1) + 1]
    OBVIOUS
  <2> DEFINE j == (i + 1) + 1
  <2>1. j \in 1..n /\ j \in 1..m /\ j # 1 /\ j - 1 = i + 1
    OBVIOUS
  <2>2. f[i + 1] = g[i + 1]
    BY <1>4
  <2> HIDE DEF j
  <2>3. f[j] = f[i + 1] \o seqs[j]
    BY <1>1, <2>1
  <2>4. g[j] = g[i + 1] \o other[j]
    BY <1>2, <2>1
  <2>5. other[j] = seqs[j]
    BY <2>1 DEF SameStart
  <2> QED BY <2>2, <2>3, <2>4, <2>5 DEF j
<1>5. k - 1 \in P
  <2>1. k - 1 \in Nat
    OBVIOUS
  <2> HIDE DEF P
  <2> QED BY <1>3, <1>4, <2>1, FromZeroOn
<1> QED BY <1>5

\* That solution is what FlattenSeq computes.
LEMMA FlattenIs ==
  ASSUME NEW T, NEW n \in Nat, NEW seqs \in [1..n -> Seq(T)], NEW f, Joined(seqs, n, f)
  PROVE  FlattenSeq(seqs) = IF n = 0 THEN <<>> ELSE f[n]
<1>1. Len(seqs) = n /\ (n = 0 => seqs = <<>>)
  OBVIOUS
<1> DEFINE flatten == CHOOSE g : Joined(seqs, n, g)
<1>2. FlattenSeq(seqs) = IF n = 0 THEN seqs ELSE flatten[n]
  BY <1>1 DEF FlattenSeq, Joined
<1>3. Joined(seqs, n, flatten)
  OBVIOUS
<1> HIDE DEF flatten
<1>4. n # 0 => flatten[n] = f[n]
  BY <1>3, JoinsAgree DEF SameStart
<1> QED BY <1>1, <1>2, <1>4

\* One more sequence is put behind the others.
LEMMA FlattenMore ==
  ASSUME NEW T, NEW n \in Nat, NEW seqs \in [1..(n + 1) -> Seq(T)]
  PROVE  FlattenSeq(seqs) = FlattenSeq([i \in 1..n |-> seqs[i]]) \o seqs[n + 1]
<1> DEFINE first == [i \in 1..n |-> seqs[i]]
<1>1. first \in [1..n -> Seq(T)] /\ \A i \in 1..n : seqs[i] = first[i]
  OBVIOUS
<1> HIDE DEF first
<1>0. n + 1 \in Nat /\ n <= n + 1 /\ (n # 0 => n \in 1..n) /\ (n + 1) - 1 = n
  OBVIOUS
<1>2. PICK f : Joined(seqs, n + 1, f)
  BY <1>0, JoinsThereAre
<1>3. PICK g : Joined(first, n, g)
  BY JoinsThereAre
<1>4. FlattenSeq(seqs) = f[n + 1]
  BY <1>2, FlattenIs
<1>5. FlattenSeq(first) = IF n = 0 THEN <<>> ELSE g[n]
  BY <1>1, <1>3, FlattenIs
<1>6. n # 0 => f[n] = g[n]
  <2> SUFFICES ASSUME n # 0 PROVE f[n] = g[n]
    OBVIOUS
  <2>1. g[n] = f[n]
    <3>1. n + 1 \in Nat /\ n <= n + 1 /\ n \in 1..n /\ SameStart(first, seqs, n)
      BY <1>0, <1>1 DEF SameStart
    <3>2. Joined(first, n, g) /\ Joined(seqs, n + 1, f)
      BY <1>2, <1>3
    <3> DEFINE m == n + 1
    <3> HIDE DEF m
    <3>3. m \in Nat /\ n <= m /\ Joined(seqs, m, f)
      BY <3>1, <3>2 DEF m
    <3>4. \A k \in 1..n : g[k] = f[k]
      BY <3>1, <3>2, <3>3, JoinsAgree
    <3> QED BY <3>1, <3>4
  <2> QED BY <2>1
<1>7. f[n + 1] = IF n + 1 = 1 THEN seqs[n + 1] ELSE f[(n + 1) - 1] \o seqs[n + 1]
  <2>1. \A i \in 1..(n + 1) : f[i] = IF i = 1 THEN seqs[i] ELSE f[i - 1] \o seqs[i]
    BY <1>2, Zenon DEF Joined
  <2> QED BY <2>1
<1>8. seqs[n + 1] \in Seq(T)
  OBVIOUS
<1>9. CASE n = 0
  <2>1. f[n + 1] = seqs[n + 1]
    BY <1>7, <1>9
  <2>2. FlattenSeq(first) = <<>>
    BY <1>5, <1>9
  <2>3. <<>> \o seqs[n + 1] = seqs[n + 1]
    BY <1>8
  <2> QED BY <1>4, <2>1, <2>2, <2>3 DEF first
<1>10. CASE n # 0
  <2>1. f[n + 1] = g[n] \o seqs[n + 1]
    <3>1. n + 1 # 1 /\ (n + 1) - 1 = n
      BY <1>10
    <3>2. f[n + 1] = f[n] \o seqs[n + 1]
      BY <1>7, <3>1
    <3> QED BY <1>6, <1>10, <3>2
  <2> QED BY <1>4, <1>5, <1>10, <2>1 DEF first
<1> QED BY <1>9, <1>10

-----------------------------------------------------------------------------
(* What the files say, in the order a load reaches them.                   *)

Behind(files, p, from) == FlattenSeq([i \in DOMAIN files[p].include |-> from[files[p].include[i].path]])
Onward(files, p, stops, from) == IF p \in stops THEN <<>> ELSE Behind(files, p, from)
Walked(files, said, stops, depth, w) ==
  w = [d \in 0..depth |-> [p \in DOMAIN files |->
         said[p] \o (IF d = 0 \/ p \in stops THEN <<>> ELSE Behind(files, p, w[d - 1]))]]

\* The recursion of a walk has a solution, to every depth.
LEMMA WalksThereAre ==
  ASSUME NEW files, NEW said, NEW stops, NEW n \in Nat
  PROVE  \E w : Walked(files, said, stops, n, w)
<1> DEFINE At(d, before) == [p \in DOMAIN files |->
             said[p] \o (IF d = 0 \/ p \in stops THEN <<>> ELSE Behind(files, p, before))]
           P == {k \in Nat : \E w : Walked(files, said, stops, k, w)}
<1>0. \A k, w : Walked(files, said, stops, k, w) <=> w = [d \in 0..k |-> At(d, w[d - 1])]
  BY DEF Walked
<1> HIDE DEF At
<1>1. 0 \in P
  <2> DEFINE w == [d \in 0..0 |-> At(0, 0)]
  <2>1. At(0, w[0 - 1]) = At(0, 0)
    BY DEF At
  <2>2. w = [d \in 0..0 |-> At(d, w[d - 1])]
    BY <2>1
  <2> HIDE DEF w
  <2>3. Walked(files, said, stops, 0, w)
    BY <1>0, <2>2
  <2> QED BY <2>3
<1>2. ASSUME NEW k \in Nat, k \in P PROVE k + 1 \in P
  <2>1. PICK w : Walked(files, said, stops, k, w)
    BY <1>2
  <2> DEFINE last == At(k + 1, w[k])
             f == [d \in 0..(k + 1) |-> IF d <= k THEN w[d] ELSE last]
  <2>2. w = [d \in 0..k |-> At(d, w[d - 1])]
    BY <1>0, <2>1
  <2>3. \A d \in 0..k : w[d] = At(d, w[d - 1])
    BY <2>2, Zenon
  <2> HIDE DEF last
  <2>4. ASSUME NEW d \in 0..(k + 1) PROVE f[d] = At(d, f[d - 1])
    <3>1. CASE d <= k /\ d # 0
      <4>1. f[d] = w[d] /\ f[d - 1] = w[d - 1]
        BY <3>1
      <4>2. w[d] = At(d, w[d - 1])
        BY <2>3, <3>1
      <4> HIDE DEF f
      <4> QED BY <4>1, <4>2
    <3>2. CASE d = k + 1
      <4>1. f[d] = last /\ f[d - 1] = w[k]
        BY <3>2
      <4>2. last = At(d, w[k])
        BY <3>2 DEF last
      <4> HIDE DEF f
      <4> QED BY <4>1, <4>2
    <3>3. CASE d = 0
      <4>1. f[d] = w[0]
        BY <3>3
      <4>2. w[0] = At(0, w[0 - 1])
        BY <2>3
      <4>3. At(0, w[0 - 1]) = At(0, f[0 - 1])
        BY DEF At
      <4> HIDE DEF f
      <4> QED BY <3>3, <4>1, <4>2, <4>3
    <3> QED BY <3>1, <3>2, <3>3
  <2>5. f = [d \in 0..(k + 1) |-> f[d]]
    OBVIOUS
  <2> HIDE DEF f
  <2>6. f = [d \in 0..(k + 1) |-> At(d, f[d - 1])]
    BY <2>4, <2>5
  <2>7. Walked(files, said, stops, k + 1, f)
    BY <1>0, <2>6
  <2> QED BY <2>7
<1>3. n \in P
  <2> HIDE DEF P
  <2> QED BY <1>1, <1>2, FromZeroOn
<1> QED BY <1>3

\* Two solutions agree as deep as both go.
LEMMA WalksAgree ==
  ASSUME NEW files, NEW said, NEW stops, NEW n \in Nat, NEW m \in Nat, n <= m, NEW f, NEW g,
         Walked(files, said, stops, n, f), Walked(files, said, stops, m, g), NEW k \in 0..n
  PROVE  f[k] = g[k]
<1> DEFINE At(d, before) == [p \in DOMAIN files |->
             said[p] \o (IF d = 0 \/ p \in stops THEN <<>> ELSE Behind(files, p, before))]
           P == {i \in Nat : i <= n => f[i] = g[i]}
<1>0. f = [d \in 0..n |-> At(d, f[d - 1])] /\ g = [d \in 0..m |-> At(d, g[d - 1])]
  BY DEF Walked
<1>1. \A x, y : At(0, x) = At(0, y)
  OBVIOUS
<1> HIDE DEF At
<1>2. (\A d \in 0..n : f[d] = At(d, f[d - 1])) /\ (\A d \in 0..m : g[d] = At(d, g[d - 1]))
  BY <1>0, Zenon
<1>3. 0 \in P
  <2>1. f[0] = At(0, f[0 - 1]) /\ g[0] = At(0, g[0 - 1])
    BY <1>2
  <2>2. At(0, f[0 - 1]) = At(0, g[0 - 1])
    BY <1>1
  <2> QED BY <2>1, <2>2
<1>4. ASSUME NEW i \in Nat, i \in P PROVE i + 1 \in P
  <2> SUFFICES ASSUME i + 1 <= n PROVE f[i + 1] = g[i + 1]
    OBVIOUS
  <2> DEFINE j == i + 1
  <2>1. j \in 0..n /\ j \in 0..m /\ j - 1 = i /\ f[i] = g[i]
    BY <1>4
  <2> HIDE DEF j
  <2>2. f[j] = At(j, f[i]) /\ g[j] = At(j, g[i])
    BY <1>2, <2>1
  <2> QED BY <2>1, <2>2 DEF j
<1>5. k \in P
  <2> HIDE DEF P
  <2> QED BY <1>3, <1>4, FromZeroOn
<1> QED BY <1>5

\* A walk is one step, then the walks from there that are a step shorter.
LEMMA WalkIs ==
  ASSUME NEW files, NEW said, NEW stops, NEW p \in DOMAIN files, NEW n \in Nat
  PROVE  Walk(files, n + 1, said, stops)[p] = said[p] \o Onward(files, p, stops, Walk(files, n, said, stops))
<1> DEFINE At(d, before) == [q \in DOMAIN files |->
             said[q] \o (IF d = 0 \/ q \in stops THEN <<>> ELSE Behind(files, q, before))]
           from(d) == CHOOSE w : Walked(files, said, stops, d, w)
<1>1. \A d : Walk(files, d, said, stops) = from(d)[d]
  BY DEF Walk, Walked, Behind
<1>2. \A d \in Nat : Walked(files, said, stops, d, from(d))
  BY WalksThereAre
<1>3. \A d, w : Walked(files, said, stops, d, w) => w = [e \in 0..d |-> At(e, w[e - 1])]
  BY DEF Walked
<1>5. \A x : At(n + 1, x)[p] = said[p] \o (IF p \in stops THEN <<>> ELSE Behind(files, p, x))
  <2>1. n + 1 # 0
    OBVIOUS
  <2>2. \A d, x : At(d, x)[p] = said[p] \o (IF d = 0 \/ p \in stops THEN <<>> ELSE Behind(files, p, x))
    OBVIOUS
  <2> HIDE DEF At
  <2>3. ASSUME NEW x PROVE At(n + 1, x)[p] = said[p] \o (IF n + 1 = 0 \/ p \in stops THEN <<>> ELSE Behind(files, p, x))
    BY <2>2
  <2> QED BY <2>1, <2>3
<1> HIDE DEF At, from
<1>6. ASSUME NEW d \in Nat PROVE from(d)[d] = At(d, from(d)[d - 1])
  <2> DEFINE w == from(d)
  <2>1. w = [e \in 0..d |-> At(e, w[e - 1])]
    BY <1>2, <1>3
  <2> HIDE DEF w
  <2>2. w[d] = At(d, w[d - 1])
    BY <2>1, d \in 0..d, Zenon
  <2> QED BY <2>2 DEF w
<1>7. from(n + 1)[n] = from(n)[n]
  <2>1. n \in 0..n /\ n + 1 \in Nat /\ n <= n + 1
    OBVIOUS
  <2> QED BY <1>2, <2>1, WalksAgree
<1>8. from(n + 1)[n + 1] = At(n + 1, from(n)[n])
  <2>1. (n + 1) - 1 = n /\ n + 1 \in Nat
    OBVIOUS
  <2> QED BY <1>6, <1>7, <2>1
<1> QED BY <1>1, <1>5, <1>8 DEF Onward

-----------------------------------------------------------------------------
(* The first of several places.                                            *)

\* A set of numbers has a least one.
LEMMA FirstIs ==
  ASSUME NEW P, P \subseteq Nat, P # {}
  PROVE  First(P) \in P /\ \A j \in P : First(P) <= j
<1> DEFINE Q == {k \in Nat : (\E j \in P : j <= k) => \E i \in P : \A j \in P : i <= j}
<1>1. 0 \in Q
  <2> SUFFICES ASSUME NEW j \in P, j <= 0 PROVE \E i \in P : \A m \in P : i <= m
    OBVIOUS
  <2>1. j = 0 /\ \A m \in P : 0 <= m
    OBVIOUS
  <2> QED BY <2>1
<1>2. ASSUME NEW k \in Nat, k \in Q PROVE k + 1 \in Q
  <2> SUFFICES ASSUME NEW j \in P, j <= k + 1, \A m \in P : ~ (m <= k)
               PROVE  \E i \in P : \A m \in P : i <= m
    BY <1>2
  <2>1. \A m \in P : j <= m
    OBVIOUS
  <2> QED BY <2>1
<1>3. PICK k \in P : TRUE
  OBVIOUS
<1>4. k \in Q
  <2> HIDE DEF Q
  <2> QED BY <1>1, <1>2, <1>3, FromZeroOn
<1>5. \E i \in P : \A j \in P : i <= j
  BY <1>3, <1>4
<1> QED BY <1>5 DEF First

\* The places of a sequence that hold one of a set, and the first of them.
At(S, g) == {i \in DOMAIN g : g[i] \in S}
HeadOf(S, g) == IF At(S, g) = {} THEN <<>> ELSE <<g[First(At(S, g))]>>

\* The first of a sequence is empty when none is there, else one of the set
\* that is somewhere in the sequence.
LEMMA HeadIs ==
  ASSUME NEW T, NEW S, NEW g \in Seq(T)
  PROVE  /\ HeadOf(S, g) = <<>> <=> \A i \in DOMAIN g : g[i] \notin S
         /\ HeadOf(S, g) # <<>> => /\ HeadOf(S, g) = <<HeadOf(S, g)[1]>> /\ HeadOf(S, g)[1] \in S
                                   /\ \E i \in DOMAIN g : HeadOf(S, g)[1] = g[i]
<1>1. At(S, g) \subseteq Nat
  BY DEF At
<1>2. At(S, g) # {} => First(At(S, g)) \in At(S, g)
  BY <1>1, FirstIs
<1> QED BY <1>2 DEF At, HeadOf

\* The first of two sequences is that of the former, if it has one.
LEMMA HeadOfBoth ==
  ASSUME NEW T, NEW S, NEW g \in Seq(T), NEW h \in Seq(T)
  PROVE  HeadOf(S, g \o h) = IF HeadOf(S, g) # <<>> THEN HeadOf(S, g) ELSE HeadOf(S, h)
<1> DEFINE n == Len(g)
           both == g \o h
           P == At(S, g)
           Q == At(S, h)
           R == At(S, both)
<1>1. /\ n \in Nat /\ DOMAIN g = 1..n /\ DOMAIN h = 1..Len(h) /\ Len(h) \in Nat /\ DOMAIN both = 1..(n + Len(h))
      /\ \A i \in 1..n : both[i] = g[i]
      /\ \A i \in 1..Len(h) : both[n + i] = h[i]
  OBVIOUS
<1> HIDE DEF n, both
<1>2. P \subseteq 1..n /\ Q \subseteq 1..Len(h) /\ R \subseteq 1..(n + Len(h))
  BY <1>1 DEF At
<1>3. \A i \in 1..n : i \in R <=> i \in P
  BY <1>1 DEF At
<1>4. \A i \in 1..Len(h) : n + i \in R <=> i \in Q
  BY <1>1 DEF At
<1>5. \A i \in R : i \in P \/ (i - n \in Q /\ i - n \in 1..Len(h) /\ i = n + (i - n))
  <2> SUFFICES ASSUME NEW i \in R, i \notin P PROVE i - n \in Q /\ i - n \in 1..Len(h) /\ i = n + (i - n)
    OBVIOUS
  <2> DEFINE j == i - n
  <2>1. i \in 1..(n + Len(h)) /\ i \notin 1..n
    BY <1>2, <1>3
  <2>2. j \in 1..Len(h) /\ i = n + j
    BY <1>1, <2>1
  <2> HIDE DEF j
  <2>3. j \in Q
    BY <1>4, <2>2
  <2> QED BY <2>2, <2>3 DEF j
<1>6. P \subseteq Nat /\ Q \subseteq Nat /\ R \subseteq Nat
  BY <1>1, <1>2
<1>7. /\ P # {} => First(P) \in P /\ \A j \in P : First(P) <= j
      /\ Q # {} => First(Q) \in Q /\ \A j \in Q : First(Q) <= j
      /\ R # {} => First(R) \in R /\ \A j \in R : First(R) <= j
  BY <1>6, FirstIs
<1>8. P # {} => R # {} /\ both[First(R)] = g[First(P)]
  <2> SUFFICES ASSUME P # {} PROVE R # {} /\ both[First(R)] = g[First(P)]
    OBVIOUS
  <2> DEFINE a == First(P)
             b == First(R)
  <2>1. a \in P /\ a \in 1..n /\ a \in R
    BY <1>2, <1>3, <1>7
  <2>2. b \in R /\ b <= a /\ \A j \in P : a <= j
    BY <1>7, <2>1
  <2> HIDE DEF a, b
  <2>3. b \in 1..n
    BY <1>1, <1>2, <2>1, <2>2
  <2>4. b \in P /\ b = a
    BY <1>1, <1>3, <2>1, <2>2, <2>3
  <2> QED BY <1>1, <2>1, <2>4 DEF a, b
<1>9. P = {} /\ Q # {} => R # {} /\ both[First(R)] = h[First(Q)]
  <2> SUFFICES ASSUME P = {}, Q # {} PROVE R # {} /\ both[First(R)] = h[First(Q)]
    OBVIOUS
  <2> DEFINE a == First(Q)
             b == First(R)
  <2>1. a \in Q /\ a \in 1..Len(h) /\ n + a \in R /\ \A j \in Q : a <= j
    BY <1>2, <1>4, <1>7
  <2>2. b \in R /\ b <= n + a
    BY <1>7, <2>1
  <2>3. b - n \in Q /\ b - n \in 1..Len(h) /\ b = n + (b - n)
    BY <1>5, <2>2
  <2> HIDE DEF a, b
  <2>4. b = n + a
    <3> DEFINE c == b - n
    <3>1. a <= c /\ c \in Nat /\ b = n + c
      BY <2>1, <2>3
    <3> HIDE DEF c
    <3> QED BY <1>1, <2>1, <2>2, <3>1
  <2> QED BY <1>1, <2>1, <2>4 DEF a, b
<1>10. P = {} /\ Q = {} => R = {}
  BY <1>5
<1> QED BY <1>8, <1>9, <1>10 DEF HeadOf, n, both

-----------------------------------------------------------------------------
(* What a city of a merged configuration stands for.                       *)

CityFields == {"name", "edge", "minArea", "forecast", "tags", "source", "sourceEdge"}
IsCity(c) == /\ DOMAIN c = CityFields /\ c.edge \in Nat /\ c.minArea \in Nat /\ c.forecast \in ForecastConfig
             /\ c.sourceEdge \in Nat

\* ResolvedHexEdge of a given environment.
EdgeIn(env, file, city) ==
  OrElse(IF env >= MinHexEdge THEN env ELSE 0, OrElse(EffectiveHexEdge(file, city), DefaultEdge))

Grids(t, name) == {p \in DOMAIN t.files : ~GridIsUnset(StatedGrid(t.files[p], name))}
Conditions(t, name) == {p \in DOMAIN t.files : StatedForecast(t.files[p], name).pci # 0}
Growths(t, name) == {p \in DOMAIN t.files : StatesGrowth(StatedForecast(t.files[p], name))}
OwnerOf(t, g, name) == IF HeadOf(Grids(t, name), g) = <<>> THEN g[1] ELSE HeadOf(Grids(t, name), g)[1]

\* The city c has the grid and the identity of the owner, the condition and
\* the growth of the first giver that states them; other statements are told.
IsGridOf(t, c, p) ==
  /\ c.edge = StatedGrid(t.files[p], c.name).edge /\ c.minArea = StatedGrid(t.files[p], c.name).minArea
  /\ c.source = <<SourceIdentity(t.files[p], p, BlobsOf(t.files, p))>>
  /\ c.sourceEdge = EdgeIn(t.env, t.files[p], OwnCity(t.files[p], c.name))
HasGrid(t, c, g) == IsGridOf(t, c, OwnerOf(t, g, c.name))
HasCondition(t, c, g) ==
  c.forecast.pci = IF HeadOf(Conditions(t, c.name), g) = <<>> THEN 0
                   ELSE StatedForecast(t.files[HeadOf(Conditions(t, c.name), g)[1]], c.name).pci
HasGrowth(t, c, g) ==
  /\ StatesGrowth(c.forecast) <=> HeadOf(Growths(t, c.name), g) # <<>>
  /\ c.forecast.growth = IF HeadOf(Growths(t, c.name), g) = <<>> THEN 0
                         ELSE StatedForecast(t.files[HeadOf(Growths(t, c.name), g)[1]], c.name).growth
Told(W, c, field) == \E w \in W : w.slug = Slug(c) /\ w.field = field
TellsOf(t, c, W, p) ==
  /\ StatedGrid(t.files[p], c.name).edge \in {0, c.edge} \/ Told(W, c, "edge")
  /\ StatedGrid(t.files[p], c.name).minArea \in {0, c.minArea} \/ Told(W, c, "minArea")
  /\ StatedForecast(t.files[p], c.name).pci \in {0, c.forecast.pci} \/ Told(W, c, "pci")
  /\ \/ ~StatesGrowth(StatedForecast(t.files[p], c.name))
     \/ StatedForecast(t.files[p], c.name).growth = c.forecast.growth
     \/ Told(W, c, "growth")
Represents(t, c, g, W) ==
  /\ IsCity(c) /\ g \in Seq(DOMAIN t.files) /\ g # <<>>
  /\ HasGrid(t, c, g) /\ HasCondition(t, c, g) /\ HasGrowth(t, c, g)
  /\ \A i \in DOMAIN g : TellsOf(t, c, W, g[i])

\* Two cities folded into one, and what is discarded.
TakesGrid(c, d) == c.edge = d.edge /\ c.minArea = d.minArea /\ c.source = d.source /\ c.sourceEdge = d.sourceEdge
IsUnion(c, kept, given) ==
  /\ IsCity(c) /\ c.name = kept.name
  /\ IF AdoptsGrid(kept, given) THEN TakesGrid(c, given) ELSE TakesGrid(c, kept)
  /\ c.forecast = UnionForecast(kept.forecast, given.forecast)
Discards(kept, given) ==
  (IF AdoptsGrid(kept, given) THEN {} ELSE GridConflicts(kept, given))
  \cup ForecastConflicts(kept.forecast, given.forecast)

\* A city has a grid when one of its givers states one.
LEMMA GridIsStated ==
  ASSUME NEW t, NEW c, NEW g \in Seq(DOMAIN t.files), g # <<>>, HasGrid(t, c, g)
  PROVE  GridIsUnset(c) <=> HeadOf(Grids(t, c.name), g) = <<>>
<1> DEFINE S == Grids(t, c.name)
           p == OwnerOf(t, g, c.name)
<1>1. GridIsUnset(c) <=> GridIsUnset(StatedGrid(t.files[p], c.name))
  BY DEF HasGrid, IsGridOf, GridIsUnset
<1>2. CASE HeadOf(S, g) = <<>>
  <2>1. 1 \in DOMAIN g /\ g[1] \in DOMAIN t.files
    OBVIOUS
  <2>2. g[1] \notin S
    BY <1>2, <2>1, HeadIs
  <2>3. p = g[1]
    BY <1>2 DEF OwnerOf
  <2> QED BY <1>1, <1>2, <2>1, <2>2, <2>3 DEF Grids
<1>3. CASE HeadOf(S, g) # <<>>
  <2>1. HeadOf(S, g)[1] \in S
    BY <1>3, HeadIs
  <2>2. p = HeadOf(S, g)[1]
    BY <1>3 DEF OwnerOf
  <2> QED BY <1>1, <1>3, <2>1, <2>2 DEF Grids
<1> QED BY <1>2, <1>3

\* A union has the grid of the first giver, of both, that states one.
LEMMA UnionHasGrid ==
  ASSUME NEW t, NEW c, NEW kept, NEW given, NEW g \in Seq(DOMAIN t.files), NEW h \in Seq(DOMAIN t.files),
         g # <<>>, h # <<>>, HasGrid(t, kept, g), HasGrid(t, given, h), kept.name = given.name,
         IsUnion(c, kept, given)
  PROVE  HasGrid(t, c, g \o h)
<1> DEFINE S == Grids(t, c.name)
<1>1. c.name = kept.name /\ c.name = given.name
  BY DEF IsUnion
<1>2. HeadOf(S, g \o h) = IF HeadOf(S, g) # <<>> THEN HeadOf(S, g) ELSE HeadOf(S, h)
  BY HeadOfBoth
<1>3. (GridIsUnset(kept) <=> HeadOf(S, g) = <<>>) /\ (GridIsUnset(given) <=> HeadOf(S, h) = <<>>)
  BY <1>1, GridIsStated
<1>4. (g \o h)[1] = g[1]
  OBVIOUS
<1>5. CASE AdoptsGrid(kept, given)
  <2>1. TakesGrid(c, given)
    BY <1>5 DEF IsUnion
  <2>2. OwnerOf(t, g \o h, c.name) = OwnerOf(t, h, c.name)
    BY <1>2, <1>3, <1>5 DEF OwnerOf, AdoptsGrid
  <2> QED BY <1>1, <2>1, <2>2 DEF HasGrid, IsGridOf, TakesGrid
<1>6. CASE ~AdoptsGrid(kept, given)
  <2>1. TakesGrid(c, kept)
    BY <1>6 DEF IsUnion
  <2>2. OwnerOf(t, g \o h, c.name) = OwnerOf(t, g, c.name)
    BY <1>2, <1>3, <1>4, <1>6 DEF OwnerOf, AdoptsGrid
  <2> QED BY <1>1, <2>1, <2>2 DEF HasGrid, IsGridOf, TakesGrid
<1> QED BY <1>5, <1>6

\* The fields of a union of forecasts.
LEMMA UnionForecastIs ==
  ASSUME NEW kept \in ForecastConfig, NEW given \in ForecastConfig
  PROVE  /\ UnionForecast(kept, given) \in ForecastConfig
         /\ UnionForecast(kept, given).pci = IF kept.pci = 0 THEN given.pci ELSE kept.pci
         /\ StatesGrowth(UnionForecast(kept, given)) <=> StatesGrowth(kept) \/ StatesGrowth(given)
         /\ StatesGrowth(kept) => UnionForecast(kept, given).growth = kept.growth
         /\ ~StatesGrowth(kept) => UnionForecast(kept, given).growth = given.growth
<1> DEFINE rated == UnionGrowthRate(kept, given)
<1>1. rated \in ForecastConfig /\ rated.pci = kept.pci
      /\ (IF ~StatesGrowth(kept) /\ StatesGrowth(given)
          THEN rated.growth = given.growth /\ rated.growthSet = given.growthSet
          ELSE rated.growth = kept.growth /\ rated.growthSet = kept.growthSet)
  BY DEF UnionGrowthRate, ForecastConfig
<1>2. UnionForecast(kept, given) = [rated EXCEPT !.pci = UnionFloat(kept.pci, given.pci)]
  BY DEF UnionForecast
<1> HIDE DEF rated
<1>3. /\ UnionForecast(kept, given) \in ForecastConfig
      /\ UnionForecast(kept, given).pci = UnionFloat(kept.pci, given.pci)
      /\ UnionForecast(kept, given).growth = rated.growth
      /\ UnionForecast(kept, given).growthSet = rated.growthSet
  <2>1. UnionFloat(kept.pci, given.pci) \in Nat
    BY DEF UnionFloat, ForecastConfig
  <2> QED BY <1>1, <1>2, <2>1 DEF ForecastConfig
<1>4. ~StatesGrowth(kept) => kept.growth = 0
  BY DEF StatesGrowth
<1>5. ~StatesGrowth(given) => given.growth = 0
  BY DEF StatesGrowth
<1>6. StatesGrowth(UnionForecast(kept, given)) <=> StatesGrowth(rated)
  BY <1>3 DEF StatesGrowth
<1>7. StatesGrowth(rated) <=> StatesGrowth(kept) \/ StatesGrowth(given)
  BY <1>1 DEF StatesGrowth
<1> QED BY <1>1, <1>3, <1>4, <1>5, <1>6, <1>7 DEF UnionFloat

\* A union has the condition and the growth of the first giver, of both, that
\* states one.
LEMMA UnionHasForecast ==
  ASSUME NEW t, NEW c, NEW kept, NEW given, NEW g \in Seq(DOMAIN t.files), NEW h \in Seq(DOMAIN t.files),
         IsCity(kept), IsCity(given), kept.name = given.name, IsUnion(c, kept, given),
         HasCondition(t, kept, g), HasCondition(t, given, h), HasGrowth(t, kept, g), HasGrowth(t, given, h)
  PROVE  HasCondition(t, c, g \o h) /\ HasGrowth(t, c, g \o h)
<1> DEFINE C == Conditions(t, c.name)
           G == Growths(t, c.name)
<1>1. c.name = kept.name /\ c.name = given.name /\ c.forecast = UnionForecast(kept.forecast, given.forecast)
  BY DEF IsUnion
<1>2. HeadOf(C, g \o h) = IF HeadOf(C, g) # <<>> THEN HeadOf(C, g) ELSE HeadOf(C, h)
  BY HeadOfBoth
<1>3. HeadOf(G, g \o h) = IF HeadOf(G, g) # <<>> THEN HeadOf(G, g) ELSE HeadOf(G, h)
  BY HeadOfBoth
<1>4. kept.forecast \in ForecastConfig /\ given.forecast \in ForecastConfig
  BY DEF IsCity
<1>5. kept.forecast.pci = 0 <=> HeadOf(C, g) = <<>>
  <2>1. HeadOf(C, g) # <<>> => HeadOf(C, g)[1] \in C
    BY HeadIs
  <2> QED BY <1>1, <2>1 DEF HasCondition, Conditions
<1>6. HasCondition(t, c, g \o h)
  <2>1. c.forecast.pci = IF kept.forecast.pci = 0 THEN given.forecast.pci ELSE kept.forecast.pci
    BY <1>1, <1>4, UnionForecastIs
  <2> QED BY <1>1, <1>2, <1>5, <2>1 DEF HasCondition
<1>7. HasGrowth(t, c, g \o h)
  <2>1. /\ StatesGrowth(c.forecast) <=> StatesGrowth(kept.forecast) \/ StatesGrowth(given.forecast)
        /\ StatesGrowth(kept.forecast) => c.forecast.growth = kept.forecast.growth
        /\ ~StatesGrowth(kept.forecast) => c.forecast.growth = given.forecast.growth
    BY <1>1, <1>4, UnionForecastIs
  <2> QED BY <1>1, <1>3, <2>1 DEF HasGrowth
<1> QED BY <1>6, <1>7

\* What is discarded is in the fields that conflict.
LEMMA ConflictsAre ==
  ASSUME NEW kept, NEW given
  PROVE  /\ ~AdoptsGrid(kept, given) =>
              /\ given.edge \in {0, kept.edge} \/ "edge" \in Discards(kept, given)
              /\ given.minArea \in {0, kept.minArea} \/ "minArea" \in Discards(kept, given)
         /\ \/ given.forecast.pci \in {0, kept.forecast.pci} \/ kept.forecast.pci = 0
            \/ "pci" \in Discards(kept, given)
         /\ StatesGrowth(kept.forecast) /\ StatesGrowth(given.forecast) =>
              given.forecast.growth = kept.forecast.growth \/ "growth" \in Discards(kept, given)
<1>1. /\ "edge" \in GridConflicts(kept, given) <=> given.edge # 0 /\ given.edge # kept.edge
      /\ "minArea" \in GridConflicts(kept, given) <=> given.minArea # 0 /\ given.minArea # kept.minArea
  BY DEF GridConflicts
<1>2. /\ "pci" \in ForecastConflicts(kept.forecast, given.forecast) <=>
           given.forecast.pci # 0 /\ kept.forecast.pci # 0 /\ given.forecast.pci # kept.forecast.pci
      /\ "growth" \in ForecastConflicts(kept.forecast, given.forecast) <=>
           StatesGrowth(given.forecast) /\ StatesGrowth(kept.forecast) /\ given.forecast.growth # kept.forecast.growth
  BY DEF ForecastConflicts
<1> QED BY <1>1, <1>2 DEF Discards

\* A city whose givers state a growth states one.
LEMMA GrowthIsStated ==
  ASSUME NEW t, NEW c, NEW g \in Seq(DOMAIN t.files), HasGrowth(t, c, g), NEW i \in DOMAIN g,
         StatesGrowth(StatedForecast(t.files[g[i]], c.name))
  PROVE  StatesGrowth(c.forecast)
<1>1. g[i] \in Growths(t, c.name)
  BY DEF Growths
<1>2. HeadOf(Growths(t, c.name), g) # <<>>
  BY <1>1, HeadIs
<1> QED BY <1>2 DEF HasGrowth

\* The statements the former city accounts for are accounted for.
LEMMA UnionTellsFormer ==
  ASSUME NEW t, NEW c, NEW kept, NEW given, NEW g \in Seq(DOMAIN t.files), NEW W, NEW W2, W \subseteq W2,
         IsCity(kept), IsCity(given), IsUnion(c, kept, given), HasGrowth(t, kept, g), NEW i \in DOMAIN g, TellsOf(t, kept, W, g[i])
  PROVE  TellsOf(t, c, W2, g[i])
<1> DEFINE p == g[i]
           grid == StatedGrid(t.files[p], c.name)
           fc == StatedForecast(t.files[p], c.name)
<1>1. c.name = kept.name /\ c.forecast = UnionForecast(kept.forecast, given.forecast)
  BY DEF IsUnion
<1>2. \A f : Told(W, kept, f) => Told(W2, c, f)
  BY <1>1 DEF Told, Slug
<1>3. kept.forecast \in ForecastConfig /\ given.forecast \in ForecastConfig
  BY DEF IsCity
<1>4. StatesGrowth(fc) => StatesGrowth(kept.forecast)
  BY <1>1, GrowthIsStated
<1>5. /\ grid.edge \in {0, kept.edge} \/ Told(W2, c, "edge")
      /\ grid.minArea \in {0, kept.minArea} \/ Told(W2, c, "minArea")
      /\ fc.pci \in {0, kept.forecast.pci} \/ Told(W2, c, "pci")
      /\ ~StatesGrowth(fc) \/ fc.growth = kept.forecast.growth \/ Told(W2, c, "growth")
  BY <1>1, <1>2 DEF TellsOf
<1>6. \/ c.edge = kept.edge /\ c.minArea = kept.minArea
      \/ kept.edge = 0 /\ kept.minArea = 0
  BY DEF IsUnion, TakesGrid, AdoptsGrid, GridIsUnset
<1>7. /\ c.forecast.pci = IF kept.forecast.pci = 0 THEN given.forecast.pci ELSE kept.forecast.pci
      /\ StatesGrowth(kept.forecast) => c.forecast.growth = kept.forecast.growth
  BY <1>1, <1>3, UnionForecastIs
<1> HIDE DEF grid, fc
<1>8. /\ grid.edge \in {0, c.edge} \/ Told(W2, c, "edge")
      /\ grid.minArea \in {0, c.minArea} \/ Told(W2, c, "minArea")
      /\ fc.pci \in {0, c.forecast.pci} \/ Told(W2, c, "pci")
      /\ ~StatesGrowth(fc) \/ fc.growth = c.forecast.growth \/ Told(W2, c, "growth")
  BY <1>4, <1>5, <1>6, <1>7
<1> QED BY <1>8 DEF TellsOf, grid, fc

\* So are those of the latter, when what is discarded has a warning.
LEMMA UnionTellsLatter ==
  ASSUME NEW t, NEW c, NEW kept, NEW given, NEW h \in Seq(DOMAIN t.files), NEW W, NEW W2, W \subseteq W2,
         IsCity(kept), IsCity(given), kept.name = given.name, IsUnion(c, kept, given), HasGrowth(t, given, h),
         \A f \in Discards(kept, given) : Told(W2, c, f), NEW i \in DOMAIN h, TellsOf(t, given, W, h[i])
  PROVE  TellsOf(t, c, W2, h[i])
<1> DEFINE p == h[i]
           grid == StatedGrid(t.files[p], c.name)
           fc == StatedForecast(t.files[p], c.name)
<1>1. c.name = given.name /\ c.forecast = UnionForecast(kept.forecast, given.forecast)
  BY DEF IsUnion
<1>2. \A f : Told(W, given, f) => Told(W2, c, f)
  BY <1>1 DEF Told, Slug
<1>3. kept.forecast \in ForecastConfig /\ given.forecast \in ForecastConfig
  BY DEF IsCity
<1>4. StatesGrowth(fc) => StatesGrowth(given.forecast)
  BY <1>1, GrowthIsStated
<1>5. /\ grid.edge \in {0, given.edge} \/ Told(W2, c, "edge")
      /\ grid.minArea \in {0, given.minArea} \/ Told(W2, c, "minArea")
      /\ fc.pci \in {0, given.forecast.pci} \/ Told(W2, c, "pci")
      /\ ~StatesGrowth(fc) \/ fc.growth = given.forecast.growth \/ Told(W2, c, "growth")
  BY <1>1, <1>2 DEF TellsOf
<1>6. IF AdoptsGrid(kept, given) THEN c.edge = given.edge /\ c.minArea = given.minArea
      ELSE c.edge = kept.edge /\ c.minArea = kept.minArea
  BY DEF IsUnion, TakesGrid
<1>7. /\ c.forecast.pci = IF kept.forecast.pci = 0 THEN given.forecast.pci ELSE kept.forecast.pci
      /\ StatesGrowth(kept.forecast) => c.forecast.growth = kept.forecast.growth
      /\ ~StatesGrowth(kept.forecast) => c.forecast.growth = given.forecast.growth
  BY <1>1, <1>3, UnionForecastIs
<1>8. /\ ~AdoptsGrid(kept, given) =>
              /\ given.edge \in {0, kept.edge} \/ Told(W2, c, "edge")
              /\ given.minArea \in {0, kept.minArea} \/ Told(W2, c, "minArea")
      /\ given.forecast.pci \in {0, kept.forecast.pci} \/ kept.forecast.pci = 0 \/ Told(W2, c, "pci")
      /\ StatesGrowth(kept.forecast) /\ StatesGrowth(given.forecast) =>
              given.forecast.growth = kept.forecast.growth \/ Told(W2, c, "growth")
  BY ConflictsAre
<1> HIDE DEF grid, fc
<1>9. grid.edge \in {0, c.edge} \/ Told(W2, c, "edge")
  BY <1>5, <1>6, <1>8
<1>10. grid.minArea \in {0, c.minArea} \/ Told(W2, c, "minArea")
  BY <1>5, <1>6, <1>8
<1>11. fc.pci \in {0, c.forecast.pci} \/ Told(W2, c, "pci")
  BY <1>5, <1>7, <1>8
<1>12. ~StatesGrowth(fc) \/ fc.growth = c.forecast.growth \/ Told(W2, c, "growth")
  BY <1>4, <1>5, <1>7, <1>8
<1> QED BY <1>9, <1>10, <1>11, <1>12 DEF TellsOf, grid, fc

\* A city that stands for one list of givers, folded with one that stands for
\* another, stands for both lists.
LEMMA UnionRepresents ==
  ASSUME NEW t, NEW c, NEW kept, NEW given, NEW g, NEW h, NEW W, NEW W2, W \subseteq W2,
         Represents(t, kept, g, W), Represents(t, given, h, W), kept.name = given.name, IsUnion(c, kept, given),
         \A f \in Discards(kept, given) : Told(W2, c, f)
  PROVE  Represents(t, c, g \o h, W2)
<1> DEFINE both == g \o h
<1>1. /\ IsCity(kept) /\ g \in Seq(DOMAIN t.files) /\ g # <<>>
      /\ IsCity(given) /\ h \in Seq(DOMAIN t.files) /\ h # <<>>
      /\ HasGrid(t, kept, g) /\ HasCondition(t, kept, g) /\ HasGrowth(t, kept, g)
      /\ HasGrid(t, given, h) /\ HasCondition(t, given, h) /\ HasGrowth(t, given, h)
  BY DEF Represents
<1>2. HasGrid(t, c, both)
  BY <1>1, UnionHasGrid
<1>3. HasCondition(t, c, both) /\ HasGrowth(t, c, both)
  BY <1>1, UnionHasForecast
<1>4. both \in Seq(DOMAIN t.files) /\ both # <<>>
  BY <1>1
<1>5. ASSUME NEW i \in DOMAIN both PROVE TellsOf(t, c, W2, both[i])
  <2>1. (i \in DOMAIN g /\ both[i] = g[i]) \/ \E j \in DOMAIN h : both[i] = h[j]
    BY <1>1
  <2>2. CASE i \in DOMAIN g /\ both[i] = g[i]
    <3>1. TellsOf(t, kept, W, g[i])
      BY <2>2 DEF Represents
    <3>2. TellsOf(t, c, W2, g[i])
      BY <1>1, <2>2, <3>1, UnionTellsFormer
    <3> QED BY <2>2, <3>2
  <2>3. CASE \E j \in DOMAIN h : both[i] = h[j]
    <3>1. PICK j \in DOMAIN h : both[i] = h[j]
      BY <2>3
    <3>2. TellsOf(t, given, W, h[j])
      BY DEF Represents
    <3>3. TellsOf(t, c, W2, h[j])
      BY <1>1, <3>2, UnionTellsLatter
    <3> QED BY <3>1, <3>3
  <2> QED BY <2>1, <2>2, <2>3
<1>6. IsCity(c)
  BY DEF IsUnion
<1> QED BY <1>2, <1>3, <1>4, <1>5, <1>6 DEF Represents

\* What a city stands for is not changed by its tags, nor by more warnings.
LEMMA StillRepresents ==
  ASSUME NEW t, NEW c, NEW d, NEW g, NEW W, NEW W2, W \subseteq W2, Represents(t, c, g, W),
         DOMAIN d = CityFields, d.name = c.name, TakesGrid(d, c), d.forecast = c.forecast
  PROVE  Represents(t, d, g, W2)
<1>1. IsCity(d)
  BY DEF Represents, IsCity, TakesGrid
<1>2. g \in Seq(DOMAIN t.files) /\ g # <<>> /\ HasCondition(t, d, g) /\ HasGrowth(t, d, g)
  BY DEF Represents, HasCondition, HasGrowth
<1>3. HasGrid(t, d, g)
  BY DEF Represents, HasGrid, IsGridOf, TakesGrid
<1>4. \A f : Told(W, c, f) => Told(W2, d, f)
  BY DEF Told, Slug
<1>5. ASSUME NEW i \in DOMAIN g PROVE TellsOf(t, d, W2, g[i])
  <2>1. TellsOf(t, c, W, g[i])
    BY DEF Represents
  <2> QED BY <1>4, <2>1 DEF TellsOf, TakesGrid
<1> QED BY <1>1, <1>2, <1>3, <1>5 DEF Represents

-----------------------------------------------------------------------------
(* The cities of a file, as a file that includes it sees them.             *)

IsTree(t) == /\ t.env \in Nat /\ t.envPCI \in Nat /\ IsFiniteSet(DOMAIN t.files)
             /\ \A p \in DOMAIN t.files : p \in STRING /\ t.files[p] \in ConfigFile
View(t, q, c) ==
  [c EXCEPT
     !.edge = EffectiveHexEdge(t.files[q], c),
     !.minArea = EffectiveMinHexArea(t.files[q], c),
     !.forecast = EffectiveForecast(t.files[q], c),
     !.source = IF c.source = <<>> THEN <<SourceIdentity(t.files[q], q, BlobsOf(t.files, q))>> ELSE c.source,
     !.sourceEdge = IF c.sourceEdge = 0 THEN EdgeIn(t.env, t.files[q], c) ELSE c.sourceEdge]

\* It is what a load makes of a city that it includes.
LEMMA FlattenedIs ==
  ASSUME NEW q, NEW c, NEW blobs, blobs = BlobsOf(tree.files, q)
  PROVE  Flattened(tree.files[q], c, SourceIdentity(tree.files[q], q, blobs)) = View(tree, q, c)
BY DEF Flattened, View, EdgeIn, ResolvedHexEdge, EdgeFromEnv

\* The fields of a view.
LEMMA ViewIs ==
  ASSUME NEW t, IsTree(t), NEW q \in DOMAIN t.files, NEW c, IsCity(c)
  PROVE  /\ IsCity(View(t, q, c)) /\ View(t, q, c).name = c.name
         /\ View(t, q, c).edge = OrElse(c.edge, t.files[q].edge)
         /\ View(t, q, c).minArea = OrElse(c.minArea, t.files[q].minArea)
         /\ View(t, q, c).forecast = ApplyCityForecast(t.files[q].forecast, c.forecast)
         /\ View(t, q, c).source = IF c.source = <<>> THEN <<SourceIdentity(t.files[q], q, BlobsOf(t.files, q))>> ELSE c.source
         /\ View(t, q, c).sourceEdge = IF c.sourceEdge = 0 THEN EdgeIn(t.env, t.files[q], c) ELSE c.sourceEdge
<1> DEFINE file == t.files[q]
           v == View(t, q, c)
<1>1. file.edge \in Nat /\ file.minArea \in Nat /\ file.forecast \in ForecastConfig
  BY DEF IsTree, ConfigFile
<1>2. \A a, b \in Nat : OrElse(a, b) \in Nat
  BY DEF OrElse
<1>3. DefaultEdge \in Nat
  BY ConfigAssumption
<1>4. c.edge \in Nat /\ c.minArea \in Nat /\ c.forecast \in ForecastConfig /\ c.sourceEdge \in Nat /\ t.env \in Nat
  BY DEF IsCity, IsTree
<1>5. EdgeIn(t.env, file, c) \in Nat
  BY <1>1, <1>2, <1>3, <1>4 DEF EdgeIn, EffectiveHexEdge
<1>6. ApplyCityForecast(file.forecast, c.forecast) \in ForecastConfig
  <2>1. /\ c.forecast.pci \in Nat /\ c.forecast.growth \in Int /\ c.forecast.growthSet \in BOOLEAN
        /\ file.forecast.pci \in Nat /\ file.forecast.growth \in Int /\ file.forecast.growthSet \in BOOLEAN
    BY <1>1, <1>4 DEF ForecastConfig
  <2> HIDE DEF file
  <2>2. OrElse(c.forecast.pci, file.forecast.pci) \in Nat
    BY <1>2, <2>1
  <2>3. (IF StatesGrowth(c.forecast) THEN c.forecast.growth ELSE file.forecast.growth) \in Int
    BY <2>1
  <2>4. (StatesGrowth(c.forecast) \/ file.forecast.growthSet) \in BOOLEAN
    OBVIOUS
  <2> QED BY <2>2, <2>3, <2>4 DEF ApplyCityForecast, ForecastConfig
<1> HIDE DEF file
<1>7. /\ DOMAIN v = CityFields /\ v.name = c.name /\ v.edge = OrElse(c.edge, file.edge) /\ v.minArea = OrElse(c.minArea, file.minArea)
      /\ v.forecast = ApplyCityForecast(file.forecast, c.forecast)
      /\ v.source = IF c.source = <<>> THEN <<SourceIdentity(file, q, BlobsOf(t.files, q))>> ELSE c.source
      /\ v.sourceEdge = IF c.sourceEdge = 0 THEN EdgeIn(t.env, file, c) ELSE c.sourceEdge
  BY DEF View, IsCity, CityFields, EffectiveHexEdge, EffectiveMinHexArea, EffectiveForecast, file
<1> HIDE DEF v
<1>8. IsCity(v)
  <2>1. v.edge \in Nat /\ v.minArea \in Nat /\ v.forecast \in ForecastConfig
    BY <1>1, <1>2, <1>4, <1>6, <1>7
  <2>2. v.sourceEdge \in Nat
    BY <1>4, <1>5, <1>7
  <2> QED BY <1>7, <2>1, <2>2 DEF IsCity
<1> QED BY <1>7, <1>8 DEF v, file

\* The cities a file declares are the ones its own, and no other of a name.
IsOwn(file, c) ==
  /\ Own(file, c.name) # {}
  /\ c.edge = OwnCity(file, c.name).edge /\ c.minArea = OwnCity(file, c.name).minArea
  /\ c.forecast = OwnCity(file, c.name).forecast
  /\ c.source = <<>> /\ c.sourceEdge = 0

\* A file whose slugs are unique declares a name once.
LEMMA OwnCityIs ==
  ASSUME NEW file, NEW i \in DOMAIN file.cities, UniqueSlugs(file.cities)
  PROVE  Own(file, file.cities[i].name) # {} /\ OwnCity(file, file.cities[i].name) = file.cities[i]
<1> DEFINE c == file.cities[i]
<1>1. c \in Own(file, c.name)
  BY DEF Own, Range
<1>2. \A d \in Own(file, c.name) : d = c
  BY DEF Own, Range, UniqueSlugs, Slug
<1> QED BY <1>1, <1>2 DEF OwnCity

\* The first of a sequence of one.
LEMMA HeadOfOne ==
  ASSUME NEW S, NEW p
  PROVE  HeadOf(S, <<p>>) = IF p \in S THEN <<p>> ELSE <<>>
<1> DEFINE g == <<p>>
<1>1. g \in Seq({p}) /\ DOMAIN g = {1} /\ g[1] = p
  OBVIOUS
<1> HIDE DEF g
<1>2. CASE p \in S
  <2>1. At(S, g) = {1}
    BY <1>1, <1>2 DEF At
  <2>2. First({1}) \in {1}
    BY FirstIs
  <2>3. g[First({1})] = p
    BY <1>1, <2>2
  <2>4. HeadOf(S, g) = <<p>>
    BY <2>1, <2>3 DEF HeadOf
  <2> QED BY <1>2, <2>4 DEF g
<1>3. CASE p \notin S
  <2>1. At(S, g) = {}
    BY <1>1, <1>3 DEF At
  <2>2. HeadOf(S, g) = <<>>
    BY <2>1 DEF HeadOf
  <2> QED BY <1>3, <2>2 DEF g
<1> QED BY <1>2, <1>3

\* A city of the file itself stands for the file alone.
LEMMA OwnRepresents ==
  ASSUME NEW t, IsTree(t), NEW p \in DOMAIN t.files, NEW c, IsCity(c), IsOwn(t.files[p], c), NEW W
  PROVE  Represents(t, View(t, p, c), <<p>>, W)
<1> DEFINE v == View(t, p, c)
           file == t.files[p]
           own == OwnCity(file, c.name)
           fc == StatedForecast(file, c.name)
           grid == StatedGrid(file, c.name)
<1>0. /\ IsCity(v) /\ v.name = c.name
      /\ v.edge = OrElse(c.edge, file.edge) /\ v.minArea = OrElse(c.minArea, file.minArea)
      /\ v.forecast = ApplyCityForecast(file.forecast, c.forecast)
      /\ v.source = IF c.source = <<>> THEN <<SourceIdentity(file, p, BlobsOf(t.files, p))>> ELSE c.source
      /\ v.sourceEdge = IF c.sourceEdge = 0 THEN EdgeIn(t.env, file, c) ELSE c.sourceEdge
  BY ViewIs
<1>1. /\ own.edge = c.edge /\ own.minArea = c.minArea /\ own.forecast = c.forecast
      /\ c.source = <<>> /\ c.sourceEdge = 0
  BY DEF IsOwn
<1>2. /\ grid.edge = OrElse(own.edge, file.edge) /\ grid.minArea = OrElse(own.minArea, file.minArea)
      /\ fc = ApplyCityForecast(file.forecast, own.forecast)
  BY DEF StatedGrid, StatedForecast, EffectiveHexEdge, EffectiveMinHexArea, EffectiveForecast
<1>3. EdgeIn(t.env, file, c) = EdgeIn(t.env, file, own)
  BY <1>1 DEF EdgeIn, EffectiveHexEdge
<1>4. Grids(t, c.name) = {q \in DOMAIN t.files : ~GridIsUnset(StatedGrid(t.files[q], c.name))}
  BY DEF Grids
<1>5. /\ p \in Conditions(t, c.name) <=> fc.pci # 0
      /\ p \in Growths(t, c.name) <=> StatesGrowth(fc)
  BY DEF Conditions, Growths
<1>6. /\ p \in DOMAIN t.files /\ <<p>>[1] = p /\ DOMAIN <<p>> = {1} /\ <<p>> # <<>>
  OBVIOUS
<1>7. \A D : p \in D => <<p>> \in Seq(D)
  OBVIOUS
<1> HIDE DEF v
<1>8. OwnerOf(t, <<p>>, v.name) = p
  <2>1. HeadOf(Grids(t, v.name), <<p>>) = IF p \in Grids(t, v.name) THEN <<p>> ELSE <<>>
    BY HeadOfOne
  <2> QED BY <1>6, <2>1 DEF OwnerOf
<1>9. /\ v.edge = grid.edge /\ v.minArea = grid.minArea /\ v.forecast = fc
      /\ v.source = <<SourceIdentity(file, p, BlobsOf(t.files, p))>>
      /\ v.sourceEdge = EdgeIn(t.env, file, own)
  <2> HIDE DEF file, own, fc, grid
  <2> QED BY <1>0, <1>1, <1>2, <1>3
<1>10. HasGrid(t, v, <<p>>)
  BY <1>0, <1>8, <1>9 DEF HasGrid, IsGridOf
<1>11. HasCondition(t, v, <<p>>)
  <2>1. HeadOf(Conditions(t, v.name), <<p>>) = IF p \in Conditions(t, v.name) THEN <<p>> ELSE <<>>
    BY HeadOfOne
  <2> QED BY <1>0, <1>5, <1>6, <1>9, <2>1 DEF HasCondition
<1>12. HasGrowth(t, v, <<p>>)
  <2>1. HeadOf(Growths(t, v.name), <<p>>) = IF p \in Growths(t, v.name) THEN <<p>> ELSE <<>>
    BY HeadOfOne
  <2>2. ~StatesGrowth(fc) => fc.growth = 0
    BY DEF StatesGrowth
  <2>3. CASE StatesGrowth(fc)
    <3>1. HeadOf(Growths(t, v.name), <<p>>) = <<p>>
      BY <1>0, <1>5, <2>1, <2>3
    <3> QED BY <1>0, <1>6, <1>9, <2>3, <3>1 DEF HasGrowth
  <2>4. CASE ~StatesGrowth(fc)
    <3>1. HeadOf(Growths(t, v.name), <<p>>) = <<>>
      BY <1>0, <1>5, <2>1, <2>4
    <3>2. v.forecast.growth = 0 /\ ~StatesGrowth(v.forecast)
      BY <1>9, <2>2, <2>4
    <3> QED BY <3>1, <3>2 DEF HasGrowth
  <2> QED BY <2>3, <2>4
<1>13. TellsOf(t, v, W, p)
  BY <1>0, <1>9 DEF TellsOf
<1> QED BY <1>0, <1>6, <1>7, <1>10, <1>11, <1>12, <1>13 DEF Represents, v

\* A city that the file has from the files it includes is seen as it stands:
\* the file states no calibration at its top level.
LEMMA IncludedRepresents ==
  ASSUME NEW t, IsTree(t), NEW p \in DOMAIN t.files, NEW c, NEW g, NEW W, Represents(t, c, g, W),
         ForecastIsZero(t.files[p].forecast), t.files[p].edge = 0, t.files[p].minArea = 0
  PROVE  Represents(t, View(t, p, c), g, W)
<1> DEFINE v == View(t, p, c)
           file == t.files[p]
           o == OwnerOf(t, g, c.name)
<1>0. IsCity(c)
  BY DEF Represents
<1>1. IsCity(c) /\ g \in Seq(DOMAIN t.files) /\ g # <<>> /\ HasGrid(t, c, g) /\ HasCondition(t, c, g) /\ HasGrowth(t, c, g)
  BY DEF Represents
<1>2. /\ IsCity(v) /\ v.name = c.name
      /\ v.edge = OrElse(c.edge, file.edge) /\ v.minArea = OrElse(c.minArea, file.minArea)
      /\ v.forecast = ApplyCityForecast(file.forecast, c.forecast)
      /\ v.source = IF c.source = <<>> THEN <<SourceIdentity(file, p, BlobsOf(t.files, p))>> ELSE c.source
      /\ v.sourceEdge = IF c.sourceEdge = 0 THEN EdgeIn(t.env, file, c) ELSE c.sourceEdge
  BY <1>0, ViewIs
<1>3. c.source # <<>> /\ c.sourceEdge = EdgeIn(t.env, t.files[o], OwnCity(t.files[o], c.name))
  BY <1>1 DEF HasGrid, IsGridOf
<1>4. c.sourceEdge # 0
  <2>1. c.sourceEdge \in Nat /\ t.env \in Nat /\ DefaultEdge > 0 /\ MinHexEdge > 0
    BY <1>1, ConfigAssumption DEF IsCity, IsTree
  <2>2. \A e : OrElse(e, DefaultEdge) # 0
    BY <2>1 DEF OrElse
  <2>3. \A e, a : a # 0 => OrElse(e, a) # 0
    BY DEF OrElse
  <2> QED BY <1>3, <2>2, <2>3 DEF EdgeIn
<1>5. c.edge \in Nat /\ c.minArea \in Nat /\ c.forecast \in ForecastConfig
  BY <1>1 DEF IsCity
<1>6. v.edge = c.edge /\ v.minArea = c.minArea /\ v.source = c.source /\ v.sourceEdge = c.sourceEdge
  BY <1>2, <1>3, <1>4, <1>5 DEF OrElse
<1>7. /\ v.forecast.pci = c.forecast.pci /\ v.forecast.growth = c.forecast.growth
      /\ StatesGrowth(v.forecast) <=> StatesGrowth(c.forecast)
  <2>1. v.forecast = ApplyCityForecast(NoForecast, c.forecast)
    BY <1>2 DEF ForecastIsZero
  <2>2. /\ NoForecast.pci = 0 /\ NoForecast.growth = 0 /\ NoForecast.growthSet = FALSE
    BY DEF NoForecast
  <2>3. /\ v.forecast.pci = OrElse(c.forecast.pci, 0)
        /\ v.forecast.growth = IF StatesGrowth(c.forecast) THEN c.forecast.growth ELSE 0
        /\ v.forecast.growthSet = (StatesGrowth(c.forecast) \/ FALSE)
    BY <2>1, <2>2 DEF ApplyCityForecast
  <2>4. c.forecast.pci \in Nat /\ c.forecast.growth \in Int /\ c.forecast.growthSet \in BOOLEAN
    BY <1>5 DEF ForecastConfig
  <2>5. v.forecast.pci = c.forecast.pci
    BY <2>3, <2>4 DEF OrElse
  <2>6. v.forecast.growth = c.forecast.growth
    BY <2>3 DEF StatesGrowth
  <2>7. StatesGrowth(v.forecast) <=> StatesGrowth(c.forecast)
    BY <2>3, <2>6 DEF StatesGrowth
  <2> QED BY <2>5, <2>6, <2>7
<1> HIDE DEF v
<1>8. HasGrid(t, v, g)
  BY <1>1, <1>2, <1>6 DEF HasGrid, IsGridOf
<1>9. HasCondition(t, v, g) /\ HasGrowth(t, v, g)
  BY <1>1, <1>2, <1>7 DEF HasCondition, HasGrowth
<1>10. ASSUME NEW i \in DOMAIN g PROVE TellsOf(t, v, W, g[i])
  <2>1. TellsOf(t, c, W, g[i])
    BY DEF Represents
  <2>2. \A f : Told(W, c, f) <=> Told(W, v, f)
    BY <1>2 DEF Told, Slug
  <2> QED BY <1>2, <1>6, <1>7, <2>1, <2>2 DEF TellsOf
<1> QED BY <1>1, <1>2, <1>8, <1>9, <1>10 DEF Represents, v

-----------------------------------------------------------------------------
(* The cities of a file that is being put together.  H is what is said so  *)
(* far of each name: the files that gave it.                               *)

Names == STRING \X STRING
IsSeq(s) == s \in Seq(Range(s))
CityFine(t, p, H, c, via, W) ==
  /\ IsCity(c) /\ c.name \in Names /\ H[c.name] # <<>>
  /\ IF Slug(c) \in DOMAIN via THEN Own(t.files[p], c.name) = {} /\ Represents(t, c, H[c.name], W)
     ELSE IsOwn(t.files[p], c)
HeldFine(t, p, H, cities) ==
  \A name \in Names : /\ H[name] # <<>> => \E i \in DOMAIN cities : cities[i].name = name
                      /\ Own(t.files[p], name) # {} => H[name] = <<p>>
CitiesFine(t, p, H, cities, via, W) ==
  /\ IsSeq(cities) /\ UniqueSlugs(cities)
  /\ DOMAIN H = Names /\ HeldFine(t, p, H, cities)
  /\ \A i \in DOMAIN cities : CityFine(t, p, H, cities[i], via, W)

\* What is said of other names, and warnings more, change nothing of a city.
LEMMA StillFine ==
  ASSUME NEW t, NEW p, NEW H, NEW H2, NEW c, NEW via, NEW via2, NEW W, NEW W2, W \subseteq W2, CityFine(t, p, H, c, via, W),
         H2[c.name] = H[c.name], Slug(c) \in DOMAIN via2 <=> Slug(c) \in DOMAIN via
  PROVE  CityFine(t, p, H2, c, via2, W2)
<1>1. Represents(t, c, H[c.name], W) => Represents(t, c, H[c.name], W2)
  <2> SUFFICES ASSUME Represents(t, c, H[c.name], W) PROVE Represents(t, c, H[c.name], W2)
    OBVIOUS
  <2>1. DOMAIN c = CityFields /\ TakesGrid(c, c)
    BY DEF Represents, IsCity, TakesGrid
  <2> QED BY <2>1, StillRepresents
<1> QED BY <1>1 DEF CityFine

\* A function of the first numbers is a sequence.
LEMMA SeqIs ==
  ASSUME NEW Q, NEW n \in Nat, NEW u \in [1..n -> Q]
  PROVE  u \in Seq(Q)
<1>1. Len(u) = n
  OBVIOUS
<1> QED BY <1>1

\* A sequence with one more element, and with another in a place.
LEMMA AppendIs ==
  ASSUME NEW s, IsSeq(s), NEW c
  PROVE  /\ IsSeq(Append(s, c)) /\ DOMAIN s \subseteq DOMAIN Append(s, c)
         /\ DOMAIN Append(s, c) = DOMAIN s \cup {Len(s) + 1} /\ Len(s) + 1 \notin DOMAIN s
         /\ Append(s, c)[Len(s) + 1] = c /\ \A i \in DOMAIN s : Append(s, c)[i] = s[i]
<1> DEFINE R == Range(s)
           T == R \cup {c}
           u == Append(s, c)
<1>1. s \in Seq(R) /\ s \in Seq(T) /\ c \in T
  <2>1. s \in Seq(R)
    BY DEF IsSeq
  <2> HIDE DEF R
  <2> QED BY <2>1
<1> HIDE DEF R, T
<1>2. /\ u \in Seq(T) /\ DOMAIN s \subseteq DOMAIN u
      /\ DOMAIN u = DOMAIN s \cup {Len(s) + 1} /\ Len(s) + 1 \notin DOMAIN s
      /\ u[Len(s) + 1] = c /\ \A i \in DOMAIN s : u[i] = s[i]
  BY <1>1
<1>3. IsSeq(u)
  <2> DEFINE n == Len(u)
  <2>0. u \in Seq(T)
    BY <1>2
  <2> HIDE DEF u
  <2>1. n \in Nat /\ u \in [1..n -> T]
    BY <2>0
  <2> HIDE DEF n
  <2> DEFINE Q == Range(u)
  <2>2. \A i \in 1..n : u[i] \in Q
    BY <2>1 DEF Range
  <2> HIDE DEF Q
  <2>3. u \in [1..n -> Q]
    BY <2>1, <2>2
  <2>4. u \in Seq(Q)
    BY <2>1, <2>3, SeqIs
  <2> QED BY <2>4 DEF IsSeq, Q
<1> QED BY <1>2, <1>3 DEF u

\* A sequence with one element replaced.
LEMMA ReplaceIs ==
  ASSUME NEW s, IsSeq(s), NEW c, NEW i \in DOMAIN s, NEW u, u = [s EXCEPT ![i] = c]
  PROVE  IsSeq(u) /\ DOMAIN u = DOMAIN s /\ u[i] = c /\ \A j \in DOMAIN s : j # i => u[j] = s[j]
<1> DEFINE R == Range(s)
           Q == Range(u)
           n == Len(s)
<1>1. n \in Nat /\ DOMAIN s = 1..n
  <2>1. s \in Seq(R)
    BY DEF IsSeq
  <2> HIDE DEF R
  <2> QED BY <2>1
<1> HIDE DEF n
<1>2. DOMAIN u = 1..n /\ u = [j \in 1..n |-> u[j]] /\ u[i] = c /\ \A j \in DOMAIN s : j # i => u[j] = s[j]
  BY <1>1
<1>3. \A j \in 1..n : u[j] \in Q
  BY <1>2 DEF Range
<1> HIDE DEF Q
<1>4. u \in Seq(Q)
  <2>1. u \in [1..n -> Q]
    BY <1>2, <1>3
  <2> QED BY <1>1, <2>1, SeqIs
<1> QED BY <1>1, <1>2, <1>4 DEF IsSeq, Q

\* A city of a slug that was not there yet.
LEMMA NewCityFine ==
  ASSUME NEW t, NEW p, NEW H, NEW H2, NEW cities, NEW via, NEW via2, NEW W, NEW W2, NEW c, NEW g, W \subseteq W2,
         CitiesFine(t, p, H, cities, via, W), Slug(c) \notin Slugs(cities), DOMAIN via2 = DOMAIN via \cup {Slug(c)},
         Represents(t, c, g, W2), c.name \in Names, DOMAIN H2 = Names,
         H2[c.name] = IF Own(t.files[p], c.name) # {} THEN H[c.name] ELSE H[c.name] \o g,
         \A name \in Names \ {c.name} : H2[name] = H[name]
  PROVE  CitiesFine(t, p, H2, Append(cities, c), via2, W2)
<1> DEFINE u == Append(cities, c)
           n == Len(cities) + 1
<1>0. IsSeq(cities)
  BY DEF CitiesFine
<1>1. /\ IsSeq(u) /\ DOMAIN u = DOMAIN cities \cup {n} /\ n \notin DOMAIN cities
      /\ u[n] = c /\ \A i \in DOMAIN cities : u[i] = cities[i]
  BY <1>0, AppendIs
<1> HIDE DEF u, n
<1>2. \A i \in DOMAIN cities : Slug(cities[i]) # Slug(c) /\ cities[i].name # c.name
  BY DEF Slugs, Slug
<1>3. H[c.name] = <<>> /\ Own(t.files[p], c.name) = {} /\ H2[c.name] = g
  <2>1. H[c.name] = <<>>
    BY <1>2 DEF CitiesFine, HeldFine
  <2>2. Own(t.files[p], c.name) = {}
    BY <2>1 DEF CitiesFine, HeldFine
  <2>3. g \in Seq(DOMAIN t.files)
    BY DEF Represents
  <2>4. <<>> \o g = g
    BY <2>3
  <2> QED BY <2>1, <2>2, <2>4
<1>4. UniqueSlugs(u)
  BY <1>1, <1>2 DEF CitiesFine, UniqueSlugs
<1>5. CityFine(t, p, H2, c, via2, W2)
  BY <1>3 DEF CityFine, Represents
<1>6. ASSUME NEW i \in DOMAIN cities PROVE CityFine(t, p, H2, cities[i], via2, W2)
  <2>1. CityFine(t, p, H, cities[i], via, W)
    BY DEF CitiesFine
  <2>2. cities[i].name \in Names \ {c.name} /\ (Slug(cities[i]) \in DOMAIN via2 <=> Slug(cities[i]) \in DOMAIN via)
    BY <1>2, <2>1 DEF CityFine
  <2> QED BY <2>1, <2>2, StillFine
<1>7. HeldFine(t, p, H2, u)
  <2> SUFFICES ASSUME NEW name \in Names
               PROVE  /\ H2[name] # <<>> => \E i \in DOMAIN u : u[i].name = name
                      /\ Own(t.files[p], name) # {} => H2[name] = <<p>>
    BY DEF HeldFine
  <2>1. CASE name = c.name
    BY <1>1, <1>3, <2>1
  <2>2. CASE name # c.name
    <3>1. H2[name] = H[name]
      BY <2>2
    <3>2. /\ H[name] # <<>> => \E i \in DOMAIN cities : cities[i].name = name
          /\ Own(t.files[p], name) # {} => H[name] = <<p>>
      BY DEF CitiesFine, HeldFine
    <3> QED BY <1>1, <3>1, <3>2
  <2> QED BY <2>1, <2>2
<1> QED BY <1>1, <1>4, <1>5, <1>6, <1>7 DEF CitiesFine, u

\* Another city of the same name in a place.
LEMMA SameCityFine ==
  ASSUME NEW t, NEW p, NEW H, NEW H2, NEW cities, NEW via, NEW W, NEW W2, NEW i \in DOMAIN cities, NEW c, W \subseteq W2,
         CitiesFine(t, p, H, cities, via, W), c.name = cities[i].name, CityFine(t, p, H2, c, via, W2), DOMAIN H2 = Names,
         Own(t.files[p], c.name) # {} => H2[c.name] = H[c.name],
         \A name \in Names \ {c.name} : H2[name] = H[name]
  PROVE  CitiesFine(t, p, H2, [cities EXCEPT ![i] = c], via, W2)
<1> DEFINE u == [cities EXCEPT ![i] = c]
<1>0. IsSeq(cities)
  BY DEF CitiesFine
<1>1. IsSeq(u) /\ DOMAIN u = DOMAIN cities /\ u[i] = c /\ \A j \in DOMAIN cities : j # i => u[j] = cities[j]
  BY <1>0, ReplaceIs
<1> HIDE DEF u
<1>2. \A j \in DOMAIN cities : u[j].name = cities[j].name
  BY <1>1
<1>3. UniqueSlugs(u)
  BY <1>1, <1>2 DEF CitiesFine, UniqueSlugs, Slug
<1>4. ASSUME NEW j \in DOMAIN cities, j # i PROVE CityFine(t, p, H2, cities[j], via, W2)
  <2>1. CityFine(t, p, H, cities[j], via, W)
    BY DEF CitiesFine
  <2>2. cities[j].name # c.name
    BY <1>4 DEF CitiesFine, UniqueSlugs, Slug
  <2>3. cities[j].name \in Names \ {c.name}
    BY <2>1, <2>2 DEF CityFine
  <2> QED BY <2>1, <2>3, StillFine
<1>5. \A j \in DOMAIN u : CityFine(t, p, H2, u[j], via, W2)
  BY <1>1, <1>4
<1>6. HeldFine(t, p, H2, u)
  <2> SUFFICES ASSUME NEW name \in Names
               PROVE  /\ H2[name] # <<>> => \E j \in DOMAIN u : u[j].name = name
                      /\ Own(t.files[p], name) # {} => H2[name] = <<p>>
    BY DEF HeldFine
  <2>1. /\ H[name] # <<>> => \E j \in DOMAIN cities : cities[j].name = name
        /\ Own(t.files[p], name) # {} => H[name] = <<p>>
    BY DEF CitiesFine, HeldFine
  <2>2. CASE name = c.name
    BY <1>1, <2>1, <2>2
  <2>3. CASE name # c.name
    BY <1>1, <1>2, <2>1, <2>3
  <2> QED BY <2>2, <2>3
<1> QED BY <1>1, <1>3, <1>5, <1>6 DEF CitiesFine, u

\* A city is what it was but for its tags.
LEMMA TaggedIs ==
  ASSUME NEW c, DOMAIN c = CityFields, NEW tags
  PROVE  /\ DOMAIN WithTags(c, tags) = CityFields /\ WithTags(c, tags).name = c.name
         /\ TakesGrid(WithTags(c, tags), c) /\ WithTags(c, tags).forecast = c.forecast
BY DEF WithTags, CityFields, TakesGrid

\* An edge that the city brought from further down is the one its grid says.
LEMMA EdgeIsOfTheGrid ==
  ASSUME NEW t, IsTree(t), NEW q \in DOMAIN t.files, NEW c, IsCity(c), NEW g, NEW W, Represents(t, View(t, q, c), g, W)
  PROVE  View(t, q, c).sourceEdge = EdgeIn(t.env, t.files[q], c)
<1> DEFINE v == View(t, q, c)
           o == OwnerOf(t, g, v.name)
<1>1. v.sourceEdge = EdgeIn(t.env, t.files[o], OwnCity(t.files[o], v.name)) /\ v.edge = StatedGrid(t.files[o], v.name).edge
  BY DEF Represents, HasGrid, IsGridOf
<1>2. v.edge = EffectiveHexEdge(t.files[o], OwnCity(t.files[o], v.name))
  BY <1>1 DEF StatedGrid
<1>3. v.edge = EffectiveHexEdge(t.files[q], c)
  <2>1. v.edge = OrElse(c.edge, t.files[q].edge)
    BY ViewIs
  <2> HIDE DEF v
  <2> QED BY <2>1 DEF EffectiveHexEdge
<1> QED BY <1>1, <1>2, <1>3 DEF EdgeIn

\* The two cities, as the load folds them, are their union.
LEMMA MergedIsUnion ==
  ASSUME IsTree(tree), NEW q \in DOMAIN tree.files, NEW kept, IsCity(kept), NEW c, IsCity(c), NEW g, NEW W,
         Represents(tree, View(tree, q, c), g, W), NEW blobs, blobs = BlobsOf(tree.files, q), NEW identity,
         identity = SourceIdentity(tree.files[q], q, blobs), NEW tags
  PROVE  /\ IsUnion(WithTags(MergeExistingCity(kept, tree.files[q], c, identity), tags), kept, View(tree, q, c))
         /\ DiscardedFields(kept, tree.files[q], c, identity) = Discards(kept, View(tree, q, c))
<1> DEFINE file == tree.files[q]
           v == View(tree, q, c)
           grid == UnionGrid(kept, file, c, identity)
           merged == MergeExistingCity(kept, file, c, identity)
           d == WithTags(merged, tags)
<1>1. Flattened(file, c, identity) = v
  BY FlattenedIs
<1>2. /\ IsCity(v) /\ v.name = c.name /\ v.edge = EffectiveHexEdge(file, c) /\ v.minArea = EffectiveMinHexArea(file, c)
      /\ v.forecast = EffectiveForecast(file, c)
      /\ v.source = IF c.source # <<>> THEN c.source ELSE <<identity>>
  BY ViewIs DEF EffectiveHexEdge, EffectiveMinHexArea, EffectiveForecast
<1>3. v.sourceEdge = ResolvedHexEdge(file, c)
  BY EdgeIsOfTheGrid DEF EdgeIn, ResolvedHexEdge, EdgeFromEnv
<1>4. DiscardedFields(kept, file, c, identity) = Discards(kept, v)
  BY <1>1 DEF DiscardedFields, Discards
<1> HIDE DEF v
<1>5. DOMAIN kept = CityFields
  BY DEF IsCity
<1>6. /\ DOMAIN grid = CityFields /\ grid.name = kept.name /\ grid.forecast = kept.forecast
      /\ IF AdoptsGrid(kept, v) THEN TakesGrid(grid, v) ELSE TakesGrid(grid, kept)
  <2>1. CASE AdoptsGrid(kept, v)
    <3>1. grid = [kept EXCEPT !.edge = v.edge, !.minArea = v.minArea, !.sourceEdge = v.sourceEdge, !.source = v.source]
      BY <1>1, <1>2, <1>3, <2>1 DEF UnionGrid
    <3> HIDE DEF grid
    <3> QED BY <1>5, <2>1, <3>1 DEF TakesGrid, CityFields
  <2>2. CASE ~AdoptsGrid(kept, v)
    <3>1. grid = kept
      BY <1>1, <2>2 DEF UnionGrid
    <3> HIDE DEF grid
    <3> QED BY <1>5, <2>2, <3>1 DEF TakesGrid
  <2> QED BY <2>1, <2>2
<1> HIDE DEF grid
<1>7. merged = [grid EXCEPT !.forecast = UnionForecast(@, EffectiveForecast(file, c))]
  BY DEF MergeExistingCity, grid
<1> HIDE DEF merged
<1>8. /\ DOMAIN merged = CityFields /\ merged.name = kept.name /\ merged.forecast = UnionForecast(kept.forecast, v.forecast)
      /\ TakesGrid(merged, grid)
  BY <1>2, <1>6, <1>7 DEF CityFields, TakesGrid
<1>9. /\ DOMAIN d = CityFields /\ d.name = kept.name /\ d.forecast = UnionForecast(kept.forecast, v.forecast)
      /\ TakesGrid(d, merged)
  BY <1>8, TaggedIs
<1> HIDE DEF d
<1>10. IF AdoptsGrid(kept, v) THEN TakesGrid(d, v) ELSE TakesGrid(d, kept)
  BY <1>6, <1>8, <1>9 DEF TakesGrid
<1>11. IsCity(d)
  <2>1. d.forecast \in ForecastConfig
    BY <1>2, <1>9, UnionForecastIs DEF IsCity
  <2> QED BY <1>2, <1>9, <1>10, <2>1 DEF IsCity, TakesGrid
<1> QED BY <1>4, <1>9, <1>10, <1>11 DEF IsUnion, d, merged, v

\* One city of the included file is merged: what that file gives of the name
\* comes after what the earlier ones gave.
IntoFields == {"cities", "via", "warned", "clash"}
MergesOne(p, q, H, H2, g, into, src, inc, next) ==
  /\ DOMAIN into = IntoFields /\ IsCity(src) /\ src.name \in Names
  /\ CitiesFine(tree, p, H, into.cities, into.via, into.warned)
  /\ Represents(tree, View(tree, q, src), g, into.warned)
  /\ H2 = [H EXCEPT ![src.name] = IF Own(tree.files[p], src.name) # {} THEN @ ELSE @ \o g]
  /\ next = MergeCity(into, tree.files[q], src, inc, SourceIdentity(tree.files[q], q, BlobsOf(tree.files, q)))

\* Unless two names clash, the cities are as fine as they were, with what the
\* included city says heard, and no warning is taken back.
LEMMA MergeCityKeeps ==
  ASSUME IsTree(tree), NEW p \in DOMAIN tree.files, NEW q \in DOMAIN tree.files, NEW H, NEW H2, NEW g, NEW into,
         NEW src, NEW inc, NEW next, MergesOne(p, q, H, H2, g, into, src, inc, next), ~next.clash
  PROVE  /\ DOMAIN next = IntoFields /\ into.warned \subseteq next.warned
         /\ CitiesFine(tree, p, H2, next.cities, next.via, next.warned)
<1>0. /\ DOMAIN into = IntoFields /\ IsCity(src) /\ src.name \in Names
      /\ CitiesFine(tree, p, H, into.cities, into.via, into.warned)
      /\ Represents(tree, View(tree, q, src), g, into.warned)
      /\ H2 = [H EXCEPT ![src.name] = IF Own(tree.files[p], src.name) # {} THEN @ ELSE @ \o g]
      /\ next = MergeCity(into, tree.files[q], src, inc, SourceIdentity(tree.files[q], q, BlobsOf(tree.files, q)))
  BY DEF MergesOne
<1> DEFINE blobs == BlobsOf(tree.files, q)
<1> DEFINE file == tree.files[q]
           identity == SourceIdentity(file, q, blobs)
           v == View(tree, q, src)
           cities == into.cities
           i == CHOOSE k \in DOMAIN cities : Slug(cities[k]) = Slug(src)
           existing == cities[i]
           fresh == WithTags(Flattened(file, src, identity), inc.tags)
           tagged == WithTags(existing, inc.tags \cup src.tags)
           merged == WithTags(MergeExistingCity(existing, file, src, identity), inc.tags \cup src.tags)
           warnings == {[slug |-> Slug(src), winner |-> into.via[Slug(src)], loser |-> inc.path, field |-> f] :
                          f \in DiscardedFields(existing, file, src, identity)}
           via2 == [s \in DOMAIN into.via \cup {Slug(src)} |-> IF s = Slug(src) THEN inc.path ELSE into.via[s]]
<1>1. next = CASE Slug(src) \notin Slugs(cities) -> [into EXCEPT !.cities = Append(cities, fresh), !.via = via2]
               [] Slug(src) \in Slugs(cities) /\ existing.name # src.name -> [into EXCEPT !.clash = TRUE]
               [] Slug(src) \in Slugs(cities) /\ existing.name = src.name /\ Slug(src) \notin DOMAIN into.via ->
                    [into EXCEPT !.cities[i] = tagged]
               [] OTHER -> [into EXCEPT !.cities[i] = merged, !.warned = @ \cup warnings]
  BY <1>0, Zenon DEF MergeCity
<1>2. DOMAIN H = Names
  BY <1>0 DEF CitiesFine
<1>3. /\ DOMAIN H2 = Names
      /\ H2[src.name] = IF Own(tree.files[p], src.name) # {} THEN H[src.name] ELSE H[src.name] \o g
      /\ \A name \in Names \ {src.name} : H2[name] = H[name]
  BY <1>0, <1>2
<1>4. v.name = src.name /\ IsCity(v)
  BY <1>0, ViewIs
<1>5. Slug(src) \in Slugs(cities) => i \in DOMAIN cities /\ Slug(existing) = Slug(src)
  BY DEF Slugs
<1>6. CASE Slug(src) \notin Slugs(cities)
  <2>1. next = [into EXCEPT !.cities = Append(cities, fresh), !.via = via2]
    BY <1>1, <1>6
  <2>2. Flattened(file, src, identity) = v
    BY FlattenedIs
  <2>3. DOMAIN fresh = CityFields /\ fresh.name = v.name /\ TakesGrid(fresh, v) /\ fresh.forecast = v.forecast
    BY <1>4, <2>2, TaggedIs DEF IsCity
  <2>4. DOMAIN via2 = DOMAIN into.via \cup {Slug(src)}
    OBVIOUS
  <2> HIDE DEF fresh, via2, v
  <2>5. Represents(tree, fresh, g, into.warned)
    BY <1>0, <2>3, StillRepresents DEF v
  <2>6. Slug(fresh) = Slug(src) /\ fresh.name = src.name
    BY <1>4, <2>3 DEF Slug
  <2>7. CitiesFine(tree, p, H2, Append(cities, fresh), via2, into.warned)
    <3>1. /\ Slug(fresh) \notin Slugs(cities) /\ DOMAIN via2 = DOMAIN into.via \cup {Slug(fresh)}
          /\ fresh.name \in Names /\ into.warned \subseteq into.warned
      BY <1>0, <1>6, <2>4, <2>6
    <3>2. /\ H2[fresh.name] = IF Own(tree.files[p], fresh.name) # {} THEN H[fresh.name] ELSE H[fresh.name] \o g
          /\ \A name \in Names \ {fresh.name} : H2[name] = H[name]
      BY <1>3, <2>6
    <3>3. DOMAIN H2 = Names /\ CitiesFine(tree, p, H, cities, into.via, into.warned)
      BY <1>0, <1>3
    <3> DEFINE U == cities
               via == into.via
               W == into.warned
    <3> HIDE DEF U, via, W
    <3>4. /\ W \subseteq W /\ CitiesFine(tree, p, H, U, via, W) /\ Slug(fresh) \notin Slugs(U)
          /\ DOMAIN via2 = DOMAIN via \cup {Slug(fresh)} /\ Represents(tree, fresh, g, W)
      BY <2>5, <3>1, <3>3 DEF U, via, W
    <3>5. CitiesFine(tree, p, H2, Append(U, fresh), via2, W)
      BY <3>1, <3>2, <3>3, <3>4, NewCityFine
    <3> QED BY <3>5 DEF U, W
  <2>8. /\ DOMAIN next = IntoFields /\ next.cities = Append(cities, fresh) /\ next.via = via2 /\ next.warned = into.warned
    BY <1>0, <2>1 DEF IntoFields
  <2> QED BY <2>7, <2>8
<1>7. CASE Slug(src) \in Slugs(cities) /\ existing.name # src.name
  <2>1. next = [into EXCEPT !.clash = TRUE]
    BY <1>1, <1>7, Zenon
  <2>2. next.clash
    BY <1>0, <2>1 DEF IntoFields
  <2> QED BY <2>2
<1>8. CASE Slug(src) \in Slugs(cities) /\ existing.name = src.name /\ Slug(src) \notin DOMAIN into.via
  <2>1. next = [into EXCEPT !.cities[i] = tagged]
    BY <1>1, <1>8, Zenon
  <2>2. CityFine(tree, p, H, existing, into.via, into.warned) /\ i \in DOMAIN cities
    BY <1>0, <1>5, <1>8 DEF CitiesFine
  <2>3. /\ DOMAIN tagged = CityFields /\ tagged.name = existing.name /\ TakesGrid(tagged, existing)
        /\ tagged.forecast = existing.forecast
    BY <2>2, TaggedIs DEF CityFine, IsCity
  <2> HIDE DEF tagged, existing, i
  <2>4. IsOwn(tree.files[p], existing)
    BY <1>8, <2>2 DEF CityFine, Slug
  <2>5. H2[src.name] = H[src.name] /\ existing.name = src.name /\ Own(tree.files[p], src.name) # {}
    BY <1>3, <1>8, <2>4 DEF IsOwn
  <2>6. CityFine(tree, p, H2, tagged, into.via, into.warned)
    <3>1. IsCity(tagged) /\ tagged.name \in Names /\ H2[tagged.name] # <<>>
      BY <2>2, <2>3, <2>5 DEF CityFine, IsCity, TakesGrid
    <3>2. IsOwn(tree.files[p], tagged)
      BY <2>3, <2>4 DEF IsOwn, TakesGrid
    <3>3. Slug(tagged) \notin DOMAIN into.via
      BY <1>8, <2>3 DEF Slug
    <3> QED BY <3>1, <3>2, <3>3 DEF CityFine
  <2>7. CitiesFine(tree, p, H2, [cities EXCEPT ![i] = tagged], into.via, into.warned)
    BY <1>0, <1>3, <2>2, <2>3, <2>5, <2>6, SameCityFine DEF existing
  <2>8. /\ DOMAIN next = IntoFields /\ next.cities = [cities EXCEPT ![i] = tagged] /\ next.via = into.via
        /\ next.warned = into.warned
    BY <1>0, <2>1 DEF IntoFields
  <2> QED BY <2>7, <2>8
<1>9. CASE Slug(src) \in Slugs(cities) /\ existing.name = src.name /\ Slug(src) \in DOMAIN into.via
  <2>1. next = [into EXCEPT !.cities[i] = merged, !.warned = @ \cup warnings]
    BY <1>1, <1>9, Zenon
  <2>2. CityFine(tree, p, H, existing, into.via, into.warned) /\ i \in DOMAIN cities
    BY <1>0, <1>5, <1>9 DEF CitiesFine
  <2>3. Slug(existing) = Slug(src)
    BY <1>5, <1>9
  <2>4. Represents(tree, existing, H[existing.name], into.warned) /\ Own(tree.files[p], existing.name) = {} /\ IsCity(existing)
    BY <1>9, <2>2, <2>3 DEF CityFine
  <2>5. /\ IsUnion(merged, existing, v)
        /\ DiscardedFields(existing, file, src, identity) = Discards(existing, v)
    <3> HIDE DEF existing, v, file
    <3> QED BY <1>0, <2>4, MergedIsUnion DEF v, file
  <2> DEFINE W2 == into.warned \cup warnings
  <2>6. ASSUME NEW f \in Discards(existing, v) PROVE Told(W2, merged, f)
    <3> DEFINE w == [slug |-> Slug(src), winner |-> into.via[Slug(src)], loser |-> inc.path, field |-> f]
    <3>1. w \in W2
      BY <2>5
    <3>2. w.slug = Slug(src) /\ w.field = f
      OBVIOUS
    <3>3. Slug(merged) = Slug(src)
      BY <2>3, <2>5 DEF IsUnion, Slug
    <3> HIDE DEF w, merged, W2
    <3> QED BY <3>1, <3>2, <3>3 DEF Told
  <2> HIDE DEF merged, warnings, existing, i, v
  <2>7. Represents(tree, merged, H[existing.name] \o g, W2)
    BY <1>0, <1>4, <1>9, <2>4, <2>5, <2>6, UnionRepresents DEF v
  <2>8. merged.name = existing.name /\ existing.name = src.name /\ IsCity(merged)
    BY <1>9, <2>5 DEF IsUnion
  <2>9. H2[merged.name] = H[existing.name] \o g /\ Own(tree.files[p], merged.name) = {}
    BY <1>3, <2>4, <2>8
  <2>10. CityFine(tree, p, H2, merged, into.via, W2)
    <3>1. merged.name \in Names /\ Slug(merged) \in DOMAIN into.via
      BY <1>0, <1>9, <2>8 DEF Slug
    <3>2. H2[merged.name] # <<>> /\ Represents(tree, merged, H2[merged.name], W2)
      BY <2>7, <2>9 DEF Represents
    <3> QED BY <2>8, <2>9, <3>1, <3>2 DEF CityFine
  <2>11. CitiesFine(tree, p, H2, [cities EXCEPT ![i] = merged], into.via, W2)
    BY <1>0, <1>3, <2>2, <2>8, <2>9, <2>10, SameCityFine DEF existing
  <2>12. /\ DOMAIN next = IntoFields /\ next.cities = [cities EXCEPT ![i] = merged] /\ next.via = into.via
         /\ next.warned = W2
    BY <1>0, <2>1 DEF IntoFields
  <2> QED BY <2>11, <2>12
<1> QED BY <1>6, <1>7, <1>8, <1>9

\* The recursion of MergeIncludedCities has a solution.
MergeOf(inc, child, start, k, before) ==
  IF k = 0 THEN start
  ELSE IF before.clash THEN before
  ELSE MergeCity(before, tree.files[inc.path], child.cities[k], inc, SourceIdentity(tree.files[inc.path], inc.path, child.blobs))
Merging(inc, child, start, n, w) == w = [k \in 0..n |-> MergeOf(inc, child, start, k, w[k - 1])]

\* The recursion over the included cities has a solution.
LEMMA MergesThereAre ==
  ASSUME NEW inc, NEW child, NEW start, NEW n \in Nat
  PROVE  \E w : Merging(inc, child, start, n, w)
<1> DEFINE Of(k, before) == MergeOf(inc, child, start, k, before)
           P == {k \in Nat : \E w : Merging(inc, child, start, k, w)}
<1>0. \A k, w : Merging(inc, child, start, k, w) <=> w = [j \in 0..k |-> Of(j, w[j - 1])]
  BY DEF Merging
<1>1. \A x, y : Of(0, x) = Of(0, y)
  BY DEF MergeOf
<1> HIDE DEF Of
<1>2. 0 \in P
  <2> DEFINE w == [j \in 0..0 |-> Of(0, 0)]
  <2>1. w = [j \in 0..0 |-> Of(j, w[j - 1])]
    <3>1. w = [j \in 0..0 |-> w[j]]
      OBVIOUS
    <3>2. \A j \in 0..0 : w[j] = Of(j, w[j - 1])
      BY <1>1
    <3> HIDE DEF w
    <3> QED BY <3>1, <3>2
  <2> HIDE DEF w
  <2>2. Merging(inc, child, start, 0, w)
    BY <1>0, <2>1
  <2> QED BY <2>2
<1>3. ASSUME NEW k \in Nat, k \in P PROVE k + 1 \in P
  <2>1. PICK w : Merging(inc, child, start, k, w)
    BY <1>3
  <2> DEFINE last == Of(k + 1, w[k])
             f == [j \in 0..(k + 1) |-> IF j <= k THEN w[j] ELSE last]
  <2>2. w = [j \in 0..k |-> Of(j, w[j - 1])]
    BY <1>0, <2>1
  <2>3. \A j \in 0..k : w[j] = Of(j, w[j - 1])
    BY <2>2, Zenon
  <2> HIDE DEF last
  <2>4. ASSUME NEW j \in 0..(k + 1) PROVE f[j] = Of(j, f[j - 1])
    <3>1. CASE j <= k /\ j # 0
      <4>1. f[j] = w[j] /\ f[j - 1] = w[j - 1]
        BY <3>1
      <4>2. w[j] = Of(j, w[j - 1])
        BY <2>3, <3>1
      <4> HIDE DEF f
      <4> QED BY <4>1, <4>2
    <3>2. CASE j = k + 1
      <4>1. f[j] = last /\ f[j - 1] = w[k]
        BY <3>2
      <4>2. last = Of(j, w[k])
        BY <3>2 DEF last
      <4> HIDE DEF f
      <4> QED BY <4>1, <4>2
    <3>3. CASE j = 0
      <4>1. f[j] = w[0] /\ w[0] = Of(0, w[0 - 1])
        BY <2>3, <3>3
      <4> HIDE DEF f
      <4> QED BY <1>1, <3>3, <4>1
    <3> QED BY <3>1, <3>2, <3>3
  <2>5. f = [j \in 0..(k + 1) |-> f[j]]
    OBVIOUS
  <2> HIDE DEF f
  <2>6. f = [j \in 0..(k + 1) |-> Of(j, f[j - 1])]
    BY <2>4, <2>5
  <2>7. Merging(inc, child, start, k + 1, f)
    BY <1>0, <2>6
  <2> QED BY <2>7
<1>4. n \in P
  <2> HIDE DEF P
  <2> QED BY <1>2, <1>3, FromZeroOn
<1> QED BY <1>4

\* The included cities are merged one by one, in their order.
InOrder(inc, child, start, w) == \A k \in 0..Len(child.cities) : w[k] = MergeOf(inc, child, start, k, w[k - 1])
StartOf(frame) == [cities |-> frame.cities, via |-> frame.via, warned |-> warned, clash |-> FALSE]

\* Merging an include computes it.
LEMMA MergeIncludedIs ==
  ASSUME NEW frame, NEW inc, NEW child, Len(child.cities) \in Nat
  PROVE  \E w : InOrder(inc, child, StartOf(frame), w) /\ MergeIncludedCities(frame, inc, child) = w[Len(child.cities)]
<1> DEFINE n == Len(child.cities)
           start == StartOf(frame)
           into == CHOOSE w : Merging(inc, child, start, n, w)
<1>1. MergeIncludedCities(frame, inc, child) = into[n]
  BY DEF MergeIncludedCities, Merging, MergeOf, StartOf
<1>2. Merging(inc, child, start, n, into)
  BY MergesThereAre
<1> HIDE DEF into
<1>3. into = [k \in 0..n |-> MergeOf(inc, child, start, k, into[k - 1])]
  BY <1>2 DEF Merging
<1>4. \A k \in 0..n : into[k] = MergeOf(inc, child, start, k, into[k - 1])
  BY <1>3, Zenon
<1> QED BY <1>1, <1>4 DEF InOrder

\* A file that has been resolved: what its cities stand for.
Finished(t, q, cities, W) ==
  /\ IsSeq(cities) /\ UniqueSlugs(cities)
  /\ \A i \in DOMAIN cities :
       /\ IsCity(cities[i]) /\ cities[i].name \in Names
       /\ Represents(t, View(t, q, cities[i]), GiversFrom(t.files, q, cities[i].name), W)
  /\ \A name \in Names : /\ GiversFrom(t.files, q, name) \in Seq(DOMAIN t.files)
                         /\ GiversFrom(t.files, q, name) # <<>> => \E i \in DOMAIN cities : cities[i].name = name

\* The file p, then the cities of the included file q whose names are N.
HeldAfter(t, p, H, q, N) ==
  [name \in Names |-> IF Own(t.files[p], name) # {} \/ name \notin N THEN H[name]
                      ELSE H[name] \o GiversFrom(t.files, q, name)]
NamesTo(cities, k) == {cities[j].name : j \in 1..k}
MergedFine(p, H, child, q, into, k) ==
  ~into.clash =>
    /\ DOMAIN into = IntoFields /\ warned \subseteq into.warned
    /\ CitiesFine(tree, p, HeldAfter(tree, p, H, q, NamesTo(child.cities, k)), into.cities, into.via, into.warned)

\* One more included city is merged.
LEMMA MergeStepFine ==
  ASSUME IsTree(tree), NEW p \in DOMAIN tree.files, NEW inc, inc.path \in DOMAIN tree.files, NEW H, NEW child,
         child.blobs = BlobsOf(tree.files, inc.path), Finished(tree, inc.path, child.cities, warned),
         NEW k \in Nat, k + 1 \in DOMAIN child.cities, NEW start, NEW into, MergedFine(p, H, child, inc.path, into, k)
  PROVE  MergedFine(p, H, child, inc.path, MergeOf(inc, child, start, k + 1, into), k + 1)
<1> DEFINE q == inc.path
           src == child.cities[k + 1]
           next == MergeOf(inc, child, start, k + 1, into)
           N == NamesTo(child.cities, k)
           N2 == NamesTo(child.cities, k + 1)
           G == GiversFrom(tree.files, q, src.name)
           J == HeldAfter(tree, p, H, q, N)
           J2 == HeldAfter(tree, p, H, q, N2)
<1>0. k + 1 # 0
  OBVIOUS
<1>1. CASE into.clash
  <2>1. next = into
    BY <1>0, <1>1 DEF MergeOf
  <2> QED BY <1>1, <2>1 DEF MergedFine
<1>2. CASE ~into.clash
  <2>1. next = MergeCity(into, tree.files[q], src, inc, SourceIdentity(tree.files[q], q, child.blobs))
    BY <1>0, <1>2 DEF MergeOf
  <2> HIDE DEF next
  <2>2. IsCity(src) /\ src.name \in Names /\ Represents(tree, View(tree, q, src), G, warned)
    BY DEF Finished
  <2>3. Represents(tree, View(tree, q, src), G, into.warned)
    <3> DEFINE v == View(tree, q, src)
    <3>1. warned \subseteq into.warned /\ Represents(tree, v, G, warned)
      BY <1>2, <2>2 DEF MergedFine
    <3> HIDE DEF v
    <3>2. DOMAIN v = CityFields /\ TakesGrid(v, v)
      BY <3>1 DEF Represents, IsCity, TakesGrid
    <3>3. Represents(tree, v, G, into.warned)
      BY <3>1, <3>2, StillRepresents
    <3> QED BY <3>3 DEF v
  <2>4. J2 = [J EXCEPT ![src.name] = IF Own(tree.files[p], src.name) # {} THEN @ ELSE @ \o G]
    <3>1. N2 = N \cup {src.name}
      BY DEF NamesTo
    <3>2. src.name \notin N
      <4>1. \A j \in 1..k : j \in DOMAIN child.cities /\ j # k + 1
        <5>1. child.cities \in Seq(Range(child.cities))
          BY DEF Finished, IsSeq
        <5> DEFINE R == Range(child.cities)
        <5> HIDE DEF R
        <5>2. DOMAIN child.cities = 1..Len(child.cities) /\ Len(child.cities) \in Nat
          BY <5>1 DEF R
        <5> QED BY <5>2
      <4>2. UniqueSlugs(child.cities)
        BY DEF Finished
      <4> QED BY <4>1, <4>2 DEF NamesTo, UniqueSlugs, Slug
    <3> HIDE DEF N, N2, src, G
    <3>3. J = [name \in Names |-> IF Own(tree.files[p], name) # {} \/ name \notin N THEN H[name]
                                  ELSE H[name] \o GiversFrom(tree.files, q, name)]
      BY DEF HeldAfter
    <3>4. J2 = [name \in Names |-> IF Own(tree.files[p], name) # {} \/ name \notin N2 THEN H[name]
                                   ELSE H[name] \o GiversFrom(tree.files, q, name)]
      BY DEF HeldAfter
    <3> HIDE DEF J, J2, q
    <3>5. DOMAIN J2 = Names /\ DOMAIN J = Names
      BY <3>3, <3>4
    <3>6. \A name \in Names \ {src.name} : J2[name] = J[name]
      BY <3>1, <3>3, <3>4
    <3>7. J[src.name] = H[src.name]
      BY <2>2, <3>2, <3>3
    <3>8. J2[src.name] = IF Own(tree.files[p], src.name) # {} THEN H[src.name] ELSE H[src.name] \o GiversFrom(tree.files, q, src.name)
      BY <2>2, <3>1, <3>4
    <3>9. GiversFrom(tree.files, q, src.name) = G
      BY DEF G
    <3>10. J2 = [name \in Names |-> J2[name]]
      BY <3>4
    <3> QED BY <3>5, <3>6, <3>7, <3>8, <3>9, <3>10
  <2>5. DOMAIN into = IntoFields /\ CitiesFine(tree, p, J, into.cities, into.via, into.warned)
    BY <1>2 DEF MergedFine
  <2> HIDE DEF J, J2, G, src, q
  <2>7. ASSUME ~next.clash
        PROVE  /\ DOMAIN next = IntoFields /\ into.warned \subseteq next.warned
               /\ CitiesFine(tree, p, J2, next.cities, next.via, next.warned)
    <3>1. q \in DOMAIN tree.files /\ child.blobs = BlobsOf(tree.files, q)
      BY DEF q
    <3>2. MergesOne(p, q, J, J2, G, into, src, inc, next)
      BY <2>1, <2>2, <2>3, <2>4, <2>5, <3>1 DEF MergesOne
    <3> QED BY <2>7, <3>1, <3>2, MergeCityKeeps
  <2>8. warned \subseteq into.warned
    BY <1>2 DEF MergedFine
  <2> QED BY <2>7, <2>8 DEF MergedFine, J2, q, next
<1> QED BY <1>1, <1>2

\* All the cities of the included file are merged.
MergesAll(p, frame, inc, H, H2, child, merged) ==
  /\ inc.path \in DOMAIN tree.files /\ child.blobs = BlobsOf(tree.files, inc.path)
  /\ Finished(tree, inc.path, child.cities, warned)
  /\ CitiesFine(tree, p, H, frame.cities, frame.via, warned) /\ H \in [Names -> Seq(DOMAIN tree.files)]
  /\ merged = MergeIncludedCities(frame, inc, child)
  /\ H2 = [name \in Names |-> IF Own(tree.files[p], name) # {} THEN H[name]
                              ELSE H[name] \o GiversFrom(tree.files, inc.path, name)]

\* Then all that the included file says is heard.
LEMMA MergeIncludedFine ==
  ASSUME IsTree(tree), NEW p \in DOMAIN tree.files, NEW frame, NEW inc, NEW H, NEW H2, NEW child, NEW merged,
         MergesAll(p, frame, inc, H, H2, child, merged), ~merged.clash
  PROVE  warned \subseteq merged.warned /\ CitiesFine(tree, p, H2, merged.cities, merged.via, merged.warned)
<1>0. /\ inc.path \in DOMAIN tree.files /\ child.blobs = BlobsOf(tree.files, inc.path)
      /\ Finished(tree, inc.path, child.cities, warned)
      /\ CitiesFine(tree, p, H, frame.cities, frame.via, warned) /\ H \in [Names -> Seq(DOMAIN tree.files)]
      /\ merged = MergeIncludedCities(frame, inc, child)
      /\ H2 = [name \in Names |-> IF Own(tree.files[p], name) # {} THEN H[name]
                                  ELSE H[name] \o GiversFrom(tree.files, inc.path, name)]
  BY DEF MergesAll
<1> DEFINE n == Len(child.cities)
           q == inc.path
           start == StartOf(frame)
           P(w) == {k \in Nat : k <= n => MergedFine(p, H, child, q, w[k], k)}
<1>1. n \in Nat /\ DOMAIN child.cities = 1..n
  <2>1. child.cities \in Seq(Range(child.cities))
    BY <1>0 DEF Finished, IsSeq
  <2> DEFINE R == Range(child.cities)
  <2> HIDE DEF R
  <2> QED BY <2>1 DEF R
<1>2. PICK w : InOrder(inc, child, start, w) /\ merged = w[n]
  BY <1>0, <1>1, MergeIncludedIs
<1> HIDE DEF n
<1>3. \A k \in 0..n : w[k] = MergeOf(inc, child, start, k, w[k - 1])
  BY <1>2 DEF InOrder, n
<1>4. 0 \in P(w)
  <2>1. w[0] = start
    BY <1>1, <1>3 DEF MergeOf
  <2>2. HeldAfter(tree, p, H, q, NamesTo(child.cities, 0)) = H
    <3>1. NamesTo(child.cities, 0) = {}
      BY DEF NamesTo
    <3>2. DOMAIN H = Names /\ H = [name \in Names |-> H[name]]
      BY <1>0
    <3> QED BY <3>1, <3>2 DEF HeldAfter
  <2>3. DOMAIN start = IntoFields /\ start.cities = frame.cities /\ start.via = frame.via /\ start.warned = warned
    BY DEF StartOf, IntoFields
  <2> HIDE DEF start
  <2>4. MergedFine(p, H, child, q, start, 0)
    BY <1>0, <2>2, <2>3 DEF MergedFine
  <2> QED BY <2>1, <2>4
<1>5. ASSUME NEW k \in Nat, k \in P(w) PROVE k + 1 \in P(w)
  <2> SUFFICES ASSUME k + 1 <= n PROVE MergedFine(p, H, child, q, w[k + 1], k + 1)
    OBVIOUS
  <2> DEFINE j == k + 1
  <2>1. j \in 0..n /\ j \in 1..n /\ j - 1 = k /\ k <= n
    BY <1>1
  <2>2. w[j] = MergeOf(inc, child, start, j, w[k])
    <3> HIDE DEF j
    <3> QED BY <1>3, <2>1
  <2>3. MergedFine(p, H, child, q, w[k], k)
    BY <1>5, <2>1
  <2>4. k + 1 \in DOMAIN child.cities
    BY <1>1, <2>1
  <2> HIDE DEF start
  <2>5. MergedFine(p, H, child, q, MergeOf(inc, child, start, k + 1, w[k]), k + 1)
    BY <1>0, <2>3, <2>4, MergeStepFine
  <2> QED BY <2>2, <2>5
<1>6. n \in P(w)
  <2> DEFINE Q == P(w)
  <2>1. 0 \in Q /\ \A k \in Nat : k \in Q => k + 1 \in Q
    BY <1>4, <1>5
  <2> HIDE DEF Q
  <2>2. Nat \subseteq Q
    BY <2>1, FromZeroOn
  <2> QED BY <1>1, <2>2 DEF Q
<1>7. MergedFine(p, H, child, q, merged, n)
  BY <1>1, <1>2, <1>6
<1>8. HeldAfter(tree, p, H, q, NamesTo(child.cities, n)) = H2
  <2>1. ASSUME NEW name \in Names, name \notin NamesTo(child.cities, n) PROVE H[name] \o GiversFrom(tree.files, q, name) = H[name]
    <3>1. GiversFrom(tree.files, q, name) = <<>>
      BY <1>0, <1>1, <2>1 DEF Finished, NamesTo
    <3>2. H[name] \in Seq(DOMAIN tree.files)
      BY <1>0
    <3>3. H[name] \o <<>> = H[name]
      BY <3>2
    <3> QED BY <3>1, <3>3
  <2> QED BY <1>0, <2>1 DEF HeldAfter
<1> QED BY <1>7, <1>8 DEF MergedFine

-----------------------------------------------------------------------------
(* Files are resolved after the files they include, so that what is behind *)
(* them is no further away than there are resolved files.                  *)

NumFiles(t) == Cardinality(DOMAIN t.files)
WholeWalk(t, said, stops, q) == Walk(t.files, NumFiles(t), said, stops)[q]
Settled(t, S, T) ==
  \A said \in [DOMAIN t.files -> Seq(T)], stops \in SUBSET DOMAIN t.files, q \in S, k \in Cardinality(S)..NumFiles(t) :
    /\ Walk(t.files, k, said, stops)[q] = WholeWalk(t, said, stops, q)
    /\ WholeWalk(t, said, stops, q) \in Seq(T)
IncludesAre(t, q, S) == \A i \in DOMAIN t.files[q].include : t.files[q].include[i].path \in S

\* There is room for one more resolved file.
LEMMA OneMoreFile ==
  ASSUME NEW t, IsTree(t), NEW S, S \subseteq DOMAIN t.files, NEW q \in DOMAIN t.files, q \notin S
  PROVE  /\ NumFiles(t) \in Nat /\ Cardinality(S) \in Nat /\ Cardinality(S \cup {q}) = Cardinality(S) + 1
         /\ Cardinality(S) + 1 <= NumFiles(t)
<1>1. IsFiniteSet(DOMAIN t.files)
  BY DEF IsTree
<1>2. IsFiniteSet(S) /\ S \cup {q} \subseteq DOMAIN t.files
  BY <1>1, FS_Subset
<1>3. Cardinality(S \cup {q}) = Cardinality(S) + 1
  BY <1>2, FS_AddElement
<1>4. Cardinality(S \cup {q}) <= Cardinality(DOMAIN t.files)
  BY <1>1, <1>2, FS_Subset
<1>5. Cardinality(S) \in Nat /\ Cardinality(DOMAIN t.files) \in Nat
  BY <1>1, <1>2, FS_CardinalityType
<1> QED BY <1>3, <1>4, <1>5 DEF NumFiles

\* The includes of a file are numbered from one.
LEMMA IncludesAreSeq ==
  ASSUME NEW t, IsTree(t), NEW q \in DOMAIN t.files
  PROVE  Len(t.files[q].include) \in Nat /\ DOMAIN t.files[q].include = 1..Len(t.files[q].include)
<1> DEFINE s == t.files[q].include
<1>1. s \in Seq(IncludeSpec)
  BY DEF IsTree, ConfigFile
<1> HIDE DEF s
<1>2. Len(s) \in Nat /\ DOMAIN s = 1..Len(s)
  BY <1>1
<1> QED BY <1>2 DEF s

\* A file that is not resolved, of which all the includes are.
Ripe(t, T, S, q, said, stops) ==
  /\ S \subseteq DOMAIN t.files /\ Settled(t, S, T) /\ q \in DOMAIN t.files /\ IncludesAre(t, q, S) /\ q \notin S
  /\ said \in [DOMAIN t.files -> Seq(T)] /\ stops \in SUBSET DOMAIN t.files

\* What is behind a file whose includes are all resolved.
LEMMA WalkBehind ==
  ASSUME NEW t, IsTree(t), NEW T, NEW S, NEW q, NEW said, NEW stops, Ripe(t, T, S, q, said, stops),
         NEW d \in Cardinality(S)..NumFiles(t)
  PROVE  /\ Behind(t.files, q, Walk(t.files, NumFiles(t), said, stops)) \in Seq(T)
         /\ Behind(t.files, q, Walk(t.files, d, said, stops)) = Behind(t.files, q, Walk(t.files, NumFiles(t), said, stops))
<1> DEFINE inc == t.files[q].include
           n == Len(inc)
           W(k) == Walk(t.files, k, said, stops)
           N == NumFiles(t)
           seqs(k) == [i \in DOMAIN inc |-> W(k)[inc[i].path]]
<1>0. S \subseteq DOMAIN t.files /\ Settled(t, S, T) /\ q \in DOMAIN t.files /\ IncludesAre(t, q, S) /\ q \notin S
  BY DEF Ripe
<1>1. n \in Nat /\ DOMAIN inc = 1..n
  BY <1>0, IncludesAreSeq
<1>2. ASSUME NEW r \in S, NEW k \in Cardinality(S)..N PROVE W(k)[r] = W(N)[r] /\ W(N)[r] \in Seq(T)
  BY <1>0 DEF Settled, WholeWalk, Ripe
<1>3. \A k : Behind(t.files, q, W(k)) = FlattenSeq(seqs(k))
  BY DEF Behind
<1>4. \A i \in DOMAIN inc : inc[i].path \in S
  BY <1>0 DEF IncludesAre
<1>5. N \in Cardinality(S)..N
  <2>1. N \in Nat /\ Cardinality(S) \in Nat /\ Cardinality(S) + 1 <= N
    BY <1>0, OneMoreFile
  <2> HIDE DEF N
  <2> QED BY <2>1
<1> HIDE DEF W, N, inc, n
<1>6. ASSUME NEW k \in Cardinality(S)..N PROVE seqs(k) = seqs(N)
  BY <1>2, <1>4
<1>7. seqs(N) \in [1..n -> Seq(T)]
  BY <1>1, <1>2, <1>4, <1>5
<1> HIDE DEF seqs
<1>8. FlattenSeq(seqs(N)) \in Seq(T)
  BY <1>1, <1>7, FlattenType
<1>9. Behind(t.files, q, W(N)) \in Seq(T)
  BY <1>3, <1>8
<1>10. ASSUME NEW k \in Cardinality(S)..N PROVE Behind(t.files, q, W(k)) = Behind(t.files, q, W(N))
  BY <1>3, <1>6
<1>11. d \in Cardinality(S)..N
  BY DEF N
<1> QED BY <1>9, <1>10, <1>11 DEF W, N

\* The walk from such a file, at any depth beyond the files resolved.
LEMMA WalkFrom ==
  ASSUME NEW t, IsTree(t), NEW T, NEW S, NEW q, NEW said, NEW stops, Ripe(t, T, S, q, said, stops),
         NEW k \in (Cardinality(S) + 1)..NumFiles(t)
  PROVE  /\ Walk(t.files, k, said, stops)[q] =
              said[q] \o Onward(t.files, q, stops, Walk(t.files, NumFiles(t), said, stops))
         /\ Walk(t.files, k, said, stops)[q] \in Seq(T)
<1> DEFINE W(d) == Walk(t.files, d, said, stops)
           N == NumFiles(t)
           B(d) == Behind(t.files, q, W(d))
           j == k - 1
<1>0. N \in Nat /\ Cardinality(S) \in Nat /\ Cardinality(S) + 1 <= N
  BY OneMoreFile DEF Ripe
<1>1. j \in Nat /\ j \in Cardinality(S)..N /\ j + 1 = k
  <2>1. k \in (Cardinality(S) + 1)..N
    OBVIOUS
  <2> HIDE DEF N
  <2> QED BY <1>0, <2>1
<1> HIDE DEF j
<1>2. B(N) \in Seq(T) /\ B(j) = B(N)
  BY <1>1, WalkBehind
<1>3. W(j + 1)[q] = said[q] \o Onward(t.files, q, stops, W(j))
  BY <1>1, WalkIs DEF Ripe
<1>4. Onward(t.files, q, stops, W(j)) = Onward(t.files, q, stops, W(N)) /\ Onward(t.files, q, stops, W(N)) \in Seq(T)
  BY <1>2 DEF Onward
<1> HIDE DEF B, W, N
<1>5. W(k)[q] = said[q] \o Onward(t.files, q, stops, W(N))
  BY <1>1, <1>3, <1>4
<1>6. said[q] \in Seq(T)
  BY DEF Ripe
<1>7. W(k)[q] \in Seq(T)
  BY <1>4, <1>5, <1>6
<1> QED BY <1>5, <1>7 DEF W, N

\* So the file is one of the resolved ones.
LEMMA Settles ==
  ASSUME NEW t, IsTree(t), NEW T, NEW S, S \subseteq DOMAIN t.files, Settled(t, S, T), NEW q \in DOMAIN t.files, IncludesAre(t, q, S), q \notin S
  PROVE  Settled(t, S \cup {q}, T)
<1> DEFINE N == NumFiles(t)
<1>1. N \in Nat /\ Cardinality(S) \in Nat /\ Cardinality(S \cup {q}) = Cardinality(S) + 1 /\ Cardinality(S) + 1 <= N
  BY OneMoreFile
<1> SUFFICES ASSUME NEW said \in [DOMAIN t.files -> Seq(T)], NEW stops \in SUBSET DOMAIN t.files, NEW r \in S \cup {q},
                    NEW k \in (Cardinality(S) + 1)..N
             PROVE  /\ Walk(t.files, k, said, stops)[r] = WholeWalk(t, said, stops, r)
                    /\ WholeWalk(t, said, stops, r) \in Seq(T)
  BY <1>1 DEF Settled
<1>2. CASE r \in S
  <2>1. k \in Cardinality(S)..N
    BY <1>1
  <2> QED BY <1>2, <2>1 DEF Settled
<1>3. CASE r = q
  <2>1. N \in (Cardinality(S) + 1)..N
    BY <1>1
  <2>0. Ripe(t, T, S, q, said, stops)
    BY DEF Ripe
  <2> DEFINE of == said[q] \o Onward(t.files, q, stops, Walk(t.files, N, said, stops))
  <2>2. Walk(t.files, k, said, stops)[q] = of /\ Walk(t.files, k, said, stops)[q] \in Seq(T)
    BY <2>0, WalkFrom
  <2>3. Walk(t.files, N, said, stops)[q] = of /\ Walk(t.files, N, said, stops)[q] \in Seq(T)
    BY <2>0, <2>1, WalkFrom
  <2> HIDE DEF of
  <2> QED BY <1>3, <2>2, <2>3 DEF WholeWalk
<1> QED BY <1>2, <1>3

\* With no file resolved there is nothing to say.
LEMMA NoneSettled ==
  ASSUME NEW t, NEW T
  PROVE  Settled(t, {}, T)
BY DEF Settled

\* What p has heard of each name, and hashed, when n of its includes are
\* merged; and what is to be heard is known.
Held(t, p, n) ==
  [name \in Names |-> IF Own(t.files[p], name) # {} THEN <<p>>
                      ELSE FlattenSeq([i \in 1..n |-> GiversFrom(t.files, t.files[p].include[i].path, name)])]
BlobsTo(t, p, n) ==
  <<t.files[p].bytes>> \o FlattenSeq([i \in 1..n |-> BlobsOf(t.files, t.files[p].include[i].path)])
Known(t, S) ==
  \A q \in S : /\ BlobsOf(t.files, q) \in Seq(STRING)
               /\ \A name : GiversFrom(t.files, q, name) \in Seq(DOMAIN t.files)

\* A sequence of one.
LEMMA OneOfSeq ==
  ASSUME NEW D, NEW d \in D
  PROVE  <<d>> \in Seq(D)
OBVIOUS

\* What is said of a name, and by whom.
SaidOf(t, name) == [q \in DOMAIN t.files |-> IF q \in Declarers(t.files, name) THEN <<q>> ELSE <<>>]
BytesOf(t) == [q \in DOMAIN t.files |-> <<t.files[q].bytes>>]

\* What a walk is about is a sequence for every file.
LEMMA SaidIs ==
  ASSUME NEW t, IsTree(t), NEW name
  PROVE  /\ SaidOf(t, name) \in [DOMAIN t.files -> Seq(DOMAIN t.files)] /\ Declarers(t.files, name) \in SUBSET DOMAIN t.files
         /\ BytesOf(t) \in [DOMAIN t.files -> Seq(STRING)]
<1> DEFINE F == DOMAIN t.files
<1>1. (\A q \in F : <<q>> \in Seq(F)) /\ <<>> \in Seq(F)
  <2> HIDE DEF F
  <2> QED BY OneOfSeq
<1>2. \A q \in F : <<t.files[q].bytes>> \in Seq(STRING)
  <2>1. \A q \in F : t.files[q].bytes \in STRING
    BY DEF IsTree, ConfigFile
  <2> QED BY <2>1
<1> HIDE DEF F
<1>3. SaidOf(t, name) \in [F -> Seq(F)]
  BY <1>1 DEF SaidOf, F
<1>4. BytesOf(t) \in [F -> Seq(STRING)]
  BY <1>2 DEF BytesOf, F
<1> QED BY <1>3, <1>4 DEF F, Declarers

\* The givers of a name are walked to, stopping at the files that declare it.
LEMMA GiversWalk ==
  ASSUME NEW t, NEW q, NEW name
  PROVE  GiversFrom(t.files, q, name) = WholeWalk(t, SaidOf(t, name), Declarers(t.files, name), q)
BY DEF GiversFrom, WholeWalk, NumFiles, SaidOf

\* What was hashed is walked to, stopping nowhere.
LEMMA BlobsWalk ==
  ASSUME NEW t, NEW q
  PROVE  BlobsOf(t.files, q) = WholeWalk(t, BytesOf(t), {}, q)
BY DEF BlobsOf, WholeWalk, NumFiles, BytesOf

\* What is behind the resolved files is known.
LEMMA SettledIsKnown ==
  ASSUME NEW t, IsTree(t), NEW S, S \subseteq DOMAIN t.files, Settled(t, S, DOMAIN t.files), Settled(t, S, STRING)
  PROVE  Known(t, S)
<1>1. IsFiniteSet(DOMAIN t.files) /\ Cardinality(S) <= NumFiles(t) /\ Cardinality(S) \in Nat /\ NumFiles(t) \in Nat
  BY FS_Subset, FS_CardinalityType DEF IsTree, NumFiles
<1>2. NumFiles(t) \in Cardinality(S)..NumFiles(t)
  BY <1>1
<1>3. ASSUME NEW q \in S, NEW name PROVE GiversFrom(t.files, q, name) \in Seq(DOMAIN t.files)
  <2> DEFINE said == SaidOf(t, name)
             stops == Declarers(t.files, name)
  <2>1. said \in [DOMAIN t.files -> Seq(DOMAIN t.files)] /\ stops \in SUBSET DOMAIN t.files
    BY SaidIs
  <2>2. GiversFrom(t.files, q, name) = WholeWalk(t, said, stops, q)
    BY GiversWalk
  <2> HIDE DEF said, stops
  <2>3. WholeWalk(t, said, stops, q) \in Seq(DOMAIN t.files)
    BY <1>2, <2>1 DEF Settled
  <2> QED BY <2>2, <2>3
<1>4. ASSUME NEW q \in S PROVE BlobsOf(t.files, q) \in Seq(STRING)
  <2>1. BytesOf(t) \in [DOMAIN t.files -> Seq(STRING)] /\ {} \in SUBSET DOMAIN t.files
    BY SaidIs
  <2>2. BlobsOf(t.files, q) = WholeWalk(t, BytesOf(t), {}, q)
    BY BlobsWalk
  <2>3. WholeWalk(t, BytesOf(t), {}, q) \in Seq(STRING)
    BY <1>2, <2>1 DEF Settled
  <2> QED BY <2>2, <2>3
<1> QED BY <1>3, <1>4 DEF Known

\* What is said by a file of which all the includes are resolved.
LEMMA GiversAre ==
  ASSUME NEW t, IsTree(t), NEW S, S \subseteq DOMAIN t.files, Settled(t, S, DOMAIN t.files), NEW q \in DOMAIN t.files,
         IncludesAre(t, q, S), q \notin S, NEW name \in Names
  PROVE  /\ GiversFrom(t.files, q, name) = Held(t, q, Len(t.files[q].include))[name]
         /\ GiversFrom(t.files, q, name) \in Seq(DOMAIN t.files)
<1> DEFINE F == DOMAIN t.files
           N == NumFiles(t)
           n == Len(t.files[q].include)
           said == SaidOf(t, name)
           stops == Declarers(t.files, name)
           B == Behind(t.files, q, Walk(t.files, N, said, stops))
           on == Onward(t.files, q, stops, Walk(t.files, N, said, stops))
<1>0. Ripe(t, F, S, q, said, stops)
  BY SaidIs DEF Ripe
<1>1. N \in (Cardinality(S) + 1)..N
  <2>1. N \in Nat /\ Cardinality(S) \in Nat /\ Cardinality(S) + 1 <= N
    BY OneMoreFile
  <2> HIDE DEF N
  <2> QED BY <2>1
<1>2. N \in Cardinality(S)..N
  <2>1. N \in Nat /\ Cardinality(S) \in Nat /\ Cardinality(S) + 1 <= N
    BY OneMoreFile
  <2> HIDE DEF N
  <2> QED BY <2>1
<1>3. Walk(t.files, N, said, stops)[q] = said[q] \o on /\ Walk(t.files, N, said, stops)[q] \in Seq(F)
  BY <1>0, <1>1, WalkFrom
<1>4. B \in Seq(F) /\ B = B
  BY <1>0, <1>2, WalkBehind
<1>5. B = FlattenSeq([i \in 1..n |-> GiversFrom(t.files, t.files[q].include[i].path, name)])
  <2>1. DOMAIN t.files[q].include = 1..n
    BY IncludesAreSeq
  <2>2. \A r : Walk(t.files, N, said, stops)[r] = GiversFrom(t.files, r, name)
    BY GiversWalk DEF WholeWalk
  <2> HIDE DEF n, N, said, stops
  <2> QED BY <2>1, <2>2 DEF Behind
<1>6. Held(t, q, n)[name] = IF Own(t.files[q], name) # {} THEN <<q>> ELSE B
  <2> HIDE DEF n
  <2> QED BY <1>5 DEF Held
<1>7. q \in stops <=> Own(t.files[q], name) # {}
  BY DEF Declarers
<1>8. said[q] = IF q \in stops THEN <<q>> ELSE <<>>
  BY DEF SaidOf
<1>9. on = IF q \in stops THEN <<>> ELSE B
  BY DEF Onward
<1>10. GiversFrom(t.files, q, name) = Walk(t.files, N, said, stops)[q]
  BY GiversWalk DEF WholeWalk
<1> HIDE DEF n, N, said, stops, B, on
<1>11. <<q>> \o <<>> = <<q>>
  OBVIOUS
<1>12. <<>> \o B = B
  BY <1>4
<1> QED BY <1>3, <1>6, <1>7, <1>8, <1>9, <1>10, <1>11, <1>12 DEF n

\* What is hashed of a file of which all the includes are resolved.
LEMMA BlobsAre ==
  ASSUME NEW t, IsTree(t), NEW S, S \subseteq DOMAIN t.files, Settled(t, S, STRING), NEW q \in DOMAIN t.files,
         IncludesAre(t, q, S), q \notin S
  PROVE  BlobsOf(t.files, q) = BlobsTo(t, q, Len(t.files[q].include))
<1> DEFINE N == NumFiles(t)
           n == Len(t.files[q].include)
           said == BytesOf(t)
           B == Behind(t.files, q, Walk(t.files, N, said, {}))
           on == Onward(t.files, q, {}, Walk(t.files, N, said, {}))
<1>0. Ripe(t, STRING, S, q, said, {})
  BY SaidIs DEF Ripe
<1>1. N \in (Cardinality(S) + 1)..N
  <2>1. N \in Nat /\ Cardinality(S) \in Nat /\ Cardinality(S) + 1 <= N
    BY OneMoreFile
  <2> HIDE DEF N
  <2> QED BY <2>1
<1>2. Walk(t.files, N, said, {})[q] = said[q] \o on /\ Walk(t.files, N, said, {})[q] \in Seq(STRING)
  BY <1>0, <1>1, WalkFrom
<1>3. B = FlattenSeq([i \in 1..n |-> BlobsOf(t.files, t.files[q].include[i].path)])
  <2>1. DOMAIN t.files[q].include = 1..n
    BY IncludesAreSeq
  <2>2. \A r : Walk(t.files, N, said, {})[r] = BlobsOf(t.files, r)
    BY BlobsWalk DEF WholeWalk
  <2> HIDE DEF n, N, said
  <2> QED BY <2>1, <2>2 DEF Behind
<1>4. on = B /\ said[q] = <<t.files[q].bytes>>
  BY DEF Onward, BytesOf
<1>5. BlobsOf(t.files, q) = Walk(t.files, N, said, {})[q]
  BY BlobsWalk DEF WholeWalk
<1> HIDE DEF n, N, said, B, on
<1> QED BY <1>2, <1>3, <1>4, <1>5 DEF BlobsTo, n

\* One more include is heard.
LEMMA HeldMore ==
  ASSUME NEW t, NEW p \in DOMAIN t.files, NEW n \in Nat,
         \A i \in 1..(n + 1) : \A name : GiversFrom(t.files, t.files[p].include[i].path, name) \in Seq(DOMAIN t.files)
  PROVE  /\ Held(t, p, n) \in [Names -> Seq(DOMAIN t.files)]
         /\ Held(t, p, n + 1) = [name \in Names |-> IF Own(t.files[p], name) # {} THEN Held(t, p, n)[name]
                                   ELSE Held(t, p, n)[name] \o GiversFrom(t.files, t.files[p].include[n + 1].path, name)]
<1> DEFINE F == DOMAIN t.files
           of(i, name) == GiversFrom(t.files, t.files[p].include[i].path, name)
           m == n + 1
<1>1. m \in Nat /\ 1..n \subseteq 1..m /\ m \in 1..m
  OBVIOUS
<1>2. \A i \in 1..m : \A name : of(i, name) \in Seq(F)
  OBVIOUS
<1>3. \A k, name : Held(t, p, k) = [x \in Names |-> IF Own(t.files[p], x) # {} THEN <<p>> ELSE FlattenSeq([i \in 1..k |-> of(i, x)])]
  BY DEF Held
<1>4. <<p>> \in Seq(F)
  BY OneOfSeq
<1> HIDE DEF F, of
<1>5. ASSUME NEW name \in Names
      PROVE  /\ FlattenSeq([i \in 1..n |-> of(i, name)]) \in Seq(F)
             /\ FlattenSeq([i \in 1..m |-> of(i, name)]) = FlattenSeq([i \in 1..n |-> of(i, name)]) \o of(m, name)
  <2> DEFINE seqs == [i \in 1..(n + 1) |-> of(i, name)]
             less == [i \in 1..n |-> of(i, name)]
  <2>1. seqs \in [1..(n + 1) -> Seq(F)] /\ less \in [1..n -> Seq(F)]
    BY <1>1, <1>2
  <2>2. less = [i \in 1..n |-> seqs[i]] /\ seqs[n + 1] = of(m, name)
    BY <1>1
  <2> HIDE DEF seqs, less
  <2>3. FlattenSeq(less) \in Seq(F)
    BY <2>1, FlattenType
  <2>4. FlattenSeq(seqs) = FlattenSeq([i \in 1..n |-> seqs[i]]) \o seqs[n + 1]
    BY <2>1, FlattenMore
  <2> QED BY <2>2, <2>3, <2>4 DEF seqs, less
<1> HIDE DEF m
<1>6. Held(t, p, n) \in [Names -> Seq(F)]
  <2> DEFINE h == Held(t, p, n)
  <2>1. h = [name \in Names |-> h[name]]
    BY <1>3
  <2>2. ASSUME NEW name \in Names PROVE h[name] \in Seq(F)
    <3>1. h[name] = IF Own(t.files[p], name) # {} THEN <<p>> ELSE FlattenSeq([i \in 1..n |-> of(i, name)])
      BY <1>3
    <3> QED BY <1>4, <1>5, <3>1
  <2> HIDE DEF h
  <2> QED BY <2>1, <2>2 DEF h
<1>7. Held(t, p, m) = [name \in Names |-> IF Own(t.files[p], name) # {} THEN Held(t, p, n)[name]
                                          ELSE Held(t, p, n)[name] \o of(m, name)]
  <2>1. ASSUME NEW name \in Names
        PROVE  Held(t, p, m)[name] = IF Own(t.files[p], name) # {} THEN Held(t, p, n)[name] ELSE Held(t, p, n)[name] \o of(m, name)
    <3>1. \A k : Held(t, p, k)[name] = IF Own(t.files[p], name) # {} THEN <<p>> ELSE FlattenSeq([i \in 1..k |-> of(i, name)])
      BY <1>3
    <3> QED BY <1>5, <3>1
  <2>2. Held(t, p, m) = [name \in Names |-> Held(t, p, m)[name]]
    BY <1>3
  <2> QED BY <2>1, <2>2
<1> QED BY <1>6, <1>7 DEF F, of, m

\* One more include is hashed.
LEMMA BlobsMore ==
  ASSUME NEW t, IsTree(t), NEW p \in DOMAIN t.files, NEW n \in Nat,
         \A i \in 1..(n + 1) : BlobsOf(t.files, t.files[p].include[i].path) \in Seq(STRING)
  PROVE  BlobsTo(t, p, n + 1) = BlobsTo(t, p, n) \o BlobsOf(t.files, t.files[p].include[n + 1].path)
<1> DEFINE of(i) == BlobsOf(t.files, t.files[p].include[i].path)
           own == <<t.files[p].bytes>>
           seqs == [i \in 1..(n + 1) |-> of(i)]
           less == [i \in 1..n |-> of(i)]
<1>1. \A i \in 1..(n + 1) : of(i) \in Seq(STRING)
  OBVIOUS
<1>2. own \in Seq(STRING)
  BY SaidIs DEF IsTree, ConfigFile
<1>3. \A k : BlobsTo(t, p, k) = own \o FlattenSeq([i \in 1..k |-> of(i)])
  BY DEF BlobsTo
<1> HIDE DEF own, of
<1>4. seqs \in [1..(n + 1) -> Seq(STRING)] /\ less \in [1..n -> Seq(STRING)]
  BY <1>1
<1>5. less = [i \in 1..n |-> seqs[i]] /\ seqs[n + 1] = of(n + 1)
  OBVIOUS
<1>6. BlobsTo(t, p, n) = own \o FlattenSeq(less) /\ BlobsTo(t, p, n + 1) = own \o FlattenSeq(seqs)
  BY <1>3
<1> HIDE DEF seqs, less
<1>7. FlattenSeq(less) \in Seq(STRING)
  BY <1>4, FlattenType
<1>8. FlattenSeq(seqs) = FlattenSeq(less) \o of(n + 1) /\ of(n + 1) \in Seq(STRING)
  <2>1. FlattenSeq(seqs) = FlattenSeq([i \in 1..n |-> seqs[i]]) \o seqs[n + 1]
    BY <1>4, FlattenMore
  <2>2. n + 1 \in 1..(n + 1)
    OBVIOUS
  <2> QED BY <1>1, <1>5, <2>1, <2>2
<1> DEFINE a == FlattenSeq(less)
           b == of(n + 1)
<1> HIDE DEF a, b
<1>9. a \in Seq(STRING) /\ b \in Seq(STRING)
  BY <1>7, <1>8 DEF a, b
<1>10. own \o (a \o b) = (own \o a) \o b
  BY <1>2, <1>9
<1> QED BY <1>6, <1>8, <1>10 DEF a, b, of

-----------------------------------------------------------------------------
(* The files that are being resolved.                                      *)

FrameFields == {"path", "next", "blobs", "cities", "via"}
FrameFine(t, f, S, W) ==
  /\ DOMAIN f = FrameFields /\ f.path \in DOMAIN t.files /\ Parses(t.files[f.path])
  /\ f.next \in 1..(Len(t.files[f.path].include) + 1)
  /\ \A i \in 1..(f.next - 1) : t.files[f.path].include[i].path \in S
  /\ f.blobs = BlobsTo(t, f.path, f.next - 1)
  /\ CitiesFine(t, f.path, Held(t, f.path, f.next - 1), f.cities, f.via, W)
  /\ f.next = 1 => DOMAIN f.via = {}
NextInclude(t, f) == t.files[f.path].include[f.next]

\* With more files resolved and more warnings a frame is as it was.
LEMMA FrameStill ==
  ASSUME NEW t, NEW f, NEW S, NEW S2, NEW W, NEW W2, S \subseteq S2, W \subseteq W2, FrameFine(t, f, S, W)
  PROVE  FrameFine(t, f, S2, W2)
<1> DEFINE H == Held(t, f.path, f.next - 1)
<1>1. CitiesFine(t, f.path, H, f.cities, f.via, W)
  BY DEF FrameFine
<1> HIDE DEF H
<1>2. \A i \in DOMAIN f.cities : CityFine(t, f.path, H, f.cities[i], f.via, W2)
  BY <1>1, StillFine DEF CitiesFine
<1>3. CitiesFine(t, f.path, H, f.cities, f.via, W2)
  BY <1>1, <1>2 DEF CitiesFine
<1> QED BY <1>3 DEF FrameFine, H

\* What a file declares.
LEMMA DeclaredFine ==
  ASSUME NEW t, IsTree(t), NEW p \in DOMAIN t.files, NEW i \in DOMAIN t.files[p].cities, UniqueSlugs(t.files[p].cities), NEW c,
         c = Declared(t.files[p].cities[i])
  PROVE  IsCity(c) /\ c.name \in Names /\ c.name = t.files[p].cities[i].name /\ IsOwn(t.files[p], c)
<1> DEFINE d == t.files[p].cities[i]
<1>1. d \in CityConfig
  <2> DEFINE s == t.files[p].cities
  <2>1. s \in Seq(CityConfig)
    BY DEF IsTree, ConfigFile
  <2> HIDE DEF s
  <2>2. \A j \in DOMAIN s : s[j] \in CityConfig
    BY <2>1
  <2> QED BY <2>2 DEF s
<1>2. Own(t.files[p], d.name) # {} /\ OwnCity(t.files[p], d.name) = d
  BY OwnCityIs
<1> HIDE DEF d
<1>3. /\ d.name \in Names /\ d.edge \in Nat /\ d.minArea \in Nat /\ d.forecast \in ForecastConfig
  BY <1>1 DEF CityConfig, Names
<1>4. /\ DOMAIN c = CityFields /\ c.name = d.name /\ c.edge = d.edge /\ c.minArea = d.minArea /\ c.forecast = d.forecast
      /\ c.source = <<>> /\ c.sourceEdge = 0
  BY DEF Declared, CityFields, d
<1> QED BY <1>2, <1>3, <1>4 DEF IsCity, IsOwn, d

\* A file that is opened holds its own cities and has heard of no include.
LEMMA NewFrameFine ==
  ASSUME IsTree(tree), NEW p \in DOMAIN tree.files, Parses(tree.files[p]), NEW S, NEW W
  PROVE  FrameFine(tree, NewFrame(p), S, W)
<1> DEFINE f == NewFrame(p)
           file == tree.files[p]
           cities == [i \in DOMAIN file.cities |-> Declared(file.cities[i])]
           H == Held(tree, p, 0)
           via == << >>
<1>1. /\ DOMAIN f = FrameFields /\ f.path = p /\ f.next = 1 /\ f.blobs = <<file.bytes>> /\ f.cities = cities /\ f.via = via
  BY DEF NewFrame, FrameFields
<1>2. UniqueSlugs(file.cities)
  BY DEF Parses, Valid
<1>3. \A i \in DOMAIN file.cities :
        /\ IsCity(cities[i]) /\ cities[i].name \in Names /\ cities[i].name = file.cities[i].name /\ IsOwn(file, cities[i])
  BY <1>2, DeclaredFine
<1>4. IsSeq(cities) /\ DOMAIN cities = DOMAIN file.cities
  <2> DEFINE n == Len(file.cities)
             R == Range(cities)
  <2>1. n \in Nat /\ DOMAIN file.cities = 1..n
    <3> DEFINE s == file.cities
    <3>1. s \in Seq(CityConfig)
      BY DEF IsTree, ConfigFile
    <3> HIDE DEF s
    <3>2. Len(s) \in Nat /\ DOMAIN s = 1..Len(s)
      BY <3>1
    <3> QED BY <3>2 DEF s
  <2> HIDE DEF n
  <2>2. cities = [i \in 1..n |-> cities[i]] /\ DOMAIN cities = 1..n
    BY <2>1
  <2> HIDE DEF cities
  <2>3. \A i \in 1..n : cities[i] \in R
    BY <2>2 DEF Range
  <2> HIDE DEF R
  <2>4. cities \in [1..n -> R]
    BY <2>2, <2>3
  <2>5. cities \in Seq(R)
    BY <2>1, <2>4, SeqIs
  <2> QED BY <2>1, <2>2, <2>5 DEF IsSeq, R
<1>5. \A name \in Names : H[name] = IF Own(file, name) # {} THEN <<p>> ELSE <<>>
  <2> SUFFICES ASSUME NEW name \in Names PROVE H[name] = IF Own(file, name) # {} THEN <<p>> ELSE <<>>
    OBVIOUS
  <2>1. H[name] = IF Own(file, name) # {} THEN <<p>>
                  ELSE FlattenSeq([i \in 1..0 |-> GiversFrom(tree.files, file.include[i].path, name)])
    BY DEF Held
  <2> DEFINE u == [i \in 1..0 |-> GiversFrom(tree.files, file.include[i].path, name)]
  <2>2. FlattenSeq(u) = <<>>
    <3>1. u = <<>>
      OBVIOUS
    <3> HIDE DEF u
    <3> QED BY <3>1 DEF FlattenSeq
  <2> QED BY <2>1, <2>2
<1> HIDE DEF cities, H, f
<1>6. DOMAIN via = {}
  OBVIOUS
<1>7. CitiesFine(tree, p, H, cities, via, W)
  <2>1. DOMAIN H = Names
    BY DEF H, Held
  <2>2. UniqueSlugs(cities)
    BY <1>2, <1>3, <1>4 DEF UniqueSlugs, Slug
  <2>3. HeldFine(tree, p, H, cities)
    <3> SUFFICES ASSUME NEW name \in Names
                 PROVE  /\ H[name] # <<>> => \E i \in DOMAIN cities : cities[i].name = name
                        /\ Own(file, name) # {} => H[name] = <<p>>
      BY DEF HeldFine
    <3>1. H[name] = IF Own(file, name) # {} THEN <<p>> ELSE <<>>
      BY <1>5
    <3>2. Own(file, name) # {} => \E i \in DOMAIN cities : cities[i].name = name
      BY <1>3, <1>4 DEF Own, Range
    <3> QED BY <3>1, <3>2
  <2>4. ASSUME NEW i \in DOMAIN cities PROVE CityFine(tree, p, H, cities[i], via, W)
    <3>1. IsCity(cities[i]) /\ cities[i].name \in Names /\ IsOwn(file, cities[i])
      BY <1>3, <1>4
    <3>2. H[cities[i].name] = <<p>>
      BY <1>5, <3>1 DEF IsOwn
    <3> HIDE DEF via
    <3> QED BY <1>6, <3>1, <3>2 DEF CityFine
  <2> QED BY <1>4, <2>1, <2>2, <2>3, <2>4 DEF CitiesFine
<1>8. f.next \in 1..(Len(file.include) + 1) /\ f.next - 1 = 0
  BY <1>1, IncludesAreSeq
<1>9. f.blobs = BlobsTo(tree, p, 0)
  <2> DEFINE u == [i \in 1..0 |-> BlobsOf(tree.files, file.include[i].path)]
  <2>1. FlattenSeq(u) = <<>>
    <3>1. u = <<>>
      OBVIOUS
    <3> HIDE DEF u
    <3> QED BY <3>1 DEF FlattenSeq
  <2>2. <<file.bytes>> \o <<>> = <<file.bytes>>
    OBVIOUS
  <2>3. BlobsTo(tree, p, 0) = <<file.bytes>> \o FlattenSeq(u)
    BY DEF BlobsTo
  <2> QED BY <1>1, <2>1, <2>2, <2>3
<1>10. \A i \in 1..(f.next - 1) : file.include[i].path \in S
  BY <1>8
<1> QED BY <1>1, <1>6, <1>7, <1>8, <1>9, <1>10 DEF FrameFine, H, f

\* A resolved file is merged into the file that includes it.
Child(t, q, child, W) == child.blobs = BlobsOf(t.files, q) /\ Finished(t, q, child.cities, W)
Hears(f, S, S2, inc, child, merged, g) ==
  /\ S \subseteq S2 /\ FrameFine(tree, f, S, warned) /\ Known(tree, S2) /\ f.next <= Len(tree.files[f.path].include)
  /\ inc = NextInclude(tree, f) /\ inc.path \in S2 /\ inc.path \in DOMAIN tree.files /\ Child(tree, inc.path, child, warned)
  /\ merged = MergeIncludedCities(f, inc, child)
  /\ g = [f EXCEPT !.cities = merged.cities, !.via = merged.via, !.blobs = @ \o child.blobs, !.next = @ + 1]

\* Unless two names clash, the including file has heard of one more include.
LEMMA FrameMerges ==
  ASSUME IsTree(tree), NEW S, NEW S2, NEW f, NEW inc, NEW child, NEW merged, NEW g, Hears(f, S, S2, inc, child, merged, g),
         ~merged.clash
  PROVE  warned \subseteq merged.warned /\ FrameFine(tree, g, S2, merged.warned) /\ g.path = f.path
<1>0. /\ S \subseteq S2 /\ FrameFine(tree, f, S, warned) /\ Known(tree, S2) /\ f.next <= Len(tree.files[f.path].include)
      /\ inc = NextInclude(tree, f) /\ inc.path \in S2 /\ inc.path \in DOMAIN tree.files /\ Child(tree, inc.path, child, warned)
      /\ merged = MergeIncludedCities(f, inc, child)
      /\ g = [f EXCEPT !.cities = merged.cities, !.via = merged.via, !.blobs = @ \o child.blobs, !.next = @ + 1]
  BY DEF Hears
<1> DEFINE p == f.path
           file == tree.files[p]
           q == inc.path
           n == f.next - 1
           H == Held(tree, p, n)
           H2 == Held(tree, p, n + 1)
<1>1. /\ DOMAIN f = FrameFields /\ p \in DOMAIN tree.files /\ Parses(file)
      /\ \A i \in 1..n : file.include[i].path \in S
      /\ f.blobs = BlobsTo(tree, p, n)
      /\ CitiesFine(tree, p, H, f.cities, f.via, warned)
  BY <1>0 DEF FrameFine
<1>2. /\ n \in Nat /\ f.next = n + 1 /\ n + 1 \in 1..Len(file.include) /\ (n + 1) + 1 \in 1..(Len(file.include) + 1)
      /\ (n + 1) - 1 = n /\ ((n + 1) + 1) - 1 = n + 1 /\ (n + 1) + 1 # 1
  <2>1. Len(file.include) \in Nat
    BY <1>1, IncludesAreSeq
  <2>2. f.next \in 1..(Len(file.include) + 1) /\ f.next <= Len(file.include)
    BY <1>0 DEF FrameFine
  <2> DEFINE L == Len(file.include)
             x == f.next
  <2> HIDE DEF L, x
  <2>3. /\ x - 1 \in Nat /\ x = (x - 1) + 1 /\ (x - 1) + 1 \in 1..L /\ ((x - 1) + 1) + 1 \in 1..(L + 1)
        /\ ((x - 1) + 1) - 1 = x - 1 /\ (((x - 1) + 1) + 1) - 1 = (x - 1) + 1 /\ ((x - 1) + 1) + 1 # 1
    BY <2>1, <2>2 DEF L, x
  <2> QED BY <2>3 DEF L, x
<1>3. file.include[n + 1].path = q
  BY <1>0, <1>2 DEF NextInclude
<1>4. /\ DOMAIN g = FrameFields /\ g.path = p /\ g.cities = merged.cities /\ g.via = merged.via
      /\ g.blobs = f.blobs \o child.blobs /\ g.next = f.next + 1
  BY <1>0, <1>1 DEF FrameFields
<1>13. S \subseteq S2 /\ q \in S2
  BY <1>0
<1> HIDE DEF n, p, q
<1>5. \A i \in 1..(n + 1) : file.include[i].path \in S2
  <2>1. \A i \in 1..(n + 1) : i \in 1..n \/ i = n + 1
    BY <1>2
  <2> QED BY <1>1, <1>3, <1>13, <2>1
<1> USE DEF q
<1>6. \A i \in 1..(n + 1) : /\ \A name : GiversFrom(tree.files, file.include[i].path, name) \in Seq(DOMAIN tree.files)
                            /\ BlobsOf(tree.files, file.include[i].path) \in Seq(STRING)
  BY <1>0, <1>5 DEF Known
<1>7. /\ H \in [Names -> Seq(DOMAIN tree.files)]
      /\ H2 = [name \in Names |-> IF Own(file, name) # {} THEN H[name]
                                  ELSE H[name] \o GiversFrom(tree.files, file.include[n + 1].path, name)]
  BY <1>1, <1>2, <1>6, HeldMore
<1>8. BlobsTo(tree, p, n + 1) = BlobsTo(tree, p, n) \o BlobsOf(tree.files, file.include[n + 1].path)
  BY <1>1, <1>2, <1>6, BlobsMore
<1>9. g.blobs = BlobsTo(tree, p, n + 1)
  BY <1>0, <1>1, <1>3, <1>4, <1>8 DEF Child
<1>10. warned \subseteq merged.warned /\ CitiesFine(tree, p, H2, merged.cities, merged.via, merged.warned)
  <2>1. H2 = [name \in Names |-> IF Own(file, name) # {} THEN H[name] ELSE H[name] \o GiversFrom(tree.files, inc.path, name)]
    BY <1>3, <1>7
  <2>2. child.blobs = BlobsOf(tree.files, inc.path) /\ Finished(tree, inc.path, child.cities, warned)
    BY <1>0 DEF Child
  <2> HIDE DEF H, H2
  <2>3. MergesAll(p, f, inc, H, H2, child, merged)
    BY <1>0, <1>1, <1>7, <2>1, <2>2 DEF MergesAll
  <2> QED BY <1>1, <2>3, MergeIncludedFine
<1>11. g.next \in 1..(Len(file.include) + 1) /\ g.next - 1 = n + 1 /\ g.next # 1
  BY <1>2, <1>4
<1>12. p = f.path
  BY DEF p
<1> QED BY <1>1, <1>4, <1>5, <1>9, <1>10, <1>11, <1>12 DEF FrameFine

\* A file of which all the includes are merged is resolved.
LEMMA FrameFinished ==
  ASSUME NEW t, IsTree(t), NEW S, S \subseteq DOMAIN t.files, Settled(t, S, DOMAIN t.files), Settled(t, S, STRING), NEW W, NEW f,
         FrameFine(t, f, S, W), f.next > Len(t.files[f.path].include), f.path \notin S
  PROVE  /\ f.blobs = BlobsOf(t.files, f.path) /\ Finished(t, f.path, f.cities, W)
         /\ IncludesAre(t, f.path, S)
<1> DEFINE p == f.path
           file == t.files[p]
           n == Len(file.include)
           H == Held(t, p, n)
<1>1. /\ p \in DOMAIN t.files /\ Parses(file)
      /\ \A i \in 1..(f.next - 1) : file.include[i].path \in S
      /\ f.blobs = BlobsTo(t, p, f.next - 1)
      /\ CitiesFine(t, p, Held(t, p, f.next - 1), f.cities, f.via, W)
      /\ f.next = 1 => DOMAIN f.via = {}
      /\ f.next \in 1..(n + 1)
  BY DEF FrameFine
<1>2. n \in Nat /\ DOMAIN file.include = 1..n
  BY <1>1, IncludesAreSeq
<1>3. f.next - 1 = n /\ (n = 0 => f.next = 1)
  <2> DEFINE x == f.next
  <2>1. x \in 1..(n + 1) /\ x > n
    BY <1>1
  <2> HIDE DEF x, n
  <2>2. x - 1 = n /\ (n = 0 => x = 1)
    BY <1>2, <2>1
  <2> QED BY <2>2 DEF x
<1>4. IncludesAre(t, p, S)
  BY <1>1, <1>2, <1>3 DEF IncludesAre
<1>5. f.blobs = BlobsOf(t.files, p)
  BY <1>1, <1>3, <1>4, BlobsAre
<1>6. ASSUME NEW name \in Names PROVE GiversFrom(t.files, p, name) = H[name] /\ GiversFrom(t.files, p, name) \in Seq(DOMAIN t.files)
  BY <1>1, <1>4, GiversAre
<1>7. CitiesFine(t, p, H, f.cities, f.via, W)
  BY <1>1, <1>3
<1> HIDE DEF n
<1>8. ASSUME NEW i \in DOMAIN f.cities
      PROVE  /\ IsCity(f.cities[i]) /\ f.cities[i].name \in Names
             /\ Represents(t, View(t, p, f.cities[i]), GiversFrom(t.files, p, f.cities[i].name), W)
  <2> DEFINE c == f.cities[i]
             G == GiversFrom(t.files, p, c.name)
  <2>1. CityFine(t, p, H, c, f.via, W)
    BY <1>7 DEF CitiesFine
  <2>2. IsCity(c) /\ c.name \in Names /\ G = H[c.name]
    BY <1>6, <2>1 DEF CityFine
  <2> HIDE DEF c, G, H
  <2>3. CASE Slug(c) \in DOMAIN f.via
    <3>1. Represents(t, c, G, W)
      BY <2>1, <2>2, <2>3 DEF CityFine
    <3>2. file.include # <<>>
      <4>1. n # 0
        BY <1>1, <1>3, <2>3
      <4>2. Len(<<>>) = 0
        OBVIOUS
      <4> QED BY <4>1, <4>2 DEF n
    <3>3. ForecastIsZero(file.forecast) /\ file.edge = 0 /\ file.minArea = 0
      BY <1>1, <3>2 DEF Parses, Valid
    <3>4. Represents(t, View(t, p, c), G, W)
      BY <1>1, <3>1, <3>3, IncludedRepresents
    <3> QED BY <2>2, <3>4 DEF c, G
  <2>4. CASE Slug(c) \notin DOMAIN f.via
    <3>1. IsOwn(file, c)
      BY <2>1, <2>4 DEF CityFine
    <3>2. Represents(t, View(t, p, c), <<p>>, W)
      BY <1>1, <2>2, <3>1, OwnRepresents
    <3>3. G = <<p>>
      BY <1>7, <2>2, <3>1 DEF CitiesFine, HeldFine, IsOwn
    <3> QED BY <2>2, <3>2, <3>3 DEF c, G
  <2> QED BY <2>3, <2>4
<1>9. ASSUME NEW name \in Names
      PROVE  /\ GiversFrom(t.files, p, name) \in Seq(DOMAIN t.files)
             /\ GiversFrom(t.files, p, name) # <<>> => \E i \in DOMAIN f.cities : f.cities[i].name = name
  BY <1>6, <1>7 DEF CitiesFine, HeldFine
<1>10. Finished(t, p, f.cities, W)
  <2>1. IsSeq(f.cities) /\ UniqueSlugs(f.cities)
    BY <1>7 DEF CitiesFine
  <2> QED BY <1>8, <1>9, <2>1 DEF Finished
<1> QED BY <1>4, <1>5, <1>10

\* More warnings change nothing of a resolved file.
LEMMA StillFinished ==
  ASSUME NEW t, NEW q, NEW cities, NEW W, NEW W2, W \subseteq W2, Finished(t, q, cities, W)
  PROVE  Finished(t, q, cities, W2)
<1>1. ASSUME NEW i \in DOMAIN cities
      PROVE  Represents(t, View(t, q, cities[i]), GiversFrom(t.files, q, cities[i].name), W2)
  <2> DEFINE v == View(t, q, cities[i])
             G == GiversFrom(t.files, q, cities[i].name)
  <2>1. Represents(t, v, G, W)
    BY DEF Finished
  <2> HIDE DEF v, G
  <2>2. DOMAIN v = CityFields /\ TakesGrid(v, v)
    BY <2>1 DEF Represents, IsCity, TakesGrid
  <2>3. Represents(t, v, G, W2)
    BY <2>1, <2>2, StillRepresents
  <2> QED BY <2>3 DEF v, G
<1> QED BY <1>1 DEF Finished

-----------------------------------------------------------------------------
(* The invariant of a load.                                                *)

DoneFine(t, done, W) ==
  /\ DOMAIN done \subseteq DOMAIN t.files
  /\ Settled(t, DOMAIN done, DOMAIN t.files) /\ Settled(t, DOMAIN done, STRING)
  /\ \A q \in DOMAIN done : Child(t, q, done[q], W)
StackFine(t, s, S, W) ==
  /\ IsSeq(s) /\ (s # <<>> => s[1].path = t.root)
  /\ \A i \in DOMAIN s : FrameFine(t, s[i], S, W) /\ s[i].path \notin S
  /\ \A i, j \in DOMAIN s : s[i].path = s[j].path => i = j
  /\ \A i \in DOMAIN s : i + 1 \in DOMAIN s =>
       s[i].next <= Len(t.files[s[i].path].include) /\ NextInclude(t, s[i]).path = s[i + 1].path
LoadedFine(t, conf, W) ==
  /\ t.root \in DOMAIN t.files
  /\ conf.id = ConfigId(t.root, t.files[t.root]) /\ conf.hash = HashBlobs(BlobsOf(t.files, t.root))
  /\ Finished(t, t.root, conf.cities, W)
ConfigInvariant ==
  /\ IsTree(tree)
  /\ outcome = "loading" => /\ DoneFine(tree, cache, warned) /\ StackFine(tree, stack, DOMAIN cache, warned)
                            /\ stack = <<>> => DOMAIN cache = {}
  /\ outcome = "loaded" => LoadedFine(tree, loaded, warned)

\* The places of a sequence.
LEMMA PlacesAre ==
  ASSUME NEW s, IsSeq(s)
  PROVE  /\ Len(s) \in Nat /\ DOMAIN s = 1..Len(s) /\ (s # <<>> <=> Len(s) # 0) /\ (s # <<>> => Len(s) \in DOMAIN s /\ 1 \in DOMAIN s)
<1> DEFINE R == Range(s)
<1>1. s \in Seq(R)
  BY DEF IsSeq
<1> HIDE DEF R
<1>2. Len(s) \in Nat /\ DOMAIN s = 1..Len(s)
  BY <1>1
<1>3. s # <<>> <=> Len(s) # 0
  BY <1>1
<1> QED BY <1>2, <1>3

\* A sequence without its last element.
LEMMA FrontIs ==
  ASSUME NEW s, IsSeq(s), Len(s) > 1
  PROVE  /\ IsSeq(Front(s)) /\ Front(s) # <<>> /\ Len(Front(s)) = Len(s) - 1 /\ DOMAIN Front(s) = 1..(Len(s) - 1)
         /\ \A i \in DOMAIN Front(s) : i \in DOMAIN s /\ Front(s)[i] = s[i]
<1> DEFINE R == Range(s)
           u == Front(s)
           n == Len(s) - 1
<1>1. s \in Seq(R)
  BY DEF IsSeq
<1> HIDE DEF R
<1>2. n \in Nat /\ n # 0 /\ 1..n \subseteq DOMAIN s
  <2> DEFINE m == Len(s)
  <2>1. m \in Nat /\ DOMAIN s = 1..m /\ m > 1
    BY <1>1
  <2> HIDE DEF m
  <2>2. m - 1 \in Nat /\ m - 1 # 0 /\ 1..(m - 1) \subseteq 1..m
    BY <2>1
  <2> QED BY <2>1, <2>2 DEF m
<1>3. u = SubSeq(s, 1, Len(s) - 1)
  BY DEF Front
<1>4. u \in Seq(R) /\ Len(u) = n /\ DOMAIN u = 1..n /\ \A i \in 1..n : u[i] = s[i]
  BY <1>1, <1>3
<1> HIDE DEF n, u
<1>5. IsSeq(u)
  <2> DEFINE Q == Range(u)
  <2>1. \A i \in 1..n : u[i] \in Q
    BY <1>4 DEF Range
  <2> HIDE DEF Q
  <2>2. u \in [1..n -> R]
    BY <1>4
  <2>3. u \in [1..n -> Q]
    BY <2>1, <2>2
  <2>4. u \in Seq(Q)
    BY <1>2, <2>3, SeqIs
  <2> QED BY <2>4 DEF IsSeq, Q
<1>6. u # <<>>
  BY <1>2, <1>4
<1> QED BY <1>2, <1>4, <1>5, <1>6 DEF n, u

\* A file is opened on top.
LEMMA StackGrows ==
  ASSUME IsTree(tree), NEW s, NEW S, NEW W, StackFine(tree, s, S, W), NEW p \in DOMAIN tree.files, Parses(tree.files[p]), p \notin S,
         \A i \in DOMAIN s : s[i].path # p, s = <<>> => p = tree.root,
         s # <<>> => /\ s[Len(s)].next <= Len(tree.files[s[Len(s)].path].include)
                     /\ NextInclude(tree, s[Len(s)]).path = p
  PROVE  StackFine(tree, Append(s, NewFrame(p)), S, W)
<1> DEFINE f == NewFrame(p)
           u == Append(s, f)
           n == Len(s)
<1>1. IsSeq(s)
  BY DEF StackFine
<1>2. n \in Nat /\ DOMAIN s = 1..n /\ (s # <<>> <=> n # 0)
  BY <1>1, PlacesAre
<1>3. /\ IsSeq(u) /\ DOMAIN u = DOMAIN s \cup {n + 1} /\ n + 1 \notin DOMAIN s
      /\ u[n + 1] = f /\ \A i \in DOMAIN s : u[i] = s[i]
  BY <1>1, AppendIs
<1>4. FrameFine(tree, f, S, W)
  BY NewFrameFine
<1>5. f.path = p
  BY DEF NewFrame
<1> HIDE DEF f, u, n
<1>6. \A i \in DOMAIN u : FrameFine(tree, u[i], S, W) /\ u[i].path \notin S
  BY <1>3, <1>4, <1>5 DEF StackFine
<1>7. \A i, j \in DOMAIN u : u[i].path = u[j].path => i = j
  BY <1>3, <1>5 DEF StackFine
<1>8. u # <<>> => u[1].path = tree.root
  <2>1. CASE n = 0
    BY <1>2, <1>3, <1>5, <2>1
  <2>2. CASE n # 0
    <3>1. 1 \in DOMAIN s
      BY <1>2, <2>2
    <3> QED BY <1>2, <1>3, <2>2, <3>1 DEF StackFine
  <2> QED BY <2>1, <2>2
<1>9. ASSUME NEW i \in DOMAIN u, i + 1 \in DOMAIN u
      PROVE  u[i].next <= Len(tree.files[u[i].path].include) /\ NextInclude(tree, u[i]).path = u[i + 1].path
  <2>1. i \in 1..n
    BY <1>2, <1>3, <1>9
  <2>2. CASE i + 1 \in DOMAIN s
    BY <1>2, <1>3, <2>1, <2>2 DEF StackFine
  <2>3. CASE i = n
    <3>1. s[n].next <= Len(tree.files[s[n].path].include) /\ NextInclude(tree, s[n]).path = p
      BY <1>2, <2>1 DEF n
    <3>2. u[i] = s[n] /\ u[i + 1].path = p
      BY <1>2, <1>3, <1>5, <2>1, <2>3
    <3> QED BY <3>1, <3>2
  <2> QED BY <1>2, <1>3, <1>9, <2>1, <2>2, <2>3
<1> QED BY <1>3, <1>6, <1>7, <1>8, <1>9 DEF StackFine, u, f

\* The topmost file hears of one more include.
LEMMA StackMerges ==
  ASSUME IsTree(tree), NEW s, NEW S, NEW S2, NEW W, NEW W2, StackFine(tree, s, S, W), s # <<>>, S \subseteq S2, W \subseteq W2,
         NEW g, FrameFine(tree, g, S2, W2), g.path = s[Len(s)].path, \A i \in DOMAIN s : s[i].path \notin S2
  PROVE  StackFine(tree, [s EXCEPT ![Len(s)] = g], S2, W2)
<1> DEFINE n == Len(s)
           u == [s EXCEPT ![n] = g]
<1>1. IsSeq(s)
  BY DEF StackFine
<1>2. n \in Nat /\ DOMAIN s = 1..n /\ n \in DOMAIN s /\ 1 \in DOMAIN s
  BY <1>1, PlacesAre
<1>3. IsSeq(u) /\ DOMAIN u = DOMAIN s /\ u[n] = g /\ \A j \in DOMAIN s : j # n => u[j] = s[j]
  BY <1>1, <1>2, ReplaceIs
<1> HIDE DEF u
<1>4. \A j \in DOMAIN s : u[j].path = s[j].path
  BY <1>2, <1>3
<1> HIDE DEF n
<1>5. ASSUME NEW i \in DOMAIN s PROVE FrameFine(tree, u[i], S2, W2)
  <2>1. FrameFine(tree, s[i], S, W)
    BY DEF StackFine
  <2>2. FrameFine(tree, s[i], S2, W2)
    BY <2>1, FrameStill
  <2> QED BY <1>3, <2>2
<1>6. \A i, j \in DOMAIN u : u[i].path = u[j].path => i = j
  BY <1>3, <1>4 DEF StackFine
<1>7. u # <<>> => u[1].path = tree.root
  BY <1>2, <1>4 DEF StackFine
<1>8. ASSUME NEW i \in DOMAIN u, i + 1 \in DOMAIN u
      PROVE  u[i].next <= Len(tree.files[u[i].path].include) /\ NextInclude(tree, u[i]).path = u[i + 1].path
  <2>1. i \in DOMAIN s /\ i + 1 \in DOMAIN s /\ i # n
    BY <1>2, <1>3, <1>8
  <2> QED BY <1>3, <1>4, <2>1 DEF StackFine
<1> QED BY <1>3, <1>4, <1>5, <1>6, <1>7, <1>8 DEF StackFine, u, n

\* With more warnings the resolved files are as they were.
LEMMA DoneStill ==
  ASSUME NEW t, NEW done, NEW W, NEW W2, W \subseteq W2, DoneFine(t, done, W)
  PROVE  DoneFine(t, done, W2)
<1>1. ASSUME NEW q \in DOMAIN done PROVE Child(t, q, done[q], W2)
  <2>1. Child(t, q, done[q], W)
    BY DEF DoneFine
  <2> QED BY <2>1, StillFinished DEF Child
<1> QED BY <1>1 DEF DoneFine

\* What is behind a resolved file is known.
LEMMA DoneIsKnown ==
  ASSUME NEW t, IsTree(t), NEW done, NEW W, DoneFine(t, done, W)
  PROVE  Known(t, DOMAIN done)
<1>1. DOMAIN done \subseteq DOMAIN t.files /\ Settled(t, DOMAIN done, DOMAIN t.files) /\ Settled(t, DOMAIN done, STRING)
  BY DEF DoneFine
<1> QED BY <1>1, SettledIsKnown

\* A file of which all the includes are resolved is one more resolved file.
LEMMA DoneGrows ==
  ASSUME NEW t, IsTree(t), NEW done, NEW W, DoneFine(t, done, W), NEW q \in DOMAIN t.files, q \notin DOMAIN done,
         IncludesAre(t, q, DOMAIN done), NEW child, Child(t, q, child, W), NEW more,
         more = [p \in DOMAIN done \cup {q} |-> IF p = q THEN child ELSE done[p]]
  PROVE  DoneFine(t, more, W)
<1> DEFINE S == DOMAIN done
<1>1. S \subseteq DOMAIN t.files /\ Settled(t, S, DOMAIN t.files) /\ Settled(t, S, STRING) /\ \A p \in S : Child(t, p, done[p], W)
  BY DEF DoneFine
<1>2. Settled(t, S \cup {q}, DOMAIN t.files)
  BY <1>1, Settles
<1>3. Settled(t, S \cup {q}, STRING)
  BY <1>1, Settles
<1>4. DOMAIN more = S \cup {q} /\ more[q] = child /\ \A p \in S : more[p] = done[p]
  OBVIOUS
<1> HIDE DEF S
<1>5. \A p \in S \cup {q} : Child(t, p, more[p], W)
  BY <1>1, <1>4
<1> QED BY <1>1, <1>2, <1>3, <1>4, <1>5 DEF DoneFine

\* A resolved file is handed to its includer.
Receives(below, S, S2, child) ==
  /\ StackFine(tree, below, S, warned) /\ below # <<>> /\ S \subseteq S2 /\ S2 \subseteq DOMAIN tree.files /\ Known(tree, S2)
  /\ \A i \in DOMAIN below : below[i].path \notin S2
  /\ below[Len(below)].next <= Len(tree.files[below[Len(below)].path].include)
  /\ NextInclude(tree, below[Len(below)]).path \in S2
  /\ Child(tree, NextInclude(tree, below[Len(below)]).path, child, warned)

\* Then the load fails, or the including file has heard of it.
LEMMA MergeIntoFine ==
  ASSUME IsTree(tree), NEW below, NEW S, NEW S2, NEW child, Receives(below, S, S2, child), MergeInto(below, child)
  PROVE  \/ outcome' = "failed" /\ UNCHANGED cache
         \/ /\ UNCHANGED <<outcome, loaded>> /\ warned \subseteq warned' /\ stack' # <<>>
            /\ StackFine(tree, stack', S2, warned')
<1> DEFINE n == Len(below)
           frame == below[n]
           inc == Includes(frame)[frame.next]
           merged == MergeIncludedCities(frame, inc, child)
           g == [frame EXCEPT !.cities = merged.cities, !.via = merged.via, !.blobs = @ \o child.blobs, !.next = @ + 1]
<1>1. /\ StackFine(tree, below, S, warned) /\ below # <<>> /\ S \subseteq S2 /\ S2 \subseteq DOMAIN tree.files /\ Known(tree, S2)
      /\ \A i \in DOMAIN below : below[i].path \notin S2
      /\ frame.next <= Len(tree.files[frame.path].include)
      /\ inc = NextInclude(tree, frame) /\ inc.path \in S2 /\ Child(tree, inc.path, child, warned)
  BY DEF Receives, Includes, NextInclude
<1>2. IF merged.clash THEN Fail
      ELSE stack' = [below EXCEPT ![n] = g] /\ warned' = merged.warned /\ UNCHANGED <<outcome, loaded>>
  BY DEF MergeInto
<1>3. CASE merged.clash
  BY <1>2, <1>3 DEF Fail
<1>4. CASE ~merged.clash
  <2>1. IsSeq(below) /\ n \in DOMAIN below
    BY <1>1, PlacesAre DEF StackFine
  <2>2. FrameFine(tree, frame, S, warned)
    BY <1>1, <2>1 DEF StackFine
  <2> HIDE DEF frame, n
  <2>3. warned \subseteq merged.warned /\ FrameFine(tree, g, S2, merged.warned) /\ g.path = frame.path
    <3>1. inc.path \in DOMAIN tree.files
      BY <1>1
    <3>2. Hears(frame, S, S2, inc, child, merged, g)
      BY <1>1, <2>2, <3>1 DEF Hears
    <3> HIDE DEF inc, g, merged
    <3> QED BY <1>4, <3>2, FrameMerges
  <2> HIDE DEF g, merged
  <2>4. StackFine(tree, [below EXCEPT ![n] = g], S2, merged.warned)
    BY <1>1, <2>3, StackMerges DEF frame, n
  <2>5. [below EXCEPT ![n] = g] # <<>>
    <3>1. DOMAIN [below EXCEPT ![n] = g] = DOMAIN below
      OBVIOUS
    <3>2. DOMAIN <<>> = {}
      OBVIOUS
    <3> QED BY <2>1, <3>1, <3>2
  <2> QED BY <1>2, <1>4, <2>3, <2>4, <2>5
<1> QED BY <1>3, <1>4

\* A file that is not resolved is opened, or the load fails.
LEMMA OpenFine ==
  ASSUME IsTree(tree), NEW p, Open(p), DoneFine(tree, cache, warned), StackFine(tree, stack, DOMAIN cache, warned),
         p \notin DOMAIN cache, stack = <<>> => p = tree.root,
         stack # <<>> => /\ stack[Len(stack)].next <= Len(tree.files[stack[Len(stack)].path].include)
                         /\ NextInclude(tree, stack[Len(stack)]).path = p
  PROVE  \/ outcome' = "failed"
         \/ /\ UNCHANGED <<cache, warned, outcome, loaded>> /\ stack' # <<>>
            /\ StackFine(tree, stack', DOMAIN cache, warned)
<1> DEFINE refused == \/ Depth > MaxIncludeDepth
                      \/ p \in Ancestors
                      \/ ~IsRegular(p)
                      \/ IsRegular(p) /\ ~Parses(tree.files[p])
<1>0. IF refused THEN Fail ELSE stack' = Append(stack, NewFrame(p)) /\ UNCHANGED <<cache, warned, outcome, loaded>>
  BY DEF Open
<1> HIDE DEF refused
<1>1. CASE refused
  BY <1>0, <1>1 DEF Fail
<1>2. CASE ~refused
  <2>1. stack' = Append(stack, NewFrame(p)) /\ UNCHANGED <<cache, warned, outcome, loaded>>
    BY <1>0, <1>2
  <2>2. p \notin Ancestors /\ IsRegular(p) /\ Parses(tree.files[p])
    BY <1>2 DEF refused
  <2>3. p \in DOMAIN tree.files /\ Parses(tree.files[p]) /\ \A i \in DOMAIN stack : stack[i].path # p
    BY <2>2, Zenon DEF IsRegular, Ancestors
  <2>4. StackFine(tree, Append(stack, NewFrame(p)), DOMAIN cache, warned)
    BY <2>3, StackGrows
  <2>5. Append(stack, NewFrame(p)) # <<>>
    <3> DEFINE f == NewFrame(p)
    <3>1. IsSeq(stack)
      BY DEF StackFine
    <3> HIDE DEF f
    <3>2. Len(stack) + 1 \in DOMAIN Append(stack, f)
      BY <3>1, AppendIs
    <3>3. DOMAIN <<>> = {}
      OBVIOUS
    <3> QED BY <3>2, <3>3 DEF f
  <2> QED BY <2>1, <2>4, <2>5
<1> QED BY <1>1, <1>2

\* A configuration of Trees is a tree; at first no file is resolved.
LEMMA ConfigStarts == ConfigInit => ConfigInvariant
<1> SUFFICES ASSUME ConfigInit PROVE ConfigInvariant
  OBVIOUS
<1> DEFINE none == << >>
<1>1. tree \in Trees /\ stack = none /\ cache = none /\ warned = {} /\ outcome = "loading"
  BY DEF ConfigInit
<1>2. IsTree(tree)
  BY <1>1, TreesAssumption DEF IsTree
<1>3. DOMAIN none = {} /\ none \in Seq(Range(none))
  OBVIOUS
<1> HIDE DEF none
<1>4. DoneFine(tree, cache, warned)
  <2>1. Settled(tree, {}, DOMAIN tree.files) /\ Settled(tree, {}, STRING)
    BY NoneSettled
  <2> QED BY <1>1, <1>3, <2>1 DEF DoneFine
<1>5. StackFine(tree, stack, DOMAIN cache, warned)
  <2>1. none = <<>>
    BY DEF none
  <2> QED BY <1>1, <1>3, <2>1 DEF StackFine, IsSeq
<1> QED BY <1>1, <1>2, <1>3, <1>4, <1>5 DEF ConfigInvariant

\* A step that fails the load, or leaves it as fine as it was.
Onwards == \/ outcome' = "failed"
           \/ /\ outcome' = "loading" /\ stack' # <<>> /\ DoneFine(tree, cache', warned')
              /\ StackFine(tree, stack', DOMAIN cache', warned')

\* Such a step keeps the invariant.
LEMMA OnwardsKeeps ==
  ASSUME ConfigInvariant, UNCHANGED tree, Onwards
  PROVE  ConfigInvariant'
<1>1. IsTree(tree)'
  BY DEF ConfigInvariant
<1>2. CASE outcome' = "failed"
  BY <1>1, <1>2 DEF ConfigInvariant
<1>3. CASE /\ outcome' = "loading" /\ stack' # <<>> /\ DoneFine(tree, cache', warned')
           /\ StackFine(tree, stack', DOMAIN cache', warned')
  BY <1>1, <1>3 DEF ConfigInvariant
<1> QED BY <1>2, <1>3 DEF Onwards

\* The root is opened first.
LEMMA LoadRootKeeps ==
  ASSUME ConfigInvariant, LoadRoot
  PROVE  ConfigInvariant'
<1>1. /\ IsTree(tree) /\ outcome = "loading" /\ stack = <<>> /\ DOMAIN cache = {}
      /\ DoneFine(tree, cache, warned) /\ StackFine(tree, stack, DOMAIN cache, warned)
      /\ Open(tree.root) /\ UNCHANGED tree
  BY DEF LoadRoot, ConfigInvariant
<1>2. \/ outcome' = "failed"
      \/ /\ UNCHANGED <<cache, warned, outcome, loaded>> /\ stack' # <<>>
         /\ StackFine(tree, stack', DOMAIN cache, warned)
  BY <1>1, OpenFine
<1>3. Onwards
  BY <1>1, <1>2 DEF Onwards
<1> QED BY <1>1, <1>3, OnwardsKeeps

\* The next include is merged, if it is resolved, or else opened.
LEMMA ResolveOneIncludeKeeps ==
  ASSUME ConfigInvariant, ResolveOneInclude
  PROVE  ConfigInvariant'
<1> DEFINE p == Includes(Top)[Top.next].path
           S == DOMAIN cache
<1>1. /\ IsTree(tree) /\ outcome = "loading" /\ stack # <<>>
      /\ DoneFine(tree, cache, warned) /\ StackFine(tree, stack, S, warned)
      /\ Top.next <= Len(Includes(Top)) /\ UNCHANGED tree
      /\ IF p = "" THEN Fail ELSE IF p \in S THEN MergeInto(stack, cache[p]) /\ UNCHANGED cache ELSE Open(p)
  BY DEF ResolveOneInclude, ConfigInvariant
<1>2. NextInclude(tree, stack[Len(stack)]).path = p /\ stack[Len(stack)].next <= Len(tree.files[stack[Len(stack)].path].include)
  BY <1>1 DEF NextInclude, Includes, Top
<1> HIDE DEF p
<1>3. CASE p = ""
  <2>1. Onwards
    BY <1>1, <1>3 DEF Fail, Onwards
  <2> QED BY <1>1, <2>1, OnwardsKeeps
<1>4. CASE p # "" /\ p \in S
  <2>1. MergeInto(stack, cache[p]) /\ UNCHANGED cache
    BY <1>1, <1>4
  <2>2. /\ S \subseteq DOMAIN tree.files /\ Child(tree, p, cache[p], warned) /\ Known(tree, S)
    BY <1>1, <1>4, DoneIsKnown DEF DoneFine
  <2>3. \A i \in DOMAIN stack : stack[i].path \notin S
    BY <1>1 DEF StackFine
  <2> DEFINE child == cache[p]
  <2>4. Receives(stack, S, S, child)
    BY <1>1, <1>2, <1>4, <2>2, <2>3 DEF Receives
  <2>5. MergeInto(stack, child)
    BY <2>1
  <2> HIDE DEF child
  <2>6. \/ outcome' = "failed" /\ UNCHANGED cache
        \/ /\ UNCHANGED <<outcome, loaded>> /\ warned \subseteq warned' /\ stack' # <<>>
           /\ StackFine(tree, stack', S, warned')
    BY <1>1, <2>4, <2>5, MergeIntoFine
  <2>7. warned \subseteq warned' => DoneFine(tree, cache, warned')
    BY <1>1, DoneStill
  <2>8. Onwards
    BY <1>1, <2>1, <2>6, <2>7 DEF Onwards
  <2> QED BY <1>1, <2>8, OnwardsKeeps
<1>5. CASE p # "" /\ p \notin S
  <2>1. Open(p)
    BY <1>1, <1>5
  <2>2. \/ outcome' = "failed"
        \/ /\ UNCHANGED <<cache, warned, outcome, loaded>> /\ stack' # <<>>
           /\ StackFine(tree, stack', S, warned)
    BY <1>1, <1>2, <1>5, <2>1, OpenFine
  <2>3. Onwards
    BY <1>1, <2>2 DEF Onwards
  <2> QED BY <1>1, <2>3, OnwardsKeeps
<1> QED BY <1>3, <1>4, <1>5

\* A resolved file is the topmost one, of which all includes are merged.
LEMMA TopFinished ==
  ASSUME ConfigInvariant, outcome = "loading", stack # <<>>, Top.next > Len(Includes(Top))
  PROVE  /\ Top.path \in DOMAIN tree.files /\ Top.path \notin DOMAIN cache /\ IncludesAre(tree, Top.path, DOMAIN cache)
         /\ Top.blobs = BlobsOf(tree.files, Top.path) /\ Finished(tree, Top.path, Top.cities, warned)
<1> DEFINE S == DOMAIN cache
           f == Top
<1>1. /\ IsTree(tree) /\ DoneFine(tree, cache, warned) /\ StackFine(tree, stack, S, warned)
  BY DEF ConfigInvariant
<1>2. Len(stack) \in DOMAIN stack
  BY <1>1, PlacesAre DEF StackFine
<1>3. FrameFine(tree, f, S, warned) /\ f.path \notin S
  BY <1>1, <1>2 DEF StackFine, Top
<1>4. S \subseteq DOMAIN tree.files /\ Settled(tree, S, DOMAIN tree.files) /\ Settled(tree, S, STRING)
  BY <1>1 DEF DoneFine
<1>5. f.next > Len(tree.files[f.path].include)
  BY DEF Includes
<1> HIDE DEF f, S
<1>6. /\ f.blobs = BlobsOf(tree.files, f.path) /\ Finished(tree, f.path, f.cities, warned)
      /\ IncludesAre(tree, f.path, S)
  BY <1>1, <1>3, <1>4, <1>5, FrameFinished
<1>7. f.path \in DOMAIN tree.files
  BY <1>3 DEF FrameFine
<1> QED BY <1>3, <1>6, <1>7 DEF f, S

\* The files below the topmost one wait for it.
LEMMA BelowFine ==
  ASSUME NEW t, NEW s, NEW S, NEW W, StackFine(t, s, S, W), Len(s) > 1
  PROVE  /\ StackFine(t, Front(s), S, W) /\ Front(s) # <<>>
         /\ \A i \in DOMAIN Front(s) : Front(s)[i].path \notin S \cup {s[Len(s)].path}
         /\ Front(s)[Len(Front(s))].next <= Len(t.files[Front(s)[Len(Front(s))].path].include)
         /\ NextInclude(t, Front(s)[Len(Front(s))]).path = s[Len(s)].path
<1> DEFINE u == Front(s)
           n == Len(s)
           m == Len(u)
<1>1. IsSeq(s)
  BY DEF StackFine
<1>2. n \in Nat /\ DOMAIN s = 1..n /\ n > 1
  BY <1>1, PlacesAre
<1>3. /\ IsSeq(u) /\ u # <<>> /\ m = n - 1 /\ DOMAIN u = 1..(n - 1)
      /\ \A i \in DOMAIN u : i \in DOMAIN s /\ u[i] = s[i]
  BY <1>1, FrontIs
<1> HIDE DEF u, n, m
<1>4. m \in DOMAIN u /\ m + 1 = n /\ n \in DOMAIN s /\ 1 \in DOMAIN u /\ n \notin DOMAIN u
  BY <1>2, <1>3
<1>5. StackFine(t, u, S, W)
  <2>1. u # <<>> => u[1].path = t.root
    <3>1. s # <<>>
      BY <1>1, <1>4, PlacesAre DEF n
    <3> QED BY <1>3, <1>4, <3>1 DEF StackFine
  <2>2. \A i \in DOMAIN u : FrameFine(t, u[i], S, W) /\ u[i].path \notin S
    BY <1>3 DEF StackFine
  <2>3. \A i, j \in DOMAIN u : u[i].path = u[j].path => i = j
    BY <1>3 DEF StackFine
  <2>4. \A i \in DOMAIN u : i + 1 \in DOMAIN u =>
          u[i].next <= Len(t.files[u[i].path].include) /\ NextInclude(t, u[i]).path = u[i + 1].path
    BY <1>3 DEF StackFine
  <2> QED BY <1>3, <2>1, <2>2, <2>3, <2>4 DEF StackFine
<1>6. \A i \in DOMAIN u : u[i].path \notin S \cup {s[n].path}
  BY <1>3, <1>4 DEF StackFine
<1>7. u[m].next <= Len(t.files[u[m].path].include) /\ NextInclude(t, u[m]).path = s[n].path
  <2>1. u[m] = s[m] /\ m \in DOMAIN s /\ m + 1 \in DOMAIN s
    BY <1>3, <1>4
  <2>2. s[m].next <= Len(t.files[s[m].path].include) /\ NextInclude(t, s[m]).path = s[m + 1].path
    BY <2>1 DEF StackFine
  <2> QED BY <1>4, <2>1, <2>2
<1> QED BY <1>3, <1>5, <1>6, <1>7 DEF u, n, m

\* A resolved file is kept, and merged into the file that waits for it.
LEMMA ResolvedKeeps ==
  ASSUME ConfigInvariant, Resolved
  PROVE  ConfigInvariant'
<1> DEFINE S == DOMAIN cache
           q == Top.path
           child == [cities |-> Top.cities, blobs |-> Top.blobs]
           below == Front(stack)
           more == [p \in DOMAIN cache \cup {q} |-> IF p = q THEN child ELSE cache[p]]
<1>1. /\ IsTree(tree) /\ outcome = "loading" /\ stack # <<>> /\ DoneFine(tree, cache, warned) /\ StackFine(tree, stack, S, warned)
      /\ Len(stack) > 1 /\ UNCHANGED tree /\ MergeInto(below, child)
      /\ cache' = IF outcome' = "failed" THEN cache ELSE more
  BY DEF Resolved, ConfigInvariant
<1>2. /\ q \in DOMAIN tree.files /\ q \notin S /\ IncludesAre(tree, q, S)
      /\ Top.blobs = BlobsOf(tree.files, q) /\ Finished(tree, q, Top.cities, warned)
  BY TopFinished DEF Resolved
<1>3. Child(tree, q, child, warned)
  BY <1>2 DEF Child
<1>4. q = stack[Len(stack)].path
  BY DEF Top
<1> HIDE DEF child, q
<1>5. DoneFine(tree, more, warned)
  BY <1>1, <1>2, <1>3, DoneGrows
<1>6. DOMAIN more = S \cup {q}
  OBVIOUS
<1> HIDE DEF more
<1>7. Known(tree, S \cup {q}) /\ S \cup {q} \subseteq DOMAIN tree.files
  BY <1>1, <1>5, <1>6, DoneIsKnown DEF DoneFine
<1>8. /\ StackFine(tree, below, S, warned) /\ below # <<>> /\ \A i \in DOMAIN below : below[i].path \notin S \cup {q}
      /\ below[Len(below)].next <= Len(tree.files[below[Len(below)].path].include)
      /\ NextInclude(tree, below[Len(below)]).path = q
  BY <1>1, <1>4, BelowFine
<1> HIDE DEF below
<1>9. Receives(below, S, S \cup {q}, child)
  BY <1>3, <1>7, <1>8 DEF Receives
<1>10. \/ outcome' = "failed" /\ UNCHANGED cache
       \/ /\ UNCHANGED <<outcome, loaded>> /\ warned \subseteq warned' /\ stack' # <<>>
          /\ StackFine(tree, stack', S \cup {q}, warned')
  <2> DEFINE S2 == S \cup {q}
  <2> HIDE DEF S2
  <2> QED BY <1>1, <1>9, MergeIntoFine DEF S2
<1>11. warned \subseteq warned' => DoneFine(tree, more, warned')
  BY <1>5, DoneStill
<1>12. CASE outcome' = "failed"
  <2>1. Onwards
    BY <1>12 DEF Onwards
  <2> QED BY <1>1, <2>1, OnwardsKeeps
<1>13. CASE outcome' # "failed"
  <2>1. cache' = more
    BY <1>1, <1>13
  <2>2. Onwards
    BY <1>1, <1>6, <1>10, <1>11, <1>13, <2>1 DEF Onwards
  <2> QED BY <1>1, <2>2, OnwardsKeeps
<1> QED BY <1>12, <1>13

\* The root is resolved at last.
LEMMA LoadEndsKeeps ==
  ASSUME ConfigInvariant, LoadEnds
  PROVE  ConfigInvariant'
<1>1. /\ IsTree(tree) /\ outcome = "loading" /\ Len(stack) = 1 /\ Top.next > Len(Includes(Top)) /\ UNCHANGED tree
      /\ StackFine(tree, stack, DOMAIN cache, warned)
  BY DEF LoadEnds, ConfigInvariant
<1>2. stack # <<>> /\ Top.path = tree.root
  <2>1. IsSeq(stack)
    BY <1>1 DEF StackFine
  <2>2. stack # <<>>
    BY <1>1, <2>1, PlacesAre
  <2> QED BY <1>1, <2>2 DEF StackFine, Top
<1>3. /\ Top.path \in DOMAIN tree.files /\ Top.blobs = BlobsOf(tree.files, Top.path)
      /\ Finished(tree, Top.path, Top.cities, warned)
  BY <1>1, <1>2, TopFinished
<1>4. \/ outcome' = "failed"
      \/ /\ outcome' = "loaded" /\ UNCHANGED warned
         /\ loaded' = [cities |-> Top.cities, path |-> Top.path, id |-> ConfigId(Top.path, tree.files[Top.path]),
                       hash |-> HashBlobs(Top.blobs)]
  BY DEF LoadEnds, Fail
<1>5. CASE outcome' = "failed"
  <2>1. Onwards
    BY <1>5 DEF Onwards
  <2> QED BY <1>1, <2>1, OnwardsKeeps
<1>6. CASE /\ outcome' = "loaded" /\ UNCHANGED warned
           /\ loaded' = [cities |-> Top.cities, path |-> Top.path, id |-> ConfigId(Top.path, tree.files[Top.path]),
                         hash |-> HashBlobs(Top.blobs)]
  <2>1. /\ loaded'.cities = Top.cities /\ loaded'.id = ConfigId(tree.root, tree.files[tree.root])
        /\ loaded'.hash = HashBlobs(BlobsOf(tree.files, tree.root))
    BY <1>2, <1>3, <1>6
  <2>2. LoadedFine(tree, loaded', warned')
    BY <1>2, <1>3, <1>6, <2>1 DEF LoadedFine
  <2> QED BY <1>1, <1>6, <2>2 DEF ConfigInvariant
<1> QED BY <1>4, <1>5, <1>6

\* Every file of a load stands for what it says and what it includes.
THEOREM ConfigAlwaysRepresentsItsFiles == ConfigSpec => []ConfigInvariant
<1>1. ConfigInvariant /\ [ConfigNext]_configVars => ConfigInvariant'
  <2> SUFFICES ASSUME ConfigInvariant, [ConfigNext]_configVars PROVE ConfigInvariant'
    OBVIOUS
  <2>1. CASE LoadRoot
    BY <2>1, LoadRootKeeps
  <2>2. CASE ResolveOneInclude
    BY <2>2, ResolveOneIncludeKeeps
  <2>3. CASE Resolved
    BY <2>3, ResolvedKeeps
  <2>4. CASE LoadEnds
    BY <2>4, LoadEndsKeeps
  <2>5. CASE UNCHANGED configVars
    BY <2>5 DEF configVars, ConfigInvariant
  <2> QED BY <2>1, <2>2, <2>3, <2>4, <2>5 DEF ConfigNext
<1> QED BY <1>1, ConfigStarts, PTL DEF ConfigSpec

\* A city of a loaded configuration stands, seen from outside, for its givers.
Loads(c, v, g) ==
  /\ v = View(tree, tree.root, c) /\ g = Givers(c.name) /\ IsCity(c) /\ Represents(tree, v, g, warned)
  /\ tree.root \in DOMAIN tree.files
  /\ loaded.id = ConfigId(tree.root, tree.files[tree.root]) /\ loaded.hash = HashBlobs(BlobsOf(tree.files, tree.root))

\* It does so in every loaded configuration.
LEMMA LoadedLoads ==
  ASSUME ConfigInvariant, outcome = "loaded", NEW c \in Range(loaded.cities)
  PROVE  Loads(c, View(tree, tree.root, c), Givers(c.name))
<1>1. LoadedFine(tree, loaded, warned)
  BY DEF ConfigInvariant
<1>2. PICK i \in DOMAIN loaded.cities : c = loaded.cities[i]
  BY DEF Range
<1>3. IsCity(c) /\ Represents(tree, View(tree, tree.root, c), GiversFrom(tree.files, tree.root, c.name), warned)
  BY <1>1, <1>2 DEF LoadedFine, Finished
<1> QED BY <1>1, <1>3 DEF LoadedFine, Loads, Givers

\* The fields that a view resolves.
LEMMA Seen ==
  ASSUME IsTree(tree), NEW c, NEW v, NEW g, Loads(c, v, g)
  PROVE  /\ IsCity(v) /\ v.name = c.name
         /\ v.edge = EffectiveHexEdge(tree.files[tree.root], c) /\ v.minArea = EffectiveMinHexArea(tree.files[tree.root], c)
         /\ v.forecast = EffectiveForecast(tree.files[tree.root], c)
         /\ v.source = IF c.source = <<>> THEN <<SourceIdentity(tree.files[tree.root], tree.root, BlobsOf(tree.files, tree.root))>>
                       ELSE c.source
         /\ c.sourceEdge \in {0, v.sourceEdge}
<1>1. DOMAIN c = CityFields
  BY DEF Loads, IsCity
<1>2. IsCity(v) /\ v.name = c.name
  BY ViewIs DEF Loads
<1>3. v = View(tree, tree.root, c)
  BY DEF Loads
<1> QED BY <1>1, <1>2, <1>3 DEF View, CityFields

\* The givers that state something are the places of one of a set.
LEMMA PlacesOfGivers ==
  ASSUME NEW name, NEW g \in Seq(DOMAIN tree.files)
  PROVE  /\ Gridded(tree.files, g, name) = At(Grids(tree, name), g)
         /\ Conditioned(tree.files, g, name) = At(Conditions(tree, name), g)
         /\ Growing(tree.files, g, name) = At(Growths(tree, name), g)
<1>1. \A i \in DOMAIN g : g[i] \in DOMAIN tree.files
  OBVIOUS
<1> QED BY <1>1 DEF Gridded, Conditioned, Growing, At, Grids, Conditions, Growths

\* An included city reads the rows of the owner of its grid.
LEMMA LoadReadsItsOwnRows == ConfigInvariant => IncludedCityReadsItsOwnRows
<1> SUFFICES ASSUME ConfigInvariant, outcome = "loaded", NEW c \in Range(loaded.cities)
             PROVE  LET p == Owner(tree.files, Givers(c.name), c.name)
                        own == OwnCity(tree.files[p], c.name)
                    IN /\ CityConfigID(c) = ConfigId(p, tree.files[p])
                       /\ CityHash(c) = HashBlobs(BlobsOf(tree.files, p))
                       /\ ResolvedHexEdge(tree.files[tree.root], c) = ResolvedHexEdge(tree.files[p], own)
                       /\ ResolvedMinHexArea(tree.files[tree.root], c) = ResolvedMinHexArea(tree.files[p], own)
                       /\ c.sourceEdge \in {0, ResolvedHexEdge(tree.files[p], own)}
  BY DEF IncludedCityReadsItsOwnRows
<1> DEFINE g == Givers(c.name)
           v == View(tree, tree.root, c)
           root == tree.files[tree.root]
           p == Owner(tree.files, g, c.name)
           file == tree.files[p]
           own == OwnCity(file, c.name)
           me == SourceIdentity(root, tree.root, BlobsOf(tree.files, tree.root))
           id == SourceIdentity(file, p, BlobsOf(tree.files, p))
<1>1. IsTree(tree) /\ Loads(c, v, g)
  BY LoadedLoads DEF ConfigInvariant
<1> HIDE DEF g, v
<1>2. /\ IsCity(v) /\ v.name = c.name
      /\ v.edge = EffectiveHexEdge(root, c) /\ v.minArea = EffectiveMinHexArea(root, c)
      /\ v.forecast = EffectiveForecast(root, c)
      /\ v.source = IF c.source = <<>> THEN <<me>> ELSE c.source
      /\ c.sourceEdge \in {0, v.sourceEdge}
  BY <1>1, Seen
<1>3. Represents(tree, v, g, warned) /\ g \in Seq(DOMAIN tree.files)
  BY <1>1 DEF Loads, Represents
<1>4. p = OwnerOf(tree, g, c.name)
  <2>1. Gridded(tree.files, g, c.name) = At(Grids(tree, c.name), g)
    BY <1>3, PlacesOfGivers
  <2> QED BY <2>1 DEF Owner, OwnerOf, HeadOf
<1> HIDE DEF p
<1>5. IsGridOf(tree, v, p)
  BY <1>2, <1>3, <1>4 DEF Represents, HasGrid
<1>6. /\ v.edge = EffectiveHexEdge(file, own) /\ v.minArea = EffectiveMinHexArea(file, own)
      /\ v.source = <<id>> /\ v.sourceEdge = EdgeIn(tree.env, file, own)
  BY <1>2, <1>5 DEF IsGridOf, StatedGrid
<1>7. loaded.id = me.id /\ loaded.hash = me.hash
  BY <1>1 DEF Loads, SourceIdentity
<1>8. id.id = ConfigId(p, file) /\ id.hash = HashBlobs(BlobsOf(tree.files, p))
  BY DEF SourceIdentity
<1> HIDE DEF me, id, root, file, own
<1>9. CityConfigID(c) = ConfigId(p, file) /\ CityHash(c) = HashBlobs(BlobsOf(tree.files, p))
  <2>1. CASE c.source = <<>>
    <3>1. <<me>> = <<id>>
      BY <1>2, <1>6, <2>1
    <3>2. me = id
      BY <3>1
    <3> QED BY <1>7, <1>8, <2>1, <3>2 DEF CityConfigID, CityHash
  <2>2. CASE c.source # <<>>
    <3>1. c.source[1] = id
      BY <1>2, <1>6, <2>2
    <3> QED BY <1>8, <2>2, <3>1 DEF CityConfigID, CityHash
  <2> QED BY <2>1, <2>2
<1>10. ResolvedHexEdge(root, c) = ResolvedHexEdge(file, own) /\ ResolvedMinHexArea(root, c) = ResolvedMinHexArea(file, own)
  BY <1>2, <1>6 DEF ResolvedHexEdge, ResolvedMinHexArea
<1>11. c.sourceEdge \in {0, ResolvedHexEdge(file, own)}
  <2>1. EdgeIn(tree.env, file, own) = ResolvedHexEdge(file, own)
    BY DEF EdgeIn, ResolvedHexEdge, EdgeFromEnv
  <2> QED BY <1>2, <1>6, <2>1
<1> QED BY <1>9, <1>10, <1>11 DEF root, file, own, p, g

\* Nothing that the givers state is lost without a warning.
LEMMA LoadLosesNothing == ConfigInvariant => NothingStatedIsLostSilently
<1> SUFFICES ASSUME ConfigInvariant, outcome = "loaded", NEW c \in Range(loaded.cities)
             PROVE  LET root == tree.files[tree.root]
                        givers == Givers(c.name)
                        Warned(f) == \E w \in warned : w.slug = Slug(c) /\ w.field = f
                        FirstOf(places) == StatedForecast(tree.files[givers[First(places)]], c.name)
                        grid == [edge |-> EffectiveHexEdge(root, c), minArea |-> EffectiveMinHexArea(root, c)]
                        kept == EffectiveForecast(root, c)
                        first == IF Conditioned(tree.files, givers, c.name) = {} THEN DefaultPCI
                                 ELSE FirstOf(Conditioned(tree.files, givers, c.name)).pci
                    IN /\ grid = StatedGrid(tree.files[Owner(tree.files, givers, c.name)], c.name)
                       /\ kept.growth = IF Growing(tree.files, givers, c.name) = {} THEN 0
                                        ELSE FirstOf(Growing(tree.files, givers, c.name)).growth
                       /\ ResolvedForecast(root, c) = [pci |-> OrElse(PCIFromEnv, first), growth |-> kept.growth]
                       /\ \A i \in DOMAIN givers :
                            LET given == StatedGrid(tree.files[givers[i]], c.name)
                                fc == StatedForecast(tree.files[givers[i]], c.name)
                            IN /\ given.edge \in {0, grid.edge} \/ Warned("edge")
                               /\ given.minArea \in {0, grid.minArea} \/ Warned("minArea")
                               /\ fc.pci \in {0, kept.pci} \/ Warned("pci")
                               /\ ~StatesGrowth(fc) \/ fc.growth = kept.growth \/ Warned("growth")
  BY DEF NothingStatedIsLostSilently
<1> DEFINE g == Givers(c.name)
           v == View(tree, tree.root, c)
           root == tree.files[tree.root]
           grid == [edge |-> EffectiveHexEdge(root, c), minArea |-> EffectiveMinHexArea(root, c)]
           kept == EffectiveForecast(root, c)
           P == Conditioned(tree.files, g, c.name)
           Q == Growing(tree.files, g, c.name)
           FC(p) == StatedForecast(tree.files[p], c.name)
           GR(p) == StatedGrid(tree.files[p], c.name)
           W(f) == \E w \in warned : w.slug = Slug(c) /\ w.field = f
           first == IF P = {} THEN DefaultPCI ELSE FC(g[First(P)]).pci
           owner == Owner(tree.files, g, c.name)
<1>1. IsTree(tree) /\ Loads(c, v, g)
  BY LoadedLoads DEF ConfigInvariant
<1> HIDE DEF g, v
<1>2. /\ IsCity(v) /\ v.name = c.name
      /\ v.edge = EffectiveHexEdge(root, c) /\ v.minArea = EffectiveMinHexArea(root, c)
      /\ v.forecast = EffectiveForecast(root, c)
      /\ v.source = IF c.source = <<>> THEN <<SourceIdentity(root, tree.root, BlobsOf(tree.files, tree.root))>> ELSE c.source
      /\ c.sourceEdge \in {0, v.sourceEdge}
  BY <1>1, Seen
<1>3. Represents(tree, v, g, warned) /\ g \in Seq(DOMAIN tree.files)
  BY <1>1 DEF Loads, Represents
<1>4. /\ P = At(Conditions(tree, c.name), g) /\ Q = At(Growths(tree, c.name), g)
      /\ owner = OwnerOf(tree, g, c.name)
  <2>1. /\ Gridded(tree.files, g, c.name) = At(Grids(tree, c.name), g)
        /\ Conditioned(tree.files, g, c.name) = At(Conditions(tree, c.name), g)
        /\ Growing(tree.files, g, c.name) = At(Growths(tree, c.name), g)
    BY <1>3, PlacesOfGivers
  <2> QED BY <2>1 DEF Owner, OwnerOf, HeadOf
<1>5. grid.edge = v.edge /\ grid.minArea = v.minArea /\ kept = v.forecast
  BY <1>2
<1> HIDE DEF P, Q, owner
<1>6. grid = GR(owner)
  <2>1. IsGridOf(tree, v, owner)
    BY <1>2, <1>3, <1>4 DEF Represents, HasGrid
  <2> QED BY <1>2, <2>1 DEF IsGridOf, StatedGrid
<1>7. kept.pci = IF P = {} THEN 0 ELSE FC(g[First(P)]).pci
  <2>1. v.forecast.pci = IF HeadOf(Conditions(tree, c.name), g) = <<>> THEN 0
                         ELSE FC(HeadOf(Conditions(tree, c.name), g)[1]).pci
    BY <1>2, <1>3 DEF Represents, HasCondition
  <2>2. HeadOf(Conditions(tree, c.name), g) = IF P = {} THEN <<>> ELSE <<g[First(P)]>>
    BY <1>4 DEF HeadOf
  <2> HIDE DEF FC, kept
  <2> QED BY <1>5, <2>1, <2>2
<1>8. kept.growth = IF Q = {} THEN 0 ELSE FC(g[First(Q)]).growth
  <2>1. v.forecast.growth = IF HeadOf(Growths(tree, c.name), g) = <<>> THEN 0
                            ELSE FC(HeadOf(Growths(tree, c.name), g)[1]).growth
    BY <1>2, <1>3 DEF Represents, HasGrowth
  <2>2. HeadOf(Growths(tree, c.name), g) = IF Q = {} THEN <<>> ELSE <<g[First(Q)]>>
    BY <1>4 DEF HeadOf
  <2> HIDE DEF FC, kept
  <2> QED BY <1>5, <2>1, <2>2
<1>9. kept.pci \in Nat
  BY <1>2, <1>5 DEF IsCity, ForecastConfig
<1>10. P # {} => g[First(P)] \in Conditions(tree, c.name)
  <2>1. P \subseteq Nat
    BY <1>3, <1>4 DEF At
  <2>2. P # {} => First(P) \in P
    BY <2>1, FirstIs
  <2> QED BY <1>4, <2>2 DEF At
<1>11. OrElse(kept.pci, DefaultPCI) = first
  <2>1. P # {} => FC(g[First(P)]).pci # 0
    BY <1>10 DEF Conditions
  <2> HIDE DEF FC, kept
  <2> QED BY <1>7, <1>9, <2>1 DEF OrElse
<1>12. ResolvedForecast(root, c) = [pci |-> OrElse(PCIFromEnv, first), growth |-> kept.growth]
  BY <1>11 DEF ResolvedForecast
<1>13. ASSUME NEW i \in DOMAIN g
       PROVE  /\ GR(g[i]).edge \in {0, grid.edge} \/ W("edge")
              /\ GR(g[i]).minArea \in {0, grid.minArea} \/ W("minArea")
              /\ FC(g[i]).pci \in {0, kept.pci} \/ W("pci")
              /\ ~StatesGrowth(FC(g[i])) \/ FC(g[i]).growth = kept.growth \/ W("growth")
  <2>1. TellsOf(tree, v, warned, g[i])
    BY <1>3 DEF Represents
  <2>2. \A f : Told(warned, v, f) <=> W(f)
    BY <1>2 DEF Told, Slug
  <2> HIDE DEF W, grid, kept
  <2>3. /\ GR(g[i]).edge \in {0, v.edge} \/ W("edge")
        /\ GR(g[i]).minArea \in {0, v.minArea} \/ W("minArea")
        /\ FC(g[i]).pci \in {0, v.forecast.pci} \/ W("pci")
        /\ ~StatesGrowth(FC(g[i])) \/ FC(g[i]).growth = v.forecast.growth \/ W("growth")
    BY <1>2, <2>1, <2>2 DEF TellsOf
  <2> HIDE DEF FC, GR
  <2> QED BY <1>5, <2>3
<1> HIDE DEF grid, kept, first, FC, GR, W
<1>14. /\ grid = GR(owner)
       /\ kept.growth = IF Q = {} THEN 0 ELSE FC(g[First(Q)]).growth
       /\ ResolvedForecast(root, c) = [pci |-> OrElse(PCIFromEnv, first), growth |-> kept.growth]
       /\ \A i \in DOMAIN g :
            /\ GR(g[i]).edge \in {0, grid.edge} \/ W("edge")
            /\ GR(g[i]).minArea \in {0, grid.minArea} \/ W("minArea")
            /\ FC(g[i]).pci \in {0, kept.pci} \/ W("pci")
            /\ ~StatesGrowth(FC(g[i])) \/ FC(g[i]).growth = kept.growth \/ W("growth")
  BY <1>6, <1>8, <1>12, <1>13
<1> QED BY <1>14 DEF g, P, Q, root, grid, kept, first, FC, GR, W, owner

\* Whatever files a load reads, each included city reads the rows of the file
\* whose grid it is shown on (include.go, mergeIdentity and mergeExistingCity).
THEOREM IncludedCityAlwaysReadsItsOwnRows == ConfigSpec => []IncludedCityReadsItsOwnRows
BY ConfigAlwaysRepresentsItsFiles, LoadReadsItsOwnRows, PTL

\* For every tree of files: the grid a city is shown on is the whole pair of the
\* first file that states one, its condition and growth are the first stated ones,
\* behind the environment's condition and before the default, and what another
\* file states otherwise has a warning (include.go, mergeExistingCity and its
\* unions; provenance.go, the layers of ResolvedForecast).
THEOREM NothingStatedIsEverLostSilently == ConfigSpec => []NothingStatedIsLostSilently
BY ConfigAlwaysRepresentsItsFiles, LoadLosesNothing, PTL

=============================================================================
