----------------------------- MODULE SumProofs ------------------------------
(***************************************************************************)
(* Sums, for every finite set: what the library's SumFunctionOnSet adds    *)
(* up, in whatever order it is taken, and the inductions it rests on.      *)
(*                                                                         *)
(* The library states induction with the predicate as a parameter. Here it *)
(* is a set, which the provers can instantiate: FromZeroOn follows from    *)
(* the order of the natural numbers being well founded, FromEmptyOn from   *)
(* it.                                                                     *)
(*                                                                         *)
(* And the arithmetic of products and whole quotients, which the SMT       *)
(* solver does not do when both sides vary: QuotientBounds pins a quotient *)
(* between two products, the rest follows from it.                         *)
(***************************************************************************)
EXTENDS Integers, Sequences, FiniteSets, SequencesExt, FiniteSetsExt, Functions, TLAPS,
        FiniteSetTheorems, WellFoundedInduction

\* Induction on the numbers: a set that has 0 and the successor of each of its
\* elements has them all.
LEMMA FromZeroOn ==
  ASSUME NEW P, 0 \in P, \A n \in Nat : n \in P => n + 1 \in P
  PROVE  Nat \subseteq P
<1> DEFINE Q == Nat \ P
<1> SUFFICES ASSUME Q # {} PROVE FALSE
  OBVIOUS
<1>1. PICK x \in Q : \A y \in Q : ~ (<<y, x>> \in OpToRel(<, Nat))
  <2> HIDE DEF Q
  <2>1. Q \subseteq Nat
    BY DEF Q
  <2> QED BY <2>1, NatLessThanWellFounded, WFMin, Zenon
<1>2. \A y \in Q : ~ (y < x)
  BY <1>1 DEF OpToRel
<1>3. x # 0 /\ x - 1 \in Nat /\ x - 1 \notin Q
  BY <1>2
<1>4. (x - 1) + 1 \in P
  BY <1>3
<1> QED BY <1>4, <1>3

\* Induction on the parts of a finite set.
LEMMA FromEmptyOn ==
  ASSUME NEW S, IsFiniteSet(S), NEW P, {} \in P,
         \A T \in SUBSET S : \A x \in S \ T : T \in P => T \cup {x} \in P
  PROVE  S \in P
<1> DEFINE N == {n \in Nat : \A T \in SUBSET S : Cardinality(T) = n => T \in P}
<1>1. 0 \in N
  <2> SUFFICES ASSUME NEW T \in SUBSET S, Cardinality(T) = 0 PROVE T \in P
    OBVIOUS
  <2>1. IsFiniteSet(T)
    BY FS_Subset
  <2> QED BY <2>1, FS_EmptySet
<1>2. ASSUME NEW n \in N PROVE n + 1 \in N
  <2> SUFFICES ASSUME NEW T \in SUBSET S, Cardinality(T) = n + 1 PROVE T \in P
    OBVIOUS
  <2>1. IsFiniteSet(T)
    BY FS_Subset
  <2>2. PICK x \in T : TRUE
    BY <2>1, FS_EmptySet
  <2>3. Cardinality(T \ {x}) = n
    <3>1. Cardinality(T \ {x}) = Cardinality(T) - 1
      BY <2>1, <2>2, FS_RemoveElement
    <3> QED BY <3>1
  <2>4. T \ {x} \in P
    BY <2>3
  <2>5. T = (T \ {x}) \cup {x}
    BY <2>2
  <2> QED BY <2>4, <2>5
<1>3. Nat \subseteq N
  <2> HIDE DEF N
  <2> QED BY <1>1, <1>2, FromZeroOn
<1> QED BY <1>3, FS_CardinalityType

\* What SumFunctionOnSet computes, a set at a time.
One(s) == CHOOSE x \in s : TRUE
Adds(f, S, sum) == sum = [s \in SUBSET S |-> IF s = {} THEN 0 ELSE f[One(s)] + sum[s \ {One(s)}]]

\* Sequences of one kind put end to end.
LEMMA FlattenType ==
  ASSUME NEW T, NEW n \in Nat, NEW seqs \in [1..n -> Seq(T)]
  PROVE  FlattenSeq(seqs) \in Seq(T)
<1> DEFINE Joined(k, f) == f = [i \in 1..k |-> IF i = 1 THEN seqs[i] ELSE f[i - 1] \o seqs[i]]
           P == {k \in Nat : \E f : Joined(k, f)}
<1>0. Len(seqs) = n /\ (n = 0 => seqs = <<>>)
  OBVIOUS
<1>1. 0 \in P
  <2> DEFINE f == [i \in 1..0 |-> <<>>]
  <2>1. Joined(0, f)
    OBVIOUS
  <2> HIDE DEF f, Joined
  <2> QED BY <2>1
<1>2. ASSUME NEW k \in Nat, k \in P PROVE k + 1 \in P
  <2>1. PICK g : Joined(k, g)
    <3> HIDE DEF Joined
    <3> QED BY <1>2
  <2> DEFINE last == IF k = 0 THEN seqs[1] ELSE g[k] \o seqs[k + 1]
             f == [i \in 1..(k + 1) |-> IF i <= k THEN g[i] ELSE last]
  <2>2. \A i \in 1..k : g[i] = IF i = 1 THEN seqs[i] ELSE g[i - 1] \o seqs[i]
    BY <2>1, Zenon
  <2> HIDE DEF last
  <2>3. ASSUME NEW i \in 1..(k + 1) PROVE f[i] = IF i = 1 THEN seqs[i] ELSE f[i - 1] \o seqs[i]
    <3>1. CASE i <= k
      <4>0. i \in 1..k
        BY <3>1
      <4>1. f[i] = g[i] /\ (i # 1 => f[i - 1] = g[i - 1])
        BY <3>1
      <4>2. g[i] = IF i = 1 THEN seqs[i] ELSE g[i - 1] \o seqs[i]
        BY <2>2, <4>0
      <4> HIDE DEF f
      <4> QED BY <4>1, <4>2
    <3>2. CASE i = k + 1
      <4>1. f[i] = last /\ (i # 1 => f[i - 1] = g[k])
        BY <3>2
      <4>2. (i = 1) <=> (k = 0)
        BY <3>2
      <4>3. CASE k = 0
        <5>1. last = seqs[1] /\ i = 1
          BY <4>2, <4>3 DEF last
        <5> HIDE DEF f
        <5> QED BY <4>1, <5>1
      <4>4. CASE k # 0
        <5>1. last = g[k] \o seqs[i] /\ i # 1
          BY <3>2, <4>2, <4>4 DEF last
        <5> HIDE DEF f
        <5> QED BY <4>1, <5>1
      <4> QED BY <4>3, <4>4
    <3> QED BY <3>1, <3>2
  <2>4. f = [i \in 1..(k + 1) |-> f[i]]
    OBVIOUS
  <2> HIDE DEF f
  <2>5. Joined(k + 1, f)
    BY <2>3, <2>4
  <2> HIDE DEF Joined
  <2> QED BY <2>5
<1>3. n \in P
  <2> HIDE DEF P
  <2> QED BY <1>1, <1>2, FromZeroOn
<1>4. PICK g : Joined(n, g)
  <2> HIDE DEF Joined
  <2> QED BY <1>3
<1> DEFINE flatten == CHOOSE f : Joined(n, f)
<1>5. Joined(n, flatten)
  <2> HIDE DEF Joined
  <2> QED BY <1>4
<1> HIDE DEF flatten
<1> DEFINE Q == {k \in Nat : k + 1 <= n => flatten[k + 1] \in Seq(T)}
<1>6. \A i \in 1..n : flatten[i] = IF i = 1 THEN seqs[i] ELSE flatten[i - 1] \o seqs[i]
  BY <1>5
<1>7. 0 \in Q
  <2> SUFFICES ASSUME 1 <= n PROVE flatten[1] \in Seq(T)
    OBVIOUS
  <2>1. 1 \in 1..n /\ seqs[1] \in Seq(T)
    OBVIOUS
  <2> QED BY <1>6, <2>1
<1>8. ASSUME NEW k \in Nat, k \in Q PROVE k + 1 \in Q
  <2> SUFFICES ASSUME (k + 1) + 1 <= n PROVE flatten[(k + 1) + 1] \in Seq(T)
    OBVIOUS
  <2>1. flatten[k + 1] \in Seq(T)
    BY <1>8
  <2>2. (k + 1) + 1 \in 1..n /\ (k + 1) + 1 # 1 /\ ((k + 1) + 1) - 1 = k + 1
    OBVIOUS
  <2>3. flatten[(k + 1) + 1] = flatten[k + 1] \o seqs[(k + 1) + 1]
    BY <1>6, <2>2
  <2>4. seqs[(k + 1) + 1] \in Seq(T)
    BY <2>2
  <2> QED BY <2>1, <2>3, <2>4
<1>9. n > 0 => flatten[n] \in Seq(T)
  <2> SUFFICES ASSUME n > 0 PROVE flatten[n] \in Seq(T)
    OBVIOUS
  <2>1. n - 1 \in Nat /\ (n - 1) + 1 = n
    OBVIOUS
  <2>2. n - 1 \in Q
    <3> HIDE DEF Q
    <3> QED BY <1>7, <1>8, <2>1, FromZeroOn
  <2> QED BY <2>1, <2>2
<1>10. FlattenSeq(seqs) = IF n = 0 THEN seqs ELSE flatten[n]
  BY <1>0 DEF FlattenSeq, flatten
<1> QED BY <1>0, <1>9, <1>10

\* There is a function that adds a finite set up, one element after the other.
LEMMA SumExists ==
  ASSUME NEW S, IsFiniteSet(S), NEW f, \A x \in S : f[x] \in Int
  PROVE  \E sum \in [SUBSET S -> Int] : Adds(f, S, sum)
<1> DEFINE Upto(n) == {s \in SUBSET S : Cardinality(s) <= n}
           N == {n \in Nat : \E g \in [Upto(n) -> Int] : \A s \in Upto(n) :
                   g[s] = IF s = {} THEN 0 ELSE f[One(s)] + g[s \ {One(s)}]}
<1>0. \A s \in SUBSET S : /\ IsFiniteSet(s) /\ Cardinality(s) \in Nat
                          /\ s # {} => One(s) \in s /\ Cardinality(s \ {One(s)}) = Cardinality(s) - 1
                          /\ Cardinality(s) = 0 => s = {}
  BY FS_Subset, FS_CardinalityType, FS_RemoveElement, FS_EmptySet DEF One
<1>1. 0 \in N
  <2> DEFINE g == [s \in Upto(0) |-> 0]
  <2>1. g \in [Upto(0) -> Int]
    OBVIOUS
  <2>2. \A s \in Upto(0) : s = {}
    <3> SUFFICES ASSUME NEW s \in SUBSET S, Cardinality(s) <= 0 PROVE s = {}
      OBVIOUS
    <3>1. Cardinality(s) \in Nat
      BY <1>0
    <3>2. Cardinality(s) = 0
      BY <3>1
    <3> QED BY <3>2, <1>0
  <2> QED BY <2>1, <2>2
<1>2. ASSUME NEW n \in N PROVE n + 1 \in N
  <2>1. PICK g \in [Upto(n) -> Int] : \A s \in Upto(n) :
                   g[s] = IF s = {} THEN 0 ELSE f[One(s)] + g[s \ {One(s)}]
    OBVIOUS
  <2> DEFINE h == [s \in Upto(n + 1) |-> IF Cardinality(s) <= n THEN g[s] ELSE f[One(s)] + g[s \ {One(s)}]]
  <2>2. \A s \in Upto(n + 1) : Cardinality(s) <= n => s \in Upto(n)
    OBVIOUS
  <2>3. ASSUME NEW s \in Upto(n + 1), s # {}
        PROVE  /\ s \ {One(s)} \in Upto(n) /\ One(s) \in S
               /\ s \ {One(s)} \in Upto(n + 1) /\ Cardinality(s \ {One(s)}) <= n
    <3>1. Cardinality(s) \in Nat /\ Cardinality(s) <= n + 1 /\ n \in Nat
      BY <1>0
    <3>2. One(s) \in s /\ Cardinality(s \ {One(s)}) = Cardinality(s) - 1
      BY <1>0, <2>3
    <3>3. Cardinality(s \ {One(s)}) <= n /\ Cardinality(s \ {One(s)}) <= n + 1
      BY <3>1, <3>2
    <3>4. s \ {One(s)} \in SUBSET S
      OBVIOUS
    <3> QED BY <3>2, <3>3, <3>4
  <2>4. Cardinality({}) = 0 /\ 0 <= n
    BY FS_EmptySet
  <2>5. ASSUME NEW s \in Upto(n + 1)
        PROVE  /\ h[s] = IF Cardinality(s) <= n THEN g[s] ELSE f[One(s)] + g[s \ {One(s)}]
               /\ h[s] \in Int
    <3>1. CASE Cardinality(s) <= n
      BY <3>1, <2>2
    <3>2. CASE ~(Cardinality(s) <= n)
      <4>1. s # {}
        BY <2>4, <3>2
      <4>2. /\ One(s) \in S /\ s \ {One(s)} \in Upto(n)
        BY <4>1, <2>3
      <4>3. f[One(s)] \in Int
        BY <4>2
      <4>4. g[s \ {One(s)}] \in Int
        <5> HIDE DEF Upto
        <5> QED BY <4>2
      <4> QED BY <3>2, <4>3, <4>4
    <3> QED BY <3>1, <3>2
  <2>6. ASSUME NEW s \in Upto(n + 1) PROVE h[s] = IF s = {} THEN 0 ELSE f[One(s)] + h[s \ {One(s)}]
    <3> HIDE DEF h
    <3>1. s # {} => h[s \ {One(s)}] = g[s \ {One(s)}]
      <4> HIDE DEF Upto
      <4> QED BY <2>3, <2>5
    <3>2. CASE Cardinality(s) <= n
      BY <2>1, <2>2, <3>1, <3>2, <2>5
    <3>3. CASE ~(Cardinality(s) <= n)
      BY <2>4, <3>1, <3>3, <2>5
    <3> QED BY <3>2, <3>3
  <2>7. h \in [Upto(n + 1) -> Int]
    <3>1. h = [s \in Upto(n + 1) |-> h[s]]
      OBVIOUS
    <3> HIDE DEF h
    <3> QED BY <2>5, <3>1
  <2>8. \A s \in Upto(n + 1) : h[s] = IF s = {} THEN 0 ELSE f[One(s)] + h[s \ {One(s)}]
    BY <2>6
  <2>9. n + 1 \in Nat
    OBVIOUS
  <2> HIDE DEF h, Upto
  <2> QED BY <2>7, <2>8, <2>9
<1>3. Nat \subseteq N
  <2> HIDE DEF N
  <2> QED BY <1>1, <1>2, FromZeroOn
<1>4. Upto(Cardinality(S)) = SUBSET S
  BY FS_Subset
<1>5. PICK g \in [SUBSET S -> Int] : \A s \in SUBSET S :
                   g[s] = IF s = {} THEN 0 ELSE f[One(s)] + g[s \ {One(s)}]
  BY <1>3, <1>4, FS_CardinalityType
<1>6. Adds(f, S, g)
  BY <1>5 DEF Adds
<1> QED BY <1>6

\* The library's sum is such a function.
LEMMA SumIsChosen ==
  ASSUME NEW f, NEW S
  PROVE  SumFunctionOnSet(f, S) = (CHOOSE sum : Adds(f, S, sum))[S]
BY DEF SumFunctionOnSet, FoldFunctionOnSet, MapThenFoldSet, Adds, One

\* Every such function has whole numbers for values.
LEMMA SumsAreInt ==
  ASSUME NEW S, IsFiniteSet(S), NEW f, \A x \in S : f[x] \in Int,
         NEW sum, Adds(f, S, sum)
  PROVE  sum \in [SUBSET S -> Int]
<1> DEFINE N == {n \in Nat : \A T \in SUBSET S : Cardinality(T) = n => sum[T] \in Int}
<1>0. \A s \in SUBSET S : /\ IsFiniteSet(s) /\ Cardinality(s) \in Nat
                          /\ s # {} => One(s) \in s /\ Cardinality(s \ {One(s)}) = Cardinality(s) - 1
                          /\ Cardinality(s) = 0 => s = {}
  BY FS_Subset, FS_CardinalityType, FS_RemoveElement, FS_EmptySet DEF One
<1>1. sum[{}] = 0 /\ \A s \in SUBSET S : s # {} => sum[s] = f[One(s)] + sum[s \ {One(s)}]
  BY DEF Adds
<1>2. 0 \in N
  <2> SUFFICES ASSUME NEW T \in SUBSET S, Cardinality(T) = 0 PROVE sum[T] \in Int
    OBVIOUS
  <2>1. T = {}
    BY <1>0
  <2> QED BY <1>1, <2>1
<1>3. ASSUME NEW n \in Nat, n \in N PROVE n + 1 \in N
  <2> SUFFICES ASSUME NEW T \in SUBSET S, Cardinality(T) = n + 1 PROVE sum[T] \in Int
    OBVIOUS
  <2>1. CASE T = {}
    BY <1>1, <2>1
  <2>2. CASE T # {}
    <3>1. One(T) \in T /\ Cardinality(T \ {One(T)}) = n
      <4>1. Cardinality(T \ {One(T)}) = Cardinality(T) - 1 /\ One(T) \in T
        BY <1>0, <2>2
      <4> QED BY <4>1
    <3>2. sum[T \ {One(T)}] \in Int
      BY <1>3, <3>1
    <3>3. f[One(T)] \in Int
      BY <3>1
    <3>4. sum[T] = f[One(T)] + sum[T \ {One(T)}]
      BY <1>1, <2>2
    <3> QED BY <3>2, <3>3, <3>4
  <2> QED BY <2>1, <2>2
<1>4. Nat \subseteq N
  <2> HIDE DEF N
  <2> QED BY <1>2, <1>3, FromZeroOn
<1>5. \A T \in SUBSET S : sum[T] \in Int
  BY <1>0, <1>4
<1>6. sum = [s \in SUBSET S |-> sum[s]]
  BY DEF Adds
<1> QED BY <1>5, <1>6

\* A sum over a set, whichever of its elements is taken first.
LEMMA AnyFirst ==
  ASSUME NEW S, IsFiniteSet(S), NEW f, \A x \in S : f[x] \in Int,
         NEW sum, Adds(f, S, sum), NEW T \in SUBSET S, NEW x \in T
  PROVE  sum[T] = f[x] + sum[T \ {x}]
<1> DEFINE Sums(n) == \A U \in SUBSET S : Cardinality(U) = n =>
                        \A y \in U : sum[U] = f[y] + sum[U \ {y}]
           N == {n \in Nat : Sums(n)}
<1>0. \A s \in SUBSET S : /\ IsFiniteSet(s) /\ Cardinality(s) \in Nat
                          /\ \A z \in s : Cardinality(s \ {z}) = Cardinality(s) - 1
                          /\ s # {} => One(s) \in s
                          /\ Cardinality(s) = 0 => s = {}
  BY FS_Subset, FS_CardinalityType, FS_RemoveElement, FS_EmptySet DEF One
<1>1. \A s \in SUBSET S : sum[s] = IF s = {} THEN 0 ELSE f[One(s)] + sum[s \ {One(s)}]
  BY DEF Adds
<1>2. 0 \in N
  BY <1>0
<1>3. ASSUME NEW n \in Nat, Sums(n) PROVE Sums(n + 1)
  <2> SUFFICES ASSUME NEW U \in SUBSET S, Cardinality(U) = n + 1, NEW y \in U
               PROVE  sum[U] = f[y] + sum[U \ {y}]
    OBVIOUS
  <2> DEFINE first == One(U)
  <2>1. first \in U
    BY <1>0
  <2>2. sum[U] = f[first] + sum[U \ {first}]
    BY <1>1, <2>1
  <2> HIDE DEF first
  <2>3. CASE y = first
    BY <2>2, <2>3
  <2>4. CASE y # first
    <3>1. y \in U \ {first} /\ first \in U \ {y} /\ (U \ {first}) \ {y} = (U \ {y}) \ {first}
      BY <2>1, <2>4
    <3>2. Cardinality(U \ {first}) = n /\ Cardinality(U \ {y}) = n
      <4>1. Cardinality(U \ {first}) = Cardinality(U) - 1 /\ Cardinality(U \ {y}) = Cardinality(U) - 1
        BY <1>0, <2>1
      <4> QED BY <4>1
    <3>3. sum[U \ {first}] = f[y] + sum[(U \ {first}) \ {y}] /\ sum[U \ {y}] = f[first] + sum[(U \ {y}) \ {first}]
      BY <1>3, <2>1, <3>1, <3>2
    <3>4. PICK rest \in Int : rest = sum[(U \ {first}) \ {y}]
      <4>1. sum \in [SUBSET S -> Int]
        BY SumsAreInt
      <4>2. (U \ {first}) \ {y} \in SUBSET S
        OBVIOUS
      <4> QED BY <4>1, <4>2
    <3>5. f[y] \in Int /\ f[first] \in Int
      BY <2>1
    <3>6. sum[U] = f[first] + (f[y] + rest) /\ sum[U \ {y}] = f[first] + rest
      BY <2>2, <3>1, <3>3, <3>4
    <3> QED BY <3>5, <3>6
  <2> QED BY <2>3, <2>4
<1>4. \A n \in Nat : Sums(n)
  <2> HIDE DEF Sums
  <2>1. \A n \in Nat : n \in N => n + 1 \in N
    <3> SUFFICES ASSUME NEW n \in Nat, n \in N PROVE n + 1 \in N
      OBVIOUS
    <3>1. Sums(n + 1)
      BY <1>3
    <3> QED BY <3>1
  <2>2. Nat \subseteq N
    <3> HIDE DEF N
    <3> QED BY <1>2, <2>1, FromZeroOn
  <2> QED BY <2>2
<1> QED BY <1>4, <1>0

\* One element after the other, however many there are in all.
LEMMA SameSums ==
  ASSUME NEW S, IsFiniteSet(S), NEW f, \A x \in S : f[x] \in Int, NEW sum, Adds(f, S, sum),
         NEW T \in SUBSET S, NEW part, Adds(f, T, part)
  PROVE  part[T] = sum[T]
<1> DEFINE P == {U \in SUBSET T : part[U] = sum[U]}
<1>1. IsFiniteSet(T) /\ \A x \in T : f[x] \in Int
  BY FS_Subset
<1>2. \A U \in SUBSET T : \A x \in U : part[U] = f[x] + part[U \ {x}]
  <2> SUFFICES ASSUME NEW U \in SUBSET T, NEW x \in U PROVE part[U] = f[x] + part[U \ {x}]
    OBVIOUS
  <2> HIDE DEF P
  <2>1. IsFiniteSet(T)
    BY <1>1
  <2>2. \A y \in T : f[y] \in Int
    BY <1>1
  <2> QED BY <2>1, <2>2, AnyFirst
<1>3. \A U \in SUBSET S : \A x \in U : sum[U] = f[x] + sum[U \ {x}]
  <2> SUFFICES ASSUME NEW U \in SUBSET S, NEW x \in U PROVE sum[U] = f[x] + sum[U \ {x}]
    OBVIOUS
  <2> HIDE DEF P
  <2> QED BY AnyFirst
<1>4. part[{}] = 0 /\ sum[{}] = 0
  BY DEF Adds
<1>5. {} \in P
  BY <1>4
<1>6. ASSUME NEW U \in SUBSET T, NEW x \in T \ U, U \in P PROVE U \cup {x} \in P
  <2>1. part[U \cup {x}] = f[x] + part[(U \cup {x}) \ {x}]
    BY <1>2
  <2>2. sum[U \cup {x}] = f[x] + sum[(U \cup {x}) \ {x}]
    BY <1>3
  <2>3. (U \cup {x}) \ {x} = U
    OBVIOUS
  <2> QED BY <1>6, <2>1, <2>2, <2>3
<1>7. T \in P
  <2> HIDE DEF P
  <2> QED BY <1>1, <1>5, <1>6, FromEmptyOn
<1> QED BY <1>7

\* A sum over a part of the set is found in the sums of the whole.
LEMMA SumOnPart ==
  ASSUME NEW S, IsFiniteSet(S), NEW f, \A x \in S : f[x] \in Int,
         NEW sum, Adds(f, S, sum), NEW T \in SUBSET S
  PROVE  SumFunctionOnSet(f, T) = sum[T]
<1>1. IsFiniteSet(T) /\ \A x \in T : f[x] \in Int
  BY FS_Subset
<1>2. \E part : Adds(f, T, part)
  BY <1>1, SumExists
<1>3. Adds(f, T, CHOOSE p : Adds(f, T, p))
  BY <1>2
<1>4. (CHOOSE p : Adds(f, T, p))[T] = sum[T]
  BY <1>3, SameSums
<1> QED BY <1>4, SumIsChosen

-----------------------------------------------------------------------------
(* What is used of sums.                                                   *)

\* A sum is a whole number, of nothing it is 0, and an element adds its own.
LEMMA SumGrows ==
  ASSUME NEW S, IsFiniteSet(S), NEW f, \A x \in S : f[x] \in Int
  PROVE  /\ SumFunctionOnSet(f, {}) = 0
         /\ \A T \in SUBSET S : SumFunctionOnSet(f, T) \in Int
         /\ \A T \in SUBSET S : \A x \in S \ T :
              SumFunctionOnSet(f, T \cup {x}) = f[x] + SumFunctionOnSet(f, T)
<1>1. PICK sum \in [SUBSET S -> Int] : Adds(f, S, sum)
  BY SumExists
<1>2. \A T \in SUBSET S : SumFunctionOnSet(f, T) = sum[T]
  <2> SUFFICES ASSUME NEW T \in SUBSET S PROVE SumFunctionOnSet(f, T) = sum[T]
    OBVIOUS
  <2> QED BY <1>1, SumOnPart
<1>3. sum[{}] = 0
  BY <1>1 DEF Adds
<1>4. ASSUME NEW T \in SUBSET S, NEW x \in S \ T PROVE sum[T \cup {x}] = f[x] + sum[T]
  <2> DEFINE U == T \cup {x}
  <2>1. U \in SUBSET S /\ x \in U /\ U \ {x} = T
    OBVIOUS
  <2> HIDE DEF U
  <2>2. Adds(f, S, sum)
    BY <1>1
  <2>3. sum[U] = f[x] + sum[U \ {x}]
    BY <2>1, <2>2, AnyFirst
  <2> QED BY <2>1, <2>3 DEF U
<1>5. ASSUME NEW T \in SUBSET S, NEW x \in S \ T
      PROVE  SumFunctionOnSet(f, T \cup {x}) = f[x] + SumFunctionOnSet(f, T)
  <2>1. T \cup {x} \in SUBSET S
    OBVIOUS
  <2> QED BY <1>2, <1>4, <2>1
<1>6. {} \in SUBSET S
  OBVIOUS
<1> QED BY <1>2, <1>3, <1>5, <1>6

\* A sum of whole numbers is one.
LEMMA SumType ==
  ASSUME NEW S, IsFiniteSet(S), NEW f, \A x \in S : f[x] \in Int
  PROVE  SumFunctionOnSet(f, S) \in Int
<1>1. S \in SUBSET S
  OBVIOUS
<1> QED BY <1>1, SumGrows

\* Sums are linear.
LEMMA SumLinear ==
  ASSUME NEW S, IsFiniteSet(S), NEW f, NEW g, NEW h, NEW a \in Int, NEW b \in Int,
         \A x \in S : f[x] \in Int /\ g[x] \in Int /\ h[x] = a * f[x] + b * g[x]
  PROVE  SumFunctionOnSet(h, S) = a * SumFunctionOnSet(f, S) + b * SumFunctionOnSet(g, S)
<1> DEFINE F(T) == SumFunctionOnSet(f, T)
           G(T) == SumFunctionOnSet(g, T)
           H(T) == SumFunctionOnSet(h, T)
           P == {T \in SUBSET S : H(T) = a * F(T) + b * G(T)}
<1>1. \A x \in S : h[x] \in Int
  OBVIOUS
<1>2. /\ F({}) = 0 /\ \A T \in SUBSET S : F(T) \in Int
      /\ \A T \in SUBSET S : \A x \in S \ T : F(T \cup {x}) = f[x] + F(T)
  BY SumGrows
<1>3. /\ G({}) = 0 /\ \A T \in SUBSET S : G(T) \in Int
      /\ \A T \in SUBSET S : \A x \in S \ T : G(T \cup {x}) = g[x] + G(T)
  BY SumGrows
<1>4. /\ H({}) = 0
      /\ \A T \in SUBSET S : \A x \in S \ T : H(T \cup {x}) = h[x] + H(T)
  BY <1>1, SumGrows
<1> HIDE DEF F, G, H
<1>5. {} \in P
  BY <1>2, <1>3, <1>4
<1>6. ASSUME NEW T \in SUBSET S, NEW x \in S \ T, T \in P PROVE T \cup {x} \in P
  <2>1. ASSUME NEW u \in Int, NEW v \in Int, NEW w \in Int, NEW z \in Int
        PROVE  (a * u + b * v) + (a * w + b * z) = a * (u + w) + b * (v + z)
    OBVIOUS
  <2>2. H(T \cup {x}) = h[x] + H(T) /\ F(T \cup {x}) = f[x] + F(T) /\ G(T \cup {x}) = g[x] + G(T)
    BY <1>2, <1>3, <1>4
  <2>3. H(T) = a * F(T) + b * G(T) /\ h[x] = a * f[x] + b * g[x]
    BY <1>6
  <2>4. F(T) \in Int /\ G(T) \in Int /\ f[x] \in Int /\ g[x] \in Int
    BY <1>2, <1>3
  <2>5. H(T \cup {x}) = a * F(T \cup {x}) + b * G(T \cup {x})
    BY <2>1, <2>2, <2>3, <2>4
  <2> QED BY <2>5
<1>7. S \in P
  <2> HIDE DEF P
  <2> QED BY <1>5, <1>6, FromEmptyOn
<1> QED BY <1>7 DEF F, G, H

\* Greater terms have the greater sum.
LEMMA SumMonotone ==
  ASSUME NEW S, IsFiniteSet(S), NEW f, NEW g,
         \A x \in S : f[x] \in Int /\ g[x] \in Int /\ f[x] <= g[x]
  PROVE  SumFunctionOnSet(f, S) <= SumFunctionOnSet(g, S)
<1> DEFINE F(T) == SumFunctionOnSet(f, T)
           G(T) == SumFunctionOnSet(g, T)
           P == {T \in SUBSET S : F(T) <= G(T)}
<1>2. /\ F({}) = 0 /\ \A T \in SUBSET S : F(T) \in Int
      /\ \A T \in SUBSET S : \A x \in S \ T : F(T \cup {x}) = f[x] + F(T)
  BY SumGrows
<1>3. /\ G({}) = 0 /\ \A T \in SUBSET S : G(T) \in Int
      /\ \A T \in SUBSET S : \A x \in S \ T : G(T \cup {x}) = g[x] + G(T)
  BY SumGrows
<1> HIDE DEF F, G
<1>5. {} \in P
  BY <1>2, <1>3
<1>6. ASSUME NEW T \in SUBSET S, NEW x \in S \ T, T \in P PROVE T \cup {x} \in P
  <2>1. F(T \cup {x}) = f[x] + F(T) /\ G(T \cup {x}) = g[x] + G(T) /\ F(T) <= G(T)
    BY <1>2, <1>3, <1>6
  <2>2. F(T) \in Int /\ G(T) \in Int /\ f[x] \in Int /\ g[x] \in Int /\ f[x] <= g[x]
    BY <1>2, <1>3
  <2>3. F(T \cup {x}) <= G(T \cup {x})
    BY <2>1, <2>2
  <2> QED BY <2>3
<1>7. S \in P
  <2> HIDE DEF P
  <2> QED BY <1>5, <1>6, FromEmptyOn
<1> QED BY <1>7 DEF F, G

\* Equal terms have equal sums.
LEMMA SumSame ==
  ASSUME NEW S, IsFiniteSet(S), NEW f, NEW g, \A x \in S : f[x] \in Int /\ g[x] = f[x]
  PROVE  SumFunctionOnSet(g, S) = SumFunctionOnSet(f, S)
<1>1. \A x \in S : f[x] \in Int /\ f[x] \in Int /\ g[x] = 1 * f[x] + 0 * f[x]
  OBVIOUS
<1>2. SumFunctionOnSet(g, S) = 1 * SumFunctionOnSet(f, S) + 0 * SumFunctionOnSet(f, S)
  BY <1>1, SumLinear
<1> QED BY <1>2, SumType

\* A common factor.
LEMMA SumScaled ==
  ASSUME NEW S, IsFiniteSet(S), NEW f, NEW g, NEW a \in Int,
         \A x \in S : f[x] \in Int /\ g[x] = a * f[x]
  PROVE  SumFunctionOnSet(g, S) = a * SumFunctionOnSet(f, S)
<1>1. \A x \in S : f[x] \in Int /\ f[x] \in Int /\ g[x] = a * f[x] + 0 * f[x]
  OBVIOUS
<1>2. SumFunctionOnSet(g, S) = a * SumFunctionOnSet(f, S) + 0 * SumFunctionOnSet(f, S)
  BY <1>1, SumLinear
<1>3. SumFunctionOnSet(f, S) \in Int
  BY SumType
<1> QED BY <1>2, <1>3

\* A sum of naturals is one.
LEMMA SumNat ==
  ASSUME NEW S, IsFiniteSet(S), NEW f, \A x \in S : f[x] \in Nat
  PROVE  SumFunctionOnSet(f, S) \in Nat
<1> DEFINE z == [x \in S |-> 0]
<1>1. \A x \in S : z[x] \in Int /\ f[x] \in Int /\ z[x] <= f[x] /\ z[x] = 0 * f[x]
  OBVIOUS
<1> HIDE DEF z
<1>2. SumFunctionOnSet(z, S) <= SumFunctionOnSet(f, S)
  BY <1>1, SumMonotone
<1>3. SumFunctionOnSet(z, S) = 0 * SumFunctionOnSet(f, S)
  BY <1>1, SumScaled
<1>4. SumFunctionOnSet(f, S) \in Int
  BY <1>1, SumType
<1> QED BY <1>2, <1>3, <1>4

\* No two parts share an element.
LEMMA SumUnion ==
  ASSUME NEW S, IsFiniteSet(S), NEW f, \A x \in S : f[x] \in Int,
         NEW A \in SUBSET S, NEW B \in SUBSET S, A \cap B = {}
  PROVE  SumFunctionOnSet(f, A \cup B) = SumFunctionOnSet(f, A) + SumFunctionOnSet(f, B)
<1> DEFINE F(T) == SumFunctionOnSet(f, T)
           P == {T \in SUBSET B : F(A \cup T) = F(A) + F(T)}
<1>1. /\ F({}) = 0 /\ \A T \in SUBSET S : F(T) \in Int
      /\ \A T \in SUBSET S : \A x \in S \ T : F(T \cup {x}) = f[x] + F(T)
  BY SumGrows
<1> HIDE DEF F
<1>2. IsFiniteSet(B)
  BY FS_Subset
<1>3. {} \in P
  <2>1. A \cup {} = A
    OBVIOUS
  <2> QED BY <1>1, <2>1
<1>4. ASSUME NEW T \in SUBSET B, NEW x \in B \ T, T \in P PROVE T \cup {x} \in P
  <2>1. A \cup T \in SUBSET S /\ T \in SUBSET S /\ x \in S \ (A \cup T) /\ x \in S \ T
    OBVIOUS
  <2>2. F((A \cup T) \cup {x}) = f[x] + F(A \cup T) /\ F(T \cup {x}) = f[x] + F(T)
    BY <1>1, <2>1
  <2>3. (A \cup T) \cup {x} = A \cup (T \cup {x})
    OBVIOUS
  <2>4. F(A \cup T) = F(A) + F(T) /\ F(A) \in Int /\ F(T) \in Int /\ f[x] \in Int
    BY <1>1, <1>4, <2>1
  <2>5. F(A \cup (T \cup {x})) = f[x] + (F(A) + F(T)) /\ F(T \cup {x}) = f[x] + F(T)
    BY <2>2, <2>3, <2>4
  <2>6. F(A \cup (T \cup {x})) = F(A) + F(T \cup {x})
    BY <2>4, <2>5
  <2> QED BY <2>6
<1>5. B \in P
  <2> HIDE DEF P
  <2> QED BY <1>2, <1>3, <1>4, FromEmptyOn
<1> QED BY <1>5 DEF F

\* A sum taken class by class.
LEMMA SumByClass ==
  ASSUME NEW S, IsFiniteSet(S), NEW f, \A x \in S : f[x] \in Int,
         NEW class, NEW C, IsFiniteSet(C), \A x \in S : class[x] \in C,
         NEW of, \A c \in C : of[c] = {x \in S : class[x] = c},
         NEW parts, \A c \in C : parts[c] = SumFunctionOnSet(f, of[c])
  PROVE  SumFunctionOnSet(parts, C) = SumFunctionOnSet(f, S)
<1> DEFINE Of(D) == {x \in S : class[x] \in D}
           P == {D \in SUBSET C : SumFunctionOnSet(parts, D) = SumFunctionOnSet(f, Of(D))}
<1>1. /\ SumFunctionOnSet(f, {}) = 0
      /\ \A T \in SUBSET S : SumFunctionOnSet(f, T) \in Int
  BY SumGrows
<1>2. \A c \in C : parts[c] \in Int
  BY <1>1
<1>3. /\ SumFunctionOnSet(parts, {}) = 0
      /\ \A D \in SUBSET C : \A c \in C \ D :
           SumFunctionOnSet(parts, D \cup {c}) = parts[c] + SumFunctionOnSet(parts, D)
  BY <1>2, SumGrows
<1>4. {} \in P
  <2>1. Of({}) = {}
    OBVIOUS
  <2> HIDE DEF Of
  <2> QED BY <1>1, <1>3, <2>1
<1>5. ASSUME NEW D \in SUBSET C, NEW c \in C \ D, D \in P PROVE D \cup {c} \in P
  <2> DEFINE A == Of(D)
             B == {x \in S : class[x] = c}
  <2>1. A \in SUBSET S /\ B \in SUBSET S /\ A \cap B = {} /\ Of(D \cup {c}) = A \cup B
    OBVIOUS
  <2>2. SumFunctionOnSet(parts, D \cup {c}) = parts[c] + SumFunctionOnSet(parts, D)
    BY <1>3
  <2>3. parts[c] = SumFunctionOnSet(f, B) /\ SumFunctionOnSet(parts, D) = SumFunctionOnSet(f, A)
    BY <1>5
  <2> HIDE DEF A, B
  <2>4. SumFunctionOnSet(f, A \cup B) = SumFunctionOnSet(f, A) + SumFunctionOnSet(f, B)
    BY <2>1, SumUnion
  <2>5. SumFunctionOnSet(f, A) \in Int /\ SumFunctionOnSet(f, B) \in Int
    BY <1>1, <2>1
  <2>6. SumFunctionOnSet(parts, D \cup {c}) = SumFunctionOnSet(f, Of(D \cup {c}))
    <3>1. SumFunctionOnSet(f, Of(D \cup {c})) = SumFunctionOnSet(f, A \cup B)
      <4> HIDE DEF Of
      <4> QED BY <2>1
    <3> HIDE DEF Of, P
    <3>2. SumFunctionOnSet(parts, D \cup {c}) = SumFunctionOnSet(f, B) + SumFunctionOnSet(f, A)
      BY <2>2, <2>3
    <3> QED BY <2>4, <2>5, <3>1, <3>2
  <2> QED BY <2>6
<1>6. C \in P
  <2> HIDE DEF P
  <2> QED BY <1>4, <1>5, FromEmptyOn
<1>7. Of(C) = S
  OBVIOUS
<1> QED BY <1>6, <1>7

\* The less and the greater of two.
LEMMA MinMax ==
  ASSUME NEW a \in Int, NEW b \in Int
  PROVE  /\ Min({a, b}) = IF a <= b THEN a ELSE b
         /\ Max({a, b}) = IF a <= b THEN b ELSE a
<1> DEFINE least == IF a <= b THEN a ELSE b
           most == IF a <= b THEN b ELSE a
<1>1. least \in {a, b} /\ \A x \in {a, b} : least <= x
  OBVIOUS
<1>2. most \in {a, b} /\ \A x \in {a, b} : x <= most
  OBVIOUS
<1>3. Min({a, b}) \in {a, b} /\ \A x \in {a, b} : Min({a, b}) <= x
  BY <1>1 DEF Min
<1>4. Max({a, b}) \in {a, b} /\ \A x \in {a, b} : x <= Max({a, b})
  BY <1>2 DEF Max
<1> QED BY <1>3, <1>4

\* A sum of one.
LEMMA SumOfOne ==
  ASSUME NEW x, NEW f, f[x] \in Int
  PROVE  SumFunctionOnSet(f, {x}) = f[x]
<1>1. IsFiniteSet({x}) /\ \A y \in {x} : f[y] \in Int
  BY FS_Singleton
<1>2. /\ SumFunctionOnSet(f, {}) = 0
      /\ \A T \in SUBSET {x} : \A y \in {x} \ T :
           SumFunctionOnSet(f, T \cup {y}) = f[y] + SumFunctionOnSet(f, T)
  <2> DEFINE S == {x}
  <2> HIDE DEF S
  <2>1. IsFiniteSet(S) /\ \A y \in S : f[y] \in Int
    BY <1>1 DEF S
  <2> QED BY <2>1, SumGrows DEF S
<1>3. SumFunctionOnSet(f, {} \cup {x}) = f[x] + SumFunctionOnSet(f, {})
  BY <1>2
<1>4. {} \cup {x} = {x}
  OBVIOUS
<1> QED BY <1>2, <1>3, <1>4

\* A sum of nothing but zeros.
LEMMA SumOfZeros ==
  ASSUME NEW S, IsFiniteSet(S), NEW f, \A x \in S : f[x] = 0
  PROVE  SumFunctionOnSet(f, S) = 0
<1>1. \A x \in S : f[x] \in Int /\ f[x] = 0 * f[x]
  OBVIOUS
<1>2. SumFunctionOnSet(f, S) = 0 * SumFunctionOnSet(f, S)
  BY <1>1, SumScaled
<1>3. SumFunctionOnSet(f, S) \in Int
  BY <1>1, SumType
<1> QED BY <1>2, <1>3

\* Terms that are zero may be left out.
LEMMA SumOfSome ==
  ASSUME NEW S, IsFiniteSet(S), NEW f, \A x \in S : f[x] \in Int,
         NEW R \in SUBSET S, \A x \in S \ R : f[x] = 0
  PROVE  SumFunctionOnSet(f, R) = SumFunctionOnSet(f, S)
<1>1. S \ R \in SUBSET S /\ R \cap (S \ R) = {} /\ R \cup (S \ R) = S
  OBVIOUS
<1>2. IsFiniteSet(S \ R) /\ IsFiniteSet(R)
  BY <1>1, FS_Subset
<1>3. SumFunctionOnSet(f, S \ R) = 0
  BY <1>2, SumOfZeros
<1>4. SumFunctionOnSet(f, R) \in Int
  BY <1>2, SumType
<1>5. SumFunctionOnSet(f, R \cup (S \ R)) = SumFunctionOnSet(f, R) + SumFunctionOnSet(f, S \ R)
  BY <1>1, SumUnion
<1>6. SumFunctionOnSet(f, S) = SumFunctionOnSet(f, R) + SumFunctionOnSet(f, S \ R)
  <2> DEFINE T == S \ R
  <2>1. R \cup T = S
    BY <1>1
  <2>2. SumFunctionOnSet(f, R \cup T) = SumFunctionOnSet(f, R) + SumFunctionOnSet(f, T)
    BY <1>5
  <2> HIDE DEF T
  <2>3. SumFunctionOnSet(f, S) = SumFunctionOnSet(f, R) + SumFunctionOnSet(f, T)
    BY <2>1, <2>2
  <2> QED BY <2>3 DEF T
<1> QED BY <1>3, <1>4, <1>6

\* T is S under other names, and g on it is f on S.
Renames(name, S, f, T, g) ==
  /\ \A x \in S : f[x] \in Int /\ name[x] \in T /\ g[name[x]] = f[x]
  /\ \A t \in T : \E x \in S : name[x] = t
  /\ \A x \in S : \A y \in S : name[x] = name[y] => x = y

\* The same terms under other names.
LEMMA SumRenamed ==
  ASSUME NEW S, IsFiniteSet(S), NEW f, NEW name, NEW T, NEW g, Renames(name, S, f, T, g)
  PROVE  IsFiniteSet(T) /\ SumFunctionOnSet(g, T) = SumFunctionOnSet(f, S)
<1> DEFINE h == [x \in S |-> name[x]]
           of == [t \in T |-> {x \in S : name[x] = t}]
<1>0. /\ \A x \in S : f[x] \in Int /\ name[x] \in T /\ g[name[x]] = f[x]
      /\ \A t \in T : \E x \in S : name[x] = t
      /\ \A x \in S : \A y \in S : name[x] = name[y] => x = y
  BY DEF Renames
<1>1. IsFiniteSet(T)
  <2>1. h \in Surjection(S, T)
    BY <1>0 DEF Surjection
  <2> HIDE DEF h
  <2> QED BY <2>1, FS_Surjection
<1>2. \A t \in T : of[t] = {x \in S : name[x] = t}
  OBVIOUS
<1>3. \A t \in T : g[t] = SumFunctionOnSet(f, of[t])
  <2> SUFFICES ASSUME NEW t \in T PROVE g[t] = SumFunctionOnSet(f, of[t])
    OBVIOUS
  <2>1. PICK x \in S : name[x] = t
    BY <1>0
  <2>2. of[t] = {x}
    BY <1>0, <1>2, <2>1
  <2>3. f[x] \in Int /\ g[t] = f[x]
    BY <1>0, <2>1
  <2> HIDE DEF of
  <2>4. SumFunctionOnSet(f, {x}) = f[x]
    BY <2>3, SumOfOne
  <2> QED BY <2>2, <2>3, <2>4
<1> HIDE DEF of
<1>4. SumFunctionOnSet(g, T) = SumFunctionOnSet(f, S)
  BY <1>0, <1>1, <1>2, <1>3, SumByClass
<1> QED BY <1>1, <1>4

\* Counting is adding ones.
LEMMA CardinalityIsSum ==
  ASSUME NEW S, IsFiniteSet(S), NEW ones, \A x \in S : ones[x] = 1
  PROVE  SumFunctionOnSet(ones, S) = Cardinality(S)
<1> DEFINE P == {T \in SUBSET S : SumFunctionOnSet(ones, T) = Cardinality(T)}
<1>1. \A x \in S : ones[x] \in Int
  OBVIOUS
<1>2. /\ SumFunctionOnSet(ones, {}) = 0
      /\ \A T \in SUBSET S : SumFunctionOnSet(ones, T) \in Int
      /\ \A T \in SUBSET S : \A x \in S \ T :
           SumFunctionOnSet(ones, T \cup {x}) = ones[x] + SumFunctionOnSet(ones, T)
  BY <1>1, SumGrows
<1>3. {} \in P
  BY <1>2, FS_EmptySet
<1>4. \A T \in SUBSET S : \A x \in S \ T : T \in P => T \cup {x} \in P
  <2> SUFFICES ASSUME NEW T \in SUBSET S, NEW x \in S \ T, T \in P PROVE T \cup {x} \in P
    OBVIOUS
  <2>1. IsFiniteSet(T)
    BY FS_Subset
  <2>2. Cardinality(T) \in Nat /\ Cardinality(T \cup {x}) = Cardinality(T) + 1
    BY <2>1, FS_CardinalityType, FS_AddElement
  <2>3. SumFunctionOnSet(ones, T \cup {x}) = ones[x] + SumFunctionOnSet(ones, T)
    BY <1>2
  <2>4. ones[x] = 1 /\ SumFunctionOnSet(ones, T) = Cardinality(T)
    OBVIOUS
  <2> QED BY <2>2, <2>3, <2>4
<1>5. S \in P
  <2> HIDE DEF P
  <2> QED BY <1>3, <1>4, FromEmptyOn
<1> QED BY <1>5

\* How many of S are of each class.
Counts(sizes, C, S, class) ==
  /\ \A x \in S : class[x] \in C
  /\ \A c \in C : sizes[c] = Cardinality({x \in S : class[x] = c})

\* A set counted class by class.
LEMMA CardinalityByClass ==
  ASSUME NEW S, IsFiniteSet(S), NEW class, NEW C, IsFiniteSet(C),
         NEW sizes, Counts(sizes, C, S, class)
  PROVE  SumFunctionOnSet(sizes, C) = Cardinality(S)
<1> DEFINE ones == [x \in S |-> 1]
           of == [c \in C |-> {x \in S : class[x] = c}]
<1>0. /\ \A x \in S : class[x] \in C
      /\ \A c \in C : sizes[c] = Cardinality({x \in S : class[x] = c})
  BY DEF Counts
<1>1. \A x \in S : ones[x] = 1 /\ ones[x] \in Int
  OBVIOUS
<1>2. \A c \in C : of[c] = {x \in S : class[x] = c}
  OBVIOUS
<1> HIDE DEF ones, of
<1>3. \A c \in C : sizes[c] = SumFunctionOnSet(ones, of[c])
  <2> SUFFICES ASSUME NEW c \in C PROVE sizes[c] = SumFunctionOnSet(ones, of[c])
    OBVIOUS
  <2>1. of[c] \subseteq S /\ sizes[c] = Cardinality(of[c])
    BY <1>0, <1>2
  <2>2. IsFiniteSet(of[c]) /\ \A x \in of[c] : ones[x] = 1
    BY <1>1, <2>1, FS_Subset
  <2>3. SumFunctionOnSet(ones, of[c]) = Cardinality(of[c])
    BY <2>2, CardinalityIsSum
  <2> QED BY <2>1, <2>3
<1>4. SumFunctionOnSet(sizes, C) = SumFunctionOnSet(ones, S)
  BY <1>0, <1>1, <1>2, <1>3, SumByClass
<1>5. SumFunctionOnSet(ones, S) = Cardinality(S)
  BY <1>1, CardinalityIsSum
<1> QED BY <1>4, <1>5

\* The rows of a table of numbers, and the sum of each.
RowsOf(m, A, B, row, rows) ==
  /\ \A a \in A : \A b \in B : m[<<a, b>>] \in Int /\ row[a][b] = m[<<a, b>>]
  /\ \A a \in A : rows[a] = SumFunctionOnSet(row[a], B)

\* The sums of its rows add up to that of the table.
LEMMA SumByRows ==
  ASSUME NEW A, IsFiniteSet(A), NEW B, IsFiniteSet(B),
         NEW m, NEW row, NEW rows, RowsOf(m, A, B, row, rows)
  PROVE  SumFunctionOnSet(rows, A) = SumFunctionOnSet(m, A \X B)
<1> DEFINE S == A \X B
           class == [x \in S |-> x[1]]
           of == [a \in A |-> {x \in S : class[x] = a}]
<1>0. /\ \A a \in A : \A b \in B : m[<<a, b>>] \in Int /\ row[a][b] = m[<<a, b>>]
      /\ \A a \in A : rows[a] = SumFunctionOnSet(row[a], B)
  BY DEF RowsOf
<1>1. IsFiniteSet(S)
  BY FS_Product
<1>2. \A x \in S : m[x] \in Int /\ class[x] \in A
  BY <1>0
<1>3. \A a \in A : of[a] = {x \in S : class[x] = a}
  OBVIOUS
<1>4. \A a \in A : rows[a] = SumFunctionOnSet(m, of[a])
  <2> SUFFICES ASSUME NEW a \in A PROVE rows[a] = SumFunctionOnSet(m, of[a])
    OBVIOUS
  <2> DEFINE name == [b \in B |-> <<a, b>>]
             f == row[a]
             T == of[a]
  <2>1. \A b \in B : f[b] \in Int
    BY <1>0
  <2>2. /\ \A b \in B : name[b] \in T
        /\ \A t \in T : \E b \in B : name[b] = t
        /\ \A b \in B : \A c \in B : name[b] = name[c] => b = c
    OBVIOUS
  <2>3. \A b \in B : m[name[b]] = f[b]
    BY <1>0
  <2> HIDE DEF name, f, T
  <2>4. Renames(name, B, f, T, m)
    BY <2>1, <2>2, <2>3 DEF Renames
  <2>5. SumFunctionOnSet(m, T) = SumFunctionOnSet(f, B)
    BY <2>4, SumRenamed
  <2>6. rows[a] = SumFunctionOnSet(row[a], B)
    BY <1>0
  <2> QED BY <2>5, <2>6 DEF f, T
<1> HIDE DEF S, class, of
<1>5. SumFunctionOnSet(rows, A) = SumFunctionOnSet(m, S)
  BY <1>1, <1>2, <1>3, <1>4, SumByClass
<1> QED BY <1>5 DEF S

\* The sums of a table by rows, and by columns.
Table(A, B, row, column, rows, columns) ==
  /\ \A a \in A : \A b \in B : row[a][b] \in Int /\ column[b][a] = row[a][b]
  /\ \A a \in A : rows[a] = SumFunctionOnSet(row[a], B)
  /\ \A b \in B : columns[b] = SumFunctionOnSet(column[b], A)

\* They add up to the same.
LEMMA SumSwapped ==
  ASSUME NEW A, IsFiniteSet(A), NEW B, IsFiniteSet(B), NEW row, NEW column, NEW rows,
         NEW columns, Table(A, B, row, column, rows, columns)
  PROVE  SumFunctionOnSet(rows, A) = SumFunctionOnSet(columns, B)
<1> DEFINE m == [x \in A \X B |-> row[x[1]][x[2]]]
           n == [x \in B \X A |-> column[x[1]][x[2]]]
           name == [x \in A \X B |-> <<x[2], x[1]>>]
           S == A \X B
           T == B \X A
<1>0. /\ \A a \in A : \A b \in B : row[a][b] \in Int /\ column[b][a] = row[a][b]
      /\ \A a \in A : rows[a] = SumFunctionOnSet(row[a], B)
      /\ \A b \in B : columns[b] = SumFunctionOnSet(column[b], A)
  BY DEF Table
<1>1. \A a \in A : \A b \in B : m[<<a, b>>] \in Int /\ row[a][b] = m[<<a, b>>]
  BY <1>0
<1>2. \A b \in B : \A a \in A : n[<<b, a>>] \in Int /\ column[b][a] = n[<<b, a>>]
  BY <1>0
<1>3. /\ \A x \in S : m[x] \in Int
      /\ \A x \in S : name[x] \in T
      /\ \A t \in T : \E x \in S : name[x] = t
  <2>0. \A x \in S : m[x] \in Int /\ name[x] \in T
    BY <1>0
  <2>1. \A t \in T : <<t[2], t[1]>> \in S /\ name[<<t[2], t[1]>>] = t
    OBVIOUS
  <2> QED BY <2>0, <2>1
<1>4. \A x \in S : \A y \in S : name[x] = name[y] => x = y
  OBVIOUS
<1>5. \A x \in S : n[name[x]] = m[x]
  BY <1>0
<1>6. IsFiniteSet(S)
  BY FS_Product
<1> HIDE DEF m, n, name
<1>7. SumFunctionOnSet(rows, A) = SumFunctionOnSet(m, S)
  <2>1. RowsOf(m, A, B, row, rows)
    BY <1>0, <1>1 DEF RowsOf
  <2> QED BY <2>1, SumByRows
<1>8. SumFunctionOnSet(columns, B) = SumFunctionOnSet(n, T)
  <2>1. RowsOf(n, B, A, column, columns)
    BY <1>0, <1>2 DEF RowsOf
  <2> QED BY <2>1, SumByRows
<1> HIDE DEF S, T
<1>9. SumFunctionOnSet(n, T) = SumFunctionOnSet(m, S)
  <2>1. Renames(name, S, m, T, n)
    BY <1>3, <1>4, <1>5 DEF Renames
  <2> QED BY <1>6, <2>1, SumRenamed
<1> QED BY <1>7, <1>8, <1>9

-----------------------------------------------------------------------------
(* Products and quotients.                                                 *)

\* Multiplying keeps an order.
LEMMA Times ==
  ASSUME NEW a \in Int, NEW b \in Int, NEW d \in Nat, a <= b
  PROVE  a * d <= b * d
OBVIOUS

\* A quotient, its divisor and its remainder.
LEMMA QuotientBounds ==
  ASSUME NEW a \in Int, NEW d \in Nat \ {0}
  PROVE  /\ a \div d \in Int
         /\ (a \div d) * d <= a /\ a < (a \div d) * d + d
OBVIOUS

\* A quotient from below.
LEMMA QuotientIsAtLeast ==
  ASSUME NEW a \in Int, NEW d \in Nat \ {0}, NEW c \in Int, c * d <= a
  PROVE  c <= a \div d
<1> DEFINE q == a \div d
<1>1. q \in Int /\ a < q * d + d
  BY QuotientBounds
<1> HIDE DEF q
<1>2. SUFFICES ASSUME q + 1 <= c PROVE FALSE
  BY <1>1 DEF q
<1>3. (q + 1) * d <= c * d
  BY <1>1, <1>2, Times
<1>4. (q + 1) * d = q * d + d
  BY <1>1
<1>5. q * d \in Int /\ c * d \in Int
  BY <1>1
<1> QED BY <1>1, <1>3, <1>4, <1>5

\* A quotient from above.
LEMMA QuotientIsAtMost ==
  ASSUME NEW a \in Int, NEW d \in Nat \ {0}, NEW c \in Int, a <= c * d
  PROVE  a \div d <= c
<1> DEFINE q == a \div d
<1>1. q \in Int /\ q * d <= a
  BY QuotientBounds
<1> HIDE DEF q
<1>2. SUFFICES ASSUME c + 1 <= q PROVE FALSE
  BY <1>1 DEF q
<1>3. (c + 1) * d <= q * d
  BY <1>1, <1>2, Times
<1>4. (c + 1) * d = c * d + d
  OBVIOUS
<1>5. q * d \in Int /\ c * d \in Int
  BY <1>1
<1> QED BY <1>1, <1>3, <1>4, <1>5

\* Dividing keeps an order.
LEMMA QuotientsRise ==
  ASSUME NEW a \in Int, NEW b \in Int, NEW d \in Nat \ {0}, a <= b
  PROVE  a \div d <= b \div d
<1>1. a \div d \in Int /\ (a \div d) * d <= a
  BY QuotientBounds
<1>2. (a \div d) * d <= b
  BY <1>1
<1> QED BY <1>1, <1>2, QuotientIsAtLeast

\* One more of them.
LEMMA OneMore ==
  ASSUME NEW a \in Int, NEW d \in Int
  PROVE  (a + 1) * d = a * d + d
OBVIOUS

\* A quotient is known by its bounds.
LEMMA QuotientIs ==
  ASSUME NEW x \in Int, NEW d \in Nat \ {0}, NEW n \in Int, n * d <= x, x < n * d + d
  PROVE  x \div d = n
<1> DEFINE q == x \div d
           low == n * d
<1>1. q \in Int /\ q * d <= x /\ x < q * d + d
  BY QuotientBounds
<1> HIDE DEF q
<1>2. q * d \in Int /\ low \in Int /\ d \in Int
  BY <1>1
<1>3. low <= x /\ x < low + d
  OBVIOUS
<1>4. ~(n + 1 <= q)
  <2> SUFFICES ASSUME n + 1 <= q PROVE FALSE
    OBVIOUS
  <2>1. (n + 1) * d <= q * d
    BY <1>1, Times
  <2>2. (n + 1) * d = low + d
    BY <1>2, OneMore, Zenon
  <2> HIDE DEF low
  <2> QED BY <1>1, <1>2, <1>3, <2>1, <2>2
<1>5. ~(q + 1 <= n)
  <2> SUFFICES ASSUME q + 1 <= n PROVE FALSE
    OBVIOUS
  <2>1. (q + 1) * d <= low
    BY <1>1, Times
  <2>2. (q + 1) * d = q * d + d
    BY <1>1, <1>2, OneMore, Zenon
  <2> HIDE DEF low
  <2> QED BY <1>1, <1>2, <1>3, <2>1, <2>2
<1>6. q = n
  BY <1>1, <1>4, <1>5
<1> QED BY <1>6 DEF q
=============================================================================
