--------------------------- MODULE OutcomeProofs ----------------------------
(***************************************************************************)
(* What a command ends with.                                               *)
(*                                                                         *)
(*   - FetchesAreWhole: a fetch that returns holds all its service has,    *)
(*     once, or fails;                                                     *)
(*   - ExitCodesTellTheTruth: the exit code of an invocation says what     *)
(*     befell its cities;                                                  *)
(*                                                                         *)
(* and, of ingest, what it stores: see its part below.                     *)
(*                                                                         *)
(* Each rests on an account of work that is not over.  Of a fetch: what it *)
(* does not hold yet, what it still asks for will bring.  Of an invocation:*)
(* every failure so far is told or is among the errors that will be, for   *)
(* the cities that are done and, step by step, for the one at hand.        *)
(***************************************************************************)
EXTENDS CityFanOut, Ingest, Upstreams, TLAPS, FiniteSetTheorems, SequenceTheorems,
        WellFoundedInduction

-----------------------------------------------------------------------------
(* The clients of the services.                                            *)

\* The fetch as a record, and what it counts.
IsFetch(f) == f = [pc |-> f.pc, todo |-> f.todo, held |-> f.held,
                   appended |-> f.appended, pages |-> f.pages] /\ f.pages \in Nat
Counted(f) == IsFiniteSet(f.held) /\ f.appended = Cardinality(f.held)

\* Overpass: what a feature is still to come from is still asked for.
AllFeatures == UNION {Features(e) : e \in world.elements}
AskedFor(todo, e) == \E i \in DOMAIN todo : Touches(e, todo[i])
OverpassHeld(f) ==
  /\ f.held \subseteq AllFeatures
  /\ f.pc = "ask" =>
       /\ f.todo \in Seq(Seq(1..4)) /\ f.todo # <<>>
       /\ \A e \in world.elements : Features(e) \subseteq f.held \/ AskedFor(f.todo, e)
  /\ f.pc # "confirm"
  /\ f.pc = "returned" => f.held = AllFeatures
Held(f) == IsFetch(f) /\ Counted(f)

\* ArcGIS: a server that heeds the offset has sent the rows up to it; another
\* has sent its first rows, again and again.
RowsUpTo(n) == {RowId(r, r) : r \in {i \in 1..n : world.rows[i]}}
RowsFrom(first, offset, n) ==
  {RowId(first + i - 1, offset + i) : i \in {j \in 1..n : world.rows[first + j - 1]}}
PageLength(first) ==
  IF first + Clamp - 1 <= Len(world.rows) THEN Clamp
  ELSE IF first <= Len(world.rows) THEN Len(world.rows) + 1 - first ELSE 0
PageSize == Least(Clamp, Len(world.rows))
ArcgisAsked(f) ==
  LET offset == f.todo[1]
  IN /\ f.todo = <<offset>> /\ offset \in Nat
     /\ world.paging = "offset" =>
          f.pc = "ask" /\ offset <= Len(world.rows) /\ f.held = RowsUpTo(offset)
     /\ world.paging # "offset" =>
          \/ f.pc = "ask" /\ offset = 0 /\ f.held = {}
          \/ /\ world.rows # <<>>
             /\ world.flag => Clamp < Len(world.rows)
             /\ world.ids => f.held = RowsUpTo(PageSize)
             /\ ~world.ids =>
                  f.pc = "ask" /\ \A x \in f.held : \E p \in 1..offset : x = <<"at", p>>
ArcgisHeld(f) ==
  /\ f.pc \in {"ask", "confirm"} => ArcgisAsked(f)
  /\ f.pc = "returned" => f.held = RowsUpTo(Len(world.rows))

\* Elements that are held once are counted once, and the count moves when
\* something new is held.
LEMMA NewOnesAreCounted ==
  ASSUME NEW S, IsFiniteSet(S), IsFetch(fetch), Counted(fetch),
         \A x \in S, y \in fetch.held : Id(y) = Id(x) => x = y
  PROVE  /\ IsFetch(WithHeld(S)) /\ Counted(WithHeld(S))
         /\ WithHeld(S).held = fetch.held \cup S
         /\ WithHeld(S).pc = fetch.pc /\ WithHeld(S).todo = fetch.todo
         /\ WithHeld(S).pages = fetch.pages
         /\ WithHeld(S).appended - fetch.appended \in Nat
         /\ WithHeld(S).appended = fetch.appended <=> S \subseteq fetch.held
<1> DEFINE new == NewOnes(S)
<1>1. new = S \ fetch.held
  BY DEF NewOnes
<1> HIDE DEF new
<1>2. IsFiniteSet(new) /\ Cardinality(new) \in Nat
  <2>1. IsFiniteSet(new)
    BY <1>1, FS_Difference
  <2> QED BY <2>1, FS_CardinalityType
<1>3. IsFiniteSet(fetch.held) /\ Cardinality(fetch.held) \in Nat
  BY FS_CardinalityType DEF Counted
<1>4. fetch.held \cap new = {} /\ fetch.held \cup new = fetch.held \cup S
  BY <1>1
<1>5. /\ IsFiniteSet(fetch.held \cup new)
      /\ Cardinality(fetch.held \cup new) = Cardinality(fetch.held) + Cardinality(new)
  <2>1. IsFiniteSet(fetch.held \cup new) /\ Cardinality(fetch.held \cup new) =
          Cardinality(fetch.held) + Cardinality(new) - Cardinality(fetch.held \cap new)
    BY <1>2, <1>3, FS_Union
  <2>2. Cardinality(fetch.held \cap new) = 0
    BY <1>4, FS_EmptySet
  <2> QED BY <1>2, <1>3, <2>1, <2>2
<1>6. Cardinality(new) = 0 <=> S \subseteq fetch.held
  BY <1>1, <1>2, FS_EmptySet
<1>7. WithHeld(S) = [pc |-> fetch.pc, todo |-> fetch.todo, held |-> fetch.held \cup S,
                     appended |-> Cardinality(fetch.held) + Cardinality(new),
                     pages |-> fetch.pages]
  <2>1. WithHeld(S) = [fetch EXCEPT !.held = @ \cup new, !.appended = @ + Cardinality(new)]
    BY DEF WithHeld, new
  <2> QED BY <1>4, <2>1 DEF IsFetch, Counted
<1>8. WithHeld(S).appended = Cardinality(fetch.held) + Cardinality(new)
      /\ fetch.appended = Cardinality(fetch.held)
  BY <1>7 DEF Counted
<1>9. WithHeld(S).held = fetch.held \cup S /\ WithHeld(S).pc = fetch.pc
      /\ WithHeld(S).todo = fetch.todo /\ WithHeld(S).pages = fetch.pages
  BY <1>7
<1>10. IsFetch(WithHeld(S))
  BY <1>7, <1>8, <1>9 DEF IsFetch
<1>11. Counted(WithHeld(S))
  BY <1>4, <1>5, <1>8, <1>9 DEF Counted
<1> QED BY <1>2, <1>3, <1>6, <1>8, <1>9, <1>10, <1>11

-----------------------------------------------------------------------------
(* Overpass.                                                               *)

\* An element makes at most one feature, and no other element makes it.
LEMMA FeatureIsOwn ==
  ASSUME world.source = "overpass", world \in Worlds,
         NEW e \in world.elements, NEW f \in world.elements,
         NEW x \in Features(e), NEW y \in Features(f), x.id = y.id
  PROVE  e = f /\ x = y
<1>1. x.id = <<e.type, e.id>> /\ y.id = <<f.type, f.id>>
  BY DEF Features, PavedFeature, FacilityFeature, OsmFeature
<1>2. e = f
  <2>1. e.type = f.type /\ e.id = f.id
    <3>1. <<e.type, e.id>> = <<f.type, f.id>>
      BY <1>1
    <3> QED BY <3>1, Zenon
  <2>2. \A g, h \in world.elements : g.type = h.type /\ g.id = h.id => g = h
    BY WorldAssumption
  <2> QED BY <2>1, <2>2
<1>3. Features(e) = {} \/ \E z : Features(e) = {z}
  BY DEF Features, PavedFeature, FacilityFeature
<1> QED BY <1>2, <1>3

\* A city has finitely many features.
LEMMA FeaturesAreFinite ==
  ASSUME world.source = "overpass", world \in Worlds
  PROVE  IsFiniteSet(AllFeatures)
<1> DEFINE makers == {e \in world.elements : Features(e) # {}}
           feature == [e \in makers |-> CHOOSE x : x \in Features(e)]
<1>1. IsFiniteSet(makers)
  BY WorldAssumption, FS_Subset
<1>2. feature \in Surjection(makers, AllFeatures)
  <2>1. \A e \in makers : feature[e] \in Features(e)
    OBVIOUS
  <2>2. feature \in [makers -> AllFeatures]
    BY <2>1 DEF AllFeatures
  <2>3. ASSUME NEW x \in AllFeatures PROVE \E e \in makers : feature[e] = x
    <3>1. PICK e \in world.elements : x \in Features(e)
      BY DEF AllFeatures
    <3>2. feature[e] = x
      BY <2>1, <3>1, FeatureIsOwn
    <3> QED BY <3>1, <3>2
  <2> HIDE DEF makers, feature
  <2> QED BY <2>2, <2>3, Zenon DEF Surjection
<1> HIDE DEF makers, feature
<1> QED BY <1>1, <1>2, FS_Surjection

\* The four quadrants of a box hold what the box holds.
LEMMA QuadrantsHoldTheBox ==
  ASSUME world.source = "overpass", world \in Worlds, NEW e \in world.elements,
         NEW box \in Seq(1..4), Len(box) < MaxSplitDepth, Touches(e, box)
  PROVE  \E q \in 1..4 : Touches(e, SplitBBox(box)[q])
<1>1. PICK c \in e.cells : IsPrefix(box, c)
  BY DEF Touches
<1>2. c \in Seq(1..4) /\ Len(c) >= MaxSplitDepth
  BY WorldAssumption
<1> DEFINE n == Len(box)
           q == c[n + 1]
<1>3. n \in Nat /\ n + 1 \in 1..Len(c) /\ q \in 1..4
  BY <1>2, UpstreamAssumption
<1>4. SplitBBox(box)[q] = Append(box, q)
  BY <1>3 DEF SplitBBox
<1>5. \A i \in 1..n : box[i] = c[i]
  BY <1>1, <1>3 DEF IsPrefix
<1>6. IsPrefix(Append(box, q), c)
  <2>1. Len(Append(box, q)) = n + 1
    OBVIOUS
  <2>2. SubSeq(Append(box, q), 1, n + 1) = [i \in 1..n + 1 |-> Append(box, q)[i]]
    BY <2>1
  <2>3. SubSeq(c, 1, n + 1) = [i \in 1..n + 1 |-> c[i]]
    BY <1>2, <1>3
  <2>4. \A i \in 1..n + 1 : Append(box, q)[i] = c[i]
    BY <1>3, <1>5
  <2> QED BY <1>2, <1>3, <2>1, <2>2, <2>3, <2>4 DEF IsPrefix
<1> QED BY <1>3, <1>4, <1>6 DEF Touches

\* What is done to a fetch beside holding more.
LEMMA FetchMoves ==
  ASSUME NEW f, Held(f)
  PROVE  /\ Held(Failed(f)) /\ Failed(f).pc = "failed" /\ Failed(f).held = f.held
         /\ Held(Returned(f)) /\ Returned(f).pc = "returned" /\ Returned(f).held = f.held
         /\ \A todo : /\ Held(Ask(f, todo)) /\ Ask(f, todo).pc = "ask"
                      /\ Ask(f, todo).held = f.held /\ Ask(f, todo).todo = todo
<1>1. f = [pc |-> f.pc, todo |-> f.todo, held |-> f.held,
           appended |-> f.appended, pages |-> f.pages]
  BY DEF Held, IsFetch
<1>2. \A pc : [f EXCEPT !.pc = pc] = [pc |-> pc, todo |-> f.todo, held |-> f.held,
                                     appended |-> f.appended, pages |-> f.pages]
  BY <1>1
<1>3. ASSUME NEW pc, NEW todo
      PROVE  [f EXCEPT !.pc = pc, !.todo = todo] =
        [pc |-> pc, todo |-> todo, held |-> f.held, appended |-> f.appended, pages |-> f.pages]
  <2> DEFINE g == [pc |-> pc, todo |-> f.todo, held |-> f.held,
                   appended |-> f.appended, pages |-> f.pages]
  <2>1. [f EXCEPT !.pc = pc, !.todo = todo] = [g EXCEPT !.todo = todo]
    <3>1. [f EXCEPT !.pc = pc] = g
      BY <1>2
    <3> HIDE DEF g
    <3> QED BY <3>1, Zenon
  <2> QED BY <2>1
<1>4. Held(Failed(f)) /\ Failed(f).pc = "failed" /\ Failed(f).held = f.held
  BY <1>2 DEF Failed, Held, IsFetch, Counted
<1>5. Held(Returned(f)) /\ Returned(f).pc = "returned" /\ Returned(f).held = f.held
  BY <1>2 DEF Returned, Held, IsFetch, Counted
<1>6. ASSUME NEW todo
      PROVE  /\ Held(Ask(f, todo)) /\ Ask(f, todo).pc = "ask"
             /\ Ask(f, todo).held = f.held /\ Ask(f, todo).todo = todo
  BY <1>3 DEF Ask, Held, IsFetch, Counted
<1> QED BY <1>4, <1>5, <1>6

\* What is asked for among the boxes still to do.
LEMMA RestIsAskedFor ==
  ASSUME NEW todo \in Seq(Seq(1..4)), todo # <<>>, NEW e, AskedFor(todo, e),
         ~Touches(e, Head(todo))
  PROVE  AskedFor(Tail(todo), e)
<1>1. PICK i \in 1..Len(todo) : Touches(e, todo[i])
  BY LenProperties DEF AskedFor
<1>2. Tail(todo) \in Seq(Seq(1..4)) /\ Len(Tail(todo)) = Len(todo) - 1
      /\ Len(todo) \in Nat /\ Head(todo) = todo[1]
      /\ \A k \in 1..Len(Tail(todo)) : Tail(todo)[k] = todo[k + 1]
  BY HeadTailProperties, LenProperties
<1>3. i # 1
  BY <1>1, <1>2
<1> DEFINE k == i - 1
<1>4. k \in 1..Len(Tail(todo)) /\ k + 1 = i
  BY <1>2, <1>3
<1>5. Tail(todo)[k] = todo[i]
  BY <1>2, <1>4
<1>6. k \in DOMAIN Tail(todo)
  BY <1>2, <1>4, LenProperties
<1> QED BY <1>1, <1>5, <1>6 DEF AskedFor

\* A list that begins with four boxes is not empty.
LEMMA JoinedAreSeqs ==
  ASSUME NEW T, NEW s \in Seq(T), NEW t \in Seq(T), Len(s) = 4
  PROVE  s \o t \in Seq(T) /\ s \o t # <<>>
<1>1. s \o t \in Seq(T)
  BY ConcatProperties
<1>2. Len(s \o t) = Len(s) + Len(t) /\ Len(t) \in Nat
  BY ConcatProperties, LenProperties
<1>3. Len(s \o t) # 0
  BY <1>2
<1> QED BY <1>1, <1>3

\* What either of two lists asks for, the two joined ask for.
LEMMA JoinedAreAskedFor ==
  ASSUME NEW s \in Seq(Seq(1..4)), NEW t \in Seq(Seq(1..4)), NEW e,
         AskedFor(s, e) \/ AskedFor(t, e)
  PROVE  AskedFor(s \o t, e)
<1>1. /\ Len(s) \in Nat /\ Len(t) \in Nat /\ DOMAIN (s \o t) = 1..(Len(s) + Len(t))
      /\ DOMAIN s = 1..Len(s) /\ DOMAIN t = 1..Len(t)
      /\ \A i \in 1..(Len(s) + Len(t)) : (s \o t)[i] = IF i <= Len(s) THEN s[i] ELSE t[i - Len(s)]
  BY ConcatProperties, LenProperties
<1>2. CASE AskedFor(s, e)
  <2>1. PICK i \in 1..Len(s) : Touches(e, s[i])
    BY <1>1, <1>2 DEF AskedFor
  <2>2. i \in DOMAIN (s \o t) /\ (s \o t)[i] = s[i]
    BY <1>1
  <2> QED BY <2>1, <2>2 DEF AskedFor
<1>3. CASE AskedFor(t, e)
  <2>1. PICK i \in 1..Len(t) : Touches(e, t[i])
    BY <1>1, <1>3 DEF AskedFor
  <2> DEFINE k == Len(s) + i
  <2>2. k \in DOMAIN (s \o t) /\ (s \o t)[k] = t[k - Len(s)] /\ k - Len(s) = i
    BY <1>1
  <2> QED BY <2>1, <2>2 DEF AskedFor
<1> QED BY <1>2, <1>3

\* An answer that is used, one that is split, and one that is given up.
LEMMA OverpassAnswers ==
  ASSUME world.source = "overpass", world \in Worlds, fetch.pc = "ask",
         Held(fetch), OverpassHeld(fetch), AnswerBBox
  PROVE  Held(fetch') /\ OverpassHeld(fetch') /\ fetch'.pc \in {"ask", "failed", "returned"}
<1> DEFINE S == ParseOverpass(Box)
           used == WithHeld(S)
<1> HIDE DEF S, used
<1>1. fetch.todo \in Seq(Seq(1..4)) /\ fetch.todo # <<>> /\ Box \in Seq(1..4)
      /\ Rest \in Seq(Seq(1..4))
  BY HeadTailProperties DEF OverpassHeld, Box, Rest
<1>3. \A e \in world.elements : AskedFor(fetch.todo, e) => Touches(e, Box) \/ AskedFor(Rest, e)
  BY <1>1, RestIsAskedFor DEF Box, Rest
<1>4. CASE ~Unusable(Box)
  <2>1. S \subseteq AllFeatures /\ IsFiniteSet(S)
    <3>1. S \subseteq AllFeatures
      BY DEF ParseOverpass, ElementsIn, AllFeatures, S
    <3> QED BY <3>1, FeaturesAreFinite, FS_Subset
  <2>2. \A x \in S, y \in fetch.held : Id(y) = Id(x) => x = y
    <3> SUFFICES ASSUME NEW x \in AllFeatures, NEW y \in AllFeatures, Id(y) = Id(x)
                 PROVE  x = y
      BY <2>1 DEF OverpassHeld
    <3>1. PICK e \in world.elements : x \in Features(e)
      BY DEF AllFeatures
    <3>2. PICK f \in world.elements : y \in Features(f)
      BY DEF AllFeatures
    <3>3. x.id = y.id
      BY DEF Id
    <3> QED BY <3>1, <3>2, <3>3, FeatureIsOwn
  <2>3. /\ Held(used) /\ used.held = fetch.held \cup S /\ used.pc = "ask"
    <3> QED BY <2>1, <2>2, NewOnesAreCounted DEF Held, used
  <2>4. \A e \in world.elements : Features(e) \subseteq used.held \/ AskedFor(Rest, e)
    <3> SUFFICES ASSUME NEW e \in world.elements, Touches(e, Box)
                 PROVE  Features(e) \subseteq S
      BY <1>3, <2>3 DEF OverpassHeld
    <3> QED BY DEF ParseOverpass, ElementsIn, S
  <2>5. used.held \subseteq AllFeatures
    BY <2>1, <2>3 DEF OverpassHeld
  <2>6. CASE Rest = <<>>
    <3>1. fetch' = Returned(used)
      BY <1>4, <2>6 DEF AnswerBBox, Continue, used, S
    <3>2. Held(fetch') /\ fetch'.pc = "returned" /\ fetch'.held = used.held
      BY <2>3, <3>1, FetchMoves
    <3>3. \A e \in world.elements : Features(e) \subseteq used.held
      BY <2>4, <2>6 DEF AskedFor
    <3>4. used.held = AllFeatures
      BY <2>5, <3>3 DEF AllFeatures
    <3> QED BY <3>2, <3>4 DEF OverpassHeld
  <2>7. CASE Rest # <<>>
    <3>1. fetch' = Ask(used, Rest)
      BY <1>4, <2>7 DEF AnswerBBox, Continue, used, S
    <3>2. Held(fetch') /\ fetch'.pc = "ask" /\ fetch'.held = used.held /\ fetch'.todo = Rest
      BY <2>3, <3>1, FetchMoves
    <3> QED BY <1>1, <2>4, <2>5, <2>7, <3>2 DEF OverpassHeld
  <2> QED BY <2>6, <2>7
<1>5. CASE Unusable(Box) /\ Len(Box) < MaxSplitDepth
  <2> DEFINE todo == SplitBBox(Box) \o Rest
  <2>1. fetch' = Ask(fetch, todo)
    BY <1>5 DEF AnswerBBox
  <2>2. SplitBBox(Box) \in Seq(Seq(1..4)) /\ Len(SplitBBox(Box)) = 4
    <3>1. \A q \in 1..4 : Append(Box, q) \in Seq(1..4)
      BY <1>1
    <3> QED BY <3>1 DEF SplitBBox
  <2>3. todo \in Seq(Seq(1..4)) /\ todo # <<>>
    BY <1>1, <2>2, JoinedAreSeqs
  <2>4. ASSUME NEW e \in world.elements, ~(Features(e) \subseteq fetch.held)
        PROVE  AskedFor(todo, e)
    <3>1. Touches(e, Box) \/ AskedFor(Rest, e)
      BY <1>3, <2>4 DEF OverpassHeld
    <3>2. CASE Touches(e, Box)
      <4>1. PICK q \in 1..4 : Touches(e, SplitBBox(Box)[q])
        BY <1>1, <1>5, <3>2, QuadrantsHoldTheBox
      <4>2. AskedFor(SplitBBox(Box), e)
        BY <2>2, <4>1 DEF AskedFor
      <4> QED BY <1>1, <2>2, <4>2, JoinedAreAskedFor
    <3> QED BY <1>1, <2>2, <3>1, <3>2, JoinedAreAskedFor
  <2> HIDE DEF todo
  <2>5. Held(fetch') /\ fetch'.pc = "ask" /\ fetch'.held = fetch.held /\ fetch'.todo = todo
    <3>1. Held(Ask(fetch, todo)) /\ Ask(fetch, todo).pc = "ask"
          /\ Ask(fetch, todo).held = fetch.held /\ Ask(fetch, todo).todo = todo
      BY FetchMoves
    <3> QED BY <2>1, <3>1
  <2> QED BY <2>3, <2>4, <2>5 DEF OverpassHeld
<1>6. CASE Unusable(Box) /\ ~(Len(Box) < MaxSplitDepth)
  <2>1. fetch' = Failed(fetch)
    BY <1>6 DEF AnswerBBox
  <2>2. Held(fetch') /\ fetch'.pc = "failed" /\ fetch'.held = fetch.held
    BY <2>1, FetchMoves
  <2> QED BY <2>2 DEF OverpassHeld
<1> QED BY <1>4, <1>5, <1>6

-----------------------------------------------------------------------------
(* ArcGIS.                                                                 *)

\* The lengths of a layer and of its pages.
LEMMA LayerTypes ==
  ASSUME world.source = "arcgis", world \in Worlds
  PROVE  /\ world.rows \in Seq(BOOLEAN) /\ Len(world.rows) \in Nat
         /\ world.cap \in Nat \ {0} /\ Clamp \in Nat \ {0}
         /\ world.ids \in BOOLEAN /\ world.flag \in BOOLEAN
         /\ PageSize \in 0..Len(world.rows)
<1>1. /\ world.rows \in Seq(BOOLEAN) /\ world.cap \in Nat \ {0}
      /\ {world.ids, world.meta, world.flag, world.private} \subseteq BOOLEAN
  BY WorldAssumption
<1>2. Len(world.rows) \in Nat
  BY <1>1
<1>3. Clamp \in Nat \ {0}
  BY <1>1, UpstreamAssumption DEF Clamp, Least
<1>4. PageSize \in 0..Len(world.rows)
  BY <1>2, <1>3 DEF PageSize, Least
<1> QED BY <1>1, <1>2, <1>3, <1>4

\* The rows of a page, whatever the server makes of the offset.
LEMMA PageOfRows ==
  ASSUME world.source = "arcgis", world \in Worlds, NEW offset \in Nat,
         NEW n \in Nat, NEW first \in Nat \ {0}, first = FirstRow(offset), n = PageLength(first)
  PROVE  /\ Len(PageRows(offset)) = n
         /\ RowsOfPage(offset) = RowsFrom(first, offset, n)
         /\ IsFiniteSet(RowsOfPage(offset))
<1> DEFINE last == Least(first + Clamp - 1, Len(world.rows))
           kept == {j \in 1..n : world.rows[first + j - 1]}
           id == [i \in kept |-> RowId(first + i - 1, offset + i)]
<1>1. last + 1 - Least(first, last + 1) = n
  BY LayerTypes DEF Least, PageLength
<1>2. PageRows(offset) = [i \in 1..n |-> first + i - 1]
  BY <1>1 DEF PageRows
<1>3. Len(PageRows(offset)) = n
  BY <1>2
<1>4. RowsOfPage(offset) = {RowId(first + i - 1, offset + i) : i \in kept}
  <2>1. \A i \in 1..n : PageRows(offset)[i] = first + i - 1
    BY <1>2
  <2>2. {j \in 1..n : world.rows[PageRows(offset)[j]]} = kept
    BY <2>1
  <2> QED BY <1>3, <2>1, <2>2 DEF RowsOfPage
<1>5. IsFiniteSet(kept)
  <2>1. kept \subseteq 1..n
    OBVIOUS
  <2>2. IsFiniteSet(1..n)
    BY FS_Interval
  <2> HIDE DEF kept
  <2> QED BY <2>1, <2>2, FS_Subset
<1>6. id \in Surjection(kept, RowsOfPage(offset))
  <2>1. id \in [kept -> RowsOfPage(offset)] /\ \A x \in RowsOfPage(offset) : \E i \in kept : id[i] = x
    BY <1>4
  <2> HIDE DEF kept, id
  <2> QED BY <2>1, Zenon DEF Surjection
<1>7. IsFiniteSet(RowsOfPage(offset))
  <2> HIDE DEF kept, id
  <2> QED BY <1>5, <1>6, FS_Surjection
<1> QED BY <1>3, <1>4, <1>7 DEF RowsFrom

\* A page that heeds the offset is the next rows, any other the first ones.
LEMMA NextPage ==
  ASSUME world.source = "arcgis", world \in Worlds, world.paging = "offset",
         NEW offset \in 0..Len(world.rows)
  PROVE  LET next == Least(offset + Clamp, Len(world.rows))
         IN /\ next \in offset..Len(world.rows) /\ Len(PageRows(offset)) = next - offset
            /\ RowsOfPage(offset) = RowsUpTo(next) \ RowsUpTo(offset)
            /\ IsFiniteSet(RowsOfPage(offset))
            /\ next = offset => offset = Len(world.rows)
            /\ ~Exceeded(offset) => next = Len(world.rows)
<1> DEFINE next == Least(offset + Clamp, Len(world.rows))
           n == next - offset
           page == RowsFrom(offset + 1, offset, n)
<1>1. Len(world.rows) \in Nat /\ Clamp \in Nat \ {0} /\ offset \in Nat
  BY LayerTypes
<1>2. /\ next \in offset..Len(world.rows) /\ n \in Nat
      /\ next = offset => offset = Len(world.rows)
  BY <1>1 DEF Least
<1>3. Len(PageRows(offset)) = n /\ RowsOfPage(offset) = page /\ IsFiniteSet(RowsOfPage(offset))
  <2>1. FirstRow(offset) = offset + 1 /\ offset + 1 \in Nat \ {0}
    BY <1>1 DEF FirstRow
  <2>2. n = PageLength(offset + 1)
    <3>1. ASSUME NEW l \in Nat, NEW c \in Nat \ {0}, NEW o \in 0..l
          PROVE  (IF o + c < l THEN o + c ELSE l) - o =
                   IF (o + 1) + c - 1 <= l THEN c ELSE IF o + 1 <= l THEN l + 1 - (o + 1) ELSE 0
      OBVIOUS
    <3> QED BY <1>1, <3>1 DEF Least, PageLength
  <2> HIDE DEF n
  <2> QED BY <1>1, <1>2, <2>1, <2>2, PageOfRows
<1>4. ~Exceeded(offset) => next = Len(world.rows)
  BY <1>1, <1>2 DEF Exceeded, Least, FirstRow
<1>5. \A r, s \in Nat : RowId(r, r) = RowId(s, s) => r = s
  BY DEF RowId
<1>6. page = {RowId(r, r) : r \in {i \in (offset + 1)..next : world.rows[i]}}
  <2>1. ASSUME NEW i \in 1..n
        PROVE  offset + 1 + i - 1 = offset + i /\ offset + i \in (offset + 1)..next
    BY <1>1, <1>2
  <2>2. ASSUME NEW r \in (offset + 1)..next
        PROVE  r - offset \in 1..n /\ offset + 1 + (r - offset) - 1 = r
               /\ offset + (r - offset) = r
    BY <1>1, <1>2
  <2> HIDE DEF next, n
  <2> QED BY <2>1, <2>2 DEF RowsFrom
<1>7. RowsUpTo(next) \ RowsUpTo(offset) = {RowId(r, r) : r \in {i \in (offset + 1)..next : world.rows[i]}}
  <2>1. 1..next = 1..offset \cup (offset + 1)..next /\ 1..offset \cap (offset + 1)..next = {}
        /\ 1..next \subseteq Nat
    BY <1>1, <1>2
  <2> HIDE DEF next
  <2> QED BY <1>5, <2>1 DEF RowsUpTo, RowsFrom
<1> QED BY <1>2, <1>3, <1>4, <1>6, <1>7

\* A server that does not heed the offset sends its first rows, again.
LEMMA FirstPage ==
  ASSUME world.source = "arcgis", world \in Worlds, world.paging # "offset",
         NEW offset \in Nat
  PROVE  /\ Len(PageRows(offset)) = PageSize
         /\ world.ids \/ offset = 0 => RowsOfPage(offset) = RowsUpTo(PageSize)
         /\ ~world.ids => /\ \A x \in RowsOfPage(offset) :
                               \E p \in (offset + 1)..(offset + PageSize) : x = <<"at", p>>
         /\ IsFiniteSet(RowsOfPage(offset))
         /\ PageSize = 0 => world.rows = <<>>
         /\ ~Exceeded(offset) <=> Clamp >= Len(world.rows)
         /\ Clamp >= Len(world.rows) => PageSize = Len(world.rows)
<1> DEFINE page == RowsFrom(1, offset, PageSize)
<1>1. Len(world.rows) \in Nat /\ Clamp \in Nat \ {0} /\ PageSize \in Nat
      /\ world.rows \in Seq(BOOLEAN)
  BY LayerTypes
<1>2. /\ FirstRow(offset) = 1 /\ PageSize = PageLength(1)
      /\ ~Exceeded(offset) <=> Clamp >= Len(world.rows)
      /\ Clamp >= Len(world.rows) => PageSize = Len(world.rows)
  BY <1>1 DEF PageSize, PageLength, Least, FirstRow, Exceeded
<1>3. Len(PageRows(offset)) = PageSize /\ RowsOfPage(offset) = page
      /\ IsFiniteSet(RowsOfPage(offset))
  <2>1. 1 \in Nat \ {0}
    OBVIOUS
  <2> QED BY <1>1, <1>2, <2>1, PageOfRows
<1>4. PageSize = 0 => world.rows = <<>>
  <2>1. PageSize = 0 => Len(world.rows) = 0
    BY <1>1 DEF PageSize, Least
  <2> QED BY <1>1, <2>1, EmptySeq
<1>5. \A i \in 1..PageSize : 1 + i - 1 = i
  BY <1>1
<1>6. world.ids \/ offset = 0 => page = RowsUpTo(PageSize)
  <2>1. ASSUME world.ids \/ offset = 0, NEW i \in 1..PageSize
        PROVE  RowId(1 + i - 1, offset + i) = RowId(i, i)
    BY <1>1, <1>5, <2>1 DEF RowId
  <2> QED BY <1>5, <2>1 DEF RowsUpTo, RowsFrom
<1>7. ~world.ids => \A x \in page :
                      \E p \in (offset + 1)..(offset + PageSize) : x = <<"at", p>>
  BY <1>1 DEF RowId, RowsFrom
<1> QED BY <1>2, <1>3, <1>4, <1>6, <1>7

\* A page that is counted: what of it is new, and whether anything was.
Paged(rows) == [WithHeld(rows) EXCEPT !.pages = @ + 1]

\* What a page leaves held and counted.
LEMMA PagesAreCounted ==
  ASSUME world.source = "arcgis", Held(fetch), NEW S, IsFiniteSet(S)
  PROVE  /\ Held(Paged(S)) /\ Paged(S).held = fetch.held \cup S
         /\ Paged(S).pc = fetch.pc /\ Paged(S).todo = fetch.todo
         /\ Cardinality(S) > 0 /\ Paged(S).appended - fetch.appended = 0 =>
              S # {} /\ S \subseteq fetch.held
<1> DEFINE w == WithHeld(S)
<1>1. /\ IsFetch(w) /\ Counted(w) /\ w.held = fetch.held \cup S
      /\ w.pc = fetch.pc /\ w.todo = fetch.todo
      /\ w.appended - fetch.appended \in Nat
      /\ w.appended = fetch.appended <=> S \subseteq fetch.held
  <2>1. \A x \in S, y \in fetch.held : Id(y) = Id(x) => x = y
    BY DEF Id
  <2> QED BY <2>1, NewOnesAreCounted DEF Held
<1> HIDE DEF w
<1>2. Paged(S) = [w EXCEPT !.pages = @ + 1]
  BY DEF Paged, w
<1>3. Paged(S) = [pc |-> w.pc, todo |-> w.todo, held |-> w.held,
                  appended |-> w.appended, pages |-> w.pages + 1] /\ w.pages \in Nat
  BY <1>1, <1>2 DEF IsFetch
<1>4. Held(Paged(S))
  BY <1>1, <1>3 DEF Held, IsFetch, Counted
<1>5. Cardinality(S) > 0 => S # {}
  BY FS_EmptySet
<1>6. fetch.appended \in Nat /\ w.appended \in Nat
  <2>1. IsFiniteSet(fetch.held) /\ IsFiniteSet(w.held)
    BY <1>1 DEF Held, Counted
  <2> QED BY <1>1, <2>1, FS_CardinalityType DEF Held, Counted
<1>7. Paged(S).appended - fetch.appended = 0 => w.appended = fetch.appended
  BY <1>3, <1>6
<1> QED BY <1>1, <1>3, <1>4, <1>5, <1>7

\* What FetchAll makes of a page.
Outcome(offset) ==
  ClassifyArcGISPage(Len(PageRows(offset)), Cardinality(RowsOfPage(offset)),
    Paged(RowsOfPage(offset)).appended - fetch.appended, Exceeded(offset), world.flag)

\* A page that ends the fetch, one that asks for the next, one that repeats.
LEMMA PageOutcomes ==
  ASSUME AnswerPage, NEW offset, offset = Head(fetch.todo), NEW next,
         next = Paged(RowsOfPage(offset)), Held(next)
  PROVE  \/ /\ Outcome(offset) = "done" /\ fetch' = Returned(next)
         \/ fetch' = Failed(next)
         \/ /\ Outcome(offset) = "repeated" /\ fetch' = [next EXCEPT !.pc = "confirm"]
         \/ /\ Outcome(offset) = "continue"
            /\ fetch' = Ask(next, <<offset + Len(PageRows(offset))>>)
<1> DEFINE outcome == Outcome(offset)
<1>1. fetch' = CASE outcome = "done" -> Returned(next)
                 [] outcome = "truncated" -> Failed(next)
                 [] outcome = "repeated" -> [next EXCEPT !.pc = "confirm"]
                 [] outcome = "continue" ->
                      IF next.pages >= ArcgisMaxPages THEN Failed(next)
                      ELSE Ask(next, <<offset + Len(PageRows(offset))>>)
  BY DEF AnswerPage, Paged, Outcome
<1>2. outcome \in {"done", "truncated", "repeated", "continue"}
  BY DEF Outcome, ClassifyArcGISPage
<1> HIDE DEF outcome
<1>3. CASE outcome = "done"
  <2>1. fetch' = Returned(next)
    BY <1>1, <1>3
  <2> QED BY <1>3, <2>1 DEF outcome
<1>4. CASE outcome = "truncated"
  BY <1>1, <1>4
<1>5. CASE outcome = "repeated"
  <2>1. fetch' = [next EXCEPT !.pc = "confirm"]
    BY <1>1, <1>5
  <2> QED BY <1>5, <2>1 DEF outcome
<1>6. CASE outcome = "continue"
  <2>1. \/ fetch' = Failed(next)
        \/ fetch' = Ask(next, <<offset + Len(PageRows(offset))>>)
    BY <1>1, <1>6
  <2> QED BY <1>6, <2>1 DEF outcome
<1> QED BY <1>2, <1>3, <1>4, <1>5, <1>6

\* A page of a layer: complete, short, a repeat, or one of several.
LEMMA PageIsAnswered ==
  ASSUME world.source = "arcgis", world \in Worlds, fetch.pc = "ask",
         Held(fetch), ArcgisHeld(fetch), AnswerPage
  PROVE  Held(fetch') /\ ArcgisHeld(fetch')
         /\ fetch'.pc \in {"ask", "confirm", "failed", "returned"}
<1> DEFINE offset == fetch.todo[1]
           next == Paged(RowsOfPage(offset))
           size == Len(PageRows(offset))
<1>1. ArcgisAsked(fetch) /\ offset \in Nat /\ Head(fetch.todo) = offset
      /\ fetch.todo = <<offset>>
  BY DEF ArcgisHeld, ArcgisAsked
<1>2. IsFiniteSet(RowsOfPage(offset)) /\ size \in Nat
  <2>1. CASE world.paging = "offset"
    <3>1. offset \in 0..Len(world.rows) /\ Len(world.rows) \in Nat /\ Clamp \in Nat \ {0}
      BY <1>1, <2>1, LayerTypes DEF ArcgisAsked
    <3> DEFINE last == Least(offset + Clamp, Len(world.rows))
    <3>2. IsFiniteSet(RowsOfPage(offset)) /\ last \in offset..Len(world.rows) /\ size = last - offset
      BY <2>1, <3>1, NextPage
    <3> HIDE DEF last, size
    <3> QED BY <1>1, <3>1, <3>2
  <2>2. CASE world.paging # "offset"
    BY <1>1, <2>2, FirstPage, LayerTypes
  <2> QED BY <2>1, <2>2
<1>3. /\ Held(next) /\ next.held = fetch.held \cup RowsOfPage(offset)
      /\ next.todo = <<offset>> /\ next.pc = "ask"
      /\ Cardinality(RowsOfPage(offset)) > 0 /\ next.appended - fetch.appended = 0 =>
           RowsOfPage(offset) # {} /\ RowsOfPage(offset) \subseteq fetch.held
  BY <1>1, <1>2, PagesAreCounted
<1>4. /\ Outcome(offset) = "done" => size = 0 \/ (world.flag /\ ~Exceeded(offset))
      /\ Outcome(offset) = "repeated" =>
           RowsOfPage(offset) # {} /\ RowsOfPage(offset) \subseteq fetch.held /\ ~world.flag
      /\ Outcome(offset) = "continue" => size # 0 /\ (world.flag => Exceeded(offset))
  BY <1>3 DEF Outcome, ClassifyArcGISPage
<1> HIDE DEF next, size
<1>5. \/ /\ Outcome(offset) = "done" /\ fetch' = Returned(next)
      \/ fetch' = Failed(next)
      \/ /\ Outcome(offset) = "repeated" /\ fetch' = [next EXCEPT !.pc = "confirm"]
      \/ /\ Outcome(offset) = "continue" /\ fetch' = Ask(next, <<offset + size>>)
  BY <1>1, <1>3, PageOutcomes DEF next, size
<1>6. CASE fetch' = Failed(next)
  <2>1. Held(fetch') /\ fetch'.pc = "failed"
    BY <1>3, <1>6, FetchMoves
  <2> QED BY <2>1 DEF ArcgisHeld
<1>7. CASE Outcome(offset) = "done" /\ fetch' = Returned(next)
  <2>1. Held(fetch') /\ fetch'.pc = "returned" /\ fetch'.held = next.held
    BY <1>3, <1>7, FetchMoves
  <2>2. next.held = RowsUpTo(Len(world.rows))
    <3>1. CASE world.paging = "offset"
      <4>1. offset \in 0..Len(world.rows) /\ fetch.held = RowsUpTo(offset)
        BY <1>1, <3>1, LayerTypes DEF ArcgisAsked
      <4> DEFINE last == Least(offset + Clamp, Len(world.rows))
      <4>2. /\ last \in offset..Len(world.rows) /\ size = last - offset
            /\ RowsOfPage(offset) = RowsUpTo(last) \ RowsUpTo(offset)
            /\ last = offset => offset = Len(world.rows)
            /\ ~Exceeded(offset) => last = Len(world.rows)
        BY <3>1, <4>1, NextPage DEF size
      <4> HIDE DEF last
      <4>3. last = Len(world.rows)
        BY <1>1, <1>4, <1>7, <4>2, LayerTypes
      <4>4. RowsUpTo(offset) \subseteq RowsUpTo(last)
        BY <1>1, <4>2, LayerTypes DEF RowsUpTo
      <4> QED BY <1>3, <4>1, <4>2, <4>3, <4>4
    <3>2. CASE world.paging # "offset"
      <4>1. /\ size = PageSize /\ (PageSize = 0 => world.rows = <<>>)
            /\ ~Exceeded(offset) <=> Clamp >= Len(world.rows)
            /\ Clamp >= Len(world.rows) => PageSize = Len(world.rows)
            /\ world.ids \/ offset = 0 => RowsOfPage(offset) = RowsUpTo(PageSize)
        BY <1>1, <3>2, FirstPage DEF size
      <4>2. offset = 0 /\ fetch.held = {}
        <5>1. CASE size = 0
          BY <1>1, <3>2, <4>1, <5>1 DEF ArcgisAsked
        <5>2. CASE world.flag /\ ~Exceeded(offset)
          BY <1>1, <3>2, <4>1, <5>2, LayerTypes DEF ArcgisAsked
        <5> QED BY <1>4, <1>7, <5>1, <5>2
      <4>3. PageSize = Len(world.rows)
        BY <1>4, <1>7, <4>1, LayerTypes
      <4> QED BY <1>3, <4>1, <4>2, <4>3
    <3> QED BY <3>1, <3>2
  <2> QED BY <2>1, <2>2 DEF ArcgisHeld
<1>8. CASE Outcome(offset) = "continue" /\ fetch' = Ask(next, <<offset + size>>)
  <2>1. /\ Held(fetch') /\ fetch'.pc = "ask" /\ fetch'.held = next.held
        /\ fetch'.todo = <<offset + size>>
    BY <1>3, <1>8, FetchMoves
  <2>2. CASE world.paging = "offset"
    <3>1. offset \in 0..Len(world.rows) /\ fetch.held = RowsUpTo(offset)
      BY <1>1, <2>2, LayerTypes DEF ArcgisAsked
    <3> DEFINE last == Least(offset + Clamp, Len(world.rows))
    <3>2. /\ last \in offset..Len(world.rows) /\ size = last - offset
          /\ RowsOfPage(offset) = RowsUpTo(last) \ RowsUpTo(offset)
      BY <2>2, <3>1, NextPage DEF size
    <3> HIDE DEF last
    <3>3. offset + size = last /\ last \in Nat /\ last <= Len(world.rows)
      BY <1>1, <3>2, LayerTypes
    <3>4. RowsUpTo(offset) \subseteq RowsUpTo(last)
      BY <1>1, <3>2, LayerTypes DEF RowsUpTo
    <3>5. fetch'.held = RowsUpTo(last) /\ fetch'.todo = <<last>>
      BY <1>3, <2>1, <3>1, <3>2, <3>3, <3>4
    <3> QED BY <2>1, <2>2, <3>3, <3>5 DEF ArcgisHeld, ArcgisAsked
  <2>3. CASE world.paging # "offset"
    <3>1. /\ size = PageSize /\ (PageSize = 0 => world.rows = <<>>)
          /\ ~Exceeded(offset) <=> Clamp >= Len(world.rows)
          /\ world.ids \/ offset = 0 => RowsOfPage(offset) = RowsUpTo(PageSize)
          /\ ~world.ids => \A x \in RowsOfPage(offset) :
                             \E p \in (offset + 1)..(offset + PageSize) : x = <<"at", p>>
      BY <1>1, <2>3, FirstPage DEF size
    <3>2. world.rows # <<>> /\ (world.flag => Clamp < Len(world.rows))
      <4>1. world.rows # <<>>
        BY <1>4, <1>8, <3>1, LayerTypes DEF PageSize, Least
      <4> QED BY <1>4, <1>8, <3>1, <4>1, LayerTypes
    <3>3. world.ids => fetch'.held = RowsUpTo(PageSize)
      BY <1>1, <1>3, <2>1, <2>3, <3>1 DEF ArcgisAsked
    <3>4. ~world.ids => \A x \in fetch'.held : \E p \in 1..(offset + size) : x = <<"at", p>>
      <4>1. ~world.ids => \A x \in fetch.held : \E p \in 1..offset : x = <<"at", p>>
        BY <1>1, <2>3 DEF ArcgisAsked
      <4>2. 1..offset \subseteq 1..(offset + size)
            /\ (offset + 1)..(offset + size) \subseteq 1..(offset + size)
        BY <1>1, <3>1, LayerTypes
      <4> QED BY <1>3, <2>1, <3>1, <4>1, <4>2
    <3>5. offset + size \in Nat
      BY <1>1, <3>1, LayerTypes
    <3> QED BY <2>1, <2>3, <3>2, <3>3, <3>4, <3>5 DEF ArcgisHeld, ArcgisAsked
  <2> QED BY <2>2, <2>3
<1>9. CASE Outcome(offset) = "repeated" /\ fetch' = [next EXCEPT !.pc = "confirm"]
  <2>1. /\ Held(fetch') /\ fetch'.pc = "confirm" /\ fetch'.held = next.held
        /\ fetch'.todo = <<offset>>
    BY <1>3, <1>9 DEF Held, IsFetch, Counted
  <2>2. next.held = fetch.held /\ RowsOfPage(offset) # {}
        /\ RowsOfPage(offset) \subseteq fetch.held /\ ~world.flag
    BY <1>3, <1>4, <1>9
  <2>3. world.paging # "offset"
    <3> SUFFICES ASSUME world.paging = "offset" PROVE FALSE
      OBVIOUS
    <3>1. offset \in 0..Len(world.rows) /\ fetch.held = RowsUpTo(offset)
      BY <1>1, LayerTypes DEF ArcgisAsked
    <3>2. \E n : RowsOfPage(offset) = RowsUpTo(n) \ RowsUpTo(offset)
      BY <3>1, NextPage
    <3> QED BY <2>2, <3>1, <3>2
  <2>4. /\ world.ids \/ offset = 0 => RowsOfPage(offset) = RowsUpTo(PageSize)
        /\ ~world.ids => \A x \in RowsOfPage(offset) :
                           \E p \in (offset + 1)..(offset + PageSize) : x = <<"at", p>>
    BY <1>1, <2>3, FirstPage
  <2>5. fetch.held # {}
    BY <2>2
  <2>6. /\ world.rows # <<>> /\ (world.ids => fetch.held = RowsUpTo(PageSize))
        /\ ~world.ids => \A x \in fetch.held : \E p \in 1..offset : x = <<"at", p>>
    BY <1>1, <2>3, <2>5 DEF ArcgisAsked
  <2>7. world.ids
    <3> SUFFICES ASSUME ~world.ids PROVE FALSE
      OBVIOUS
    <3>1. PICK x \in RowsOfPage(offset) : x \in fetch.held
      BY <2>2
    <3>2. PICK p \in (offset + 1)..(offset + PageSize) : x = <<"at", p>>
      BY <2>4, <3>1
    <3>3. PICK q \in 1..offset : x = <<"at", q>>
      BY <2>6, <3>1
    <3>4. p = q
      BY <3>2, <3>3
    <3> QED BY <1>1, <3>4, LayerTypes
  <2> QED BY <1>1, <2>1, <2>2, <2>3, <2>6, <2>7 DEF ArcgisHeld, ArcgisAsked
<1> QED BY <1>5, <1>6, <1>7, <1>8, <1>9

\* The layer's own page size decides whether a repeated page was all of it.
LEMMA LayerIsAnswered ==
  ASSUME world.source = "arcgis", world \in Worlds, fetch.pc = "confirm",
         Held(fetch), ArcgisHeld(fetch), AnswerLayer
  PROVE  Held(fetch') /\ ArcgisHeld(fetch') /\ fetch'.pc \in {"failed", "returned"}
<1> DEFINE offset == Head(fetch.todo)
<1>1. /\ offset \in Nat /\ world.paging # "offset"
      /\ world.rows # <<>> /\ fetch.held = RowsUpTo(PageSize)
  BY DEF ArcgisHeld, ArcgisAsked
<1>2. Len(PageRows(offset)) = PageSize
  BY <1>1, FirstPage
<1> HIDE DEF offset
<1>3. CASE fetch' = Failed(fetch)
  <2>1. Held(fetch') /\ fetch'.pc = "failed"
    BY <1>3, FetchMoves
  <2> QED BY <2>1 DEF ArcgisHeld
<1>4. CASE RepeatedIsComplete(PageSize, world.cap) /\ fetch' = Returned(fetch)
  <2>1. PageSize = Len(world.rows)
    BY <1>4, LayerTypes, UpstreamAssumption DEF RepeatedIsComplete, PageSize, Clamp, Least
  <2>2. Held(fetch') /\ fetch'.pc = "returned" /\ fetch'.held = fetch.held
    BY <1>4, FetchMoves
  <2> QED BY <1>1, <2>1, <2>2 DEF ArcgisHeld
<1> QED BY <1>2, <1>3, <1>4 DEF AnswerLayer, offset

-----------------------------------------------------------------------------
(* Nominatim.                                                              *)

Candidates == IF CityPolygons # {} THEN CityPolygons ELSE Polygons
NominatimHeld(f) ==
  /\ f.pc = "ask" => f.held = {}
  /\ f.pc # "confirm"
  /\ f.pc = "returned" => f.held \in {{i} : i \in Candidates}

\* The first of some positions is one of them.
LEMMA FirstIsOne ==
  ASSUME NEW P \in SUBSET (Nat \ {0})
  PROVE  IF P = {} THEN FirstWhere(P) = 0 ELSE FirstWhere(P) \in P
<1> SUFFICES ASSUME P # {} PROVE FirstWhere(P) \in P
  BY DEF FirstWhere
<1>1. PICK v \in P : \A w \in P : <<w, v>> \notin OpToRel(<, Nat)
  BY WFMin, NatLessThanWellFounded
<1>2. ASSUME NEW w \in P, w < v
      PROVE  FALSE
  <2>1. <<w, v>> \in Nat \X Nat /\ <<w, v>>[1] < <<w, v>>[2]
    BY <1>2
  <2> QED BY <1>1, <2>1 DEF OpToRel
<1>3. \A w \in P : v <= w
  BY <1>2
<1> QED BY <1>3 DEF FirstWhere

\* The search's first city polygon is taken, or its first polygon.
LEMMA BoundaryIsAnswered ==
  ASSUME world.source = "nominatim", world \in Worlds, fetch.pc = "ask",
         Held(fetch), NominatimHeld(fetch), AnswerBoundary
  PROVE  Held(fetch') /\ NominatimHeld(fetch') /\ fetch'.pc \in {"failed", "returned"}
<1>1. Candidates \in SUBSET (Nat \ {0})
  <2>1. DOMAIN world.results \subseteq Nat \ {0}
    BY WorldAssumption, LenProperties
  <2> QED BY <2>1 DEF Candidates, CityPolygons, Polygons
<1>2. PickBoundary = FirstWhere(Candidates)
  BY DEF PickBoundary, Candidates
<1>3. CASE PickBoundary = 0
  <2>1. fetch' = Failed(fetch)
    BY <1>3 DEF AnswerBoundary
  <2>2. Held(fetch') /\ fetch'.pc = "failed"
    BY <2>1, FetchMoves
  <2> QED BY <2>2 DEF NominatimHeld
<1>4. CASE PickBoundary # 0
  <2> DEFINE best == WithHeld({PickBoundary})
  <2>1. PickBoundary \in Candidates
    BY <1>1, <1>2, <1>4, FirstIsOne
  <2>2. Held(best) /\ best.held = {PickBoundary}
    <3>1. IsFiniteSet({PickBoundary})
      BY FS_Singleton
    <3>2. fetch.held = {}
      BY DEF NominatimHeld
    <3> QED BY <3>1, <3>2, NewOnesAreCounted DEF Held
  <2>3. fetch' = Returned(best)
    BY <1>4 DEF AnswerBoundary
  <2> HIDE DEF best
  <2>4. Held(fetch') /\ fetch'.pc = "returned" /\ fetch'.held = {PickBoundary}
    BY <2>2, <2>3, FetchMoves
  <2> QED BY <2>1, <2>4 DEF NominatimHeld
<1> QED BY <1>3, <1>4

-----------------------------------------------------------------------------
(* The fetch.                                                              *)

SourceHeld(f) ==
  /\ world.source = "overpass" => OverpassHeld(f)
  /\ world.source = "arcgis" => ArcgisHeld(f)
  /\ world.source \notin {"overpass", "arcgis"} => NominatimHeld(f)

\* The inductive invariant: a trip is for a request that is still open, and
\* what is held and what is still asked for make the whole.
UpstreamInv ==
  /\ world \in Worlds
  /\ trip \in [pc : {"none", "attempt", "backoff"}, attempt : Nat]
  /\ trip.pc # "none" => fetch.pc \in {"ask", "confirm"}
  /\ Held(fetch)
  /\ fetch.pc = "start" => fetch.held = {}
  /\ SourceHeld(fetch)

\* Every cell is in the city's box.
LEMMA EverythingIsInTheBox ==
  ASSUME NEW c \in Seq(1..4)
  PROVE  IsPrefix(<<>>, c)
<1>1. Len(c) \in Nat /\ Len(<<>>) = 0
  OBVIOUS
<1>2. SubSeq(c, 1, 0) = <<>> /\ SubSeq(<<>>, 1, 0) = <<>>
  OBVIOUS
<1> QED BY <1>1, <1>2 DEF IsPrefix

\* A fetch that is given up breaks nothing.
LEMMA FailedHoldsWhatItHeld ==
  ASSUME Held(fetch), SourceHeld(fetch)
  PROVE  Held(Failed(fetch)) /\ SourceHeld(Failed(fetch)) /\ Failed(fetch).pc = "failed"
<1> DEFINE f == Failed(fetch)
<1>1. Held(f) /\ f.pc = "failed" /\ f.held = fetch.held
  BY FetchMoves
<1> HIDE DEF f
<1>2. SourceHeld(f)
  BY <1>1 DEF SourceHeld, OverpassHeld, ArcgisHeld, NominatimHeld
<1> QED BY <1>1, <1>2 DEF f

\* A fetch that has not begun holds nothing.
LEMMA UpstreamInvInit == UpstreamInit => UpstreamInv
<1> SUFFICES ASSUME UpstreamInit PROVE UpstreamInv
  OBVIOUS
<1>1. world \in Worlds /\ trip = [pc |-> "none", attempt |-> 0]
      /\ fetch = [pc |-> "start", todo |-> <<>>, held |-> {}, appended |-> 0, pages |-> 0]
  BY DEF UpstreamInit, NoTrip
<1>2. Held(fetch)
  BY <1>1, FS_EmptySet DEF Held, IsFetch, Counted
<1>3. SourceHeld(fetch)
  BY <1>1 DEF SourceHeld, OverpassHeld, ArcgisHeld, NominatimHeld
<1> QED BY <1>1, <1>2, <1>3 DEF UpstreamInv

\* What a fetch holds is judged by the service, which does not change.
LEMMA WorldsAreStill ==
  ASSUME UNCHANGED world, SourceHeld(fetch')
  PROVE  SourceHeld(fetch)'
BY DEF SourceHeld, OverpassHeld, ArcgisHeld, NominatimHeld, AllFeatures, AskedFor, Touches,
       Features, PavedFeature, FacilityFeature, ArcgisAsked, RowsUpTo, RowId, PageSize, Clamp,
       Candidates, CityPolygons, Polygons

\* The first request asks for everything.
LEMMA BeginsWhole ==
  ASSUME UpstreamInv, Begin
  PROVE  UpstreamInv'
<1>1. UNCHANGED <<world, trip>> /\ fetch.pc = "start" /\ fetch.held = {} /\ Held(fetch)
      /\ world \in Worlds /\ SourceHeld(fetch)
  BY DEF Begin, UpstreamInv
<1>2. Held(fetch') /\ SourceHeld(fetch') /\ fetch'.pc # "start"
  <2>1. CASE Refused
    BY <1>1, <2>1, FailedHoldsWhatItHeld DEF Begin
  <2>2. CASE ~Refused
    <3> DEFINE todo == IF world.source = "arcgis" THEN <<0>> ELSE << <<>> >>
    <3>1. fetch' = Ask(fetch, todo)
      BY <2>2 DEF Begin
    <3> HIDE DEF todo
    <3>2. Held(fetch') /\ fetch'.pc = "ask" /\ fetch'.held = {} /\ fetch'.todo = todo
      <4>1. Held(Ask(fetch, todo)) /\ Ask(fetch, todo).pc = "ask"
            /\ Ask(fetch, todo).held = fetch.held /\ Ask(fetch, todo).todo = todo
        BY <1>1, FetchMoves
      <4> QED BY <1>1, <3>1, <4>1
    <3>3. world.source = "overpass" => OverpassHeld(fetch')
      <4> SUFFICES ASSUME world.source = "overpass" PROVE OverpassHeld(fetch')
        OBVIOUS
      <4>1. todo = << <<>> >> /\ todo \in Seq(Seq(1..4)) /\ todo # <<>>
        BY DEF todo
      <4>2. ASSUME NEW e \in world.elements
            PROVE  AskedFor(todo, e)
        <5>1. PICK c \in e.cells : c \in Seq(1..4)
          BY <1>1, WorldAssumption
        <5>2. Touches(e, <<>>)
          BY <5>1, EverythingIsInTheBox DEF Touches
        <5> QED BY <4>1, <5>2 DEF AskedFor
      <4> QED BY <3>2, <4>1, <4>2 DEF OverpassHeld
    <3>4. world.source = "arcgis" => ArcgisHeld(fetch')
      <4> SUFFICES ASSUME world.source = "arcgis" PROVE ArcgisHeld(fetch')
        OBVIOUS
      <4>1. todo = <<0>> /\ RowsUpTo(0) = {} /\ Len(world.rows) \in Nat
        BY <1>1, LayerTypes DEF todo, RowsUpTo
      <4> QED BY <3>2, <4>1 DEF ArcgisHeld, ArcgisAsked
    <3>5. NominatimHeld(fetch') \/ world.source \in {"overpass", "arcgis"}
      BY <3>2 DEF NominatimHeld
    <3> QED BY <3>2, <3>3, <3>4, <3>5 DEF SourceHeld
  <2> QED BY <2>1, <2>2
<1>3. SourceHeld(fetch)'
  BY <1>1, <1>2, WorldsAreStill
<1>4. Held(fetch)'
  BY <1>2 DEF Held, IsFetch, Counted
<1>5. trip.pc = "none"
  BY <1>1 DEF UpstreamInv
<1> QED BY <1>1, <1>2, <1>3, <1>4, <1>5 DEF UpstreamInv

\* Each kind of answer keeps held and asked for whole.
LEMMA AnswersWhole ==
  ASSUME UpstreamInv, Answered
  PROVE  UpstreamInv'
<1>1. /\ UNCHANGED world /\ trip' = NoTrip /\ fetch.pc \in {"ask", "confirm"}
      /\ Held(fetch) /\ world \in Worlds /\ SourceHeld(fetch)
  BY DEF Answered, UpstreamInv
<1>2. world.source \in {"overpass", "arcgis", "nominatim"}
  BY <1>1, WorldAssumption
<1>3. Held(fetch') /\ SourceHeld(fetch') /\ fetch'.pc # "start"
  <2>1. CASE world.source = "overpass"
    <3>1. AnswerBBox /\ OverpassHeld(fetch) /\ fetch.pc = "ask"
      BY <1>1, <2>1 DEF Answered, SourceHeld, OverpassHeld
    <3> QED BY <1>1, <2>1, <3>1, OverpassAnswers DEF SourceHeld
  <2>2. CASE world.source = "arcgis"
    <3>1. ArcgisHeld(fetch)
      BY <1>1, <2>2 DEF SourceHeld
    <3>2. CASE fetch.pc = "confirm"
      <4>1. AnswerLayer
        BY <2>2, <3>2 DEF Answered
      <4> QED BY <1>1, <2>2, <3>1, <3>2, <4>1, LayerIsAnswered DEF SourceHeld
    <3>3. CASE fetch.pc = "ask"
      <4>1. AnswerPage
        BY <2>2, <3>3 DEF Answered
      <4> QED BY <1>1, <2>2, <3>1, <3>3, <4>1, PageIsAnswered DEF SourceHeld
    <3> QED BY <1>1, <3>2, <3>3
  <2>3. CASE world.source = "nominatim"
    <3>1. AnswerBoundary /\ NominatimHeld(fetch) /\ fetch.pc = "ask"
      BY <1>1, <2>3 DEF Answered, SourceHeld, NominatimHeld
    <3> QED BY <1>1, <2>3, <3>1, BoundaryIsAnswered DEF SourceHeld
  <2> QED BY <1>2, <2>1, <2>2, <2>3
<1>4. SourceHeld(fetch)'
  BY <1>1, <1>3, WorldsAreStill
<1>5. Held(fetch)'
  BY <1>3 DEF Held, IsFetch, Counted
<1> QED BY <1>1, <1>3, <1>4, <1>5 DEF UpstreamInv, NoTrip

\* Attempts, failures and waits touch nothing that is held.
LEMMA TripsKeepItWhole ==
  ASSUME UpstreamInv,
         SendRequest \/ TransientFailure \/ Backoff \/ OutOfRetries \/ UNCHANGED upstreamVars
  PROVE  UpstreamInv'
<1>1. /\ UNCHANGED world /\ (fetch' = fetch \/ (fetch' = Failed(fetch) /\ trip' = NoTrip))
      /\ fetch' = fetch => /\ trip' \in [pc : {"none", "attempt", "backoff"}, attempt : Nat]
                           /\ trip'.pc # "none" => fetch.pc \in {"ask", "confirm"}
  <2>1. CASE SendRequest
    BY <2>1 DEF SendRequest
  <2>2. CASE TransientFailure
    <3>1. CASE MayRetry(trip.attempt)
      BY <2>2, <3>1 DEF TransientFailure, UpstreamInv
    <3>2. CASE ~MayRetry(trip.attempt)
      BY <2>2, <3>2 DEF TransientFailure, UpstreamInv, NoTrip
    <3> QED BY <3>1, <3>2
  <2>3. CASE Backoff
    BY <2>3, UpstreamAssumption DEF Backoff, UpstreamInv, Least
  <2>4. CASE OutOfRetries
    BY <2>4 DEF OutOfRetries, UpstreamInv, NoTrip
  <2>5. CASE UNCHANGED upstreamVars
    BY <2>5 DEF upstreamVars, UpstreamInv
  <2> QED BY <2>1, <2>2, <2>3, <2>4, <2>5
<1>2. Held(fetch') /\ SourceHeld(fetch')
      /\ (fetch' = fetch \/ (fetch'.pc = "failed" /\ trip' = NoTrip))
  BY <1>1, FailedHoldsWhatItHeld DEF UpstreamInv
<1>3. SourceHeld(fetch)'
  BY <1>1, <1>2, WorldsAreStill
<1>4. Held(fetch)'
  BY <1>2 DEF Held, IsFetch, Counted
<1> QED BY <1>1, <1>2, <1>3, <1>4 DEF UpstreamInv, NoTrip

\* A fetch that returns holds everything there is, once.
THEOREM FetchesAreWhole == UpstreamSpec => []ReturnedIsWhole
<1>1. UpstreamInv /\ [FetchStep]_upstreamVars => UpstreamInv'
  BY BeginsWhole, AnswersWhole, TripsKeepItWhole DEF FetchStep
<1>2. UpstreamInv => ReturnedIsWhole
  <2> SUFFICES ASSUME UpstreamInv, fetch.pc = "returned"
               PROVE  fetch.held \in Whole /\ fetch.appended = Cardinality(fetch.held)
    BY DEF ReturnedIsWhole
  <2>1. fetch.appended = Cardinality(fetch.held)
    BY DEF UpstreamInv, Held, Counted
  <2>2. CASE world.source = "overpass"
    <3>1. Whole = {AllFeatures}
      BY <2>2 DEF Whole, AllFeatures
    <3> QED BY <2>1, <2>2, <3>1 DEF UpstreamInv, SourceHeld, OverpassHeld
  <2>3. CASE world.source = "arcgis"
    <3>1. DOMAIN world.rows = 1..Len(world.rows)
      BY <2>3, LayerTypes, LenProperties DEF UpstreamInv
    <3>2. Whole = {RowsUpTo(Len(world.rows))}
      BY <2>3, <3>1 DEF Whole, RowsUpTo
    <3> QED BY <2>1, <2>3, <3>2 DEF UpstreamInv, SourceHeld, ArcgisHeld
  <2>4. CASE world.source \notin {"overpass", "arcgis"}
    <3>1. fetch.held \in {{i} : i \in Candidates}
      BY <2>4 DEF UpstreamInv, SourceHeld, NominatimHeld
    <3>2. Whole = {{i} : i \in Candidates}
      BY <2>4 DEF Whole, Candidates
    <3> QED BY <2>1, <3>1, <3>2
  <2> QED BY <2>1, <2>2, <2>3, <2>4
<1> QED BY UpstreamInvInit, <1>1, <1>2, PTL DEF UpstreamSpec

-----------------------------------------------------------------------------
(* The exit code.  A city's record and the errors so far are judged by what *)
(* befell: B the events, t the failures told, w what was written.           *)

IsCity(c) == DOMAIN c = {"todo", "failed", "saw", "empty", "draft", "err", "over"}
IsJob(j) == DOMAIN j = {"phase", "i", "city", "errs", "sawResult", "skippedEmpty", "exit"}
Sentinels == {NoResults, Declined, Usage}

\* What befell a city: every failure known, none and nothing cut short, all
\* of it empty, all of it stored.
Known(i, B, K) == \A e \in B : e[1] = i /\ e[3] = "failed" /\ ~InOptional(e[2]) => <<e[1], e[2]>> \in K
Quiet(i, B) == \A e \in B : e[1] = i => e[3] # "cancelled" /\ (e[3] = "failed" => InOptional(e[2]))
Visited(i, B) == \E e \in B : e[1] = i
Pays(step) == InPavement(step) \/ step \in {"pave", "delete"}
Idle(i, B) == \A e \in B : e[1] = i /\ Pays(e[2]) => e[3] = "empty"
Stored(i, B, w) == \A e \in B : e[1] = i /\ e[3] = "ok" => <<StoreKey(Chosen[i]), e[2]>> \in w

\* A command of one step per city, and one of many.
OnlyStep == IF inv.command = "single" THEN "pave" ELSE "delete"
IsOnly == inv.command \in {"single", "delete"}
OnlyRun(c, i, B) ==
  /\ c.failed = {} /\ ~c.saw /\ ~c.empty
  /\ \/ c.todo = <<OnlyStep>> /\ ~Visited(i, B)
     \/ /\ c.todo = <<>> /\ Visited(i, B)
        /\ \A e \in B : e[1] = i => e = <<i, OnlyStep, "ok">>
StepNames ==
  {"grid", "combined"} \cup {PavementJobs[k] : k \in DOMAIN PavementJobs}
                       \cup {Optional[k] : k \in DOMAIN Optional}
ManyRun(c, i, B) ==
  /\ c.todo \in Seq(StepNames)
  /\ \A e \in B : e[1] = i => e[2] \notin {"pave", "delete"}
  /\ \A e \in B : e[1] = i /\ InPavement(e[2]) =>
       \/ e[3] = "ok" /\ c.saw
       \/ e[3] = "empty" /\ c.empty
       \/ e[3] = "failed" /\ c.failed # {}
  /\ c.saw => ~Idle(i, B)
  /\ \/ \E k \in DOMAIN c.todo : c.todo[k] = PavementJobs[1]
     \/ \E e \in B : e[1] = i /\ e[2] = PavementJobs[1]

\* A city whose steps go on, and one whose steps a step has ended.
Running(c, i, B, t, w) ==
  /\ c.failed \subseteq t /\ c.failed \cap Sentinels = {}
  /\ \A e \in B : e[1] = i => e[3] # "cancelled"
  /\ Known(i, B, c.failed)
  /\ Stored(i, B, IF inv.command = "all compute" THEN c.draft ELSE w)
  /\ IF IsOnly THEN OnlyRun(c, i, B) ELSE ManyRun(c, i, B)
Ended(c, i, B, t) ==
  /\ c.err # {} /\ c.err \cap {Declined, Usage} = {}
  /\ Known(i, B, t \cup c.err)
  /\ NoResults \in c.err =>
       /\ c.err = {NoResults} /\ Visited(i, B)
       /\ \A e \in B : e[1] = i => e = <<i, "pave", "empty">>
CityHeld(c, i, B, t, w) ==
  IsCity(c) /\ IF c.over THEN Ended(c, i, B, t) ELSE Running(c, i, B, t, w)

\* The totals over the cities that are done, the first n.
Totals(n, errs, saw, skipped, B, t, w) ==
  /\ errs \cap Sentinels = {}
  /\ \A m \in 1..n : Known(m, B, t \cup errs)
  /\ errs = {} => \A m \in 1..n : Quiet(m, B) /\ Visited(m, B) /\ Stored(m, B, w)
  /\ errs = {} /\ saw => \E m \in 1..n : ~Idle(m, B)
  /\ errs = {} /\ ~saw => \A m \in 1..n : Idle(m, B)
  /\ n > 0 => saw \/ skipped \/ errs # {}

\* The inductive invariant.
FanInv ==
  /\ inv \in Invocations
  /\ IsJob(job) /\ job.phase \in {"resolve", "city", "exited"}
  /\ job.sawResult \in BOOLEAN /\ job.skippedEmpty \in BOOLEAN
  /\ job.phase = "resolve" =>
       /\ wrote = {} /\ told = {} /\ befell = {} /\ job.i = 1 /\ job.errs = {}
       /\ ~job.sawResult /\ ~job.skippedEmpty
  /\ job.phase = "city" =>
       /\ job.i \in 1..Len(Chosen) /\ \A e \in befell : e[1] \in 1..job.i
       /\ Totals(job.i - 1, job.errs, job.sawResult, job.skippedEmpty, befell, told, wrote)
       /\ CityHeld(job.city, job.i, befell, told, wrote)
  /\ ExitCodeTellsTheTruth

\* A sequence is one over any set its elements are in.
LEMMA SeqsOfNames ==
  ASSUME NEW T, NEW U, NEW s \in Seq(T), \A k \in DOMAIN s : s[k] \in U
  PROVE  s \in Seq(U)
OBVIOUS

\* No step has the name of another kind.
LEMMA StepsAreNamed ==
  ASSUME NEW step
  PROVE  /\ InPavement(step) => /\ ~InOptional(step)
                                /\ step \notin {"grid", "combined", "pave", "delete", "commit"}
         /\ InOptional(step) => step \notin {"grid", "combined", "pave", "delete", "commit"}
         /\ InPavement(PavementJobs[1])
         /\ PavementJobs \in Seq(StepNames) /\ Optional \in Seq(StepNames)
<1>1. PavementJobs \in Seq(STRING) /\ PavementJobs # <<>> /\ Optional \in Seq(STRING)
  BY FanAssumption
<1>2. 1 \in DOMAIN PavementJobs
  BY <1>1, EmptySeq, LenProperties
<1>3. InPavement(PavementJobs[1])
  BY <1>2 DEF InPavement
<1>4. InPavement(step) => /\ ~InOptional(step)
                          /\ step \notin {"grid", "combined", "pave", "delete", "commit"}
  BY FanAssumption DEF InPavement, InOptional
<1>5. InOptional(step) => step \notin {"grid", "combined", "pave", "delete", "commit"}
  BY FanAssumption DEF InOptional
<1>6. \A k \in DOMAIN PavementJobs : PavementJobs[k] \in StepNames
  BY DEF StepNames
<1>7. \A k \in DOMAIN Optional : Optional[k] \in StepNames
  BY DEF StepNames
<1>8. PavementJobs \in Seq(StepNames) /\ Optional \in Seq(StepNames)
  BY <1>1, <1>6, <1>7, SeqsOfNames
<1> QED BY <1>3, <1>4, <1>5, <1>8

\* The cities of an invocation are a sequence.
LEMMA CitiesAreChosen ==
  ASSUME inv \in Invocations
  PROVE  /\ Len(Chosen) \in Nat /\ DOMAIN Chosen = 1..Len(Chosen)
         /\ Chosen # <<>> => Len(Chosen) >= 1
         /\ inv.command \in {"single", "all ingest", "all compute", "delete"}
         /\ inv.confirm \in {"--yes", "yes", "no", "interrupted", "no terminal"}
<1> DEFINE T == [slug : STRING, config : STRING]
<1>1. /\ inv.cities \in Seq(T)
      /\ inv.command \in {"single", "all ingest", "all compute", "delete"}
      /\ inv.confirm \in {"--yes", "yes", "no", "interrupted", "no terminal"}
  BY FanAssumption
<1> HIDE DEF T
<1>2. Chosen \in Seq(T)
  <2> DEFINE matches == {i \in DOMAIN inv.cities : inv.cities[i].slug = inv.flag}
  <2>1. \A i \in DOMAIN inv.cities : inv.cities[i] \in T
    BY <1>1, LenProperties
  <2>2. ASSUME \E i \in matches : matches = {i}
        PROVE  <<inv.cities[CHOOSE i \in matches : TRUE]>> \in Seq(T)
    <3>1. (CHOOSE i \in matches : TRUE) \in matches
      BY <2>2
    <3>2. inv.cities[CHOOSE i \in matches : TRUE] \in T
      BY <2>1, <3>1
    <3> HIDE DEF matches
    <3> QED BY <3>2
  <2>3. <<>> \in Seq(T)
    BY EmptySeq
  <2>4. Chosen = IF inv.flag = "" THEN inv.cities
                 ELSE IF \E i \in matches : matches = {i}
                      THEN <<inv.cities[CHOOSE i \in matches : TRUE]>> ELSE <<>>
    BY DEF Chosen, ResolveCities
  <2> HIDE DEF matches
  <2> QED BY <1>1, <2>2, <2>3, <2>4
<1>3. Len(Chosen) \in Nat /\ DOMAIN Chosen = 1..Len(Chosen)
      /\ (Chosen # <<>> => Len(Chosen) >= 1)
  BY <1>2, LenProperties, EmptySeq
<1> QED BY <1>1, <1>3

Paves(s) == \E k \in DOMAIN s : s[k] = PavementJobs[1]

\* A list of steps joined from two has the pavement if either has.
LEMMA StepsAreJoined ==
  ASSUME NEW T, NEW s \in Seq(T), NEW u \in Seq(T)
  PROVE  s \o u \in Seq(T) /\ (Paves(s) \/ Paves(u) => Paves(s \o u))
<1>1. /\ s \o u \in Seq(T)
      /\ Len(s) \in Nat /\ Len(u) \in Nat /\ DOMAIN (s \o u) = 1..(Len(s) + Len(u))
      /\ DOMAIN s = 1..Len(s) /\ DOMAIN u = 1..Len(u)
      /\ \A i \in 1..(Len(s) + Len(u)) : (s \o u)[i] = IF i <= Len(s) THEN s[i] ELSE u[i - Len(s)]
  BY ConcatProperties, LenProperties
<1>2. ASSUME Paves(s) PROVE Paves(s \o u)
  BY <1>1, <1>2 DEF Paves
<1>3. ASSUME Paves(u) PROVE Paves(s \o u)
  <2>1. PICK l \in DOMAIN u : u[l] = PavementJobs[1]
    BY <1>3 DEF Paves
  <2>2. Len(s) + l \in DOMAIN (s \o u) /\ (s \o u)[Len(s) + l] = u[l]
    BY <1>1
  <2> QED BY <2>1, <2>2 DEF Paves
<1> QED BY <1>1, <1>2, <1>3

\* Nothing has befallen a city that begins.
LEMMA CitiesBegin ==
  ASSUME inv \in Invocations, NEW i, NEW B, NEW t, NEW w, ~Visited(i, B)
  PROVE  CityHeld(Fresh(StepsOf(inv.command)), i, B, t, w)
<1> DEFINE c == Fresh(StepsOf(inv.command))
<1>1. IsCity(c) /\ c.failed = {} /\ ~c.saw /\ ~c.empty /\ c.draft = {} /\ ~c.over
      /\ c.todo = StepsOf(inv.command)
  BY DEF Fresh, IsCity
<1> HIDE DEF c
<1>2. inv.command \in {"single", "all ingest", "all compute", "delete"}
  BY CitiesAreChosen
<1>3. /\ \A e \in B : e[1] # i
      /\ Known(i, B, c.failed)
      /\ Stored(i, B, IF inv.command = "all compute" THEN c.draft ELSE w)
  BY DEF Visited, Known, Stored
<1>4. ASSUME IsOnly
      PROVE  OnlyRun(c, i, B)
  <2>1. StepsOf(inv.command) = <<OnlyStep>>
    BY <1>4 DEF IsOnly, StepsOf, OnlyStep
  <2> QED BY <1>1, <2>1 DEF OnlyRun
<1>5. ASSUME ~IsOnly
      PROVE  ManyRun(c, i, B)
  <2>1. StepsOf(inv.command) \in Seq(StepNames) /\ Paves(StepsOf(inv.command))
    <3>1. /\ PavementJobs \in Seq(StepNames) /\ Optional \in Seq(StepNames)
          /\ Paves(PavementJobs)
      BY StepsAreNamed DEF Paves, InPavement
    <3>2. CASE inv.command = "all ingest"
      <4>1. StepsOf(inv.command) = PavementJobs \o Optional
        BY <3>2 DEF StepsOf
      <4> QED BY <3>1, <4>1, StepsAreJoined
    <3>3. CASE inv.command = "all compute"
      <4> DEFINE s1 == <<"grid">> \o PavementJobs
                 s2 == s1 \o <<"combined">>
      <4>1. StepsOf(inv.command) = s2 \o Optional
        BY <3>3 DEF StepsOf
      <4>2. <<"grid">> \in Seq(StepNames) /\ <<"combined">> \in Seq(StepNames)
        BY DEF StepNames
      <4>3. s1 \in Seq(StepNames) /\ Paves(s1)
        BY <3>1, <4>2, StepsAreJoined
      <4> HIDE DEF s1
      <4>4. s2 \in Seq(StepNames) /\ Paves(s2)
        BY <4>2, <4>3, StepsAreJoined
      <4> HIDE DEF s2
      <4> QED BY <3>1, <4>1, <4>4, StepsAreJoined
    <3> QED BY <1>2, <1>5, <3>2, <3>3 DEF IsOnly
  <2> QED BY <1>1, <1>3, <2>1 DEF ManyRun, Paves
<1>6. Running(c, i, B, t, w)
  BY <1>1, <1>3, <1>4, <1>5 DEF Running
<1> QED BY <1>1, <1>6 DEF CityHeld, c

\* What an outcome makes of the city: it goes on, as it was or with a flag or
\* a failure more, or the step has ended it.
Same(d, c) == d.failed = c.failed /\ d.saw = c.saw /\ d.empty = c.empty
After(d, c, step, outcome, fault) ==
  /\ IsCity(d) /\ d.todo = c.todo /\ d.draft = c.draft
  /\ \/ /\ ~d.over /\ Same(d, c) /\ ~InPavement(step)
        /\ outcome = "ok" \/ (outcome = "empty" /\ (step = "combined" \/ InOptional(step)))
     \/ ~d.over /\ Same(d, c) /\ outcome = "failed" /\ InOptional(step)
     \/ /\ ~d.over /\ InPavement(step)
        /\ \/ /\ outcome = "ok" /\ d.saw /\ d.failed = c.failed /\ d.empty = c.empty
           \/ /\ outcome = "empty" /\ d.empty /\ d.failed = c.failed /\ d.saw = c.saw
           \/ /\ outcome = "failed" /\ d.failed = c.failed \cup {fault}
              /\ d.saw = c.saw /\ d.empty = c.empty
     \/ /\ d.over /\ outcome = "empty" /\ d.err = {NoResults}
        /\ ~InPavement(step) /\ ~InOptional(step) /\ step # "combined"
     \/ /\ d.over /\ outcome = "failed" /\ ~InPavement(step) /\ ~InOptional(step)
        /\ d.err = {fault} \/ (NoResults \notin ResourceErr(c) /\ d.err = ResourceErr(c) \cup {fault})
     \/ /\ d.over /\ outcome = "cancelled"
        /\ \/ d.err = {Cancelled}
           \/ NoResults \notin ResourceErr(c) /\ d.err = ResourceErr(c) \cup {Cancelled}

\* Every step's outcome is one of those.
LEMMA StepsAreAfter ==
  ASSUME NEW c, IsCity(c), ~c.over, NEW step, NEW fault, NEW outcome,
         outcome \in {"ok", "empty", "failed", "cancelled"},
         NEW d, d = AfterStep(c, step, outcome, fault)
  PROVE  After(d, c, step, outcome, fault)
<1> USE DEF After
<1>1. CASE InPavement(step)
  <2>1. d = AfterPavement(c, outcome, fault)
    BY <1>1, StepsAreNamed DEF AfterStep
  <2>2. CASE outcome = "ok"
    <3>1. d = [c EXCEPT !.saw = TRUE]
      BY <2>1, <2>2 DEF AfterPavement
    <3> QED BY <1>1, <2>2, <3>1 DEF IsCity
  <2>3. CASE outcome = "empty"
    <3>1. d = [c EXCEPT !.empty = TRUE]
      BY <2>1, <2>3 DEF AfterPavement
    <3> QED BY <1>1, <2>3, <3>1 DEF IsCity
  <2>4. CASE outcome = "failed"
    <3>1. d = [c EXCEPT !.failed = @ \cup {fault}]
      BY <2>1, <2>4 DEF AfterPavement
    <3> QED BY <1>1, <2>4, <3>1 DEF IsCity
  <2>5. CASE outcome = "cancelled"
    <3>1. d = [c EXCEPT !.over = TRUE, !.err = {Cancelled}]
      BY <2>1, <2>5 DEF AfterPavement
    <3> QED BY <1>1, <2>5, <3>1 DEF IsCity
  <2> QED BY <2>2, <2>3, <2>4, <2>5
<1>2. CASE step = "combined"
  <2>1. d = AfterCombined(c, outcome, fault) /\ ~InPavement(step) /\ ~InOptional(step)
    BY <1>2, StepsAreNamed DEF AfterStep
  <2>2. CASE outcome \in {"ok", "empty"}
    <3>1. d = c
      BY <2>1, <2>2 DEF AfterCombined
    <3>2. IsCity(d) /\ d.todo = c.todo /\ d.draft = c.draft /\ ~d.over /\ Same(d, c)
      BY <3>1 DEF Same
    <3> QED BY <1>2, <2>1, <2>2, <3>2
  <2>3. CASE outcome \in {"failed", "cancelled"}
    <3> DEFINE err == IF outcome = "cancelled" THEN {Cancelled} ELSE {fault}
               all == IF NoResults \in ResourceErr(c) THEN err ELSE ResourceErr(c) \cup err
    <3>1. d = [c EXCEPT !.over = TRUE, !.err = all]
      BY <2>1, <2>3 DEF AfterCombined
    <3>2. \/ all = err
          \/ NoResults \notin ResourceErr(c) /\ all = ResourceErr(c) \cup err
      OBVIOUS
    <3> HIDE DEF all
    <3>3. IsCity(d) /\ d.todo = c.todo /\ d.draft = c.draft /\ d.over /\ d.err = all
      BY <3>1 DEF IsCity
    <3>4. CASE outcome = "failed"
      BY <2>1, <3>2, <3>3, <3>4
    <3>5. CASE outcome = "cancelled"
      BY <2>1, <3>2, <3>3, <3>5
    <3> QED BY <2>3, <3>4, <3>5
  <2> QED BY <2>2, <2>3
<1>3. CASE InOptional(step)
  <2>1. d = AfterOptional(c, outcome) /\ ~InPavement(step)
    BY <1>3, StepsAreNamed DEF AfterStep
  <2>2. CASE outcome = "cancelled"
    <3>1. d = [c EXCEPT !.over = TRUE, !.err = {Cancelled}]
      BY <2>1, <2>2 DEF AfterOptional
    <3> QED BY <2>2, <3>1 DEF IsCity
  <2>3. CASE outcome # "cancelled"
    <3>1. d = c
      BY <2>1, <2>3 DEF AfterOptional
    <3> QED BY <1>3, <2>1, <2>3, <3>1 DEF Same
  <2> QED BY <2>2, <2>3
<1>4. CASE ~InPavement(step) /\ step # "combined" /\ ~InOptional(step)
  <2>1. d = AfterOnly(c, outcome, fault)
    BY <1>4 DEF AfterStep
  <2>2. CASE outcome = "ok"
    <3>1. d = c
      BY <2>1, <2>2 DEF AfterOnly
    <3> QED BY <1>4, <2>2, <3>1 DEF Same
  <2>3. CASE outcome = "empty"
    <3>1. d = [c EXCEPT !.over = TRUE, !.err = {NoResults}]
      BY <2>1, <2>3 DEF AfterOnly
    <3> QED BY <1>4, <2>3, <3>1 DEF IsCity
  <2>4. CASE outcome = "failed"
    <3>1. d = [c EXCEPT !.over = TRUE, !.err = {fault}]
      BY <2>1, <2>4 DEF AfterOnly
    <3> QED BY <1>4, <2>4, <3>1 DEF IsCity
  <2>5. CASE outcome = "cancelled"
    <3>1. d = [c EXCEPT !.over = TRUE, !.err = {Cancelled}]
      BY <2>1, <2>5 DEF AfterOnly
    <3> QED BY <2>5, <3>1 DEF IsCity
  <2> QED BY <2>2, <2>3, <2>4, <2>5
<1> QED BY <1>1, <1>2, <1>3, <1>4

\* The one step of a command is its first and last.
LEMMA OneIsFirst == ASSUME NEW x PROVE Head(<<x>>) = x /\ Tail(<<x>>) = <<>>
OBVIOUS

\* A sequence is its first element and the rest.
LEMMA FirstAndRest ==
  ASSUME NEW T, NEW s \in Seq(T), s # <<>>
  PROVE  /\ Head(s) \in T /\ Tail(s) \in Seq(T)
         /\ \A k \in DOMAIN s : s[k] = Head(s) \/ \E l \in DOMAIN Tail(s) : Tail(s)[l] = s[k]
<1>1. /\ Head(s) \in T /\ Tail(s) \in Seq(T) /\ Len(s) \in Nat /\ DOMAIN s = 1..Len(s)
      /\ Len(Tail(s)) = Len(s) - 1 /\ DOMAIN Tail(s) = 1..Len(Tail(s))
      /\ Head(s) = s[1] /\ \A l \in 1..Len(Tail(s)) : Tail(s)[l] = s[l + 1]
  BY HeadTailProperties, LenProperties
<1>2. ASSUME NEW k \in 1..Len(s), k # 1
      PROVE  \E l \in DOMAIN Tail(s) : Tail(s)[l] = s[k]
  <2>1. k - 1 \in 1..Len(Tail(s)) /\ (k - 1) + 1 = k
    BY <1>1, <1>2
  <2> QED BY <1>1, <2>1
<1> QED BY <1>1, <1>2

\* The city's record after a step, and where its work is.
Stepped(g, c, step, outcome, fault) ==
  LET d == AfterStep([c EXCEPT !.todo = Tail(@)], step, outcome, fault)
  IN IsCity(g) /\ g.todo = d.todo /\ Same(g, d) /\ g.err = d.err /\ g.over = d.over
Drafts(c, w) == IF inv.command = "all compute" THEN c.draft ELSE w

\* A step that is run: the city's record still tells what befell the city.
LEMMA StepsKeepCities ==
  ASSUME inv \in Invocations, NEW i \in Nat \ {0}, NEW c, NEW B, NEW t, NEW w,
         CityHeld(c, i, B, t, w), ~c.over, c.todo # <<>>,
         NEW step, step = Head(c.todo), NEW outcome,
         outcome \in {"ok", "empty", "failed", "cancelled"},
         step \in {"grid", "delete"} => outcome # "empty",
         NEW g, Stepped(g, c, step, outcome, <<i, step>>),
         NEW t2, t \subseteq t2,
         outcome = "failed" /\ (InPavement(step) \/ InOptional(step)) => <<i, step>> \in t2,
         NEW w2, Drafts(c, w) \subseteq Drafts(g, w2),
         outcome = "ok" => <<StoreKey(Chosen[i]), step>> \in Drafts(g, w2)
  PROVE  CityHeld(g, i, B \cup {<<i, step, outcome>>}, t2, w2)
<1> DEFINE c0 == [c EXCEPT !.todo = Tail(@)]
           B2 == B \cup {<<i, step, outcome>>}
           fault == <<i, step>>
           d == AfterStep(c0, step, outcome, fault)
           s == Drafts(c, w)
           s2 == Drafts(g, w2)
<1>1. IsCity(c0) /\ c0.todo = Tail(c.todo) /\ Same(c0, c) /\ ~c0.over /\ IsCity(c)
      /\ IsCity(g) /\ g.todo = d.todo /\ Same(g, d) /\ g.err = d.err /\ g.over = d.over
  BY DEF CityHeld, IsCity, Same, Stepped
<1>2. Running(c, i, B, t, w)
  BY DEF CityHeld
<1>3. /\ c.failed \subseteq t /\ c.failed \cap Sentinels = {}
      /\ \A e \in B : e[1] = i => e[3] # "cancelled"
      /\ Known(i, B, c.failed) /\ Stored(i, B, s)
  BY <1>2 DEF Running, Drafts
<1>4. \A e : e \in B2 <=> e \in B \/ e = <<i, step, outcome>>
  OBVIOUS
<1>5. /\ <<i, step, outcome>>[1] = i /\ <<i, step, outcome>>[2] = step
      /\ <<i, step, outcome>>[3] = outcome
  OBVIOUS
<1>6. fault \notin Sentinels /\ Cancelled \notin Sentinels
  BY DEF Sentinels, NoResults, Declined, Usage, Cancelled
<1>13. s \subseteq s2 /\ (outcome = "ok" => <<StoreKey(Chosen[i]), step>> \in s2)
  OBVIOUS
<1> HIDE DEF c0, B2, fault, d, s, s2
<1>7. Stored(i, B2, s2)
  BY <1>3, <1>4, <1>5, <1>13 DEF Stored
<1>8. \A e \in B2 : e[1] = i /\ e \notin B => e = <<i, step, outcome>>
  BY <1>4
<1>9. NoResults \notin ResourceErr(c0) => ResourceErr(c0) = c.failed
  BY <1>1 DEF ResourceErr, Same
<1>10. /\ d.todo = Tail(c.todo) /\ g.todo = Tail(c.todo) /\ IsCity(g)
       /\ \/ /\ ~g.over /\ Same(g, c) /\ ~InPavement(step)
             /\ outcome = "ok" \/ (outcome = "empty" /\ (step = "combined" \/ InOptional(step)))
          \/ ~g.over /\ Same(g, c) /\ outcome = "failed" /\ InOptional(step)
          \/ /\ ~g.over /\ InPavement(step)
             /\ \/ /\ outcome = "ok" /\ g.saw /\ g.failed = c.failed /\ g.empty = c.empty
                \/ /\ outcome = "empty" /\ g.empty /\ g.failed = c.failed /\ g.saw = c.saw
                \/ /\ outcome = "failed" /\ g.failed = c.failed \cup {fault}
                   /\ g.saw = c.saw /\ g.empty = c.empty
          \/ /\ g.over /\ outcome = "empty" /\ g.err = {NoResults}
             /\ ~InPavement(step) /\ ~InOptional(step) /\ step # "combined"
          \/ /\ g.over /\ outcome = "failed" /\ ~InPavement(step) /\ ~InOptional(step)
             /\ g.err = {fault} \/ g.err = c.failed \cup {fault}
          \/ /\ g.over /\ outcome = "cancelled"
             /\ g.err = {Cancelled} \/ g.err = c.failed \cup {Cancelled}
  <2>1. After(d, c0, step, outcome, fault)
    BY <1>1, StepsAreAfter DEF d
  <2>2. /\ g.todo = d.todo /\ g.over = d.over /\ g.err = d.err
        /\ g.failed = d.failed /\ g.saw = d.saw /\ g.empty = d.empty
        /\ c0.failed = c.failed /\ c0.saw = c.saw /\ c0.empty = c.empty
    BY <1>1 DEF Same
  <2> QED BY <1>1, <1>9, <2>1, <2>2 DEF Same, After
<1>11. CASE g.over
  <2>1. CASE outcome = "empty"
    <3>1. g.err = {NoResults} /\ ~InPavement(step) /\ ~InOptional(step) /\ step # "combined"
          /\ step \notin {"grid", "delete"}
      BY <1>10, <1>11, <2>1
    <3>2. IsOnly
      <4> SUFFICES ASSUME ~IsOnly PROVE FALSE
        OBVIOUS
      <4>1. c.todo \in Seq(StepNames)
        BY <1>2 DEF Running, ManyRun
      <4>2. step \in StepNames
        BY <4>1, HeadTailProperties
      <4> QED BY <3>1, <4>2 DEF StepNames, InPavement, InOptional
    <3>3. step = OnlyStep /\ ~Visited(i, B)
      <4>1. c.todo = <<OnlyStep>> /\ ~Visited(i, B)
        BY <1>2, <3>2 DEF Running, OnlyRun
      <4> QED BY <4>1, OneIsFirst
    <3>4. step = "pave"
      BY <3>1, <3>3 DEF OnlyStep
    <3>5. \A e \in B2 : e[1] = i => e = <<i, "pave", "empty">>
      BY <1>8, <2>1, <3>3, <3>4 DEF Visited
    <3>6. Visited(i, B2)
      BY <1>4, <1>5 DEF Visited
    <3>7. Known(i, B2, t2 \cup g.err)
      <4>1. \A e \in B2 : e[1] = i => e[3] = "empty"
        BY <1>5, <1>8, <2>1, <3>3 DEF Visited
      <4> QED BY <4>1 DEF Known
    <3>8. g.err # {} /\ g.err \cap {Declined, Usage} = {}
      <4>1. NoResults # Declined /\ NoResults # Usage
        BY DEF NoResults, Declined, Usage
      <4> QED BY <3>1, <4>1
    <3> QED BY <1>10, <1>11, <3>1, <3>5, <3>6, <3>7, <3>8 DEF CityHeld, Ended, B2
  <2>2. CASE outcome # "empty"
    <3>1. \/ outcome = "failed" /\ (g.err = {fault} \/ g.err = c.failed \cup {fault})
          \/ outcome = "cancelled" /\ (g.err = {Cancelled} \/ g.err = c.failed \cup {Cancelled})
      BY <1>10, <1>11, <2>2
    <3>2. g.err # {} /\ g.err \cap Sentinels = {}
      BY <1>3, <1>6, <3>1
    <3>3. Known(i, B2, t2 \cup g.err)
      BY <1>3, <1>4, <1>5, <3>1 DEF Known, fault
    <3> QED BY <1>10, <1>11, <3>2, <3>3 DEF CityHeld, Ended, B2, Sentinels
  <2> QED BY <2>1, <2>2
<1>12. CASE ~g.over
  <2>1. outcome # "cancelled"
    BY <1>10, <1>12
  <2>2. \A e \in B2 : e[1] = i => e[3] # "cancelled"
    BY <1>3, <1>4, <1>5, <2>1
  <2>3. /\ g.failed = c.failed \/ (InPavement(step) /\ outcome = "failed" /\ g.failed = c.failed \cup {fault})
        /\ outcome = "failed" => InOptional(step) \/ fault \in g.failed
    BY <1>10, <1>12 DEF Same
  <2>4. g.failed \subseteq t2 /\ g.failed \cap Sentinels = {}
    BY <1>3, <1>6, <2>3 DEF fault
  <2>5. Known(i, B2, g.failed)
    BY <1>3, <1>4, <1>5, <2>3 DEF Known, fault
  <2>6. ASSUME IsOnly
        PROVE  OnlyRun(g, i, B2)
    <3>1. step = OnlyStep /\ ~Visited(i, B) /\ c.todo = <<OnlyStep>>
          /\ c.failed = {} /\ ~c.saw /\ ~c.empty
      <4>1. ~Visited(i, B) /\ c.todo = <<OnlyStep>> /\ c.failed = {} /\ ~c.saw /\ ~c.empty
        BY <1>2, <2>6 DEF Running, OnlyRun
      <4> QED BY <4>1, OneIsFirst
    <3>2. ~InPavement(step) /\ ~InOptional(step) /\ step # "combined"
      BY <3>1, StepsAreNamed DEF OnlyStep
    <3>3. outcome = "ok" /\ Same(g, c)
      BY <1>10, <1>12, <3>2
    <3>4. g.todo = <<>>
      BY <1>10, <3>1, OneIsFirst
    <3>5. Visited(i, B2)
      BY <1>4, <1>5 DEF Visited
    <3>6. \A e \in B2 : e[1] = i => e = <<i, OnlyStep, "ok">>
      BY <1>8, <3>1, <3>3 DEF Visited
    <3> QED BY <3>1, <3>3, <3>4, <3>5, <3>6 DEF OnlyRun, Same
  <2>7. ASSUME ~IsOnly
        PROVE  ManyRun(g, i, B2)
    <3>1. ManyRun(c, i, B)
      BY <1>2, <2>7 DEF Running
    <3>2. c.todo \in Seq(StepNames)
      BY <3>1 DEF ManyRun
    <3>3. /\ step \in StepNames /\ g.todo \in Seq(StepNames)
          /\ \A k \in DOMAIN c.todo : c.todo[k] = step \/ \E l \in DOMAIN g.todo : g.todo[l] = c.todo[k]
      <4>1. /\ Head(c.todo) \in StepNames /\ Tail(c.todo) \in Seq(StepNames)
            /\ \A k \in DOMAIN c.todo :
                 c.todo[k] = Head(c.todo) \/ \E l \in DOMAIN Tail(c.todo) : Tail(c.todo)[l] = c.todo[k]
        BY <3>2, FirstAndRest
      <4> QED BY <1>10, <4>1
    <3>4. \A e \in B2 : e[1] = i => e[2] \notin {"pave", "delete"}
      <4>1. step \notin {"pave", "delete"}
        BY <3>3, StepsAreNamed DEF StepNames, InPavement, InOptional
      <4> QED BY <1>4, <1>5, <3>1, <4>1 DEF ManyRun
    <3>5. c.saw => g.saw
      BY <1>10, <1>12 DEF Same
    <3>6. c.empty => g.empty
      BY <1>10, <1>12 DEF Same
    <3>7. InPavement(step) => \/ outcome = "ok" /\ g.saw
                              \/ outcome = "empty" /\ g.empty
                              \/ outcome = "failed" /\ g.failed # {}
      BY <1>10, <1>12, StepsAreNamed
    <3>8. \A e \in B2 : e[1] = i /\ InPavement(e[2]) =>
            \/ e[3] = "ok" /\ g.saw
            \/ e[3] = "empty" /\ g.empty
            \/ e[3] = "failed" /\ g.failed # {}
      BY <1>4, <1>5, <2>3, <3>1, <3>5, <3>6, <3>7 DEF ManyRun
    <3>9. g.saw => ~Idle(i, B2)
      <4>1. g.saw => c.saw \/ (InPavement(step) /\ outcome = "ok")
        BY <1>10, <1>12 DEF Same
      <4>2. c.saw => ~Idle(i, B)
        BY <3>1 DEF ManyRun
      <4> QED BY <1>4, <1>5, <4>1, <4>2 DEF Idle, Pays
    <3>10. \/ \E k \in DOMAIN g.todo : g.todo[k] = PavementJobs[1]
           \/ \E e \in B2 : e[1] = i /\ e[2] = PavementJobs[1]
      BY <1>4, <1>5, <3>1, <3>3 DEF ManyRun
    <3> QED BY <3>3, <3>4, <3>8, <3>9, <3>10 DEF ManyRun
  <2>8. Running(g, i, B2, t2, w2)
    BY <1>7, <2>2, <2>4, <2>5, <2>6, <2>7 DEF Running, Drafts, s2
  <2> QED BY <1>10, <1>12, <2>8 DEF CityHeld, B2
<1> QED BY <1>11, <1>12

\* What is left of a city that is done: its error e, and what it stored.
Done(i, e, B, t, s) ==
  /\ e \cap {Declined, Usage} = {}
  /\ Known(i, B, t \cup e)
  /\ NoResults \in e => e = {NoResults} /\ Idle(i, B)
  /\ e = {} => ~Idle(i, B)
  /\ e \subseteq {NoResults} => Quiet(i, B) /\ Visited(i, B) /\ Stored(i, B, s)

\* Nothing is before the first.
LEMMA NoneBelowOne == 1..0 = {}
OBVIOUS

\* A city that is done, by its last step or by the one that ended it.
LEMMA CitiesEnd ==
  ASSUME inv \in Invocations, NEW i, NEW c, NEW B, NEW t, NEW w,
         CityHeld(c, i, B, t, w), c.over \/ c.todo = <<>>,
         NEW s, s = IF inv.command = "all compute" THEN c.draft ELSE w
  PROVE  Done(i, StepsErr(c), B, t, s)
<1>1. CASE c.over
  <2>1. StepsErr(c) = c.err /\ Ended(c, i, B, t)
    BY <1>1 DEF StepsErr, CityHeld
  <2>2. CASE NoResults \in c.err
    <3>1. /\ c.err = {NoResults} /\ Visited(i, B) /\ c.err \cap {Declined, Usage} = {}
          /\ Known(i, B, t \cup c.err)
          /\ \A e \in B : e[1] = i => e = <<i, "pave", "empty">>
      BY <2>1, <2>2 DEF Ended
    <3>2. \A e \in B : e[1] = i => e[3] = "empty"
      <4>1. <<i, "pave", "empty">>[3] = "empty"
        OBVIOUS
      <4> QED BY <3>1, <4>1, Zenon
    <3>3. Quiet(i, B) /\ Idle(i, B) /\ Stored(i, B, s)
      BY <3>2 DEF Quiet, Idle, Stored
    <3> QED BY <2>1, <3>1, <3>3 DEF Done
  <2>3. CASE NoResults \notin c.err
    BY <2>1, <2>3 DEF Ended, Done
  <2> QED BY <2>2, <2>3
<1>2. CASE ~c.over
  <2>1. StepsErr(c) = ResourceErr(c) /\ Running(c, i, B, t, w) /\ c.todo = <<>>
    BY <1>2 DEF StepsErr, CityHeld
  <2>2. /\ c.failed \cap Sentinels = {} /\ Known(i, B, c.failed) /\ Stored(i, B, s)
        /\ \A e \in B : e[1] = i => e[3] # "cancelled"
    BY <2>1 DEF Running
  <2>3. c.failed = {} => Quiet(i, B)
    BY <2>2 DEF Known, Quiet
  <2>4. CASE IsOnly
    <3>1. /\ c.failed = {} /\ ~c.saw /\ ~c.empty /\ Visited(i, B)
          /\ \A e \in B : e[1] = i => e = <<i, OnlyStep, "ok">>
      <4>1. <<OnlyStep>> # <<>>
        OBVIOUS
      <4> QED BY <2>1, <2>4, <4>1 DEF Running, OnlyRun
    <3>2. StepsErr(c) = {}
      BY <2>1, <3>1 DEF ResourceErr
    <3>3. ~Idle(i, B)
      <4>1. PICK e \in B : e[1] = i
        BY <3>1 DEF Visited
      <4>2. e = <<i, OnlyStep, "ok">>
        BY <3>1, <4>1
      <4>3. e[2] = OnlyStep /\ e[3] = "ok"
        BY <4>2
      <4>4. Pays(OnlyStep)
        BY DEF Pays, OnlyStep
      <4> QED BY <4>1, <4>3, <4>4 DEF Idle
    <3> QED BY <2>2, <2>3, <3>1, <3>2, <3>3 DEF Done, Known
  <2>5. CASE ~IsOnly
    <3>1. ManyRun(c, i, B)
      BY <2>1, <2>5 DEF Running
    <3>2. PICK x \in B : x[1] = i /\ x[2] = PavementJobs[1]
      <4>1. DOMAIN c.todo = {}
        <5>1. c.todo \in Seq(StepNames) /\ Len(c.todo) = 0
          BY <2>1, <3>1 DEF ManyRun
        <5>2. DOMAIN c.todo = 1..Len(c.todo)
          BY <5>1, LenProperties
        <5> QED BY <5>1, <5>2, NoneBelowOne
      <4> QED BY <3>1, <4>1 DEF ManyRun
    <3>3. Visited(i, B) /\ InPavement(x[2])
      BY <3>2, StepsAreNamed DEF Visited
    <3>4. CASE c.failed = {} /\ ~c.saw /\ c.empty
      <4>1. StepsErr(c) = {NoResults}
        BY <2>1, <3>4 DEF ResourceErr
      <4>2. Idle(i, B)
        BY <3>1, <3>4 DEF ManyRun, Idle, Pays
      <4>3. NoResults # Declined /\ NoResults # Usage
        BY DEF NoResults, Declined, Usage
      <4> QED BY <2>2, <2>3, <3>3, <3>4, <4>1, <4>2, <4>3 DEF Done, Known
    <3>5. CASE c.failed = {} /\ (c.saw \/ ~c.empty)
      <4>1. StepsErr(c) = {}
        BY <2>1, <3>5 DEF ResourceErr
      <4>2. c.saw
        BY <3>1, <3>2, <3>3, <3>5 DEF ManyRun
      <4>3. ~Idle(i, B)
        BY <3>1, <4>2 DEF ManyRun
      <4> QED BY <2>2, <2>3, <3>3, <3>5, <4>1, <4>3 DEF Done, Known
    <3>6. CASE c.failed # {}
      <4>1. StepsErr(c) = c.failed
        BY <2>1, <3>6 DEF ResourceErr
      <4> QED BY <2>2, <3>6, <4>1 DEF Done, Known, Sentinels
    <3> QED BY <3>4, <3>5, <3>6
  <2> QED BY <2>4, <2>5
<1> QED BY <1>1, <1>2

\* The commit keeps what is done, or is one more failure of the city.
LEMMA CommitsEnd ==
  ASSUME inv \in Invocations, job.i \in Nat \ {0}, NEW c, NEW B, NEW t, NEW w, NEW s,
         Done(job.i, StepsErr(c), B, t, s),
         s = IF inv.command = "all compute" THEN c.draft ELSE w,
         NEW committed \in BOOLEAN, NEW failed \in BOOLEAN,
         failed <=> inv.command = "all compute" /\ Cancelled \notin StepsErr(c) /\ ~committed,
         NEW B2, B2 = IF failed THEN B \cup {<<job.i, "commit", "failed">>} ELSE B,
         NEW w2, w2 = IF inv.command = "all compute" /\ Cancelled \notin StepsErr(c) /\ committed
                      THEN w \cup c.draft ELSE w
  PROVE  Done(job.i, CityErr(c, committed), B2, t, w2)
<1> DEFINE err == CityErr(c, committed)
           fault == <<job.i, "commit">>
<1>1. Cancelled # NoResults /\ fault \notin Sentinels
  BY DEF Sentinels, NoResults, Declined, Usage, Cancelled
<1>2. CASE ~failed
  <2>1. err = StepsErr(c) /\ B2 = B
    BY <1>2 DEF CityErr
  <2>2. err \subseteq {NoResults} => s \subseteq w2
    BY <1>1, <1>2, <2>1
  <2> QED BY <2>1, <2>2 DEF Done, Stored
<1>3. CASE failed
  <2>1. err = (StepsErr(c) \ {NoResults}) \cup {fault}
    BY <1>3 DEF CityErr, CommitFailed
  <2>2. B2 = B \cup {<<job.i, "commit", "failed">>}
    BY <1>3
  <2> HIDE DEF err
  <2>3. Known(job.i, B2, t \cup err)
    <3> SUFFICES ASSUME NEW e \in B2, e[1] = job.i, e[3] = "failed", ~InOptional(e[2])
                 PROVE  <<e[1], e[2]>> \in t \cup err
      BY DEF Known
    <3>1. CASE e \in B
      <4>1. <<e[1], e[2]>> \in t \cup StepsErr(c)
        BY <3>1 DEF Done, Known
      <4>2. <<e[1], e[2]>> # NoResults
        BY DEF NoResults
      <4> QED BY <2>1, <4>1, <4>2
    <3>2. CASE e = <<job.i, "commit", "failed">>
      <4>1. <<e[1], e[2]>> = fault
        BY <3>2
      <4> QED BY <2>1, <4>1
    <3> QED BY <2>2, <3>1, <3>2
  <2>4. err \cap {Declined, Usage} = {} /\ NoResults \notin err /\ fault \in err /\ fault # NoResults
    BY <1>1, <2>1 DEF Done, Sentinels
  <2> QED BY <2>3, <2>4 DEF Done, err
<1> QED BY <1>2, <1>3

\* A city that is done enters the totals.
LEMMA CitiesAreCounted ==
  ASSUME NEW n \in Nat, NEW errs, NEW saw \in BOOLEAN, NEW skipped \in BOOLEAN,
         NEW B, NEW t, NEW w, Totals(n, errs, saw, skipped, B, t, w),
         NEW err, NEW B2, NEW w2, Done(n + 1, err, B2, t, w2), w \subseteq w2,
         \A m \in 1..n : \A e : e[1] = m => (e \in B2 <=> e \in B),
         NEW errs2, errs2 = IF NoResults \in err THEN errs ELSE errs \cup err,
         NEW saw2 \in BOOLEAN, saw2 <=> saw \/ err = {},
         NEW skipped2 \in BOOLEAN, skipped2 <=> skipped \/ NoResults \in err
  PROVE  Totals(n + 1, errs2, saw2, skipped2, B2, t, w2)
<1>1. 1..(n + 1) = 1..n \cup {n + 1} /\ \A m \in 1..n : m # n + 1
  OBVIOUS
<1>2. \A m \in 1..n : /\ \A K : Known(m, B, K) <=> Known(m, B2, K)
                      /\ Quiet(m, B) <=> Quiet(m, B2)
                      /\ Visited(m, B) <=> Visited(m, B2)
                      /\ Idle(m, B) <=> Idle(m, B2)
                      /\ Stored(m, B, w) => Stored(m, B2, w2)
  BY DEF Known, Quiet, Visited, Idle, Stored
<1>3. errs2 \cap Sentinels = {}
  BY DEF Totals, Done, Sentinels
<1>4. \A m \in 1..(n + 1) : Known(m, B2, t \cup errs2)
  <2>1. \A m \in 1..n : Known(m, B2, t \cup errs2)
    <3>1. \A m \in 1..n : Known(m, B2, t \cup errs)
      BY <1>2 DEF Totals
    <3> QED BY <3>1 DEF Known
  <2>2. Known(n + 1, B2, t \cup errs2)
    <3>1. CASE NoResults \in err
      BY <3>1 DEF Done, Quiet, Known
    <3>2. CASE NoResults \notin err
      BY <3>2 DEF Done, Known
    <3> QED BY <3>1, <3>2
  <2> QED BY <1>1, <2>1, <2>2
<1>5. ASSUME errs2 = {}
      PROVE  \A m \in 1..(n + 1) : Quiet(m, B2) /\ Visited(m, B2) /\ Stored(m, B2, w2)
  <2>1. errs = {} /\ err \subseteq {NoResults}
    BY <1>5 DEF Done
  <2> QED BY <1>1, <1>2, <2>1 DEF Totals, Done
<1>6. ASSUME errs2 = {}, saw2
      PROVE  \E m \in 1..(n + 1) : ~Idle(m, B2)
  <2>1. errs = {}
    BY <1>6
  <2> QED BY <1>1, <1>2, <1>6, <2>1 DEF Totals, Done
<1>7. ASSUME errs2 = {}, ~saw2
      PROVE  \A m \in 1..(n + 1) : Idle(m, B2)
  <2>1. errs = {} /\ NoResults \in err
    BY <1>7
  <2> QED BY <1>1, <1>2, <1>7, <2>1 DEF Totals, Done
<1>8. saw2 \/ skipped2 \/ errs2 # {}
  OBVIOUS
<1> QED BY <1>3, <1>4, <1>5, <1>6, <1>7, <1>8 DEF Totals

\* The exit code of an invocation that is over: what befell decides.
TruthOf(exit, B, t, w) ==
  LET failures == {<<e[1], e[2]>> : e \in {e \in B : e[3] = "failed" /\ ~InOptional(e[2])}}
      cutShort == \E e \in B : e[3] = "cancelled"
  IN IF exit = 0
     THEN /\ failures = {} /\ ~cutShort
          /\ \/ inv.command = "delete" /\ inv.confirm \in {"no", "interrupted"} /\ w = {}
             \/ /\ \A i \in DOMAIN Chosen : Stored(i, B, w) /\ Visited(i, B)
                /\ \E i \in DOMAIN Chosen : ~Idle(i, B)
     ELSE IF exit = 3
     THEN failures = {} /\ ~cutShort /\ \A i \in DOMAIN Chosen : Idle(i, B)
     ELSE failures \subseteq t /\ (failures # {} \/ t # {})

\* The property speaks of the events and of what was told and written, no more.
LEMMA TruthIsTold ==
  ExitCodeTellsTheTruth <=> (job.phase = "exited" => TruthOf(job.exit, befell, told, wrote))
<1>1. \A i : /\ Delivered(i) <=> Stored(i, befell, wrote)
             /\ Barren(i) <=> Idle(i, befell)
             /\ (\E e \in befell : e[1] = i) <=> Visited(i, befell)
  BY DEF Delivered, Stored, Barren, Idle, Pays, Visited
<1>2. CASE job.exit = 0
  BY <1>1, <1>2 DEF ExitCodeTellsTheTruth, TruthOf, StepFailures, CutShort
<1>3. CASE job.exit = 3
  BY <1>1, <1>3 DEF ExitCodeTellsTheTruth, TruthOf, StepFailures, CutShort
<1>4. CASE job.exit \notin {0, 3}
  BY <1>4 DEF ExitCodeTellsTheTruth, TruthOf, StepFailures, CutShort
<1> QED BY <1>2, <1>3, <1>4

\* Without a refusal, the exit code is of success, of no results or of a failure.
LEMMA CodesOfErrors ==
  ASSUME NEW err, err \cap {Declined, Usage} = {}
  PROVE  ExitCode(err) = IF err = {} THEN 0 ELSE IF NoResults \in err THEN 3 ELSE 1
<1>1. CASE err = {}
  BY <1>1 DEF ExitCode
<1>2. CASE err # {} /\ NoResults \in err
  BY <1>2 DEF ExitCode
<1>3. CASE err # {} /\ NoResults \notin err
  BY <1>3 DEF ExitCode
<1> QED BY <1>1, <1>2, <1>3

\* One city's error is the invocation's.
LEMMA OneCityTells ==
  ASSUME inv \in Invocations, Len(Chosen) = 1, NEW err, NEW B, NEW t, NEW w,
         Done(1, err, B, t, w), \A e \in B : e[1] = 1,
         NEW t2, t2 = IF ExitCode(err) \in {1, 2} THEN t \cup err ELSE t
  PROVE  TruthOf(ExitCode(err), B, t2, w)
<1>1. ExitCode(err) = IF err = {} THEN 0 ELSE IF NoResults \in err THEN 3 ELSE 1
  BY CodesOfErrors DEF Done
<1>2. DOMAIN Chosen = {1}
  <2>1. DOMAIN Chosen = 1..Len(Chosen)
    BY CitiesAreChosen
  <2>2. 1..1 = {1}
    OBVIOUS
  <2> QED BY <2>1, <2>2
<1>3. Quiet(1, B) => {<<e[1], e[2]>> : e \in {e \in B : e[3] = "failed" /\ ~InOptional(e[2])}} = {}
                     /\ ~\E e \in B : e[3] = "cancelled"
  BY DEF Quiet
<1>4. CASE err = {}
  BY <1>1, <1>2, <1>3, <1>4 DEF Done, TruthOf
<1>5. CASE NoResults \in err
  BY <1>1, <1>2, <1>3, <1>5 DEF Done, TruthOf
<1>6. CASE err # {} /\ NoResults \notin err
  <2>1. ExitCode(err) = 1 /\ t2 = t \cup err
    BY <1>1, <1>6
  <2>2. {<<e[1], e[2]>> : e \in {e \in B : e[3] = "failed" /\ ~InOptional(e[2])}} \subseteq t2
    BY <2>1 DEF Done, Known
  <2> QED BY <1>6, <2>1, <2>2 DEF TruthOf
<1> QED BY <1>4, <1>5, <1>6

\* The totals over the cities, all of them unless some went wrong.
LEMMA TotalsTell ==
  ASSUME inv \in Invocations, NEW n \in Nat \ {0}, NEW errs, NEW saw \in BOOLEAN, NEW skipped \in BOOLEAN,
         NEW B, NEW t, NEW w, Totals(n, errs, saw, skipped, B, t, w),
         \A e \in B : e[1] \in 1..n, errs = {} => n = Len(Chosen),
         NEW err, err = IF errs = {} /\ ~saw /\ skipped THEN {NoResults} ELSE errs,
         NEW t2, t2 = IF ExitCode(err) \in {1, 2} THEN t \cup err ELSE t
  PROVE  TruthOf(ExitCode(err), B, t2, w)
<1> DEFINE failures == {<<e[1], e[2]>> : e \in {e \in B : e[3] = "failed" /\ ~InOptional(e[2])}}
<1>1. NoResults # Declined /\ NoResults # Usage
  BY DEF NoResults, Declined, Usage
<1>2. err \cap {Declined, Usage} = {}
  BY <1>1 DEF Totals, Sentinels
<1>3. ExitCode(err) = IF err = {} THEN 0 ELSE IF NoResults \in err THEN 3 ELSE 1
  BY <1>2, CodesOfErrors
<1>4. errs = {} => /\ DOMAIN Chosen = 1..n /\ n \in 1..n
                   /\ failures = {} /\ ~\E e \in B : e[3] = "cancelled"
                   /\ \A m \in 1..n : Visited(m, B) /\ Stored(m, B, w)
  <2> SUFFICES ASSUME errs = {}
               PROVE  /\ DOMAIN Chosen = 1..n /\ n \in 1..n
                      /\ failures = {} /\ ~\E e \in B : e[3] = "cancelled"
                      /\ \A m \in 1..n : Visited(m, B) /\ Stored(m, B, w)
    OBVIOUS
  <2>1. DOMAIN Chosen = 1..n
    BY CitiesAreChosen
  <2>2. \A m \in 1..n : Quiet(m, B) /\ Visited(m, B) /\ Stored(m, B, w)
    BY DEF Totals
  <2>3. \A e \in B : e[3] # "cancelled" /\ (e[3] = "failed" => InOptional(e[2]))
    BY <2>2 DEF Quiet
  <2> QED BY <2>1, <2>2, <2>3
<1>5. CASE err = {}
  <2>1. errs = {} /\ saw
    BY <1>5 DEF Totals
  <2>2. \E m \in 1..n : ~Idle(m, B)
    BY <2>1 DEF Totals
  <2> QED BY <1>3, <1>4, <1>5, <2>1, <2>2 DEF TruthOf
<1>6. CASE err = {NoResults}
  <2>1. errs = {} /\ ~saw
    BY <1>6 DEF Totals, Sentinels
  <2>2. \A m \in 1..n : Idle(m, B)
    BY <2>1 DEF Totals
  <2> QED BY <1>3, <1>4, <1>6, <2>1, <2>2 DEF TruthOf
<1>7. CASE err # {} /\ err # {NoResults}
  <2>1. err = errs /\ NoResults \notin err
    BY <1>7 DEF Totals, Sentinels
  <2>2. ExitCode(err) = 1 /\ t2 = t \cup err
    BY <1>3, <1>7, <2>1
  <2>3. failures \subseteq t2
    <3>1. ASSUME NEW e \in B, e[3] = "failed", ~InOptional(e[2])
          PROVE  <<e[1], e[2]>> \in t2
      <4>1. Known(e[1], B, t \cup errs)
        BY DEF Totals
      <4> QED BY <2>1, <2>2, <3>1, <4>1 DEF Known
    <3> QED BY <3>1
  <2> QED BY <1>7, <2>2, <2>3 DEF TruthOf
<1> QED BY <1>5, <1>6, <1>7

\* The invocation does not change.
LEMMA InvocationsAreStill ==
  ASSUME UNCHANGED inv
  PROVE  /\ Totals(job'.i - 1, job'.errs, job'.sawResult, job'.skippedEmpty, befell', told', wrote') =>
              Totals(job.i - 1, job.errs, job.sawResult, job.skippedEmpty, befell, told, wrote)'
         /\ CityHeld(job'.city, job'.i, befell', told', wrote') =>
              CityHeld(job.city, job.i, befell, told, wrote)'
         /\ TruthOf(job'.exit, befell', told', wrote') => ExitCodeTellsTheTruth'
         /\ (1..Len(Chosen))' = 1..Len(Chosen)
<1>1. Totals(job'.i - 1, job'.errs, job'.sawResult, job'.skippedEmpty, befell', told', wrote') =>
        Totals(job.i - 1, job.errs, job.sawResult, job.skippedEmpty, befell, told, wrote)'
  BY DEF Totals, Stored, Chosen
<1>2. CityHeld(job'.city, job'.i, befell', told', wrote') =>
        CityHeld(job.city, job.i, befell, told, wrote)'
  BY DEF CityHeld, Ended, Running, Stored, Chosen, IsOnly, OnlyRun, OnlyStep
<1>3. TruthOf(job'.exit, befell', told', wrote') => ExitCodeTellsTheTruth'
  <2>1. ExitCodeTellsTheTruth' <=>
          (job.phase = "exited" => TruthOf(job.exit, befell, told, wrote))'
    BY TruthIsTold, PTL
  <2>2. TruthOf(job'.exit, befell', told', wrote') => TruthOf(job.exit, befell, told, wrote)'
    BY DEF TruthOf, Stored, Chosen
  <2> QED BY <2>1, <2>2
<1> QED BY <1>1, <1>2, <1>3 DEF Chosen

\* An invocation that exits with the code its events ask for keeps the invariant.
LEMMA ExitsTell ==
  ASSUME FanInv, UNCHANGED inv, NEW err, Exit(err),
         \A t : t = (IF ExitCode(err) \in {1, 2} THEN told \cup err ELSE told) =>
                  TruthOf(ExitCode(err), befell', t, wrote')
  PROVE  FanInv'
<1>1. /\ IsJob(job') /\ job'.phase = "exited" /\ job'.exit = ExitCode(err)
      /\ job'.sawResult = job.sawResult /\ job'.skippedEmpty = job.skippedEmpty
  BY DEF FanInv, Exit, IsJob
<1>2. TruthOf(job'.exit, befell', told', wrote')
  BY <1>1 DEF Exit
<1>3. ExitCodeTellsTheTruth'
  BY <1>2, InvocationsAreStill
<1>4. inv' \in Invocations /\ IsJob(job)' /\ job'.sawResult \in BOOLEAN /\ job'.skippedEmpty \in BOOLEAN
  BY <1>1 DEF FanInv, IsJob
<1> QED BY <1>1, <1>3, <1>4 DEF FanInv

\* Nothing has befallen an invocation that has not resolved its cities.
LEMMA FanInvInit == FanInit => FanInv
<1> SUFFICES ASSUME FanInit PROVE FanInv
  OBVIOUS
<1>1. IsJob(job) /\ job.phase = "resolve" /\ job.i = 1 /\ job.errs = {}
      /\ job.sawResult = FALSE /\ job.skippedEmpty = FALSE
  BY DEF FanInit, IsJob
<1> QED BY <1>1 DEF FanInit, FanInv, ExitCodeTellsTheTruth

\* A refusal says why, and has touched nothing.
LEMMA SelectionsTell ==
  ASSUME FanInv, SelectCities
  PROVE  FanInv'
<1>1. /\ job.phase = "resolve" /\ UNCHANGED <<ctx, inv, wrote, befell>>
      /\ wrote = {} /\ told = {} /\ befell = {} /\ job.i = 1 /\ job.errs = {}
      /\ ~job.sawResult /\ ~job.skippedEmpty /\ IsJob(job) /\ inv \in Invocations
      /\ job.sawResult \in BOOLEAN /\ job.skippedEmpty \in BOOLEAN
  BY DEF SelectCities, FanInv
<1>2. /\ NoResults # Declined /\ NoResults # Usage /\ Declined # Usage
      /\ Cancelled # Declined /\ Cancelled # Usage /\ Cancelled # NoResults
      /\ \A x \in {NoResults, Declined, Usage} : x # <<0, "resolve">>
  BY DEF NoResults, Declined, Usage, Cancelled
<1>3. ASSUME NEW err, Exit(err), err \in {{<<0, "resolve">>}, {Cancelled}, {Usage}}
      PROVE  FanInv'
  <2>1. ExitCode(err) \in {1, 2}
    <3>1. CASE err = {Usage}
      BY <1>2, <3>1 DEF ExitCode
    <3>2. CASE err # {Usage}
      <4>1. err \cap {Declined, Usage} = {} /\ err # {} /\ NoResults \notin err
        BY <1>2, <1>3, <3>2
      <4> QED BY <4>1, CodesOfErrors
    <3> QED BY <3>1, <3>2
  <2>2. TruthOf(ExitCode(err), befell', err, wrote')
    <3>1. {<<e[1], e[2]>> : e \in {e \in befell' : e[3] = "failed" /\ ~InOptional(e[2])}} = {}
      BY <1>1
    <3>2. err # {}
      BY <1>3
    <3> QED BY <2>1, <3>1, <3>2 DEF TruthOf
  <2>3. told \cup err = err
    BY <1>1
  <2> QED BY <1>1, <1>3, <2>1, <2>2, <2>3, ExitsTell
<1>4. ASSUME Exit({Declined}), inv.command = "delete", inv.confirm \in {"no", "interrupted"}
      PROVE  FanInv'
  <2>1. ExitCode({Declined}) = 0
    BY <1>2 DEF ExitCode
  <2>2. TruthOf(0, befell', told, wrote')
    BY <1>1, <1>4 DEF TruthOf
  <2> QED BY <1>1, <1>4, <2>1, <2>2, ExitsTell
<1>5. CASE ~Resolvable /\ Exit({<<0, "resolve">>})
  BY <1>3, <1>5
<1>6. CASE Exit({Cancelled})
  BY <1>3, <1>6
<1>7. CASE Refusal # {} /\ Exit(Refusal)
  <2>1. inv.command = "delete" /\ Refusal = ConfirmDestructive(inv.confirm)
    BY <1>7 DEF Refusal
  <2>2. inv.confirm \in {"--yes", "yes", "no", "interrupted", "no terminal"}
    BY <1>1, CitiesAreChosen
  <2>3. CASE inv.confirm = "no terminal"
    <3>1. Refusal = {Usage}
      BY <2>1, <2>3 DEF ConfirmDestructive
    <3> QED BY <1>3, <1>7, <3>1
  <2>4. CASE inv.confirm \in {"no", "interrupted"}
    <3>1. Refusal = {Declined}
      BY <2>1, <2>4 DEF ConfirmDestructive
    <3> QED BY <1>4, <1>7, <2>1, <2>4, <3>1
  <2>5. CASE inv.confirm \in {"--yes", "yes"}
    <3>1. Refusal = {}
      BY <2>1, <2>5 DEF ConfirmDestructive
    <3> QED BY <1>7, <3>1
  <2> QED BY <2>2, <2>3, <2>4, <2>5
<1>8. CASE /\ Resolvable /\ UNCHANGED told
           /\ job' = [job EXCEPT !.phase = "city", !.city = Fresh(StepsOf(inv.command))]
  <2>1. /\ IsJob(job') /\ job'.phase = "city" /\ job'.city = Fresh(StepsOf(inv.command))
        /\ job'.i = 1 /\ job'.errs = {} /\ job'.sawResult = job.sawResult
        /\ job'.skippedEmpty = job.skippedEmpty
    BY <1>1, <1>8 DEF IsJob
  <2>2. CityHeld(job'.city, job'.i, befell', told', wrote')
    <3>1. ~Visited(job'.i, befell')
      BY <1>1 DEF Visited
    <3> QED BY <1>1, <2>1, <3>1, CitiesBegin
  <2>3. Totals(job'.i - 1, job'.errs, job'.sawResult, job'.skippedEmpty, befell', told', wrote')
    <3>1. job'.i - 1 = 0 /\ 1..0 = {}
      BY <2>1
    <3>2. Totals(0, {}, job.sawResult, job.skippedEmpty, befell', told', wrote')
      BY <1>1, <3>1 DEF Totals
    <3> QED BY <2>1, <3>1, <3>2
  <2>4. job'.i \in (1..Len(Chosen))' /\ \A e \in befell' : e[1] \in 1..job'.i
    <3>1. 1 \in 1..Len(Chosen)
      <4>1. Len(Chosen) \in Nat /\ (Chosen # <<>> => Len(Chosen) >= 1)
        BY <1>1, CitiesAreChosen
      <4>2. Chosen # <<>>
        BY <1>8 DEF Resolvable
      <4> QED BY <4>1, <4>2
    <3> QED BY <1>1, <2>1, <3>1, InvocationsAreStill
  <2>5. ExitCodeTellsTheTruth'
    BY <2>1 DEF ExitCodeTellsTheTruth
  <2>6. IsJob(job)' /\ inv' \in Invocations
    BY <1>1, <2>1 DEF IsJob
  <2> QED BY <1>1, <2>1, <2>2, <2>3, <2>4, <2>5, <2>6, InvocationsAreStill DEF FanInv
<1> QED BY <1>5, <1>6, <1>7, <1>8 DEF SelectCities

\* A step of the current city, whatever its outcome.
LEMMA StepsTell ==
  ASSUME FanInv, NEW outcome, outcome \in {"ok", "empty", "failed", "cancelled"}, RunStep(outcome)
  PROVE  FanInv'
<1> DEFINE step == Head(job.city.todo)
           fault == <<job.i, step>>
           c == [job.city EXCEPT !.todo = Tail(@)]
           d == AfterStep(c, step, outcome, fault)
           work == IF outcome = "ok" THEN {<<StoreKey(Chosen[job.i]), step>>} ELSE {}
           new == <<job.i, step, outcome>>
           g == job'.city
<1>1. /\ job.phase = "city" /\ ~job.city.over /\ job.city.todo # <<>>
      /\ step \in {"grid", "delete"} => outcome # "empty"
      /\ befell' = befell \cup {new} /\ UNCHANGED inv
      /\ told' = IF outcome = "failed" /\ (InPavement(step) \/ InOptional(step))
                 THEN told \cup {fault} ELSE told
  BY DEF RunStep
<1>2. IF inv.command = "all compute"
      THEN job' = [job EXCEPT !.city = [d EXCEPT !.draft = @ \cup work]] /\ UNCHANGED wrote
      ELSE job' = [job EXCEPT !.city = d] /\ wrote' = wrote \cup work
  BY DEF RunStep
<1>3. /\ inv \in Invocations /\ IsJob(job) /\ job.i \in 1..Len(Chosen) /\ job.i \in Nat \ {0}
      /\ \A e \in befell : e[1] \in 1..job.i
      /\ Totals(job.i - 1, job.errs, job.sawResult, job.skippedEmpty, befell, told, wrote)
      /\ CityHeld(job.city, job.i, befell, told, wrote)
      /\ job.sawResult \in BOOLEAN /\ job.skippedEmpty \in BOOLEAN
  <2>1. Len(Chosen) \in Nat
    BY CitiesAreChosen DEF FanInv
  <2> QED BY <1>1, <2>1 DEF FanInv
<1>4. IsCity(c) /\ ~c.over /\ c.draft = job.city.draft
  BY <1>1, <1>3 DEF CityHeld, IsCity
<1>5. IsCity(d) /\ d.draft = job.city.draft
  <2>1. After(d, c, step, outcome, fault)
    BY <1>4, StepsAreAfter
  <2> QED BY <1>4, <2>1 DEF After
<1> HIDE DEF c, d, step, fault, work
<1>6. /\ IsJob(job') /\ job'.phase = "city" /\ job'.i = job.i /\ job'.errs = job.errs
      /\ job'.sawResult = job.sawResult /\ job'.skippedEmpty = job.skippedEmpty
      /\ IF inv.command = "all compute"
         THEN g = [d EXCEPT !.draft = @ \cup work] /\ wrote' = wrote
         ELSE g = d /\ wrote' = wrote \cup work
  <2>1. CASE inv.command = "all compute"
    BY <1>1, <1>2, <1>3, <2>1 DEF IsJob
  <2>2. CASE inv.command # "all compute"
    BY <1>1, <1>2, <1>3, <2>2 DEF IsJob
  <2> QED BY <2>1, <2>2
<1>7. /\ IsCity(g) /\ g.todo = d.todo /\ Same(g, d) /\ g.err = d.err /\ g.over = d.over
      /\ inv.command = "all compute" => g.draft = job.city.draft \cup work
  <2>1. CASE inv.command = "all compute"
    BY <1>5, <1>6, <2>1 DEF IsCity, Same
  <2>2. CASE inv.command # "all compute"
    BY <1>5, <1>6, <2>2 DEF Same
  <2> QED BY <2>1, <2>2
<1> HIDE DEF g
<1>8. CityHeld(g, job.i, befell', told', wrote')
  <2>1. Drafts(g, wrote') = Drafts(job.city, wrote) \cup work
    BY <1>6, <1>7 DEF Drafts
  <2>2. outcome = "ok" => <<StoreKey(Chosen[job.i]), step>> \in Drafts(g, wrote')
    BY <2>1 DEF work
  <2>3. Drafts(job.city, wrote) \subseteq Drafts(g, wrote')
    BY <2>1
  <2>4. told \subseteq told'
        /\ (outcome = "failed" /\ (InPavement(step) \/ InOptional(step)) => <<job.i, step>> \in told')
    BY <1>1 DEF fault
  <2>5. Stepped(g, job.city, step, outcome, <<job.i, step>>)
    BY <1>7 DEF Stepped, d, c, fault
  <2>6. step = Head(job.city.todo)
    BY DEF step
  <2>7. CityHeld(g, job.i, befell \cup {<<job.i, step, outcome>>}, told', wrote')
    <3>1. /\ inv \in Invocations /\ job.i \in Nat \ {0}
          /\ CityHeld(job.city, job.i, befell, told, wrote)
          /\ ~job.city.over /\ job.city.todo # <<>>
          /\ step \in {"grid", "delete"} => outcome # "empty"
      BY <1>1, <1>3
    <3> HIDE DEF new
    <3> QED BY <2>2, <2>3, <2>4, <2>5, <2>6, <3>1, StepsKeepCities, SMTT(30)
  <2> QED BY <1>1, <2>7
<1>9. Totals(job.i - 1, job.errs, job.sawResult, job.skippedEmpty, befell', told', wrote')
  <2> DEFINE n == job.i - 1
  <2>1. \A m \in 1..n : \A e : e[1] = m => (e \in befell' <=> e \in befell)
    <3>1. new[1] = job.i
      OBVIOUS
    <3>2. \A i \in Nat \ {0} : \A m \in 1..(i - 1) : m # i
      OBVIOUS
    <3> QED BY <1>1, <1>3, <3>1, <3>2
  <2>2. told \subseteq told' /\ wrote \subseteq wrote'
    BY <1>1, <1>6
  <2> HIDE DEF n
  <2>3. \A m \in 1..n : /\ \A K : Known(m, befell, K) <=> Known(m, befell', K)
                        /\ Quiet(m, befell) <=> Quiet(m, befell')
                        /\ Visited(m, befell) <=> Visited(m, befell')
                        /\ Idle(m, befell) <=> Idle(m, befell')
                        /\ Stored(m, befell, wrote) => Stored(m, befell', wrote')
    BY <2>1, <2>2 DEF Known, Quiet, Visited, Idle, Stored
  <2>4. \A m \in 1..n : Known(m, befell', told' \cup job.errs)
    <3>1. \A m \in 1..n : Known(m, befell', told \cup job.errs)
      BY <1>3, <2>3 DEF Totals, n
    <3> QED BY <2>2, <3>1 DEF Known
  <2> QED BY <1>3, <2>3, <2>4 DEF Totals, n
<1>10. \A e \in befell' : e[1] \in 1..job.i
  <2>1. new[1] = job.i /\ job.i \in 1..job.i
    BY <1>3
  <2> QED BY <1>1, <1>3, <2>1
<1>11. ExitCodeTellsTheTruth' /\ IsJob(job)' /\ inv' \in Invocations
  <2>1. ExitCodeTellsTheTruth'
    BY <1>6 DEF ExitCodeTellsTheTruth
  <2> QED BY <1>1, <1>3, <1>6, <2>1 DEF IsJob
<1>12. CityHeld(job.city, job.i, befell, told, wrote)'
  BY <1>1, <1>6, <1>8, InvocationsAreStill DEF g
<1>13. Totals(job.i - 1, job.errs, job.sawResult, job.skippedEmpty, befell, told, wrote)'
  BY <1>1, <1>6, <1>9, InvocationsAreStill
<1>14. job'.i \in (1..Len(Chosen))' /\ \A e \in befell' : e[1] \in 1..job'.i
  BY <1>1, <1>3, <1>6, <1>10, InvocationsAreStill
<1> QED BY <1>3, <1>6, <1>11, <1>12, <1>13, <1>14 DEF FanInv

\* The next city's totals, and the last one's.
LEMMA FinishesTell ==
  ASSUME FanInv, NEW committed \in BOOLEAN, FinishCity(committed)
  PROVE  FanInv'
<1> DEFINE c == job.city
           err == CityErr(c, committed)
           j == [job EXCEPT !.i = @ + 1,
                            !.sawResult = @ \/ err = {},
                            !.skippedEmpty = @ \/ NoResults \in err,
                            !.errs = IF NoResults \in err THEN @ ELSE @ \cup err]
           k == IF ctx = "cancelled" /\ j.i <= Len(Chosen) THEN [j EXCEPT !.errs = @ \cup {Cancelled}] ELSE j
           failed == inv.command = "all compute" /\ Cancelled \notin StepsErr(c) /\ ~committed
           n == job.i
<1>1. /\ job.phase = "city" /\ (c.over \/ c.todo = <<>>) /\ UNCHANGED inv
      /\ befell' = IF failed THEN befell \cup {<<n, "commit", "failed">>} ELSE befell
      /\ wrote' = IF inv.command = "all compute" /\ Cancelled \notin StepsErr(c) /\ committed
                  THEN wrote \cup c.draft ELSE wrote
  BY DEF FinishCity
<1>2. \/ Len(Chosen) = 1 /\ Exit(err)
      \/ /\ Len(Chosen) > 1 /\ (k.i > Len(Chosen) \/ ctx = "cancelled") /\ Exit(FanErr(k))
      \/ /\ Len(Chosen) # 1 /\ ~(Len(Chosen) > 1 /\ (k.i > Len(Chosen) \/ ctx = "cancelled"))
         /\ job' = [k EXCEPT !.city = Fresh(StepsOf(inv.command))] /\ UNCHANGED told
  <2>1. CASE Len(Chosen) = 1
    BY <2>1 DEF FinishCity
  <2>2. CASE Len(Chosen) > 1 /\ (k.i > Len(Chosen) \/ ctx = "cancelled")
    BY <2>2 DEF FinishCity
  <2>3. CASE Len(Chosen) # 1 /\ ~(Len(Chosen) > 1 /\ (k.i > Len(Chosen) \/ ctx = "cancelled"))
    BY <2>3 DEF FinishCity
  <2> QED BY <2>1, <2>2, <2>3
<1>3. /\ inv \in Invocations /\ IsJob(job) /\ n \in 1..Len(Chosen) /\ n \in Nat \ {0}
      /\ Len(Chosen) \in Nat
      /\ \A e \in befell : e[1] \in 1..n
      /\ Totals(n - 1, job.errs, job.sawResult, job.skippedEmpty, befell, told, wrote)
      /\ CityHeld(c, n, befell, told, wrote)
      /\ job.sawResult \in BOOLEAN /\ job.skippedEmpty \in BOOLEAN
  <2>1. Len(Chosen) \in Nat
    BY CitiesAreChosen DEF FanInv
  <2>2. job.phase = "city"
    BY <1>1
  <2> HIDE DEF j, k, err, failed
  <2> QED BY <2>1, <2>2 DEF FanInv
<1>4. /\ IsJob(j) /\ j.i = n + 1 /\ j.phase = "city"
      /\ j.sawResult \in BOOLEAN /\ (j.sawResult <=> job.sawResult \/ err = {})
      /\ j.skippedEmpty \in BOOLEAN /\ (j.skippedEmpty <=> job.skippedEmpty \/ NoResults \in err)
      /\ j.errs = IF NoResults \in err THEN job.errs ELSE job.errs \cup err
  BY <1>1, <1>3 DEF IsJob
<1>5. /\ IsJob(k) /\ k.i = n + 1 /\ k.phase = "city"
      /\ k.sawResult = j.sawResult /\ k.skippedEmpty = j.skippedEmpty
      /\ k.errs = IF ctx = "cancelled" /\ n + 1 <= Len(Chosen) THEN j.errs \cup {Cancelled} ELSE j.errs
  <2> HIDE DEF j
  <2> QED BY <1>4 DEF IsJob
<1> HIDE DEF j, k, err, c, n
<1>6. Done(n, err, befell', told, wrote')
  <2>1. Done(n, StepsErr(c), befell, told, Drafts(c, wrote))
    BY <1>1, <1>3, CitiesEnd DEF Drafts
  <2>2. failed \in BOOLEAN
    OBVIOUS
  <2> HIDE DEF failed
  <2>3. failed <=> inv.command = "all compute" /\ Cancelled \notin StepsErr(c) /\ ~committed
    BY DEF failed
  <2> QED BY <1>1, <1>3, <2>1, <2>2, <2>3, CommitsEnd DEF Drafts, err, n
<1>7. /\ \A e \in befell' : e[1] \in 1..n
      /\ \A m \in 1..(n - 1) : \A e : e[1] = m => (e \in befell' <=> e \in befell)
      /\ wrote \subseteq wrote'
  <2>1. <<n, "commit", "failed">>[1] = n /\ n \in 1..n /\ \A m \in 1..(n - 1) : m # n
    BY <1>3
  <2> QED BY <1>1, <1>3, <2>1
<1>8. Totals(n, j.errs, j.sawResult, j.skippedEmpty, befell', told, wrote')
  <2>1. n - 1 \in Nat /\ (n - 1) + 1 = n
    BY <1>3
  <2>3. Done((n - 1) + 1, err, befell', told, wrote')
    BY <1>6, <2>1
  <2>2. Totals((n - 1) + 1, j.errs, j.sawResult, j.skippedEmpty, befell', told, wrote')
    BY <1>3, <1>4, <1>7, <2>1, <2>3, CitiesAreCounted
  <2> QED BY <2>1, <2>2
<1>9. CASE Len(Chosen) = 1 /\ Exit(err)
  <2>1. n = 1 /\ \A e \in befell' : e[1] = 1
    BY <1>3, <1>7, <1>9
  <2>2. \A t : t = (IF ExitCode(err) \in {1, 2} THEN told \cup err ELSE told) =>
                 TruthOf(ExitCode(err), befell', t, wrote')
    BY <1>3, <1>6, <1>9, <2>1, OneCityTells
  <2> QED BY <1>1, <1>9, <2>2, ExitsTell
<1>10. CASE /\ Len(Chosen) > 1 /\ (k.i > Len(Chosen) \/ ctx = "cancelled") /\ Exit(FanErr(k))
  <2>1. Totals(n, k.errs, k.sawResult, k.skippedEmpty, befell', told, wrote')
    <3>1. Cancelled \notin Sentinels
      BY DEF Cancelled, Sentinels, NoResults, Declined, Usage
    <3>2. k.errs = j.errs \/ k.errs = j.errs \cup {Cancelled}
      BY <1>5
    <3>3. \A m \in 1..n : Known(m, befell', told \cup k.errs)
      BY <1>8, <3>2 DEF Totals, Known
    <3> QED BY <1>5, <1>8, <3>1, <3>2, <3>3 DEF Totals
  <2>2. k.errs = {} => n = Len(Chosen)
    <3>1. n <= Len(Chosen) /\ n \in Nat /\ Len(Chosen) \in Nat
      BY <1>3
    <3>2. k.errs = {} => ~(ctx = "cancelled" /\ n + 1 <= Len(Chosen))
      BY <1>5
    <3>3. n + 1 > Len(Chosen) \/ ctx = "cancelled"
      BY <1>5, <1>10
    <3> QED BY <3>1, <3>2, <3>3
  <2>3. FanErr(k) = IF k.errs = {} /\ ~k.sawResult /\ k.skippedEmpty THEN {NoResults} ELSE k.errs
    BY DEF FanErr
  <2>4. k.sawResult \in BOOLEAN /\ k.skippedEmpty \in BOOLEAN
    BY <1>4, <1>5
  <2>5. \A t : t = (IF ExitCode(FanErr(k)) \in {1, 2} THEN told \cup FanErr(k) ELSE told) =>
                 TruthOf(ExitCode(FanErr(k)), befell', t, wrote')
    BY <1>3, <1>7, <2>1, <2>2, <2>3, <2>4, TotalsTell
  <2> QED BY <1>1, <1>10, <2>5, ExitsTell
<1>11. CASE /\ Len(Chosen) # 1 /\ ~(Len(Chosen) > 1 /\ (k.i > Len(Chosen) \/ ctx = "cancelled"))
            /\ job' = [k EXCEPT !.city = Fresh(StepsOf(inv.command))] /\ UNCHANGED told
  <2>1. Len(Chosen) > 1 /\ ctx # "cancelled" /\ n + 1 \in 1..Len(Chosen)
    <3>1. 1 <= n /\ n <= Len(Chosen) /\ n \in Nat /\ Len(Chosen) \in Nat
      BY <1>3
    <3>2. Len(Chosen) # 1 /\ ~(Len(Chosen) > 1 /\ (n + 1 > Len(Chosen) \/ ctx = "cancelled"))
      BY <1>5, <1>11
    <3>3. Len(Chosen) > 1
      <4>1. Len(Chosen) # 1
        BY <3>2
      <4>2. \A a, b \in Nat : 1 <= a /\ a <= b /\ b # 1 => b > 1
        OBVIOUS
      <4> QED BY <3>1, <4>1, <4>2
    <3>4. ~(n + 1 > Len(Chosen)) /\ ctx # "cancelled"
      BY <3>2, <3>3
    <3>5. n + 1 <= Len(Chosen) /\ n + 1 >= 1
      BY <3>1, <3>4
    <3> QED BY <3>1, <3>3, <3>4, <3>5
  <2>2. /\ IsJob(job') /\ job'.phase = "city" /\ job'.city = Fresh(StepsOf(inv.command))
        /\ job'.i = n + 1 /\ job'.errs = j.errs /\ job'.sawResult = j.sawResult
        /\ job'.skippedEmpty = j.skippedEmpty
    BY <1>5, <1>11, <2>1 DEF IsJob
  <2>3. CityHeld(job'.city, job'.i, befell', told', wrote')
    <3>1. ~Visited(n + 1, befell')
      BY <1>3, <1>7 DEF Visited
    <3> QED BY <1>3, <2>2, <3>1, CitiesBegin
  <2>4. Totals(job'.i - 1, job'.errs, job'.sawResult, job'.skippedEmpty, befell', told', wrote')
    <3>1. (n + 1) - 1 = n
      BY <1>3
    <3> QED BY <1>8, <1>11, <2>2, <3>1
  <2>5. job'.i \in (1..Len(Chosen))' /\ \A e \in befell' : e[1] \in 1..job'.i
    <3>1. \A m \in 1..n : m \in 1..(n + 1)
      BY <1>3
    <3> QED BY <1>1, <1>7, <2>1, <2>2, <3>1, InvocationsAreStill
  <2>6. ExitCodeTellsTheTruth' /\ IsJob(job)' /\ inv' \in Invocations
        /\ job'.sawResult \in BOOLEAN /\ job'.skippedEmpty \in BOOLEAN
    <3>1. ExitCodeTellsTheTruth'
      BY <2>2 DEF ExitCodeTellsTheTruth
    <3> QED BY <1>1, <1>3, <1>4, <2>2, <3>1 DEF IsJob
  <2>7. CityHeld(job.city, job.i, befell, told, wrote)'
    BY <1>1, <2>3, InvocationsAreStill
  <2>8. Totals(job.i - 1, job.errs, job.sawResult, job.skippedEmpty, befell, told, wrote)'
    BY <1>1, <2>4, InvocationsAreStill
  <2> QED BY <2>2, <2>5, <2>6, <2>7, <2>8 DEF FanInv
<1> QED BY <1>2, <1>9, <1>10, <1>11

\* Whatever goes wrong, and wherever, the exit code tells the truth.
THEOREM ExitCodesTellTheTruth == FanSpec => []ExitCodeTellsTheTruth
<1>1. FanInv /\ [FanNext]_fanVars => FanInv'
  <2> SUFFICES ASSUME FanInv, [FanNext]_fanVars PROVE FanInv'
    OBVIOUS
  <2>1. CASE SelectCities
    BY <2>1, SelectionsTell
  <2>2. CASE \E outcome \in {"ok", "empty", "failed", "cancelled"} : RunStep(outcome)
    BY <2>2, StepsTell
  <2>3. CASE \E committed \in BOOLEAN : FinishCity(committed)
    BY <2>3, FinishesTell
  <2>4. CASE UNCHANGED <<inv, job, wrote, told, befell>>
    <3>1. Chosen' = Chosen
      BY <2>4 DEF Chosen
    <3>2. ExitCodeTellsTheTruth'
      BY <2>4, <3>1 DEF FanInv, ExitCodeTellsTheTruth, StepFailures, CutShort, Delivered, Barren
    <3>3. CityHeld(job.city, job.i, befell, told, wrote)' <=> CityHeld(job.city, job.i, befell, told, wrote)
      BY <2>4, <3>1 DEF CityHeld, Ended, Running, Stored, IsOnly, OnlyRun, OnlyStep
    <3>4. Totals(job.i - 1, job.errs, job.sawResult, job.skippedEmpty, befell, told, wrote)'
            <=> Totals(job.i - 1, job.errs, job.sawResult, job.skippedEmpty, befell, told, wrote)
      BY <2>4, <3>1 DEF Totals, Stored
    <3> QED BY <2>4, <3>1, <3>2, <3>3, <3>4 DEF FanInv, IsJob
  <2>5. CASE Interrupt
    BY <2>4, <2>5 DEF Interrupt
  <2> QED BY <2>1, <2>2, <2>3, <2>4, <2>5 DEF FanNext, fanVars
<1>2. FanInv => ExitCodeTellsTheTruth
  BY DEF FanInv
<1> QED BY FanInvInit, <1>1, <1>2, PTL DEF FanSpec

-----------------------------------------------------------------------------
(***************************************************************************)
(* What holds of ingest for every city, every set of sources and however   *)
(* many runs are under way at once:                                        *)
(*   - IngestKeepsItsShape: every run, and the stored boundary and rows,   *)
(*     are what the code's types let them be;                              *)
(*   - FetchesAreNotMixed: a source's rows come from one fetch;            *)
(*   - InversionsAreNoticed: a stored boundary without the city's roads    *)
(*     has a verdict coming, or a run ended without giving one;            *)
(*   - DownSourcesAreSpared: a source that did not answer keeps its rows.  *)
(***************************************************************************)

FeatureRow == [source : Source, version : Version]

RunType ==
  [pc : {"idle", "getBoundary", "fetchBoundary", "saveBoundary", "fetch",
         "upsert", "findRoads", "judge"},
   resource : Resource, force : BOOLEAN, sources : SUBSET Source,
   succeeded : SUBSET Source, rows : SUBSET FeatureRow,
   fresh : BOOLEAN, wet : BOOLEAN, land : [Shape -> BOOLEAN]]

IngestTypeOK ==
  /\ boundary \in [shape : Shape \cup {"none"}, land : BOOLEAN]
  /\ features \in [Resource -> SUBSET FeatureRow]
  /\ ingest \in [Proc -> RunType]
  /\ ingests \in Nat
  /\ unjudged \in BOOLEAN

\* Rows of which no two are of one source.
OnePerSource(rows) == \A x, y \in rows : x.source = y.source => x = y

\* What a run is about to store is one fetch of each source that answered.
FetchIsWhole(run) ==
  /\ OnePerSource(run.rows)
  /\ \A x \in run.rows : x.source \in run.succeeded

\* The boundary is fresh only once the run has saved it.
NotYetSaved(run) ==
  run.pc \in {"idle", "getBoundary", "fetchBoundary", "saveBoundary"} => ~run.fresh

RunsAreSound == \A p \in Proc : FetchIsWhole(ingest[p]) /\ NotYetSaved(ingest[p])

IngestInv ==
  /\ IngestTypeOK
  /\ RunsAreSound
  /\ OneFetchPerSource
  /\ InvertedBoundaryIsNotSilent

----------------------------------------------------------------------------
(* What the parts of a step do                                             *)

\* A process without a run.
LEMMA NoRunIsARun == NoRun \in RunType /\ FetchIsWhole(NoRun) /\ NotYetSaved(NoRun)
BY IngestAssumption DEF NoRun, RunType, FetchIsWhole, NotYetSaved, OnePerSource, Resource,
   Shape

LEMMA LandIsBoolean == Land \subseteq [Shape -> BOOLEAN] /\ DryLand \subseteq Land
BY DEF Land, DryLand

LEMMA SavedIsAShape == ASSUME NEW run PROVE Saved(run) \in Shape
BY DEF Saved, Shape

LEMMA RowsAreFeatureRows ==
  ASSUME NEW run, run.sources \subseteq Source, NEW succeeded, succeeded \subseteq run.sources
  PROVE  /\ Rows(run, succeeded) \subseteq FeatureRow
         /\ \A x \in Rows(run, succeeded) : x.source \in succeeded
BY DEF Rows, FeatureRow

\* Replacing rows by a fetch of their sources leaves one fetch of each.
LEMMA UpsertKeepsOneFetch ==
  ASSUME NEW run, NEW old, NEW gone,
         OnePerSource(old), FetchIsWhole(run),
         gone = (IF run.succeeded = run.sources
                   THEN old ELSE {x \in old : x.source \in run.succeeded})
  PROVE  OnePerSource((old \ gone) \cup run.rows)
BY DEF OnePerSource, FetchIsWhole

\* The source of a fetched row is not what a restricted upsert keeps.
LEMMA SpareKeepsRows ==
  ASSUME NEW run, NEW old, NEW x \in old, x.source \in run.sources \ run.succeeded
  PROVE  x \notin (IF run.succeeded = run.sources
                     THEN old ELSE {y \in old : y.source \in run.succeeded})
OBVIOUS

----------------------------------------------------------------------------
(* Typing                                                                  *)

LEMMA InitIsTyped == IngestInit => IngestTypeOK
<1> SUFFICES ASSUME IngestInit
             PROVE  IngestTypeOK
  OBVIOUS
<1>1. boundary \in [shape : Shape \cup {"none"}, land : BOOLEAN]
  BY DEF IngestInit, NoBoundary
<1>2. features \in [Resource -> SUBSET FeatureRow]
  BY DEF IngestInit
<1>3. ingest \in [Proc -> RunType]
  BY NoRunIsARun DEF IngestInit
<1>4. ingests \in Nat /\ unjudged \in BOOLEAN
  BY DEF IngestInit
<1> QED BY <1>1, <1>2, <1>3, <1>4 DEF IngestTypeOK

LEMMA StepIsTyped ==
  ASSUME IngestTypeOK, NEW p \in Proc, IngestStep(p)
  PROVE  IngestTypeOK'
<1> USE DEF IngestTypeOK
<1>0. /\ ingest[p] \in RunType
      /\ NoRun \in RunType
  BY NoRunIsARun
<1>1. ASSUME NEW run, Become(p, run), run \in RunType
      PROVE  ingest' \in [Proc -> RunType] /\ ingests' = ingests
  BY <1>1 DEF Become
<1>2. ASSUME GiveUp(p)
      PROVE  ingest' \in [Proc -> RunType] /\ ingests' = ingests /\ unjudged' \in BOOLEAN
  <2>1. ingest[p].fresh \in BOOLEAN
    BY <1>0 DEF RunType
  <2> QED BY <1>0, <1>1, <1>2, <2>1 DEF GiveUp
<1>3. ASSUME NEW run \in RunType, NEW shape \in Shape, Store(run, shape)
      PROVE  boundary' \in [shape : Shape \cup {"none"}, land : BOOLEAN]
  BY <1>3 DEF Store, RunType
<1>4. CASE Start(p)
  <2>0. PICK r \in Resource, force \in BOOLEAN : \E sources \in SUBSET SourcesOf[r] :
            ingest' = [ingest EXCEPT ![p] =
                         [NoRun EXCEPT !.pc = "getBoundary", !.resource = r,
                                       !.force = force, !.sources = sources]]
    BY <1>4 DEF Start
  <2>1. PICK sources \in SUBSET SourcesOf[r] :
          ingest' = [ingest EXCEPT ![p] =
                          [NoRun EXCEPT !.pc = "getBoundary", !.resource = r,
                                        !.force = force, !.sources = sources]]
    BY <2>0
  <2>2. sources \in SUBSET Source
    BY <2>1 DEF Source
  <2>3. [NoRun EXCEPT !.pc = "getBoundary", !.resource = r,
                      !.force = force, !.sources = sources] \in RunType
    BY <1>0, <2>2 DEF RunType
  <2>4. ingest' \in [Proc -> RunType]
    BY <2>1, <2>3
  <2> QED BY <1>4, <2>4 DEF Start
<1>5. CASE GetBoundary(p)
  <2>1. \A pc \in {"fetch", "fetchBoundary"} :
          [ingest[p] EXCEPT !.force = FALSE, !.pc = pc] \in RunType
    BY <1>0 DEF RunType
  <2> QED BY <1>1, <1>5, <2>1 DEF GetBoundary
<1>6. CASE FetchBoundary(p)
  <2>1. PICK wet \in BOOLEAN, land \in Land :
          Become(p, [ingest[p] EXCEPT !.pc = "saveBoundary", !.land = land, !.wet = wet])
    BY <1>6, LandIsBoolean DEF FetchBoundary
  <2>2. [ingest[p] EXCEPT !.pc = "saveBoundary", !.land = land, !.wet = wet] \in RunType
    BY <1>0, LandIsBoolean DEF RunType
  <2> QED BY <1>1, <1>6, <2>1, <2>2 DEF FetchBoundary
<1>7. CASE SaveBoundary(p)
  <2>1. [ingest[p] EXCEPT !.pc = "fetch", !.fresh = TRUE] \in RunType
    BY <1>0 DEF RunType
  <2> QED BY <1>0, <1>1, <1>3, <1>7, <2>1, SavedIsAShape DEF SaveBoundary
<1>8. CASE FetchFromSources(p)
  <2>0. PICK succeeded \in SUBSET ingest[p].sources :
          \E rows \in SUBSET Rows(ingest[p], succeeded) :
            IF rows = {}
              THEN GiveUp(p)
              ELSE /\ Become(p, [ingest[p] EXCEPT !.pc = "upsert",
                                                  !.succeeded = succeeded, !.rows = rows])
                   /\ UNCHANGED unjudged
    BY <1>8 DEF FetchFromSources
  <2>1. PICK rows \in SUBSET Rows(ingest[p], succeeded) :
          /\ IF rows = {}
               THEN GiveUp(p)
               ELSE /\ Become(p, [ingest[p] EXCEPT !.pc = "upsert",
                                                   !.succeeded = succeeded, !.rows = rows])
                    /\ UNCHANGED unjudged
    BY <2>0
  <2>2. ingest[p].sources \subseteq Source
    BY <1>0 DEF RunType
  <2>3. [ingest[p] EXCEPT !.pc = "upsert", !.succeeded = succeeded, !.rows = rows] \in RunType
    BY <1>0, <2>1, <2>2, RowsAreFeatureRows DEF RunType
  <2> QED BY <1>1, <1>2, <1>8, <2>1, <2>3 DEF FetchFromSources
<1>9. CASE Upsert(p)
  <2>1. ingest[p].rows \subseteq FeatureRow
    BY <1>0 DEF RunType
  <2>2. features' \in [Resource -> SUBSET FeatureRow]
    BY <1>9, <2>1 DEF Upsert
  <2>3. [ingest[p] EXCEPT !.pc = "findRoads", !.sources = {},
                          !.succeeded = {}, !.rows = {}] \in RunType
    BY <1>0 DEF RunType
  <2> QED BY <1>0, <1>1, <1>9, <2>2, <2>3 DEF Upsert
<1>10. CASE FindRoads(p)
  <2>1. [ingest[p] EXCEPT !.pc = "judge"] \in RunType
    BY <1>0 DEF RunType
  <2> QED BY <1>1, <1>2, <1>10, <2>1 DEF FindRoads
<1>11. CASE Judge(p)
  <2>1. "complement" \in Shape /\ "plain" \in Shape
    BY DEF Shape
  <2> QED BY <1>0, <1>1, <1>2, <1>3, <1>11, <2>1 DEF Judge
<1>12. CASE Stops(p)
  BY <1>2, <1>12 DEF Stops
<1> QED BY <1>4, <1>5, <1>6, <1>7, <1>8, <1>9, <1>10, <1>11, <1>12 DEF IngestStep

LEMMA SweepIsTyped ==
  ASSUME IngestTypeOK, NEW keep, SweepSources(keep)
  PROVE  IngestTypeOK'
BY DEF IngestTypeOK, SweepSources

----------------------------------------------------------------------------
(* A step as the other runs see it: they stay as they are                  *)

LEMMA OthersStayAsTheyAre ==
  ASSUME IngestTypeOK, NEW p \in Proc, IngestStep(p)
  PROVE  \A q \in Proc \ {p} : ingest'[q] = ingest[q]
<1>1. \E run : ingest' = [ingest EXCEPT ![p] = run]
  BY DEF IngestStep, Start, GetBoundary, FetchBoundary, SaveBoundary, FetchFromSources, Upsert,
         FindRoads, Judge, Stops, GiveUp, Become
<1> QED BY <1>1 DEF IngestTypeOK

----------------------------------------------------------------------------
(* Every run carries a whole fetch, and a fresh boundary only when saved   *)

LEMMA StepKeepsRunsSound ==
  ASSUME IngestTypeOK, RunsAreSound, NEW p \in Proc, IngestStep(p)
  PROVE  RunsAreSound'
<1> DEFINE Sound(run) == FetchIsWhole(run) /\ NotYetSaved(run)
<1>0. /\ ingest[p] \in RunType
      /\ Sound(ingest[p])
      /\ Sound(NoRun)
  BY NoRunIsARun DEF IngestTypeOK, RunsAreSound
<1>1. ASSUME NEW run, ingest' = [ingest EXCEPT ![p] = run], Sound(run)
      PROVE  Sound(ingest'[p])
  BY <1>1 DEF IngestTypeOK
<1>2. ASSUME NEW pc, NEW run, run = [ingest[p] EXCEPT !.pc = pc],
             pc \in {"idle", "getBoundary", "fetchBoundary", "saveBoundary"}
                      => ~ingest[p].fresh
      PROVE  Sound(run)
  BY <1>0, <1>2 DEF RunType, FetchIsWhole, NotYetSaved, OnePerSource
<1>3. Sound(ingest'[p])
  <2>1. CASE Start(p)
    <3>1. PICK r, force, sources :
            ingest' = [ingest EXCEPT ![p] =
                         [NoRun EXCEPT !.pc = "getBoundary", !.resource = r,
                                       !.force = force, !.sources = sources]]
      BY <2>1 DEF Start
    <3>2. Sound([NoRun EXCEPT !.pc = "getBoundary", !.resource = r,
                              !.force = force, !.sources = sources])
      BY DEF NoRun, FetchIsWhole, NotYetSaved, OnePerSource
    <3> QED BY <1>1, <3>1, <3>2
  <2>2. CASE GetBoundary(p)
    <3>1. \A pc \in {"fetch", "fetchBoundary"} :
            Sound([ingest[p] EXCEPT !.force = FALSE, !.pc = pc])
      BY <1>0, <2>2 DEF GetBoundary, At, RunType, FetchIsWhole, NotYetSaved, OnePerSource
    <3> QED BY <1>1, <2>2, <3>1 DEF GetBoundary, Become
  <2>3. CASE FetchBoundary(p)
    <3>1. PICK wet, land :
            ingest' = [ingest EXCEPT ![p] =
                         [ingest[p] EXCEPT !.pc = "saveBoundary", !.land = land, !.wet = wet]]
      BY <2>3 DEF FetchBoundary, Become
    <3>2. Sound([ingest[p] EXCEPT !.pc = "saveBoundary", !.land = land, !.wet = wet])
      BY <1>0, <2>3 DEF FetchBoundary, At, RunType, FetchIsWhole, NotYetSaved, OnePerSource
    <3> QED BY <1>1, <3>1, <3>2
  <2>4. CASE SaveBoundary(p)
    <3>1. Sound([ingest[p] EXCEPT !.pc = "fetch", !.fresh = TRUE])
      BY <1>0 DEF RunType, FetchIsWhole, NotYetSaved, OnePerSource
    <3> QED BY <1>1, <2>4, <3>1 DEF SaveBoundary, Become
  <2>5. CASE FetchFromSources(p)
    <3>0. PICK succeeded \in SUBSET ingest[p].sources :
            \E rows \in SUBSET Rows(ingest[p], succeeded) :
              /\ OnePerSource(rows)
              /\ IF rows = {}
                   THEN GiveUp(p)
                   ELSE Become(p, [ingest[p] EXCEPT !.pc = "upsert",
                                                    !.succeeded = succeeded, !.rows = rows])
      BY <2>5 DEF FetchFromSources, OnePerSource
    <3>1. PICK rows \in SUBSET Rows(ingest[p], succeeded) :
            /\ OnePerSource(rows)
            /\ IF rows = {}
                 THEN GiveUp(p)
                 ELSE Become(p, [ingest[p] EXCEPT !.pc = "upsert",
                                                  !.succeeded = succeeded, !.rows = rows])
      BY <3>0
    <3>2. ingest[p].sources \subseteq Source
      BY <1>0 DEF RunType
    <3>3. Sound([ingest[p] EXCEPT !.pc = "upsert", !.succeeded = succeeded, !.rows = rows])
      BY <1>0, <3>1, <3>2, RowsAreFeatureRows DEF RunType, FetchIsWhole, NotYetSaved
    <3> QED BY <1>0, <1>1, <3>1, <3>3 DEF GiveUp, Become
  <2>6. CASE Upsert(p)
    <3>1. Sound([ingest[p] EXCEPT !.pc = "findRoads", !.sources = {},
                                  !.succeeded = {}, !.rows = {}])
      BY <1>0 DEF RunType, FetchIsWhole, NotYetSaved, OnePerSource
    <3> QED BY <1>0, <1>1, <2>6, <3>1 DEF Upsert, Become
  <2>7. CASE FindRoads(p)
    <3>1. Sound([ingest[p] EXCEPT !.pc = "judge"])
      BY <1>2
    <3> QED BY <1>0, <1>1, <2>7, <3>1 DEF FindRoads, GiveUp, Become
  <2>8. CASE Judge(p)
    BY <1>0, <1>1, <2>8 DEF Judge, GiveUp, Become
  <2>9. CASE Stops(p)
    BY <1>0, <1>1, <2>9 DEF Stops, GiveUp, Become
  <2> QED BY <2>1, <2>2, <2>3, <2>4, <2>5, <2>6, <2>7, <2>8, <2>9 DEF IngestStep
<1> QED BY <1>3, OthersStayAsTheyAre DEF RunsAreSound

----------------------------------------------------------------------------
(* One fetch per source                                                    *)

LEMMA StepKeepsOneFetch ==
  ASSUME IngestTypeOK, RunsAreSound, OneFetchPerSource, NEW p \in Proc, IngestStep(p)
  PROVE  OneFetchPerSource'
<1>1. CASE Upsert(p)
  <2> DEFINE run == ingest[p]
             old == features[run.resource]
             gone == Replaced(run)
  <2>1. run.resource \in Resource /\ FetchIsWhole(run)
    BY DEF IngestTypeOK, RunType, RunsAreSound
  <2>2. OnePerSource(old)
    BY <2>1 DEF OneFetchPerSource, OnePerSource
  <2>3. gone = (IF run.succeeded = run.sources
                  THEN old ELSE {x \in old : x.source \in run.succeeded})
    BY DEF Replaced
  <2>4. OnePerSource((old \ gone) \cup run.rows)
    BY <2>1, <2>2, <2>3, UpsertKeepsOneFetch
  <2>5. features' = [features EXCEPT ![run.resource] = (old \ gone) \cup run.rows]
    BY <1>1 DEF Upsert
  <2>6. \A r \in Resource : OnePerSource(features'[r])
    BY <2>4, <2>5 DEF IngestTypeOK, OneFetchPerSource, OnePerSource
  <2> QED BY <2>6 DEF OneFetchPerSource, OnePerSource
<1>2. CASE ~Upsert(p)
  <2>1. UNCHANGED features
    BY <1>2 DEF IngestStep, Start, GetBoundary, FetchBoundary, SaveBoundary, FetchFromSources,
                FindRoads, Judge, Stops
  <2> QED BY <2>1 DEF OneFetchPerSource
<1> QED BY <1>1, <1>2

LEMMA SweepKeepsOneFetch ==
  ASSUME OneFetchPerSource, NEW keep, SweepSources(keep)
  PROVE  OneFetchPerSource'
BY DEF SweepSources, OneFetchPerSource

----------------------------------------------------------------------------
(* No inversion is silent                                                  *)

\* The run owes a verdict on a boundary that misses the roads.
Owes(run) == run.fresh /\ ~run.land[Saved(run)]

\* A step neither forgets a verdict that is owed nor stores a boundary without
\* the roads and owes none.
LEMMA StepKeepsInversionsNoticed ==
  ASSUME IngestTypeOK, RunsAreSound, InvertedBoundaryIsNotSilent, NEW p \in Proc, IngestStep(p)
  PROVE  InvertedBoundaryIsNotSilent'
<1> DEFINE Bad == boundary # NoBoundary /\ ~boundary.land
<1>0. /\ ingest[p] \in RunType
      /\ NotYetSaved(ingest[p])
      /\ unjudged \in BOOLEAN
  BY DEF IngestTypeOK, RunsAreSound
<1>1. \A q \in Proc \ {p} : Owes(ingest[q]) => Owes(ingest'[q])
  BY OthersStayAsTheyAre
<1>2. ASSUME NEW run, ingest' = [ingest EXCEPT ![p] = run]
      PROVE  ingest'[p] = run
  BY <1>2 DEF IngestTypeOK
<1>3. Bad => unjudged \/ \E q \in Proc : Owes(ingest[q])
  BY DEF InvertedBoundaryIsNotSilent, Owes
<1>4. SUFFICES (boundary' # NoBoundary /\ ~boundary'.land)
                 => unjudged' \/ \E q \in Proc : Owes(ingest'[q])
  BY DEF InvertedBoundaryIsNotSilent, Owes
<1>5. ASSUME UNCHANGED boundary, unjudged => unjudged',
             Owes(ingest[p]) => Owes(ingest'[p]) \/ unjudged'
      PROVE  (boundary' # NoBoundary /\ ~boundary'.land)
                 => unjudged' \/ \E q \in Proc : Owes(ingest'[q])
  BY <1>1, <1>3, <1>5
<1>6. ASSUME GiveUp(p), UNCHANGED boundary
      PROVE  (boundary' # NoBoundary /\ ~boundary'.land)
                 => unjudged' \/ \E q \in Proc : Owes(ingest'[q])
  <2>1. unjudged => unjudged'
    BY <1>6 DEF GiveUp
  <2>2. Owes(ingest[p]) => unjudged'
    BY <1>6 DEF GiveUp, Owes
  <2> QED BY <1>5, <1>6, <2>1, <2>2
<1>7. CASE Start(p)
  <2>1. ~Owes(ingest[p])
    BY <1>0, <1>7 DEF Start, At, NotYetSaved, Owes
  <2> QED BY <1>5, <1>7, <2>1 DEF Start
<1>8. CASE GetBoundary(p)
  <2>1. ~Owes(ingest[p])
    BY <1>0, <1>8 DEF GetBoundary, At, NotYetSaved, Owes
  <2> QED BY <1>5, <1>8, <2>1 DEF GetBoundary
<1>9. CASE FetchBoundary(p)
  <2>1. ~Owes(ingest[p])
    BY <1>0, <1>9 DEF FetchBoundary, At, NotYetSaved, Owes
  <2> QED BY <1>5, <1>9, <2>1 DEF FetchBoundary
<1>10. CASE SaveBoundary(p)
  <2>1. ingest'[p] = [ingest[p] EXCEPT !.pc = "fetch", !.fresh = TRUE]
    BY <1>2, <1>10 DEF SaveBoundary, Become
  <2>2. /\ ingest'[p].fresh
        /\ ingest'[p].land = ingest[p].land
        /\ ingest'[p].wet = ingest[p].wet
    BY <1>0, <2>1 DEF RunType
  <2>3. Saved(ingest'[p]) = Saved(ingest[p])
    BY <2>2 DEF Saved
  <2>4. boundary'.land = ingest[p].land[Saved(ingest[p])]
    BY <1>10 DEF SaveBoundary, Store
  <2>5. ~boundary'.land => Owes(ingest'[p])
    BY <2>2, <2>3, <2>4 DEF Owes
  <2> QED BY <2>5
<1>11. CASE FetchFromSources(p)
  <2>1. CASE GiveUp(p)
    BY <1>6, <1>11, <2>1 DEF FetchFromSources
  <2>2. CASE \E succeeded, rows :
               /\ Become(p, [ingest[p] EXCEPT !.pc = "upsert", !.succeeded = succeeded,
                                              !.rows = rows])
               /\ UNCHANGED unjudged
    <3>1. PICK succeeded, rows :
            ingest'[p] = [ingest[p] EXCEPT !.pc = "upsert", !.succeeded = succeeded,
                                           !.rows = rows]
      BY <1>2, <2>2 DEF Become
    <3>2. Owes(ingest[p]) => Owes(ingest'[p])
      BY <1>0, <3>1 DEF RunType, Owes, Saved
    <3> QED BY <1>5, <1>11, <2>2, <3>2 DEF FetchFromSources
  <2> QED BY <1>11, <2>1, <2>2 DEF FetchFromSources
<1>12. CASE Upsert(p)
  <2>1. CASE ingest[p].fresh
    <3>1. ingest'[p] = [ingest[p] EXCEPT !.pc = "findRoads", !.sources = {},
                                         !.succeeded = {}, !.rows = {}]
      BY <1>2, <1>12, <2>1 DEF Upsert, Become
    <3>2. Owes(ingest[p]) => Owes(ingest'[p])
      BY <1>0, <3>1 DEF RunType, Owes, Saved
    <3> QED BY <1>5, <1>12, <3>2 DEF Upsert
  <2>2. CASE ~ingest[p].fresh
    BY <1>5, <1>12, <2>2 DEF Upsert, Owes
  <2> QED BY <2>1, <2>2
<1>13. CASE FindRoads(p)
  <2>1. CASE GiveUp(p)
    BY <1>6, <1>13, <2>1 DEF FindRoads
  <2>2. CASE Become(p, [ingest[p] EXCEPT !.pc = "judge"]) /\ UNCHANGED unjudged
    <3>1. ingest'[p] = [ingest[p] EXCEPT !.pc = "judge"]
      BY <1>2, <2>2 DEF Become
    <3>2. Owes(ingest[p]) => Owes(ingest'[p])
      BY <1>0, <3>1 DEF RunType, Owes, Saved
    <3> QED BY <1>5, <1>13, <2>2, <3>2 DEF FindRoads
  <2> QED BY <1>13, <2>1, <2>2 DEF FindRoads
<1>14. CASE Judge(p)
  <2>1. CASE ingest[p].land[Saved(ingest[p])] /\ UNCHANGED <<boundary, unjudged>>
    BY <1>5, <2>1 DEF Owes
  <2>2. CASE \E shape : ingest[p].land[shape] /\ Store(ingest[p], shape)
    BY <2>2 DEF Store
  <2>3. CASE GiveUp(p) /\ UNCHANGED boundary
    BY <1>6, <2>3
  <2> QED BY <1>14, <2>1, <2>2, <2>3 DEF Judge
<1>15. CASE Stops(p)
  BY <1>6, <1>15 DEF Stops
<1> QED BY <1>7, <1>8, <1>9, <1>10, <1>11, <1>12, <1>13, <1>14, <1>15 DEF IngestStep

----------------------------------------------------------------------------
(* The theorems                                                            *)

LEMMA InitIsSound == IngestInit => IngestInv
<1>1. IngestInit => RunsAreSound
  BY NoRunIsARun DEF IngestInit, RunsAreSound
<1>2. IngestInit => OneFetchPerSource /\ InvertedBoundaryIsNotSilent
  BY DEF IngestInit, OneFetchPerSource, InvertedBoundaryIsNotSilent
<1> QED BY <1>1, <1>2, InitIsTyped DEF IngestInv

LEMMA NextKeepsIngestInv == IngestInv /\ [IngestNext]_ingestVars => IngestInv'
<1> SUFFICES ASSUME IngestInv, [IngestNext]_ingestVars
             PROVE  IngestInv'
  OBVIOUS
<1>1. ASSUME NEW p \in Proc, IngestStep(p)
      PROVE  IngestInv'
  BY <1>1, StepIsTyped, StepKeepsRunsSound, StepKeepsOneFetch, StepKeepsInversionsNoticed
     DEF IngestInv
<1>2. ASSUME NEW keep, SweepSources(keep)
      PROVE  IngestInv'
  <2>1. RunsAreSound' /\ InvertedBoundaryIsNotSilent'
    BY <1>2 DEF IngestInv, RunsAreSound, InvertedBoundaryIsNotSilent, SweepSources
  <2> QED BY <1>2, <2>1, SweepIsTyped, SweepKeepsOneFetch DEF IngestInv
<1>3. CASE UNCHANGED ingestVars
  BY <1>3 DEF IngestInv, IngestTypeOK, RunsAreSound, OneFetchPerSource,
              InvertedBoundaryIsNotSilent, ingestVars
<1> QED BY <1>1, <1>2, <1>3 DEF IngestNext

LEMMA IngestIsSound == IngestSpec => []IngestInv
BY InitIsSound, NextKeepsIngestInv, PTL DEF IngestSpec

\* Runs and what they store keep the shapes the code's types give them.
THEOREM IngestKeepsItsShape == IngestSpec => []IngestTypeOK
BY IngestIsSound, PTL DEF IngestInv

\* However runs of several processes and gc interleave, the rows a source has
\* are those of one fetch.
THEOREM FetchesAreNotMixed == IngestSpec => []OneFetchPerSource
BY IngestIsSound, PTL DEF IngestInv

\* However verdicts and overwrites interleave, a stored boundary without the
\* city's roads has a verdict coming or an ended run that gave none.
THEOREM InversionsAreNoticed == IngestSpec => []InvertedBoundaryIsNotSilent
BY IngestIsSound, PTL DEF IngestInv

\* Whatever others stored since it fetched, a run's upsert leaves the rows of
\* the sources that did not answer it.
THEOREM DownSourcesAreSpared == IngestSpec => SourcesDownKeepTheirRows
<1> DEFINE Spared(p) == At(p, "upsert") /\ ~At(p, "upsert")' =>
              \A x \in features[ingest[p].resource] :
                x.source \in ingest[p].sources \ ingest[p].succeeded
                  => x \in features'[ingest[p].resource]
<1>1. IngestInv /\ [IngestNext]_ingestVars => [\A p \in Proc : Spared(p)]_ingestVars
  <2> SUFFICES ASSUME IngestTypeOK, IngestNext, NEW p \in Proc,
                      At(p, "upsert"), ~At(p, "upsert")',
                      NEW x \in features[ingest[p].resource],
                      x.source \in ingest[p].sources \ ingest[p].succeeded
               PROVE  x \in features'[ingest[p].resource]
    BY DEF IngestInv
  <2>1. IngestStep(p)
    <3>1. ASSUME NEW q \in Proc \ {p}, IngestStep(q)
          PROVE  At(p, "upsert")'
      BY <3>1, OthersStayAsTheyAre DEF At
    <3>2. ASSUME NEW keep, SweepSources(keep)
          PROVE  At(p, "upsert")'
      BY <3>2 DEF SweepSources, At
    <3> QED BY <3>1, <3>2 DEF IngestNext
  <2>2. Upsert(p) \/ Stops(p)
    BY <2>1 DEF IngestStep, Start, GetBoundary, FetchBoundary, SaveBoundary, FetchFromSources,
                FindRoads, Judge, At
  <2>3. CASE Upsert(p)
    <3>1. ingest[p].resource \in Resource
      BY DEF IngestTypeOK, RunType
    <3>2. x \notin Replaced(ingest[p])
      BY SpareKeepsRows DEF Replaced
    <3>3. features'[ingest[p].resource]
            = (features[ingest[p].resource] \ Replaced(ingest[p])) \cup ingest[p].rows
      BY <2>3, <3>1 DEF Upsert, IngestTypeOK
    <3> QED BY <3>2, <3>3
  <2>4. CASE Stops(p)
    BY <2>4 DEF Stops
  <2> QED BY <2>2, <2>3, <2>4
<1> QED BY <1>1, IngestIsSound, PTL DEF IngestSpec, SourcesDownKeepTheirRows
=============================================================================
