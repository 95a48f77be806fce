--------------------------- MODULE CoverageProofs ---------------------------
(***************************************************************************)
(* Pavement and service coverage, for every town, grid, set of features,   *)
(* road network and set of facilities.                                     *)
(*                                                                         *)
(*   - SavedRowsAlwaysWhole: what a run has saved is of the whole town,    *)
(*     wherever the command is cancelled.                                  *)
(*   - SavedCoverageAlwaysTrue: of the road positions a hex projects to,   *)
(*     one on each segment in range, a service's saved coverage takes the  *)
(*     nearest that a facility can legally drive to, at the least time.    *)
(*                                                                         *)
(* Pavement has two halves. The arithmetic: the clipped hexes part the     *)
(* city's land (GridParts), so whatever is measured hex by hex adds up to  *)
(* what is on it (AreasAddUp, CohortsAddUp, SpacesAddUp); crossings are in *)
(* one hex each, classes are scaled to the total, and the shares of a lot  *)
(* are exact. The control: a pass over the features or the grid may come   *)
(* back short only once the command is cancelled, and from then on nothing *)
(* is saved (CoverInv). So every row was made of all the features and all  *)
(* the grid.                                                               *)
(*                                                                         *)
(* Service coverage compares two ways of telling times. The reference      *)
(* takes every unit step in rounds; counting its steps shows that it has   *)
(* taken enough of them (DriveTimesAreLeast). The search goes from vertex  *)
(* to vertex. Whatever it finds can be driven (Sound, OffersAreDriven),    *)
(* and once every vertex it knows has passed its time on (Answered) there  *)
(* is no drive it has missed (DrivenIsReached). A vertex that has not      *)
(* passed its time on waits in the queue (SearchInv), so an empty queue    *)
(* means there is none, in whatever order the items were taken.            *)
(***************************************************************************)
EXTENDS PavementCoverage, ServiceCoverage, SumProofs

-----------------------------------------------------------------------------
(* The grid.                                                               *)

\* A coordinate is in one span.
LEMMA SpanOf ==
  ASSUME NEW t, town = t, t.edge \in Nat \ {0}, NEW n \in Int
  PROVE  /\ IsFiniteSet(Span(n)) /\ Span(n) \subseteq Int
         /\ \A x \in Int : x \in Span(n) <=> x \div t.edge = n
<1> DEFINE edge == t.edge
           low == n * edge
<1>1. edge \in Nat \ {0} /\ edge = town.edge /\ low \in Int
  OBVIOUS
<1>2. Span(n) = low..(low + edge - 1)
  BY <1>1 DEF Span
<1> HIDE DEF edge
<1>3. ASSUME NEW x \in Int PROVE x \in low..(low + edge - 1) <=> x \div edge = n
  <2>1. x \div edge \in Int /\ (x \div edge) * edge <= x /\ x < (x \div edge) * edge + edge
    BY <1>1, QuotientBounds
  <2>2. ASSUME low <= x, x < low + edge PROVE x \div edge = n
    BY <1>1, <2>2, QuotientIs
  <2>3. ASSUME x \div edge = n PROVE low <= x /\ x < low + edge
    BY <2>1, <2>3
  <2> HIDE DEF low
  <2> QED BY <1>1, <2>2, <2>3
<1> HIDE DEF low
<1>4. IsFiniteSet(low..(low + edge - 1)) /\ low..(low + edge - 1) \subseteq Int
  BY <1>1, FS_Interval
<1> QED BY <1>2, <1>3, <1>4 DEF edge

\* A cell is in the block of its coordinates, and in no other.
LEMMA CellsOfBlocks ==
  ASSUME NEW t, town = t, t.edge \in Nat \ {0}, NEW col \in Int, NEW row \in Int
  PROVE  /\ \A cell \in Block(col, row) :
              cell \in Int \X Int /\ cell[1] \div t.edge = col /\ cell[2] \div t.edge = row
         /\ \A cell \in Int \X Int : cell[1] \div t.edge = col /\ cell[2] \div t.edge = row
              => cell \in Block(col, row)
         /\ IsFiniteSet(Block(col, row))
<1> DEFINE edge == t.edge
<1>1. \A n \in Int : /\ IsFiniteSet(Span(n)) /\ Span(n) \subseteq Int
                      /\ \A x \in Int : x \in Span(n) <=> x \div edge = n
  BY SpanOf
<1>2. Block(col, row) = Span(col) \X Span(row)
  BY DEF Block
<1> HIDE DEF edge
<1>3. ASSUME NEW cell \in Span(col) \X Span(row)
      PROVE  cell \in Int \X Int /\ cell[1] \div edge = col /\ cell[2] \div edge = row
  <2>1. cell[1] \in Span(col) /\ cell[2] \in Span(row) /\ cell = <<cell[1], cell[2]>>
    OBVIOUS
  <2>2. cell[1] \in Int /\ cell[2] \in Int
    BY <1>1, <2>1
  <2> QED BY <1>1, <2>1, <2>2
<1>4. ASSUME NEW cell \in Int \X Int, cell[1] \div edge = col, cell[2] \div edge = row
      PROVE  cell \in Span(col) \X Span(row)
  <2>1. cell[1] \in Int /\ cell[2] \in Int /\ cell = <<cell[1], cell[2]>>
    OBVIOUS
  <2>2. cell[1] \in Span(col) /\ cell[2] \in Span(row)
    BY <1>1, <1>4, <2>1
  <2> QED BY <2>1, <2>2
<1>5. IsFiniteSet(Span(col) \X Span(row))
  BY <1>1, FS_Product
<1> QED BY <1>2, <1>3, <1>4, <1>5 DEF edge

\* Hexes that share neither an id nor a cell and cover the land.
Partition(grid, land) ==
  /\ IsFiniteSet(grid) /\ IsFiniteSet(land)
  /\ \A h \in grid : h = [id |-> h.id, cells |-> h.cells] /\ h.cells \subseteq land
  /\ \A h \in grid : \A k \in grid : h.id = k.id => h = k
  /\ \A cell \in land : \E h \in grid : cell \in h.cells
  /\ \A h \in grid : \A k \in grid : \A cell \in h.cells : cell \in k.cells => h = k

\* A boundary with something in it, and hexes that have a size.
IsTown(t) ==
  /\ t.edge \in Nat \ {0}
  /\ t.boundary.cells \subseteq Int \X Int /\ IsFiniteSet(t.boundary.cells)
  /\ t.boundary.cells # {}

\* The least and the greatest of finitely many numbers.
LEMMA Extremes ==
  ASSUME NEW S, S \subseteq Int, S # {}, IsFiniteSet(S)
  PROVE  /\ Min(S) \in S /\ \A x \in S : Min(S) <= x
         /\ Max(S) \in S /\ \A x \in S : x <= Max(S)
<1> DEFINE P == {T \in SUBSET S : T # {} => \E l, g \in T : \A x \in T : l <= x /\ x <= g}
<1>1. {} \in P
  OBVIOUS
<1>2. \A T \in SUBSET S : \A y \in S \ T : T \in P => T \cup {y} \in P
  <2> SUFFICES ASSUME NEW T \in SUBSET S, NEW y \in S \ T, T \in P PROVE T \cup {y} \in P
    OBVIOUS
  <2>0. y \in Int /\ T \subseteq Int
    OBVIOUS
  <2>1. CASE T = {}
    <3>1. \A x \in T \cup {y} : y <= x /\ x <= y
      BY <2>0, <2>1
    <3> QED BY <3>1
  <2>2. CASE T # {}
    <3>1. PICK l, g \in T : \A x \in T : l <= x /\ x <= g
      BY <2>2
    <3> DEFINE least == IF l <= y THEN l ELSE y
               most == IF y <= g THEN g ELSE y
    <3>2. least \in T \cup {y} /\ most \in T \cup {y}
      OBVIOUS
    <3>3. \A x \in T \cup {y} : least <= x /\ x <= most
      BY <2>0, <3>1
    <3> QED BY <3>2, <3>3
  <2> QED BY <2>1, <2>2
<1>3. S \in P
  <2> HIDE DEF P
  <2> QED BY <1>1, <1>2, FromEmptyOn
<1>4. PICK l, g \in S : \A x \in S : l <= x /\ x <= g
  BY <1>3
<1> QED BY <1>4 DEF Min, Max

\* The grid is finitely many blocks, named by their place, and reaches every
\* cell of the boundary.
LEMMA GridIsFine ==
  ASSUME NEW t, town = t, IsTown(t)
  PROVE  /\ IsFiniteSet(HexGrid)
         /\ \A h \in HexGrid : /\ h = [id |-> h.id, cells |-> h.cells]
                               /\ h.id \in Int \X Int /\ h.cells = Block(h.id[1], h.id[2])
         /\ \A cell \in t.boundary.cells : \E h \in HexGrid : cell \in h.cells
<1> DEFINE cells == t.boundary.cells
           edge == t.edge
           X == Columns(1)
           Y == Columns(2)
           cols == Min(X)..Max(X)
           rows == Min(Y)..Max(Y)
           hex == [p \in cols \X rows |-> [id |-> p, cells |-> Block(p[1], p[2])]]
<1>0. edge \in Nat \ {0} /\ cells \subseteq Int \X Int /\ IsFiniteSet(cells) /\ cells # {}
  BY DEF IsTown
<1>1. \A axis \in {1, 2} : Columns(axis) = {cell[axis] \div edge : cell \in cells}
  BY DEF Columns
<1> HIDE DEF edge, cells
<1>2. ASSUME NEW axis \in {1, 2}
      PROVE  /\ Columns(axis) \subseteq Int /\ Columns(axis) # {} /\ IsFiniteSet(Columns(axis))
  <2> DEFINE f == [cell \in cells |-> cell[axis] \div edge]
  <2>1. \A cell \in cells : cell[axis] \in Int
    BY <1>0
  <2>2. \A cell \in cells : cell[axis] \div edge \in Int
    BY <1>0, <2>1, QuotientBounds
  <2>3. f \in Surjection(cells, Columns(axis))
    BY <1>1 DEF Surjection
  <2> HIDE DEF f
  <2>4. IsFiniteSet(Columns(axis))
    BY <1>0, <2>3, FS_Surjection
  <2> QED BY <1>0, <1>1, <2>2, <2>4
<1>3. /\ Min(X) \in Int /\ Max(X) \in Int /\ \A x \in X : x \in cols
      /\ Min(Y) \in Int /\ Max(Y) \in Int /\ \A y \in Y : y \in rows
  <2>1. X \subseteq Int /\ X # {} /\ IsFiniteSet(X)
    BY <1>2
  <2>2. Y \subseteq Int /\ Y # {} /\ IsFiniteSet(Y)
    BY <1>2
  <2> HIDE DEF X, Y
  <2>3. Min(X) \in X /\ (\A x \in X : Min(X) <= x) /\ Max(X) \in X /\ \A x \in X : x <= Max(X)
    BY <2>1, Extremes
  <2>4. Min(Y) \in Y /\ (\A x \in Y : Min(Y) <= x) /\ Max(Y) \in Y /\ \A x \in Y : x <= Max(Y)
    BY <2>2, Extremes
  <2>5. Min(X) \in Int /\ Max(X) \in Int /\ \A x \in X : x \in Int
    BY <2>1, <2>3
  <2>6. Min(Y) \in Int /\ Max(Y) \in Int /\ \A x \in Y : x \in Int
    BY <2>2, <2>4
  <2>7. \A x \in X : x \in cols
    BY <2>3, <2>5
  <2>8. \A x \in Y : x \in rows
    BY <2>4, <2>6
  <2> QED BY <2>5, <2>6, <2>7, <2>8
<1>4. HexGrid = {[id |-> <<col, row>>, cells |-> Block(col, row)] : col \in cols, row \in rows}
  BY DEF HexGrid
<1>5. IsFiniteSet(cols) /\ IsFiniteSet(rows) /\ cols \subseteq Int /\ rows \subseteq Int
  BY <1>3, FS_Interval
<1> HIDE DEF cols, rows
<1>6. IsFiniteSet(HexGrid)
  <2>1. IsFiniteSet(cols \X rows)
    BY <1>5, FS_Product
  <2>2. hex \in [cols \X rows -> HexGrid]
    BY <1>4
  <2>3. \A h \in HexGrid : \E p \in cols \X rows : hex[p] = h
    <3> SUFFICES ASSUME NEW h \in HexGrid PROVE \E p \in cols \X rows : hex[p] = h
      OBVIOUS
    <3>1. PICK col \in cols, row \in rows : h = [id |-> <<col, row>>, cells |-> Block(col, row)]
      BY <1>4
    <3>2. <<col, row>> \in cols \X rows /\ hex[<<col, row>>] = h
      BY <3>1
    <3> QED BY <3>2
  <2>4. hex \in Surjection(cols \X rows, HexGrid)
    BY <2>2, <2>3 DEF Surjection
  <2> HIDE DEF hex
  <2> QED BY <2>1, <2>4, FS_Surjection
<1>7. ASSUME NEW h \in HexGrid
      PROVE  /\ h = [id |-> h.id, cells |-> h.cells]
             /\ h.id \in Int \X Int /\ h.cells = Block(h.id[1], h.id[2])
  <2>1. PICK col \in cols, row \in rows : h = [id |-> <<col, row>>, cells |-> Block(col, row)]
    BY <1>4
  <2> QED BY <1>5, <2>1
<1>8. ASSUME NEW cell \in cells
      PROVE  \E h \in HexGrid : cell \in h.cells
  <2> DEFINE col == cell[1] \div edge
             row == cell[2] \div edge
  <2>1. cell \in Int \X Int
    BY <1>0
  <2>2. col \in X /\ row \in Y
    BY <1>1
  <2>3. col \in cols /\ row \in rows
    BY <1>3, <2>2
  <2>4. cell \in Block(col, row)
    <3>1. col \in Int /\ row \in Int
      BY <1>5, <2>3
    <3>2. edge = t.edge /\ t.edge \in Nat \ {0}
      BY <1>0 DEF edge
    <3> QED BY <2>1, <3>1, <3>2, CellsOfBlocks
  <2> DEFINE h == [id |-> <<col, row>>, cells |-> Block(col, row)]
  <2>5. h \in HexGrid /\ h.cells = Block(col, row)
    BY <1>4, <2>3
  <2> QED BY <2>4, <2>5
<1> QED BY <1>6, <1>7, <1>8 DEF cells

\* The clipped hexes part the city's land.
LEMMA GridParts ==
  ASSUME NEW t, town = t, IsTown(t)
  PROVE  Partition(ClippedGrid, CityLand)
<1> DEFINE cells == t.boundary.cells
<1>0. t.edge \in Nat \ {0} /\ IsFiniteSet(cells) /\ cells = town.boundary.cells
  BY DEF IsTown
<1>1. /\ IsFiniteSet(HexGrid)
      /\ \A h \in HexGrid : /\ h = [id |-> h.id, cells |-> h.cells]
                            /\ h.id \in Int \X Int /\ h.cells = Block(h.id[1], h.id[2])
      /\ \A cell \in cells : \E h \in HexGrid : cell \in h.cells
  BY GridIsFine
<1> HIDE DEF cells
<1>2. \A h \in HexGrid : \A k \in HexGrid : h.id = k.id => h = k
  BY <1>1
<1>3. ASSUME NEW h \in HexGrid
      PROVE  /\ IsFiniteSet(h.cells)
             /\ \A cell \in h.cells : cell[1] \div t.edge = h.id[1] /\ cell[2] \div t.edge = h.id[2]
  <2>1. h.id[1] \in Int /\ h.id[2] \in Int /\ h.cells = Block(h.id[1], h.id[2])
    BY <1>1
  <2> QED BY <1>0, <2>1, CellsOfBlocks
<1>4. ASSUME NEW h \in HexGrid, NEW k \in HexGrid, NEW cell \in h.cells, cell \in k.cells
      PROVE  h = k
  <2>1. h.id[1] = k.id[1] /\ h.id[2] = k.id[2]
    BY <1>3, <1>4
  <2>2. h.id \in Int \X Int /\ k.id \in Int \X Int
    BY <1>1
  <2> QED BY <1>2, <2>1, <2>2
<1>5. CASE Clippable
  <2> DEFINE clip == [h \in HexGrid |-> [id |-> h.id, cells |-> h.cells \cap cells]]
             Clips == {clip[h] : h \in HexGrid}
  <2>1. ClippedGrid = {h \in Clips : h.cells # {}} /\ CityLand = cells
    BY <1>0, <1>5 DEF ClippedGrid, ClipHexesToBoundary, CityLand
  <2>2. IsFiniteSet(Clips)
    <3>1. clip \in Surjection(HexGrid, Clips)
      BY DEF Surjection
    <3> HIDE DEF clip, Clips
    <3> QED BY <1>1, <3>1, FS_Surjection
  <2>3. \A h \in Clips : \E k \in HexGrid : h = [id |-> k.id, cells |-> k.cells \cap cells]
    OBVIOUS
  <2>4. \A k \in HexGrid : \E h \in Clips : h = [id |-> k.id, cells |-> k.cells \cap cells]
    OBVIOUS
  <2> HIDE DEF clip, Clips
  <2>5. IsFiniteSet(ClippedGrid) /\ IsFiniteSet(CityLand)
    BY <1>0, <2>1, <2>2, FS_Subset
  <2>6. ASSUME NEW h \in ClippedGrid
        PROVE  h = [id |-> h.id, cells |-> h.cells] /\ h.cells \subseteq CityLand
    BY <2>1, <2>3
  <2>7. ASSUME NEW h \in ClippedGrid, NEW k \in ClippedGrid, h.id = k.id
        PROVE  h = k
    <3>1. PICK hh \in HexGrid : h = [id |-> hh.id, cells |-> hh.cells \cap cells]
      BY <2>1, <2>3
    <3>2. PICK kk \in HexGrid : k = [id |-> kk.id, cells |-> kk.cells \cap cells]
      BY <2>1, <2>3
    <3>3. hh = kk
      BY <1>2, <2>7, <3>1, <3>2
    <3> QED BY <3>1, <3>2, <3>3
  <2>8. ASSUME NEW cell \in CityLand
        PROVE  \E h \in ClippedGrid : cell \in h.cells
    <3>1. PICK hh \in HexGrid : cell \in hh.cells
      BY <1>1, <2>1
    <3>2. PICK h \in Clips : h = [id |-> hh.id, cells |-> hh.cells \cap cells]
      BY <2>4
    <3>3. cell \in h.cells
      BY <2>1, <3>1, <3>2
    <3> QED BY <2>1, <3>3
  <2>9. ASSUME NEW h \in ClippedGrid, NEW k \in ClippedGrid, NEW cell \in h.cells, cell \in k.cells
        PROVE  h = k
    <3>1. PICK hh \in HexGrid : h = [id |-> hh.id, cells |-> hh.cells \cap cells]
      BY <2>1, <2>3
    <3>2. PICK kk \in HexGrid : k = [id |-> kk.id, cells |-> kk.cells \cap cells]
      BY <2>1, <2>3
    <3>3. cell \in hh.cells /\ cell \in kk.cells
      BY <2>9, <3>1, <3>2
    <3>4. hh = kk
      BY <1>4, <3>3
    <3> QED BY <3>1, <3>2, <3>4
  <2> QED BY <2>5, <2>6, <2>7, <2>8, <2>9 DEF Partition
<1>6. CASE ~Clippable
  <2>1. ClippedGrid = HexGrid /\ CityLand = UNION {h.cells : h \in HexGrid}
    BY <1>6 DEF ClippedGrid, CityLand
  <2>2. IsFiniteSet(CityLand)
    <3> DEFINE f == [h \in HexGrid |-> h.cells]
               All == {h.cells : h \in HexGrid}
    <3>1. f \in Surjection(HexGrid, All)
      BY DEF Surjection
    <3>2. \A cs \in All : IsFiniteSet(cs)
      BY <1>3
    <3> HIDE DEF f
    <3>3. IsFiniteSet(All)
      BY <1>1, <3>1, FS_Surjection
    <3>4. CityLand = UNION All
      BY <2>1
    <3> HIDE DEF All
    <3> QED BY <3>2, <3>3, <3>4, FS_UNION
  <2>3. \A h \in ClippedGrid : h = [id |-> h.id, cells |-> h.cells] /\ h.cells \subseteq CityLand
    BY <1>1, <2>1
  <2>4. \A h \in ClippedGrid : \A k \in ClippedGrid : h.id = k.id => h = k
    BY <1>2, <2>1
  <2>5. \A cell \in CityLand : \E h \in ClippedGrid : cell \in h.cells
    BY <2>1
  <2>6. \A h \in ClippedGrid : \A k \in ClippedGrid : \A cell \in h.cells : cell \in k.cells => h = k
    BY <1>4, <2>1
  <2> QED BY <1>1, <2>1, <2>2, <2>3, <2>4, <2>5, <2>6 DEF Partition
<1> QED BY <1>5, <1>6

\* The cells under some footprints.
Covered(fs) == UNION {f.cells : f \in fs}

\* A set of hexes, or of rows about hexes, that holds of every hex of the grid
\* on which there is something the area of it.
Measures(stats, grid, fs) ==
  /\ \A s \in stats : \E h \in grid : /\ HexCoverageArea(h, fs) > 0
                                      /\ s.id = h.id /\ s.area = HexCoverageArea(h, fs)
  /\ \A h \in grid : HexCoverageArea(h, fs) > 0 => \E s \in stats : s.id = h.id
  /\ \A s \in stats : \A u \in stats : s.id = u.id => s = u

\* What is on one hex is a number of cells.
LEMMA AreaType ==
  ASSUME NEW grid, NEW land, Partition(grid, land), NEW h \in grid, NEW fs
  PROVE  /\ IsFiniteSet(h.cells \cap Covered(fs))
         /\ HexCoverageArea(h, fs) = Cardinality(h.cells \cap Covered(fs))
         /\ HexCoverageArea(h, fs) \in Nat
<1>1. h.cells \subseteq land /\ IsFiniteSet(land)
  BY DEF Partition
<1>2. IsFiniteSet(h.cells \cap Covered(fs))
  BY <1>1, FS_Subset
<1>3. HexCoverageArea(h, fs) = Cardinality(h.cells \cap Covered(fs))
  BY DEF HexCoverageArea, Covered
<1> QED BY <1>2, <1>3, FS_CardinalityType

\* The hexes of a grid share what there is on the land.
LEMMA AreasOfGrid ==
  ASSUME NEW grid, NEW land, Partition(grid, land), NEW fs,
         NEW area, \A h \in grid : area[h] = HexCoverageArea(h, fs)
  PROVE  SumFunctionOnSet(area, grid) = Cardinality(land \cap Covered(fs))
<1> DEFINE paved == land \cap Covered(fs)
           class == [cell \in paved |-> CHOOSE h \in grid : cell \in h.cells]
<1>1. /\ IsFiniteSet(grid) /\ IsFiniteSet(land)
      /\ \A h \in grid : h.cells \subseteq land
      /\ \A cell \in land : \E h \in grid : cell \in h.cells
      /\ \A h \in grid : \A k \in grid : \A cell \in h.cells : cell \in k.cells => h = k
  BY DEF Partition
<1>2. IsFiniteSet(paved)
  BY <1>1, FS_Subset
<1>3. \A cell \in paved : class[cell] \in grid /\ cell \in class[cell].cells
  BY <1>1
<1> HIDE DEF class
<1>4. \A h \in grid : area[h] = Cardinality({cell \in paved : class[cell] = h})
  <2> SUFFICES ASSUME NEW h \in grid
               PROVE  area[h] = Cardinality({cell \in paved : class[cell] = h})
    OBVIOUS
  <2>1. {cell \in paved : class[cell] = h} = h.cells \cap Covered(fs)
    BY <1>1, <1>3
  <2>2. area[h] = Cardinality(h.cells \cap Covered(fs))
    BY AreaType
  <2> QED BY <2>1, <2>2
<1> HIDE DEF paved
<1>5. SumFunctionOnSet(area, grid) = Cardinality(paved)
  <2>1. Counts(area, grid, paved, class)
    BY <1>3, <1>4 DEF Counts
  <2> QED BY <1>1, <1>2, <2>1, CardinalityByClass
<1> QED BY <1>5 DEF paved

\* So do the rows about them: each crossing is in one of them, once.
LEMMA AreasAddUp ==
  ASSUME NEW grid, NEW land, Partition(grid, land), NEW fs, NEW stats, Measures(stats, grid, fs),
         NEW g, \A s \in stats : g[s] = s.area
  PROVE  /\ IsFiniteSet(stats)
         /\ SumFunctionOnSet(g, stats) = Cardinality(land \cap Covered(fs))
<1> DEFINE area == [h \in grid |-> HexCoverageArea(h, fs)]
           busy == {h \in grid : area[h] > 0}
           name == [h \in busy |-> CHOOSE s \in stats : s.id = h.id]
<1>1. IsFiniteSet(grid) /\ \A h \in grid : \A k \in grid : h.id = k.id => h = k
  BY DEF Partition
<1>2. \A h \in grid : area[h] = HexCoverageArea(h, fs) /\ area[h] \in Int /\ area[h] >= 0
  <2>1. \A h \in grid : area[h] = HexCoverageArea(h, fs)
    OBVIOUS
  <2>2. \A h \in grid : HexCoverageArea(h, fs) \in Nat
    BY AreaType
  <2> HIDE DEF area
  <2> QED BY <2>1, <2>2
<1>3. SumFunctionOnSet(area, grid) = Cardinality(land \cap Covered(fs))
  <2> HIDE DEF area
  <2> QED BY <1>2, AreasOfGrid
<1> HIDE DEF area
<1>4. IsFiniteSet(busy) /\ busy \in SUBSET grid
  BY <1>1, FS_Subset
<1>5. SumFunctionOnSet(area, busy) = SumFunctionOnSet(area, grid)
  <2>1. \A h \in grid \ busy : area[h] = 0
    BY <1>2
  <2> HIDE DEF busy
  <2> QED BY <1>1, <1>2, <1>4, <2>1, SumOfSome
<1>6. /\ \A s \in stats : \E h \in busy : s.id = h.id /\ s.area = area[h]
      /\ \A h \in busy : \E s \in stats : s.id = h.id
      /\ \A s \in stats : \A u \in stats : s.id = u.id => s = u
  BY <1>2 DEF Measures
<1>7. \A h \in busy : name[h] \in stats /\ name[h].id = h.id
  BY <1>6
<1> HIDE DEF name
<1>8. \A s \in stats : \E h \in busy : name[h] = s
  BY <1>6, <1>7
<1>9. \A h \in busy : \A k \in busy : name[h] = name[k] => h = k
  BY <1>1, <1>4, <1>7
<1>10. \A h \in busy : g[name[h]] = area[h]
  <2> SUFFICES ASSUME NEW h \in busy PROVE g[name[h]] = area[h]
    OBVIOUS
  <2>1. PICK k \in busy : name[h].id = k.id /\ name[h].area = area[k]
    BY <1>6, <1>7
  <2>2. h = k
    BY <1>1, <1>4, <1>7, <2>1
  <2> QED BY <1>7, <2>1, <2>2
<1>11. Renames(name, busy, area, stats, g)
  BY <1>2, <1>4, <1>7, <1>8, <1>9, <1>10 DEF Renames
<1> HIDE DEF busy
<1>12. IsFiniteSet(stats) /\ SumFunctionOnSet(g, stats) = SumFunctionOnSet(area, busy)
  BY <1>4, <1>11, SumRenamed
<1> QED BY <1>3, <1>5, <1>12

\* The statistics of a pass measure its features.
LEMMA StatsMeasure ==
  ASSUME NEW grid, NEW land, Partition(grid, land), NEW fs
  PROVE  Measures(ComputeHexStats(grid, fs), grid, fs)
<1>1. \A h \in grid : \A k \in grid : h.id = k.id => h = k
  BY DEF Partition
<1> DEFINE stats == ComputeHexStats(grid, fs)
<1>2. \A s \in stats : \E h \in grid : /\ HexCoverageArea(h, fs) > 0
                                      /\ s = [id |-> h.id, area |-> HexCoverageArea(h, fs), spaces |-> 0]
  BY DEF ComputeHexStats
<1>3. \A h \in grid : HexCoverageArea(h, fs) > 0
        => [id |-> h.id, area |-> HexCoverageArea(h, fs), spaces |-> 0] \in stats
  BY DEF ComputeHexStats
<1> HIDE DEF stats
<1>4. \A s \in stats : \A u \in stats : s.id = u.id => s = u
  <2> SUFFICES ASSUME NEW s \in stats, NEW u \in stats, s.id = u.id PROVE s = u
    OBVIOUS
  <2>1. PICK h \in grid : s = [id |-> h.id, area |-> HexCoverageArea(h, fs), spaces |-> 0]
    BY <1>2
  <2>2. PICK k \in grid : u = [id |-> k.id, area |-> HexCoverageArea(k, fs), spaces |-> 0]
    BY <1>2
  <2>3. h = k
    BY <1>1, <2>1, <2>2
  <2> QED BY <2>1, <2>2, <2>3
<1>5. \A s \in stats : \E h \in grid : /\ HexCoverageArea(h, fs) > 0
                                      /\ s.id = h.id /\ s.area = HexCoverageArea(h, fs)
  BY <1>2
<1>6. \A h \in grid : HexCoverageArea(h, fs) > 0 => \E s \in stats : s.id = h.id
  <2> SUFFICES ASSUME NEW h \in grid, HexCoverageArea(h, fs) > 0 PROVE \E s \in stats : s.id = h.id
    OBVIOUS
  <2> DEFINE s == [id |-> h.id, area |-> HexCoverageArea(h, fs), spaces |-> 0]
  <2>1. s \in stats
    BY <1>3
  <2>2. s.id = h.id
    OBVIOUS
  <2> HIDE DEF s
  <2> QED BY <2>1, <2>2
<1>7. Measures(stats, grid, fs)
  BY <1>4, <1>5, <1>6 DEF Measures
<1> QED BY <1>7 DEF stats

\* The share of a hex, as a sum over the hexes of its id.
ShareAlone(h, fs) == SumFunctionOnSet([k \in {h} |-> WeightedShare(k, fs)], {h})

\* The spaces of the lots do not touch the areas.
LEMMA MergeKeeps ==
  ASSUME NEW grid, NEW land, Partition(grid, land), NEW fs
  PROVE  /\ Measures(MergeSpaces(ComputeHexStats(grid, fs), grid, fs), grid, fs)
         /\ \A s \in MergeSpaces(ComputeHexStats(grid, fs), grid, fs) : \E h \in grid :
              s.id = h.id /\ s.spaces = ShareAlone(h, fs)
<1> DEFINE stats == ComputeHexStats(grid, fs)
           merged == MergeSpaces(stats, grid, fs)
           here(s) == {h \in grid : h.id = s.id}
           share(s) == SumFunction([h \in here(s) |-> WeightedShare(h, fs)])
           full == [s \in stats |-> [s EXCEPT !.spaces = share(s)]]
<1>1. \A h \in grid : \A k \in grid : h.id = k.id => h = k
  BY DEF Partition
<1>2. \A s \in stats : \E h \in grid : /\ HexCoverageArea(h, fs) > 0
                                      /\ s = [id |-> h.id, area |-> HexCoverageArea(h, fs), spaces |-> 0]
  BY DEF ComputeHexStats
<1>3. merged = {full[s] : s \in stats}
  BY DEF MergeSpaces
<1>4. Measures(stats, grid, fs)
  BY StatsMeasure
<1> HIDE DEF stats, merged
<1>5. \A s \in stats : full[s].id = s.id /\ full[s].area = s.area /\ full[s].spaces = share(s)
  <2> SUFFICES ASSUME NEW s \in stats
               PROVE  full[s].id = s.id /\ full[s].area = s.area /\ full[s].spaces = share(s)
    OBVIOUS
  <2>1. full[s] = [s EXCEPT !.spaces = share(s)]
    OBVIOUS
  <2> HIDE DEF share, full
  <2> QED BY <1>2, <2>1
<1> HIDE DEF full
<1>6. \A s \in stats : full[s].id = s.id /\ full[s].area = s.area
  BY <1>5
<1>7. Measures(merged, grid, fs)
  <2>1. /\ \A s \in stats : \E h \in grid : /\ HexCoverageArea(h, fs) > 0
                                            /\ s.id = h.id /\ s.area = HexCoverageArea(h, fs)
        /\ \A h \in grid : HexCoverageArea(h, fs) > 0 => \E s \in stats : s.id = h.id
        /\ \A s \in stats : \A u \in stats : s.id = u.id => s = u
    BY <1>4 DEF Measures
  <2>2. \A m \in merged : \E s \in stats : m = full[s]
    BY <1>3
  <2>3. \A s \in stats : full[s] \in merged
    BY <1>3
  <2>4. \A s \in merged : \E h \in grid : /\ HexCoverageArea(h, fs) > 0
                                          /\ s.id = h.id /\ s.area = HexCoverageArea(h, fs)
    BY <1>6, <2>1, <2>2
  <2>5. \A h \in grid : HexCoverageArea(h, fs) > 0 => \E s \in merged : s.id = h.id
    BY <1>6, <2>1, <2>3
  <2>6. \A s \in merged : \A u \in merged : s.id = u.id => s = u
    BY <1>6, <2>1, <2>2
  <2> QED BY <2>4, <2>5, <2>6 DEF Measures
<1>8. \A m \in merged : \E h \in grid :
        m.id = h.id /\ m.spaces = ShareAlone(h, fs)
  <2> SUFFICES ASSUME NEW m \in merged
               PROVE  \E h \in grid : /\ m.id = h.id
                        /\ m.spaces = ShareAlone(h, fs)
    OBVIOUS
  <2>1. PICK s \in stats : m = full[s]
    BY <1>3
  <2>2. PICK h \in grid : s.id = h.id
    BY <1>2
  <2>3. here(s) = {h}
    BY <1>1, <2>2
  <2>4. m.spaces = SumFunction([k \in {h} |-> WeightedShare(k, fs)]) /\ m.id = h.id
    BY <1>5, <2>1, <2>2, <2>3
  <2>5. SumFunction([k \in {h} |-> WeightedShare(k, fs)]) = ShareAlone(h, fs)
    BY DEF SumFunction, ShareAlone
  <2> QED BY <2>4, <2>5
<1> QED BY <1>7, <1>8 DEF merged, stats

\* The rows that are saved of the classes.
CohortRows(scope, rt, total, grid, fs) ==
  {[kind |-> "cohort", scope |-> scope, class |-> c.class, area |-> c.area, of |-> c.of,
    features |-> c.features] : c \in CohortStats(rt, total, grid, fs)}

\* The area of a class of roads, before it is scaled.
RawArea(grid, fs, class) == Sum(ComputeHexStats(grid, OfClass(fs, class)))
\* The classes that some features are of.
ClassesOf(fs) == {NormalizeClass(f.tags.highway) : f \in fs}

\* What the rows say of areas and of numbers of features.
Reads(rows, areas, numbers) ==
  \A row \in rows : areas[row] = row.area /\ numbers[row] = row.features

\* It is a whole number.
LEMMA RawAreaType ==
  ASSUME NEW grid, NEW land, Partition(grid, land), NEW fs, NEW class
  PROVE  RawArea(grid, fs, class) \in Int
<1> DEFINE part == OfClass(fs, class)
           stats == ComputeHexStats(grid, part)
           g == [s \in stats |-> s.area]
<1>1. Measures(stats, grid, part)
  BY StatsMeasure
<1>2. \A s \in stats : g[s] = s.area
  OBVIOUS
<1>3. RawArea(grid, fs, class) = SumFunctionOnSet(g, stats)
  BY DEF RawArea, Sum, SumFunction
<1> HIDE DEF stats, g, part
<1>4. SumFunctionOnSet(g, stats) = Cardinality(land \cap Covered(part))
  BY <1>1, <1>2, AreasAddUp
<1>5. Cardinality(land \cap Covered(part)) \in Nat
  <2>1. IsFiniteSet(land)
    BY DEF Partition
  <2>2. IsFiniteSet(land \cap Covered(part))
    BY <2>1, FS_Subset
  <2> QED BY <2>2, FS_CardinalityType
<1> QED BY <1>3, <1>4, <1>5

\* The raw areas add up to their total.
LEMMA RawTotal ==
  ASSUME NEW grid, NEW land, Partition(grid, land), NEW fs, IsFiniteSet(fs),
         NEW raw, \A class \in ClassesOf(fs) : raw[class] = RawArea(grid, fs, class)
  PROVE  /\ IsFiniteSet(ClassesOf(fs))
         /\ \A class \in ClassesOf(fs) : raw[class] \in Int
         /\ SumFunction([c \in CohortAreas(grid, fs) |-> c.raw])
              = SumFunctionOnSet(raw, ClassesOf(fs))
<1> DEFINE C == ClassesOf(fs)
           areas == CohortAreas(grid, fs)
           name == [class \in C |-> [class |-> class, raw |-> RawArea(grid, fs, class)]]
           g == [c \in areas |-> c.raw]
<1>1. IsFiniteSet(C)
  <2> DEFINE f == [x \in fs |-> NormalizeClass(x.tags.highway)]
  <2>1. f \in Surjection(fs, C)
    BY DEF Surjection, ClassesOf
  <2> HIDE DEF f, C
  <2> QED BY <2>1, FS_Surjection
<1>2. \A class \in C : raw[class] \in Int
  BY RawAreaType
<1>3. areas = {[class |-> class, raw |-> RawArea(grid, fs, class)] : class \in C}
  BY DEF CohortAreas, RawArea, ClassesOf
<1> HIDE DEF areas, C
<1>4. areas = {name[class] : class \in C}
  BY <1>3
<1>5. \A class \in C : name[class].class = class /\ name[class].raw = RawArea(grid, fs, class)
  OBVIOUS
<1>6. \A c \in areas : g[c] = c.raw
  OBVIOUS
<1>7. SumFunction(g) = SumFunctionOnSet(g, areas)
  BY DEF SumFunction
<1> HIDE DEF name, g
<1>8. Renames(name, C, raw, areas, g)
  <2>1. \A class \in C : raw[class] \in Int /\ name[class] \in areas /\ g[name[class]] = raw[class]
    <3>1. \A class \in C : raw[class] = RawArea(grid, fs, class)
      BY DEF C
    <3> QED BY <1>2, <1>4, <1>5, <1>6, <3>1
  <2>2. \A c \in areas : \E class \in C : name[class] = c
    BY <1>4
  <2>3. \A class \in C : \A other \in C : name[class] = name[other] => class = other
    BY <1>5
  <2> QED BY <2>1, <2>2, <2>3 DEF Renames
<1>9. SumFunctionOnSet(g, areas) = SumFunctionOnSet(raw, C)
  BY <1>1, <1>8, SumRenamed
<1> QED BY <1>1, <1>2, <1>7, <1>9 DEF C, g, areas

\* The road classes share a total in the proportion of their raw areas, and
\* every feature is in one of them.
LEMMA RoadCohortsAddUp ==
  ASSUME NEW grid, NEW land, Partition(grid, land), NEW fs, IsFiniteSet(fs), NEW scope,
         NEW total \in Int, NEW rows, rows = CohortRows(scope, "roads", total, grid, fs),
         NEW areas, NEW numbers, Reads(rows, areas, numbers)
  PROVE  /\ \A row \in rows : SumFunctionOnSet(areas, rows) = total * row.of
         /\ SumFunctionOnSet(numbers, rows) = Cardinality(fs)
<1> DEFINE C == ClassesOf(fs)
           raw == [class \in C |-> RawArea(grid, fs, class)]
           scaled == [class \in C |-> total * raw[class]]
           sizes == [class \in C |-> Cardinality(OfClass(fs, class))]
           all == SumFunctionOnSet(raw, C)
           row(class) == [kind |-> "cohort", scope |-> scope, class |-> class,
                          area |-> scaled[class], of |-> all, features |-> sizes[class]]
           name == [class \in C |-> row(class)]
<1>0. \A r \in rows : areas[r] = r.area /\ numbers[r] = r.features
  BY DEF Reads
<1>1. \A class \in C : raw[class] = RawArea(grid, fs, class)
  OBVIOUS
<1> HIDE DEF raw
<1>2. /\ IsFiniteSet(C) /\ \A class \in C : raw[class] \in Int
      /\ SumFunction([c \in CohortAreas(grid, fs) |-> c.raw]) = all
  BY <1>1, RawTotal
<1>3. \A class \in C : scaled[class] = total * raw[class] /\ scaled[class] \in Int
  BY <1>2
<1>4. \A class \in C : sizes[class] = Cardinality(OfClass(fs, class)) /\ sizes[class] \in Int
  <2> SUFFICES ASSUME NEW class \in C
               PROVE  sizes[class] = Cardinality(OfClass(fs, class)) /\ sizes[class] \in Int
    OBVIOUS
  <2>1. IsFiniteSet(OfClass(fs, class))
    BY FS_Subset DEF OfClass
  <2>2. Cardinality(OfClass(fs, class)) \in Nat
    BY <2>1, FS_CardinalityType
  <2>3. sizes[class] = Cardinality(OfClass(fs, class))
    OBVIOUS
  <2> QED BY <2>2, <2>3
<1>5. /\ \A class \in C : name[class] \in rows
      /\ \A r \in rows : \E class \in C : name[class] = r
  <2> DEFINE cohorts == CohortStats("roads", total, grid, fs)
             cohort(class) == [class |-> class, area |-> scaled[class], of |-> all,
                               features |-> sizes[class]]
  <2>1. cohorts = {[class |-> c.class, area |-> total * c.raw, of |-> all,
                    features |-> Cardinality(OfClass(fs, c.class))] : c \in CohortAreas(grid, fs)}
    BY <1>2 DEF CohortStats
  <2>2. CohortAreas(grid, fs) = {[class |-> class, raw |-> raw[class]] : class \in C}
    BY <1>1 DEF CohortAreas, RawArea, ClassesOf
  <2> HIDE DEF all, cohorts
  <2>3. ASSUME NEW class \in C PROVE cohort(class) \in cohorts
    <3> DEFINE c == [class |-> class, raw |-> raw[class]]
    <3>1. c \in CohortAreas(grid, fs) /\ c.class = class /\ c.raw = raw[class]
      BY <2>2
    <3> HIDE DEF c
    <3>2. [class |-> c.class, area |-> total * c.raw, of |-> all,
           features |-> Cardinality(OfClass(fs, c.class))] \in cohorts
      BY <2>1, <3>1
    <3> HIDE DEF scaled, sizes
    <3> QED BY <1>3, <1>4, <3>1, <3>2
  <2>4. ASSUME NEW d \in cohorts PROVE \E class \in C : d = cohort(class)
    <3>1. PICK c \in CohortAreas(grid, fs) :
            d = [class |-> c.class, area |-> total * c.raw, of |-> all,
                 features |-> Cardinality(OfClass(fs, c.class))]
      BY <2>1
    <3>2. PICK class \in C : c = [class |-> class, raw |-> raw[class]]
      BY <2>2
    <3>3. c.class = class /\ c.raw = raw[class]
      BY <3>2
    <3>4. d = [class |-> class, area |-> total * raw[class], of |-> all,
               features |-> Cardinality(OfClass(fs, class))]
      BY <3>1, <3>3
    <3>5. scaled[class] = total * raw[class] /\ sizes[class] = Cardinality(OfClass(fs, class))
      BY <1>3, <1>4
    <3> HIDE DEF scaled, sizes
    <3>6. d = cohort(class)
      BY <3>4, <3>5
    <3> QED BY <3>6
  <2>5. rows = {[kind |-> "cohort", scope |-> scope, class |-> c.class, area |-> c.area, of |-> c.of,
                 features |-> c.features] : c \in cohorts}
    BY DEF CohortRows, cohorts
  <2>6. \A class \in C : name[class] = row(class)
    OBVIOUS
  <2> HIDE DEF name, scaled, sizes
  <2>7. ASSUME NEW class \in C PROVE name[class] \in rows
    <3> DEFINE c == cohort(class)
    <3>1. c \in cohorts /\ c.class = class /\ c.area = scaled[class] /\ c.of = all
          /\ c.features = sizes[class]
      BY <2>3
    <3> HIDE DEF c
    <3>2. [kind |-> "cohort", scope |-> scope, class |-> c.class, area |-> c.area, of |-> c.of,
           features |-> c.features] \in rows
      BY <2>5, <3>1
    <3> QED BY <2>6, <3>1, <3>2
  <2>8. ASSUME NEW r \in rows PROVE \E class \in C : name[class] = r
    <3>1. PICK c \in cohorts : r = [kind |-> "cohort", scope |-> scope, class |-> c.class,
                                    area |-> c.area, of |-> c.of, features |-> c.features]
      BY <2>5
    <3>2. PICK class \in C : c = cohort(class)
      BY <2>4
    <3>3. c.class = class /\ c.area = scaled[class] /\ c.of = all /\ c.features = sizes[class]
      BY <3>2
    <3>4. r = row(class)
      BY <3>1, <3>3
    <3> QED BY <2>6, <3>4
  <2> QED BY <2>7, <2>8
<1>6. \A class \in C : /\ name[class].class = class /\ name[class].area = scaled[class]
                       /\ name[class].of = all /\ name[class].features = sizes[class]
  OBVIOUS
<1> HIDE DEF name
<1>7. \A class \in C : \A other \in C : name[class] = name[other] => class = other
  BY <1>6
<1>8. Renames(name, C, scaled, rows, areas)
  <2>1. \A class \in C : areas[name[class]] = scaled[class]
    BY <1>0, <1>5, <1>6
  <2> QED BY <1>3, <1>5, <1>7, <2>1 DEF Renames
<1>9. Renames(name, C, sizes, rows, numbers)
  <2>1. \A class \in C : numbers[name[class]] = sizes[class]
    BY <1>0, <1>5, <1>6
  <2> QED BY <1>4, <1>5, <1>7, <2>1 DEF Renames
<1>10. SumFunctionOnSet(areas, rows) = SumFunctionOnSet(scaled, C)
  BY <1>2, <1>8, SumRenamed
<1>11. SumFunctionOnSet(numbers, rows) = SumFunctionOnSet(sizes, C)
  BY <1>2, <1>9, SumRenamed
<1>12. SumFunctionOnSet(scaled, C) = total * all
  <2> HIDE DEF scaled, C
  <2> QED BY <1>2, <1>3, SumScaled
<1>13. SumFunctionOnSet(sizes, C) = Cardinality(fs)
  <2> DEFINE class == [f \in fs |-> NormalizeClass(f.tags.highway)]
  <2>1. \A f \in fs : class[f] \in C
    BY DEF ClassesOf
  <2>2. \A c \in C : sizes[c] = Cardinality({f \in fs : class[f] = c})
    <3>1. \A c \in C : OfClass(fs, c) = {f \in fs : class[f] = c}
      BY DEF OfClass
    <3> QED BY <1>4, <3>1
  <2> HIDE DEF class, C, sizes
  <2>3. Counts(sizes, C, fs, class)
    BY <2>1, <2>2 DEF Counts
  <2> QED BY <1>2, <2>3, CardinalityByClass
<1>14. \A r \in rows : r.of = all
  BY <1>5, <1>6
<1> QED BY <1>10, <1>11, <1>12, <1>13, <1>14

\* A resource without classes is in one row.
LEMMA CohortsAddUp ==
  ASSUME NEW grid, NEW land, Partition(grid, land), NEW fs, IsFiniteSet(fs), NEW scope, NEW rt,
         NEW total \in Int, NEW rows, rows = CohortRows(scope, rt, total, grid, fs),
         NEW areas, NEW numbers, Reads(rows, areas, numbers)
  PROVE  /\ \A row \in rows : SumFunctionOnSet(areas, rows) = total * row.of
         /\ SumFunctionOnSet(numbers, rows) = Cardinality(fs)
<1>1. CASE rt = "roads"
  <2>1. rows = CohortRows(scope, "roads", total, grid, fs)
    BY <1>1
  <2> QED BY <2>1, RoadCohortsAddUp
<1>2. CASE rt # "roads"
  <2> DEFINE size == Cardinality(fs)
             r == [kind |-> "cohort", scope |-> scope, class |-> rt, area |-> total, of |-> 1,
                   features |-> size]
  <2>0. size \in Nat
    BY FS_CardinalityType
  <2> HIDE DEF size
  <2>1. CohortStats(rt, total, grid, fs) = {[class |-> rt, area |-> total, of |-> 1, features |-> size]}
    BY <1>2 DEF CohortStats, size
  <2>2. rows = {r}
    BY <2>1 DEF CohortRows
  <2>3. r.of = 1 /\ r.area = total /\ r.features = size
    OBVIOUS
  <2> HIDE DEF r
  <2>4. areas[r] = total /\ numbers[r] = size
    BY <2>2, <2>3 DEF Reads
  <2>5. SumFunctionOnSet(areas, {r}) = total
    BY <2>4, SumOfOne
  <2>6. SumFunctionOnSet(numbers, {r}) = size
    <3> DEFINE n == numbers[r]
    <3>1. n \in Int /\ n = size
      BY <2>0, <2>4
    <3>2. SumFunctionOnSet(numbers, {r}) = n
      BY <3>1, SumOfOne
    <3> QED BY <3>1, <3>2
  <2>7. \A row \in rows : row.of = 1 /\ total * row.of = total
    BY <2>2, <2>3
  <2> QED BY <2>2, <2>5, <2>6, <2>7 DEF size
<1> QED BY <1>1, <1>2

\* A lot of the town, whose spaces can be split into whole shares.
IsLot(f) ==
  /\ IsFiniteSet(f.cells) /\ f.tags.capacity \in Int /\ f.tags.levels \in Nat
  /\ f.cells # {} => Scale % Cardinality(f.cells) = 0

\* A product of natural numbers is one.
LEMMA ProductIsNat ==
  ASSUME NEW a \in Nat, NEW b \in Nat
  PROVE  a * b \in Nat
OBVIOUS

\* A multiple is divided without a remainder.
LEMMA QuotientOfMultiple ==
  ASSUME NEW x \in Int, NEW d \in Nat \ {0}
  PROVE  (x * d) \div d = x
<1>1. x * d \in Int /\ x * d <= x * d /\ x * d < x * d + d
  OBVIOUS
<1> QED BY <1>1, QuotientIs

\* A share of a share is exact.
Exactly(e, s, n, d) ==
  e * (s \div d) \in Nat /\ (e * s * n) \div d = (e * (s \div d)) * n

\* A multiple of the divisor is.
LEMMA ShareIsExact ==
  ASSUME NEW e \in Nat, NEW s \in Nat, NEW n \in Nat, NEW d \in Nat \ {0}, s % d = 0
  PROVE  Exactly(e, s, n, d)
<1> DEFINE k == s \div d
<1>1. k \in Nat /\ s = k * d
  OBVIOUS
<1> HIDE DEF k
<1>2. e * k \in Nat /\ (e * k) * n \in Nat
  BY <1>1, ProductIsNat
<1>3. e * s * n = ((e * k) * n) * d
  BY <1>1
<1>4. (((e * k) * n) * d) \div d = (e * k) * n
  BY <1>2, QuotientOfMultiple
<1> QED BY <1>2, <1>3, <1>4 DEF k, Exactly

\* A lot holds some spaces, and its cells divide the unit of a share.
LEMMA LotHolds ==
  ASSUME NEW f, IsLot(f), f.cells # {}
  PROVE  /\ EstimateParkingSpaces(f) \in Nat
         /\ Cardinality(f.cells) \in Nat \ {0} /\ Scale % Cardinality(f.cells) = 0
<1>1. Cardinality(f.cells) \in Nat \ {0}
  BY FS_CardinalityType, FS_EmptySet DEF IsLot
<1>2. CellsPerSpace \in Nat \ {0}
  BY CoverageAssumption
<1> DEFINE lot == Cardinality(f.cells) \div CellsPerSpace
<1>3. lot \in Nat
  BY <1>1, <1>2
<1> HIDE DEF lot
<1>4. lot * f.tags.levels \in Nat
  BY <1>3, ProductIsNat DEF IsLot
<1>5. EstimateParkingSpaces(f)
        = IF f.tags.capacity > 0 THEN f.tags.capacity ELSE lot * f.tags.levels
  BY DEF EstimateParkingSpaces, lot
<1>6. f.tags.capacity \in Int /\ Scale % Cardinality(f.cells) = 0
  BY DEF IsLot
<1> QED BY <1>1, <1>4, <1>5, <1>6

\* The spaces of a lot per cell.
UnitOf(f) ==
  IF f.cells = {} THEN 0 ELSE EstimateParkingSpaces(f) * (Scale \div Cardinality(f.cells))

\* A share is a number of cells at the same spaces each.
LEMMA ShareOfLot ==
  ASSUME NEW f, IsLot(f), NEW cells, cells \subseteq f.cells
  PROVE  /\ UnitOf(f) \in Nat /\ Cardinality(cells) \in Nat
         /\ ShareOf(f, cells) = UnitOf(f) * Cardinality(cells)
         /\ ShareOf(f, cells) \in Nat
<1> DEFINE e == EstimateParkingSpaces(f)
           d == Cardinality(f.cells)
           n == Cardinality(cells)
<1>1. n \in Nat
  <2>1. IsFiniteSet(cells)
    BY FS_Subset DEF IsLot
  <2> QED BY <2>1, FS_CardinalityType
<1>2. CASE f.cells = {}
  <2>1. cells = {} /\ n = 0
    BY <1>2, FS_EmptySet
  <2> QED BY <1>2, <2>1 DEF UnitOf, ShareOf
<1>3. CASE f.cells # {}
  <2>1. e \in Nat /\ d \in Nat \ {0} /\ Scale % d = 0
    BY <1>3, LotHolds
  <2>2. Scale \in Nat
    BY CoverageAssumption
  <2> HIDE DEF e, d, n
  <2>3. e * (Scale \div d) \in Nat /\ (e * Scale * n) \div d = (e * (Scale \div d)) * n
    <3>1. Exactly(e, Scale, n, d)
      BY <1>1, <2>1, <2>2, ShareIsExact
    <3> QED BY <3>1 DEF Exactly
  <2>4. (e * (Scale \div d)) * n \in Nat
    BY <1>1, <2>3, ProductIsNat
  <2>5. UnitOf(f) = e * (Scale \div d) /\ ShareOf(f, cells) = (e * Scale * n) \div d
    BY <1>3 DEF UnitOf, ShareOf, e, d, n
  <2> QED BY <1>1, <2>3, <2>4, <2>5 DEF n
<1> QED BY <1>2, <1>3

\* What a grid holds of one lot is what is on the land.
LEMMA LotOnGrid ==
  ASSUME NEW grid, NEW land, Partition(grid, land), NEW f, IsLot(f),
         NEW column, \A h \in grid : column[h] = ShareOf(f, h.cells \cap f.cells)
  PROVE  SumFunctionOnSet(column, grid) = ShareOf(f, f.cells \cap land)
<1> DEFINE count == [h \in grid |-> HexCoverageArea(h, {f})]
           unit == UnitOf(f)
<1>1. \A h \in grid : count[h] = HexCoverageArea(h, {f})
  OBVIOUS
<1>2. Covered({f}) = f.cells
  BY DEF Covered
<1>3. \A h \in grid : count[h] \in Int /\ count[h] = Cardinality(h.cells \cap f.cells)
  <2>1. \A h \in grid : HexCoverageArea(h, {f}) = Cardinality(h.cells \cap Covered({f}))
                        /\ HexCoverageArea(h, {f}) \in Nat
    BY AreaType
  <2> HIDE DEF count
  <2> SUFFICES ASSUME NEW h \in grid
               PROVE  count[h] \in Int /\ count[h] = Cardinality(h.cells \cap f.cells)
    OBVIOUS
  <2>2. count[h] = Cardinality(h.cells \cap Covered({f})) /\ count[h] \in Nat
    BY <1>1, <2>1
  <2> QED BY <1>2, <2>2
<1> HIDE DEF count
<1>4. SumFunctionOnSet(count, grid) = Cardinality(land \cap f.cells)
  BY <1>1, <1>2, AreasOfGrid
<1>5. unit \in Nat /\ \A cells : cells \subseteq f.cells => ShareOf(f, cells) = unit * Cardinality(cells)
  <2>1. \A cells : cells \subseteq f.cells
          => UnitOf(f) \in Nat /\ ShareOf(f, cells) = UnitOf(f) * Cardinality(cells)
    BY ShareOfLot
  <2> QED BY <2>1
<1> HIDE DEF unit
<1>6. \A h \in grid : count[h] \in Int /\ column[h] = unit * count[h]
  <2>1. \A h \in grid : ShareOf(f, h.cells \cap f.cells) = unit * Cardinality(h.cells \cap f.cells)
    BY <1>5
  <2> QED BY <1>3, <2>1
<1>7. IsFiniteSet(grid) /\ unit \in Int
  BY <1>5 DEF Partition
<1>8. SumFunctionOnSet(column, grid) = unit * SumFunctionOnSet(count, grid)
  BY <1>6, <1>7, SumScaled
<1>9. ShareOf(f, f.cells \cap land) = unit * Cardinality(f.cells \cap land)
  BY <1>5
<1>10. f.cells \cap land = land \cap f.cells
  OBVIOUS
<1> QED BY <1>4, <1>8, <1>9, <1>10

\* The hexes share every space of the lots that is on the land.
LEMMA SharesOfGrid ==
  ASSUME NEW grid, NEW land, Partition(grid, land), NEW fs, IsFiniteSet(fs), \A f \in fs : IsLot(f),
         NEW share, \A h \in grid : share[h] = WeightedShare(h, fs),
         NEW held, \A f \in fs : held[f] = ShareOf(f, f.cells \cap land)
  PROVE  /\ SumFunctionOnSet(share, grid) = SumFunctionOnSet(held, fs)
         /\ \A h \in grid : share[h] \in Nat
         /\ \A h \in grid : h.cells \cap Covered(fs) = {} => share[h] = 0
<1> DEFINE part == [h \in grid |-> [f \in fs |-> ShareOf(f, h.cells \cap f.cells)]]
           column == [f \in fs |-> [h \in grid |-> part[h][f]]]
<1>0. IsFiniteSet(grid)
  BY DEF Partition
<1>1. \A h \in grid : \A f \in fs : part[h][f] = ShareOf(f, h.cells \cap f.cells)
  OBVIOUS
<1>2. \A h \in grid : \A f \in fs : part[h][f] \in Nat
  <2>1. \A f \in fs : \A cells : cells \subseteq f.cells => ShareOf(f, cells) \in Nat
    BY ShareOfLot
  <2> QED BY <1>1, <2>1
<1>3. \A h \in grid : share[h] = SumFunctionOnSet(part[h], fs)
  <2> SUFFICES ASSUME NEW h \in grid PROVE share[h] = SumFunctionOnSet(part[h], fs)
    OBVIOUS
  <2>1. WeightedShare(h, fs) = SumFunction([f \in fs |-> ShareOf(f, h.cells \cap f.cells)])
    BY DEF WeightedShare
  <2>2. part[h] = [f \in fs |-> ShareOf(f, h.cells \cap f.cells)]
    OBVIOUS
  <2> QED BY <2>1, <2>2 DEF SumFunction
<1>4. \A h \in grid : \A f \in fs : column[f][h] = part[h][f]
  OBVIOUS
<1> HIDE DEF part, column
<1>5. \A f \in fs : held[f] = SumFunctionOnSet(column[f], grid)
  <2> SUFFICES ASSUME NEW f \in fs PROVE held[f] = SumFunctionOnSet(column[f], grid)
    OBVIOUS
  <2> DEFINE c == column[f]
  <2>1. \A h \in grid : c[h] = ShareOf(f, h.cells \cap f.cells)
    BY <1>1, <1>4
  <2> HIDE DEF c
  <2>2. SumFunctionOnSet(c, grid) = ShareOf(f, f.cells \cap land)
    BY <2>1, LotOnGrid
  <2> QED BY <2>2 DEF c
<1>6. Table(grid, fs, part, column, share, held)
  BY <1>2, <1>3, <1>4, <1>5 DEF Table
<1>7. SumFunctionOnSet(share, grid) = SumFunctionOnSet(held, fs)
  BY <1>0, <1>6, SumSwapped
<1>8. ASSUME NEW h \in grid PROVE share[h] \in Nat
  <2> DEFINE p == part[h]
  <2>1. \A f \in fs : p[f] \in Nat
    BY <1>2
  <2> HIDE DEF p
  <2>2. SumFunctionOnSet(p, fs) \in Nat
    BY <2>1, SumNat
  <2> QED BY <1>3, <2>2 DEF p
<1>9. ASSUME NEW h \in grid, h.cells \cap Covered(fs) = {} PROVE share[h] = 0
  <2> DEFINE p == part[h]
  <2>1. \A f \in fs : p[f] = 0
    <3> SUFFICES ASSUME NEW f \in fs PROVE p[f] = 0
      OBVIOUS
    <3>1. h.cells \cap f.cells = {}
      BY <1>9 DEF Covered
    <3>2. UnitOf(f) \in Nat /\ ShareOf(f, {}) = UnitOf(f) * Cardinality({})
      BY ShareOfLot
    <3>3. Cardinality({}) = 0
      BY FS_EmptySet
    <3>4. ShareOf(f, {}) = 0
      BY <3>2, <3>3
    <3> QED BY <1>1, <3>1, <3>4
  <2> HIDE DEF p
  <2>2. SumFunctionOnSet(p, fs) = 0
    BY <2>1, SumOfZeros
  <2> QED BY <1>3, <2>2 DEF p
<1> QED BY <1>7, <1>8, <1>9

\* The rows that are saved of the spaces.
SpaceRows(scope, stats) ==
  {[kind |-> "spaces", scope |-> scope, id |-> s.id, value |-> s.spaces] :
     s \in {s \in stats : s.spaces > 0}}

\* The rows hold the spaces of the hexes that have one.
LEMMA SpacesAddUp ==
  ASSUME NEW grid, NEW land, Partition(grid, land), NEW fs, IsFiniteSet(fs), \A f \in fs : IsLot(f),
         NEW held, \A f \in fs : held[f] = ShareOf(f, f.cells \cap land), NEW scope, NEW rows,
         rows = SpaceRows(scope, MergeSpaces(ComputeHexStats(grid, fs), grid, fs)),
         NEW values, \A row \in rows : values[row] = row.value
  PROVE  SumFunctionOnSet(values, rows) = SumFunctionOnSet(held, fs)
<1> DEFINE share == [h \in grid |-> WeightedShare(h, fs)]
           stats == MergeSpaces(ComputeHexStats(grid, fs), grid, fs)
           full == {h \in grid : share[h] > 0}
           name == [h \in full |-> [kind |-> "spaces", scope |-> scope, id |-> h.id, value |-> share[h]]]
<1>0. IsFiniteSet(grid) /\ \A h \in grid : \A k \in grid : h.id = k.id => h = k
  BY DEF Partition
<1>1. \A h \in grid : share[h] = WeightedShare(h, fs)
  OBVIOUS
<1> HIDE DEF share, stats
<1>2. /\ SumFunctionOnSet(share, grid) = SumFunctionOnSet(held, fs)
      /\ \A h \in grid : share[h] \in Nat
      /\ \A h \in grid : h.cells \cap Covered(fs) = {} => share[h] = 0
  BY <1>1, SharesOfGrid
<1>3. /\ Measures(stats, grid, fs)
      /\ \A s \in stats : \E h \in grid : s.id = h.id /\ s.spaces = share[h]
  <2>1. /\ Measures(stats, grid, fs)
        /\ \A s \in stats : \E h \in grid :
             s.id = h.id /\ s.spaces = ShareAlone(h, fs)
    BY MergeKeeps DEF stats
  <2>2. ASSUME NEW h \in grid
        PROVE  ShareAlone(h, fs) = share[h]
    <3> DEFINE g == [k \in {h} |-> WeightedShare(k, fs)]
    <3>1. g[h] = share[h] /\ share[h] \in Int
      BY <1>1, <1>2
    <3> HIDE DEF g
    <3>2. SumFunctionOnSet(g, {h}) = g[h]
      BY <3>1, SumOfOne
    <3> QED BY <3>1, <3>2 DEF g, ShareAlone
  <2> QED BY <2>1, <2>2
<1>4. \A h \in full : \E s \in stats : s.id = h.id
  <2> SUFFICES ASSUME NEW h \in full PROVE \E s \in stats : s.id = h.id
    OBVIOUS
  <2>1. IsFiniteSet(h.cells \cap Covered(fs))
        /\ HexCoverageArea(h, fs) = Cardinality(h.cells \cap Covered(fs))
        /\ HexCoverageArea(h, fs) \in Nat
    BY AreaType
  <2>2. h.cells \cap Covered(fs) # {}
    BY <1>2
  <2>3. HexCoverageArea(h, fs) > 0
    BY <2>1, <2>2, FS_EmptySet
  <2> QED BY <1>3, <2>3 DEF Measures
<1>5. rows = {[kind |-> "spaces", scope |-> scope, id |-> s.id, value |-> s.spaces] :
                s \in {s \in stats : s.spaces > 0}}
  BY DEF SpaceRows, stats
<1>6. \A h \in full : /\ name[h] = [kind |-> "spaces", scope |-> scope, id |-> h.id, value |-> share[h]]
                     /\ name[h].id = h.id /\ name[h].value = share[h]
  OBVIOUS
<1>7. \A h \in full : h \in grid /\ share[h] > 0 /\ share[h] \in Int
  BY <1>2
<1>8. \A h \in grid : share[h] > 0 => h \in full
  OBVIOUS
<1>9. IsFiniteSet(full) /\ SumFunctionOnSet(share, full) = SumFunctionOnSet(share, grid)
  <2>1. full \in SUBSET grid /\ \A h \in grid \ full : share[h] = 0
    BY <1>2
  <2>2. \A h \in grid : share[h] \in Int
    BY <1>2
  <2> HIDE DEF full
  <2>3. IsFiniteSet(full)
    BY <1>0, <2>1, FS_Subset
  <2> QED BY <1>0, <2>1, <2>2, <2>3, SumOfSome
<1> HIDE DEF full, name
<1>10. ASSUME NEW h \in full PROVE name[h] \in rows
  <2>1. PICK s \in stats : s.id = h.id
    BY <1>4
  <2>2. PICK k \in grid : s.id = k.id /\ s.spaces = share[k]
    BY <1>3
  <2>3. k = h
    BY <1>0, <1>7, <2>1, <2>2
  <2>4. s.spaces = share[h] /\ s \in {x \in stats : x.spaces > 0}
    BY <1>7, <2>2, <2>3
  <2>5. [kind |-> "spaces", scope |-> scope, id |-> s.id, value |-> s.spaces] \in rows
    BY <1>5, <2>4
  <2> QED BY <1>6, <2>1, <2>4, <2>5
<1>11. ASSUME NEW row \in rows PROVE \E h \in full : name[h] = row
  <2>1. PICK s \in stats : /\ s.spaces > 0
                           /\ row = [kind |-> "spaces", scope |-> scope, id |-> s.id, value |-> s.spaces]
    BY <1>5
  <2>2. PICK h \in grid : s.id = h.id /\ s.spaces = share[h]
    BY <1>3
  <2>3. h \in full
    BY <1>8, <2>1, <2>2
  <2> QED BY <1>6, <2>1, <2>2, <2>3
<1>12. \A h \in full : \A k \in full : name[h] = name[k] => h = k
  <2> SUFFICES ASSUME NEW h \in full, NEW k \in full, name[h] = name[k] PROVE h = k
    OBVIOUS
  <2>1. name[h].id = h.id /\ name[k].id = k.id
    BY <1>6
  <2> QED BY <1>0, <1>7, <2>1
<1>13. Renames(name, full, share, rows, values)
  <2>1. \A h \in full : values[name[h]] = share[h]
    BY <1>6, <1>10
  <2> QED BY <1>7, <1>10, <1>11, <1>12, <2>1 DEF Renames
<1>14. SumFunctionOnSet(values, rows) = SumFunctionOnSet(share, full)
  BY <1>9, <1>13, SumRenamed
<1> QED BY <1>2, <1>9, <1>14

\* Both scopes a run saves.
Scopes == {"all", "city"}

\* What a pass that is never cancelled measures of a scope.
Whole(scope) == InScope(scope, Surviving)
\* The statistics of it.
WholeStats(scope) ==
  IF pass.rt # "parking" THEN ComputeHexStats(ClippedGrid, Whole(scope))
  ELSE MergeSpaces(ComputeHexStats(ClippedGrid, Whole(scope)), ClippedGrid, Whole(scope))
\* The rows that are saved of the hexes.
HexRows(scope, stats) ==
  {[kind |-> "hex", scope |-> scope, id |-> s.id, area |-> s.area] : s \in stats}

\* The town of a run that has saved something.
Measured == town \in Towns /\ town.boundary.stored /\ pass.rt = town.resource

\* The grid of a stored boundary parts its land.
LEMMA TownParts ==
  ASSUME Measured
  PROVE  Partition(ClippedGrid, CityLand)
<1>1. IsTown(town)
  BY CoverageAssumption DEF Measured, IsTown
<1> QED BY <1>1, GridParts

\* It has finitely many features.
LEMMA FinitelyMany ==
  ASSUME Measured, NEW scope
  PROVE  IsFiniteSet(Whole(scope))
<1>1. \A rt \in Resources : IsFiniteSet(town.features[rt])
  BY CoverageAssumption DEF Measured
<1>2. \A rt \in Resources : IsFiniteSet(Buffered(rt))
  <2> SUFFICES ASSUME NEW rt \in Resources PROVE IsFiniteSet(Buffered(rt))
    OBVIOUS
  <2> DEFINE kept == {f \in town.features[rt] : Survives(rt, f)}
             buffer == [f \in kept |-> [tags |-> f.tags, id |-> f.id, rt |-> rt,
                                        cells |-> Footprint(rt, f)]]
  <2>1. IsFiniteSet(kept)
    BY <1>1, FS_Subset
  <2>2. Buffered(rt) = {buffer[f] : f \in kept}
    BY DEF Buffered
  <2>3. buffer \in Surjection(kept, {buffer[f] : f \in kept})
    BY DEF Surjection
  <2> HIDE DEF kept, buffer
  <2> QED BY <2>1, <2>2, <2>3, FS_Surjection
<1>3. Sources \subseteq Resources
  BY CoverageAssumption DEF Measured, Sources
<1>4. IsFiniteSet(Surviving)
  <2> DEFINE parts == {Buffered(rt) : rt \in Sources}
             part == [rt \in Sources |-> Buffered(rt)]
  <2>1. IsFiniteSet(Resources)
    <3>1. IsFiniteSet({"roads"} \cup {"parking"} \cup {"sidewalks"})
      BY FS_Singleton, FS_Union
    <3>2. {"roads"} \cup {"parking"} \cup {"sidewalks"} = Resources
      BY DEF Resources
    <3> QED BY <3>1, <3>2
  <2>2. IsFiniteSet(Sources)
    BY <1>3, <2>1, FS_Subset
  <2>3. part \in Surjection(Sources, parts)
    BY DEF Surjection
  <2>4. \A p \in parts : IsFiniteSet(p)
    BY <1>2, <1>3
  <2>5. Surviving = UNION parts
    BY DEF Surviving
  <2> HIDE DEF parts, part
  <2>6. IsFiniteSet(parts)
    BY <2>2, <2>3, FS_Surjection
  <2> QED BY <2>4, <2>5, <2>6, FS_UNION
<1>5. Whole(scope) \subseteq Surviving
  BY DEF Whole, InScope
<1> QED BY <1>4, <1>5, FS_Subset

\* What is measured of parking is lots.
LEMMA LotsAreLots ==
  ASSUME Measured, pass.rt = "parking", NEW scope, NEW f \in Whole(scope)
  PROVE  IsLot(f)
<1>1. Sources = {"parking"}
  BY DEF Sources
<1>2. f \in Buffered("parking")
  BY <1>1 DEF Whole, InScope, Surviving
<1>3. PICK g \in town.features["parking"] :
        /\ Survives("parking", g)
        /\ f = [tags |-> g.tags, id |-> g.id, rt |-> "parking", cells |-> Footprint("parking", g)]
  BY <1>2 DEF Buffered
<1>4. g.geom.type \in {"Polygon", "MultiPolygon"} /\ Footprint("parking", g) = g.geom.cells
  BY <1>3 DEF Footprint, Survives
<1>5. /\ g.tags.capacity \in Int /\ g.tags.levels \in Nat /\ IsFiniteSet(g.geom.cells)
      /\ g.geom.cells # {} => Scale % Cardinality(g.geom.cells) = 0
  BY CoverageAssumption DEF Measured
<1>6. f.tags = g.tags /\ f.cells = g.geom.cells
  BY <1>3, <1>4
<1> QED BY <1>5, <1>6 DEF IsLot

\* The statistics of a whole scope measure its features.
LEMMA WholeMeasures ==
  ASSUME Measured, NEW scope
  PROVE  Measures(WholeStats(scope), ClippedGrid, Whole(scope))
<1>1. Partition(ClippedGrid, CityLand)
  BY TownParts
<1>2. CASE pass.rt # "parking"
  BY <1>1, <1>2, StatsMeasure DEF WholeStats
<1>3. CASE pass.rt = "parking"
  BY <1>1, <1>3, MergeKeeps DEF WholeStats
<1> QED BY <1>2, <1>3

\* The area of a scope is that of its land under the footprints.
LEMMA WholeArea ==
  ASSUME Measured, NEW scope
  PROVE  /\ Sum(WholeStats(scope)) = Cardinality(Paved(scope))
         /\ Cardinality(Paved(scope)) \in Nat
<1> DEFINE stats == WholeStats(scope)
           g == [s \in stats |-> s.area]
           land == CityLand
           fs == Whole(scope)
<1>1. Partition(ClippedGrid, land) /\ Measures(stats, ClippedGrid, fs)
  BY TownParts, WholeMeasures
<1>2. \A s \in stats : g[s] = s.area
  OBVIOUS
<1>3. Sum(stats) = SumFunctionOnSet(g, stats)
  BY DEF Sum, SumFunction
<1>4. Paved(scope) = land \cap Covered(fs)
  BY DEF Paved, Covered, Whole
<1> HIDE DEF stats, g, land, fs
<1>5. SumFunctionOnSet(g, stats) = Cardinality(land \cap Covered(fs))
  BY <1>1, <1>2, AreasAddUp
<1>6. IsFiniteSet(land \cap Covered(fs))
  BY <1>1, FS_Subset DEF Partition
<1> QED BY <1>3, <1>4, <1>5, <1>6, FS_CardinalityType DEF stats

\* So is what the rows of its hexes say.
LEMMA HexRowsAddUp ==
  ASSUME Measured, NEW scope, NEW rows, rows = HexRows(scope, WholeStats(scope))
  PROVE  SumFunction([row \in rows |-> row.area]) = Cardinality(Paved(scope))
<1> DEFINE stats == WholeStats(scope)
           g == [row \in rows |-> row.area]
           land == CityLand
           fs == Whole(scope)
           grid == ClippedGrid
<1>1. Partition(grid, land) /\ Measures(stats, grid, fs)
  BY TownParts, WholeMeasures
<1>2. \A row \in rows : g[row] = row.area
  OBVIOUS
<1>3. SumFunction(g) = SumFunctionOnSet(g, rows)
  BY DEF SumFunction
<1>4. Paved(scope) = land \cap Covered(fs)
  BY DEF Paved, Covered, Whole
<1>5. rows = {[kind |-> "hex", scope |-> scope, id |-> s.id, area |-> s.area] : s \in stats}
  BY DEF HexRows
<1> HIDE DEF stats, g, land, fs, grid
<1>6. \A row \in rows : \E s \in stats : row.id = s.id /\ row.area = s.area
  BY <1>5
<1>7. ASSUME NEW s \in stats PROVE \E row \in rows : row.id = s.id
  <2> DEFINE row == [kind |-> "hex", scope |-> scope, id |-> s.id, area |-> s.area]
  <2>1. row \in rows /\ row.id = s.id
    BY <1>5
  <2> HIDE DEF row
  <2> QED BY <2>1
<1>8. ASSUME NEW row \in rows, NEW other \in rows, row.id = other.id PROVE row = other
  <2>1. PICK s \in stats : row = [kind |-> "hex", scope |-> scope, id |-> s.id, area |-> s.area]
    BY <1>5
  <2>2. PICK u \in stats : other = [kind |-> "hex", scope |-> scope, id |-> u.id, area |-> u.area]
    BY <1>5
  <2>3. s.id = u.id
    BY <1>8, <2>1, <2>2
  <2>4. s = u
    BY <1>1, <2>3 DEF Measures
  <2> QED BY <2>1, <2>2, <2>4
<1>9. Measures(rows, grid, fs)
  <2>1. /\ \A s \in stats : \E h \in grid : /\ HexCoverageArea(h, fs) > 0
                                            /\ s.id = h.id /\ s.area = HexCoverageArea(h, fs)
        /\ \A h \in grid : HexCoverageArea(h, fs) > 0 => \E s \in stats : s.id = h.id
    BY <1>1 DEF Measures
  <2>2. \A row \in rows : \E h \in grid : /\ HexCoverageArea(h, fs) > 0
                                          /\ row.id = h.id /\ row.area = HexCoverageArea(h, fs)
    BY <1>6, <2>1
  <2>3. \A h \in grid : HexCoverageArea(h, fs) > 0 => \E row \in rows : row.id = h.id
    BY <1>7, <2>1
  <2> QED BY <1>8, <2>2, <2>3 DEF Measures
<1>10. SumFunctionOnSet(g, rows) = Cardinality(land \cap Covered(fs))
  BY <1>1, <1>2, <1>9, AreasAddUp
<1> QED BY <1>3, <1>4, <1>10 DEF g

\* The rows of the classes, and of what does not have any.
LEMMA CohortRowsAddUp ==
  ASSUME Measured, NEW scope, NEW rows,
         rows = CohortRows(scope, pass.rt, Sum(WholeStats(scope)), ClippedGrid, Whole(scope))
  PROVE  /\ \A row \in rows : SumFunction([r \in rows |-> r.area]) = Cardinality(Paved(scope)) * row.of
         /\ SumFunction([row \in rows |-> row.features]) = Cardinality(Whole(scope))
<1> DEFINE total == Cardinality(Paved(scope))
           areas == [row \in rows |-> row.area]
           numbers == [row \in rows |-> row.features]
           land == CityLand
           fs == Whole(scope)
           grid == ClippedGrid
           rt == pass.rt
<1>1. Partition(grid, land) /\ IsFiniteSet(fs)
  BY TownParts, FinitelyMany
<1>2. total \in Int /\ rows = CohortRows(scope, rt, total, grid, fs)
  BY WholeArea
<1>3. \A row \in rows : areas[row] = row.area /\ numbers[row] = row.features
  OBVIOUS
<1>4. SumFunction(areas) = SumFunctionOnSet(areas, rows)
      /\ SumFunction(numbers) = SumFunctionOnSet(numbers, rows)
  BY DEF SumFunction
<1> HIDE DEF total, areas, numbers, land, fs, grid, rt
<1>5. Reads(rows, areas, numbers)
  BY <1>3 DEF Reads
<1>6. /\ \A row \in rows : SumFunctionOnSet(areas, rows) = total * row.of
      /\ SumFunctionOnSet(numbers, rows) = Cardinality(fs)
  BY <1>1, <1>2, <1>5, CohortsAddUp
<1>7. /\ \A row \in rows : SumFunction(areas) = total * row.of
      /\ SumFunction(numbers) = Cardinality(fs)
  BY <1>4, <1>6
<1> QED BY <1>7 DEF total, areas, numbers, fs

\* The rows of the spaces.
LEMMA SpaceRowsAddUp ==
  ASSUME Measured, NEW scope, NEW rows, rows = SpaceRows(scope, WholeStats(scope)), rows # {}
  PROVE  SumFunction([row \in rows |-> row.value]) = SpacesOnLand(scope)
<1> DEFINE values == [row \in rows |-> row.value]
           land == CityLand
           fs == Whole(scope)
           grid == ClippedGrid
           held == [f \in fs |-> ShareOf(f, f.cells \cap land)]
<1>1. pass.rt = "parking"
  <2> SUFFICES ASSUME pass.rt # "parking" PROVE FALSE
    OBVIOUS
  <2>1. WholeStats(scope) = ComputeHexStats(ClippedGrid, Whole(scope))
    BY DEF WholeStats
  <2>2. \A s \in WholeStats(scope) : s.spaces = 0
    BY <2>1 DEF ComputeHexStats
  <2> QED BY <2>2 DEF SpaceRows
<1>2. Partition(grid, land) /\ IsFiniteSet(fs)
  BY TownParts, FinitelyMany
<1>3. \A f \in fs : IsLot(f)
  BY <1>1, LotsAreLots
<1>4. rows = SpaceRows(scope, MergeSpaces(ComputeHexStats(grid, fs), grid, fs))
  BY <1>1 DEF WholeStats
<1>5. SpacesOnLand(scope) = SumFunctionOnSet(held, fs)
  <2>1. SpacesOnLand(scope) = SumFunction([f \in fs |-> ShareOf(f, f.cells \cap land)])
    BY DEF SpacesOnLand, Whole
  <2> QED BY <2>1 DEF SumFunction
<1>6. \A f \in fs : held[f] = ShareOf(f, f.cells \cap land)
  OBVIOUS
<1>7. \A row \in rows : values[row] = row.value
  OBVIOUS
<1>8. SumFunction(values) = SumFunctionOnSet(values, rows)
  BY DEF SumFunction
<1> HIDE DEF values, land, fs, grid, held
<1>9. SumFunctionOnSet(values, rows) = SumFunctionOnSet(held, fs)
  BY <1>2, <1>3, <1>4, <1>6, <1>7, SpacesAddUp
<1> QED BY <1>5, <1>8, <1>9 DEF values

\* What a step does not change: the town, and which resource is measured.
SameTown == town' = town /\ pass'.rt = pass.rt

\* So the grid stays as it is.
LEMMA SameGrid ==
  ASSUME SameTown
  PROVE  ClippedGrid' = ClippedGrid
<1>1. town' = town
  BY DEF SameTown
<1>2. Clippable' = Clippable
  BY <1>1 DEF Clippable
<1>3. Columns(1)' = Columns(1) /\ Columns(2)' = Columns(2)
  BY <1>1 DEF Columns
<1>4. HexGrid' = HexGrid
  <2>1. \A n : Span(n)' = Span(n)
    BY <1>1 DEF Span
  <2>2. \A col, row : Block(col, row)' = Block(col, row)
    BY <2>1 DEF Block
  <2> QED BY <1>3, <2>2 DEF HexGrid
<1>5. ClipHexesToBoundary' = ClipHexesToBoundary
  BY <1>1, <1>4 DEF ClipHexesToBoundary
<1> QED BY <1>2, <1>4, <1>5 DEF ClippedGrid

\* So do the features.
LEMMA SameFeatures ==
  ASSUME SameTown
  PROVE  /\ Sources' = Sources /\ Surviving' = Surviving
         /\ \A scope : Whole(scope)' = Whole(scope)
<1>1. town' = town /\ pass'.rt = pass.rt
  BY DEF SameTown
<1>2. Sources' = Sources
  BY <1>1 DEF Sources
<1>3. \A rt : Buffered(rt)' = Buffered(rt)
  BY <1>1 DEF Buffered
<1>4. Surviving' = Surviving
  BY <1>2, <1>3 DEF Surviving
<1>5. \A scope : Whole(scope)' = Whole(scope)
  BY <1>4 DEF Whole
<1> QED BY <1>2, <1>4, <1>5

\* And so does what a pass makes of them.
LEMMA SameStats ==
  ASSUME SameTown
  PROVE  \A scope : WholeStats(scope)' = WholeStats(scope)
<1>1. pass'.rt = pass.rt
  BY DEF SameTown
<1>2. ClippedGrid' = ClippedGrid /\ \A scope : Whole(scope)' = Whole(scope)
  BY SameGrid, SameFeatures
<1> SUFFICES ASSUME NEW scope PROVE WholeStats(scope)' = WholeStats(scope)
  OBVIOUS
<1>3. Whole(scope)' = Whole(scope)
  BY <1>2
<1> QED BY <1>1, <1>2, <1>3 DEF WholeStats

\* Where a pass is when it saves.
Saving == {"result", "cohorts", "hexes", "spaces"}

\* Its record has its fields, the grid is built once for both scopes, and only
\* one resource has rows of hexes and classes.
PassTypes ==
  /\ town \in Towns /\ live \in BOOLEAN /\ pass.rt = town.resource
  /\ pass = [x \in {"pc", "scope", "rt", "buffered", "grid", "stats"} |-> pass[x]]
  /\ pass.stats = [x \in Scopes |-> pass.stats[x]]
  /\ pass.scope \in Scopes
  /\ pass.pc \in Saving \cup {"load", "buffer", "grid", "stats", "commit", "failed", "empty", "published"}
  /\ pass.pc \in {"load", "buffer", "grid"} => pass.scope = "all"
  /\ pass.pc \in Saving \ {"result"} => pass.rt # "combined"

\* Only a town whose boundary is stored is measured.
StoredFirst ==
  /\ pass.pc \notin {"load", "failed", "empty"} => town.boundary.stored
  /\ table # {} => town.boundary.stored

\* What a pass of a command that is still alive has got is all there is.
MemoryIsWhole ==
  live =>
    /\ pass.pc \notin {"load", "buffer", "failed", "empty"} => pass.buffered = Surviving
    /\ pass.pc \notin {"load", "buffer", "grid", "failed", "empty"} => pass.grid = ClippedGrid

\* The statistics about to be saved were made by such a pass.
StatsAreWhole ==
  /\ pass.pc \in Saving \/ (pass.pc = "stats" /\ pass.scope = "city")
       => pass.stats.all = WholeStats("all")
  /\ pass.pc \in Saving /\ pass.scope = "city" => pass.stats.city = WholeStats("city")

\* And so are the rows.
RowsAreWhole ==
  \A scope \in Scopes :
    /\ \A row \in RowsIn("result", scope) : row.area = Sum(WholeStats(scope))
    /\ RowsIn("hex", scope) # {} => RowsIn("hex", scope) = HexRows(scope, WholeStats(scope))
    /\ RowsIn("cohort", scope) # {} =>
         RowsIn("cohort", scope)
           = CohortRows(scope, pass.rt, Sum(WholeStats(scope)), ClippedGrid, Whole(scope))
    /\ RowsIn("spaces", scope) # {} => RowsIn("spaces", scope) = SpaceRows(scope, WholeStats(scope))

\* The inductive invariant.
CoverInv == PassTypes /\ StoredFirst /\ MemoryIsWhole /\ StatsAreWhole /\ RowsAreWhole

-----------------------------------------------------------------------------
(* The invariant implies the property.                                     *)

\* Rows that are whole say what the whole town does.
LEMMA CoverImplies ==
  ASSUME CoverInv
  PROVE  SavedRowsAreWhole
<1>1. CASE table = {}
  <2>1. \A kind, scope : RowsIn(kind, scope) = {}
    BY <1>1 DEF RowsIn
  <2> QED BY <2>1 DEF SavedRowsAreWhole
<1>2. CASE table # {}
  <2>1. Measured
    BY <1>2 DEF CoverInv, PassTypes, StoredFirst, Measured
  <2> SUFFICES ASSUME NEW scope \in Scopes
               PROVE  /\ \A row \in RowsIn("result", scope) : row.area = Cardinality(Paved(scope))
                      /\ RowsIn("hex", scope) # {} =>
                           SumFunction([row \in RowsIn("hex", scope) |-> row.area])
                             = Cardinality(Paved(scope))
                      /\ RowsIn("cohort", scope) # {} =>
                           /\ \A row \in RowsIn("cohort", scope) :
                                SumFunction([r \in RowsIn("cohort", scope) |-> r.area])
                                  = Cardinality(Paved(scope)) * row.of
                           /\ SumFunction([row \in RowsIn("cohort", scope) |-> row.features])
                                = Cardinality(InScope(scope, Surviving))
                      /\ RowsIn("spaces", scope) # {} =>
                           SumFunction([row \in RowsIn("spaces", scope) |-> row.value])
                             = SpacesOnLand(scope)
    BY DEF SavedRowsAreWhole, SumOfRows, Scopes
  <2>2. /\ \A row \in RowsIn("result", scope) : row.area = Sum(WholeStats(scope))
        /\ RowsIn("hex", scope) # {} => RowsIn("hex", scope) = HexRows(scope, WholeStats(scope))
        /\ RowsIn("cohort", scope) # {} =>
             RowsIn("cohort", scope)
               = CohortRows(scope, pass.rt, Sum(WholeStats(scope)), ClippedGrid, Whole(scope))
        /\ RowsIn("spaces", scope) # {} =>
             RowsIn("spaces", scope) = SpaceRows(scope, WholeStats(scope))
    BY DEF CoverInv, RowsAreWhole
  <2>3. \A row \in RowsIn("result", scope) : row.area = Cardinality(Paved(scope))
    BY <2>1, <2>2, WholeArea
  <2>4. ASSUME RowsIn("hex", scope) # {}
        PROVE  SumFunction([row \in RowsIn("hex", scope) |-> row.area]) = Cardinality(Paved(scope))
    <3> DEFINE rows == RowsIn("hex", scope)
    <3>1. rows = HexRows(scope, WholeStats(scope))
      BY <2>2, <2>4
    <3> HIDE DEF rows
    <3>2. SumFunction([row \in rows |-> row.area]) = Cardinality(Paved(scope))
      BY <2>1, <3>1, HexRowsAddUp
    <3> QED BY <3>2 DEF rows
  <2>5. ASSUME RowsIn("cohort", scope) # {}
        PROVE  /\ \A row \in RowsIn("cohort", scope) :
                    SumFunction([r \in RowsIn("cohort", scope) |-> r.area])
                      = Cardinality(Paved(scope)) * row.of
               /\ SumFunction([row \in RowsIn("cohort", scope) |-> row.features])
                    = Cardinality(InScope(scope, Surviving))
    <3> DEFINE rows == RowsIn("cohort", scope)
    <3>1. rows = CohortRows(scope, pass.rt, Sum(WholeStats(scope)), ClippedGrid, Whole(scope))
      BY <2>2, <2>5
    <3> HIDE DEF rows
    <3>2. /\ \A row \in rows : SumFunction([r \in rows |-> r.area]) = Cardinality(Paved(scope)) * row.of
          /\ SumFunction([row \in rows |-> row.features]) = Cardinality(Whole(scope))
      BY <2>1, <3>1, CohortRowsAddUp
    <3> QED BY <3>2 DEF rows, Whole
  <2>6. ASSUME RowsIn("spaces", scope) # {}
        PROVE  SumFunction([row \in RowsIn("spaces", scope) |-> row.value]) = SpacesOnLand(scope)
    <3> DEFINE rows == RowsIn("spaces", scope)
    <3>1. rows = SpaceRows(scope, WholeStats(scope)) /\ rows # {}
      BY <2>2, <2>6
    <3> HIDE DEF rows
    <3>2. SumFunction([row \in rows |-> row.value]) = SpacesOnLand(scope)
      BY <2>1, <3>1, SpaceRowsAddUp
    <3> QED BY <3>2 DEF rows
  <2> QED BY <2>3, <2>4, <2>5, <2>6
<1> QED BY <1>1, <1>2

-----------------------------------------------------------------------------
(* The steps.                                                              *)

\* The rows that a step leaves alone.
LEMMA RowsKept ==
  ASSUME RowsAreWhole, SameTown, table' = table
  PROVE  RowsAreWhole'
<1>1. /\ pass'.rt = pass.rt /\ ClippedGrid' = ClippedGrid
      /\ \A scope : Whole(scope)' = Whole(scope) /\ WholeStats(scope)' = WholeStats(scope)
  BY SameGrid, SameFeatures, SameStats DEF SameTown
<1>2. \A kind, scope : RowsIn(kind, scope)' = RowsIn(kind, scope)
  BY DEF RowsIn
<1> QED BY <1>1, <1>2 DEF RowsAreWhole

\* There are none.
LEMMA RowsGone ==
  ASSUME table' = {}
  PROVE  RowsAreWhole'
<1>1. \A kind, scope : RowsIn(kind, scope)' = {}
  BY DEF RowsIn
<1> QED BY <1>1 DEF RowsAreWhole

\* The rows of one kind and scope that it adds.
AllOf(kind, scope, rows) == \A row \in rows : row.kind = kind /\ row.scope = scope

LEMMA RowsAdded ==
  ASSUME NEW kind, NEW scope, NEW rows, AllOf(kind, scope, rows), table' = table \cup rows
  PROVE  \A k, s : RowsIn(k, s)' = IF k = kind /\ s = scope THEN RowsIn(k, s) \cup rows ELSE RowsIn(k, s)
<1> SUFFICES ASSUME NEW k, NEW s
             PROVE  RowsIn(k, s)' = IF k = kind /\ s = scope THEN RowsIn(k, s) \cup rows ELSE RowsIn(k, s)
  OBVIOUS
<1>0. \A row \in rows : row.kind = kind /\ row.scope = scope
  BY DEF AllOf
<1>1. RowsIn(k, s)' = {row \in table \cup rows : row.kind = k /\ row.scope = s}
  BY DEF RowsIn
<1>2. RowsIn(k, s) = {row \in table : row.kind = k /\ row.scope = s}
  BY DEF RowsIn
<1> QED BY <1>0, <1>1, <1>2

\* What follows a pass or a save.
LEMMA Follows ==
  ASSUME NEW pc \in Saving \cup {"stats"}, NEW scope \in Scopes,
         pc \in Saving \ {"result"} => pass.rt # "combined"
  PROVE  /\ Following[scope][pc][1] \in Scopes
         /\ Following[scope][pc][2] \in Saving \cup {"stats", "commit"}
         /\ Following[scope][pc][2] \in Saving \ {"result"} => pass.rt # "combined"
         /\ pc = "stats" => Following[scope][pc][1] = scope /\ Following[scope][pc][2] # "stats"
         /\ pc # "stats" /\ scope = "all" /\ Following[scope][pc][1] = "city"
              => Following[scope][pc][2] = "stats"
<1>1. CASE pass.rt = "combined"
  <2>1. Following = [all  |-> [stats |-> <<"all", "result">>, result |-> <<"city", "stats">>],
                     city |-> [stats |-> <<"city", "result">>, result |-> <<"all", "commit">>]]
    BY <1>1 DEF Following
  <2>2. pc \in {"stats", "result"} /\ scope \in {"all", "city"}
    BY <1>1 DEF Saving, Scopes
  <2> QED BY <1>1, <2>1, <2>2 DEF Saving, Scopes
<1>2. CASE pass.rt # "combined"
  <2>1. Following = [all  |-> [stats |-> <<"all", "result">>, result |-> <<"all", "cohorts">>,
                               cohorts |-> <<"city", "stats">>, hexes |-> <<"all", "spaces">>,
                               spaces |-> <<"all", "commit">>],
                     city |-> [stats |-> <<"city", "hexes">>, hexes |-> <<"city", "spaces">>,
                               spaces |-> <<"city", "result">>, result |-> <<"city", "cohorts">>,
                               cohorts |-> <<"all", "hexes">>]]
    BY <1>2 DEF Following
  <2>2. pc \in {"stats", "result", "cohorts", "hexes", "spaces"} /\ scope \in {"all", "city"}
    BY DEF Saving, Scopes
  <2> QED BY <1>2, <2>1, <2>2 DEF Saving, Scopes
<1> QED BY <1>1, <1>2

\* A step to another place, that leaves the memory alone.
Moves(pc, scope) == pass' = [pass EXCEPT !.pc = pc, !.scope = scope]

\* The record of a pass, and what the assignments to it leave.
Record(p) == p = [x \in {"pc", "scope", "rt", "buffered", "grid", "stats"} |-> p[x]]

MovedTo(p, q, pc, scope) == q = [p EXCEPT !.pc = pc, !.scope = scope]
BufferedTo(p, q, pc, buffered) == q = [p EXCEPT !.pc = pc, !.buffered = buffered]
GridTo(p, q, pc, grid) == q = [p EXCEPT !.pc = pc, !.grid = grid]

\* Another place.
LEMMA FieldsMoved ==
  ASSUME NEW p, Record(p), NEW pc, NEW scope, NEW q, MovedTo(p, q, pc, scope)
  PROVE  /\ Record(q) /\ q.pc = pc /\ q.scope = scope /\ q.rt = p.rt
         /\ q.buffered = p.buffered /\ q.grid = p.grid /\ q.stats = p.stats
BY DEF Record, MovedTo, BufferedTo, GridTo

\* Other features.
LEMMA FieldsBuffered ==
  ASSUME NEW p, Record(p), NEW pc, NEW buffered, NEW q, BufferedTo(p, q, pc, buffered)
  PROVE  /\ Record(q) /\ q.pc = pc /\ q.scope = p.scope /\ q.rt = p.rt
         /\ q.buffered = buffered /\ q.grid = p.grid /\ q.stats = p.stats
BY DEF Record, MovedTo, BufferedTo, GridTo

\* Another grid.
LEMMA FieldsOfGrid ==
  ASSUME NEW p, Record(p), NEW pc, NEW grid, NEW q, GridTo(p, q, pc, grid)
  PROVE  /\ Record(q) /\ q.pc = pc /\ q.scope = p.scope /\ q.rt = p.rt
         /\ q.buffered = p.buffered /\ q.grid = grid /\ q.stats = p.stats
BY DEF Record, MovedTo, BufferedTo, GridTo

\* A step to another place keeps the record.
LEMMA MovedTypes ==
  ASSUME PassTypes, town' = town, live' \in BOOLEAN, NEW pc, NEW scope, Moves(pc, scope),
         scope \in Scopes,
         pc \in Saving \cup {"load", "buffer", "grid", "stats", "commit", "failed", "empty", "published"},
         pc \in {"load", "buffer", "grid"} => scope = "all",
         pc \in Saving \ {"result"} => pass.rt # "combined"
  PROVE  /\ PassTypes' /\ SameTown
         /\ pass'.pc = pc /\ pass'.scope = scope /\ pass'.buffered = pass.buffered
         /\ pass'.grid = pass.grid /\ pass'.stats = pass.stats
<1>1. Record(pass) /\ town \in Towns /\ pass.rt = town.resource
      /\ pass.stats = [x \in Scopes |-> pass.stats[x]]
  BY DEF PassTypes, Record
<1>2. MovedTo(pass, pass', pc, scope)
  BY DEF Moves, MovedTo
<1>3. /\ Record(pass') /\ pass'.pc = pc /\ pass'.scope = scope /\ pass'.rt = pass.rt
      /\ pass'.buffered = pass.buffered /\ pass'.grid = pass.grid /\ pass'.stats = pass.stats
  BY <1>1, <1>2, FieldsMoved
<1> QED BY <1>1, <1>3 DEF PassTypes, SameTown, Record

\* A step that leaves the memory alone, from a place where it is whole.
LEMMA MemoryKept ==
  ASSUME SameTown, MemoryIsWhole, live' => live, pass'.buffered = pass.buffered,
         pass'.grid = pass.grid,
         pass'.pc \notin {"load", "buffer", "failed", "empty"}
           => pass.pc \notin {"load", "buffer", "failed", "empty"},
         pass'.pc \notin {"load", "buffer", "grid", "failed", "empty"}
           => pass.pc \notin {"load", "buffer", "grid", "failed", "empty"}
  PROVE  MemoryIsWhole'
<1>1. Surviving' = Surviving /\ ClippedGrid' = ClippedGrid
  BY SameGrid, SameFeatures
<1> QED BY <1>1 DEF MemoryIsWhole

\* One that leaves the statistics alone.
LEMMA StatsKept ==
  ASSUME SameTown, StatsAreWhole, pass'.stats = pass.stats,
         pass'.pc \in Saving \/ (pass'.pc = "stats" /\ pass'.scope = "city")
           => pass.pc \in Saving \/ (pass.pc = "stats" /\ pass.scope = "city"),
         pass'.pc \in Saving /\ pass'.scope = "city" => pass.pc \in Saving /\ pass.scope = "city"
  PROVE  StatsAreWhole'
<1>1. WholeStats("all")' = WholeStats("all") /\ WholeStats("city")' = WholeStats("city")
  BY SameStats
<1> QED BY <1>1 DEF StatsAreWhole

\* The command fails, or finds nothing to compute.
LEMMA Stopped ==
  ASSUME CoverInv, town' = town, live' = live, NEW pc \in {"failed", "empty"}, Goto(pc),
         table' = {} \/ table' = table
  PROVE  CoverInv'
<1> USE DEF CoverInv
<1>1. Moves(pc, pass.scope)
  BY DEF Goto, Moves, PassTypes
<1>2. /\ PassTypes' /\ SameTown
      /\ pass'.pc = pc /\ pass'.scope = pass.scope /\ pass'.buffered = pass.buffered
      /\ pass'.grid = pass.grid /\ pass'.stats = pass.stats
  <2>1. pass.scope \in Scopes /\ live' \in BOOLEAN
    BY DEF PassTypes
  <2>2. /\ pc \in Saving \cup {"load", "buffer", "grid", "stats", "commit", "failed", "empty", "published"}
        /\ pc \notin {"load", "buffer", "grid"} /\ pc \notin Saving \ {"result"}
    BY DEF Saving
  <2> QED BY <1>1, <2>1, <2>2, MovedTypes
<1>3. StoredFirst'
  BY <1>2 DEF StoredFirst
<1>4. MemoryIsWhole'
  BY <1>2, MemoryKept
<1>5. StatsAreWhole'
  BY <1>2 DEF StatsAreWhole, Saving
<1>6. RowsAreWhole'
  BY <1>2, RowsKept, RowsGone
<1> QED BY <1>2, <1>3, <1>4, <1>5, <1>6

\* SIGINT: the memory may be short from now on, and nothing is saved any more.
LEMMA CancelKeeps ==
  ASSUME CoverInv, CancelCompute
  PROVE  CoverInv'
<1> USE DEF CoverInv
<1>1. town' = town /\ pass' = pass /\ table' = table /\ live' = FALSE
  BY DEF CancelCompute
<1>2. PassTypes' /\ SameTown
  BY <1>1 DEF PassTypes, SameTown
<1>3. StoredFirst' /\ MemoryIsWhole'
  BY <1>1 DEF StoredFirst, MemoryIsWhole
<1>4. StatsAreWhole'
  BY <1>1, <1>2, StatsKept
<1>5. RowsAreWhole'
  BY <1>1, <1>2, RowsKept
<1> QED BY <1>2, <1>3, <1>4, <1>5

\* Nothing goes on without a stored boundary.
LEMMA LoadKeeps ==
  ASSUME CoverInv, LoadFeatures
  PROVE  CoverInv'
<1> USE DEF CoverInv
<1>1. pass.pc = "load" /\ town' = town /\ live' = live
  BY DEF LoadFeatures
<1>2. CASE \/ FailCompute
           \/ PartDropped
  <2>1. \E pc \in {"failed", "empty"} : Goto(pc)
    BY <1>2 DEF FailCompute, PartDropped
  <2>2. table' = {} \/ table' = table
    BY <1>2 DEF FailCompute, PartDropped
  <2> QED BY <1>1, <2>1, <2>2, Stopped
<1>3. CASE town.boundary.stored /\ Goto("buffer") /\ table' = table
  <2>1. pass.scope = "all"
    BY <1>1 DEF PassTypes
  <2>2. Moves("buffer", "all")
    BY <1>3, <2>1 DEF Goto, Moves, PassTypes
  <2>3. /\ PassTypes' /\ SameTown
        /\ pass'.pc = "buffer" /\ pass'.scope = "all" /\ pass'.buffered = pass.buffered
        /\ pass'.grid = pass.grid /\ pass'.stats = pass.stats
    <3>1. /\ "buffer" \in Saving \cup {"load", "buffer", "grid", "stats", "commit",
                                     "failed", "empty", "published"}
          /\ "buffer" \notin Saving \ {"result"} /\ "all" \in Scopes /\ live' \in BOOLEAN
      BY <1>1 DEF Saving, Scopes, PassTypes
    <3> QED BY <1>1, <2>2, <3>1, MovedTypes
  <2>4. StoredFirst'
    BY <1>1, <1>3, <2>3 DEF StoredFirst
  <2>5. MemoryIsWhole'
    BY <2>3 DEF MemoryIsWhole
  <2>6. StatsAreWhole'
    BY <2>3 DEF StatsAreWhole, Saving
  <2>7. RowsAreWhole'
    BY <1>3, <2>3, RowsKept
  <2> QED BY <2>3, <2>4, <2>5, <2>6, <2>7
<1>4. \/ FailCompute \/ PartDropped
      \/ town.boundary.stored /\ Goto("buffer") /\ table' = table
  BY DEF LoadFeatures
<1> QED BY <1>2, <1>3, <1>4

\* A parallel pass of a command that is alive is complete.
LEMMA ParallelMapOfAll ==
  ASSUME NEW results, NEW kept \in ParallelMap(results), live
  PROVE  kept = results
BY DEF ParallelMap

\* The features that were buffered are all of them, or the command is
\* cancelled.
LEMMA BufferKeeps ==
  ASSUME CoverInv, BufferFeatures
  PROVE  CoverInv'
<1> USE DEF CoverInv
<1>1. pass.pc = "buffer" /\ town' = town /\ live' = live
  BY DEF BufferFeatures
<1>2. PICK kept \in ParallelMap(UNION {Buffered(rt) : rt \in Sources}) :
        CASE pass.rt # "combined" /\ (~live \/ kept = {}) -> FailCompute
          [] pass.rt = "combined" /\ kept = {} -> PartDropped
          [] OTHER -> /\ pass' = [pass EXCEPT !.pc = "grid", !.buffered = kept]
                      /\ UNCHANGED table
  BY DEF BufferFeatures
<1>3. CASE FailCompute \/ PartDropped
  <2>1. \E pc \in {"failed", "empty"} : Goto(pc)
    BY <1>3 DEF FailCompute, PartDropped
  <2>2. table' = {} \/ table' = table
    BY <1>3 DEF FailCompute, PartDropped
  <2> QED BY <1>1, <2>1, <2>2, Stopped
<1>4. CASE pass' = [pass EXCEPT !.pc = "grid", !.buffered = kept] /\ table' = table
  <2>1. pass.scope = "all" /\ pass.rt = town.resource
    BY <1>1 DEF PassTypes
  <2>2. Record(pass) /\ pass.stats = [x \in Scopes |-> pass.stats[x]] /\ town \in Towns
    BY DEF PassTypes, Record
  <2>3. /\ Record(pass') /\ pass'.pc = "grid" /\ pass'.scope = "all" /\ pass'.rt = pass.rt
        /\ pass'.buffered = kept /\ pass'.grid = pass.grid /\ pass'.stats = pass.stats
    <3>1. BufferedTo(pass, pass', "grid", kept)
      BY <1>4 DEF BufferedTo
    <3> QED BY <2>1, <2>2, <3>1, FieldsBuffered
  <2>5. PassTypes' /\ SameTown
    BY <1>1, <2>1, <2>2, <2>3 DEF PassTypes, SameTown, Scopes, Saving, Record
  <2>6. StoredFirst'
    BY <1>1, <1>4, <2>3 DEF StoredFirst
  <2>7. MemoryIsWhole'
    <3>1. live => kept = Surviving
      BY <1>2, ParallelMapOfAll DEF Surviving
    <3>2. Surviving' = Surviving
      BY <2>5, SameFeatures
    <3> QED BY <1>1, <2>3, <3>1, <3>2 DEF MemoryIsWhole
  <2>8. StatsAreWhole'
    BY <2>3 DEF StatsAreWhole, Saving
  <2>9. RowsAreWhole'
    BY <1>4, <2>5, RowsKept
  <2> QED BY <2>5, <2>6, <2>7, <2>8, <2>9
<1> QED BY <1>2, <1>3, <1>4

\* So is the grid.
LEMMA GridKeeps ==
  ASSUME CoverInv, BuildGrid
  PROVE  CoverInv'
<1> USE DEF CoverInv
<1>1. pass.pc = "grid" /\ town' = town /\ live' = live /\ table' = table
  BY DEF BuildGrid
<1>2. PICK hexes \in IF Clippable THEN ParallelMap(ClippedGrid) ELSE {ClippedGrid} :
        pass' = [pass EXCEPT !.pc = "stats", !.grid = hexes]
  BY DEF BuildGrid
<1>3. pass.scope = "all" /\ pass.rt = town.resource
  BY <1>1 DEF PassTypes
<1>4. Record(pass) /\ pass.stats = [x \in Scopes |-> pass.stats[x]] /\ town \in Towns
  BY DEF PassTypes, Record
<1>5. /\ Record(pass') /\ pass'.pc = "stats" /\ pass'.scope = "all" /\ pass'.rt = pass.rt
      /\ pass'.buffered = pass.buffered /\ pass'.grid = hexes /\ pass'.stats = pass.stats
  <2>1. GridTo(pass, pass', "stats", hexes)
    BY <1>2 DEF GridTo
  <2> QED BY <1>3, <1>4, <2>1, FieldsOfGrid
<1>7. PassTypes' /\ SameTown
  BY <1>1, <1>3, <1>4, <1>5 DEF PassTypes, SameTown, Scopes, Saving, Record
<1>8. StoredFirst'
  BY <1>1, <1>5 DEF StoredFirst
<1>9. MemoryIsWhole'
  <2>1. live => hexes = ClippedGrid
    BY <1>2, ParallelMapOfAll
  <2>2. Surviving' = Surviving /\ ClippedGrid' = ClippedGrid
    BY <1>7, SameFeatures, SameGrid
  <2> QED BY <1>1, <1>5, <2>1, <2>2 DEF MemoryIsWhole
<1>10. StatsAreWhole'
  BY <1>5 DEF StatsAreWhole, Saving
<1>11. RowsAreWhole'
  BY <1>1, <1>7, RowsKept
<1> QED BY <1>7, <1>8, <1>9, <1>10, <1>11

\* The statistics of one scope.
StatsTo(p, q, pc, scope, of, stats) ==
  q = [[p EXCEPT !.pc = pc, !.scope = scope] EXCEPT !.stats[of] = stats]

PerScope(s) == s = [x \in Scopes |-> s[x]]

\* Other statistics of one scope.
LEMMA FieldsOfStats ==
  ASSUME NEW p, Record(p), PerScope(p.stats), NEW pc, NEW scope,
         NEW of \in Scopes, NEW stats, NEW q, StatsTo(p, q, pc, scope, of, stats)
  PROVE  /\ Record(q) /\ q.pc = pc /\ q.scope = scope /\ q.rt = p.rt
         /\ q.buffered = p.buffered /\ q.grid = p.grid
         /\ PerScope(q.stats)
         /\ q.stats[of] = stats /\ \A x \in Scopes \ {of} : q.stats[x] = p.stats[x]
<1> DEFINE m == [p EXCEPT !.pc = pc, !.scope = scope]
<1>1. /\ Record(m) /\ m.pc = pc /\ m.scope = scope /\ m.rt = p.rt
      /\ m.buffered = p.buffered /\ m.grid = p.grid /\ m.stats = p.stats
  <2>1. MovedTo(p, m, pc, scope)
    BY DEF MovedTo
  <2> HIDE DEF m
  <2> QED BY <2>1, FieldsMoved
<1>2. q = [m EXCEPT !.stats[of] = stats]
  BY DEF StatsTo
<1> HIDE DEF m
<1>3. q = [m EXCEPT !.stats = [m.stats EXCEPT ![of] = stats]]
  BY <1>1, <1>2 DEF Record
<1>4. /\ Record(q) /\ q.pc = m.pc /\ q.scope = m.scope /\ q.rt = m.rt
      /\ q.buffered = m.buffered /\ q.grid = m.grid /\ q.stats = [m.stats EXCEPT ![of] = stats]
  BY <1>1, <1>3 DEF Record
<1> QED BY <1>1, <1>4 DEF PerScope

\* A pass over the grid, of a command that is alive, measures the whole scope.
LEMMA PassIsWhole ==
  ASSUME MemoryIsWhole, live, pass.pc = "stats", NEW scope,
         NEW done \in ParallelMap(pass.grid), NEW shared \in ParallelMap(pass.grid)
  PROVE  WholeStats(scope)
           = IF pass.rt # "parking" THEN ComputeHexStats(done, InScope(scope, pass.buffered))
             ELSE MergeSpaces(ComputeHexStats(done, InScope(scope, pass.buffered)), shared,
                              InScope(scope, pass.buffered))
<1>1. done = ClippedGrid /\ shared = ClippedGrid /\ pass.buffered = Surviving
  BY ParallelMapOfAll DEF MemoryIsWhole
<1> QED BY <1>1 DEF WholeStats, Whole

\* A pass leaves the statistics of a whole scope, or the command has failed.
LEMMA PassKeeps ==
  ASSUME CoverInv, NEW scope \in Scopes, HexPass(scope)
  PROVE  CoverInv'
<1> USE DEF CoverInv
<1> DEFINE fs == InScope(scope, pass.buffered)
           Full(done, shared) ==
             IF pass.rt # "parking" THEN ComputeHexStats(done, fs)
             ELSE MergeSpaces(ComputeHexStats(done, fs), shared, fs)
           skip == IF pass.rt = "combined" THEN "commit" ELSE "hexes"
<1>1. pass.pc = "stats" /\ pass.scope = scope /\ town' = town /\ live' = live /\ live' \in BOOLEAN
  BY DEF HexPass, Due, PassTypes
<1>2. \/ /\ scope = "city" /\ Moves(skip, "all") /\ table' = table
      \/ FailCompute
      \/ \E done \in ParallelMap(pass.grid), shared \in ParallelMap(pass.grid) :
           /\ live /\ table' = table
           /\ pass' = [Advanced("stats", scope) EXCEPT !.stats[scope] = Full(done, shared)]
  BY DEF HexPass, Moves
<1>3. CASE scope = "city" /\ Moves(skip, "all") /\ table' = table
  <2> DEFINE pc == skip
  <2>1. pc \in {"commit", "hexes"} /\ (pc = "hexes" => pass.rt # "combined")
    OBVIOUS
  <2>2. Moves(pc, "all")
    BY <1>3
  <2> HIDE DEF pc
  <2>3. /\ PassTypes' /\ SameTown
        /\ pass'.pc = pc /\ pass'.scope = "all" /\ pass'.buffered = pass.buffered
        /\ pass'.grid = pass.grid /\ pass'.stats = pass.stats
    <3>1. /\ pc \in Saving \cup {"load", "buffer", "grid", "stats", "commit", "failed", "empty", "published"}
          /\ pc \notin {"load", "buffer", "grid"} /\ "all" \in Scopes
          /\ pc \in Saving \ {"result"} => pass.rt # "combined"
      BY <2>1 DEF Saving, Scopes
    <3> QED BY <1>1, <2>2, <3>1, MovedTypes
  <2>4. StoredFirst'
    BY <1>1, <1>3, <2>3 DEF StoredFirst
  <2>5. MemoryIsWhole'
    BY <1>1, <2>1, <2>3, MemoryKept
  <2>6. StatsAreWhole'
    <3>1. pass.stats.all = WholeStats("all")
      BY <1>1, <1>3 DEF StatsAreWhole
    <3>2. WholeStats("all")' = WholeStats("all")
      BY <2>3, SameStats
    <3> QED BY <2>3, <3>1, <3>2 DEF StatsAreWhole
  <2>7. RowsAreWhole'
    BY <1>3, <2>3, RowsKept
  <2> QED BY <2>3, <2>4, <2>5, <2>6, <2>7
<1>4. CASE FailCompute
  BY <1>1, <1>4, Stopped DEF FailCompute
<1>5. ASSUME NEW done \in ParallelMap(pass.grid), NEW shared \in ParallelMap(pass.grid),
             live, table' = table,
             pass' = [Advanced("stats", scope) EXCEPT !.stats[scope] = Full(done, shared)]
      PROVE  CoverInv'
  <2> DEFINE next == Following[scope]["stats"]
             stats == Full(done, shared)
             pc == next[2]
             to == next[1]
  <2>1. stats = WholeStats(scope)
    BY <1>1, <1>5, PassIsWhole
  <2>2. to = scope /\ pc \in Saving \cup {"commit"}
        /\ (pc \in Saving \ {"result"} => pass.rt # "combined")
    <3>1. /\ "stats" \in Saving \cup {"stats"} /\ "stats" \notin Saving \ {"result"}
      BY DEF Saving
    <3> QED BY <3>1, Follows
  <2>3. StatsTo(pass, pass', pc, to, scope, stats)
    BY <1>5 DEF StatsTo, Advanced
  <2>4. /\ Record(pass) /\ PerScope(pass.stats)
        /\ town \in Towns /\ pass.rt = town.resource
    BY DEF PassTypes, Record, PerScope
  <2> HIDE DEF next, stats, pc, to
  <2>5. /\ Record(pass') /\ pass'.pc = pc /\ pass'.scope = to /\ pass'.rt = pass.rt
        /\ pass'.buffered = pass.buffered /\ pass'.grid = pass.grid
        /\ PerScope(pass'.stats)
        /\ pass'.stats[scope] = stats /\ \A x \in Scopes \ {scope} : pass'.stats[x] = pass.stats[x]
    BY <2>3, <2>4, FieldsOfStats
  <2>6. pass'.pc \notin {"load", "buffer", "grid", "stats", "failed", "empty"}
    BY <2>2, <2>5 DEF Saving
  <2>7. PassTypes' /\ SameTown
    <3>1. SameTown
      BY <1>1, <2>5 DEF SameTown
    <3>2. town' \in Towns /\ live' \in BOOLEAN /\ pass'.rt = town'.resource
      BY <1>1, <2>4, <2>5
    <3>3. /\ pass'.scope \in Scopes /\ pass'.pc \in Saving \cup {"commit"}
          /\ pass'.pc \in Saving \ {"result"} => pass'.rt # "combined"
      BY <2>2, <2>5
    <3> QED BY <2>5, <2>6, <3>1, <3>2, <3>3 DEF PassTypes, Record, PerScope
  <2>8. StoredFirst'
    BY <1>1, <1>5 DEF StoredFirst
  <2>9. MemoryIsWhole'
    BY <1>1, <2>5, <2>7, MemoryKept
  <2>10. StatsAreWhole'
    <3>1. WholeStats("all")' = WholeStats("all") /\ WholeStats("city")' = WholeStats("city")
      BY <2>7, SameStats
    <3>2. CASE scope = "all"
      <4>1. pass'.scope = "all" /\ pass'.stats["all"] = WholeStats("all")
        BY <2>1, <2>2, <2>5, <3>2
      <4> QED BY <3>1, <4>1 DEF StatsAreWhole
    <3>3. CASE scope = "city"
      <4>1. pass'.stats["city"] = WholeStats("city")
        BY <2>1, <2>5, <3>3
      <4>2. pass.stats["all"] = WholeStats("all")
        BY <1>1, <3>3 DEF StatsAreWhole
      <4>3. pass'.stats["all"] = pass.stats["all"]
        BY <2>5, <3>3 DEF Scopes
      <4> QED BY <3>1, <4>1, <4>2, <4>3 DEF StatsAreWhole
    <3> QED BY <3>2, <3>3 DEF Scopes
  <2>11. RowsAreWhole'
    BY <1>5, <2>7, RowsKept
  <2> QED BY <2>7, <2>8, <2>9, <2>10, <2>11
<1> HIDE DEF Full, skip
<1> QED BY <1>2, <1>3, <1>4, <1>5

\* A save of rows that are whole.
LEMMA SaveKeeps ==
  ASSUME CoverInv, NEW pc \in Saving, NEW scope \in Scopes, NEW rows, SaveRows(pc, scope, rows),
         live => (SameTown /\ table' = table \cup rows => RowsAreWhole')
  PROVE  CoverInv'
<1> USE DEF CoverInv
<1>1. /\ pass.pc = pc /\ pass.scope = scope /\ town' = town /\ live' = live /\ live' \in BOOLEAN
      /\ pc \in Saving \ {"result"} => pass.rt # "combined"
  BY DEF SaveRows, Due, PassTypes
<1>2. CASE live /\ table' = table \cup rows /\ pass' = Advanced(pc, scope)
  <2> DEFINE next == Following[scope][pc]
  <2>1. /\ next[1] \in Scopes
        /\ next[2] \in Saving \cup {"stats", "commit"}
        /\ next[2] \in Saving \ {"result"} => pass.rt # "combined"
        /\ pc # "stats" /\ scope = "all" /\ next[1] = "city" => next[2] = "stats"
    BY <1>1, Follows
  <2>2. Moves(next[2], next[1])
    BY <1>2 DEF Advanced, Moves
  <2> HIDE DEF next
  <2>3. pc # "stats" /\ pc \notin {"load", "buffer", "grid", "failed", "empty"}
    BY DEF Saving
  <2>4. next[2] \notin {"load", "buffer", "grid", "failed", "empty"}
    BY <2>1 DEF Saving
  <2>5. /\ PassTypes' /\ SameTown
        /\ pass'.pc = next[2] /\ pass'.scope = next[1] /\ pass'.buffered = pass.buffered
        /\ pass'.grid = pass.grid /\ pass'.stats = pass.stats
    BY <1>1, <2>1, <2>2, <2>4, MovedTypes
  <2>6. StoredFirst'
    BY <1>1, <2>3, <2>5 DEF StoredFirst, SameTown
  <2>7. MemoryIsWhole'
    BY <1>1, <2>3, <2>5, MemoryKept
  <2>8. StatsAreWhole'
    <3>1. pass'.pc \in Saving /\ pass'.scope = "city" => scope = "city"
      <4>1. "stats" \notin Saving
        BY DEF Saving
      <4> QED BY <2>1, <2>3, <2>5, <4>1 DEF Scopes
    <3> QED BY <1>1, <2>5, <3>1, StatsKept
  <2>9. RowsAreWhole'
    BY <1>2, <2>5
  <2> QED BY <2>5, <2>6, <2>7, <2>8, <2>9
<1>3. CASE FailCompute
  BY <1>1, <1>3, Stopped DEF FailCompute
<1> QED BY <1>2, <1>3 DEF SaveRows

\* Whether the rows of one kind and scope are what they should be.
WholeRows(kind, scope) ==
  CASE kind = "hex" -> HexRows(scope, WholeStats(scope))
    [] kind = "cohort" -> CohortRows(scope, pass.rt, Sum(WholeStats(scope)), ClippedGrid, Whole(scope))
    [] kind = "spaces" -> SpaceRows(scope, WholeStats(scope))

\* Adding all the rows of one kind and scope keeps them whole, also a second
\* time.
LEMMA RowsAddedAreWhole ==
  ASSUME RowsAreWhole, SameTown, NEW scope \in Scopes, NEW kind \in {"hex", "cohort", "spaces"},
         NEW rows, rows = WholeRows(kind, scope), table' = table \cup rows
  PROVE  RowsAreWhole'
<1>1. AllOf(kind, scope, rows)
  BY DEF AllOf, WholeRows, HexRows, CohortRows, SpaceRows
<1>2. \A k, s : RowsIn(k, s)' = IF k = kind /\ s = scope THEN RowsIn(k, s) \cup rows ELSE RowsIn(k, s)
  BY <1>1, RowsAdded
<1>3. /\ pass'.rt = pass.rt /\ ClippedGrid' = ClippedGrid
      /\ \A s : Whole(s)' = Whole(s) /\ WholeStats(s)' = WholeStats(s)
  BY SameGrid, SameFeatures, SameStats DEF SameTown
<1>4. \A k \in {"hex", "cohort", "spaces"} : \A s : WholeRows(k, s)' = WholeRows(k, s)
  BY <1>3 DEF WholeRows
<1>5. /\ \A s \in Scopes : \A row \in RowsIn("result", s) : row.area = Sum(WholeStats(s))
      /\ \A k \in {"hex", "cohort", "spaces"} : \A s \in Scopes :
           RowsIn(k, s) # {} => RowsIn(k, s) = WholeRows(k, s)
  BY DEF RowsAreWhole, WholeRows
<1>6. \A s \in Scopes : \A row \in RowsIn("result", s)' : row.area = Sum(WholeStats(s))'
  <2>1. \A s : RowsIn("result", s)' = RowsIn("result", s)
    BY <1>2
  <2> QED BY <1>3, <1>5, <2>1
<1>7. \A k \in {"hex", "cohort", "spaces"} : \A s \in Scopes :
        RowsIn(k, s)' # {} => RowsIn(k, s)' = WholeRows(k, s)'
  <2> SUFFICES ASSUME NEW k \in {"hex", "cohort", "spaces"}, NEW s \in Scopes, RowsIn(k, s)' # {}
               PROVE  RowsIn(k, s)' = WholeRows(k, s)
    BY <1>4
  <2>1. CASE k = kind /\ s = scope
    <3>1. RowsIn(k, s)' = RowsIn(k, s) \cup rows /\ rows = WholeRows(k, s)
      BY <1>2, <2>1
    <3> QED BY <1>5, <3>1
  <2>2. CASE ~(k = kind /\ s = scope)
    <3>1. RowsIn(k, s)' = RowsIn(k, s)
      BY <1>2, <2>2
    <3> QED BY <1>5, <3>1
  <2> QED BY <2>1, <2>2
<1> QED BY <1>6, <1>7 DEF RowsAreWhole, WholeRows

\* What is in memory when a scope is saved.
LEMMA InMemory ==
  ASSUME CoverInv, live, NEW pc \in Saving, NEW scope \in Scopes, Due(pc, scope)
  PROVE  /\ pass.stats[scope] = WholeStats(scope) /\ pass.grid = ClippedGrid
         /\ InScope(scope, pass.buffered) = Whole(scope)
<1>1. pass.pc \in Saving /\ pass.scope = scope
  BY DEF Due
<1>2. pass.pc \notin {"load", "buffer", "grid", "failed", "empty"}
  BY <1>1 DEF Saving
<1>3. pass.stats[scope] = WholeStats(scope)
  BY <1>1 DEF CoverInv, StatsAreWhole, Scopes
<1>4. pass.grid = ClippedGrid /\ pass.buffered = Surviving
  BY <1>2 DEF CoverInv, MemoryIsWhole
<1> QED BY <1>3, <1>4 DEF Whole

\* The rows of the hexes.
LEMMA HexSaveKeeps ==
  ASSUME CoverInv, NEW scope \in Scopes, SaveHexStats(scope)
  PROVE  CoverInv'
<1> DEFINE rows == HexRows(scope, pass.stats[scope])
<1>1. SaveRows("hexes", scope, rows) /\ Due("hexes", scope) /\ "hexes" \in Saving
  BY DEF SaveHexStats, SaveRows, HexRows, Saving
<1>2. live => rows = WholeRows("hex", scope)
  BY <1>1, InMemory DEF WholeRows
<1> HIDE DEF rows
<1>3. live => (SameTown /\ table' = table \cup rows => RowsAreWhole')
  BY <1>2, RowsAddedAreWhole DEF CoverInv
<1> QED BY <1>1, <1>3, SaveKeeps

\* The rows of the spaces.
LEMMA SpaceSaveKeeps ==
  ASSUME CoverInv, NEW scope \in Scopes, SaveSpaceMetrics(scope)
  PROVE  CoverInv'
<1> DEFINE rows == SpaceRows(scope, pass.stats[scope])
<1>1. SaveRows("spaces", scope, rows) /\ Due("spaces", scope) /\ "spaces" \in Saving
  BY DEF SaveSpaceMetrics, SaveRows, SpaceRows, Saving
<1>2. live => rows = WholeRows("spaces", scope)
  BY <1>1, InMemory DEF WholeRows
<1> HIDE DEF rows
<1>3. live => (SameTown /\ table' = table \cup rows => RowsAreWhole')
  BY <1>2, RowsAddedAreWhole DEF CoverInv
<1> QED BY <1>1, <1>3, SaveKeeps

\* The rows of the classes, measured by a pass of their own that nothing checks
\* before the save does.
LEMMA CohortSaveKeeps ==
  ASSUME CoverInv, NEW scope \in Scopes, SaveCohorts(scope)
  PROVE  CoverInv'
<1>1. PICK done \in ParallelMap(pass.grid) :
        SaveRows("cohorts", scope,
                 CohortRows(scope, pass.rt, Sum(pass.stats[scope]), done, InScope(scope, pass.buffered)))
  BY DEF SaveCohorts, CohortRows
<1> DEFINE rows == CohortRows(scope, pass.rt, Sum(pass.stats[scope]), done,
                              InScope(scope, pass.buffered))
<1>2. SaveRows("cohorts", scope, rows) /\ Due("cohorts", scope) /\ "cohorts" \in Saving
  BY <1>1 DEF SaveRows, Saving
<1>3. live => rows = WholeRows("cohort", scope)
  <2> SUFFICES ASSUME live PROVE rows = WholeRows("cohort", scope)
    OBVIOUS
  <2>1. done = pass.grid
    BY ParallelMapOfAll
  <2>2. /\ pass.stats[scope] = WholeStats(scope) /\ pass.grid = ClippedGrid
        /\ InScope(scope, pass.buffered) = Whole(scope)
    BY <1>2, InMemory
  <2> QED BY <2>1, <2>2 DEF WholeRows
<1> HIDE DEF rows
<1>4. live => (SameTown /\ table' = table \cup rows => RowsAreWhole')
  BY <1>3, RowsAddedAreWhole DEF CoverInv
<1> QED BY <1>2, <1>4, SaveKeeps

\* The row of the run.
LEMMA ResultSaveKeeps ==
  ASSUME CoverInv, NEW scope \in Scopes, SaveResult(scope)
  PROVE  CoverInv'
<1> DEFINE features == InputCount(scope)
           spaces == (SumFunction([s \in pass.stats[scope] |-> s.spaces]) + Scale \div 2) \div Scale
           row == [kind |-> "result", scope |-> scope, area |-> Sum(pass.stats[scope]),
                   features |-> features, spaces |-> spaces]
           rows == {row}
<1>1. SaveRows("result", scope, rows)
  BY DEF SaveResult
<1> HIDE DEF features, spaces
<1>2. row.kind = "result" /\ row.scope = scope /\ row.area = Sum(pass.stats[scope])
  OBVIOUS
<1> HIDE DEF row
<1>3. AllOf("result", scope, rows)
  BY <1>2 DEF AllOf
<1>4. Due("result", scope) /\ "result" \in Saving
  BY <1>1 DEF SaveRows, Saving
<1>5. live => row.area = Sum(WholeStats(scope))
  BY <1>2, <1>4, InMemory
<1> HIDE DEF rows
<1>6. ASSUME live, SameTown, table' = table \cup rows PROVE RowsAreWhole'
  <2>1. \A k, s : RowsIn(k, s)' = IF k = "result" /\ s = scope THEN RowsIn(k, s) \cup rows ELSE RowsIn(k, s)
    BY <1>3, <1>6, RowsAdded
  <2>2. /\ pass'.rt = pass.rt /\ ClippedGrid' = ClippedGrid
        /\ \A s : Whole(s)' = Whole(s) /\ WholeStats(s)' = WholeStats(s)
    BY <1>6, SameGrid, SameFeatures, SameStats DEF SameTown
  <2>3. \A k \in {"hex", "cohort", "spaces"} : \A s : RowsIn(k, s)' = RowsIn(k, s)
    BY <2>1
  <2>4. \A s \in Scopes : \A r \in RowsIn("result", s)' : r.area = Sum(WholeStats(s))
    <3> SUFFICES ASSUME NEW s \in Scopes, NEW r \in RowsIn("result", s)'
                 PROVE  r.area = Sum(WholeStats(s))
      OBVIOUS
    <3>1. r \in RowsIn("result", s) \/ (s = scope /\ r = row)
      BY <2>1 DEF rows
    <3> QED BY <1>5, <1>6, <3>1 DEF CoverInv, RowsAreWhole
  <2>5. \A s : Sum(WholeStats(s))' = Sum(WholeStats(s))
    BY <2>2
  <2> QED BY <2>2, <2>3, <2>4, <2>5 DEF CoverInv, RowsAreWhole
<1>7. live => (SameTown /\ table' = table \cup rows => RowsAreWhole')
  BY <1>6
<1> QED BY <1>1, <1>4, <1>7, SaveKeeps

\* The commit saves nothing.
LEMMA CommitKeeps ==
  ASSUME CoverInv, CommitDraft
  PROVE  CoverInv'
<1> USE DEF CoverInv
<1>1. pass.pc = "commit" /\ town' = town /\ live' = live /\ live' \in BOOLEAN
  BY DEF CommitDraft, PassTypes
<1>2. CASE FailCompute
  BY <1>1, <1>2, Stopped DEF FailCompute
<1>3. CASE Goto("published") /\ table' = table
  <2>1. pass.scope \in Scopes
    BY DEF PassTypes
  <2>2. Moves("published", pass.scope)
    BY <1>3 DEF Goto, Moves, PassTypes
  <2>3. /\ PassTypes' /\ SameTown
        /\ pass'.pc = "published" /\ pass'.scope = pass.scope /\ pass'.buffered = pass.buffered
        /\ pass'.grid = pass.grid /\ pass'.stats = pass.stats
    <3>1. /\ "published" \in Saving \cup {"load", "buffer", "grid", "stats", "commit",
                                     "failed", "empty", "published"}
          /\ "published" \notin {"load", "buffer", "grid"} /\ "published" \notin Saving \ {"result"}
      BY DEF Saving
    <3> QED BY <1>1, <2>1, <2>2, <3>1, MovedTypes
  <2>4. StoredFirst'
    BY <1>1, <1>3, <2>3 DEF StoredFirst
  <2>5. MemoryIsWhole'
    BY <1>1, <2>3, MemoryKept
  <2>6. StatsAreWhole'
    BY <2>3 DEF StatsAreWhole, Saving
  <2>7. RowsAreWhole'
    BY <1>3, <2>3, RowsKept
  <2> QED BY <2>3, <2>4, <2>5, <2>6, <2>7
<1> QED BY <1>2, <1>3 DEF CommitDraft

\* What leaves the command's memory and its rows alone keeps the invariant.
LEMMA NothingChanges ==
  ASSUME CoverInv, UNCHANGED <<town, live, pass, table>>
  PROVE  CoverInv'
<1> USE DEF CoverInv
<1>1. SameTown /\ PassTypes' /\ StoredFirst'
  BY DEF SameTown, PassTypes, StoredFirst
<1>2. MemoryIsWhole'
  BY <1>1, MemoryKept
<1>3. StatsAreWhole'
  BY <1>1, StatsKept
<1>4. RowsAreWhole'
  BY <1>1, RowsKept
<1> QED BY <1>1, <1>2, <1>3, <1>4

\* Nothing is saved yet.
LEMMA CoverInitial ==
  ASSUME CoverageInit
  PROVE  CoverInv
<1> USE DEF CoverageInit
<1>1. pass.pc = "load" /\ pass.scope = "all" /\ pass.rt = town.resource
  OBVIOUS
<1>2. PassTypes
  <2>1. pass = [x \in {"pc", "scope", "rt", "buffered", "grid", "stats"} |-> pass[x]]
    OBVIOUS
  <2>2. pass.stats = [x \in Scopes |-> pass.stats[x]]
    BY DEF Scopes
  <2> QED BY <1>1, <2>1, <2>2 DEF PassTypes, Scopes, Saving
<1>3. StoredFirst /\ MemoryIsWhole
  BY <1>1 DEF StoredFirst, MemoryIsWhole
<1>4. StatsAreWhole
  BY <1>1 DEF StatsAreWhole, Saving
<1>5. RowsAreWhole
  <2>1. \A kind, scope : RowsIn(kind, scope) = {}
    BY DEF RowsIn
  <2> QED BY <2>1 DEF RowsAreWhole
<1> QED BY <1>2, <1>3, <1>4, <1>5 DEF CoverInv

\* Every step keeps the invariant.
LEMMA CoverInductive ==
  ASSUME CoverInv, [CoverageNext]_coverageVars
  PROVE  CoverInv'
<1>1. CASE UNCHANGED coverageVars
  BY <1>1, NothingChanges DEF coverageVars
<1>2. CASE CancelCompute
  BY <1>2, CancelKeeps
<1>3. CASE LoadFeatures
  BY <1>3, LoadKeeps
<1>4. CASE BufferFeatures
  BY <1>4, BufferKeeps
<1>5. CASE BuildGrid
  BY <1>5, GridKeeps
<1>6. CASE CommitDraft
  BY <1>6, CommitKeeps
<1>7. CASE BuildPlayHexes
  BY <1>7, NothingChanges DEF BuildPlayHexes
<1>8. ASSUME NEW scope \in {"all", "city"},
             \/ HexPass(scope) \/ SaveResult(scope) \/ SaveCohorts(scope)
             \/ SaveHexStats(scope) \/ SaveSpaceMetrics(scope)
      PROVE  CoverInv'
  <2>1. scope \in Scopes
    BY DEF Scopes
  <2>2. CASE HexPass(scope)
    BY <2>1, <2>2, PassKeeps
  <2>3. CASE SaveResult(scope)
    BY <2>1, <2>3, ResultSaveKeeps
  <2>4. CASE SaveCohorts(scope)
    BY <2>1, <2>4, CohortSaveKeeps
  <2>5. CASE SaveHexStats(scope)
    BY <2>1, <2>5, HexSaveKeeps
  <2>6. CASE SaveSpaceMetrics(scope)
    BY <2>1, <2>6, SpaceSaveKeeps
  <2> QED BY <1>8, <2>2, <2>3, <2>4, <2>5, <2>6
<1> QED BY <1>1, <1>2, <1>3, <1>4, <1>5, <1>6, <1>7, <1>8 DEF CoverageNext

\* SavedRowsAreWhole: whatever `compute` has saved under its run, at whatever
\* moment it is cancelled, is of the whole town: areas, hexes, classes and
\* spaces add up to what is on the land.
THEOREM SavedRowsAlwaysWhole == CoverageSpec => []SavedRowsAreWhole
<1>1. CoverageInit => CoverInv
  BY CoverInitial
<1>2. CoverInv /\ [CoverageNext]_coverageVars => CoverInv'
  BY CoverInductive
<1>3. CoverInv => SavedRowsAreWhole
  BY CoverImplies
<1> QED BY <1>1, <1>2, <1>3, PTL DEF CoverageSpec

-----------------------------------------------------------------------------
(* Service coverage: times of driving.                                     *)

\* Numbers have a least.
LEMMA LeastOf ==
  ASSUME NEW S, S \subseteq Nat, S # {}
  PROVE  /\ \E least \in S : \A n \in S : least <= n
         /\ Min(S) \in S /\ \A n \in S : Min(S) <= n
<1> DEFINE P == {k \in Nat : \A n \in S : n > k \/ \E least \in S : \A m \in S : least <= m}
<1>1. 0 \in P
  <2> SUFFICES ASSUME NEW n \in S, ~(n > 0) PROVE \A m \in S : n <= m
    OBVIOUS
  <2> QED OBVIOUS
<1>2. ASSUME NEW k \in Nat, k \in P PROVE k + 1 \in P
  <2> SUFFICES ASSUME NEW n \in S, ~(n > k + 1) PROVE \E least \in S : \A m \in S : least <= m
    OBVIOUS
  <2>1. CASE \E m \in S : m <= k
    BY <1>2, <2>1
  <2>2. CASE ~\E m \in S : m <= k
    <3>1. \A m \in S : n <= m
      BY <2>2
    <3> QED BY <3>1
  <2> QED BY <2>1, <2>2
<1>3. Nat \subseteq P
  <2> HIDE DEF P
  <2> QED BY <1>1, <1>2, FromZeroOn
<1>4. PICK n \in S : TRUE
  OBVIOUS
<1>5. \E least \in S : \A m \in S : least <= m
  <2>1. n \in P /\ ~(n > n)
    BY <1>3
  <2> QED BY <2>1
<1>6. Min(S) \in S /\ \A m \in S : Min(S) <= m
  BY <1>5 DEF Min
<1> QED BY <1>5, <1>6

\* A segment of a graph.
IsSegment(s) ==
  /\ s.a \in Point /\ s.c \in Point /\ s.a # s.c
  /\ s.length \in Nat \ {0} /\ s.pace \in Nat /\ s.fwd \in BOOLEAN /\ s.back \in BOOLEAN
IsGraph(segs) ==
  /\ IsFiniteSet(segs) /\ \A s \in segs : IsSegment(s)
  /\ \A s, o \in segs : s.leg = o.leg => s = o
Places(segs) == UNION {{Spot(s, off) : off \in 0..s.length} : s \in segs}

\* A position within a segment is not a vertex.
LEMMA NoVertexBetween ==
  ASSUME NEW p \in Point, NEW leg, NEW off
  PROVE  p # <<leg, off, "between">>
<1>1. p = <<p[1], p[2]>>
  BY DEF Point
<1>2. DOMAIN <<p[1], p[2]>> = 1..2 /\ DOMAIN <<leg, off, "between">> = 1..3
  OBVIOUS
<1>3. 3 \in 1..3 /\ 3 \notin 1..2
  OBVIOUS
<1>4. 1..2 # 1..3
  BY <1>3
<1> QED BY <1>1, <1>2, <1>4

\* The spots of a segment.
LEMMA SpotsOf ==
  ASSUME NEW s, IsSegment(s)
  PROVE  /\ Spot(s, 0) = s.a /\ Spot(s, s.length) = s.c
         /\ \A off \in 1..(s.length - 1) : Spot(s, off) = <<s.leg, off, "between">>
<1>1. s.length \in Nat \ {0}
  BY DEF IsSegment
<1>2. Spot(s, 0) = s.a
  BY <1>1 DEF Spot
<1>3. Spot(s, s.length) = s.c
  BY <1>1 DEF Spot
<1>4. \A off \in 1..(s.length - 1) : off # 0 /\ off # s.length
  BY <1>1
<1>5. ASSUME NEW off \in 1..(s.length - 1) PROVE Spot(s, off) = <<s.leg, off, "between">>
  <2>1. off # 0 /\ off # s.length
    BY <1>4
  <2> QED BY <2>1 DEF Spot
<1> QED BY <1>2, <1>3, <1>5

\* Which positions are one spot: the ends of segments at a vertex, and
\* otherwise none but itself.
LEMMA SameSpot ==
  ASSUME NEW segs, IsGraph(segs), NEW s \in segs, NEW off \in 0..s.length,
         NEW o \in segs, NEW at \in 0..o.length, Spot(s, off) = Spot(o, at)
  PROVE  \/ s = o /\ off = at /\ off # 0 /\ off # s.length
         \/ /\ off = 0 \/ off = s.length
            /\ \/ at = 0 /\ o.a = Spot(s, off)
               \/ at = o.length /\ o.c = Spot(s, off)
<1>1. IsSegment(s) /\ IsSegment(o)
  BY DEF IsGraph
<1>2. /\ s.length \in Nat \ {0} /\ o.length \in Nat \ {0}
      /\ s.a \in Point /\ s.c \in Point /\ o.a \in Point /\ o.c \in Point
  BY <1>1 DEF IsSegment
<1>3. /\ Spot(s, 0) = s.a /\ Spot(s, s.length) = s.c /\ Spot(o, 0) = o.a /\ Spot(o, o.length) = o.c
      /\ off # 0 /\ off # s.length => Spot(s, off) = <<s.leg, off, "between">>
      /\ at # 0 /\ at # o.length => Spot(o, at) = <<o.leg, at, "between">>
  <2>1. /\ off # 0 /\ off # s.length => off \in 1..(s.length - 1)
        /\ at # 0 /\ at # o.length => at \in 1..(o.length - 1)
    BY <1>2
  <2> QED BY <1>1, <2>1, SpotsOf
<1>4. CASE off = 0 \/ off = s.length
  <2>1. Spot(s, off) \in Point
    BY <1>2, <1>3, <1>4
  <2>2. at = 0 \/ at = o.length
    <3> SUFFICES ASSUME at # 0, at # o.length PROVE FALSE
      OBVIOUS
    <3>1. Spot(o, at) = <<o.leg, at, "between">>
      BY <1>3
    <3> QED BY <2>1, <3>1, NoVertexBetween
  <2> QED BY <1>3, <1>4, <2>2
<1>5. CASE off # 0 /\ off # s.length
  <2>1. Spot(s, off) = <<s.leg, off, "between">>
    BY <1>3, <1>5
  <2>2. at # 0 /\ at # o.length
    <3> SUFFICES ASSUME at = 0 \/ at = o.length PROVE FALSE
      OBVIOUS
    <3>1. Spot(o, at) \in Point
      BY <1>2, <1>3
    <3> QED BY <2>1, <3>1, NoVertexBetween
  <2>3. Spot(o, at) = <<o.leg, at, "between">>
    BY <1>3, <2>2
  <2>4. s.leg = o.leg /\ off = at
    <3>1. <<s.leg, off, "between">> = <<o.leg, at, "between">>
      BY <2>1, <2>3
    <3>2. <<s.leg, off, "between">>[1] = <<o.leg, at, "between">>[1] /\ <<s.leg, off, "between">>[2] = <<o.leg, at, "between">>[2]
      BY <3>1
    <3> QED BY <3>2
  <2>5. s = o
    BY <2>4 DEF IsGraph
  <2> QED BY <1>5, <2>4, <2>5
<1> QED BY <1>4, <1>5

\* A step is one unit along a segment, in a direction it may be driven.
Forth(s, off) == <<Spot(s, off - 1), Spot(s, off), s.pace>>
Back(s, off) == <<Spot(s, off), Spot(s, off - 1), s.pace>>

\* The steps along a segment, one way and the other.
LEMMA StepsAre ==
  ASSUME NEW segs
  PROVE  /\ \A e \in Steps(segs) : \E s \in segs : \E off \in 1..s.length :
              (s.fwd /\ e = Forth(s, off)) \/ (s.back /\ e = Back(s, off))
         /\ \A s \in segs : \A off \in 1..s.length :
              /\ s.fwd => Forth(s, off) \in Steps(segs)
              /\ s.back => Back(s, off) \in Steps(segs)
<1> DEFINE Ahead == UNION {{Forth(s, off) : off \in 1..s.length} : s \in {s \in segs : s.fwd}}
           Astern == UNION {{Back(s, off) : off \in 1..s.length} : s \in {s \in segs : s.back}}
<1>1. Steps(segs) = Ahead \cup Astern
  BY DEF Steps, Forth, Back
<1>2. \A e \in Ahead : \E s \in segs : \E off \in 1..s.length : s.fwd /\ e = Forth(s, off)
  OBVIOUS
<1>3. \A e \in Astern : \E s \in segs : \E off \in 1..s.length : s.back /\ e = Back(s, off)
  OBVIOUS
<1>4. ASSUME NEW s \in segs, NEW off \in 1..s.length
      PROVE  (s.fwd => Forth(s, off) \in Ahead) /\ (s.back => Back(s, off) \in Astern)
  OBVIOUS
<1> HIDE DEF Ahead, Astern
<1>5. ASSUME NEW e \in Steps(segs)
      PROVE  \E s \in segs : \E off \in 1..s.length :
              (s.fwd /\ e = Forth(s, off)) \/ (s.back /\ e = Back(s, off))
  BY <1>1, <1>2, <1>3
<1> QED BY <1>1, <1>4, <1>5

\* There are finitely many, between places, and none takes less than no time.
LEMMA StepsAreFine ==
  ASSUME NEW segs, IsGraph(segs)
  PROVE  /\ IsFiniteSet(Steps(segs))
         /\ \A e \in Steps(segs) : e[1] \in Places(segs) /\ e[2] \in Places(segs) /\ e[3] \in Nat
<1>1. \A s \in segs : s.length \in Nat /\ s.pace \in Nat
  BY DEF IsGraph, IsSegment
<1>2. ASSUME NEW s \in segs, NEW off \in 0..s.length PROVE Spot(s, off) \in Places(segs)
  BY DEF Places
<1>3. ASSUME NEW e \in Steps(segs)
      PROVE  e[1] \in Places(segs) /\ e[2] \in Places(segs) /\ e[3] \in Nat
  <2>0. PICK s \in segs : \E off \in 1..s.length : e = Forth(s, off) \/ e = Back(s, off)
    BY StepsAre
  <2>1. PICK off \in 1..s.length : e = Forth(s, off) \/ e = Back(s, off)
    BY <2>0
  <2>2. off \in 0..s.length /\ off - 1 \in 0..s.length
    BY <1>1
  <2>3. Spot(s, off) \in Places(segs) /\ Spot(s, off - 1) \in Places(segs)
    BY <1>2, <2>2
  <2> QED BY <1>1, <2>1, <2>3 DEF Forth, Back
<1>4. ASSUME NEW s \in segs
      PROVE  IsFiniteSet({Forth(s, off) : off \in 1..s.length} \cup {Back(s, off) : off \in 1..s.length})
  <2>1. IsFiniteSet(1..s.length)
    BY <1>1, FS_Interval
  <2> DEFINE ahead == [off \in 1..s.length |-> Forth(s, off)]
             astern == [off \in 1..s.length |-> Back(s, off)]
  <2>2. ahead \in Surjection(1..s.length, {Forth(s, off) : off \in 1..s.length})
    BY DEF Surjection
  <2>3. astern \in Surjection(1..s.length, {Back(s, off) : off \in 1..s.length})
    BY DEF Surjection
  <2>4. IsFiniteSet({Forth(s, off) : off \in 1..s.length})
    BY <2>1, <2>2, FS_Surjection
  <2>5. IsFiniteSet({Back(s, off) : off \in 1..s.length})
    BY <2>1, <2>3, FS_Surjection
  <2> QED BY <2>4, <2>5, FS_Union
<1> DEFINE Both(s) == {Forth(s, off) : off \in 1..s.length} \cup {Back(s, off) : off \in 1..s.length}
           All == {Both(s) : s \in segs}
           both == [s \in segs |-> Both(s)]
<1>5. IsFiniteSet(All)
  <2>1. both \in Surjection(segs, All)
    <3> HIDE DEF Both
    <3> QED BY DEF Surjection
  <2>2. IsFiniteSet(segs)
    BY DEF IsGraph
  <2> HIDE DEF both, All
  <2> QED BY <2>1, <2>2, FS_Surjection
<1>6. \A T \in All : IsFiniteSet(T)
  <2>1. \A s \in segs : IsFiniteSet(Both(s))
    BY <1>4
  <2> HIDE DEF Both
  <2> QED BY <2>1
<1>7. IsFiniteSet(UNION All)
  <2> HIDE DEF All
  <2> QED BY <1>5, <1>6, FS_UNION
<1>8. Steps(segs) \subseteq UNION All
  <2> SUFFICES ASSUME NEW e \in Steps(segs) PROVE \E s \in segs : e \in Both(s)
    OBVIOUS
  <2>0. PICK s \in segs : \E off \in 1..s.length : e = Forth(s, off) \/ e = Back(s, off)
    BY StepsAre
  <2>1. PICK off \in 1..s.length : e = Forth(s, off) \/ e = Back(s, off)
    BY <2>0
  <2> QED BY <2>1
<1>9. IsFiniteSet(Steps(segs))
  <2> HIDE DEF All
  <2> QED BY <1>7, <1>8, FS_Subset
<1> QED BY <1>3, <1>9

\* The times of the drives from a spot, as the least set that has 0 there and
\* is closed under steps.
Closed(segs, D) == \A d \in D : \A e \in Steps(segs) : e[1] = d[1] => <<e[2], d[2] + e[3]>> \in D
Timetable(segs) == Places(segs) \X Nat
Driven(segs, from) ==
  {d \in Timetable(segs) : \A D \in SUBSET Timetable(segs) : <<from, 0>> \in D /\ Closed(segs, D) => d \in D}

\* What is driven from a spot is the least closed set of arrivals that has
\* its start.
LEMMA DrivenIsLeast ==
  ASSUME NEW segs, IsGraph(segs), NEW from \in Places(segs)
  PROVE  /\ Driven(segs, from) \subseteq Timetable(segs)
         /\ <<from, 0>> \in Driven(segs, from)
         /\ Closed(segs, Driven(segs, from))
         /\ \A D \in SUBSET Timetable(segs) :
              <<from, 0>> \in D /\ Closed(segs, D) => Driven(segs, from) \subseteq D
<1>1. Driven(segs, from) \subseteq Timetable(segs)
  BY DEF Driven
<1>2. <<from, 0>> \in Driven(segs, from)
  BY DEF Driven, Timetable
<1>3. \A D \in SUBSET Timetable(segs) :
        <<from, 0>> \in D /\ Closed(segs, D) => Driven(segs, from) \subseteq D
  BY DEF Driven
<1>4. ASSUME NEW d \in Driven(segs, from), NEW e \in Steps(segs), e[1] = d[1]
      PROVE  <<e[2], d[2] + e[3]>> \in Driven(segs, from)
  <2>1. d \in Timetable(segs) /\ e[2] \in Places(segs) /\ e[3] \in Nat
    BY <1>1, StepsAreFine
  <2>2. <<e[2], d[2] + e[3]>> \in Timetable(segs)
    BY <2>1 DEF Timetable
  <2>3. ASSUME NEW D \in SUBSET Timetable(segs), <<from, 0>> \in D, Closed(segs, D)
        PROVE  <<e[2], d[2] + e[3]>> \in D
    <3>1. d \in D
      BY <1>3, <2>3
    <3> QED BY <1>4, <2>3, <3>1 DEF Closed
  <2> QED BY <2>2, <2>3 DEF Driven
<1>5. Closed(segs, Driven(segs, from))
  BY <1>4 DEF Closed
<1> QED BY <1>1, <1>2, <1>3, <1>5

\* The reference's rounds.
More(steps, T) == T \cup UNION {{<<e[2], d[2] + e[3]>> : e \in {e \in steps : e[1] = d[1]}} : d \in T}
Rounds(steps, from, n, b) ==
  b = [i \in 0..n |-> IF i = 0 THEN {<<from, 0>>} ELSE Round(steps, b[i - 1])]

\* A round keeps, of every arrival known or one step further, the earliest
\* of each spot.
LEMMA MoreIs ==
  ASSUME NEW steps, NEW T
  PROVE  /\ T \subseteq More(steps, T)
         /\ \A d \in T : \A e \in steps : e[1] = d[1] => <<e[2], d[2] + e[3]>> \in More(steps, T)
         /\ \A x \in More(steps, T) : x \in T \/ \E d \in T : \E e \in steps :
              e[1] = d[1] /\ x = <<e[2], d[2] + e[3]>>
         /\ Round(steps, T) = {d \in More(steps, T) : \A o \in More(steps, T) : o[1] = d[1] => d[2] <= o[2]}
<1> DEFINE From(d) == {<<e[2], d[2] + e[3]>> : e \in {e \in steps : e[1] = d[1]}}
           New == UNION {From(d) : d \in T}
<1>1. More(steps, T) = T \cup New
  BY DEF More
<1>2. \A d \in T : \A e \in steps : e[1] = d[1] => <<e[2], d[2] + e[3]>> \in New
  OBVIOUS
<1>3. \A x \in New : \E d \in T : \E e \in steps : e[1] = d[1] /\ x = <<e[2], d[2] + e[3]>>
  OBVIOUS
<1>4. Round(steps, T) = {d \in More(steps, T) : \A o \in More(steps, T) : o[1] = d[1] => d[2] <= o[2]}
  BY DEF Round, More
<1> HIDE DEF New
<1> QED BY <1>1, <1>2, <1>3, <1>4

\* The recursion of the rounds has a solution, up to every number.
LEMMA RoundsThereAre ==
  ASSUME NEW steps, NEW from, NEW n \in Nat
  PROVE  \E b : Rounds(steps, from, n, b)
<1> DEFINE P == {k \in Nat : \E b : Rounds(steps, from, k, b)}
<1>1. 0 \in P
  <2> DEFINE b == [i \in 0..0 |-> {<<from, 0>>}]
  <2>1. b = [i \in 0..0 |-> IF i = 0 THEN {<<from, 0>>} ELSE Round(steps, b[i - 1])]
    OBVIOUS
  <2>2. Rounds(steps, from, 0, b)
    BY <2>1 DEF Rounds
  <2> QED BY <2>2
<1>2. ASSUME NEW k \in Nat, k \in P PROVE k + 1 \in P
  <2>1. PICK b : Rounds(steps, from, k, b)
    BY <1>2
  <2> DEFINE last == Round(steps, b[k])
             f == [i \in 0..(k + 1) |-> IF i <= k THEN b[i] ELSE last]
  <2>2. \A i \in 0..k : b[i] = IF i = 0 THEN {<<from, 0>>} ELSE Round(steps, b[i - 1])
    BY <2>1, Zenon DEF Rounds
  <2> HIDE DEF last
  <2>3. ASSUME NEW i \in 0..(k + 1)
        PROVE  f[i] = IF i = 0 THEN {<<from, 0>>} ELSE Round(steps, f[i - 1])
    <3>1. CASE i <= k
      <4>0. i \in 0..k
        BY <3>1
      <4>1. f[i] = b[i] /\ (i # 0 => f[i - 1] = b[i - 1])
        BY <3>1
      <4>2. b[i] = IF i = 0 THEN {<<from, 0>>} ELSE Round(steps, b[i - 1])
        BY <2>2, <4>0
      <4> HIDE DEF f
      <4> QED BY <4>1, <4>2
    <3>2. CASE i = k + 1
      <4>1. f[i] = last /\ f[i - 1] = b[k] /\ i # 0
        BY <3>2
      <4>2. last = Round(steps, b[k])
        BY DEF last
      <4> HIDE DEF f
      <4> QED BY <4>1, <4>2
    <3> QED BY <3>1, <3>2
  <2>4. f = [i \in 0..(k + 1) |-> f[i]]
    OBVIOUS
  <2> HIDE DEF f
  <2>5. Rounds(steps, from, k + 1, f)
    BY <2>3, <2>4 DEF Rounds
  <2> QED BY <2>5
<1>3. n \in P
  <2> HIDE DEF P
  <2> QED BY <1>1, <1>2, FromZeroOn
<1> QED BY <1>3

\* The reference times are the last of as many rounds as there are steps.
LEMMA DriveTimesAreRounds ==
  ASSUME NEW segs, NEW from, Cardinality(Steps(segs)) \in Nat
  PROVE  \E b : /\ Rounds(Steps(segs), from, Cardinality(Steps(segs)), b)
                /\ DriveTimes(segs, from) = b[Cardinality(Steps(segs))]
<1> DEFINE n == Cardinality(Steps(segs))
           steps == Steps(segs)
           best == CHOOSE b : Rounds(steps, from, n, b)
<1>1. DriveTimes(segs, from) = best[n]
  BY DEF DriveTimes, Rounds
<1>2. \E b : Rounds(steps, from, n, b)
  <2> HIDE DEF steps
  <2> QED BY RoundsThereAre
<1>3. Rounds(steps, from, n, best)
  <2> HIDE DEF steps, n
  <2> QED BY <1>2
<1> HIDE DEF best
<1> QED BY <1>1, <1>3

\* The best drives: to each spot the least there is.
BestDrives(segs, from) ==
  {d \in Driven(segs, from) : \A o \in Driven(segs, from) : o[1] = d[1] => d[2] <= o[2]}

\* Every spot that is driven to has one best time, no later than any other.
LEMMA BestThereAre ==
  ASSUME NEW segs, IsGraph(segs), NEW from \in Places(segs)
  PROVE  /\ \A d \in Driven(segs, from) : \E t \in BestDrives(segs, from) : t[1] = d[1] /\ t[2] <= d[2]
         /\ \A d, t \in BestDrives(segs, from) : d[1] = t[1] => d = t
         /\ <<from, 0>> \in BestDrives(segs, from)
<1> DEFINE D == Driven(segs, from)
<1>1. \A d \in D : d = <<d[1], d[2]>> /\ d[2] \in Nat /\ d[1] \in Places(segs)
  <2>1. D \subseteq Places(segs) \X Nat
    BY DrivenIsLeast DEF Timetable
  <2> HIDE DEF D
  <2> QED BY <2>1
<1>2. BestDrives(segs, from) = {d \in D : \A o \in D : o[1] = d[1] => d[2] <= o[2]}
  BY DEF BestDrives
<1>3. <<from, 0>> \in D
  BY DrivenIsLeast
<1> HIDE DEF D
<1>4. ASSUME NEW d \in D PROVE \E t \in BestDrives(segs, from) : t[1] = d[1] /\ t[2] <= d[2]
  <2> DEFINE S == {o[2] : o \in {o \in D : o[1] = d[1]}}
  <2>1. S \subseteq Nat /\ d[2] \in S
    BY <1>1
  <2>2. \A n \in S : \E o \in D : o[1] = d[1] /\ o[2] = n
    OBVIOUS
  <2>3. \A o \in D : o[1] = d[1] => o[2] \in S
    OBVIOUS
  <2> HIDE DEF S
  <2>4. PICK least \in S : \A n \in S : least <= n
    BY <2>1, LeastOf
  <2>5. PICK t \in D : t[1] = d[1] /\ t[2] = least
    BY <2>2
  <2>6. \A o \in D : o[1] = t[1] => t[2] <= o[2]
    BY <2>3, <2>4, <2>5
  <2> QED BY <1>2, <2>1, <2>4, <2>5, <2>6
<1>5. ASSUME NEW d \in BestDrives(segs, from), NEW t \in BestDrives(segs, from), d[1] = t[1]
      PROVE  d = t
  <2>1. d \in D /\ t \in D /\ d[2] <= t[2] /\ t[2] <= d[2]
    BY <1>2, <1>5
  <2>2. d[2] = t[2]
    BY <1>1, <2>1
  <2> QED BY <1>1, <1>5, <2>1, <2>2
<1>6. <<from, 0>> \in BestDrives(segs, from)
  <2>1. \A o \in D : 0 <= o[2]
    BY <1>1
  <2> QED BY <1>2, <1>3, <2>1
<1> QED BY <1>4, <1>5, <1>6 DEF D

\* There are no more of them than steps, but for the start.
LEMMA BestAreFew ==
  ASSUME NEW segs, IsGraph(segs), NEW from \in Places(segs)
  PROVE  /\ Cardinality(Steps(segs)) \in Nat
         /\ IsFiniteSet(BestDrives(segs, from))
         /\ Cardinality(BestDrives(segs, from)) <= Cardinality(Steps(segs)) + 1
<1> DEFINE D == Driven(segs, from)
           B == BestDrives(segs, from)
           ends == {e[2] : e \in Steps(segs)}
           X == ends \cup {from}
           N == Cardinality(Steps(segs))
<1>1. IsFiniteSet(Steps(segs)) /\ N \in Nat
  BY StepsAreFine, FS_CardinalityType
<1>2. IsFiniteSet(ends) /\ Cardinality(ends) <= N
  <2> DEFINE end == [e \in Steps(segs) |-> e[2]]
  <2>1. end \in Surjection(Steps(segs), ends)
    BY DEF Surjection
  <2> HIDE DEF end, ends
  <2> QED BY <1>1, <2>1, FS_Surjection
<1>3. IsFiniteSet(X) /\ Cardinality(X) <= N + 1 /\ Cardinality(X) \in Nat
  <2>1. IsFiniteSet(X) /\ Cardinality(X) = IF from \in ends THEN Cardinality(ends) ELSE Cardinality(ends) + 1
    <3> HIDE DEF ends
    <3> QED BY <1>2, FS_AddElement
  <2>2. Cardinality(ends) \in Nat /\ Cardinality(X) \in Nat
    <3> HIDE DEF ends, X
    <3> QED BY <1>2, <2>1, FS_CardinalityType
  <2> HIDE DEF ends, X, N
  <2> QED BY <1>1, <1>2, <2>1, <2>2
<1>4. \A d \in B : d \in D /\ d[1] \in X
  <2> DEFINE Z == {d \in Timetable(segs) : d[1] \in X}
  <2>1. <<from, 0>> \in Z
    BY DEF Timetable
  <2>2. Closed(segs, Z)
    <3> SUFFICES ASSUME NEW d \in Z, NEW e \in Steps(segs), e[1] = d[1]
                 PROVE  <<e[2], d[2] + e[3]>> \in Z
      BY DEF Closed
    <3>1. e[2] \in X /\ e[2] \in Places(segs) /\ e[3] \in Nat /\ d[2] \in Nat
      BY StepsAreFine DEF Timetable
    <3>2. <<e[2], d[2] + e[3]>> \in Timetable(segs)
      BY <3>1 DEF Timetable
    <3> QED BY <3>1, <3>2
  <2>3. Z \in SUBSET Timetable(segs)
    OBVIOUS
  <2>4. \A d \in Z : d[1] \in X
    OBVIOUS
  <2> HIDE DEF Z, X
  <2>5. D \subseteq Z
    BY <2>1, <2>2, <2>3, DrivenIsLeast
  <2> QED BY <2>4, <2>5 DEF BestDrives
<1>5. IsFiniteSet(B) /\ Cardinality(B) <= Cardinality(X)
  <2> DEFINE spot == [d \in B |-> d[1]]
  <2>1. \A d, t \in B : d[1] = t[1] => d = t
    BY BestThereAre
  <2> HIDE DEF B, X
  <2>2. spot \in Injection(B, X)
    BY <1>4, <2>1 DEF Injection, IsInjective
  <2> HIDE DEF spot
  <2> QED BY <1>3, <2>2, FS_Injection
<1>6. Cardinality(B) \in Nat
  BY <1>5, FS_CardinalityType
<1> HIDE DEF B, X, N
<1>7. Cardinality(B) <= N + 1
  BY <1>1, <1>3, <1>5, <1>6
<1> QED BY <1>1, <1>5, <1>7 DEF B, N

-----------------------------------------------------------------------------
(* From the reference rounds to the least times.                           *)

\* Taking more steps keeps the best drives and adds the best that extend them.
LEMMA RoundKeepsBest ==
  ASSUME NEW segs, IsGraph(segs), NEW from \in Places(segs), NEW T \in SUBSET Driven(segs, from)
  PROVE  /\ Round(Steps(segs), T) \subseteq Driven(segs, from)
         /\ BestDrives(segs, from) \cap T \subseteq Round(Steps(segs), T)
         /\ \A d \in T : \A e \in Steps(segs) :
              e[1] = d[1] /\ <<e[2], d[2] + e[3]>> \in BestDrives(segs, from)
              => <<e[2], d[2] + e[3]>> \in Round(Steps(segs), T)
<1> DEFINE D == Driven(segs, from)
           B == BestDrives(segs, from)
           steps == Steps(segs)
           M == More(steps, T)
<1>1. /\ T \subseteq M
      /\ \A d \in T : \A e \in steps : e[1] = d[1] => <<e[2], d[2] + e[3]>> \in M
      /\ \A x \in M : x \in T \/ \E d \in T : \E e \in steps : e[1] = d[1] /\ x = <<e[2], d[2] + e[3]>>
      /\ Round(steps, T) = {d \in M : \A o \in M : o[1] = d[1] => d[2] <= o[2]}
  <2> HIDE DEF steps
  <2> QED BY MoreIs
<1>2. \A d \in D : \A e \in steps : e[1] = d[1] => <<e[2], d[2] + e[3]>> \in D
  BY DrivenIsLeast DEF Closed
<1>3. B = {d \in D : \A o \in D : o[1] = d[1] => d[2] <= o[2]}
  BY DEF BestDrives
<1>4. T \subseteq D
  OBVIOUS
<1> HIDE DEF D, B, steps, M
<1>5. M \subseteq D
  BY <1>1, <1>2, <1>4
<1>6. \A x \in M : x \in B => x \in Round(steps, T)
  BY <1>1, <1>3, <1>5
<1> QED BY <1>1, <1>5, <1>6 DEF D, B, steps

\* What has the start and every best extension has all of the best.
LEMMA BestSpreads ==
  ASSUME NEW segs, IsGraph(segs), NEW from \in Places(segs), NEW G \in SUBSET BestDrives(segs, from),
         <<from, 0>> \in G,
         \A d \in G : \A e \in Steps(segs) :
            e[1] = d[1] /\ <<e[2], d[2] + e[3]>> \in BestDrives(segs, from) => <<e[2], d[2] + e[3]>> \in G
  PROVE  BestDrives(segs, from) \subseteq G
<1> DEFINE D == Driven(segs, from)
           B == BestDrives(segs, from)
           Z == {d \in Timetable(segs) : \E t \in B : t[1] = d[1] /\ t[2] <= d[2] /\ (t \in G \/ t[2] < d[2])}
<1>1. /\ B \subseteq D /\ D \subseteq Timetable(segs)
      /\ \A d \in D : \A e \in Steps(segs) : e[1] = d[1] => <<e[2], d[2] + e[3]>> \in D
  BY DrivenIsLeast DEF Closed, BestDrives
<1>2. /\ \A d \in D : \E t \in B : t[1] = d[1] /\ t[2] <= d[2]
      /\ \A d, t \in B : d[1] = t[1] => d = t
      /\ <<from, 0>> \in B
  BY BestThereAre
<1>3. \A d \in Timetable(segs) : d = <<d[1], d[2]>> /\ d[2] \in Nat
  BY DEF Timetable
<1> HIDE DEF D, B
<1>4. <<from, 0>> \in Z
  BY <1>1, <1>2
<1>5. Closed(segs, Z)
  <2> SUFFICES ASSUME NEW d \in Z, NEW e \in Steps(segs), e[1] = d[1]
               PROVE  <<e[2], d[2] + e[3]>> \in Z
    BY DEF Closed
  <2>1. e[2] \in Places(segs) /\ e[3] \in Nat
    BY StepsAreFine
  <2>2. d[2] \in Nat
    BY <1>3
  <2>3. <<e[2], d[2] + e[3]>> \in Timetable(segs)
    BY <2>1, <2>2 DEF Timetable
  <2>4. PICK t \in B : t[1] = d[1] /\ t[2] <= d[2] /\ (t \in G \/ t[2] < d[2])
    OBVIOUS
  <2>5. t \in D /\ t[2] \in Nat
    BY <1>1, <1>3
  <2> DEFINE y == <<e[2], t[2] + e[3]>>
  <2>6. y \in D /\ y[1] = e[2] /\ y[2] = t[2] + e[3]
    BY <1>1, <2>4, <2>5
  <2>7. PICK u \in B : u[1] = y[1] /\ u[2] <= y[2]
    BY <1>2, <2>6
  <2>8. u = <<u[1], u[2]>> /\ u[2] \in Nat
    BY <1>1, <1>3
  <2>9. CASE t \in G /\ u[2] = y[2]
    <3>1. u = y
      BY <2>6, <2>7, <2>8, <2>9
    <3>2. u \in G
      BY <2>4, <2>9, <3>1 DEF B
    <3>3. u[1] = e[2] /\ u[2] <= d[2] + e[3]
      BY <2>1, <2>2, <2>4, <2>5, <2>6, <2>7, <2>8
    <3> QED BY <2>3, <3>2, <3>3
  <2>10. CASE ~(t \in G /\ u[2] = y[2])
    <3>1. u[1] = e[2] /\ u[2] < d[2] + e[3]
      BY <2>1, <2>2, <2>4, <2>5, <2>6, <2>7, <2>8, <2>10
    <3>2. u[2] <= d[2] + e[3]
      BY <2>1, <2>2, <2>8, <3>1
    <3> HIDE DEF y
    <3> QED BY <2>3, <3>1, <3>2
  <2> QED BY <2>9, <2>10
<1>6. Z \in SUBSET Timetable(segs)
  OBVIOUS
<1>7. D \subseteq Z
  <2> HIDE DEF Z
  <2> QED BY <1>4, <1>5, <1>6, DrivenIsLeast DEF D
<1>8. ASSUME NEW d \in B PROVE d \in G
  <2>1. PICK t \in B : t[1] = d[1] /\ t[2] <= d[2] /\ (t \in G \/ t[2] < d[2])
    BY <1>1, <1>7
  <2>2. t = d /\ d[2] \in Nat
    BY <1>1, <1>2, <1>3, <2>1
  <2> QED BY <2>1, <2>2
<1> QED BY <1>8 DEF B

\* The reference's table: only times there are, and every least one.
LEMMA DriveTimesAreLeast ==
  ASSUME NEW segs, IsGraph(segs), NEW from \in Places(segs)
  PROVE  /\ DriveTimes(segs, from) \subseteq Driven(segs, from)
         /\ BestDrives(segs, from) \subseteq DriveTimes(segs, from)
<1> DEFINE steps == Steps(segs)
           N == Cardinality(Steps(segs))
           B == BestDrives(segs, from)
           D == Driven(segs, from)
<1>1. N \in Nat /\ IsFiniteSet(B) /\ Cardinality(B) <= N + 1 /\ Cardinality(B) \in Nat
  BY BestAreFew, FS_CardinalityType
<1>2. PICK b : Rounds(steps, from, N, b) /\ DriveTimes(segs, from) = b[N]
  BY <1>1, DriveTimesAreRounds
<1>3. \A i \in 0..N : b[i] = IF i = 0 THEN {<<from, 0>>} ELSE Round(steps, b[i - 1])
  BY <1>2, Zenon DEF Rounds
<1>4. <<from, 0>> \in D /\ <<from, 0>> \in B /\ B \subseteq D
  BY DrivenIsLeast, BestThereAre DEF BestDrives
<1> HIDE DEF N
<1>5. b[0] = {<<from, 0>>} /\ \A i \in Nat : i + 1 <= N => b[i + 1] = Round(steps, b[i])
  <2>1. 0 \in 0..N /\ \A i \in Nat : i + 1 <= N => i + 1 \in 0..N /\ i + 1 # 0 /\ i + 1 - 1 = i
    BY <1>1
  <2> HIDE DEF steps
  <2> QED BY <1>3, <2>1
<1> DEFINE P == {k \in Nat : k <= N => b[k] \subseteq D}
<1>6. 0 \in P
  <2> HIDE DEF D
  <2> QED BY <1>4, <1>5
<1>7. ASSUME NEW k \in Nat, k \in P PROVE k + 1 \in P
  <2> SUFFICES ASSUME k + 1 <= N PROVE b[k + 1] \subseteq D
    OBVIOUS
  <2>1. b[k] \in SUBSET D
    BY <1>1, <1>7
  <2>2. b[k + 1] = Round(steps, b[k])
    BY <1>5
  <2>3. Round(steps, b[k]) \subseteq D
    BY <2>1, RoundKeepsBest
  <2> QED BY <2>2, <2>3
<1>8. \A k \in Nat : k <= N => b[k] \subseteq D
  <2>1. Nat \subseteq P
    <3> HIDE DEF P
    <3> QED BY <1>6, <1>7, FromZeroOn
  <2> QED BY <2>1
<1> DEFINE Got(k) == B \cap b[k]
           Q == {k \in Nat : k <= N => B \subseteq b[k] \/ Cardinality(Got(k)) >= k + 1}
<1>9. \A k \in Nat : IsFiniteSet(Got(k)) /\ Cardinality(Got(k)) \in Nat
  <2> SUFFICES ASSUME NEW k \in Nat PROVE IsFiniteSet(Got(k)) /\ Cardinality(Got(k)) \in Nat
    OBVIOUS
  <2>1. Got(k) \subseteq B
    OBVIOUS
  <2> HIDE DEF Got, B
  <2> QED BY <1>1, <2>1, FS_Subset, FS_CardinalityType
<1>10. 0 \in Q
  <2>1. Got(0) = {<<from, 0>>}
    <3> HIDE DEF B
    <3> QED BY <1>4, <1>5
  <2>2. Cardinality(Got(0)) = 1
    <3> HIDE DEF Got
    <3> QED BY <2>1, FS_Singleton
  <2> QED BY <2>2
<1>11. ASSUME NEW k \in Nat, k \in Q PROVE k + 1 \in Q
  <2> SUFFICES ASSUME k + 1 <= N PROVE B \subseteq b[k + 1] \/ Cardinality(Got(k + 1)) >= k + 1 + 1
    OBVIOUS
  <2>1. b[k] \in SUBSET D /\ b[k + 1] = Round(steps, b[k]) /\ k <= N
    BY <1>1, <1>5, <1>8
  <2>2. /\ B \cap b[k] \subseteq b[k + 1]
        /\ \A d \in b[k] : \A e \in steps :
             e[1] = d[1] /\ <<e[2], d[2] + e[3]>> \in B => <<e[2], d[2] + e[3]>> \in b[k + 1]
    <3>1. /\ B \cap b[k] \subseteq Round(steps, b[k])
          /\ \A d \in b[k] : \A e \in steps :
               e[1] = d[1] /\ <<e[2], d[2] + e[3]>> \in B => <<e[2], d[2] + e[3]>> \in Round(steps, b[k])
      BY <2>1, RoundKeepsBest
    <3> QED BY <2>1, <3>1
  <2>3. CASE B \subseteq b[k]
    BY <2>2, <2>3
  <2>4. CASE ~(B \subseteq b[k])
    <3>1. Cardinality(Got(k)) >= k + 1 /\ Cardinality(Got(k)) \in Nat /\ IsFiniteSet(Got(k))
      BY <1>9, <1>11, <2>1, <2>4
    <3>2. <<from, 0>> \in Got(k)
      <4> DEFINE R == {i \in Nat : i <= k => <<from, 0>> \in b[i]}
      <4>1. 0 \in R
        BY <1>5
      <4>2. ASSUME NEW i \in Nat, i \in R PROVE i + 1 \in R
        <5> SUFFICES ASSUME i + 1 <= k PROVE <<from, 0>> \in b[i + 1]
          OBVIOUS
        <5>1. <<from, 0>> \in b[i] /\ i <= N /\ i + 1 <= N
          BY <1>1, <2>1, <4>2
        <5>2. b[i] \in SUBSET D /\ b[i + 1] = Round(steps, b[i])
          BY <1>5, <1>8, <5>1
        <5>3. B \cap b[i] \subseteq Round(steps, b[i])
          BY <5>2, RoundKeepsBest
        <5> HIDE DEF B
        <5> QED BY <1>4, <5>1, <5>2, <5>3
      <4>3. Nat \subseteq R
        <5> HIDE DEF R
        <5> QED BY <4>1, <4>2, FromZeroOn
      <4>4. k \in R
        BY <4>3
      <4> HIDE DEF B
      <4> QED BY <1>4, <4>4
    <3>3. ~(B \subseteq Got(k)) /\ Got(k) \in SUBSET B
      BY <2>4
    <3>4. PICK d \in Got(k), e \in steps :
            e[1] = d[1] /\ <<e[2], d[2] + e[3]>> \in B /\ <<e[2], d[2] + e[3]>> \notin Got(k)
      <4> HIDE DEF Got
      <4> QED BY <3>2, <3>3, BestSpreads
    <3> DEFINE x == <<e[2], d[2] + e[3]>>
    <3>5. x \in B /\ x \notin Got(k) /\ x \in b[k + 1]
      BY <2>2, <3>4
    <3> HIDE DEF x
    <3>6. Got(k) \cup {x} \subseteq Got(k + 1)
      <4> HIDE DEF B
      <4> QED BY <2>2, <3>5
    <3> HIDE DEF Got
    <3>7. Cardinality(Got(k) \cup {x}) = Cardinality(Got(k)) + 1 /\ IsFiniteSet(Got(k) \cup {x})
      BY <3>1, <3>5, FS_AddElement
    <3>8. IsFiniteSet(Got(k + 1)) /\ Cardinality(Got(k + 1)) \in Nat
      BY <1>9
    <3>9. Cardinality(Got(k) \cup {x}) <= Cardinality(Got(k + 1))
      BY <3>6, <3>8, FS_Subset
    <3> QED BY <3>1, <3>7, <3>8, <3>9
  <2> QED BY <2>3, <2>4
<1>12. B \subseteq b[N]
  <2>1. Nat \subseteq Q
    <3> HIDE DEF Q
    <3> QED BY <1>10, <1>11, FromZeroOn
  <2>2. N \in Q
    BY <1>1, <2>1
  <2>3. ASSUME Cardinality(Got(N)) >= N + 1 PROVE B \subseteq b[N]
    <3>1. Got(N) \subseteq B
      OBVIOUS
    <3>2. Cardinality(Got(N)) <= Cardinality(B) /\ (Cardinality(Got(N)) = Cardinality(B) => Got(N) = B)
      <4> HIDE DEF Got, B
      <4> QED BY <1>1, <3>1, FS_Subset
    <3>3. Cardinality(Got(N)) = Cardinality(B)
      <4> HIDE DEF Got, B
      <4> QED BY <1>1, <1>9, <2>3, <3>2
    <3> QED BY <3>2, <3>3
  <2> QED BY <1>1, <2>2, <2>3
<1>13. b[N] \subseteq D
  BY <1>1, <1>8
<1> QED BY <1>2, <1>12, <1>13

\* A drive along a segment, whichever way it may be driven.
LEMMA DriveAlong ==
  ASSUME NEW segs, IsGraph(segs), NEW D \in SUBSET Timetable(segs), Closed(segs, D),
         NEW s \in segs, NEW t \in Nat, NEW i \in 0..s.length, NEW j \in 0..s.length,
         <<Spot(s, i), t>> \in D
  PROVE  /\ s.fwd /\ i <= j => <<Spot(s, j), t + (j - i) * s.pace>> \in D
         /\ s.back /\ j <= i => <<Spot(s, j), t + (i - j) * s.pace>> \in D
<1>1. s.length \in Nat /\ s.pace \in Nat
  BY DEF IsGraph, IsSegment
<1>2. \A off \in 1..s.length : /\ s.fwd => Forth(s, off) \in Steps(segs)
                               /\ s.back => Back(s, off) \in Steps(segs)
  BY StepsAre
<1>3. \A k \in Nat : (k + 1) * s.pace = k * s.pace + s.pace /\ k * s.pace \in Nat
  <2> SUFFICES ASSUME NEW k \in Nat PROVE (k + 1) * s.pace = k * s.pace + s.pace /\ k * s.pace \in Nat
    OBVIOUS
  <2> DEFINE pace == s.pace
  <2>1. pace \in Nat
    BY <1>1
  <2> HIDE DEF pace
  <2>2. (k + 1) * pace = k * pace + pace /\ k * pace \in Nat
    BY <2>1
  <2> QED BY <2>2 DEF pace
<1> DEFINE pace == s.pace
<1>4. ASSUME s.fwd, i <= j PROVE <<Spot(s, j), t + (j - i) * s.pace>> \in D
  <2> DEFINE P == {k \in Nat : i + k <= s.length => <<Spot(s, i + k), t + k * pace>> \in D}
  <2>1. 0 \in P
    <3>1. i + 0 = i /\ t + 0 * pace = t
      BY <1>1
    <3> HIDE DEF pace
    <3> QED BY <3>1
  <2>2. ASSUME NEW k \in Nat, k \in P PROVE k + 1 \in P
    <3> SUFFICES ASSUME i + (k + 1) <= s.length PROVE <<Spot(s, i + (k + 1)), t + (k + 1) * pace>> \in D
      OBVIOUS
    <3> DEFINE e == Forth(s, i + (k + 1))
    <3>1. i + k <= s.length /\ i + (k + 1) \in 1..s.length /\ (i + (k + 1)) - 1 = i + k
      BY <1>1
    <3>2. e \in Steps(segs) /\ e[1] = Spot(s, i + k) /\ e[2] = Spot(s, i + (k + 1)) /\ e[3] = pace
      BY <1>2, <1>4, <3>1 DEF Forth
    <3>3. <<Spot(s, i + k), t + k * pace>> \in D
      BY <2>2, <3>1
    <3>4. t + (k + 1) * pace = (t + k * pace) + pace
      BY <1>1, <1>3
    <3> HIDE DEF e, pace
    <3> DEFINE d == <<Spot(s, i + k), t + k * pace>>
    <3>5. d \in D /\ d[1] = e[1] /\ d[2] = t + k * pace
      BY <3>2, <3>3
    <3> HIDE DEF d
    <3>6. <<e[2], d[2] + e[3]>> \in D
      BY <3>2, <3>5 DEF Closed
    <3> QED BY <3>2, <3>4, <3>5, <3>6
  <2>3. j - i \in P
    <3>1. Nat \subseteq P
      <4> HIDE DEF P
      <4> QED BY <2>1, <2>2, FromZeroOn
    <3>2. j - i \in Nat
      BY <1>1, <1>4
    <3> QED BY <3>1, <3>2
  <2>4. i + (j - i) = j /\ j <= s.length
    BY <1>1
  <2> QED BY <2>3, <2>4
<1>5. ASSUME s.back, j <= i PROVE <<Spot(s, j), t + (i - j) * s.pace>> \in D
  <2> DEFINE P == {k \in Nat : k <= i => <<Spot(s, i - k), t + k * pace>> \in D}
  <2>1. 0 \in P
    <3>1. i - 0 = i /\ t + 0 * pace = t
      BY <1>1
    <3> HIDE DEF pace
    <3> QED BY <3>1
  <2>2. ASSUME NEW k \in Nat, k \in P PROVE k + 1 \in P
    <3> SUFFICES ASSUME k + 1 <= i PROVE <<Spot(s, i - (k + 1)), t + (k + 1) * pace>> \in D
      OBVIOUS
    <3> DEFINE e == Back(s, i - k)
    <3>1. k <= i /\ i - k \in 1..s.length /\ (i - k) - 1 = i - (k + 1)
      BY <1>1
    <3>2. e \in Steps(segs) /\ e[1] = Spot(s, i - k) /\ e[2] = Spot(s, i - (k + 1)) /\ e[3] = pace
      BY <1>2, <1>5, <3>1 DEF Back
    <3>3. <<Spot(s, i - k), t + k * pace>> \in D
      BY <2>2, <3>1
    <3>4. t + (k + 1) * pace = (t + k * pace) + pace
      BY <1>1, <1>3
    <3> HIDE DEF e, pace
    <3> DEFINE d == <<Spot(s, i - k), t + k * pace>>
    <3>5. d \in D /\ d[1] = e[1] /\ d[2] = t + k * pace
      BY <3>2, <3>3
    <3> HIDE DEF d
    <3>6. <<e[2], d[2] + e[3]>> \in D
      BY <3>2, <3>5 DEF Closed
    <3> QED BY <3>2, <3>4, <3>5, <3>6
  <2>3. i - j \in P
    <3>1. Nat \subseteq P
      <4> HIDE DEF P
      <4> QED BY <2>1, <2>2, FromZeroOn
    <3>2. i - j \in Nat
      BY <1>1, <1>5
    <3> QED BY <3>1, <3>2
  <2>4. i - (i - j) = j /\ i - j <= i
    BY <1>1
  <2> QED BY <2>3, <2>4
<1> QED BY <1>4, <1>5

\* A position of a graph, and the drives between two.
IsPosition(segs, s) == s.seg \in segs /\ s.off \in 0..s.seg.length
SpotAt(s) == Spot(s.seg, s.off)

\* A position of a segment is a place of the graph.
LEMMA PositionsArePlaces ==
  ASSUME NEW segs, NEW s, IsPosition(segs, s)
  PROVE  SpotAt(s) \in Places(segs)
<1> DEFINE g == s.seg
<1>1. g \in segs /\ s.off \in 0..g.length
  BY DEF IsPosition
<1>2. Spot(g, s.off) \in {Spot(g, off) : off \in 0..g.length}
  BY <1>1
<1> QED BY <1>1, <1>2 DEF Places, SpotAt

\* What the seeds are.
LEMMA SeedsAre ==
  ASSUME NEW s, NEW f, NEW x \in SeedsAt(s, f)
  PROVE  /\ x.source = f
         /\ \/ x.node = s.seg.a /\ x.cost = s.off * s.seg.pace /\ (s.seg.back \/ s.off = 0)
            \/ /\ x.node = s.seg.c /\ x.cost = (s.seg.length - s.off) * s.seg.pace
               /\ s.seg.fwd \/ s.seg.length - s.off = 0
<1> DEFINE g == s.seg
           rA == [node |-> g.a, cost |-> s.off * g.pace, source |-> f]
           rC == [node |-> g.c, cost |-> (g.length - s.off) * g.pace, source |-> f]
           mayA == g.back \/ s.off = 0
           mayC == g.fwd \/ g.length - s.off = 0
<1>1. SeedsAt(s, f) = (IF mayA THEN {rA} ELSE {}) \cup (IF mayC THEN {rC} ELSE {})
  BY DEF SeedsAt
<1>2. x \in (IF mayA THEN {rA} ELSE {}) \cup (IF mayC THEN {rC} ELSE {})
  BY <1>1, Zenon
<1>3. (x = rA /\ mayA) \/ (x = rC /\ mayC)
  <2> HIDE DEF rA, rC, mayA, mayC
  <2> QED BY <1>2
<1>4. CASE x = rA /\ mayA
  <2>1. x.node = g.a /\ x.cost = s.off * g.pace /\ x.source = f
    BY <1>4
  <2> QED BY <1>4, <2>1
<1>5. CASE x = rC /\ mayC
  <2>1. x.node = g.c /\ x.cost = (g.length - s.off) * g.pace /\ x.source = f
    BY <1>5
  <2> QED BY <1>5, <2>1
<1> QED BY <1>3, <1>4, <1>5

\* And that they are there.
LEMMA SeedsThereAre ==
  ASSUME NEW s, NEW f
  PROVE  /\ s.seg.back \/ s.off = 0 =>
              [node |-> s.seg.a, cost |-> s.off * s.seg.pace, source |-> f] \in SeedsAt(s, f)
         /\ s.seg.fwd \/ s.seg.length - s.off = 0 =>
              [node |-> s.seg.c, cost |-> (s.seg.length - s.off) * s.seg.pace, source |-> f] \in SeedsAt(s, f)
<1> DEFINE g == s.seg
           rA == [node |-> g.a, cost |-> s.off * g.pace, source |-> f]
           rC == [node |-> g.c, cost |-> (g.length - s.off) * g.pace, source |-> f]
           mayA == g.back \/ s.off = 0
           mayC == g.fwd \/ g.length - s.off = 0
<1>1. SeedsAt(s, f) = (IF mayA THEN {rA} ELSE {}) \cup (IF mayC THEN {rC} ELSE {})
  BY DEF SeedsAt
<1>2. (mayA => rA \in SeedsAt(s, f)) /\ (mayC => rC \in SeedsAt(s, f))
  <2> HIDE DEF rA, rC, mayA, mayC
  <2> QED BY <1>1
<1> QED BY <1>2

\* The times along a segment, from a position of it to either end.
LEMMA TimesAlong ==
  ASSUME NEW off \in Nat, NEW length \in Nat, NEW pace \in Nat, off <= length
  PROVE  /\ off * pace \in Nat /\ (length - off) * pace \in Nat
         /\ off = 0 => off * pace = 0
         /\ length - off = 0 => (length - off) * pace = 0 /\ off = length
<1>1. length - off \in Nat
  OBVIOUS
<1> QED BY <1>1

\* The seeds of a facility are drives from it.
LEMMA SeedsAreDriven ==
  ASSUME NEW segs, IsGraph(segs), NEW s, IsPosition(segs, s), NEW f, NEW x \in SeedsAt(s, f)
  PROVE  /\ x.source = f /\ x.cost \in Nat
         /\ <<x.node, x.cost>> \in Driven(segs, SpotAt(s))
<1> DEFINE g == s.seg
           off == s.off
           length == g.length
           pace == g.pace
           D == Driven(segs, SpotAt(s))
<1>1. g \in segs /\ off \in 0..length /\ off \in Nat /\ length \in Nat /\ pace \in Nat /\ off <= length
      /\ 0 \in 0..length /\ length \in 0..length
  BY DEF IsPosition, IsGraph, IsSegment
<1>2. IsSegment(g)
  BY <1>1 DEF IsGraph
<1>3. Spot(g, 0) = g.a /\ Spot(g, length) = g.c
  BY <1>2, SpotsOf
<1>4. SpotAt(s) \in Places(segs)
  BY PositionsArePlaces
<1>5. D \in SUBSET Timetable(segs) /\ Closed(segs, D) /\ <<Spot(g, off), 0>> \in D
  BY <1>4, DrivenIsLeast DEF SpotAt
<1>6. \/ x.node = g.a /\ x.cost = off * pace /\ (g.back \/ off = 0)
      \/ x.node = g.c /\ x.cost = (length - off) * pace /\ (g.fwd \/ length - off = 0)
  BY SeedsAre
<1>7. x.source = f
  BY SeedsAre
<1> HIDE DEF D, off
<1>8. /\ off * pace \in Nat /\ (length - off) * pace \in Nat
      /\ off = 0 => off * pace = 0
      /\ length - off = 0 => (length - off) * pace = 0 /\ off = length
  <2> HIDE DEF length, pace
  <2> QED BY <1>1, TimesAlong
<1>9. ASSUME g.back PROVE <<g.a, off * pace>> \in D
  <2>1. g.back /\ 0 <= off => <<Spot(g, 0), 0 + (off - 0) * g.pace>> \in D
    BY <1>1, <1>5, DriveAlong
  <2>2. 0 + (off - 0) * pace = off * pace /\ 0 <= off
    <3> HIDE DEF pace, length
    <3> QED BY <1>1
  <2> HIDE DEF g
  <2> QED BY <1>3, <1>9, <2>1, <2>2
<1>10. ASSUME g.fwd PROVE <<g.c, (length - off) * pace>> \in D
  <2>1. g.fwd /\ off <= length => <<Spot(g, length), 0 + (length - off) * g.pace>> \in D
    BY <1>1, <1>5, DriveAlong
  <2>2. 0 + (length - off) * pace = (length - off) * pace
    <3> HIDE DEF pace, length
    <3> QED BY <1>1
  <2> HIDE DEF g, length
  <2> QED BY <1>1, <1>3, <1>10, <2>1, <2>2
<1> HIDE DEF pace, length, g
<1>11. /\ off = 0 => <<g.a, off * pace>> \in D
       /\ length - off = 0 => <<g.c, (length - off) * pace>> \in D
  BY <1>3, <1>5, <1>8
<1>12. <<x.node, x.cost>> \in D /\ x.cost \in Nat
  <2>1. CASE x.node = g.a /\ x.cost = off * pace /\ (g.back \/ off = 0)
    BY <1>8, <1>9, <1>11, <2>1
  <2>2. CASE x.node = g.c /\ x.cost = (length - off) * pace /\ (g.fwd \/ length - off = 0)
    BY <1>8, <1>10, <1>11, <2>2
  <2> QED BY <1>6, <2>1, <2>2
<1> QED BY <1>7, <1>12 DEF D

-----------------------------------------------------------------------------
(* The drive along one segment, seeds and arrivals.                        *)

\* The edges that leave a vertex.
LEMMA EdgesAre ==
  ASSUME NEW segs, NEW v
  PROVE  /\ \A e \in EdgesFrom(segs, v) : \E s \in segs :
              /\ e.cost = s.length * s.pace
              /\ (s.fwd /\ s.a = v /\ e.to = s.c) \/ (s.back /\ s.c = v /\ e.to = s.a)
         /\ \A s \in segs :
              /\ s.fwd /\ s.a = v => [to |-> s.c, cost |-> s.length * s.pace] \in EdgesFrom(segs, v)
              /\ s.back /\ s.c = v => [to |-> s.a, cost |-> s.length * s.pace] \in EdgesFrom(segs, v)
<1> DEFINE Out == {s \in segs : s.fwd /\ s.a = v}
           In == {s \in segs : s.back /\ s.c = v}
           Ahead(s) == [to |-> s.c, cost |-> s.length * s.pace]
           Astern(s) == [to |-> s.a, cost |-> s.length * s.pace]
<1>1. EdgesFrom(segs, v) = {Ahead(s) : s \in Out} \cup {Astern(s) : s \in In}
  BY DEF EdgesFrom
<1>2. \A s : /\ Ahead(s).cost = s.length * s.pace /\ Ahead(s).to = s.c
             /\ Astern(s).cost = s.length * s.pace /\ Astern(s).to = s.a
  OBVIOUS
<1>3. /\ \A s \in Out : s \in segs /\ s.fwd /\ s.a = v
      /\ \A s \in In : s \in segs /\ s.back /\ s.c = v
      /\ \A s \in segs : (s.fwd /\ s.a = v => s \in Out) /\ (s.back /\ s.c = v => s \in In)
  OBVIOUS
<1> HIDE DEF Out, In, Ahead, Astern
<1>4. ASSUME NEW e \in EdgesFrom(segs, v)
      PROVE  \E s \in segs : /\ e.cost = s.length * s.pace
                             /\ (s.fwd /\ s.a = v /\ e.to = s.c) \/ (s.back /\ s.c = v /\ e.to = s.a)
  <2>1. (\E s \in Out : e = Ahead(s)) \/ (\E s \in In : e = Astern(s))
    BY <1>1
  <2> QED BY <1>2, <1>3, <2>1
<1>5. ASSUME NEW s \in segs
      PROVE  /\ s.fwd /\ s.a = v => Ahead(s) \in EdgesFrom(segs, v)
             /\ s.back /\ s.c = v => Astern(s) \in EdgesFrom(segs, v)
  BY <1>1, <1>3
<1> QED BY <1>4, <1>5 DEF Ahead, Astern

\* The drive along an edge.
LEMMA EdgesAreDriven ==
  ASSUME NEW segs, IsGraph(segs), NEW D \in SUBSET Timetable(segs), Closed(segs, D),
         NEW v, NEW t \in Nat, <<v, t>> \in D, NEW e \in EdgesFrom(segs, v)
  PROVE  /\ e.cost \in Nat /\ e.to # v
         /\ <<e.to, t + e.cost>> \in D
<1>1. PICK s \in segs : /\ e.cost = s.length * s.pace
                        /\ (s.fwd /\ s.a = v /\ e.to = s.c) \/ (s.back /\ s.c = v /\ e.to = s.a)
  BY EdgesAre
<1>2. IsSegment(s)
  BY DEF IsGraph
<1> DEFINE length == s.length
           pace == s.pace
<1>3. length \in Nat /\ pace \in Nat /\ s.a # s.c /\ 0 \in 0..length /\ length \in 0..length /\ 0 <= length
  BY <1>2 DEF IsSegment
<1>4. Spot(s, 0) = s.a /\ Spot(s, length) = s.c
  BY <1>2, SpotsOf
<1>5. /\ length * pace \in Nat
      /\ t + (length - 0) * pace = t + length * pace
  <2> HIDE DEF length, pace
  <2> QED BY <1>3
<1>6. CASE s.fwd /\ s.a = v /\ e.to = s.c
  <2>1. <<Spot(s, 0), t>> \in D
    BY <1>4, <1>6
  <2>2. s.fwd /\ 0 <= length => <<Spot(s, length), t + (length - 0) * s.pace>> \in D
    BY <1>3, <2>1, DriveAlong
  <2> HIDE DEF length
  <2> QED BY <1>1, <1>3, <1>4, <1>5, <1>6, <2>2 DEF length
<1>7. CASE s.back /\ s.c = v /\ e.to = s.a
  <2>1. <<Spot(s, length), t>> \in D
    BY <1>4, <1>7
  <2>2. s.back /\ 0 <= length => <<Spot(s, 0), t + (length - 0) * s.pace>> \in D
    BY <1>3, <2>1, DriveAlong
  <2> HIDE DEF length
  <2> QED BY <1>1, <1>3, <1>4, <1>5, <1>7, <2>2 DEF length
<1> QED BY <1>1, <1>6, <1>7

\* The ways a position is reached.
ByA(s, found) == s.seg.a \in DOMAIN found /\ (s.seg.fwd \/ s.off = 0)
ByC(s, found) == s.seg.c \in DOMAIN found /\ (s.seg.back \/ s.off = s.seg.length)
ByDrive(s, from) ==
  /\ from.seg = s.seg
  /\ \/ s.off - from.off = 0
     \/ s.off - from.off > 0 /\ s.seg.fwd
     \/ s.off - from.off < 0 /\ s.seg.back

\* The offers by the ends of a segment: what they ask of the segment and
\* what they take.
LEMMA ArrivalsAre ==
  ASSUME NEW s, NEW found
  PROVE  /\ \A o \in ArrivalAt(s, found) :
              \/ /\ ByA(s, found) /\ o.rank = -1
                 /\ o.secs = found[s.seg.a].cost + s.off * s.seg.pace /\ o.facility = found[s.seg.a].source
              \/ /\ ByC(s, found) /\ o.rank = 0
                 /\ o.secs = found[s.seg.c].cost + (s.seg.length - s.off) * s.seg.pace
                 /\ o.facility = found[s.seg.c].source
         /\ ByA(s, found) => \E o \in ArrivalAt(s, found) : o.secs = found[s.seg.a].cost + s.off * s.seg.pace
         /\ ByC(s, found) => \E o \in ArrivalAt(s, found) :
              o.secs = found[s.seg.c].cost + (s.seg.length - s.off) * s.seg.pace
<1> DEFINE g == s.seg
           rA == [secs |-> found[g.a].cost + s.off * g.pace, facility |-> found[g.a].source, rank |-> -1]
           rC == [secs |-> found[g.c].cost + (g.length - s.off) * g.pace,
                  facility |-> found[g.c].source, rank |-> 0]
           mayA == g.a \in DOMAIN found /\ (g.fwd \/ s.off = 0)
           mayC == g.c \in DOMAIN found /\ (g.back \/ s.off = g.length)
           A == ArrivalAt(s, found)
<1>1. A = (IF mayA THEN {rA} ELSE {}) \cup (IF mayC THEN {rC} ELSE {})
  BY DEF ArrivalAt
<1>2. /\ \A o \in A : (o = rA /\ mayA) \/ (o = rC /\ mayC)
      /\ mayA => rA \in A
      /\ mayC => rC \in A
  <2> HIDE DEF rA, rC, mayA, mayC, A
  <2> QED BY <1>1
<1>3. /\ rA.secs = found[g.a].cost + s.off * g.pace /\ rA.facility = found[g.a].source /\ rA.rank = -1
      /\ rC.secs = found[g.c].cost + (g.length - s.off) * g.pace /\ rC.facility = found[g.c].source
      /\ rC.rank = 0
  OBVIOUS
<1>4. (mayA <=> ByA(s, found)) /\ (mayC <=> ByC(s, found))
  BY DEF ByA, ByC
<1> HIDE DEF rA, rC, mayA, mayC, A
<1>5. ASSUME NEW o \in A
      PROVE  \/ /\ ByA(s, found) /\ o.rank = -1
                /\ o.secs = found[s.seg.a].cost + s.off * s.seg.pace /\ o.facility = found[s.seg.a].source
             \/ /\ ByC(s, found) /\ o.rank = 0
                /\ o.secs = found[s.seg.c].cost + (s.seg.length - s.off) * s.seg.pace
                /\ o.facility = found[s.seg.c].source
  <2>1. CASE o = rA /\ mayA
    BY <1>3, <1>4, <2>1
  <2>2. CASE o = rC /\ mayC
    BY <1>3, <1>4, <2>2
  <2> QED BY <1>2, <2>1, <2>2
<1>6. ByA(s, found) => \E o \in A : o.secs = found[s.seg.a].cost + s.off * s.seg.pace
  BY <1>2, <1>3, <1>4
<1>7. ByC(s, found) => \E o \in A : o.secs = found[s.seg.c].cost + (s.seg.length - s.off) * s.seg.pace
  BY <1>2, <1>3, <1>4
<1> QED BY <1>5, <1>6, <1>7 DEF A

\* The offer of a facility snapped onto the same segment.
LEMMA AlongIs ==
  ASSUME NEW s, NEW from, NEW f
  PROVE  /\ \A o \in AlongSegment(from, s, f) :
              /\ ByDrive(s, from) /\ o.secs = Abs2(s.off - from.off) * s.seg.pace
              /\ o.facility = f /\ o.rank = f
         /\ ByDrive(s, from) => \E o \in AlongSegment(from, s, f) :
              o.secs = Abs2(s.off - from.off) * s.seg.pace
<1> DEFINE d == s.off - from.off
           r == [secs |-> Abs2(d) * from.seg.pace, facility |-> f, rank |-> f]
           may == from.seg = s.seg /\ (d = 0 \/ (d > 0 /\ from.seg.fwd) \/ (d < 0 /\ from.seg.back))
           A == AlongSegment(from, s, f)
<1>1. A = IF may THEN {r} ELSE {}
  BY DEF AlongSegment
<1>2. (\A o \in A : o = r /\ may) /\ (may => r \in A)
  <2> HIDE DEF r, may, A
  <2> QED BY <1>1
<1>3. r.secs = Abs2(d) * from.seg.pace /\ r.facility = f /\ r.rank = f
  OBVIOUS
<1>4. (may <=> ByDrive(s, from)) /\ (may => from.seg = s.seg)
  BY DEF ByDrive
<1> HIDE DEF r, may, A, d
<1>5. \A o \in A : ByDrive(s, from) /\ o.secs = Abs2(d) * s.seg.pace /\ o.facility = f /\ o.rank = f
  BY <1>2, <1>3, <1>4
<1>6. ByDrive(s, from) => \E o \in A : o.secs = Abs2(d) * s.seg.pace
  BY <1>2, <1>3, <1>4
<1> QED BY <1>5, <1>6 DEF A, d

\* All the offers to a position are of these kinds.
LEMMA OffersAre ==
  ASSUME NEW s, NEW found, NEW snaps
  PROVE  /\ \A o \in Offers(s, found, snaps) :
              \/ o \in ArrivalAt(s, found)
              \/ \E f \in Snapped(snaps) : o \in AlongSegment(snaps[f][1], s, f)
         /\ ArrivalAt(s, found) \subseteq Offers(s, found, snaps)
         /\ \A f \in Snapped(snaps) : AlongSegment(snaps[f][1], s, f) \subseteq Offers(s, found, snaps)
<1> DEFINE Ways == UNION {AlongSegment(snaps[f][1], s, f) : f \in Snapped(snaps)}
<1>1. Offers(s, found, snaps) = ArrivalAt(s, found) \cup Ways
  BY DEF Offers
<1>2. \A o \in Ways : \E f \in Snapped(snaps) : o \in AlongSegment(snaps[f][1], s, f)
  OBVIOUS
<1>3. \A f \in Snapped(snaps) : AlongSegment(snaps[f][1], s, f) \subseteq Ways
  OBVIOUS
<1> HIDE DEF Ways
<1> QED BY <1>1, <1>2, <1>3

-----------------------------------------------------------------------------
(* Nothing is offered that cannot be driven.                               *)

\* Facilities stand at positions of the graph, numbered.
SnapsAreOn(segs, snaps) == \A f \in Snapped(snaps) : f \in Nat /\ IsPosition(segs, snaps[f][1])
Home(snaps, f) == SpotAt(snaps[f][1])

\* What the search knows are times of drives from the facility it names.
Sound(segs, snaps, found) ==
  \A v \in DOMAIN found :
    /\ found[v].cost \in Nat /\ found[v].source \in Snapped(snaps)
    /\ <<v, found[v].cost>> \in Driven(segs, Home(snaps, found[v].source))

\* So is what it offers.
LEMMA OffersAreDriven ==
  ASSUME NEW segs, IsGraph(segs), NEW snaps, SnapsAreOn(segs, snaps),
         NEW found, Sound(segs, snaps, found),
         NEW s, IsPosition(segs, s), NEW o \in Offers(s, found, snaps)
  PROVE  /\ o.facility \in Snapped(snaps) /\ o.secs \in Nat /\ o.rank + 1 \in Nat
         /\ <<SpotAt(s), o.secs>> \in Driven(segs, Home(snaps, o.facility))
<1> DEFINE g == s.seg
           off == s.off
           length == g.length
           pace == g.pace
<1>1. g \in segs /\ off \in 0..length /\ off \in Nat /\ length \in Nat /\ pace \in Nat /\ off <= length
      /\ 0 \in 0..length /\ length \in 0..length
  BY DEF IsPosition, IsGraph, IsSegment
<1>2. IsSegment(g)
  BY <1>1 DEF IsGraph
<1>3. Spot(g, 0) = g.a /\ Spot(g, length) = g.c
  BY <1>2, SpotsOf
<1>4. SpotAt(s) = Spot(g, off)
  BY DEF SpotAt
<1>5. ASSUME NEW f \in Snapped(snaps)
      PROVE  Driven(segs, Home(snaps, f)) \in SUBSET Timetable(segs)
             /\ Closed(segs, Driven(segs, Home(snaps, f)))
             /\ <<Home(snaps, f), 0>> \in Driven(segs, Home(snaps, f)) /\ f \in Nat
  <2>1. IsPosition(segs, snaps[f][1]) /\ f \in Nat
    BY DEF SnapsAreOn
  <2>2. Home(snaps, f) \in Places(segs)
    BY <2>1, PositionsArePlaces DEF Home
  <2> QED BY <2>1, <2>2, DrivenIsLeast
<1> HIDE DEF off
<1>6. /\ off * pace \in Nat /\ (length - off) * pace \in Nat
      /\ off = 0 => off * pace = 0
      /\ length - off = 0 => (length - off) * pace = 0 /\ off = length
  <2> HIDE DEF length, pace
  <2> QED BY <1>1, TimesAlong
<1>7. CASE ByA(s, found) /\ o.secs = found[g.a].cost + off * pace /\ o.facility = found[g.a].source /\ o.rank = -1
  <2> DEFINE t == found[g.a].cost
             D == Driven(segs, Home(snaps, o.facility))
  <2>1. t \in Nat /\ o.facility \in Snapped(snaps) /\ <<g.a, t>> \in D /\ (g.fwd \/ off = 0)
    BY <1>7 DEF Sound, ByA, off
  <2>2. D \in SUBSET Timetable(segs) /\ Closed(segs, D)
    BY <1>5, <2>1
  <2> HIDE DEF D, t
  <2>3. CASE g.fwd
    <3>1. <<Spot(g, 0), t>> \in D
      BY <1>3, <2>1
    <3>2. g.fwd /\ 0 <= off => <<Spot(g, off), t + (off - 0) * g.pace>> \in D
      BY <1>1, <2>1, <2>2, <3>1, DriveAlong
    <3>3. t + (off - 0) * pace = t + off * pace /\ 0 <= off /\ t + off * pace \in Nat
      <4> HIDE DEF pace, length
      <4> QED BY <1>1, <1>6, <2>1
    <3>4. o.secs = t + off * pace
      BY <1>7 DEF t
    <3> HIDE DEF g
    <3>5. <<SpotAt(s), o.secs>> \in D
      BY <1>4, <2>3, <3>2, <3>3, <3>4
    <3> QED BY <1>7, <2>1, <3>3, <3>4, <3>5 DEF D
  <2>4. CASE off = 0
    <3>1. o.secs = t + off * pace
      BY <1>7 DEF t
    <3>2. o.secs = t
      <4> HIDE DEF pace, length
      <4> QED BY <1>6, <2>1, <2>4, <3>1
    <3>3. <<SpotAt(s), o.secs>> \in D
      BY <1>3, <1>4, <2>1, <2>4, <3>2
    <3> QED BY <1>7, <2>1, <3>2, <3>3 DEF D
  <2> QED BY <2>1, <2>3, <2>4
<1>8. CASE /\ ByC(s, found) /\ o.secs = found[g.c].cost + (length - off) * pace
           /\ o.facility = found[g.c].source /\ o.rank = 0
  <2> DEFINE t == found[g.c].cost
             D == Driven(segs, Home(snaps, o.facility))
  <2>1. t \in Nat /\ o.facility \in Snapped(snaps) /\ <<g.c, t>> \in D /\ (g.back \/ off = length)
    BY <1>8 DEF Sound, ByC, off
  <2>2. D \in SUBSET Timetable(segs) /\ Closed(segs, D)
    BY <1>5, <2>1
  <2> HIDE DEF D, t
  <2>3. CASE g.back
    <3>1. <<Spot(g, length), t>> \in D
      BY <1>3, <2>1
    <3>2. g.back /\ off <= length => <<Spot(g, off), t + (length - off) * g.pace>> \in D
      BY <1>1, <2>1, <2>2, <3>1, DriveAlong
    <3>3. t + (length - off) * pace \in Nat
      <4> HIDE DEF pace, length
      <4> QED BY <1>1, <1>6, <2>1
    <3>4. o.secs = t + (length - off) * pace
      BY <1>8 DEF t
    <3> HIDE DEF g, length
    <3>5. <<SpotAt(s), o.secs>> \in D
      BY <1>1, <1>4, <2>3, <3>2, <3>4
    <3> QED BY <1>8, <2>1, <3>3, <3>4, <3>5 DEF D
  <2>4. CASE off = length
    <3>1. o.secs = t + (length - off) * pace
      BY <1>8 DEF t
    <3>2. o.secs = t
      <4> HIDE DEF pace, length
      <4> QED BY <1>1, <1>6, <2>1, <2>4, <3>1
    <3>3. <<SpotAt(s), o.secs>> \in D
      <4> HIDE DEF length
      <4> QED BY <1>3, <1>4, <2>1, <2>4, <3>2
    <3> QED BY <1>8, <2>1, <3>2, <3>3 DEF D
  <2> QED BY <2>1, <2>3, <2>4
<1>9. ASSUME NEW f \in Snapped(snaps), ByDrive(s, snaps[f][1]),
             o.secs = Abs2(off - snaps[f][1].off) * pace, o.facility = f, o.rank = f
      PROVE  /\ o.facility \in Snapped(snaps) /\ o.secs \in Nat /\ o.rank + 1 \in Nat
             /\ <<SpotAt(s), o.secs>> \in Driven(segs, Home(snaps, o.facility))
  <2> DEFINE D == Driven(segs, Home(snaps, f))
             at == snaps[f][1].off
             d == off - at
  <2>1. D \in SUBSET Timetable(segs) /\ Closed(segs, D) /\ <<Home(snaps, f), 0>> \in D /\ f \in Nat
    BY <1>5
  <2>2. snaps[f][1].seg = g /\ (d = 0 \/ (d > 0 /\ g.fwd) \/ (d < 0 /\ g.back))
    BY <1>9 DEF ByDrive, off
  <2>3. at \in 0..length /\ Home(snaps, f) = Spot(g, at)
    BY <2>2 DEF SnapsAreOn, IsPosition, Home, SpotAt
  <2> HIDE DEF D, at
  <2>4. /\ g.fwd /\ at <= off => <<Spot(g, off), 0 + (off - at) * g.pace>> \in D
        /\ g.back /\ off <= at => <<Spot(g, off), 0 + (at - off) * g.pace>> \in D
    BY <1>1, <2>1, <2>3, DriveAlong
  <2>5. o.secs = Abs2(d) * pace
    BY <1>9 DEF at
  <2> HIDE DEF length, pace
  <2>6. at \in Nat /\ d \in Int
    BY <1>1, <2>3
  <2>7. CASE d = 0
    <3>1. o.secs = 0 /\ at = off
      <4>1. Abs2(d) = 0
        BY <2>7 DEF Abs2
      <4>2. 0 * pace = 0
        BY <1>1
      <4>3. at = off
        BY <1>1, <2>6, <2>7
      <4> QED BY <2>5, <4>1, <4>2, <4>3
    <3> QED BY <1>4, <1>9, <2>1, <2>3, <3>1 DEF D
  <2>8. CASE d > 0 /\ g.fwd
    <3>1. Abs2(d) = off - at /\ at <= off
      BY <1>1, <2>6, <2>8 DEF Abs2
    <3>2. 0 + (off - at) * pace = (off - at) * pace /\ (off - at) * pace \in Nat
      <4>1. off - at \in Nat
        BY <1>1, <2>6, <3>1
      <4> QED BY <1>1, <4>1
    <3>3. o.secs = (off - at) * pace
      BY <2>5, <3>1
    <3>4. <<Spot(g, off), (off - at) * pace>> \in D
      <4>1. <<Spot(g, off), 0 + (off - at) * g.pace>> \in D
        BY <2>4, <2>8, <3>1
      <4>2. 0 + (off - at) * g.pace = (off - at) * pace
        BY <3>2 DEF pace
      <4> HIDE DEF g
      <4> QED BY <4>1, <4>2
    <3> QED BY <1>4, <1>9, <2>1, <3>2, <3>3, <3>4 DEF D
  <2>9. CASE d < 0 /\ g.back
    <3>1. Abs2(d) = at - off /\ off <= at
      BY <1>1, <2>6, <2>9 DEF Abs2
    <3>2. 0 + (at - off) * pace = (at - off) * pace /\ (at - off) * pace \in Nat
      <4>1. at - off \in Nat
        BY <1>1, <2>6, <3>1
      <4> QED BY <1>1, <4>1
    <3>3. o.secs = (at - off) * pace
      BY <2>5, <3>1
    <3>4. <<Spot(g, off), (at - off) * pace>> \in D
      <4>1. <<Spot(g, off), 0 + (at - off) * g.pace>> \in D
        BY <2>4, <2>9, <3>1
      <4>2. 0 + (at - off) * g.pace = (at - off) * pace
        BY <3>2 DEF pace
      <4> HIDE DEF g
      <4> QED BY <4>1, <4>2
    <3> QED BY <1>4, <1>9, <2>1, <3>2, <3>3, <3>4 DEF D
  <2> QED BY <2>2, <2>7, <2>8, <2>9
<1>10. CASE o \in ArrivalAt(s, found)
  <2>1. \/ /\ ByA(s, found) /\ o.rank = -1
           /\ o.secs = found[g.a].cost + off * pace /\ o.facility = found[g.a].source
        \/ /\ ByC(s, found) /\ o.rank = 0
           /\ o.secs = found[g.c].cost + (length - off) * pace /\ o.facility = found[g.c].source
    BY <1>10, ArrivalsAre DEF off
  <2> QED BY <1>7, <1>8, <2>1
<1>11. ASSUME NEW f \in Snapped(snaps), o \in AlongSegment(snaps[f][1], s, f)
       PROVE  /\ o.facility \in Snapped(snaps) /\ o.secs \in Nat /\ o.rank + 1 \in Nat
              /\ <<SpotAt(s), o.secs>> \in Driven(segs, Home(snaps, o.facility))
  <2>1. /\ ByDrive(s, snaps[f][1]) /\ o.secs = Abs2(off - snaps[f][1].off) * pace
        /\ o.facility = f /\ o.rank = f
    BY <1>11, AlongIs DEF off
  <2> QED BY <1>9, <2>1
<1> QED BY <1>10, <1>11, OffersAre

-----------------------------------------------------------------------------
(* Everything that can be driven is offered.                               *)

\* What a finished search knows: the seeds, and every edge relaxed.
Known(found, v, t) == v \in DOMAIN found /\ found[v].cost <= t
Seeded(snaps, found) == \A f \in Snapped(snaps) : \A x \in SeedsAt(snaps[f][1], f) : Known(found, x.node, x.cost)
Answered(segs, found) ==
  \A v \in DOMAIN found : \A e \in EdgesFrom(segs, v) : Known(found, e.to, found[v].cost + e.cost)

\* A position is reached in the time.
FromA(g, off, found, t) ==
  g.a \in DOMAIN found /\ (g.fwd \/ off = 0) /\ found[g.a].cost + off * g.pace <= t
FromC(g, off, found, t) ==
  g.c \in DOMAIN found /\ (g.back \/ off = g.length) /\ found[g.c].cost + (g.length - off) * g.pace <= t
FromHome(g, off, from, t) ==
  /\ from.seg = g
  /\ off - from.off = 0 \/ (off - from.off > 0 /\ g.fwd) \/ (off - from.off < 0 /\ g.back)
  /\ Abs2(off - from.off) * g.pace <= t
Reached(g, off, found, snaps, t) ==
  FromA(g, off, found, t) \/ FromC(g, off, found, t) \/ \E f \in Snapped(snaps) : FromHome(g, off, snaps[f][1], t)

\* A position reached in some time has an offer no later than that.
LEMMA ReachedIsOffered ==
  ASSUME NEW s, NEW found, NEW snaps, NEW t, Reached(s.seg, s.off, found, snaps, t)
  PROVE  \E o \in Offers(s, found, snaps) : o.secs <= t
<1>1. /\ ArrivalAt(s, found) \subseteq Offers(s, found, snaps)
      /\ \A f \in Snapped(snaps) : AlongSegment(snaps[f][1], s, f) \subseteq Offers(s, found, snaps)
  BY OffersAre
<1>2. CASE FromA(s.seg, s.off, found, t)
  <2>1. ByA(s, found) /\ found[s.seg.a].cost + s.off * s.seg.pace <= t
    BY <1>2 DEF FromA, ByA
  <2>2. PICK o \in ArrivalAt(s, found) : o.secs = found[s.seg.a].cost + s.off * s.seg.pace
    BY <2>1, ArrivalsAre
  <2> QED BY <1>1, <2>1, <2>2
<1>3. CASE FromC(s.seg, s.off, found, t)
  <2>1. ByC(s, found) /\ found[s.seg.c].cost + (s.seg.length - s.off) * s.seg.pace <= t
    BY <1>3 DEF FromC, ByC
  <2>2. PICK o \in ArrivalAt(s, found) : o.secs = found[s.seg.c].cost + (s.seg.length - s.off) * s.seg.pace
    BY <2>1, ArrivalsAre
  <2> QED BY <1>1, <2>1, <2>2
<1>4. ASSUME NEW f \in Snapped(snaps), FromHome(s.seg, s.off, snaps[f][1], t)
      PROVE  \E o \in Offers(s, found, snaps) : o.secs <= t
  <2>1. ByDrive(s, snaps[f][1]) /\ Abs2(s.off - snaps[f][1].off) * s.seg.pace <= t
    BY <1>4 DEF FromHome, ByDrive
  <2>2. PICK o \in AlongSegment(snaps[f][1], s, f) : o.secs = Abs2(s.off - snaps[f][1].off) * s.seg.pace
    BY <2>1, AlongIs
  <2> QED BY <1>1, <2>1, <2>2
<1> QED BY <1>2, <1>3, <1>4 DEF Reached

\* Distances along a segment.
LEMMA Abs2Is ==
  ASSUME NEW n \in Int
  PROVE  Abs2(n) = (IF n < 0 THEN -n ELSE n) /\ Abs2(n) \in Nat
BY DEF Abs2

\* A segment of a graph: it has a length, and its ends are apart.
LEMMA LegIs ==
  ASSUME NEW segs, IsGraph(segs), NEW g \in segs
  PROVE  /\ g.length \in Nat \ {0} /\ g.pace \in Nat /\ g.a # g.c
         /\ Spot(g, 0) = g.a /\ Spot(g, g.length) = g.c
         /\ 0 \in 0..g.length /\ g.length \in 0..g.length
<1>1. IsSegment(g)
  BY DEF IsGraph
<1> QED BY <1>1, SpotsOf DEF IsSegment

\* An end of a segment that is reached is known.
LEMMA EndsAreKnown ==
  ASSUME NEW segs, IsGraph(segs), NEW snaps, SnapsAreOn(segs, snaps), NEW found, Sound(segs, snaps, found),
         Seeded(snaps, found), Answered(segs, found), NEW g \in segs, NEW t \in Nat
  PROVE  /\ Reached(g, 0, found, snaps, t) => Known(found, g.a, t)
         /\ Reached(g, g.length, found, snaps, t) => Known(found, g.c, t)
<1> DEFINE length == g.length
           pace == g.pace
<1>1. length \in Nat \ {0} /\ pace \in Nat
  BY LegIs
<1>2. 0 * pace = 0 /\ (length - length) * pace = 0 /\ (length - 0) * pace = length * pace /\ length * pace \in Nat
  <2> HIDE DEF length, pace
  <2> QED BY <1>1
<1>3. \A v \in DOMAIN found : found[v].cost \in Nat
  BY DEF Sound
<1>4. ASSUME Reached(g, 0, found, snaps, t) PROVE Known(found, g.a, t)
  <2>1. CASE FromA(g, 0, found, t)
    <3>1. g.a \in DOMAIN found /\ found[g.a].cost + 0 * pace <= t
      BY <2>1 DEF FromA
    <3> HIDE DEF pace
    <3> QED BY <1>2, <1>3, <3>1 DEF Known
  <2>2. CASE FromC(g, 0, found, t)
    <3>1. g.c \in DOMAIN found /\ (g.back \/ 0 = length) /\ found[g.c].cost + (length - 0) * pace <= t
      BY <2>2 DEF FromC
    <3>2. g.back
      BY <1>1, <3>1
    <3> DEFINE e == [to |-> g.a, cost |-> length * pace]
    <3>3. e \in EdgesFrom(segs, g.c) /\ e.to = g.a /\ e.cost = length * pace
      BY <3>2, EdgesAre
    <3> HIDE DEF e, length, pace
    <3>4. Known(found, g.a, found[g.c].cost + length * pace)
      BY <3>1, <3>3 DEF Answered
    <3> QED BY <1>2, <1>3, <3>1, <3>4 DEF Known
  <2>3. ASSUME NEW f \in Snapped(snaps), FromHome(g, 0, snaps[f][1], t) PROVE Known(found, g.a, t)
    <3> DEFINE from == snaps[f][1]
               at == from.off
    <3>1. from.seg = g /\ (0 - at = 0 \/ (0 - at > 0 /\ g.fwd) \/ (0 - at < 0 /\ g.back))
          /\ Abs2(0 - at) * pace <= t
      BY <2>3 DEF FromHome
    <3>2. at \in 0..length
      BY <3>1 DEF SnapsAreOn, IsPosition
    <3> HIDE DEF length
    <3>3. at \in Nat /\ 0 - at \in Int /\ 0 - at <= 0
      BY <1>1, <3>2
    <3>4. Abs2(0 - at) = at /\ (g.back \/ at = 0)
      <4> HIDE DEF from, at
      <4> QED BY <3>1, <3>3, Abs2Is
    <3>5. [node |-> g.a, cost |-> at * pace, source |-> f] \in SeedsAt(from, f)
      BY <3>1, <3>4, SeedsThereAre
    <3> DEFINE x == [node |-> g.a, cost |-> at * pace, source |-> f]
    <3>6. x.node = g.a /\ x.cost = at * pace /\ at * pace <= t
      BY <3>1, <3>4
    <3>7. at * pace \in Nat
      <4> HIDE DEF from, at, pace
      <4> QED BY <1>1, <3>3
    <3>8. Known(found, x.node, x.cost)
      <4> HIDE DEF x
      <4> QED BY <3>5 DEF Seeded, from, x
    <3> HIDE DEF x, at, pace
    <3> QED BY <1>3, <3>6, <3>7, <3>8 DEF Known
  <2> QED BY <1>4, <2>1, <2>2, <2>3 DEF Reached
<1>5. ASSUME Reached(g, length, found, snaps, t) PROVE Known(found, g.c, t)
  <2>1. CASE FromA(g, length, found, t)
    <3>1. g.a \in DOMAIN found /\ (g.fwd \/ length = 0) /\ found[g.a].cost + length * pace <= t
      BY <2>1 DEF FromA
    <3>2. g.fwd
      BY <1>1, <3>1
    <3> DEFINE e == [to |-> g.c, cost |-> length * pace]
    <3>3. e \in EdgesFrom(segs, g.a) /\ e.to = g.c /\ e.cost = length * pace
      BY <3>2, EdgesAre
    <3> HIDE DEF e, length, pace
    <3>4. Known(found, g.c, found[g.a].cost + length * pace)
      BY <3>1, <3>3 DEF Answered
    <3> QED BY <1>2, <1>3, <3>1, <3>4 DEF Known
  <2>2. CASE FromC(g, length, found, t)
    <3>1. g.c \in DOMAIN found /\ found[g.c].cost + (length - length) * pace <= t
      BY <2>2 DEF FromC
    <3> HIDE DEF pace, length
    <3> QED BY <1>2, <1>3, <3>1 DEF Known
  <2>3. ASSUME NEW f \in Snapped(snaps), FromHome(g, length, snaps[f][1], t) PROVE Known(found, g.c, t)
    <3> DEFINE from == snaps[f][1]
               at == from.off
    <3>1. from.seg = g /\ (length - at = 0 \/ (length - at > 0 /\ g.fwd) \/ (length - at < 0 /\ g.back))
          /\ Abs2(length - at) * pace <= t
      BY <2>3 DEF FromHome
    <3>2. at \in 0..length
      BY <3>1 DEF SnapsAreOn, IsPosition
    <3>3. length - at \in Nat
      <4> HIDE DEF length, at
      <4> QED BY <1>1, <3>2
    <3>4. Abs2(length - at) = length - at /\ (g.fwd \/ length - at = 0)
      <4> HIDE DEF from, at, length
      <4> QED BY <3>1, <3>3, Abs2Is
    <3>5. [node |-> g.c, cost |-> (length - at) * pace, source |-> f] \in SeedsAt(from, f)
      BY <3>1, <3>4, SeedsThereAre
    <3> DEFINE x == [node |-> g.c, cost |-> (length - at) * pace, source |-> f]
    <3>6. x.node = g.c /\ x.cost = (length - at) * pace /\ (length - at) * pace <= t
      BY <3>1, <3>4
    <3>7. (length - at) * pace \in Nat
      <4> HIDE DEF from, at, pace, length
      <4> QED BY <1>1, <3>3
    <3>8. Known(found, x.node, x.cost)
      <4> HIDE DEF x
      <4> QED BY <3>5 DEF Seeded, from, x
    <3> HIDE DEF x, at, pace, length
    <3> QED BY <1>3, <3>6, <3>7, <3>8 DEF Known
  <2> QED BY <1>5, <2>1, <2>2, <2>3 DEF Reached
<1> QED BY <1>4, <1>5

\* A vertex that is known is reached, as an end of any of its segments.
LEMMA KnownIsReached ==
  ASSUME NEW segs, IsGraph(segs), NEW snaps, NEW found, Sound(segs, snaps, found),
         NEW g \in segs, NEW t
  PROVE  /\ Known(found, g.a, t) => Reached(g, 0, found, snaps, t)
         /\ Known(found, g.c, t) => Reached(g, g.length, found, snaps, t)
<1> DEFINE length == g.length
           pace == g.pace
<1>1. length \in Nat \ {0} /\ pace \in Nat
  BY LegIs
<1>2. 0 * pace = 0 /\ (length - length) * pace = 0
  <2> HIDE DEF length, pace
  <2> QED BY <1>1
<1>3. \A v \in DOMAIN found : found[v].cost \in Nat
  BY DEF Sound
<1>4. ASSUME Known(found, g.a, t) PROVE FromA(g, 0, found, t)
  <2>1. g.a \in DOMAIN found /\ found[g.a].cost <= t /\ found[g.a].cost + 0 * g.pace = found[g.a].cost
    BY <1>2, <1>3, <1>4 DEF Known
  <2> QED BY <2>1 DEF FromA
<1>5. ASSUME Known(found, g.c, t) PROVE FromC(g, g.length, found, t)
  <2>1. g.c \in DOMAIN found /\ found[g.c].cost <= t
        /\ found[g.c].cost + (g.length - g.length) * g.pace = found[g.c].cost
    BY <1>2, <1>3, <1>5 DEF Known
  <2> QED BY <2>1 DEF FromC
<1> QED BY <1>4, <1>5 DEF Reached

\* One unit further along a segment takes its pace longer.
LEMMA FurtherByOne ==
  ASSUME NEW n \in Nat, NEW pace \in Nat, NEW cost \in Nat, NEW t \in Nat
  PROVE  /\ cost + n * pace <= t => cost + (n + 1) * pace <= t + pace
         /\ cost + (n + 1) * pace <= t => cost + n * pace <= t + pace
         /\ n * pace <= t => (n + 1) * pace <= t + pace
         /\ (n + 1) * pace <= t => n * pace <= t + pace
<1>1. (n + 1) * pace = n * pace + pace /\ n * pace \in Nat
  BY OneMore
<1> DEFINE x == n * pace
           y == (n + 1) * pace
<1>2. x \in Nat /\ y = x + pace
  BY <1>1
<1> HIDE DEF x, y
<1>3. /\ cost + x <= t => cost + y <= t + pace
      /\ cost + y <= t => cost + x <= t + pace
      /\ x <= t => y <= t + pace
      /\ y <= t => x <= t + pace
  BY <1>2
<1> QED BY <1>3 DEF x, y

\* One unit along a segment: what is reached before it is reached after it,
\* a pace later.
LEMMA StepIsReached ==
  ASSUME NEW segs, IsGraph(segs), NEW snaps, SnapsAreOn(segs, snaps), NEW found, Sound(segs, snaps, found),
         NEW g \in segs, NEW k \in 1..g.length, NEW t \in Nat
  PROVE  /\ g.fwd /\ Reached(g, k - 1, found, snaps, t) => Reached(g, k, found, snaps, t + g.pace)
         /\ g.back /\ Reached(g, k, found, snaps, t) => Reached(g, k - 1, found, snaps, t + g.pace)
<1> DEFINE length == g.length
           pace == g.pace
           n == k - 1
           m == length - k
<1>1. length \in Nat \ {0} /\ pace \in Nat /\ n \in Nat /\ m \in Nat /\ k = n + 1 /\ length - n = m + 1
      /\ n # length /\ k # 0 /\ k \in Int
  BY LegIs
<1>2. \A v \in DOMAIN found : found[v].cost \in Nat
  BY DEF Sound
<1>3. ASSUME NEW cost \in Nat
      PROVE  /\ cost + n * pace <= t => cost + k * pace <= t + pace
             /\ cost + k * pace <= t => cost + n * pace <= t + pace
             /\ cost + (length - k) * pace <= t => cost + (length - n) * pace <= t + pace
             /\ cost + (length - n) * pace <= t => cost + (length - k) * pace <= t + pace
  <2> HIDE DEF length, pace, n
  <2>1. /\ cost + n * pace <= t => cost + (n + 1) * pace <= t + pace
        /\ cost + (n + 1) * pace <= t => cost + n * pace <= t + pace
    BY <1>1, FurtherByOne
  <2> HIDE DEF m
  <2>2. /\ cost + m * pace <= t => cost + (m + 1) * pace <= t + pace
        /\ cost + (m + 1) * pace <= t => cost + m * pace <= t + pace
    BY <1>1, FurtherByOne
  <2>3. length - k = m
    BY DEF m
  <2> QED BY <1>1, <2>1, <2>2, <2>3
<1>4. ASSUME NEW f \in Snapped(snaps), g.fwd, FromHome(g, n, snaps[f][1], t)
      PROVE  FromHome(g, k, snaps[f][1], t + pace)
  <2> DEFINE at == snaps[f][1].off
             d == n - at
  <2>1. snaps[f][1].seg = g /\ (d = 0 \/ (d > 0 /\ g.fwd) \/ (d < 0 /\ g.back)) /\ Abs2(d) * pace <= t
    BY <1>4 DEF FromHome
  <2>2. at \in 0..length
    BY <2>1 DEF SnapsAreOn, IsPosition
  <2> HIDE DEF length, n, at
  <2>3. at \in Int /\ d \in Int /\ k - at = d + 1
    BY <1>1, <2>2
  <2> HIDE DEF d, pace
  <2>4. CASE d >= 0
    <3>1. Abs2(d) = d /\ Abs2(d + 1) = d + 1 /\ d \in Nat /\ d + 1 > 0
      BY <2>3, <2>4, Abs2Is
    <3>2. (d + 1) * pace <= t + pace
      BY <1>1, <2>1, <3>1, FurtherByOne
    <3>3. Abs2(k - at) * pace <= t + pace /\ k - at > 0
      BY <2>3, <3>1, <3>2
    <3> QED BY <1>4, <2>1, <3>3 DEF FromHome, at, pace
  <2>5. CASE d < 0
    <3> DEFINE j == -(d + 1)
    <3>1. Abs2(d) = j + 1 /\ Abs2(d + 1) = j /\ j \in Nat
      BY <2>3, <2>5, Abs2Is
    <3>2. d + 1 = 0 \/ d + 1 < 0
      BY <2>3, <2>5
    <3> HIDE DEF j
    <3>3. j * pace <= t + pace
      BY <1>1, <2>1, <3>1, FurtherByOne
    <3>4. Abs2(k - at) * pace <= t + pace /\ (k - at = 0 \/ k - at < 0) /\ g.back
      BY <2>1, <2>3, <2>5, <3>1, <3>2, <3>3
    <3> QED BY <2>1, <3>4 DEF FromHome, at, pace
  <2> QED BY <2>3, <2>4, <2>5
<1>5. ASSUME NEW f \in Snapped(snaps), g.back, FromHome(g, k, snaps[f][1], t)
      PROVE  FromHome(g, n, snaps[f][1], t + pace)
  <2> DEFINE at == snaps[f][1].off
             d == k - at
  <2>1. snaps[f][1].seg = g /\ (d = 0 \/ (d > 0 /\ g.fwd) \/ (d < 0 /\ g.back)) /\ Abs2(d) * pace <= t
    BY <1>5 DEF FromHome
  <2>2. at \in 0..length
    BY <2>1 DEF SnapsAreOn, IsPosition
  <2> HIDE DEF length, n, at
  <2>3. at \in Int /\ d \in Int /\ n - at = d - 1
    BY <1>1, <2>2
  <2> HIDE DEF d, pace
  <2>4. CASE d <= 0
    <3> DEFINE j == -d
    <3>1. Abs2(d) = j /\ Abs2(d - 1) = j + 1 /\ j \in Nat /\ d - 1 < 0
      BY <2>3, <2>4, Abs2Is
    <3> HIDE DEF j
    <3>2. (j + 1) * pace <= t + pace
      BY <1>1, <2>1, <3>1, FurtherByOne
    <3>3. Abs2(n - at) * pace <= t + pace /\ n - at < 0
      BY <2>3, <3>1, <3>2
    <3> QED BY <1>5, <2>1, <3>3 DEF FromHome, at, pace
  <2>5. CASE d > 0
    <3> DEFINE j == d - 1
    <3>1. Abs2(d) = j + 1 /\ Abs2(d - 1) = j /\ j \in Nat
      BY <2>3, <2>5, Abs2Is
    <3>2. d - 1 = 0 \/ d - 1 > 0
      BY <2>3, <2>5
    <3> HIDE DEF j
    <3>3. j * pace <= t + pace
      BY <1>1, <2>1, <3>1, FurtherByOne
    <3>4. Abs2(n - at) * pace <= t + pace /\ (n - at = 0 \/ n - at > 0) /\ g.fwd
      BY <2>1, <2>3, <2>5, <3>1, <3>2, <3>3
    <3> QED BY <2>1, <3>4 DEF FromHome, at, pace
  <2> QED BY <2>3, <2>4, <2>5
<1> HIDE DEF n, m
<1>6. ASSUME g.fwd, Reached(g, n, found, snaps, t) PROVE Reached(g, k, found, snaps, t + pace)
  <2>1. CASE FromA(g, n, found, t)
    <3>1. g.a \in DOMAIN found /\ found[g.a].cost + n * pace <= t
      BY <2>1 DEF FromA
    <3> HIDE DEF pace
    <3>2. found[g.a].cost + k * pace <= t + pace
      BY <1>2, <1>3, <3>1
    <3> QED BY <1>6, <3>1, <3>2 DEF FromA, Reached, pace
  <2>2. CASE FromC(g, n, found, t)
    <3>1. g.c \in DOMAIN found /\ g.back /\ found[g.c].cost + (length - n) * pace <= t
      BY <1>1, <2>2 DEF FromC
    <3> HIDE DEF pace, length
    <3>2. found[g.c].cost + (length - k) * pace <= t + pace
      BY <1>2, <1>3, <3>1
    <3> QED BY <3>1, <3>2 DEF FromC, Reached, pace, length
  <2> QED BY <1>4, <1>6, <2>1, <2>2 DEF Reached
<1>7. ASSUME g.back, Reached(g, k, found, snaps, t) PROVE Reached(g, n, found, snaps, t + pace)
  <2>1. CASE FromA(g, k, found, t)
    <3>1. g.a \in DOMAIN found /\ g.fwd /\ found[g.a].cost + k * pace <= t
      BY <1>1, <2>1 DEF FromA
    <3> HIDE DEF pace
    <3>2. found[g.a].cost + n * pace <= t + pace
      BY <1>2, <1>3, <3>1
    <3> QED BY <3>1, <3>2 DEF FromA, Reached, pace
  <2>2. CASE FromC(g, k, found, t)
    <3>1. g.c \in DOMAIN found /\ found[g.c].cost + (length - k) * pace <= t
      BY <2>2 DEF FromC
    <3> HIDE DEF pace, length
    <3>2. found[g.c].cost + (length - n) * pace <= t + pace
      BY <1>2, <1>3, <3>1
    <3> QED BY <1>7, <3>1, <3>2 DEF FromC, Reached, pace, length
  <2> QED BY <1>5, <1>7, <2>1, <2>2 DEF Reached
<1> QED BY <1>6, <1>7 DEF n

\* Positions that are one spot are reached in the same times.
LEMMA OneSpotReached ==
  ASSUME NEW segs, IsGraph(segs), NEW snaps, SnapsAreOn(segs, snaps), NEW found, Sound(segs, snaps, found),
         Seeded(snaps, found), Answered(segs, found), NEW t \in Nat,
         NEW g \in segs, NEW off \in 0..g.length, NEW o \in segs, NEW at \in 0..o.length,
         Spot(g, off) = Spot(o, at), Reached(g, off, found, snaps, t)
  PROVE  Reached(o, at, found, snaps, t)
<1>1. \/ g = o /\ off = at
      \/ /\ off = 0 \/ off = g.length
         /\ (at = 0 /\ o.a = Spot(g, off)) \/ (at = o.length /\ o.c = Spot(g, off))
  BY SameSpot
<1>2. CASE g = o /\ off = at
  BY <1>2
<1>3. CASE /\ off = 0 \/ off = g.length
           /\ (at = 0 /\ o.a = Spot(g, off)) \/ (at = o.length /\ o.c = Spot(g, off))
  <2>1. Spot(g, 0) = g.a /\ Spot(g, g.length) = g.c
    BY LegIs
  <2>2. /\ Reached(g, 0, found, snaps, t) => Known(found, g.a, t)
        /\ Reached(g, g.length, found, snaps, t) => Known(found, g.c, t)
    BY EndsAreKnown
  <2>3. Known(found, Spot(g, off), t)
    BY <1>3, <2>1, <2>2
  <2>4. /\ Known(found, o.a, t) => Reached(o, 0, found, snaps, t)
        /\ Known(found, o.c, t) => Reached(o, o.length, found, snaps, t)
    BY KnownIsReached
  <2> QED BY <1>3, <2>3, <2>4
<1> QED BY <1>1, <1>2, <1>3

\* Wherever a facility can drive is reached at least as soon.
LEMMA DrivenIsReached ==
  ASSUME NEW segs, IsGraph(segs), NEW snaps, SnapsAreOn(segs, snaps), NEW found, Sound(segs, snaps, found),
         Seeded(snaps, found), Answered(segs, found), NEW f \in Snapped(snaps),
         NEW d \in Driven(segs, Home(snaps, f)),
         NEW g \in segs, NEW off \in 0..g.length, Spot(g, off) = d[1]
  PROVE  Reached(g, off, found, snaps, d[2])
<1> DEFINE In(x, h, k) == Spot(h, k) = x[1] => Reached(h, k, found, snaps, x[2])
           Z == {x \in Timetable(segs) : \A h \in segs : \A k \in 0..h.length : In(x, h, k)}
           home == snaps[f][1]
<1>1. home.seg \in segs /\ home.off \in 0..home.seg.length /\ Home(snaps, f) = Spot(home.seg, home.off)
  BY DEF SnapsAreOn, IsPosition, Home, SpotAt
<1>2. Home(snaps, f) \in Places(segs)
  BY PositionsArePlaces DEF SnapsAreOn, Home
<1>3. <<Home(snaps, f), 0>> \in Z
  <2>1. Reached(home.seg, home.off, found, snaps, 0)
    <3> DEFINE h == home.seg
               k == home.off
    <3>1. k \in Int /\ h.pace \in Nat
      BY <1>1, LegIs
    <3>2. k - k = 0 /\ Abs2(k - k) = 0
      <4> HIDE DEF k
      <4>1. k - k = 0
        BY <3>1
      <4> QED BY <4>1, Abs2Is
    <3>3. 0 * h.pace = 0
      BY <3>1
    <3>4. Abs2(k - k) * h.pace <= 0
      BY <3>2, <3>3
    <3>5. FromHome(h, k, home, 0)
      BY <3>2, <3>4 DEF FromHome
    <3> QED BY <3>5 DEF Reached
  <2>2. ASSUME NEW h \in segs, NEW k \in 0..h.length, Spot(h, k) = Home(snaps, f)
        PROVE  Reached(h, k, found, snaps, 0)
    <3>1. Spot(home.seg, home.off) = Spot(h, k)
      BY <1>1, <2>2
    <3> HIDE DEF home
    <3> QED BY <1>1, <2>1, <3>1, OneSpotReached
  <2>3. <<Home(snaps, f), 0>> \in Timetable(segs)
    BY <1>2 DEF Timetable
  <2> QED BY <2>2, <2>3
<1>4. Closed(segs, Z)
  <2> SUFFICES ASSUME NEW x \in Z, NEW e \in Steps(segs), e[1] = x[1]
               PROVE  <<e[2], x[2] + e[3]>> \in Z
    BY DEF Closed
  <2>1. x[2] \in Nat /\ e[2] \in Places(segs) /\ e[3] \in Nat
    BY StepsAreFine DEF Timetable
  <2>2. <<e[2], x[2] + e[3]>> \in Timetable(segs)
    BY <2>1 DEF Timetable
  <2>3. PICK h \in segs : \E k \in 1..h.length : (h.fwd /\ e = Forth(h, k)) \/ (h.back /\ e = Back(h, k))
    BY StepsAre
  <2>4. PICK k \in 1..h.length : (h.fwd /\ e = Forth(h, k)) \/ (h.back /\ e = Back(h, k))
    BY <2>3
  <2>5. k \in 0..h.length /\ k - 1 \in 0..h.length
    BY LegIs
  <2> DEFINE there == IF e = Forth(h, k) /\ h.fwd THEN k ELSE k - 1
  <2>6. there \in 0..h.length /\ e[2] = Spot(h, there) /\ Reached(h, there, found, snaps, x[2] + e[3])
    <3>1. CASE h.fwd /\ e = Forth(h, k)
      <4>1. e[1] = Spot(h, k - 1) /\ e[2] = Spot(h, k) /\ e[3] = h.pace /\ there = k
        BY <3>1 DEF Forth
      <4>2. Reached(h, k - 1, found, snaps, x[2])
        BY <2>5, <4>1
      <4>3. Reached(h, k, found, snaps, x[2] + h.pace)
        BY <2>1, <3>1, <4>2, StepIsReached
      <4> QED BY <2>5, <4>1, <4>3
    <3>2. CASE h.back /\ e = Back(h, k) /\ ~(h.fwd /\ e = Forth(h, k))
      <4>1. e[1] = Spot(h, k) /\ e[2] = Spot(h, k - 1) /\ e[3] = h.pace /\ there = k - 1
        BY <3>2 DEF Back
      <4>2. Reached(h, k, found, snaps, x[2])
        BY <2>5, <4>1
      <4>3. Reached(h, k - 1, found, snaps, x[2] + h.pace)
        BY <2>1, <3>2, <4>2, StepIsReached
      <4> QED BY <2>5, <4>1, <4>3
    <3> QED BY <2>4, <3>1, <3>2
  <2> HIDE DEF there
  <2>7. ASSUME NEW o \in segs, NEW at \in 0..o.length, Spot(o, at) = e[2]
        PROVE  Reached(o, at, found, snaps, x[2] + e[3])
    <3>1. Spot(h, there) = Spot(o, at) /\ x[2] + e[3] \in Nat
      BY <2>1, <2>6, <2>7
    <3> QED BY <2>6, <3>1, OneSpotReached
  <2> QED BY <2>2, <2>7
<1>5. Z \in SUBSET Timetable(segs)
  OBVIOUS
<1>6. d \in Z
  <2> HIDE DEF Z
  <2> QED BY <1>2, <1>3, <1>4, <1>5, DrivenIsLeast
<1> QED BY <1>6

-----------------------------------------------------------------------------
(* The offers to a position against the reference.                         *)

\* The first of the quickest offers is one of them and no slower than any.
LEMMA QuickestIs ==
  ASSUME NEW offers, offers # {}, \A o \in offers : o.secs \in Nat /\ o.rank + 1 \in Nat /\ o.rank \in Int
  PROVE  Quickest(offers) \in offers /\ \A o \in offers : Quickest(offers).secs <= o.secs
<1> DEFINE S == {o.secs : o \in offers}
<1>1. S \subseteq Nat /\ S # {}
  OBVIOUS
<1>2. (\A o \in offers : o.secs \in S) /\ (\A n \in S : \E o \in offers : o.secs = n)
  OBVIOUS
<1> HIDE DEF S
<1>3. PICK least \in S : \A n \in S : least <= n
  BY <1>1, LeastOf
<1> DEFINE R == {o.rank + 1 : o \in {o \in offers : o.secs = least}}
<1>4. R \subseteq Nat /\ R # {}
  BY <1>2
<1>5. (\A o \in offers : o.secs = least => o.rank + 1 \in R)
      /\ (\A n \in R : \E o \in offers : o.secs = least /\ o.rank + 1 = n)
  OBVIOUS
<1> HIDE DEF R
<1>6. PICK first \in R : \A n \in R : first <= n
  BY <1>4, LeastOf
<1>7. PICK q \in offers : q.secs = least /\ q.rank + 1 = first
  BY <1>5
<1>8. ASSUME NEW o \in offers PROVE q.secs < o.secs \/ (q.secs = o.secs /\ q.rank <= o.rank)
  <2>1. least <= o.secs /\ least \in Nat /\ o.secs \in Nat
    BY <1>1, <1>2, <1>3
  <2>2. CASE o.secs = least
    <3>1. q.rank + 1 <= o.rank + 1 /\ q.rank \in Int /\ o.rank \in Int
      BY <1>5, <1>6, <1>7, <2>2
    <3>2. q.rank <= o.rank
      BY <3>1
    <3> QED BY <1>7, <2>2, <3>2
  <2>3. CASE o.secs # least
    BY <1>7, <2>1, <2>3
  <2> QED BY <2>2, <2>3
<1> DEFINE First(p) == \A other \in offers : p.secs < other.secs \/ (p.secs = other.secs /\ p.rank <= other.rank)
<1>9. First(q)
  BY <1>8
<1>10. Quickest(offers) = CHOOSE p \in offers : First(p)
  BY DEF Quickest
<1>11. Quickest(offers) \in offers /\ First(Quickest(offers))
  <2> HIDE DEF First
  <2> QED BY <1>9, <1>10
<1>12. ASSUME NEW o \in offers PROVE Quickest(offers).secs <= o.secs
  <2> DEFINE p == Quickest(offers)
  <2>1. p.secs < o.secs \/ p.secs = o.secs
    BY <1>11
  <2>2. p.secs \in Nat /\ o.secs \in Nat
    BY <1>11
  <2> HIDE DEF p
  <2>3. p.secs <= o.secs
    BY <2>1, <2>2
  <2> QED BY <2>3 DEF p
<1> QED BY <1>11, <1>12

\* The reference's times, over the facilities.
Arrivals(segs, snaps) ==
  UNION {{<<f, d[1], d[2]>> : d \in DriveTimes(segs, Home(snaps, f))} : f \in Snapped(snaps)}
TimesTo(segs, snaps, s) == {d[3] : d \in {x \in Arrivals(segs, snaps) : x[2] = SpotAt(s)}}

\* The reference times of a position are driven, and none that is driven
\* beats them.
LEMMA ArrivalsAreDriven ==
  ASSUME NEW segs, IsGraph(segs), NEW snaps, SnapsAreOn(segs, snaps), NEW s
  PROVE  /\ \A n \in TimesTo(segs, snaps, s) : n \in Nat /\ \E f \in Snapped(snaps) :
              <<SpotAt(s), n>> \in Driven(segs, Home(snaps, f)) /\ <<f, SpotAt(s), n>> \in Arrivals(segs, snaps)
         /\ \A f \in Snapped(snaps) : \A n : <<SpotAt(s), n>> \in Driven(segs, Home(snaps, f)) =>
              \E m \in TimesTo(segs, snaps, s) : m <= n /\ <<f, SpotAt(s), m>> \in Arrivals(segs, snaps)
<1> DEFINE A == Arrivals(segs, snaps)
           T == TimesTo(segs, snaps, s)
           At(f) == DriveTimes(segs, Home(snaps, f))
           Of(f) == {<<f, d[1], d[2]>> : d \in At(f)}
<1>1. ASSUME NEW f \in Snapped(snaps)
      PROVE  /\ Home(snaps, f) \in Places(segs)
             /\ At(f) \subseteq Driven(segs, Home(snaps, f))
             /\ BestDrives(segs, Home(snaps, f)) \subseteq At(f)
             /\ Driven(segs, Home(snaps, f)) \subseteq Timetable(segs)
  <2>1. Home(snaps, f) \in Places(segs)
    BY PositionsArePlaces DEF SnapsAreOn, Home
  <2> QED BY <2>1, DriveTimesAreLeast, DrivenIsLeast
<1>2. A = UNION {Of(f) : f \in Snapped(snaps)}
  BY DEF Arrivals
<1>3. /\ \A x \in A : \E f \in Snapped(snaps) : x \in Of(f)
      /\ \A f \in Snapped(snaps) : Of(f) \subseteq A
  <2> HIDE DEF Of, A
  <2> QED BY <1>2
<1>4. ASSUME NEW f PROVE /\ \A x \in Of(f) : \E d \in At(f) : x = <<f, d[1], d[2]>>
                         /\ \A d \in At(f) : <<f, d[1], d[2]>> \in Of(f)
  <2> HIDE DEF At
  <2> QED OBVIOUS
<1> HIDE DEF A, At, Of
<1>5. /\ \A n \in T : \E x \in A : x[2] = SpotAt(s) /\ x[3] = n
      /\ \A x \in A : x[2] = SpotAt(s) => x[3] \in T
  BY DEF TimesTo, A
<1> HIDE DEF T
<1>6. ASSUME NEW n \in T
      PROVE  n \in Nat /\ \E f \in Snapped(snaps) :
               <<SpotAt(s), n>> \in Driven(segs, Home(snaps, f)) /\ <<f, SpotAt(s), n>> \in A
  <2>1. PICK x \in A : x[2] = SpotAt(s) /\ x[3] = n
    BY <1>5
  <2>2. PICK f \in Snapped(snaps) : x \in Of(f)
    BY <1>3
  <2>3. PICK d \in At(f) : x = <<f, d[1], d[2]>>
    BY <1>4, <2>2
  <2>4. d[1] = SpotAt(s) /\ d[2] = n
    BY <2>1, <2>3
  <2>5. d \in Driven(segs, Home(snaps, f)) /\ d \in Timetable(segs)
    BY <1>1
  <2>6. d = <<d[1], d[2]>> /\ d[2] \in Nat
    BY <2>5 DEF Timetable
  <2>7. <<SpotAt(s), n>> \in Driven(segs, Home(snaps, f)) /\ <<f, SpotAt(s), n>> \in A
    BY <2>3, <2>4, <2>5, <2>6
  <2> QED BY <2>4, <2>6, <2>7
<1>7. ASSUME NEW f \in Snapped(snaps), NEW n, <<SpotAt(s), n>> \in Driven(segs, Home(snaps, f))
      PROVE  \E m \in T : m <= n /\ <<f, SpotAt(s), m>> \in A
  <2>1. PICK d \in BestDrives(segs, Home(snaps, f)) : d[1] = <<SpotAt(s), n>>[1] /\ d[2] <= <<SpotAt(s), n>>[2]
    BY <1>1, <1>7, BestThereAre
  <2>2. d[1] = SpotAt(s) /\ d[2] <= n
    BY <2>1
  <2>3. d \in At(f)
    BY <1>1
  <2>4. <<f, d[1], d[2]>> \in A
    BY <1>3, <1>4, <2>3
  <2> DEFINE x == <<f, d[1], d[2]>>
  <2>5. x \in A /\ x[2] = SpotAt(s) /\ x[3] = d[2]
    BY <2>2, <2>4
  <2>6. d[2] \in T
    BY <1>5, <2>5
  <2> QED BY <2>2, <2>4, <2>6
<1> QED BY <1>6, <1>7 DEF A, T

\* What a finished search offers first is the reference's least time.
LEMMA OffersAreTrue ==
  ASSUME NEW segs, IsGraph(segs), NEW snaps, SnapsAreOn(segs, snaps), NEW found, Sound(segs, snaps, found),
         Seeded(snaps, found), Answered(segs, found), NEW s, IsPosition(segs, s)
  PROVE  /\ Offers(s, found, snaps) = {} <=> TimesTo(segs, snaps, s) = {}
         /\ Offers(s, found, snaps) # {} =>
              /\ Quickest(Offers(s, found, snaps)).secs = Min(TimesTo(segs, snaps, s))
              /\ <<Quickest(Offers(s, found, snaps)).facility, SpotAt(s), Min(TimesTo(segs, snaps, s))>>
                   \in Arrivals(segs, snaps)
<1> DEFINE O == Offers(s, found, snaps)
           T == TimesTo(segs, snaps, s)
           A == Arrivals(segs, snaps)
           q == Quickest(O)
<1>1. \A o \in O : o.facility \in Snapped(snaps) /\ o.secs \in Nat /\ o.rank + 1 \in Nat
                   /\ <<SpotAt(s), o.secs>> \in Driven(segs, Home(snaps, o.facility))
  BY OffersAreDriven
<1>2. \A n \in T : n \in Nat /\ \E f \in Snapped(snaps) :
        <<SpotAt(s), n>> \in Driven(segs, Home(snaps, f)) /\ <<f, SpotAt(s), n>> \in A
  BY ArrivalsAreDriven
<1>3. \A f \in Snapped(snaps) : \A n : <<SpotAt(s), n>> \in Driven(segs, Home(snaps, f)) =>
        \E m \in T : m <= n /\ <<f, SpotAt(s), m>> \in A
  BY ArrivalsAreDriven
<1>4. ASSUME NEW n \in T PROVE \E o \in O : o.secs <= n
  <2>1. PICK f \in Snapped(snaps) : <<SpotAt(s), n>> \in Driven(segs, Home(snaps, f))
    BY <1>2
  <2> DEFINE d == <<SpotAt(s), n>>
             g == s.seg
             off == s.off
  <2>2. d \in Driven(segs, Home(snaps, f)) /\ g \in segs /\ off \in 0..g.length
    BY <2>1 DEF IsPosition
  <2>3. Spot(g, off) = d[1] /\ d[2] = n
    BY DEF SpotAt
  <2> HIDE DEF d, g, off
  <2>4. Reached(g, off, found, snaps, d[2])
    BY <2>2, <2>3, DrivenIsReached
  <2>5. Reached(s.seg, s.off, found, snaps, n)
    BY <2>3, <2>4 DEF g, off
  <2> QED BY <2>5, ReachedIsOffered
<1>5. ASSUME NEW o \in O PROVE \E m \in T : m <= o.secs /\ <<o.facility, SpotAt(s), m>> \in A
  BY <1>1, <1>3
<1>6. \A o \in O : o.secs \in Nat /\ o.rank + 1 \in Nat /\ o.rank \in Int
  <2> SUFFICES ASSUME NEW o \in O PROVE o.rank \in Int
    BY <1>1
  <2>1. o \in ArrivalAt(s, found) \/ \E f \in Snapped(snaps) : o \in AlongSegment(snaps[f][1], s, f)
    BY OffersAre
  <2>2. CASE o \in ArrivalAt(s, found)
    <3>1. o.rank = -1 \/ o.rank = 0
      BY <2>2, ArrivalsAre
    <3> QED BY <3>1
  <2>3. ASSUME NEW f \in Snapped(snaps), o \in AlongSegment(snaps[f][1], s, f) PROVE o.rank \in Int
    <3>1. o.rank = f /\ f \in Nat
      BY <2>3, AlongIs DEF SnapsAreOn
    <3> QED BY <3>1
  <2> QED BY <2>1, <2>2, <2>3
<1> HIDE DEF O, T, A
<1>7. O = {} <=> T = {}
  BY <1>4, <1>5
<1>8. ASSUME O # {} PROVE q.secs = Min(T) /\ <<q.facility, SpotAt(s), Min(T)>> \in A
  <2>1. q \in O /\ \A o \in O : q.secs <= o.secs
    BY <1>6, <1>8, QuickestIs
  <2>2. Min(T) \in T /\ \A n \in T : Min(T) <= n
    <3>1. T \subseteq Nat /\ T # {}
      BY <1>2, <1>7, <1>8
    <3> QED BY <3>1, LeastOf
  <2> HIDE DEF q
  <2>3. PICK m \in T : m <= q.secs /\ <<q.facility, SpotAt(s), m>> \in A
    BY <1>5, <2>1
  <2>4. PICK o \in O : o.secs <= Min(T)
    BY <1>4, <2>2
  <2> DEFINE n == Min(T)
  <2>5. n \in Nat /\ m \in Nat /\ q.secs \in Nat /\ o.secs \in Nat /\ n <= m /\ m <= q.secs
        /\ q.secs <= o.secs /\ o.secs <= n
    BY <1>1, <1>2, <2>1, <2>2, <2>3, <2>4
  <2> HIDE DEF n
  <2>6. q.secs = n /\ m = n
    BY <2>5
  <2> QED BY <2>3, <2>6 DEF n
<1> QED BY <1>7, <1>8 DEF O, T, A, q

-----------------------------------------------------------------------------
(* Relaxing.                                                               *)

\* Of several offers there is one of the least cost, and of the least source
\* among these.
LEMMA BestSeed ==
  ASSUME NEW S, S # {}, \A s \in S : s.cost \in Nat /\ s.source \in Nat
  PROVE  \E s \in S : \A o \in S : s.cost < o.cost \/ (s.cost = o.cost /\ s.source <= o.source)
<1> DEFINE C == {s.cost : s \in S}
<1>1. C \subseteq Nat /\ C # {}
  OBVIOUS
<1>2. (\A s \in S : s.cost \in C) /\ (\A n \in C : \E s \in S : s.cost = n)
  OBVIOUS
<1> HIDE DEF C
<1>3. PICK least \in C : \A n \in C : least <= n
  BY <1>1, LeastOf
<1> DEFINE R == {s.source : s \in {s \in S : s.cost = least}}
<1>4. R \subseteq Nat /\ R # {}
  BY <1>2
<1>5. (\A s \in S : s.cost = least => s.source \in R)
      /\ (\A n \in R : \E s \in S : s.cost = least /\ s.source = n)
  OBVIOUS
<1> HIDE DEF R
<1>6. PICK first \in R : \A n \in R : first <= n
  BY <1>4, LeastOf
<1>7. PICK q \in S : q.cost = least /\ q.source = first
  BY <1>5
<1>8. ASSUME NEW o \in S PROVE q.cost < o.cost \/ (q.cost = o.cost /\ q.source <= o.source)
  <2>1. least <= o.cost /\ least \in Nat /\ o.cost \in Nat
    BY <1>1, <1>2, <1>3
  <2>2. CASE o.cost = least
    BY <1>5, <1>6, <1>7, <2>2
  <2>3. CASE o.cost # least
    BY <1>7, <2>1, <2>3
  <2> QED BY <2>2, <2>3
<1> QED BY <1>8

\* Relaxing: what is known gets better or stays, no seed beats it, and what
\* is new of it stands in the queue.
SeedsAreFine(seeds) == \A s \in seeds : s.cost \in Nat /\ s.source \in Nat
Relaxes(r, seeds, q) ==
  /\ \A v \in DOMAIN q.found :
       \/ v \in DOMAIN r.found /\ q.found[v] = r.found[v]
       \/ /\ \E s \in seeds : s.node = v /\ q.found[v] = [cost |-> s.cost, source |-> s.source]
          /\ [node |-> v, cost |-> q.found[v].cost] \in q.queue
  /\ \A v \in DOMAIN r.found : Known(q.found, v, r.found[v].cost)
  /\ \A s \in seeds : Known(q.found, s.node, s.cost)
  /\ r.queue \subseteq q.queue
  /\ \A x \in q.queue : x \in r.queue \/ \E s \in seeds : x = [node |-> s.node, cost |-> s.cost]

\* Relaxing touches the arrivals found and the queue, and does what Relaxes
\* says.
LEMMA RelaxedIs ==
  ASSUME NEW r, "found" \in DOMAIN r, "queue" \in DOMAIN r,
         NEW seeds, SeedsAreFine(seeds), \A v \in DOMAIN r.found : r.found[v].cost \in Nat
  PROVE  /\ Relaxed(r, seeds) = [r EXCEPT !.found = Relaxed(r, seeds).found, !.queue = Relaxed(r, seeds).queue]
         /\ Relaxes(r, seeds, Relaxed(r, seeds))
<1> DEFINE q == Relaxed(r, seeds)
           better == {s \in seeds : Better(r.found, s)}
           nodes == {s.node : s \in better}
           IsBest(v, s) == s.node = v /\ \A o \in better : o.node = v =>
                             s.cost < o.cost \/ (s.cost = o.cost /\ s.source <= o.source)
           Best(v) == CHOOSE s \in better : IsBest(v, s)
           new == [v \in DOMAIN r.found \cup nodes |->
                     IF v \in nodes THEN [cost |-> Best(v).cost, source |-> Best(v).source] ELSE r.found[v]]
           queued == {[node |-> s.node, cost |-> s.cost] : s \in better}
<1>1. q = [r EXCEPT !.found = new, !.queue = r.queue \cup queued]
  BY DEF Relaxed
<1>2. ASSUME NEW v \in nodes PROVE Best(v) \in better /\ IsBest(v, Best(v))
  <2> DEFINE S == {s \in better : s.node = v}
  <2>1. S # {} /\ \A s \in S : s.cost \in Nat /\ s.source \in Nat
    BY DEF SeedsAreFine
  <2>2. \A s \in S : s \in better /\ s.node = v
    OBVIOUS
  <2>3. \A s \in better : s.node = v => s \in S
    OBVIOUS
  <2> HIDE DEF S, better
  <2>4. PICK s \in S : \A o \in S : s.cost < o.cost \/ (s.cost = o.cost /\ s.source <= o.source)
    BY <2>1, BestSeed
  <2>5. s \in better /\ IsBest(v, s)
    BY <2>2, <2>3, <2>4
  <2> HIDE DEF IsBest
  <2> QED BY <2>5
<1>3. \A s \in better : s \in seeds /\ s.cost \in Nat /\ (s.node \notin DOMAIN r.found \/ s.cost < r.found[s.node].cost)
  BY DEF SeedsAreFine, Better
<1>4. \A s \in seeds : s \in better \/ (s.node \in DOMAIN r.found /\ ~(s.cost < r.found[s.node].cost))
  BY DEF Better
<1>5. (\A s \in better : s.node \in nodes) /\ (\A v \in nodes : \E s \in better : s.node = v)
  OBVIOUS
<1>6. (\A s \in better : [node |-> s.node, cost |-> s.cost] \in queued)
      /\ (\A x \in queued : \E s \in better : x = [node |-> s.node, cost |-> s.cost])
  OBVIOUS
<1>7. \A v \in nodes : \A o \in better : o.node = v => Best(v).cost <= o.cost
  <2> SUFFICES ASSUME NEW v \in nodes, NEW o \in better, o.node = v PROVE Best(v).cost <= o.cost
    OBVIOUS
  <2> DEFINE b == Best(v)
  <2>1. b \in better /\ (b.cost < o.cost \/ b.cost = o.cost)
    BY <1>2
  <2> HIDE DEF b, better
  <2>2. b.cost \in Nat /\ o.cost \in Nat
    BY <1>3, <2>1
  <2>3. b.cost <= o.cost
    BY <2>1, <2>2
  <2> QED BY <2>3 DEF b
<1>8. \A v \in nodes : Best(v) \in better /\ Best(v).node = v
  BY <1>2
<1> HIDE DEF better, nodes, Best, queued, q
<1>9. DOMAIN new = DOMAIN r.found \cup nodes
      /\ \A v \in DOMAIN r.found \cup nodes :
           new[v] = IF v \in nodes THEN [cost |-> Best(v).cost, source |-> Best(v).source] ELSE r.found[v]
  OBVIOUS
<1> HIDE DEF new
<1>10. q.found = new /\ q.queue = r.queue \cup queued
  BY <1>1
<1>11. ASSUME NEW v \in nodes
       PROVE  /\ v \in DOMAIN new /\ new[v] = [cost |-> Best(v).cost, source |-> Best(v).source]
              /\ new[v].cost = Best(v).cost
  <2>1. v \in DOMAIN new /\ new[v] = [cost |-> Best(v).cost, source |-> Best(v).source]
    BY <1>9
  <2> QED BY <2>1
<1>12. ASSUME NEW v \in DOMAIN r.found, v \notin nodes PROVE v \in DOMAIN new /\ new[v] = r.found[v]
  BY <1>9, <1>12
<1>13. ASSUME NEW v \in DOMAIN new
       PROVE  \/ v \in DOMAIN r.found /\ new[v] = r.found[v]
              \/ /\ \E s \in seeds : s.node = v /\ new[v] = [cost |-> s.cost, source |-> s.source]
                 /\ [node |-> v, cost |-> new[v].cost] \in q.queue
  <2>1. CASE v \in nodes
    <3>1. Best(v) \in seeds /\ Best(v).node = v /\ Best(v) \in better
      BY <1>3, <1>8, <2>1
    <3>2. [node |-> Best(v).node, cost |-> Best(v).cost] \in queued
      BY <1>6, <3>1
    <3>3. [node |-> v, cost |-> new[v].cost] \in q.queue
      BY <1>10, <1>11, <2>1, <3>1, <3>2
    <3> QED BY <1>11, <2>1, <3>1, <3>3
  <2>2. CASE v \notin nodes
    BY <1>9, <1>12, <2>2
  <2> QED BY <2>1, <2>2
<1>14. ASSUME NEW v \in DOMAIN r.found PROVE Known(new, v, r.found[v].cost)
  <2>1. CASE v \in nodes
    <3> DEFINE b == Best(v)
    <3>1. b \in better /\ b.node = v
      BY <1>8, <2>1
    <3>2. new[v].cost = b.cost /\ v \in DOMAIN new
      BY <1>11, <2>1
    <3> HIDE DEF b
    <3>3. b.cost < r.found[v].cost /\ b.cost \in Nat /\ r.found[v].cost \in Nat
      BY <1>3, <3>1
    <3>4. b.cost <= r.found[v].cost
      BY <3>3
    <3> QED BY <3>2, <3>4 DEF Known
  <2>2. CASE v \notin nodes
    <3>1. r.found[v].cost <= r.found[v].cost
      OBVIOUS
    <3> QED BY <1>12, <2>2, <3>1 DEF Known
  <2> QED BY <2>1, <2>2
<1>15. ASSUME NEW s \in seeds PROVE Known(new, s.node, s.cost)
  <2>1. CASE s \in better
    <3>1. s.node \in nodes
      BY <1>5, <2>1
    <3>2. Best(s.node).cost <= s.cost
      BY <1>7, <2>1, <3>1
    <3> QED BY <1>11, <3>1, <3>2 DEF Known
  <2>2. CASE s \notin better
    <3>1. s.node \in DOMAIN r.found /\ ~(s.cost < r.found[s.node].cost)
      BY <1>4, <2>2
    <3>2. s.cost \in Nat /\ r.found[s.node].cost \in Nat
      BY <3>1 DEF SeedsAreFine
    <3>3. r.found[s.node].cost <= s.cost
      BY <3>1, <3>2
    <3>4. CASE s.node \in nodes
      <4> DEFINE v == s.node
                 b == Best(v)
      <4>1. b \in better /\ b.node = v
        BY <1>8, <3>4
      <4>2. new[v].cost = b.cost /\ v \in DOMAIN new
        BY <1>11, <3>4
      <4> HIDE DEF b
      <4>3. b.cost < r.found[v].cost /\ b.cost \in Nat
        BY <1>3, <3>1, <4>1
      <4>4. b.cost <= s.cost
        BY <3>2, <3>3, <4>3
      <4> QED BY <4>2, <4>4 DEF Known
    <3>5. CASE s.node \notin nodes
      BY <1>12, <3>1, <3>3, <3>5 DEF Known
    <3> QED BY <3>4, <3>5
  <2> QED BY <2>1, <2>2
<1>16. ASSUME NEW x \in q.queue PROVE x \in r.queue \/ \E s \in seeds : x = [node |-> s.node, cost |-> s.cost]
  BY <1>3, <1>6, <1>10
<1>17. q = [r EXCEPT !.found = q.found, !.queue = q.queue]
  BY <1>1, <1>10
<1>18. Relaxes(r, seeds, q)
  BY <1>10, <1>13, <1>14, <1>15, <1>16 DEF Relaxes
<1> QED BY <1>17, <1>18 DEF q

-----------------------------------------------------------------------------
(* The graph of a city.                                                    *)

\* A position snapped to lies on its segment.
LEMMA SnapOnIs ==
  ASSUME NEW s, IsSegment(s), NEW at \in Point
  PROVE  SnapOn(s, at).seg = s /\ SnapOn(s, at).off \in 0..s.length
<1> DEFINE dx == s.c[1] - s.a[1]
           dy == s.c[2] - s.a[2]
           dot == (at[1] - s.a[1]) * dx + (at[2] - s.a[2]) * dy
           length == s.length
           along == dot \div length
           off == Max({0, Min({length, along})})
<1>1. SnapOn(s, at).seg = s /\ SnapOn(s, at).off = off
  BY DEF SnapOn
<1>2. dot \in Int /\ length \in Nat \ {0}
  <2>1. /\ s.a \in Point /\ s.c \in Point /\ length \in Nat \ {0}
    BY DEF IsSegment
  <2>2. s.a[1] \in Int /\ s.a[2] \in Int /\ s.c[1] \in Int /\ s.c[2] \in Int /\ at[1] \in Int /\ at[2] \in Int
    BY <2>1 DEF Point
  <2> DEFINE x == at[1] - s.a[1]
             y == at[2] - s.a[2]
  <2>3. x \in Int /\ y \in Int /\ dx \in Int /\ dy \in Int
    BY <2>2
  <2> HIDE DEF x, y, dx, dy
  <2>4. x * dx \in Int /\ y * dy \in Int
    BY <2>3
  <2>5. x * dx + y * dy \in Int
    BY <2>4
  <2> QED BY <2>1, <2>5 DEF x, y
<1> HIDE DEF dot, length
<1>3. along \in Int
  BY <1>2
<1> HIDE DEF along
<1> DEFINE near == Min({length, along})
<1>4. near \in Int /\ near <= length
  <2>1. near = IF length <= along THEN length ELSE along
    BY <1>2, <1>3, MinMax
  <2> QED BY <1>2, <1>3, <2>1
<1>5. off = IF 0 <= near THEN near ELSE 0
  <2> HIDE DEF near
  <2>1. Max({0, near}) = IF 0 <= near THEN near ELSE 0
    BY <1>4, MinMax
  <2> QED BY <2>1 DEF near
<1> HIDE DEF near
<1>6. off \in 0..length
  BY <1>2, <1>4, <1>5
<1> QED BY <1>1, <1>6 DEF length

\* The positions a point may snap to are positions of the graph.
LEMMA CandidatesAre ==
  ASSUME NEW segs, IsGraph(segs), NEW at \in Point, NEW radius, NEW s \in SnapCandidates(segs, at, radius)
  PROVE  IsPosition(segs, s)
<1>1. PICK g \in segs : s = SnapOn(g, at)
  BY DEF SnapCandidates
<1>2. IsSegment(g)
  BY DEF IsGraph
<1> QED BY <1>1, <1>2, SnapOnIs DEF IsPosition

\* So are those a facility may snap to.
LEMMA ConnectedAre ==
  ASSUME NEW segs, IsGraph(segs), NEW at \in Point, NEW s \in SnapConnected(segs, at)
  PROVE  IsPosition(segs, s)
<1>1. s \in SnapCandidates(segs, at, FacilitySnap)
  BY DEF SnapConnected, Closest
<1> QED BY <1>1, CandidatesAre

\* A speed is a positive number.
LEMMA SpeedType ==
  ASSUME NEW tags \in RoadTags
  PROVE  SpeedKmh(tags) \in Nat \ {0}
<1> DEFINE m == tags.maxspeed
           kmh == IF m.unit = "mph" THEN (m.value * 1609344) \div 1000000 ELSE m.value
           parsed == ParseMaxspeed(m)
<1>1. parsed = IF m.unit \in {"mph", "km/h", ""} /\ kmh \in 5..200 THEN kmh ELSE 0
  BY DEF ParseMaxspeed
<1>2. parsed \in Nat
  <2> HIDE DEF kmh, m
  <2> DEFINE isSpeed == m.unit \in {"mph", "km/h", ""} /\ kmh \in 5..200
  <2>0. \A k \in 5..200 : k \in Nat
    OBVIOUS
  <2>1. isSpeed => kmh \in Nat
    BY <2>0, Zenon
  <2>2. parsed = IF isSpeed THEN kmh ELSE 0
    BY <1>1
  <2> HIDE DEF isSpeed
  <2> QED BY <2>1, <2>2
<1>3. DefaultSpeed \in Nat \ {0} /\ \A class \in DOMAIN SpeedByClass : SpeedByClass[class] \in Nat \ {0}
  BY StreetAssumption
<1>4. SpeedKmh(tags) = CASE parsed > 0 -> parsed
                         [] parsed = 0 /\ tags.highway \in DOMAIN SpeedByClass -> SpeedByClass[tags.highway]
                         [] OTHER -> DefaultSpeed
  BY DEF SpeedKmh
<1> HIDE DEF parsed
<1>5. CASE parsed > 0
  <2>1. ~(parsed = 0 /\ tags.highway \in DOMAIN SpeedByClass)
    BY <1>5
  <2>2. SpeedKmh(tags) = parsed
    BY <1>4, <1>5, <2>1
  <2> QED BY <1>2, <1>5, <2>2
<1>6. CASE parsed = 0 /\ tags.highway \in DOMAIN SpeedByClass
  <2>1. SpeedKmh(tags) = SpeedByClass[tags.highway]
    BY <1>4, <1>6
  <2> QED BY <1>3, <1>6, <2>1
<1>7. CASE ~(parsed > 0) /\ ~(parsed = 0 /\ tags.highway \in DOMAIN SpeedByClass)
  <2>1. SpeedKmh(tags) = DefaultSpeed
    BY <1>4, <1>7
  <2> QED BY <1>3, <2>1
<1> QED BY <1>5, <1>6, <1>7

Row == [api : STRING, tags : RoadTags, lines : Seq(Seq(Point))]
LegAt(roads, r, l, i) ==
  LET d == Direction(roads[r].tags)
      a == roads[r].lines[l][i]
      c == roads[r].lines[l][i + 1]
  IN [leg |-> <<r, l, i>>, a |-> a, c |-> c, length |-> Abs2(a[1] - c[1]) + Abs2(a[2] - c[2]),
      pace |-> PaceUnit \div SpeedKmh(roads[r].tags), fwd |-> d.fwd, back |-> d.back]
Legs(roads, r, l) == {LegAt(roads, r, l, i) : i \in 1..(Len(roads[r].lines[l]) - 1)}

\* The segments of a row are the legs of its lines whose ends are apart.
LEMMA SegmentsAreLegs ==
  ASSUME NEW roads, NEW r
  PROVE  SegmentsOf(roads, r) = UNION {{s \in Legs(roads, r, l) : s.a # s.c} : l \in DOMAIN roads[r].lines}
BY DEF SegmentsOf, Legs, LegAt

\* Such a leg is a segment, and it says which leg of which row it is.
LEMMA LegIsSegment ==
  ASSUME NEW roads \in Seq(Row), NEW r \in DOMAIN roads, NEW l \in DOMAIN roads[r].lines,
         NEW i \in 1..(Len(roads[r].lines[l]) - 1), LegAt(roads, r, l, i).a # LegAt(roads, r, l, i).c
  PROVE  IsSegment(LegAt(roads, r, l, i)) /\ LegAt(roads, r, l, i).leg = <<r, l, i>>
<1> DEFINE row == roads[r]
           line == row.lines[l]
           a == line[i]
           c == line[i + 1]
           s == LegAt(roads, r, l, i)
           d == Direction(row.tags)
<1>1. row \in Row
  OBVIOUS
<1>2. line \in Seq(Point) /\ row.tags \in RoadTags
  <2>1. row.lines \in Seq(Seq(Point)) /\ row.tags \in RoadTags /\ l \in DOMAIN row.lines
    BY <1>1 DEF Row
  <2> HIDE DEF row
  <2>2. line \in Seq(Point)
    BY <2>1
  <2> QED BY <2>1, <2>2
<1>3. a \in Point /\ c \in Point
  <2>1. i \in 1..Len(line) /\ i + 1 \in 1..Len(line)
    <3>1. Len(line) \in Nat
      BY <1>2
    <3>2. i \in 1..(Len(line) - 1)
      OBVIOUS
    <3> HIDE DEF line
    <3> QED BY <3>1, <3>2
  <2> HIDE DEF line
  <2> QED BY <1>2, <2>1
<1>4. /\ s.leg = <<r, l, i>> /\ s.a = a /\ s.c = c
      /\ s.length = Abs2(a[1] - c[1]) + Abs2(a[2] - c[2])
      /\ s.pace = PaceUnit \div SpeedKmh(row.tags) /\ s.fwd = d.fwd /\ s.back = d.back
  BY DEF LegAt
<1>5. d.fwd \in BOOLEAN /\ d.back \in BOOLEAN
  BY DEF Direction
<1>6. s.pace \in Nat
  <2> DEFINE v == SpeedKmh(row.tags)
  <2>1. v \in Nat \ {0} /\ PaceUnit \in Nat
    BY <1>2, SpeedType, StreetAssumption
  <2> HIDE DEF v
  <2>2. PaceUnit \div v \in Nat
    BY <2>1
  <2> QED BY <1>4, <2>2 DEF v
<1> HIDE DEF row, line, d
<1>7. s.length \in Nat \ {0}
  <2>1. a[1] \in Int /\ a[2] \in Int /\ c[1] \in Int /\ c[2] \in Int /\ a = <<a[1], a[2]>> /\ c = <<c[1], c[2]>>
    BY <1>3 DEF Point
  <2>2. a # c
    BY <1>4
  <2> HIDE DEF a, c, s
  <2>3. a[1] # c[1] \/ a[2] # c[2]
    BY <2>1, <2>2
  <2> DEFINE x == a[1] - c[1]
             y == a[2] - c[2]
  <2>4. x \in Int /\ y \in Int /\ (x # 0 \/ y # 0)
    BY <2>1, <2>3
  <2> HIDE DEF x, y
  <2>5. Abs2(x) + Abs2(y) \in Nat \ {0}
    <3>1. Abs2(x) \in Nat /\ Abs2(y) \in Nat /\ (x # 0 => Abs2(x) # 0) /\ (y # 0 => Abs2(y) # 0)
      BY <2>4, Abs2Is
    <3> QED BY <2>4, <3>1
  <2> QED BY <1>4, <2>5 DEF x, y
<1> HIDE DEF s, a, c
<1>8. s.a \in Point /\ s.c \in Point /\ s.a # s.c
  BY <1>3, <1>4 DEF s
<1>9. IsSegment(s)
  BY <1>4, <1>5, <1>6, <1>7, <1>8 DEF IsSegment
<1> QED BY <1>4, <1>9 DEF s

\* What BuildGraph makes of a city is a graph: segments with a length, told
\* apart by their legs, and finite.
LEMMA CityIsGraph ==
  ASSUME NEW p \in Cities
  PROVE  IsGraph(BuildGraph(p))
<1> DEFINE roads == p.roads
           rows == PreferredRoads(roads)
           G == BuildGraph(p)
           Of(r) == SegmentsOf(roads, r)
           Kept(r, l) == {s \in Legs(roads, r, l) : s.a # s.c}
<1>1. roads \in Seq(Row)
  BY StreetAssumption DEF Row
<1> HIDE DEF roads
<1>2. rows \subseteq DOMAIN roads /\ IsFiniteSet(rows)
  <2>1. rows \subseteq DOMAIN roads
    BY DEF PreferredRoads
  <2>2. DOMAIN roads = 1..Len(roads) /\ Len(roads) \in Nat
    BY <1>1
  <2>3. IsFiniteSet(1..Len(roads))
    BY <2>2, FS_Interval
  <2> HIDE DEF rows
  <2> QED BY <2>1, <2>2, <2>3, FS_Subset
<1>3. G = UNION {Of(r) : r \in rows}
  BY DEF BuildGraph, roads
<1>4. \A r : Of(r) = UNION {Kept(r, l) : l \in DOMAIN roads[r].lines}
  BY SegmentsAreLegs
<1> HIDE DEF rows, G, Of
<1>5. ASSUME NEW s \in G
      PROVE  \E r \in DOMAIN roads : \E l \in DOMAIN roads[r].lines :
               \E i \in 1..(Len(roads[r].lines[l]) - 1) : s = LegAt(roads, r, l, i) /\ s.a # s.c
  <2>1. PICK r \in rows : s \in Of(r)
    BY <1>3
  <2>2. PICK l \in DOMAIN roads[r].lines : s \in Kept(r, l)
    <3> HIDE DEF Kept
    <3> QED BY <1>4, <2>1
  <2>3. PICK i \in 1..(Len(roads[r].lines[l]) - 1) : s = LegAt(roads, r, l, i)
    BY <2>2 DEF Legs
  <2> QED BY <1>2, <2>2, <2>3
<1>6. ASSUME NEW s \in G
      PROVE  IsSegment(s) /\ s = LegAt(roads, s.leg[1], s.leg[2], s.leg[3])
  <2>1. PICK r \in DOMAIN roads : \E l \in DOMAIN roads[r].lines :
               \E i \in 1..(Len(roads[r].lines[l]) - 1) : s = LegAt(roads, r, l, i) /\ s.a # s.c
    BY <1>5
  <2>2. PICK l \in DOMAIN roads[r].lines :
               \E i \in 1..(Len(roads[r].lines[l]) - 1) : s = LegAt(roads, r, l, i) /\ s.a # s.c
    BY <2>1
  <2>3. PICK i \in 1..(Len(roads[r].lines[l]) - 1) : s = LegAt(roads, r, l, i) /\ s.a # s.c
    BY <2>2
  <2>4. IsSegment(s) /\ s.leg = <<r, l, i>>
    BY <1>1, <2>3, LegIsSegment
  <2>5. s.leg[1] = r /\ s.leg[2] = l /\ s.leg[3] = i
    BY <2>4
  <2> QED BY <2>3, <2>4, <2>5
<1>7. \A s, o \in G : s.leg = o.leg => s = o
  BY <1>6
<1>8. ASSUME NEW r \in rows PROVE IsFiniteSet(Of(r))
  <2> DEFINE lines == roads[r].lines
             All == {Kept(r, l) : l \in DOMAIN lines}
  <2>1. roads[r] \in Row
    BY <1>1, <1>2
  <2>2. lines \in Seq(Seq(Point))
    BY <2>1 DEF Row
  <2> HIDE DEF lines
  <2>3. DOMAIN lines = 1..Len(lines) /\ Len(lines) \in Nat /\ \A l \in DOMAIN lines : Len(lines[l]) \in Nat
    BY <2>2
  <2>4. ASSUME NEW l \in DOMAIN lines PROVE IsFiniteSet(Kept(r, l))
    <3> DEFINE n == Len(lines[l]) - 1
               leg == [i \in 1..n |-> LegAt(roads, r, l, i)]
    <3>1. n \in Int
      BY <2>3
    <3>2. IsFiniteSet(1..n)
      <4> HIDE DEF n
      <4> QED BY <3>1, FS_Interval
    <3>3. Legs(roads, r, l) = {LegAt(roads, r, l, i) : i \in 1..n}
      BY DEF Legs, lines
    <3> HIDE DEF n
    <3>4. leg \in Surjection(1..n, Legs(roads, r, l))
      BY <3>3 DEF Surjection
    <3> HIDE DEF leg
    <3>5. IsFiniteSet(Legs(roads, r, l))
      BY <3>2, <3>4, FS_Surjection
    <3>6. Kept(r, l) \subseteq Legs(roads, r, l)
      OBVIOUS
    <3> HIDE DEF Kept
    <3> QED BY <3>5, <3>6, FS_Subset
  <2> HIDE DEF Kept
  <2>5. IsFiniteSet(All)
    <3> DEFINE kept == [l \in DOMAIN lines |-> Kept(r, l)]
    <3>1. kept \in Surjection(DOMAIN lines, All)
      BY DEF Surjection
    <3>2. IsFiniteSet(DOMAIN lines)
      BY <2>3, FS_Interval
    <3> HIDE DEF kept, All
    <3> QED BY <3>1, <3>2, FS_Surjection
  <2>6. \A K \in All : IsFiniteSet(K)
    BY <2>4
  <2>7. Of(r) = UNION All
    BY <1>4 DEF lines
  <2> HIDE DEF All
  <2> QED BY <2>5, <2>6, <2>7, FS_UNION
<1>9. IsFiniteSet(G)
  <2> DEFINE All == {Of(r) : r \in rows}
             of == [r \in rows |-> Of(r)]
  <2>1. of \in Surjection(rows, All)
    BY DEF Surjection
  <2>2. \A K \in All : IsFiniteSet(K)
    BY <1>8
  <2>3. G = UNION All
    BY <1>3
  <2> HIDE DEF of, All
  <2>4. IsFiniteSet(All)
    BY <1>2, <2>1, FS_Surjection
  <2> QED BY <2>2, <2>3, <2>4, FS_UNION
<1> QED BY <1>6, <1>7, <1>9 DEF IsGraph, G

\* Facilities are at points.
LEMMA FacilitiesArePoints ==
  ASSUME NEW p \in Cities
  PROVE  Facilities(p) \in Seq(Point)
<1> DEFINE placed == p.placed
           Added(i) == /\ placed[i].service = p.service
                       /\ \A j \in 1..(i - 1) : placed[j].service = p.service => placed[j].at # placed[i].at
           more == [i \in DOMAIN placed |-> IF Added(i) THEN <<placed[i].at>> ELSE <<>>]
           Placing == [service : STRING, at : Point]
           n == Len(placed)
<1>1. p.stations \in Seq(Point) /\ placed \in Seq(Placing)
  BY StreetAssumption
<1>2. Facilities(p) = p.stations \o FlattenSeq(more)
  BY DEF Facilities
<1> HIDE DEF placed, Added
<1>3. \A a \in Point : <<a>> \in Seq(Point)
  <2> DEFINE T == Point
  <2> HIDE DEF T
  <2>1. \A a \in T : <<a>> \in Seq(T)
    OBVIOUS
  <2> QED BY <2>1 DEF T
<1>4. ASSUME NEW i \in DOMAIN placed PROVE (IF Added(i) THEN <<placed[i].at>> ELSE <<>>) \in Seq(Point)
  <2>1. placed[i] \in Placing
    <3> HIDE DEF Placing
    <3> QED BY <1>1
  <2>2. placed[i].at \in Point
    BY <2>1
  <2>3. <<>> \in Seq(Point)
    OBVIOUS
  <2> QED BY <1>3, <2>2, <2>3
<1>5. DOMAIN placed = 1..n /\ n \in Nat
  <2> HIDE DEF Placing
  <2> QED BY <1>1
<1>6. more \in [1..n -> Seq(Point)]
  <2> HIDE DEF n
  <2> QED BY <1>4, <1>5
<1> HIDE DEF more, n
<1>7. FlattenSeq(more) \in Seq(Point)
  <2> DEFINE T == Point
  <2>1. more \in [1..n -> Seq(T)]
    BY <1>6
  <2> HIDE DEF T
  <2>2. FlattenSeq(more) \in Seq(T)
    BY <1>5, <2>1, FlattenType
  <2> QED BY <2>2 DEF T
<1> DEFINE tail == FlattenSeq(more)
           head == p.stations
           T == Point
<1>8. head \in Seq(T) /\ tail \in Seq(T)
  BY <1>1, <1>7
<1> HIDE DEF head, tail, T
<1>9. head \o tail \in Seq(T)
  BY <1>8
<1> QED BY <1>2, <1>9 DEF head, tail, T

-----------------------------------------------------------------------------
(* The search.                                                             *)

\* The queue holds times of vertices, none better than what is known.
QueueFits(found, queue) ==
  \A x \in queue : x = [node |-> x.node, cost |-> x.cost] /\ x.cost \in Nat /\ Known(found, x.node, x.cost)
\* A vertex waits in the queue with its time, or its edges are relaxed.
Waits(found, queue, v) == [node |-> v, cost |-> found[v].cost] \in queue
Relayed(segs, found, v) == \A e \in EdgesFrom(segs, v) : Known(found, e.to, found[v].cost + e.cost)
SearchInv(segs, snaps, found, queue) ==
  /\ Sound(segs, snaps, found) /\ Seeded(snaps, found) /\ QueueFits(found, queue)
  /\ \A v \in DOMAIN found : Waits(found, queue, v) \/ Relayed(segs, found, v)

AreDriven(segs, snaps, seeds) ==
  \A s \in seeds : /\ s.cost \in Nat /\ s.source \in Snapped(snaps)
                   /\ <<s.node, s.cost>> \in Driven(segs, Home(snaps, s.source))

\* Relaxing with times of drives keeps all that is known sound, and what was
\* beaten stays beaten.
LEMMA RelaxingIsSound ==
  ASSUME NEW segs, NEW snaps, SnapsAreOn(segs, snaps), NEW r, "found" \in DOMAIN r, "queue" \in DOMAIN r,
         NEW seeds, AreDriven(segs, snaps, seeds), Sound(segs, snaps, r.found), QueueFits(r.found, r.queue)
  PROVE  /\ Sound(segs, snaps, Relaxed(r, seeds).found)
         /\ QueueFits(Relaxed(r, seeds).found, Relaxed(r, seeds).queue)
         /\ \A v, t : t \in Nat /\ Known(r.found, v, t) => Known(Relaxed(r, seeds).found, v, t)
         /\ \A s \in seeds : Known(Relaxed(r, seeds).found, s.node, s.cost)
         /\ r.queue \subseteq Relaxed(r, seeds).queue
         /\ \A v \in DOMAIN Relaxed(r, seeds).found :
              \/ v \in DOMAIN r.found /\ Relaxed(r, seeds).found[v] = r.found[v]
              \/ Waits(Relaxed(r, seeds).found, Relaxed(r, seeds).queue, v)
<1> DEFINE q == Relaxed(r, seeds)
<1>1. SeedsAreFine(seeds) /\ \A v \in DOMAIN r.found : r.found[v].cost \in Nat
  BY DEF AreDriven, SnapsAreOn, SeedsAreFine, Sound
<1>2. /\ \A v \in DOMAIN q.found :
           \/ v \in DOMAIN r.found /\ q.found[v] = r.found[v]
           \/ /\ \E s \in seeds : s.node = v /\ q.found[v] = [cost |-> s.cost, source |-> s.source]
              /\ [node |-> v, cost |-> q.found[v].cost] \in q.queue
      /\ \A v \in DOMAIN r.found : Known(q.found, v, r.found[v].cost)
      /\ \A s \in seeds : Known(q.found, s.node, s.cost)
      /\ r.queue \subseteq q.queue
      /\ \A x \in q.queue : x \in r.queue \/ \E s \in seeds : x = [node |-> s.node, cost |-> s.cost]
  <2>1. Relaxes(r, seeds, q)
    BY <1>1, RelaxedIs
  <2> QED BY <2>1 DEF Relaxes
<1> HIDE DEF q
<1>3. ASSUME NEW v \in DOMAIN q.found
      PROVE  /\ q.found[v].cost \in Nat /\ q.found[v].source \in Snapped(snaps)
             /\ <<v, q.found[v].cost>> \in Driven(segs, Home(snaps, q.found[v].source))
  <2>1. CASE v \in DOMAIN r.found /\ q.found[v] = r.found[v]
    BY <2>1 DEF Sound
  <2>2. ASSUME NEW s \in seeds, s.node = v, q.found[v] = [cost |-> s.cost, source |-> s.source]
        PROVE  /\ q.found[v].cost \in Nat /\ q.found[v].source \in Snapped(snaps)
               /\ <<v, q.found[v].cost>> \in Driven(segs, Home(snaps, q.found[v].source))
    <3>1. q.found[v].cost = s.cost /\ q.found[v].source = s.source
      BY <2>2
    <3> QED BY <2>2, <3>1 DEF AreDriven
  <2> QED BY <1>2, <2>1, <2>2
<1>4. Sound(segs, snaps, q.found)
  BY <1>3 DEF Sound
<1>5. ASSUME NEW v, NEW t \in Nat, Known(r.found, v, t) PROVE Known(q.found, v, t)
  <2>1. v \in DOMAIN r.found /\ r.found[v].cost <= t /\ r.found[v].cost \in Nat
    BY <1>1, <1>5 DEF Known
  <2>2. v \in DOMAIN q.found /\ q.found[v].cost <= r.found[v].cost
    BY <1>2, <2>1 DEF Known
  <2>3. q.found[v].cost \in Nat
    BY <1>3, <2>2
  <2>4. q.found[v].cost <= t
    BY <2>1, <2>2, <2>3
  <2> QED BY <2>2, <2>4 DEF Known
<1>6. QueueFits(q.found, q.queue)
  <2> SUFFICES ASSUME NEW x \in q.queue
               PROVE  x = [node |-> x.node, cost |-> x.cost] /\ x.cost \in Nat /\ Known(q.found, x.node, x.cost)
    BY DEF QueueFits
  <2>1. CASE x \in r.queue
    <3>1. x = [node |-> x.node, cost |-> x.cost] /\ x.cost \in Nat /\ Known(r.found, x.node, x.cost)
      BY <2>1 DEF QueueFits
    <3> QED BY <1>5, <3>1
  <2>2. ASSUME NEW s \in seeds, x = [node |-> s.node, cost |-> s.cost]
        PROVE  x = [node |-> x.node, cost |-> x.cost] /\ x.cost \in Nat /\ Known(q.found, x.node, x.cost)
    <3>1. x.node = s.node /\ x.cost = s.cost
      BY <2>2
    <3>2. s.cost \in Nat /\ Known(q.found, s.node, s.cost)
      BY <1>2 DEF AreDriven
    <3> QED BY <2>2, <3>1, <3>2
  <2> QED BY <1>2, <2>1, <2>2
<1>7. \A v \in DOMAIN q.found : (v \in DOMAIN r.found /\ q.found[v] = r.found[v]) \/ Waits(q.found, q.queue, v)
  BY <1>2 DEF Waits
<1> QED BY <1>2, <1>4, <1>5, <1>6, <1>7 DEF q

\* The seeds start the search.
LEMMA SeedingStarts ==
  ASSUME NEW segs, IsGraph(segs), NEW snaps, SnapsAreOn(segs, snaps),
         NEW r, "found" \in DOMAIN r, "queue" \in DOMAIN r, r.found = <<>>, r.queue = {}
  PROVE  LET q == Relaxed(r, UNION {SeedsAt(snaps[f][1], f) : f \in Snapped(snaps)})
         IN SearchInv(segs, snaps, q.found, q.queue)
<1> DEFINE seeds == UNION {SeedsAt(snaps[f][1], f) : f \in Snapped(snaps)}
           q == Relaxed(r, seeds)
<1>1. /\ \A s \in seeds : \E f \in Snapped(snaps) : s \in SeedsAt(snaps[f][1], f)
      /\ \A f \in Snapped(snaps) : \A s \in SeedsAt(snaps[f][1], f) : s \in seeds
  OBVIOUS
<1> HIDE DEF seeds
<1>2. AreDriven(segs, snaps, seeds)
  <2> SUFFICES ASSUME NEW s \in seeds
               PROVE  /\ s.cost \in Nat /\ s.source \in Snapped(snaps)
                      /\ <<s.node, s.cost>> \in Driven(segs, Home(snaps, s.source))
    BY DEF AreDriven
  <2>1. PICK f \in Snapped(snaps) : s \in SeedsAt(snaps[f][1], f)
    BY <1>1
  <2>2. IsPosition(segs, snaps[f][1])
    BY DEF SnapsAreOn
  <2>3. s.source = f /\ s.cost \in Nat /\ <<s.node, s.cost>> \in Driven(segs, SpotAt(snaps[f][1]))
    BY <2>1, <2>2, SeedsAreDriven
  <2> QED BY <2>3 DEF Home
<1>3. Sound(segs, snaps, r.found) /\ QueueFits(r.found, r.queue) /\ DOMAIN r.found = {}
  BY DEF Sound, QueueFits
<1>4. /\ Sound(segs, snaps, q.found) /\ QueueFits(q.found, q.queue)
      /\ \A s \in seeds : Known(q.found, s.node, s.cost)
      /\ \A v \in DOMAIN q.found : (v \in DOMAIN r.found /\ q.found[v] = r.found[v]) \/ Waits(q.found, q.queue, v)
  BY <1>2, <1>3, RelaxingIsSound
<1> HIDE DEF q
<1>5. Seeded(snaps, q.found)
  BY <1>1, <1>4 DEF Seeded
<1>6. \A v \in DOMAIN q.found : Waits(q.found, q.queue, v)
  BY <1>3, <1>4
<1>7. SearchInv(segs, snaps, q.found, q.queue)
  BY <1>4, <1>5, <1>6 DEF SearchInv
<1> QED BY <1>7 DEF q, seeds

\* Taking an item off the queue: a stale one needs nothing, and the edges of
\* a vertex whose time it is are relaxed.
LEMMA StaleIsSkipped ==
  ASSUME NEW segs, NEW snaps, NEW found, NEW queue, SearchInv(segs, snaps, found, queue),
         NEW cur \in queue, cur.cost > found[cur.node].cost
  PROVE  SearchInv(segs, snaps, found, queue \ {cur})
<1>1. QueueFits(found, queue \ {cur})
  BY DEF SearchInv, QueueFits
<1>2. cur.cost \in Nat /\ cur.node \in DOMAIN found /\ found[cur.node].cost \in Nat
  BY DEF SearchInv, QueueFits, Known, Sound
<1>3. ASSUME NEW v \in DOMAIN found, Waits(found, queue, v) PROVE Waits(found, queue \ {cur}, v)
  <2> DEFINE x == [node |-> v, cost |-> found[v].cost]
  <2>1. x \in queue /\ x.node = v /\ x.cost = found[v].cost
    BY <1>3 DEF Waits
  <2> HIDE DEF x
  <2>2. x # cur
    BY <1>2, <2>1
  <2> QED BY <2>1, <2>2 DEF Waits, x
<1> QED BY <1>1, <1>3 DEF SearchInv

\* Taking an item that is not stale and relaxing the edges of its vertex
\* keeps the search sound and complete.
LEMMA PoppingKeeps ==
  ASSUME NEW segs, IsGraph(segs), NEW snaps, SnapsAreOn(segs, snaps),
         NEW r, "found" \in DOMAIN r, "queue" \in DOMAIN r,
         NEW queue, SearchInv(segs, snaps, r.found, queue),
         NEW cur \in queue, r.queue = queue \ {cur}, ~(cur.cost > r.found[cur.node].cost)
  PROVE  LET q == Relaxed(r, {[node |-> e.to, cost |-> cur.cost + e.cost, source |-> r.found[cur.node].source]
                                : e \in EdgesFrom(segs, cur.node)})
         IN SearchInv(segs, snaps, q.found, q.queue)
<1> DEFINE u == cur.node
           f == r.found[u].source
           Offer(e) == [node |-> e.to, cost |-> cur.cost + e.cost, source |-> f]
           seeds == {Offer(e) : e \in EdgesFrom(segs, u)}
           q == Relaxed(r, seeds)
<1>1. cur.cost \in Nat /\ u \in DOMAIN r.found /\ r.found[u].cost \in Nat /\ r.found[u].cost <= cur.cost
  BY DEF SearchInv, QueueFits, Known, Sound
<1>2. cur.cost = r.found[u].cost
  <2> DEFINE a == cur.cost
             b == r.found[u].cost
  <2>1. a \in Nat /\ b \in Nat /\ b <= a /\ ~(a > b)
    BY <1>1
  <2> HIDE DEF a, b
  <2>2. a = b
    BY <2>1
  <2> QED BY <2>2 DEF a, b
<1>3. f \in Snapped(snaps) /\ <<u, cur.cost>> \in Driven(segs, Home(snaps, f))
  BY <1>1, <1>2 DEF SearchInv, Sound
<1>4. \A e : Offer(e).node = e.to /\ Offer(e).cost = cur.cost + e.cost /\ Offer(e).source = f
  OBVIOUS
<1>5. /\ \A s \in seeds : \E e \in EdgesFrom(segs, u) : s = Offer(e)
      /\ \A e \in EdgesFrom(segs, u) : Offer(e) \in seeds
  OBVIOUS
<1> HIDE DEF Offer, seeds
<1>6. AreDriven(segs, snaps, seeds)
  <2> SUFFICES ASSUME NEW s \in seeds
               PROVE  /\ s.cost \in Nat /\ s.source \in Snapped(snaps)
                      /\ <<s.node, s.cost>> \in Driven(segs, Home(snaps, s.source))
    BY DEF AreDriven
  <2>1. PICK e \in EdgesFrom(segs, u) : s = Offer(e)
    BY <1>5
  <2> DEFINE D == Driven(segs, Home(snaps, f))
  <2>2. D \in SUBSET Timetable(segs) /\ Closed(segs, D)
    <3>1. Home(snaps, f) \in Places(segs)
      BY <1>3, PositionsArePlaces DEF SnapsAreOn, Home
    <3> QED BY <3>1, DrivenIsLeast
  <2>3. <<u, cur.cost>> \in D
    BY <1>3
  <2> HIDE DEF D, u
  <2>4. e.cost \in Nat /\ <<e.to, cur.cost + e.cost>> \in D
    BY <1>1, <2>2, <2>3, EdgesAreDriven
  <2>5. cur.cost + e.cost \in Nat
    BY <1>1, <2>4
  <2> QED BY <1>3, <1>4, <2>1, <2>4, <2>5 DEF D
<1>7. Sound(segs, snaps, r.found) /\ QueueFits(r.found, r.queue)
  BY DEF SearchInv, QueueFits
<1>8. /\ Sound(segs, snaps, q.found) /\ QueueFits(q.found, q.queue)
      /\ \A v, t : t \in Nat /\ Known(r.found, v, t) => Known(q.found, v, t)
      /\ \A s \in seeds : Known(q.found, s.node, s.cost)
      /\ r.queue \subseteq q.queue
      /\ \A v \in DOMAIN q.found : (v \in DOMAIN r.found /\ q.found[v] = r.found[v]) \/ Waits(q.found, q.queue, v)
  BY <1>6, <1>7, RelaxingIsSound
<1> HIDE DEF q
<1>9. Seeded(snaps, q.found)
  <2> SUFFICES ASSUME NEW k \in Snapped(snaps), NEW x \in SeedsAt(snaps[k][1], k)
               PROVE  Known(q.found, x.node, x.cost)
    BY DEF Seeded
  <2>1. Known(r.found, x.node, x.cost)
    BY DEF SearchInv, Seeded
  <2>2. IsPosition(segs, snaps[k][1])
    BY DEF SnapsAreOn
  <2>3. x.cost \in Nat
    BY <2>2, SeedsAreDriven
  <2> QED BY <1>8, <2>1, <2>3
<1>10. ASSUME NEW v \in DOMAIN q.found, v \in DOMAIN r.found, q.found[v] = r.found[v]
       PROVE  Waits(q.found, q.queue, v) \/ Relayed(segs, q.found, v)
  <2>1. CASE v = u
    <3> SUFFICES ASSUME NEW e \in EdgesFrom(segs, v) PROVE Known(q.found, e.to, q.found[v].cost + e.cost)
      BY DEF Relayed
    <3>1. Offer(e) \in seeds
      BY <1>5, <2>1
    <3>2. Known(q.found, Offer(e).node, Offer(e).cost)
      BY <1>8, <3>1
    <3> QED BY <1>2, <1>4, <1>10, <2>1, <3>2
  <2>2. CASE v # u /\ Waits(r.found, queue, v)
    <3> DEFINE x == [node |-> v, cost |-> r.found[v].cost]
    <3>1. x \in queue /\ x.node = v
      BY <2>2 DEF Waits
    <3> HIDE DEF x
    <3>2. x # cur
      BY <2>2, <3>1
    <3>3. x \in q.queue
      BY <1>8, <3>1, <3>2
    <3> QED BY <1>10, <3>3 DEF Waits, x
  <2>3. CASE Relayed(segs, r.found, v)
    <3> SUFFICES ASSUME NEW e \in EdgesFrom(segs, v) PROVE Known(q.found, e.to, q.found[v].cost + e.cost)
      BY DEF Relayed
    <3>1. Known(r.found, e.to, r.found[v].cost + e.cost)
      BY <2>3 DEF Relayed
    <3>2. r.found[v].cost + e.cost \in Nat
      <4>1. r.found[v].cost \in Nat /\ r.found[v].source \in Snapped(snaps)
            /\ <<v, r.found[v].cost>> \in Driven(segs, Home(snaps, r.found[v].source))
        BY <1>7, <1>10 DEF Sound
      <4> DEFINE D == Driven(segs, Home(snaps, r.found[v].source))
                 t == r.found[v].cost
      <4>2. D \in SUBSET Timetable(segs) /\ Closed(segs, D) /\ <<v, t>> \in D /\ t \in Nat
        <5>1. Home(snaps, r.found[v].source) \in Places(segs)
          BY <4>1, PositionsArePlaces DEF SnapsAreOn, Home
        <5> QED BY <4>1, <5>1, DrivenIsLeast
      <4> HIDE DEF D, t
      <4>3. e.cost \in Nat
        BY <4>2, EdgesAreDriven
      <4>4. t + e.cost \in Nat
        BY <4>2, <4>3
      <4> QED BY <4>4 DEF t
    <3>3. Known(q.found, e.to, r.found[v].cost + e.cost)
      BY <1>8, <3>1, <3>2
    <3> QED BY <1>10, <3>3
  <2>4. Waits(r.found, queue, v) \/ Relayed(segs, r.found, v)
    BY <1>10 DEF SearchInv
  <2> QED BY <2>1, <2>2, <2>3, <2>4
<1>11. \A v \in DOMAIN q.found : Waits(q.found, q.queue, v) \/ Relayed(segs, q.found, v)
  BY <1>8, <1>10
<1>12. SearchInv(segs, snaps, q.found, q.queue)
  BY <1>8, <1>9, <1>11 DEF SearchInv
<1> QED BY <1>12 DEF q, seeds, Offer

-----------------------------------------------------------------------------
(* The run.                                                                *)

\* What the saved coverage says of a hex at a point.
NearTo(segs, snaps, at) == Closest({s \in SnapCandidates(segs, at, HexSnap) : TimesTo(segs, snaps, s) # {}})
HexIsTrue(segs, snaps, at, turnout, value) ==
  IF NearTo(segs, snaps, at) = {} THEN value = <<>>
  ELSE \E s \in NearTo(segs, snaps, at) :
         /\ value # <<>>
         /\ value[1].seconds = turnout + Min(TimesTo(segs, snaps, s))
         /\ <<value[1].facility, SpotAt(s), Min(TimesTo(segs, snaps, s))>> \in Arrivals(segs, snaps)

\* A hex covered when the search is over is told the truth.
LEMMA CoveringIsTrue ==
  ASSUME NEW segs, IsGraph(segs), NEW snaps, SnapsAreOn(segs, snaps), NEW found,
         SearchInv(segs, snaps, found, {}), NEW at \in Point, NEW turnout
  PROVE  LET Reach(s) == Offers(s, found, snaps)
             near == Closest({s \in SnapCandidates(segs, at, HexSnap) : Reach(s) # {}})
         IN /\ near = {} => HexIsTrue(segs, snaps, at, turnout, <<>>)
            /\ \A s \in near : LET q == Quickest(Reach(s)) IN
                 HexIsTrue(segs, snaps, at, turnout, <<[seconds |-> turnout + q.secs, facility |-> q.facility]>>)
<1> DEFINE all == SnapCandidates(segs, at, HexSnap)
           byOffer == {s \in all : Offers(s, found, snaps) # {}}
           byTime == {s \in all : TimesTo(segs, snaps, s) # {}}
<1>1. Sound(segs, snaps, found) /\ Seeded(snaps, found) /\ Answered(segs, found)
  BY DEF SearchInv, Waits, Relayed, Answered
<1>2. \A s \in all : IsPosition(segs, s)
  BY CandidatesAre
<1> HIDE DEF all
<1>3. ASSUME NEW s \in all
      PROVE  /\ Offers(s, found, snaps) = {} <=> TimesTo(segs, snaps, s) = {}
             /\ Offers(s, found, snaps) # {} =>
                  /\ Quickest(Offers(s, found, snaps)).secs = Min(TimesTo(segs, snaps, s))
                  /\ <<Quickest(Offers(s, found, snaps)).facility, SpotAt(s), Min(TimesTo(segs, snaps, s))>>
                       \in Arrivals(segs, snaps)
  BY <1>1, <1>2, OffersAreTrue
<1>4. byOffer = byTime
  BY <1>3
<1>5. NearTo(segs, snaps, at) = Closest(byOffer)
  <2>1. NearTo(segs, snaps, at) = Closest(byTime)
    BY DEF NearTo, all
  <2> HIDE DEF byOffer, byTime
  <2> QED BY <1>4, <2>1
<1>6. \A s \in Closest(byOffer) : s \in all /\ Offers(s, found, snaps) # {}
  BY DEF Closest
<1>7. ASSUME Closest(byOffer) = {} PROVE HexIsTrue(segs, snaps, at, turnout, <<>>)
  BY <1>5, <1>7 DEF HexIsTrue
<1>8. ASSUME NEW s \in Closest(byOffer)
      PROVE  HexIsTrue(segs, snaps, at, turnout,
               <<[seconds |-> turnout + Quickest(Offers(s, found, snaps)).secs,
                  facility |-> Quickest(Offers(s, found, snaps)).facility]>>)
  <2> DEFINE q == Quickest(Offers(s, found, snaps))
             value == <<[seconds |-> turnout + q.secs, facility |-> q.facility]>>
             least == Min(TimesTo(segs, snaps, s))
  <2>1. q.secs = least /\ <<q.facility, SpotAt(s), least>> \in Arrivals(segs, snaps)
    BY <1>3, <1>6
  <2>2. value # <<>> /\ value[1].seconds = turnout + q.secs /\ value[1].facility = q.facility
    <3>1. Len(value) = 1 /\ Len(<<>>) = 0
      OBVIOUS
    <3> QED BY <3>1
  <2> HIDE DEF q, value, least, byOffer
  <2>3. s \in NearTo(segs, snaps, at) /\ NearTo(segs, snaps, at) # {}
    BY <1>5
  <2>4. value[1].seconds = turnout + least
    BY <2>1, <2>2
  <2>5. HexIsTrue(segs, snaps, at, turnout, value)
    BY <2>1, <2>2, <2>3, <2>4 DEF HexIsTrue, least
  <2> QED BY <2>5 DEF value, q
<1> HIDE DEF byOffer
<1>9. /\ Closest(byOffer) = {} => HexIsTrue(segs, snaps, at, turnout, <<>>)
      /\ \A s \in Closest(byOffer) : HexIsTrue(segs, snaps, at, turnout,
               <<[seconds |-> turnout + Quickest(Offers(s, found, snaps)).secs,
                  facility |-> Quickest(Offers(s, found, snaps)).facility]>>)
  BY <1>7, <1>8
<1> QED BY <1>9 DEF byOffer, all

RouteFields == {"phase", "segs", "snaps", "found", "queue", "cover", "saved", "within", "median", "warned"}
SnapOf(segs) == {SnapOn(g, at) : g \in segs, at \in Point}
SnapsFit(segs, snaps) == snaps \in Seq({<<>>} \cup {<<s>> : s \in SnapOf(segs)})

\* The facilities that snapped are on the graph.
LEMMA FitsAreOn ==
  ASSUME NEW segs, IsGraph(segs), NEW snaps, SnapsFit(segs, snaps)
  PROVE  SnapsAreOn(segs, snaps)
<1> SUFFICES ASSUME NEW f \in Snapped(snaps) PROVE f \in Nat /\ IsPosition(segs, snaps[f][1])
  BY DEF SnapsAreOn
<1> DEFINE S == {<<s>> : s \in SnapOf(segs)}
           T == {<<>>} \cup S
<1>1. snaps \in Seq(T) /\ f \in DOMAIN snaps /\ snaps[f] # <<>>
  BY DEF SnapsFit, Snapped
<1>2. snaps[f] \in T /\ f \in Nat
  <2> HIDE DEF T
  <2> QED BY <1>1
<1>3. PICK s \in SnapOf(segs) : snaps[f] = <<s>>
  BY <1>1, <1>2
<1>4. snaps[f][1] = s
  BY <1>3
<1>5. PICK g \in segs, at \in Point : s = SnapOn(g, at)
  BY DEF SnapOf
<1>6. IsSegment(g)
  BY DEF IsGraph
<1>7. IsPosition(segs, s)
  BY <1>5, <1>6, SnapOnIs DEF IsPosition
<1> QED BY <1>2, <1>4, <1>7

HexesTrue ==
  \A h \in DOMAIN route.cover :
    /\ h \in DOMAIN place.hexes
    /\ HexIsTrue(route.segs, route.snaps, place.hexes[h], Resolve(place).turnout, route.cover[h])
WithinIs ==
  route.within = Cardinality({h \in DOMAIN place.hexes : route.saved[h] # <<>>
                                /\ route.saved[h][1].seconds - Resolve(place).turnout <= Resolve(place).threshold})
RouteInv ==
  /\ place \in Cities
  /\ DOMAIN route = RouteFields /\ route = [x \in RouteFields |-> route[x]]
  /\ route.phase \in {"load", "snap"} => route.found = <<>> /\ route.queue = {} /\ route.cover = <<>>
  /\ route.phase = "load" => route.snaps = <<>>
  /\ route.phase \in {"snap", "search", "saved"} => route.segs = BuildGraph(place)
  /\ route.phase \in {"snap", "search"} => SnapsFit(route.segs, route.snaps)
  /\ route.phase = "search" => SearchInv(route.segs, route.snaps, route.found, route.queue)
  /\ route.phase \in {"search", "saved"} => HexesTrue
  /\ route.phase = "saved" => route.saved = route.cover /\ DOMAIN route.cover = DOMAIN place.hexes /\ WithinIs

\* The property, in these terms.
LEMMA TrueWhenSaved ==
  ASSUME RouteInv
  PROVE  SavedCoverageIsTrue
<1> SUFFICES ASSUME route.phase = "saved" PROVE SavedCoverageIsTrue
  BY DEF SavedCoverageIsTrue
<1>1. route.saved = route.cover /\ DOMAIN route.cover = DOMAIN place.hexes /\ WithinIs /\ HexesTrue
  BY DEF RouteInv
<1>2. /\ \A h \in DOMAIN place.hexes :
           HexIsTrue(route.segs, route.snaps, place.hexes[h], Resolve(place).turnout, route.saved[h])
      /\ WithinIs
  BY <1>1 DEF HexesTrue
<1>3. (/\ \A h \in DOMAIN place.hexes :
           HexIsTrue(route.segs, route.snaps, place.hexes[h], Resolve(place).turnout, route.saved[h])
       /\ WithinIs)
      => SavedCoverageIsTrue
  BY Zenon DEF SavedCoverageIsTrue, HexIsTrue, NearTo, WithinIs, Arrivals, TimesTo, Home, SpotAt
<1> QED BY <1>2, <1>3

\* A step that gives fields of the run new values leaves the others.
IsRun(r) == DOMAIN r = RouteFields /\ r = [x \in RouteFields |-> r[x]]

\* A run with one field set is a run, and its other fields are as they were.
LEMMA OneSet ==
  ASSUME NEW r, IsRun(r), NEW f \in RouteFields, NEW v, NEW q, q = [r EXCEPT ![f] = v]
  PROVE  IsRun(q) /\ q[f] = v /\ \A x \in RouteFields : x # f => q[x] = r[x]
<1>1. DOMAIN r = RouteFields
  BY DEF IsRun
<1>2. q = [x \in RouteFields |-> IF x = f THEN v ELSE r[x]]
  BY <1>1
<1>3. DOMAIN q = RouteFields /\ q[f] = v /\ \A x \in RouteFields : x # f => q[x] = r[x]
  BY <1>2
<1>4. q = [x \in RouteFields |-> q[x]]
  BY <1>2
<1> QED BY <1>3, <1>4 DEF IsRun

\* A run starts with nothing worked out.
LEMMA RouteInit ==
  ASSUME CoverInit
  PROVE  RouteInv
<1>1. place \in Cities /\ route = Blank
  BY DEF CoverInit
<1>2. /\ DOMAIN Blank = RouteFields /\ Blank = [x \in RouteFields |-> Blank[x]]
      /\ Blank.phase = "load" /\ Blank.found = <<>> /\ Blank.queue = {} /\ Blank.cover = <<>> /\ Blank.snaps = <<>>
  BY DEF Blank, RouteFields
<1> QED BY <1>1, <1>2 DEF RouteInv

\* The inputs are loaded: the run has the graph of its city, or ends.
LEMMA LoadedRouteKeeps ==
  ASSUME RouteInv, LoadInputs
  PROVE  RouteInv'
<1>1. /\ place' = place /\ place \in Cities /\ IsRun(route) /\ route.phase = "load" /\ route.snaps = <<>>
      /\ route.found = <<>> /\ route.queue = {} /\ route.cover = <<>>
  BY DEF LoadInputs, RouteInv, IsRun
<1>2. \/ route' = [route EXCEPT !.phase = "refused"]
      \/ route' = [route EXCEPT !.phase = "dropped"]
      \/ route' = [route EXCEPT !.phase = "snap", !.segs = BuildGraph(place)]
  <2> DEFINE B == place.roads = <<>> \/ Facilities(place) = <<>>
             x == [route EXCEPT !.phase = "refused"]
             y == [route EXCEPT !.phase = "dropped"]
             z == [route EXCEPT !.phase = "snap", !.segs = BuildGraph(place)]
  <2>1. route' = x \/ route' = IF B THEN y ELSE z
    BY DEF LoadInputs
  <2> HIDE DEF B, x, y, z
  <2>2. route' = x \/ route' = y \/ route' = z
    BY <2>1
  <2> QED BY <2>2 DEF x, y, z
<1>3. CASE route' = [route EXCEPT !.phase = "refused"] \/ route' = [route EXCEPT !.phase = "dropped"]
  <2>0. "phase" \in RouteFields
    BY DEF RouteFields
  <2>1. IsRun(route') /\ route'.phase \in {"refused", "dropped"}
    <3>0. IsRun(route)
      BY <1>1
    <3>1. ASSUME route' = [route EXCEPT !.phase = "refused"] PROVE IsRun(route') /\ route'.phase = "refused"
      BY <3>0, <3>1, OneSet DEF RouteFields
    <3>2. ASSUME route' = [route EXCEPT !.phase = "dropped"] PROVE IsRun(route') /\ route'.phase = "dropped"
      BY <3>0, <3>2, OneSet DEF RouteFields
    <3> QED BY <1>3, <3>1, <3>2
  <2>2. route'.phase \notin {"load", "snap", "search", "saved"}
    BY <2>1
  <2> QED BY <1>1, <2>1, <2>2 DEF RouteInv, IsRun
<1>4. CASE route' = [route EXCEPT !.phase = "snap", !.segs = BuildGraph(place)]
  <2> DEFINE r == [route EXCEPT !.phase = "snap"]
             G == BuildGraph(place)
  <2>1. IsRun(r) /\ r.phase = "snap" /\ r.found = <<>> /\ r.queue = {} /\ r.cover = <<>> /\ r.snaps = <<>>
    BY <1>1, OneSet DEF RouteFields
  <2>2. route' = [r EXCEPT !.segs = G]
    BY <1>4
  <2> HIDE DEF r, G
  <2>3. /\ IsRun(route') /\ route'.phase = "snap" /\ route'.found = <<>> /\ route'.queue = {} /\ route'.cover = <<>>
        /\ route'.snaps = <<>> /\ route'.segs = G
    <3>1. "segs" \in RouteFields
      BY DEF RouteFields
    <3>2. IsRun(route') /\ route'.segs = G /\ \A x \in RouteFields : x # "segs" => route'[x] = r[x]
      BY <2>1, <2>2, <3>1, OneSet
    <3> QED BY <2>1, <3>2 DEF RouteFields
  <2>4. SnapsFit(route'.segs, route'.snaps)
    BY <2>3 DEF SnapsFit
  <2> QED BY <1>1, <2>3, <2>4 DEF RouteInv, IsRun, G
<1> QED BY <1>2, <1>3, <1>4

\* A cancelled run promises nothing.
LEMMA CancelledRouteKeeps ==
  ASSUME RouteInv, CancelRoute
  PROVE  RouteInv'
<1>1. place' = place /\ place \in Cities /\ IsRun(route) /\ route' = [route EXCEPT !.phase = "cancelled"]
  BY DEF CancelRoute, RouteInv, IsRun
<1>2. IsRun(route') /\ route'.phase = "cancelled"
  BY <1>1, OneSet DEF RouteFields
<1> QED BY <1>1, <1>2 DEF RouteInv, IsRun

\* A facility snaps onto the graph, or to nothing.
LEMMA SnappingKeeps ==
  ASSUME RouteInv, SnapFacility
  PROVE  RouteInv'
<1> DEFINE segs == route.segs
           snaps == route.snaps
           at == Facilities(place)[Len(snaps) + 1]
           T == {<<>>} \cup {<<s>> : s \in SnapOf(segs)}
<1>1. /\ place' = place /\ place \in Cities /\ IsRun(route) /\ route.phase = "snap" /\ segs = BuildGraph(place)
      /\ route.found = <<>> /\ route.queue = {} /\ route.cover = <<>> /\ snaps \in Seq(T)
      /\ Len(snaps) < Len(Facilities(place))
  BY DEF SnapFacility, RouteInv, IsRun, SnapsFit
<1>2. IsGraph(segs)
  BY <1>1, CityIsGraph
<1>3. at \in Point
  <2>1. Facilities(place) \in Seq(Point)
    BY <1>1, FacilitiesArePoints
  <2> DEFINE all == Facilities(place)
             n == Len(snaps)
  <2>2. n \in Nat
    <3> HIDE DEF T
    <3> QED BY <1>1
  <2>3. all \in Seq(Point) /\ n < Len(all)
    BY <1>1, <2>1
  <2> HIDE DEF all, n
  <2>4. all[n + 1] \in Point
    BY <2>2, <2>3
  <2> QED BY <2>4 DEF all, n
<1>4. PICK value \in T : route' = [route EXCEPT !.snaps = Append(snaps, value)]
  <2>1. \/ route' = [route EXCEPT !.snaps = Append(snaps, <<>>)]
        \/ \E s \in SnapConnected(segs, at) : route' = [route EXCEPT !.snaps = Append(snaps, <<s>>)]
    BY DEF SnapFacility
  <2>2. CASE route' = [route EXCEPT !.snaps = Append(snaps, <<>>)]
    <3>1. <<>> \in T
      OBVIOUS
    <3> HIDE DEF T
    <3> QED BY <2>2, <3>1
  <2>3. ASSUME NEW s \in SnapConnected(segs, at), route' = [route EXCEPT !.snaps = Append(snaps, <<s>>)]
        PROVE  \E value \in T : route' = [route EXCEPT !.snaps = Append(snaps, value)]
    <3>1. s \in SnapCandidates(segs, at, FacilitySnap)
      BY <2>3 DEF SnapConnected, Closest
    <3>2. \E g \in segs : s = SnapOn(g, at)
      BY <3>1 DEF SnapCandidates
    <3>3. s \in SnapOf(segs)
      <4> HIDE DEF at, segs
      <4> QED BY <1>3, <3>2 DEF SnapOf
    <3>4. <<s>> \in T
      BY <3>3
    <3> HIDE DEF T
    <3> QED BY <2>3, <3>4
  <2> QED BY <2>1, <2>2, <2>3
<1> DEFINE more == Append(snaps, value)
<1>5. more \in Seq(T)
  <2> HIDE DEF T
  <2> QED BY <1>1, <1>4
<1> HIDE DEF T, more
<1>6. /\ IsRun(route') /\ route'.phase = "snap" /\ route'.segs = segs /\ route'.snaps = more
      /\ route'.found = <<>> /\ route'.queue = {} /\ route'.cover = <<>>
  <2>1. route' = [route EXCEPT !.snaps = more]
    BY <1>4 DEF more
  <2>2. "snaps" \in RouteFields
    BY DEF RouteFields
  <2>3. IsRun(route)
    BY <1>1
  <2> HIDE DEF segs, snaps, at
  <2>4. IsRun([route EXCEPT !.snaps = more]) /\ [route EXCEPT !.snaps = more].snaps = more
        /\ \A x \in RouteFields : x # "snaps" => [route EXCEPT !.snaps = more][x] = route[x]
    BY <2>2, <2>3, OneSet
  <2>5. IsRun(route') /\ route'.snaps = more /\ \A x \in RouteFields : x # "snaps" => route'[x] = route[x]
    BY <2>1, <2>4
  <2> QED BY <1>1, <2>5 DEF RouteFields, segs
<1>7. SnapsFit(route'.segs, route'.snaps)
  BY <1>5, <1>6 DEF SnapsFit, T
<1> QED BY <1>1, <1>6, <1>7 DEF RouteInv, IsRun

\* Seeding starts the search with every seed known or beaten.
LEMMA SeedingKeeps ==
  ASSUME RouteInv, Seed
  PROVE  RouteInv'
<1> DEFINE segs == route.segs
           snaps == route.snaps
           seeds == UNION {SeedsAt(snaps[f][1], f) : f \in Snapped(snaps)}
           r == [route EXCEPT !.phase = "search"]
           q == Relaxed(r, seeds)
<1>1. /\ place' = place /\ place \in Cities /\ IsRun(route) /\ route.phase = "snap" /\ segs = BuildGraph(place)
      /\ route.found = <<>> /\ route.queue = {} /\ route.cover = <<>> /\ SnapsFit(segs, snaps)
  BY DEF Seed, RouteInv, IsRun
<1>2. IsGraph(segs) /\ SnapsAreOn(segs, snaps)
  BY <1>1, CityIsGraph, FitsAreOn
<1>3. /\ IsRun(r) /\ r.phase = "search" /\ r.found = <<>> /\ r.queue = {} /\ r.cover = <<>>
      /\ r.segs = segs /\ r.snaps = snaps
  BY <1>1, OneSet DEF RouteFields
<1>4. route' = q
  BY DEF Seed
<1> HIDE DEF r
<1>5. "found" \in DOMAIN r /\ "queue" \in DOMAIN r
  BY <1>3 DEF IsRun, RouteFields
<1>6. SearchInv(segs, snaps, q.found, q.queue)
  BY <1>2, <1>3, <1>5, SeedingStarts
<1>7. q = [r EXCEPT !.found = q.found, !.queue = q.queue]
  BY DEF Relaxed
<1> HIDE DEF q
<1>8. /\ IsRun(q) /\ q.phase = "search" /\ q.cover = <<>> /\ q.segs = segs /\ q.snaps = snaps
  BY <1>3, <1>7 DEF RouteFields, IsRun
<1> QED BY <1>1, <1>4, <1>6, <1>8 DEF RouteInv, IsRun, HexesTrue

\* An item is taken off the heap: a stale one was answered before.
LEMMA PoppedNodeKeeps ==
  ASSUME RouteInv, Pop
  PROVE  RouteInv'
<1> DEFINE segs == route.segs
           snaps == route.snaps
<1>1. /\ place' = place /\ place \in Cities /\ IsRun(route) /\ route.phase = "search" /\ segs = BuildGraph(place)
      /\ SnapsFit(segs, snaps) /\ SearchInv(segs, snaps, route.found, route.queue) /\ HexesTrue
  BY DEF Pop, RouteInv, IsRun
<1>2. IsGraph(segs) /\ SnapsAreOn(segs, snaps)
  BY <1>1, CityIsGraph, FitsAreOn
<1> DEFINE Rest(cur) == [route EXCEPT !.queue = route.queue \ {cur}]
           Offered(cur) == {[node |-> e.to, cost |-> cur.cost + e.cost, source |-> route.found[cur.node].source]
                              : e \in EdgesFrom(segs, cur.node)}
<1>3. PICK cur \in route.queue :
        route' = IF cur.cost > route.found[cur.node].cost THEN Rest(cur) ELSE Relaxed(Rest(cur), Offered(cur))
  BY DEF Pop
<1> DEFINE r == Rest(cur)
           q == Relaxed(r, Offered(cur))
<1>4. /\ IsRun(r) /\ r.phase = "search" /\ r.cover = route.cover /\ r.segs = segs /\ r.snaps = snaps
      /\ r.found = route.found /\ r.queue = route.queue \ {cur}
  <2> DEFINE rest == route.queue \ {cur}
  <2> HIDE DEF rest
  <2>1. r = [route EXCEPT !.queue = rest]
    BY DEF rest
  <2> HIDE DEF r
  <2>2. "queue" \in RouteFields
    BY DEF RouteFields
  <2>3. IsRun(r) /\ r.queue = rest /\ \A x \in RouteFields : x # "queue" => r[x] = route[x]
    BY <1>1, <2>1, <2>2, OneSet
  <2> QED BY <1>1, <2>3 DEF RouteFields, rest
<1>5. "found" \in DOMAIN r /\ "queue" \in DOMAIN r
  BY <1>4 DEF IsRun, RouteFields
<1>6. CASE cur.cost > route.found[cur.node].cost
  <2>1. SearchInv(segs, snaps, route.found, route.queue \ {cur})
    BY <1>1, <1>6, StaleIsSkipped
  <2>2. route' = r
    BY <1>3, <1>6
  <2> HIDE DEF r
  <2>3. HexesTrue'
    BY <1>1, <1>4, <2>2 DEF HexesTrue
  <2> QED BY <1>1, <1>4, <2>1, <2>2, <2>3 DEF RouteInv, IsRun
<1>7. CASE ~(cur.cost > route.found[cur.node].cost)
  <2>1. route' = q
    BY <1>3, <1>7
  <2>2. SearchInv(segs, snaps, q.found, q.queue)
    <3> DEFINE offered == {[node |-> e.to, cost |-> cur.cost + e.cost, source |-> r.found[cur.node].source]
                             : e \in EdgesFrom(segs, cur.node)}
    <3>1. offered = Offered(cur)
      BY <1>4
    <3> HIDE DEF r, Offered
    <3>2. SearchInv(segs, snaps, r.found, route.queue) /\ ~(cur.cost > r.found[cur.node].cost)
      BY <1>1, <1>4, <1>7
    <3>3. SearchInv(segs, snaps, Relaxed(r, offered).found, Relaxed(r, offered).queue)
      BY <1>2, <1>4, <1>5, <3>2, PoppingKeeps
    <3> HIDE DEF offered
    <3> QED BY <3>1, <3>3
  <2>3. q = [r EXCEPT !.found = q.found, !.queue = q.queue]
    <3> HIDE DEF r, Offered
    <3> QED BY DEF Relaxed
  <2> HIDE DEF r, q
  <2>4. IsRun(q) /\ q.phase = "search" /\ q.cover = route.cover /\ q.segs = segs /\ q.snaps = snaps
    BY <1>4, <2>3 DEF RouteFields, IsRun
  <2>5. HexesTrue'
    BY <1>1, <2>1, <2>4 DEF HexesTrue
  <2> QED BY <1>1, <2>1, <2>2, <2>4, <2>5 DEF RouteInv, IsRun
<1> QED BY <1>6, <1>7

\* A hex is covered with the search over: what it records is true.
LEMMA CoveringKeeps ==
  ASSUME RouteInv, NEW h \in DOMAIN place.hexes, CoverHex(h)
  PROVE  RouteInv'
<1> DEFINE segs == route.segs
           snaps == route.snaps
           found == route.found
           cover == route.cover
           at == place.hexes[h]
           turnout == Resolve(place).turnout
           Reach(s) == Offers(s, found, snaps)
           near == Closest({s \in SnapCandidates(segs, at, HexSnap) : Reach(s) # {}})
           With(value) == [x \in DOMAIN cover \cup {h} |-> IF x = h THEN value ELSE cover[x]]
<1>1. /\ place' = place /\ place \in Cities /\ IsRun(route) /\ route.phase = "search" /\ segs = BuildGraph(place)
      /\ SnapsFit(segs, snaps) /\ SearchInv(segs, snaps, found, route.queue) /\ HexesTrue /\ route.queue = {}
  BY DEF CoverHex, RouteInv, IsRun
<1>2. IsGraph(segs) /\ SnapsAreOn(segs, snaps) /\ SearchInv(segs, snaps, found, {})
  BY <1>1, CityIsGraph, FitsAreOn
<1>3. at \in Point
  BY <1>1, StreetAssumption
<1>4. \/ near = {} /\ route' = [route EXCEPT !.cover = With(<<>>)]
      \/ \E s \in near : route' = [route EXCEPT !.cover =
                           With(<<[seconds |-> turnout + Quickest(Reach(s)).secs,
                                   facility |-> Quickest(Reach(s)).facility]>>)]
  BY DEF CoverHex
<1>5. /\ near = {} => HexIsTrue(segs, snaps, at, turnout, <<>>)
      /\ \A s \in near : HexIsTrue(segs, snaps, at, turnout,
                           <<[seconds |-> turnout + Quickest(Reach(s)).secs,
                              facility |-> Quickest(Reach(s)).facility]>>)
  <2> HIDE DEF at, turnout, segs, snaps, found
  <2> QED BY <1>2, <1>3, CoveringIsTrue
<1> HIDE DEF near, Reach
<1>6. \E value : HexIsTrue(segs, snaps, at, turnout, value) /\ route' = [route EXCEPT !.cover = With(value)]
  <2> HIDE DEF With
  <2>1. CASE near = {} /\ route' = [route EXCEPT !.cover = With(<<>>)]
    BY <1>5, <2>1
  <2>2. ASSUME NEW s \in near,
               route' = [route EXCEPT !.cover = With(<<[seconds |-> turnout + Quickest(Reach(s)).secs,
                                                        facility |-> Quickest(Reach(s)).facility]>>)]
        PROVE  \E value : HexIsTrue(segs, snaps, at, turnout, value) /\ route' = [route EXCEPT !.cover = With(value)]
    BY <1>5, <2>2
  <2> QED BY <1>4, <2>1, <2>2
<1>7. PICK value : HexIsTrue(segs, snaps, at, turnout, value) /\ route' = [route EXCEPT !.cover = With(value)]
  <2> HIDE DEF With
  <2> QED BY <1>6
<1> DEFINE covered == With(value)
<1>8. DOMAIN covered = DOMAIN cover \cup {h} /\ covered[h] = value /\ \A x \in DOMAIN cover : x # h => covered[x] = cover[x]
  OBVIOUS
<1> HIDE DEF covered
<1>9. /\ IsRun(route') /\ route'.phase = "search" /\ route'.cover = covered /\ route'.segs = segs
      /\ route'.snaps = snaps /\ route'.found = found /\ route'.queue = route.queue
  <2>1. route' = [route EXCEPT !.cover = covered]
    BY <1>7 DEF covered
  <2>2. "cover" \in RouteFields
    BY DEF RouteFields
  <2>3. IsRun(route') /\ route'.cover = covered /\ \A x \in RouteFields : x # "cover" => route'[x] = route[x]
    <3>1. IsRun(route)
      BY <1>1
    <3> HIDE DEF covered
    <3> QED BY <3>1, <2>1, <2>2, OneSet
  <2> QED BY <1>1, <2>3 DEF RouteFields
<1>10. HexesTrue'
  <2>1. ASSUME NEW k \in DOMAIN covered
        PROVE  k \in DOMAIN place.hexes /\ HexIsTrue(segs, snaps, place.hexes[k], turnout, covered[k])
    <3>1. CASE k = h
      BY <1>7, <1>8, <3>1
    <3>2. CASE k # h
      BY <1>1, <1>8, <3>2 DEF HexesTrue
    <3> QED BY <3>1, <3>2
  <2> QED BY <1>1, <1>9, <2>1 DEF HexesTrue
<1> QED BY <1>1, <1>9, <1>10 DEF RouteInv, IsRun

\* What is saved is what was covered, and the share counts it.
LEMMA SavedRouteKeeps ==
  ASSUME RouteInv, SaveRoute
  PROVE  RouteInv'
<1> DEFINE cover == route.cover
           spec == Resolve(place)
           times == [h \in {h \in DOMAIN cover : cover[h] # <<>>} |-> cover[h][1].seconds]
           within == Cardinality({h \in DOMAIN times : times[h] - spec.turnout <= spec.threshold})
           median == IF DOMAIN times = {} THEN 0 ELSE Median(times)
<1>1. /\ place' = place /\ place \in Cities /\ IsRun(route) /\ route.phase = "search"
      /\ route.segs = BuildGraph(place) /\ HexesTrue /\ DOMAIN cover = DOMAIN place.hexes
  BY DEF SaveRoute, RouteInv, IsRun
<1>2. route' = [route EXCEPT !.phase = "saved", !.saved = cover, !.within = within, !.median = median,
                             !.warned = Stranded]
  BY DEF SaveRoute
<1>3. within = Cardinality({h \in DOMAIN place.hexes : cover[h] # <<>>
                              /\ cover[h][1].seconds - spec.turnout <= spec.threshold})
  <2> HIDE DEF spec
  <2>1. {h \in DOMAIN times : times[h] - spec.turnout <= spec.threshold}
          = {h \in DOMAIN place.hexes : cover[h] # <<>> /\ cover[h][1].seconds - spec.turnout <= spec.threshold}
    BY <1>1
  <2> QED BY <2>1
<1> HIDE DEF within, median, times
<1>4. /\ IsRun(route') /\ route'.phase = "saved" /\ route'.saved = cover /\ route'.within = within
      /\ route'.cover = cover /\ route'.segs = route.segs /\ route'.snaps = route.snaps
  BY <1>1, <1>2 DEF IsRun, RouteFields
<1>5. HexesTrue'
  BY <1>1, <1>4 DEF HexesTrue
<1>6. WithinIs'
  BY <1>1, <1>3, <1>4 DEF WithinIs
<1> QED BY <1>1, <1>4, <1>5, <1>6 DEF RouteInv, IsRun

\* The coverage that is saved is true of the positions it looks at, one on each
\* segment in a hex's range, for every city, whatever its streets, stations and
\* hexes, in whatever order the search takes what is equally near and the
\* workers finish. [SavedCoverageIsTrue]
THEOREM SavedCoverageAlwaysTrue == CoverSpec => []SavedCoverageIsTrue
<1>1. CoverInit => RouteInv
  BY RouteInit
<1>2. RouteInv /\ [CoverNext]_coverVars => RouteInv'
  <2> SUFFICES ASSUME RouteInv, [CoverNext]_coverVars PROVE RouteInv'
    OBVIOUS
  <2>1. CASE LoadInputs
    BY <2>1, LoadedRouteKeeps
  <2>2. CASE SnapFacility
    BY <2>2, SnappingKeeps
  <2>3. CASE Seed
    BY <2>3, SeedingKeeps
  <2>4. CASE Pop
    BY <2>4, PoppedNodeKeeps
  <2>5. CASE SaveRoute
    BY <2>5, SavedRouteKeeps
  <2>6. CASE CancelRoute
    BY <2>6, CancelledRouteKeeps
  <2>7. ASSUME NEW h \in DOMAIN place.hexes, CoverHex(h) PROVE RouteInv'
    BY <2>7, CoveringKeeps
  <2>8. CASE UNCHANGED coverVars
    BY <2>8 DEF coverVars, RouteInv, HexesTrue, WithinIs
  <2> QED BY <2>1, <2>2, <2>3, <2>4, <2>5, <2>6, <2>7, <2>8 DEF CoverNext
<1>3. RouteInv => SavedCoverageIsTrue
  BY TrueWhenSaved
<1> QED BY <1>1, <1>2, <1>3, PTL DEF CoverSpec

=============================================================================
