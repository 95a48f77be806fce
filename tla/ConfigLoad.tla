----------------------------- MODULE ConfigLoad -----------------------------
(***************************************************************************)
(* Loading a pvmt.toml (internal/config): the file and, depth first, every *)
(* file it includes, each parsed once; the included cities are merged into *)
(* the including file by slug, their calibration made explicit on the city *)
(* since the including file states none at its top level.                  *)
(*                                                                         *)
(* An included city is the included file's city.  It must read the rows    *)
(* that file stored, which are kept under that file's id and hash and by   *)
(* the ids of that file's hex grid.                                        *)
(*                                                                         *)
(* Of the calibration three kinds of field are modelled: the grid, a pair  *)
(* that is taken whole (edge and minArea); a forecast field for which zero *)
(* means unset (pci, standing for all of them; like the years it may also  *)
(* come from the environment); and the growth rate, for which only a       *)
(* presence bit tells a stated zero from none.  A name is its slug and a   *)
(* spelling; a hash is what was hashed.                                    *)
(***************************************************************************)
EXTENDS Integers, Sequences, SequencesExt, FiniteSets, Functions

CONSTANTS Trees,            \* the configurations a load may find, see below
          MaxIncludeDepth,
          MinHexEdge,       \* the floor below which an edge is refused
          DefaultEdge, DefaultMinArea, DefaultPCI

ASSUME ConfigAssumption ==
  /\ MaxIncludeDepth \in Nat /\ MinHexEdge \in Nat \ {0}
  /\ DefaultEdge \in Nat \ {0} /\ DefaultMinArea \in Nat \ {0} /\ DefaultPCI \in Nat \ {0}

\* What a file may say, and what else there may be at a path.
ForecastConfig == [pci : Nat, growth : Int, growthSet : BOOLEAN]
CityConfig == [name : STRING \X STRING, edge : Nat, minArea : Nat, forecast : ForecastConfig, tags : SUBSET STRING]
IncludeSpec == [path : STRING, tags : SUBSET STRING]
ConfigFile == [kind : STRING, bytes : STRING, id : STRING, unknownKey : BOOLEAN, include : Seq(IncludeSpec),
         cities : Seq(CityConfig), edge : Nat, minArea : Nat, forecast : ForecastConfig]
ASSUME TreesAssumption ==
  \A t \in Trees : /\ t.env \in Nat /\ t.envPCI \in Nat /\ IsFiniteSet(DOMAIN t.files)
                   /\ \A p \in DOMAIN t.files : p \in STRING /\ t.files[p] \in ConfigFile

VARIABLES tree,     \* [files, root, env, envPCI]: files by absolute path, and
                    \* PVMT_HEX_EDGE_M and PVMT_FORECAST_INITIAL_PCI (0: not set)
          stack,    \* the files being resolved, the including file below
          cache,    \* the files resolved
          warned,   \* the warnings recorded
          outcome,  \* "loading", "failed" or "loaded"
          loaded    \* the merged configuration, once loaded

configVars == <<tree, stack, cache, warned, outcome, loaded>>

-----------------------------------------------------------------------------
NoForecast == [pci |-> 0, growth |-> 0, growthSet |-> FALSE]
Slug(city) == city.name[1]
Slugs(cities) == {Slug(cities[i]) : i \in DOMAIN cities}
IsRegular(p) == p \in DOMAIN tree.files /\ tree.files[p].kind = "regular"

\* hashBytes and hashBlobs have no collisions worth a property.
HashBytes(bytes) == <<"bytes", bytes>>
HashBlobs(blobs) == <<"blobs", blobs>>

ForecastIsZero(fc) == fc = NoForecast
ValidEdge(edge) == edge = 0 \/ edge >= MinHexEdge
ValidTag(tag) == tag # "malformed"
ValidCity(city) == ValidEdge(city.edge) /\ \A t \in city.tags : ValidTag(t)
UniqueSlugs(cities) == \A i, j \in DOMAIN cities : Slug(cities[i]) = Slug(cities[j]) => i = j

Valid(file, cities, requireCities) ==
  /\ requireCities => cities # <<>>
  /\ file.include # <<>> =>
       ForecastIsZero(file.forecast) /\ file.edge = 0 /\ file.minArea = 0
  /\ ValidEdge(file.edge)
  /\ UniqueSlugs(cities)
  /\ \A i \in DOMAIN cities : ValidCity(cities[i])

Parses(file) == ~file.unknownKey /\ Valid(file, file.cities, file.include = <<>>)

-----------------------------------------------------------------------------
\* The layers: environment, the city's own, the file's top level, default.
OrElse(value, fallback) == IF value > 0 THEN value ELSE fallback
EdgeFromEnv == IF tree.env >= MinHexEdge THEN tree.env ELSE 0
EffectiveHexEdge(file, city) == OrElse(city.edge, file.edge)
EffectiveMinHexArea(file, city) == OrElse(city.minArea, file.minArea)
ResolvedHexEdge(file, city) ==
  OrElse(EdgeFromEnv, OrElse(EffectiveHexEdge(file, city), DefaultEdge))
ResolvedMinHexArea(file, city) == OrElse(EffectiveMinHexArea(file, city), DefaultMinArea)

StatesGrowth(fc) == fc.growth # 0 \/ fc.growthSet
ApplyCityForecast(fc, own) ==
  [pci |-> OrElse(own.pci, fc.pci),
   growth |-> IF StatesGrowth(own) THEN own.growth ELSE fc.growth,
   growthSet |-> StatesGrowth(own) \/ fc.growthSet]
EffectiveForecast(file, city) == ApplyCityForecast(file.forecast, city.forecast)
PCIFromEnv == IF tree.envPCI \in 1..100 THEN tree.envPCI ELSE 0
ResolvedForecast(file, city) ==
  LET fc == EffectiveForecast(file, city)
  IN [pci |-> OrElse(PCIFromEnv, OrElse(fc.pci, DefaultPCI)), growth |-> fc.growth]

-----------------------------------------------------------------------------
\* Folding the calibration src carries into a city an earlier include gave.
GridIsUnset(grid) == grid.edge = 0 /\ grid.minArea = 0
GridConflicts(kept, given) ==
  {f \in {"edge", "minArea"} : given[f] # 0 /\ given[f] # kept[f]}
AdoptsGrid(kept, given) == GridIsUnset(kept) /\ ~GridIsUnset(given)

UnionFloat(kept, given) == IF kept = 0 THEN given ELSE kept
\* Fault: a stated growth rate of zero counts as none.
UnionGrowthFloat(kept, given) ==
  IF kept.growth = 0 THEN [kept EXCEPT !.growth = given.growth] ELSE kept
UnionGrowthRate(kept, given) ==
  IF ~StatesGrowth(kept) /\ StatesGrowth(given)
    THEN [kept EXCEPT !.growth = given.growth, !.growthSet = given.growthSet]
    ELSE kept
UnionForecast(kept, given) ==
  [UnionGrowthRate(kept, given) EXCEPT !.pci = UnionFloat(kept.pci, given.pci)]
ForecastConflicts(kept, given) ==
  {f \in {"pci"} : given.pci # 0 /\ kept.pci # 0 /\ given.pci # kept.pci}
  \cup {f \in {"growth"} : /\ StatesGrowth(given) /\ StatesGrowth(kept)
                           /\ given.growth # kept.growth}

\* The id and hash under which a file's own cities are stored.
ConfigId(p, file) == IF file.id = "" THEN HashBytes(p) ELSE file.id
SourceIdentity(child, p, blobs) == [id |-> ConfigId(p, child), hash |-> HashBlobs(blobs)]

\* A city as the including file first gets it.
Flattened(child, src, identity) ==
  [src EXCEPT
     !.edge = EffectiveHexEdge(child, src),
     !.minArea = EffectiveMinHexArea(child, src),
     !.forecast = EffectiveForecast(child, src),
     !.source = IF src.source = <<>> THEN <<identity>> ELSE src.source,
     !.sourceEdge = IF src.sourceEdge = 0 THEN ResolvedHexEdge(child, src)
                    ELSE src.sourceEdge]

\* Fault: the identity moved with the grid is the middle file's.
GridUnionRelabels(existing, child, src, identity) ==
  IF ~AdoptsGrid(existing, Flattened(child, src, identity)) THEN existing
  ELSE [existing EXCEPT
          !.edge = EffectiveHexEdge(child, src),
          !.minArea = EffectiveMinHexArea(child, src),
          !.sourceEdge = ResolvedHexEdge(child, src),
          !.source = <<identity>>]
UnionGrid(existing, child, src, identity) ==
  IF ~AdoptsGrid(existing, Flattened(child, src, identity)) THEN existing
  ELSE [existing EXCEPT
          !.edge = EffectiveHexEdge(child, src),
          !.minArea = EffectiveMinHexArea(child, src),
          !.sourceEdge = ResolvedHexEdge(child, src),
          !.source = IF src.source # <<>> THEN src.source ELSE <<identity>>]
MergeExistingCity(existing, child, src, identity) ==
  [UnionGrid(existing, child, src, identity) EXCEPT
     !.forecast = UnionForecast(@, EffectiveForecast(child, src))]
DiscardedFields(existing, child, src, identity) ==
  LET given == Flattened(child, src, identity)
  IN (IF AdoptsGrid(existing, given) THEN {} ELSE GridConflicts(existing, given))
     \cup ForecastConflicts(existing.forecast, given.forecast)

WithTags(city, tags) == [city EXCEPT !.tags = @ \cup tags]

\* into is [cities, via, warned, clash]: the including file's cities, the
\* include that first gave each slug, the warnings, and whether two names
\* have met on one slug.
MergeCity(into, child, src, inc, identity) ==
  LET i == CHOOSE k \in DOMAIN into.cities : Slug(into.cities[k]) = Slug(src)
      existing == into.cities[i]
  IN CASE Slug(src) \notin Slugs(into.cities) ->
            [into EXCEPT
               !.cities = Append(@, WithTags(Flattened(child, src, identity), inc.tags)),
               !.via = [s \in DOMAIN @ \cup {Slug(src)} |->
                          IF s = Slug(src) THEN inc.path ELSE @[s]]]
       [] Slug(src) \in Slugs(into.cities) /\ existing.name # src.name ->
            [into EXCEPT !.clash = TRUE]
       [] Slug(src) \in Slugs(into.cities) /\ existing.name = src.name
            /\ Slug(src) \notin DOMAIN into.via ->
            [into EXCEPT !.cities[i] = WithTags(existing, inc.tags \cup src.tags)]
       [] OTHER ->
            [into EXCEPT
               !.cities[i] = WithTags(MergeExistingCity(existing, child, src, identity),
                                      inc.tags \cup src.tags),
               !.warned = @ \cup
                 {[slug |-> Slug(src), winner |-> into.via[Slug(src)],
                   loser |-> inc.path, field |-> f] :
                    f \in DiscardedFields(existing, child, src, identity)}]

MergeIncludedCities(frame, inc, child) ==
  LET identity == SourceIdentity(tree.files[inc.path], inc.path, child.blobs)
      into[n \in 0..Len(child.cities)] ==
        IF n = 0 THEN [cities |-> frame.cities, via |-> frame.via, warned |-> warned, clash |-> FALSE]
        ELSE IF into[n - 1].clash THEN into[n - 1]
        ELSE MergeCity(into[n - 1], tree.files[inc.path], child.cities[n], inc, identity)
  IN into[Len(child.cities)]

-----------------------------------------------------------------------------
Top == stack[Len(stack)]
Includes(frame) == tree.files[frame.path].include
Ancestors == {stack[i].path : i \in DOMAIN stack}
Depth == Len(stack)

\* The source of a city is <<>>, or <<identity>> once it has been included.
Declared(city) ==
  [name |-> city.name, edge |-> city.edge, minArea |-> city.minArea, forecast |-> city.forecast,
   tags |-> city.tags, source |-> <<>>, sourceEdge |-> 0]
NewFrame(p) ==
  [path |-> p, next |-> 1, blobs |-> <<tree.files[p].bytes>>,
   cities |-> [i \in DOMAIN tree.files[p].cities |-> Declared(tree.files[p].cities[i])],
   via |-> << >>]

Fail == outcome' = "failed" /\ stack' = <<>> /\ UNCHANGED <<cache, warned, loaded>>

\* A file that is not cached: refused, or opened as the new top.
Open(p) ==
  IF \/ Depth > MaxIncludeDepth
     \/ p \in Ancestors
     \/ ~IsRegular(p)
     \/ IsRegular(p) /\ ~Parses(tree.files[p])
  THEN Fail
  ELSE stack' = Append(stack, NewFrame(p)) /\ UNCHANGED <<cache, warned, outcome, loaded>>

\* child is merged into below, the stack whose top includes it.
MergeInto(below, child) ==
  LET frame == below[Len(below)]
      inc == Includes(frame)[frame.next]
      merged == MergeIncludedCities(frame, inc, child)
  IN IF merged.clash THEN Fail
     ELSE /\ stack' = [below EXCEPT ![Len(below)] =
                         [frame EXCEPT !.cities = merged.cities, !.via = merged.via,
                                       !.blobs = @ \o child.blobs, !.next = @ + 1]]
          /\ warned' = merged.warned
          /\ UNCHANGED <<outcome, loaded>>

ResolveOneInclude ==
  /\ outcome = "loading" /\ stack # <<>> /\ Top.next <= Len(Includes(Top))
  /\ LET p == Includes(Top)[Top.next].path
     IN IF p = "" THEN Fail
        ELSE IF p \in DOMAIN cache
          THEN MergeInto(stack, cache[p]) /\ UNCHANGED cache
          ELSE Open(p)
  /\ UNCHANGED tree

\* A file whose includes are all merged is cached and handed to its includer.
Resolved ==
  /\ outcome = "loading" /\ stack # <<>> /\ Top.next > Len(Includes(Top))
  /\ LET done == [cities |-> Top.cities, blobs |-> Top.blobs]
     IN /\ Len(stack) > 1
        /\ MergeInto(Front(stack), done)
        /\ cache' = IF outcome' = "failed" THEN cache
                    ELSE [p \in DOMAIN cache \cup {Top.path} |->
                            IF p = Top.path THEN done ELSE cache[p]]
  /\ UNCHANGED tree

LoadRoot ==
  /\ outcome = "loading" /\ stack = <<>>
  /\ Open(tree.root)
  /\ UNCHANGED tree

\* The root is resolved: the invariants the relaxed parse left out, and the
\* identity of the configuration.
LoadEnds ==
  /\ outcome = "loading" /\ Len(stack) = 1 /\ Top.next > Len(Includes(Top))
  /\ IF Valid(tree.files[Top.path], Top.cities, TRUE)
       THEN /\ outcome' = "loaded"
            /\ loaded' = [cities |-> Top.cities, path |-> Top.path,
                          id |-> ConfigId(Top.path, tree.files[Top.path]),
                          hash |-> HashBlobs(Top.blobs)]
            /\ stack' = <<>> /\ UNCHANGED <<cache, warned>>
       ELSE Fail
  /\ UNCHANGED tree

ConfigInit ==
  /\ tree \in Trees
  /\ stack = <<>> /\ cache = << >> /\ warned = {} /\ outcome = "loading"
  /\ loaded = [cities |-> <<>>]

ConfigNext == LoadRoot \/ ResolveOneInclude \/ Resolved \/ LoadEnds
ConfigSpec == ConfigInit /\ [][ConfigNext]_configVars

-----------------------------------------------------------------------------
\* The rows a loaded city reads: Config.CityConfigID and Config.CityHash.
CityConfigID(city) == IF city.source # <<>> THEN city.source[1].id ELSE loaded.id
CityHash(city) == IF city.source # <<>> THEN city.source[1].hash ELSE loaded.hash

\* What the files say, put together in the order a load of each of them
\* reaches the others, through at most depth includes.  Nothing is looked for
\* behind the files in stops.
Walk(files, depth, said, stops) ==
  LET from[d \in 0..depth] ==
        [p \in DOMAIN files |->
           said[p] \o (IF d = 0 \/ p \in stops THEN <<>>
                       ELSE FlattenSeq([i \in DOMAIN files[p].include |-> from[d - 1][files[p].include[i].path]]))]
  IN from[depth]

\* The files that declare a city, the ones that a load of the file p reaches.
\* A file that declares it itself hides what its includes say of it.  No chain
\* of includes is longer than there are files.
Own(file, name) == {c \in Range(file.cities) : c.name = name}
Declarers(files, name) == {p \in DOMAIN files : Own(files[p], name) # {}}
GiversFrom(files, p, name) ==
  Walk(files, Cardinality(DOMAIN files),
       [q \in DOMAIN files |-> IF q \in Declarers(files, name) THEN <<q>> ELSE <<>>],
       Declarers(files, name))[p]
Givers(name) == GiversFrom(tree.files, tree.root, name)
BlobsOf(files, p) ==
  Walk(files, Cardinality(DOMAIN files), [q \in DOMAIN files |-> <<files[q].bytes>>], {})[p]

OwnCity(file, name) == CHOOSE c \in Own(file, name) : TRUE
StatedGrid(file, name) == [edge |-> EffectiveHexEdge(file, OwnCity(file, name)),
                           minArea |-> EffectiveMinHexArea(file, OwnCity(file, name))]
StatedForecast(file, name) == EffectiveForecast(file, OwnCity(file, name))

\* Those of the givers that state the grid, the condition, the growth.
Gridded(files, givers, name) == {i \in DOMAIN givers : ~GridIsUnset(StatedGrid(files[givers[i]], name))}
Conditioned(files, givers, name) == {i \in DOMAIN givers : StatedForecast(files[givers[i]], name).pci # 0}
Growing(files, givers, name) == {i \in DOMAIN givers : StatesGrowth(StatedForecast(files[givers[i]], name))}
First(places) == CHOOSE i \in places : \A j \in places : i <= j

\* The file whose rows a city should read: the first that states its grid,
\* else the first that declares it.
Owner(files, givers, name) ==
  IF Gridded(files, givers, name) = {} THEN givers[1] ELSE givers[First(Gridded(files, givers, name))]

(* An included city reads the rows of one file, the one whose grid it is    *)
(* shown on: the id and hash are those a load of that file alone would use, *)
(* and the edge and sliver threshold the union resolves, and the edge that  *)
(* is later compared with the stored rows, are those of that file.          *)
IncludedCityReadsItsOwnRows ==
  outcome = "loaded" =>
    \A city \in Range(loaded.cities) :
      LET p == Owner(tree.files, Givers(city.name), city.name)
          own == OwnCity(tree.files[p], city.name)
      IN /\ CityConfigID(city) = ConfigId(p, tree.files[p])
         /\ CityHash(city) = HashBlobs(BlobsOf(tree.files, p))
         /\ ResolvedHexEdge(tree.files[tree.root], city)
              = ResolvedHexEdge(tree.files[p], own)
         /\ ResolvedMinHexArea(tree.files[tree.root], city)
              = ResolvedMinHexArea(tree.files[p], own)
         /\ city.sourceEdge \in {0, ResolvedHexEdge(tree.files[p], own)}

(* Nothing a file states of a city is lost in silence.  Of the grid, which  *)
(* is taken whole, of the condition and of the growth, which may be stated  *)
(* as zero, the first statement holds; the condition resolves to it behind  *)
(* the environment's and before the default; and any other statement is the *)
(* same or has a warning.                                                   *)
NothingStatedIsLostSilently ==
  outcome = "loaded" =>
    \A city \in Range(loaded.cities) :
      LET root == tree.files[tree.root]
          givers == Givers(city.name)
          Warned(f) == \E w \in warned : w.slug = Slug(city) /\ w.field = f
          FirstOf(places) == StatedForecast(tree.files[givers[First(places)]], city.name)
          grid == [edge |-> EffectiveHexEdge(root, city), minArea |-> EffectiveMinHexArea(root, city)]
          kept == EffectiveForecast(root, city)
          first == IF Conditioned(tree.files, givers, city.name) = {} THEN DefaultPCI
                   ELSE FirstOf(Conditioned(tree.files, givers, city.name)).pci
      IN /\ grid = StatedGrid(tree.files[Owner(tree.files, givers, city.name)], city.name)
         /\ kept.growth = IF Growing(tree.files, givers, city.name) = {} THEN 0
                          ELSE FirstOf(Growing(tree.files, givers, city.name)).growth
         /\ ResolvedForecast(root, city) = [pci |-> OrElse(PCIFromEnv, first), growth |-> kept.growth]
         /\ \A i \in DOMAIN givers :
              LET given == StatedGrid(tree.files[givers[i]], city.name)
                  fc == StatedForecast(tree.files[givers[i]], city.name)
              IN /\ given.edge \in {0, grid.edge} \/ Warned("edge")
                 /\ given.minArea \in {0, grid.minArea} \/ Warned("minArea")
                 /\ fc.pci \in {0, kept.pci} \/ Warned("pci")
                 /\ ~StatesGrowth(fc) \/ fc.growth = kept.growth \/ Warned("growth")

(* "For each of hex_edge_m, min_hex_area and every field of [forecast], the *)
(* first include to set the field wins it, and later includes fill only the *)
(* fields it left unset" (configuration.md), where "zero is the unset       *)
(* sentinel for every field, including GrowthRate" (include.go): each field *)
(* of a loaded city is the first value other than zero among its givers'.   *)
IncludesFillUnsetFields ==
  outcome = "loaded" =>
    \A city \in Range(loaded.cities) :
      LET root == tree.files[tree.root]
          givers == Givers(city.name)
          grids == [i \in DOMAIN givers |-> StatedGrid(tree.files[givers[i]], city.name)]
          fcs == [i \in DOMAIN givers |-> StatedForecast(tree.files[givers[i]], city.name)]
          FirstSet(values) == LET set == {i \in DOMAIN values : values[i] # 0}
                              IN IF set = {} THEN 0 ELSE values[First(set)]
      IN /\ EffectiveHexEdge(root, city) = FirstSet([i \in DOMAIN givers |-> grids[i].edge])
         /\ EffectiveMinHexArea(root, city) = FirstSet([i \in DOMAIN givers |-> grids[i].minArea])
         /\ EffectiveForecast(root, city).pci = FirstSet([i \in DOMAIN givers |-> fcs[i].pci])
         /\ EffectiveForecast(root, city).growth = FirstSet([i \in DOMAIN givers |-> fcs[i].growth])

=============================================================================
