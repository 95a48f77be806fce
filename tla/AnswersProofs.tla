---------------------------- MODULE AnswersProofs ----------------------------
(***************************************************************************)
(* What visitors are shown, by the exported site and by the server.        *)
(*                                                                         *)
(*   - PinnedExportsShowOneSnapshot: the numbers of a city in a pinned     *)
(*     export are all of one snapshot;                                     *)
(*   - CheckedSitesLackOnlyPlay: what an export that passes can lack;      *)
(*   - PrunesSpareTheNewest: a prune working from an old list deletes      *)
(*     nothing of the newest snapshots of a city;                          *)
(*   - CachesHoldTheirKeys: what the server's caches hold is of the city   *)
(*     and snapshot of its key, and of a snapshot fit to be served;        *)
(*   - FailuresAreOnTheirWayOut: a failed build in a cache has a request   *)
(*     that will evict it;                                                 *)
(*   - NewerBuildsAreSpared: no eviction removes a build that has not      *)
(*     failed.                                                             *)
(*                                                                         *)
(* The server's invariant follows the calls of each request: a request is  *)
(* at one build or at a document's and the forecasts that one waits for,   *)
(* under keys whose snapshot has passed the checks, and it gives a call up *)
(* only when that thunk is not a failure of the map any more.              *)
(***************************************************************************)
EXTENDS SiteExport, ServeCache, TLAPS, FiniteSetTheorems, WellFoundedInduction

----------------------------------------------------------------------------
(* The static site                                                         *)

SiteTypeOK ==
  /\ site = [root |-> site.root, data |-> site.data]
  /\ site.data = [c \in DOMAIN site.data |-> site.data[c]]
  /\ DOMAIN site.data \subseteq SiteCity
  /\ export = [pc |-> export.pc, pins |-> export.pins, city |-> export.city,
               step |-> export.step, meta |-> export.meta]
  /\ export.pc \in {"idle", "pin", "city"}
  /\ export.city \in Nat /\ export.step \in Nat
  /\ check = [pc |-> check.pc, fails |-> check.fails, exit |-> check.exit]

\* Where a run of export is: as many cities are pinned as it has come to, then
\* as many have a directory; each list it works along is not yet at its end.
ExportIsOnItsWay ==
  /\ export.pc = "pin" =>
       /\ site = EmptySite /\ export.meta = None
       /\ export.city \in 1..(Len(SiteCities) + 1)
       /\ DOMAIN export.pins = {SiteCities[i] : i \in 1..(export.city - 1)}
  /\ export.pc = "city" =>
       /\ export.city \in 1..(Len(SiteCities) + 1)
       /\ export.step \in 1..(IF export.city <= Len(SiteCities) THEN Len(Order)
                                                               ELSE Len(RootOrder))
       /\ DOMAIN export.pins = SiteCity
       /\ \A i \in 1..Len(SiteCities) :
            i < export.city \/ (i = export.city /\ export.step > 1) =>
              SiteCities[i] \in Unbounded \cup DOMAIN site.data

\* A pinned city shows its pin, and so will the document read for it already.
ShowsThePin(c, id) == export.pins[c] # None => id \in {None, Gone, export.pins[c]}

PinsAreShown ==
  export.pc = "city" =>
    /\ \A c \in DOMAIN site.data : \A f \in DOMAIN site.data[c] : ShowsThePin(c, site.data[c][f])
    /\ export.city <= Len(SiteCities) => ShowsThePin(SiteCities[export.city], export.meta)

\* The page is written when every city has its directory.
PageIsLast == "index.html" \in site.root => SiteCity \ Unbounded \subseteq DOMAIN site.data

\* A check works on a site that no run of export is changing.
CheckIsOfThisSite ==
  /\ check.pc = "run" => export.pc = "idle"
  /\ check.exit = "ok" =>
       /\ export.pc = "idle"
       /\ RootAssets \cup {"cities.json"} \subseteq site.root /\ DOMAIN site.data # {}
       /\ \A c \in DOMAIN site.data : DataFiles \subseteq DOMAIN site.data[c]

SiteInv == SiteTypeOK /\ ExportIsOnItsWay /\ PinsAreShown /\ PageIsLast /\ CheckIsOfThisSite

LEMMA OrdersAreSequences ==
  /\ Len(Order) = 12 /\ Len(RootOrder) = 4
  /\ Len(SiteCities) \in Nat /\ Len(SiteCities) > 1
  /\ DOMAIN SiteCities = 1..Len(SiteCities)
  /\ \A i \in 1..Len(SiteCities) : SiteCities[i] \in SiteCity
BY SiteAssumption DEF Order, RootOrder, SiteCity

LEMMA SiteInitHolds == SiteInit => SiteInv
<1> SUFFICES ASSUME SiteInit
             PROVE  SiteInv
  OBVIOUS
<1> USE DEF SiteInit
<1>1. SiteTypeOK
  BY DEF SiteTypeOK, EmptySite, NoExport, NoCheck
<1>2. export.pc = "idle" /\ check.pc = "idle" /\ check.exit = "none"
  BY DEF NoExport, NoCheck
<1>3. PageIsLast
  BY DEF PageIsLast, EmptySite
<1> QED BY <1>1, <1>2, <1>3 DEF SiteInv, ExportIsOnItsWay, PinsAreShown, CheckIsOfThisSite

\* The site's files and the run's pins are the business of export and check
\* alone: everyone else's steps change neither.
LEMMA OthersLeaveTheSite ==
  ASSUME SiteInv, UNCHANGED <<site, export, check>>
  PROVE  SiteInv'
BY DEF SiteInv, SiteTypeOK, ExportIsOnItsWay, PinsAreShown, ShowsThePin, PageIsLast,
       CheckIsOfThisSite

LEMMA StartKeepsSiteInv ==
  ASSUME SiteInv, NEW clean \in BOOLEAN, StartExport(clean)
  PROVE  SiteInv'
<1>1. /\ site' = EmptySite /\ check' = NoCheck
      /\ export' = [NoExport EXCEPT !.pc = "pin", !.city = 1]
  BY DEF StartExport
<1>2. /\ export' = [pc |-> "pin", pins |-> [c \in {} |-> None], city |-> 1, step |-> 0,
                    meta |-> None]
  BY <1>1 DEF NoExport
<1>3. SiteTypeOK'
  <2>1. /\ site' = [root |-> site'.root, data |-> site'.data]
        /\ DOMAIN site'.data = {}
        /\ site'.data = [c \in DOMAIN site'.data |-> site'.data[c]]
    BY <1>1 DEF EmptySite
  <2>2. check' = [pc |-> check'.pc, fails |-> check'.fails, exit |-> check'.exit]
    BY <1>1 DEF NoCheck
  <2>3. /\ export' = [pc |-> export'.pc, pins |-> export'.pins, city |-> export'.city,
                      step |-> export'.step, meta |-> export'.meta]
        /\ export'.pc \in {"idle", "pin", "city"}
        /\ export'.city \in Nat /\ export'.step \in Nat
    BY <1>2
  <2> QED BY <2>1, <2>2, <2>3 DEF SiteTypeOK
<1>4. ExportIsOnItsWay'
  <2>1. /\ export'.pc = "pin" /\ export'.city = 1 /\ DOMAIN export'.pins = {}
        /\ export'.meta = None
    BY <1>2
  <2>2. {SiteCities[i] : i \in 1..(1 - 1)} = {}
    OBVIOUS
  <2> QED BY <1>1, <2>1, <2>2, OrdersAreSequences DEF ExportIsOnItsWay
<1>5. PinsAreShown'
  BY <1>2 DEF PinsAreShown
<1>6. PageIsLast' /\ CheckIsOfThisSite'
  BY <1>1 DEF PageIsLast, CheckIsOfThisSite, EmptySite, NoCheck
<1> QED BY <1>3, <1>4, <1>5, <1>6 DEF SiteInv

LEMMA PinKeepsSiteInv ==
  ASSUME SiteInv, Pin
  PROVE  SiteInv'
<1> DEFINE n == export.city
<1>1. PICK c : c = SiteCities[n]
  OBVIOUS
<1>2. /\ export.pc = "pin" /\ n \in 1..Len(SiteCities)
      /\ export' = [export EXCEPT !.city = @ + 1,
                      !.pins = [d \in DOMAIN @ \cup {c} |->
                                  IF d = c THEN NewestId(Ours(c)) ELSE @[d]]]
      /\ UNCHANGED <<site, check>>
  BY <1>1, OrdersAreSequences DEF Pin, Alone, SiteInv, ExportIsOnItsWay
<1>3. /\ export'.pc = "pin" /\ export'.city = n + 1
      /\ DOMAIN export'.pins = DOMAIN export.pins \cup {c}
      /\ export' = [pc |-> export'.pc, pins |-> export'.pins, city |-> export'.city,
                    step |-> export'.step, meta |-> export'.meta]
      /\ export'.step = export.step
  BY <1>2 DEF SiteInv, SiteTypeOK
<1>4. SiteTypeOK'
  BY <1>2, <1>3 DEF SiteInv, SiteTypeOK
<1>5. ExportIsOnItsWay'
  <2>1. DOMAIN export.pins = {SiteCities[i] : i \in 1..(n - 1)}
    BY <1>2 DEF SiteInv, ExportIsOnItsWay
  <2>2. DOMAIN export'.pins = {SiteCities[i] : i \in 1..((n + 1) - 1)}
    BY <1>1, <1>2, <1>3, <2>1, OrdersAreSequences
  <2>3. n + 1 \in 1..(Len(SiteCities) + 1)
    BY <1>2, OrdersAreSequences
  <2> QED BY <1>2, <1>3, <2>2, <2>3 DEF SiteInv, ExportIsOnItsWay
<1>6. PinsAreShown'
  BY <1>3 DEF PinsAreShown
<1>7. PageIsLast' /\ CheckIsOfThisSite'
  BY <1>2, <1>3 DEF SiteInv, PageIsLast, CheckIsOfThisSite
<1> QED BY <1>4, <1>5, <1>6, <1>7 DEF SiteInv

LEMMA MarkKeepsSiteInv ==
  ASSUME SiteInv, Mark
  PROVE  SiteInv'
<1>1. /\ export.pc = "pin" /\ export.city = Len(SiteCities) + 1 /\ site = EmptySite
      /\ DOMAIN export.pins = {SiteCities[i] : i \in 1..(export.city - 1)}
      /\ site' = [site EXCEPT !.root = @ \cup {".pvmt-export", ".nojekyll"}]
      /\ export' = [export EXCEPT !.pc = "city", !.city = 1, !.step = 1]
      /\ UNCHANGED check
  BY OrdersAreSequences DEF Mark, Alone, SiteInv, SiteTypeOK, ExportIsOnItsWay
<1>2. /\ export'.pc = "city" /\ export'.city = 1 /\ export'.step = 1
      /\ export'.pins = export.pins /\ export'.meta = export.meta
      /\ export' = [pc |-> export'.pc, pins |-> export'.pins, city |-> export'.city,
                    step |-> export'.step, meta |-> export'.meta]
  BY <1>1 DEF SiteInv, SiteTypeOK
<1>3. /\ site'.root = {".pvmt-export", ".nojekyll"}
      /\ site'.data = EmptySite.data /\ DOMAIN site'.data = {}
      /\ site' = [root |-> site'.root, data |-> site'.data]
  BY <1>1 DEF EmptySite
<1>4. SiteTypeOK'
  BY <1>1, <1>2, <1>3 DEF SiteInv, SiteTypeOK, EmptySite
<1>5. ExportIsOnItsWay'
  <2>1. DOMAIN export'.pins = SiteCity
    BY <1>1, <1>2, OrdersAreSequences DEF SiteCity
  <2> QED BY <1>2, <2>1, OrdersAreSequences DEF ExportIsOnItsWay
<1>6. PinsAreShown'
  BY <1>1, <1>2, <1>3 DEF SiteInv, ExportIsOnItsWay, PinsAreShown, ShowsThePin
<1>7. PageIsLast' /\ CheckIsOfThisSite'
  BY <1>1, <1>3 DEF SiteInv, PageIsLast, CheckIsOfThisSite
<1> QED BY <1>4, <1>5, <1>6, <1>7 DEF SiteInv

LEMMA FinishKeepsSiteInv ==
  ASSUME SiteInv, FinishSite
  PROVE  SiteInv'
<1>1. /\ export.pc = "city" /\ export.city = Len(SiteCities) + 1
      /\ export.step \in 1..Len(RootOrder)
      /\ DOMAIN export.pins = SiteCity
      /\ UNCHANGED check
      /\ site' = [site EXCEPT !.root = @ \cup {RootOrder[export.step]}]
      /\ export' = IF export.step = Len(RootOrder)
                     THEN [export EXCEPT !.pc = "idle"] ELSE [export EXCEPT !.step = @ + 1]
  BY OrdersAreSequences DEF FinishSite, Alone, SiteInv, SiteTypeOK, ExportIsOnItsWay
<1>2. SiteCity \subseteq Unbounded \cup DOMAIN site.data
  <2>1. \A i \in 1..Len(SiteCities) : i < export.city
    BY <1>1, OrdersAreSequences
  <2>2. \A i \in 1..Len(SiteCities) : SiteCities[i] \in Unbounded \cup DOMAIN site.data
    BY <1>1, <2>1 DEF SiteInv, ExportIsOnItsWay
  <2> QED BY <2>2 DEF SiteCity
<1>3. /\ site'.data = site.data
      /\ site' = [root |-> site'.root, data |-> site'.data]
  BY <1>1 DEF SiteInv, SiteTypeOK
<1>4. /\ export' = [pc |-> export'.pc, pins |-> export'.pins, city |-> export'.city,
                    step |-> export'.step, meta |-> export'.meta]
      /\ export'.pins = export.pins /\ export'.city = export.city
      /\ \/ export'.pc = "idle" /\ export'.step = export.step
         \/ /\ export'.pc = "city" /\ export'.step = export.step + 1
            /\ export.step # Len(RootOrder)
  BY <1>1 DEF SiteInv, SiteTypeOK
<1>5. SiteTypeOK'
  BY <1>1, <1>3, <1>4 DEF SiteInv, SiteTypeOK
<1>6. ExportIsOnItsWay'
  <2> SUFFICES ASSUME export'.pc = "city"
               PROVE  ExportIsOnItsWay'
    BY <1>4 DEF ExportIsOnItsWay
  <2>1. export'.step \in 1..Len(RootOrder) /\ ~(export'.city <= Len(SiteCities))
    BY <1>1, <1>4, OrdersAreSequences
  <2>2. \A i \in 1..Len(SiteCities) : SiteCities[i] \in Unbounded \cup DOMAIN site'.data
    BY <1>2, <1>3, OrdersAreSequences
  <2> QED BY <1>1, <1>4, <2>1, <2>2, OrdersAreSequences DEF ExportIsOnItsWay
<1>7. PinsAreShown'
  <2>1. ~(export'.city <= Len(SiteCities))
    BY <1>1, <1>4, OrdersAreSequences
  <2> QED BY <1>1, <1>3, <1>4, <2>1 DEF SiteInv, PinsAreShown, ShowsThePin
<1>8. PageIsLast' /\ CheckIsOfThisSite'
  BY <1>1, <1>2, <1>3 DEF SiteInv, PageIsLast, CheckIsOfThisSite
<1> QED BY <1>5, <1>6, <1>7, <1>8 DEF SiteInv

LEMMA BreakKeepsSiteInv ==
  ASSUME SiteInv, BreakExport
  PROVE  SiteInv'
<1>1. /\ export' = [export EXCEPT !.pc = "idle"] /\ UNCHANGED <<site, check>>
  BY DEF BreakExport, Fail, Alone
<1>2. /\ export' = [pc |-> export'.pc, pins |-> export'.pins, city |-> export'.city,
                    step |-> export'.step, meta |-> export'.meta]
      /\ export'.pc = "idle" /\ export'.city = export.city /\ export'.step = export.step
  BY <1>1 DEF SiteInv, SiteTypeOK
<1>3. SiteTypeOK'
  BY <1>1, <1>2 DEF SiteInv, SiteTypeOK
<1>4. ExportIsOnItsWay' /\ PinsAreShown'
  BY <1>2 DEF ExportIsOnItsWay, PinsAreShown
<1>5. PageIsLast' /\ CheckIsOfThisSite'
  BY <1>1, <1>2 DEF SiteInv, PageIsLast, CheckIsOfThisSite
<1> QED BY <1>3, <1>4, <1>5 DEF SiteInv

\* One step of a city: the run goes on to the next step or the next city, or it
\* ends; the files of the other cities stay, and this city's show its pin.
LEMMA CityStep ==
  ASSUME SiteInv, ExportCity, NEW c, c = SiteCities[export.city]
  PROVE  /\ export.pc = "city" /\ export.city \in 1..Len(SiteCities)
         /\ UNCHANGED check
         /\ site'.root = site.root
         /\ site' = [root |-> site'.root, data |-> site'.data]
         /\ site'.data = [d \in DOMAIN site'.data |-> site'.data[d]]
         /\ DOMAIN site.data \subseteq DOMAIN site'.data
         /\ DOMAIN site'.data \subseteq DOMAIN site.data \cup {c}
         /\ \A d \in DOMAIN site.data : d # c => site'.data[d] = site.data[d]
         /\ c \in DOMAIN site'.data =>
              \A f \in DOMAIN site'.data[c] : ShowsThePin(c, site'.data[c][f])
         /\ \/ export' = [export EXCEPT !.pc = "idle"]
            \/ /\ export' = NextCity
               /\ c \in Unbounded \cup DOMAIN site'.data
            \/ /\ export.step < Len(Order)
               /\ c \in Unbounded \cup DOMAIN site'.data
               /\ \E id : /\ ShowsThePin(c, id)
                          /\ export' = [export EXCEPT !.step = @ + 1, !.meta = id]
<1> USE DEF SiteInv, SiteTypeOK
<1>1. /\ export.pc = "city" /\ export.city \in 1..Len(SiteCities)
      /\ export.step \in 1..Len(Order)
      /\ UNCHANGED check
  BY OrdersAreSequences DEF ExportCity, Alone, ExportIsOnItsWay
<1>2. PICK f : f = Order[export.step]
  OBVIOUS
<1>3. PICK id : id = ReadId(c, export.pins[c])
  OBVIOUS
<1>4. ShowsThePin(c, id)
  BY <1>3 DEF ShowsThePin, ReadId
<1>5. ShowsThePin(c, export.meta) /\ ShowsThePin(c, None)
  BY <1>1, OrdersAreSequences DEF PinsAreShown, ShowsThePin
<1>6. c \in DOMAIN site.data => \A g \in DOMAIN site.data[c] : ShowsThePin(c, site.data[c][g])
  BY <1>1 DEF PinsAreShown
<1>7. export.step > 1 => c \in Unbounded \cup DOMAIN site.data
  BY <1>1 DEF ExportIsOnItsWay
<1>8. f = "info" <=> export.step = 1
  BY <1>1, <1>2 DEF Order
<1>19. f # "info" => c \in Unbounded \cup DOMAIN site.data
  <2>1. export.step # 1 => export.step > 1
    BY <1>1, OrdersAreSequences
  <2> QED BY <1>7, <1>8, <2>1
<1>9. f = "meta" => export.step # Len(Order)
  BY <1>1, <1>2, OrdersAreSequences DEF Order
<1> DEFINE
      FilesGood ==
         /\ site'.root = site.root
         /\ site' = [root |-> site'.root, data |-> site'.data]
         /\ site'.data = [d \in DOMAIN site'.data |-> site'.data[d]]
         /\ DOMAIN site.data \subseteq DOMAIN site'.data
         /\ DOMAIN site'.data \subseteq DOMAIN site.data \cup {c}
         /\ \A d \in DOMAIN site.data : d # c => site'.data[d] = site.data[d]
         /\ c \in DOMAIN site'.data =>
              \A g \in DOMAIN site'.data[c] : ShowsThePin(c, site'.data[c][g])
      ComesAlong ==
         \/ export' = [export EXCEPT !.pc = "idle"]
         \/ /\ export' = NextCity
            /\ c \in Unbounded \cup DOMAIN site'.data
         \/ /\ export.step < Len(Order)
            /\ c \in Unbounded \cup DOMAIN site'.data
            /\ \E m : /\ ShowsThePin(c, m)
                      /\ export' = [export EXCEPT !.step = @ + 1, !.meta = m]
<1>10. SUFFICES FilesGood /\ ComesAlong
  BY <1>1
<1>11. ASSUME UNCHANGED site
       PROVE  FilesGood
  BY <1>6, <1>11
<1>12. ASSUME NEW m, ShowsThePin(c, m), Add(c, f, m)
       PROVE  FilesGood
  <2>1. CASE c \notin DOMAIN site.data
    <3>1. site' = site
      BY <1>12, <2>1 DEF Add
    <3> QED BY <1>11, <3>1
  <2>2. CASE c \in DOMAIN site.data
    <3> DEFINE files == [g \in DOMAIN site.data[c] \cup {f} |->
                           IF g = f THEN m ELSE site.data[c][g]]
    <3>1. site' = [site EXCEPT !.data = [site.data EXCEPT ![c] = files]]
      BY <1>12 DEF Add
    <3>2. \A g \in DOMAIN files : ShowsThePin(c, files[g])
      BY <1>6, <1>12, <2>2
    <3> HIDE DEF files
    <3>3. site'.data = [site.data EXCEPT ![c] = files] /\ site'.root = site.root
      BY <3>1
    <3>4. site' = [root |-> site'.root, data |-> site'.data]
      BY <3>1, <3>3
    <3>5. /\ DOMAIN site'.data = DOMAIN site.data
          /\ site'.data[c] = files
          /\ \A d \in DOMAIN site.data : d # c => site'.data[d] = site.data[d]
          /\ site'.data = [d \in DOMAIN site'.data |-> site'.data[d]]
      BY <2>2, <3>3
    <3> QED BY <3>2, <3>3, <3>4, <3>5
  <2> QED BY <2>1, <2>2
<1>13. ASSUME export' = NextStep, c \in Unbounded \cup DOMAIN site'.data
       PROVE  ComesAlong
  <2>1. CASE export.step = Len(Order)
    BY <1>13, <2>1 DEF NextStep
  <2>2. CASE export.step # Len(Order)
    <3>1. export' = [export EXCEPT !.step = @ + 1, !.meta = export.meta]
      BY <1>13, <2>2 DEF NextStep
    <3>2. export.step < Len(Order)
      BY <1>1, <2>2, OrdersAreSequences
    <3> QED BY <1>5, <1>13, <3>1, <3>2
  <2> QED BY <2>1, <2>2
<1>14. CASE f = "info" /\ c \in Unbounded
  <2>1. export' = NextCity /\ UNCHANGED site
    BY <1>2, <1>14 DEF ExportCity
  <2> QED BY <1>11, <1>14, <2>1
<1>15. CASE f = "info" /\ c \notin Unbounded
  <2>1. /\ export' = NextStep
        /\ site' = [site EXCEPT !.data = [d \in DOMAIN site.data \cup {c} |->
                                            IF d = c THEN NoFiles ELSE site.data[d]]]
    BY <1>2, <1>15 DEF ExportCity
  <2>2. /\ site'.data = [d \in DOMAIN site.data \cup {c} |->
                           IF d = c THEN NoFiles ELSE site.data[d]]
        /\ site'.root = site.root
        /\ site' = [root |-> site'.root, data |-> site'.data]
    BY <2>1
  <2>3. /\ DOMAIN site'.data = DOMAIN site.data \cup {c}
        /\ site'.data[c] = NoFiles
        /\ \A d \in DOMAIN site.data : d # c => site'.data[d] = site.data[d]
        /\ site'.data = [d \in DOMAIN site'.data |-> site'.data[d]]
    BY <2>2
  <2>4. FilesGood
    BY <2>2, <2>3 DEF NoFiles
  <2> QED BY <1>13, <2>1, <2>3, <2>4
<1>16. CASE f = "require"
  <2>1. /\ UNCHANGED site
        /\ export' = NextStep \/ export' = [export EXCEPT !.pc = "idle"]
    BY <1>2, <1>16 DEF ExportCity, Fail
  <2>2. FilesGood
    BY <1>11, <2>1
  <2>3. c \in Unbounded \cup DOMAIN site'.data
    BY <1>16, <1>19, <2>1
  <2>4. ComesAlong
    BY <1>13, <2>1, <2>3
  <2> QED BY <2>2, <2>4
<1>17. CASE f = "meta"
  <2>1. UNCHANGED site /\ export' = [NextStep EXCEPT !.meta = id]
    BY <1>2, <1>3, <1>17 DEF ExportCity
  <2>2. export' = [export EXCEPT !.step = @ + 1, !.meta = id]
    BY <1>9, <1>17, <2>1 DEF NextStep
  <2>3. export.step < Len(Order)
    BY <1>1, <1>9, <1>17, OrdersAreSequences
  <2>4. FilesGood
    BY <1>11, <2>1
  <2>5. c \in Unbounded \cup DOMAIN site'.data
    BY <1>17, <1>19, <2>1
  <2>6. ComesAlong
    BY <1>4, <2>2, <2>3, <2>5
  <2> QED BY <2>4, <2>6
<1>18. CASE f \notin {"info", "require", "meta"}
  <2>1. /\ export' = NextStep
        /\ \/ UNCHANGED site
           \/ Add(c, f, CASE f = "meta.json" -> export.meta
                          [] f \in {"boundary.geojson", "play-hexes.json"} -> None
                          [] OTHER -> id)
    BY <1>2, <1>3, <1>18 DEF ExportCity
  <2>2. ShowsThePin(c, CASE f = "meta.json" -> export.meta
                    [] f \in {"boundary.geojson", "play-hexes.json"} -> None
                    [] OTHER -> id)
    BY <1>4, <1>5
  <2>3. FilesGood
    BY <1>11, <1>12, <2>1, <2>2
  <2>4. c \in Unbounded \cup DOMAIN site'.data
    BY <1>18, <1>19, <2>3
  <2> QED BY <1>13, <2>1, <2>3, <2>4
<1> QED BY <1>14, <1>15, <1>16, <1>17, <1>18

LEMMA CityKeepsSiteInv ==
  ASSUME SiteInv, ExportCity
  PROVE  SiteInv'
<1>0. PICK c : c = SiteCities[export.city]
  OBVIOUS
<1>1. /\ export.pc = "city" /\ export.city \in 1..Len(SiteCities)
      /\ UNCHANGED check
      /\ site'.root = site.root
      /\ site' = [root |-> site'.root, data |-> site'.data]
      /\ site'.data = [d \in DOMAIN site'.data |-> site'.data[d]]
      /\ DOMAIN site.data \subseteq DOMAIN site'.data
      /\ DOMAIN site'.data \subseteq DOMAIN site.data \cup {c}
      /\ \A d \in DOMAIN site.data : d # c => site'.data[d] = site.data[d]
      /\ c \in DOMAIN site'.data => \A f \in DOMAIN site'.data[c] : ShowsThePin(c, site'.data[c][f])
      /\ \/ export' = [export EXCEPT !.pc = "idle"]
         \/ /\ export' = NextCity
            /\ c \in Unbounded \cup DOMAIN site'.data
         \/ /\ export.step < Len(Order)
            /\ c \in Unbounded \cup DOMAIN site'.data
            /\ \E id : /\ ShowsThePin(c, id)
                       /\ export' = [export EXCEPT !.step = @ + 1, !.meta = id]
  BY <1>0, CityStep
<1>2. /\ export' = [pc |-> export'.pc, pins |-> export'.pins, city |-> export'.city,
                    step |-> export'.step, meta |-> export'.meta]
      /\ export'.pins = export.pins
      /\ \/ /\ export'.pc = "idle"
            /\ export'.city = export.city /\ export'.step = export.step
         \/ /\ export'.pc = "city" /\ export'.city = export.city + 1
            /\ export'.step = 1 /\ export'.meta = None
            /\ c \in Unbounded \cup DOMAIN site'.data
         \/ /\ export'.pc = "city" /\ export'.city = export.city
            /\ export.step < Len(Order) /\ export'.step = export.step + 1
            /\ c \in Unbounded \cup DOMAIN site'.data
            /\ ShowsThePin(c, export'.meta)
  BY <1>1 DEF NextCity, SiteInv, SiteTypeOK
<1>20. /\ export.pc = "city" /\ export.city \in 1..Len(SiteCities)
       /\ DOMAIN site.data \subseteq DOMAIN site'.data
  BY <1>1
<1>21. /\ Len(SiteCities) \in Nat /\ export.city \in Nat /\ export.city <= Len(SiteCities)
  BY <1>20, OrdersAreSequences
<1>3. SiteTypeOK'
  <2>1. c \in SiteCity
    BY <1>0, <1>1, OrdersAreSequences
  <2>2. DOMAIN site'.data \subseteq SiteCity
    BY <1>1, <2>1 DEF SiteInv, SiteTypeOK
  <2>3. export.city \in Nat /\ export.step \in Nat
    BY DEF SiteInv, SiteTypeOK
  <2>4. export'.city \in Nat /\ export'.step \in Nat
    BY <1>2, <2>3
  <2>5. check' = [pc |-> check'.pc, fails |-> check'.fails, exit |-> check'.exit]
    BY <1>1 DEF SiteInv, SiteTypeOK
  <2> QED BY <1>1, <1>2, <2>2, <2>4, <2>5 DEF SiteTypeOK
<1>4. ExportIsOnItsWay'
  <2> SUFFICES ASSUME export'.pc = "city"
               PROVE  ExportIsOnItsWay'
    BY <1>2 DEF ExportIsOnItsWay
  <2>1. /\ DOMAIN export.pins = SiteCity
        /\ export.step \in 1..Len(Order)
        /\ \A i \in 1..Len(SiteCities) :
             i < export.city \/ (i = export.city /\ export.step > 1) =>
               SiteCities[i] \in Unbounded \cup DOMAIN site.data
    BY <1>20, <1>21 DEF SiteInv, ExportIsOnItsWay
  <2>2. c \in Unbounded \cup DOMAIN site'.data
    BY <1>2
  <2>3. \A i \in 1..Len(SiteCities) :
          i <= export.city => SiteCities[i] \in Unbounded \cup DOMAIN site'.data
    <3> SUFFICES ASSUME NEW i \in 1..Len(SiteCities), i <= export.city
                 PROVE  SiteCities[i] \in Unbounded \cup DOMAIN site'.data
      OBVIOUS
    <3>1. CASE i = export.city
      BY <1>0, <2>2, <3>1
    <3>2. CASE i # export.city
      <4>1. i < export.city
        BY <1>21, <3>2
      <4> QED BY <1>20, <2>1, <4>1
    <3> QED BY <3>1, <3>2
  <2>4. /\ export'.city \in 1..(Len(SiteCities) + 1)
        /\ export'.step \in 1..(IF export'.city <= Len(SiteCities) THEN Len(Order)
                                                                   ELSE Len(RootOrder))
    BY <1>2, <1>20, <1>21, <2>1, OrdersAreSequences
  <2>5. \A i \in 1..Len(SiteCities) :
          i < export'.city \/ (i = export'.city /\ export'.step > 1) =>
            SiteCities[i] \in Unbounded \cup DOMAIN site'.data
    <3> SUFFICES ASSUME NEW i \in 1..Len(SiteCities),
                        i < export'.city \/ (i = export'.city /\ export'.step > 1)
                 PROVE  i <= export.city
      BY <2>3
    <3>1. \/ export'.city = export.city
          \/ export'.city = export.city + 1 /\ export'.step = 1
      BY <1>2
    <3> QED BY <1>21, <3>1
  <2> QED BY <1>2, <2>1, <2>4, <2>5 DEF ExportIsOnItsWay
<1>5. PinsAreShown'
  <2> SUFFICES ASSUME export'.pc = "city"
               PROVE  PinsAreShown'
    BY DEF PinsAreShown
  <2>1. \A d, id : ShowsThePin(d, id)' <=> ShowsThePin(d, id)
    BY <1>2 DEF ShowsThePin
  <2>2. ASSUME NEW d \in DOMAIN site'.data, NEW f \in DOMAIN site'.data[d]
        PROVE  ShowsThePin(d, site'.data[d][f])
    <3>1. CASE d = c
      BY <1>1, <2>2, <3>1
    <3>2. CASE d # c
      <4>1. d \in DOMAIN site.data /\ site'.data[d] = site.data[d]
        BY <1>1, <3>2
      <4> QED BY <1>1, <4>1 DEF SiteInv, PinsAreShown
    <3> QED BY <3>1, <3>2
  <2>3. ASSUME NEW d, d = SiteCities[export'.city]
        PROVE  ShowsThePin(d, export'.meta)
    BY <1>0, <1>2, <2>3 DEF ShowsThePin
  <2>4. ASSUME NEW d \in DOMAIN site'.data, NEW f \in DOMAIN site'.data[d]
        PROVE  ShowsThePin(d, site.data[d][f])'
    BY <1>2, <2>2 DEF ShowsThePin
  <2>5. ShowsThePin(SiteCities[export.city], export.meta)'
    BY <1>2, <2>3 DEF ShowsThePin
  <2> QED BY <2>4, <2>5 DEF PinsAreShown
<1>6. PageIsLast' /\ CheckIsOfThisSite'
  BY <1>1 DEF SiteInv, PageIsLast, CheckIsOfThisSite
<1> QED BY <1>3, <1>4, <1>5, <1>6 DEF SiteInv

----------------------------------------------------------------------------
(* The check                                                               *)

\* Only a site that passes every check has no failed checks.
LEMMA NoFailedChecks ==
  FailedChecks = 0 => ~CheckStructure
<1> DEFINE all == {<<1, CheckStructure>>, <<2, CheckReferences>>,
                   <<3, CheckWasmFreshness>>, <<4, CheckConstraints>>,
                   <<5, CheckReasonableness>>, <<6, CheckConsistency>>}
           failed == {f \in all : f[2]}
<1>1. IsFiniteSet(all)
  <2>1. IsFiniteSet({<<1, CheckStructure>>})
    BY FS_Singleton
  <2>2. IsFiniteSet({<<1, CheckStructure>>} \cup {<<2, CheckReferences>>})
    BY <2>1, FS_AddElement
  <2>3. IsFiniteSet({<<1, CheckStructure>>} \cup {<<2, CheckReferences>>}
                      \cup {<<3, CheckWasmFreshness>>})
    BY <2>2, FS_AddElement
  <2>4. IsFiniteSet({<<1, CheckStructure>>} \cup {<<2, CheckReferences>>}
                      \cup {<<3, CheckWasmFreshness>>} \cup {<<4, CheckConstraints>>})
    BY <2>3, FS_AddElement
  <2>5. IsFiniteSet({<<1, CheckStructure>>} \cup {<<2, CheckReferences>>}
                      \cup {<<3, CheckWasmFreshness>>} \cup {<<4, CheckConstraints>>}
                      \cup {<<5, CheckReasonableness>>})
    BY <2>4, FS_AddElement
  <2>6. IsFiniteSet({<<1, CheckStructure>>} \cup {<<2, CheckReferences>>}
                      \cup {<<3, CheckWasmFreshness>>} \cup {<<4, CheckConstraints>>}
                      \cup {<<5, CheckReasonableness>>} \cup {<<6, CheckConsistency>>})
    BY <2>5, FS_AddElement
  <2>7. all = {<<1, CheckStructure>>} \cup {<<2, CheckReferences>>}
                \cup {<<3, CheckWasmFreshness>>} \cup {<<4, CheckConstraints>>}
                \cup {<<5, CheckReasonableness>>} \cup {<<6, CheckConsistency>>}
    OBVIOUS
  <2> QED BY <2>6, <2>7
<1>2. IsFiniteSet(failed)
  BY <1>1, FS_Subset
<1>3. Cardinality(failed) = 0 => failed = {}
  BY <1>2, FS_EmptySet
<1>4. FailedChecks = Cardinality(failed)
  BY DEF FailedChecks
<1>5. CheckStructure => <<1, CheckStructure>> \in failed
  OBVIOUS
<1> QED BY <1>3, <1>4, <1>5

LEMMA CheckKeepsSiteInv ==
  ASSUME SiteInv, StartCheck \/ RunChecks
  PROVE  SiteInv'
<1>1. UNCHANGED <<site, export>>
  BY DEF StartCheck, RunChecks
<1>2. ExportIsOnItsWay' /\ PinsAreShown' /\ PageIsLast'
  BY <1>1 DEF SiteInv, ExportIsOnItsWay, PinsAreShown, ShowsThePin, PageIsLast
<1>3. CASE StartCheck
  <2>1. /\ check' = [pc |-> "run", fails |-> 0, exit |-> "none"]
        /\ export.pc = "idle"
    BY <1>3 DEF StartCheck, NoCheck
  <2>2. check' = [pc |-> check'.pc, fails |-> check'.fails, exit |-> check'.exit]
    BY <2>1
  <2>3. SiteTypeOK'
    BY <1>1, <2>2 DEF SiteInv, SiteTypeOK
  <2>4. CheckIsOfThisSite'
    BY <1>1, <2>1 DEF CheckIsOfThisSite
  <2> QED BY <1>2, <2>3, <2>4 DEF SiteInv
<1>4. CASE RunChecks
  <2>1. export.pc = "idle"
    BY <1>4 DEF RunChecks, SiteInv, CheckIsOfThisSite
  <2>2. /\ check' = [pc |-> check'.pc, fails |-> check'.fails, exit |-> check'.exit]
        /\ check'.pc = "done"
        /\ check'.exit = "ok" => FailedChecks = 0
    <3>1. CASE check' = [pc |-> "done", fails |-> FailedChecks,
                         exit |-> IF FailedChecks = 0 THEN "ok" ELSE "failed"]
      BY <3>1
    <3>2. CASE check' = [check EXCEPT !.pc = "done", !.exit = "interrupted"]
      <4>1. check = [pc |-> check.pc, fails |-> check.fails, exit |-> check.exit]
        BY DEF SiteInv, SiteTypeOK
      <4> QED BY <3>2, <4>1
    <3> QED BY <1>4, <3>1, <3>2 DEF RunChecks
  <2>3. SiteTypeOK'
    BY <1>1, <2>2 DEF SiteInv, SiteTypeOK
  <2>4. ~CheckStructure =>
          /\ RootAssets \cup {"cities.json"} \subseteq site.root /\ DOMAIN site.data # {}
          /\ \A c \in DOMAIN site.data : DataFiles \subseteq DOMAIN site.data[c]
    BY DEF CheckStructure, MissingFiles
  <2>5. CheckIsOfThisSite'
    BY <1>1, <2>1, <2>2, <2>4, NoFailedChecks DEF CheckIsOfThisSite
  <2> QED BY <1>2, <2>3, <2>5 DEF SiteInv
<1> QED BY <1>3, <1>4

LEMMA NextKeepsSiteInv == SiteInv /\ [SiteNext]_siteVars => SiteInv'
<1> SUFFICES ASSUME SiteInv, [SiteNext]_siteVars
             PROVE  SiteInv'
  OBVIOUS
<1>1. CASE \E clean \in BOOLEAN : StartExport(clean)
  BY <1>1, StartKeepsSiteInv
<1>2. CASE ExportStep
  BY <1>2, PinKeepsSiteInv, MarkKeepsSiteInv, CityKeepsSiteInv, FinishKeepsSiteInv
     DEF ExportStep
<1>3. CASE BreakExport
  BY <1>3, BreakKeepsSiteInv
<1>4. CASE \/ \E c \in SiteCity \ Unbounded, parts \in {SnapshotPart, {"coverage"}} :
                CommandCommits(c, Current, parts)
           \/ \E s \in DOMAIN snaps : Rm(s)
           \/ ListVictims \/ DeleteVictim \/ EndPrune
           \/ UNCHANGED siteVars
  <2>1. UNCHANGED <<site, export, check>>
    BY <1>4 DEF CommandCommits, Rm, ListVictims, DeleteVictim, EndPrune, siteVars
  <2> QED BY <2>1, OthersLeaveTheSite
<1>5. CASE StartCheck \/ RunChecks
  BY <1>5, CheckKeepsSiteInv
<1> QED BY <1>1, <1>2, <1>3, <1>4, <1>5 DEF SiteNext

LEMMA SiteIsOnItsWay == SiteSpec => []SiteInv
BY SiteInitHolds, NextKeepsSiteInv, PTL DEF SiteSpec

\* Whatever is committed or deleted while the export reads, the numbers of a
\* city that was pinned are those of its pin.
THEOREM PinnedExportsShowOneSnapshot == SiteSpec => []PinnedExportShowsOneSnapshot
<1>1. SiteInv => PinnedExportShowsOneSnapshot
  BY DEF SiteInv, PinsAreShown, ShowsThePin, PinnedExportShowsOneSnapshot, Shown
<1> QED BY <1>1, SiteIsOnItsWay, PTL

\* A site that passed the check has every city and file an export writes, but
\* perhaps for play.html: an export cut short anywhere before index.html fails.
THEOREM CheckedSitesLackOnlyPlay == SiteSpec => []CheckedSiteLacksOnlyPlay
<1>1. SiteInv => CheckedSiteLacksOnlyPlay
  <2>1. RootFiles \ {"play.html"} \subseteq {"cities.json", "assets", "index.html"}
    BY DEF RootFiles, RootOrder
  <2>2. "index.html" \in RootAssets /\ "assets" \in RootAssets
    BY DEF RootAssets
  <2> QED BY <2>1, <2>2 DEF SiteInv, CheckIsOfThisSite, PageIsLast, CheckedSiteLacksOnlyPlay
<1> QED BY <1>1, SiteIsOnItsWay, PTL

----------------------------------------------------------------------------
(* Pruning the snapshots                                                   *)

\* A finite set of numbers has a largest: the one with the fewest above it.
LEMMA LargestOfFinite ==
  ASSUME NEW S \in SUBSET Nat, IsFiniteSet(S), S # {}
  PROVE  \E s \in S : \A t \in S : t <= s
<1> DEFINE Above(s) == {t \in S : t > s}
           N == {Cardinality(Above(s)) : s \in S}
<1>1. \A s \in S : IsFiniteSet(Above(s)) /\ Cardinality(Above(s)) \in Nat
  BY FS_Subset, FS_CardinalityType
<1>2. N \in SUBSET Nat /\ N # {}
  BY <1>1
<1> HIDE DEF N
<1>3. PICK n \in N : \A m \in N : ~(<<m, n>> \in OpToRel(<, Nat))
  BY <1>2, WFMin, NatLessThanWellFounded
<1>4. PICK s \in S : n = Cardinality(Above(s))
  BY DEF N
<1>5. ASSUME NEW t \in S, t > s
      PROVE  FALSE
  <2>1. Above(t) \subseteq Above(s) /\ t \in Above(s) /\ t \notin Above(t)
    <3>1. \A a, b, c \in Nat : a > b /\ b > c => a > c
      OBVIOUS
    <3>2. \A u \in S : u \in Nat /\ ~(u > u)
      OBVIOUS
    <3>3. \A u \in S : u > t => u > s
      BY <1>5, <3>1, <3>2
    <3> QED BY <1>5, <3>2, <3>3
  <2> HIDE DEF Above
  <2>2. Cardinality(Above(t)) <= Cardinality(Above(s))
        /\ Cardinality(Above(t)) # Cardinality(Above(s))
    BY <1>1, <2>1, FS_Subset
  <2>3. Cardinality(Above(t)) < Cardinality(Above(s))
    BY <1>1, <2>2
  <2>4. Cardinality(Above(t)) \in N /\ n \in Nat
    BY <1>2 DEF N
  <2> QED BY <1>3, <1>4, <2>3, <2>4, <1>2 DEF OpToRel
<1> QED BY <1>5

\* What a victim is to be spared for: the snapshots of its city newer than it,
\* and those rm has taken since the list was made, victims not counted.
Spared(s) ==
  ({t \in SnapsOf(snaps[s].city) : t > s} \cup (removed \ pruning.before))
    \ {v[2] : v \in pruning.victims}

PruningInv ==
  /\ DOMAIN snaps \subseteq 1..lastId /\ removed \subseteq 1..lastId /\ lastId \in Nat
  /\ removed \cap DOMAIN snaps = {}
  /\ pruning = [pc |-> pruning.pc, victims |-> pruning.victims, before |-> pruning.before]
  /\ pruning.before \subseteq removed
  /\ pruning.victims \subseteq (DOMAIN SiteCities) \X (1..lastId)
  /\ pruning.pc = "delete" =>
       \A v \in pruning.victims :
         v[2] \in DOMAIN snaps => Cardinality(Spared(v[2])) >= KeepCount

LEMMA NumbersAreFinite ==
  ASSUME NEW n \in Nat, NEW S \in SUBSET (1..n)
  PROVE  IsFiniteSet(S) /\ Cardinality(S) \in Nat /\ S \in SUBSET Nat
<1>1. IsFiniteSet(1..n)
  BY FS_Interval
<1>2. IsFiniteSet(S)
  BY <1>1, FS_Subset
<1> QED BY <1>2, FS_CardinalityType

\* What is spared of newer snapshots is spared by whatever happens to others.
LEMMA StillSpared ==
  ASSUME NEW n \in Nat, NEW S \in SUBSET (1..n), NEW T \in SUBSET S
  PROVE  Cardinality(T) <= Cardinality(S)
BY NumbersAreFinite, FS_Subset

LEMMA SparedAreNumbers ==
  ASSUME PruningInv, NEW s
  PROVE  Spared(s) \in SUBSET (1..lastId)
BY DEF Spared, PruningInv, SnapsOf

LEMMA PruningInitHolds == SiteInit => PruningInv
<1> SUFFICES ASSUME SiteInit
             PROVE  PruningInv
  OBVIOUS
<1>1. IsFiniteSet(DOMAIN Existing) /\ DOMAIN Existing \in SUBSET Nat
      /\ DOMAIN Existing \subseteq Nat \ {0}
  BY SiteAssumption
<1>2. lastId \in Nat /\ \A s \in DOMAIN Existing : s <= lastId
  <2>1. CASE DOMAIN Existing = {}
    BY <2>1 DEF SiteInit, NewestId, None
  <2>2. CASE DOMAIN Existing # {}
    BY <1>1, <2>2, LargestOfFinite DEF SiteInit, NewestId, NewestOf
  <2> QED BY <2>1, <2>2
<1>3. DOMAIN snaps \subseteq 1..lastId
  BY <1>1, <1>2 DEF SiteInit
<1> QED BY <1>2, <1>3 DEF SiteInit, PruningInv, NoPruning

\* The next victim is one: the newest of the first city that has any left.
LEMMA NextVictimIsOne ==
  ASSUME NEW V, V # {}, NEW n \in Nat, V \subseteq (DOMAIN SiteCities) \X (1..n)
  PROVE  NextVictim(V) \in V
<1> DEFINE P == {v[1] : v \in V}
<1>1. P \subseteq Nat /\ P # {}
  BY OrdersAreSequences
<1>2. PICK i \in P : \A j \in P : ~(<<j, i>> \in OpToRel(<, Nat))
  <2> HIDE DEF P
  <2> QED BY <1>1, WFMin, NatLessThanWellFounded
<1>3. \A v \in V : v[1] = i \/ i < v[1]
  <2>1. \A j \in P : j \in Nat /\ ~(j < i)
    <3> HIDE DEF P
    <3> QED BY <1>1, <1>2 DEF OpToRel
  <2>2. \A j, k \in Nat : j < k \/ j = k \/ k < j
    OBVIOUS
  <2>3. \A v \in V : v[1] \in P
    OBVIOUS
  <2> HIDE DEF P
  <2> QED BY <1>1, <1>2, <2>1, <2>2, <2>3
<1> DEFINE S == {v[2] : v \in {w \in V : w[1] = i}}
<1>4. S \in SUBSET (1..n) /\ S # {}
  BY <1>2
<1>5. PICK s \in S : \A t \in S : t <= s
  <2> HIDE DEF S
  <2> QED BY <1>4, NumbersAreFinite, LargestOfFinite
<1>6. PICK v \in V : v[1] = i /\ v[2] = s
  OBVIOUS
<1>7. \A w \in V : v[1] < w[1] \/ (v[1] = w[1] /\ v[2] >= w[2])
  <2> TAKE w \in V
  <2>1. CASE w[1] = i
    <3>1. w[2] \in S /\ w[2] \in 1..n /\ s \in 1..n
      BY <2>1, <1>4
    <3> QED BY <1>5, <1>6, <2>1, <3>1
  <2>2. CASE w[1] # i
    BY <1>3, <1>6, <2>2
  <2> QED BY <2>1, <2>2
<1>8. \E x \in V : \A w \in V : x[1] < w[1] \/ (x[1] = w[1] /\ x[2] >= w[2])
  BY <1>6, <1>7
<1> QED BY <1>8 DEF NextVictim

\* A listed victim has the newest of its city above it: those above the newest
\* victim are as many as are kept, and none of them is a victim.
LEMMA ListedAreSpared ==
  ASSUME PruningInv, ListVictims
  PROVE  PruningInv'
<1> DEFINE V == {v \in (DOMAIN SiteCities) \X (DOMAIN snaps) :
                   v[2] \in VictimsOf(SiteCities[v[1]])}
<1>1. /\ pruning' = [pc |-> "delete", victims |-> V, before |-> removed]
      /\ UNCHANGED <<snaps, lastId, removed>>
  BY DEF ListVictims
<1>2. /\ pruning'.victims = V /\ pruning'.before = removed /\ pruning'.pc = "delete"
      /\ pruning' = [pc |-> pruning'.pc, victims |-> pruning'.victims,
                     before |-> pruning'.before]
  BY <1>1
<1>3. ASSUME NEW v \in V
      PROVE  Cardinality(Spared(v[2])') >= KeepCount
  <2> DEFINE c == snaps[v[2]].city
             W == VictimsOf(c)
             K(m) == {t \in SnapsOf(c) : t > m}
  <2>1. v[2] \in W
    BY DEF VictimsOf, SnapsOf
  <2>2. W \in SUBSET (1..lastId) /\ lastId \in Nat
    BY DEF VictimsOf, SnapsOf, PruningInv
  <2>3. PICK m \in W : \A t \in W : t <= m
    <3> HIDE DEF W
    <3> QED BY <2>1, <2>2, NumbersAreFinite, LargestOfFinite
  <2>4. Cardinality(K(m)) >= KeepCount
    BY DEF VictimsOf
  <2>5. K(m) \subseteq Spared(v[2])'
    <3> SUFFICES ASSUME NEW t \in K(m)
                 PROVE  t \in Spared(v[2])'
      OBVIOUS
    <3>1. t \in SnapsOf(c) /\ t > m /\ v[2] <= m /\ t \in 1..lastId /\ m \in 1..lastId
          /\ v[2] \in 1..lastId
      BY <2>1, <2>2, <2>3 DEF SnapsOf, PruningInv
    <3>2. t \notin W
      BY <2>3, <3>1
    <3>3. \A w \in V : w[2] # t
      BY <3>1, <3>2 DEF VictimsOf, SnapsOf
    <3>4. t \notin {w[2] : w \in V}
      BY <3>3
    <3>5. t > v[2]
      BY <3>1
    <3> HIDE DEF V
    <3> QED BY <1>1, <1>2, <3>1, <3>4, <3>5 DEF Spared, SnapsOf
  <2>6. Spared(v[2])' \in SUBSET (1..lastId)
    <3> HIDE DEF V
    <3> QED BY <1>1 DEF Spared, PruningInv, SnapsOf
  <2> HIDE DEF K, V, c
  <2>7. Cardinality(K(m)) <= Cardinality(Spared(v[2])')
    BY <2>2, <2>5, <2>6, StillSpared
  <2>8. Cardinality(K(m)) \in Nat /\ Cardinality(Spared(v[2])') \in Nat /\ KeepCount \in Nat
    BY <2>2, <2>5, <2>6, NumbersAreFinite, SiteAssumption
  <2> QED BY <2>4, <2>7, <2>8
<1>4. V \subseteq (DOMAIN SiteCities) \X (1..lastId)
  BY DEF PruningInv
<1> HIDE DEF V
<1> QED BY <1>1, <1>2, <1>3, <1>4 DEF PruningInv

\* The snapshots and the victims of a prune change, but not what is spared.
LEMMA SparedStay ==
  ASSUME PruningInv, UNCHANGED pruning.before, pruning'.victims \subseteq pruning.victims,
         pruning'.pc = "delete" => pruning.pc = "delete", lastId <= lastId',
         pruning' = [pc |-> pruning'.pc, victims |-> pruning'.victims,
                     before |-> pruning'.before],
         DOMAIN snaps' \subseteq 1..lastId', removed' \subseteq 1..lastId', lastId' \in Nat,
         removed \subseteq removed',
         removed' \cap DOMAIN snaps' = {},
         \A s \in DOMAIN snaps \cap DOMAIN snaps' : snaps'[s] = snaps[s],
         \A v \in pruning'.victims : v[2] \in DOMAIN snaps' => v[2] \in DOMAIN snaps,
         \A s \in DOMAIN snaps \ DOMAIN snaps' :
           s \in removed' \ pruning.before \/ \E v \in pruning.victims : s = v[2]
  PROVE  PruningInv'
<1>1. ASSUME pruning'.pc = "delete", NEW v \in pruning'.victims, v[2] \in DOMAIN snaps'
      PROVE  Cardinality(Spared(v[2])') >= KeepCount
  <2>1. v[2] \in DOMAIN snaps /\ v \in pruning.victims /\ snaps'[v[2]] = snaps[v[2]]
    BY <1>1
  <2>2. Cardinality(Spared(v[2])) >= KeepCount
    BY <1>1, <2>1 DEF PruningInv
  <2>3. Spared(v[2]) \subseteq Spared(v[2])'
    <3> SUFFICES ASSUME NEW t \in Spared(v[2])
                 PROVE  t \in Spared(v[2])'
      OBVIOUS
    <3>1. t \notin {w[2] : w \in pruning'.victims}
      BY DEF Spared
    <3>2. CASE t \in removed \ pruning.before
      BY <3>1, <3>2 DEF Spared
    <3>3. CASE t \in SnapsOf(snaps[v[2]].city) /\ t > v[2]
      <4>1. t \in DOMAIN snaps /\ ~(\E w \in pruning.victims : t = w[2])
        BY <3>3 DEF SnapsOf, Spared
      <4>2. CASE t \in DOMAIN snaps'
        <5>1. snaps'[t] = snaps[t]
          BY <4>1, <4>2
        <5>2. t \in SnapsOf(snaps[v[2]].city)'
          BY <2>1, <3>3, <4>2, <5>1 DEF SnapsOf
        <5> QED BY <3>1, <3>3, <5>2 DEF Spared
      <4>3. CASE t \notin DOMAIN snaps'
        BY <3>1, <4>1, <4>3 DEF Spared
      <4> QED BY <4>2, <4>3
    <3> QED BY <3>2, <3>3 DEF Spared
  <2>4. Spared(v[2])' \in SUBSET (1..lastId')
    BY DEF Spared, SnapsOf
  <2>5. Cardinality(Spared(v[2])) <= Cardinality(Spared(v[2])')
    BY <2>3, <2>4, StillSpared
  <2>6. /\ Cardinality(Spared(v[2])) \in Nat /\ Cardinality(Spared(v[2])') \in Nat
        /\ KeepCount \in Nat
    BY <2>3, <2>4, NumbersAreFinite, SiteAssumption
  <2> QED BY <2>2, <2>5, <2>6
<1>2. pruning'.before \subseteq removed'
  BY DEF PruningInv
<1>3. pruning'.victims \subseteq (DOMAIN SiteCities) \X (1..lastId')
  <2>1. 1..lastId \subseteq 1..lastId' 
    BY DEF PruningInv
  <2>2. pruning'.victims \subseteq (DOMAIN SiteCities) \X (1..lastId)
    BY DEF PruningInv
  <2> QED BY <2>1, <2>2
<1> QED BY <1>1, <1>2, <1>3 DEF PruningInv

LEMMA DeletionLeavesSpared ==
  ASSUME PruningInv, DeleteVictim
  PROVE  /\ PruningInv'
         /\ \E v \in pruning.victims : DOMAIN snaps \ DOMAIN snaps' \subseteq {v[2]}
<1> DEFINE v == NextVictim(pruning.victims)
<1>1. /\ pruning.pc = "delete" /\ pruning.victims # {}
      /\ snaps' = Without({v[2]})
      /\ pruning' = [pruning EXCEPT !.victims = @ \ {v}]
      /\ UNCHANGED <<lastId, removed>>
  BY DEF DeleteVictim
<1>2. v \in pruning.victims
  BY <1>1, NextVictimIsOne DEF PruningInv
<1> HIDE DEF v
<1>3. /\ DOMAIN snaps' = DOMAIN snaps \ {v[2]}
      /\ \A s \in DOMAIN snaps' : snaps'[s] = snaps[s]
  BY <1>1 DEF Without
<1>4. /\ pruning' = [pc |-> pruning'.pc, victims |-> pruning'.victims,
                     before |-> pruning'.before]
      /\ pruning'.victims \subseteq pruning.victims /\ pruning'.before = pruning.before
      /\ pruning'.pc = pruning.pc
  BY <1>1 DEF PruningInv
<1>5. DOMAIN snaps \subseteq 1..lastId /\ removed \subseteq 1..lastId /\ lastId \in Nat
      /\ removed \cap DOMAIN snaps = {}
  BY DEF PruningInv
<1>6. /\ DOMAIN snaps' \subseteq 1..lastId' /\ removed' \subseteq 1..lastId' /\ lastId' \in Nat
      /\ removed \subseteq removed' /\ removed' \cap DOMAIN snaps' = {} /\ lastId <= lastId'
  BY <1>1, <1>3, <1>5
<1>7. /\ \A s \in DOMAIN snaps \cap DOMAIN snaps' : snaps'[s] = snaps[s]
      /\ \A w \in pruning'.victims : w[2] \in DOMAIN snaps' => w[2] \in DOMAIN snaps
      /\ \A s \in DOMAIN snaps \ DOMAIN snaps' : \E w \in pruning.victims : s = w[2]
  BY <1>2, <1>3
<1>8. PruningInv'
  BY <1>4, <1>6, <1>7, SparedStay
<1> QED BY <1>2, <1>3, <1>8

LEMMA OthersLeaveSpared ==
  ASSUME PruningInv,
         \/ \E c, h, parts : CommandCommits(c, h, parts)
         \/ \E s \in DOMAIN snaps : Rm(s)
  PROVE  PruningInv'
<1>1. /\ DOMAIN snaps \subseteq 1..lastId /\ removed \subseteq 1..lastId /\ lastId \in Nat
      /\ removed \cap DOMAIN snaps = {} /\ pruning.before \subseteq removed
      /\ pruning.victims \subseteq (DOMAIN SiteCities) \X (1..lastId)
      /\ pruning = [pc |-> pruning.pc, victims |-> pruning.victims,
                    before |-> pruning.before]
  BY DEF PruningInv
<1>2. UNCHANGED pruning
  BY DEF CommandCommits, Rm
<1>3. ASSUME NEW c, NEW h, NEW parts, CommandCommits(c, h, parts)
      PROVE  PruningInv'
  <2>1. /\ lastId' = lastId + 1 /\ UNCHANGED removed
        /\ DOMAIN snaps' = DOMAIN snaps \cup {lastId'}
        /\ \A t \in DOMAIN snaps : t # lastId' => snaps'[t] = snaps[t]
    BY <1>3 DEF CommandCommits
  <2>2. lastId' \notin 1..lastId /\ lastId' \in Nat /\ 1..lastId' = (1..lastId) \cup {lastId'}
        /\ lastId <= lastId'
    BY <1>1, <2>1
  <2>3. \A v \in pruning.victims : v[2] \in 1..lastId
    BY <1>1
  <2>4. \A t \in DOMAIN snaps : snaps'[t] = snaps[t]
    BY <1>1, <2>1, <2>2
  <2>5. removed \cap DOMAIN snaps' = {}
    BY <1>1, <2>1, <2>2
  <2> QED BY <1>1, <1>2, <2>1, <2>2, <2>3, <2>4, <2>5, SparedStay
<1>4. ASSUME NEW s \in DOMAIN snaps, Rm(s)
      PROVE  PruningInv'
  <2>1. /\ lastId' = lastId /\ removed' = removed \cup {s}
        /\ DOMAIN snaps' = DOMAIN snaps \ {s}
        /\ \A t \in DOMAIN snaps' : snaps'[t] = snaps[t]
    BY <1>4 DEF Rm, Without
  <2>2. s \notin pruning.before
    BY <1>1
  <2> QED BY <1>1, <1>2, <2>1, <2>2, SparedStay
<1> QED BY <1>3, <1>4

LEMMA NextKeepsSpared == PruningInv /\ [SiteNext]_siteVars => PruningInv'
<1> SUFFICES ASSUME PruningInv, [SiteNext]_siteVars
             PROVE  PruningInv'
  OBVIOUS
<1>1. CASE UNCHANGED <<snaps, lastId, pruning, removed>>
  BY <1>1 DEF PruningInv, Spared, SnapsOf
<1>2. CASE ListVictims
  BY <1>2, ListedAreSpared
<1>3. CASE DeleteVictim
  BY <1>3, DeletionLeavesSpared
<1>4. CASE EndPrune
  <2>1. pruning' = [pc |-> "done", victims |-> {}, before |-> {}]
        /\ UNCHANGED <<snaps, lastId, removed>>
    BY <1>4 DEF EndPrune, NoPruning
  <2>2. pruning'.pc = "done" /\ pruning'.victims = {} /\ pruning'.before = {}
    BY <2>1
  <2> QED BY <2>1, <2>2 DEF PruningInv
<1>5. CASE \/ \E c \in SiteCity \ Unbounded, parts \in {SnapshotPart, {"coverage"}} :
                CommandCommits(c, Current, parts)
           \/ \E s \in DOMAIN snaps : Rm(s)
  BY <1>5, OthersLeaveSpared
<1>6. CASE \/ \E clean \in BOOLEAN : StartExport(clean)
           \/ ExportStep \/ BreakExport \/ StartCheck \/ RunChecks \/ UNCHANGED siteVars
  <2>1. UNCHANGED <<snaps, lastId, pruning, removed>>
    BY <1>6 DEF StartExport, ExportStep, Pin, Mark, ExportCity, FinishSite, BreakExport, Alone,
                StartCheck, RunChecks, siteVars
  <2> QED BY <1>1, <2>1
<1> QED BY <1>2, <1>3, <1>4, <1>5, <1>6 DEF SiteNext

\* However old its list, and whatever others commit or delete meanwhile: what
\* `snapshots prune` deletes has the --keep newest of its city above it, not
\* counting those rm has taken since (runPrune).
THEOREM PrunesSpareTheNewest == SiteSpec => PruneSparesTheNewest
<1> DEFINE Spares ==
      pruning.pc = "delete" /\ pruning' # pruning =>
        \A s \in DOMAIN snaps \ DOMAIN snaps' :
          LET newer == {t \in SnapsOf(snaps[s].city) : t > s}
          IN Cardinality(newer) + Cardinality(removed \ pruning.before) >= KeepCount
<1>1. ASSUME PruningInv, DeleteVictim, NEW s \in DOMAIN snaps \ DOMAIN snaps'
      PROVE  LET newer == {t \in SnapsOf(snaps[s].city) : t > s}
             IN Cardinality(newer) + Cardinality(removed \ pruning.before) >= KeepCount
  <2> DEFINE newer == {t \in SnapsOf(snaps[s].city) : t > s}
             taken == removed \ pruning.before
  <2>1. Cardinality(Spared(s)) >= KeepCount
    <3>1. \E v \in pruning.victims : s = v[2]
      BY <1>1, DeletionLeavesSpared
    <3>2. pruning.pc = "delete"
      BY <1>1 DEF DeleteVictim
    <3> QED BY <1>1, <3>1, <3>2 DEF PruningInv
  <2>2. newer \in SUBSET (1..lastId) /\ taken \in SUBSET (1..lastId) /\ lastId \in Nat
    BY <1>1 DEF SnapsOf, PruningInv
  <2>3. Spared(s) \subseteq newer \cup taken
    BY DEF Spared
  <2> HIDE DEF newer, taken
  <2>4. /\ Cardinality(newer) \in Nat /\ Cardinality(taken) \in Nat
        /\ Cardinality(newer \cap taken) \in Nat /\ Cardinality(Spared(s)) \in Nat
        /\ KeepCount \in Nat
    <3>1. newer \cap taken \in SUBSET (1..lastId) /\ Spared(s) \in SUBSET (1..lastId)
      BY <2>2, <2>3
    <3> QED BY <2>2, <3>1, NumbersAreFinite, SiteAssumption
  <2>5. Cardinality(newer \cup taken)
          = Cardinality(newer) + Cardinality(taken) - Cardinality(newer \cap taken)
    BY <2>2, NumbersAreFinite, FS_Union
  <2>6. Cardinality(Spared(s)) <= Cardinality(newer \cup taken)
    <3>1. newer \cup taken \in SUBSET (1..lastId)
      BY <2>2
    <3> QED BY <2>2, <2>3, <3>1, StillSpared
  <2>7. Cardinality(newer) + Cardinality(taken) >= KeepCount
    BY <2>1, <2>4, <2>5, <2>6
  <2> QED BY <2>7 DEF newer, taken
<1>2. PruningInv /\ [SiteNext]_siteVars => [Spares]_siteVars
  <2> SUFFICES ASSUME PruningInv, SiteNext
               PROVE  Spares
    OBVIOUS
  <2>1. CASE DeleteVictim
    BY <1>1, <2>1
  <2>2. CASE EndPrune
    BY <2>2 DEF EndPrune
  <2>3. CASE ListVictims
    BY <2>3 DEF ListVictims
  <2>4. CASE ~DeleteVictim /\ ~EndPrune /\ ~ListVictims
    <3>1. UNCHANGED pruning
      BY <2>4 DEF SiteNext, StartExport, ExportStep, Pin, Mark, ExportCity, FinishSite,
                  BreakExport, Alone, StartCheck, RunChecks, CommandCommits, Rm
    <3> QED BY <3>1
  <2> QED BY <2>1, <2>2, <2>3, <2>4
<1>3. PruneSparesTheNewest <=> [][Spares]_siteVars
  BY DEF PruneSparesTheNewest
<1> HIDE DEF Spares
<1> QED BY <1>2, <1>3, PruningInitHolds, NextKeepsSpared, PTL DEF SiteSpec

----------------------------------------------------------------------------
(* The server's caches                                                     *)

ServePcs == {"coming", "resolve", "match", "load", "store", "call", "build", "done"}

ThunkCall == [key : Keys, thunk : Visit \cup {NoThunk}]
VisitType == [pc : ServePcs, want : Want \cup {<<>>}, calls : Seq(ThunkCall), status : Nat]

\* What a thunk may hold: no build, a failure, or a value that fits its key.
Sound(k, result) ==
  /\ result.state = "built" => Fits(k, result.value)
  /\ result.state # "built" => result \in {Unbuilt, Building} \cup BuildFailed

ServeTypeOK ==
  /\ slot \in [Keys -> Visit \cup {NoThunk}]
  /\ thunk = [t \in Visit |-> [k \in Keys |-> thunk[t][k]]]
  /\ request \in [Visit -> VisitType]

\* The keys that name a document of a city at a snapshot.
OfSnapshot(k) ==
  k \notin {<<"index">>, <<"game">>, <<"cities">>} /\ k[1] \notin {"game", "snapshots"}
Judged(k) == OfSnapshot(k) => k[3] \in Matching \cup {0}

\* A request in the caches calls one build, or a document's build and the
\* forecasts it is waiting for; only the innermost call may lack its thunk.
CallsAreNested(q) ==
  /\ q.pc \in {"coming", "resolve", "match", "done"} <=> q.calls = <<>>
  /\ \A i \in 1..Len(q.calls) : Judged(q.calls[i].key)
  /\ \A i \in 1..(Len(q.calls) - 1) :
       /\ q.calls[i].thunk \in Visit
       /\ q.calls[i].key[1] \in OnForecasts
       /\ q.calls[i + 1].key = ForecastsKey(q.calls[i].key)
  /\ q.pc \in {"load", "store"} => q.calls[Len(q.calls)].thunk = NoThunk
  /\ q.pc \in {"call", "build"} => q.calls[Len(q.calls)].thunk \in Visit

\* A data file's request has passed the checks it has passed.
ChecksAreOfTheRequest(r) ==
  request[r].pc \in {"resolve", "match"} =>
    /\ request[r].want \in Wants[r] /\ request[r].want.op = "data"
    /\ request[r].pc = "match" => request[r].want.snapshot # 0

ServeInv ==
  /\ ServeTypeOK
  /\ \A r \in Visit : CallsAreNested(request[r]) /\ ChecksAreOfTheRequest(r)
  /\ \A t \in Visit : \A k \in Keys : Sound(k, thunk[t][k])
  /\ NoFailureIsPinned

LEMMA KeysOfWants == \A r \in Visit : \A w \in Wants[r] : w \in Want /\ Shared(w) \subseteq Keys
BY ServeAssumption DEF Keys

LEMMA KeysAreClosed ==
  ASSUME NEW k \in Keys
  PROVE  /\ k[1] \in OnForecasts => ForecastsKey(k) \in Keys /\ OfSnapshot(k)
         /\ CityPage(k) => <<"game">> \in Keys
         /\ k[1] = "game" => CityPage(k) \/ k = <<"game">>
<1>1. PICK r \in Visit, w \in Want : w \in Wants[r] /\ k \in Shared(w) /\ Shared(w) \subseteq Keys
  BY KeysOfWants DEF Keys
<1>2. CASE w.op = "play"
  <2>1. <<"game">> \in Shared(w)
    BY <1>2 DEF Shared
  <2>2. k \in {KeyOf(w), <<"game">>, <<"forecasts", w.city, w.snapshot>>}
    BY <1>1, <1>2 DEF Shared
  <2>3. KeyOf(w) = <<"game", w.city>> \/ KeyOf(w) = <<"game">>
    BY <1>2 DEF KeyOf
  <2>4. ASSUME NEW c, NEW s
        PROVE  /\ CityPage(<<"game", c>>) /\ "game" \notin OnForecasts /\ "forecasts" \notin OnForecasts
               /\ <<"game">>[1] = "game" /\ <<"game", c>>[1] = "game"
               /\ <<"forecasts", c, s>>[1] = "forecasts"
    BY DEF CityPage, OnForecasts
  <2>5. CASE k = <<"game">>
    BY <1>1, <2>1, <2>4, <2>5
  <2>6. CASE k = <<"game", w.city>>
    BY <1>1, <2>1, <2>4, <2>6
  <2>7. CASE k = <<"forecasts", w.city, w.snapshot>>
    BY <1>1, <2>1, <2>4, <2>7
  <2> QED BY <2>2, <2>3, <2>5, <2>6, <2>7
<1>3. CASE w.op # "play" /\ k = KeyOf(w)
  <2>1. CASE w.op = "snapshots"
    <3>1. k = <<"snapshots", w.city>>
      BY <1>3, <2>1 DEF KeyOf
    <3> QED BY <3>1 DEF OnForecasts, CityPage
  <2>2. CASE w.op = "data"
    <3>1. k = <<w.file, w.city, IF w.file = "boundary" THEN 0 ELSE w.snapshot>>
      BY <1>3, <2>2 DEF KeyOf, DataKey
    <3>2. Len(k) = 3 /\ k[1] = w.file
      BY <3>1
    <3>3. k[1] \in OnForecasts => ForecastsKey(k) = <<"forecasts", w.city, w.snapshot>>
      BY <3>1 DEF OnForecasts, ForecastsKey
    <3>4. w.file \in OnForecasts => <<"forecasts", w.city, w.snapshot>> \in Shared(w)
      BY <1>3 DEF Shared
    <3>5. w.file # "game"
      BY DEF Want, DataFile
    <3>6. k[1] \in OnForecasts => ForecastsKey(k) \in Keys
      BY <1>1, <3>2, <3>3, <3>4
    <3>7. k[1] \in OnForecasts => OfSnapshot(k)
      BY <3>1, <3>2 DEF OfSnapshot, OnForecasts
    <3> QED BY <3>2, <3>5, <3>6, <3>7 DEF CityPage
  <2>3. CASE w.op \in {"index", "cities"}
    <3>1. k = <<w.op>>
      BY <1>3, <2>3 DEF KeyOf
    <3> QED BY <2>3, <3>1 DEF OnForecasts, CityPage
  <2> QED BY <1>3, <2>1, <2>2, <2>3 DEF Want
<1>4. CASE w.op # "play" /\ k # KeyOf(w)
  <2>1. k = <<"forecasts", w.city, w.snapshot>>
    BY <1>1, <1>4 DEF Shared
  <2> QED BY <2>1 DEF OnForecasts, CityPage
<1> QED BY <1>2, <1>3, <1>4

\* The forecasts of a document's key are judged with it.
LEMMA ForecastsAreJudged ==
  ASSUME NEW k \in Keys, k[1] \in OnForecasts
  PROVE  /\ OfSnapshot(k) /\ OfSnapshot(ForecastsKey(k))
         /\ Judged(k) => Judged(ForecastsKey(k))
         /\ ForecastsKey(k)[1] = "forecasts"
         /\ ForecastsKey(k)[2] = k[2] /\ ForecastsKey(k)[3] = k[3]
<1>1. ForecastsKey(k) = <<"forecasts", k[2], k[3]>>
  BY DEF ForecastsKey
<1> QED BY <1>1, KeysAreClosed DEF OfSnapshot, Judged

\* The one step of a request: what has to be shown of it.
LEMMA OneRequestMoves ==
  ASSUME ServeInv, NEW r \in Visit, NEW q \in VisitType,
         request' = [request EXCEPT ![r] = q],
         CallsAreNested(q),
         q.pc \in {"resolve", "match"} =>
           q.want \in Wants[r] /\ q.want.op = "data" /\ (q.pc = "match" => q.want.snapshot # 0),
         slot' \in [Keys -> Visit \cup {NoThunk}],
         thunk' = [t \in Visit |-> [k \in Keys |-> thunk'[t][k]]],
         \A t \in Visit : \A k \in Keys : Sound(k, thunk'[t][k]),
         \A k \in Keys : slot'[k] # NoThunk /\ thunk'[slot'[k]][k] \in BuildFailed =>
           \/ \E i \in 1..Len(q.calls) : q.calls[i] = [key |-> k, thunk |-> slot'[k]]
           \/ /\ slot'[k] = slot[k] /\ thunk[slot[k]][k] \in BuildFailed
              /\ \A i \in 1..Len(request[r].calls) :
                   request[r].calls[i] # [key |-> k, thunk |-> slot[k]]
  PROVE  ServeInv'
<1>1. request'[r] = q /\ request' \in [Visit -> VisitType]
      /\ \A p \in Visit \ {r} : request'[p] = request[p]
  BY DEF ServeInv, ServeTypeOK
<1>2. ServeTypeOK'
  BY <1>1 DEF ServeTypeOK
<1>3. \A p \in Visit : CallsAreNested(request'[p])
  BY <1>1 DEF ServeInv
<1>4. (\A p \in Visit : CallsAreNested(request[p]))'
  BY <1>3 DEF CallsAreNested
<1>5. (\A p \in Visit : ChecksAreOfTheRequest(p))'
  BY <1>1 DEF ServeInv, ChecksAreOfTheRequest
<1>6. (\A t \in Visit : \A k \in Keys : Sound(k, thunk[t][k]))'
  BY DEF Sound
<1>7. NoFailureIsPinned'
  <2> SUFFICES ASSUME NEW k \in Keys, slot'[k] # NoThunk, thunk'[slot'[k]][k] \in BuildFailed
               PROVE  \E p \in Visit : \E i \in 1..Len(request'[p].calls) :
                        request'[p].calls[i] = [key |-> k, thunk |-> slot'[k]]
    BY DEF NoFailureIsPinned, Depth
  <2>1. CASE \E i \in 1..Len(q.calls) : q.calls[i] = [key |-> k, thunk |-> slot'[k]]
    BY <1>1, <2>1
  <2>2. CASE /\ slot'[k] = slot[k] /\ thunk[slot[k]][k] \in BuildFailed
             /\ \A i \in 1..Len(request[r].calls) :
                   request[r].calls[i] # [key |-> k, thunk |-> slot[k]]
    <3>1. PICK p \in Visit : \E i \in 1..Len(request[p].calls) :
                               request[p].calls[i] = [key |-> k, thunk |-> slot[k]]
      BY <2>2 DEF ServeInv, NoFailureIsPinned, Depth
    <3>2. p # r
      BY <2>2, <3>1
    <3> QED BY <1>1, <2>2, <3>1, <3>2
  <2> QED BY <2>1, <2>2
<1> QED BY <1>2, <1>4, <1>5, <1>6, <1>7 DEF ServeInv

\* What a request in the caches has in hand: its innermost call.
LEMMA InnermostCall ==
  ASSUME ServeInv, NEW r \in Visit, request[r].pc \in {"load", "store", "call", "build"}
  PROVE  /\ request[r] \in VisitType /\ request[r].calls \in Seq(ThunkCall)
         /\ Depth(r) \in Nat \ {0} /\ Depth(r) = Len(request[r].calls)
         /\ Top(r) = request[r].calls[Depth(r)]
         /\ Top(r).key \in Keys /\ Judged(Top(r).key)
         /\ Top(r) = [key |-> Top(r).key, thunk |-> Top(r).thunk]
         /\ CallsAreNested(request[r])
<1>1. request[r] \in VisitType /\ CallsAreNested(request[r])
  BY DEF ServeInv, ServeTypeOK
<1>2. request[r].calls \in Seq(ThunkCall)
  BY <1>1 DEF VisitType
<1>3. request[r].calls # <<>>
  BY <1>1 DEF CallsAreNested
<1>4. Len(request[r].calls) \in Nat \ {0}
  BY <1>2, <1>3
<1>5. Top(r) \in ThunkCall
  BY <1>2, <1>4 DEF Top
<1> QED BY <1>1, <1>2, <1>4, <1>5 DEF Top, Depth, ThunkCall, CallsAreNested

\* The request finds, or stores, the thunk of its innermost call.
PcWith(t) == IF t = NoThunk THEN "store" ELSE "call"
FindsThunk(q, r, t) ==
  q = [request[r] EXCEPT !.pc = PcWith(t), !.calls[Depth(r)].thunk = t]

\* Its other calls stay.
HasThunk(q, r, t) ==
  /\ q.pc = PcWith(t)
  /\ Len(q.calls) = Depth(r)
  /\ q.calls[Depth(r)] = [key |-> Top(r).key, thunk |-> t]
  /\ \A k \in Keys, s \in Visit : \A i \in 1..Depth(r) :
       request[r].calls[i] = [key |-> k, thunk |-> s] => q.calls[i] = [key |-> k, thunk |-> s]

LEMMA TopGetsItsThunk ==
  ASSUME ServeInv, NEW r \in Visit, request[r].pc \in {"load", "store"},
         NEW t \in Visit \cup {NoThunk}, NEW q, FindsThunk(q, r, t)
  PROVE  q \in VisitType /\ CallsAreNested(q) /\ HasThunk(q, r, t)
<1>0. PICK pc : pc = PcWith(t)
  OBVIOUS
<1> DEFINE n == Depth(r)
           old == request[r]
           calls == [old.calls EXCEPT ![n].thunk = t]
<1>1. /\ old \in VisitType /\ old.calls \in Seq(ThunkCall)
      /\ n \in Nat \ {0} /\ n = Len(old.calls)
      /\ old.calls[n] = Top(r) /\ Top(r).key \in Keys /\ Judged(Top(r).key)
      /\ Top(r) = [key |-> Top(r).key, thunk |-> Top(r).thunk]
      /\ CallsAreNested(old)
  BY InnermostCall
<1>2. /\ Top(r).thunk = NoThunk
      /\ (pc = "store" /\ t = NoThunk) \/ (pc = "call" /\ t \in Visit)
  BY <1>0, <1>1 DEF CallsAreNested, PcWith, NoThunk, Visit
<1>3. q = [old EXCEPT !.pc = pc, !.calls = calls]
  BY <1>0, <1>1 DEF VisitType, FindsThunk
<1> HIDE DEF n, old
<1>4. /\ calls \in Seq(ThunkCall) /\ Len(calls) = n
      /\ calls[n] = [key |-> Top(r).key, thunk |-> t]
      /\ \A i \in 1..(n - 1) : calls[i] = old.calls[i]
  BY <1>1 DEF ThunkCall
<1> HIDE DEF calls
<1>5. q \in VisitType /\ q.pc = pc /\ q.calls = calls
  BY <1>1, <1>2, <1>3, <1>4 DEF VisitType, ServePcs
<1>6. CallsAreNested(q)
  <2>1. \A i \in 1..n : calls[i].key = old.calls[i].key
    BY <1>1, <1>4
  <2>2. calls # <<>>
    BY <1>1, <1>4
  <2>3. \A i \in 1..n : Judged(calls[i].key)
    BY <1>1, <2>1 DEF CallsAreNested
  <2>4. \A i \in 1..(n - 1) :
          /\ calls[i].thunk \in Visit
          /\ calls[i].key[1] \in OnForecasts
          /\ calls[i + 1].key = ForecastsKey(calls[i].key)
    <3> SUFFICES ASSUME NEW i \in 1..(n - 1)
                 PROVE  /\ calls[i].thunk \in Visit
                        /\ calls[i].key[1] \in OnForecasts
                        /\ calls[i + 1].key = ForecastsKey(calls[i].key)
      OBVIOUS
    <3>1. i \in 1..n /\ i + 1 \in 1..n /\ i \in 1..(Len(old.calls) - 1)
      BY <1>1
    <3>2. /\ old.calls[i].thunk \in Visit
          /\ old.calls[i].key[1] \in OnForecasts
          /\ old.calls[i + 1].key = ForecastsKey(old.calls[i].key)
      BY <1>1, <3>1 DEF CallsAreNested
    <3> QED BY <1>4, <2>1, <3>1, <3>2
  <2>5. calls[n].thunk = t
    BY <1>4
  <2> QED BY <1>2, <1>4, <1>5, <2>2, <2>3, <2>4, <2>5 DEF CallsAreNested
<1>7. \A k \in Keys, s \in Visit : \A i \in 1..n :
        old.calls[i] = [key |-> k, thunk |-> s] => calls[i] = [key |-> k, thunk |-> s]
  BY <1>1, <1>2, <1>4 DEF NoThunk, Visit
<1> QED BY <1>0, <1>4, <1>5, <1>6, <1>7 DEF n, old, HasThunk

\* Nothing of a request's is in the caches before its first call, nor after
\* its answer.
LEMMA WithoutCalls ==
  ASSUME NEW q \in VisitType, q.pc \in {"coming", "resolve", "match", "done"}, q.calls = <<>>
  PROVE  CallsAreNested(q)
BY DEF CallsAreNested

LEMMA DoneHasNoCalls ==
  ASSUME NEW s \in Nat
  PROVE  /\ Done(s) \in VisitType /\ Done(s).pc = "done"
         /\ CallsAreNested(Done(s))
<1>1. <<>> \in Seq(ThunkCall)
  OBVIOUS
<1>2. Waiting \in VisitType /\ Waiting.calls = <<>>
  BY <1>1 DEF Waiting, VisitType, ServePcs
<1>3. Done(s) \in VisitType /\ Done(s).pc = "done" /\ Done(s).calls = <<>>
  BY <1>2 DEF Done, VisitType, ServePcs
<1> QED BY <1>3, WithoutCalls

LEMMA FirstCall ==
  ASSUME NEW k \in Keys, Judged(k),
         NEW q \in [pc : {"load"}, want : Want \cup {<<>>}, calls : {<<Call(k)>>}, status : Nat]
  PROVE  q \in VisitType /\ CallsAreNested(q)
<1>1. Call(k) \in ThunkCall /\ Call(k).key = k /\ Call(k).thunk = NoThunk
  BY DEF Call, ThunkCall
<1>2. q.calls \in Seq(ThunkCall) /\ Len(q.calls) = 1 /\ q.calls[1] = Call(k) /\ q.calls # <<>>
  <2>1. q.calls = <<Call(k)>>
    OBVIOUS
  <2> QED BY <1>1, <2>1
<1>3. q \in VisitType
  BY <1>2 DEF VisitType, ServePcs
<1> QED BY <1>1, <1>2, <1>3 DEF CallsAreNested

LEMMA StepOutsideCaches ==
  ASSUME ServeInv, NEW r \in Visit, request[r].pc \in {"coming", "resolve", "match"},
         NEW q \in VisitType, request' = [request EXCEPT ![r] = q], CallsAreNested(q),
         q.pc \in {"resolve", "match"} =>
           q.want \in Wants[r] /\ q.want.op = "data" /\ (q.pc = "match" => q.want.snapshot # 0),
         UNCHANGED <<slot, thunk>>
  PROVE  ServeInv'
<1>1. request[r].calls = <<>>
  BY DEF ServeInv, CallsAreNested
<1>2. \A k \in Keys : slot'[k] # NoThunk /\ thunk'[slot'[k]][k] \in BuildFailed =>
        /\ slot'[k] = slot[k] /\ thunk[slot[k]][k] \in BuildFailed
        /\ \A i \in 1..Len(request[r].calls) :
             request[r].calls[i] # [key |-> k, thunk |-> slot[k]]
  BY <1>1
<1>3. /\ slot' \in [Keys -> Visit \cup {NoThunk}]
      /\ thunk' = [t \in Visit |-> [k \in Keys |-> thunk'[t][k]]]
      /\ \A t \in Visit : \A k \in Keys : Sound(k, thunk'[t][k])
  BY DEF ServeInv, ServeTypeOK
<1> QED BY <1>2, <1>3, OneRequestMoves

LEMMA AnswerOutsideCaches ==
  ASSUME ServeInv, NEW r \in Visit, request[r].pc \in {"coming", "resolve", "match"},
         NEW status \in Nat, Answer(r, status), UNCHANGED <<slot, thunk>>
  PROVE  ServeInv'
BY DoneHasNoCalls, StepOutsideCaches DEF Answer

LEMMA KeyIsJudged ==
  ASSUME NEW r \in Visit, NEW w \in Wants[r],
         w.op = "data" => IF w.snapshot = 0 THEN TRUE ELSE w.snapshot \in Matching
  PROVE  w \in Want /\ KeyOf(w) \in Keys /\ Judged(KeyOf(w))
<1>1. w \in Want /\ KeyOf(w) \in Keys
  BY KeysOfWants DEF Shared
<1>2. CASE w.op = "data"
  <2>1. KeyOf(w) = <<w.file, w.city, IF w.file = "boundary" THEN 0 ELSE w.snapshot>>
    BY <1>2 DEF KeyOf, DataKey
  <2> QED BY <1>1, <1>2, <2>1 DEF Judged
<1>3. CASE w.op # "data"
  <2>1. CASE w.op = "play"
    <3>1. KeyOf(w) = IF w.city \in ServedCity THEN <<"game", w.city>> ELSE <<"game">>
      BY <2>1 DEF KeyOf
    <3> QED BY <1>1, <3>1 DEF Judged, OfSnapshot
  <2>2. CASE w.op = "snapshots"
    <3>1. KeyOf(w) = <<"snapshots", w.city>>
      BY <2>2 DEF KeyOf
    <3> QED BY <1>1, <3>1 DEF Judged, OfSnapshot
  <2>3. CASE w.op \in {"index", "cities"}
    <3>1. KeyOf(w) = <<w.op>>
      BY <2>3 DEF KeyOf
    <3> QED BY <1>1, <2>3, <3>1 DEF Judged, OfSnapshot
  <2> QED BY <1>1, <1>3, <2>1, <2>2, <2>3 DEF Want
<1> QED BY <1>2, <1>3

LEMMA ArriveKeepsServeInv ==
  ASSUME ServeInv, NEW r \in Visit, Arrive(r)
  PROVE  ServeInv'
<1>1. PICK w \in Wants[r] : request' = [request EXCEPT ![r] =
        CASE w.op \in {"data", "snapshots"} /\ w.city = Unknown -> Done(404)
          [] w.op = "data" /\ w.city # Unknown -> [Waiting EXCEPT !.pc = "resolve", !.want = w]
          [] OTHER -> [Waiting EXCEPT !.pc = "load", !.want = w, !.calls = <<Call(KeyOf(w))>>]]
  BY DEF Arrive
<1>2. request[r].pc = "coming" /\ UNCHANGED <<slot, thunk>>
  BY DEF Arrive
<1>3. w \in Want
  BY KeysOfWants
<1>4. CASE w.op \in {"data", "snapshots"} /\ w.city = Unknown
  <2>1. Answer(r, 404)
    BY <1>1, <1>4 DEF Answer
  <2> QED BY <1>2, <2>1, AnswerOutsideCaches
<1>5. CASE w.op = "data" /\ w.city # Unknown
  <2> DEFINE q == [pc |-> "resolve", want |-> w, calls |-> <<>>, status |-> 0]
  <2>1. request' = [request EXCEPT ![r] = q]
    BY <1>1, <1>5 DEF Waiting
  <2>2. q \in VisitType
    BY <1>3 DEF VisitType, ServePcs
  <2>3. CallsAreNested(q)
    BY <2>2, WithoutCalls
  <2> QED BY <1>2, <1>5, <2>1, <2>2, <2>3, StepOutsideCaches
<1>6. CASE w.op # "data" /\ ~(w.op = "snapshots" /\ w.city = Unknown)
  <2> DEFINE q == [pc |-> "load", want |-> w, calls |-> <<Call(KeyOf(w))>>, status |-> 0]
  <2>1. request' = [request EXCEPT ![r] = q]
    BY <1>1, <1>6 DEF Waiting
  <2>2. q \in VisitType /\ CallsAreNested(q)
    BY <1>3, <1>6, KeyIsJudged, FirstCall
  <2>3. q.pc = "load"
    OBVIOUS
  <2> HIDE DEF q
  <2> QED BY <1>2, <2>1, <2>2, <2>3, StepOutsideCaches
<1> QED BY <1>4, <1>5, <1>6

\* Once its checks are passed a data file's request enters the cache.
LEMMA EnterKeepsServeInv ==
  ASSUME ServeInv, NEW r \in Visit, request[r].pc \in {"resolve", "match"},
         request[r].want.snapshot = 0 \/ request[r].want.snapshot \in Matching,
         Enter(r, KeyOf(request[r].want)), UNCHANGED <<slot, thunk>>
  PROVE  ServeInv'
<1> DEFINE k == KeyOf(request[r].want)
           q == [request[r] EXCEPT !.pc = "load", !.calls = <<Call(k)>>]
<1>1. request[r].want \in Wants[r] /\ request[r] \in VisitType
  BY DEF ServeInv, ServeTypeOK, ChecksAreOfTheRequest
<1>2. k \in Keys /\ Judged(k)
  BY <1>1, KeyIsJudged
<1>3. request' = [request EXCEPT ![r] = q]
  BY DEF Enter, ServeInv, ServeTypeOK
<1>4. q.pc = "load" /\ q \in VisitType /\ CallsAreNested(q)
  <2> HIDE DEF k
  <2>1. q \in [pc : {"load"}, want : Want \cup {<<>>}, calls : {<<Call(k)>>}, status : Nat]
    BY <1>1 DEF VisitType
  <2> HIDE DEF q
  <2> QED BY <1>2, <2>1, FirstCall
<1> HIDE DEF q
<1> QED BY <1>3, <1>4, StepOutsideCaches

LEMMA ResolveKeepsServeInv ==
  ASSUME ServeInv, NEW r \in Visit, Resolve(r)
  PROVE  ServeInv'
<1> DEFINE w == request[r].want
<1>1. request[r].pc = "resolve" /\ UNCHANGED <<slot, thunk>>
  BY DEF Resolve
<1>2. w \in Wants[r] /\ w.op = "data" /\ request[r] \in VisitType
  BY <1>1 DEF ServeInv, ServeTypeOK, ChecksAreOfTheRequest
<1>3. CASE Answer(r, 404) \/ Answer(r, 409)
  BY <1>1, <1>3, AnswerOutsideCaches
<1>4. CASE w.snapshot # 0 /\ Goto(r, "match")
  <2> DEFINE q == [request[r] EXCEPT !.pc = "match"]
  <2>1. request' = [request EXCEPT ![r] = q]
    BY <1>4 DEF Goto, ServeInv, ServeTypeOK
  <2>2. q \in VisitType /\ q.want = w /\ q.pc = "match" /\ q.calls = request[r].calls
    BY <1>2 DEF VisitType, ServePcs
  <2>3. request[r].calls = <<>>
    BY <1>1 DEF ServeInv, CallsAreNested
  <2> HIDE DEF q
  <2>4. CallsAreNested(q)
    BY <2>2, <2>3, WithoutCalls
  <2> QED BY <1>1, <1>2, <1>4, <2>1, <2>2, <2>4, StepOutsideCaches
<1>5. CASE w.snapshot = 0 /\ Enter(r, KeyOf(w))
  BY <1>1, <1>5, EnterKeepsServeInv
<1>6. Answer(r, 404) \/ Answer(r, 409) \/ (w.snapshot # 0 /\ Goto(r, "match"))
        \/ (w.snapshot = 0 /\ Enter(r, KeyOf(w)))
  BY DEF Resolve
<1> QED BY <1>3, <1>4, <1>5, <1>6

LEMMA MatchKeepsServeInv ==
  ASSUME ServeInv, NEW r \in Visit, Match(r)
  PROVE  ServeInv'
<1> DEFINE w == request[r].want
<1>1. request[r].pc = "match" /\ UNCHANGED <<slot, thunk>>
  BY DEF Match
<1>2. Answer(r, 500) \/ Answer(r, 409) \/ Answer(r, 404)
        \/ (w.snapshot \in Matching /\ Enter(r, KeyOf(w)))
  BY DEF Match, MatchesConfig
<1>3. CASE Answer(r, 500) \/ Answer(r, 409) \/ Answer(r, 404)
  BY <1>1, <1>3, AnswerOutsideCaches
<1>4. CASE w.snapshot \in Matching /\ Enter(r, KeyOf(w))
  BY <1>1, <1>4, EnterKeepsServeInv
<1> QED BY <1>2, <1>3, <1>4

LEMMA CheckFailsKeepsServeInv ==
  ASSUME ServeInv, NEW r \in Visit, CheckFails(r)
  PROVE  ServeInv'
<1>1. Answer(r, 500) /\ UNCHANGED <<slot, thunk>> /\ request[r].pc \in {"resolve", "match"}
  BY DEF CheckFails
<1> QED BY <1>1, AnswerOutsideCaches

\* No failure in a map loses the request that will evict it: the calls of the
\* request are still there, or those it gave up held no failure of a map.
LEMMA CallsStay ==
  ASSUME ServeInv, NEW r \in Visit, NEW q, UNCHANGED slot,
         \A i \in 1..Len(request[r].calls) :
           i \in 1..Len(q.calls) /\ q.calls[i] = request[r].calls[i]
  PROVE  \A k \in Keys : slot'[k] # NoThunk /\ thunk[slot[k]][k] \in BuildFailed =>
           \/ \E i \in 1..Len(q.calls) : q.calls[i] = [key |-> k, thunk |-> slot'[k]]
           \/ /\ slot'[k] = slot[k] /\ thunk[slot[k]][k] \in BuildFailed
              /\ \A i \in 1..Len(request[r].calls) :
                   request[r].calls[i] # [key |-> k, thunk |-> slot[k]]
OBVIOUS

LEMMA LoadThunkKeepsServeInv ==
  ASSUME ServeInv, NEW r \in Visit, LoadThunk(r)
  PROVE  ServeInv'
<1> DEFINE k == Top(r).key
           q == [request[r] EXCEPT !.pc = PcWith(slot[k]), !.calls[Depth(r)].thunk = slot[k]]
<1>1. request[r].pc \in {"load", "store"} /\ UNCHANGED <<slot, thunk>>
  BY DEF LoadThunk
<1>2. k \in Keys /\ Depth(r) = Len(request[r].calls)
  BY <1>1, InnermostCall
<1>3. slot[k] \in Visit \cup {NoThunk}
  BY <1>2 DEF ServeInv, ServeTypeOK
<1>4. request' = [request EXCEPT ![r] = q]
  BY DEF LoadThunk, ServeInv, ServeTypeOK, PcWith
<1>5. PICK p : p = q /\ FindsThunk(p, r, slot[k])
  BY DEF FindsThunk
<1> HIDE DEF q
<1>6. p \in VisitType /\ CallsAreNested(p) /\ HasThunk(p, r, slot[k])
  <2> HIDE DEF k
  <2> QED BY <1>1, <1>3, <1>5, TopGetsItsThunk
<1>7. /\ slot' \in [Keys -> Visit \cup {NoThunk}]
      /\ thunk' = [t \in Visit |-> [j \in Keys |-> thunk'[t][j]]]
      /\ \A t \in Visit : \A j \in Keys : Sound(j, thunk'[t][j])
  BY <1>1 DEF ServeInv, ServeTypeOK
<1>8. \A j \in Keys : slot'[j] # NoThunk /\ thunk'[slot'[j]][j] \in BuildFailed =>
        \/ \E i \in 1..Len(p.calls) : p.calls[i] = [key |-> j, thunk |-> slot'[j]]
        \/ /\ slot'[j] = slot[j] /\ thunk[slot[j]][j] \in BuildFailed
           /\ \A i \in 1..Len(request[r].calls) :
                request[r].calls[i] # [key |-> j, thunk |-> slot[j]]
  <2> SUFFICES ASSUME NEW j \in Keys, slot[j] \in Visit, NEW i \in 1..Depth(r),
                      request[r].calls[i] = [key |-> j, thunk |-> slot[j]]
               PROVE  p.calls[i] = [key |-> j, thunk |-> slot[j]]
    BY <1>1, <1>2, <1>6 DEF ServeInv, ServeTypeOK, HasThunk
  <2> QED BY <1>6 DEF HasThunk
<1>9. p.pc \notin {"resolve", "match"}
  BY <1>6 DEF HasThunk, PcWith
<1> QED BY <1>4, <1>5, <1>6, <1>7, <1>8, <1>9, OneRequestMoves

LEMMA LoadOrStoreKeepsServeInv ==
  ASSUME ServeInv, NEW r \in Visit, LoadOrStore(r)
  PROVE  ServeInv'
<1>1. PICK k, kept : k = Top(r).key /\ kept = IF slot[k] = NoThunk THEN r ELSE slot[k]
  OBVIOUS
<1> DEFINE q == [request[r] EXCEPT !.pc = "call", !.calls[Depth(r)].thunk = kept]
<1>2. /\ request[r].pc \in {"load", "store"}
      /\ UNCHANGED thunk /\ slot' = [slot EXCEPT ![k] = kept]
  BY <1>1 DEF LoadOrStore
<1>3. k \in Keys /\ Depth(r) = Len(request[r].calls) /\ Depth(r) \in Nat \ {0}
  BY <1>1, <1>2, InnermostCall
<1>4. kept \in Visit /\ PcWith(kept) = "call"
  BY <1>1, <1>3 DEF ServeInv, ServeTypeOK, PcWith, NoThunk, Visit
<1>5. request' = [request EXCEPT ![r] = q]
  BY <1>1 DEF LoadOrStore, ServeInv, ServeTypeOK
<1>6. PICK p : p = q /\ FindsThunk(p, r, kept)
  BY <1>4 DEF FindsThunk
<1> HIDE DEF q
<1>7. p \in VisitType /\ CallsAreNested(p) /\ HasThunk(p, r, kept)
  BY <1>2, <1>4, <1>6, TopGetsItsThunk
<1>8. /\ slot' \in [Keys -> Visit \cup {NoThunk}]
      /\ thunk' = [t \in Visit |-> [j \in Keys |-> thunk'[t][j]]]
      /\ \A t \in Visit : \A j \in Keys : Sound(j, thunk'[t][j])
  BY <1>2, <1>4 DEF ServeInv, ServeTypeOK
<1>9. \A j \in Keys : slot'[j] # NoThunk /\ thunk'[slot'[j]][j] \in BuildFailed =>
        \/ \E i \in 1..Len(p.calls) : p.calls[i] = [key |-> j, thunk |-> slot'[j]]
        \/ /\ slot'[j] = slot[j] /\ thunk[slot[j]][j] \in BuildFailed
           /\ \A i \in 1..Len(request[r].calls) :
                request[r].calls[i] # [key |-> j, thunk |-> slot[j]]
  <2> SUFFICES ASSUME NEW j \in Keys, slot'[j] # NoThunk, thunk'[slot'[j]][j] \in BuildFailed
               PROVE  \/ \E i \in 1..Len(p.calls) : p.calls[i] = [key |-> j, thunk |-> slot'[j]]
                      \/ /\ slot'[j] = slot[j] /\ thunk[slot[j]][j] \in BuildFailed
                         /\ \A i \in 1..Len(request[r].calls) :
                              request[r].calls[i] # [key |-> j, thunk |-> slot[j]]
    OBVIOUS
  <2>1. CASE j = k
    <3>1. slot'[j] = kept /\ Depth(r) \in 1..Len(p.calls)
      BY <1>2, <1>3, <1>7, <2>1 DEF ServeInv, ServeTypeOK, HasThunk
    <3> QED BY <1>1, <1>7, <2>1, <3>1 DEF HasThunk
  <2>2. CASE j # k
    <3>1. slot'[j] = slot[j] /\ slot[j] \in Visit
      BY <1>2, <2>2 DEF ServeInv, ServeTypeOK
    <3> QED BY <1>2, <1>3, <1>7, <3>1 DEF HasThunk
  <2> QED BY <2>1, <2>2
<1>10. p.pc \notin {"resolve", "match"}
  BY <1>4, <1>7 DEF HasThunk
<1> QED BY <1>5, <1>6, <1>7, <1>8, <1>9, <1>10, OneRequestMoves

\* A build begins: the request stays at the same call.
LEMMA StaysAtCall ==
  ASSUME ServeInv, NEW r \in Visit, request[r].pc \in {"call", "build"},
         NEW pc \in {"call", "build"}, NEW q, q = [request[r] EXCEPT !.pc = pc]
  PROVE  /\ q \in VisitType /\ CallsAreNested(q) /\ q.pc = pc
         /\ q.calls = request[r].calls
         /\ Top(r).thunk \in Visit /\ Top(r).key \in Keys
<1>1. /\ request[r] \in VisitType /\ CallsAreNested(request[r])
      /\ Top(r).key \in Keys /\ Depth(r) = Len(request[r].calls)
      /\ Top(r) = request[r].calls[Depth(r)]
  BY InnermostCall
<1>2. q \in VisitType /\ q.pc = pc /\ q.calls = request[r].calls
  BY <1>1 DEF VisitType, ServePcs
<1> QED BY <1>1, <1>2 DEF CallsAreNested

LEMMA OnceKeepsServeInv ==
  ASSUME ServeInv, NEW r \in Visit, Once(r)
  PROVE  ServeInv'
<1> DEFINE k == Top(r).key
           t == Top(r).thunk
<1>1. request[r].pc = "call" /\ UNCHANGED slot /\ thunk' = [thunk EXCEPT ![t][k] = Building]
      /\ request' = [request EXCEPT ![r].pc = "build"]
  BY DEF Once, Goto
<1>2. PICK q : q = [request[r] EXCEPT !.pc = "build"]
  OBVIOUS
<1>3. request' = [request EXCEPT ![r] = q]
  BY <1>1, <1>2 DEF ServeInv, ServeTypeOK
<1>4. /\ q \in VisitType /\ CallsAreNested(q) /\ q.pc = "build"
      /\ q.calls = request[r].calls /\ t \in Visit /\ k \in Keys
  BY <1>1, <1>2, StaysAtCall
<1> HIDE DEF k, t
<1>5. \A s \in Visit : \A j \in Keys :
        thunk'[s][j] = IF s = t /\ j = k THEN Building ELSE thunk[s][j]
  BY <1>1, <1>4 DEF ServeInv, ServeTypeOK
<1>6. thunk' = [s \in Visit |-> [j \in Keys |-> thunk'[s][j]]]
  BY <1>1, <1>4 DEF ServeInv, ServeTypeOK
<1>7. Building \notin BuildFailed /\ \A j : Sound(j, Building)
  BY DEF Building, BuildFailed, Err, Panic, Sound
<1>8. \A s \in Visit : \A j \in Keys : Sound(j, thunk'[s][j])
  BY <1>5, <1>7 DEF ServeInv
<1>9. \A j \in Keys : slot'[j] # NoThunk /\ thunk'[slot'[j]][j] \in BuildFailed =>
        slot'[j] # NoThunk /\ thunk[slot[j]][j] \in BuildFailed
  BY <1>1, <1>5, <1>7 DEF ServeInv, ServeTypeOK
<1>10. \A j \in Keys : slot'[j] # NoThunk /\ thunk'[slot'[j]][j] \in BuildFailed =>
        \/ \E i \in 1..Len(q.calls) : q.calls[i] = [key |-> j, thunk |-> slot'[j]]
        \/ /\ slot'[j] = slot[j] /\ thunk[slot[j]][j] \in BuildFailed
           /\ \A i \in 1..Len(request[r].calls) :
                request[r].calls[i] # [key |-> j, thunk |-> slot[j]]
  BY <1>1, <1>4, <1>9, CallsStay
<1>11. slot' \in [Keys -> Visit \cup {NoThunk}] /\ q.pc \notin {"resolve", "match"}
  BY <1>1, <1>4 DEF ServeInv, ServeTypeOK
<1> QED BY <1>3, <1>4, <1>6, <1>8, <1>10, <1>11, OneRequestMoves

LEMMA KeyIsOfOneKind ==
  ASSUME NEW k
  PROVE  /\ k \in {<<"index">>, <<"game">>} => k # <<"cities">> /\ ~CityPage(k) /\ k[1] # "snapshots"
         /\ k = <<"cities">> => ~CityPage(k) /\ k[1] # "snapshots"
         /\ CityPage(k) => k[1] # "snapshots"
BY DEF CityPage

\* A build of a key makes a value that fits it, or fails.
LEMMA OutcomesAreSound ==
  ASSUME NEW k \in Keys, Judged(k), NEW o \in Outcomes(k)
  PROVE  Sound(k, o.result)
<1>1. \A x \in BuildFailed : Sound(k, x)
  BY DEF BuildFailed, Err, Panic, Sound
<1>2. Err \in BuildFailed /\ Panic \in BuildFailed
  BY DEF BuildFailed
<1>3. \A v : Fits(k, v) => Sound(k, Built(v))
  BY DEF Built, Sound
<1>4. CASE o.result \in BuildFailed
  BY <1>1, <1>4
<1>5. CASE \E v : Fits(k, v) /\ o.result = Built(v)
  BY <1>3, <1>5
<1>6. o.result \in BuildFailed \/ \E v : Fits(k, v) /\ o.result = Built(v)
  <2>1. CASE o = [result |-> Panic, cost |-> 1]
    BY <1>2, <2>1
  <2>2. CASE o \in FirstRenderable /\ k \in {<<"index">>, <<"game">>}
    <3>1. CASE o.result = Err
      BY <1>2, <3>1
    <3>2. ASSUME NEW i \in {j \in 1..Len(Cities) : Cities[j] \in Renderable},
                 o.result = Built([city |-> Cities[i]])
          PROVE  \E v : Fits(k, v) /\ o.result = Built(v)
      <4>1. PICK v : v = [city |-> Cities[i]]
        OBVIOUS
      <4>2. v.city \in Renderable /\ o.result = Built(v)
        BY <3>2, <4>1
      <4>3. k \in {<<"index">>, <<"game">>} => (Fits(k, v) <=> v.city \in Renderable)
        BY KeyIsOfOneKind DEF Fits
      <4> QED BY <2>2, <4>2, <4>3
    <3>3. \/ o.result = Err
          \/ \E i \in {j \in 1..Len(Cities) : Cities[j] \in Renderable} :
               o.result = Built([city |-> Cities[i]])
      BY <2>2 DEF FirstRenderable
    <3> QED BY <3>1, <3>2, <3>3
  <2>3. CASE o \in CityList /\ k = <<"cities">>
    <3>1. PICK lost \in SUBSET Renderable : o.result = Built([cities |-> Renderable \ lost])
      BY <2>3 DEF CityList
    <3>2. Fits(k, [cities |-> Renderable \ lost])
      BY <2>3 DEF Fits, CityPage
    <3> QED BY <3>1, <3>2
  <2>4. CASE o \in OwnPage(k[2]) /\ CityPage(k)
    <3>1. o.result = Err \/ o.result = Built([city |-> k[2]])
      BY <2>4 DEF OwnPage
    <3>2. k \notin {<<"index">>, <<"game">>, <<"cities">>}
      BY <2>4 DEF CityPage
    <3>3. Fits(k, [city |-> k[2]])
      BY <2>4, <3>2 DEF Fits
    <3> QED BY <1>2, <3>1, <3>3
  <2>5. CASE o \in SnapshotList(k[2]) /\ k[1] = "snapshots"
    <3>1. o.result = Err \/ o.result = Built([city |-> k[2], ids |-> stored])
      BY <2>5 DEF SnapshotList
    <3>2. k \notin {<<"index">>, <<"game">>, <<"cities">>} /\ ~CityPage(k)
      BY <2>5 DEF CityPage
    <3>3. Fits(k, [city |-> k[2], ids |-> stored])
      BY <2>5, <3>2 DEF Fits
    <3> QED BY <1>2, <3>1, <3>3
  <2>6. CASE o \in Document(k[1], k[2], k[3]) /\ k \notin {<<"index">>, <<"game">>, <<"cities">>}
             /\ ~CityPage(k) /\ k[1] # "snapshots"
    <3>1. o.result = Err \/ \E rows : o.result = Built([city |-> k[2], snapshot |-> k[3], rows |-> rows])
      <4> DEFINE rows == (IF k[3] = 0 THEN Pinned ELSE k[3]) \in stored
                 doc == [city |-> k[2], snapshot |-> k[3], rows |-> rows]
      <4>1. Document(k[1], k[2], k[3]) =
              IF k[1] \in OnBounds /\ k[2] \in Boundless THEN {[result |-> Err, cost |-> 0]}
              ELSE {[result |-> Built(doc), cost |-> 0], [result |-> Err, cost |-> 1]}
        BY DEF Document
      <4>2. o.result = Err \/ o.result = Built(doc)
        <5> HIDE DEF doc
        <5> QED BY <2>6, <4>1
      <4> QED BY <4>2
    <3>2. k[1] # "game"
      BY <2>6, KeysAreClosed DEF CityPage
    <3>3. k[3] \in Matching \cup {0}
      BY <2>6, <3>2 DEF Judged, OfSnapshot
    <3>4. \A rows : Fits(k, [city |-> k[2], snapshot |-> k[3], rows |-> rows])
      BY <2>6, <3>3 DEF Fits
    <3> QED BY <1>2, <3>1, <3>4
  <2>7. \/ o = [result |-> Panic, cost |-> 1]
        \/ o \in FirstRenderable /\ k \in {<<"index">>, <<"game">>}
        \/ o \in CityList /\ k = <<"cities">>
        \/ o \in OwnPage(k[2]) /\ CityPage(k)
        \/ o \in SnapshotList(k[2]) /\ k[1] = "snapshots"
        \/ /\ o \in Document(k[1], k[2], k[3]) /\ k \notin {<<"index">>, <<"game">>, <<"cities">>}
           /\ ~CityPage(k) /\ k[1] # "snapshots"
    BY DEF Outcomes
  <2> QED BY <2>1, <2>2, <2>3, <2>4, <2>5, <2>6, <2>7
<1> QED BY <1>4, <1>5, <1>6

\* A document holds the forecasts it was built on.
LEMMA ForecastsFitTheirDocument ==
  ASSUME NEW k \in Keys, k[1] \in OnForecasts, NEW result, Sound(ForecastsKey(k), result)
  PROVE  Sound(k, result)
<1>1. OfSnapshot(k) /\ OfSnapshot(ForecastsKey(k))
      /\ ForecastsKey(k)[2] = k[2] /\ ForecastsKey(k)[3] = k[3]
  BY ForecastsAreJudged
<1>2. ASSUME NEW key, OfSnapshot(key), NEW v
      PROVE  Fits(key, v) <=> v.city = key[2] /\ v.snapshot = key[3] /\ key[3] \in Matching \cup {0}
  BY <1>2 DEF OfSnapshot, Fits, CityPage
<1>3. Fits(ForecastsKey(k), result.value) => Fits(k, result.value)
  BY <1>1, <1>2
<1> QED BY <1>3 DEF Sound

\* What a build that ends, or a call that returns, changes of the thunks: one
\* of them, and the request that changes it still calls it.
OnlyEvicts ==
  /\ slot' \in [Keys -> Visit \cup {NoThunk}]
  /\ \A k \in Keys : slot'[k] # NoThunk => slot'[k] = slot[k]
SetsThunk(t, k, result) == thunk' = [thunk EXCEPT ![t][k] = result]

\* The request still has the calls that a failure in a map may need.
KeepsNeededCalls(r, q) ==
  \A i \in 1..Len(request[r].calls) :
    \/ i \in 1..Len(q.calls) /\ q.calls[i] = request[r].calls[i]
    \/ slot'[request[r].calls[i].key] # request[r].calls[i].thunk
    \/ thunk[request[r].calls[i].thunk][request[r].calls[i].key] \notin BuildFailed

LEMMA ThunkIsSet ==
  ASSUME ServeInv, NEW r \in Visit, NEW q \in VisitType, CallsAreNested(q), OnlyEvicts,
         q.pc \notin {"resolve", "match"}, request' = [request EXCEPT ![r] = q],
         NEW t \in Visit, NEW k \in Keys, NEW result, Sound(k, result),
         SetsThunk(t, k, result), KeepsNeededCalls(r, q),
         NEW n \in 1..Len(q.calls), q.calls[n].key = k, q.calls[n].thunk = t
  PROVE  ServeInv'
<1>0. thunk = [s \in Visit |-> [j \in Keys |-> thunk[s][j]]]
      /\ thunk' = [thunk EXCEPT ![t][k] = result]
  BY DEF ServeInv, ServeTypeOK, SetsThunk
<1>1. \A s \in Visit : \A j \in Keys :
        thunk'[s][j] = IF s = t /\ j = k THEN result ELSE thunk[s][j]
  BY <1>0
<1>5. slot' \in [Keys -> Visit \cup {NoThunk}]
      /\ thunk' = [s \in Visit |-> [j \in Keys |-> thunk'[s][j]]]
  <2>1. thunk' = [s \in Visit |-> thunk'[s]]
    BY <1>0
  <2>2. ASSUME NEW s \in Visit
        PROVE  thunk'[s] = [j \in Keys |-> thunk'[s][j]]
    <3>1. thunk[s] = [j \in Keys |-> thunk[s][j]]
      BY <1>0
    <3>2. thunk'[s] = IF s = t THEN [thunk[s] EXCEPT ![k] = result] ELSE thunk[s]
      BY <1>0
    <3> QED BY <3>1, <3>2
  <2> QED BY <2>1, <2>2 DEF OnlyEvicts
<1>2. \A s \in Visit : \A j \in Keys : Sound(j, thunk'[s][j])
  BY <1>1 DEF ServeInv
<1>3. q.calls[n] = [key |-> k, thunk |-> t]
  <2>1. q.calls[n] \in ThunkCall
    BY DEF VisitType
  <2> QED BY <2>1 DEF ThunkCall
<1>4. ASSUME NEW j \in Keys, slot'[j] # NoThunk, thunk'[slot'[j]][j] \in BuildFailed
      PROVE  \/ \E i \in 1..Len(q.calls) : q.calls[i] = [key |-> j, thunk |-> slot'[j]]
             \/ /\ slot'[j] = slot[j] /\ thunk[slot[j]][j] \in BuildFailed
                /\ \A i \in 1..Len(request[r].calls) :
                     request[r].calls[i] # [key |-> j, thunk |-> slot[j]]
  <2>1. slot'[j] = slot[j] /\ slot[j] \in Visit
    BY <1>1, <1>4 DEF ServeInv, ServeTypeOK, OnlyEvicts
  <2>2. CASE slot[j] = t /\ j = k
    BY <1>3, <2>1, <2>2
  <2>3. CASE ~(slot[j] = t /\ j = k)
    <3>1. thunk[slot[j]][j] \in BuildFailed
      BY <1>1, <1>4, <2>1, <2>3
    <3>2. ASSUME NEW i \in 1..Len(request[r].calls),
                 request[r].calls[i] = [key |-> j, thunk |-> slot[j]]
          PROVE  i \in 1..Len(q.calls) /\ q.calls[i] = [key |-> j, thunk |-> slot[j]]
      <4>1. request[r].calls[i].key = j /\ request[r].calls[i].thunk = slot[j]
        BY <3>2
      <4> QED BY <2>1, <3>1, <3>2, <4>1 DEF KeepsNeededCalls
    <3> QED BY <2>1, <3>1, <3>2
  <2> QED BY <2>2, <2>3
<1>6. \A j \in Keys : slot'[j] # NoThunk /\ thunk'[slot'[j]][j] \in BuildFailed =>
        \/ \E i \in 1..Len(q.calls) : q.calls[i] = [key |-> j, thunk |-> slot'[j]]
        \/ /\ slot'[j] = slot[j] /\ thunk[slot[j]][j] \in BuildFailed
           /\ \A i \in 1..Len(request[r].calls) :
                request[r].calls[i] # [key |-> j, thunk |-> slot[j]]
  BY <1>4
<1> QED BY <1>2, <1>5, <1>6, OneRequestMoves

LEMMA BuildKeepsServeInv ==
  ASSUME ServeInv, NEW r \in Visit, Build(r)
  PROVE  ServeInv'
<1>1. PICK k, t : k = Top(r).key /\ t = Top(r).thunk
  OBVIOUS
<1>2. request[r].pc = "build" /\ UNCHANGED slot
  BY DEF Build
<1>3. /\ request[r] \in VisitType /\ request[r].calls \in Seq(ThunkCall)
      /\ Depth(r) \in Nat \ {0} /\ Depth(r) = Len(request[r].calls)
      /\ Top(r) = request[r].calls[Depth(r)]
      /\ k \in Keys /\ Judged(k) /\ CallsAreNested(request[r])
  BY <1>1, <1>2, InnermostCall
<1>4. t \in Visit
  BY <1>1, <1>2, <1>3 DEF CallsAreNested
<1>5. CASE k[1] \in OnForecasts
  <2> DEFINE inner == Call(ForecastsKey(k))
             calls == Append(request[r].calls, inner)
             q == [request[r] EXCEPT !.pc = "load", !.calls = calls]
  <2>1. request' = [request EXCEPT ![r] = q] /\ UNCHANGED thunk
    BY <1>1, <1>5 DEF Build, ServeInv, ServeTypeOK
  <2>2. inner \in ThunkCall /\ inner.key = ForecastsKey(k) /\ inner.thunk = NoThunk
        /\ Judged(inner.key)
    BY <1>3, <1>5, KeysAreClosed, ForecastsAreJudged DEF Call, ThunkCall
  <2> HIDE DEF inner
  <2>3. /\ calls \in Seq(ThunkCall) /\ Len(calls) = Depth(r) + 1
        /\ calls[Depth(r) + 1] = inner
        /\ \A i \in 1..Depth(r) : calls[i] = request[r].calls[i]
    BY <1>3, <2>2
  <2> HIDE DEF calls
  <2>4. q \in VisitType /\ q.pc = "load" /\ q.calls = calls
    BY <1>3, <2>3 DEF VisitType, ServePcs
  <2> HIDE DEF q
  <2>5. CallsAreNested(q)
    <3>1. \A i \in 1..Len(calls) : Judged(calls[i].key)
      BY <1>3, <2>2, <2>3 DEF CallsAreNested
    <3>2. ASSUME NEW i \in 1..(Len(calls) - 1)
          PROVE  /\ calls[i].thunk \in Visit
                 /\ calls[i].key[1] \in OnForecasts
                 /\ calls[i + 1].key = ForecastsKey(calls[i].key)
      <4>1. CASE i = Depth(r)
        BY <1>1, <1>3, <1>4, <1>5, <2>2, <2>3, <4>1
      <4>2. CASE i \in 1..(Depth(r) - 1)
        <5>1. i \in 1..Depth(r) /\ i + 1 \in 1..Depth(r)
          BY <1>3, <4>2
        <5>2. /\ request[r].calls[i].thunk \in Visit
              /\ request[r].calls[i].key[1] \in OnForecasts
              /\ request[r].calls[i + 1].key = ForecastsKey(request[r].calls[i].key)
          BY <1>3, <4>2 DEF CallsAreNested
        <5> QED BY <2>3, <5>1, <5>2
      <4> QED BY <1>3, <2>3, <4>1, <4>2
    <3>3. calls # <<>> /\ calls[Len(calls)].thunk = NoThunk
      BY <1>3, <2>2, <2>3
    <3> QED BY <2>4, <3>1, <3>2, <3>3 DEF CallsAreNested
  <2>6. /\ slot' \in [Keys -> Visit \cup {NoThunk}]
        /\ thunk' = [s \in Visit |-> [j \in Keys |-> thunk'[s][j]]]
        /\ \A s \in Visit : \A j \in Keys : Sound(j, thunk'[s][j])
    BY <1>2, <2>1 DEF ServeInv, ServeTypeOK
  <2>7. \A i \in 1..Len(request[r].calls) :
          i \in 1..Len(q.calls) /\ q.calls[i] = request[r].calls[i]
    BY <1>3, <2>3, <2>4
  <2>8. \A j \in Keys : slot'[j] # NoThunk /\ thunk'[slot'[j]][j] \in BuildFailed =>
          \/ \E i \in 1..Len(q.calls) : q.calls[i] = [key |-> j, thunk |-> slot'[j]]
          \/ /\ slot'[j] = slot[j] /\ thunk[slot[j]][j] \in BuildFailed
             /\ \A i \in 1..Len(request[r].calls) :
                  request[r].calls[i] # [key |-> j, thunk |-> slot[j]]
    BY <1>2, <2>1, <2>7, CallsStay
  <2>9. q.pc \notin {"resolve", "match"}
    BY <2>4
  <2> QED BY <2>1, <2>4, <2>5, <2>6, <2>8, <2>9, OneRequestMoves
<1>6. CASE k[1] \notin OnForecasts
  <2>1. PICK o \in Outcomes(k) :
          thunk' = [thunk EXCEPT ![t][k] = o.result] /\ request' = [request EXCEPT ![r].pc = "call"]
    BY <1>1, <1>6 DEF Build, Goto
  <2>2. PICK q : q = [request[r] EXCEPT !.pc = "call"]
    OBVIOUS
  <2>3. request' = [request EXCEPT ![r] = q]
    BY <2>1, <2>2 DEF ServeInv, ServeTypeOK
  <2>4. q \in VisitType /\ CallsAreNested(q) /\ q.pc = "call" /\ q.calls = request[r].calls
    BY <1>2, <2>2, StaysAtCall
  <2>5. Depth(r) \in 1..Len(q.calls) /\ q.calls[Depth(r)].key = k /\ q.calls[Depth(r)].thunk = t
    BY <1>1, <1>3, <2>4
  <2>6. Sound(k, o.result)
    BY <1>3, OutcomesAreSound
  <2>7. q.pc \notin {"resolve", "match"}
    BY <2>4
  <2>8. SetsThunk(t, k, o.result)
    BY <2>1 DEF SetsThunk
  <2>9. KeepsNeededCalls(r, q)
    BY <2>4 DEF KeepsNeededCalls
  <2>10. OnlyEvicts
    BY <1>2 DEF OnlyEvicts, ServeInv, ServeTypeOK
  <2> QED BY <2>10, <1>3, <1>4, <2>3, <2>4, <2>5, <2>6, <2>7, <2>8, <2>9, ThunkIsSet
<1> QED BY <1>5, <1>6

\* A call that comes back leaves the enclosing build at its own call.
ReturnsTo(q, r) == q = [request[r] EXCEPT !.calls = SubSeq(@, 1, Depth(r) - 1)]

LEMMA OuterCall ==
  ASSUME ServeInv, NEW r \in Visit, request[r].pc = "call", Depth(r) # 1,
         NEW q, ReturnsTo(q, r)
  PROVE  /\ q \in VisitType /\ CallsAreNested(q) /\ q.pc = "call"
         /\ Depth(r) - 1 \in 1..Len(q.calls)
         /\ q.calls[Depth(r) - 1] = Enclosing(r)
         /\ \A i \in 1..(Depth(r) - 1) :
              i \in 1..Len(q.calls) /\ q.calls[i] = request[r].calls[i]
         /\ Enclosing(r).thunk \in Visit /\ Enclosing(r).key \in Keys
         /\ Enclosing(r).key[1] \in OnForecasts
         /\ Top(r).key = ForecastsKey(Enclosing(r).key)
<1>1. /\ request[r] \in VisitType /\ request[r].calls \in Seq(ThunkCall)
      /\ Depth(r) \in Nat \ {0} /\ Depth(r) = Len(request[r].calls)
      /\ Top(r) = request[r].calls[Depth(r)]
      /\ CallsAreNested(request[r])
  BY InnermostCall
<1> DEFINE n == Depth(r) - 1
           old == request[r].calls
           calls == SubSeq(old, 1, n)
<1>2. n \in Nat \ {0} /\ n \in 1..(Len(old) - 1) /\ n + 1 = Depth(r) /\ Len(old) = n + 1
  <2>1. PICK d \in Nat \ {0} : d = Depth(r)
    BY <1>1
  <2>2. d # 1 /\ Len(old) = d
    BY <1>1, <2>1
  <2> QED BY <2>1, <2>2
<1>3. /\ old[n].thunk \in Visit /\ old[n].key[1] \in OnForecasts
      /\ old[n + 1].key = ForecastsKey(old[n].key)
  BY <1>1, <1>2 DEF CallsAreNested
<1>4. Enclosing(r) = old[n] /\ Top(r) = old[n + 1]
  BY <1>1, <1>2 DEF Enclosing, Depth
<1>5. old[n] \in ThunkCall
  BY <1>1, <1>2
<1> HIDE DEF n
<1>6. calls \in Seq(ThunkCall) /\ Len(calls) = n /\ \A i \in 1..n : calls[i] = old[i]
  BY <1>1, <1>2
<1>7. q.calls = calls /\ q.pc = "call" /\ q \in VisitType
  BY <1>1, <1>6 DEF ReturnsTo, VisitType, n
<1> HIDE DEF calls
<1>8. CallsAreNested(q)
  <2>1. \A i \in 1..n : Judged(calls[i].key)
    <3>1. \A i \in 1..Len(old) : Judged(old[i].key)
      BY <1>1 DEF CallsAreNested
    <3>2. \A i \in 1..n : i \in 1..Len(old)
      BY <1>2
    <3> QED BY <1>6, <3>1, <3>2
  <2>2. ASSUME NEW i \in 1..(n - 1)
        PROVE  /\ calls[i].thunk \in Visit
               /\ calls[i].key[1] \in OnForecasts
               /\ calls[i + 1].key = ForecastsKey(calls[i].key)
    <3>1. i \in 1..n /\ i + 1 \in 1..n /\ i \in 1..(Len(old) - 1)
      BY <1>2
    <3>2. /\ old[i].thunk \in Visit
          /\ old[i].key[1] \in OnForecasts
          /\ old[i + 1].key = ForecastsKey(old[i].key)
      BY <1>1, <3>1 DEF CallsAreNested
    <3> QED BY <1>6, <3>1, <3>2
  <2>3. calls # <<>> /\ calls[n].thunk \in Visit
    BY <1>2, <1>3, <1>6
  <2> QED BY <1>6, <1>7, <2>1, <2>2, <2>3 DEF CallsAreNested
<1>9. n \in 1..Len(q.calls) /\ q.calls[n] = old[n]
      /\ \A i \in 1..n : i \in 1..Len(q.calls) /\ q.calls[i] = old[i]
  BY <1>2, <1>6, <1>7
<1> QED BY <1>3, <1>4, <1>5, <1>7, <1>8, <1>9 DEF n, ThunkCall

\* The answer to a request whose result is not, or no longer, a failure in a map.
LEMMA AnswerKeepsServeInv ==
  ASSUME ServeInv, NEW r \in Visit, request[r].pc = "call", Depth(r) = 1,
         NEW q \in VisitType, CallsAreNested(q), q.pc \notin {"resolve", "match"},
         request' = [request EXCEPT ![r] = q], UNCHANGED thunk,
         slot' = slot \/ slot' = CompareAndDelete(Top(r).key, Top(r).thunk),
         \/ slot'[Top(r).key] # Top(r).thunk
         \/ thunk[Top(r).thunk][Top(r).key] \notin BuildFailed
  PROVE  ServeInv'
<1>1. PICK k, t : k = Top(r).key /\ t = Top(r).thunk
  OBVIOUS
<1>2. k \in Keys /\ Len(request[r].calls) = 1 /\ Top(r) = request[r].calls[1]
  BY <1>1, InnermostCall
<1>3. /\ slot' \in [Keys -> Visit \cup {NoThunk}]
      /\ \A j \in Keys : slot'[j] # NoThunk => slot'[j] = slot[j]
  BY <1>1, <1>2 DEF ServeInv, ServeTypeOK, CompareAndDelete
<1>4. /\ thunk' = [s \in Visit |-> [j \in Keys |-> thunk'[s][j]]]
      /\ \A s \in Visit : \A j \in Keys : Sound(j, thunk'[s][j])
  BY DEF ServeInv, ServeTypeOK
<1>5. ASSUME NEW j \in Keys, slot'[j] # NoThunk, thunk'[slot'[j]][j] \in BuildFailed
      PROVE  /\ slot'[j] = slot[j] /\ thunk[slot[j]][j] \in BuildFailed
             /\ \A i \in 1..Len(request[r].calls) :
                  request[r].calls[i] # [key |-> j, thunk |-> slot[j]]
  <2>1. slot'[j] = slot[j] /\ thunk[slot[j]][j] \in BuildFailed
    BY <1>3, <1>5
  <2>2. ASSUME Top(r) = [key |-> j, thunk |-> slot[j]]
        PROVE  FALSE
    <3>1. Top(r).key = j /\ Top(r).thunk = slot[j]
      BY <2>2
    <3> QED BY <2>1, <3>1
  <2> QED BY <1>2, <2>1, <2>2
<1>6. \A j \in Keys : slot'[j] # NoThunk /\ thunk'[slot'[j]][j] \in BuildFailed =>
        \/ \E i \in 1..Len(q.calls) : q.calls[i] = [key |-> j, thunk |-> slot'[j]]
        \/ /\ slot'[j] = slot[j] /\ thunk[slot[j]][j] \in BuildFailed
           /\ \A i \in 1..Len(request[r].calls) :
                request[r].calls[i] # [key |-> j, thunk |-> slot[j]]
  BY <1>5
<1> QED BY <1>3, <1>4, <1>6, OneRequestMoves

LEMMA ReturnKeepsServeInv ==
  ASSUME ServeInv, NEW r \in Visit, Return(r)
  PROVE  ServeInv'
<1>1. PICK k, t : k = Top(r).key /\ t = Top(r).thunk
  OBVIOUS
<1>2. request[r].pc = "call" /\ UNCHANGED slot /\ thunk[t][k].state = "built"
  BY <1>1 DEF Return
<1>3. k \in Keys /\ t \in Visit /\ Depth(r) \in Nat \ {0} /\ Depth(r) = Len(request[r].calls)
      /\ Top(r) = request[r].calls[Depth(r)]
  BY <1>1, <1>2, InnermostCall DEF CallsAreNested
<1>4. thunk[t][k] \notin BuildFailed
  BY <1>2 DEF BuildFailed, Err, Panic
<1>5. CASE Depth(r) = 1
  <2>1. UNCHANGED thunk /\ request' = [request EXCEPT ![r] = Done(200)]
    BY <1>5 DEF Return, Answer
  <2>2. Done(200) \in VisitType /\ CallsAreNested(Done(200)) /\ Done(200).pc \notin {"resolve", "match"}
    BY DoneHasNoCalls
  <2> QED BY <1>1, <1>2, <1>4, <1>5, <2>1, <2>2, AnswerKeepsServeInv
<1>6. CASE Depth(r) # 1
  <2>1. PICK q, result : ReturnsTo(q, r) /\ result = thunk[t][k]
    BY DEF ReturnsTo
  <2>2. /\ q \in VisitType /\ CallsAreNested(q) /\ q.pc = "call"
        /\ Depth(r) - 1 \in 1..Len(q.calls)
        /\ q.calls[Depth(r) - 1] = Enclosing(r)
        /\ \A i \in 1..(Depth(r) - 1) :
             i \in 1..Len(q.calls) /\ q.calls[i] = request[r].calls[i]
        /\ Enclosing(r).thunk \in Visit /\ Enclosing(r).key \in Keys
        /\ Enclosing(r).key[1] \in OnForecasts
        /\ k = ForecastsKey(Enclosing(r).key)
    BY <1>1, <1>2, <1>6, <2>1, OuterCall
  <2>3. SetsThunk(Enclosing(r).thunk, Enclosing(r).key, result)
    BY <1>1, <1>6, <2>1 DEF Return, SetsThunk
  <2>4. request' = [request EXCEPT ![r] = q]
    BY <1>6, <2>1 DEF Return, ReturnsTo, ServeInv, ServeTypeOK
  <2>5. Sound(Enclosing(r).key, result)
    BY <1>3, <2>1, <2>2, ForecastsFitTheirDocument DEF ServeInv
  <2>6. KeepsNeededCalls(r, q)
    <3> SUFFICES ASSUME NEW i \in 1..Len(request[r].calls)
                 PROVE  \/ i \in 1..Len(q.calls) /\ q.calls[i] = request[r].calls[i]
                        \/ thunk[request[r].calls[i].thunk][request[r].calls[i].key] \notin BuildFailed
      BY DEF KeepsNeededCalls
    <3>1. CASE i = Depth(r)
      BY <1>1, <1>3, <1>4, <3>1
    <3>2. CASE i # Depth(r)
      <4>1. i \in 1..(Depth(r) - 1)
        BY <1>3, <3>2
      <4> QED BY <2>2, <4>1
    <3> QED BY <3>1, <3>2
  <2>7. q.pc \notin {"resolve", "match"}
    BY <2>2
  <2>8. q.calls[Depth(r) - 1].key = Enclosing(r).key /\ q.calls[Depth(r) - 1].thunk = Enclosing(r).thunk
    BY <2>2
  <2>9. OnlyEvicts
    BY <1>2 DEF OnlyEvicts, ServeInv, ServeTypeOK
  <2> QED BY <2>2, <2>3, <2>4, <2>5, <2>6, <2>7, <2>8, <2>9, ThunkIsSet
<1> QED BY <1>5, <1>6

LEMMA EvictFailureKeepsServeInv ==
  ASSUME ServeInv, NEW r \in Visit, EvictFailure(r)
  PROVE  ServeInv'
<1>1. PICK k, t : k = Top(r).key /\ t = Top(r).thunk
  OBVIOUS
<1>2. /\ request[r].pc = "call" /\ thunk[t][k] \in BuildFailed
      /\ slot' = CompareAndDelete(k, t)
  BY <1>1 DEF EvictFailure
<1>3. k \in Keys /\ t \in Visit /\ Depth(r) \in Nat \ {0} /\ Depth(r) = Len(request[r].calls)
      /\ Top(r) = request[r].calls[Depth(r)] /\ request[r] \in VisitType
  BY <1>1, <1>2, InnermostCall DEF CallsAreNested
<1>4. OnlyEvicts /\ slot'[k] # t
  BY <1>2, <1>3 DEF CompareAndDelete, OnlyEvicts, NoThunk, Visit, ServeInv, ServeTypeOK
<1>5. CASE Depth(r) = 1
  <2>1. UNCHANGED thunk /\ Fallback(r, k, thunk[t][k])
    BY <1>1, <1>5 DEF EvictFailure
  <2>2. CASE Answer(r, 500)
    <3>1. request' = [request EXCEPT ![r] = Done(500)]
      BY <2>2 DEF Answer
    <3>2. Done(500) \in VisitType /\ CallsAreNested(Done(500)) /\ Done(500).pc \notin {"resolve", "match"}
      BY DoneHasNoCalls
    <3> QED BY <1>1, <1>2, <1>4, <1>5, <2>1, <3>1, <3>2, AnswerKeepsServeInv
  <2>3. CASE CityPage(k) /\ Enter(r, <<"game">>)
    <3>1. PICK page : page = <<"game">>
      OBVIOUS
    <3>2. page \in Keys /\ Judged(page)
      BY <1>3, <2>3, <3>1, KeysAreClosed DEF Judged, OfSnapshot
    <3>3. PICK q : q = [request[r] EXCEPT !.pc = "load", !.calls = <<Call(page)>>]
      OBVIOUS
    <3>4. request' = [request EXCEPT ![r] = q]
      BY <2>3, <3>1, <3>3 DEF Enter, ServeInv, ServeTypeOK
    <3>5. q \in [pc : {"load"}, want : Want \cup {<<>>}, calls : {<<Call(page)>>}, status : Nat]
      BY <1>3, <3>3 DEF VisitType
    <3>6. q \in VisitType /\ CallsAreNested(q) /\ q.pc \notin {"resolve", "match"}
      BY <3>2, <3>5, FirstCall
    <3> QED BY <1>1, <1>2, <1>4, <1>5, <2>1, <3>4, <3>6, AnswerKeepsServeInv
  <2> QED BY <2>1, <2>2, <2>3 DEF Fallback
<1>6. CASE Depth(r) # 1
  <2>1. PICK q, result : ReturnsTo(q, r) /\ result = thunk[t][k]
    BY DEF ReturnsTo
  <2>2. /\ q \in VisitType /\ CallsAreNested(q) /\ q.pc = "call"
        /\ Depth(r) - 1 \in 1..Len(q.calls)
        /\ q.calls[Depth(r) - 1] = Enclosing(r)
        /\ \A i \in 1..(Depth(r) - 1) :
             i \in 1..Len(q.calls) /\ q.calls[i] = request[r].calls[i]
        /\ Enclosing(r).thunk \in Visit /\ Enclosing(r).key \in Keys
    BY <1>2, <1>6, <2>1, OuterCall
  <2>3. SetsThunk(Enclosing(r).thunk, Enclosing(r).key, result)
    BY <1>1, <1>6, <2>1 DEF EvictFailure, SetsThunk
  <2>4. request' = [request EXCEPT ![r] = q]
    BY <1>6, <2>1 DEF EvictFailure, ReturnsTo, ServeInv, ServeTypeOK
  <2>5. Sound(Enclosing(r).key, result)
    BY <1>2, <2>1 DEF Sound, BuildFailed, Err, Panic
  <2>6. KeepsNeededCalls(r, q)
    <3> SUFFICES ASSUME NEW i \in 1..Len(request[r].calls)
                 PROVE  \/ i \in 1..Len(q.calls) /\ q.calls[i] = request[r].calls[i]
                        \/ slot'[request[r].calls[i].key] # request[r].calls[i].thunk
      BY DEF KeepsNeededCalls
    <3>1. CASE i = Depth(r)
      BY <1>1, <1>3, <1>4, <3>1
    <3>2. CASE i # Depth(r)
      <4>1. i \in 1..(Depth(r) - 1)
        BY <1>3, <3>2
      <4> QED BY <2>2, <4>1
    <3> QED BY <3>1, <3>2
  <2>7. q.pc \notin {"resolve", "match"}
    BY <2>2
  <2>8. q.calls[Depth(r) - 1].key = Enclosing(r).key /\ q.calls[Depth(r) - 1].thunk = Enclosing(r).thunk
    BY <2>2
  <2> QED BY <1>4, <2>2, <2>3, <2>4, <2>5, <2>6, <2>7, <2>8, ThunkIsSet
<1> QED BY <1>5, <1>6

LEMMA ServeNextKeepsServeInv == ServeInv /\ [ServeNext]_serveVars => ServeInv'
<1> SUFFICES ASSUME ServeInv, [ServeNext]_serveVars
             PROVE  ServeInv'
  OBVIOUS
<1>1. CASE UNCHANGED <<slot, thunk, request>>
  <2>1. ServeTypeOK'
    BY <1>1 DEF ServeInv, ServeTypeOK
  <2>2. (\A r \in Visit : CallsAreNested(request[r]))'
    BY <1>1 DEF ServeInv, CallsAreNested
  <2>3. (\A r \in Visit : ChecksAreOfTheRequest(r))'
    BY <1>1 DEF ServeInv, ChecksAreOfTheRequest
  <2>4. (\A t \in Visit : \A k \in Keys : Sound(k, thunk[t][k]))'
    BY <1>1 DEF ServeInv, Sound
  <2>5. NoFailureIsPinned'
    BY <1>1 DEF ServeInv, NoFailureIsPinned, Depth
  <2> QED BY <2>1, <2>2, <2>3, <2>4, <2>5 DEF ServeInv
<1>2. ASSUME NEW s \in Removable, SnapshotsRm(s)
      PROVE  ServeInv'
  BY <1>1, <1>2 DEF SnapshotsRm
<1>3. CASE UNCHANGED serveVars
  BY <1>1, <1>3 DEF serveVars
<1>4. ASSUME NEW r \in Visit, Arrive(r) \/ Serve(r)
      PROVE  ServeInv'
  BY <1>4, ArriveKeepsServeInv, ResolveKeepsServeInv, MatchKeepsServeInv, CheckFailsKeepsServeInv,
     LoadThunkKeepsServeInv, LoadOrStoreKeepsServeInv, OnceKeepsServeInv, BuildKeepsServeInv,
     ReturnKeepsServeInv, EvictFailureKeepsServeInv DEF Serve
<1> QED BY <1>2, <1>3, <1>4 DEF ServeNext

LEMMA ServeInitHolds == ServeInit => ServeInv
<1> SUFFICES ASSUME ServeInit
             PROVE  ServeInv
  OBVIOUS
<1>1. Waiting \in VisitType /\ Waiting.pc = "coming" /\ Waiting.calls = <<>>
  BY DEF Waiting, VisitType, ServePcs
<1>2. CallsAreNested(Waiting)
  BY <1>1, WithoutCalls
<1>3. ServeTypeOK
  BY <1>1 DEF ServeInit, ServeTypeOK
<1>4. \A k : Sound(k, Unbuilt)
  BY DEF Sound, Unbuilt
<1> QED BY <1>1, <1>2, <1>3, <1>4 DEF ServeInit, ServeInv, ChecksAreOfTheRequest, NoFailureIsPinned

LEMMA CachesAreSound == ServeSpec => []ServeInv
<1>1. ServeInv /\ [ServeNext]_serveVars => ServeInv'
  BY ServeNextKeepsServeInv
<1> QED BY <1>1, ServeInitHolds, PTL DEF ServeSpec

\* Whatever fails, panics or is deleted meanwhile, a page or document that stays
\* in a map is of the city and snapshot its key names (renderCachedPage,
\* serveJSONCached).
THEOREM CachesHoldTheirKeys == ServeSpec => []CacheHoldsItsKey
<1>1. ServeInv => CacheHoldsItsKey
  BY DEF ServeInv, ServeTypeOK, CacheHoldsItsKey, Sound
<1> QED BY <1>1, CachesAreSound, PTL

\* A failed build in a map always has a request on its way to evict it.
THEOREM FailuresAreOnTheirWayOut == ServeSpec => []NoFailureIsPinned
<1>1. ServeInv => NoFailureIsPinned
  BY DEF ServeInv
<1> QED BY <1>1, CachesAreSound, PTL

\* An eviction never removes a build that has not failed (CompareAndDelete).
THEOREM NewerBuildsAreSpared == ServeSpec => EvictionSparesNewerBuilds
<1>1. ASSUME ServeInv, [ServeNext]_serveVars, NEW k \in Keys, slot[k] # NoThunk, slot'[k] # slot[k]
      PROVE  thunk[slot[k]][k] \in BuildFailed
  <2>1. slot \in [Keys -> Visit \cup {NoThunk}]
    BY <1>1 DEF ServeInv, ServeTypeOK
  <2>2. PICK r \in Visit : LoadOrStore(r) \/ EvictFailure(r)
    BY <1>1 DEF ServeNext, Serve, serveVars, Arrive, Resolve, Match, CheckFails, LoadThunk, Once, Build, Return,
                SnapshotsRm
  <2>3. CASE LoadOrStore(r)
    BY <1>1, <2>1, <2>3 DEF LoadOrStore
  <2>4. CASE EvictFailure(r)
    BY <1>1, <2>1, <2>4 DEF EvictFailure, CompareAndDelete
  <2> QED BY <2>2, <2>3, <2>4
<1>2. ServeInv /\ [ServeNext]_serveVars =>
        [\A k \in Keys : slot[k] # NoThunk /\ slot'[k] # slot[k]
           => thunk[slot[k]][k] \in BuildFailed]_serveVars
  BY <1>1
<1> QED BY <1>2, CachesAreSound, PTL DEF ServeSpec, EvictionSparesNewerBuilds
=============================================================================
