------------------------- MODULE HousekeepingProofs -------------------------
(***************************************************************************)
(* What holds of the files that several processes work on at once: the     *)
(* HTTP cache and the database file itself.                                *)
(*                                                                         *)
(*   - CacheStaysPaired: as long as no two requests for one key overlap,   *)
(*     no prune, crash or failed write pairs a new meta with an old body   *)
(*     (SingleClientStaysPaired: one client at a time is enough);          *)
(*   - ReportsAreHonest: the report of a prune adds up, because at every   *)
(*     moment what the scan saw is taken, at hand, waiting or counted as   *)
(*     remaining (Accounts), and no two entries share a file;              *)
(*   - PrunesMeetTheirCaps: a prune that nothing stopped meets its caps,   *)
(*     because what is gone is older than whatever waits (Capped);         *)
(*   - OpenedSchemasAreComplete: a process that has opened the database    *)
(*     finds each of its migrations executed, once and in order, because   *)
(*     the log is ordered and a version is recorded as its file is         *)
(*     executed (Orderly);                                                 *)
(*   - ForeignDatabasesAreSpared: a database of another generation is      *)
(*     never written to.                                                   *)
(***************************************************************************)
EXTENDS CachePrune, Migrations, TLAPS, SequenceTheorems, WellFoundedInduction,
        FiniteSetTheorems

----------------------------------------------------------------------------
(* The HTTP cache                                                          *)

\* No two requests for a key are in flight at once: what one process that
\* fetches one thing after the other guarantees, and two processes do not.
OneRequestPerKey ==
  \A c, d \in Client :
    c # d /\ ~ClientAt(c, "idle") /\ ~ClientAt(d, "idle") => client[c].key # client[d].key

RequestPcs == {"idle", "readMeta", "dropMeta", "dropBody", "readBody", "fetch",
               "touchMeta", "writeBody", "writeMeta"}

RequestType == [pc : RequestPcs, key : Key \cup {0}, meta : Nat, have : Nat, got : Nat]

CacheTypeOK ==
  /\ DOMAIN disk \subseteq File
  /\ disk \in [DOMAIN disk -> Nat]
  /\ server \in [Key -> Nat]
  /\ client \in [Client -> RequestType]
  /\ \A c \in Client : ~ClientAt(c, "idle") => client[c].key \in Key

\* What a file holds, if it exists, bounds a version or is bounded by it.
HoldsAtLeast(f, v) == Exists(f) => v <= disk[f]
HoldsAtMost(f, v)  == Exists(f) => disk[f] <= v

\* No file and no request is ahead of the server.
NothingFromTheFuture ==
  /\ \A k \in Key : \A kind \in Kind : HoldsAtMost(<<k, kind>>, server[k])
  /\ \A c \in Client : ~ClientAt(c, "idle") =>
       /\ client[c].meta <= server[client[c].key]
       /\ client[c].have <= server[client[c].key]
       /\ client[c].got <= server[client[c].key]

\* What a request has read, or is about to write, fits the other file.
RequestFits(c) ==
  /\ client[c].pc \in {"readMeta", "dropMeta", "dropBody", "readBody"}
       => client[c].have = Garbled
  /\ ClientAt(c, "readBody") => HoldsAtLeast(Body(c), client[c].meta)
  /\ client[c].pc \in {"fetch", "touchMeta"} => HoldsAtLeast(Body(c), client[c].have)
  /\ ClientAt(c, "writeBody") => HoldsAtMost(Meta(c), client[c].got)
  /\ ClientAt(c, "writeMeta") => HoldsAtLeast(Body(c), client[c].got)

CacheInv ==
  /\ CacheTypeOK
  /\ NothingFromTheFuture
  /\ \A c \in Client : RequestFits(c)
  /\ NoNewMetaOverOldBody

LEMMA InitIsPaired == CacheInit => CacheInv
<1> SUFFICES ASSUME CacheInit
             PROVE  CacheInv
  OBVIOUS
<1>1. DOMAIN disk = {} /\ disk \in [DOMAIN disk -> Nat]
  BY DEF CacheInit
<1>2. NoRequest \in RequestType /\ NoRequest.pc = "idle"
  BY DEF NoRequest, RequestType, RequestPcs, Garbled
<1>3. \A c \in Client : client[c] = NoRequest
  BY DEF CacheInit
<1>4. CacheTypeOK
  BY <1>1, <1>2, <1>3 DEF CacheInit, CacheTypeOK, ClientAt
<1>5. NothingFromTheFuture
  BY <1>1, <1>2, <1>3 DEF NothingFromTheFuture, HoldsAtMost, Exists, ClientAt
<1>6. \A c \in Client : RequestFits(c)
  BY <1>2, <1>3 DEF RequestFits, ClientAt
<1>7. NoNewMetaOverOldBody
  BY <1>1 DEF NoNewMetaOverOldBody, Exists
<1> QED BY <1>4, <1>5, <1>6, <1>7 DEF CacheInv

\* A step of a request leaves the other requests, the files of other keys and
\* the server as they are.
LEMMA RoundTripIsLocal ==
  ASSUME CacheTypeOK, NEW c \in Client, RoundTrip(c)
  PROVE  /\ server' = server
         /\ \A d \in Client \ {c} : client'[d] = client[d]
         /\ ClientAt(c, "idle") => UNCHANGED disk
         /\ \A k, kind : k # client[c].key =>
              /\ Exists(<<k, kind>>)' <=> Exists(<<k, kind>>)
              /\ Exists(<<k, kind>>) => disk'[<<k, kind>>] = disk[<<k, kind>>]
<1>1. server' = server
  BY DEF RoundTrip, Request, ReadMeta, DropMeta, DropBody, ReadBody, Fetch, TouchMeta,
         WriteBody, WriteMeta, GiveUp, ClientCrash, Go, ClientBecomes
<1>2. \E r : client' = [client EXCEPT ![c] = r]
  BY DEF RoundTrip, Request, ReadMeta, DropMeta, DropBody, ReadBody, Fetch, TouchMeta,
         WriteBody, WriteMeta, GiveUp, ClientCrash, Go, ClientBecomes
<1>3. /\ ClientAt(c, "idle") => UNCHANGED disk
      /\ \/ UNCHANGED disk
         \/ \E kind : Remove(<<client[c].key, kind>>)
         \/ \E kind, v : Write(<<client[c].key, kind>>, v)
  BY DEF RoundTrip, Request, ReadMeta, DropMeta, DropBody, ReadBody, Fetch, TouchMeta,
         WriteBody, WriteMeta, GiveUp, ClientCrash, ClientAt, Body, Meta, Temp
<1>4. ASSUME NEW k, NEW kind, k # client[c].key
      PROVE  /\ Exists(<<k, kind>>)' <=> Exists(<<k, kind>>)
             /\ Exists(<<k, kind>>) => disk'[<<k, kind>>] = disk[<<k, kind>>]
  <2>1. CASE UNCHANGED disk
    BY <2>1 DEF Exists
  <2>2. ASSUME NEW other, Remove(<<client[c].key, other>>)
        PROVE  /\ Exists(<<k, kind>>)' <=> Exists(<<k, kind>>)
               /\ Exists(<<k, kind>>) => disk'[<<k, kind>>] = disk[<<k, kind>>]
    <3>1. <<k, kind>> # <<client[c].key, other>>
      BY <1>4
    <3> QED BY <2>2, <3>1 DEF Exists, Remove, Restrict
  <2>3. ASSUME NEW other, NEW v, Write(<<client[c].key, other>>, v)
        PROVE  /\ Exists(<<k, kind>>)' <=> Exists(<<k, kind>>)
               /\ Exists(<<k, kind>>) => disk'[<<k, kind>>] = disk[<<k, kind>>]
    <3>1. <<k, kind>> # <<client[c].key, other>>
      BY <1>4
    <3> QED BY <2>3, <3>1 DEF Exists, Write
  <2> QED BY <1>3, <2>1, <2>2, <2>3
<1> QED BY <1>1, <1>2, <1>3, <1>4 DEF CacheTypeOK

LEMMA RoundTripIsTyped ==
  ASSUME CacheTypeOK, NEW c \in Client, RoundTrip(c)
  PROVE  CacheTypeOK'
<1> USE DEF CacheTypeOK
<1>0. /\ client[c] \in RequestType
      /\ NoRequest \in RequestType
      /\ ClientAt(c, "idle") \/ client[c].key \in Key
  BY DEF NoRequest, RequestType, RequestPcs, Garbled
<1>1. ASSUME NEW r \in RequestType, client' = [client EXCEPT ![c] = r],
             r.pc # "idle" => r.key \in Key
      PROVE  /\ client' \in [Client -> RequestType]
             /\ \A d \in Client : ~ClientAt(d, "idle")' => client'[d].key \in Key
  BY <1>1 DEF ClientAt
<1>2. ASSUME NEW pc \in RequestPcs, Go(c, pc), ~ClientAt(c, "idle")
      PROVE  /\ client' \in [Client -> RequestType]
             /\ \A d \in Client : ~ClientAt(d, "idle")' => client'[d].key \in Key
  <2>1. [client[c] EXCEPT !.pc = pc] \in RequestType
    BY <1>0 DEF RequestType
  <2>2. [client[c] EXCEPT !.pc = pc].key = client[c].key
    BY <1>0 DEF RequestType
  <2> QED BY <1>0, <1>1, <1>2, <2>1, <2>2 DEF Go, ClientBecomes
<1>3. ASSUME ClientBecomes(c, NoRequest)
      PROVE  /\ client' \in [Client -> RequestType]
             /\ \A d \in Client : ~ClientAt(d, "idle")' => client'[d].key \in Key
  <2>1. NoRequest.pc = "idle"
    BY DEF NoRequest
  <2> QED BY <1>0, <1>1, <1>3, <2>1 DEF ClientBecomes
<1>4. ASSUME NEW f \in File, NEW v \in Nat, Write(f, v)
      PROVE  DOMAIN disk' \subseteq File /\ disk' \in [DOMAIN disk' -> Nat]
  BY <1>4 DEF Write
<1>5. ASSUME NEW f, Remove(f)
      PROVE  DOMAIN disk' \subseteq File /\ disk' \in [DOMAIN disk' -> Nat]
  BY <1>5 DEF Remove, Restrict
<1>6. ASSUME NEW kind \in Kind, ~ClientAt(c, "idle")
      PROVE  <<client[c].key, kind>> \in File
  BY <1>0, <1>6 DEF File
<1>7. /\ client[c].have \in Nat /\ client[c].got \in Nat /\ client[c].meta \in Nat
      /\ Garbled \in Nat /\ {"body", "meta", "temp"} \subseteq Kind
  BY <1>0 DEF RequestType, Garbled, Kind
<1>8. server' = server
  BY RoundTripIsLocal
<1>9. CASE Request(c)
  <2>1. PICK k \in Key, bypass \in BOOLEAN :
          client' = [client EXCEPT ![c] =
                       [NoRequest EXCEPT !.pc = IF bypass THEN "fetch" ELSE "readMeta",
                                         !.key = k]]
    BY <1>9 DEF Request
  <2>2. /\ [NoRequest EXCEPT !.pc = IF bypass THEN "fetch" ELSE "readMeta", !.key = k]
             \in RequestType
        /\ [NoRequest EXCEPT !.pc = IF bypass THEN "fetch" ELSE "readMeta", !.key = k].key
             = k
    BY <1>0 DEF RequestType, RequestPcs, NoRequest
  <2> QED BY <1>1, <1>8, <1>9, <2>1, <2>2 DEF Request
<1>10. CASE ReadMeta(c)
  <2>1. ASSUME ClientBecomes(c, [client[c] EXCEPT !.pc = "readBody", !.meta = disk[Meta(c)]]),
               Exists(Meta(c))
        PROVE  /\ client' \in [Client -> RequestType]
               /\ \A d \in Client : ~ClientAt(d, "idle")' => client'[d].key \in Key
    <3>1. disk[Meta(c)] \in Nat
      BY <2>1 DEF Exists
    <3>2. /\ [client[c] EXCEPT !.pc = "readBody", !.meta = disk[Meta(c)]] \in RequestType
          /\ [client[c] EXCEPT !.pc = "readBody", !.meta = disk[Meta(c)]].key = client[c].key
      BY <1>0, <3>1 DEF RequestType, RequestPcs
    <3>3. ~ClientAt(c, "idle")
      BY <1>10 DEF ReadMeta, ClientAt
    <3> QED BY <1>0, <1>1, <2>1, <3>2, <3>3 DEF ClientBecomes
  <2> QED BY <1>2, <1>8, <1>10, <2>1 DEF ReadMeta, ClientAt, RequestPcs
<1>11. CASE DropMeta(c)
  BY <1>2, <1>5, <1>8, <1>11 DEF DropMeta, ClientAt, RequestPcs
<1>12. CASE DropBody(c)
  BY <1>2, <1>5, <1>8, <1>12 DEF DropBody, ClientAt, RequestPcs
<1>13. CASE ReadBody(c)
  <2>1. /\ [client[c] EXCEPT !.pc = "fetch", !.have = client[c].meta] \in RequestType
        /\ [client[c] EXCEPT !.pc = "fetch", !.have = client[c].meta].key = client[c].key
    BY <1>0 DEF RequestType, RequestPcs
  <2>2. ~ClientAt(c, "idle")
    BY <1>13 DEF ReadBody, ClientAt
  <2>3. /\ client' \in [Client -> RequestType]
        /\ \A d \in Client : ~ClientAt(d, "idle")' => client'[d].key \in Key
    <3>1. CASE Go(c, "fetch")
      BY <1>2, <2>2, <3>1 DEF RequestPcs
    <3>2. CASE ClientBecomes(c, NoRequest)
      BY <1>3, <3>2
    <3>3. CASE ClientBecomes(c, [client[c] EXCEPT !.pc = "fetch", !.have = client[c].meta])
      BY <1>0, <1>1, <2>1, <2>2, <3>3 DEF ClientBecomes
    <3> QED BY <1>13, <3>1, <3>2, <3>3 DEF ReadBody
  <2> QED BY <1>8, <1>13, <2>3 DEF ReadBody
<1>14. CASE Fetch(c)
  <2>1. ~ClientAt(c, "idle")
    BY <1>14 DEF Fetch, ClientAt
  <2>2. server[client[c].key] \in Nat
    BY <1>0, <2>1
  <2>3. /\ [client[c] EXCEPT !.pc = "writeBody", !.got = server[client[c].key]]
             \in RequestType
        /\ [client[c] EXCEPT !.pc = "writeBody", !.got = server[client[c].key]].key
             = client[c].key
    BY <1>0, <2>2 DEF RequestType, RequestPcs
  <2>4. /\ client' \in [Client -> RequestType]
        /\ \A d \in Client : ~ClientAt(d, "idle")' => client'[d].key \in Key
    <3>1. CASE Go(c, "touchMeta")
      BY <1>2, <2>1, <3>1 DEF RequestPcs
    <3>2. CASE ClientBecomes(c, [client[c] EXCEPT !.pc = "writeBody", !.got = server[client[c].key]])
      BY <1>0, <1>1, <2>1, <2>3, <3>2 DEF ClientBecomes
    <3> QED BY <1>14, <3>1, <3>2 DEF Fetch
  <2> QED BY <1>8, <1>14, <2>4 DEF Fetch
<1>15. CASE TouchMeta(c)
  <2>1. Meta(c) \in File
    BY <1>6, <1>7, <1>15 DEF TouchMeta, ClientAt, Meta
  <2> QED BY <1>3, <1>4, <1>7, <1>8, <1>15, <2>1 DEF TouchMeta
<1>16. CASE WriteBody(c)
  <2>1. Body(c) \in File /\ ~ClientAt(c, "idle")
    BY <1>6, <1>7, <1>16 DEF WriteBody, ClientAt, Body
  <2> QED BY <1>2, <1>4, <1>7, <1>8, <1>16, <2>1 DEF WriteBody, RequestPcs
<1>17. CASE WriteMeta(c)
  <2>1. Meta(c) \in File
    BY <1>6, <1>7, <1>17 DEF WriteMeta, ClientAt, Meta
  <2> QED BY <1>3, <1>4, <1>7, <1>8, <1>17, <2>1 DEF WriteMeta
<1>18. CASE GiveUp(c)
  BY <1>3, <1>8, <1>18 DEF GiveUp
<1>19. CASE ClientCrash(c)
  <2>1. Temp(c) \in File
    BY <1>6, <1>7, <1>19 DEF ClientCrash, Temp
  <2> QED BY <1>3, <1>4, <1>7, <1>8, <1>19, <2>1 DEF ClientCrash
<1> QED BY <1>9, <1>10, <1>11, <1>12, <1>13, <1>14, <1>15, <1>16, <1>17, <1>18, <1>19
        DEF RoundTrip

\* What a step of a request means for its own key: with the request as it is
\* before (run) and after (next) the step.
LEMMA RequestStaysInThePast ==
  ASSUME CacheInv, NEW c \in Client, RoundTrip(c), ~ClientAt(c, "idle"), ~ClientAt(c, "idle")'
  PROVE  /\ client'[c].key = client[c].key
         /\ client'[c].meta <= server[client[c].key]
         /\ client'[c].have <= server[client[c].key]
         /\ client'[c].got <= server[client[c].key]
<1> DEFINE k == client[c].key
<1>1. /\ client[c] \in RequestType /\ k \in Key /\ server[k] \in Nat
      /\ client[c].meta <= server[k]
      /\ client[c].have <= server[k]
      /\ client[c].got <= server[k]
  BY DEF CacheInv, CacheTypeOK, NothingFromTheFuture
<1>2. ASSUME NEW r, ClientBecomes(c, r)
      PROVE  client'[c] = r
  BY <1>2 DEF CacheInv, CacheTypeOK, ClientBecomes
<1>3. ASSUME NEW pc, Go(c, pc)
      PROVE  /\ client'[c].key = k
             /\ client'[c].meta = client[c].meta
             /\ client'[c].have = client[c].have
             /\ client'[c].got = client[c].got
  BY <1>1, <1>2, <1>3 DEF Go, RequestType
<1>4. ~ClientBecomes(c, NoRequest)
  BY <1>2 DEF NoRequest, ClientAt
<1>5. CASE \E pc : Go(c, pc)
  BY <1>1, <1>3, <1>5
<1>6. CASE ReadMeta(c) /\ ~\E pc : Go(c, pc)
  <2>1. /\ Exists(Meta(c))
        /\ ClientBecomes(c, [client[c] EXCEPT !.pc = "readBody", !.meta = disk[Meta(c)]])
    BY <1>6 DEF ReadMeta
  <2>2. disk[Meta(c)] <= server[k]
    BY <1>1, <2>1 DEF CacheInv, NothingFromTheFuture, HoldsAtMost, Meta, Kind
  <2> QED BY <1>1, <1>2, <2>1, <2>2 DEF RequestType
<1>7. CASE ReadBody(c) /\ ~\E pc : Go(c, pc)
  <2>1. ClientBecomes(c, [client[c] EXCEPT !.pc = "fetch", !.have = client[c].meta])
    BY <1>4, <1>7 DEF ReadBody
  <2> QED BY <1>1, <1>2, <2>1 DEF RequestType
<1>8. CASE Fetch(c) /\ ~\E pc : Go(c, pc)
  <2>1. ClientBecomes(c, [client[c] EXCEPT !.pc = "writeBody", !.got = server[k]])
    BY <1>8 DEF Fetch
  <2>2. client'[c] = [client[c] EXCEPT !.pc = "writeBody", !.got = server[k]]
    BY <1>2, <2>1
  <2>3. /\ client'[c].key = k /\ client'[c].got = server[k]
        /\ client'[c].meta = client[c].meta /\ client'[c].have = client[c].have
    BY <1>1, <2>2 DEF RequestType
  <2> QED BY <1>1, <2>3
<1> QED BY <1>4, <1>5, <1>6, <1>7, <1>8
        DEF RoundTrip, Request, DropMeta, DropBody, TouchMeta, WriteBody, WriteMeta,
            GiveUp, ClientCrash, ClientAt

LEMMA RoundTripStaysInThePast ==
  ASSUME CacheInv, NEW c \in Client, RoundTrip(c)
  PROVE  NothingFromTheFuture'
<1>1. server' = server /\ server \in [Key -> Nat]
  BY RoundTripIsLocal DEF CacheInv, CacheTypeOK
<1>2. ASSUME NEW k \in Key, NEW kind \in Kind
      PROVE  HoldsAtMost(<<k, kind>>, server[k])'
  <2>1. HoldsAtMost(<<k, kind>>, server[k])
    BY DEF CacheInv, NothingFromTheFuture
  <2>2. CASE k # client[c].key
    BY <1>1, <2>1, <2>2, RoundTripIsLocal DEF CacheInv, HoldsAtMost, Exists
  <2>3. CASE k = client[c].key /\ ~ClientAt(c, "idle")
    <3>1. client[c].have <= server[k] /\ client[c].got <= server[k] /\ Garbled <= server[k]
      BY <1>1, <2>3 DEF CacheInv, NothingFromTheFuture, Garbled
    <3>2. \/ UNCHANGED disk
          \/ \E f : Remove(f)
          \/ \E f, v : v <= server[k] /\ Write(f, v)
      BY <3>1 DEF RoundTrip, Request, ReadMeta, DropMeta, DropBody, ReadBody, Fetch,
                  TouchMeta, WriteBody, WriteMeta, GiveUp, ClientCrash
    <3>3. CASE UNCHANGED disk
      BY <1>1, <2>1, <3>3 DEF HoldsAtMost, Exists
    <3>4. CASE \E f : Remove(f)
      BY <1>1, <2>1, <3>4 DEF HoldsAtMost, Exists, Remove, Restrict
    <3>5. CASE \E f, v : v <= server[k] /\ Write(f, v)
      BY <1>1, <2>1, <3>5 DEF HoldsAtMost, Exists, Write
    <3> QED BY <3>2, <3>3, <3>4, <3>5
  <2>4. CASE ClientAt(c, "idle")
    BY <1>1, <2>1, <2>4, RoundTripIsLocal DEF CacheInv, HoldsAtMost, Exists
  <2> QED BY <2>2, <2>3, <2>4
<1>3. ASSUME NEW d \in Client, ~ClientAt(d, "idle")'
      PROVE  /\ client'[d].meta <= server'[client'[d].key]
             /\ client'[d].have <= server'[client'[d].key]
             /\ client'[d].got <= server'[client'[d].key]
  <2>1. CASE d # c
    BY <1>1, <1>3, <2>1, RoundTripIsLocal DEF CacheInv, NothingFromTheFuture, ClientAt
  <2>2. CASE d = c /\ ~ClientAt(c, "idle")
    BY <1>1, <1>3, <2>2, RequestStaysInThePast
  <2>3. CASE d = c /\ ClientAt(c, "idle")
    <3>1. PICK k \in Key, pc \in {"fetch", "readMeta"} :
            client' = [client EXCEPT ![c] = [NoRequest EXCEPT !.pc = pc, !.key = k]]
      BY <2>3 DEF RoundTrip, Request, ReadMeta, DropMeta, DropBody, ReadBody, Fetch,
                  TouchMeta, WriteBody, WriteMeta, GiveUp, ClientCrash, ClientAt
    <3>2. client'[c] = [NoRequest EXCEPT !.pc = pc, !.key = k]
      BY <3>1 DEF CacheInv, CacheTypeOK
    <3> QED BY <1>1, <2>3, <3>2 DEF NoRequest, Garbled
  <2> QED BY <2>1, <2>2, <2>3
<1> QED BY <1>2, <1>3 DEF NothingFromTheFuture

\* Every step of a request leaves the request in step with its files, and the
\* files of its key paired.
LEMMA RoundTripKeepsItsKeyPaired ==
  ASSUME CacheInv, NEW c \in Client, RoundTrip(c), ~ClientAt(c, "idle"),
         NEW k, k = client[c].key
  PROVE  /\ RequestFits(c)'
         /\ Exists(<<k, "meta">>)' /\ Exists(<<k, "body">>)' =>
              disk'[<<k, "meta">>] <= disk'[<<k, "body">>]
<1> DEFINE b == <<k, "body">>
           m == <<k, "meta">>
<1>1. /\ client[c] \in RequestType /\ k \in Key /\ server[k] \in Nat
      /\ RequestFits(c)
      /\ HoldsAtMost(m, server[k]) /\ HoldsAtMost(b, server[k])
      /\ Exists(m) /\ Exists(b) => disk[m] <= disk[b]
      /\ Exists(m) => disk[m] \in Nat
      /\ Exists(b) => disk[b] \in Nat
  BY DEF CacheInv, CacheTypeOK, NothingFromTheFuture, NoNewMetaOverOldBody, Exists, Kind
<1>2. Body(c) = b /\ Meta(c) = m /\ b # m /\ Temp(c) # b /\ Temp(c) # m
  BY DEF Body, Meta, Temp
<1>3. ASSUME NEW r, ClientBecomes(c, r)
      PROVE  client'[c] = r
  BY <1>3 DEF CacheInv, CacheTypeOK, ClientBecomes
<1>4. ASSUME NEW pc, Go(c, pc)
      PROVE  /\ client'[c].pc = pc
             /\ client'[c].key = k
             /\ client'[c].meta = client[c].meta
             /\ client'[c].have = client[c].have
             /\ client'[c].got = client[c].got
  BY <1>1, <1>3, <1>4 DEF Go, RequestType
<1>5. ASSUME client'[c].key = k
      PROVE  Body(c)' = b /\ Meta(c)' = m
  BY <1>5 DEF Body, Meta
<1>6. ASSUME ClientBecomes(c, NoRequest)
      PROVE  RequestFits(c)'
  <2>1. client'[c].pc = "idle"
    BY <1>3, <1>6 DEF NoRequest
  <2> QED BY <2>1 DEF RequestFits, ClientAt
<1>7. ASSUME UNCHANGED disk
      PROVE  Exists(m)' /\ Exists(b)' => disk'[m] <= disk'[b]
  BY <1>1, <1>7 DEF Exists
<1> SUFFICES RequestFits(c)' /\ (Exists(m)' /\ Exists(b)' => disk'[m] <= disk'[b])
  OBVIOUS
<1> HIDE DEF b, m
<1>8. ASSUME Go(c, "fetch"),
             client[c].pc \in {"readMeta", "dropMeta", "dropBody", "readBody"},
             DOMAIN disk' \subseteq DOMAIN disk,
             \A f \in DOMAIN disk' : disk'[f] = disk[f]
      PROVE  RequestFits(c)'
  <2>1. HoldsAtLeast(b, Garbled)'
    BY <1>1, <1>8 DEF HoldsAtLeast, Exists, Garbled
  <2>2. client'[c].have = Garbled
    BY <1>1, <1>4, <1>8 DEF RequestFits
  <2> QED BY <1>4, <1>5, <1>8, <2>1, <2>2 DEF RequestFits, ClientAt, HoldsAtLeast, Exists
<1>9. CASE ReadMeta(c)
  <2>1. UNCHANGED disk /\ client[c].pc = "readMeta"
    BY <1>9 DEF ReadMeta, ClientAt
  <2>2. CASE Go(c, "fetch")
    BY <1>7, <1>8, <2>1, <2>2
  <2>3. CASE Go(c, "dropMeta")
    <3>1. RequestFits(c)'
      BY <1>1, <1>4, <2>1, <2>3 DEF RequestFits, ClientAt
    <3> QED BY <1>7, <2>1, <3>1
  <2>4. CASE /\ Exists(m)
             /\ ClientBecomes(c, [client[c] EXCEPT !.pc = "readBody", !.meta = disk[m]])
    <3>1. client'[c] = [client[c] EXCEPT !.pc = "readBody", !.meta = disk[m]]
      BY <1>3, <2>4
    <3>2. /\ client'[c].pc = "readBody" /\ client'[c].key = k
          /\ client'[c].meta = disk[m] /\ client'[c].have = client[c].have
      BY <1>1, <3>1 DEF RequestType
    <3>3. HoldsAtLeast(b, disk[m])'
      BY <1>1, <2>1, <2>4 DEF HoldsAtLeast, Exists
    <3>4. RequestFits(c)'
      BY <1>1, <1>5, <2>1, <3>2, <3>3 DEF RequestFits, ClientAt, HoldsAtLeast, Exists
    <3> QED BY <1>7, <2>1, <3>4
  <2> QED BY <1>2, <1>9, <2>2, <2>3, <2>4 DEF ReadMeta
<1>10. CASE DropMeta(c)
  <2>1. /\ ~Exists(m)' /\ client[c].pc = "dropMeta"
    BY <1>2, <1>10 DEF DropMeta, ClientAt, Remove, Restrict, Exists
  <2>2. RequestFits(c)'
    BY <1>1, <1>4, <1>10, <2>1 DEF DropMeta, RequestFits, ClientAt
  <2> QED BY <2>1, <2>2
<1>11. CASE DropBody(c)
  <2>1. /\ ~Exists(b)' /\ client[c].pc = "dropBody"
    BY <1>2, <1>11 DEF DropBody, ClientAt, Remove, Restrict, Exists
  <2>2. RequestFits(c)'
    BY <1>8, <1>11, <2>1 DEF DropBody, Remove, Restrict
  <2> QED BY <2>1, <2>2
<1>12. CASE ReadBody(c)
  <2>1. UNCHANGED disk /\ client[c].pc = "readBody"
    BY <1>12 DEF ReadBody, ClientAt
  <2>2. CASE Go(c, "fetch")
    BY <1>7, <1>8, <2>1, <2>2
  <2>3. CASE ClientBecomes(c, NoRequest)
    BY <1>6, <1>7, <2>1, <2>3
  <2>4. CASE ClientBecomes(c, [client[c] EXCEPT !.pc = "fetch", !.have = client[c].meta])
    <3>1. client'[c] = [client[c] EXCEPT !.pc = "fetch", !.have = client[c].meta]
      BY <1>3, <2>4
    <3>2. /\ client'[c].pc = "fetch" /\ client'[c].key = k
          /\ client'[c].have = client[c].meta
      BY <1>1, <3>1 DEF RequestType
    <3>3. HoldsAtLeast(b, client[c].meta)
      BY <1>1, <1>2, <2>1 DEF RequestFits, ClientAt
    <3>4. RequestFits(c)'
      BY <1>5, <2>1, <3>2, <3>3 DEF RequestFits, ClientAt, HoldsAtLeast, Exists
    <3> QED BY <1>7, <2>1, <3>4
  <2> QED BY <1>12, <2>2, <2>3, <2>4 DEF ReadBody
<1>13. CASE Fetch(c)
  <2>1. UNCHANGED disk /\ client[c].pc = "fetch"
    BY <1>13 DEF Fetch, ClientAt
  <2>2. CASE Go(c, "touchMeta")
    <3>1. HoldsAtLeast(b, client[c].have)
      BY <1>1, <1>2, <2>1 DEF RequestFits
    <3>2. RequestFits(c)'
      BY <1>4, <1>5, <2>1, <2>2, <3>1 DEF RequestFits, ClientAt, HoldsAtLeast, Exists
    <3> QED BY <1>7, <2>1, <3>2
  <2>3. CASE ClientBecomes(c, [client[c] EXCEPT !.pc = "writeBody", !.got = server[k]])
    <3>1. client'[c] = [client[c] EXCEPT !.pc = "writeBody", !.got = server[k]]
      BY <1>3, <2>3
    <3>2. client'[c].pc = "writeBody" /\ client'[c].key = k /\ client'[c].got = server[k]
      BY <1>1, <3>1 DEF RequestType
    <3>3. RequestFits(c)'
      BY <1>1, <1>5, <2>1, <3>2 DEF RequestFits, ClientAt, HoldsAtMost, Exists
    <3> QED BY <1>7, <2>1, <3>3
  <2> QED BY <1>13, <2>2, <2>3 DEF Fetch
<1>14. CASE TouchMeta(c)
  <2>1. HoldsAtLeast(b, client[c].have)
    BY <1>1, <1>2, <1>14 DEF TouchMeta, RequestFits, ClientAt
  <2>2. Exists(m)' /\ Exists(b)' => disk'[m] <= disk'[b]
    BY <1>2, <1>14, <2>1 DEF TouchMeta, HoldsAtLeast, Exists, Write
  <2> QED BY <1>6, <1>14, <2>2 DEF TouchMeta
<1>15. CASE WriteBody(c)
  <2>1. HoldsAtMost(m, client[c].got)
    BY <1>1, <1>2, <1>15 DEF WriteBody, RequestFits, ClientAt
  <2>2. /\ Exists(b)' /\ disk'[b] = client[c].got
        /\ Exists(m)' => Exists(m) /\ disk'[m] = disk[m]
    BY <1>2, <1>15 DEF WriteBody, Exists, Write
  <2>3. client[c].got \in Nat
    BY <1>1 DEF RequestType
  <2>4. RequestFits(c)'
    BY <1>4, <1>5, <1>15, <2>2, <2>3 DEF WriteBody, RequestFits, ClientAt, HoldsAtLeast
  <2> QED BY <2>1, <2>2, <2>4 DEF HoldsAtMost
<1>16. CASE WriteMeta(c)
  <2>1. HoldsAtLeast(b, client[c].got)
    BY <1>1, <1>2, <1>16 DEF WriteMeta, RequestFits, ClientAt
  <2>2. Exists(m)' /\ Exists(b)' => disk'[m] <= disk'[b]
    BY <1>2, <1>16, <2>1 DEF WriteMeta, HoldsAtLeast, Exists, Write
  <2> QED BY <1>6, <1>16, <2>2 DEF WriteMeta
<1>17. CASE GiveUp(c)
  BY <1>6, <1>7, <1>17 DEF GiveUp
<1>18. CASE ClientCrash(c)
  <2>1. CASE UNCHANGED disk
    BY <1>6, <1>7, <1>18, <2>1 DEF ClientCrash
  <2>2. CASE Write(Temp(c), Garbled)
    <3>1. Exists(m)' /\ Exists(b)' => disk'[m] <= disk'[b]
      BY <1>1, <1>2, <2>2 DEF Exists, Write
    <3> QED BY <1>6, <1>18, <3>1 DEF ClientCrash
  <2> QED BY <1>18, <2>1, <2>2 DEF ClientCrash
<1> QED BY <1>9, <1>10, <1>11, <1>12, <1>13, <1>14, <1>15, <1>16, <1>17, <1>18
        DEF RoundTrip, Request, b, m

\* A request that starts knows nothing yet.
LEMMA RequestStartsInStep ==
  ASSUME CacheInv, NEW c \in Client, RoundTrip(c), ClientAt(c, "idle")
  PROVE  RequestFits(c)' /\ UNCHANGED disk
<1>1. PICK k \in Key, bypass \in BOOLEAN :
        client' = [client EXCEPT ![c] =
                     [NoRequest EXCEPT !.pc = IF bypass THEN "fetch" ELSE "readMeta",
                                       !.key = k]]
  BY DEF RoundTrip, Request, ReadMeta, DropMeta, DropBody, ReadBody, Fetch,
         TouchMeta, WriteBody, WriteMeta, GiveUp, ClientCrash, ClientAt
<1>2. client'[c] = [NoRequest EXCEPT !.pc = IF bypass THEN "fetch" ELSE "readMeta",
                                     !.key = k]
  BY <1>1 DEF CacheInv, CacheTypeOK
<1>3. /\ client'[c].pc \in {"fetch", "readMeta"}
      /\ client'[c].have = 0
      /\ client'[c].key \in Key
  BY <1>2 DEF NoRequest, Garbled
<1>4. UNCHANGED disk
  BY RoundTripIsLocal DEF CacheInv
<1>5. \A f \in DOMAIN disk : disk[f] \in Nat
  BY DEF CacheInv, CacheTypeOK
<1> QED BY <1>3, <1>4, <1>5 DEF RequestFits, ClientAt, HoldsAtLeast, Exists, Garbled

\* The requests for other keys, and their files, are none of this one's
\* business.
LEMMA RoundTripKeepsPaired ==
  ASSUME CacheInv, OneRequestPerKey, NEW c \in Client, RoundTrip(c)
  PROVE  CacheInv'
<1>0. CacheTypeOK /\ CacheTypeOK'
  BY RoundTripIsTyped DEF CacheInv
<1>1. ASSUME NEW d \in Client \ {c}
      PROVE  RequestFits(d)'
  <2>1. RequestFits(d) /\ client'[d] = client[d]
    BY <1>0, RoundTripIsLocal DEF CacheInv
  <2>2. CASE ClientAt(c, "idle")
    BY <2>1, <2>2, RequestStartsInStep
       DEF RequestFits, ClientAt, HoldsAtLeast, HoldsAtMost, Exists, Body, Meta
  <2>3. CASE ClientAt(d, "idle")
    BY <2>1, <2>3 DEF RequestFits, ClientAt
  <2>4. CASE client[d].key # client[c].key
    <3>1. \A f \in {Body(d), Meta(d)} :
             /\ Exists(f)' <=> Exists(f)
             /\ Exists(f) => disk'[f] = disk[f]
      BY <1>0, <2>4, RoundTripIsLocal DEF Body, Meta
    <3>2. Body(d)' = Body(d) /\ Meta(d)' = Meta(d)
      BY <2>1 DEF Body, Meta
    <3> QED BY <2>1, <3>1, <3>2 DEF RequestFits, ClientAt, HoldsAtLeast, HoldsAtMost, Exists
  <2> QED BY <2>2, <2>3, <2>4 DEF OneRequestPerKey
<1>2. RequestFits(c)'
  BY RequestStartsInStep, RoundTripKeepsItsKeyPaired
<1>3. ASSUME NEW k \in Key
      PROVE  Exists(<<k, "meta">>)' /\ Exists(<<k, "body">>)' =>
               disk'[<<k, "meta">>] <= disk'[<<k, "body">>]
  <2>1. CASE ClientAt(c, "idle")
    BY <2>1, RequestStartsInStep DEF CacheInv, NoNewMetaOverOldBody, Exists
  <2>2. CASE ~ClientAt(c, "idle") /\ k = client[c].key
    BY <2>2, RoundTripKeepsItsKeyPaired
  <2>3. CASE k # client[c].key
    BY <1>0, <2>3, RoundTripIsLocal DEF CacheInv, NoNewMetaOverOldBody
  <2> QED BY <2>1, <2>2, <2>3
<1> QED BY <1>0, <1>1, <1>2, <1>3, RoundTripStaysInThePast
        DEF CacheInv, NoNewMetaOverOldBody

\* A file that goes takes no entry out of step.
LEMMA RemovalKeepsPaired ==
  ASSUME CacheInv, NEW f, Remove(f), UNCHANGED <<server, client>>
  PROVE  CacheInv'
<1>1. /\ DOMAIN disk' \subseteq DOMAIN disk
      /\ \A g \in DOMAIN disk' : disk'[g] = disk[g]
      /\ disk' = [g \in DOMAIN disk' |-> disk'[g]]
  BY DEF Remove, Restrict
<1>2. CacheTypeOK'
  BY <1>1 DEF CacheInv, CacheTypeOK, ClientAt
<1>3. NothingFromTheFuture'
  BY <1>1 DEF CacheInv, NothingFromTheFuture, ClientAt, HoldsAtMost, Exists
<1>4. \A c \in Client : RequestFits(c)'
  BY <1>1 DEF CacheInv, RequestFits, ClientAt, HoldsAtMost, HoldsAtLeast, Exists, Body, Meta
<1>5. NoNewMetaOverOldBody'
  BY <1>1 DEF CacheInv, NoNewMetaOverOldBody, Exists
<1> QED BY <1>2, <1>3, <1>4, <1>5 DEF CacheInv

LEMMA WorldKeepsPaired ==
  ASSUME CacheInv, NEW k \in Key, ServerChanges(k) \/ Damage(k)
  PROVE  CacheInv'
<1>1. CASE ServerChanges(k)
  <2>1. server' \in [Key -> Nat] /\ \A l \in Key : server[l] <= server'[l]
    BY <1>1 DEF ServerChanges, CacheInv, CacheTypeOK
  <2>2. UNCHANGED <<disk, client>>
    BY <1>1 DEF ServerChanges
  <2>3. CacheTypeOK' /\ NoNewMetaOverOldBody' /\ \A c \in Client : RequestFits(c)'
    BY <2>1, <2>2 DEF CacheInv, CacheTypeOK, NoNewMetaOverOldBody, RequestFits, ClientAt,
                      HoldsAtMost, HoldsAtLeast, Exists, Body, Meta
  <2>4. \A l \in Key, kind \in Kind : HoldsAtMost(<<l, kind>>, server[l])'
    BY <2>1, <2>2 DEF CacheInv, CacheTypeOK, NothingFromTheFuture, HoldsAtMost, Exists
  <2>5. ASSUME NEW c \in Client, ~ClientAt(c, "idle")
        PROVE  /\ client[c].meta <= server'[client[c].key]
               /\ client[c].have <= server'[client[c].key]
               /\ client[c].got <= server'[client[c].key]
    <3>1. /\ client[c].key \in Key /\ client[c] \in RequestType
          /\ server[client[c].key] \in Nat /\ server'[client[c].key] \in Nat
      BY <2>1, <2>5 DEF CacheInv, CacheTypeOK
    <3> QED BY <2>1, <2>5, <3>1 DEF CacheInv, NothingFromTheFuture, RequestType
  <2>6. NothingFromTheFuture'
    BY <2>2, <2>4, <2>5 DEF NothingFromTheFuture, ClientAt
  <2> QED BY <2>3, <2>6 DEF CacheInv
<1>2. CASE Damage(k)
  <2> DEFINE m == <<k, "meta">>
  <2>1. /\ DOMAIN disk' = DOMAIN disk
        /\ disk'[m] = 0
        /\ \A g \in DOMAIN disk : g # m => disk'[g] = disk[g]
        /\ disk' \in [DOMAIN disk' -> Nat]
        /\ UNCHANGED <<server, client>>
        /\ \A g \in DOMAIN disk : disk[g] \in Nat
    BY <1>2 DEF Damage, CacheInv, CacheTypeOK, Garbled, Exists
  <2>2. CacheTypeOK'
    BY <2>1 DEF CacheInv, CacheTypeOK, ClientAt
  <2>3. ASSUME NEW l \in Key, NEW kind \in Kind
        PROVE  HoldsAtMost(<<l, kind>>, server[l])'
    BY <2>1 DEF CacheInv, CacheTypeOK, NothingFromTheFuture, HoldsAtMost, Exists
  <2>4. NothingFromTheFuture'
    BY <2>1, <2>3 DEF CacheInv, NothingFromTheFuture, ClientAt
  <2>5. ASSUME NEW c \in Client
        PROVE  RequestFits(c)'
    <3>1. /\ Body(c)' = Body(c) /\ Meta(c)' = Meta(c)
          /\ Body(c) # m /\ client'[c] = client[c] /\ client[c].got \in Nat
      BY <2>1 DEF Body, Meta, CacheInv, CacheTypeOK, RequestType
    <3>2. \A v : HoldsAtLeast(Body(c), v) => HoldsAtLeast(Body(c), v)'
      BY <2>1, <3>1 DEF HoldsAtLeast, Exists
    <3>3. HoldsAtMost(Meta(c), client[c].got) => HoldsAtMost(Meta(c), client[c].got)'
      BY <2>1, <3>1 DEF HoldsAtMost, Exists
    <3> QED BY <3>1, <3>2, <3>3 DEF CacheInv, RequestFits, ClientAt
  <2>6. NoNewMetaOverOldBody'
    BY <2>1 DEF CacheInv, NoNewMetaOverOldBody, Exists
  <2> QED BY <2>2, <2>4, <2>5, <2>6 DEF CacheInv
<1> QED BY <1>1, <1>2

LEMMA CacheStepKeepsPaired ==
  ASSUME CacheInv, OneRequestPerKey, CacheNext
  PROVE  CacheInv'
BY RoundTripKeepsPaired, WorldKeepsPaired DEF CacheNext

\* All a prune does to the cache is to remove files.
LEMMA PruneOnlyRemoves ==
  ASSUME PruneStep
  PROVE  /\ UNCHANGED <<server, client>>
         /\ UNCHANGED disk \/ \E f : Remove(f)
<1>1. CASE RemoveFile
  <2>1. UNCHANGED <<server, client>>
    BY <1>1 DEF RemoveFile
  <2>2. UNCHANGED disk \/ \E f : Remove(f)
    BY <1>1 DEF RemoveFile
  <2> QED BY <2>1, <2>2
<1>2. CASE ~RemoveFile
  BY <1>2 DEF PruneStep, StartPrune, Stat, EndScan, SweepIncomplete, SweepTemps, SweepByAge,
              SweepBySize, CancelPrune, cacheVars
<1> QED BY <1>1, <1>2

LEMMA PruneNextKeepsPaired ==
  CacheInv /\ OneRequestPerKey /\ [PruneNext]_pruneVars => CacheInv'
<1> SUFFICES ASSUME CacheInv, OneRequestPerKey, [PruneNext]_pruneVars
             PROVE  CacheInv'
  OBVIOUS
<1>1. ASSUME UNCHANGED <<disk, server, client>>
      PROVE  CacheInv'
  BY <1>1 DEF CacheInv, CacheTypeOK, NothingFromTheFuture, NoNewMetaOverOldBody, RequestFits,
              ClientAt, HoldsAtMost, HoldsAtLeast, Exists, Body, Meta
<1>2. CASE PruneStep
  BY <1>1, <1>2, PruneOnlyRemoves, RemovalKeepsPaired
<1>3. CASE CacheNext
  BY <1>3, CacheStepKeepsPaired
<1>4. CASE UNCHANGED pruneVars
  BY <1>1, <1>4 DEF pruneVars, cacheVars
<1> QED BY <1>2, <1>3, <1>4 DEF PruneNext

\* Whatever a prune removes at any moment, whichever write fails or is cut
\* short and whatever damages a meta: as long as no two requests for one key
\* overlap, no entry pairs a new meta with an old body.  (Without the premise
\* it is false: see the run cache_two_writers.)
THEOREM CacheStaysPaired ==
  PruneSpec /\ []OneRequestPerKey => []NoNewMetaOverOldBody
<1>1. PruneInit => CacheInv
  BY InitIsPaired DEF PruneInit
<1>2. CacheInv => NoNewMetaOverOldBody
  BY DEF CacheInv
<1> QED BY <1>1, <1>2, PruneNextKeepsPaired, PTL DEF PruneSpec

\* In particular one process that makes its requests one after the other keeps
\* its cache paired.
THEOREM SingleClientStaysPaired ==
  ASSUME \A c, d \in Client : c = d
  PROVE  PruneSpec => []NoNewMetaOverOldBody
<1>1. OneRequestPerKey
  BY DEF OneRequestPerKey
<1> QED BY <1>1, CacheStaysPaired, PTL

----------------------------------------------------------------------------
(* A prune of the cache                                                    *)

\* The record of a prune has these fields.
IsPrune(p) == DOMAIN p = DOMAIN NoPrune

\* The entries a scan saw, and those of them not decided yet.
Entries(p) == EntriesOf(p.seen) \cup TempsOf(p.seen)
Waiting(p) ==
  p.queue \cup p.kept \cup (IF p.pc = "incomplete" THEN TempsOf(p.seen) ELSE {})
Whole(p) == {e \in EntriesOf(p.seen) : Complete(e)}

\* Which entries each pass works on.
Sorted(p) ==
  /\ p.queue \cap p.kept = {}
  /\ p.pc = "incomplete" => p.queue \cup p.kept \subseteq EntriesOf(p.seen)
  /\ p.pc = "temps" => p.queue \subseteq TempsOf(p.seen) /\ p.kept \subseteq EntriesOf(p.seen)
  /\ p.pc \in {"age", "size"} => p.queue \cup p.kept \subseteq EntriesOf(p.seen)
  /\ p.pc = "size" => p.kept = {}

\* The account of a prune with the entries W still to be decided: what was
\* taken is reclaimed, what was decided and not taken remains; the entry at
\* hand is counted once it is done.
Accounts(p, W) ==
  /\ W \subseteq Entries(p)
  /\ p.entry # {} => p.entry \in Entries(p) \ W
  /\ p.victim \subseteq p.entry
  /\ p.took \subseteq (DOMAIN p.seen \ (UNION W)) \ p.victim
  /\ p.reclaimed = Bytes(p.took \ p.entry)
  /\ p.remaining = Bytes((DOMAIN p.seen \ p.took) \ ((UNION W) \cup p.entry))
  /\ p.removed = Cardinality({e \in Entries(p) \ {p.entry} : e \subseteq p.took})
  /\ p.entry # {} =>
       /\ p.freed = Bytes(p.took \cap p.entry)
       /\ p.stuck <=> ~(p.entry \ p.victim \subseteq p.took)

Seen(p) == IsFiniteSet(DOMAIN p.seen) /\ DOMAIN p.seen \subseteq File
           /\ p.seen \in [DOMAIN p.seen -> Age]

\* What the report says (ReportIsHonest), of any prune.
Honest(p) ==
  /\ p.reclaimed = Bytes(p.took)
  /\ p.remaining = Bytes(DOMAIN p.seen \ p.took)
  /\ p.removed = Cardinality({e \in Entries(p) : e \subseteq p.took})

\* A prune in one of its passes.
Underway(p) ==
  /\ p.victim = {} => p.entry = {}
  /\ Sorted(p)
  /\ p.pc = "size" => p.left = Bytes(UNION p.queue)
  /\ Accounts(p, Waiting(p))

\* The inductive invariant behind the report.
Accounted(p) ==
  /\ IsPrune(p) /\ Seen(p) /\ p.stuck \in BOOLEAN
  /\ p.pc \in {"idle", "scan", "done"} \cup Passes
  /\ p.pc \notin Passes => p.victim = {} /\ p.entry = {}
  /\ p.pc = "scan" =>
       /\ p.listing \subseteq File /\ p.queue = {} /\ p.kept = {} /\ p.took = {}
       /\ p.reclaimed = 0 /\ p.remaining = 0 /\ p.removed = 0
  /\ p.pc \in Passes => Underway(p)
  /\ p.pc = "done" => Honest(p)

AccountInv == DOMAIN disk \subseteq File /\ Accounted(prune)

\* The whole entries that are gone, or going.
Gone(p) == {e \in Whole(p) : e \subseteq p.took \/ e = p.entry}
Older(p, E, F) == \A e \in E, o \in F : EntryAge(p.seen, e) >= EntryAge(p.seen, o)
TooOld(p, e) == AgeCap /\ ~(EntryAge(p.seen, e) < Old)
BySize(p, E) == {e \in E : ~TooOld(p, e)}

\* What is gone and what stays of the whole entries, for a prune that nothing
\* has stopped: the oldest are gone, those past --max-age first and then, by
\* size, the last of them because the rest was still too much.
Capped(p) ==
  /\ Whole(p) \subseteq Gone(p) \cup p.queue \cup p.kept
  /\ p.pc \in {"incomplete", "temps"} => Gone(p) = {} /\ p.kept \subseteq Whole(p)
  /\ p.pc = "temps" => Whole(p) \subseteq p.kept
  /\ p.pc \in {"age", "size"} =>
       /\ p.queue \cup p.kept \subseteq Whole(p)
       /\ Older(p, Gone(p), p.queue \cup p.kept)
  /\ p.pc = "age" =>
       /\ \A e \in p.kept : EntryAge(p.seen, e) < Old
       /\ \A e \in Gone(p) : TooOld(p, e)
  /\ p.pc = "size" =>
       /\ \A e \in p.queue : ~TooOld(p, e)
       /\ BySize(p, Gone(p)) # {} =>
            \E e \in BySize(p, Gone(p)) : Bytes(e \cup (UNION p.queue)) > SizeCap

\* What PruneMeetsItsCaps says, of any prune.
Evicted(p) == {e \in Whole(p) : e \subseteq p.took}
Stayed(p) == Whole(p) \ Evicted(p)
MeetsCaps(p) ==
  /\ AgeCap => \A e \in Stayed(p) : EntryAge(p.seen, e) < Old
  /\ SizeCap # 0 => Bytes(UNION Stayed(p)) <= SizeCap
  /\ Older(p, Evicted(p), Stayed(p))
  /\ BySize(p, Evicted(p)) # {} =>
       \E e \in BySize(p, Evicted(p)) : Bytes(e \cup (UNION Stayed(p))) > SizeCap

\* A prune that nothing has stopped: not cancelled, no removal failed.
Unstopped(p) == ~p.cancelled /\ ~p.failed /\ (p.victim # {} => ~p.stuck)

\* The inductive invariant behind the caps, next to the account.
MeetingCaps(p) ==
  /\ p.cancelled \in BOOLEAN /\ p.failed \in BOOLEAN
  /\ p.pc \in Passes /\ Unstopped(p) => Capped(p)
  /\ p.pc = "done" /\ ~p.cancelled /\ ~p.failed => MeetsCaps(p)

CapsInv == MeetingCaps(prune)

----------------------------------------------------------------------------
(* Sums of sizes.                                                          *)

\* The files of a kind, and what they weigh.
OfKind(files, kind) == {f \in files : f[2] = kind}

LEMMA BytesOfKinds ==
  ASSUME NEW A, IsFiniteSet(A)
  PROVE  /\ Bytes(A) = FileSize["body"] * Cardinality(OfKind(A, "body"))
                       + FileSize["meta"] * Cardinality(OfKind(A, "meta"))
                       + FileSize["temp"] * Cardinality(OfKind(A, "temp"))
         /\ \A kind : IsFiniteSet(OfKind(A, kind)) /\ Cardinality(OfKind(A, kind)) \in Nat
         /\ \A kind \in Kind : FileSize[kind] \in Nat
         /\ Bytes(A) \in Nat
<1>1. Bytes(A) = FileSize["body"] * Cardinality(OfKind(A, "body"))
                 + FileSize["meta"] * Cardinality(OfKind(A, "meta"))
                 + FileSize["temp"] * Cardinality(OfKind(A, "temp"))
  BY DEF Bytes, OfKind
<1>2. ASSUME NEW kind
      PROVE  IsFiniteSet(OfKind(A, kind)) /\ Cardinality(OfKind(A, kind)) \in Nat
  <2>1. OfKind(A, kind) \in SUBSET A
    BY DEF OfKind
  <2>2. IsFiniteSet(OfKind(A, kind))
    BY <2>1, FS_Subset
  <2> QED BY <2>2, FS_CardinalityType
<1>3. \A kind \in Kind : FileSize[kind] \in Nat
  BY PruneAssumption
<1>4. \A a, b, c, x, y, z \in Nat : a * x + b * y + c * z \in Nat
  OBVIOUS
<1>5. {"body", "meta", "temp"} \subseteq Kind
  BY DEF Kind
<1> QED BY <1>1, <1>2, <1>3, <1>4, <1>5

\* Sets of files without a common one weigh what each of them weighs.
LEMMA BytesAddUp ==
  ASSUME NEW A, NEW B, IsFiniteSet(A), IsFiniteSet(B), A \cap B = {}
  PROVE  /\ Bytes(A \cup B) = Bytes(A) + Bytes(B)
         /\ Bytes(A) \in Nat /\ Bytes(B) \in Nat /\ Bytes(A \cup B) \in Nat
<1>1. ASSUME NEW kind
      PROVE  Cardinality(OfKind(A \cup B, kind))
               = Cardinality(OfKind(A, kind)) + Cardinality(OfKind(B, kind))
  <2>1. /\ IsFiniteSet(OfKind(A, kind)) /\ Cardinality(OfKind(A, kind)) \in Nat
        /\ IsFiniteSet(OfKind(B, kind)) /\ Cardinality(OfKind(B, kind)) \in Nat
    BY BytesOfKinds
  <2>2. /\ OfKind(A \cup B, kind) = OfKind(A, kind) \cup OfKind(B, kind)
        /\ OfKind(A, kind) \cap OfKind(B, kind) = {}
    BY DEF OfKind
  <2>3. Cardinality(OfKind(A, kind) \cup OfKind(B, kind)) =
          Cardinality(OfKind(A, kind)) + Cardinality(OfKind(B, kind)) - Cardinality({})
    BY <2>1, <2>2, FS_Union
  <2>4. Cardinality({}) = 0 /\ \A m, n \in Nat : m + n - 0 = m + n
    BY FS_EmptySet
  <2> QED BY <2>1, <2>2, <2>3, <2>4
<1>2. IsFiniteSet(A \cup B)
  BY FS_Union
<1>3. \A a, b, c, x, y, z, u, v, w \in Nat :
        a * (x + u) + b * (y + v) + c * (z + w)
          = (a * x + b * y + c * z) + (a * u + b * v + c * w)
  OBVIOUS
<1>4. {"body", "meta", "temp"} \subseteq Kind
  BY DEF Kind
<1>5. Bytes(A) \in Nat /\ Bytes(B) \in Nat /\ Bytes(A \cup B) \in Nat
  BY <1>2, BytesOfKinds
<1> DEFINE a == FileSize["body"]
           b == FileSize["meta"]
           c == FileSize["temp"]
           x == Cardinality(OfKind(A, "body"))
           y == Cardinality(OfKind(A, "meta"))
           z == Cardinality(OfKind(A, "temp"))
           u == Cardinality(OfKind(B, "body"))
           v == Cardinality(OfKind(B, "meta"))
           w == Cardinality(OfKind(B, "temp"))
<1>6. /\ a \in Nat /\ b \in Nat /\ c \in Nat /\ x \in Nat /\ y \in Nat /\ z \in Nat
      /\ u \in Nat /\ v \in Nat /\ w \in Nat
      /\ Bytes(A) = a * x + b * y + c * z /\ Bytes(B) = a * u + b * v + c * w
  BY <1>4, BytesOfKinds
<1>7. Bytes(A \cup B) = a * (x + u) + b * (y + v) + c * (z + w)
  <2>1. Bytes(A \cup B) = a * Cardinality(OfKind(A \cup B, "body"))
                 + b * Cardinality(OfKind(A \cup B, "meta"))
                 + c * Cardinality(OfKind(A \cup B, "temp"))
    BY <1>2, BytesOfKinds
  <2> QED BY <1>1, <2>1
<1> HIDE DEF a, b, c, x, y, z, u, v, w
<1> QED BY <1>3, <1>5, <1>6, <1>7

LEMMA BytesOfFew ==
  /\ Bytes({}) = 0
  /\ \A f \in File : Bytes({f}) = FileSize[f[2]]
<1>1. \A kind : OfKind({}, kind) = {}
  BY DEF OfKind
<1>2. Bytes({}) = 0
  <2>1. Bytes({}) = FileSize["body"] * 0 + FileSize["meta"] * 0 + FileSize["temp"] * 0
    BY <1>1, FS_EmptySet, BytesOfKinds
  <2>2. \A a, b, c \in Nat : a * 0 + b * 0 + c * 0 = 0
    OBVIOUS
  <2>3. FileSize["body"] \in Nat /\ FileSize["meta"] \in Nat /\ FileSize["temp"] \in Nat
    BY PruneAssumption DEF Kind
  <2> QED BY <2>1, <2>2, <2>3
<1>3. ASSUME NEW f \in File
      PROVE  Bytes({f}) = FileSize[f[2]]
  <2>1. f[2] \in {"body", "meta", "temp"}
    BY DEF File, Kind
  <2>2. \A kind : OfKind({f}, kind) = IF f[2] = kind THEN {f} ELSE {}
    BY DEF OfKind
  <2>3. \A kind : Cardinality(OfKind({f}, kind)) = IF f[2] = kind THEN 1 ELSE 0
    BY <2>2, FS_EmptySet, FS_Singleton
  <2>4. Bytes({f}) = FileSize["body"] * (IF f[2] = "body" THEN 1 ELSE 0)
                     + FileSize["meta"] * (IF f[2] = "meta" THEN 1 ELSE 0)
                     + FileSize["temp"] * (IF f[2] = "temp" THEN 1 ELSE 0)
    BY <2>3, FS_Singleton, BytesOfKinds
  <2>5. FileSize["body"] \in Nat /\ FileSize["meta"] \in Nat /\ FileSize["temp"] \in Nat
    BY PruneAssumption DEF Kind
  <2>6. \A a, b, c \in Nat : /\ a * 1 + b * 0 + c * 0 = a
                             /\ a * 0 + b * 1 + c * 0 = b
                             /\ a * 0 + b * 0 + c * 1 = c
    OBVIOUS
  <2> QED BY <2>1, <2>4, <2>5, <2>6
<1> QED BY <1>2, <1>3

----------------------------------------------------------------------------
(* Entries.                                                                *)

\* The entries of a scan are disjoint and cover what it saw.
LEMMA EntriesAreDisjoint ==
  ASSUME NEW p, Seen(p)
  PROVE  /\ IsFiniteSet(Entries(p)) /\ UNION Entries(p) = DOMAIN p.seen
         /\ {} \notin Entries(p)
         /\ \A e, o \in Entries(p) : e # o => e \cap o = {}
         /\ \A e \in Entries(p) : IsFiniteSet(e) /\ e \subseteq DOMAIN p.seen
         /\ EntriesOf(p.seen) \cap TempsOf(p.seen) = {}
<1> DEFINE S == DOMAIN p.seen
<1>1. IsFiniteSet(S) /\ S \subseteq Key \X {"body", "meta", "temp"}
  BY DEF Seen, File, Kind
<1>2. \A e \in EntriesOf(p.seen) :
        e # {} /\ \E k \in Key : e = {<<k, "body">>, <<k, "meta">>} \cap S
  BY DEF EntriesOf
<1>3. \A e \in TempsOf(p.seen) : \E f \in S : f[2] = "temp" /\ e = {f}
  BY DEF TempsOf
<1> HIDE DEF S
<1>4. \A e \in Entries(p) : e # {} /\ e \subseteq S
  BY <1>2, <1>3 DEF Entries
<1> DEFINE pair(k) == {<<k, "body">>, <<k, "meta">>} \cap S
<1>5. \A e \in EntriesOf(p.seen) : \A f \in e : f[2] # "temp" /\ e = pair(f[1])
  <2> SUFFICES ASSUME NEW e \in EntriesOf(p.seen), NEW f \in e
               PROVE  f[2] # "temp" /\ e = pair(f[1])
    OBVIOUS
  <2>1. PICK k \in Key : e = pair(k)
    BY <1>2
  <2>2. f = <<k, "body">> \/ f = <<k, "meta">>
    BY <2>1
  <2>3. f[1] = k /\ f[2] # "temp"
    BY <2>2
  <2> QED BY <2>1, <2>3
<1> HIDE DEF pair
<1>6. ASSUME NEW e \in Entries(p), NEW o \in Entries(p), NEW f \in e, f \in o
      PROVE  e = o
  <2>1. CASE e \in EntriesOf(p.seen) /\ o \in EntriesOf(p.seen)
    <3>1. e = pair(f[1]) /\ o = pair(f[1])
      BY <1>5, <1>6, <2>1
    <3> QED BY <3>1
  <2>2. CASE e \in TempsOf(p.seen) /\ o \in TempsOf(p.seen)
    <3>1. e = {f}
      BY <1>3, <1>6, <2>2
    <3>2. o = {f}
      BY <1>3, <1>6, <2>2
    <3> QED BY <3>1, <3>2
  <2>3. CASE e \in EntriesOf(p.seen) /\ o \in TempsOf(p.seen)
    BY <1>3, <1>5, <1>6, <2>3
  <2>4. CASE e \in TempsOf(p.seen) /\ o \in EntriesOf(p.seen)
    BY <1>3, <1>5, <1>6, <2>4
  <2> QED BY <2>1, <2>2, <2>3, <2>4 DEF Entries
<1>7. EntriesOf(p.seen) \cap TempsOf(p.seen) = {}
  BY <1>3, <1>5
<1>8. \A e \in Entries(p) : IsFiniteSet(e)
  BY <1>1, <1>4, FS_Subset
<1>9. IsFiniteSet(Entries(p))
  <2>1. IsFiniteSet(SUBSET S)
    BY <1>1, FS_SUBSET
  <2>2. Entries(p) \in SUBSET (SUBSET S)
    BY <1>4
  <2> QED BY <2>1, <2>2, FS_Subset
<1>10. ASSUME NEW f \in S
       PROVE  f \in UNION Entries(p)
  <2>1. PICK k \in Key, kind \in {"body", "meta", "temp"} : f = <<k, kind>>
    BY <1>1
  <2>2. CASE kind = "temp"
    <3>1. {f} \in TempsOf(p.seen)
      BY <2>1, <2>2 DEF TempsOf, S
    <3> QED BY <3>1 DEF Entries
  <2>3. CASE kind # "temp"
    <3>1. f \in {<<k, "body">>, <<k, "meta">>} \cap S
      BY <2>1, <2>3
    <3>2. {<<k, "body">>, <<k, "meta">>} \cap S \in EntriesOf(p.seen)
      BY <3>1 DEF EntriesOf, S
    <3> QED BY <3>1, <3>2 DEF Entries
  <2> QED BY <2>2, <2>3
<1>11. UNION Entries(p) = S
  BY <1>4, <1>10
<1> QED BY <1>4, <1>6, <1>7, <1>8, <1>9, <1>11 DEF S

\* An entry has an age, that of one of its files.
LEMMA EntriesAge ==
  ASSUME NEW p, Seen(p), NEW e \in Entries(p)
  PROVE  EntryAge(p.seen, e) \in Age
<1> DEFINE ages == {p.seen[f] : f \in e}
<1>1. ages \subseteq Nat /\ ages # {} /\ ages \subseteq Age
  <2>1. e # {} /\ e \subseteq DOMAIN p.seen
    BY EntriesAreDisjoint
  <2>2. \A f \in DOMAIN p.seen : p.seen[f] \in Age
    BY DEF Seen
  <2>3. Age \subseteq Nat
    BY DEF Age, Young, Old
  <2> QED BY <2>1, <2>2, <2>3
<1> HIDE DEF ages
<1>2. PICK v \in ages : \A w \in ages : <<w, v>> \notin OpToRel(<, Nat)
  BY <1>1, WFMin, NatLessThanWellFounded
<1>3. ASSUME NEW w \in ages, w < v
      PROVE  FALSE
  <2>1. <<w, v>> \in Nat \X Nat /\ <<w, v>>[1] < <<w, v>>[2]
    BY <1>1, <1>3
  <2> QED BY <1>2, <2>1 DEF OpToRel
<1>4. \A w \in ages : v <= w
  BY <1>1, <1>3
<1>5. EntryAge(p.seen, e) = CHOOSE x \in ages : \A y \in ages : x =< y
  BY DEF EntryAge, Min, ages
<1> QED BY <1>1, <1>4, <1>5

----------------------------------------------------------------------------
(* The account.                                                            *)

\* The files of a scan, in parts.
LEMMA FilesAreFinite ==
  ASSUME NEW p, Seen(p), NEW A, A \subseteq DOMAIN p.seen
  PROVE  IsFiniteSet(A) /\ Bytes(A) \in Nat
<1>1. IsFiniteSet(A)
  BY FS_Subset DEF Seen
<1> QED BY <1>1, BytesOfKinds

\* What a set of disjoint sets covers, without some of them.
LEMMA UnionsOfParts ==
  ASSUME NEW W, NEW D \in SUBSET W, \A e, o \in W : e # o => e \cap o = {}
  PROVE  /\ UNION W = (UNION (W \ D)) \cup (UNION D)
         /\ (UNION (W \ D)) \cap (UNION D) = {}
<1> DEFINE U == UNION W
           V == UNION (W \ D)
           X == UNION D
<1>1. \A x : x \in U <=> x \in V \/ x \in X
  OBVIOUS
<1>2. ASSUME NEW x, x \in V, x \in X
      PROVE  FALSE
  <2>1. PICK e \in W \ D : x \in e
    BY <1>2
  <2>2. PICK o \in D : x \in o
    BY <1>2
  <2>3. e # o /\ e \in W /\ o \in W
    OBVIOUS
  <2> QED BY <2>1, <2>2, <2>3
<1> HIDE DEF U, V, X
<1>3. U = V \cup X /\ V \cap X = {}
  BY <1>1, <1>2
<1> QED BY <1>3 DEF U, V, X

\* An account does not look at what a prune will do next.
LEMMA AccountsOfTheSame ==
  ASSUME NEW p, NEW q, NEW W, Accounts(p, W), q.seen = p.seen, q.took = p.took,
         q.entry = p.entry, q.victim = p.victim, q.freed = p.freed, q.stuck = p.stuck,
         q.reclaimed = p.reclaimed, q.remaining = p.remaining, q.removed = p.removed
  PROVE  Accounts(q, W)
BY Zenon DEF Accounts, Entries

\* Entries that are left where they are remain.
LEMMA LeavingAccounts ==
  ASSUME NEW p, Seen(p), NEW W, Accounts(p, W), p.entry = {}, NEW D \in SUBSET W,
         NEW q, q.seen = p.seen, q.took = p.took,
         q.entry = p.entry, q.victim = p.victim, q.freed = p.freed, q.stuck = p.stuck,
         q.reclaimed = p.reclaimed, q.remaining = p.remaining + Bytes(UNION D),
         q.removed = p.removed
  PROVE  Accounts(q, W \ D)
<1> DEFINE S == DOMAIN p.seen
<1>1. /\ W \subseteq Entries(p) /\ p.victim = {} /\ p.took \subseteq S \ UNION W
      /\ p.reclaimed = Bytes(p.took \ p.entry)
      /\ p.remaining = Bytes((S \ p.took) \ ((UNION W) \cup p.entry))
      /\ p.removed = Cardinality({e \in Entries(p) \ {p.entry} : e \subseteq p.took})
  BY DEF Accounts
<1>2. /\ \A e, o \in Entries(p) : e # o => e \cap o = {}
      /\ \A e \in Entries(p) : e \subseteq S
  BY EntriesAreDisjoint
<1> HIDE DEF S
<1>3. (UNION W) \subseteq S /\ (UNION D) \subseteq UNION W
  BY <1>1, <1>2
<1>4. (UNION W) = (UNION (W \ D)) \cup (UNION D) /\ (UNION (W \ D)) \cap (UNION D) = {}
  <2>1. \A e, o \in W : e # o => e \cap o = {}
    BY <1>1, <1>2
  <2> QED BY <2>1, UnionsOfParts
<1> DEFINE A == (S \ p.took) \ UNION W
<1>5. (S \ p.took) \ (UNION (W \ D)) = A \cup (UNION D) /\ A \cap (UNION D) = {}
  <2> DEFINE U == UNION W
             V == UNION (W \ D)
             X == UNION D
  <2>1. U = V \cup X /\ V \cap X = {} /\ U \subseteq S /\ p.took \subseteq S \ U
    <3>1. p.took \subseteq S \ U
      BY <1>1
    <3> QED BY <1>3, <1>4, <3>1
  <2> HIDE DEF U, V, X
  <2>2. (S \ p.took) \ V = ((S \ p.took) \ U) \cup X /\ ((S \ p.took) \ U) \cap X = {}
    BY <2>1
  <2> QED BY <2>2 DEF U, V, X
<1>6. Bytes(A \cup (UNION D)) = Bytes(A) + Bytes(UNION D)
  <2>1. A \subseteq S /\ (UNION D) \subseteq S
    BY <1>3
  <2>2. IsFiniteSet(A) /\ IsFiniteSet(UNION D)
    BY <2>1, FilesAreFinite DEF S
  <2> QED BY <1>5, <2>2, BytesAddUp
<1>7. p.remaining = Bytes(A)
  <2>1. (S \ p.took) \ ((UNION W) \cup p.entry) = A
    OBVIOUS
  <2> QED BY <1>1, <2>1
<1>8. q.remaining = Bytes((DOMAIN q.seen \ q.took) \ ((UNION (W \ D)) \cup q.entry))
  <2>1. (DOMAIN q.seen \ q.took) \ ((UNION (W \ D)) \cup q.entry) = A \cup UNION D
    BY <1>5 DEF S
  <2> HIDE DEF A
  <2> QED BY <1>6, <1>7, <2>1
<1>9. q.took \subseteq (DOMAIN q.seen \ (UNION (W \ D))) \ q.victim
  BY <1>1, <1>4 DEF S
<1>10. Entries(q) = Entries(p)
  BY DEF Entries
<1>11. q.reclaimed = Bytes(q.took \ q.entry) /\ W \ D \subseteq Entries(q)
       /\ q.removed = Cardinality({e \in Entries(q) \ {q.entry} : e \subseteq q.took})
       /\ q.entry = {} /\ q.victim \subseteq q.entry
  BY <1>1, <1>10
<1> HIDE DEF A
<1> QED BY <1>8, <1>9, <1>11 DEF Accounts

\* An entry that is about to be evicted.
LEMMA EvictingAccounts ==
  ASSUME NEW p, IsPrune(p), Seen(p), NEW W, Accounts(p, W), p.entry = {}, NEW e \in W
  PROVE  Accounts(Evict(p, e), W \ {e})
<1> DEFINE S == DOMAIN p.seen
           q == Evict(p, e)
<1>1. /\ W \subseteq Entries(p) /\ p.victim = {} /\ p.took \subseteq S \ UNION W
      /\ p.reclaimed = Bytes(p.took \ p.entry)
      /\ p.remaining = Bytes((S \ p.took) \ ((UNION W) \cup p.entry))
      /\ p.removed = Cardinality({o \in Entries(p) \ {p.entry} : o \subseteq p.took})
  BY DEF Accounts
<1>2. /\ \A x, o \in Entries(p) : x # o => x \cap o = {}
      /\ e \subseteq S /\ e # {}
  <2>1. /\ e \in Entries(p) /\ {} \notin Entries(p)
        /\ \A x \in Entries(p) : x \subseteq DOMAIN p.seen
        /\ \A x, o \in Entries(p) : x # o => x \cap o = {}
    <3> HIDE DEF q
    <3> QED BY <1>1, EntriesAreDisjoint
  <2> HIDE DEF q
  <2> QED BY <2>1
<1>3. /\ q.seen = p.seen /\ q.took = p.took /\ q.entry = e /\ q.victim = e /\ q.freed = 0
      /\ q.stuck = FALSE /\ q.reclaimed = p.reclaimed /\ q.remaining = p.remaining
      /\ q.removed = p.removed
  BY DEF Evict, IsPrune, NoPrune
<1> HIDE DEF q, S
<1>4. p.took \cap e = {} /\ p.took \ e = p.took \ p.entry
  BY <1>1
<1>5. (UNION (W \ {e})) \cup e = (UNION W) /\ (UNION (W \ {e})) \cap e = {}
  <2>1. \A x, o \in W : x # o => x \cap o = {}
    BY <1>1, <1>2
  <2>2. (UNION {e}) = e /\ {e} \in SUBSET W
    OBVIOUS
  <2>3. (UNION W) = (UNION (W \ {e})) \cup (UNION {e}) /\ (UNION (W \ {e})) \cap (UNION {e}) = {}
    BY <2>1, <2>2, UnionsOfParts
  <2> QED BY <2>2, <2>3
<1>6. {o \in Entries(p) \ {e} : o \subseteq p.took} = {o \in Entries(p) \ {p.entry} : o \subseteq p.took}
  <2>1. ~(e \subseteq p.took)
    BY <1>2, <1>4
  <2>2. {} \notin Entries(p)
    BY EntriesAreDisjoint
  <2> QED BY <2>1, <2>2
<1>7. Entries(q) = Entries(p)
  BY <1>3 DEF Entries
<1>8. q.freed = Bytes(q.took \cap q.entry)
  BY <1>3, <1>4, BytesOfFew
<1>9. q.reclaimed = Bytes(q.took \ q.entry)
  BY <1>1, <1>3, <1>4
<1>10. q.remaining = Bytes((DOMAIN q.seen \ q.took) \ ((UNION (W \ {e})) \cup q.entry))
  <2>1. (DOMAIN q.seen \ q.took) \ ((UNION (W \ {e})) \cup q.entry) = (S \ p.took) \ ((UNION W) \cup p.entry)
    BY <1>3, <1>5 DEF S
  <2> QED BY <1>1, <1>3, <2>1
<1>11. q.removed = Cardinality({o \in Entries(q) \ {q.entry} : o \subseteq q.took})
  BY <1>1, <1>3, <1>6, <1>7
<1>12. q.took \subseteq (DOMAIN q.seen \ (UNION (W \ {e}))) \ q.victim
  BY <1>1, <1>3, <1>5 DEF S
<1>13. q.stuck <=> ~(q.entry \ q.victim \subseteq q.took)
  BY <1>3
<1>14. W \ {e} \subseteq Entries(q) /\ q.entry \in Entries(q) \ (W \ {e}) /\ q.victim \subseteq q.entry
  BY <1>1, <1>3, <1>7
<1> QED BY <1>8, <1>9, <1>10, <1>11, <1>12, <1>13, <1>14 DEF Accounts, q

\* A file of the entry has been tried: it is gone, or something is stuck.
LEMMA TriedAccounts ==
  ASSUME NEW p, Seen(p), NEW W, Accounts(p, W), NEW f \in p.victim,
         NEW q, q.seen = p.seen, q.entry = p.entry, q.victim = p.victim \ {f},
         q.reclaimed = p.reclaimed, q.remaining = p.remaining, q.removed = p.removed,
         \/ /\ q.took = p.took \cup {f} /\ q.freed = p.freed + FileSize[f[2]]
            /\ q.stuck = p.stuck
         \/ q.took = p.took /\ q.freed = p.freed /\ q.stuck = TRUE
  PROVE  Accounts(q, W)
<1> DEFINE S == DOMAIN p.seen
<1>1. /\ W \subseteq Entries(p) /\ p.victim \subseteq p.entry /\ p.entry \in Entries(p) \ W
      /\ p.took \subseteq (S \ (UNION W)) \ p.victim
      /\ p.reclaimed = Bytes(p.took \ p.entry)
      /\ p.remaining = Bytes((S \ p.took) \ ((UNION W) \cup p.entry))
      /\ p.removed = Cardinality({o \in Entries(p) \ {p.entry} : o \subseteq p.took})
      /\ p.freed = Bytes(p.took \cap p.entry)
      /\ (p.stuck <=> ~(p.entry \ p.victim \subseteq p.took))
  BY DEF Accounts
<1>2. /\ \A x, o \in Entries(p) : x # o => x \cap o = {}
      /\ \A x \in Entries(p) : x \subseteq S
  BY EntriesAreDisjoint
<1>3. f \in S /\ f \in File /\ f \in p.entry /\ f \notin p.took /\ f \notin UNION W
  BY <1>1, <1>2 DEF Seen
<1>4. Entries(q) = Entries(p) /\ DOMAIN q.seen = S
  BY DEF Entries
<1> HIDE DEF S
<1>5. CASE q.took = p.took /\ q.freed = p.freed /\ q.stuck = TRUE
  <2>1. ~(q.entry \ q.victim \subseteq q.took)
    BY <1>3, <1>5
  <2>2. q.took \subseteq (DOMAIN q.seen \ (UNION W)) \ q.victim /\ q.victim \subseteq q.entry
    BY <1>1, <1>4, <1>5
  <2> QED BY <1>1, <1>4, <1>5, <2>1, <2>2 DEF Accounts
<1>6. CASE q.took = p.took \cup {f} /\ q.freed = p.freed + FileSize[f[2]] /\ q.stuck = p.stuck
  <2>1. q.freed = Bytes(q.took \cap q.entry)
    <3> DEFINE A == p.took \cap p.entry
    <3>1. q.took \cap q.entry = A \cup {f} /\ A \cap {f} = {}
      BY <1>3, <1>6
    <3>2. IsFiniteSet(A) /\ IsFiniteSet({f})
      <4>1. A \subseteq DOMAIN p.seen
        BY <1>1 DEF S
      <4> HIDE DEF A
      <4> QED BY <4>1, FilesAreFinite, FS_Singleton
    <3> HIDE DEF A
    <3>3. Bytes(A \cup {f}) = Bytes(A) + Bytes({f})
      BY <3>1, <3>2, BytesAddUp
    <3>4. Bytes({f}) = FileSize[f[2]]
      BY <1>3, BytesOfFew
    <3> QED BY <1>1, <1>6, <3>1, <3>3, <3>4 DEF A
  <2>2. q.took \ q.entry = p.took \ p.entry
    BY <1>3, <1>6
  <2>3. (DOMAIN q.seen \ q.took) \ ((UNION W) \cup q.entry) = (S \ p.took) \ ((UNION W) \cup p.entry)
    <3> DEFINE U == UNION W
    <3> HIDE DEF U
    <3>1. (S \ (p.took \cup {f})) \ (U \cup p.entry) = (S \ p.took) \ (U \cup p.entry)
      BY <1>3
    <3> QED BY <1>4, <1>6, <3>1 DEF U
  <2>4. {o \in Entries(q) \ {q.entry} : o \subseteq q.took} = {o \in Entries(p) \ {p.entry} : o \subseteq p.took}
    <3>1. \A o \in Entries(p) \ {p.entry} : f \notin o
      BY <1>1, <1>2, <1>3
    <3> QED BY <1>4, <1>6, <3>1
  <2>5. q.took \subseteq (DOMAIN q.seen \ (UNION W)) \ q.victim /\ q.victim \subseteq q.entry
    BY <1>1, <1>3, <1>4, <1>6
  <2>6. q.entry \ q.victim \subseteq q.took <=> p.entry \ p.victim \subseteq p.took
    BY <1>1, <1>3, <1>6
  <2>7. q.reclaimed = Bytes(q.took \ q.entry)
    BY <1>1, <2>2
  <2>8. q.remaining = Bytes((DOMAIN q.seen \ q.took) \ ((UNION W) \cup q.entry))
    BY <1>1, <2>3
  <2>9. q.removed = Cardinality({o \in Entries(q) \ {q.entry} : o \subseteq q.took})
    BY <1>1, <2>4
  <2>10. q.stuck <=> ~(q.entry \ q.victim \subseteq q.took)
    BY <1>1, <1>6, <2>6
  <2> QED BY <1>1, <1>4, <2>1, <2>5, <2>7, <2>8, <2>9, <2>10 DEF Accounts
<1> QED BY <1>5, <1>6

\* The entry is done, and counted.
LEMMA CountedAccounts ==
  ASSUME NEW p, IsPrune(p), Seen(p), NEW W, Accounts(p, W), p.entry # {}, p.victim = {},
         p.stuck \in BOOLEAN
  PROVE  Accounts(Counted(p), W)
<1> DEFINE S == DOMAIN p.seen
           q == Counted(p)
           e == p.entry
<1>1. /\ W \subseteq Entries(p) /\ e \in Entries(p) \ W /\ p.took \subseteq S \ UNION W
      /\ p.reclaimed = Bytes(p.took \ e)
      /\ p.remaining = Bytes((S \ p.took) \ ((UNION W) \cup e))
      /\ p.removed = Cardinality({o \in Entries(p) \ {e} : o \subseteq p.took})
      /\ p.freed = Bytes(p.took \cap e)
      /\ (p.stuck <=> ~(e \subseteq p.took))
  BY DEF Accounts
<1>2. /\ \A x, o \in Entries(p) : x # o => x \cap o = {}
      /\ \A x \in Entries(p) : x \subseteq S
      /\ {} \notin Entries(p) /\ IsFiniteSet(Entries(p))
  BY EntriesAreDisjoint
<1>3. /\ q.seen = p.seen /\ q.took = p.took /\ q.entry = {} /\ q.victim = {}
      /\ q.reclaimed = p.reclaimed + p.freed
      /\ q.remaining = p.remaining + (IF p.stuck THEN Bytes(e) - p.freed ELSE 0)
      /\ q.removed = p.removed + (IF p.stuck THEN 0 ELSE 1)
  BY DEF Counted, IsPrune, NoPrune
<1>4. Entries(q) = Entries(p)
  BY <1>3 DEF Entries
<1> HIDE DEF q, S, e
<1>5. e \cap (UNION W) = {} /\ e \subseteq S
  BY <1>1, <1>2
<1>6. q.reclaimed = Bytes(q.took \ q.entry)
  <2> DEFINE A == p.took \ e
             B == p.took \cap e
  <2>1. q.took \ q.entry = A \cup B /\ A \cap B = {} /\ A \subseteq S /\ B \subseteq S
    BY <1>1, <1>3
  <2> HIDE DEF A, B
  <2>2. IsFiniteSet(A) /\ IsFiniteSet(B)
    BY <2>1, FilesAreFinite DEF S
  <2>3. Bytes(A \cup B) = Bytes(A) + Bytes(B)
    BY <2>1, <2>2, BytesAddUp
  <2> QED BY <1>1, <1>3, <2>1, <2>3 DEF A, B
<1>7. q.remaining = Bytes((DOMAIN q.seen \ q.took) \ ((UNION W) \cup q.entry))
  <2> DEFINE A == (S \ p.took) \ ((UNION W) \cup e)
             B == e \ p.took
             C == p.took \cap e
  <2>1. /\ (DOMAIN q.seen \ q.took) \ ((UNION W) \cup q.entry) = A \cup B /\ A \cap B = {}
        /\ A \subseteq S /\ B \subseteq S /\ C \subseteq S /\ C \cup B = e /\ C \cap B = {}
    <3> DEFINE U == UNION W
    <3>1. e \cap U = {} /\ e \subseteq S /\ p.took \subseteq S \ U
      BY <1>1, <1>5
    <3> HIDE DEF U
    <3>2. (S \ p.took) \ (U \cup {}) = ((S \ p.took) \ (U \cup e)) \cup (e \ p.took)
      BY <3>1
    <3>3. (DOMAIN q.seen \ q.took) \ (U \cup q.entry) = (S \ p.took) \ (U \cup {})
      BY <1>3 DEF S
    <3>4. p.took \cap e \subseteq S /\ e \ p.took \subseteq S
      BY <3>1
    <3> QED BY <3>2, <3>3, <3>4 DEF U
  <2>2. e \subseteq p.took => B = {}
    OBVIOUS
  <2> HIDE DEF A, B, C
  <2>3. IsFiniteSet(A) /\ IsFiniteSet(B) /\ IsFiniteSet(C)
    BY <2>1, FilesAreFinite DEF S
  <2>4. Bytes(A \cup B) = Bytes(A) + Bytes(B) /\ Bytes(e) = Bytes(C) + Bytes(B)
        /\ Bytes(A) \in Nat /\ Bytes(B) \in Nat /\ Bytes(C) \in Nat
    <3>1. Bytes(C \cup B) = Bytes(C) + Bytes(B)
      BY <2>1, <2>3, BytesAddUp
    <3> QED BY <2>1, <2>3, <3>1, BytesAddUp
  <2>5. p.remaining = Bytes(A) /\ p.freed = Bytes(C)
    BY <1>1 DEF A, C
  <2>6. CASE p.stuck
    <3>1. q.remaining = Bytes(A) + (Bytes(e) - Bytes(C))
      BY <1>3, <2>5, <2>6
    <3>2. \A a, b, c \in Nat : a + ((c + b) - c) = a + b
      OBVIOUS
    <3>3. Bytes(A) + ((Bytes(C) + Bytes(B)) - Bytes(C)) = Bytes(A) + Bytes(B)
      BY <2>4, <3>2
    <3>4. q.remaining = Bytes(A \cup B)
      BY <2>4, <3>1, <3>3
    <3> QED BY <2>1, <3>4
  <2>7. CASE ~p.stuck
    <3>1. Bytes(B) = 0
      BY <1>1, <2>2, <2>7, BytesOfFew
    <3> QED BY <1>3, <2>1, <2>4, <2>5, <2>7, <3>1
  <2> QED BY <2>6, <2>7
<1>8. q.removed = Cardinality({o \in Entries(q) \ {q.entry} : o \subseteq q.took})
  <2> DEFINE R == {o \in Entries(p) \ {e} : o \subseteq p.took}
             Q == {o \in Entries(q) \ {q.entry} : o \subseteq q.took}
  <2>1. Q = IF p.stuck THEN R ELSE R \cup {e}
    <3>1. q.entry = {} /\ q.took = p.took /\ {} \notin Entries(p)
      BY <1>2, <1>3
    <3>2. Q = {o \in Entries(p) : o \subseteq p.took}
      BY <1>4, <3>1
    <3>3. p.stuck <=> ~(e \subseteq p.took)
      BY <1>1
    <3>4. e \in Entries(p)
      BY <1>1
    <3> QED BY <3>2, <3>3, <3>4
  <2>2. IsFiniteSet(R) /\ e \notin R
    <3>1. R \in SUBSET Entries(p)
      OBVIOUS
    <3>2. e \notin R
      OBVIOUS
    <3> HIDE DEF R
    <3> QED BY <1>2, <3>1, <3>2, FS_Subset
  <2>3. p.removed = Cardinality(R)
    BY <1>1
  <2> HIDE DEF R, Q
  <2>4. Cardinality(R \cup {e}) = Cardinality(R) + 1 /\ Cardinality(R) \in Nat
    BY <2>2, FS_AddElement, FS_CardinalityType
  <2>5. q.removed = Cardinality(Q)
    <3>1. CASE p.stuck
      BY <1>3, <2>1, <2>3, <2>4, <3>1
    <3>2. CASE ~p.stuck
      BY <1>3, <2>1, <2>3, <2>4, <3>2
    <3> QED BY <3>1, <3>2
  <2> QED BY <2>5 DEF Q
<1>9. q.took \subseteq (DOMAIN q.seen \ (UNION W)) \ q.victim
  BY <1>1, <1>3 DEF S
<1> QED BY <1>1, <1>3, <1>4, <1>6, <1>7, <1>8, <1>9 DEF Accounts, q

\* A step of a pass that takes nothing and leaves every entry waiting.
LEMMA WaitingOn ==
  ASSUME NEW p, Accounted(p), p.pc \in Passes,
         NEW q, IsPrune(q), q.pc \in Passes, q.seen = p.seen, q.took = p.took,
         q.entry = p.entry, q.victim = p.victim, q.freed = p.freed, q.stuck = p.stuck,
         q.reclaimed = p.reclaimed, q.remaining = p.remaining, q.removed = p.removed,
         Waiting(q) = Waiting(p), Sorted(q), q.pc = "size" => q.left = Bytes(UNION q.queue)
  PROVE  Accounted(q)
<1>1. /\ Seen(p) /\ p.stuck \in BOOLEAN /\ (p.victim = {} => p.entry = {})
      /\ Accounts(p, Waiting(p))
  BY DEF Accounted, Underway
<1>2. Accounts(q, Waiting(q))
  BY <1>1, AccountsOfTheSame
<1>3. Seen(q) /\ q.stuck \in BOOLEAN /\ (q.victim = {} => q.entry = {})
  BY <1>1 DEF Seen
<1>4. q.pc \notin {"idle", "scan", "done"}
  BY DEF Passes
<1> QED BY <1>2, <1>3, <1>4 DEF Accounted, Underway

\* What waits, and where, in each pass.
LEMMA WaitingByPass ==
  ASSUME NEW p, Accounted(p), p.pc \in Passes
  PROVE  /\ p.pc \in {"incomplete", "temps", "age", "size"}
         /\ Seen(p) /\ IsPrune(p) /\ Sorted(p) /\ Accounts(p, Waiting(p))
         /\ p.victim = {} => p.entry = {}
         /\ p.pc = "size" => p.left = Bytes(UNION p.queue)
         /\ EntriesOf(p.seen) \cap TempsOf(p.seen) = {}
BY EntriesAreDisjoint DEF Accounted, Underway, Passes

\* Entries that a pass does not take remain.
LEMMA LeavingOn ==
  ASSUME NEW p, Accounted(p), p.pc \in Passes, p.victim = {},
         NEW D \in SUBSET Waiting(p),
         NEW q, IsPrune(q), q.pc \in Passes \ {"size"}, q.seen = p.seen, q.took = p.took,
         q.entry = p.entry, q.victim = p.victim, q.freed = p.freed, q.stuck = p.stuck,
         q.reclaimed = p.reclaimed, q.remaining = p.remaining + Bytes(UNION D),
         q.removed = p.removed, Waiting(q) = Waiting(p) \ D, Sorted(q)
  PROVE  Accounted(q)
<1>1. /\ Seen(p) /\ p.stuck \in BOOLEAN /\ p.entry = {} /\ Accounts(p, Waiting(p))
  BY DEF Accounted, Underway
<1>2. Accounts(q, Waiting(p) \ D)
  BY <1>1, LeavingAccounts
<1>3. Seen(q) /\ q.stuck \in BOOLEAN /\ (q.victim = {} => q.entry = {})
  BY <1>1 DEF Seen
<1>4. q.pc \notin {"idle", "scan", "done"}
  BY DEF Passes
<1> QED BY <1>2, <1>3, <1>4 DEF Accounted, Underway

\* An entry that a pass takes.
LEMMA EvictingOn ==
  ASSUME NEW p, IsPrune(p), Seen(p), p.pc \in Passes, p.entry = {}, Sorted(p),
         Accounts(p, Waiting(p)), NEW e \in p.queue,
         p.pc = "size" => p.left = Bytes(UNION (p.queue \ {e}))
  PROVE  Accounted(Evict(p, e))
<1> DEFINE q == Evict(p, e)
<1>1. /\ IsPrune(q) /\ q.pc = p.pc /\ q.seen = p.seen /\ q.took = p.took
      /\ q.queue = p.queue \ {e} /\ q.kept = p.kept /\ q.left = p.left
      /\ q.entry = e /\ q.victim = e /\ q.stuck = FALSE
  BY DEF Evict, IsPrune, NoPrune
<1>2. Accounts(q, Waiting(p) \ {e})
  <2>1. e \in Waiting(p)
    BY DEF Waiting
  <2> HIDE DEF q
  <2> QED BY <2>1, EvictingAccounts DEF q
<1>3. p.pc \in {"incomplete", "temps", "age", "size"}
      /\ EntriesOf(p.seen) \cap TempsOf(p.seen) = {}
  <2> HIDE DEF q
  <2> QED BY EntriesAreDisjoint DEF Passes
<1> HIDE DEF q
<1>4. Waiting(q) = Waiting(p) \ {e}
  BY <1>1, <1>3 DEF Waiting, Sorted
<1>5. Sorted(q)
  BY <1>1, <1>3 DEF Sorted
<1>6. Seen(q) /\ q.pc \notin {"idle", "scan", "done"}
  BY <1>1, <1>3 DEF Seen
<1>7. q.victim = {} => q.entry = {}
  BY <1>1
<1> QED BY <1>1, <1>2, <1>4, <1>5, <1>6, <1>7 DEF Accounted, Underway, q

\* sweepResidue of one entry.
LEMMA ResidueAccounted ==
  ASSUME NEW p, Accounted(p), p.pc \in {"incomplete", "temps"}, p.victim = {},
         NEW e \in p.queue
  PROVE  Accounted(Residue(p, e))
<1>0. /\ Seen(p) /\ IsPrune(p) /\ Sorted(p) /\ Accounts(p, Waiting(p)) /\ p.entry = {}
      /\ p.pc \in Passes /\ EntriesOf(p.seen) \cap TempsOf(p.seen) = {}
  BY WaitingByPass DEF Passes
<1>1. CASE EntryAge(p.seen, e) = Young
  <2> DEFINE q == [p EXCEPT !.queue = @ \ {e}, !.remaining = @ + Bytes(e)]
  <2>1. /\ IsPrune(q) /\ q.pc = p.pc /\ q.seen = p.seen /\ q.took = p.took
        /\ q.queue = p.queue \ {e} /\ q.kept = p.kept
        /\ q.entry = p.entry /\ q.victim = p.victim /\ q.stuck = p.stuck
        /\ q.freed = p.freed /\ q.reclaimed = p.reclaimed
        /\ q.remaining = p.remaining + Bytes(e) /\ q.removed = p.removed
    BY <1>0 DEF IsPrune, NoPrune
  <2> HIDE DEF q
  <2>2. {e} \in SUBSET Waiting(p) /\ (UNION {e}) = e
    BY DEF Waiting
  <2>3. Waiting(q) = Waiting(p) \ {e} /\ Sorted(q)
    BY <1>0, <2>1 DEF Waiting, Sorted
  <2>4. q.pc \in Passes \ {"size"}
    BY <2>1 DEF Passes
  <2>5. q.remaining = p.remaining + Bytes(UNION {e})
    BY <2>1, <2>2
  <2>6. Accounted(q)
    BY <1>0, <2>1, <2>2, <2>3, <2>4, <2>5, LeavingOn
  <2> QED BY <1>1, <2>6 DEF Residue, q
<1>2. CASE EntryAge(p.seen, e) # Young
  <2>1. Accounted(Evict(p, e))
    BY <1>0, EvictingOn
  <2> QED BY <1>2, <2>1 DEF Residue
<1> QED BY <1>1, <1>2

LEMMA StartAccounted ==
  ASSUME AccountInv, StartPrune
  PROVE  Accounted(prune')
<1>1. PICK dry \in BOOLEAN :
        prune' = [NoPrune EXCEPT !.pc = "scan", !.dry = dry, !.listing = DOMAIN disk]
  BY DEF StartPrune
<1> DEFINE q == [NoPrune EXCEPT !.pc = "scan", !.dry = dry, !.listing = DOMAIN disk]
<1>2. /\ IsPrune(q) /\ q.pc = "scan" /\ q.listing = DOMAIN disk /\ q.seen = [f \in {} |-> 0]
      /\ q.queue = {} /\ q.kept = {} /\ q.took = {} /\ q.entry = {} /\ q.victim = {}
      /\ q.stuck = FALSE /\ q.reclaimed = 0 /\ q.remaining = 0 /\ q.removed = 0
  BY DEF IsPrune, NoPrune
<1> HIDE DEF q
<1>3. DOMAIN q.seen = {}
  BY <1>2
<1>4. Seen(q)
  BY <1>2, <1>3, FS_EmptySet DEF Seen
<1>5. Accounted(q)
  BY <1>2, <1>4 DEF Accounted, Passes, AccountInv
<1> QED BY <1>1, <1>5 DEF q

\* What a prune with nothing seen or taken reports.
LEMMA NothingAccounted ==
  ASSUME NEW p, p.seen = [f \in {} |-> 0], p.took = {},
         p.reclaimed = 0, p.remaining = 0, p.removed = 0
  PROVE  Honest(p)
<1>1. Entries(p) = {}
  BY DEF Entries, EntriesOf, TempsOf
<1>2. {e \in Entries(p) : e \subseteq p.took} = {}
  BY <1>1
<1>3. DOMAIN p.seen \ p.took = {}
  OBVIOUS
<1> QED BY <1>2, <1>3, BytesOfFew, FS_EmptySet DEF Honest

LEMMA StatAccounted ==
  ASSUME AccountInv, Stat
  PROVE  Accounted(prune')
<1> DEFINE p == prune
<1>1. PICK f \in p.listing :
        IF p.cancelled
          THEN Act([p EXCEPT !.pc = "done", !.listing = {}, !.seen = NoPrune.seen])
          ELSE IF Exists(f)
            THEN \E age \in Age :
                   Act([p EXCEPT !.listing = @ \ {f},
                                 !.seen = [g \in DOMAIN @ \cup {f} |->
                                             IF g = f THEN age ELSE @[g]]])
            ELSE Act([p EXCEPT !.listing = @ \ {f}])
  BY DEF Stat
<1>2. /\ IsPrune(p) /\ Seen(p) /\ p.stuck \in BOOLEAN /\ p.pc = "scan" /\ p.victim = {}
      /\ p.entry = {} /\ p.listing \subseteq File /\ p.queue = {} /\ p.kept = {}
      /\ p.took = {} /\ p.reclaimed = 0 /\ p.remaining = 0 /\ p.removed = 0
  BY DEF Stat, AccountInv, Accounted, Passes
<1> HIDE DEF p
<1>3. CASE p.cancelled
  <2> DEFINE q == [p EXCEPT !.pc = "done", !.listing = {}, !.seen = NoPrune.seen]
  <2>1. /\ IsPrune(q) /\ q.pc = "done" /\ q.seen = [f_1 \in {} |-> 0] /\ q.took = {}
        /\ q.stuck = p.stuck /\ q.victim = {} /\ q.entry = {}
        /\ q.reclaimed = 0 /\ q.remaining = 0 /\ q.removed = 0
    BY <1>2 DEF IsPrune, NoPrune
  <2>2. prune' = q
    BY <1>1, <1>3 DEF Act
  <2> HIDE DEF q
  <2>3. Honest(q)
    BY <2>1, NothingAccounted
  <2>4. Seen(q)
    <3>1. DOMAIN q.seen = {}
      BY <2>1
    <3> QED BY <2>1, <3>1, FS_EmptySet DEF Seen
  <2> QED BY <1>2, <2>1, <2>2, <2>3, <2>4 DEF Accounted, Passes
<1>4. ASSUME NEW q, IsPrune(q), q.pc = p.pc, q.listing = p.listing \ {f}, q.took = p.took,
             q.queue = p.queue, q.kept = p.kept, q.entry = p.entry, q.victim = p.victim,
             q.stuck = p.stuck, q.reclaimed = p.reclaimed, q.remaining = p.remaining,
             q.removed = p.removed, Seen(q)
      PROVE  Accounted(q)
  BY <1>2, <1>4 DEF Accounted, Passes
<1>5. CASE ~p.cancelled /\ Exists(f)
  <2>1. PICK age \in Age :
          prune' = [p EXCEPT !.listing = @ \ {f},
                             !.seen = [g \in DOMAIN @ \cup {f} |->
                                         IF g = f THEN age ELSE @[g]]]
    BY <1>1, <1>5 DEF Act
  <2> DEFINE s == [g \in DOMAIN p.seen \cup {f} |-> IF g = f THEN age ELSE p.seen[g]]
             q == [p EXCEPT !.listing = @ \ {f}, !.seen = s]
  <2>2. prune' = q
    BY <2>1
  <2>3. /\ IsFiniteSet(DOMAIN p.seen) /\ DOMAIN p.seen \subseteq File
        /\ p.seen \in [DOMAIN p.seen -> Age] /\ f \in File
    BY <1>2 DEF Seen
  <2>4. DOMAIN s = DOMAIN p.seen \cup {f} /\ s \in [DOMAIN s -> Age]
    BY <2>3
  <2> HIDE DEF s
  <2>5. /\ IsPrune(q) /\ q.pc = p.pc /\ q.listing = p.listing \ {f} /\ q.took = p.took
        /\ q.queue = p.queue /\ q.kept = p.kept /\ q.entry = p.entry /\ q.victim = p.victim
        /\ q.stuck = p.stuck /\ q.reclaimed = p.reclaimed /\ q.remaining = p.remaining
        /\ q.removed = p.removed /\ q.seen = s
    BY <1>2 DEF IsPrune, NoPrune
  <2> HIDE DEF q
  <2>6. IsFiniteSet(DOMAIN s)
    BY <2>3, <2>4, FS_AddElement
  <2>7. Seen(q)
    BY <2>3, <2>4, <2>5, <2>6 DEF Seen
  <2> QED BY <1>4, <2>2, <2>5, <2>7
<1>6. CASE ~p.cancelled /\ ~Exists(f)
  <2> DEFINE q == [p EXCEPT !.listing = @ \ {f}]
  <2>1. /\ IsPrune(q) /\ q.pc = p.pc /\ q.listing = p.listing \ {f} /\ q.took = p.took
        /\ q.queue = p.queue /\ q.kept = p.kept /\ q.entry = p.entry /\ q.victim = p.victim
        /\ q.stuck = p.stuck /\ q.reclaimed = p.reclaimed /\ q.remaining = p.remaining
        /\ q.removed = p.removed /\ q.seen = p.seen
    BY <1>2 DEF IsPrune, NoPrune
  <2>2. prune' = q
    BY <1>1, <1>6 DEF Act
  <2> HIDE DEF q
  <2>3. Seen(q)
    BY <1>2, <2>1 DEF Seen
  <2> QED BY <1>4, <2>1, <2>2, <2>3
<1> QED BY <1>3, <1>5, <1>6

\* After the scan every entry waits, and nothing is decided.
LEMMA EndScanAccounted ==
  ASSUME AccountInv, EndScan
  PROVE  Accounted(prune')
<1> DEFINE p == prune
           q == [p EXCEPT !.pc = "incomplete", !.queue = EntriesOf(p.seen)]
<1>1. prune' = q
  BY DEF EndScan, Act
<1>2. /\ IsPrune(p) /\ Seen(p) /\ p.stuck \in BOOLEAN /\ p.pc = "scan" /\ p.victim = {}
      /\ p.entry = {} /\ p.kept = {}
      /\ p.took = {} /\ p.reclaimed = 0 /\ p.remaining = 0 /\ p.removed = 0
  BY DEF EndScan, AccountInv, Accounted, Passes
<1> HIDE DEF p
<1>3. /\ IsPrune(q) /\ q.pc = "incomplete" /\ q.queue = EntriesOf(p.seen) /\ q.seen = p.seen
      /\ q.kept = {} /\ q.took = {} /\ q.entry = {} /\ q.victim = {} /\ q.stuck = p.stuck
      /\ q.reclaimed = 0 /\ q.remaining = 0 /\ q.removed = 0
  BY <1>2 DEF IsPrune, NoPrune
<1> HIDE DEF q
<1>4. Seen(q) /\ Sorted(q) /\ Waiting(q) = Entries(q)
  BY <1>2, <1>3 DEF Seen, Sorted, Waiting, Entries
<1>5. (UNION Entries(q)) = DOMAIN q.seen /\ {} \notin Entries(q)
  BY <1>4, EntriesAreDisjoint
<1>6. Accounts(q, Entries(q))
  <2>1. (DOMAIN q.seen \ q.took) \ ((UNION Entries(q)) \cup q.entry) = {}
    BY <1>5
  <2>2. {e \in Entries(q) \ {q.entry} : e \subseteq q.took} = {}
    BY <1>3, <1>5
  <2>3. q.took \ q.entry = {}
    BY <1>3
  <2> QED BY <1>3, <2>1, <2>2, <2>3, BytesOfFew, FS_EmptySet DEF Accounts
<1> QED BY <1>1, <1>2, <1>3, <1>4, <1>6 DEF Accounted, Underway, Passes

\* The passes.
LEMMA KeepAccounted ==
  ASSUME NEW p, Accounted(p), p.pc \in {"incomplete", "age"}, NEW e \in p.queue
  PROVE  Accounted(Keep(p, e))
<1> DEFINE q == Keep(p, e)
<1>0. p.pc \in Passes /\ IsPrune(p) /\ Sorted(p)
  BY WaitingByPass DEF Passes
<1>1. /\ IsPrune(q) /\ q.pc = p.pc /\ q.seen = p.seen /\ q.took = p.took
      /\ q.queue = p.queue \ {e} /\ q.kept = p.kept \cup {e}
      /\ q.entry = p.entry /\ q.victim = p.victim /\ q.stuck = p.stuck
      /\ q.freed = p.freed /\ q.reclaimed = p.reclaimed
      /\ q.remaining = p.remaining /\ q.removed = p.removed
  BY <1>0 DEF Keep, IsPrune, NoPrune
<1> HIDE DEF q
<1>2. Waiting(q) = Waiting(p) /\ Sorted(q)
  BY <1>0, <1>1 DEF Waiting, Sorted
<1>3. q.pc \in Passes /\ q.pc # "size"
  BY <1>0, <1>1
<1> QED BY <1>1, <1>2, <1>3, <1>0, WaitingOn DEF q

LEMMA SweepIncompleteAccounted ==
  ASSUME AccountInv, SweepIncomplete
  PROVE  Accounted(prune')
<1> DEFINE p == prune
           q == [p EXCEPT !.pc = "temps", !.queue = TempsOf(p.seen)]
<1>1. /\ p.pc = "incomplete" /\ p.victim = {} /\ Accounted(p) /\ p.pc \in Passes
      /\ \/ p.queue = {} /\ prune' = q
         \/ \E e \in p.queue : prune' = Keep(p, e) \/ prune' = Residue(p, e)
  BY DEF SweepIncomplete, Ready, Evicting, AccountInv, Act, Passes
<1> HIDE DEF p
<1>2. /\ IsPrune(p) /\ Sorted(p) /\ EntriesOf(p.seen) \cap TempsOf(p.seen) = {}
  BY <1>1, WaitingByPass
<1>3. CASE p.queue = {} /\ prune' = q
  <2>1. /\ IsPrune(q) /\ q.pc = "temps" /\ q.seen = p.seen /\ q.took = p.took
        /\ q.queue = TempsOf(p.seen) /\ q.kept = p.kept
        /\ q.entry = p.entry /\ q.victim = p.victim /\ q.stuck = p.stuck
        /\ q.freed = p.freed /\ q.reclaimed = p.reclaimed
        /\ q.remaining = p.remaining /\ q.removed = p.removed
    BY <1>2 DEF IsPrune, NoPrune
  <2> HIDE DEF q
  <2>2. Waiting(q) = Waiting(p) /\ Sorted(q)
    BY <1>1, <1>2, <1>3, <2>1 DEF Waiting, Sorted
  <2>3. q.pc \in Passes /\ q.pc # "size"
    BY <2>1 DEF Passes
  <2> QED BY <1>1, <1>3, <2>1, <2>2, <2>3, WaitingOn
<1>4. ASSUME NEW e \in p.queue, prune' = Keep(p, e)
      PROVE  Accounted(prune')
  BY <1>1, <1>4, KeepAccounted
<1>5. ASSUME NEW e \in p.queue, prune' = Residue(p, e)
      PROVE  Accounted(prune')
  BY <1>1, <1>5, ResidueAccounted
<1> QED BY <1>1, <1>3, <1>4, <1>5

LEMMA SweepTempsAccounted ==
  ASSUME AccountInv, SweepTemps
  PROVE  Accounted(prune')
<1> DEFINE p == prune
           q == [p EXCEPT !.pc = "age", !.queue = p.kept, !.kept = {},
                          !.remaining = @ + Bytes(UNION p.queue)]
<1>1. /\ p.pc = "temps" /\ p.victim = {} /\ Accounted(p) /\ p.pc \in Passes
      /\ \/ prune' = q
         \/ \E e \in p.queue : prune' = Residue(p, e)
  BY DEF SweepTemps, Ready, Evicting, AccountInv, Act, Passes
<1> HIDE DEF p
<1>2. /\ IsPrune(p) /\ Sorted(p) /\ EntriesOf(p.seen) \cap TempsOf(p.seen) = {}
  BY <1>1, WaitingByPass
<1>3. CASE prune' = q
  <2>1. /\ IsPrune(q) /\ q.pc = "age" /\ q.seen = p.seen /\ q.took = p.took
        /\ q.queue = p.kept /\ q.kept = {}
        /\ q.entry = p.entry /\ q.victim = p.victim /\ q.stuck = p.stuck
        /\ q.freed = p.freed /\ q.reclaimed = p.reclaimed
        /\ q.remaining = p.remaining + Bytes(UNION p.queue) /\ q.removed = p.removed
    BY <1>2 DEF IsPrune, NoPrune
  <2> HIDE DEF q
  <2>2. Waiting(q) = Waiting(p) \ p.queue /\ Sorted(q) /\ p.queue \in SUBSET Waiting(p)
    BY <1>1, <1>2, <2>1 DEF Waiting, Sorted
  <2>3. q.pc \in Passes \ {"size"}
    BY <2>1 DEF Passes
  <2> QED BY <1>1, <1>3, <2>1, <2>2, <2>3, LeavingOn
<1>4. ASSUME NEW e \in p.queue, prune' = Residue(p, e)
      PROVE  Accounted(prune')
  BY <1>1, <1>4, ResidueAccounted
<1> QED BY <1>1, <1>3, <1>4

LEMMA SweepByAgeAccounted ==
  ASSUME AccountInv, SweepByAge
  PROVE  Accounted(prune')
<1> DEFINE p == prune
           q == [p EXCEPT !.pc = "size", !.queue = p.kept \cup p.queue, !.kept = {},
                          !.left = Bytes(UNION (p.kept \cup p.queue))]
<1>1. /\ p.pc = "age" /\ p.victim = {} /\ Accounted(p) /\ p.pc \in Passes
      /\ \/ prune' = q
         \/ \E e \in p.queue : prune' = Keep(p, e) \/ prune' = Evict(p, e)
  BY DEF SweepByAge, Oldest, Ready, Evicting, AccountInv, Act, Passes
<1> HIDE DEF p
<1>2. /\ IsPrune(p) /\ Sorted(p) /\ Seen(p) /\ p.entry = {} /\ Accounts(p, Waiting(p))
  BY <1>1, WaitingByPass
<1>3. CASE prune' = q
  <2>1. /\ IsPrune(q) /\ q.pc = "size" /\ q.seen = p.seen /\ q.took = p.took
        /\ q.queue = p.kept \cup p.queue /\ q.kept = {} /\ q.left = Bytes(UNION q.queue)
        /\ q.entry = p.entry /\ q.victim = p.victim /\ q.stuck = p.stuck
        /\ q.freed = p.freed /\ q.reclaimed = p.reclaimed
        /\ q.remaining = p.remaining /\ q.removed = p.removed
    BY <1>2 DEF IsPrune, NoPrune
  <2> HIDE DEF q
  <2>2. Waiting(q) = Waiting(p) /\ Sorted(q)
    BY <1>1, <1>2, <2>1 DEF Waiting, Sorted
  <2>3. q.pc \in Passes
    BY <2>1 DEF Passes
  <2> QED BY <1>1, <1>3, <2>1, <2>2, <2>3, WaitingOn
<1>4. ASSUME NEW e \in p.queue, prune' = Keep(p, e)
      PROVE  Accounted(prune')
  BY <1>1, <1>4, KeepAccounted
<1>5. ASSUME NEW e \in p.queue, prune' = Evict(p, e)
      PROVE  Accounted(prune')
  BY <1>1, <1>2, <1>5, EvictingOn
<1> QED BY <1>1, <1>3, <1>4, <1>5

\* Once nothing waits, the account is the report.
LEMMA AccountsAreHonest ==
  ASSUME NEW p, Accounts(p, {}), p.entry = {}, Seen(p)
  PROVE  Honest(p)
<1>1. /\ p.reclaimed = Bytes(p.took \ p.entry)
      /\ p.remaining = Bytes((DOMAIN p.seen \ p.took) \ ((UNION {}) \cup p.entry))
      /\ p.removed = Cardinality({e \in Entries(p) \ {p.entry} : e \subseteq p.took})
      /\ {} \notin Entries(p)
  BY EntriesAreDisjoint DEF Accounts
<1>2. (DOMAIN p.seen \ p.took) \ ((UNION {}) \cup p.entry) = DOMAIN p.seen \ p.took
  OBVIOUS
<1>3. p.took \ p.entry = p.took
  OBVIOUS
<1>4. {e \in Entries(p) \ {p.entry} : e \subseteq p.took} = {e \in Entries(p) : e \subseteq p.took}
  BY <1>1
<1> QED BY <1>1, <1>2, <1>3, <1>4 DEF Honest

LEMMA SweepBySizeAccounted ==
  ASSUME AccountInv, SweepBySize
  PROVE  Accounted(prune')
<1> DEFINE p == prune
           q == [p EXCEPT !.pc = "done", !.remaining = @ + p.left]
<1>1. /\ p.pc = "size" /\ p.victim = {} /\ Accounted(p) /\ p.pc \in Passes
      /\ \/ prune' = q
         \/ \E e \in p.queue : prune' = Evict([p EXCEPT !.left = @ - Bytes(e)], e)
  BY DEF SweepBySize, Oldest, Ready, Evicting, AccountInv, Act, Passes
<1> HIDE DEF p
<1>2. /\ IsPrune(p) /\ Sorted(p) /\ Seen(p) /\ p.entry = {} /\ Accounts(p, Waiting(p))
      /\ p.left = Bytes(UNION p.queue) /\ p.kept = {}
  BY <1>1, WaitingByPass DEF Sorted
<1>3. Waiting(p) = p.queue
  BY <1>1, <1>2 DEF Waiting
<1>4. CASE prune' = q
  <2>1. /\ IsPrune(q) /\ q.pc = "done" /\ q.seen = p.seen /\ q.took = p.took
        /\ q.entry = p.entry /\ q.victim = p.victim /\ q.stuck = p.stuck
        /\ q.freed = p.freed /\ q.reclaimed = p.reclaimed
        /\ q.remaining = p.remaining + p.left /\ q.removed = p.removed
    BY <1>2 DEF IsPrune, NoPrune
  <2> HIDE DEF q
  <2>2. Accounts(q, p.queue \ p.queue)
    BY <1>2, <1>3, <2>1, LeavingAccounts
  <2>3. p.queue \ p.queue = {} /\ Seen(q) /\ q.entry = {}
    BY <1>2, <2>1 DEF Seen
  <2>4. Honest(q)
    BY <2>2, <2>3, AccountsAreHonest
  <2>5. q.stuck \in BOOLEAN
    BY <1>1, <2>1 DEF Accounted
  <2> QED BY <1>1, <1>2, <1>4, <2>1, <2>3, <2>4, <2>5 DEF Accounted, Passes
<1>5. ASSUME NEW e \in p.queue, prune' = Evict([p EXCEPT !.left = @ - Bytes(e)], e)
      PROVE  Accounted(prune')
  <2> DEFINE r == [p EXCEPT !.left = @ - Bytes(e)]
  <2>1. /\ IsPrune(r) /\ r.pc = "size" /\ r.seen = p.seen /\ r.took = p.took
        /\ r.entry = p.entry /\ r.victim = p.victim /\ r.stuck = p.stuck
        /\ r.freed = p.freed /\ r.reclaimed = p.reclaimed
        /\ r.remaining = p.remaining /\ r.removed = p.removed
        /\ r.queue = p.queue /\ r.kept = p.kept /\ r.left = p.left - Bytes(e)
    BY <1>1, <1>2 DEF IsPrune, NoPrune
  <2> HIDE DEF r
  <2>2. Seen(r) /\ Sorted(r) /\ Waiting(r) = Waiting(p)
    BY <1>1, <1>2, <2>1 DEF Seen, Sorted, Waiting
  <2>3. Accounts(r, Waiting(p))
    BY <1>2, <2>1, AccountsOfTheSame
  <2>4. Bytes(UNION (p.queue \ {e})) = Bytes(UNION p.queue) - Bytes(e)
    <3> DEFINE U == UNION (p.queue \ {e})
    <3>1. /\ p.queue \subseteq Entries(p)
          /\ \A x, o \in Entries(p) : x # o => x \cap o = {}
          /\ \A x \in Entries(p) : x \subseteq DOMAIN p.seen
      BY <1>2, <1>3, EntriesAreDisjoint DEF Accounts
    <3>2. (UNION p.queue) = U \cup (UNION {e}) /\ U \cap (UNION {e}) = {}
      <4>1. \A x, o \in p.queue : x # o => x \cap o = {}
        BY <3>1
      <4>2. {e} \in SUBSET p.queue
        OBVIOUS
      <4> QED BY <4>1, <4>2, UnionsOfParts
    <3>3. (UNION {e}) = e /\ U \subseteq DOMAIN p.seen /\ e \subseteq DOMAIN p.seen
      BY <3>1
    <3> HIDE DEF U
    <3>4. IsFiniteSet(U) /\ IsFiniteSet(e)
      BY <1>2, <3>3, FilesAreFinite
    <3>5. (UNION p.queue) = U \cup e /\ U \cap e = {}
      BY <3>2, <3>3
    <3>6. Bytes(U \cup e) = Bytes(U) + Bytes(e) /\ Bytes(U) \in Nat /\ Bytes(e) \in Nat
      BY <3>4, <3>5, BytesAddUp
    <3>7. \A a, b \in Nat : (a + b) - b = a
      OBVIOUS
    <3>8. (Bytes(U) + Bytes(e)) - Bytes(e) = Bytes(U)
      BY <3>6, <3>7
    <3> QED BY <3>5, <3>6, <3>8 DEF U
  <2>5. r.left = Bytes(UNION (r.queue \ {e}))
    BY <1>2, <2>1, <2>4
  <2>6. Accounted(Evict(r, e))
    BY <1>1, <1>2, <2>1, <2>2, <2>3, <2>5, EvictingOn
  <2> QED BY <1>5, <2>6 DEF r
<1> QED BY <1>1, <1>4, <1>5

\* One file of the entry at hand, and the entry's count when it was the last.
LEMMA RemoveFileAccounted ==
  ASSUME AccountInv, RemoveFile
  PROVE  Accounted(prune')
<1> DEFINE p == prune
           f == CHOOSE g \in p.victim :
                  g[2] = "body" \/ \A h \in p.victim : h[2] # "body"
           settled == [p EXCEPT !.victim = @ \ {f}]
           gone    == [settled EXCEPT !.freed = @ + FileSize[f[2]], !.took = @ \cup {f}]
           kept    == [settled EXCEPT !.stuck = TRUE]
           After(q) == IF q.victim = {} THEN Counted(q) ELSE q
<1>1. p.victim # {} /\ (prune' = After(gone) \/ prune' = After(kept))
  BY DEF RemoveFile, Evicting, Act
<1>2. f \in p.victim
  <2>1. \E g \in p.victim : g[2] = "body" \/ \A h \in p.victim : h[2] # "body"
    BY <1>1
  <2> QED BY <2>1
<1>3. Accounted(p) /\ p.pc \in Passes
  BY <1>1 DEF AccountInv, Accounted
<1> HIDE DEF p, f
<1>4. /\ IsPrune(p) /\ Seen(p) /\ Sorted(p) /\ Accounts(p, Waiting(p))
      /\ p.stuck \in BOOLEAN /\ (p.pc = "size" => p.left = Bytes(UNION p.queue))
  BY <1>3, WaitingByPass DEF Accounted
<1>5. p.entry # {}
  BY <1>2, <1>4 DEF Accounts
<1>6. ASSUME NEW q, IsPrune(q), q.pc = p.pc, q.queue = p.queue, q.kept = p.kept,
             q.left = p.left, q.seen = p.seen, q.entry = p.entry,
             q.victim = p.victim \ {f}, q.reclaimed = p.reclaimed,
             q.remaining = p.remaining, q.removed = p.removed, q.stuck \in BOOLEAN,
             \/ /\ q.took = p.took \cup {f} /\ q.freed = p.freed + FileSize[f[2]]
                /\ q.stuck = p.stuck
             \/ q.took = p.took /\ q.freed = p.freed /\ q.stuck = TRUE
      PROVE  Accounted(After(q))
  <2>1. Accounts(q, Waiting(p))
    BY <1>2, <1>4, <1>6, TriedAccounts
  <2>2. Seen(q) /\ Sorted(q) /\ Waiting(q) = Waiting(p) /\ q.pc \in Passes
        /\ (q.pc = "size" => q.left = Bytes(UNION q.queue))
    BY <1>3, <1>4, <1>6 DEF Seen, Sorted, Waiting
  <2>3. q.pc \notin {"idle", "scan", "done"} /\ q.pc \in Passes
    BY <2>2 DEF Passes
  <2>4. CASE q.victim # {}
    BY <1>6, <2>1, <2>2, <2>3, <2>4 DEF Accounted, Underway
  <2>5. CASE q.victim = {}
    <3> DEFINE r == Counted(q)
    <3>1. /\ IsPrune(r) /\ r.pc = q.pc /\ r.queue = q.queue /\ r.kept = q.kept
          /\ r.left = q.left /\ r.seen = q.seen /\ r.entry = {} /\ r.victim = {}
          /\ r.stuck = q.stuck
      BY <1>6, <2>5 DEF Counted, IsPrune, NoPrune
    <3>2. Accounts(r, Waiting(q))
      BY <1>5, <1>6, <2>1, <2>2, <2>5, CountedAccounts
    <3> HIDE DEF r
    <3>3. Seen(r) /\ Sorted(r) /\ Waiting(r) = Waiting(q)
          /\ (r.pc = "size" => r.left = Bytes(UNION r.queue))
      BY <2>2, <3>1 DEF Seen, Sorted, Waiting
    <3>4. Accounted(r)
      BY <1>6, <2>3, <3>1, <3>2, <3>3 DEF Accounted, Underway
    <3> QED BY <2>5, <3>4 DEF r
  <2> QED BY <2>4, <2>5
<1>7. /\ IsPrune(gone) /\ gone.pc = p.pc /\ gone.queue = p.queue /\ gone.kept = p.kept
      /\ gone.left = p.left /\ gone.seen = p.seen /\ gone.entry = p.entry
      /\ gone.victim = p.victim \ {f} /\ gone.reclaimed = p.reclaimed
      /\ gone.remaining = p.remaining /\ gone.removed = p.removed /\ gone.stuck = p.stuck
      /\ gone.took = p.took \cup {f} /\ gone.freed = p.freed + FileSize[f[2]]
  BY <1>4 DEF IsPrune, NoPrune
<1>8. /\ IsPrune(kept) /\ kept.pc = p.pc /\ kept.queue = p.queue /\ kept.kept = p.kept
      /\ kept.left = p.left /\ kept.seen = p.seen /\ kept.entry = p.entry
      /\ kept.victim = p.victim \ {f} /\ kept.reclaimed = p.reclaimed
      /\ kept.remaining = p.remaining /\ kept.removed = p.removed /\ kept.stuck = TRUE
      /\ kept.took = p.took /\ kept.freed = p.freed
  BY <1>4 DEF IsPrune, NoPrune
<1> HIDE DEF gone, kept
<1>9. Accounted(After(gone))
  <2> HIDE DEF After
  <2>1. gone.stuck \in BOOLEAN
    BY <1>4, <1>7
  <2> QED BY <1>6, <1>7, <2>1
<1>10. Accounted(After(kept))
  <2> HIDE DEF After
  <2> QED BY <1>6, <1>8
<1> QED BY <1>1, <1>9, <1>10

LEMMA CancelAccounted ==
  ASSUME AccountInv, CancelPrune
  PROVE  Accounted(prune')
<1> DEFINE p == prune
           q == [p EXCEPT !.cancelled = TRUE]
<1>1. prune' = q /\ Accounted(p) /\ p.pc \in {"scan"} \cup Passes
  BY DEF CancelPrune, Act, AccountInv
<1> HIDE DEF p
<1>2. /\ IsPrune(q) /\ q.pc = p.pc /\ q.queue = p.queue /\ q.kept = p.kept
      /\ q.left = p.left /\ q.seen = p.seen /\ q.entry = p.entry /\ q.victim = p.victim
      /\ q.reclaimed = p.reclaimed /\ q.remaining = p.remaining /\ q.removed = p.removed
      /\ q.stuck = p.stuck /\ q.took = p.took /\ q.freed = p.freed /\ q.listing = p.listing
  <2>1. IsPrune(p)
    BY <1>1 DEF Accounted
  <2> QED BY <2>1 DEF IsPrune, NoPrune
<1> HIDE DEF q
<1>3. CASE p.pc = "scan"
  <2>1. Seen(q)
    BY <1>1, <1>2 DEF Accounted, Seen
  <2> QED BY <1>1, <1>2, <1>3, <2>1 DEF Accounted, Passes
<1>4. CASE p.pc \in Passes
  <2>1. Sorted(p) /\ (p.pc = "size" => p.left = Bytes(UNION p.queue))
    BY <1>1, <1>4, WaitingByPass
  <2>2. Waiting(q) = Waiting(p) /\ Sorted(q) /\ (q.pc = "size" => q.left = Bytes(UNION q.queue))
    BY <1>2, <2>1 DEF Waiting, Sorted
  <2> QED BY <1>1, <1>2, <1>4, <2>2, WaitingOn
<1> QED BY <1>1, <1>3, <1>4

LEMMA PruneStepAccounted ==
  ASSUME AccountInv, PruneStep
  PROVE  Accounted(prune')
BY StartAccounted, StatAccounted, EndScanAccounted, RemoveFileAccounted,
   SweepIncompleteAccounted, SweepTempsAccounted, SweepByAgeAccounted,
   SweepBySizeAccounted, CancelAccounted DEF PruneStep

----------------------------------------------------------------------------
(* The caps.                                                               *)

\* What a prune that is under way has taken, and what waits.
LEMMA WaitingEntriesStay ==
  ASSUME NEW p, Accounted(p), p.pc \in Passes
  PROVE  /\ \A e \in p.queue \cup p.kept : e \in Entries(p) /\ ~(e \subseteq p.took)
         /\ p.entry \notin p.queue \cup p.kept
         /\ {} \notin Entries(p) /\ {} \notin Whole(p) /\ Whole(p) \subseteq Entries(p)
         /\ \A e \in Whole(p) : EntryAge(p.seen, e) \in Age
<1>1. Seen(p) /\ Accounts(p, Waiting(p))
  BY WaitingByPass
<1>2. /\ {} \notin Entries(p) /\ \A e, o \in Entries(p) : e # o => e \cap o = {}
  BY <1>1, EntriesAreDisjoint
<1>3. Whole(p) \subseteq Entries(p)
  BY DEF Whole, Entries
<1>4. p.queue \cup p.kept \subseteq Waiting(p)
  BY DEF Waiting
<1>5. /\ Waiting(p) \subseteq Entries(p) /\ p.took \cap (UNION Waiting(p)) = {}
      /\ p.entry # {} => p.entry \notin Waiting(p)
  BY <1>1 DEF Accounts
<1>6. ASSUME NEW e \in p.queue \cup p.kept
      PROVE  e \in Entries(p) /\ ~(e \subseteq p.took)
  <2>1. e \in Waiting(p) /\ e \in Entries(p) /\ e # {}
    BY <1>2, <1>4, <1>5
  <2>2. PICK x : x \in e
    BY <2>1
  <2>3. x \notin p.took
    BY <1>5, <2>1, <2>2
  <2> QED BY <2>1, <2>2, <2>3
<1>7. p.entry \notin p.queue \cup p.kept
  BY <1>2, <1>4, <1>5
<1>8. \A e \in Whole(p) : EntryAge(p.seen, e) \in Age
  BY <1>1, <1>3, EntriesAge
<1> QED BY <1>2, <1>3, <1>6, <1>7, <1>8

\* What the caps are about.
LEMMA CappedOfTheSame ==
  ASSUME NEW p, Capped(p), NEW q, q.pc = p.pc, q.seen = p.seen, q.queue = p.queue,
         q.kept = p.kept, Gone(q) = Gone(p)
  PROVE  Capped(q)
<1>1. Whole(q) = Whole(p)
  BY DEF Whole
<1>2. \A e : TooOld(q, e) <=> TooOld(p, e)
  BY DEF TooOld
<1>3. BySize(q, Gone(q)) = BySize(p, Gone(p))
  BY <1>2 DEF BySize
<1>4. Older(q, Gone(q), q.queue \cup q.kept) <=> Older(p, Gone(p), p.queue \cup p.kept)
  BY DEF Older
<1> QED BY <1>1, <1>2, <1>3, <1>4 DEF Capped

\* The entry that a pass takes is going; what went before it is gone.
LEMMA EvictingGoes ==
  ASSUME NEW p, Accounted(p), p.pc \in Passes, p.victim = {}, NEW e, NEW q,
         q.seen = p.seen, q.took = p.took, q.entry = e
  PROVE  /\ Whole(q) = Whole(p)
         /\ Gone(q) = Gone(p) \cup ({e} \cap Whole(p))
         /\ Gone(p) = Evicted(p)
<1>1. p.entry = {} /\ {} \notin Whole(p)
  BY WaitingByPass, WaitingEntriesStay
<1>2. Whole(q) = Whole(p)
  BY DEF Whole
<1> QED BY <1>1, <1>2 DEF Gone, Evicted

LEMMA EndScanCapped ==
  ASSUME AccountInv, CapsInv, EndScan, Accounted(prune')
  PROVE  MeetingCaps(prune')
<1> DEFINE p == prune
           q == [p EXCEPT !.pc = "incomplete", !.queue = EntriesOf(p.seen)]
<1>1. prune' = q
  BY DEF EndScan, Act
<1>2. /\ IsPrune(p) /\ p.kept = {} /\ p.took = {} /\ p.entry = {}
      /\ p.cancelled \in BOOLEAN /\ p.failed \in BOOLEAN
  BY DEF EndScan, AccountInv, Accounted, Passes, CapsInv, MeetingCaps
<1> HIDE DEF p
<1>3. /\ q.pc = "incomplete" /\ q.queue = EntriesOf(p.seen) /\ q.seen = p.seen
      /\ q.kept = {} /\ q.took = {} /\ q.entry = {}
      /\ q.cancelled = p.cancelled /\ q.failed = p.failed
  BY <1>2 DEF IsPrune, NoPrune
<1>4. Accounted(q)
  BY <1>1
<1> HIDE DEF q
<1>5. {} \notin Whole(q)
  <2>1. q.pc \in Passes
    BY <1>3 DEF Passes
  <2> QED BY <1>4, <2>1, WaitingEntriesStay
<1>6. Gone(q) = {}
  BY <1>3, <1>5 DEF Gone
<1>7. Whole(q) \subseteq q.queue
  BY <1>3 DEF Whole
<1>8. Capped(q)
  BY <1>3, <1>6, <1>7 DEF Capped
<1> QED BY <1>1, <1>2, <1>3, <1>8 DEF MeetingCaps

\* A step that only moves entries, none of them whole, or keeps a whole one.
LEMMA SweepIncompleteCapped ==
  ASSUME AccountInv, CapsInv, SweepIncomplete
  PROVE  MeetingCaps(prune')
<1> DEFINE p == prune
<1>1. /\ p.pc = "incomplete" /\ p.victim = {} /\ Accounted(p) /\ p.pc \in Passes
      /\ \/ /\ p.queue = {}
            /\ prune' = [p EXCEPT !.pc = "temps", !.queue = TempsOf(p.seen)]
         \/ \E e \in p.queue :
              prune' = IF p.cancelled \/ Complete(e) THEN Keep(p, e) ELSE Residue(p, e)
  BY DEF SweepIncomplete, Ready, Evicting, AccountInv, Act, Passes
<1>2. MeetingCaps(p)
  BY DEF CapsInv
<1> HIDE DEF p
<1>3. /\ IsPrune(p) /\ Sorted(p) /\ EntriesOf(p.seen) \cap TempsOf(p.seen) = {} /\ p.entry = {}
      /\ p.cancelled \in BOOLEAN /\ p.failed \in BOOLEAN
  BY <1>1, <1>2, WaitingByPass DEF MeetingCaps
<1>4. Unstopped(p) => Capped(p)
  BY <1>1, <1>2 DEF MeetingCaps
<1>5. CASE p.queue = {} /\ prune' = [p EXCEPT !.pc = "temps", !.queue = TempsOf(p.seen)]
  <2> DEFINE q == [p EXCEPT !.pc = "temps", !.queue = TempsOf(p.seen)]
  <2>1. /\ q.pc = "temps" /\ q.seen = p.seen /\ q.took = p.took /\ q.kept = p.kept
        /\ q.entry = p.entry /\ q.victim = p.victim /\ q.stuck = p.stuck
        /\ q.cancelled = p.cancelled /\ q.failed = p.failed
    BY <1>3 DEF IsPrune, NoPrune
  <2> HIDE DEF q
  <2>2. Gone(q) = Gone(p) /\ Whole(q) = Whole(p) /\ (Unstopped(q) => Unstopped(p))
    BY <2>1 DEF Gone, Whole, Unstopped
  <2>3. Unstopped(q) => Capped(q)
    BY <1>1, <1>4, <1>5, <2>1, <2>2 DEF Capped
  <2> QED BY <1>3, <1>5, <2>1, <2>3 DEF MeetingCaps, q
<1>6. ASSUME NEW e \in p.queue, prune' = Keep(p, e), p.cancelled \/ Complete(e)
      PROVE  MeetingCaps(prune')
  <2> DEFINE q == Keep(p, e)
  <2>1. /\ q.pc = p.pc /\ q.seen = p.seen /\ q.took = p.took
        /\ q.queue = p.queue \ {e} /\ q.kept = p.kept \cup {e}
        /\ q.entry = p.entry /\ q.victim = p.victim /\ q.stuck = p.stuck
        /\ q.cancelled = p.cancelled /\ q.failed = p.failed
    BY <1>3 DEF Keep, IsPrune, NoPrune
  <2> HIDE DEF q
  <2>2. Gone(q) = Gone(p) /\ Whole(q) = Whole(p) /\ (Unstopped(q) => Unstopped(p))
    BY <2>1 DEF Gone, Whole, Unstopped
  <2>3. Unstopped(q) => e \in Whole(p)
    BY <1>1, <1>3, <1>6, <2>1 DEF Unstopped, Whole, Sorted
  <2>4. Unstopped(q) => Capped(q)
    BY <1>1, <1>4, <2>1, <2>2, <2>3 DEF Capped
  <2> QED BY <1>1, <1>3, <1>6, <2>1, <2>4 DEF MeetingCaps, q, Passes
<1>7. ASSUME NEW e \in p.queue, prune' = Residue(p, e), ~Complete(e)
      PROVE  MeetingCaps(prune')
  <2> DEFINE q == Residue(p, e)
  <2>1. /\ q.pc = p.pc /\ q.seen = p.seen /\ q.took = p.took
        /\ q.queue = p.queue \ {e} /\ q.kept = p.kept
        /\ q.entry \in {p.entry, e}
        /\ q.cancelled = p.cancelled /\ q.failed = p.failed
    BY <1>3 DEF Residue, Evict, IsPrune, NoPrune
  <2> HIDE DEF q
  <2>2. e \notin Whole(p) /\ {} \notin Whole(p)
    BY <1>1, <1>7, WaitingEntriesStay DEF Whole
  <2>3. Gone(q) = Gone(p) /\ Whole(q) = Whole(p) /\ (Unstopped(q) => Unstopped(p))
    BY <1>1, <1>3, <2>1, <2>2 DEF Gone, Whole, Unstopped
  <2>4. Unstopped(q) => Capped(q)
    BY <1>1, <1>4, <2>1, <2>2, <2>3 DEF Capped
  <2> QED BY <1>1, <1>3, <1>7, <2>1, <2>4 DEF MeetingCaps, q, Passes
<1> QED BY <1>1, <1>5, <1>6, <1>7

LEMMA SweepTempsCapped ==
  ASSUME AccountInv, CapsInv, SweepTemps
  PROVE  MeetingCaps(prune')
<1> DEFINE p == prune
           q0 == [p EXCEPT !.pc = "age", !.queue = p.kept, !.kept = {},
                           !.remaining = @ + Bytes(UNION p.queue)]
<1>1. /\ p.pc = "temps" /\ p.victim = {} /\ Accounted(p) /\ p.pc \in Passes
      /\ prune' = q0 \/ \E e \in p.queue : prune' = Residue(p, e)
  BY DEF SweepTemps, Ready, Evicting, AccountInv, Act, Passes
<1>2. MeetingCaps(p)
  BY DEF CapsInv
<1> HIDE DEF p
<1>3. /\ IsPrune(p) /\ Sorted(p) /\ EntriesOf(p.seen) \cap TempsOf(p.seen) = {} /\ p.entry = {}
      /\ p.cancelled \in BOOLEAN /\ p.failed \in BOOLEAN
  BY <1>1, <1>2, WaitingByPass DEF MeetingCaps
<1>4. Unstopped(p) => Capped(p)
  BY <1>1, <1>2 DEF MeetingCaps
<1>5. CASE prune' = q0
  <2>1. /\ q0.pc = "age" /\ q0.seen = p.seen /\ q0.took = p.took /\ q0.kept = {}
        /\ q0.queue = p.kept
        /\ q0.entry = p.entry /\ q0.victim = p.victim /\ q0.stuck = p.stuck
        /\ q0.cancelled = p.cancelled /\ q0.failed = p.failed
    BY <1>3 DEF IsPrune, NoPrune
  <2> HIDE DEF q0
  <2>2. Gone(q0) = Gone(p) /\ Whole(q0) = Whole(p) /\ (Unstopped(q0) => Unstopped(p))
    BY <2>1 DEF Gone, Whole, Unstopped
  <2>3. Unstopped(q0) => Capped(q0)
    BY <1>1, <1>4, <1>5, <2>1, <2>2 DEF Capped, Older
  <2> QED BY <1>3, <1>5, <2>1, <2>3 DEF MeetingCaps, q0
<1>6. ASSUME NEW e \in p.queue, prune' = Residue(p, e)
      PROVE  MeetingCaps(prune')
  <2> DEFINE q == Residue(p, e)
  <2>1. /\ q.pc = p.pc /\ q.seen = p.seen /\ q.took = p.took
        /\ q.queue = p.queue \ {e} /\ q.kept = p.kept
        /\ q.entry \in {p.entry, e}
        /\ q.cancelled = p.cancelled /\ q.failed = p.failed
    BY <1>3 DEF Residue, Evict, IsPrune, NoPrune
  <2> HIDE DEF q
  <2>2. e \notin Whole(p) /\ {} \notin Whole(p)
    BY <1>1, <1>3, WaitingEntriesStay DEF Whole, Sorted
  <2>3. Gone(q) = Gone(p) /\ Whole(q) = Whole(p) /\ (Unstopped(q) => Unstopped(p))
    BY <1>1, <1>3, <2>1, <2>2 DEF Gone, Whole, Unstopped
  <2>4. Unstopped(q) => Capped(q)
    BY <1>1, <1>4, <2>1, <2>2, <2>3 DEF Capped
  <2> QED BY <1>1, <1>3, <1>6, <2>1, <2>4 DEF MeetingCaps, q, Passes
<1> QED BY <1>1, <1>5, <1>6

LEMMA SweepByAgeCapped ==
  ASSUME AccountInv, CapsInv, SweepByAge
  PROVE  MeetingCaps(prune')
<1> DEFINE p == prune
           q0 == [p EXCEPT !.pc = "size", !.queue = p.kept \cup p.queue, !.kept = {},
                           !.left = Bytes(UNION (p.kept \cup p.queue))]
<1>1. /\ p.pc = "age" /\ p.victim = {} /\ Accounted(p) /\ p.pc \in Passes
      /\ \/ prune' = q0 /\ (p.queue = {} \/ p.cancelled \/ ~AgeCap)
         \/ AgeCap /\ \E e \in Oldest(p) :
              prune' = IF EntryAge(p.seen, e) < Old THEN Keep(p, e) ELSE Evict(p, e)
  BY DEF SweepByAge, Ready, Evicting, AccountInv, Act, Passes
<1>2. MeetingCaps(p)
  BY DEF CapsInv
<1> HIDE DEF p
<1>3. /\ IsPrune(p) /\ Sorted(p) /\ p.entry = {}
      /\ p.cancelled \in BOOLEAN /\ p.failed \in BOOLEAN
      /\ {} \notin Whole(p) /\ \A e \in Whole(p) : EntryAge(p.seen, e) \in Age
  BY <1>1, <1>2, WaitingByPass, WaitingEntriesStay DEF MeetingCaps
<1>4. Unstopped(p) =>
        /\ Whole(p) \subseteq Gone(p) \cup p.queue \cup p.kept
        /\ p.queue \cup p.kept \subseteq Whole(p)
        /\ Older(p, Gone(p), p.queue \cup p.kept)
        /\ \A e \in p.kept : EntryAge(p.seen, e) < Old
        /\ \A e \in Gone(p) : TooOld(p, e)
  BY <1>1, <1>2 DEF MeetingCaps, Capped
<1>5. CASE prune' = q0 /\ (p.queue = {} \/ p.cancelled \/ ~AgeCap)
  <2>1. /\ q0.pc = "size" /\ q0.seen = p.seen /\ q0.took = p.took /\ q0.kept = {}
        /\ q0.queue = p.kept \cup p.queue
        /\ q0.entry = p.entry /\ q0.victim = p.victim /\ q0.stuck = p.stuck
        /\ q0.cancelled = p.cancelled /\ q0.failed = p.failed
    BY <1>3 DEF IsPrune, NoPrune
  <2>2. prune' = q0
    BY <1>5
  <2> HIDE DEF q0
  <2>3. Gone(q0) = Gone(p) /\ Whole(q0) = Whole(p) /\ (Unstopped(q0) => Unstopped(p))
    BY <2>1 DEF Gone, Whole, Unstopped
  <2>4. SUFFICES ASSUME Unstopped(q0)
                 PROVE  Capped(q0)
    BY <1>3, <2>1, <2>2 DEF MeetingCaps
  <2>5. p.queue = {} \/ ~AgeCap
    BY <1>5, <2>1, <2>4 DEF Unstopped
  <2>6. \A e \in q0.queue : ~TooOld(q0, e)
    BY <1>4, <2>1, <2>3, <2>4, <2>5 DEF TooOld
  <2>7. BySize(q0, Gone(q0)) = {}
    BY <1>4, <2>1, <2>3, <2>4 DEF BySize, TooOld
  <2>8. Older(q0, Gone(q0), q0.queue \cup q0.kept)
    BY <1>4, <2>1, <2>3, <2>4 DEF Older
  <2>9. q0.queue \cup q0.kept = p.queue \cup p.kept
    BY <2>1
  <2> QED BY <1>4, <2>1, <2>3, <2>4, <2>6, <2>7, <2>8, <2>9 DEF Capped
<1>6. ASSUME NEW e \in Oldest(p), prune' = Keep(p, e), EntryAge(p.seen, e) < Old
      PROVE  MeetingCaps(prune')
  <2> DEFINE q == Keep(p, e)
  <2>1. /\ q.pc = p.pc /\ q.seen = p.seen /\ q.took = p.took
        /\ q.queue = p.queue \ {e} /\ q.kept = p.kept \cup {e}
        /\ q.entry = p.entry /\ q.victim = p.victim /\ q.stuck = p.stuck
        /\ q.cancelled = p.cancelled /\ q.failed = p.failed
    BY <1>3 DEF Keep, IsPrune, NoPrune
  <2>0. e \in p.queue
    BY DEF Oldest
  <2> HIDE DEF q
  <2>2. Gone(q) = Gone(p) /\ Whole(q) = Whole(p) /\ (Unstopped(q) => Unstopped(p))
    BY <2>1 DEF Gone, Whole, Unstopped
  <2>3. q.queue \cup q.kept = p.queue \cup p.kept
    BY <2>0, <2>1
  <2>4. SUFFICES ASSUME Unstopped(q)
                 PROVE  Capped(q)
    BY <1>1, <1>3, <1>6, <2>1 DEF MeetingCaps, q, Passes
  <2>5. /\ Whole(q) \subseteq Gone(q) \cup q.queue \cup q.kept
        /\ q.queue \cup q.kept \subseteq Whole(q)
    BY <1>4, <2>2, <2>3, <2>4
  <2>6. /\ Older(q, Gone(q), q.queue \cup q.kept)
        /\ \A o \in Gone(q) : TooOld(q, o)
        /\ \A o \in q.kept : EntryAge(q.seen, o) < Old
    BY <1>4, <1>6, <2>1, <2>2, <2>3, <2>4 DEF Older, TooOld
  <2> QED BY <1>1, <2>1, <2>5, <2>6 DEF Capped
<1>7. ASSUME NEW e \in Oldest(p), prune' = Evict(p, e), ~(EntryAge(p.seen, e) < Old), AgeCap
      PROVE  MeetingCaps(prune')
  <2> DEFINE q == Evict(p, e)
  <2>1. /\ q.pc = p.pc /\ q.seen = p.seen /\ q.took = p.took
        /\ q.queue = p.queue \ {e} /\ q.kept = p.kept /\ q.entry = e
        /\ q.cancelled = p.cancelled /\ q.failed = p.failed
    BY <1>3 DEF Evict, IsPrune, NoPrune
  <2>0. e \in p.queue /\ \A o \in p.queue : EntryAge(p.seen, e) >= EntryAge(p.seen, o)
    BY DEF Oldest
  <2> HIDE DEF q
  <2>2. Whole(q) = Whole(p) /\ Gone(q) = Gone(p) \cup ({e} \cap Whole(p))
    BY <1>1, <2>1, EvictingGoes
  <2>3. Unstopped(q) => Unstopped(p)
    BY <1>1, <2>1 DEF Unstopped
  <2>4. SUFFICES ASSUME Unstopped(q)
                 PROVE  Capped(q)
    BY <1>1, <1>3, <1>7, <2>1 DEF MeetingCaps, q, Passes
  <2>5. e \in Whole(p) /\ Gone(q) = Gone(p) \cup {e}
    BY <1>4, <2>0, <2>2, <2>3, <2>4
  <2>6. \A o \in Gone(q) : TooOld(q, o)
    BY <1>4, <1>7, <2>1, <2>3, <2>4, <2>5 DEF TooOld
  <2>7. \A o \in p.kept : EntryAge(p.seen, e) >= EntryAge(p.seen, o)
    <3>1. \A x, y \in Age : ~(x < Old) /\ y < Old => x >= y
      BY DEF Age, Young, Old
    <3>2. \A o \in p.kept : o \in Whole(p) /\ EntryAge(p.seen, o) < Old
      BY <1>4, <2>3, <2>4
    <3> QED BY <1>3, <1>7, <2>5, <3>1, <3>2
  <2>8. Older(q, Gone(q), q.queue \cup q.kept)
    BY <1>4, <2>0, <2>1, <2>3, <2>4, <2>5, <2>7 DEF Older
  <2>9. /\ Whole(q) \subseteq Gone(q) \cup q.queue \cup q.kept
        /\ q.queue \cup q.kept \subseteq Whole(q)
        /\ \A o \in q.kept : EntryAge(q.seen, o) < Old
    BY <1>4, <2>1, <2>2, <2>3, <2>4, <2>5
  <2> QED BY <1>1, <2>1, <2>6, <2>8, <2>9 DEF Capped
<1> QED BY <1>1, <1>5, <1>6, <1>7

LEMMA SweepBySizeCapped ==
  ASSUME AccountInv, CapsInv, SweepBySize
  PROVE  MeetingCaps(prune')
<1> DEFINE p == prune
           q0 == [p EXCEPT !.pc = "done", !.remaining = @ + p.left]
           Stop == p.queue = {} \/ SizeCap = 0 \/ p.left <= SizeCap \/ p.cancelled
<1>1. /\ p.pc = "size" /\ p.victim = {} /\ Accounted(p) /\ p.pc \in Passes
      /\ \/ prune' = q0 /\ Stop
         \/ ~Stop /\ \E e \in Oldest(p) : prune' = Evict([p EXCEPT !.left = @ - Bytes(e)], e)
  BY DEF SweepBySize, Ready, Evicting, AccountInv, Act, Passes
<1>2. MeetingCaps(p)
  BY DEF CapsInv
<1> HIDE DEF p
<1>3. /\ IsPrune(p) /\ p.entry = {} /\ p.kept = {} /\ p.left = Bytes(UNION p.queue)
      /\ p.cancelled \in BOOLEAN /\ p.failed \in BOOLEAN
      /\ {} \notin Whole(p)
  BY <1>1, <1>2, WaitingByPass, WaitingEntriesStay DEF MeetingCaps, Sorted
<1>4. Unstopped(p) =>
        /\ Whole(p) \subseteq Gone(p) \cup p.queue
        /\ p.queue \subseteq Whole(p)
        /\ Older(p, Gone(p), p.queue)
        /\ \A e \in p.queue : ~TooOld(p, e)
        /\ BySize(p, Gone(p)) # {} =>
             \E e \in BySize(p, Gone(p)) : Bytes(e \cup (UNION p.queue)) > SizeCap
  BY <1>1, <1>2, <1>3 DEF MeetingCaps, Capped
<1>5. CASE prune' = q0 /\ Stop
  <2>1. /\ q0.pc = "done" /\ q0.seen = p.seen /\ q0.took = p.took
        /\ q0.cancelled = p.cancelled /\ q0.failed = p.failed
    BY <1>3 DEF IsPrune, NoPrune
  <2>2. prune' = q0
    BY <1>5
  <2> HIDE DEF q0
  <2>3. SUFFICES ASSUME ~q0.cancelled, ~q0.failed
                 PROVE  MeetsCaps(q0)
    BY <1>3, <2>1, <2>2 DEF MeetingCaps, Passes
  <2>4. Unstopped(p)
    BY <1>1, <2>1, <2>3 DEF Unstopped
  <2>5. Evicted(q0) = Gone(p) /\ Stayed(q0) = p.queue
    <3>1. Gone(p) = Evicted(p)
      BY <1>3 DEF Gone, Evicted
    <3>2. Evicted(q0) = Evicted(p) /\ Whole(q0) = Whole(p)
      BY <2>1 DEF Evicted, Whole
    <3>3. \A e \in p.queue : e \notin Evicted(p)
      BY <1>1, WaitingEntriesStay DEF Evicted
    <3> QED BY <1>4, <2>4, <3>1, <3>2, <3>3 DEF Stayed
  <2>6. \A e : TooOld(q0, e) <=> TooOld(p, e)
    BY <2>1 DEF TooOld
  <2>7. BySize(q0, Evicted(q0)) = BySize(p, Gone(p))
    BY <2>5, <2>6 DEF BySize
  <2>8. Older(q0, Evicted(q0), Stayed(q0))
    BY <1>4, <2>1, <2>4, <2>5 DEF Older
  <2>9. SizeCap # 0 => Bytes(UNION Stayed(q0)) <= SizeCap
    <3>1. CASE p.queue = {}
      <4>1. Bytes(UNION Stayed(q0)) = 0
        <5>1. (UNION Stayed(q0)) = {}
          BY <2>5, <3>1
        <5> QED BY <5>1, BytesOfFew
      <4> QED BY <4>1, PruneAssumption
    <3>2. CASE p.left <= SizeCap
      BY <1>3, <2>5, <3>2
    <3> QED BY <1>5, <2>1, <2>3, <3>1, <3>2
  <2>10. AgeCap => \A e \in Stayed(q0) : EntryAge(q0.seen, e) < Old
    BY <1>4, <2>1, <2>4, <2>5 DEF TooOld
  <2> QED BY <1>4, <2>4, <2>5, <2>7, <2>8, <2>9, <2>10 DEF MeetsCaps
<1>6. ASSUME NEW e \in Oldest(p), prune' = Evict([p EXCEPT !.left = @ - Bytes(e)], e), ~Stop
      PROVE  MeetingCaps(prune')
  <2> DEFINE q == Evict([p EXCEPT !.left = @ - Bytes(e)], e)
  <2>1. /\ q.pc = p.pc /\ q.seen = p.seen /\ q.took = p.took
        /\ q.queue = p.queue \ {e} /\ q.kept = p.kept /\ q.entry = e
        /\ q.cancelled = p.cancelled /\ q.failed = p.failed
    BY <1>3 DEF Evict, IsPrune, NoPrune
  <2>0. e \in p.queue /\ \A o \in p.queue : EntryAge(p.seen, e) >= EntryAge(p.seen, o)
    BY DEF Oldest
  <2> HIDE DEF q
  <2>2. Whole(q) = Whole(p) /\ Gone(q) = Gone(p) \cup ({e} \cap Whole(p))
    BY <1>1, <2>1, EvictingGoes
  <2>3. Unstopped(q) => Unstopped(p)
    BY <1>1, <2>1 DEF Unstopped
  <2>4. SUFFICES ASSUME Unstopped(q)
                 PROVE  Capped(q)
    BY <1>1, <1>3, <1>6, <2>1 DEF MeetingCaps, q, Passes
  <2>5. e \in Whole(p) /\ Gone(q) = Gone(p) \cup {e}
    BY <1>4, <2>0, <2>2, <2>3, <2>4
  <2>6. Older(q, Gone(q), q.queue \cup q.kept)
    BY <1>3, <1>4, <2>0, <2>1, <2>3, <2>4, <2>5 DEF Older
  <2>7. \A o \in q.queue \cup {e} : ~TooOld(q, o)
    BY <1>4, <2>0, <2>1, <2>3, <2>4 DEF TooOld
  <2>8. e \cup (UNION q.queue) = (UNION p.queue)
    BY <2>0, <2>1
  <2>9. Bytes(e \cup (UNION q.queue)) > SizeCap
    <3>1. Bytes(UNION p.queue) \in Nat
      <4>1. Seen(p) /\ p.queue \subseteq Entries(p)
        BY <1>1, WaitingByPass, WaitingEntriesStay
      <4>2. \A o \in Entries(p) : o \subseteq DOMAIN p.seen
        BY <4>1, EntriesAreDisjoint
      <4>3. (UNION p.queue) \subseteq DOMAIN p.seen
        BY <4>1, <4>2
      <4> QED BY <4>1, <4>3, FilesAreFinite
    <3>2. Bytes(UNION p.queue) > SizeCap
      BY <1>3, <1>6, <3>1, PruneAssumption
    <3> QED BY <2>8, <3>2
  <2>10. e \in BySize(q, Gone(q))
    BY <2>5, <2>7 DEF BySize
  <2>11. /\ Whole(q) \subseteq Gone(q) \cup q.queue \cup q.kept
         /\ q.queue \cup q.kept \subseteq Whole(q)
    BY <1>3, <1>4, <2>1, <2>2, <2>3, <2>4, <2>5
  <2> QED BY <1>1, <2>1, <2>6, <2>7, <2>9, <2>10, <2>11 DEF Capped
<1> QED BY <1>1, <1>5, <1>6

\* A file more is gone, or is stuck: the entry at hand is going all the same.
LEMMA RemoveFileCapped ==
  ASSUME AccountInv, CapsInv, RemoveFile
  PROVE  MeetingCaps(prune')
<1> DEFINE p == prune
           f == CHOOSE g \in p.victim :
                  g[2] = "body" \/ \A h \in p.victim : h[2] # "body"
           settled == [p EXCEPT !.victim = @ \ {f}]
           gone    == [settled EXCEPT !.freed = @ + FileSize[f[2]], !.took = @ \cup {f}]
           kept    == [settled EXCEPT !.stuck = TRUE]
           After(q) == IF q.victim = {} THEN Counted(q) ELSE q
<1>1. p.victim # {} /\ (prune' = After(gone) \/ prune' = After(kept))
  BY DEF RemoveFile, Evicting, Act
<1>2. f \in p.victim
  <2>1. \E g \in p.victim : g[2] = "body" \/ \A h \in p.victim : h[2] # "body"
    BY <1>1
  <2> QED BY <2>1
<1>3. Accounted(p) /\ p.pc \in Passes /\ MeetingCaps(p)
  BY <1>1 DEF AccountInv, Accounted, CapsInv
<1> HIDE DEF p, f
<1>4. /\ IsPrune(p) /\ Seen(p) /\ Accounts(p, Waiting(p)) /\ p.stuck \in BOOLEAN
      /\ p.cancelled \in BOOLEAN /\ p.failed \in BOOLEAN /\ (Unstopped(p) => Capped(p))
  BY <1>3, WaitingByPass DEF Accounted, MeetingCaps
<1>5. /\ p.entry \in Entries(p) /\ p.victim \subseteq p.entry /\ f \in p.entry
      /\ (p.stuck <=> ~(p.entry \ p.victim \subseteq p.took))
      /\ \A e, o \in Entries(p) : e # o => e \cap o = {}
  <2>1. p.victim \subseteq p.entry /\ p.entry # {}
    BY <1>2, <1>4 DEF Accounts
  <2> QED BY <1>2, <1>4, <2>1, EntriesAreDisjoint DEF Accounts
<1>6. {} \notin Whole(p) /\ Whole(p) \subseteq Entries(p) /\ p.pc # "done"
  BY <1>3, WaitingEntriesStay DEF Passes
<1>7. /\ IsPrune(gone) /\ gone.pc = p.pc /\ gone.queue = p.queue /\ gone.kept = p.kept
      /\ gone.seen = p.seen /\ gone.entry = p.entry
      /\ gone.victim = p.victim \ {f} /\ gone.stuck = p.stuck /\ gone.took = p.took \cup {f}
      /\ gone.cancelled = p.cancelled /\ gone.failed = p.failed
  BY <1>4 DEF IsPrune, NoPrune
<1>8. /\ IsPrune(kept) /\ kept.pc = p.pc /\ kept.stuck = TRUE
      /\ kept.cancelled = p.cancelled /\ kept.failed = p.failed
  BY <1>4 DEF IsPrune, NoPrune
<1> HIDE DEF gone, kept
<1>9. MeetingCaps(After(kept))
  <2>1. CASE kept.victim # {}
    BY <1>4, <1>6, <1>8, <2>1 DEF MeetingCaps, Unstopped
  <2>2. CASE kept.victim = {}
    <3> DEFINE r == Counted(kept)
    <3>1. r.pc = p.pc /\ r.failed = TRUE /\ r.cancelled = p.cancelled
      BY <1>8 DEF Counted, IsPrune, NoPrune
    <3> HIDE DEF r
    <3>2. MeetingCaps(r)
      BY <1>4, <1>6, <3>1 DEF MeetingCaps, Unstopped
    <3> QED BY <2>2, <3>2 DEF r
  <2> QED BY <2>1, <2>2
<1>10. ASSUME NEW e \in Whole(p)
       PROVE  e # p.entry => (e \subseteq gone.took <=> e \subseteq p.took)
  <2>1. e # p.entry => f \notin e
    BY <1>5, <1>6
  <2> QED BY <1>7, <2>1
<1>11. CASE gone.victim # {}
  <2>1. Gone(gone) = Gone(p)
    <3>1. Whole(gone) = Whole(p)
      BY <1>7 DEF Whole
    <3> QED BY <1>7, <1>10, <3>1 DEF Gone
  <2>2. Unstopped(gone) => Unstopped(p)
    BY <1>7, <1>11 DEF Unstopped
  <2>3. Unstopped(gone) => Capped(gone)
    BY <1>4, <1>7, <2>1, <2>2, CappedOfTheSame
  <2>4. MeetingCaps(gone)
    BY <1>4, <1>6, <1>7, <2>3 DEF MeetingCaps
  <2> QED BY <1>1, <1>9, <1>11, <2>4
<1>12. CASE gone.victim = {}
  <2> DEFINE r == Counted(gone)
  <2>1. /\ r.pc = p.pc /\ r.queue = p.queue /\ r.kept = p.kept /\ r.seen = p.seen
        /\ r.entry = {} /\ r.took = p.took \cup {f} /\ r.cancelled = p.cancelled
        /\ r.failed = (p.failed \/ p.stuck)
    BY <1>7 DEF Counted, IsPrune, NoPrune
  <2> HIDE DEF r
  <2>2. ASSUME Unstopped(r)
        PROVE  Capped(r)
    <3>1. ~p.stuck /\ Unstopped(p)
      BY <1>4, <2>1, <2>2 DEF Unstopped
    <3>2. p.entry \subseteq gone.took
      BY <1>5, <1>7, <1>12, <3>1
    <3>3. Gone(r) = Gone(p)
      <4>1. Whole(r) = Whole(p)
        BY <2>1 DEF Whole
      <4>2. r.took = gone.took
        BY <1>7, <2>1
      <4> QED BY <1>6, <1>10, <2>1, <3>2, <4>1, <4>2 DEF Gone
    <3> QED BY <1>4, <2>1, <3>1, <3>3, CappedOfTheSame
  <2>3. r.failed \in BOOLEAN
    BY <1>4, <2>1
  <2>4. MeetingCaps(r)
    BY <1>4, <1>6, <2>1, <2>2, <2>3 DEF MeetingCaps
  <2> QED BY <1>1, <1>9, <1>12, <2>4 DEF r
<1> QED BY <1>11, <1>12

\* A prune that has not begun its passes, or is told to stop.
LEMMA OthersCapped ==
  ASSUME AccountInv, CapsInv, StartPrune \/ Stat \/ CancelPrune
  PROVE  MeetingCaps(prune')
<1> DEFINE p == prune
<1>1. /\ IsPrune(p) /\ p.cancelled \in BOOLEAN /\ p.failed \in BOOLEAN
  BY DEF AccountInv, Accounted, CapsInv, MeetingCaps
<1> HIDE DEF p
<1>2. ASSUME NEW q, q.pc = "scan" \/ q.cancelled, q.cancelled \in BOOLEAN, q.failed \in BOOLEAN
      PROVE  MeetingCaps(q)
  BY <1>2 DEF MeetingCaps, Unstopped, Passes
<1>3. CASE StartPrune
  <2>1. PICK dry \in BOOLEAN :
          prune' = [NoPrune EXCEPT !.pc = "scan", !.dry = dry, !.listing = DOMAIN disk]
    BY <1>3 DEF StartPrune
  <2>2. prune'.pc = "scan" /\ prune'.cancelled = FALSE /\ prune'.failed = FALSE
    BY <2>1 DEF NoPrune
  <2> QED BY <1>2, <2>2
<1>4. CASE Stat
  <2>1. /\ prune'.cancelled = p.cancelled /\ prune'.failed = p.failed
        /\ p.cancelled \/ prune'.pc = p.pc
    BY <1>1, <1>4 DEF Stat, Act, IsPrune, NoPrune, p
  <2>2. p.pc = "scan"
    BY <1>4 DEF Stat, p
  <2> QED BY <1>1, <1>2, <2>1, <2>2
<1>5. CASE CancelPrune
  <2>1. prune'.cancelled = TRUE /\ prune'.failed = p.failed
    BY <1>1, <1>5 DEF CancelPrune, Act, IsPrune, NoPrune, p
  <2> QED BY <1>1, <1>2, <2>1
<1> QED BY <1>3, <1>4, <1>5

LEMMA PruneStepCapped ==
  ASSUME AccountInv, CapsInv, PruneStep
  PROVE  MeetingCaps(prune')
BY EndScanAccounted, EndScanCapped, SweepIncompleteCapped, SweepTempsCapped,
   SweepByAgeCapped, SweepBySizeCapped, RemoveFileCapped, OthersCapped DEF PruneStep

\* The caps, as the property states them.
LEMMA CapsAreTheProperty == CapsInv => PruneMeetsItsCaps
<1> SUFFICES ASSUME CapsInv, prune.pc = "done", ~prune.cancelled, ~prune.failed
             PROVE  PruneMeetsItsCaps
  BY DEF PruneMeetsItsCaps
<1> DEFINE p == prune
           E == {e \in Evicted(p) : AgeCap => EntryAge(p.seen, e) < Old}
<1>1. MeetsCaps(p)
  BY DEF CapsInv, MeetingCaps
<1>2. BySize(p, Evicted(p)) = E
  BY DEF BySize, TooOld
<1>3. /\ AgeCap => \A e \in Stayed(p) : EntryAge(p.seen, e) < Old
      /\ SizeCap # 0 => Bytes(UNION Stayed(p)) <= SizeCap
      /\ \A e \in Evicted(p), o \in Stayed(p) : EntryAge(p.seen, e) >= EntryAge(p.seen, o)
      /\ E # {} => \E e \in E : Bytes(e \cup (UNION Stayed(p))) > SizeCap
  BY <1>1, <1>2 DEF MeetsCaps, Older
<1> QED BY <1>3 DEF PruneMeetsItsCaps, Evicted, Stayed, Whole

\* The files of the cache are the cache's, with a prune beside the requests.
LEMMA PruneNextIsTyped ==
  ASSUME CacheTypeOK, [PruneNext]_pruneVars
  PROVE  CacheTypeOK'
<1>1. CASE PruneStep
  <2>1. CASE UNCHANGED disk
    BY <1>1, <2>1, PruneOnlyRemoves DEF CacheTypeOK, ClientAt
  <2>2. ASSUME NEW f, Remove(f)
        PROVE  CacheTypeOK'
    <3>1. DOMAIN disk' \subseteq DOMAIN disk /\ disk' \in [DOMAIN disk' -> Nat]
      BY <2>2 DEF Remove, Restrict, CacheTypeOK
    <3>2. UNCHANGED <<server, client>>
      BY <1>1, PruneOnlyRemoves
    <3> QED BY <3>1, <3>2 DEF CacheTypeOK, ClientAt
  <2> QED BY <1>1, <2>1, <2>2, PruneOnlyRemoves
<1>2. ASSUME NEW c \in Client, RoundTrip(c)
      PROVE  CacheTypeOK'
  BY <1>2, RoundTripIsTyped
<1>3. ASSUME NEW k \in Key, ServerChanges(k)
      PROVE  CacheTypeOK'
  <2>1. server' \in [Key -> Nat]
    BY <1>3 DEF ServerChanges, CacheTypeOK
  <2> QED BY <1>3, <2>1 DEF ServerChanges, CacheTypeOK, ClientAt
<1>4. ASSUME NEW k \in Key, Damage(k)
      PROVE  CacheTypeOK'
  <2>1. DOMAIN disk' \subseteq File /\ disk' \in [DOMAIN disk' -> Nat]
    BY <1>4 DEF Damage, CacheTypeOK, Garbled
  <2> QED BY <1>4, <2>1 DEF Damage, CacheTypeOK, ClientAt
<1>5. CASE UNCHANGED pruneVars
  BY <1>5 DEF pruneVars, cacheVars, CacheTypeOK, ClientAt
<1> QED BY <1>1, <1>2, <1>3, <1>4, <1>5 DEF PruneNext, CacheNext

LEMMA PruneStaysAccounted ==
  ASSUME CacheTypeOK, AccountInv, CapsInv, [PruneNext]_pruneVars
  PROVE  CacheTypeOK' /\ AccountInv' /\ CapsInv'
<1>1. CacheTypeOK'
  BY PruneNextIsTyped
<1>2. Accounted(prune') /\ MeetingCaps(prune')
  <2>1. CASE PruneStep
    BY <2>1, PruneStepAccounted, PruneStepCapped
  <2>2. CASE UNCHANGED prune
    BY <2>2 DEF AccountInv, CapsInv
  <2> QED BY <2>1, <2>2 DEF PruneNext, pruneVars
<1> QED BY <1>1, <1>2 DEF AccountInv, CapsInv, CacheTypeOK

LEMMA InitIsAccounted == PruneInit => CacheTypeOK /\ AccountInv /\ CapsInv
<1> SUFFICES ASSUME PruneInit
             PROVE  CacheTypeOK /\ AccountInv /\ CapsInv
  OBVIOUS
<1>1. CacheTypeOK
  BY InitIsPaired DEF PruneInit, CacheInv
<1>2. /\ prune.pc = "idle" /\ prune.seen = [f \in {} |-> 0] /\ prune.stuck = FALSE
      /\ prune.victim = {} /\ prune.entry = {} /\ IsPrune(prune)
  BY DEF PruneInit, NoPrune, IsPrune
<1>3. Seen(prune)
  <2>1. DOMAIN prune.seen = {}
    BY <1>2
  <2> QED BY <1>2, <2>1, FS_EmptySet DEF Seen
<1>4. AccountInv
  BY <1>1, <1>2, <1>3 DEF AccountInv, Accounted, Passes, CacheTypeOK
<1>5. CapsInv
  BY DEF PruneInit, NoPrune, CapsInv, MeetingCaps, Passes
<1> QED BY <1>1, <1>4, <1>5

LEMMA PrunesStayAccounted == PruneSpec => [](AccountInv /\ CapsInv)
<1>1. PruneInit => CacheTypeOK /\ AccountInv /\ CapsInv
  BY InitIsAccounted
<1>2. (CacheTypeOK /\ AccountInv /\ CapsInv) /\ [PruneNext]_pruneVars
        => (CacheTypeOK /\ AccountInv /\ CapsInv)'
  BY PruneStaysAccounted
<1> QED BY <1>1, <1>2, PTL DEF PruneSpec

\* Whatever is cancelled, fails or vanishes, the report of a prune adds up:
\* reclaimed is what it took, remaining everything else its scan saw, and an
\* entry counts as removed only when all of it went (Prune, evict).
THEOREM ReportsAreHonest == PruneSpec => []ReportIsHonest
<1>1. AccountInv => ReportIsHonest
  BY DEF AccountInv, Accounted, Honest, Entries, ReportIsHonest
<1> QED BY <1>1, PrunesStayAccounted, PTL

\* A prune that ends without an error meets its caps on what its scan saw,
\* takes the oldest entries first and, by size, no more than it must
\* (sweepByAge, sweepBySize), for any files, sizes, ages and caps.
THEOREM PrunesMeetTheirCaps == PruneSpec => []PruneMeetsItsCaps
BY CapsAreTheProperty, PrunesStayAccounted, PTL

----------------------------------------------------------------------------
(* Opening the database                                                    *)

OpenPcs == {"closed", "count", "refused", "stamp", "ensure", "version", "apply", "open",
            "failed"}

MigrationTypeOK ==
  /\ embedded \in FileSets
  /\ database \in [generation : Nat, versions : SUBSET (Nat \ {Bookkeeping}),
                   schema : Seq(Nat)]
  /\ opening \in [Opener -> [pc : OpenPcs, generation : Nat, current : Nat]]

\* Nothing is known of another generation's database, unless it is empty.
DatabaseIsOrderly ==
  database.generation = SchemaGeneration \/ ~HasTables(database)
    => Orderly(database, embedded)

\* The files up to a version are recorded.
RecordedUpTo(v) == \A f \in embedded : f.version <= v => f.version \in database.versions

\* What an opener that has come this far can count on.
OpenerCountsOn(p) ==
  LET o == opening[p]
  IN /\ o.pc = "count" /\ o.generation = 0
          => database.generation \in {0, SchemaGeneration}
     /\ o.pc = "stamp"
          => database = EmptyDatabase \/ database.generation = SchemaGeneration
     /\ o.pc \in {"ensure", "version", "apply", "open"}
          => database.generation = SchemaGeneration
     /\ o.pc \in {"version", "apply", "open"} => Bookkeeping \in Executed(database)
     /\ o.pc \in {"apply", "open"} => ~DuplicateVersion /\ RecordedUpTo(o.current)
     /\ o.pc = "open" => \A f \in embedded : f.version <= o.current

MigrationInv ==
  /\ MigrationTypeOK
  /\ DatabaseIsOrderly
  /\ \A p \in Opener : OpenerCountsOn(p)

\* How a database may change: it is stamped, or what is logged grows.
DatabaseGrows ==
  /\ ~Foreign(database)
  /\ database'.generation = SchemaGeneration
  /\ database.versions \subseteq database'.versions
  /\ Executed(database) \subseteq Executed(database')

LEMMA VersionsAreNumbers ==
  MigrationTypeOK => \A f \in embedded : f.version \in Nat \ {0}
BY MigrationAssumption DEF MigrationTypeOK

\* A log that grows by a later version stays in order.
LEMMA AppendedLog ==
  ASSUME NEW s \in Seq(Nat), NEW v \in Nat,
         \A i, j \in DOMAIN s : i < j => s[i] < s[j],
         \A i \in DOMAIN s : s[i] < v
  PROVE  LET t == Append(s, v)
         IN /\ t \in Seq(Nat) /\ t # <<>>
            /\ {t[i] : i \in DOMAIN t} = {s[i] : i \in DOMAIN s} \cup {v}
            /\ \A i, j \in DOMAIN t : i < j => t[i] < t[j]
<1> DEFINE t == Append(s, v)
<1>1. /\ t \in Seq(Nat) /\ t # <<>>
      /\ DOMAIN t = 1..(Len(s) + 1)
      /\ DOMAIN s = 1..Len(s)
      /\ Len(s) \in Nat
      /\ \A i \in DOMAIN s : t[i] = s[i]
      /\ t[Len(s) + 1] = v
  OBVIOUS
<1> HIDE DEF t
<1>2. \A i \in DOMAIN t : i \in DOMAIN s \/ i = Len(s) + 1
  BY <1>1
<1>3. {t[i] : i \in DOMAIN t} = {s[i] : i \in DOMAIN s} \cup {v}
  <2>1. \A x \in {t[i] : i \in DOMAIN t} : x \in {s[i] : i \in DOMAIN s} \cup {v}
    BY <1>1, <1>2
  <2>2. \A i \in DOMAIN s : i \in DOMAIN t
    BY <1>1
  <2>3. v \in {t[i] : i \in DOMAIN t}
    BY <1>1
  <2> QED BY <1>1, <2>1, <2>2, <2>3
<1>4. ASSUME NEW i \in DOMAIN t, NEW j \in DOMAIN t, i < j
      PROVE  t[i] < t[j]
  <2>1. i \in DOMAIN s
    BY <1>1, <1>4
  <2>2. CASE j \in DOMAIN s
    BY <1>1, <1>4, <2>1, <2>2
  <2>3. CASE j = Len(s) + 1
    BY <1>1, <2>1, <2>3
  <2> QED BY <1>2, <2>2, <2>3
<1> QED BY <1>1, <1>3, <1>4 DEF t

\* There is a file of the lowest version among any.
LEMMA LowestIsOne ==
  ASSUME NEW files, files # {}, \A f \in files : f.version \in Nat
  PROVE  /\ Lowest(files) \in files
         /\ \A g \in files : Lowest(files).version <= g.version
<1> DEFINE V == {f.version : f \in files}
<1>1. V \subseteq Nat /\ V # {}
  OBVIOUS
<1>2. PICK v \in V : \A w \in V : <<w, v>> \notin OpToRel(<, Nat)
  <2> HIDE DEF V
  <2> QED BY <1>1, WFMin, NatLessThanWellFounded
<1>4. ASSUME NEW w \in V, w < v
      PROVE  FALSE
  <2>1. <<w, v>> \in Nat \X Nat /\ <<w, v>>[1] < <<w, v>>[2]
    BY <1>1, <1>4
  <2>2. <<w, v>> \in OpToRel(<, Nat)
    BY <2>1 DEF OpToRel
  <2> QED BY <1>2, <2>2
<1>5. ASSUME NEW w \in V
      PROVE  v <= w
  <2>1. v \in Nat /\ w \in Nat
    BY <1>1
  <2> QED BY <1>4, <2>1
<1>6. \E f \in files : \A g \in files : f.version <= g.version
  BY <1>5
<1> QED BY <1>6 DEF Lowest

\* The highest version of an ordered log is its last entry.
LEMMA HighestIsOne ==
  ASSUME NEW d \in [generation : Nat, versions : SUBSET (Nat \ {Bookkeeping}),
                    schema : Seq(Nat)],
         NEW files, Orderly(d, files), d.versions # {}
  PROVE  /\ Highest(d.versions) \in d.versions
         /\ \A w \in d.versions : w <= Highest(d.versions)
<1> DEFINE s == d.schema
<1>1. s \in Seq(Nat) /\ d.versions \subseteq Nat \ {0}
  BY DEF Bookkeeping
<1>2. /\ \A v \in d.versions : \E i \in DOMAIN s : v = s[i]
      /\ \A i \in DOMAIN s : s[i] \in d.versions \cup {0}
      /\ \A i, j \in DOMAIN s : i < j => s[i] < s[j]
  <2>1. d.versions \subseteq Executed(d) /\ Executed(d) \subseteq d.versions \cup {0}
    BY DEF Orderly, Bookkeeping
  <2> QED BY <2>1 DEF Orderly, Executed
<1> DEFINE n == Len(s)
           v == s[n]
<1>3. n \in DOMAIN s /\ DOMAIN s = 1..n /\ n \in Nat
  BY <1>1, <1>2
<1>4. ASSUME NEW w \in d.versions
      PROVE  w <= v
  <2>1. PICK i \in DOMAIN s : w = s[i]
    BY <1>2
  <2>2. CASE i = n
    BY <1>1, <2>1, <2>2
  <2>3. CASE i < n
    <3>1. w < v
      BY <1>2, <1>3, <2>1, <2>3
    <3>2. w \in Nat /\ v \in Nat
      BY <1>1, <1>3
    <3> QED BY <3>1, <3>2
  <2> QED BY <1>3, <2>1, <2>2, <2>3
<1>5. v \in d.versions
  <2>1. PICK w \in d.versions : TRUE
    OBVIOUS
  <2>2. w <= v /\ w \in Nat \ {0} /\ v \in d.versions \cup {0}
    BY <1>1, <1>2, <1>3, <1>4
  <2> QED BY <1>1, <2>2
<1> HIDE DEF v, n, s
<1> QED BY <1>4, <1>5 DEF Highest

LEMMA InitIsOrderly == MigrationInit => MigrationInv
<1> SUFFICES ASSUME MigrationInit
             PROVE  MigrationInv
  OBVIOUS
<1>1. MigrationTypeOK
  <2>1. database \in [generation : Nat, versions : SUBSET (Nat \ {Bookkeeping}),
                      schema : Seq(Nat)]
    BY FoundAssumption DEF MigrationInit
  <2>2. Closed \in [pc : OpenPcs, generation : Nat, current : Nat]
    BY DEF Closed, OpenPcs
  <2> QED BY <2>1, <2>2 DEF MigrationInit, MigrationTypeOK
<1>2. DatabaseIsOrderly
  BY FoundAssumption DEF MigrationInit, DatabaseIsOrderly
<1>3. ASSUME NEW p \in Opener
      PROVE  OpenerCountsOn(p)
  <2>1. opening[p].pc = "closed"
    BY DEF MigrationInit, Closed
  <2> QED BY <2>1 DEF OpenerCountsOn
<1> QED BY <1>1, <1>2, <1>3 DEF MigrationInv

\* Creating the bookkeeping table.
LEMMA EnsureIsOrderly ==
  ASSUME MigrationInv, NEW p \in Opener, EnsureSchemaVersion(p), UNCHANGED embedded
  PROVE  /\ database' = database \/ DatabaseGrows
         /\ Bookkeeping \in Executed(database')
         /\ database'.generation = SchemaGeneration
         /\ Orderly(database', embedded)
         /\ database' \in [generation : Nat, versions : SUBSET (Nat \ {Bookkeeping}),
                           schema : Seq(Nat)]
<1>1. /\ database.generation = SchemaGeneration
      /\ Orderly(database, embedded)
      /\ database \in [generation : Nat, versions : SUBSET (Nat \ {Bookkeeping}),
                       schema : Seq(Nat)]
  BY DEF MigrationInv, DatabaseIsOrderly, OpenerCountsOn, EnsureSchemaVersion,
         MigrationTypeOK
<1>2. CASE Bookkeeping \in Executed(database)
  <2>1. database' = database
    BY <1>1, <1>2 DEF EnsureSchemaVersion
  <2> QED BY <1>1, <1>2, <2>1
<1>3. CASE Bookkeeping \notin Executed(database)
  <2>1. database.schema = <<>> /\ database.versions = {}
    <3>1. ~HasTables(database)
      BY <1>1, <1>3 DEF Orderly
    <3>2. database.schema = <<>>
      BY <3>1 DEF HasTables
    <3>3. Executed(database) = {}
      BY <3>2 DEF Executed
    <3> QED BY <1>1, <3>1, <3>2, <3>3 DEF Orderly
  <2>2. database' = [database EXCEPT !.schema = Append(<<>>, Bookkeeping)]
    BY <1>3, <2>1 DEF EnsureSchemaVersion
  <2>3. /\ database'.generation = SchemaGeneration
        /\ database'.versions = {}
        /\ database'.schema = <<0>>
        /\ database' \in [generation : Nat, versions : SUBSET (Nat \ {Bookkeeping}),
                          schema : Seq(Nat)]
    <3>1. Append(<<>>, Bookkeeping) = <<0>> /\ <<0>> \in Seq(Nat)
      BY DEF Bookkeeping
    <3>2. database' = [database EXCEPT !.schema = <<0>>]
      BY <2>2, <3>1
    <3> QED BY <1>1, <2>1, <3>1, <3>2
  <2>4. Executed(database') = {0} /\ HasTables(database')
    BY <2>3 DEF Executed, HasTables
  <2>5. Orderly(database', embedded)
    BY <2>3, <2>4 DEF Orderly, Bookkeeping
  <2>6. DatabaseGrows
    <3>1. Executed(database) = {}
      BY <2>1 DEF Executed
    <3> QED BY <1>1, <2>1, <2>3, <3>1 DEF DatabaseGrows, Foreign
  <2> QED BY <2>3, <2>4, <2>5, <2>6 DEF Bookkeeping
<1> QED BY <1>2, <1>3

\* Applying the lowest file that is pending: everything up to it is recorded.
LEMMA MigrateIsOrderly ==
  ASSUME MigrationInv, NEW p \in Opener, UNCHANGED embedded,
         opening[p].pc = "apply", NEW f,
         Pending(opening[p].current) # {}, f = Lowest(Pending(opening[p].current)),
         MigrateInTx(p, f)
  PROVE  /\ f.version \in Nat
         /\ database' = database \/ DatabaseGrows
         /\ database'.generation = SchemaGeneration
         /\ Bookkeeping \in Executed(database')
         /\ \A g \in embedded : g.version <= f.version => g.version \in database'.versions
         /\ Orderly(database', embedded)
         /\ database' \in [generation : Nat, versions : SUBSET (Nat \ {Bookkeeping}),
                           schema : Seq(Nat)]
<1> DEFINE c == opening[p].current
<1>1. /\ database.generation = SchemaGeneration
      /\ Orderly(database, embedded)
      /\ database \in [generation : Nat, versions : SUBSET (Nat \ {Bookkeeping}),
                       schema : Seq(Nat)]
      /\ Bookkeeping \in Executed(database)
      /\ RecordedUpTo(c)
      /\ c \in Nat
  BY DEF MigrationInv, DatabaseIsOrderly, OpenerCountsOn, MigrationTypeOK
<1>2. \A g \in embedded : g.version \in Nat \ {0}
  BY VersionsAreNumbers DEF MigrationInv
<1>3. /\ f \in embedded /\ f.version > c
      /\ \A g \in embedded : g.version > c => f.version <= g.version
  <2>1. \A g \in Pending(c) : g.version \in Nat
    BY <1>2 DEF Pending
  <2>2. f \in Pending(c) /\ \A g \in Pending(c) : f.version <= g.version
    BY <2>1, LowestIsOne
  <2> QED BY <2>2 DEF Pending
<1>4. \A g \in embedded : g.version <= f.version => g.version \in database.versions
                                                      \/ g.version = f.version
  <2> SUFFICES ASSUME NEW g \in embedded, g.version <= f.version
               PROVE  g.version \in database.versions \/ g.version = f.version
    OBVIOUS
  <2>1. CASE g.version <= c
    BY <1>1, <2>1 DEF RecordedUpTo
  <2>2. CASE g.version > c
    BY <1>2, <1>3, <2>2
  <2> QED BY <1>1, <1>2, <2>1, <2>2
<1>5. CASE f.version \in database.versions
  <2>1. database' = database
    BY <1>5 DEF MigrateInTx, Migrated, Applied
  <2> QED BY <1>1, <1>2, <1>3, <1>4, <1>5, <2>1
<1>6. CASE f.version \notin database.versions
  <2>1. database' = [database EXCEPT !.versions = @ \cup {f.version},
                                     !.schema = Append(@, f.version)]
    BY <1>6 DEF MigrateInTx, Migrated, Applied
  <2>2. HasTables(database) /\ Executed(database) = database.versions \cup {Bookkeeping}
    <3>1. HasTables(database)
      BY <1>1 DEF HasTables, Executed
    <3> QED BY <1>1, <3>1 DEF Orderly
  <2>3. \A i \in DOMAIN database.schema : database.schema[i] < f.version
    <3> SUFFICES ASSUME NEW i \in DOMAIN database.schema
                 PROVE  database.schema[i] < f.version
      OBVIOUS
    <3>1. database.schema[i] \in database.versions \cup {0}
      BY <2>2 DEF Executed, Bookkeeping
    <3>2. \A v \in database.versions : v < f.version
      BY <1>1, <1>2, <1>3, <1>6 DEF Orderly
    <3> QED BY <1>2, <1>3, <3>1, <3>2
  <2>4. /\ database'.generation = SchemaGeneration
        /\ database'.versions = database.versions \cup {f.version}
        /\ database'.schema = Append(database.schema, f.version)
    BY <1>1, <2>1
  <2>5. /\ database'.schema \in Seq(Nat) /\ HasTables(database')
        /\ Executed(database') = Executed(database) \cup {f.version}
        /\ \A i, j \in DOMAIN database'.schema :
             i < j => database'.schema[i] < database'.schema[j]
    <3>1. /\ database.schema \in Seq(Nat)
          /\ f.version \in Nat
          /\ \A i, j \in DOMAIN database.schema :
               i < j => database.schema[i] < database.schema[j]
      BY <1>1, <1>2, <1>3 DEF Orderly
    <3>2. \A i \in DOMAIN database.schema : database.schema[i] < f.version
      BY <2>3
    <3> DEFINE t == Append(database.schema, f.version)
    <3>3. /\ t \in Seq(Nat) /\ t # <<>>
          /\ {t[i] : i \in DOMAIN t}
               = {database.schema[i] : i \in DOMAIN database.schema} \cup {f.version}
          /\ \A i, j \in DOMAIN t : i < j => t[i] < t[j]
      BY <3>1, <3>2, AppendedLog
    <3>4. database'.schema = t
      BY <2>4
    <3> HIDE DEF t
    <3> QED BY <3>3, <3>4 DEF Executed, HasTables
  <2>6. \A g \in embedded, v \in database'.versions :
          g.version <= v => g.version \in database'.versions
    BY <1>1, <1>4, <2>4 DEF Orderly
  <2>7. Orderly(database', embedded)
    BY <2>2, <2>4, <2>5, <2>6 DEF Orderly
  <2>8. database' \in [generation : Nat, versions : SUBSET (Nat \ {Bookkeeping}),
                       schema : Seq(Nat)]
    BY <1>1, <1>2, <1>3, <2>1, <2>5 DEF Bookkeeping
  <2>9. DatabaseGrows
    BY <1>1, <2>4, <2>5 DEF DatabaseGrows, Foreign
  <2> QED BY <1>1, <1>2, <1>3, <1>4, <2>4, <2>5, <2>7, <2>8, <2>9
<1> QED BY <1>5, <1>6

\* What every step makes of the database, and of the opener that takes it.
LEMMA OpeningStep ==
  ASSUME MigrationInv, NEW p \in Opener,
         OpenStep(p) \/ FailOpen(p) \/ CloseDatabase(p), UNCHANGED embedded
  PROVE  /\ database' = database \/ DatabaseGrows
         /\ database' \in [generation : Nat, versions : SUBSET (Nat \ {Bookkeeping}),
                           schema : Seq(Nat)]
         /\ DatabaseIsOrderly'
         /\ opening' \in [Opener -> [pc : OpenPcs, generation : Nat, current : Nat]]
         /\ \A q \in Opener \ {p} : opening'[q] = opening[q]
         /\ OpenerCountsOn(p)'
<1> DEFINE Typed == database' \in [generation : Nat, versions : SUBSET (Nat \ {Bookkeeping}),
                                   schema : Seq(Nat)]
           OpenerType == [pc : OpenPcs, generation : Nat, current : Nat]
<1>0. /\ MigrationTypeOK /\ DatabaseIsOrderly /\ OpenerCountsOn(p)
      /\ opening[p] \in OpenerType
  BY DEF MigrationInv, MigrationTypeOK
<1>1. ASSUME database' = database
      PROVE  Typed /\ DatabaseIsOrderly'
  BY <1>0, <1>1 DEF MigrationTypeOK, DatabaseIsOrderly, HasTables, Orderly, Executed
<1>2. ASSUME Orderly(database', embedded)
      PROVE  DatabaseIsOrderly'
  BY <1>2 DEF DatabaseIsOrderly, Orderly, Executed, HasTables
<1>3. ASSUME NEW o \in OpenerType, opening' = [opening EXCEPT ![p] = o]
      PROVE  /\ opening' \in [Opener -> OpenerType]
             /\ \A q \in Opener \ {p} : opening'[q] = opening[q]
             /\ opening'[p] = o
  BY <1>0, <1>3 DEF MigrationTypeOK
<1>4. ASSUME NEW pc \in OpenPcs, Step(p, pc)
      PROVE  /\ opening' \in [Opener -> OpenerType]
             /\ \A q \in Opener \ {p} : opening'[q] = opening[q]
             /\ opening'[p].pc = pc
             /\ opening'[p].generation = opening[p].generation
             /\ opening'[p].current = opening[p].current
  <2> DEFINE o == [opening[p] EXCEPT !.pc = pc]
  <2>1. /\ o \in OpenerType /\ o.pc = pc /\ o.generation = opening[p].generation
        /\ o.current = opening[p].current
    BY <1>0
  <2>2. opening' = [opening EXCEPT ![p] = o]
    BY <1>4 DEF Step
  <2> HIDE DEF o
  <2> QED BY <1>3, <2>1, <2>2
<1>5. CASE ReadGeneration(p)
  <2> DEFINE o == [Closed EXCEPT !.pc = IF database.generation = SchemaGeneration
                                          THEN "ensure" ELSE "count",
                                 !.generation = database.generation]
  <2>1. o \in OpenerType /\ o.generation = database.generation
    BY <1>0 DEF Closed, MigrationTypeOK, OpenPcs
  <2>2. o.pc = IF database.generation = SchemaGeneration THEN "ensure" ELSE "count"
    BY DEF Closed
  <2>3. opening' = [opening EXCEPT ![p] = o] /\ database' = database
    BY <1>5 DEF ReadGeneration
  <2> HIDE DEF o
  <2>4. /\ opening' \in [Opener -> OpenerType]
        /\ \A q \in Opener \ {p} : opening'[q] = opening[q]
        /\ opening'[p] = o
    BY <1>3, <2>1, <2>3
  <2>5. OpenerCountsOn(p)'
    BY <2>1, <2>2, <2>3, <2>4 DEF OpenerCountsOn
  <2> QED BY <1>1, <2>3, <2>4, <2>5
<1>6. CASE CountTables(p)
  <2>1. database' = database /\ opening[p].pc = "count"
    BY <1>6 DEF CountTables
  <2>2. CASE Stampable(p)
    <3>1. Step(p, "stamp") /\ opening[p].generation = 0 /\ ~HasTables(database)
      BY <1>6, <2>2 DEF CountTables, Stampable
    <3>2. database = EmptyDatabase \/ database.generation = SchemaGeneration
      <4>1. database.generation \in {0, SchemaGeneration}
        BY <1>0, <2>1, <3>1 DEF OpenerCountsOn
      <4>2. database.schema = <<>> /\ database.versions = {}
        <5>1. Orderly(database, embedded) /\ database.schema = <<>>
          BY <1>0, <3>1 DEF DatabaseIsOrderly, HasTables
        <5>2. Executed(database) = {}
          BY <5>1 DEF Executed
        <5> QED BY <3>1, <5>1, <5>2 DEF Orderly
      <4> QED BY <1>0, <4>1, <4>2 DEF EmptyDatabase, MigrationTypeOK
    <3>3. OpenerCountsOn(p)'
      BY <1>4, <2>1, <3>1, <3>2 DEF OpenerCountsOn, OpenPcs
    <3> QED BY <1>1, <1>4, <2>1, <3>1, <3>3 DEF OpenPcs
  <2>3. CASE ~Stampable(p)
    <3>1. Step(p, "refused")
      BY <1>6, <2>3 DEF CountTables
    <3>2. OpenerCountsOn(p)'
      BY <1>4, <3>1 DEF OpenerCountsOn, OpenPcs
    <3> QED BY <1>1, <1>4, <2>1, <3>1, <3>2 DEF OpenPcs
  <2> QED BY <2>2, <2>3
<1>7. CASE StampGeneration(p)
  <2>1. /\ opening[p].pc = "stamp"
        /\ database' = [database EXCEPT !.generation = SchemaGeneration]
        /\ Step(p, "ensure")
    BY <1>7 DEF StampGeneration
  <2>2. /\ database'.generation = SchemaGeneration
        /\ database'.versions = database.versions
        /\ database'.schema = database.schema
        /\ Typed
    BY <1>0, <2>1, MigrationAssumption DEF MigrationTypeOK
  <2>3. Executed(database') = Executed(database)
    BY <2>2 DEF Executed
  <2>4. ~Foreign(database) /\ Orderly(database, embedded)
    <3>1. database = EmptyDatabase \/ database.generation = SchemaGeneration
      BY <1>0, <2>1 DEF OpenerCountsOn
    <3>2. database = EmptyDatabase => ~HasTables(database)
      BY DEF EmptyDatabase, HasTables
    <3> QED BY <1>0, <3>1, <3>2 DEF Foreign, DatabaseIsOrderly
  <2>5. Orderly(database', embedded)
    BY <2>2, <2>3, <2>4 DEF Orderly, HasTables
  <2>6. DatabaseGrows
    BY <2>2, <2>3, <2>4 DEF DatabaseGrows
  <2>7. OpenerCountsOn(p)'
    BY <1>4, <2>1, <2>2 DEF OpenerCountsOn, OpenPcs
  <2> QED BY <1>2, <1>4, <2>1, <2>2, <2>5, <2>6, <2>7 DEF OpenPcs
<1>8. CASE EnsureSchemaVersion(p)
  <2>1. /\ database' = database \/ DatabaseGrows
        /\ Bookkeeping \in Executed(database')
        /\ database'.generation = SchemaGeneration
        /\ Orderly(database', embedded)
        /\ Typed
    BY <1>8, EnsureIsOrderly
  <2>2. Step(p, "version")
    BY <1>8 DEF EnsureSchemaVersion
  <2>3. OpenerCountsOn(p)'
    BY <1>4, <2>1, <2>2 DEF OpenerCountsOn, OpenPcs, Executed
  <2> QED BY <1>2, <1>4, <2>1, <2>2, <2>3 DEF OpenPcs
<1>9. CASE ReadVersion(p)
  <2> DEFINE c == Highest(database.versions)
  <2>1. /\ database' = database /\ opening[p].pc = "version"
        /\ database.generation = SchemaGeneration
        /\ Bookkeeping \in Executed(database)
        /\ Orderly(database, embedded)
    BY <1>0, <1>9 DEF ReadVersion, OpenerCountsOn, DatabaseIsOrderly
  <2>2. c \in Nat /\ RecordedUpTo(c)
    <3>1. CASE database.versions = {}
      <4>1. c = 0
        BY <3>1 DEF Highest
      <4> QED BY <1>0, <4>1, VersionsAreNumbers DEF RecordedUpTo
    <3>2. CASE database.versions # {}
      <4>1. c \in database.versions
        BY <1>0, <2>1, <3>2, HighestIsOne DEF MigrationTypeOK
      <4> QED BY <1>0, <2>1, <4>1 DEF MigrationTypeOK, RecordedUpTo, Orderly
    <3> QED BY <3>1, <3>2
  <2> HIDE DEF c
  <2> DEFINE o == [opening[p] EXCEPT !.pc = IF DuplicateVersion THEN "failed" ELSE "apply",
                                     !.current = c]
  <2>3. o \in OpenerType /\ o.current = c /\ o.generation = opening[p].generation
    BY <1>0, <2>2 DEF OpenPcs
  <2>4. o.pc = IF DuplicateVersion THEN "failed" ELSE "apply"
    BY <1>0
  <2>5. opening' = [opening EXCEPT ![p] = o]
    BY <1>0, <1>9 DEF ReadVersion, c, MigrationTypeOK
  <2> HIDE DEF o
  <2>6. /\ opening' \in [Opener -> OpenerType]
        /\ \A q \in Opener \ {p} : opening'[q] = opening[q]
        /\ opening'[p] = o
    BY <1>3, <2>3, <2>5
  <2>7. OpenerCountsOn(p)'
    BY <2>1, <2>2, <2>3, <2>4, <2>6 DEF OpenerCountsOn, RecordedUpTo, DuplicateVersion
  <2> QED BY <1>1, <2>1, <2>6, <2>7
<1>10. CASE ApplyMigration(p)
  <2>1. /\ opening[p].pc = "apply"
        /\ database.generation = SchemaGeneration
        /\ Bookkeeping \in Executed(database)
        /\ ~DuplicateVersion /\ RecordedUpTo(opening[p].current)
    BY <1>0, <1>10 DEF ApplyMigration, OpenerCountsOn
  <2>2. CASE Pending(opening[p].current) = {}
    <3>1. Step(p, "open") /\ database' = database
      BY <1>10, <2>2 DEF ApplyMigration
    <3>2. \A f \in embedded : f.version <= opening[p].current
      BY <1>0, <2>2, VersionsAreNumbers DEF Pending
    <3>3. OpenerCountsOn(p)'
      BY <1>4, <2>1, <3>1, <3>2 DEF OpenerCountsOn, OpenPcs, RecordedUpTo, DuplicateVersion
    <3> QED BY <1>1, <1>4, <3>1, <3>3 DEF OpenPcs
  <2>3. CASE Pending(opening[p].current) # {}
    <3>1. PICK f : f = Lowest(Pending(opening[p].current))
      OBVIOUS
    <3>2. MigrateInTx(p, f)
      BY <1>10, <2>3, <3>1 DEF ApplyMigration
    <3>3. /\ f.version \in Nat
          /\ database' = database \/ DatabaseGrows
          /\ database'.generation = SchemaGeneration
          /\ Bookkeeping \in Executed(database')
          /\ \A g \in embedded : g.version <= f.version => g.version \in database'.versions
          /\ Orderly(database', embedded)
          /\ Typed
      BY <2>1, <2>3, <3>1, <3>2, MigrateIsOrderly
    <3> DEFINE o == [opening[p] EXCEPT !.current = f.version, !.pc = "apply"]
    <3>4. o \in OpenerType /\ o.current = f.version /\ o.pc = "apply"
      BY <1>0, <3>3 DEF OpenPcs
    <3>5. opening' = [opening EXCEPT ![p] = o]
      BY <1>0, <3>2 DEF MigrateInTx, Migrated, MigrationTypeOK
    <3> HIDE DEF o
    <3>6. /\ opening' \in [Opener -> OpenerType]
          /\ \A q \in Opener \ {p} : opening'[q] = opening[q]
          /\ opening'[p] = o
      BY <1>3, <3>4, <3>5
    <3>7. OpenerCountsOn(p)'
      BY <2>1, <3>3, <3>4, <3>6
         DEF OpenerCountsOn, RecordedUpTo, DuplicateVersion, Executed
    <3> QED BY <1>2, <3>3, <3>6, <3>7
  <2> QED BY <2>2, <2>3
<1>11. CASE FailOpen(p)
  <2>1. Step(p, "failed") /\ database' = database
    BY <1>11 DEF FailOpen
  <2>2. OpenerCountsOn(p)'
    BY <1>4, <2>1 DEF OpenerCountsOn, OpenPcs
  <2> QED BY <1>1, <1>4, <2>1, <2>2 DEF OpenPcs
<1>12. CASE CloseDatabase(p)
  <2>1. Step(p, "closed") /\ database' = database
    BY <1>12 DEF CloseDatabase
  <2>2. OpenerCountsOn(p)'
    BY <1>4, <2>1 DEF OpenerCountsOn, OpenPcs
  <2> QED BY <1>1, <1>4, <2>1, <2>2 DEF OpenPcs
<1> QED BY <1>5, <1>6, <1>7, <1>8, <1>9, <1>10, <1>11, <1>12 DEF OpenStep

\* What the other openers count on stays true.
LEMMA OthersStillCountOn ==
  ASSUME MigrationInv, NEW p \in Opener, NEW q \in Opener \ {p}, UNCHANGED embedded,
         opening'[q] = opening[q], database' = database \/ DatabaseGrows
  PROVE  OpenerCountsOn(q)'
<1>1. OpenerCountsOn(q)
  BY DEF MigrationInv
<1>2. CASE database' = database
  BY <1>1, <1>2 DEF OpenerCountsOn, RecordedUpTo, DuplicateVersion, Executed
<1>3. CASE DatabaseGrows
  <2>1. /\ database'.generation = SchemaGeneration
        /\ database.versions \subseteq database'.versions
        /\ Executed(database) \subseteq Executed(database')
    BY <1>3 DEF DatabaseGrows
  <2>2. Bookkeeping \in Executed(database) => Bookkeeping \in Executed(database)'
    BY <2>1 DEF Executed
  <2> QED BY <1>1, <2>1, <2>2 DEF OpenerCountsOn, RecordedUpTo, DuplicateVersion
<1> QED BY <1>2, <1>3

LEMMA NextIsOrderly ==
  MigrationInv /\ [MigrationNext]_migrationVars =>
    /\ MigrationInv'
    /\ Foreign(database) => database' = database
<1> SUFFICES ASSUME MigrationInv, [MigrationNext]_migrationVars
             PROVE  /\ MigrationInv'
                    /\ Foreign(database) => database' = database
  OBVIOUS
<1>1. CASE UNCHANGED migrationVars
  BY <1>1 DEF migrationVars, MigrationInv, MigrationTypeOK, DatabaseIsOrderly, OpenerCountsOn,
              HasTables, Orderly, Executed, RecordedUpTo, DuplicateVersion
<1>2. ASSUME NEW p \in Opener, OpenStep(p) \/ FailOpen(p) \/ CloseDatabase(p),
             UNCHANGED embedded
      PROVE  /\ MigrationInv'
             /\ Foreign(database) => database' = database
  <2>1. /\ database' = database \/ DatabaseGrows
        /\ database' \in [generation : Nat, versions : SUBSET (Nat \ {Bookkeeping}),
                          schema : Seq(Nat)]
        /\ DatabaseIsOrderly'
        /\ opening' \in [Opener -> [pc : OpenPcs, generation : Nat, current : Nat]]
        /\ \A q \in Opener \ {p} : opening'[q] = opening[q]
        /\ OpenerCountsOn(p)'
    BY <1>2, OpeningStep
  <2>2. MigrationTypeOK'
    BY <1>2, <2>1 DEF MigrationInv, MigrationTypeOK
  <2>3. \A q \in Opener : OpenerCountsOn(q)'
    BY <1>2, <2>1, OthersStillCountOn
  <2>4. Foreign(database) => database' = database
    BY <2>1 DEF DatabaseGrows
  <2> QED BY <2>1, <2>2, <2>3, <2>4 DEF MigrationInv
<1> QED BY <1>1, <1>2 DEF MigrationNext

LEMMA MigrationsAreOrderly == MigrationSpec => []MigrationInv
BY InitIsOrderly, NextIsOrderly, PTL DEF MigrationSpec

\* Whoever else opens the same new database, and whoever is killed on the way:
\* a process that Open lets through finds the schema of all its files, each
\* executed once and in numeric order.
THEOREM OpenedSchemasAreComplete == MigrationSpec => []OpenedSchemaIsComplete
<1>1. MigrationInv => OpenedSchemaIsComplete
  <2> SUFFICES ASSUME MigrationInv, NEW p \in Opener, opening[p].pc = "open"
               PROVE  /\ database.generation = SchemaGeneration
                      /\ ~DuplicateVersion
                      /\ {f.version : f \in embedded} \subseteq database.versions
                      /\ Executed(database) = database.versions \cup {Bookkeeping}
                      /\ \A i, j \in 1..Len(database.schema) :
                           i < j => database.schema[i] < database.schema[j]
    BY DEF OpenedSchemaIsComplete
  <2>1. /\ database.generation = SchemaGeneration
        /\ Bookkeeping \in Executed(database)
        /\ ~DuplicateVersion /\ RecordedUpTo(opening[p].current)
        /\ \A f \in embedded : f.version <= opening[p].current
    BY DEF MigrationInv, OpenerCountsOn
  <2>2. Orderly(database, embedded) /\ HasTables(database)
    BY <2>1 DEF MigrationInv, DatabaseIsOrderly, HasTables, Executed
  <2>3. DOMAIN database.schema = 1..Len(database.schema)
    BY DEF MigrationInv, MigrationTypeOK
  <2> QED BY <2>1, <2>2, <2>3 DEF Orderly, RecordedUpTo
<1> QED BY <1>1, MigrationsAreOrderly, PTL

\* However its openers interleave, none writes to a database of another
\* generation: the check and the stamp, two statements, decide on one database.
THEOREM ForeignDatabasesAreSpared == MigrationSpec => ForeignDatabaseUntouched
<1>1. MigrationInv /\ [MigrationNext]_migrationVars
        => [Foreign(database) => database' = database]_migrationVars
  BY NextIsOrderly
<1> QED BY <1>1, MigrationsAreOrderly, PTL DEF MigrationSpec, ForeignDatabaseUntouched
=============================================================================
