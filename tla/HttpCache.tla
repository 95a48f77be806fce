----------------------------- MODULE HttpCache -----------------------------
(***************************************************************************)
(* The on-disk HTTP cache of internal/cache: CachingTransport.RoundTrip as *)
(* it runs in every process that shares the cache directory.  An entry is  *)
(* two files, <key>.json (the body) and <key>.meta (status, headers with   *)
(* their validators, timestamp).  Each file is replaced atomically         *)
(* (fsutil.WriteFile: temporary file and rename); the pair is not.         *)
(*                                                                         *)
(* One action is one file operation or one exchange with the server, so    *)
(* calls of different processes, and of a prune, interleave between them.  *)
(* A response is abstracted to the version of the content it carries; its  *)
(* validators (ETag, Last-Modified) identify that version.  Any time may   *)
(* pass between two steps, so how old a file is is not kept with it but    *)
(* chosen whenever the code looks.  Methods other than GET and POST never  *)
(* touch the cache and are left out.                                       *)
(***************************************************************************)
EXTENDS Naturals, Functions

CONSTANTS Client,        \* requests in flight, in one process or in several
          Key,           \* cache keys
          CacheFailures, \* subset of {"error", "crash", "garbled"}
          MaxVersion,    \* bound: versions the server publishes of a key
          MaxRequests    \* bound: requests ever made

ASSUME CacheAssumption ==
  /\ CacheFailures \subseteq {"error", "crash", "garbled"}
  /\ MaxVersion \in Nat \ {0}
  /\ MaxRequests \in Nat

\* "temp" is what a killed WriteFile leaves behind; one stands for many.
Kind == {"body", "meta", "temp"}
File == Key \X Kind

\* The version of a file whose content is no use: a temporary file, a meta
\* that does not parse.
Garbled == 0

VARIABLES disk,      \* file -> its version, for the files that exist
          server,    \* key -> the version the server has now
          client,    \* client -> its request
          requests   \* requests made so far

cacheVars == <<disk, server, client, requests>>

\* A request in progress: the meta it read and, if the body was there too, the
\* version it can revalidate (have), the version in the response (got).
NoRequest == [pc |-> "idle", key |-> 0, meta |-> Garbled,
              have |-> Garbled, got |-> Garbled]

CacheInit ==
  /\ disk = [f \in {} |-> 0]
  /\ server = [k \in Key |-> 1]
  /\ client = [c \in Client |-> NoRequest]
  /\ requests = 0

----------------------------------------------------------------------------
(* Files                                                                   *)

Exists(f) == f \in DOMAIN disk

Write(f, v) ==
  disk' = [g \in DOMAIN disk \cup {f} |-> IF g = f THEN v ELSE disk[g]]

Remove(f) == disk' = Restrict(disk, DOMAIN disk \ {f})

Body(c) == <<client[c].key, "body">>
Meta(c) == <<client[c].key, "meta">>
Temp(c) == <<client[c].key, "temp">>

----------------------------------------------------------------------------
(* RoundTrip                                                               *)

ClientAt(c, label) == client[c].pc = label

ClientBecomes(c, r) ==
  /\ client' = [client EXCEPT ![c] = r]
  /\ UNCHANGED <<server, requests>>

Go(c, label) == ClientBecomes(c, [client[c] EXCEPT !.pc = label])

\* A GET or POST.  TTL = 0 and WithBypass (--force) skip the cached entry.
Request(c) ==
  /\ ClientAt(c, "idle")
  /\ requests < MaxRequests
  /\ requests' = requests + 1
  /\ \E k \in Key, bypass \in BOOLEAN :
       client' = [client EXCEPT ![c] =
                    [NoRequest EXCEPT !.pc = IF bypass THEN "fetch" ELSE "readMeta",
                                      !.key = k]]
  /\ UNCHANGED <<disk, server>>

\* readCache reads the meta, then the body.
ReadMeta(c) ==
  /\ ClientAt(c, "readMeta")
  /\ IF ~Exists(Meta(c)) THEN Go(c, "fetch")
     ELSE IF disk[Meta(c)] = Garbled THEN Go(c, "dropMeta")
     ELSE ClientBecomes(c, [client[c] EXCEPT !.pc = "readBody",
                                      !.meta = disk[Meta(c)]])
  /\ UNCHANGED disk

\* A meta that does not parse goes, and then its body.
DropMeta(c) == ClientAt(c, "dropMeta") /\ Remove(Meta(c)) /\ Go(c, "dropBody")

DropBody(c) == ClientAt(c, "dropBody") /\ Remove(Body(c)) /\ Go(c, "fetch")

\* Within the TTL the hit answers the request; past it, it is revalidated.
ReadBody(c) ==
  /\ ClientAt(c, "readBody")
  /\ IF ~Exists(Body(c)) THEN Go(c, "fetch")
     ELSE \/ ClientBecomes(c, NoRequest)
          \/ ClientBecomes(c, [client[c] EXCEPT !.pc = "fetch", !.have = client[c].meta])
  /\ UNCHANGED disk

\* 304 when the validators still match; otherwise 200 with what the server
\* has now.  (A server that ignores validators answers 200 every time.)
Fetch(c) ==
  LET now == server[client[c].key]
  IN  /\ ClientAt(c, "fetch")
      /\ \/ client[c].have = now /\ Go(c, "touchMeta")
         \/ ClientBecomes(c, [client[c] EXCEPT !.pc = "writeBody", !.got = now])
      /\ UNCHANGED disk

\* 304: the meta read earlier is written again with a new timestamp.
TouchMeta(c) ==
  /\ ClientAt(c, "touchMeta")
  /\ Write(Meta(c), client[c].have)
  /\ ClientBecomes(c, NoRequest)

\* Fault: the meta is committed even if the body could not be written.
WriteBodyIgnoringErrors(c) ==
  /\ ClientAt(c, "writeBody")
  /\ Write(Body(c), client[c].got) \/ UNCHANGED disk
  /\ Go(c, "writeMeta")

\* writeCache: the body first, the meta as the commit record.
WriteBody(c) ==
  /\ ClientAt(c, "writeBody")
  /\ Write(Body(c), client[c].got)
  /\ Go(c, "writeMeta")

WriteMeta(c) ==
  /\ ClientAt(c, "writeMeta")
  /\ Write(Meta(c), client[c].got)
  /\ ClientBecomes(c, NoRequest)

\* The exchange fails, answers neither 200 nor 304, or is too long to read:
\* nothing is cached.  A write that fails is given up with what follows it.
GiveUp(c) ==
  /\ "error" \in CacheFailures
  /\ client[c].pc \in {"fetch", "touchMeta", "writeBody", "writeMeta"}
  /\ ClientBecomes(c, NoRequest)
  /\ UNCHANGED disk

\* The process is killed, perhaps between CreateTemp and rename.
ClientCrash(c) ==
  /\ "crash" \in CacheFailures
  /\ ~ClientAt(c, "idle")
  /\ \/ UNCHANGED disk
     \/ /\ client[c].pc \in {"touchMeta", "writeBody", "writeMeta"}
        /\ Write(Temp(c), Garbled)
  /\ ClientBecomes(c, NoRequest)

----------------------------------------------------------------------------
(* The world                                                               *)

ServerChanges(k) ==
  /\ server[k] < MaxVersion
  /\ server' = [server EXCEPT ![k] = @ + 1]
  /\ UNCHANGED <<disk, client, requests>>

\* Something outside the program damages a meta.
Damage(k) ==
  /\ "garbled" \in CacheFailures
  /\ Exists(<<k, "meta">>)
  /\ disk' = [disk EXCEPT ![<<k, "meta">>] = Garbled]
  /\ UNCHANGED <<server, client, requests>>

RoundTrip(c) ==
  \/ Request(c) \/ ReadMeta(c) \/ DropMeta(c) \/ DropBody(c) \/ ReadBody(c)
  \/ Fetch(c) \/ TouchMeta(c) \/ WriteBody(c) \/ WriteMeta(c)
  \/ GiveUp(c) \/ ClientCrash(c)

CacheNext ==
  \/ \E c \in Client : RoundTrip(c)
  \/ \E k \in Key : ServerChanges(k) \/ Damage(k)

CacheSpec == CacheInit /\ [][CacheNext]_cacheVars

----------------------------------------------------------------------------
(* Properties                                                              *)

\* Every entry whose meta parses has a body at least as new as its meta.  The
\* reverse, a new meta over an old body, would be served as a fresh hit and
\* revalidated with the new validators for as long as the server's content
\* stays the same (writeCache: "would pair the new meta ... with the OLD body
\* and serve it as a fresh hit forever").
NoNewMetaOverOldBody ==
  \A k \in Key :
    Exists(<<k, "meta">>) /\ Exists(<<k, "body">>) =>
      disk[<<k, "meta">>] <= disk[<<k, "body">>]
=============================================================================
