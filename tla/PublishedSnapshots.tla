------------------------- MODULE PublishedSnapshots -------------------------
(***************************************************************************)
(* What the result store promises its readers, without its tables.  A city *)
(* publishes snapshots; a snapshot says, for each part, which rows it      *)
(* holds (the empty set: no such part; {R}: the part holds exactly the     *)
(* rows R).  A snapshot appears whole, in one step, never changes while it *)
(* exists, and its id never comes back: the promises of the Store          *)
(* interface ("one transaction", "deleting any snapshot never changes what *)
(* another snapshot reads").  Runs, drafts, half-saved rows, gc and crashes *)
(* are all invisible here.                                                 *)
(***************************************************************************)
EXTENDS Naturals

CONSTANTS City, Hash, Part

VARIABLES published,   \* snapshot id -> [city, hash, content]
          issued       \* last snapshot id handed out

publishedVars == <<published, issued>>

PublishedInit == published = [s \in {} |-> 0] /\ issued = 0

\* A new snapshot, newer than every one ever issued.
Publish ==
  /\ issued' = issued + 1
  /\ DOMAIN published' = DOMAIN published \cup {issued'}
  /\ \A s \in DOMAIN published : published'[s] = published[s]
  /\ published'[issued'].city \in City
  /\ published'[issued'].hash \in Hash
  /\ DOMAIN published'[issued'].content = Part

Retire ==
  /\ \E s \in DOMAIN published : DOMAIN published' = DOMAIN published \ {s}
  /\ \A s \in DOMAIN published' : published'[s] = published[s]
  /\ UNCHANGED issued

PublishedSpec == PublishedInit /\ [][Publish \/ Retire]_publishedVars
=============================================================================
