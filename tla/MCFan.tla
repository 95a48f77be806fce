-------------------------------- MODULE MCFan -------------------------------
(* Runs over a few cities, two of which share a slug: every command, with   *)
(* and without --city, and every answer to the prompt of a deletion.        *)
EXTENDS CityFanOut

LOCAL Configured(slug, config) == [slug |-> slug, config |-> config]
LOCAL Run(command, cities, flag, confirm) == [command |-> command, cities |-> cities, flag |-> flag, confirm |-> confirm]
\* The second city shares the first one's slug through an [[include]].
LOCAL Three == <<Configured("a", "own"), Configured("a", "included"), Configured("b", "own")>>
MCInvocations ==
    {Run(c, Three, flag, "--yes") : c \in {"single", "all ingest"}, flag \in {"", "b"}}
    \cup {Run("all compute", SubSeq(Three, 1, 2), "", "--yes"), Run("all compute", Three, "b", "--yes")}
    \cup {Run("single", Three, "a", "--yes"), Run("single", <<>>, "", "--yes")}
    \cup {Run("delete", Three, "b", answer) : answer \in {"--yes", "yes", "no", "interrupted", "no terminal"}}
MCPavementJobs == <<"roads", "parking">>
MCOptional == <<"fire">>
FirstInvocation == CHOOSE i \in Invocations : i.cities = <<>>
=============================================================================
