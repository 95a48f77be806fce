------------------------------- MODULE MCConf -------------------------------
(* Small configurations: a root file that includes a middle file and two    *)
(* leaves, by two ways; files that define a city again, state a setting or  *)
(* leave it out, share bytes, or are none; chains as deep as the limit.     *)
EXTENDS ConfigLoad

Inc(p) == [path |-> p, tags |-> {p}]
Fc(pci, growth, set) == [pci |-> pci, growth |-> growth, growthSet |-> set]
Said(edge, minArea, fc) == [edge |-> edge, minArea |-> minArea, forecast |-> fc]
Silent == Said(0, 0, NoForecast)
\* What a file says of its city, at its top level or on the city itself.
MCSaid == {Said(60, 0, Fc(50, 2, TRUE)), Said(75, 20, Fc(60, 0, TRUE)),
           Said(0, 20, NoForecast)}
LOCAL Stated(name, said) == said @@ [name |-> name, tags |-> {"t"}]
Austin == <<"austin", "Austin">>
Respelt == <<"austin", "AUSTIN">>
Salem == <<"salem", "Salem">>
LOCAL File(p, include, top, cities) ==
  top @@ [kind |-> "regular", bytes |-> p, id |-> "", unknownKey |-> FALSE,
          include |-> include, cities |-> cities]
Leaf(p) ==
  {File(p, <<>>, Silent, <<Stated(Austin, Silent)>>)}
  \cup {File(p, <<>>, Silent, <<Stated(Austin, s)>>) : s \in MCSaid}
  \cup {File(p, <<>>, s, <<Stated(Austin, Silent), Stated(Salem, Silent)>>) : s \in MCSaid}
Named(file) == [file EXCEPT !.id = "shared"]
Odd(p) ==
  {File(p, <<>>, Silent, <<Stated(Respelt, Silent)>>),
   File(p, <<>>, Silent, <<>>),
   File(p, <<>>, Silent, <<Stated(Austin, Silent), Stated(Austin, Silent)>>),
   File(p, <<>>, Said(5, 0, NoForecast), <<Stated(Austin, Silent)>>),
   [File(p, <<>>, Silent, <<Stated(Austin, Silent)>>) EXCEPT !.unknownKey = TRUE],
   [File(p, <<>>, Silent, <<Stated(Austin, Silent)>>) EXCEPT !.kind = "fifo"],
   File(p, <<Inc("a")>>, Said(60, 0, NoForecast), <<Stated(Austin, Silent)>>),
   File(p, <<Inc("a"), Inc("b")>>, Silent, <<Stated(Austin, Said(75, 0, NoForecast))>>),
   File(p, <<Inc("root")>>, Silent, <<Stated(Salem, Silent)>>),
   File(p, <<Inc("absent")>>, Silent, <<>>),
   File(p, <<Inc("")>>, Silent, <<>>)}
Middles == {File("m", <<Inc(p), Inc(q)>>, Silent, <<>>) :
              p \in {"a", "b"}, q \in {"b", "c"}}
Roots == {File("root", <<Inc("m"), Inc("c")>>, Silent, <<>>),
          File("root", <<Inc("c"), Inc("m")>>, Silent, <<>>)}
  \cup {File("root", <<Inc("m")>>, Silent, <<Stated(Austin, Said(75, 0, NoForecast))>>)}
LOCAL Tree(root, m, a, b, c, env) ==
  [root |-> "root", env |-> env[1], envPCI |-> env[2],
   files |-> [p \in {"root", "m", "a", "b", "c"} |->
     CASE p = "root" -> root [] p = "m" -> m [] p = "a" -> a [] p = "b" -> b [] OTHER -> c]]
LeafA == CHOOSE f \in Leaf("a") : TRUE
LOCAL Chain(n) == [root |-> "1", env |-> 0, envPCI |-> 0,
             files |-> [p \in {"1", "2", "3", "4"} |->
               CASE p = "1" -> File(p, IF n = 2 THEN <<Inc("3"), Inc("2")>> ELSE <<Inc("2")>>, Silent, <<>>)
                 [] p = "2" -> File(p, <<Inc("3")>>, Silent, <<>>)
                 [] p = "3" -> File(p, <<Inc("4")>>, Silent, <<>>)
                 [] OTHER -> File(p, <<>>, Silent, <<Stated(Austin, Silent)>>)]]
\* A chain longer than the limit, which a load takes from its far end: each
\* file is resolved before the next one includes it.
LOCAL Ladder == [root |-> "1", env |-> 0, envPCI |-> 0,
           files |-> [p \in {"1", "2", "3", "4", "5", "6"} |->
             CASE p = "1" -> File(p, <<Inc("6"), Inc("5"), Inc("4"), Inc("3"), Inc("2")>>, Silent, <<>>)
               [] p = "2" -> File(p, <<Inc("3")>>, Silent, <<Stated(Salem, Said(60, 0, NoForecast))>>)
               [] p = "3" -> File(p, <<Inc("4")>>, Silent, <<>>)
               [] p = "4" -> File(p, <<Inc("5")>>, Silent, <<>>)
               [] p = "5" -> File(p, <<Inc("6")>>, Silent, <<>>)
               [] OTHER -> File(p, <<>>, Silent, <<Stated(Austin, Silent)>>)]]
MCTrees ==
  {Tree(r, m, a, Named(b), c, <<0, 0>>) :
     r \in Roots, m \in Middles, a \in Leaf("a"), b \in Leaf("b"), c \in Leaf("c")}
  \cup {Tree(r, m, a, LeafA, c, <<90, 90>>) :
           r \in Roots, m \in Odd("m") \cup Middles, a \in Leaf("a"), c \in Odd("c")}
  \cup {Tree(r, m, LeafA, LeafA, c, <<5, 120>>) : r \in Roots, m \in Middles, c \in Leaf("c")}
  \cup {Chain(n) : n \in 1..2} \cup {Ladder}
  \cup {[root |-> "root", env |-> 0, envPCI |-> 0, files |-> [p \in {"root"} |-> f]] : f \in Odd("root")}
  \cup {Tree(File("root", <<[path |-> "a", tags |-> {"malformed"}]>>, Silent, <<>>),
              LeafA, LeafA, LeafA, LeafA, <<0, 0>>)}
\* Two includes that complete each other: the first states the sliver threshold
\* and no growth, the second an edge and a growth as well.
MCHalves ==
  {Tree(File("root", <<Inc("a"), Inc("c")>>, Silent, <<>>), LeafA,
        File("a", <<>>, Said(0, 20, Fc(0, 0, TRUE)), <<Stated(Austin, Silent)>>), LeafA,
        File("c", <<>>, Said(60, 20, Fc(50, 2, TRUE)), <<Stated(Austin, Silent)>>), <<0, 0>>)}
\* Where a behaviour of another part leaves this one.
FirstTree == CHOOSE t \in Trees : Cardinality(DOMAIN t.files) = 4
=============================================================================
