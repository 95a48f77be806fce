---------------------------- MODULE Jurisdiction ----------------------------
(* Who keeps a road, read off its OSM tags: internal/filter.  The answer is  *)
(* a ladder of guesses, and only its last rung makes the city pay.           *)
(*                                                                           *)
(* A tag set is [ref, highway, operator, network].  A ref is split the way   *)
(* the patterns split it: its prefix, whether a space or hyphen follows, and *)
(* the shape of the rest:                                                    *)
(*   "digits" 12   "lettered" A1A   "letters" W, AA   "road" RD 45   "word"  *)
(* An operator or a network is the sequence of its lower-case words, an      *)
(* agency's name and a state's being one word each.  Both also say whom they *)
(* name (level), which only the properties look at.                          *)
EXTENDS Naturals, Sequences, SequencesExt

NoRef == [prefix |-> "", sep |-> FALSE, rest |-> "word", level |-> "nobody"]
NoAgency == [words |-> <<>>, level |-> "nobody"]

-----------------------------------------------------------------------------
\* Route numbers.
Numbered(ref) == ref.rest \in {"digits", "lettered"}
FederalRef(ref) ==
  \/ ref.prefix \in {"I", "IH", "US", "NF", "FR", "FS"} /\ ref.sep /\ ref.rest = "digits"
  \/ ref.prefix \in {"US HIGHWAY", "U.S."} /\ Numbered(ref)
  \/ ref.prefix = "INTERSTATE" /\ ref.sep /\ Numbered(ref)
CountyRef(ref) ==
  /\ ref.sep
  /\ \/ ref.prefix \in {"CR", "CH", "CC", "TR", "CTH"}
     \/ ref.prefix \in {"CO", "COUNTY"} /\ ref.rest = "road"
     \/ ref.prefix = "C" /\ ref.rest = "digits"

\* Any two letters in front of a number, or of one or two letters, may be a
\* state's postal code, except these.
TwoLetters == {"CR", "CH", "CC", "TR", "US", "IH", "BR", "NF", "FR", "FS",
               "SR", "SH", "CA", "MO", "CO", "FM", "BW"}
statePostalDeny == {"CR", "US", "IH", "BR"}
PostalRef(ref) ==
  /\ ref.prefix \in TwoLetters \ statePostalDeny
  /\ ref.sep /\ ref.rest # "word"
StateRef(ref) ==
  \/ ref.prefix \in {"SR", "SH", "STATE HIGHWAY", "ROUTE"} /\ Numbered(ref)
  \/ ref.prefix \in {"LOOP", "SPUR", "M", "N", "K", "L", "S"} /\ ref.sep /\ ref.rest = "digits"
  \/ PostalRef(ref)

-----------------------------------------------------------------------------
\* Agencies.  "cdot" and "fdot" stand for the abbreviations with "dot" glued on.
Names(op) == ToSet(op)
StateNames == {"nevada", "ohio", "washington", "virginia", "kansas", "new york", "guam"}
stateAbbrev == {"nc", "oh", "co", "nys"}
GluedDOT == {"cdot", "fdot", "usdot"}
Department == "department of transportation"
Transposed == "transportation department"

\* "not fdot" names nobody.
NotDOT(op) ==
  \E i \in 1..Len(op) - 1 : op[i] = "not" /\ op[i + 1] \in GluedDOT \cup {"dot"}
FederalOperator(op) ==
  /\ ~NotDOT(op)
  /\ \/ Names(op) \cap {"usdot", "fhwa"} # {}
     \/ \E i \in 1..Len(op) - 1 :
          /\ op[i] \in {"us", "federal"}
          /\ op[i + 1] \in {Department, Transposed, "dot", "highway administration"}

\* What stands before the agency's name, without "the" and "state".
WithoutLast(word, words) ==
  IF words # <<>> /\ Last(words) = word THEN Front(words) ELSE words
AgencyAt(op) ==
  IF Department \in Names(op) THEN SelectInSeq(op, LAMBDA w : w = Department)
                              ELSE SelectInSeq(op, LAMBDA w : w = "dot")
Qualifier(op) ==
  WithoutLast("the", WithoutLast("state", SubSeq(op, 1, AgencyAt(op) - 1)))

\* Fault: a state's code may end it as well.
CodeEndsIt(words) ==
  words # <<>> /\ (Last(words) \in StateNames \/ Last(words) \in stateAbbrev)

\* A state's name may end the qualifier, its abbreviation has to be all of it:
\* a city is told apart by the code behind its name.
StateQualifier(words) ==
  \/ words # <<>> /\ Last(words) \in StateNames
  \/ \E code \in stateAbbrev : words \in {<<code>>, <<"the", code>>}
StateAgency(op) ==
  AgencyAt(op) # 0 /\ (Qualifier(op) = <<>> \/ StateQualifier(Qualifier(op)))
LocalAgency(op) ==
  /\ AgencyAt(op) # 0 /\ Qualifier(op) # <<>> /\ ~StateQualifier(Qualifier(op))
  /\ ~FederalOperator(op) /\ "county" \notin Names(op)

CityOperator(op) == Names(op) \cap {"city", "municipal"} # {} \/ LocalAgency(op)
StateTransposed(op) ==
  \E i \in 1..Len(op), j \in 1..Len(op) :
    /\ op[i] \in StateNames /\ op[j] = Transposed
    /\ j = i + 1 \/ (j = i + 2 /\ op[i + 1] = "state")
StateOperator(op) ==
  /\ op # <<>> /\ ~FederalOperator(op) /\ ~NotDOT(op)
  /\ \/ "caltrans" \in Names(op)
     \/ /\ "county" \notin Names(op) /\ ~CityOperator(op)
        /\ \/ StateAgency(op) \/ StateTransposed(op)
           \/ Names(op) \cap ({"state highway", "dot"} \cup GluedDOT) # {}

-----------------------------------------------------------------------------
\* The ladder: the first rung that holds decides.
Rung(holds, level) == [holds |-> holds, level |-> level]
Ladder(tags) ==
  LET op == tags.operator.words
      net == tags.network.words
  IN <<Rung(FederalRef(tags.ref) \/ tags.highway \in {"motorway", "motorway_link"}, "federal"),
       Rung(CountyRef(tags.ref), "county"),
       Rung(FederalOperator(op) \/ FederalOperator(net), "federal"),
       Rung(StateOperator(op) \/ StateOperator(net) \/ StateRef(tags.ref), "state"),
       Rung(tags.highway \in {"trunk", "trunk_link"}, "state"),
       Rung("county" \in Names(op) \cup Names(net), "county"),
       Rung(tags.highway = "secondary" /\ ~CityOperator(op), "county"),
       Rung(TRUE, "city")>>
ClassifyJurisdiction(tags) ==
  Ladder(tags)[SelectInSeq(Ladder(tags), LAMBDA rung : rung.holds)].level
=============================================================================
