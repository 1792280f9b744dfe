------------------------------ MODULE JsonText ------------------------------
(***************************************************************************)
(* mcp-server/aip_mcp_server.py, _last_json: how the MCP server finds a    *)
(* JSON object in what aip prints.  It goes by braces, and does not tell   *)
(* those of the document from those inside of strings.                     *)
(*                                                                         *)
(* A definition D_Bug is a plausible mistake in D.                         *)
(***************************************************************************)
EXTENDS Naturals, Sequences, FiniteSetsExt

CONSTANT Spelling   \* the characters of the words that have a brace in them

\* "x" stands for any character but a brace or a blank.
Characters == {"{", "}", "x"}

ASSUME SpellingAssumption == \A word \in DOMAIN Spelling : Spelling[word] \in Seq(Characters)

-----------------------------------------------------------------------------
(* Texts are sequences of tokens: the braces of objects, the characters and *)
(* the end of a string, and the members that have no brace in them.         *)

Open == <<"{">>

Close == <<"}">>

Quoted(character) == <<"quoted", character>>

Quote == <<"quote">>

Plain(member) == <<"plain", member>>

Object(text) == <<Open>> \o text \o <<Close>>

String(word) ==
    IF word \in DOMAIN Spelling
    THEN [i \in DOMAIN Spelling[word] |-> Quoted(Spelling[word][i])] \o <<Quote>>
    ELSE <<Quote>>

\* What the search takes for a brace that opens, and for one that closes.
Opening == {Open, Quoted("{")}

Closing == {Close, Quoted("}")}

BracesIn(text) == {i \in DOMAIN text : text[i] \in Opening \cup Closing}

BracesInStrings(text) == {i \in DOMAIN text : text[i] \in {Quoted("{"), Quoted("}")}}

-----------------------------------------------------------------------------
(* The search *)

Depth(text, n) == Cardinality({i \in 1 .. n : text[i] \in Opening})
                  - Cardinality({i \in 1 .. n : text[i] \in Closing})

Openings(text) == {i \in DOMAIN text : text[i] \in Opening}

Endings(text) == {n \in DOMAIN text : Depth(text, n) = 0}

upTo_Exclusive(text, end) == SubSeq(text, 1, end - 1)

upTo(text, end) == SubSeq(text, 1, end)

NoMembers == <<Quoted("{"), Quoted("}")>>

\* json.loads, of a text from a brace that opens to the one that closes it: an
\* object of the document will do, and so will two braces of a string with
\* nothing between them.  What else begins or ends in a string is no JSON.
Parses(text) == text = NoMembers \/ (text[1] = Open /\ text[Len(text)] = Close)

\* From the last brace that opens to the one that closes it; if there is none,
\* or that is no JSON, all of the text comes back as raw_output.
last_json(text) ==
    LET candidate == SubSeq(text, Max(Openings(text)), Len(text))
        object == upTo(candidate, Min(Endings(candidate)))
    IN  IF Openings(text) # {} /\ Endings(candidate) # {} /\ Parses(object)
        THEN [raw |-> FALSE, text |-> object]
        ELSE [raw |-> TRUE, text |-> text]
=============================================================================
