--------------------------- MODULE LastJsonProofs ---------------------------
(***************************************************************************)
(* Proofs about what a tool makes of the text aip prints: what the search  *)
(* for braces finds in a text of any length, with braces in its strings,   *)
(* and what it leaves of every document.                                   *)
(***************************************************************************)
EXTENDS CommandProofs, SequenceTheorems, FiniteSetTheorems, WellFoundedInduction

-----------------------------------------------------------------------------
(* Least and greatest places *)

LEMMA Least ==
    ASSUME NEW T \in SUBSET Nat, T # {}
    PROVE  \E x \in T : \A y \in T : x <= y
<1>1. PICK x \in T : \A y \in T : ~ (<<y, x>> \in OpToRel(<, Nat))
    BY NatLessThanWellFounded, WFMin
<1>2. \A y \in T : ~ (y < x)
    BY <1>1 DEF OpToRel
<1>. QED
    BY <1>2

LEMMA Greatest ==
    ASSUME NEW n \in Nat, NEW T \in SUBSET (1 .. n), T # {}
    PROVE  \E x \in T : \A y \in T : y <= x
<1>. DEFINE D == {n - y : y \in T}
<1>1. D \in SUBSET Nat /\ D # {}
    <2>1. ASSUME NEW y \in T PROVE n - y \in Nat
        <3>1. y \in 1 .. n
            OBVIOUS
        <3>. QED
            BY <3>1
    <2>. QED
        BY <2>1
<1>. HIDE DEF D
<1>2. PICK d \in D : \A e \in D : d <= e
    BY <1>1, Least
<1>3. PICK x \in T : d = n - x
    BY DEF D
<1>4. ASSUME NEW y \in T PROVE y <= x
    <2>1. n - y \in D
        BY DEF D
    <2>. QED
        BY <1>2, <1>3, <2>1
<1>. QED
    BY <1>4

-----------------------------------------------------------------------------
(* last_json *)

LEMMA BracesDiffer ==
    /\ Opening \cap Closing = {}
    /\ Open \in Opening /\ Close \in Closing
    /\ Open # Close /\ Quoted("{") \in Opening /\ Quoted("}") \in Closing
    /\ \A ch : Quoted(ch) # Open /\ Quoted(ch) # Close
    /\ \A x : Plain(x) \notin Opening \cup Closing
    /\ Quote \notin Opening \cup Closing
<1>1. \A a, b, c, d : <<a, b>> = <<c, d>> => a = c /\ b = d
    OBVIOUS
<1>2. \A a, b, c : <<a>> # <<b, c>>
    OBVIOUS
<1>. QED
    BY <1>1, <1>2 DEF Opening, Closing, Open, Close, Quoted, Plain, Quote

LEMMA NotBoth == \A token : ~(token \in Opening /\ token \in Closing)
BY BracesDiffer

\* A text that opens at its first place, and not again before it closes for the
\* first time at c.
FirstObjectEndsAt(text, c) ==
    /\ c \in 1 .. Len(text)
    /\ text[1] \in Opening /\ text[c] \in Closing
    /\ \A i \in 2 .. c : text[i] \notin Opening
    /\ \A i \in 1 .. c - 1 : text[i] \notin Closing

\* It is inside its first object up to c.
LEMMA DepthOfFirst ==
    ASSUME NEW S, NEW text \in Seq(S), NEW c \in Nat, FirstObjectEndsAt(text, c)
    PROVE  /\ \A n \in 1 .. c - 1 : Depth(text, n) = 1
           /\ Depth(text, c) = 0
<1>1. /\ c \in 1 .. Len(text) /\ text[1] \in Opening /\ text[c] \in Closing /\ c # 1
      /\ Len(text) \in Nat
    BY BracesDiffer, LenProperties DEF FirstObjectEndsAt
<1>. DEFINE Braces(n, brace) == {i \in 1 .. n : text[i] \in brace}
<1>2. ASSUME NEW n \in 1 .. c PROVE Braces(n, Opening) = {1}
    BY <1>1 DEF FirstObjectEndsAt
<1>3. ASSUME NEW n \in 1 .. c - 1 PROVE Braces(n, Closing) = {}
    BY <1>1 DEF FirstObjectEndsAt
<1>4. Braces(c, Closing) = {c}
    BY <1>1 DEF FirstObjectEndsAt
<1>5. ASSUME NEW n
      PROVE  Depth(text, n) = Cardinality(Braces(n, Opening)) - Cardinality(Braces(n, Closing))
    BY Zenon DEF Depth
<1>6. Cardinality({1}) = 1 /\ Cardinality({c}) = 1 /\ Cardinality({}) = 0
    BY Zenon, FS_Singleton, FS_EmptySet
<1>. HIDE DEF Braces
<1>7. ASSUME NEW n \in 1 .. c - 1 PROVE Depth(text, n) = 1
    <2>1. Braces(n, Opening) = {1} /\ Braces(n, Closing) = {}
        BY <1>1, <1>2, <1>3
    <2>2. Cardinality(Braces(n, Opening)) = 1 /\ Cardinality(Braces(n, Closing)) = 0
        BY Zenon, <1>6, <2>1
    <2>. QED
        BY <1>5, <2>2
<1>8. Depth(text, c) = 0
    <2>1. Braces(c, Opening) = {1}
        BY <1>1, <1>2
    <2>2. Cardinality(Braces(c, Opening)) = 1 /\ Cardinality(Braces(c, Closing)) = 1
        BY Zenon, <1>4, <1>6, <2>1
    <2>. QED
        BY <1>5, <2>2
<1>. QED
    BY <1>7, <1>8

LEMMA EndOfFirst ==
    ASSUME NEW S, NEW text \in Seq(S), NEW c \in Nat, FirstObjectEndsAt(text, c)
    PROVE  Endings(text) # {} /\ Min(Endings(text)) = c
<1>1. c \in DOMAIN text /\ DOMAIN text = 1 .. Len(text) /\ Len(text) \in Nat
    BY LenProperties DEF FirstObjectEndsAt
<1>2. c \in Endings(text)
    BY <1>1, DepthOfFirst DEF Endings
<1>3. ASSUME NEW n \in Endings(text) PROVE n \in Nat /\ c <= n
    BY <1>1, DepthOfFirst DEF Endings
<1>4. ASSUME NEW x \in Endings(text), \A y \in Endings(text) : x <= y
      PROVE  x = c
    BY <1>2, <1>3, <1>4
<1>. QED
    BY <1>2, <1>3, <1>4 DEF Min

\* From the last brace that opens, at o, to the first that closes after it.
LastObjectIs(text, o, c) ==
    /\ o \in 1 .. Len(text) /\ c \in o + 1 .. Len(text)
    /\ text[o] \in Opening /\ text[c] \in Closing
    /\ \A i \in o + 1 .. Len(text) : text[i] \notin Opening
    /\ \A i \in o .. c - 1 : text[i] \notin Closing

Found(text, object) ==
    IF Parses(object) THEN [raw |-> FALSE, text |-> object] ELSE [raw |-> TRUE, text |-> text]

LEMMA LastObject ==
    ASSUME NEW S, NEW text \in Seq(S), NEW o, NEW c, LastObjectIs(text, o, c)
    PROVE  last_json(text) = Found(text, SubSeq(text, o, c))
<1>. DEFINE candidate == SubSeq(text, o, Len(text))
<1>0. /\ DOMAIN text = 1 .. Len(text) /\ Len(text) \in Nat
      /\ o \in 1 .. Len(text) /\ c \in o + 1 .. Len(text)
    BY LenProperties DEF LastObjectIs
<1>1. o \in Openings(text) /\ \A i \in Openings(text) : i \in Nat /\ i <= o
    BY <1>0 DEF Openings, LastObjectIs
<1>2. Max(Openings(text)) = o
    <2>1. ASSUME NEW x \in Openings(text), \A y \in Openings(text) : x >= y
          PROVE  x = o
        BY <1>1, <2>1
    <2>. QED
        BY <1>1, <2>1 DEF Max
<1>3. /\ candidate \in Seq(S) /\ Len(candidate) = Len(text) - o + 1
      /\ \A i \in 1 .. Len(text) - o + 1 : candidate[i] = text[o + i - 1]
    <2>1. \A i \in o .. Len(text) : text[i] \in S
        BY <1>0, ElementOfSeq
    <2>. QED
        BY <1>0, <2>1, SubSeqProperties
<1>. HIDE DEF candidate
<1>4. FirstObjectEndsAt(candidate, c - o + 1)
    <2>2. candidate[1] \in Opening /\ candidate[c - o + 1] \in Closing
        <3>1. /\ 1 \in 1 .. Len(text) - o + 1 /\ c - o + 1 \in 1 .. Len(text) - o + 1
              /\ o + 1 - 1 = o /\ o + (c - o + 1) - 1 = c
            BY <1>0
        <3>2. candidate[1] = text[o] /\ candidate[c - o + 1] = text[c]
            BY <1>3, <3>1
        <3>. QED
            BY <3>2 DEF LastObjectIs
    <2>3. ASSUME NEW i \in 2 .. c - o + 1 PROVE candidate[i] \notin Opening
        <3>1. o + i - 1 \in o + 1 .. Len(text) /\ i \in 1 .. Len(text) - o + 1
            BY <1>0
        <3>. QED
            BY <1>3, <3>1 DEF LastObjectIs
    <2>4. ASSUME NEW i \in 1 .. (c - o + 1) - 1 PROVE candidate[i] \notin Closing
        <3>1. o + i - 1 \in o .. c - 1 /\ i \in 1 .. Len(text) - o + 1
            BY <1>0
        <3>. QED
            BY <1>3, <3>1 DEF LastObjectIs
    <2>5. c - o + 1 \in 1 .. Len(candidate)
        BY <1>0, <1>3
    <2>. QED
        BY <2>2, <2>3, <2>4, <2>5 DEF FirstObjectEndsAt
<1>5. Endings(candidate) # {} /\ Min(Endings(candidate)) = c - o + 1
    <2>1. c - o + 1 \in Nat
        BY <1>0
    <2>. QED
        BY <1>3, <1>4, <2>1, EndOfFirst
<1>6. last_json(text) = Found(text, SubSeq(candidate, 1, c - o + 1))
    BY <1>1, <1>2, <1>5 DEF last_json, upTo, candidate, Found
<1>7. SubSeq(candidate, 1, c - o + 1) = SubSeq(text, o, c)
    <2>1. /\ o \in 1 .. Len(text) /\ Len(text) \in 1 .. Len(text)
          /\ 1 \in 1 .. Len(text) - o + 1 /\ c - o + 1 \in 1 .. Len(text) - o + 1
          /\ o + 1 - 1 = o /\ o + (c - o + 1) - 1 = c
        BY <1>0
    <2>. QED
        BY <2>1, SubSeqOfSubSeq DEF candidate
<1>. QED
    BY <1>6, <1>7

\* A text with a brace that opens and, at its end, one that closes has both.
LEMMA Search ==
    ASSUME NEW S, NEW text \in Seq(S), Openings(text) # {}, text[Len(text)] \in Closing
    PROVE  \E o, c : LastObjectIs(text, o, c)
<1>1. DOMAIN text = 1 .. Len(text) /\ Len(text) \in Nat
      /\ \A i : i \in Openings(text) <=> i \in 1 .. Len(text) /\ text[i] \in Opening
    <2>1. DOMAIN text = 1 .. Len(text) /\ Len(text) \in Nat
        BY LenProperties
    <2>. QED
        BY <2>1 DEF Openings
<1>2. PICK o \in Openings(text) : \A i \in Openings(text) : i <= o
    <2>1. Openings(text) \in SUBSET (1 .. Len(text))
        BY <1>1
    <2>. QED
        BY <1>1, <2>1, Greatest
<1>3. /\ o \in 1 .. Len(text) /\ text[o] \in Opening /\ o # Len(text)
      /\ \A i \in o + 1 .. Len(text) : text[i] \notin Opening
    BY <1>1, <1>2, NotBoth
<1>. DEFINE Ends == {i \in o + 1 .. Len(text) : text[i] \in Closing}
<1>4. PICK c \in Ends : \A i \in Ends : c <= i
    <2>1. o \in Nat /\ o < Len(text)
        <3>1. o \in 1 .. Len(text) /\ o # Len(text) /\ Len(text) \in Nat
            BY <1>1, <1>3
        <3>. QED
            BY <3>1
    <2>2. Ends \in SUBSET Nat /\ Len(text) \in Ends
        BY <1>1, <2>1
    <2>. HIDE DEF Ends
    <2>. QED
        BY <2>2, Least
<1>5. /\ c \in o + 1 .. Len(text) /\ text[c] \in Closing
      /\ \A i \in o + 1 .. Len(text) : text[i] \in Closing => c <= i
    BY <1>4
<1>. HIDE DEF Ends
<1>6. o \in Nat /\ c \in Nat /\ Len(text) \in Nat
    <2>1. Len(text) \in Nat /\ o \in 1 .. Len(text) /\ c \in o + 1 .. Len(text)
        BY Zenon, <1>1, <1>3, <1>5
    <2>2. o \in Nat
        BY <2>1
    <2>. QED
        BY <2>1, <2>2
<1>7. ASSUME NEW i \in o .. c - 1 PROVE text[i] \notin Closing
    <2>1. CASE i = o
        BY <1>3, <2>1, NotBoth
    <2>2. CASE i # o
        <3>1. i \in o + 1 .. Len(text) /\ ~(c <= i)
            BY <1>5, <1>6, <2>2
        <3>. QED
            BY <1>5, <3>1
    <2>. QED
        BY <2>1, <2>2
<1>. QED
    BY <1>3, <1>5, <1>7 DEF LastObjectIs

-----------------------------------------------------------------------------
(* The documents *)

Members == {"Created session", "session_id", "result", "receipt", "contract_id", "pricing",
            "amount", "max_latency_ms", "requests", "signatures", "transaction_id"}

Tokens == {Open, Close, Quote} \cup {Quoted(ch) : ch \in Characters}
          \cup {Plain(member) : member \in Members}

\* Named, and taken apart only where that is needed: the provers do not see
\* through \o and Seq.
IsText(s) == s \in Seq(Tokens)

Join(s, t) == s \o t

\* The whole is s, and t after it.
Joins(s, t, whole) ==
    /\ IsText(whole) /\ Len(whole) = Len(s) + Len(t) /\ Len(s) \in Nat /\ Len(t) \in Nat
    /\ \A i \in 1 .. Len(s) : whole[i] = s[i]
    /\ \A i \in 1 .. Len(t) : whole[Len(s) + i] = t[i]

LEMMA Joined == ASSUME NEW s, NEW t, IsText(s), IsText(t) PROVE Joins(s, t, Join(s, t))
<1>. DEFINE joined == s \o t
<1>1. /\ joined \in Seq(Tokens) /\ Len(joined) = Len(s) + Len(t)
      /\ \A i \in 1 .. Len(s) + Len(t) : joined[i] = IF i <= Len(s) THEN s[i] ELSE t[i - Len(s)]
    BY ConcatProperties DEF IsText
<1>2. Len(s) \in Nat /\ Len(t) \in Nat
    BY LenProperties DEF IsText
<1>. HIDE DEF joined
<1>3. \A i \in 1 .. Len(s) : joined[i] = s[i]
    BY <1>1, <1>2
<1>4. ASSUME NEW i \in 1 .. Len(t) PROVE joined[Len(s) + i] = t[i]
    <2>1. /\ Len(s) + i \in 1 .. Len(s) + Len(t) /\ ~(Len(s) + i <= Len(s))
          /\ (Len(s) + i) - Len(s) = i
        BY <1>2
    <2>. QED
        BY <1>1, <2>1
<1>. QED
    BY <1>1, <1>2, <1>3, <1>4 DEF joined, Join, IsText, Joins

LEMMA JoinIsText == ASSUME NEW s, NEW t, IsText(s), IsText(t) PROVE IsText(Join(s, t))
BY Zenon, Joined DEF Joins

LEMMA Single ==
    ASSUME NEW token \in Tokens
    PROVE  IsText(<<token>>) /\ Len(<<token>>) = 1 /\ <<token>>[1] = token
BY DEF IsText

LEMMA TokensAre ==
    /\ Open \in Tokens /\ Close \in Tokens /\ Quote \in Tokens
    /\ \A member \in Members : Plain(member) \in Tokens
    /\ \A ch \in Characters : Quoted(ch) \in Tokens
BY DEF Tokens

\* An object is a text that opens first and closes last.
LEMMA Enclosed ==
    ASSUME NEW s, IsText(s)
    PROVE  /\ IsText(Object(s)) /\ Len(Object(s)) = Len(s) + 2 /\ Len(s) \in Nat
           /\ Object(s)[1] = Open /\ Object(s)[Len(s) + 2] = Close
<1>. DEFINE open == <<Open>>
            close == <<Close>>
            front == Join(open, s)
            whole == Join(front, close)
<1>1. /\ IsText(open) /\ Len(open) = 1 /\ open[1] = Open
      /\ IsText(close) /\ Len(close) = 1 /\ close[1] = Close
    BY Single, TokensAre
<1>3. Object(s) = whole
    BY DEF Object, Join
<1>. HIDE DEF open, close
<1>4. /\ IsText(front) /\ Len(front) = 1 + Len(s) /\ front[1] = Open /\ Len(s) \in Nat
    BY <1>1, Joined DEF Joins
<1>. HIDE DEF front
<1>5. /\ IsText(whole) /\ Len(whole) = (1 + Len(s)) + 1
      /\ whole[1] = Open /\ whole[(1 + Len(s)) + 1] = Close
    <2>1. Joins(front, close, whole)
        BY Zenon, <1>1, <1>4, Joined
    <2>. HIDE DEF whole
    <2>2. 1 \in 1 .. Len(front) /\ 1 \in 1 .. Len(close)
        BY <1>1, <1>4
    <2>. QED
        BY <1>1, <1>4, <2>1, <2>2 DEF Joins
<1>. HIDE DEF whole
<1>. QED
    BY <1>3, <1>4, <1>5

LEMMA StringIsText == ASSUME NEW word PROVE IsText(String(word))
<1>1. IsText(<<Quote>>)
    BY Single, TokensAre
<1>2. CASE word \in DOMAIN Spelling
    <2>. DEFINE s == Spelling[word]
                quoted == [i \in DOMAIN s |-> Quoted(s[i])]
    <2>1. s \in Seq(Characters)
        BY <1>2, SpellingAssumption
    <2>2. Len(s) \in Nat /\ DOMAIN s = 1 .. Len(s) /\ \A i \in 1 .. Len(s) : s[i] \in Characters
        BY <2>1, LenProperties, ElementOfSeq
    <2>3. \A i \in 1 .. Len(s) : Quoted(s[i]) \in Tokens
        BY <2>2, TokensAre
    <2>4. quoted \in [1 .. Len(s) -> Tokens]
        BY <2>2, <2>3
    <2>. HIDE DEF quoted
    <2>5. IsText(quoted)
        BY <2>2, <2>4, SeqDef DEF IsText
    <2>6. String(word) = Join(quoted, <<Quote>>)
        BY <1>2 DEF String, Join, quoted
    <2>. QED
        BY Zenon, <1>1, <2>5, <2>6, JoinIsText
<1>3. CASE word \notin DOMAIN Spelling
    BY <1>1, <1>3 DEF String
<1>. QED
    BY <1>2, <1>3

LEMMA ObjectIsText == ASSUME NEW s, IsText(s) PROVE IsText(Object(s))
BY Zenon, Enclosed

Member(name) == <<Plain(name)>>

LEMMA MemberIsText == ASSUME NEW name \in Members PROVE IsText(Member(name))
<1>1. Plain(name) \in Tokens
    BY TokensAre
<1>. QED
    BY <1>1, Single DEF Member

LEMMA MembersAreText ==
    /\ IsText(Member("amount")) /\ IsText(Member("pricing"))
    /\ IsText(Member("max_latency_ms")) /\ IsText(Member("requests"))
    /\ IsText(Member("contract_id")) /\ IsText(Member("signatures"))
    /\ IsText(Member("session_id")) /\ IsText(Member("result"))
    /\ IsText(Member("receipt")) /\ IsText(Member("transaction_id"))
<1>1. \A name \in Members : IsText(Member(name))
    BY Zenon, MemberIsText
<1>. QED
    BY <1>1 DEF Members

LEMMA ContractIsText == ASSUME NEW c PROVE IsText(ContractText(c))
<1>1. IsText(PricingText(c))
    <2>1. IsText(Join(Member("amount"), String(c.price.currency)))
        BY Zenon, MembersAreText, StringIsText, JoinIsText
    <2>2. IsText(Object(Join(Member("amount"), String(c.price.currency))))
        BY <2>1, ObjectIsText
    <2>3. IsText(Member("pricing"))
        BY Zenon, MembersAreText
    <2>. QED
        BY <2>2, <2>3 DEF PricingText, Join, Member
<1>2. IsText(SLAText(c))
    <2>1. IsText(<<>>)
        BY EmptySeq DEF IsText
    <2>2. IsText(Member("max_latency_ms")) /\ IsText(Object(Member("requests")))
        BY Zenon, MembersAreText, ObjectIsText
    <2>3. /\ IsText(Object(Member("max_latency_ms")))
          /\ IsText(Object(Join(Member("max_latency_ms"), Object(Member("requests")))))
        BY Zenon, <2>2, MembersAreText, ObjectIsText, JoinIsText
    <2>. QED
        BY <2>1, <2>3 DEF SLAText, Join, Member
<1>3. ContractText(c) = Join(Join(Join(Join(Join(Join(Member("contract_id"),
          String(c.provider)), String(c.consumer)), PricingText(c)), SLAText(c)),
          String(c.nonce)), Member("signatures"))
    BY DEF ContractText, Join, Member
<1>4. IsText(Member("contract_id")) /\ IsText(Member("signatures"))
    BY Zenon, MembersAreText
<1>. QED
    BY Zenon, <1>1, <1>2, <1>3, <1>4, StringIsText, JoinIsText

LEMMA BodyIsObject == ASSUME NEW doc PROVE \E s : IsText(s) /\ Body(doc) = Object(s)
<1>1. CASE doc.kind = "session"
    <2>1. IsText(Join(Member("session_id"), String(doc.action)))
        BY Zenon, MembersAreText, StringIsText, JoinIsText
    <2>. QED
        BY <1>1, <2>1 DEF Body, Join, Member
<1>2. CASE doc.kind = "execution"
    <2>1. IsText(Join(Member("receipt"), String(doc.receipt.action)))
        BY Zenon, MembersAreText, StringIsText, JoinIsText
    <2>2. IsText(Join(Object(Member("result")),
                      Object(Join(Member("receipt"), String(doc.receipt.action)))))
        BY Zenon, <2>1, MembersAreText, ObjectIsText, JoinIsText
    <2>. QED
        BY <1>2, <2>2 DEF Body, Join, Member
<1>3. CASE doc.kind = "contract"
    BY <1>3, ContractIsText DEF Body
<1>4. CASE doc.kind \notin {"session", "execution", "contract"}
    <2>1. IsText(Join(Join(Member("transaction_id"), String(doc.receipt.from)),
                      String(doc.receipt.to)))
        BY Zenon, MembersAreText, StringIsText, JoinIsText
    <2>. QED
        BY <1>4, <2>1 DEF Body, Join, Member
<1>. QED
    BY <1>1, <1>2, <1>3, <1>4

\* Of a text the last places are a body that opens first and closes last, and
\* there is no brace before it.
ShapedAs(text, h, body) ==
    /\ IsText(text) /\ IsText(body) /\ h \in Nat
    /\ Len(body) \in Nat /\ Len(body) >= 2 /\ Len(text) = h + Len(body)
    /\ body[1] = Open /\ body[Len(body)] = Close
    /\ \A i \in 1 .. h : text[i] \notin Opening \cup Closing
    /\ \A i \in 1 .. Len(body) : text[h + i] = body[i]

LEMMA TextShape == ASSUME NEW doc PROVE \E h : ShapedAs(Text(doc), h, Body(doc))
<1>1. PICK s : IsText(s) /\ Body(doc) = Object(s)
    BY BodyIsObject
<1>2. /\ IsText(Body(doc)) /\ Len(Body(doc)) = Len(s) + 2 /\ Len(s) \in Nat
      /\ Body(doc)[1] = Open /\ Body(doc)[Len(Body(doc))] = Close
    BY <1>1, Enclosed
<1>3. /\ IsText(Heading(doc))
      /\ \A i \in 1 .. Len(Heading(doc)) : Heading(doc)[i] \notin Opening \cup Closing
    <2>1. CASE doc.kind = "session"
        <3>1. Heading(doc) = <<Plain("Created session")>>
            BY <2>1 DEF Heading
        <3>2. Plain("Created session") \in Tokens
            BY TokensAre DEF Members
        <3>3. IsText(Heading(doc)) /\ Len(Heading(doc)) = 1
              /\ Heading(doc)[1] = Plain("Created session")
            BY Zenon, <3>1, <3>2, Single
        <3>4. Plain("Created session") \notin Opening \cup Closing
            BY Zenon, BracesDiffer
        <3>5. ASSUME NEW i \in 1 .. Len(Heading(doc))
              PROVE  Heading(doc)[i] \notin Opening \cup Closing
            <4>1. Len(Heading(doc)) = 1
                BY Zenon, <3>3
            <4>2. i = 1
                BY <4>1
            <4>. QED
                BY Zenon, <3>3, <3>4, <4>2
        <3>. QED
            BY Zenon, <3>3, <3>5
    <2>2. CASE doc.kind # "session"
        <3>1. Heading(doc) = <<>>
            BY <2>2 DEF Heading
        <3>. QED
            BY <3>1, EmptySeq DEF IsText
    <2>. QED
        BY <2>1, <2>2
<1>4. Text(doc) = Join(Heading(doc), Body(doc))
    BY DEF Text, Join
<1>. DEFINE heading == Heading(doc)
            body == Body(doc)
            text == Text(doc)
<1>5. Joins(heading, body, text)
    BY Zenon, <1>2, <1>3, <1>4, Joined
<1>. HIDE DEF heading, body, text
<1>6. ShapedAs(text, Len(heading), body)
    BY <1>2, <1>3, <1>5 DEF ShapedAs, Joins, heading, body
<1>. QED
    BY Zenon, <1>6 DEF text, body

-----------------------------------------------------------------------------
(* What tools return *)

\* What ResultsAreWhole says of a text, its body and what is found in it.
Whole(text, body, result) ==
    /\ result.raw => result.text = text /\ BracesInStrings(text) # {}
    /\ ~result.raw =>
           \/ result.text = NoMembers /\ BracesInStrings(text) # {}
           \/ \E o, c \in DOMAIN text :
                 /\ text[o] = Open /\ text[c] = Close
                 /\ result.text = SubSeq(text, o, c)
                 /\ \A i \in BracesIn(text) : i > o => i >= c /\ text[i] \in Closing
    /\ BracesIn(body) = {1, Len(body)} => ~result.raw /\ result.text = body

LEMMA FoundIsWhole ==
    ASSUME NEW text, NEW h, NEW body, ShapedAs(text, h, body)
    PROVE  Whole(text, body, last_json(text))
<1>1. /\ text \in Seq(Tokens) /\ DOMAIN text = 1 .. Len(text) /\ Len(text) \in Nat
      /\ DOMAIN body = 1 .. Len(body)
    BY LenProperties DEF ShapedAs, IsText
<1>2. /\ h \in Nat /\ Len(body) \in Nat /\ Len(body) >= 2 /\ Len(text) = h + Len(body)
      /\ text[h + 1] = Open /\ text[Len(text)] = Close
    BY DEF ShapedAs
<1>3. PICK o, c : LastObjectIs(text, o, c)
    <2>1. Open \in Opening /\ Close \in Closing
        BY BracesDiffer
    <2>2. h + 1 \in 1 .. Len(text) /\ text[h + 1] \in Opening
        BY <1>2, <2>1
    <2>3. Openings(text) # {}
        BY <1>1, <2>2 DEF Openings
    <2>. QED
        BY <1>1, <1>2, <2>1, <2>3, Search
<1>. DEFINE object == SubSeq(text, o, c)
<1>4. /\ o \in 1 .. Len(text) /\ c \in o + 1 .. Len(text) /\ text[o] \in Opening
      /\ text[c] \in Closing /\ o \in DOMAIN text /\ c \in DOMAIN text
    BY <1>1, <1>3 DEF LastObjectIs
<1>5. /\ object \in Seq(Tokens) /\ Len(object) = c - o + 1
      /\ \A i \in 1 .. c - o + 1 : object[i] = text[o + i - 1]
    <2>1. \A i \in o .. c : text[i] \in Tokens
        BY <1>1, <1>4, ElementOfSeq
    <2>. QED
        BY <1>1, <1>4, <2>1, SubSeqProperties
<1>. HIDE DEF object
<1>6. object[1] = text[o] /\ object[Len(object)] = text[c]
    BY <1>1, <1>4, <1>5
<1>7. last_json(text) = Found(text, object)
    BY <1>1, <1>3, LastObject DEF object
<1>8. \A i \in BracesIn(text) : i > o => i >= c /\ text[i] \in Closing
    <2>1. ASSUME NEW i \in BracesIn(text), i > o
          PROVE  i >= c /\ text[i] \in Closing
        <3>1. i \in 1 .. Len(text) /\ text[i] \in Opening \cup Closing
            BY <1>1 DEF BracesIn
        <3>2. i \in o + 1 .. Len(text) /\ text[i] \notin Opening
            BY <1>1, <1>3, <1>4, <2>1, <3>1 DEF LastObjectIs
        <3>. QED
            BY <1>1, <1>3, <1>4, <3>1, <3>2 DEF LastObjectIs
    <2>. QED
        BY <2>1
<1>9. BracesInStrings(text) = {} => text[o] = Open /\ text[c] = Close
    BY <1>4 DEF BracesInStrings, Opening, Closing
<1>10. text[o] = Open /\ text[c] = Close => Parses(object)
    BY <1>6 DEF Parses
<1>11. CASE Parses(object)
    <2>1. last_json(text).raw = FALSE /\ last_json(text).text = object
        BY <1>7, <1>11 DEF Found
    <2>2. object = NoMembers => BracesInStrings(text) # {}
        <3>1. NoMembers[1] = Quoted("{")
            BY DEF NoMembers
        <3>2. object = NoMembers => text[o] = Quoted("{")
            BY <1>6, <3>1
        <3>. QED
            BY <1>4, <3>2 DEF BracesInStrings
    <2>3. object = NoMembers \/ (text[o] = Open /\ text[c] = Close)
        BY <1>6, <1>11 DEF Parses
    <2>4. BracesIn(body) = {1, Len(body)} => object = body
        <3>. SUFFICES ASSUME BracesIn(body) = {1, Len(body)} PROVE object = body
            OBVIOUS
        <3>1. ASSUME NEW k \in 1 .. Len(text), text[k] \in Opening \cup Closing
              PROVE  k = h + 1 \/ k = h + Len(body)
            <4>1. ~(k \in 1 .. h)
                BY <3>1 DEF ShapedAs
            <4>2. k - h \in 1 .. Len(body) /\ h + (k - h) = k
                BY <1>2, <4>1
            <4>3. body[k - h] = text[k]
                BY <4>2 DEF ShapedAs
            <4>4. k - h \in BracesIn(body)
                BY <1>1, <3>1, <4>2, <4>3 DEF BracesIn
            <4>. QED
                BY <1>2, <4>2, <4>4
        <3>2. o = h + 1 /\ c = h + Len(body)
            BY <1>1, <1>2, <1>4, <3>1
        <3>3. Len(object) = Len(body)
            BY <1>2, <1>5, <3>2
        <3>4. ASSUME NEW i \in 1 .. Len(body) PROVE object[i] = body[i]
            <4>1. object[i] = text[o + i - 1] /\ o + i - 1 = h + i
                BY <1>2, <1>5, <3>2
            <4>. QED
                BY <4>1 DEF ShapedAs
        <3>. QED
            BY <1>5, <3>3, <3>4, SeqEqual DEF ShapedAs, IsText
    <2>. QED
        BY <1>4, <1>8, <2>1, <2>2, <2>3, <2>4 DEF Whole, object
<1>12. CASE ~Parses(object)
    <2>1. last_json(text).raw = TRUE /\ last_json(text).text = text
        BY <1>7, <1>12 DEF Found
    <2>2. BracesInStrings(text) # {}
        BY <1>9, <1>10, <1>12
    <2>3. ASSUME BracesIn(body) = {1, Len(body)} PROVE FALSE
        <3>1. PICK k \in DOMAIN text : text[k] \in {Quoted("{"), Quoted("}")}
            BY <2>2 DEF BracesInStrings
        <3>2. k \in 1 .. Len(text) /\ text[k] \in Opening \cup Closing
            BY <1>1, <3>1, BracesDiffer
        <3>3. ~(k \in 1 .. h)
            BY <3>2 DEF ShapedAs
        <3>4. k - h \in 1 .. Len(body) /\ h + (k - h) = k
            BY <1>2, <3>2, <3>3
        <3>5. body[k - h] = text[k]
            BY <3>4 DEF ShapedAs
        <3>6. k - h \in BracesIn(body)
            BY <1>1, <3>2, <3>4, <3>5 DEF BracesIn
        <3>7. body[k - h] = Open \/ body[k - h] = Close
            BY <2>3, <3>6 DEF ShapedAs
        <3>. QED
            BY <3>1, <3>5, <3>7, BracesDiffer
    <2>. QED
        BY <2>1, <2>2, <2>3 DEF Whole
<1>. QED
    BY <1>11, <1>12

LEMMA WholeResults == ToolInv => ResultsAreWhole
<1> SUFFICES ASSUME ToolInv, NEW p \in Calls, ReturnedWith(p, "json")
             PROVE  Whole(Text(Out(p)), Body(Out(p)), ToolResult(p).json)
    BY DEF ResultsAreWhole, Whole
<1>1. tool[p].stage = "returned" /\ ToolResult(p).kind = "json"
    BY DEF ReturnedWith
<1>2. Ran(p)
    BY <1>1 DEF ToolInv, ToolAt, NoCall
<1>3. ToolResult(p).json = last_json(Text(Out(p)))
    <2>1. ToolResult(p) # Error
        BY <1>1 DEF Error
    <2>2. CASE tool[p].name = "keygen"
        BY <1>1, <1>2, <2>1, <2>2 DEF ToolResult, Ran, Out
    <2>3. CASE tool[p].name # "keygen"
        BY <1>1, <2>1, <2>3 DEF ToolResult
    <2>. QED
        BY <2>2, <2>3
<1>. QED
    BY <1>3, TextShape, FoundIsWhole

\* For documents with objects and strings of any kind, braces in their strings
\* included: what a tool returns is all of the text only if a string has a brace,
\* and otherwise one complete object, the last that is opened, or two braces of a
\* string; without braces inside, it is the document as it was printed.
THEOREM ResultsCorrect == Spec => []ResultsAreWhole
BY ToolInvariant, WholeResults, PTL
=============================================================================
