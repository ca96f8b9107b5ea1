---------------------------- MODULE StartupProofs ----------------------------
(***************************************************************************)
(* Proofs about module Startup, for any texts: what the walk over the      *)
(* tokens of the configuration reads, the channels it makes of it, and     *)
(* that it comes to an end.                                                *)
(***************************************************************************)
EXTENDS Startup, JsmnProofs

----------------------------------------------------------------------------
(* The invariant of the walk.                                              *)

\* The tokens of the first value of the text.
Extent == {x \in DOMAIN tokens : tokens[x].start < tokens[1].end}

\* The tokens that are counted but not met yet: those from n on that are inside
\* of no other token from n on.
Pending(n) == {x \in Extent : n <= x /\ \A y \in n..(x - 1) : ~Inside(x, y)}

Walking == {"tokens", "new", "add_output", "add"}
Making == {"new", "add_output", "add"}

\* j is the number of the pending tokens; there is none if there is no text, and
\* the walk comes no further then.
WalkInv ==
    /\ pc = "parse" => i = 1 /\ j = 1
    /\ pc \in Walking =>
          /\ pos = Len(js) + 1 /\ Opened = {}
          /\ 1..(i - 1) \subseteq Extent
          /\ js # <<>> => j = Cardinality(Pending(i))
          /\ js = <<>> => pc = "tokens" /\ i = 1 /\ j = 1
    /\ pc = "wait" => Extent = 1..(i - 1)

Urls == {NULL, "stray"} \cup {js[k] : k \in DOMAIN js}

\* The types, with that of temp.
WalkTypes ==
    /\ pc \in Ends \cup Walking \cup {"parse"}
    /\ i \in Nat \ {0} /\ j \in Nat
    /\ state \in {"START", "KEY", "SKIP", "PRINT"}
    /\ m \in Keys \cup {NULL}
    /\ temp = [url |-> temp.url, outputs |-> temp.outputs] /\ temp.url \in Urls
    /\ channel \in ChannelType
    /\ channels \in Seq(ChannelType)

StartupInv == ParserInv /\ WalkInv /\ WalkTypes

----------------------------------------------------------------------------
(* The tokens when the parser is done.                                     *)

\* Membership, without the set.
LEMMA PendingIs ==
    ASSUME NEW n, NEW x
    PROVE  x \in Pending(n) <=> x \in Extent /\ n <= x /\ \A y \in n..(x - 1) : ~Inside(x, y)
BY Zenon DEF Pending

\* A token is of some text.
LEMMA TokenOfText ==
    ASSUME ParserInv, NEW x \in DOMAIN tokens
    PROVE  js # <<>>
<1>1. tokens[x].start \in DOMAIN js
  BY DEF ParserInv, Placed, Words
<1>2. DOMAIN <<>> = {}
  OBVIOUS
<1>3. QED
  BY <1>1, <1>2

\* No text, no token.
LEMMA NoTokens ==
    ASSUME ParserInv, js = <<>>
    PROVE  DOMAIN tokens = {} /\ tokens = <<>>
<1>1. DOMAIN tokens = {}
  BY TokenOfText
<1>2. tokens = <<>>
  <2>1. tokens \in Seq(TokenType)
    BY DEF ParserInv, ParserTypes
  <2>2. DOMAIN tokens = 1..Len(tokens) /\ Len(tokens) \in Nat
    BY <2>1, LenProperties
  <2>3. Len(tokens) = 0
    BY <1>1, <2>2
  <2>4. QED
    BY <2>1, <2>3, EmptySeq
<1>3. QED
  BY <1>1, <1>2

\* The first value is a token, those inside of it, and no other: no token is
\* before one of them and not among them.
LEMMA ExtentFacts ==
    ASSUME ParserInv, js # <<>>, pos = Len(js) + 1, Opened = {}, NEW n, n = Len(tokens)
    PROVE  /\ n \in Nat \ {0} /\ DOMAIN tokens = 1..n /\ Extent \subseteq 1..n
           /\ 1 \in Extent
           /\ \A x \in Extent : \A y \in 1..x : y \in Extent
           /\ \A x \in Extent : \A y \in 1..n : Inside(y, x) => y \in Extent
<1>1. ParserTypes /\ Placed /\ Ended /\ Nested
  BY DEF ParserInv
<1>2. Len(tokens) > 0
  <2>1. Len(js) \in Nat /\ Len(js) # 0
    BY <1>1, TextIs, EmptySeq DEF ParserTypes
  <2>2. pos > 1
    BY <2>1
  <2>3. QED
    BY <1>1, <2>2 DEF Placed
<1>3. /\ n \in Nat \ {0} /\ DOMAIN tokens = 1..n
      /\ \A x \in 1..n : tokens[x].start \in Nat /\ tokens[x].end \in Int
  BY <1>1, <1>2, TokensAre
<1>4. \A x : x \in Extent <=> x \in 1..n /\ tokens[x].start < tokens[1].end
  BY <1>3 DEF Extent
<1>5. 1 \in Extent
  BY <1>1, <1>3, <1>4 DEF Ended
<1>6. ASSUME NEW x \in Extent, NEW y \in 1..x PROVE y \in Extent
  <2>1. x \in 1..n /\ y \in 1..n /\ (y = x \/ y < x) /\ 1 \in 1..n
    BY <1>3, <1>4
  <2>2. y < x => tokens[y].start < tokens[x].start
    BY <1>1, <1>3, <2>1 DEF Placed
  <2>3. tokens[y].start < tokens[1].end
    BY <1>3, <1>4, <2>1, <2>2
  <2>4. QED
    BY <1>4, <2>1, <2>3
<1>7. ASSUME NEW x \in Extent, NEW y \in 1..n, Inside(y, x) PROVE y \in Extent
  <2>1. x \in 1..n /\ 1 \in 1..n /\ tokens[x].start < tokens[1].end
    BY <1>3, <1>4
  <2>2. tokens[y].start < tokens[x].end
    BY <1>7 DEF Inside
  <2>3. CASE x = 1
    BY <1>4, <2>2, <2>3
  <2>4. CASE x # 1
    <3>1. 1 < x
      BY <1>3, <2>1, <2>4
    <3>2. Inside(x, 1)
      BY <2>1, <3>1 DEF Inside
    <3>3. tokens[x].end <= tokens[1].end
      BY <1>1, <1>3, <2>1, <3>2 DEF Nested
    <3>4. tokens[y].start < tokens[1].end
      BY <1>3, <2>1, <2>2, <3>3
    <3>5. QED
      BY <1>4, <3>4
  <2>5. QED
    BY <2>3, <2>4
<1>8. QED
  BY <1>3, <1>4, <1>5, <1>6, <1>7

\* The pending tokens are finitely many; there is one as long as the first
\* value is not at its end.
LEMMA PendingFacts ==
    ASSUME ParserInv, js # <<>>, pos = Len(js) + 1, Opened = {}, NEW k \in Nat \ {0}
    PROVE  /\ IsFiniteSet(Pending(k)) /\ Cardinality(Pending(k)) \in Nat
           /\ Pending(k) = {} <=> k \notin Extent
           /\ k \in Extent => k \in Pending(k)
<1>1. PICK n : n = Len(tokens)
  OBVIOUS
<1>2. /\ n \in Nat \ {0} /\ Extent \subseteq 1..n
      /\ \A x \in Extent : \A y \in 1..x : y \in Extent
  BY <1>1, ExtentFacts
<1>3. Pending(k) \in SUBSET (1..n)
  BY <1>2, PendingIs
<1>4. IsFiniteSet(1..n)
  BY <1>2, FS_Interval
<1>5. IsFiniteSet(Pending(k))
  BY <1>3, <1>4, FS_Subset
<1>6. ASSUME NEW x \in Pending(k) PROVE k \in Extent
  <2>1. x \in Extent /\ k <= x
    BY PendingIs
  <2>2. k \in 1..x
    BY <1>2, <2>1
  <2>3. QED
    BY <1>2, <2>1, <2>2
<1>7. ASSUME k \in Extent PROVE k \in Pending(k)
  <2>1. k <= k /\ k..(k - 1) = {}
    OBVIOUS
  <2>2. QED
    BY <1>7, <2>1, PendingIs, Zenon
<1>8. QED
  BY <1>5, <1>6, <1>7, FS_CardinalityType

\* The token at k gives way to its children.
LEMMA PendingStep ==
    ASSUME ParserInv, js # <<>>, pos = Len(js) + 1, Opened = {}, NEW k \in Extent
    PROVE  Cardinality(Pending(k + 1)) = Cardinality(Pending(k)) - 1 + tokens[k].size
<1>1. PICK n : n = Len(tokens)
  OBVIOUS
<1>2. /\ n \in Nat \ {0} /\ DOMAIN tokens = 1..n /\ Extent \subseteq 1..n
      /\ \A x \in Extent : \A y \in 1..n : Inside(y, x) => y \in Extent
  BY <1>1, ExtentFacts
<1>3. k \in 1..n /\ k \in Nat \ {0}
  BY <1>2
<1>4. IsFiniteSet(Pending(k)) /\ Cardinality(Pending(k)) \in Nat /\ k \in Pending(k)
  BY <1>3, PendingFacts
<1>5. ASSUME NEW x
      PROVE  x \in Pending(k + 1) <=> x \in Pending(k) \ {k} \/ x \in Children(k)
  <2>1. ASSUME x \in Pending(k), x # k PROVE x \in Pending(k + 1)
    <3>1. x \in Extent /\ k <= x /\ \A y \in k..(x - 1) : ~Inside(x, y)
      BY <2>1, PendingIs
    <3>2. k + 1 <= x /\ \A y \in (k + 1)..(x - 1) : y \in k..(x - 1)
      BY <1>2, <1>3, <2>1, <3>1
    <3>3. QED
      BY <3>1, <3>2, PendingIs
  <2>2. ASSUME x \in Children(k) PROVE x \in Pending(k + 1)
    <3>1. x \in 1..n /\ Inside(x, k) /\ \A z \in 1..n : k < z => ~Inside(x, z)
      BY <1>2, <2>2, ChildrenAre
    <3>2. x \in Extent
      BY <1>2, <3>1
    <3>3. k + 1 <= x
      BY <1>3, <3>1 DEF Inside
    <3>4. \A y \in (k + 1)..(x - 1) : y \in 1..n /\ k < y
      BY <1>2, <1>3, <3>1
    <3>5. QED
      BY <3>1, <3>2, <3>3, <3>4, PendingIs
  <2>3. ASSUME x \in Pending(k + 1), x \notin Children(k) PROVE x \in Pending(k) /\ x # k
    <3>1. x \in Extent /\ k + 1 <= x /\ \A y \in (k + 1)..(x - 1) : ~Inside(x, y)
      BY <2>3, PendingIs
    <3>2. x \in 1..n /\ x # k /\ k <= x
      BY <1>2, <1>3, <3>1
    <3>3. \A z \in 1..n : k < z => ~Inside(x, z)
      <4>1. SUFFICES ASSUME NEW z \in 1..n, k < z, Inside(x, z) PROVE FALSE
        OBVIOUS
      <4>2. z < x
        BY <4>1 DEF Inside
      <4>3. z \in (k + 1)..(x - 1)
        BY <1>3, <3>2, <4>1, <4>2
      <4>4. QED
        BY <3>1, <4>1, <4>3
    <3>4. ~Inside(x, k)
      BY <1>2, <2>3, <3>2, <3>3, ChildrenAre
    <3>5. \A y \in k..(x - 1) : y = k \/ y \in (k + 1)..(x - 1)
      BY <1>3, <3>2
    <3>6. QED
      BY <3>1, <3>2, <3>4, <3>5, PendingIs
  <2>4. QED
    BY <2>1, <2>2, <2>3
<1>6. ASSUME NEW x \in Pending(k) PROVE x \notin Children(k)
  <2>1. SUFFICES ASSUME x \in Children(k) PROVE FALSE
    OBVIOUS
  <2>2. Inside(x, k) /\ x \in 1..n
    BY <1>2, <2>1, ChildrenAre
  <2>3. k < x
    BY <2>2 DEF Inside
  <2>4. k \in k..(x - 1)
    BY <1>3, <2>2, <2>3
  <2>5. QED
    BY <2>2, <2>4, PendingIs
<1>7. ParserTypes /\ tokens[k].size = Cardinality(Children(k))
  BY <1>2, <1>3 DEF ParserInv, Counts
<1>8. IsFiniteSet(Children(k)) /\ Cardinality(Children(k)) \in Nat
  BY <1>7, ChildrenFinite
<1>9. PICK P, C, Q : P = Pending(k) \ {k} /\ C = Children(k) /\ Q = Pending(k + 1)
  OBVIOUS
<1>10. IsFiniteSet(P) /\ Cardinality(P) = Cardinality(Pending(k)) - 1
  BY <1>4, <1>9, FS_RemoveElement
<1>11. Q = P \cup C /\ P \cap C = {}
  BY <1>5, <1>6, <1>9
<1>12. Cardinality(Q) = Cardinality(P) + Cardinality(C)
  <2>1. IsFiniteSet(C)
    BY <1>8, <1>9
  <2>2. Cardinality(P \cup C) = Cardinality(P) + Cardinality(C)
    <3>1. Cardinality(P \cup C) = Cardinality(P) + Cardinality(C) - Cardinality(P \cap C)
      BY <1>10, <2>1, FS_Union
    <3>2. Cardinality(P \cap C) = 0 /\ Cardinality(P) \in Nat /\ Cardinality(C) \in Nat
      BY <1>10, <1>11, <2>1, FS_EmptySet, FS_CardinalityType
    <3>3. QED
      BY <3>1, <3>2
  <2>3. QED
    BY <1>11, <2>2
<1>13. QED
  BY <1>7, <1>9, <1>10, <1>12, <1>4, <1>8

\* The walk passes a token: j is what is pending then. The size of what is no
\* object and no array is 0.
LEMMA MoreCounts ==
    ASSUME ParserInv, js # <<>>, pos = Len(js) + 1, Opened = {}, i \in Extent,
           j = Cardinality(Pending(i)), More
    PROVE  /\ i \in DOMAIN tokens /\ i \in Nat \ {0} /\ i' = i + 1
           /\ j' = Cardinality(Pending(i + 1)) /\ j' \in Nat
           /\ 1..i \subseteq Extent
<1>1. PICK n : n = Len(tokens)
  OBVIOUS
<1>2. /\ n \in Nat \ {0} /\ DOMAIN tokens = 1..n /\ Extent \subseteq 1..n
      /\ \A x \in Extent : \A y \in 1..x : y \in Extent
  BY <1>1, ExtentFacts
<1>3. i \in 1..n /\ i \in Nat \ {0}
  BY <1>2
<1>4. /\ ParserTypes
      /\ tokens[i].size \in Nat /\ tokens[i].type = Type(js[tokens[i].start])
      /\ ~IsOpener(i) => tokens[i].size = 0
  BY <1>1, <1>2, <1>3, TokensAre DEF ParserInv, Placed, Ended
<1>5. tokens[i].type \notin {"OBJECT", "ARRAY"} => tokens[i].size = 0
  <2>1. IsOpener(i) => Type(js[tokens[i].start]) \in {"OBJECT", "ARRAY"}
    <3>1. \A l \in Openers : l \notin Primitives
      BY JsmnAssumption, Zenon
    <3>2. QED
      BY <3>1 DEF IsOpener, Openers, Type
  <2>2. QED
    BY <1>4, <2>1
<1>6. i' = i + 1 /\ j' = j - 1 + tokens[i].size
  <2>1. j' = j - 1 + IF tokens[i].type \in {"OBJECT", "ARRAY"} THEN tokens[i].size ELSE 0
    BY DEF More, Token
  <2>2. QED
    BY <1>4, <1>5, <2>1 DEF More
<1>7. /\ Cardinality(Pending(i + 1)) = Cardinality(Pending(i)) - 1 + tokens[i].size
      /\ Cardinality(Pending(i + 1)) \in Nat
  <2>1. Cardinality(Pending(i + 1)) = Cardinality(Pending(i)) - 1 + tokens[i].size
    BY PendingStep
  <2>2. i + 1 \in Nat \ {0}
    BY <1>3
  <2>3. QED
    BY <2>1, <2>2, PendingFacts
<1>8. QED
  BY <1>2, <1>3, <1>6, <1>7

\* As long as j is not 0 there is a token at i, if there is any text.
LEMMA TokenThere ==
    ASSUME StartupInv, pc \in Walking, j > 0, js # <<>>
    PROVE  i \in Extent /\ i \in DOMAIN tokens
<1>1. /\ ParserInv /\ pos = Len(js) + 1 /\ Opened = {} /\ i \in Nat \ {0}
      /\ j = Cardinality(Pending(i))
  BY DEF StartupInv, WalkInv, WalkTypes
<1>2. Pending(i) # {}
  <2>1. SUFFICES ASSUME Pending(i) = {} PROVE FALSE
    OBVIOUS
  <2>2. j = 0
    BY <1>1, <2>1, FS_EmptySet
  <2>3. QED
    BY <2>2
<1>3. i \in Extent
  BY <1>1, <1>2, PendingFacts
<1>4. QED
  BY <1>3 DEF Extent

----------------------------------------------------------------------------
(* The invariant holds.                                                    *)

\* A step that leaves the parser alone leaves alone what is defined of it.
LEMMA SameTokens ==
    ASSUME UNCHANGED parser
    PROVE  /\ UNCHANGED <<js, pos, tokens, toksuper, room>>
           /\ Opened' = Opened /\ Extent' = Extent
           /\ Urls' = Urls /\ ChannelType' = ChannelType
           /\ \A n : Pending(n)' = Pending(n)
           /\ ParserInv => ParserInv'
<1>1. UNCHANGED <<js, pos, tokens, toksuper, room>>
  BY DEF parser
<1>2. Opened' = Opened
  BY <1>1 DEF Opened
<1>3. Extent' = Extent
  BY <1>1 DEF Extent
<1>4. Urls' = Urls
  BY <1>1 DEF Urls
<1>5. ChannelType' = ChannelType
  BY <1>1 DEF ChannelType
<1>6. \A x, y : Inside(x, y)' <=> Inside(x, y)
  BY <1>1, <1>2 DEF Inside
<1>7. \A n : Pending(n)' = Pending(n)
  BY <1>3, <1>6 DEF Pending
<1>8. ParserInv => ParserInv'
  BY <1>1, ParserStutter
<1>9. QED
  BY <1>1, <1>2, <1>3, <1>4, <1>5, <1>7, <1>8

\* Urls and the type of a channel are those of the text.
LEMMA SameTypes ==
    ASSUME js' = js
    PROVE  Urls' = Urls /\ ChannelType' = ChannelType
BY DEF Urls, ChannelType

\* main begins.
LEMMA StartupInit == Init => StartupInv
<1>. SUFFICES ASSUME Init PROVE StartupInv
  OBVIOUS
<1>1. ParserInv
  BY ParserInitInv DEF Init
<1>2. pc = "parse"
  BY DEF Init, ParserInit
<1>3. WalkInv
  BY <1>2 DEF Init, WalkInv, Walking
<1>4. NoChannel \in ChannelType
  BY DEF NoChannel, ChannelType
<1>5. channels \in Seq(ChannelType)
  BY DEF Init
<1>6. temp = [url |-> temp.url, outputs |-> temp.outputs] /\ temp.url \in Urls
  BY DEF Init, Urls
<1>7. WalkTypes
  BY <1>2, <1>4, <1>5, <1>6 DEF Init, WalkTypes
<1>8. QED
  BY <1>1, <1>3, <1>7 DEF StartupInv

\* The parser goes on, and the walk waits for it. It then begins with the
\* first token, and j is 1.
LEMMA ParseStep ==
    ASSUME StartupInv, Parse, UNCHANGED <<walk, channel, channels>>
    PROVE  StartupInv'
<1>1. /\ ParserInv /\ WalkTypes /\ pc = "parse" /\ i = 1 /\ j = 1
  BY DEF StartupInv, WalkInv, Parse, Grow, Open, Leaf, Close, Invalid, Parsed, Parsing
<1>2. ParserInv'
  BY <1>1, ParseInv
<1>3. js' = js /\ pc' \in {"parse", "invalid", "tokens"}
  BY <1>1 DEF Parse, Grow, Open, Leaf, Close, Invalid, Parsed, parser
<1>4. WalkTypes'
  <2>1. Urls' = Urls /\ ChannelType' = ChannelType
    BY <1>3, SameTypes
  <2>2. UNCHANGED <<i, j, state, m, temp, channel, channels>>
    BY DEF walk
  <2>3. pc' \in Ends \cup Walking \cup {"parse"}
    BY <1>3 DEF Ends, Walking
  <2>4. QED
    BY <1>1, <2>1, <2>2, <2>3 DEF WalkTypes
<1>5. WalkInv'
  <2>1. i' = 1 /\ j' = 1
    BY <1>1 DEF walk
  <2>2. CASE pc' # "tokens"
    BY <1>3, <2>1, <2>2 DEF WalkInv, Walking
  <2>3. CASE pc' = "tokens"
    <3>1. Parsed
      BY <1>1, <2>3 DEF Parse, Grow, Open, Leaf, Close, Invalid, Parsed, parser
    <3>2. UNCHANGED parser /\ pos > Len(js) /\ Opened = {}
      BY <3>1 DEF Parsed
    <3>3. pos = Len(js) + 1
      <4>1. pos \in 1..(Len(js) + 1) /\ Len(js) \in Nat
        BY <1>1, TextIs DEF ParserInv, ParserTypes
      <4>2. QED
        BY <3>2, <4>1
    <3>4. /\ pos' = Len(js') + 1 /\ Opened' = {} /\ Extent' = Extent
          /\ Pending(1)' = Pending(1)
      BY <3>2, <3>3, SameTokens
    <3>5. ASSUME js # <<>> PROVE Pending(1) = {1}
      <4>1. PICK n : n = Len(tokens)
        OBVIOUS
      <4>2. n \in Nat \ {0} /\ Extent \subseteq 1..n /\ 1 \in Extent
        BY <1>1, <3>2, <3>3, <3>5, <4>1, ExtentFacts
      <4>3. 1 \in Pending(1)
        BY <1>1, <3>2, <3>3, <3>5, <4>2, PendingFacts
      <4>4. ASSUME NEW x \in Pending(1) PROVE x = 1
        <5>1. x \in Extent /\ 1 <= x /\ \A y \in 1..(x - 1) : ~Inside(x, y)
          BY PendingIs
        <5>2. x # 1 => 1 \in 1..(x - 1) /\ 1 < x
          BY <4>2, <5>1
        <5>3. x # 1 => Inside(x, 1)
          BY <5>1, <5>2 DEF Inside, Extent
        <5>4. QED
          BY <5>1, <5>2, <5>3
      <4>5. QED
        BY <4>3, <4>4
    <3>6. js # <<>> => Cardinality(Pending(1)') = 1
      BY <3>4, <3>5, FS_Singleton
    <3>7. 1..(1 - 1) = {}
      OBVIOUS
    <3>8. QED
      BY <1>3, <2>1, <2>3, <3>4, <3>6, <3>7 DEF WalkInv
  <2>4. QED
    BY <2>2, <2>3
<1>6. QED
  BY <1>2, <1>4, <1>5 DEF StartupInv

\* The walk passes a token.
LEMMA PassStep ==
    ASSUME StartupInv, pc = "tokens", j > 0, js # <<>>, UNCHANGED parser, More,
           pc' \in {"tokens", "new"}
    PROVE  ParserInv' /\ WalkInv' /\ i' \in Nat \ {0} /\ j' \in Nat
<1>1. /\ ParserInv /\ pos = Len(js) + 1 /\ Opened = {} /\ j = Cardinality(Pending(i))
      /\ i \in Extent
  BY TokenThere DEF StartupInv, WalkInv, Walking
<1>2. /\ UNCHANGED <<js, pos>> /\ Opened' = Opened /\ Extent' = Extent
      /\ \A n : Pending(n)' = Pending(n)
      /\ ParserInv'
  BY <1>1, SameTokens
<1>3. /\ i \in Nat \ {0} /\ i' = i + 1 /\ j' = Cardinality(Pending(i + 1)) /\ j' \in Nat
      /\ 1..i \subseteq Extent
  BY <1>1, MoreCounts
<1>4. 1..(i' - 1) \subseteq Extent'
  BY <1>2, <1>3
<1>5. PICK k : k = i + 1
  OBVIOUS
<1>6. j' = Cardinality(Pending(k)') /\ i' = k
  BY <1>2, <1>3, <1>5
<1>7. j' = Cardinality(Pending(i)')
  BY <1>6 DEF Pending
<1>8. pc' # "parse" /\ pc' # "wait"
  OBVIOUS
<1>9. WalkInv'
  BY <1>1, <1>2, <1>4, <1>7, <1>8 DEF WalkInv
<1>10. QED
  BY <1>2, <1>3, <1>9

\* The walk stands still while a channel is made, or is left.
LEMMA StayStep ==
    ASSUME StartupInv, pc \in Walking, UNCHANGED <<parser, i, j>>,
           pc' \in Walking \cup {"returned", "aborted", "stray"}, pc' \in Walking => js # <<>>
    PROVE  ParserInv' /\ WalkInv' /\ i' \in Nat \ {0} /\ j' \in Nat
<1>1. /\ ParserInv /\ pos = Len(js) + 1 /\ Opened = {}
      /\ js # <<>> => j = Cardinality(Pending(i))
      /\ 1..(i - 1) \subseteq Extent /\ i \in Nat \ {0} /\ j \in Nat
  BY DEF StartupInv, WalkInv, WalkTypes
<1>2. /\ UNCHANGED <<js, pos>> /\ Opened' = Opened /\ Extent' = Extent
      /\ \A n : Pending(n)' = Pending(n)
      /\ ParserInv'
  BY <1>1, SameTokens
<1>3. pc' # "parse" /\ pc' # "wait"
  BY DEF Walking
<1>4. PICK k : k = i
  OBVIOUS
<1>5. js # <<>> => j' = Cardinality(Pending(k)') /\ i' = k
  BY <1>1, <1>2, <1>4
<1>6. js # <<>> => j' = Cardinality(Pending(i)')
  BY <1>5 DEF Pending
<1>7. WalkInv'
  BY <1>1, <1>2, <1>3, <1>6 DEF WalkInv, Walking
<1>8. QED
  BY <1>1, <1>2, <1>7

\* The walk ends: no token of the first value is left.
LEMMA EndStep ==
    ASSUME StartupInv, AllTokens
    PROVE  StartupInv'
<1>1. /\ ParserInv /\ WalkTypes /\ pos = Len(js) + 1 /\ Opened = {}
      /\ js # <<>> /\ j = Cardinality(Pending(i)) /\ 1..(i - 1) \subseteq Extent
      /\ i \in Nat \ {0} /\ pc = "tokens" /\ j = 0 /\ pc' = "wait"
      /\ UNCHANGED <<parser, walk, channel, channels>>
  BY DEF StartupInv, WalkInv, WalkTypes, AllTokens, AtToken, Walking
<1>2. Extent = 1..(i - 1)
  <2>1. PICK n : n = Len(tokens)
    OBVIOUS
  <2>2. n \in Nat /\ Extent \subseteq 1..n /\ \A x \in Extent : \A y \in 1..x : y \in Extent
    BY <1>1, <2>1, ExtentFacts
  <2>3. IsFiniteSet(Pending(i)) /\ (Pending(i) = {} <=> i \notin Extent)
    BY <1>1, PendingFacts
  <2>4. i \notin Extent
    BY <1>1, <2>3, FS_EmptySet
  <2>5. ASSUME NEW x \in Extent PROVE x \in 1..(i - 1)
    <3>1. x \in Nat /\ 1 <= x /\ i \notin 1..x
      BY <2>2, <2>4
    <3>2. QED
      BY <1>1, <3>1
  <2>6. QED
    BY <1>1, <2>5
<1>3. ParserInv' /\ Extent' = Extent /\ Urls' = Urls /\ ChannelType' = ChannelType
  BY <1>1, SameTokens
<1>4. UNCHANGED <<i, j, state, m, temp, channel, channels>>
  BY <1>1 DEF walk
<1>5. WalkInv'
  <2>1. pc' \notin Walking /\ pc' # "parse" /\ Extent' = 1..(i' - 1)
    BY <1>1, <1>2, <1>3, <1>4 DEF Walking
  <2>2. QED
    BY <2>1 DEF WalkInv
<1>6. WalkTypes'
  <2>1. pc' \in Ends
    BY <1>1 DEF Ends
  <2>2. QED
    BY <1>1, <1>3, <1>4, <2>1 DEF WalkTypes
<1>7. QED
  BY <1>3, <1>5, <1>6 DEF StartupInv

\* The types after a step that leaves the parser alone.
LEMMA TypesStep ==
    ASSUME WalkTypes, UNCHANGED parser, i' \in Nat \ {0}, j' \in Nat,
           pc' \in Ends \cup Walking,
           state' \in {"START", "KEY", "SKIP", "PRINT"}, m' \in Keys \cup {NULL},
           temp' = [url |-> temp'.url, outputs |-> temp'.outputs], temp'.url \in Urls,
           channel' \in ChannelType, channels' \in Seq(ChannelType)
    PROVE  WalkTypes'
<1>1. Urls' = Urls /\ ChannelType' = ChannelType
  BY SameTokens
<1>2. QED
  BY <1>1 DEF WalkTypes

\* The walk over the tokens keeps the invariant.
LEMMA TokensStep ==
    ASSUME StartupInv, Tokens
    PROVE  StartupInv'
<1>1. /\ WalkTypes /\ state \in {"START", "KEY", "SKIP", "PRINT"} /\ m \in Keys \cup {NULL}
      /\ temp = [url |-> temp.url, outputs |-> temp.outputs] /\ temp.url \in Urls
      /\ channel \in ChannelType /\ channels \in Seq(ChannelType)
  BY DEF StartupInv, WalkTypes
<1>2. CASE AllTokens
  BY <1>2, EndStep
<1>3. CASE Unfilled \/ NoObject
  <2>1. /\ pc = "tokens" /\ pc' \in {"returned", "stray"}
        /\ UNCHANGED <<parser, i, j, state, m, temp, channel, channels>>
    BY <1>3 DEF Unfilled, NoObject, AtToken, walk
  <2>2. ParserInv' /\ WalkInv' /\ i' \in Nat \ {0} /\ j' \in Nat
    BY <2>1, StayStep DEF Walking
  <2>3. WalkTypes'
    BY <1>1, <2>1, <2>2, TypesStep DEF Ends
  <2>4. QED
    BY <2>2, <2>3 DEF StartupInv
<1>4. ASSUME pc = "tokens", j > 0, i \in DOMAIN tokens,
             UNCHANGED <<parser, channel, channels>>, More, pc' \in {"tokens", "new"},
             state' \in {"START", "KEY", "SKIP", "PRINT"}, m' \in Keys \cup {NULL},
             temp' = [url |-> temp'.url, outputs |-> temp'.outputs], temp'.url \in Urls
      PROVE  StartupInv'
  <2>1. ParserInv' /\ WalkInv' /\ i' \in Nat \ {0} /\ j' \in Nat
    BY <1>4, TokenOfText, PassStep DEF StartupInv
  <2>2. pc' \in Ends \cup Walking
    BY <1>4 DEF Walking
  <2>3. WalkTypes'
    BY <1>1, <1>4, <2>1, <2>2, TypesStep
  <2>4. QED
    BY <2>1, <2>3 DEF StartupInv
<1>5. CASE FirstObject
  BY <1>1, <1>4, <1>5 DEF FirstObject, AtToken
<1>6. CASE NoKey
  BY <1>1, <1>4, <1>6 DEF NoKey, AtToken
<1>7. CASE Key
  BY <1>1, <1>4, <1>7 DEF Key, AtToken
<1>8. CASE Skip
  BY <1>1, <1>4, <1>8 DEF Skip, AtToken
<1>9. CASE PrintName
  <2>1. temp' = [url |-> NULL, outputs |-> <<>>]
    BY <1>9 DEF PrintName
  <2>2. temp'.url \in Urls /\ temp' = [url |-> temp'.url, outputs |-> temp'.outputs]
    BY <2>1 DEF Urls
  <2>3. QED
    BY <1>1, <1>4, <1>9, <2>2 DEF PrintName, AtToken
<1>10. CASE PrintUrl
  <2>1. Lexeme \in Urls
    <3>1. i \in DOMAIN tokens
      BY <1>10 DEF PrintUrl, AtToken
    <3>2. tokens[i].start \in DOMAIN js
      BY <3>1 DEF StartupInv, ParserInv, Placed, Words
    <3>3. QED
      BY <3>2 DEF Lexeme, Token, Urls
  <2>2. temp' = [temp EXCEPT !.url = Lexeme]
    BY <1>10 DEF PrintUrl
  <2>3. temp'.url = Lexeme /\ temp' = [url |-> temp'.url, outputs |-> temp'.outputs]
    BY <1>1, <2>2
  <2>4. QED
    BY <1>1, <1>4, <1>10, <2>1, <2>3 DEF PrintUrl, AtToken
<1>11. CASE PrintOutput
  <2>1. PICK o : temp' = [temp EXCEPT !.outputs = o]
    BY <1>11 DEF PrintOutput
  <2>2. temp'.url = temp.url /\ temp' = [url |-> temp'.url, outputs |-> temp'.outputs]
    BY <1>1, <2>1
  <2>3. QED
    BY <1>1, <1>4, <1>11, <2>2 DEF PrintOutput, AtToken
<1>12. QED
  BY <1>2, <1>3, <1>5, <1>6, <1>7, <1>8, <1>9, <1>10, <1>11 DEF Tokens

\* So does the making of a channel.
LEMMA MakeStep ==
    ASSUME StartupInv, Make
    PROVE  StartupInv'
<1>1. /\ WalkTypes /\ state \in {"START", "KEY", "SKIP", "PRINT"} /\ m \in Keys \cup {NULL}
      /\ temp = [url |-> temp.url, outputs |-> temp.outputs] /\ temp.url \in Urls
      /\ channel \in ChannelType /\ channels \in Seq(ChannelType)
  BY DEF StartupInv, WalkTypes
<1>2. ASSUME pc \in Making, UNCHANGED <<parser, i, j, state, m>>,
             pc' \in Walking \cup {"aborted"},
             temp' = [url |-> temp'.url, outputs |-> temp'.outputs], temp'.url \in Urls,
             channel' \in ChannelType, channels' \in Seq(ChannelType)
      PROVE  StartupInv'
  <2>1. ParserInv' /\ WalkInv' /\ i' \in Nat \ {0} /\ j' \in Nat
    BY <1>2, StayStep DEF StartupInv, WalkInv, Walking, Making
  <2>2. pc' \in Ends \cup Walking
    BY <1>2 DEF Ends
  <2>3. WalkTypes'
    BY <1>1, <1>2, <2>1, <2>2, TypesStep
  <2>4. QED
    BY <2>1, <2>3 DEF StartupInv
<1>3. ASSUME pc \in Making, Abort PROVE StartupInv'
  BY <1>1, <1>2, <1>3 DEF Abort, walk
<1>4. CASE NewChannel
  <2>1. CASE temp.url = NULL
    BY <1>3, <1>4, <2>1 DEF NewChannel, Making
  <2>2. CASE temp.url # NULL
    <3>1. /\ pc = "new" /\ pc' = "add_output" /\ UNCHANGED <<parser, walk, channels>>
          /\ \E s \in {"open", "failed", "stray"} :
                channel' = [NoChannel EXCEPT !.url = temp.url, !.skt = s]
      BY <1>4, <2>2 DEF NewChannel
    <3>2. channel' \in ChannelType
      BY <1>1, <3>1 DEF ChannelType, NoChannel, Urls
    <3>3. QED
      BY <1>1, <1>2, <3>1, <3>2 DEF walk, Walking, Making
  <2>3. QED
    BY <2>1, <2>2
<1>5. CASE AddOutput
  <2>1. /\ pc = "add_output" /\ UNCHANGED <<parser, pc, i, j, state, m, channels>>
        /\ temp' = [temp EXCEPT !.outputs = Tail(@)]
    BY <1>5 DEF AddOutput
  <2>2. channel' \in ChannelType
    <3>1. PICK o : channel' = [channel EXCEPT !.flv = @ \/ o \in {"flv", "rtmp"},
                                              !.ts  = @ \/ o \in {"ts", "m3u8"}]
      BY <1>5 DEF AddOutput
    <3>2. QED
      BY <1>1, <3>1 DEF ChannelType
  <2>3. temp'.url = temp.url /\ temp' = [url |-> temp'.url, outputs |-> temp'.outputs]
    BY <1>1, <2>1
  <2>4. QED
    BY <1>1, <1>2, <2>1, <2>2, <2>3 DEF Walking, Making
<1>6. CASE ChannelStart
  <2>1. CASE channel.skt # "open" /\ Abort
    BY <1>3, <1>6, <2>1 DEF ChannelStart, Making
  <2>2. CASE ~(channel.skt # "open" /\ Abort)
    <3>1. /\ pc = "add_output" /\ pc' = "add" /\ UNCHANGED <<parser, walk, channels>>
          /\ \E e \in EventAddConn :
                channel' = [channel EXCEPT
                    !.events = IF channel.url \in {"udp", "tcp"} THEN EventDelOut(e) ELSE e]
      BY <1>6, <2>2 DEF ChannelStart
    <3>2. PICK e \in SUBSET {"in", "out"} : channel' = [channel EXCEPT !.events = e]
      <4>1. PICK e \in EventAddConn : channel' = [channel EXCEPT
                    !.events = IF channel.url \in {"udp", "tcp"} THEN EventDelOut(e) ELSE e]
        BY <3>1
      <4>2. e \in SUBSET {"in", "out"} /\ EventDelOut(e) \in SUBSET {"in", "out"}
        BY DEF EventAddConn, EventDelOut
      <4>3. QED
        BY <4>1, <4>2
    <3>3. channel' \in ChannelType
      BY <1>1, <3>2 DEF ChannelType
    <3>4. QED
      BY <1>1, <1>2, <3>1, <3>3 DEF walk, Walking, Making
  <2>3. QED
    BY <2>1, <2>2
<1>7. CASE ChannelAdd
  <2>1. /\ pc = "add" /\ pc' = "tokens" /\ UNCHANGED <<parser, walk>> /\ channel' = NoChannel
        /\ channels' \in {channels, Append(channels, channel)}
    BY <1>7 DEF ChannelAdd
  <2>2. channels' \in Seq(ChannelType)
    BY <1>1, <2>1, AppendProperties
  <2>3. channel' \in ChannelType
    BY <2>1 DEF ChannelType, NoChannel
  <2>4. QED
    BY <1>1, <1>2, <2>1, <2>2, <2>3 DEF walk, Walking, Making
<1>8. QED
  BY <1>4, <1>5, <1>6, <1>7 DEF Make

\* The invariant holds in every state.
LEMMA StartupInvHolds == Spec => []StartupInv
<1>1. StartupInv /\ [Next]_vars => StartupInv'
  <2>. SUFFICES ASSUME StartupInv, [Next]_vars PROVE StartupInv'
    OBVIOUS
  <2>1. CASE Parse /\ UNCHANGED <<walk, channel, channels>>
    BY <2>1, ParseStep
  <2>2. CASE Tokens
    BY <2>2, TokensStep
  <2>3. CASE Make
    BY <2>3, MakeStep
  <2>4. CASE UNCHANGED vars
    <3>1. /\ UNCHANGED parser /\ UNCHANGED <<pc, i, j, state, m, temp, channel, channels>>
      BY <2>4 DEF vars, walk
    <3>2. /\ ParserInv' /\ Extent' = Extent /\ UNCHANGED <<js, pos>> /\ Opened' = Opened
          /\ Urls' = Urls /\ ChannelType' = ChannelType /\ \A n : Pending(n)' = Pending(n)
      BY <3>1, SameTokens DEF StartupInv
    <3>3. Cardinality(Pending(i)') = Cardinality(Pending(i))
      <4>1. PICK k : k = i
        OBVIOUS
      <4>2. Pending(i)' = Pending(k)'
        BY <3>1, <4>1 DEF Pending
      <4>3. QED
        BY <3>2, <4>1, <4>2
    <3>4. WalkInv'
      BY <3>1, <3>2, <3>3 DEF StartupInv, WalkInv
    <3>5. WalkTypes'
      BY <3>1, <3>2 DEF StartupInv, WalkTypes
    <3>6. QED
      BY <3>2, <3>4, <3>5 DEF StartupInv
  <2>5. QED
    BY <2>1, <2>2, <2>3, <2>4 DEF Next
<1>2. QED
  BY <1>1, StartupInit, PTL DEF Spec

----------------------------------------------------------------------------
(* What is read, whatever the text.                                        *)

\* main: the variables of the start keep their types; the parser never has
\* more tokens than there is room for.
THEOREM StartupTypeCorrect == Spec => []TypeOK
<1>1. StartupInv => TypeOK
  <2>. SUFFICES ASSUME StartupInv PROVE TypeOK
    OBVIOUS
  <2>1. /\ ParserTypes /\ pos \in 1..(Len(js) + 1) /\ room \in Nat /\ Len(tokens) <= room
    BY DEF StartupInv, ParserInv, ParserTypes
  <2>2. toksuper \in 0..Len(tokens)
    BY <2>1, SuperIs
  <2>3. /\ pc \in Ends \cup {"parse", "tokens", "new", "add_output", "add"}
        /\ i \in Nat /\ j \in Nat
        /\ state \in {"START", "KEY", "SKIP", "PRINT"} /\ m \in Keys \cup {NULL}
        /\ channel \in ChannelType /\ channels \in Seq(ChannelType)
    BY DEF StartupInv, WalkTypes, Walking
  <2>4. \A c \in ToSet(channels) : c \in ChannelType
    BY <2>3 DEF ToSet
  <2>5. QED
    BY <2>1, <2>2, <2>3, <2>4 DEF TypeOK
<1>2. QED
  BY <1>1, StartupInvHolds, PTL

\* main: the walk reads a token that the parser has not filled if what the buffer
\* seems to hold is no text at all, and only then; when the walk is over it has
\* passed the tokens of the first value.
THEOREM WalkReadsFilled == Spec => []ReadsFilled
<1>1. StartupInv => ReadsFilled
  <2>. SUFFICES ASSUME StartupInv PROVE ReadsFilled
    OBVIOUS
  <2>1. pc = "tokens" /\ j > 0 => (i \in DOMAIN tokens <=> js # <<>>)
    BY TokenThere, TokenOfText DEF Walking, StartupInv
  <2>2. pc = "wait" => i = Cardinality(Extent) + 1
    <3>1. SUFFICES ASSUME pc = "wait" PROVE i = Cardinality(Extent) + 1
      OBVIOUS
    <3>2. Extent = 1..(i - 1) /\ i \in Nat \ {0}
      BY <3>1 DEF StartupInv, WalkInv, WalkTypes
    <3>3. Cardinality(1..(i - 1)) = i - 1
      BY <3>2, FS_Interval
    <3>4. QED
      BY <3>2, <3>3
  <2>3. QED
    BY <2>1, <2>2 DEF ReadsFilled, Extent
<1>2. QED
  BY <1>1, StartupInvHolds, PTL

\* What was read begins a well-formed text, and the parser has not given up one
\* that is.
ExactInv == TextInv /\ (pc = "invalid" => ~WellFormed)

\* All steps keep it: those of the parser by what they do, the others because they
\* leave the text and the tokens alone.
LEMMA ExactInvHolds == Spec => []ExactInv
<1>1. Init => ExactInv
  <2>. SUFFICES ASSUME Init PROVE ExactInv
    OBVIOUS
  <2>1. ParserInit /\ ParserInv /\ pc = "parse"
    BY ParserInitInv DEF Init, ParserInit
  <2>2. QED
    BY <2>1, TextInit DEF ExactInv
<1>2. StartupInv /\ ExactInv /\ [Next]_vars => ExactInv'
  <2>. SUFFICES ASSUME StartupInv, ExactInv, [Next]_vars PROVE ExactInv'
    OBVIOUS
  <2>1. ParserInv /\ TextInv
    BY DEF StartupInv, ExactInv
  <2>2. CASE Parse /\ ~Invalid
    <3>1. TextInv'
      BY <2>1, <2>2, TextStep
    <3>2. pc' # "invalid"
      BY <2>2 DEF Parse, Grow, Open, Leaf, Close, Parsed, Parsing
    <3>3. QED
      BY <3>1, <3>2 DEF ExactInv
  <2>3. CASE Invalid
    <3>1. ~WellFormed /\ TextInv'
      BY <2>1, <2>3, InvalidExact, TextStep DEF Parse
    <3>2. js' = js
      BY <2>3 DEF Invalid, parser
    <3>3. QED
      BY <3>1, <3>2, SameText DEF ExactInv
  <2>4. CASE Tokens \/ Make \/ UNCHANGED vars
    <3>1. UNCHANGED <<js, pos, tokens>>
      BY <2>4 DEF Tokens, Unfilled, NoObject, FirstObject, NoKey, Key, Skip, PrintName,
                  PrintUrl, PrintOutput, AllTokens, Make, NewChannel, AddOutput,
                  ChannelStart, ChannelAdd, Abort, vars, parser
    <3>2. pc' = "invalid" => pc = "invalid"
      BY <2>4 DEF Tokens, Unfilled, NoObject, FirstObject, NoKey, Key, Skip, PrintName,
                  PrintUrl, PrintOutput, AllTokens, Make, NewChannel, AddOutput,
                  ChannelStart, ChannelAdd, Abort, AtToken, vars
    <3>3. QED
      BY <2>1, <3>1, <3>2, TextStutter, SameText DEF ExactInv
  <2>5. QED
    BY <2>2, <2>3, <2>4 DEF Next
<1>3. QED
  BY <1>1, <1>2, StartupInvHolds, PTL DEF Spec

\* main, jsmn_parse: whatever the text and what lies behind it in memory, and
\* however often the parser ran out of tokens, it accepts the well-formed ones
\* and its tokens are those of the text.
THEOREM ParserExact == Spec => []ParseExact
<1>1. StartupInv /\ ExactInv => ParseExact
  <2>. SUFFICES ASSUME StartupInv, ExactInv PROVE ParseExact
    OBVIOUS
  <2>1. ASSUME pc = "tokens" PROVE WellFormed /\ tokens = TokensOfText
    <3>1. ParserInv /\ TextInv /\ pos = Len(js) + 1 /\ Opened = {}
      BY <2>1 DEF StartupInv, WalkInv, ExactInv, Walking
    <3>2. QED
      BY <3>1, ParsedWellFormed, ParsedTokens
  <2>2. QED
    BY <2>1 DEF ParseExact, ExactInv
<1>2. QED
  BY <1>1, StartupInvHolds, ExactInvHolds, PTL

----------------------------------------------------------------------------
(* A configuration as README.md shows it, in the text that is parsed.      *)

\* The file is what the buffer begins with.
FileInv ==
    /\ file \in Seq(ToSet(file)) /\ Len(file) <= Len(js)
    /\ \A k \in 1..Len(file) : js[k] = file[k]

\* The first "]" behind the key output at k: its outputs are those up to there.
Stop(k) == Min({l \in Places({"]"}) : l > k})

\* The last input_url before k, and its value.
Before(w, k) == {l \in Places({w}) : l < k}
UrlAt(k) == js[Max(Before("input_url", k)) + 1]

\* Such a file is not empty, nor is what the buffer seems to hold.
LEMMA FileThere ==
    ASSUME ParserTypes, FileInv, AsDocumented(file)
    PROVE  Len(file) \in Nat \ {0} /\ js # <<>>
<1>1. Len(file) \in Nat /\ Len(file) # 0
  BY EmptySeq, LenProperties DEF FileInv, AsDocumented
<1>2. Len(js) \in Nat /\ Len(file) <= Len(js)
  BY TextIs DEF FileInv
<1>3. Len(js) # 0
  BY <1>1, <1>2
<1>4. QED
  BY <1>1, <1>3, EmptySeq DEF ParserTypes

\* An input_url is before k, and no brace between the two.
OwnUrl(k) == \E l \in 1..(k - 1) :
                js[l] = "input_url" /\ \A n \in l..k : js[n] \notin {"{", "}"}

\* In the buffer, too, the brackets of the file close each other.
LEMMA FileLevel ==
    ASSUME ParserTypes, FileInv, AsDocumented(file)
    PROVE  Level(Len(file) + 1) = 0
<1>1. /\ Len(file) \in Nat /\ DOMAIN file = 1..Len(file) /\ DOMAIN js = 1..Len(js)
      /\ Len(js) \in Nat /\ Len(file) <= Len(js) /\ \A k \in 1..Len(file) : js[k] = file[k]
  BY LenProperties, TextIs DEF FileInv
<1>2. ASSUME NEW S
      PROVE  {l \in Places(S) : l < Len(file) + 1} = {k \in DOMAIN file : file[k] \in S}
  <2>1. ASSUME NEW l
        PROVE  l \in Places(S) /\ l < Len(file) + 1 <=> l \in DOMAIN file /\ file[l] \in S
    <3>1. l \in DOMAIN js /\ l < Len(file) + 1 <=> l \in 1..Len(file)
      BY <1>1
    <3>2. QED
      BY <1>1, <3>1 DEF Places
  <2>2. QED
    BY <2>1
<1>3. Cardinality({k \in DOMAIN file : file[k] \in Openers})
        = Cardinality({k \in DOMAIN file : file[k] \in Closers})
  BY DEF AsDocumented
<1>4. IsFiniteSet({k \in DOMAIN file : file[k] \in Openers})
  <2>1. IsFiniteSet(1..Len(file))
    BY <1>1, FS_Interval
  <2>2. {k \in DOMAIN file : file[k] \in Openers} \in SUBSET (1..Len(file))
    BY <1>1
  <2>3. QED
    BY <2>1, <2>2, FS_Subset
<1>5. Cardinality({k \in DOMAIN file : file[k] \in Openers}) \in Nat
  BY <1>4, FS_CardinalityType
<1>6. Level(Len(file) + 1)
        = Cardinality({k \in DOMAIN file : file[k] \in Openers})
            - Cardinality({k \in DOMAIN file : file[k] \in Closers})
  BY <1>2 DEF Level
<1>7. QED
  BY <1>3, <1>5, <1>6

\* The first token begins where the text does.
LEMMA FirstToken ==
    ASSUME ParserInv, TextInv, js # <<>>, pos = Len(js) + 1, Opened = {}
    PROVE  tokens[1].start = 1
<1>1. /\ ParserTypes /\ Placed /\ Levels /\ 1 \in DOMAIN tokens /\ DOMAIN js = 1..Len(js)
      /\ Len(js) \in Nat /\ Len(js) > 0 /\ Words \subseteq Nat
  <2>1. PICK n : n = Len(tokens)
    OBVIOUS
  <2>2. n \in Nat \ {0} /\ DOMAIN tokens = 1..n
    BY <2>1, ExtentFacts
  <2>3. QED
    BY <2>2, TextIs, EmptySeq DEF ParserInv, ParserTypes, TextInv
<1>2. 1 \in Words
  <2>1. SUFFICES ASSUME 1 \notin Words PROVE FALSE
    OBVIOUS
  <2>2. 1 \in DOMAIN js /\ js[1] \in Closers
    BY <1>1, <2>1 DEF Words, Places
  <2>3. js[1] \notin Openers
    BY <2>2 DEF Openers, Closers
  <2>4. Level(1 + 1) = Level(1) + (-1) /\ Level(1) = 0
    BY <1>1, <2>2, <2>3, LevelStep
  <2>5. 1 + 1 \in 1..pos
    BY <1>1
  <2>6. Level(1 + 1) >= 0
    BY <1>1, <2>5 DEF Levels
  <2>7. QED
    BY <2>4, <2>6
<1>3. tokens[1].start \in Words /\ Cardinality(Below(Words, tokens[1].start)) = 1 - 1
  BY <1>1 DEF Placed
<1>4. Cardinality(Below(Words, 1)) = 0
  <2>1. \A l \in Words : ~(l < 1)
    BY <1>1 DEF Words
  <2>2. QED
    BY <2>1, BelowNone
<1>5. PICK s : s = tokens[1].start
  OBVIOUS
<1>6. s \in Words /\ Cardinality(Below(Words, s)) = Cardinality(Below(Words, 1))
  BY <1>3, <1>4, <1>5
<1>7. QED
  BY <1>1, <1>2, <1>5, <1>6, RankUnique

\* The tokens of the first value are in the file, whatever lies behind it.
LEMMA InFile ==
    ASSUME ParserInv, TextInv, pos = Len(js) + 1, Opened = {}, FileInv, AsDocumented(file),
           js[tokens[1].start] \in Openers, NEW x \in Extent
    PROVE  tokens[x].start \in 1..Len(file)
<1>1. /\ ParserTypes /\ Levels /\ x \in DOMAIN tokens /\ 1 \in DOMAIN tokens
      /\ tokens[x].start \in Words /\ tokens[x].start \in 1..Len(js) /\ Len(js) \in Nat
      /\ tokens[1].end \in Int /\ js # <<>>
  <2>1. js # <<>>
    BY FileThere DEF ParserInv
  <2>2. PICK n : n = Len(tokens)
    OBVIOUS
  <2>3. n \in Nat \ {0} /\ DOMAIN tokens = 1..n /\ Extent \subseteq 1..n
    BY <2>1, <2>2, ExtentFacts
  <2>4. ParserTypes /\ Levels /\ tokens[x].start \in Words
    BY <2>3 DEF ParserInv, Placed, TextInv
  <2>5. DOMAIN js = 1..Len(js) /\ Len(js) \in Nat
    BY <2>4, TextIs
  <2>6. QED
    BY <2>1, <2>2, <2>3, <2>4, <2>5, TokensAre DEF Words
<1>2. tokens[1].start = 1 /\ IsOpener(1) /\ 1 \notin Opened
  BY <1>1, FirstToken DEF IsOpener
<1>3. \A l \in (1 + 1)..pos : l < tokens[1].end => Level(l) > Level(1)
  BY <1>1, <1>2 DEF Levels
<1>4. Level(Len(file) + 1) = 0 /\ Level(1) = 0
  BY <1>1, FileLevel, LevelStep
<1>5. Len(file) \in Nat /\ Len(file) > 0 /\ Len(file) <= Len(js)
  BY <1>1, FileThere DEF FileInv
<1>6. Len(file) + 1 \in (1 + 1)..pos
  BY <1>1, <1>5
<1>7. ~(Len(file) + 1 < tokens[1].end)
  BY <1>3, <1>4, <1>6
<1>8. tokens[x].start < tokens[1].end
  BY DEF Extent
<1>9. QED
  BY <1>1, <1>5, <1>7, <1>8

\* No word is between a token and the next.
LEMMA NextToken ==
    ASSUME ParserInv, NEW x \in DOMAIN tokens
    PROVE  /\ x = 1 => \A l \in Words : ~(l < tokens[x].start)
           /\ x # 1 => /\ x - 1 \in DOMAIN tokens /\ tokens[x - 1].start < tokens[x].start
                       /\ \A l \in Words : l < tokens[x].start => l <= tokens[x - 1].start
                       /\ tokens[x - 1].start + 1 \in Words =>
                             tokens[x].start = tokens[x - 1].start + 1
<1>1. PICK n : n = Len(tokens)
  OBVIOUS
<1>2. /\ n \in Nat /\ DOMAIN tokens = 1..n /\ x \in 1..n /\ Words \subseteq Nat /\ Placed
  BY <1>1, TokensAre, TextIs DEF ParserInv
<1>3. PICK b : b = tokens[x].start
  OBVIOUS
<1>4. b \in Words /\ b \in Nat /\ Cardinality(Below(Words, b)) = x - 1
  BY <1>2, <1>3 DEF Placed
<1>5. ASSUME x = 1, NEW l \in Words, l < b PROVE FALSE
  <2>1. l \in Nat
    BY <1>2
  <2>2. /\ Cardinality(Below(Words, l)) \in Nat
        /\ Cardinality(Below(Words, l)) < Cardinality(Below(Words, b))
    BY <1>2, <1>4, <1>5, <2>1, BelowFacts, BelowLess
  <2>3. QED
    BY <1>4, <1>5, <2>2
<1>6. ASSUME x # 1
      PROVE  /\ x - 1 \in DOMAIN tokens /\ tokens[x - 1].start < b
             /\ \A l \in Words : l < b => l <= tokens[x - 1].start
             /\ tokens[x - 1].start + 1 \in Words => b = tokens[x - 1].start + 1
  <2>1. PICK y : y = x - 1
    OBVIOUS
  <2>2. y \in 1..n /\ y < x /\ y = x - 1
    BY <1>2, <1>6, <2>1
  <2>3. PICK a : a = tokens[y].start
    OBVIOUS
  <2>4. a \in Words /\ a \in Nat /\ Cardinality(Below(Words, a)) = y - 1 /\ a < b
    BY <1>2, <1>3, <2>2, <2>3 DEF Placed
  <2>5. ASSUME NEW l \in Words, l < b PROVE l <= a
    <3>1. l \in Nat
      BY <1>2
    <3>2. SUFFICES ASSUME a < l PROVE FALSE
      BY <2>4, <3>1
    <3>3. /\ Cardinality(Below(Words, l)) \in Nat
          /\ Cardinality(Below(Words, l)) < Cardinality(Below(Words, b))
          /\ Cardinality(Below(Words, a)) < Cardinality(Below(Words, l))
      BY <1>2, <1>4, <2>4, <2>5, <3>1, <3>2, BelowFacts, BelowLess
    <3>4. QED
      BY <1>2, <1>4, <2>2, <2>4, <3>3
  <2>6. ASSUME a + 1 \in Words PROVE b = a + 1
    <3>1. ~(a + 1 < b)
      BY <2>4, <2>5, <2>6
    <3>2. QED
      BY <1>4, <2>4, <3>1
  <2>7. QED
    BY <1>2, <2>1, <2>2, <2>3, <2>4, <2>5, <2>6
<1>7. QED
  BY <1>3, <1>5, <1>6

\* Between a bracket and the first that is behind it, with no other bracket
\* between them, the level is one up.
LEMMA FlatLevel ==
    ASSUME ParserTypes, NEW s \in DOMAIN js, js[s] \in Openers, NEW e \in DOMAIN js, s < e,
           \A l \in (s + 1)..(e - 1) : js[l] \notin Openers \cup Closers
    PROVE  \A l \in (s + 1)..e : Level(l) = Level(s) + 1
<1>1. DOMAIN js = 1..Len(js) /\ Len(js) \in Nat /\ s \in Nat /\ e \in Nat
  BY TextIs
<1>2. \A k \in Nat : Level(k) \in Int
  BY LevelStep
<1>. DEFINE S == {l \in (s + 1)..e : Level(l) # Level(s) + 1}
<1>3. SUFFICES ASSUME S # {} PROVE FALSE
  OBVIOUS
<1>4. S \subseteq Nat
  BY <1>1
<1>5. PICK l \in S : \A y \in S : l <= y
  <2>. HIDE DEF S
  <2>1. QED
    BY <1>3, <1>4, Least
<1>6. l \in (s + 1)..e /\ Level(l) # Level(s) + 1
  OBVIOUS
<1>7. CASE l = s + 1
  <2>1. Level(s + 1) = Level(s) + 1
    BY <1>1, LevelStep
  <2>2. QED
    BY <1>6, <1>7, <2>1
<1>8. CASE l # s + 1
  <2>1. PICK h : h = l - 1
    OBVIOUS
  <2>2. h \in (s + 1)..(e - 1) /\ h \in DOMAIN js /\ l = h + 1 /\ h \in (s + 1)..e /\ h < l
    BY <1>1, <1>6, <1>8, <2>1
  <2>3. h \notin S
    <3>. HIDE DEF S
    <3>1. ~(l <= h)
      BY <1>1, <1>6, <2>2
    <3>2. QED
      BY <1>5, <3>1
  <2>4. Level(h) = Level(s) + 1
    BY <2>2, <2>3
  <2>5. js[h] \notin Openers /\ js[h] \notin Closers
    BY <2>2
  <2>6. Level(h + 1) = Level(h) + 0
    BY <2>2, <2>5, LevelStep
  <2>7. Level(l) = Level(s) + 1
    BY <1>1, <1>2, <2>2, <2>4, <2>6
  <2>8. QED
    BY <1>6, <2>7
<1>9. QED
  BY <1>7, <1>8

\* The size of a flat array is the number of lexemes up to its end.
LEMMA FlatSize ==
    ASSUME ParserInv, TextInv, pos = Len(js) + 1, Opened = {},
           NEW x \in DOMAIN tokens, NEW s, s = tokens[x].start, js[s] \in Openers,
           NEW e \in DOMAIN js, s < e, js[e] \in Closers,
           \A l \in (s + 1)..(e - 1) : js[l] \notin Openers \cup Closers
    PROVE  tokens[x].size = e - s - 1
<1>1. /\ ParserTypes /\ Levels /\ Sizes /\ DOMAIN js = 1..Len(js) /\ Len(js) \in Nat /\ e \in Nat
      /\ s \in Words /\ s \in Nat /\ s \in DOMAIN js
      /\ IsOpener(x) /\ x \notin Opened /\ tokens[x].end \in Int
      /\ s < tokens[x].end - 1 /\ js[tokens[x].end - 1] \in Closers
  <2>1. ParserTypes /\ Levels /\ Sizes /\ IsOpener(x) /\ x \notin Opened
    BY DEF ParserInv, TextInv, IsOpener
  <2>2. s \in Words /\ s < tokens[x].end - 1 /\ js[tokens[x].end - 1] \in Closers
    BY <2>1 DEF ParserInv, Placed, Ended
  <2>3. DOMAIN js = 1..Len(js) /\ Len(js) \in Nat /\ tokens[x].end \in Int
    BY <2>1, TextIs, TokensAre
  <2>4. QED
    BY <2>1, <2>2, <2>3 DEF Words
<1>2. \A l \in (s + 1)..e : Level(l) = Level(s) + 1
  BY <1>1, FlatLevel
<1>3. Level(e + 1) = Level(s) /\ \A k \in Nat : Level(k) \in Int
  <2>1. js[e] \notin Openers
    BY DEF Openers, Closers
  <2>2. Level(e + 1) = Level(e) + (-1) /\ \A k \in Nat : Level(k) \in Int
    BY <1>1, <2>1, LevelStep
  <2>3. Level(e) = Level(s) + 1
    BY <1>1, <1>2
  <2>4. Level(s) \in Int
    BY <1>1, <2>2
  <2>5. Level(e + 1) = Level(s)
    BY <2>2, <2>3, <2>4
  <2>6. QED
    BY <2>2, <2>5
<1>4. tokens[x].end = e + 1
  <2>1. PICK c : c = tokens[x].end - 1
    OBVIOUS
  <2>2. c \in Int /\ s < c /\ js[c] \in Closers /\ tokens[x].end = c + 1
    BY <1>1, <2>1
  <2>3. c \notin (s + 1)..(e - 1)
    BY <2>2
  <2>4. e <= c
    BY <1>1, <2>2, <2>3
  <2>5. \A l \in (s + 1)..pos : l < tokens[x].end => Level(l) > Level(s)
    BY <1>1 DEF Levels
  <2>6. e + 1 \in (s + 1)..pos
    BY <1>1
  <2>7. ~(Level(e + 1) > Level(s))
    <3>1. Level(e + 1) = Level(s) /\ Level(s) \in Int
      BY <1>1, <1>3
    <3>2. QED
      BY <3>1
  <2>8. ~(e + 1 < tokens[x].end)
    BY <2>5, <2>6, <2>7
  <2>9. QED
    BY <1>1, <2>2, <2>4, <2>8
<1>5. Members(x) = (s + 1)..(e - 1)
  <2>1. ASSUME NEW l \in Members(x) PROVE l \in (s + 1)..(e - 1)
    <3>1. l \in Words /\ s < l /\ l < EndOf(x) /\ l \in DOMAIN js /\ js[l] \notin Closers
      BY <2>1, MembersAre DEF Words, Places
    <3>2. l \in Nat /\ l < e + 1 /\ l # e
      BY <1>1, <1>4, <3>1 DEF EndOf
    <3>3. QED
      BY <1>1, <3>1, <3>2
  <2>2. ASSUME NEW l \in (s + 1)..(e - 1) PROVE l \in Members(x)
    <3>1. l \in DOMAIN js /\ l \in (s + 1)..e /\ s < l /\ l < e + 1
      <4>1. s \in Nat /\ e \in 1..Len(js) /\ Len(js) \in Nat
        BY <1>1
      <4>2. l \in (s + 1)..e /\ s < l /\ l < e + 1 /\ l \in 1..Len(js)
        BY <4>1
      <4>3. QED
        BY <1>1, <4>2
    <3>2. l \in Words
      BY <3>1 DEF Words, Places
    <3>3. l < EndOf(x)
      BY <1>1, <1>4, <3>1 DEF EndOf
    <3>4. QED
      BY <1>2, <3>1, <3>2, <3>3, MembersAre
  <2>3. QED
    BY <2>1, <2>2
<1>6. Cardinality((s + 1)..(e - 1)) = e - s - 1
  <2>1. PICK a, b : a = s + 1 /\ b = e - 1
    OBVIOUS
  <2>2. a \in Int /\ b \in Int /\ (IF a > b THEN 0 ELSE b - a + 1) = e - s - 1
    <3>1. s \in Nat /\ e \in Nat /\ s < e
      BY <1>1
    <3>2. a \in Int /\ b \in Int /\ a <= b + 1 /\ b - a + 1 = e - s - 1
      BY <2>1, <3>1
    <3>3. a > b => b - a + 1 = 0
      BY <3>2
    <3>4. QED
      BY <3>2, <3>3
  <2>3. Cardinality(a..b) = IF a > b THEN 0 ELSE b - a + 1
    BY <2>2, FS_Interval
  <2>4. QED
    BY <2>1, <2>2, <2>3
<1>7. QED
  BY <1>1, <1>5, <1>6 DEF Sizes

\* The form of the file, read in the buffer.
LEMMA DocumentedIs ==
    ASSUME ParserTypes, FileInv, AsDocumented(file), NEW k \in 1..Len(file)
    PROVE  /\ js[k] \in Primitives =>
                 k + 1 \in 1..Len(file) /\ k + 1 \in Words /\ js[k + 1] \notin Primitives
           /\ js[k] = "output" =>
                 /\ js[k + 1] = "["
                 /\ Stop(k) \in (k + 2)..Len(file) /\ js[Stop(k)] = "]"
                 /\ \A l \in (k + 2)..(Stop(k) - 1) : js[l] \notin Openers \cup Closers
                 /\ OwnUrl(k)
<1>1. /\ Len(file) \in Nat /\ DOMAIN file = 1..Len(file) /\ DOMAIN js = 1..Len(js)
      /\ Len(js) \in Nat /\ Len(file) <= Len(js) /\ \A l \in 1..Len(file) : js[l] = file[l]
  BY LenProperties, TextIs DEF FileInv
<1>2. ASSUME js[k] \in Primitives
      PROVE  k + 1 \in 1..Len(file) /\ k + 1 \in Words /\ js[k + 1] \notin Primitives
  <2>1. k < Len(file) /\ file[k + 1] \notin Primitives \cup Closers
    BY <1>1, <1>2 DEF AsDocumented
  <2>2. k + 1 \in 1..Len(file) /\ k + 1 \in DOMAIN js
    BY <1>1, <2>1
  <2>3. js[k + 1] = file[k + 1]
    BY <1>1, <2>2
  <2>4. QED
    BY <2>1, <2>2, <2>3 DEF Words, Places
<1>3. ASSUME js[k] = "output"
      PROVE  /\ js[k + 1] = "["
             /\ Stop(k) \in (k + 2)..Len(file) /\ js[Stop(k)] = "]"
             /\ \A l \in (k + 2)..(Stop(k) - 1) : js[l] \notin Openers \cup Closers
             /\ OwnUrl(k)
  <2>1. file[k] = "output" /\ js[k] \in Primitives
    BY <1>1, <1>3, KeysAssumption DEF Keys
  <2>2. /\ file[k + 1] = "["
        /\ \E e \in (k + 2)..Len(file) :
              /\ file[e] = "]" /\ e - (k + 2) <= MAX_OUTPUTS
              /\ \A l \in (k + 2)..(e - 1) :
                    file[l] \notin Openers \cup Closers \cup Primitives
        /\ \E l \in 1..(k - 1) :
              file[l] = "input_url" /\ \A n \in l..k : file[n] \notin {"{", "}"}
    BY <1>1, <2>1 DEF AsDocumented
  <2>3. PICK e \in (k + 2)..Len(file) :
              /\ file[e] = "]" /\ e - (k + 2) <= MAX_OUTPUTS
              /\ \A l \in (k + 2)..(e - 1) :
                    file[l] \notin Openers \cup Closers \cup Primitives
    BY <2>2
  <2>4. /\ e \in 1..Len(file) /\ e \in Nat /\ k + 1 \in 1..Len(file)
        /\ \A l \in (k + 2)..(e - 1) : l \in 1..Len(file)
        /\ \A l \in 1..(k - 1) : l \in 1..Len(file)
    BY <1>1, <1>2, <2>1
  <2>5. /\ js[k + 1] = "[" /\ js[e] = "]"
        /\ \A l \in (k + 2)..(e - 1) : js[l] \notin Openers \cup Closers
        /\ OwnUrl(k)
    <3>1. /\ js[k + 1] = "[" /\ js[e] = "]"
          /\ \A l \in (k + 2)..(e - 1) : js[l] \notin Openers \cup Closers
      BY <1>1, <2>2, <2>3, <2>4
    <3>2. PICK l \in 1..(k - 1) :
                file[l] = "input_url" /\ \A n \in l..k : file[n] \notin {"{", "}"}
      BY <2>2
    <3>3. l \in 1..Len(file) /\ \A n \in l..k : n \in 1..Len(file)
      BY <1>1, <2>4
    <3>4. js[l] = "input_url" /\ \A n \in l..k : js[n] \notin {"{", "}"}
      BY <1>1, <3>2, <3>3
    <3>5. QED
      BY <3>1, <3>4 DEF OwnUrl
  <2>6. Stop(k) = e
    <3>. DEFINE S == {l \in Places({"]"}) : l > k}
    <3>1. e \in S
      BY <1>1, <2>4, <2>5 DEF Places
    <3>2. ASSUME NEW l \in S PROVE l \in Nat /\ e <= l
      <4>1. l \in DOMAIN js /\ js[l] = "]" /\ l > k /\ l \in Nat
        BY <1>1 DEF Places
      <4>2. l # k + 1
        BY <2>5, <4>1
      <4>3. l \notin (k + 2)..(e - 1)
        BY <2>5, <4>1 DEF Closers
      <4>4. QED
        BY <1>1, <2>4, <4>1, <4>2, <4>3
    <3>3. Stop(k) = Min(S)
      BY DEF Stop
    <3>. HIDE DEF S
    <3>4. S \subseteq Nat
      BY <3>2
    <3>5. QED
      BY <3>1, <3>2, <3>3, <3>4, IsMin
  <2>7. QED
    BY <2>3, <2>5, <2>6
<1>4. QED
  BY <1>2, <1>3

----------------------------------------------------------------------------
(* The walk over such a configuration.                                     *)

\* The place of the token that was passed last.
Passed == IF i = 1 THEN 0 ELSE tokens[i - 1].start

\* The url u when the walk has passed a: none, or what input_url said last, or
\* anything if there was no input_url and no channel_name.
UrlOk(u, a) ==
    \/ u = NULL
    \/ Before("input_url", a) # {} /\ u = UrlAt(a)
    \/ Before("input_url", a) = {} /\ Before("channel_name", a) = {}

\* The state s with key w and url u when the walk has passed a: the value of the
\* key at a comes next, or what is no value of a key.
AlongAt(a, s, w, u) ==
    /\ s \in {"PRINT", "SKIP"} => js[a] \in Primitives
    /\ s = "PRINT" => w = js[a]
    /\ s = "SKIP" => js[a] \notin Keys
    /\ s = "KEY" => js[a] \notin Primitives
    /\ UrlOk(u, a)

Has(a, b, S) == \E l \in a..b : js[l] \in S

\* The channel c is made for the key output at k, and o are the outputs left.
MakingAt(k, p, o, c) ==
    /\ k \in 1..Len(file) /\ js[k] = "output"
    /\ p = "new" => o = SubSeq(js, k + 2, Stop(k) - 1)
    /\ p = "add_output" =>
          /\ c.url = UrlAt(k)
          /\ \E h \in (k + 2)..Stop(k) :
                /\ o = SubSeq(js, h, Stop(k) - 1)
                /\ c.ts = Has(k + 2, h - 1, {"ts", "m3u8"})
                /\ c.flv = Has(k + 2, h - 1, {"flv", "rtmp"})
    /\ p = "add" => ListedAs(c) = Said(k)

\* The channels c are those of the keys output at S, all before b: q[n] is the
\* place of the n-th.
Listed(c, b) ==
    \E S \in SUBSET Places({"output"}) : \E q \in [1..Len(c) -> S] :
       /\ Cardinality(S) = Len(c) /\ \A l \in S : l < b
       /\ \A n \in 1..Len(c) : /\ Cardinality(Below(S, q[n])) = n - 1
                               /\ ListedAs(c[n]) = Said(q[n])

FormInv ==
    /\ pc = "parse" => state = "START" /\ channels = <<>>
    /\ pc \in Walking =>
          /\ state = "START" <=> i = 1
          /\ i # 1 => js[tokens[1].start] \in Openers
          /\ AlongAt(Passed, state, m, temp.url)
    /\ pc = "tokens" => Listed(channels, Passed)
    /\ pc \in Making =>
          /\ state = "KEY"
          /\ MakingAt(Passed - 1, pc, temp.outputs, channel)
          /\ Listed(channels, Passed - 1)
    /\ Listed(channels, Len(js) + 1)

\* What is said of a step's new values is said in the same text.
LEMMA FormNext ==
    ASSUME js' = js, file' = file
    PROVE  /\ AlongAt(Passed, state, m, temp.url)' <=> AlongAt(Passed', state', m', temp'.url)
           /\ Listed(channels, Passed)' <=> Listed(channels', Passed')
           /\ Listed(channels, Passed - 1)' <=> Listed(channels', Passed' - 1)
           /\ Listed(channels, Len(js) + 1)' <=> Listed(channels', Len(js) + 1)
           /\ MakingAt(Passed - 1, pc, temp.outputs, channel)'
                 <=> MakingAt(Passed' - 1, pc', temp'.outputs, channel')
<1>1. AlongAt(Passed, state, m, temp.url)' <=> AlongAt(Passed', state', m', temp'.url)
  BY DEF AlongAt, UrlOk, Before, UrlAt, Places
<1>2. Listed(channels, Passed)' <=> Listed(channels', Passed')
  BY DEF Listed, Places, Said
<1>3. Listed(channels, Passed - 1)' <=> Listed(channels', Passed' - 1)
  BY DEF Listed, Places, Said
<1>4. Listed(channels, Len(js) + 1)' <=> Listed(channels', Len(js) + 1)
  BY DEF Listed, Places, Said
<1>5. MakingAt(Passed - 1, pc, temp.outputs, channel)'
                 <=> MakingAt(Passed' - 1, pc', temp'.outputs, channel')
  BY DEF MakingAt, Stop, UrlAt, Before, Places, Has, Said
<1>6. QED
  BY <1>1, <1>2, <1>3, <1>4, <1>5

\* Only what is read unquoted is a PRIMITIVE, and "{" alone is the OBJECT that
\* has a token.
LEMMA TypeIs ==
    ASSUME NEW l
    PROVE  /\ Type(l) = "PRIMITIVE" <=> l \in Primitives
           /\ Type(l) = "OBJECT" => l \in {"{", "}"}
           /\ l \in Openers \cup Closers => l \notin Primitives
<1>1. \A x \in Openers \cup Closers : x \notin Primitives
  BY JsmnAssumption, Zenon
<1>2. CASE l \in Primitives
  <2>1. l \notin {"{", "}"} /\ l \notin {"[", "]"}
    BY <1>1, <1>2 DEF Openers, Closers
  <2>2. QED
    BY <1>1, <1>2, <2>1 DEF Type
<1>3. CASE l \notin Primitives
  BY <1>1, <1>3 DEF Type
<1>4. QED
  BY <1>2, <1>3

\* Where the walk is in such a file: the token that comes next is at b, and there
\* is no word between it and the last.
LEMMA AtNext ==
    ASSUME StartupInv, TextInv, FileInv, AsDocumented(file), pc = "tokens", j > 0,
           NEW a, a = Passed, NEW b, b = tokens[i].start, js[tokens[1].start] \in Openers
    PROVE  /\ i \in DOMAIN tokens /\ b \in 1..Len(file) /\ b \in Words /\ a < b
           /\ \A l \in Words : l < b => l <= a
           /\ tokens[i].type = Type(js[b])
           /\ i = 1 => a = 0
           /\ i # 1 => /\ a \in Words /\ a \in 1..Len(file)
                       /\ js[a] \in Primitives => b = a + 1 /\ js[b] \notin Primitives
<1>1. /\ ParserInv /\ ParserTypes /\ pos = Len(js) + 1 /\ Opened = {} /\ i \in Nat \ {0}
      /\ 1..(i - 1) \subseteq Extent
  BY DEF StartupInv, WalkInv, WalkTypes, Walking, ParserInv
<1>2. i \in Extent /\ i \in DOMAIN tokens
  BY <1>1, TokenThere, FileThere DEF Walking
<1>3. b \in 1..Len(file) /\ Len(file) \in Nat
  <2>1. b \in 1..Len(file)
    BY <1>1, <1>2, InFile
  <2>2. QED
    BY <2>1, LenProperties DEF FileInv
<1>4. b \in Words /\ tokens[i].type = Type(js[b])
  BY <1>1, <1>2 DEF ParserInv, Placed
<1>5. Words \subseteq Nat
  BY <1>1, TextIs
<1>6. CASE i = 1
  <2>1. a = 0
    BY <1>6 DEF Passed
  <2>2. \A l \in Words : ~(l < b)
    BY <1>1, <1>2, <1>6, NextToken
  <2>3. QED
    BY <1>2, <1>3, <1>4, <1>6, <2>1, <2>2
<1>7. CASE i # 1
  <2>1. PICK y : y = i - 1
    OBVIOUS
  <2>2. y \in 1..(i - 1) /\ y \in Extent /\ y \in DOMAIN tokens
    <3>1. y \in 1..(i - 1)
      BY <1>1, <1>7, <2>1
    <3>2. QED
      BY <1>1, <3>1 DEF Extent
  <2>3. a = tokens[y].start
    BY <1>7, <2>1 DEF Passed
  <2>4. a \in Words /\ a \in 1..Len(file)
    <3>1. a \in Words
      BY <1>1, <2>2, <2>3 DEF ParserInv, Placed
    <3>2. a \in 1..Len(file)
      BY <1>1, <2>2, <2>3, InFile
    <3>3. QED
      BY <3>1, <3>2
  <2>5. /\ a < b /\ \A l \in Words : l < b => l <= a
        /\ a + 1 \in Words => b = a + 1
    BY <1>1, <1>2, <1>7, <2>1, <2>3, NextToken
  <2>6. ASSUME js[a] \in Primitives PROVE b = a + 1 /\ js[b] \notin Primitives
    <3>1. a + 1 \in Words /\ js[a + 1] \notin Primitives
      BY <1>1, <2>4, <2>6, DocumentedIs
    <3>2. QED
      BY <2>5, <3>1
  <2>7. QED
    BY <1>2, <1>3, <1>4, <1>7, <2>4, <2>5, <2>6
<1>8. QED
  BY <1>6, <1>7

\* Membership, without the set.
LEMMA BeforeIs ==
    ASSUME NEW w, NEW k, NEW l
    PROVE  l \in Before(w, k) <=> l \in DOMAIN js /\ js[l] = w /\ l < k
BY DEF Before, Places

\* A url stays the right one over what says nothing about it.
LEMMA UrlKeeps ==
    ASSUME ParserTypes, NEW u, NEW a \in Nat, NEW b \in Nat, UrlOk(u, a), a < b,
           \A l \in Words : l < b => l <= a,
           a # 0 => js[a] \notin {"channel_name", "input_url"}
    PROVE  UrlOk(u, b)
<1>1. /\ DOMAIN js = 1..Len(js) /\ Len(js) \in Nat
  BY TextIs
<1>2. ASSUME NEW w \in {"channel_name", "input_url"}
      PROVE  Before(w, b) = Before(w, a)
  <2>1. ASSUME NEW l
        PROVE  l \in Before(w, b) <=> l \in Before(w, a)
    <3>1. ASSUME l \in Before(w, b) PROVE l < a
      <4>1. l \in DOMAIN js /\ js[l] = w /\ l < b /\ l # 0
        BY <1>1, <3>1, BeforeIs
      <4>2. l \in Words
        BY <4>1 DEF Words, Places, Closers
      <4>3. l <= a /\ l \in Nat
        BY <1>1, <4>1, <4>2
      <4>4. l # a
        BY <4>1
      <4>5. QED
        BY <4>3, <4>4
    <3>2. ASSUME l \in Before(w, a) PROVE l < b
      <4>1. l \in Nat /\ l < a
        BY <1>1, <3>2, BeforeIs
      <4>2. QED
        BY <4>1
    <3>3. QED
      BY <3>1, <3>2, BeforeIs
  <2>2. QED
    BY <2>1 DEF Before
<1>3. Before("channel_name", b) = Before("channel_name", a)
      /\ Before("input_url", b) = Before("input_url", a)
  BY <1>2
<1>4. QED
  BY <1>3 DEF UrlOk, UrlAt

\* The value of an input_url is the url from then on.
LEMMA UrlRead ==
    ASSUME ParserTypes, NEW a \in DOMAIN js, js[a] = "input_url", NEW b, b = a + 1
    PROVE  UrlOk(js[b], b)
<1>1. DOMAIN js = 1..Len(js) /\ Len(js) \in Nat /\ a \in Nat
  BY TextIs
<1>2. a \in Before("input_url", b) /\ \A l \in Before("input_url", b) : l \in Nat /\ l <= a
  BY <1>1, BeforeIs
<1>3. Before("input_url", b) \subseteq Nat
  BY <1>2
<1>4. Max(Before("input_url", b)) = a
  BY <1>2, <1>3, IsMax
<1>5. js[b] = UrlAt(b) /\ Before("input_url", b) # {}
  BY <1>2, <1>4 DEF UrlAt
<1>6. QED
  BY <1>5 DEF UrlOk

\* The last input_url before k is then that of the object that k is in.
LEMMA OwnUrlLast ==
    ASSUME ParserTypes, NEW k \in DOMAIN js, OwnUrl(k)
    PROVE  Max({l \in Places({"input_url"}) :
                  Max({0} \cup {n \in Places({"{", "}"}) : n < k}) < l /\ l < k})
             = Max(Before("input_url", k))
<1>. DEFINE B == Before("input_url", k)
            P == {0} \cup {n \in Places({"{", "}"}) : n < k}
            T(o) == {l \in Places({"input_url"}) : o < l /\ l < k}
<1>1. DOMAIN js = 1..Len(js) /\ Len(js) \in Nat /\ k \in Nat /\ \A l \in DOMAIN js : l \in Nat
  BY TextIs
<1>2. PICK a \in 1..(k - 1) : js[a] = "input_url" /\ \A n \in a..k : js[n] \notin {"{", "}"}
  BY DEF OwnUrl
<1>3. a \in Nat /\ 1 <= a /\ a < k /\ a \in DOMAIN js
  <2>1. k \in 1..Len(js)
    BY <1>1
  <2>2. a \in Nat /\ 1 <= a /\ a < k
    BY <1>1
  <2>3. a \in 1..Len(js)
    BY <1>1, <2>1, <2>2
  <2>4. QED
    BY <1>1, <2>2, <2>3
<1>4. \A l : l \in B <=> l \in DOMAIN js /\ js[l] = "input_url" /\ l < k
  BY <1>1, BeforeIs
<1>5. \A l : l \in P <=> l = 0 \/ (l \in DOMAIN js /\ js[l] \in {"{", "}"} /\ l < k)
  BY DEF Places
<1>6. \A o, l : l \in T(o) <=> l \in B /\ o < l
  BY DEF Before
<1>7. \A o : T(o) \subseteq B
  BY <1>6
<1>. HIDE DEF B, P, T
<1>8. PICK x : x = Max(B)
  OBVIOUS
<1>9. x \in B /\ (\A y \in B : x >= y) /\ a \in B /\ B \subseteq Nat
  <2>1. a \in B
    BY <1>3, <1>2, <1>4
  <2>2. B \subseteq 0..k
    BY <1>1, <1>4
  <2>3. Max(B) \in B /\ \A y \in B : Max(B) >= y
    BY <1>1, <2>1, <2>2, MaxIs
  <2>4. QED
    BY <1>8, <2>1, <2>2, <2>3
<1>10. PICK o : o = Max(P)
  OBVIOUS
<1>11. o \in P
  <2>1. P \subseteq 0..k
    <3>1. \A l \in P : l = 0 \/ (l \in DOMAIN js /\ l < k)
      BY <1>5
    <3>2. k \in Nat /\ \A l \in DOMAIN js : l \in Nat
      BY <1>1
    <3>3. \A l \in P : l \in Nat /\ (l = 0 \/ l < k)
      BY <3>1, <3>2
    <3>4. QED
      BY <3>2, <3>3
  <2>2. P # {}
    BY <1>5
  <2>3. Max(P) \in P
    BY <1>1, <2>1, <2>2, MaxIs
  <2>4. QED
    BY <1>10, <2>3
<1>12. o \in Nat /\ o < a
  <2>1. CASE o = 0
    BY <1>3, <2>1
  <2>2. CASE o # 0
    <3>1. o \in DOMAIN js /\ js[o] \in {"{", "}"} /\ o < k
      BY <1>5, <1>11, <2>2
    <3>2. o \notin a..k
      BY <1>2, <3>1
    <3>3. o \in Nat /\ o < k /\ k \in Nat
      BY <1>1, <3>1
    <3>4. a \in Nat
      BY <1>3
    <3>5. QED
      BY <3>2, <3>3, <3>4
  <2>3. QED
    BY <2>1, <2>2
<1>13. x \in T(o)
  BY <1>6, <1>9, <1>12
<1>14. Max(T(o)) = x
  BY <1>7, <1>9, <1>13, IsMax
<1>15. QED
  BY <1>8, <1>10, <1>14 DEF B, P, T

\* No channels are listed at first.
LEMMA ListedNone ==
    ASSUME NEW b
    PROVE  Listed(<<>>, b)
<1>1. {} \in SUBSET Places({"output"}) /\ Cardinality({}) = 0 /\ Len(<<>>) = 0 /\ 1..0 = {}
  BY FS_EmptySet
<1>2. PICK q : q = [n \in 1..0 |-> n]
  OBVIOUS
<1>3. q \in [1..0 -> {}]
  BY <1>1, <1>2
<1>4. QED
  BY <1>1, <1>3 DEF Listed

\* What is listed of the text before a is listed of that before b.
LEMMA ListedLater ==
    ASSUME ParserTypes, NEW c, NEW a \in Nat, NEW b \in Nat, a <= b, Listed(c, a)
    PROVE  Listed(c, b)
<1>0. PICK S \in SUBSET Places({"output"}) : \E q \in [1..Len(c) -> S] :
         /\ Cardinality(S) = Len(c) /\ \A l \in S : l < a
         /\ \A n \in 1..Len(c) : /\ Cardinality(Below(S, q[n])) = n - 1
                                 /\ ListedAs(c[n]) = Said(q[n])
  BY DEF Listed
<1>1. PICK q \in [1..Len(c) -> S] :
         /\ Cardinality(S) = Len(c) /\ \A l \in S : l < a
         /\ \A n \in 1..Len(c) : /\ Cardinality(Below(S, q[n])) = n - 1
                                 /\ ListedAs(c[n]) = Said(q[n])
  BY <1>0
<1>2. S \subseteq Nat
  BY TextIs, <1>1
<1>3. \A l \in S : l < b
  BY <1>1, <1>2
<1>4. QED
  BY <1>1, <1>3 DEF Listed

\* A channel more, made for the key output at k.
LEMMA ListedAppend ==
    ASSUME ParserTypes, NEW C, NEW c \in Seq(C), NEW d \in C, NEW k \in Places({"output"}),
           Listed(c, k), ListedAs(d) = Said(k), NEW b, b = k + 1, NEW cc, cc = Append(c, d)
    PROVE  Listed(cc, b)
<1>0. PICK S \in SUBSET Places({"output"}) : \E q \in [1..Len(c) -> S] :
         /\ Cardinality(S) = Len(c) /\ \A l \in S : l < k
         /\ \A n \in 1..Len(c) : /\ Cardinality(Below(S, q[n])) = n - 1
                                 /\ ListedAs(c[n]) = Said(q[n])
  BY DEF Listed
<1>1. PICK q \in [1..Len(c) -> S] :
         /\ Cardinality(S) = Len(c) /\ \A l \in S : l < k
         /\ \A n \in 1..Len(c) : /\ Cardinality(Below(S, q[n])) = n - 1
                                 /\ ListedAs(c[n]) = Said(q[n])
  BY <1>0
<1>2. PICK n, T, r : /\ n = Len(c) /\ T = S \cup {k}
                     /\ r = [x \in 1..(n + 1) |-> IF x = n + 1 THEN k ELSE q[x]]
  OBVIOUS
<1>3. /\ n \in Nat /\ Len(cc) = n + 1 /\ cc[n + 1] = d /\ \A x \in 1..n : cc[x] = c[x]
  BY <1>2, AppendProperties, LenProperties
<1>4. k \in Nat /\ S \subseteq Nat /\ k \notin S /\ \A l \in S : l < k
  <2>1. Places({"output"}) \subseteq Nat
    BY TextIs
  <2>2. k \in Nat
    BY <2>1
  <2>3. QED
    BY <1>1, <2>1, <2>2
<1>5. IsFiniteSet(S)
  <2>1. Places({"output"}) \subseteq 1..Len(js) /\ Len(js) \in Nat
    BY TextIs DEF Places
  <2>2. IsFiniteSet(1..Len(js))
    BY <2>1, FS_Interval
  <2>3. S \in SUBSET (1..Len(js))
    BY <2>1
  <2>4. QED
    BY <2>2, <2>3, FS_Subset
<1>6. Cardinality(T) = n + 1
  BY <1>1, <1>2, <1>4, <1>5, OneMore
<1>7. T \in SUBSET Places({"output"}) /\ \A l \in T : l < b
  BY <1>2, <1>4
<1>8. r \in [1..(n + 1) -> T] /\ r[n + 1] = k /\ \A x \in 1..n : r[x] = q[x] /\ q[x] \in S
  <2>1. \A x \in 1..(n + 1) : x = n + 1 \/ x \in 1..n
    BY <1>3
  <2>2. ASSUME NEW x \in 1..n PROVE q[x] \in S /\ x # n + 1 /\ x \in 1..(n + 1)
    <3>1. q[x] \in S
      BY <1>2
    <3>2. x # n + 1 /\ x \in 1..(n + 1)
      BY <1>3
    <3>3. QED
      BY <3>1, <3>2
  <2>3. n + 1 \in 1..(n + 1)
    BY <1>3
  <2>4. QED
    BY <1>2, <2>1, <2>2, <2>3
<1>9. ASSUME NEW x \in S PROVE Below(T, x) = Below(S, x)
  <2>1. x \in Nat /\ x < k /\ ~(k < x)
    BY <1>4
  <2>2. \A l : l \in Below(T, x) <=> l \in Below(S, x)
    BY <1>2, <2>1, BelowIs
  <2>3. QED
    BY <2>2 DEF Below
<1>10. Below(T, k) = S
  <2>1. ~(k < k)
    BY <1>4
  <2>2. ASSUME NEW l PROVE l \in Below(T, k) <=> l \in S
    <3>1. l \in T <=> l \in S \/ l = k
      BY <1>2
    <3>2. l \in S => l < k
      BY <1>4
    <3>3. QED
      BY <2>1, <3>1, <3>2, BelowIs
  <2>3. QED
    BY <2>2
<1>11. ASSUME NEW x \in 1..(n + 1)
       PROVE  Cardinality(Below(T, r[x])) = x - 1 /\ ListedAs(cc[x]) = Said(r[x])
  <2>1. CASE x = n + 1
    <3>1. r[x] = k /\ cc[x] = d /\ x - 1 = n
      BY <1>3, <1>8, <2>1
    <3>2. Cardinality(Below(T, k)) = n
      BY <1>1, <1>2, <1>10
    <3>3. QED
      BY <3>1, <3>2
  <2>2. CASE x # n + 1
    <3>1. x \in 1..n
      BY <1>3, <2>2
    <3>2. r[x] = q[x] /\ q[x] \in S /\ cc[x] = c[x]
      BY <1>3, <1>8, <3>1
    <3>3. Below(T, q[x]) = Below(S, q[x])
      BY <1>9, <3>2
    <3>4. QED
      BY <1>1, <1>2, <3>1, <3>2, <3>3
  <2>3. QED
    BY <2>1, <2>2
<1>12. \E p \in [1..Len(cc) -> T] :
          /\ Cardinality(T) = Len(cc) /\ \A l \in T : l < b
          /\ \A x \in 1..Len(cc) : /\ Cardinality(Below(T, p[x])) = x - 1
                                   /\ ListedAs(cc[x]) = Said(p[x])
  <2>1. r \in [1..Len(cc) -> T]
    BY <1>3, <1>8
  <2>2. Cardinality(T) = Len(cc) /\ \A l \in T : l < b
    BY <1>3, <1>6, <1>7
  <2>3. \A x \in 1..Len(cc) : /\ Cardinality(Below(T, r[x])) = x - 1
                              /\ ListedAs(cc[x]) = Said(r[x])
    BY <1>3, <1>11
  <2>4. QED
    BY <2>1, <2>2, <2>3
<1>13. QED
  BY <1>7, <1>12 DEF Listed

\* The place that was passed last, after a step.
LEMMA PassedNext ==
    ASSUME tokens' = tokens, i \in Nat \ {0}
    PROVE  /\ i' = i + 1 => Passed' = tokens[i].start
           /\ i' = i => Passed' = Passed
<1>1. ASSUME i' = i + 1 PROVE Passed' = tokens[i].start
  <2>1. i' # 1 /\ i' - 1 = i
    BY <1>1
  <2>2. QED
    BY <2>1 DEF Passed
<1>2. QED
  BY <1>1 DEF Passed

\* The walk passes the token at b, and the state it then has is right there.
LEMMA PassForm ==
    ASSUME StartupInv, TextInv, FileInv, AsDocumented(file), FormInv, pc = "tokens", j > 0,
           UNCHANGED <<parser, channel, channels>>, i' = i + 1, pc' = "tokens",
           state' # "START", js[tokens[1].start] \in Openers,
           NEW b, b = tokens[i].start, AlongAt(b, state', m', temp'.url)
    PROVE  FormInv'
<1>1. /\ ParserTypes /\ i \in Nat \ {0} /\ js' = js /\ file' = file /\ tokens' = tokens
      /\ channels' = channels
  BY DEF StartupInv, ParserInv, WalkTypes, parser
<1>2. PICK a : a = Passed
  OBVIOUS
<1>3. /\ b \in 1..Len(file) /\ a < b
      /\ i = 1 => a = 0
      /\ i # 1 => a \in 1..Len(file)
  BY <1>2, AtNext
<1>4. a \in Nat /\ b \in Nat
  <2>1. Len(file) \in Nat
    BY LenProperties DEF FileInv
  <2>2. QED
    BY <2>1, <1>3, <1>2, AtNext
<1>5. Listed(channels, b)
  <2>1. Listed(channels, a) /\ a <= b
    BY <1>2, <1>3, <1>4, AtNext DEF FormInv
  <2>2. QED
    BY <1>1, <1>4, <2>1, ListedLater
<1>6. Passed' = b
  BY <1>1, PassedNext
<1>7. /\ Listed(channels, Passed)' /\ AlongAt(Passed, state, m, temp.url)'
      /\ Listed(channels, Len(js) + 1)'
  <2>1. Listed(channels, Len(js) + 1)
    BY DEF FormInv
  <2>2. QED
    BY <1>1, <1>5, <1>6, <2>1, FormNext
<1>8. i' # 1
  BY <1>1
<1>9. pc' \notin Making
  BY DEF Making
<1>10. QED
  BY <1>1, <1>7, <1>8, <1>9 DEF FormInv

\* The steps of the walk that make no channel.
LEMMA TokensForm ==
    ASSUME StartupInv, TextInv, FileInv, AsDocumented(file), FormInv,
           FirstObject \/ NoKey \/ Key \/ Skip \/ PrintName \/ PrintUrl
    PROVE  FormInv'
<1>1. /\ pc = "tokens" /\ j > 0 /\ UNCHANGED <<parser, channel, channels>> /\ i' = i + 1
      /\ pc' = "tokens"
  BY DEF FirstObject, NoKey, Key, Skip, PrintName, PrintUrl, AtToken, More
<1>2. PICK a, b : a = Passed /\ b = tokens[i].start
  OBVIOUS
<1>3. /\ ParserTypes /\ i \in Nat \ {0} /\ DOMAIN js = 1..Len(js) /\ Len(js) \in Nat
      /\ (state = "START" <=> i = 1) /\ (i # 1 => js[tokens[1].start] \in Openers)
      /\ AlongAt(a, state, m, temp.url)
      /\ Len(file) \in Nat /\ Len(file) <= Len(js)
  <2>1. ParserTypes /\ i \in Nat \ {0}
    BY DEF StartupInv, ParserInv, WalkTypes
  <2>2. QED
    BY <1>1, <1>2, <2>1, TextIs, LenProperties DEF FormInv, FileInv, Walking
<1>4. js[tokens[1].start] \in Openers
  <2>1. CASE FirstObject
    <3>1. state = "START" /\ tokens[i].type = "OBJECT" /\ i = 1
      BY <1>3, <2>1 DEF FirstObject, AtToken, Token
    <3>2. i \in DOMAIN tokens
      BY <2>1 DEF FirstObject, AtToken
    <3>3. b \in Words /\ Type(js[b]) = "OBJECT"
      BY <1>2, <3>1, <3>2 DEF StartupInv, ParserInv, Placed
    <3>4. js[b] \in {"{", "}"} /\ js[b] \notin Closers
      BY <3>3, TypeIs DEF Words, Places
    <3>5. QED
      BY <1>2, <3>1, <3>4 DEF Openers, Closers
  <2>2. CASE ~FirstObject
    <3>1. state # "START"
      BY <2>2 DEF NoKey, Key, Skip, PrintName, PrintUrl, AtToken
    <3>2. QED
      BY <1>3, <3>1
  <2>3. QED
    BY <2>1, <2>2
<1>5. /\ b \in 1..Len(file) /\ b \in Words /\ a < b
      /\ \A l \in Words : l < b => l <= a
      /\ tokens[i].type = Type(js[b])
      /\ i = 1 => a = 0
      /\ i # 1 => /\ a \in Words /\ a \in 1..Len(file)
                  /\ js[a] \in Primitives => b = a + 1 /\ js[b] \notin Primitives
  BY <1>1, <1>2, <1>4, AtNext
<1>6. a \in Nat /\ b \in Nat /\ (a # 0 => i # 1 /\ a \in DOMAIN js) /\ b \in DOMAIN js
      /\ (i # 1 => a # 0)
  <2>1. a \in Nat /\ b \in Nat /\ (a # 0 => i # 1 /\ a \in 1..Len(file)) /\ (i # 1 => a # 0)
    BY <1>3, <1>5
  <2>2. QED
    BY <1>3, <1>5, <2>1
<1>7. ASSUME UNCHANGED temp, a # 0 => js[a] \notin {"channel_name", "input_url"}
      PROVE  UrlOk(temp'.url, b)
  <2>1. UrlOk(temp.url, a)
    BY <1>3 DEF AlongAt
  <2>2. UrlOk(temp.url, b)
    BY <1>3, <1>5, <1>6, <1>7, <2>1, UrlKeeps
  <2>3. QED
    BY <1>7, <2>2
<1>8. \A l \in Keys : l \in Primitives
  BY KeysAssumption
<1>9. CASE FirstObject
  <2>1. /\ state = "START" /\ state' = "KEY" /\ UNCHANGED <<m, temp>> /\ i = 1
    BY <1>3, <1>9 DEF FirstObject, AtToken
  <2>2. js[b] \notin Primitives
    BY <1>2, <1>4, <2>1, TypeIs
  <2>3. UrlOk(temp'.url, b)
    BY <1>5, <1>7, <2>1
  <2>4. AlongAt(b, state', m', temp'.url)
    BY <2>1, <2>2, <2>3 DEF AlongAt
  <2>5. QED
    BY <1>1, <1>2, <1>4, <2>1, <2>4, PassForm
<1>10. CASE NoKey
  <2>1. /\ state = "KEY" /\ state' = "KEY" /\ UNCHANGED <<m, temp>>
        /\ tokens[i].type # "PRIMITIVE"
    BY <1>10 DEF NoKey, AtToken, Token
  <2>2. js[b] \notin Primitives
    BY <1>5, <2>1, TypeIs
  <2>3. js[a] \notin Primitives
    BY <1>3, <2>1 DEF AlongAt
  <2>4. UrlOk(temp'.url, b)
    BY <1>7, <1>8, <2>1, <2>3 DEF Keys
  <2>5. AlongAt(b, state', m', temp'.url)
    BY <2>1, <2>2, <2>4 DEF AlongAt
  <2>6. QED
    BY <1>1, <1>2, <1>4, <2>1, <2>5, PassForm
<1>11. CASE Key
  <2>1. /\ state = "KEY" /\ UNCHANGED temp /\ tokens[i].type = "PRIMITIVE"
        /\ IF js[b] \in Keys THEN state' = "PRINT" /\ m' = js[b]
                             ELSE state' = "SKIP" /\ m' = NULL
    BY <1>2, <1>11 DEF Key, AtToken, Token, Lexeme
  <2>2. js[b] \in Primitives
    BY <1>5, <2>1, TypeIs
  <2>3. js[a] \notin Primitives
    BY <1>3, <2>1 DEF AlongAt
  <2>4. UrlOk(temp'.url, b)
    BY <1>7, <1>8, <2>1, <2>3 DEF Keys
  <2>5. state' # "START" /\ AlongAt(b, state', m', temp'.url)
    BY <2>1, <2>2, <2>4 DEF AlongAt
  <2>6. QED
    BY <1>1, <1>2, <1>4, <2>5, PassForm
<1>12. CASE Skip
  <2>1. /\ state = "SKIP" /\ state' = "KEY" /\ UNCHANGED <<m, temp>>
    BY <1>12 DEF Skip, AtToken
  <2>2. js[a] \in Primitives /\ js[a] \notin Keys
    BY <1>3, <2>1 DEF AlongAt
  <2>3. i # 1 /\ js[b] \notin Primitives
    BY <1>3, <1>5, <2>1, <2>2
  <2>4. UrlOk(temp'.url, b)
    BY <1>7, <2>1, <2>2 DEF Keys
  <2>5. AlongAt(b, state', m', temp'.url)
    BY <2>1, <2>3, <2>4 DEF AlongAt
  <2>6. QED
    BY <1>1, <1>2, <1>4, <2>1, <2>5, PassForm
<1>13. CASE PrintName \/ PrintUrl
  <2>1. state = "PRINT" /\ state' = "KEY" /\ i # 1
    BY <1>3, <1>13 DEF PrintName, PrintUrl, AtToken
  <2>2. js[a] \in Primitives /\ m = js[a]
    BY <1>3, <2>1 DEF AlongAt
  <2>3. b = a + 1 /\ js[b] \notin Primitives
    BY <1>5, <2>1, <2>2
  <2>4. CASE PrintName
    <3>1. temp' = [url |-> NULL, outputs |-> <<>>]
      BY <2>4 DEF PrintName
    <3>2. UrlOk(temp'.url, b)
      BY <3>1 DEF UrlOk
    <3>3. AlongAt(b, state', m', temp'.url)
      BY <2>1, <2>3, <3>2 DEF AlongAt
    <3>4. QED
      BY <1>1, <1>2, <1>4, <2>1, <3>3, PassForm
  <2>5. CASE PrintUrl
    <3>1. temp' = [temp EXCEPT !.url = js[b]] /\ js[a] = "input_url"
      BY <1>2, <2>2, <2>5 DEF PrintUrl, Lexeme, Token
    <3>2. temp'.url = js[b]
      <4>1. temp = [url |-> temp.url, outputs |-> temp.outputs]
        BY DEF StartupInv, WalkTypes
      <4>2. QED
        BY <3>1, <4>1
    <3>3. UrlOk(temp'.url, b)
      BY <1>3, <1>6, <2>1, <2>3, <3>1, <3>2, UrlRead
    <3>4. AlongAt(b, state', m', temp'.url)
      BY <2>1, <2>3, <3>3 DEF AlongAt
    <3>5. QED
      BY <1>1, <1>2, <1>4, <2>1, <3>4, PassForm
  <2>6. QED
    BY <1>13, <2>4, <2>5
<1>14. QED
  BY <1>9, <1>10, <1>11, <1>12, <1>13

\* The outputs that are read are those up to the end of the array.
LEMMA OutputForm ==
    ASSUME StartupInv, TextInv, FileInv, AsDocumented(file), FormInv, PrintOutput
    PROVE  FormInv'
<1>1. /\ pc = "tokens" /\ j > 0 /\ UNCHANGED <<parser, channel, channels>> /\ i' = i + 1
      /\ pc' = "new" /\ state = "PRINT" /\ state' = "KEY" /\ m = "output"
      /\ temp' = [temp EXCEPT !.outputs = SubSeq(js, Token.start + 1, Token.start + Token.size)]
  BY DEF PrintOutput, AtToken, More
<1>2. PICK a, b, z : a = Passed /\ b = tokens[i].start /\ z = tokens[i].size
  OBVIOUS
<1>3. /\ ParserInv /\ ParserTypes /\ pos = Len(js) + 1 /\ Opened = {}
      /\ i \in Nat \ {0} /\ DOMAIN js = 1..Len(js) /\ Len(js) \in Nat
      /\ i # 1 /\ js[tokens[1].start] \in Openers
      /\ js[a] \in Primitives /\ js[a] = "output" /\ UrlOk(temp.url, a)
      /\ Listed(channels, a) /\ Listed(channels, Len(js) + 1)
      /\ Len(file) \in Nat /\ Len(file) <= Len(js)
  <2>1. ParserInv /\ ParserTypes /\ i \in Nat \ {0} /\ pos = Len(js) + 1 /\ Opened = {}
    BY <1>1 DEF StartupInv, ParserInv, WalkInv, WalkTypes, Walking
  <2>2. (state = "START" <=> i = 1) /\ (i # 1 => js[tokens[1].start] \in Openers)
        /\ AlongAt(a, state, m, temp.url)
        /\ Listed(channels, a) /\ Listed(channels, Len(js) + 1)
    BY <1>1, <1>2 DEF FormInv, Walking
  <2>3. DOMAIN js = 1..Len(js) /\ Len(js) \in Nat /\ Len(file) \in Nat /\ Len(file) <= Len(js)
    BY <2>1, TextIs, LenProperties DEF FileInv
  <2>4. js[a] \in Primitives /\ m = js[a] /\ UrlOk(temp.url, a)
    BY <1>1, <2>2 DEF AlongAt
  <2>5. QED
    BY <1>1, <2>1, <2>2, <2>3, <2>4
<1>4. /\ i \in DOMAIN tokens /\ a \in 1..Len(file) /\ b = a + 1 /\ js[b] \notin Primitives
      /\ \A l \in Words : l < b => l <= a
  BY <1>1, <1>2, <1>3, AtNext
<1>5. PICK e : e = Stop(a)
  OBVIOUS
<1>6. /\ js[b] = "[" /\ e \in (a + 2)..Len(file) /\ js[e] = "]"
      /\ \A l \in (a + 2)..(e - 1) : js[l] \notin Openers \cup Closers
  BY <1>3, <1>4, <1>5, DocumentedIs
<1>7. z = e - b - 1 /\ b \in Nat /\ e \in Nat
  <2>1. /\ b \in DOMAIN js /\ e \in DOMAIN js /\ b < e /\ a + 2 = b + 1
        /\ js[b] \in Openers /\ js[e] \in Closers /\ b \in Nat /\ e \in Nat
    <3>1. js[b] \in Openers /\ js[e] \in Closers
      BY <1>6 DEF Openers, Closers
    <3>2. b \in Nat /\ e \in Nat /\ b < e /\ a + 2 = b + 1 /\ 1 <= b /\ e <= Len(js)
      BY <1>3, <1>4, <1>6
    <3>3. b \in 1..Len(js) /\ e \in 1..Len(js)
      BY <1>3, <3>2
    <3>4. QED
      BY <1>3, <3>1, <3>2, <3>3
  <2>2. \A l \in (b + 1)..(e - 1) : js[l] \notin Openers \cup Closers
    BY <1>6, <2>1
  <2>3. tokens[i].size = e - b - 1
    BY <1>2, <1>3, <1>4, <2>1, <2>2, FlatSize
  <2>4. QED
    BY <1>2, <2>1, <2>3
<1>8. temp'.outputs = SubSeq(js, a + 2, e - 1) /\ temp'.url = temp.url
  <2>1. temp = [url |-> temp.url, outputs |-> temp.outputs]
    BY DEF StartupInv, WalkTypes
  <2>2. temp' = [temp EXCEPT !.outputs = SubSeq(js, b + 1, b + z)]
    BY <1>1, <1>2 DEF Token
  <2>3. b + 1 = a + 2 /\ b + z = e - 1
    BY <1>3, <1>4, <1>7
  <2>4. QED
    BY <2>1, <2>2, <2>3
<1>9. js' = js /\ file' = file /\ tokens' = tokens /\ channels' = channels
  BY <1>1 DEF parser
<1>10. Passed' = b /\ Passed' - 1 = a
  <2>1. Passed' = b
    BY <1>1, <1>2, <1>3, <1>9, PassedNext
  <2>2. QED
    BY <1>4, <1>7, <2>1
<1>11. AlongAt(Passed, state, m, temp.url)'
  <2>1. UrlOk(temp.url, b)
    <3>1. a \in Nat /\ b \in Nat /\ a < b
      BY <1>3, <1>4
    <3>2. QED
      BY <1>3, <1>4, <3>1, UrlKeeps
  <2>2. AlongAt(b, state', m', temp'.url)
    BY <1>1, <1>4, <1>8, <2>1 DEF AlongAt
  <2>3. QED
    BY <1>9, <1>10, <2>2, FormNext
<1>12. MakingAt(Passed - 1, pc, temp.outputs, channel)'
  <2>1. MakingAt(a, pc', temp'.outputs, channel')
    BY <1>1, <1>3, <1>4, <1>5, <1>8 DEF MakingAt
  <2>2. QED
    BY <1>9, <1>10, <2>1, FormNext
<1>13. Listed(channels, Passed - 1)' /\ Listed(channels, Len(js) + 1)'
  BY <1>3, <1>9, <1>10, FormNext
<1>14. i' # 1 /\ pc' \notin {"parse", "tokens"}
  BY <1>1, <1>3
<1>15. QED
  BY <1>1, <1>3, <1>9, <1>11, <1>12, <1>13, <1>14 DEF FormInv

\* The walk stands still: what is to show is where the making of a channel is.
LEMMA MakeForm ==
    ASSUME FormInv, pc \in Making, pc' \in Making \cup {"aborted"},
           UNCHANGED <<parser, i, j, state, m, channels>>, temp'.url = temp.url,
           i \in Nat \ {0},
           pc' \in Making => MakingAt(Passed - 1, pc', temp'.outputs, channel')
    PROVE  FormInv'
<1>1. js' = js /\ file' = file /\ tokens' = tokens /\ channels' = channels /\ i' = i
  BY DEF parser
<1>2. Passed' = Passed
  BY <1>1, PassedNext
<1>3. /\ (state = "START" <=> i = 1) /\ (i # 1 => js[tokens[1].start] \in Openers)
      /\ AlongAt(Passed, state, m, temp.url) /\ state = "KEY"
      /\ Listed(channels, Passed - 1) /\ Listed(channels, Len(js) + 1)
  BY DEF FormInv, Walking, Making
<1>4. AlongAt(Passed, state, m, temp.url)' /\ Listed(channels, Passed - 1)'
      /\ Listed(channels, Len(js) + 1)'
  <2>1. state' = state /\ m' = m
    OBVIOUS
  <2>2. QED
    BY <1>1, <1>2, <1>3, <2>1, FormNext
<1>5. pc' \in Making => MakingAt(Passed - 1, pc, temp.outputs, channel)'
  BY <1>1, <1>2, FormNext
<1>6. pc' \notin {"parse", "tokens"}
  BY DEF Making
<1>7. QED
  BY <1>1, <1>3, <1>4, <1>5, <1>6 DEF FormInv

\* What was said of the making of a channel.
LEMMA MakingIs ==
    ASSUME StartupInv, FileInv, AsDocumented(file), FormInv, pc \in Making,
           NEW k, k = Passed - 1, NEW e, e = Stop(k)
    PROVE  /\ ParserTypes /\ i \in Nat \ {0} /\ DOMAIN js = 1..Len(js) /\ Len(js) \in Nat
           /\ Passed = k + 1 /\ k \in Nat /\ e \in Nat /\ k \in DOMAIN js /\ js[k] = "output"
           /\ k + 1 \in 1..Len(js)
           /\ e \in (k + 2)..Len(js) /\ js[e] = "]"
           /\ OwnUrl(k)
           /\ MakingAt(k, pc, temp.outputs, channel)
           /\ UrlOk(temp.url, k + 1)
<1>1. ParserTypes /\ i \in Nat \ {0}
  BY DEF StartupInv, ParserInv, WalkTypes
<1>2. DOMAIN js = 1..Len(js) /\ Len(js) \in Nat /\ Len(file) \in Nat /\ Len(file) <= Len(js)
  BY <1>1, TextIs, LenProperties DEF FileInv
<1>3. MakingAt(k, pc, temp.outputs, channel) /\ UrlOk(temp.url, Passed)
  BY DEF FormInv, AlongAt, Making, Walking
<1>4. k \in 1..Len(file) /\ js[k] = "output"
  BY <1>3 DEF MakingAt
<1>5. /\ e \in (k + 2)..Len(file) /\ js[e] = "]"
      /\ OwnUrl(k)
  BY <1>1, <1>4, DocumentedIs
<1>6. Passed = k + 1
  <2>1. Passed = 0 \/ (i # 1 /\ Passed = tokens[i - 1].start)
    BY DEF Passed
  <2>2. Passed \in Int
    <3>1. CASE Passed = 0
      BY <3>1
    <3>2. CASE i # 1 /\ Passed = tokens[i - 1].start
      <4>1. i - 1 \in 1..(i - 1) /\ 1..(i - 1) \subseteq Extent
        BY <1>1, <3>2 DEF StartupInv, WalkInv, Walking, Making
      <4>2. i - 1 \in DOMAIN tokens
        BY <4>1 DEF Extent
      <4>3. tokens[i - 1].start \in Nat
        BY <1>1, <4>2, TokensAre
      <4>4. QED
        BY <3>2, <4>3
    <3>3. QED
      BY <2>1, <3>1, <3>2
  <2>3. QED
    BY <2>2
<1>7. k \in Nat /\ e \in Nat /\ k \in DOMAIN js /\ k + 1 \in 1..Len(js) /\ e \in (k + 2)..Len(js)
  BY <1>2, <1>4, <1>5
<1>8. QED
  BY <1>1, <1>2, <1>3, <1>4, <1>5, <1>6, <1>7

\* clive_new_channel: the url is that of the input_url read last.
LEMMA NewForm ==
    ASSUME StartupInv, FileInv, AsDocumented(file), FormInv, NewChannel
    PROVE  FormInv'
<1>1. i \in Nat \ {0} /\ pc = "new"
  BY DEF StartupInv, WalkTypes, NewChannel
<1>2. CASE temp.url = NULL
  <2>1. pc' = "aborted" /\ UNCHANGED <<parser, i, j, state, m, temp, channels>>
    BY <1>2 DEF NewChannel, Abort, walk
  <2>2. QED
    BY <1>1, <2>1, MakeForm DEF Making
<1>3. CASE temp.url # NULL
  <2>1. /\ UNCHANGED <<parser, i, j, state, m, temp, channels>> /\ pc' = "add_output"
        /\ \E s : channel' = [NoChannel EXCEPT !.url = temp.url, !.skt = s]
    BY <1>3 DEF NewChannel, walk
  <2>2. PICK k, e : k = Passed - 1 /\ e = Stop(k)
    OBVIOUS
  <2>3. /\ ParserTypes /\ DOMAIN js = 1..Len(js) /\ Len(js) \in Nat
        /\ k \in Nat /\ e \in Nat /\ js[k] = "output" /\ e \in (k + 2)..Len(js)
        /\ OwnUrl(k)
        /\ MakingAt(k, pc, temp.outputs, channel) /\ UrlOk(temp.url, k + 1)
        /\ k \in DOMAIN js
    BY <1>1, <2>2, MakingIs DEF Making
  <2>4. temp.url = UrlAt(k)
    <3>1. ~(Before("input_url", k + 1) = {} /\ Before("channel_name", k + 1) = {})
      <4>1. PICK l \in 1..(k - 1) : js[l] = "input_url"
        BY <2>3 DEF OwnUrl
      <4>2. l \in DOMAIN js /\ l < k + 1
        BY <2>3
      <4>3. l \in Before("input_url", k + 1) \/ l \in Before("channel_name", k + 1)
        BY <4>1, <4>2, BeforeIs
      <4>4. QED
        BY <4>3
    <3>2. temp.url = UrlAt(k + 1)
      BY <1>3, <2>3, <3>1 DEF UrlOk
    <3>3. Before("input_url", k + 1) = Before("input_url", k)
      <4>1. ASSUME NEW l
            PROVE  l \in Before("input_url", k + 1) <=> l \in Before("input_url", k)
        <5>1. l \in DOMAIN js => l \in Nat
          BY <2>3
        <5>2. js[l] = "input_url" => l # k
          BY <2>3
        <5>3. l \in Nat /\ l # k => (l < k + 1 <=> l < k)
          BY <2>3
        <5>4. QED
          BY <5>1, <5>2, <5>3, BeforeIs
      <4>2. QED
        BY <4>1 DEF Before
    <3>4. QED
      BY <3>2, <3>3 DEF UrlAt
  <2>5. channel'.url = temp.url /\ channel'.ts = FALSE /\ channel'.flv = FALSE
    BY <2>1 DEF NoChannel
  <2>6. temp'.outputs = SubSeq(js, k + 2, e - 1) /\ k \in 1..Len(file)
    BY <1>1, <2>1, <2>2, <2>3 DEF MakingAt
  <2>7. ~Has(k + 2, (k + 2) - 1, {"ts", "m3u8"}) /\ ~Has(k + 2, (k + 2) - 1, {"flv", "rtmp"})
    <3>1. (k + 2)..((k + 2) - 1) = {}
      BY <2>3
    <3>2. QED
      BY <3>1 DEF Has
  <2>8. k + 2 \in (k + 2)..Stop(k)
    BY <2>2, <2>3
  <2>9. MakingAt(k, pc', temp'.outputs, channel')
    <3>1. /\ temp'.outputs = SubSeq(js, k + 2, Stop(k) - 1)
          /\ channel'.ts = Has(k + 2, (k + 2) - 1, {"ts", "m3u8"})
          /\ channel'.flv = Has(k + 2, (k + 2) - 1, {"flv", "rtmp"})
      <4>1. \A S : Has(k + 2, (k + 2) - 1, S) \in BOOLEAN
        BY DEF Has
      <4>2. QED
        BY <2>2, <2>5, <2>6, <2>7, <4>1
    <3>2. QED
      BY <2>1, <2>3, <2>4, <2>5, <2>6, <2>8, <3>1 DEF MakingAt
  <2>10. QED
    BY <1>1, <2>1, <2>2, <2>9, MakeForm DEF Making
<1>4. QED
  BY <1>2, <1>3

\* clive_channel_add_output, for the first of the outputs that are left.
LEMMA AddForm ==
    ASSUME StartupInv, FileInv, AsDocumented(file), FormInv, AddOutput
    PROVE  FormInv'
<1>1. /\ i \in Nat \ {0} /\ pc = "add_output" /\ pc' = pc /\ temp.outputs # <<>>
      /\ UNCHANGED <<parser, i, j, state, m, channels>>
      /\ temp = [url |-> temp.url, outputs |-> temp.outputs]
      /\ temp' = [temp EXCEPT !.outputs = Tail(@)] /\ channel \in ChannelType
  BY DEF StartupInv, WalkTypes, AddOutput
<1>2. PICK k, e : k = Passed - 1 /\ e = Stop(k)
  OBVIOUS
<1>3. /\ ParserTypes /\ DOMAIN js = 1..Len(js) /\ Len(js) \in Nat
      /\ k \in Nat /\ e \in Nat /\ e \in (k + 2)..Len(js)
      /\ MakingAt(k, pc, temp.outputs, channel)
  BY <1>1, <1>2, MakingIs DEF Making
<1>4. PICK h \in (k + 2)..e :
         /\ temp.outputs = SubSeq(js, h, e - 1)
         /\ channel.ts = Has(k + 2, h - 1, {"ts", "m3u8"})
         /\ channel.flv = Has(k + 2, h - 1, {"flv", "rtmp"})
  BY <1>1, <1>2, <1>3 DEF MakingAt
<1>5. /\ k \in 1..Len(file) /\ js[k] = "output" /\ channel.url = UrlAt(k)
  BY <1>1, <1>3 DEF MakingAt
<1>6. h \in Nat /\ h <= e - 1
  <2>1. h \in Nat /\ h <= e
    BY <1>3, <1>4
  <2>2. SUFFICES ASSUME h = e PROVE FALSE
    BY <1>3, <2>1
  <2>3. SubSeq(js, h, e - 1) = <<>>
    BY <1>3, <2>1, <2>2, SubSeqEmpty
  <2>4. QED
    BY <1>1, <1>4, <2>3
<1>7. Head(temp.outputs) = js[h] /\ Tail(temp.outputs) = SubSeq(js, h + 1, e - 1)
  <2>1. h \in 1..Len(js) /\ e - 1 \in h..Len(js) /\ js \in Seq(ToSet(js))
    BY <1>3, <1>4, <1>6 DEF ParserTypes
  <2>2. QED
    BY <1>4, <2>1, HeadTailOfSubSeq
<1>8. temp'.url = temp.url /\ temp'.outputs = SubSeq(js, h + 1, e - 1)
  BY <1>1, <1>7
<1>9. ASSUME NEW S PROVE Has(k + 2, h, S) <=> Has(k + 2, h - 1, S) \/ js[h] \in S
  <2>1. \A l : l \in (k + 2)..h <=> l \in (k + 2)..(h - 1) \/ l = h
    BY <1>3, <1>4, <1>6
  <2>2. QED
    BY <2>1 DEF Has
<1>10. /\ channel'.url = channel.url
       /\ channel'.ts = (channel.ts \/ js[h] \in {"ts", "m3u8"})
       /\ channel'.flv = (channel.flv \/ js[h] \in {"flv", "rtmp"})
  <2>1. channel' = [channel EXCEPT !.flv = @ \/ js[h] \in {"flv", "rtmp"},
                                   !.ts  = @ \/ js[h] \in {"ts", "m3u8"}]
    BY <1>7 DEF AddOutput
  <2>2. QED
    BY <1>1, <2>1 DEF ChannelType
<1>11. /\ channel'.ts = Has(k + 2, h, {"ts", "m3u8"})
       /\ channel'.flv = Has(k + 2, h, {"flv", "rtmp"})
  <2>1. \A a, b, S : Has(a, b, S) \in BOOLEAN
    BY DEF Has
  <2>2. QED
    BY <1>4, <1>9, <1>10, <2>1
<1>12. MakingAt(k, pc', temp'.outputs, channel')
  <2>1. (h + 1) - 1 = h /\ h + 1 \in (k + 2)..e
    BY <1>3, <1>4, <1>6
  <2>2. /\ temp'.outputs = SubSeq(js, h + 1, Stop(k) - 1)
        /\ channel'.ts = Has(k + 2, (h + 1) - 1, {"ts", "m3u8"})
        /\ channel'.flv = Has(k + 2, (h + 1) - 1, {"flv", "rtmp"})
        /\ h + 1 \in (k + 2)..Stop(k)
    BY <1>2, <1>8, <1>11, <2>1
  <2>3. QED
    BY <1>1, <1>5, <1>10, <2>2 DEF MakingAt
<1>13. QED
  BY <1>1, <1>2, <1>8, <1>12, MakeForm DEF Making

\* What is said of a channel, when all its outputs are added.
LEMMA SaidIs ==
    ASSUME ParserTypes, NEW k \in DOMAIN js, OwnUrl(k), NEW e, e = Stop(k),
           NEW c, c.url = UrlAt(k),
           c.ts = Has(k + 2, e - 1, {"ts", "m3u8"}),
           c.flv = Has(k + 2, e - 1, {"flv", "rtmp"})
    PROVE  ListedAs(c) = Said(k)
<1>1. PICK o : o = {js[l] : l \in (k + 2)..(e - 1)}
  OBVIOUS
<1>2. ASSUME NEW S PROVE (o \cap S # {}) <=> Has(k + 2, e - 1, S)
  BY <1>1 DEF Has
<1>3. /\ (o \cap {"ts", "m3u8"} # {}) = c.ts /\ (o \cap {"flv", "rtmp"} # {}) = c.flv
  <2>1. \A a, b, S : Has(a, b, S) \in BOOLEAN
    BY DEF Has
  <2>2. QED
    BY <1>2, <2>1
<1>4. Said(k) = [url |-> UrlAt(k), ts |-> o \cap {"ts", "m3u8"} # {},
                 flv |-> o \cap {"flv", "rtmp"} # {}]
  BY <1>1, OwnUrlLast DEF Said, UrlAt, Stop
<1>5. QED
  BY <1>3, <1>4 DEF ListedAs

\* clive_channel_start, when all are added: the channel is as it is said.
LEMMA StartForm ==
    ASSUME StartupInv, FileInv, AsDocumented(file), FormInv, ChannelStart
    PROVE  FormInv'
<1>1. /\ i \in Nat \ {0} /\ pc = "add_output" /\ temp.outputs = <<>> /\ channel \in ChannelType
  BY DEF StartupInv, WalkTypes, ChannelStart
<1>2. CASE Abort
  <2>1. pc' = "aborted" /\ UNCHANGED <<parser, i, j, state, m, temp, channels>>
    BY <1>2 DEF Abort, walk
  <2>2. QED
    BY <1>1, <2>1, MakeForm DEF Making
<1>3. CASE ~Abort
  <2>1. /\ pc' = "add" /\ UNCHANGED <<parser, i, j, state, m, temp, channels>>
        /\ \E v : channel' = [channel EXCEPT !.events = v]
    BY <1>3 DEF ChannelStart, walk
  <2>2. PICK k, e : k = Passed - 1 /\ e = Stop(k)
    OBVIOUS
  <2>3. /\ ParserTypes /\ DOMAIN js = 1..Len(js) /\ Len(js) \in Nat
        /\ k \in Nat /\ e \in Nat /\ e \in (k + 2)..Len(js) /\ k \in DOMAIN js /\ OwnUrl(k)
        /\ MakingAt(k, pc, temp.outputs, channel)
    BY <1>1, <2>2, MakingIs DEF Making
  <2>4. PICK h \in (k + 2)..e :
           /\ temp.outputs = SubSeq(js, h, e - 1)
           /\ channel.ts = Has(k + 2, h - 1, {"ts", "m3u8"})
           /\ channel.flv = Has(k + 2, h - 1, {"flv", "rtmp"})
    BY <1>1, <2>2, <2>3 DEF MakingAt
  <2>5. k \in 1..Len(file) /\ js[k] = "output" /\ channel.url = UrlAt(k)
    BY <1>1, <2>3 DEF MakingAt
  <2>6. h = e
    <3>1. h \in Nat /\ h <= e
      BY <2>3, <2>4
    <3>2. SUFFICES ASSUME h <= e - 1 PROVE FALSE
      BY <2>3, <3>1
    <3>3. \A l \in h..(e - 1) : js[l] \in ToSet(js)
      <4>1. \A l \in h..(e - 1) : l \in DOMAIN js
        BY <2>3, <2>4, <3>1
      <4>2. QED
        BY <4>1 DEF ToSet
    <3>4. Len(SubSeq(js, h, e - 1)) = e - 1 - h + 1
      BY <2>3, <3>1, <3>2, <3>3, SubSeqProperties
    <3>5. Len(temp.outputs) = 0
      BY <1>1
    <3>6. QED
      BY <2>3, <2>4, <3>1, <3>2, <3>4, <3>5
  <2>7. ListedAs(channel') = Said(k)
    <3>1. channel'.url = channel.url /\ channel'.ts = channel.ts /\ channel'.flv = channel.flv
      BY <1>1, <2>1 DEF ChannelType
    <3>2. QED
      BY <2>2, <2>3, <2>4, <2>5, <2>6, <3>1, SaidIs
  <2>8. MakingAt(k, pc', temp'.outputs, channel')
    BY <2>1, <2>5, <2>7 DEF MakingAt
  <2>9. QED
    BY <1>1, <2>1, <2>2, <2>8, MakeForm DEF Making
<1>4. QED
  BY <1>2, <1>3

\* clive_channel_add: the channel is listed, or left out.
LEMMA ListForm ==
    ASSUME StartupInv, FileInv, AsDocumented(file), FormInv, ChannelAdd
    PROVE  FormInv'
<1>1. /\ i \in Nat \ {0} /\ pc = "add" /\ pc' = "tokens"
      /\ channels' \in {channels, Append(channels, channel)}
      /\ UNCHANGED <<parser, i, j, state, m, temp>>
      /\ channel \in ChannelType /\ channels \in Seq(ChannelType)
  BY DEF StartupInv, WalkTypes, ChannelAdd, walk
<1>2. PICK k, b : k = Passed - 1 /\ b = Passed
  OBVIOUS
<1>3. /\ ParserTypes /\ DOMAIN js = 1..Len(js) /\ Len(js) \in Nat
      /\ b = k + 1 /\ k \in Nat /\ k \in DOMAIN js /\ js[k] = "output" /\ b \in 1..Len(js)
      /\ MakingAt(k, pc, temp.outputs, channel)
  BY <1>1, <1>2, MakingIs DEF Making
<1>4. /\ (state = "START" <=> i = 1) /\ (i # 1 => js[tokens[1].start] \in Openers)
      /\ AlongAt(b, state, m, temp.url) /\ Listed(channels, k)
  BY <1>1, <1>2 DEF FormInv, Walking, Making
<1>5. Listed(channels', b)
  <2>1. CASE channels' = channels
    BY <1>3, <1>4, <2>1, ListedLater
  <2>2. CASE channels' = Append(channels, channel)
    <3>1. ListedAs(channel) = Said(k)
      BY <1>1, <1>3 DEF MakingAt
    <3>2. k \in Places({"output"})
      BY <1>3 DEF Places
    <3>3. QED
      BY <1>1, <1>3, <1>4, <2>2, <3>1, <3>2, ListedAppend
  <2>3. QED
    BY <1>1, <2>1, <2>2
<1>6. Listed(channels', Len(js) + 1)
  <2>1. b \in Nat /\ Len(js) + 1 \in Nat /\ b <= Len(js) + 1
    BY <1>3
  <2>2. QED
    BY <1>3, <1>5, <2>1, ListedLater
<1>7. js' = js /\ file' = file /\ tokens' = tokens
  BY <1>1 DEF parser
<1>8. Passed' = b
  BY <1>1, <1>2, <1>7, PassedNext
<1>9. /\ AlongAt(Passed, state, m, temp.url)' /\ Listed(channels, Passed)'
      /\ Listed(channels, Len(js) + 1)'
  BY <1>1, <1>4, <1>5, <1>6, <1>7, <1>8, FormNext
<1>10. pc' \notin Making
  BY <1>1 DEF Making
<1>11. QED
  BY <1>1, <1>4, <1>7, <1>9, <1>10 DEF FormInv

----------------------------------------------------------------------------
(* The channels are those of the file.                                     *)

\* main begins.
LEMMA FormInit == Init => FileInv /\ FormInv
<1>. SUFFICES ASSUME Init PROVE FileInv /\ FormInv
  OBVIOUS
<1>1. /\ ParserInit /\ pc = "parse" /\ state = "START" /\ channels = <<>>
  BY DEF Init, ParserInit
<1>2. FileInv
  <2>1. file \in Texts
    BY <1>1 DEF ParserInit
  <2>2. PICK g \in Junk : js = file \o g
    BY <1>1 DEF ParserInit
  <2>3. file \in Seq(ToSet(file)) /\ g \in Seq(ToSet(g))
    BY <2>1, JsmnAssumption
  <2>4. PICK S : S = ToSet(file) \cup ToSet(g)
    OBVIOUS
  <2>5. file \in Seq(S) /\ g \in Seq(S)
    BY <2>3, <2>4
  <2>6. /\ Len(js) = Len(file) + Len(g) /\ Len(file) \in Nat /\ Len(g) \in Nat
        /\ \A k \in 1..Len(file) : js[k] = file[k]
    <3>1. /\ Len(js) = Len(file) + Len(g)
          /\ \A k \in 1..(Len(file) + Len(g)) :
                js[k] = IF k <= Len(file) THEN file[k] ELSE g[k - Len(file)]
      BY <2>2, <2>5, ConcatProperties
    <3>2. Len(file) \in Nat /\ Len(g) \in Nat
      BY <2>5, LenProperties
    <3>3. \A k \in 1..Len(file) : k <= Len(file) /\ k \in 1..(Len(file) + Len(g))
      BY <3>2
    <3>4. QED
      BY <3>1, <3>2, <3>3
  <2>7. QED
    BY <2>3, <2>6 DEF FileInv
<1>3. pc \notin Walking /\ pc \notin Making
  BY <1>1 DEF Walking, Making
<1>4. Listed(channels, Len(js) + 1)
  BY <1>1, ListedNone
<1>5. QED
  BY <1>1, <1>2, <1>3, <1>4 DEF FormInv

\* No step writes to the buffer.
LEMMA FileStays ==
    ASSUME [Next]_vars
    PROVE  js' = js /\ file' = file /\ (FileInv => FileInv')
<1>1. CASE Parse
  BY <1>1 DEF Parse, Grow, Open, Leaf, Close, Invalid, Parsed, parser, FileInv
<1>2. CASE Tokens
  BY <1>2 DEF Tokens, Unfilled, NoObject, FirstObject, NoKey, Key, Skip, PrintName,
              PrintUrl, PrintOutput, AllTokens, parser, FileInv
<1>3. CASE Make
  BY <1>3 DEF Make, NewChannel, AddOutput, ChannelStart, ChannelAdd, Abort, parser, FileInv
<1>4. CASE UNCHANGED vars
  BY <1>4 DEF vars, parser, FileInv
<1>5. QED
  BY <1>1, <1>2, <1>3, <1>4 DEF Next

\* The parser goes on; when it is done the walk is before the first token.
LEMMA ParseForm ==
    ASSUME StartupInv, FormInv, Parse, UNCHANGED <<walk, channel, channels>>
    PROVE  FormInv'
<1>1. /\ pc = "parse" /\ pc' \in {"parse", "invalid", "tokens"} /\ js' = js /\ file' = file
      /\ UNCHANGED <<i, j, state, m, temp, channel, channels>>
  BY DEF Parse, Grow, Open, Leaf, Close, Invalid, Parsed, Parsing, parser, walk
<1>2. /\ i = 1 /\ state = "START" /\ channels = <<>> /\ ParserTypes
  BY <1>1 DEF StartupInv, ParserInv, WalkInv, FormInv
<1>3. Passed' = 0 /\ i' = 1
  BY <1>1, <1>2 DEF Passed
<1>4. AlongAt(0, state, m, temp.url)
  <2>1. DOMAIN js = 1..Len(js) /\ Len(js) \in Nat
    BY <1>2, TextIs
  <2>2. ASSUME NEW w PROVE Before(w, 0) = {}
    <3>1. \A l : l \notin Before(w, 0)
      BY <2>1, BeforeIs
    <3>2. QED
      BY <3>1
  <2>3. UrlOk(temp.url, 0)
    BY <2>2 DEF UrlOk
  <2>4. QED
    BY <1>2, <2>3 DEF AlongAt
<1>5. Listed(channels', 0) /\ Listed(channels', Len(js) + 1)
  BY <1>1, <1>2, ListedNone
<1>6. /\ AlongAt(Passed, state, m, temp.url)' /\ Listed(channels, Passed)'
      /\ Listed(channels, Len(js) + 1)'
  BY <1>1, <1>3, <1>4, <1>5, FormNext
<1>7. pc' \notin Making
  BY <1>1 DEF Making
<1>8. QED
  BY <1>1, <1>2, <1>3, <1>6, <1>7 DEF FormInv

\* Nothing is left to say when the walk has ended.
LEMMA EndForm ==
    ASSUME FormInv, Unfilled \/ NoObject \/ AllTokens
    PROVE  FormInv'
<1>1. pc' \in {"returned", "stray", "wait"} /\ js' = js /\ file' = file /\ channels' = channels
  BY DEF Unfilled, NoObject, AllTokens, parser
<1>2. Listed(channels, Len(js) + 1)'
  <2>1. Listed(channels, Len(js) + 1)
    BY DEF FormInv
  <2>2. QED
    BY <1>1, <2>1, FormNext
<1>3. pc' \notin Walking \cup Making \cup {"parse"}
  BY <1>1 DEF Walking, Making
<1>4. QED
  BY <1>2, <1>3 DEF FormInv, Walking

\* What is said of the file is kept by all steps.
LEMMA FormStep ==
    ASSUME StartupInv, TextInv, FileInv, AsDocumented(file), FormInv, [Next]_vars
    PROVE  FormInv'
<1>1. CASE Parse /\ UNCHANGED <<walk, channel, channels>>
  BY <1>1, ParseForm
<1>2. CASE Tokens
  BY <1>2, TokensForm, OutputForm, EndForm DEF Tokens
<1>3. CASE Make
  BY <1>3, NewForm, AddForm, StartForm, ListForm DEF Make
<1>4. CASE UNCHANGED vars
  <2>1. UNCHANGED <<file, js, tokens, i, pc, state, m, temp, channel, channels>>
    BY <1>4 DEF vars, parser, walk
  <2>2. Passed' = Passed
    BY <2>1 DEF Passed
  <2>3. /\ AlongAt(Passed, state, m, temp.url)' <=> AlongAt(Passed, state, m, temp.url)
        /\ Listed(channels, Passed)' <=> Listed(channels, Passed)
        /\ Listed(channels, Passed - 1)' <=> Listed(channels, Passed - 1)
        /\ Listed(channels, Len(js) + 1)' <=> Listed(channels, Len(js) + 1)
        /\ MakingAt(Passed - 1, pc, temp.outputs, channel)'
              <=> MakingAt(Passed - 1, pc, temp.outputs, channel)
    BY <2>1, <2>2, FormNext
  <2>4. QED
    BY <2>1, <2>2, <2>3 DEF FormInv
<1>5. QED
  BY <1>1, <1>2, <1>3, <1>4 DEF Next

\* The channels that are listed are those of the file.
LEMMA ListedChannels ==
    ASSUME ParserTypes, Listed(channels, Len(js) + 1)
    PROVE  ChannelsOfFile
<1>1. PICK S \in SUBSET Places({"output"}) : \E q \in [1..Len(channels) -> S] :
         /\ Cardinality(S) = Len(channels) /\ \A l \in S : l < Len(js) + 1
         /\ \A n \in 1..Len(channels) : /\ Cardinality(Below(S, q[n])) = n - 1
                                        /\ ListedAs(channels[n]) = Said(q[n])
  BY DEF Listed
<1>2. PICK q \in [1..Len(channels) -> S] :
         /\ Cardinality(S) = Len(channels)
         /\ \A n \in 1..Len(channels) : /\ Cardinality(Below(S, q[n])) = n - 1
                                        /\ ListedAs(channels[n]) = Said(q[n])
  BY <1>1
<1>3. S \subseteq Nat
  BY <1>1, TextIs
<1>4. S \in kSubset(Len(channels), Places({"output"}))
  BY <1>1, <1>2 DEF kSubset
<1>5. DOMAIN Ascending(S) = 1..Len(channels)
  BY <1>2 DEF Ascending
<1>6. ASSUME NEW n \in 1..Len(channels)
      PROVE  ListedAs(channels[n]) = Said(Ascending(S)[n])
  <2>1. q[n] \in S /\ Cardinality(Below(S, q[n])) = n - 1 /\ n \in 1..Cardinality(S)
    BY <1>2
  <2>2. Ascending(S)[n] = q[n]
    BY <1>3, <2>1, AscendingIs
  <2>3. QED
    BY <1>2, <2>2
<1>7. QED
  BY <1>4, <1>5, <1>6 DEF ChannelsOfFile

\* main: at any moment all_channels holds channels that the configuration
\* describes, finished, in its order and each once, whatever lies behind the text
\* in memory and whatever fails; if the file has the form that README.md shows.
THEOREM ChannelsAsDocumented == Spec => [](AsDocumented(file) => ChannelsOfFile)
<1>1. Init => FileInv /\ (AsDocumented(file) => FormInv)
  BY FormInit
<1>2. StartupInv /\ ExactInv /\ FileInv /\ (AsDocumented(file) => FormInv) /\ [Next]_vars
        => FileInv' /\ (AsDocumented(file) => FormInv)'
  <2>. SUFFICES ASSUME StartupInv, ExactInv, FileInv, AsDocumented(file) => FormInv, [Next]_vars
                PROVE  FileInv' /\ (AsDocumented(file) => FormInv)'
    OBVIOUS
  <2>1. FileInv' /\ file' = file
    BY FileStays
  <2>2. AsDocumented(file)' <=> AsDocumented(file)
    BY <2>1
  <2>3. AsDocumented(file) => FormInv'
    BY FormStep DEF ExactInv
  <2>4. QED
    BY <2>1, <2>2, <2>3
<1>3. StartupInv /\ (AsDocumented(file) => FormInv) => (AsDocumented(file) => ChannelsOfFile)
  BY ListedChannels DEF FormInv, StartupInv, ParserInv
<1>4. QED
  BY <1>1, <1>2, <1>3, StartupInvHolds, ExactInvHolds, PTL DEF Spec

----------------------------------------------------------------------------
(* The start comes to an end.                                              *)

\* More than the steps that a token can take: its channel's outputs are not more
\* than the lexemes of the text.
Weight == Len(js) + 5
Left == (Len(js) + 1 - i) * Weight

\* A bound on the number of steps that are still to come.
Remaining ==
    CASE pc = "parse" ->
            Left + 2 + 2 * (Len(js) + 1 - pos) + (IF Len(tokens) < room THEN 0 ELSE 1)
      [] pc = "tokens"     -> Left + 1
      [] pc = "new"        -> Left + Len(temp.outputs) + 4
      [] pc = "add_output" -> Left + Len(temp.outputs) + 3
      [] pc = "add"        -> Left + 2
      [] OTHER             -> 0

\* The outputs in temp, while there are any to add.
OutputsInv ==
    pc \in {"new", "add_output"} =>
        /\ temp.outputs \in Seq(ToSet(temp.outputs))
        /\ Len(temp.outputs) <= Len(js)

\* There are no more tokens than lexemes.
LEMMA TokensFew ==
    ASSUME ParserInv
    PROVE  /\ Len(tokens) \in Nat /\ DOMAIN tokens = 1..Len(tokens)
           /\ Len(tokens) <= Len(js) /\ Len(js) \in Nat
<1>1. ParserTypes /\ Len(tokens) = Cardinality(Below(Words, pos))
  BY DEF ParserInv, Placed
<1>2. /\ Len(tokens) \in Nat /\ DOMAIN tokens = 1..Len(tokens)
      /\ Len(js) \in Nat /\ DOMAIN js = 1..Len(js)
  BY <1>1, TokensAre, TextIs
<1>3. IsFiniteSet(1..Len(js)) /\ Cardinality(1..Len(js)) = Len(js)
  <2>1. PICK n : n = Len(js)
    OBVIOUS
  <2>2. n \in Nat /\ IsFiniteSet(1..n) /\ Cardinality(1..n) = n
    <3>1. n \in Nat
      BY <1>2, <2>1
    <3>2. 1 > n => n = 0
      BY <3>1
    <3>3. IsFiniteSet(1..n) /\ Cardinality(1..n) = IF 1 > n THEN 0 ELSE n - 1 + 1
      BY <3>1, FS_Interval
    <3>4. QED
      BY <3>1, <3>2, <3>3
  <2>3. QED
    BY <2>1, <2>2
<1>4. Below(Words, pos) \in SUBSET (1..Len(js))
  BY <1>2, BelowIs DEF Words
<1>5. Cardinality(Below(Words, pos)) <= Len(js)
  BY <1>3, <1>4, FS_Subset
<1>6. QED
  BY <1>1, <1>2, <1>5

\* What is left of the walk, and that it is less by the weight behind a token.
LEMMA LeftIs ==
    ASSUME StartupInv, pc \in Walking \cup {"parse"}
    PROVE  /\ Left \in Nat /\ Weight \in Nat /\ Len(js) \in Nat /\ Weight = Len(js) + 5
           /\ js' = js /\ i' = i => Left' = Left
           /\ i <= Len(js) /\ js' = js /\ i' = i + 1 => Left' = Left - Weight /\ Left' \in Nat
<1>1. PICK n, w : n = Len(js) /\ w = Weight
  OBVIOUS
<1>2. ParserInv /\ i \in Nat \ {0}
  BY DEF StartupInv, WalkTypes
<1>3. n \in Nat /\ w \in Nat /\ w = n + 5
  BY <1>1, <1>2, TokensFew DEF Weight
<1>4. i <= n + 1
  <2>1. CASE pc = "parse"
    BY <1>3, <2>1 DEF StartupInv, WalkInv
  <2>2. CASE pc \in Walking
    <3>1. SUFFICES ASSUME ~(i <= n + 1) PROVE FALSE
      OBVIOUS
    <3>2. i - 1 \in 1..(i - 1) /\ i - 1 > n
      BY <1>2, <1>3, <3>1
    <3>3. i - 1 \in DOMAIN tokens
      BY <2>2, <3>2 DEF StartupInv, WalkInv, Extent
    <3>4. i - 1 <= n
      BY <1>1, <1>2, <3>3, TokensFew
    <3>5. QED
      BY <1>2, <1>3, <3>2, <3>4
  <2>3. QED
    BY <2>1, <2>2
<1>5. PICK k : k = n + 1 - i
  OBVIOUS
<1>6. k \in Nat /\ Left = k * w /\ k * w \in Nat
  BY <1>1, <1>2, <1>3, <1>4, <1>5 DEF Left
<1>7. ASSUME js' = js, i' = i PROVE Left' = Left
  BY <1>7 DEF Left, Weight
<1>8. ASSUME i <= Len(js), js' = js, i' = i + 1 PROVE Left' = Left - Weight /\ Left' \in Nat
  <2>1. Left' = (n + 1 - (i + 1)) * w
    BY <1>1, <1>8 DEF Left, Weight
  <2>2. n + 1 - (i + 1) = k - 1 /\ k - 1 \in Nat
    BY <1>1, <1>2, <1>3, <1>5, <1>8
  <2>3. (k - 1) * w = k * w - w /\ (k - 1) * w \in Nat
    BY <1>3, <2>2, <1>6
  <2>4. QED
    BY <1>1, <1>6, <2>1, <2>2, <2>3
<1>9. QED
  BY <1>1, <1>3, <1>6, <1>7, <1>8

\* A sequence is one of what it holds.
LEMMA OwnRange ==
    ASSUME NEW S, NEW s \in Seq(S)
    PROVE  s \in Seq(ToSet(s))
<1>1. ToSet(s) = Range(s)
  BY DEF ToSet, Range
<1>2. QED
  BY <1>1, SeqOfRange

\* main begins.
LEMMA OutputsInit == Init => OutputsInv
BY DEF Init, ParserInit, OutputsInv

\* The size of an array is that of the outputs read, and they get fewer.
LEMMA OutputsStep ==
    ASSUME StartupInv, OutputsInv, [Next]_vars
    PROVE  OutputsInv'
<1>1. js' = js
  BY FileStays
<1>2. CASE pc' \notin {"new", "add_output"}
  BY <1>2 DEF OutputsInv
<1>3. CASE PrintOutput
  <2>1. /\ pc = "tokens" /\ j > 0 /\ i \in DOMAIN tokens
        /\ temp' = [temp EXCEPT !.outputs = SubSeq(js, Token.start + 1, Token.start + Token.size)]
    BY <1>3 DEF PrintOutput, AtToken
  <2>2. PICK a, z : a = tokens[i].start /\ z = tokens[i].size
    OBVIOUS
  <2>3. ParserInv /\ ParserTypes /\ i \in DOMAIN tokens
    BY <2>1 DEF StartupInv, ParserInv
  <2>4. a \in Nat /\ z \in Nat
    BY <2>2, <2>3, TokensAre
  <2>5. z <= Len(js) /\ Len(js) \in Nat
    <3>1. PICK n : n = Len(tokens)
      OBVIOUS
    <3>2. n \in Nat /\ DOMAIN tokens = 1..n /\ n <= Len(js) /\ Len(js) \in Nat
      BY <2>3, <3>1, TokensFew
    <3>3. z = Cardinality(Children(i)) /\ Children(i) \in SUBSET (1..n)
      BY <2>2, <2>3, <3>2, ChildrenAre DEF ParserInv, Counts
    <3>4. IsFiniteSet(1..n) /\ Cardinality(1..n) = n
      BY <3>2, FS_Interval
    <3>5. z <= n
      BY <3>3, <3>4, FS_Subset
    <3>6. QED
      BY <2>4, <3>2, <3>5
  <2>6. PICK o : o = SubSeq(js, a + 1, a + z)
    OBVIOUS
  <2>7. temp'.outputs = o
    <3>1. temp = [url |-> temp.url, outputs |-> temp.outputs]
      BY DEF StartupInv, WalkTypes
    <3>2. temp' = [temp EXCEPT !.outputs = o]
      BY <2>1, <2>2, <2>6 DEF Token
    <3>3. QED
      BY <3>1, <3>2
  <2>8. Len(o) = z /\ \E S : o \in Seq(S)
    <3>1. PICK S : S = {js[l] : l \in (a + 1)..(a + z)}
      OBVIOUS
    <3>2. \A l \in (a + 1)..(a + z) : js[l] \in S
      BY <3>1
    <3>3. /\ o \in Seq(S)
          /\ Len(o) = IF a + 1 <= a + z THEN a + z - (a + 1) + 1 ELSE 0
      BY <2>4, <2>6, <3>2, SubSeqProperties
    <3>4. QED
      BY <2>4, <3>3
  <2>9. o \in Seq(ToSet(o))
    BY <2>8, OwnRange
  <2>10. QED
    BY <1>1, <2>5, <2>7, <2>8, <2>9 DEF OutputsInv
<1>4. CASE AddOutput
  <2>1. /\ temp.outputs \in Seq(ToSet(temp.outputs)) /\ Len(temp.outputs) <= Len(js)
        /\ temp.outputs # <<>> /\ temp' = [temp EXCEPT !.outputs = Tail(@)]
    BY <1>4 DEF AddOutput, OutputsInv
  <2>2. temp'.outputs = Tail(temp.outputs)
    <3>1. temp = [url |-> temp.url, outputs |-> temp.outputs]
      BY DEF StartupInv, WalkTypes
    <3>2. QED
      BY <2>1, <3>1
  <2>3. /\ Tail(temp.outputs) \in Seq(ToSet(temp.outputs))
        /\ Len(Tail(temp.outputs)) = Len(temp.outputs) - 1
    BY <2>1, HeadTailProperties
  <2>4. temp'.outputs \in Seq(ToSet(temp'.outputs))
    BY <2>2, <2>3, OwnRange
  <2>5. Len(temp'.outputs) <= Len(js)
    <3>1. Len(temp.outputs) \in Nat /\ Len(js) \in Nat
      BY <2>1, LenProperties, TokensFew DEF StartupInv
    <3>2. QED
      BY <2>1, <2>2, <2>3, <3>1
  <2>6. QED
    BY <1>1, <2>4, <2>5 DEF OutputsInv
<1>5. CASE pc' \in {"new", "add_output"} /\ ~PrintOutput /\ ~AddOutput
  <2>1. pc \in {"new", "add_output"} /\ temp' = temp
    BY <1>5 DEF Next, vars, walk, Parse, Grow, Open, Leaf, Close, Invalid, Parsed, Parsing,
                Tokens, Unfilled, NoObject, FirstObject, NoKey, Key, Skip, PrintName,
                PrintUrl, AllTokens, AtToken, Make, NewChannel, ChannelStart, ChannelAdd, Abort
  <2>2. QED
    BY <1>1, <2>1 DEF OutputsInv
<1>6. QED
  BY <1>2, <1>3, <1>4, <1>5

\* It is a number.
LEMMA RemainingIs ==
    ASSUME StartupInv, OutputsInv
    PROVE  /\ Remaining \in Nat
           /\ Len(js) + 1 - pos \in Nat
           /\ pc \in {"new", "add_output"} => Len(temp.outputs) \in Nat
           /\ pc \in Walking => Remaining > 0
           /\ pc \in Ends => Remaining = 0
<1>1. pos \in 1..(Len(js) + 1) /\ Len(js) \in Nat /\ pc \in Ends \cup Walking \cup {"parse"}
  BY TokensFew DEF StartupInv, ParserInv, ParserTypes, WalkTypes
<1>2. Len(js) + 1 - pos \in Nat
  BY <1>1
<1>3. pc \in {"new", "add_output"} => Len(temp.outputs) \in Nat
  BY LenProperties DEF OutputsInv
<1>4. pc \in Walking \cup {"parse"} => Left \in Nat
  BY LeftIs
<1>5. ASSUME pc = "parse" PROVE Remaining \in Nat /\ pc \notin Walking \cup Ends
  <2>1. pc \notin Walking \cup Ends
    BY <1>5 DEF Walking, Ends
  <2>2. PICK h \in {0, 1} : h = IF Len(tokens) < room THEN 0 ELSE 1
    OBVIOUS
  <2>3. Remaining = Left + 2 + 2 * (Len(js) + 1 - pos) + h
    BY <1>5, <2>2 DEF Remaining
  <2>4. QED
    BY <1>2, <1>4, <1>5, <2>1, <2>2, <2>3
<1>6. ASSUME pc \in Walking PROVE Remaining \in Nat /\ Remaining > 0 /\ pc \notin Ends
  <2>1. pc \notin Ends
    BY <1>6 DEF Walking, Ends
  <2>2. CASE pc \in {"tokens", "add"}
    <3>1. Left \in Nat
      BY <1>4, <1>6
    <3>2. Remaining \in {Left + 1, Left + 2}
      BY <2>2 DEF Remaining
    <3>3. QED
      BY <2>1, <3>1, <3>2
  <2>3. CASE pc \in {"new", "add_output"}
    <3>1. PICK o : o = Len(temp.outputs)
      OBVIOUS
    <3>2. o \in Nat /\ Left \in Nat
      BY <1>3, <1>4, <1>6, <2>3, <3>1
    <3>3. Remaining \in {Left + o + 4, Left + o + 3}
      BY <2>3, <3>1 DEF Remaining
    <3>4. QED
      BY <2>1, <3>2, <3>3
  <2>4. QED
    BY <1>6, <2>1, <2>2, <2>3 DEF Walking
<1>7. ASSUME pc \in Ends PROVE Remaining = 0
  BY <1>7 DEF Remaining, Ends
<1>8. QED
  BY <1>1, <1>2, <1>3, <1>5, <1>6, <1>7

\* A call of the parser goes on in the text, or makes room for a token.
LEMMA ParseShrinks ==
    ASSUME StartupInv, OutputsInv, Parse, UNCHANGED <<walk, channel, channels>>,
           StartupInv', OutputsInv'
    PROVE  Remaining' < Remaining
<1>1. /\ pc = "parse" /\ js' = js /\ i' = i /\ Left \in Nat /\ Left' = Left
  <2>1. pc = "parse" /\ js' = js /\ i' = i
    BY DEF Parse, Grow, Open, Leaf, Close, Invalid, Parsed, Parsing, parser, walk
  <2>2. QED
    BY <2>1, LeftIs
<1>2. PICK l, n, r : l = Len(js) + 1 - pos /\ n = Len(tokens) /\ r = room
  OBVIOUS
<1>3. /\ l \in Nat /\ n \in Nat /\ r \in Nat /\ n <= r /\ pos \in Nat /\ Len(js) \in Nat
      /\ Remaining \in Nat
  BY <1>2, RemainingIs, TokensFew DEF StartupInv, ParserInv, ParserTypes
<1>4. Remaining = Left + 2 + 2 * l + (IF n < r THEN 0 ELSE 1)
  BY <1>1, <1>2 DEF Remaining
<1>5. CASE Grow
  <2>1. pc' = pc /\ pos' = pos /\ tokens' = tokens /\ room' = r * 2 + 1 /\ n >= r
    BY <1>2, <1>5 DEF Grow
  <2>2. Remaining' = Left + 2 + 2 * l + (IF n < r * 2 + 1 THEN 0 ELSE 1)
    BY <1>1, <1>2, <2>1 DEF Remaining
  <2>3. n < r * 2 + 1 /\ ~(n < r)
    BY <1>3, <2>1
  <2>4. Remaining = Left + 2 + 2 * l + 1 /\ Remaining' = Left + 2 + 2 * l
    BY <1>1, <1>3, <1>4, <2>2, <2>3
  <2>5. QED
    BY <1>1, <1>3, <2>4
<1>6. CASE Open \/ Leaf \/ Close
  <2>1. pc' = pc /\ pos' = pos + 1 /\ pos <= Len(js)
    BY <1>6 DEF Open, Leaf, Close, Parsing
  <2>2. PICK h \in {0, 1} : h = IF Len(tokens') < room' THEN 0 ELSE 1
    OBVIOUS
  <2>3. Remaining' = Left + 2 + 2 * (Len(js) + 1 - (pos + 1)) + h
    BY <1>1, <2>1, <2>2 DEF Remaining
  <2>4. Len(js) + 1 - (pos + 1) = l - 1
    BY <1>2, <1>3
  <2>5. Remaining' = Left + 2 + 2 * (l - 1) + h /\ Remaining >= Left + 2 + 2 * l
    BY <1>1, <1>3, <1>4, <2>3, <2>4
  <2>6. QED
    BY <1>1, <1>3, <2>2, <2>5
<1>7. CASE Invalid \/ Parsed
  <2>1. pc' \in {"invalid", "tokens"}
    BY <1>7 DEF Invalid, Parsed
  <2>2. Remaining' \in {0, Left + 1}
    BY <1>1, <2>1 DEF Remaining
  <2>3. Remaining >= Left + 2
    BY <1>1, <1>3, <1>4
  <2>4. QED
    BY <1>1, <1>3, <2>2, <2>3
<1>8. QED
  BY <1>5, <1>6, <1>7 DEF Parse

\* The walk passes a token, whose outputs weigh less than it does.
LEMMA TokensShrink ==
    ASSUME StartupInv, OutputsInv, Tokens, StartupInv', OutputsInv'
    PROVE  Remaining' < Remaining
<1>1. pc = "tokens" /\ js' = js
  BY DEF Tokens, Unfilled, NoObject, FirstObject, NoKey, Key, Skip, PrintName, PrintUrl,
         PrintOutput, AllTokens, AtToken, parser
<1>2. Remaining = Left + 1 /\ Left \in Nat /\ Weight \in Nat /\ Weight = Len(js) + 5
      /\ Len(js) \in Nat
  BY <1>1, LeftIs DEF Remaining, Walking
<1>3. CASE Unfilled \/ NoObject \/ AllTokens
  <2>1. pc' \in Ends
    BY <1>3 DEF Unfilled, NoObject, AllTokens, Ends
  <2>2. Remaining' = 0
    BY <2>1 DEF Remaining, Ends
  <2>3. QED
    BY <1>2, <2>2
<1>4. CASE ~(Unfilled \/ NoObject \/ AllTokens)
  <2>1. j > 0 /\ i \in DOMAIN tokens /\ i' = i + 1 /\ pc' \in {"tokens", "new"}
    BY <1>1, <1>4 DEF Tokens, FirstObject, NoKey, Key, Skip, PrintName, PrintUrl, PrintOutput,
                      AtToken, More
  <2>2. i <= Len(js)
    <3>1. DOMAIN tokens = 1..Len(tokens) /\ Len(tokens) \in Nat /\ Len(tokens) <= Len(js)
      BY TokensFew DEF StartupInv
    <3>2. QED
      BY <1>2, <2>1, <3>1
  <2>3. Left' = Left - Weight /\ Left' \in Nat
    BY <1>1, <2>1, <2>2, LeftIs DEF Walking
  <2>4. CASE pc' = "tokens"
    <3>1. Remaining' = Left' + 1
      BY <2>4 DEF Remaining
    <3>2. QED
      BY <1>2, <2>3, <3>1
  <2>5. CASE pc' = "new"
    <3>1. Remaining' = Left' + Len(temp'.outputs) + 4
      BY <2>5 DEF Remaining
    <3>2. Len(temp'.outputs) <= Len(js) /\ Len(temp'.outputs) \in Nat
      BY <1>1, <2>5, LenProperties DEF OutputsInv
    <3>3. QED
      BY <1>2, <2>3, <3>1, <3>2
  <2>6. QED
    BY <2>1, <2>4, <2>5
<1>5. QED
  BY <1>3, <1>4

\* A channel is made in one step more than its outputs, and those around them.
LEMMA MakeShrinks ==
    ASSUME StartupInv, OutputsInv, Make
    PROVE  Remaining' < Remaining
<1>1. /\ pc \in Walking /\ js' = js /\ i' = i /\ Left \in Nat /\ Left' = Left
      /\ Remaining \in Nat /\ Remaining > 0
      /\ pc \in {"new", "add_output"} => Len(temp.outputs) \in Nat
  <2>1. pc \in Walking /\ js' = js /\ i' = i
    BY DEF Make, NewChannel, AddOutput, ChannelStart, ChannelAdd, Abort, parser, walk, Walking
  <2>2. QED
    BY <2>1, LeftIs, RemainingIs
<1>2. PICK o : o = Len(temp.outputs)
  OBVIOUS
<1>3. ASSUME Abort PROVE Remaining' < Remaining
  <2>1. Remaining' = 0
    BY <1>3 DEF Abort, Remaining
  <2>2. QED
    BY <1>1, <2>1
<1>4. CASE NewChannel /\ ~Abort
  <2>1. pc = "new" /\ pc' = "add_output" /\ temp' = temp
    BY <1>4 DEF NewChannel, walk
  <2>2. Remaining = Left + o + 4 /\ Remaining' = Left + o + 3 /\ o \in Nat
    BY <1>1, <1>2, <2>1 DEF Remaining
  <2>3. QED
    BY <1>1, <2>2
<1>5. CASE AddOutput
  <2>1. /\ pc = "add_output" /\ pc' = pc /\ temp.outputs # <<>>
        /\ temp' = [temp EXCEPT !.outputs = Tail(@)]
    BY <1>5 DEF AddOutput
  <2>2. temp'.outputs = Tail(temp.outputs)
    <3>1. temp = [url |-> temp.url, outputs |-> temp.outputs]
      BY DEF StartupInv, WalkTypes
    <3>2. QED
      BY <2>1, <3>1
  <2>3. Len(temp'.outputs) = o - 1
    <3>1. temp.outputs \in Seq(ToSet(temp.outputs))
      BY <2>1 DEF OutputsInv
    <3>2. QED
      BY <1>2, <2>1, <2>2, <3>1, HeadTailProperties
  <2>4. Remaining = Left + o + 3 /\ Remaining' = Left + (o - 1) + 3 /\ o \in Nat
    BY <1>1, <1>2, <2>1, <2>3 DEF Remaining
  <2>5. QED
    BY <1>1, <2>4
<1>6. CASE ChannelStart /\ ~Abort
  <2>1. pc = "add_output" /\ pc' = "add"
    BY <1>6 DEF ChannelStart
  <2>2. Remaining = Left + o + 3 /\ Remaining' = Left + 2 /\ o \in Nat
    BY <1>1, <1>2, <2>1 DEF Remaining
  <2>3. QED
    BY <1>1, <2>2
<1>7. CASE ChannelAdd
  <2>1. pc = "add" /\ pc' = "tokens"
    BY <1>7 DEF ChannelAdd
  <2>2. Remaining = Left + 2 /\ Remaining' = Left + 1
    BY <1>1, <2>1 DEF Remaining
  <2>3. QED
    BY <1>1, <2>2
<1>8. QED
  BY <1>3, <1>4, <1>5, <1>6, <1>7 DEF Make

\* main: whatever the text, the start makes no more steps than Remaining says
\* at its beginning, each of which lessens it: neither the repeated calls of the
\* parser, nor the loop over the tokens, nor those over the outputs go on for ever.
THEOREM StartupShrinks == Spec => [](Remaining \in Nat) /\ [][Remaining' < Remaining]_vars
<1>1. StartupInv /\ OutputsInv /\ [Next]_vars => OutputsInv'
  BY OutputsStep
<1>2. StartupInv /\ OutputsInv => Remaining \in Nat
  BY RemainingIs
<1>3. StartupInv /\ OutputsInv /\ StartupInv' /\ OutputsInv' /\ [Next]_vars
        => [Remaining' < Remaining]_vars
  BY ParseShrinks, TokensShrink, MakeShrinks DEF Next
<1>4. QED
  BY <1>1, <1>2, <1>3, OutputsInit, StartupInvHolds, PTL DEF Spec
=============================================================================
