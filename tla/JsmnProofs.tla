----------------------------- MODULE JsmnProofs -----------------------------
(***************************************************************************)
(* Proofs about module Jsmn, for any texts, any memory behind them and any *)
(* number of tokens that there is room for at first.                       *)
(***************************************************************************)
EXTENDS Jsmn, FiniteSetTheorems, SequenceTheorems, WellFoundedInduction, TLAPS

----------------------------------------------------------------------------
(* Numbers.                                                                *)

\* A set of numbers that is not empty has a least one.
LEMMA Least ==
    ASSUME NEW S, S \subseteq Nat, S # {}
    PROVE  \E x \in S : \A y \in S : x <= y
<1>. DEFINE Less == {ss \in Nat \X Nat : ss[1] < ss[2]}
<1>1. IsWellFoundedOn(Less, Nat)
  BY NatLessThanWellFounded DEF OpToRel
<1>2. PICK x \in S : \A y \in S : ~(<<y, x>> \in Less)
  <2>. HIDE DEF Less
  <2>1. \E x \in S : \A y \in S : ~(<<y, x>> \in Less)
    BY <1>1, WFMin
  <2>2. QED
    BY <2>1
<1>3. \A y \in S : ~(y < x)
  BY <1>2
<1>4. QED
  BY <1>3

\* The Min of a set of numbers is its least element.
LEMMA MinIs ==
    ASSUME NEW S, S \subseteq Nat, S # {}
    PROVE  Min(S) \in S /\ \A y \in S : Min(S) <= y
<1>1. \E x \in S : \A y \in S : x <= y
  BY Least
<1>2. QED
  BY <1>1 DEF Min

\* Whatever is the least element of a set is its Min.
LEMMA IsMin ==
    ASSUME NEW S, S \subseteq Nat, NEW x \in S, \A y \in S : x <= y
    PROVE  Min(S) = x
<1>1. Min(S) \in S /\ \A y \in S : Min(S) <= y
  BY MinIs
<1>2. Min(S) <= x /\ x <= Min(S) /\ x \in Nat /\ Min(S) \in Nat
  BY <1>1
<1>3. QED
  BY <1>2

\* The Max of a set of numbers with a bound is its greatest element.
LEMMA MaxIs ==
    ASSUME NEW n \in Nat, NEW S, S \subseteq 0..n, S # {}
    PROVE  Max(S) \in S /\ \A y \in S : Max(S) >= y
<1>. DEFINE B == {m \in Nat : \A y \in S : y <= m}
<1>1. n \in B
  OBVIOUS
<1>2. PICK b \in B : \A m \in B : b <= m
  <2>1. B # {} /\ B \subseteq Nat
    BY <1>1
  <2>. HIDE DEF B
  <2>2. \E b \in B : \A m \in B : b <= m
    BY <2>1, Least
  <2>3. QED
    BY <2>2
<1>3. b \in S
  <2>1. SUFFICES ASSUME b \notin S PROVE FALSE
    OBVIOUS
  <2>2. \A y \in S : y < b /\ y \in Nat
    BY <1>2, <2>1
  <2>3. b - 1 \in B
    <3>1. PICK z \in S : TRUE
      OBVIOUS
    <3>2. b \in Nat /\ b > 0 /\ b - 1 \in Nat
      BY <2>2, <3>1
    <3>3. \A y \in S : y <= b - 1
      BY <2>2, <3>2
    <3>4. QED
      BY <3>2, <3>3
  <2>4. QED
    BY <1>2, <2>3
<1>4. \E x \in S : \A y \in S : x >= y
  BY <1>2, <1>3
<1>5. QED
  BY <1>4 DEF Max

\* Whatever is the greatest element of a set is its Max.
LEMMA IsMax ==
    ASSUME NEW S, S \subseteq Nat, NEW x \in S, \A y \in S : x >= y
    PROVE  Max(S) = x
<1>1. S \subseteq 0..x /\ x \in Nat
  OBVIOUS
<1>2. Max(S) \in S /\ \A y \in S : Max(S) >= y
  BY <1>1, MaxIs
<1>3. Max(S) <= x /\ x <= Max(S) /\ x \in Nat /\ Max(S) \in Nat
  BY <1>2
<1>4. QED
  BY <1>3

\* A finite set with one more element.
LEMMA OneMore ==
    ASSUME NEW S, IsFiniteSet(S), NEW x, x \notin S, NEW T, T = S \cup {x}
    PROVE  IsFiniteSet(T) /\ Cardinality(T) = Cardinality(S) + 1
BY FS_AddElement

\* The numbers of S below k.
Below(S, k) == {l \in S : l < k}

\* Membership, without the set.
LEMMA BelowIs ==
    ASSUME NEW S, NEW k, NEW l
    PROVE  l \in Below(S, k) <=> l \in S /\ l < k
BY Zenon DEF Below

\* They are finitely many, and one more if k belongs to them.
LEMMA BelowFacts ==
    ASSUME NEW S, S \subseteq Nat, NEW k \in Nat
    PROVE  /\ IsFiniteSet(Below(S, k)) /\ Cardinality(Below(S, k)) \in Nat
           /\ Cardinality(Below(S, k + 1))
                = Cardinality(Below(S, k)) + (IF k \in S THEN 1 ELSE 0)
<1>1. ASSUME NEW l \in Below(S, k) PROVE l \in Nat /\ l <= k
  <2>1. l \in S /\ l < k
    BY BelowIs
  <2>2. QED
    BY <2>1
<1>2. IsFiniteSet(Below(S, k)) /\ Cardinality(Below(S, k)) \in Nat
  <2>1. Below(S, k) \in SUBSET Nat
    BY <1>1
  <2>2. IsFiniteSet(Below(S, k))
    BY <1>1, <2>1, FS_BoundedSetOfNaturals
  <2>3. QED
    BY <2>2, FS_CardinalityType
<1>3. ASSUME NEW l PROVE l \in Below(S, k + 1) <=> l \in Below(S, k) \/ (l = k /\ k \in S)
  <2>1. CASE l \in S
    <3>1. l \in Nat
      BY <2>1
    <3>2. l < k + 1 <=> l < k \/ l = k
      BY <3>1
    <3>3. QED
      BY <2>1, <3>2, BelowIs, Zenon
  <2>2. CASE l \notin S
    BY <2>2, BelowIs, Zenon
  <2>3. QED
    BY <2>1, <2>2
<1>4. CASE k \in S
  <2>1. Below(S, k + 1) = Below(S, k) \cup {k}
    BY <1>3, <1>4
  <2>2. k \notin Below(S, k)
    BY BelowIs
  <2>3. QED
    BY <1>2, <1>4, <2>1, <2>2, OneMore
<1>5. CASE k \notin S
  <2>1. Below(S, k + 1) = Below(S, k)
    BY <1>3, <1>5
  <2>2. QED
    BY <1>2, <1>5, <2>1
<1>6. QED
  BY <1>4, <1>5

\* Nothing is below a bound of S.
LEMMA BelowNone ==
    ASSUME NEW S, NEW k, \A l \in S : ~(l < k)
    PROVE  Cardinality(Below(S, k)) = 0
<1>1. Below(S, k) = {}
  BY BelowIs, Zenon
<1>2. QED
  BY <1>1, FS_EmptySet

\* An element of S has fewer elements below it than a greater number.
LEMMA BelowLess ==
    ASSUME NEW S, S \subseteq Nat, NEW a \in S, NEW b \in Nat, a < b
    PROVE  Cardinality(Below(S, a)) < Cardinality(Below(S, b))
<1>1. a \in Nat /\ a + 1 \in Nat
  OBVIOUS
<1>2. /\ Cardinality(Below(S, a)) \in Nat /\ Cardinality(Below(S, b)) \in Nat
      /\ IsFiniteSet(Below(S, b))
      /\ Cardinality(Below(S, a + 1)) = Cardinality(Below(S, a)) + 1
  BY <1>1, BelowFacts
<1>3. ASSUME NEW l \in Below(S, a + 1) PROVE l \in Below(S, b)
  <2>1. l \in S /\ l < a + 1
    BY BelowIs
  <2>2. l < b
    BY <1>1, <2>1
  <2>3. QED
    BY <2>1, <2>2, BelowIs
<1>4. Below(S, a + 1) \in SUBSET Below(S, b)
  BY <1>3
<1>5. Cardinality(Below(S, a + 1)) <= Cardinality(Below(S, b))
  BY <1>2, <1>4, FS_Subset
<1>6. QED
  BY <1>2, <1>5

\* Each element of S has its own number of elements below it.
LEMMA RankUnique ==
    ASSUME NEW S, S \subseteq Nat, NEW a \in S, NEW b \in S,
           Cardinality(Below(S, a)) = Cardinality(Below(S, b))
    PROVE  a = b
<1>1. a \in Nat /\ b \in Nat
  OBVIOUS
<1>2. /\ Cardinality(Below(S, a)) \in Nat
      /\ a < b => Cardinality(Below(S, a)) < Cardinality(Below(S, b))
      /\ b < a => Cardinality(Below(S, b)) < Cardinality(Below(S, a))
  BY <1>1, BelowFacts, BelowLess
<1>3. ~(a < b) /\ ~(b < a)
  BY <1>2
<1>4. QED
  BY <1>1, <1>3

----------------------------------------------------------------------------
(* The invariant of the parser.                                            *)

\* The places of the lexemes that get a token.
Words == DOMAIN js \ Places(Closers)

IsOpener(x) == js[tokens[x].start] \in Openers

TokenTypes == {"OBJECT", "ARRAY", "PRIMITIVE", "STRING"}

TokenType == [type : TokenTypes, start : Nat, end : Int, size : Nat]

\* toksuper is the innermost token that is open.
ParserTypes ==
    /\ js \in Seq(ToSet(js)) /\ pos \in 1..(Len(js) + 1)
    /\ tokens \in Seq(TokenType)
    /\ room \in Nat /\ Len(tokens) <= room
    /\ toksuper = Max(Opened \cup {0})

\* Each word before pos has its token, in order.
Placed ==
    /\ Len(tokens) = Cardinality(Below(Words, pos))
    /\ \A x \in DOMAIN tokens :
          /\ tokens[x].start \in Words /\ tokens[x].start < pos
          /\ tokens[x].type = Type(js[tokens[x].start])
          /\ Cardinality(Below(Words, tokens[x].start)) = x - 1
    /\ \A x, y \in DOMAIN tokens : x < y => tokens[x].start < tokens[y].start
    /\ pos > 1 => Len(tokens) > 0

\* A token ends behind its start, and before pos.
Ended ==
    \A x \in DOMAIN tokens :
       /\ x \in Opened => IsOpener(x)
       /\ x \notin Opened => tokens[x].start < tokens[x].end /\ tokens[x].end <= pos
       /\ ~IsOpener(x) => tokens[x].end = tokens[x].start + 1 /\ tokens[x].size = 0
       /\ IsOpener(x) /\ x \notin Opened =>
             tokens[x].start < tokens[x].end - 1 /\ js[tokens[x].end - 1] \in Closers

\* The token y begins inside of x.
Inside(y, x) == x < y /\ (x \in Opened \/ tokens[y].start < tokens[x].end)

\* ... and ends inside of it.
Nested ==
    \A x, y \in DOMAIN tokens :
       Inside(y, x) /\ x \notin Opened => y \notin Opened /\ tokens[y].end <= tokens[x].end

\* The tokens directly inside of x; size is their number.
Children(x) ==
    {y \in DOMAIN tokens : Inside(y, x) /\ \A z \in DOMAIN tokens : x < z => ~Inside(y, z)}

Counts == \A x \in DOMAIN tokens : tokens[x].size = Cardinality(Children(x))

ParserInv == ParserTypes /\ Placed /\ Ended /\ Nested /\ Counts

----------------------------------------------------------------------------
(* What a step of the parser does to the tokens.                           *)

\* A token is added, open or with its end.
Pushes(e) ==
    /\ pos \in DOMAIN js /\ js[pos] \notin Closers /\ js[pos] # "bad"
    /\ e = IF js[pos] \in Openers THEN -1 ELSE pos + 1
    /\ js' = js /\ pos' = pos + 1
    /\ Len(tokens') = Len(tokens) + 1
    /\ \A x \in 1..Len(tokens) :
          /\ tokens'[x].type = tokens[x].type
          /\ tokens'[x].start = tokens[x].start
          /\ tokens'[x].end = tokens[x].end
          /\ tokens'[x].size = tokens[x].size + (IF x = toksuper THEN 1 ELSE 0)
    /\ tokens'[Len(tokens) + 1].type = Type(js[pos])
    /\ tokens'[Len(tokens) + 1].start = pos
    /\ tokens'[Len(tokens) + 1].end = e
    /\ tokens'[Len(tokens) + 1].size = 0
    /\ Opened' = IF e = -1 THEN Opened \cup {Len(tokens) + 1} ELSE Opened

\* The innermost token that is open gets its end.
Closes(i) ==
    /\ pos \in DOMAIN js /\ js[pos] \in Closers
    /\ i \in Opened /\ tokens[i].type = Type(js[pos]) /\ \A x \in Opened : x <= i
    /\ js' = js /\ pos' = pos + 1
    /\ Len(tokens') = Len(tokens)
    /\ \A x \in 1..Len(tokens) :
          /\ tokens'[x].type = tokens[x].type
          /\ tokens'[x].start = tokens[x].start
          /\ tokens'[x].end = IF x = i THEN pos + 1 ELSE tokens[x].end
          /\ tokens'[x].size = tokens[x].size
    /\ Opened' = Opened \ {i}

\* The tokens are those at the numbers from 1 on, with fields of their types.
LEMMA TokensAre ==
    ASSUME ParserTypes
    PROVE  /\ Len(tokens) \in Nat /\ DOMAIN tokens = 1..Len(tokens)
           /\ \A x \in 1..Len(tokens) :
                 /\ tokens[x] \in TokenType
                 /\ tokens[x].type \in TokenTypes /\ tokens[x].start \in Nat
                 /\ tokens[x].end \in Int /\ tokens[x].size \in Nat
           /\ Opened \subseteq 1..Len(tokens)
           /\ \A x : x \in Opened <=> x \in 1..Len(tokens) /\ tokens[x].end = -1
<1>1. tokens \in Seq(TokenType)
  BY DEF ParserTypes
<1>2. Len(tokens) \in Nat /\ DOMAIN tokens = 1..Len(tokens)
  BY <1>1, LenProperties
<1>3. \A x \in 1..Len(tokens) : tokens[x] \in TokenType
  BY <1>1, ElementOfSeq
<1>4. ASSUME NEW x \in 1..Len(tokens)
      PROVE  /\ tokens[x].type \in TokenTypes /\ tokens[x].start \in Nat
             /\ tokens[x].end \in Int /\ tokens[x].size \in Nat
  BY <1>3 DEF TokenType
<1>5. \A x : x \in Opened <=> x \in 1..Len(tokens) /\ tokens[x].end = -1
  BY <1>2 DEF Opened
<1>6. QED
  BY <1>2, <1>3, <1>4, <1>5

\* So are the places of the text.
LEMMA TextIs ==
    ASSUME ParserTypes
    PROVE  /\ Len(js) \in Nat /\ DOMAIN js = 1..Len(js) /\ pos \in Nat
           /\ Words \subseteq Nat /\ \A S : Places(S) \subseteq Nat
<1>1. Len(js) \in Nat /\ DOMAIN js = 1..Len(js)
  BY LenProperties DEF ParserTypes
<1>2. \A S : Places(S) \subseteq DOMAIN js
  BY DEF Places
<1>3. QED
  BY <1>1, <1>2 DEF ParserTypes, Words

\* toksuper is 0 if no token is open.
LEMMA SuperIs ==
    ASSUME ParserTypes
    PROVE  /\ toksuper \in 0..Len(tokens)
           /\ Opened = {} => toksuper = 0
           /\ Opened # {} => toksuper \in Opened
           /\ \A x \in Opened : x <= toksuper
<1>1. /\ Len(tokens) \in Nat /\ Opened \subseteq 1..Len(tokens)
      /\ toksuper = Max(Opened \cup {0})
  BY TokensAre DEF ParserTypes
<1>2. Opened \cup {0} \subseteq 0..Len(tokens) /\ Opened \cup {0} # {}
  BY <1>1
<1>3. toksuper \in Opened \cup {0} /\ \A x \in Opened \cup {0} : toksuper >= x
  <2>1. PICK n, S : n = Len(tokens) /\ S = Opened \cup {0}
    OBVIOUS
  <2>2. Max(S) \in S /\ \A x \in S : Max(S) >= x
    BY <1>1, <1>2, <2>1, MaxIs
  <2>3. QED
    BY <1>1, <2>1, <2>2
<1>4. \A x \in Opened : x <= toksuper
  BY <1>1, <1>3
<1>5. Opened # {} => toksuper # 0
  <2>1. SUFFICES ASSUME NEW x \in Opened, toksuper = 0 PROVE FALSE
    OBVIOUS
  <2>2. x \in 1..Len(tokens) /\ x <= 0
    BY <1>1, <1>4, <2>1
  <2>3. QED
    BY <1>1, <2>2
<1>6. toksuper \in 0..Len(tokens)
  BY <1>1, <1>3
<1>7. QED
  BY <1>3, <1>4, <1>5, <1>6

\* One more child of toksuper changes that token's size only.
LEMMA CountedIs ==
    ASSUME ParserTypes
    PROVE  /\ Counted \in Seq(TokenType) /\ Len(Counted) = Len(tokens)
           /\ \A x \in 1..Len(tokens) :
                 /\ Counted[x].type = tokens[x].type
                 /\ Counted[x].start = tokens[x].start
                 /\ Counted[x].end = tokens[x].end
                 /\ Counted[x].size = tokens[x].size + (IF x = toksuper THEN 1 ELSE 0)
<1>1. tokens \in Seq(TokenType)
  BY DEF ParserTypes
<1>2. /\ Len(tokens) \in Nat
      /\ \A x \in 1..Len(tokens) :
            /\ tokens[x] \in TokenType
            /\ tokens[x].type \in TokenTypes /\ tokens[x].start \in Nat
            /\ tokens[x].end \in Int /\ tokens[x].size \in Nat
  BY TokensAre
<1>3. toksuper \in 0..Len(tokens)
  BY SuperIs
<1>4. CASE toksuper = 0
  BY <1>1, <1>2, <1>4 DEF Counted
<1>5. CASE toksuper # 0
  <2>. DEFINE t == [tokens[toksuper] EXCEPT !.size = @ + 1]
  <2>1. toksuper \in 1..Len(tokens)
    BY <1>3, <1>5
  <2>2. /\ t \in TokenType /\ t.type = tokens[toksuper].type
        /\ t.start = tokens[toksuper].start /\ t.end = tokens[toksuper].end
        /\ t.size = tokens[toksuper].size + 1
    BY <1>2, <2>1 DEF TokenType
  <2>3. Counted = [tokens EXCEPT ![toksuper] = t]
    BY <1>5 DEF Counted
  <2>. HIDE DEF t
  <2>4. /\ Counted \in Seq(TokenType) /\ Len(Counted) = Len(tokens)
        /\ \A x \in 1..Len(tokens) : Counted[x] = IF x = toksuper THEN t ELSE tokens[x]
    <3>1. Counted \in Seq(TokenType) /\ Len(Counted) = Len(tokens)
      BY <1>1, <2>1, <2>2, <2>3, ExceptSeq
    <3>2. DOMAIN tokens = 1..Len(tokens)
      BY <1>1, LenProperties
    <3>3. QED
      BY <2>1, <2>3, <3>1, <3>2
  <2>5. QED
    BY <1>2, <2>2, <2>4
<1>6. QED
  BY <1>4, <1>5

\* A token more.
LEMMA PushFields ==
    ASSUME ParserTypes, pos \in DOMAIN js, js[pos] \notin Closers, js[pos] # "bad",
           NEW e, e = IF js[pos] \in Openers THEN -1 ELSE pos + 1,
           tokens' = Append(Counted, [type |-> Type(js[pos]), start |-> pos,
                                      end |-> e, size |-> 0]),
           js' = js, pos' = pos + 1
    PROVE  Pushes(e) /\ tokens' \in Seq(TokenType)
<1>. DEFINE t == [type |-> Type(js[pos]), start |-> pos, end |-> e, size |-> 0]
<1>1. Counted \in Seq(TokenType) /\ Len(Counted) = Len(tokens)
  BY CountedIs
<1>2. Len(tokens) \in Nat /\ pos \in Nat
  BY TokensAre, TextIs
<1>3. t \in TokenType
  <2>1. Type(js[pos]) \in TokenTypes
    BY Zenon DEF TokenTypes, Type
  <2>2. e \in Int
    BY <1>2
  <2>3. QED
    BY <1>2, <2>1, <2>2 DEF TokenType
<1>4. t.type = Type(js[pos]) /\ t.start = pos /\ t.end = e /\ t.size = 0
  OBVIOUS
<1>5. tokens' = Append(Counted, t)
  OBVIOUS
<1>. HIDE DEF t
<1>6. /\ tokens' \in Seq(TokenType) /\ Len(tokens') = Len(tokens) + 1
      /\ \A x \in 1..Len(tokens) : tokens'[x] = Counted[x]
      /\ tokens'[Len(tokens) + 1] = t
  BY <1>1, <1>3, <1>5, AppendProperties
<1>7. DOMAIN tokens' = 1..(Len(tokens) + 1)
  BY <1>6, LenProperties
<1>8. Opened' = IF e = -1 THEN Opened \cup {Len(tokens) + 1} ELSE Opened
  <2>1. \A x : x \in Opened <=> x \in 1..Len(tokens) /\ tokens[x].end = -1
    BY TokensAre
  <2>2. \A x : x \in Opened' <=> x \in DOMAIN tokens' /\ tokens'[x].end = -1
    BY DEF Opened
  <2>3. \A x \in 1..Len(tokens) : tokens'[x].end = tokens[x].end
    BY <1>6, CountedIs
  <2>4. tokens'[Len(tokens) + 1].end = e
    BY <1>4, <1>6
  <2>5. \A x : x \in DOMAIN tokens' <=> x \in 1..Len(tokens) \/ x = Len(tokens) + 1
    BY <1>2, <1>7
  <2>6. QED
    BY <2>1, <2>2, <2>3, <2>4, <2>5
<1>9. QED
  BY <1>4, <1>6, <1>8, CountedIs DEF Pushes

\* A token gets its end.
WithEnd(t, k, e) == [t EXCEPT ![k].end = e]

\* Only the end of that token changes.
LEMMA EndSet ==
    ASSUME NEW t \in Seq(TokenType), NEW k \in 1..Len(t), NEW e \in Int,
           NEW u, u = WithEnd(t, k, e)
    PROVE  /\ u \in Seq(TokenType) /\ Len(u) = Len(t)
           /\ \A x \in 1..Len(t) :
                 /\ u[x].type = t[x].type /\ u[x].start = t[x].start
                 /\ u[x].end = IF x = k THEN e ELSE t[x].end
                 /\ u[x].size = t[x].size
<1>. DEFINE v == [t[k] EXCEPT !.end = e]
<1>1. t[k] \in TokenType
  BY ElementOfSeq
<1>2. /\ v \in TokenType /\ v.type = t[k].type /\ v.start = t[k].start
      /\ v.end = e /\ v.size = t[k].size
  BY <1>1 DEF TokenType
<1>3. u = [t EXCEPT ![k] = v]
  BY DEF WithEnd
<1>. HIDE DEF v
<1>4. u \in Seq(TokenType) /\ Len(u) = Len(t) /\ \A x \in 1..Len(t) : u[x] = IF x = k THEN v ELSE t[x]
  <2>1. \A x \in 1..Len(t) : [t EXCEPT ![k] = v][x] = IF x = k THEN v ELSE t[x]
    BY <1>2, ExceptSeq
  <2>2. [t EXCEPT ![k] = v] \in Seq(TokenType) /\ Len([t EXCEPT ![k] = v]) = Len(t)
    BY <1>2, ExceptSeq
  <2>3. QED
    BY <1>3, <2>1, <2>2
<1>5. QED
  BY <1>2, <1>4

\* The bracket that closes: the token that is the innermost one gets its end.
LEMMA CloseFields ==
    ASSUME ParserTypes, Close
    PROVE  Closes(Max(Opened)) /\ tokens' \in Seq(TokenType)
<1>1. PICK i : i = Max(Opened)
  OBVIOUS
<1>2. /\ tokens \in Seq(TokenType) /\ Len(tokens) \in Nat /\ Opened \subseteq 1..Len(tokens)
      /\ DOMAIN tokens = 1..Len(tokens)
      /\ \A x \in 1..Len(tokens) : tokens[x] \in TokenType
      /\ \A x : x \in Opened <=> x \in 1..Len(tokens) /\ tokens[x].end = -1
  BY TokensAre DEF ParserTypes
<1>3. i \in Opened /\ \A x \in Opened : x <= i
  <2>1. PICK n, S : n = Len(tokens) /\ S = Opened
    OBVIOUS
  <2>2. S # {} /\ S \subseteq 0..n /\ n \in Nat
    BY <1>2, <2>1 DEF Matches, Close
  <2>3. Max(S) \in S /\ \A x \in S : Max(S) >= x
    BY <2>2, MaxIs
  <2>4. QED
    BY <1>1, <1>2, <2>1, <2>3
<1>4. pos \in Nat /\ i \in 1..Len(tokens)
  BY <1>2, <1>3, TextIs
<1>5. tokens' = WithEnd(tokens, i, pos + 1)
  BY <1>1 DEF Close, WithEnd
<1>6. pos + 1 \in Int
  BY <1>4
<1>7. /\ tokens' \in Seq(TokenType) /\ Len(tokens') = Len(tokens)
      /\ \A x \in 1..Len(tokens) :
            /\ tokens'[x].type = tokens[x].type
            /\ tokens'[x].start = tokens[x].start
            /\ tokens'[x].end = IF x = i THEN pos + 1 ELSE tokens[x].end
            /\ tokens'[x].size = tokens[x].size
  BY <1>2, <1>4, <1>5, <1>6, EndSet
<1>9. DOMAIN tokens' = 1..Len(tokens)
  BY <1>7, LenProperties
<1>10. \A x \in 1..Len(tokens) : tokens'[x].end = IF x = i THEN pos + 1 ELSE tokens[x].end
  BY <1>7
<1>11. Opened' = Opened \ {i}
  <2>1. \A x : x \in Opened' <=> x \in 1..Len(tokens) /\ tokens'[x].end = -1
    BY <1>9 DEF Opened
  <2>2. \A x : x \in Opened' <=> x \in Opened /\ x # i
    BY <1>2, <1>3, <1>4, <1>10, <2>1
  <2>3. QED
    BY <2>2
<1>12. \A x \in 1..Len(tokens) : /\ tokens'[x].type = tokens[x].type
                                 /\ tokens'[x].start = tokens[x].start
                                 /\ tokens'[x].size = tokens[x].size
  BY <1>7
<1>13. tokens[i].type = Type(js[pos])
  BY <1>1 DEF Matches, Close
<1>14. pos \in DOMAIN js /\ js[pos] \in Closers /\ js' = js /\ pos' = pos + 1
  <2>1. pos <= Len(js) /\ js[pos] \in Closers /\ js' = js /\ pos' = pos + 1
    BY DEF Close, Parsing
  <2>2. QED
    BY <2>1, TextIs DEF ParserTypes
<1>15. Closes(i)
  BY <1>3, <1>7, <1>10, <1>11, <1>12, <1>13, <1>14 DEF Closes
<1>16. QED
  BY <1>1, <1>7, <1>15

\* Open adds a token that is open.
LEMMA OpenPushes ==
    ASSUME ParserTypes, Open
    PROVE  Pushes(-1) /\ ParserTypes'
<1>1. /\ pos <= Len(js) /\ js[pos] \in Openers /\ Len(tokens) < room
      /\ toksuper' = Len(tokens') /\ pos' = pos + 1 /\ js' = js /\ room' = room
      /\ tokens' = Append(Counted, [type |-> Type(js[pos]), start |-> pos,
                                    end |-> -1, size |-> 0])
  BY DEF Open, Parsing
<1>2. pos \in DOMAIN js /\ pos \in 1..Len(js) /\ Len(js) \in Nat
  BY <1>1, TextIs DEF ParserTypes
<1>3. js[pos] \notin Closers /\ js[pos] # "bad"
  BY <1>1 DEF Openers, Closers
<1>4. Pushes(-1) /\ tokens' \in Seq(TokenType)
  BY <1>1, <1>2, <1>3, PushFields
<1>5. /\ Len(tokens) \in Nat /\ Opened \subseteq 1..Len(tokens)
      /\ Len(tokens') = Len(tokens) + 1 /\ Opened' = Opened \cup {Len(tokens) + 1}
  BY <1>4, TokensAre DEF Pushes
<1>6. Max(Opened' \cup {0}) = Len(tokens) + 1
  <2>1. PICK S, n : S = Opened' \cup {0} /\ n = Len(tokens) + 1
    OBVIOUS
  <2>2. \A y : y \in S <=> y \in Opened \/ y = n \/ y = 0
    BY <1>5, <2>1
  <2>3. n \in Nat /\ \A y \in Opened : y \in Nat /\ y <= n
    BY <1>5, <2>1
  <2>4. S \subseteq Nat /\ n \in S /\ \A y \in S : n >= y
    BY <2>2, <2>3
  <2>5. Max(S) = n
    BY <2>4, IsMax
  <2>6. QED
    BY <2>1, <2>5
<1>7. js' = js /\ pos' \in 1..(Len(js) + 1)
  BY <1>1, <1>2
<1>8. ParserTypes'
  BY <1>1, <1>4, <1>5, <1>6, <1>7 DEF ParserTypes
<1>9. QED
  BY <1>4, <1>8

\* Leaf adds a token with its end.
LEMMA LeafPushes ==
    ASSUME ParserTypes, Leaf
    PROVE  Pushes(pos + 1) /\ ParserTypes'
<1>1. /\ pos <= Len(js) /\ js[pos] \notin Openers /\ js[pos] \notin Closers
      /\ js[pos] # "bad" /\ Len(tokens) < room
      /\ toksuper' = toksuper /\ pos' = pos + 1 /\ js' = js /\ room' = room
      /\ tokens' = Append(Counted, [type |-> Type(js[pos]), start |-> pos,
                                    end |-> pos + 1, size |-> 0])
  BY DEF Leaf, Parsing
<1>2. pos \in DOMAIN js /\ pos \in 1..Len(js) /\ Len(js) \in Nat
  BY <1>1, TextIs DEF ParserTypes
<1>3. Pushes(pos + 1) /\ tokens' \in Seq(TokenType)
  BY <1>1, <1>2, PushFields
<1>4. Len(tokens) \in Nat /\ Len(tokens') = Len(tokens) + 1 /\ Opened' = Opened
  <2>1. pos + 1 # -1
    BY <1>2
  <2>2. QED
    BY <1>3, <2>1, TokensAre DEF Pushes
<1>5. js' = js /\ pos' \in 1..(Len(js) + 1)
  BY <1>1, <1>2
<1>6. ParserTypes'
  BY <1>1, <1>3, <1>4, <1>5 DEF ParserTypes
<1>7. QED
  BY <1>3, <1>6

\* Close ends the innermost token that is open.
LEMMA CloseCloses ==
    ASSUME ParserTypes, Close
    PROVE  Closes(Max(Opened)) /\ ParserTypes'
<1>1. /\ pos <= Len(js) /\ pos' = pos + 1 /\ js' = js /\ room' = room
      /\ toksuper' = Max((Opened \ {Max(Opened)}) \cup {0})
  BY DEF Close, Parsing
<1>2. Closes(Max(Opened)) /\ tokens' \in Seq(TokenType)
  BY CloseFields
<1>3. Len(tokens') = Len(tokens) /\ Opened' = Opened \ {Max(Opened)}
  BY <1>2 DEF Closes
<1>4. js' = js /\ pos' \in 1..(Len(js) + 1)
  BY <1>1, TextIs DEF ParserTypes
<1>5. ParserTypes'
  BY <1>1, <1>2, <1>3, <1>4 DEF ParserTypes
<1>6. QED
  BY <1>2, <1>5

----------------------------------------------------------------------------
(* Each part of the invariant is kept.                                     *)

\* The places do not change with the parser.
LEMMA SamePlaces ==
    ASSUME js' = js
    PROVE  Words' = Words /\ \A S : Places(S)' = Places(S)
BY DEF Words, Places

\* A word more before pos has its token.
LEMMA PushPlaced ==
    ASSUME ParserTypes, Placed, NEW e, Pushes(e), ParserTypes'
    PROVE  Placed'
<1>1. PICK n : n = Len(tokens)
  OBVIOUS
<1>2. /\ n \in Nat /\ DOMAIN tokens = 1..n /\ DOMAIN tokens' = 1..(n + 1)
      /\ Len(tokens') = n + 1
  <2>1. Len(tokens) \in Nat /\ DOMAIN tokens = 1..Len(tokens)
    BY TokensAre
  <2>2. tokens' \in Seq(TokenType) /\ Len(tokens') = Len(tokens) + 1
    BY DEF ParserTypes, Pushes
  <2>3. QED
    BY <1>1, <2>1, <2>2, LenProperties
<1>3. /\ js' = js /\ pos' = pos + 1 /\ pos \in Nat /\ Words' = Words /\ Words \subseteq Nat
      /\ pos \in Words /\ DOMAIN js = 1..Len(js)
  <2>1. js' = js /\ pos' = pos + 1 /\ pos \in DOMAIN js /\ js[pos] \notin Closers
    BY DEF Pushes
  <2>2. pos \in Words
    BY <2>1 DEF Words, Places
  <2>3. QED
    BY <2>1, <2>2, SamePlaces, TextIs
<1>4. /\ n = Cardinality(Below(Words, pos))
      /\ Cardinality(Below(Words, pos + 1)) = n + 1
  BY <1>1, <1>3, BelowFacts DEF Placed
<1>5. \A x \in 1..n : tokens'[x].start = tokens[x].start /\ tokens'[x].type = tokens[x].type
  BY <1>1 DEF Pushes
<1>6. tokens'[n + 1].start = pos /\ tokens'[n + 1].type = Type(js[pos])
  BY <1>1 DEF Pushes
<1>7. \A x \in 1..n :
          /\ tokens[x].start \in Words /\ tokens[x].start < pos
          /\ tokens[x].type = Type(js[tokens[x].start])
          /\ Cardinality(Below(Words, tokens[x].start)) = x - 1
  BY <1>2 DEF Placed
<1>8. \A x, y \in 1..n : x < y => tokens[x].start < tokens[y].start
  BY <1>2 DEF Placed
<1>9. ASSUME NEW x \in 1..(n + 1)
      PROVE  /\ tokens'[x].start \in Words /\ tokens'[x].start < pos + 1
             /\ tokens'[x].type = Type(js[tokens'[x].start])
             /\ Cardinality(Below(Words, tokens'[x].start)) = x - 1
  <2>1. CASE x \in 1..n
    <3>1. tokens[x].start \in Nat /\ tokens[x].start < pos
      BY <1>3, <1>7, <2>1
    <3>2. tokens[x].start < pos + 1
      BY <1>3, <3>1
    <3>3. QED
      BY <1>5, <1>7, <2>1, <3>2
  <2>2. CASE x = n + 1
    BY <1>2, <1>3, <1>4, <1>6, <2>2
  <2>3. QED
    BY <1>2, <2>1, <2>2
<1>10. ASSUME NEW x \in 1..(n + 1), NEW y \in 1..(n + 1), x < y
       PROVE  tokens'[x].start < tokens'[y].start
  <2>1. x \in 1..n
    BY <1>2, <1>10
  <2>2. CASE y \in 1..n
    BY <1>5, <1>8, <1>10, <2>1, <2>2
  <2>3. CASE y = n + 1
    BY <1>5, <1>6, <1>7, <2>1, <2>3
  <2>4. QED
    BY <1>2, <2>2, <2>3
<1>11. n + 1 > 0
  BY <1>2
<1>12. QED
  BY <1>2, <1>3, <1>4, <1>9, <1>10, <1>11 DEF Placed

\* A bracket that closes has no token.
LEMMA ClosePlaced ==
    ASSUME ParserTypes, Placed, NEW i, Closes(i), ParserTypes'
    PROVE  Placed'
<1>1. /\ Len(tokens) \in Nat /\ DOMAIN tokens = 1..Len(tokens)
      /\ DOMAIN tokens' = 1..Len(tokens) /\ Len(tokens') = Len(tokens)
  <2>1. tokens' \in Seq(TokenType) /\ Len(tokens') = Len(tokens)
    BY DEF ParserTypes, Closes
  <2>2. QED
    BY <2>1, TokensAre, LenProperties
<1>2. /\ js' = js /\ pos' = pos + 1 /\ pos \in Nat /\ Words' = Words /\ Words \subseteq Nat
      /\ pos \notin Words /\ i \in Opened
  <2>1. js' = js /\ pos' = pos + 1 /\ pos \in DOMAIN js /\ js[pos] \in Closers /\ i \in Opened
    BY DEF Closes
  <2>2. pos \notin Words
    BY <2>1 DEF Words, Places
  <2>3. QED
    BY <2>1, <2>2, SamePlaces, TextIs
<1>3. /\ Len(tokens) = Cardinality(Below(Words, pos))
      /\ Cardinality(Below(Words, pos + 1)) = Len(tokens)
  <2>1. Len(tokens) = Cardinality(Below(Words, pos))
    BY DEF Placed
  <2>2. Cardinality(Below(Words, pos + 1))
          = Cardinality(Below(Words, pos)) + (IF pos \in Words THEN 1 ELSE 0)
    BY <1>2, BelowFacts
  <2>3. QED
    BY <1>1, <1>2, <2>1, <2>2
<1>4. \A x \in 1..Len(tokens) : tokens'[x].start = tokens[x].start /\ tokens'[x].type = tokens[x].type
  BY DEF Closes
<1>5. \A x \in 1..Len(tokens) :
          /\ tokens'[x].start \in Words /\ tokens'[x].start < pos + 1
          /\ tokens'[x].type = Type(js[tokens'[x].start])
          /\ Cardinality(Below(Words, tokens'[x].start)) = x - 1
  <2>1. \A x \in 1..Len(tokens) :
          /\ tokens[x].start \in Words /\ tokens[x].start < pos
          /\ tokens[x].type = Type(js[tokens[x].start])
          /\ Cardinality(Below(Words, tokens[x].start)) = x - 1
    BY <1>1 DEF Placed
  <2>2. \A x \in 1..Len(tokens) : tokens[x].start \in Nat
    BY <1>2, <2>1
  <2>3. QED
    BY <1>2, <1>4, <2>1, <2>2
<1>6. \A x, y \in 1..Len(tokens) : x < y => tokens'[x].start < tokens'[y].start
  BY <1>1, <1>4 DEF Placed
<1>7. Len(tokens) > 0
  BY <1>1, <1>2, TokensAre
<1>8. QED
  BY <1>1, <1>2, <1>3, <1>5, <1>6, <1>7 DEF Placed

\* A token more, and the others are open or not as before.
LEMMA PushFacts ==
    ASSUME ParserTypes, NEW e, Pushes(e), ParserTypes'
    PROVE  /\ Len(tokens) \in Nat /\ pos \in Nat
           /\ DOMAIN tokens = 1..Len(tokens)
           /\ DOMAIN tokens' = 1..(Len(tokens) + 1)
           /\ \A x \in 1..Len(tokens) : x \in Opened' <=> x \in Opened
           /\ Len(tokens) + 1 \in Opened' <=> js[pos] \in Openers
           /\ Len(tokens) + 1 \notin Opened /\ Opened \subseteq 1..Len(tokens)
<1>1. /\ Len(tokens) \in Nat /\ DOMAIN tokens = 1..Len(tokens) /\ pos \in Nat
      /\ Opened \subseteq 1..Len(tokens)
  BY TokensAre, TextIs
<1>2. tokens' \in Seq(TokenType) /\ Len(tokens') = Len(tokens) + 1
  BY DEF ParserTypes, Pushes
<1>3. DOMAIN tokens' = 1..(Len(tokens) + 1)
  BY <1>2, LenProperties
<1>4. /\ Opened' = IF e = -1 THEN Opened \cup {Len(tokens) + 1} ELSE Opened
      /\ e = IF js[pos] \in Openers THEN -1 ELSE pos + 1
  BY DEF Pushes
<1>5. e = -1 <=> js[pos] \in Openers
  BY <1>1, <1>4
<1>6. Len(tokens) + 1 \notin Opened
  BY <1>1
<1>7. \A x \in 1..Len(tokens) : x # Len(tokens) + 1
  BY <1>1
<1>8. QED
  BY <1>1, <1>3, <1>4, <1>5, <1>6, <1>7

\* The same tokens, with one of those that are open less.
LEMMA CloseFacts ==
    ASSUME ParserTypes, NEW i, Closes(i), ParserTypes'
    PROVE  /\ Len(tokens) \in Nat /\ pos \in Nat
           /\ DOMAIN tokens = 1..Len(tokens) /\ DOMAIN tokens' = 1..Len(tokens)
           /\ i \in 1..Len(tokens) /\ i \in Opened /\ \A x \in Opened : x <= i
           /\ \A x : x \in Opened' <=> x \in Opened /\ x # i
<1>1. /\ Len(tokens) \in Nat /\ DOMAIN tokens = 1..Len(tokens) /\ pos \in Nat
      /\ Opened \subseteq 1..Len(tokens)
  BY TokensAre, TextIs
<1>2. tokens' \in Seq(TokenType) /\ Len(tokens') = Len(tokens)
  BY DEF ParserTypes, Closes
<1>3. DOMAIN tokens' = 1..Len(tokens)
  BY <1>2, LenProperties
<1>4. i \in Opened /\ Opened' = Opened \ {i} /\ \A x \in Opened : x <= i
  BY DEF Closes
<1>5. QED
  BY <1>1, <1>3, <1>4

\* The new token is open and a bracket, or ends behind its lexeme.
LEMMA PushEnded ==
    ASSUME ParserTypes, Placed, Ended, NEW e, Pushes(e), ParserTypes'
    PROVE  Ended'
<1>1. PICK n : n = Len(tokens)
  OBVIOUS
<1>2. /\ n \in Nat /\ pos \in Nat /\ pos' = pos + 1 /\ js' = js
      /\ DOMAIN tokens = 1..n /\ DOMAIN tokens' = 1..(n + 1)
      /\ \A x \in 1..n : x \in Opened' <=> x \in Opened
      /\ n + 1 \in Opened' <=> js[pos] \in Openers
  BY <1>1, PushFacts DEF Pushes
<1>3. \A x \in 1..n : /\ tokens'[x].start = tokens[x].start /\ tokens'[x].end = tokens[x].end
                      /\ tokens'[x].size = tokens[x].size + (IF x = toksuper THEN 1 ELSE 0)
  BY <1>1 DEF Pushes
<1>4. /\ tokens'[n + 1].start = pos /\ tokens'[n + 1].end = e /\ tokens'[n + 1].size = 0
      /\ e = IF js[pos] \in Openers THEN -1 ELSE pos + 1
  BY <1>1 DEF Pushes
<1>5. /\ \A x \in 1..n : IsOpener(x)' <=> IsOpener(x)
      /\ IsOpener(n + 1)' <=> js[pos] \in Openers
  BY <1>2, <1>3, <1>4 DEF IsOpener
<1>6. ASSUME NEW x \in 1..n
      PROVE  /\ x \in Opened => IsOpener(x)
             /\ x \notin Opened => tokens[x].start < tokens[x].end /\ tokens[x].end <= pos
             /\ ~IsOpener(x) => tokens[x].end = tokens[x].start + 1 /\ tokens[x].size = 0
             /\ IsOpener(x) /\ x \notin Opened =>
                   tokens[x].start < tokens[x].end - 1 /\ js[tokens[x].end - 1] \in Closers
             /\ tokens[x].start \in Nat /\ tokens[x].end \in Int
  BY <1>1, <1>2, TokensAre DEF Ended
<1>7. ASSUME NEW x \in 1..(n + 1)
      PROVE  /\ x \in Opened' => IsOpener(x)'
             /\ x \notin Opened' => tokens'[x].start < tokens'[x].end /\ tokens'[x].end <= pos'
             /\ ~IsOpener(x)' => tokens'[x].end = tokens'[x].start + 1 /\ tokens'[x].size = 0
             /\ IsOpener(x)' /\ x \notin Opened' =>
                   tokens'[x].start < tokens'[x].end - 1 /\ js'[tokens'[x].end - 1] \in Closers
  <2>1. CASE x \in 1..n
    <3>1. x = toksuper => IsOpener(x)
      <4>1. x = toksuper => x \in Opened
        BY <1>1, <1>2, <2>1, SuperIs
      <4>2. QED
        BY <1>6, <2>1, <4>1
    <3>2. ~IsOpener(x) => tokens'[x].size = 0
      BY <1>3, <1>6, <2>1, <3>1
    <3>3. x \notin Opened => tokens[x].end <= pos + 1
      BY <1>2, <1>6, <2>1
    <3>4. QED
      BY <1>2, <1>3, <1>5, <1>6, <2>1, <3>2, <3>3
  <2>2. CASE x = n + 1
    BY <1>2, <1>4, <1>5, <2>2
  <2>3. QED
    BY <1>2, <2>1, <2>2
<1>8. QED
  BY <1>2, <1>7 DEF Ended

\* The token that ends does so behind the bracket at pos.
LEMMA CloseEnded ==
    ASSUME ParserTypes, Placed, Ended, NEW i, Closes(i), ParserTypes'
    PROVE  Ended'
<1>1. PICK n : n = Len(tokens)
  OBVIOUS
<1>2. /\ n \in Nat /\ pos \in Nat /\ pos' = pos + 1 /\ js' = js
      /\ DOMAIN tokens = 1..n /\ DOMAIN tokens' = 1..n
      /\ i \in 1..n /\ i \in Opened
      /\ \A x : x \in Opened' <=> x \in Opened /\ x # i
  BY <1>1, CloseFacts DEF Closes
<1>3. \A x \in 1..n : /\ tokens'[x].start = tokens[x].start /\ tokens'[x].size = tokens[x].size
                      /\ tokens'[x].end = IF x = i THEN pos + 1 ELSE tokens[x].end
  BY <1>1 DEF Closes
<1>4. js[pos] \in Closers
  BY DEF Closes
<1>5. \A x \in 1..n : IsOpener(x)' <=> IsOpener(x)
  BY <1>2, <1>3 DEF IsOpener
<1>6. ASSUME NEW x \in 1..n
      PROVE  /\ x \in Opened => IsOpener(x)
             /\ x \notin Opened => tokens[x].start < tokens[x].end /\ tokens[x].end <= pos
             /\ ~IsOpener(x) => tokens[x].end = tokens[x].start + 1 /\ tokens[x].size = 0
             /\ IsOpener(x) /\ x \notin Opened =>
                   tokens[x].start < tokens[x].end - 1 /\ js[tokens[x].end - 1] \in Closers
             /\ tokens[x].start \in Nat /\ tokens[x].end \in Int /\ tokens[x].start < pos
  BY <1>1, <1>2, TokensAre DEF Ended, Placed
<1>7. ASSUME NEW x \in 1..n
      PROVE  /\ x \in Opened' => IsOpener(x)'
             /\ x \notin Opened' => tokens'[x].start < tokens'[x].end /\ tokens'[x].end <= pos'
             /\ ~IsOpener(x)' => tokens'[x].end = tokens'[x].start + 1 /\ tokens'[x].size = 0
             /\ IsOpener(x)' /\ x \notin Opened' =>
                   tokens'[x].start < tokens'[x].end - 1 /\ js'[tokens'[x].end - 1] \in Closers
  <2>1. CASE x = i
    <3>1. (pos + 1) - 1 = pos /\ tokens[i].start < pos + 1
      BY <1>2, <1>6
    <3>2. IsOpener(i)
      BY <1>2, <1>6
    <3>3. /\ tokens'[x].end = pos + 1 /\ tokens'[x].start = tokens[i].start
          /\ tokens[i].start < pos /\ x \notin Opened' /\ IsOpener(x)'
      BY <1>2, <1>3, <1>5, <1>6, <2>1, <3>2
    <3>4. js'[tokens'[x].end - 1] \in Closers
      BY <1>2, <1>4, <3>1, <3>3
    <3>5. QED
      BY <1>2, <3>1, <3>3, <3>4
  <2>2. CASE x # i
    <3>1. x \notin Opened => tokens[x].end <= pos + 1
      BY <1>2, <1>6
    <3>2. QED
      BY <1>2, <1>3, <1>5, <1>6, <2>2, <3>1
  <2>3. QED
    BY <2>1, <2>2
<1>8. QED
  BY <1>2, <1>7 DEF Ended

\* The tokens that are open are around the new one, and around nothing else new.
LEMMA PushInside ==
    ASSUME ParserTypes, Placed, Ended, NEW e, Pushes(e), ParserTypes',
           NEW n, n = Len(tokens)
    PROVE  /\ \A x, y \in 1..n : Inside(y, x)' <=> Inside(y, x)
           /\ \A x \in 1..n : Inside(n + 1, x)' <=> x \in Opened
           /\ \A y \in 1..(n + 1) : ~Inside(y, n + 1)'
<1>1. n = Len(tokens)
  OBVIOUS
<1>2. /\ n \in Nat /\ pos \in Nat
      /\ \A x \in 1..n : x \in Opened' <=> x \in Opened
  BY <1>1, PushFacts
<1>3. /\ \A x \in 1..n : tokens'[x].start = tokens[x].start /\ tokens'[x].end = tokens[x].end
      /\ tokens'[n + 1].start = pos
  BY <1>1 DEF Pushes
<1>4. ASSUME NEW x \in 1..n, NEW y \in 1..n PROVE Inside(y, x)' <=> Inside(y, x)
  BY <1>2, <1>3 DEF Inside
<1>5. ASSUME NEW x \in 1..n PROVE Inside(n + 1, x)' <=> x \in Opened
  <2>1. x \notin Opened => ~(pos < tokens[x].end)
    <3>1. tokens[x].end \in Int /\ (x \notin Opened => tokens[x].end <= pos)
      BY <1>1, TokensAre DEF Ended
    <3>2. QED
      BY <1>2, <3>1
  <2>2. x < n + 1
    BY <1>2
  <2>3. QED
    BY <1>2, <1>3, <2>1, <2>2 DEF Inside
<1>6. ASSUME NEW y \in 1..(n + 1) PROVE ~Inside(y, n + 1)'
  BY <1>2 DEF Inside
<1>7. QED
  BY <1>4, <1>5, <1>6

\* The token that ends is around all that came after it.
LEMMA CloseInside ==
    ASSUME ParserTypes, Placed, NEW i, Closes(i), ParserTypes', NEW n, n = Len(tokens)
    PROVE  \A x, y \in 1..n : Inside(y, x)' <=> Inside(y, x)
<1>1. n = Len(tokens)
  OBVIOUS
<1>2. /\ n \in Nat /\ pos \in Nat /\ i \in Opened
      /\ \A x : x \in Opened' <=> x \in Opened /\ x # i
  BY <1>1, CloseFacts
<1>3. \A x \in 1..n : /\ tokens'[x].start = tokens[x].start
                      /\ tokens'[x].end = IF x = i THEN pos + 1 ELSE tokens[x].end
  BY <1>1 DEF Closes
<1>4. \A x \in 1..n : tokens[x].start \in Nat /\ tokens[x].start < pos + 1
  <2>1. \A x \in 1..n : tokens[x].start \in Nat
    BY <1>1, TokensAre
  <2>2. \A x \in 1..n : tokens[x].start < pos
    BY <1>1, TokensAre DEF Placed
  <2>3. QED
    BY <1>2, <2>1, <2>2
<1>5. ASSUME NEW x \in 1..n, NEW y \in 1..n PROVE Inside(y, x)' <=> Inside(y, x)
  BY <1>2, <1>3, <1>4 DEF Inside
<1>6. QED
  BY <1>1, <1>5

\* The new token is inside of open ones only.
LEMMA PushNested ==
    ASSUME ParserTypes, Placed, Ended, Nested, NEW e, Pushes(e), ParserTypes'
    PROVE  Nested'
<1>1. PICK n : n = Len(tokens)
  OBVIOUS
<1>2. /\ n \in Nat /\ DOMAIN tokens = 1..n /\ DOMAIN tokens' = 1..(n + 1)
      /\ \A x \in 1..n : x \in Opened' <=> x \in Opened
  BY <1>1, PushFacts
<1>3. \A x \in 1..n : tokens'[x].end = tokens[x].end
  BY <1>1 DEF Pushes
<1>4. /\ \A x, y \in 1..n : Inside(y, x)' <=> Inside(y, x)
      /\ \A x \in 1..n : Inside(n + 1, x)' <=> x \in Opened
      /\ \A y \in 1..(n + 1) : ~Inside(y, n + 1)'
  BY <1>1, PushInside
<1>5. ASSUME NEW x \in 1..(n + 1), NEW y \in 1..(n + 1), Inside(y, x)', x \notin Opened'
      PROVE  y \notin Opened' /\ tokens'[y].end <= tokens'[x].end
  <2>1. x # n + 1
    BY <1>4, <1>5
  <2>2. x \in 1..n
    BY <1>2, <2>1
  <2>3. y # n + 1
    BY <1>2, <1>4, <1>5, <2>2
  <2>4. y \in 1..n
    BY <1>2, <2>3
  <2>5. Inside(y, x) /\ x \notin Opened
    BY <1>2, <1>4, <1>5, <2>2, <2>4
  <2>6. y \notin Opened /\ tokens[y].end <= tokens[x].end
    BY <1>2, <2>2, <2>4, <2>5 DEF Nested
  <2>7. QED
    BY <1>2, <1>3, <2>2, <2>4, <2>6
<1>6. QED
  BY <1>2, <1>5 DEF Nested

\* What is inside of the token that ends has ended: it was the innermost.
LEMMA CloseNested ==
    ASSUME ParserTypes, Placed, Ended, Nested, NEW i, Closes(i), ParserTypes'
    PROVE  Nested'
<1>1. PICK n : n = Len(tokens)
  OBVIOUS
<1>2. /\ n \in Nat /\ pos \in Nat /\ DOMAIN tokens = 1..n /\ DOMAIN tokens' = 1..n
      /\ i \in 1..n /\ i \in Opened /\ \A x \in Opened : x <= i
      /\ \A x : x \in Opened' <=> x \in Opened /\ x # i
  BY <1>1, CloseFacts
<1>3. \A x \in 1..n : tokens'[x].end = IF x = i THEN pos + 1 ELSE tokens[x].end
  BY <1>1 DEF Closes
<1>4. \A x, y \in 1..n : Inside(y, x)' <=> Inside(y, x)
  BY <1>1, CloseInside
<1>5. ASSUME NEW x \in 1..n, NEW y \in 1..n, Inside(y, x)', x \notin Opened'
      PROVE  y \notin Opened' /\ tokens'[y].end <= tokens'[x].end
  <2>1. Inside(y, x)
    BY <1>4, <1>5
  <2>2. CASE x = i
    <3>1. y > i /\ y \notin Opened
      <4>1. y > i
        BY <1>2, <2>1, <2>2 DEF Inside
      <4>2. QED
        BY <1>2, <4>1
    <3>2. tokens[y].end \in Int /\ tokens[y].end <= pos
      BY <1>1, <1>2, <3>1, TokensAre DEF Ended
    <3>3. QED
      BY <1>2, <1>3, <2>2, <3>1, <3>2
  <2>3. CASE x # i
    <3>1. x \notin Opened
      BY <1>2, <1>5, <2>3
    <3>2. y \notin Opened /\ tokens[y].end <= tokens[x].end
      BY <1>2, <2>1, <3>1 DEF Nested
    <3>3. QED
      BY <1>2, <1>3, <2>3, <3>2
  <2>4. QED
    BY <2>2, <2>3
<1>6. QED
  BY <1>2, <1>5 DEF Nested

\* Membership, without the set.
LEMMA ChildrenAre ==
    ASSUME NEW x, NEW y
    PROVE  y \in Children(x) <=>
              /\ y \in DOMAIN tokens /\ Inside(y, x)
              /\ \A z \in DOMAIN tokens : x < z => ~Inside(y, z)
BY Zenon DEF Children

\* The children of a token are finitely many.
LEMMA ChildrenFinite ==
    ASSUME ParserTypes, NEW x
    PROVE  IsFiniteSet(Children(x)) /\ Cardinality(Children(x)) \in Nat
<1>1. Children(x) \in SUBSET (1..Len(tokens)) /\ Len(tokens) \in Nat
  BY ChildrenAre, TokensAre
<1>2. IsFiniteSet(1..Len(tokens))
  BY <1>1, FS_Interval
<1>3. IsFiniteSet(Children(x))
  BY <1>1, <1>2, FS_Subset
<1>4. QED
  BY <1>3, FS_CardinalityType

\* The new token is a child of toksuper and has none; toksuper counts it.
LEMMA PushCounts ==
    ASSUME ParserTypes, Placed, Ended, Counts, NEW e, Pushes(e), ParserTypes'
    PROVE  Counts'
<1>1. PICK n : n = Len(tokens)
  OBVIOUS
<1>2. /\ n \in Nat /\ DOMAIN tokens = 1..n /\ DOMAIN tokens' = 1..(n + 1)
      /\ Opened \subseteq 1..n
  BY <1>1, PushFacts
<1>3. /\ \A x \in 1..n :
           tokens'[x].size = tokens[x].size + (IF x = toksuper THEN 1 ELSE 0)
      /\ tokens'[n + 1].size = 0
  BY <1>1 DEF Pushes
<1>4. /\ \A x, y \in 1..n : Inside(y, x)' <=> Inside(y, x)
      /\ \A x \in 1..n : Inside(n + 1, x)' <=> x \in Opened
      /\ \A y \in 1..(n + 1) : ~Inside(y, n + 1)'
  BY <1>1, PushInside
<1>5. ASSUME NEW x, NEW y
      PROVE  y \in Children(x)' <=>
               /\ y \in 1..(n + 1) /\ Inside(y, x)'
               /\ \A z \in 1..(n + 1) : x < z => ~Inside(y, z)'
  BY <1>2 DEF Children
<1>6. \A x \in 1..(n + 1) : x = n + 1 \/ x \in 1..n
  BY <1>2
<1>7. ASSUME NEW x \in 1..n, NEW y \in 1..n
      PROVE  y \in Children(x)' <=> y \in Children(x)
  <2>1. y \in Children(x) <=> Inside(y, x) /\ \A z \in 1..n : x < z => ~Inside(y, z)
    BY <1>2, ChildrenAre
  <2>2. y \in 1..(n + 1) /\ \A z \in 1..n : z \in 1..(n + 1)
    BY <1>2
  <2>3. QED
    BY <1>4, <1>5, <1>6, <2>1, <2>2
<1>8. ASSUME NEW x \in 1..n
      PROVE  n + 1 \in Children(x)' <=> x = toksuper
  <2>1. n + 1 \in Children(x)' <=> x \in Opened /\ \A z \in 1..n : x < z => z \notin Opened
    <3>1. n + 1 \in 1..(n + 1) /\ \A z \in 1..n : z \in 1..(n + 1)
      BY <1>2
    <3>2. ~Inside(n + 1, n + 1)'
      BY <1>4, <3>1
    <3>3. QED
      BY <1>4, <1>5, <1>6, <3>1, <3>2
  <2>2. /\ toksuper \in 0..n /\ (Opened # {} => toksuper \in Opened)
        /\ (Opened = {} => toksuper = 0) /\ \A z \in Opened : z <= toksuper
    BY <1>1, SuperIs
  <2>3. CASE x = toksuper
    <3>1. x \in Opened
      BY <1>2, <2>2, <2>3
    <3>2. \A z \in 1..n : x < z => z \notin Opened
      BY <1>2, <2>2, <2>3
    <3>3. QED
      BY <2>1, <2>3, <3>1, <3>2
  <2>4. CASE x # toksuper
    <3>1. SUFFICES ASSUME x \in Opened, \A z \in 1..n : x < z => z \notin Opened
                   PROVE  FALSE
      BY <2>1, <2>4
    <3>2. toksuper \in Opened /\ toksuper \in 1..n /\ x <= toksuper
      BY <1>2, <2>2, <3>1
    <3>3. x < toksuper
      BY <1>2, <2>4, <3>2
    <3>4. QED
      BY <3>1, <3>2, <3>3
  <2>5. QED
    BY <2>3, <2>4
<1>9. ASSUME NEW x \in 1..(n + 1)
      PROVE  tokens'[x].size = Cardinality(Children(x)')
  <2>1. CASE x = n + 1
    <3>1. \A y : y \notin Children(x)'
      BY <1>4, <1>5, <2>1
    <3>2. Children(x)' = {}
      BY <3>1
    <3>3. QED
      BY <1>3, <2>1, <3>2, FS_EmptySet
  <2>2. CASE x \in 1..n /\ x = toksuper
    <3>1. \A y : y \in Children(x)' <=> y \in Children(x) \/ y = n + 1
      <4>1. \A y : y \in Children(x) => y \in 1..n
        BY <1>2, ChildrenAre
      <4>2. \A y : y \in Children(x)' => y \in 1..n \/ y = n + 1
        BY <1>5, <1>6
      <4>3. QED
        BY <1>7, <1>8, <2>2, <4>1, <4>2
    <3>2. Children(x)' = Children(x) \cup {n + 1} /\ n + 1 \notin Children(x)
      <4>1. n + 1 \notin 1..n
        BY <1>2
      <4>2. QED
        BY <1>2, <3>1, <4>1, ChildrenAre
    <3>3. Cardinality(Children(x)') = Cardinality(Children(x)) + 1
      BY <3>2, ChildrenFinite, OneMore
    <3>4. tokens[x].size = Cardinality(Children(x))
      BY <1>2, <2>2 DEF Counts
    <3>5. QED
      BY <1>3, <2>2, <3>3, <3>4
  <2>3. CASE x \in 1..n /\ x # toksuper
    <3>1. \A y : y \in Children(x)' <=> y \in Children(x)
      <4>1. \A y : y \in Children(x) => y \in 1..n
        BY <1>2, ChildrenAre
      <4>2. \A y : y \in Children(x)' => y \in 1..n \/ y = n + 1
        BY <1>5, <1>6
      <4>3. QED
        BY <1>7, <1>8, <2>3, <4>1, <4>2
    <3>2. Children(x)' = Children(x)
      BY <3>1
    <3>3. tokens[x].size = Cardinality(Children(x)) /\ tokens[x].size \in Nat
      BY <1>1, <1>2, <2>3, TokensAre DEF Counts
    <3>4. QED
      BY <1>3, <2>3, <3>2, <3>3
  <2>4. QED
    BY <1>6, <2>1, <2>2, <2>3
<1>10. QED
  BY <1>2, <1>9 DEF Counts

\* A bracket that closes is no child.
LEMMA CloseCounts ==
    ASSUME ParserTypes, Placed, Counts, NEW i, Closes(i), ParserTypes'
    PROVE  Counts'
<1>1. PICK n : n = Len(tokens)
  OBVIOUS
<1>2. DOMAIN tokens = 1..n /\ DOMAIN tokens' = 1..n
  BY <1>1, CloseFacts
<1>3. \A x \in 1..n : tokens'[x].size = tokens[x].size
  BY <1>1 DEF Closes
<1>4. \A x, y \in 1..n : Inside(y, x)' <=> Inside(y, x)
  BY <1>1, CloseInside
<1>5. ASSUME NEW x \in 1..n
      PROVE  Children(x)' = Children(x)
  <2>1. ASSUME NEW y
        PROVE  y \in Children(x)' <=>
                  y \in 1..n /\ Inside(y, x)' /\ \A z \in 1..n : x < z => ~Inside(y, z)'
    BY <1>2 DEF Children
  <2>2. \A y : y \in Children(x)' <=> y \in Children(x)
    BY <1>2, <1>4, <2>1, ChildrenAre
  <2>3. QED
    BY <2>2
<1>6. QED
  BY <1>2, <1>3, <1>5 DEF Counts

----------------------------------------------------------------------------
(* The invariant holds.                                                    *)

\* Nothing is parsed yet.
LEMMA ParserInitInv == ParserInit => ParserInv
<1>. SUFFICES ASSUME ParserInit PROVE ParserInv
  OBVIOUS
<1>1. /\ file \in Texts /\ pos = 1 /\ tokens = <<>> /\ toksuper = 0 /\ room = FirstRoom
  BY DEF ParserInit
<1>2. PICK g \in Junk : js = file \o g
  BY DEF ParserInit
<1>3. file \in Seq(ToSet(file)) /\ g \in Seq(ToSet(g))
  BY <1>1, JsmnAssumption
<1>4. js \in Seq(ToSet(js)) /\ Len(js) \in Nat
  <2>1. file \in Seq(ToSet(file) \cup ToSet(g)) /\ g \in Seq(ToSet(file) \cup ToSet(g))
    BY <1>3
  <2>2. js \in Seq(ToSet(file) \cup ToSet(g)) /\ Len(js) = Len(file) + Len(g)
    BY <1>2, <2>1, ConcatProperties
  <2>3. Len(js) \in Nat /\ DOMAIN js = 1..Len(js)
    BY <2>2, LenProperties
  <2>4. js \in [1..Len(js) -> ToSet(js)]
    BY <2>2, <2>3 DEF ToSet
  <2>5. js \in Seq(ToSet(js))
    BY <2>3, <2>4
  <2>6. QED
    BY <2>3, <2>5
<1>5. DOMAIN tokens = {} /\ Len(tokens) = 0 /\ tokens \in Seq(TokenType) /\ Opened = {}
  BY <1>1 DEF Opened
<1>6. ParserTypes
  <2>1. Max({0}) = 0
    BY IsMax
  <2>2. toksuper = Max(Opened \cup {0})
    BY <1>1, <1>5, <2>1
  <2>3. room \in Nat /\ Len(tokens) <= room
    BY <1>1, <1>5, JsmnAssumption
  <2>4. pos \in 1..(Len(js) + 1)
    BY <1>1, <1>4
  <2>5. QED
    BY <1>4, <1>5, <2>2, <2>3, <2>4 DEF ParserTypes
<1>7. Cardinality(Below(Words, 1)) = 0
  <2>1. \A l \in Words : l >= 1 /\ l \in Nat
    BY <1>6, TextIs DEF Words
  <2>2. \A l \in Words : ~(l < 1)
    BY <2>1
  <2>3. QED
    BY <2>2, BelowNone
<1>8. Placed
  BY <1>1, <1>5, <1>7 DEF Placed
<1>9. Ended /\ Nested /\ Counts
  BY <1>5 DEF Ended, Nested, Counts
<1>10. QED
  BY <1>6, <1>8, <1>9 DEF ParserInv

\* What the invariant speaks of may stay as it is.
LEMMA ParserStutter ==
    ASSUME ParserInv, UNCHANGED <<js, pos, tokens, toksuper, room>>
    PROVE  ParserInv'
<1>1. Opened' = Opened /\ Words' = Words
  BY DEF Opened, Words, Places
<1>2. ParserTypes'
  BY <1>1 DEF ParserInv, ParserTypes
<1>3. Placed'
  BY <1>1 DEF ParserInv, Placed
<1>4. Ended'
  BY <1>1 DEF ParserInv, Ended, IsOpener
<1>5. \A x, y : Inside(y, x)' <=> Inside(y, x)
  BY <1>1 DEF Inside
<1>6. Nested'
  BY <1>1, <1>5 DEF ParserInv, Nested
<1>7. Counts'
  <2>1. \A x : Children(x)' = Children(x)
    BY <1>5 DEF Children
  <2>2. QED
    BY <2>1 DEF ParserInv, Counts
<1>8. QED
  BY <1>2, <1>3, <1>4, <1>6, <1>7 DEF ParserInv

\* More room.
LEMMA GrowInv ==
    ASSUME ParserInv, Grow
    PROVE  ParserInv'
<1>1. /\ UNCHANGED <<js, pos, tokens, toksuper>> /\ room' = room * 2 + 1
  BY DEF Grow
<1>2. Opened' = Opened /\ Words' = Words
  BY <1>1 DEF Opened, Words, Places
<1>3. ParserTypes'
  <2>1. room \in Nat /\ Len(tokens) <= room /\ Len(tokens) \in Nat
    BY TokensAre DEF ParserInv, ParserTypes
  <2>2. room' \in Nat /\ Len(tokens) <= room'
    BY <1>1, <2>1
  <2>3. QED
    BY <1>1, <1>2, <2>2 DEF ParserInv, ParserTypes
<1>4. Placed'
  BY <1>1, <1>2 DEF ParserInv, Placed
<1>5. Ended'
  BY <1>1, <1>2 DEF ParserInv, Ended, IsOpener
<1>6. \A x, y : Inside(y, x)' <=> Inside(y, x)
  BY <1>1, <1>2 DEF Inside
<1>7. Nested'
  BY <1>1, <1>2, <1>6 DEF ParserInv, Nested
<1>8. Counts'
  <2>1. \A x : Children(x)' = Children(x)
    BY <1>1, <1>6 DEF Children
  <2>2. QED
    BY <1>1, <2>1 DEF ParserInv, Counts
<1>9. QED
  BY <1>3, <1>4, <1>5, <1>7, <1>8 DEF ParserInv

\* Each step of the parser keeps the invariant, also when it is called again.
LEMMA ParseInv ==
    ASSUME ParserInv, Parse
    PROVE  ParserInv'
<1>1. ParserTypes /\ Placed /\ Ended /\ Nested /\ Counts
  BY DEF ParserInv
<1>2. CASE Grow
  BY <1>2, GrowInv
<1>3. ASSUME NEW e, Pushes(e), ParserTypes' PROVE ParserInv'
  BY <1>1, <1>3, PushPlaced, PushEnded, PushNested, PushCounts DEF ParserInv
<1>4. CASE Open
  BY <1>1, <1>3, <1>4, OpenPushes
<1>5. CASE Leaf
  BY <1>1, <1>3, <1>5, LeafPushes
<1>6. CASE Close
  <2>1. Closes(Max(Opened)) /\ ParserTypes'
    BY <1>1, <1>6, CloseCloses
  <2>2. QED
    BY <1>1, <2>1, ClosePlaced, CloseEnded, CloseNested, CloseCounts DEF ParserInv
<1>7. CASE Invalid \/ Parsed
  <2>1. UNCHANGED <<js, pos, tokens, toksuper, room>>
    BY <1>7 DEF Invalid, Parsed, parser
  <2>2. QED
    BY <2>1, ParserStutter
<1>8. QED
  BY <1>2, <1>4, <1>5, <1>6, <1>7 DEF Parse

----------------------------------------------------------------------------
(* The tokens and the text.                                                *)

\* Where x ends, or what of it is read if it is open.
EndOf(x) == IF x \in Opened THEN pos ELSE tokens[x].end

\* The words one level below x, up to its end.
Members(x) ==
    {l \in Words : /\ tokens[x].start < l /\ l < EndOf(x)
                   /\ Level(l) = Level(tokens[x].start) + 1}

\* The level at pos is the number of open tokens, that at the start of one of
\* them the number of those around it; inside of a token the level is above
\* that of its start, and at its end the same again.
Levels ==
    /\ \A k \in 1..pos : Level(k) >= 0
    /\ Level(pos) = Cardinality(Opened)
    /\ \A x \in Opened : Level(tokens[x].start) = Cardinality(Below(Opened, x))
    /\ \A x \in DOMAIN tokens : IsOpener(x) =>
          \A l \in (tokens[x].start + 1)..pos :
             x \in Opened \/ l < tokens[x].end => Level(l) > Level(tokens[x].start)
    /\ \A x \in DOMAIN tokens : IsOpener(x) /\ x \notin Opened =>
          Level(tokens[x].end) = Level(tokens[x].start)

\* size is the number of members.
Sizes == \A x \in DOMAIN tokens : tokens[x].size = Cardinality(Members(x))

\* The bracket at k closes one of its kind.
ClosesOne(k) == OpenerOf(k) # 0 /\ Type(js[OpenerOf(k)]) = Type(js[k])

\* What was read may begin a well-formed text.
Begun ==
    /\ \A k \in 1..(pos - 1) : js[k] # "bad"
    /\ \A k \in Places(Closers) : k < pos => ClosesOne(k)

TextInv == Levels /\ Sizes /\ Begun

\* The level of the text goes up behind a bracket that opens and down behind
\* one that closes.
LEMMA LevelStep ==
    ASSUME ParserTypes
    PROVE  /\ Level(1) = 0
           /\ \A k \in Nat : Level(k) \in Int
           /\ \A k \in DOMAIN js :
                 Level(k + 1) = Level(k) + (IF js[k] \in Openers THEN 1
                                            ELSE IF js[k] \in Closers THEN -1 ELSE 0)
<1>1. /\ DOMAIN js \subseteq Nat /\ Places(Openers) \subseteq Nat /\ Places(Closers) \subseteq Nat
      /\ \A k \in DOMAIN js : ~(k < 1)
  <2>1. DOMAIN js = 1..Len(js) /\ \A S : Places(S) \subseteq Nat
    BY TextIs
  <2>2. QED
    BY <2>1
<1>2. \A k : Level(k) = Cardinality(Below(Places(Openers), k)) - Cardinality(Below(Places(Closers), k))
  BY Zenon DEF Level, Below
<1>3. ASSUME NEW S, S \subseteq Nat, NEW k \in Nat
      PROVE  /\ Cardinality(Below(S, k)) \in Nat
             /\ Cardinality(Below(S, k + 1))
                  = Cardinality(Below(S, k)) + (IF k \in S THEN 1 ELSE 0)
  BY <1>3, BelowFacts
<1>4. Level(1) = 0
  <2>1. \A S : \A l \in Places(S) : ~(l < 1)
    BY <1>1 DEF Places
  <2>2. \A S : Cardinality(Below(Places(S), 1)) = 0
    BY <2>1, BelowNone
  <2>3. QED
    BY <1>2, <2>2
<1>5. ASSUME NEW k \in Nat PROVE Level(k) \in Int
  BY <1>1, <1>2, <1>3
<1>6. ASSUME NEW k \in DOMAIN js
      PROVE  Level(k + 1) = Level(k) + (IF js[k] \in Openers THEN 1
                                        ELSE IF js[k] \in Closers THEN -1 ELSE 0)
  <2>1. /\ k \in Places(Openers) <=> js[k] \in Openers
        /\ k \in Places(Closers) <=> js[k] \in Closers
    BY DEF Places
  <2>2. ~(js[k] \in Openers /\ js[k] \in Closers)
    BY DEF Openers, Closers
  <2>3. PICK O, C, l : O = Places(Openers) /\ C = Places(Closers) /\ l = k + 1
    OBVIOUS
  <2>4. /\ Cardinality(Below(O, k)) \in Nat /\ Cardinality(Below(C, k)) \in Nat
        /\ Cardinality(Below(O, l)) = Cardinality(Below(O, k)) + (IF k \in O THEN 1 ELSE 0)
        /\ Cardinality(Below(C, l)) = Cardinality(Below(C, k)) + (IF k \in C THEN 1 ELSE 0)
    BY <1>1, <1>3, <2>3
  <2>5. /\ Level(k) = Cardinality(Below(O, k)) - Cardinality(Below(C, k))
        /\ Level(l) = Cardinality(Below(O, l)) - Cardinality(Below(C, l))
    BY <1>2, <2>3
  <2>6. QED
    BY <2>1, <2>2, <2>3, <2>4, <2>5
<1>7. QED
  BY <1>4, <1>5, <1>6

\* The text does not change.
LEMMA SameText ==
    ASSUME js' = js
    PROVE  /\ Words' = Words /\ \A S : Places(S)' = Places(S)
           /\ \A k : Level(k)' = Level(k)
           /\ \A k : ClosesOne(k)' <=> ClosesOne(k)
           /\ WellFormed' <=> WellFormed
<1>1. \A S : Places(S)' = Places(S)
  BY DEF Places
<1>2. Words' = Words
  BY <1>1 DEF Words
<1>3. \A k : Level(k)' = Level(k)
  BY <1>1 DEF Level
<1>4. \A k : OpenerOf(k)' = OpenerOf(k)
  BY <1>1, <1>3 DEF OpenerOf
<1>5. \A k : ClosesOne(k)' <=> ClosesOne(k)
  BY <1>4 DEF ClosesOne
<1>6. WellFormed' <=> WellFormed
  BY <1>1, <1>3, <1>4 DEF WellFormed
<1>7. QED
  BY <1>1, <1>2, <1>3, <1>5, <1>6

\* The levels at the tokens as they are next.
LEMMA LevelNext ==
    ASSUME js' = js
    PROVE  /\ Level(pos)' = Level(pos')
           /\ \A x : Level(tokens[x].start)' = Level(tokens'[x].start)
           /\ \A x : Level(tokens[x].end)' = Level(tokens'[x].end)
BY DEF Level, Places

\* Membership, without the set.
LEMMA MembersAre ==
    ASSUME NEW x, NEW l
    PROVE  l \in Members(x) <=> /\ l \in Words /\ tokens[x].start < l /\ l < EndOf(x)
                                /\ Level(l) = Level(tokens[x].start) + 1
BY Zenon DEF Members

\* The open tokens are finitely many; those around one of them are fewer, by one
\* if it is the innermost and by more if it is not.
LEMMA AroundFacts ==
    ASSUME ParserTypes
    PROVE  /\ IsFiniteSet(Opened) /\ Cardinality(Opened) \in Nat
           /\ \A x \in Opened :
                 /\ Cardinality(Below(Opened, x)) \in Nat
                 /\ (\A y \in Opened : y <= x) => Cardinality(Opened) = Cardinality(Below(Opened, x)) + 1
                 /\ Cardinality(Below(Opened, x)) < Cardinality(Opened)
           /\ \A x, y \in Opened : x < y => Cardinality(Below(Opened, x)) < Cardinality(Below(Opened, y))
<1>1. PICK n, S : n = Len(tokens) /\ S = Opened
  OBVIOUS
<1>2. n \in Nat /\ S \subseteq 1..n
  BY <1>1, TokensAre
<1>3. IsFiniteSet(S) /\ Cardinality(S) \in Nat
  <2>1. IsFiniteSet(1..n)
    BY <1>2, FS_Interval
  <2>2. IsFiniteSet(S)
    BY <1>2, <2>1, FS_Subset
  <2>3. QED
    BY <2>2, FS_CardinalityType
<1>4. S \subseteq Nat
  BY <1>2
<1>5. ASSUME NEW x \in S
      PROVE  /\ IsFiniteSet(Below(S, x)) /\ Cardinality(Below(S, x)) \in Nat
             /\ (\A y \in S : y <= x) => Cardinality(S) = Cardinality(Below(S, x)) + 1
             /\ Cardinality(Below(S, x)) < Cardinality(S)
  <2>1. x \in Nat
    BY <1>4
  <2>2. IsFiniteSet(Below(S, x)) /\ Cardinality(Below(S, x)) \in Nat
    BY <1>4, <2>1, BelowFacts
  <2>3. ASSUME \A y \in S : y <= x PROVE Cardinality(S) = Cardinality(Below(S, x)) + 1
    <3>1. \A y : y \in S <=> y \in Below(S, x) \/ y = x
      <4>1. ASSUME NEW y \in S PROVE y < x \/ y = x
        BY <1>4, <2>1, <2>3
      <4>2. QED
        BY <4>1, BelowIs
    <3>2. x \notin Below(S, x)
      <4>1. ~(x < x)
        BY <2>1
      <4>2. QED
        BY <4>1, BelowIs
    <3>3. S = Below(S, x) \cup {x}
      BY <3>1
    <3>4. QED
      BY <2>2, <3>2, <3>3, OneMore
  <2>4. Cardinality(Below(S, x)) < Cardinality(S)
    <3>1. Below(S, x) \in SUBSET S /\ x \in S /\ x \notin Below(S, x)
      <4>1. ~(x < x)
        BY <2>1
      <4>2. QED
        BY <4>1, BelowIs
    <3>2. Below(S, x) # S
      BY <3>1
    <3>3. PICK B : B = Below(S, x)
      OBVIOUS
    <3>4. B \in SUBSET S /\ B # S
      BY <3>1, <3>2, <3>3
    <3>5. Cardinality(B) <= Cardinality(S) /\ Cardinality(B) # Cardinality(S)
      BY <1>3, <3>4, FS_Subset
    <3>6. QED
      BY <1>3, <2>2, <3>3, <3>5
  <2>5. QED
    BY <2>2, <2>3, <2>4
<1>6. ASSUME NEW x \in S, NEW y \in S, x < y
      PROVE  Cardinality(Below(S, x)) < Cardinality(Below(S, y))
  <2>1. y \in Nat
    BY <1>4
  <2>2. QED
    BY <1>4, <1>6, <2>1, BelowLess
<1>7. QED
  BY <1>1, <1>3, <1>5, <1>6

\* The bracket at pos would close the innermost token that is open.
LEMMA OpenerIs ==
    ASSUME ParserTypes, Placed, Ended, Levels, pos \in DOMAIN js,
           NEW i \in Opened, \A x \in Opened : x <= i
    PROVE  OpenerOf(pos) = tokens[i].start /\ tokens[i].start # 0
<1>1. /\ i \in DOMAIN tokens /\ tokens[i].start \in Nat /\ DOMAIN js = 1..Len(js) /\ pos \in Nat
      /\ DOMAIN js \subseteq Nat
  BY TokensAre, TextIs
<1>2. PICK s : s = tokens[i].start
  OBVIOUS
<1>3. s \in Words /\ s < pos /\ js[s] \in Openers
  BY <1>1, <1>2 DEF Placed, Ended, IsOpener
<1>4. s \in Nat /\ s >= 1 /\ s \in Places(Openers)
  <2>1. s \in DOMAIN js
    BY <1>3 DEF Words
  <2>2. QED
    BY <1>1, <1>3, <2>1 DEF Places
<1>5. Level(s) = Level(pos) - 1
  <2>1. Cardinality(Opened) = Cardinality(Below(Opened, i)) + 1 /\ Cardinality(Below(Opened, i)) \in Nat
    BY AroundFacts
  <2>2. Level(pos) = Cardinality(Opened) /\ Level(s) = Cardinality(Below(Opened, i))
    BY <1>2 DEF Levels
  <2>3. QED
    BY <2>1, <2>2
<1>6. \A l \in (s + 1)..pos : Level(l) > Level(s)
  BY <1>1, <1>2, <1>3 DEF Levels, IsOpener
<1>7. \A k \in Nat : Level(k) \in Int
  BY LevelStep
<1>. DEFINE S == {0} \cup {l \in Places(Openers) : l < pos /\ Level(l) = Level(pos) - 1}
<1>8. s \in S
  BY <1>3, <1>4, <1>5
<1>9. ASSUME NEW l \in S PROVE l \in Nat /\ s >= l
  <2>1. CASE l = 0
    BY <1>4, <2>1
  <2>2. CASE l # 0
    <3>1. l \in Places(Openers) /\ l < pos /\ Level(l) = Level(pos) - 1
      BY <2>2
    <3>2. l \in Nat
      BY <3>1, <1>1 DEF Places
    <3>3. l \notin (s + 1)..pos
      BY <1>1, <1>5, <1>6, <1>7, <3>1, <3>2
    <3>4. QED
      BY <1>1, <1>4, <3>1, <3>2, <3>3
  <2>3. QED
    BY <2>1, <2>2
<1>10. OpenerOf(pos) = Max(S)
  BY DEF OpenerOf
<1>. HIDE DEF S
<1>11. S \subseteq Nat
  BY <1>9
<1>12. Max(S) = s
  BY <1>8, <1>9, <1>11, IsMax
<1>13. QED
  BY <1>2, <1>4, <1>10, <1>12

\* A token more: the level goes up if it is open.
LEMMA PushLevels ==
    ASSUME ParserTypes, Placed, Ended, Levels, NEW e, Pushes(e), ParserTypes'
    PROVE  Levels'
<1>1. PICK n, p : n = Len(tokens) /\ p = pos + 1
  OBVIOUS
<1>2. /\ n \in Nat /\ pos \in Nat /\ pos' = p /\ pos \in DOMAIN js /\ js[pos] \notin Closers
      /\ DOMAIN tokens = 1..n /\ DOMAIN tokens' = 1..(n + 1) /\ js' = js
      /\ \A x \in 1..n : x \in Opened' <=> x \in Opened
      /\ n + 1 \in Opened' <=> js[pos] \in Openers
      /\ n + 1 \notin Opened /\ Opened \subseteq 1..n
  BY <1>1, PushFacts DEF Pushes
<1>3. /\ \A x \in 1..n : tokens'[x].start = tokens[x].start /\ tokens'[x].end = tokens[x].end
      /\ tokens'[n + 1].start = pos
  BY <1>1 DEF Pushes
<1>4. /\ \A k : Level(k)' = Level(k)
      /\ Level(pos)' = Level(pos')
      /\ \A x : Level(tokens[x].start)' = Level(tokens'[x].start)
      /\ \A x : Level(tokens[x].end)' = Level(tokens'[x].end)
  BY <1>2, SameText, LevelNext
<1>5. /\ \A k \in Nat : Level(k) \in Int
      /\ Level(p) = Level(pos) + (IF js[pos] \in Openers THEN 1 ELSE 0)
  BY <1>1, <1>2, LevelStep
<1>6. /\ \A k \in 1..pos : Level(k) >= 0
      /\ Level(pos) = Cardinality(Opened)
      /\ \A x \in Opened : Level(tokens[x].start) = Cardinality(Below(Opened, x))
      /\ \A x \in 1..n : IsOpener(x) =>
            \A l \in (tokens[x].start + 1)..pos :
               x \in Opened \/ l < tokens[x].end => Level(l) > Level(tokens[x].start)
      /\ \A x \in 1..n : IsOpener(x) /\ x \notin Opened =>
            Level(tokens[x].end) = Level(tokens[x].start)
  BY <1>2 DEF Levels
<1>7. /\ \A x \in 1..n : IsOpener(x)' <=> IsOpener(x)
      /\ IsOpener(n + 1)' <=> js[pos] \in Openers
  BY <1>2, <1>3 DEF IsOpener
<1>8. \A x : x \in Opened' <=> x \in Opened \/ (x = n + 1 /\ js[pos] \in Openers)
  <2>1. \A x : x \in Opened' => x \in 1..(n + 1)
    BY <1>2 DEF Opened
  <2>2. \A x : x \in 1..(n + 1) <=> x \in 1..n \/ x = n + 1
    BY <1>2
  <2>3. QED
    BY <1>2, <2>1, <2>2
<1>9. /\ IsFiniteSet(Opened) /\ Cardinality(Opened) \in Nat
      /\ \A x \in Opened : Cardinality(Below(Opened, x)) \in Nat
      /\ \A x \in Opened : Cardinality(Below(Opened, x)) < Cardinality(Opened)
  BY AroundFacts
<1>10. \A k \in 1..p : k = p \/ k \in 1..pos
  BY <1>1, <1>2
<1>11. Level(pos) >= 0 /\ Level(p) >= Level(pos) /\ Level(p) \in Int
  BY <1>2, <1>5, <1>6, <1>9, <1>1
<1>12. \A k \in 1..p : Level(k) >= 0
  BY <1>4, <1>5, <1>6, <1>9, <1>10, <1>11
<1>13. Level(p) = Cardinality(Opened')
  <2>1. CASE js[pos] \in Openers
    <3>1. Opened' = Opened \cup {n + 1}
      BY <1>8, <2>1
    <3>2. Cardinality(Opened') = Cardinality(Opened) + 1
      BY <1>2, <1>9, <3>1, OneMore
    <3>3. QED
      BY <1>5, <1>6, <2>1, <3>2
  <2>2. CASE js[pos] \notin Openers
    <3>1. Opened' = Opened
      BY <1>8, <2>2
    <3>2. QED
      BY <1>5, <1>6, <1>9, <2>2, <3>1
  <2>3. QED
    BY <2>1, <2>2
<1>14. ASSUME NEW x \in Opened'
       PROVE  Level(tokens'[x].start) = Cardinality(Below(Opened', x))
  <2>1. CASE x = n + 1
    <3>1. \A y : y \in Below(Opened', x) <=> y \in Opened
      <4>1. \A y \in Opened : y < n + 1
        BY <1>2
      <4>2. ~(n + 1 < n + 1)
        BY <1>2
      <4>3. QED
        BY <1>8, <2>1, <4>1, <4>2, BelowIs
    <3>2. Below(Opened', x) = Opened
      BY <3>1
    <3>3. QED
      BY <1>3, <1>4, <1>6, <2>1, <3>2
  <2>2. CASE x # n + 1
    <3>1. x \in Opened /\ x \in 1..n /\ ~(n + 1 < x)
      <4>1. x \in Opened
        BY <1>8, <1>14, <2>2
      <4>2. x \in 1..n
        BY <1>2, <4>1
      <4>3. QED
        BY <1>2, <4>1, <4>2
    <3>2. Below(Opened', x) = Below(Opened, x)
      <4>1. \A y : y \in Below(Opened', x) <=> y \in Below(Opened, x)
        BY <1>8, <3>1, BelowIs
      <4>2. QED
        BY <4>1
    <3>3. QED
      BY <1>3, <1>4, <1>6, <3>1, <3>2
  <2>3. QED
    BY <2>1, <2>2
<1>15. ASSUME NEW x \in 1..(n + 1), IsOpener(x)',
              NEW l \in (tokens'[x].start + 1)..p, x \in Opened' \/ l < tokens'[x].end
       PROVE  Level(l) > Level(tokens'[x].start)
  <2>1. CASE x = n + 1
    <3>1. js[pos] \in Openers /\ tokens'[x].start = pos
      BY <1>3, <1>7, <1>15, <2>1
    <3>2. l = p
      BY <1>1, <1>2, <1>15, <3>1
    <3>3. Level(p) > Level(pos)
      BY <1>2, <1>5, <3>1
    <3>4. QED
      BY <1>4, <3>1, <3>2, <3>3
  <2>2. CASE x # n + 1
    <3>1. x \in 1..n /\ x \in DOMAIN tokens
      BY <1>2, <2>2
    <3>2. /\ IsOpener(x) /\ tokens[x].start \in Nat /\ tokens[x].start < pos /\ tokens[x].end \in Int
          /\ x \notin Opened => tokens[x].end <= pos
      BY <1>2, <1>7, <1>15, <3>1, TokensAre, TextIs DEF Placed, Ended
    <3>3. /\ l \in (tokens[x].start + 1)..p /\ tokens'[x].start = tokens[x].start
          /\ x \in Opened \/ l < tokens[x].end
      BY <1>2, <1>3, <1>15, <3>1
    <3>4. CASE l \in (tokens[x].start + 1)..pos
      BY <1>4, <1>6, <3>1, <3>2, <3>3, <3>4
    <3>5. CASE l \notin (tokens[x].start + 1)..pos
      <4>1. l = p /\ pos \in (tokens[x].start + 1)..pos
        BY <1>1, <1>2, <3>2, <3>3, <3>5
      <4>2. x \in Opened
        BY <1>1, <1>2, <3>2, <3>3, <4>1
      <4>3. Level(pos) > Level(tokens[x].start) /\ Level(tokens[x].start) \in Int
        BY <1>5, <1>6, <3>1, <3>2, <4>1, <4>2
      <4>4. QED
        BY <1>2, <1>4, <1>5, <1>11, <3>3, <4>1, <4>3
    <3>6. QED
      BY <3>4, <3>5
  <2>3. QED
    BY <2>1, <2>2
<1>16. ASSUME NEW x \in 1..(n + 1), IsOpener(x)', x \notin Opened'
       PROVE  Level(tokens'[x].end) = Level(tokens'[x].start)
  <2>1. x # n + 1
    BY <1>7, <1>2, <1>16
  <2>2. x \in 1..n
    BY <1>2, <2>1
  <2>3. QED
    BY <1>2, <1>3, <1>4, <1>6, <1>7, <1>16, <2>2
<1>17. \A k \in 1..pos' : Level(k)' >= 0
  BY <1>2, <1>4, <1>12
<1>18. Level(pos)' = Cardinality(Opened')
  BY <1>2, <1>4, <1>13
<1>19. \A x \in Opened' : Level(tokens[x].start)' = Cardinality(Below(Opened', x))
  BY <1>4, <1>14
<1>20. \A x \in 1..(n + 1) : IsOpener(x)' =>
          \A l \in (tokens'[x].start + 1)..pos' :
             x \in Opened' \/ l < tokens'[x].end => Level(l)' > Level(tokens[x].start)'
  BY <1>2, <1>4, <1>15
<1>21. \A x \in 1..(n + 1) : IsOpener(x)' /\ x \notin Opened' =>
          Level(tokens[x].end)' = Level(tokens[x].start)'
  BY <1>4, <1>16
<1>22. QED
  BY <1>2, <1>17, <1>18, <1>19, <1>20, <1>21 DEF Levels, Below

\* The innermost token ends: the level is that of its start again.
LEMMA CloseLevels ==
    ASSUME ParserTypes, Placed, Ended, Levels, NEW i, Closes(i), ParserTypes'
    PROVE  Levels'
<1>1. PICK n, p : n = Len(tokens) /\ p = pos + 1
  OBVIOUS
<1>2. /\ n \in Nat /\ pos \in Nat /\ pos' = p /\ pos \in DOMAIN js /\ js[pos] \in Closers
      /\ DOMAIN tokens = 1..n /\ DOMAIN tokens' = 1..n /\ js' = js
      /\ i \in 1..n /\ i \in Opened /\ (\A x \in Opened : x <= i)
      /\ (\A x : x \in Opened' <=> x \in Opened /\ x # i) /\ Opened \subseteq 1..n
  BY <1>1, CloseFacts, TokensAre DEF Closes
<1>3. \A x \in 1..n : /\ tokens'[x].start = tokens[x].start
                      /\ tokens'[x].end = IF x = i THEN p ELSE tokens[x].end
  BY <1>1 DEF Closes
<1>4. /\ \A k : Level(k)' = Level(k)
      /\ Level(pos)' = Level(pos')
      /\ \A x : Level(tokens[x].start)' = Level(tokens'[x].start)
      /\ \A x : Level(tokens[x].end)' = Level(tokens'[x].end)
  BY <1>2, SameText, LevelNext
<1>5. /\ \A k \in Nat : Level(k) \in Int
      /\ Level(p) = Level(pos) - 1
  <2>1. js[pos] \notin Openers
    BY <1>2 DEF Openers, Closers
  <2>2. QED
    BY <1>1, <1>2, <2>1, LevelStep
<1>6. /\ \A k \in 1..pos : Level(k) >= 0
      /\ Level(pos) = Cardinality(Opened)
      /\ \A x \in Opened : Level(tokens[x].start) = Cardinality(Below(Opened, x))
      /\ \A x \in 1..n : IsOpener(x) =>
            \A l \in (tokens[x].start + 1)..pos :
               x \in Opened \/ l < tokens[x].end => Level(l) > Level(tokens[x].start)
      /\ \A x \in 1..n : IsOpener(x) /\ x \notin Opened =>
            Level(tokens[x].end) = Level(tokens[x].start)
  BY <1>2 DEF Levels
<1>7. \A x \in 1..n : IsOpener(x)' <=> IsOpener(x)
  BY <1>2, <1>3 DEF IsOpener
<1>8. /\ IsFiniteSet(Opened) /\ Cardinality(Opened) \in Nat
      /\ Cardinality(Below(Opened, i)) \in Nat
      /\ Cardinality(Opened) = Cardinality(Below(Opened, i)) + 1
      /\ \A x \in Opened : Cardinality(Below(Opened, x)) \in Nat
      /\ \A x \in Opened : x < i => Cardinality(Below(Opened, x)) < Cardinality(Below(Opened, i))
  BY <1>2, AroundFacts
<1>9. Level(p) = Cardinality(Below(Opened, i)) /\ Level(p) = Level(tokens[i].start)
  BY <1>2, <1>5, <1>6, <1>8
<1>10. Level(p) = Cardinality(Opened')
  <2>1. Opened' = Opened \ {i}
    BY <1>2
  <2>2. Cardinality(Opened') = Cardinality(Opened) - 1
    BY <1>2, <1>8, <2>1, FS_RemoveElement
  <2>3. PICK a, b : a = Cardinality(Opened) /\ b = Cardinality(Below(Opened, i))
    OBVIOUS
  <2>4. b \in Nat /\ a = b + 1
    BY <1>8, <2>3
  <2>5. a - 1 = b
    BY <2>4
  <2>6. QED
    BY <1>9, <2>2, <2>3, <2>5, Zenon
<1>11. \A k \in 1..p : Level(k) >= 0
  <2>1. \A k \in 1..p : k = p \/ k \in 1..pos
    BY <1>1, <1>2
  <2>2. Level(p) >= 0
    BY <1>8, <1>9
  <2>3. QED
    BY <1>6, <2>1, <2>2
<1>12. ASSUME NEW x \in Opened'
       PROVE  Level(tokens'[x].start) = Cardinality(Below(Opened', x))
  <2>1. x \in Opened /\ x # i
    BY <1>2, <1>12
  <2>2. x \in 1..n /\ x <= i
    BY <1>2, <2>1
  <2>3. ~(i < x)
    BY <1>2, <2>2
  <2>4. \A y : y \in Below(Opened', x) <=> y \in Below(Opened, x)
    BY <1>2, <2>3, BelowIs
  <2>5. Below(Opened', x) = Below(Opened, x)
    BY <2>4
  <2>6. QED
    BY <1>3, <1>6, <2>1, <2>2, <2>5
<1>13. ASSUME NEW x \in 1..n, IsOpener(x),
              NEW l \in (tokens'[x].start + 1)..p, x \in Opened' \/ l < tokens'[x].end
       PROVE  Level(l) > Level(tokens'[x].start)
  <2>1. /\ tokens[x].start \in Nat /\ tokens[x].start < pos /\ tokens[x].end \in Int
        /\ x \notin Opened => tokens[x].end <= pos
    BY <1>2, TokensAre, TextIs DEF Placed, Ended
  <2>2. l \in (tokens[x].start + 1)..p /\ tokens'[x].start = tokens[x].start
    BY <1>3, <1>13
  <2>3. CASE l \in (tokens[x].start + 1)..pos
    <3>1. x \in Opened \/ l < tokens[x].end
      BY <1>2, <1>3, <1>13
    <3>2. QED
      BY <1>6, <1>13, <2>2, <2>3, <3>1
  <2>4. CASE l \notin (tokens[x].start + 1)..pos
    <3>1. l = p
      BY <1>1, <1>2, <2>1, <2>2, <2>4
    <3>2. x \in Opened'
      BY <1>1, <1>2, <1>3, <1>13, <2>1, <3>1
    <3>3. x \in Opened /\ x # i
      BY <1>2, <3>2
    <3>4. x < i
      BY <1>2, <3>3
    <3>5. Level(tokens[x].start) = Cardinality(Below(Opened, x))
      BY <1>6, <3>3
    <3>6. QED
      BY <1>8, <1>9, <2>2, <3>1, <3>3, <3>4, <3>5
  <2>5. QED
    BY <2>3, <2>4
<1>14. ASSUME NEW x \in 1..n, IsOpener(x), x \notin Opened'
       PROVE  Level(tokens'[x].end) = Level(tokens'[x].start)
  BY <1>2, <1>3, <1>6, <1>9, <1>14
<1>15. \A k \in 1..pos' : Level(k)' >= 0
  BY <1>2, <1>4, <1>11
<1>16. Level(pos)' = Cardinality(Opened')
  BY <1>2, <1>4, <1>10
<1>17. \A x \in Opened' : Level(tokens[x].start)' = Cardinality(Below(Opened', x))
  BY <1>4, <1>12
<1>18. \A x \in 1..n : IsOpener(x)' =>
          \A l \in (tokens'[x].start + 1)..pos' :
             x \in Opened' \/ l < tokens'[x].end => Level(l)' > Level(tokens[x].start)'
  BY <1>2, <1>4, <1>7, <1>13
<1>19. \A x \in 1..n : IsOpener(x)' /\ x \notin Opened' =>
          Level(tokens[x].end)' = Level(tokens[x].start)'
  BY <1>4, <1>7, <1>14
<1>20. QED
  BY <1>2, <1>15, <1>16, <1>17, <1>18, <1>19 DEF Levels, Below

\* The members of a token are finitely many.
LEMMA MembersFinite ==
    ASSUME ParserTypes, NEW x \in DOMAIN tokens
    PROVE  IsFiniteSet(Members(x)) /\ Cardinality(Members(x)) \in Nat
<1>1. DOMAIN js = 1..Len(js) /\ Len(js) \in Nat
  BY TextIs
<1>2. Members(x) \in SUBSET (1..Len(js))
  BY <1>1, MembersAre DEF Words
<1>3. IsFiniteSet(1..Len(js))
  BY <1>1, FS_Interval
<1>4. IsFiniteSet(Members(x))
  BY <1>2, <1>3, FS_Subset
<1>5. QED
  BY <1>4, FS_CardinalityType

\* What is at pos is a member of the innermost open token only.
LEMMA MemberOfSuper ==
    ASSUME ParserTypes, Levels, NEW x \in Opened
    PROVE  Level(pos) = Level(tokens[x].start) + 1 <=> x = toksuper
<1>1. /\ Level(pos) = Cardinality(Opened) /\ Level(tokens[x].start) = Cardinality(Below(Opened, x))
  BY DEF Levels
<1>2. toksuper \in Opened /\ \A y \in Opened : y <= toksuper
  BY SuperIs
<1>3. Opened \subseteq Nat
  BY TokensAre
<1>4. /\ Cardinality(Opened) = Cardinality(Below(Opened, toksuper)) + 1
      /\ Cardinality(Below(Opened, x)) \in Nat /\ Cardinality(Below(Opened, toksuper)) \in Nat
      /\ x < toksuper => Cardinality(Below(Opened, x)) < Cardinality(Below(Opened, toksuper))
  BY <1>2, AroundFacts
<1>5. CASE x = toksuper
  BY <1>1, <1>4, <1>5
<1>6. CASE x # toksuper
  <2>1. x < toksuper
    BY <1>2, <1>3, <1>6
  <2>2. QED
    BY <1>1, <1>4, <1>6, <2>1
<1>7. QED
  BY <1>5, <1>6

\* A word more: toksuper has a member more, and the new token none yet.
LEMMA PushSizes ==
    ASSUME ParserTypes, Placed, Ended, Levels, Sizes, NEW e, Pushes(e), ParserTypes'
    PROVE  Sizes'
<1>1. PICK n : n = Len(tokens)
  OBVIOUS
<1>2. /\ n \in Nat /\ pos \in Nat /\ pos' = pos + 1
      /\ DOMAIN tokens = 1..n /\ DOMAIN tokens' = 1..(n + 1) /\ js' = js
      /\ \A x \in 1..n : x \in Opened' <=> x \in Opened
      /\ Opened \subseteq 1..n
      /\ n + 1 \in Opened' <=> js[pos] \in Openers
  BY <1>1, PushFacts DEF Pushes
<1>3. /\ \A x \in 1..n : /\ tokens'[x].start = tokens[x].start /\ tokens'[x].end = tokens[x].end
                         /\ tokens'[x].size = tokens[x].size + (IF x = toksuper THEN 1 ELSE 0)
      /\ tokens'[n + 1].start = pos /\ tokens'[n + 1].end = e /\ tokens'[n + 1].size = 0
      /\ e = IF js[pos] \in Openers THEN -1 ELSE pos + 1
  BY <1>1 DEF Pushes
<1>4. /\ pos \in Words /\ Words' = Words /\ Words \subseteq Nat
      /\ \A k : Level(k)' = Level(k)
      /\ \A x : Level(tokens[x].start)' = Level(tokens'[x].start)
  <2>1. pos \in DOMAIN js /\ js[pos] \notin Closers
    BY DEF Pushes
  <2>2. QED
    BY <1>2, <2>1, SameText, LevelNext, TextIs DEF Words, Places
<1>5. ASSUME NEW x, NEW l
      PROVE  l \in Members(x)' <=> /\ l \in Words /\ tokens'[x].start < l
                                   /\ l < (IF x \in Opened' THEN pos + 1 ELSE tokens'[x].end)
                                   /\ Level(l) = Level(tokens'[x].start) + 1
  <2>1. l \in Members(x)' <=> /\ l \in Words' /\ tokens'[x].start < l
                              /\ l < (IF x \in Opened' THEN pos' ELSE tokens'[x].end)
                              /\ Level(l)' = Level(tokens[x].start)' + 1
    BY Zenon DEF Members, EndOf
  <2>2. QED
    BY <1>2, <1>4, <2>1
<1>6. ASSUME NEW x \in 1..n
      PROVE  /\ tokens[x].start < pos /\ tokens[x].start \in Nat /\ tokens[x].end \in Int
             /\ tokens[x].size = Cardinality(Members(x)) /\ tokens[x].size \in Nat
             /\ x \notin Opened => tokens[x].end <= pos
  BY <1>2, TokensAre, TextIs DEF Placed, Ended, Sizes
<1>7. ASSUME NEW x \in 1..n, NEW l
      PROVE  l \in Members(x)' <=> l \in Members(x) \/ (l = pos /\ x = toksuper)
  <2>1. toksuper \in Opened \/ toksuper = 0
    BY SuperIs
  <2>2. CASE x \in Opened
    <3>1. Level(pos) = Level(tokens[x].start) + 1 <=> x = toksuper
      BY <2>2, MemberOfSuper
    <3>2. l \in Words => (l < pos + 1 <=> l < pos \/ l = pos)
      BY <1>2, <1>4
    <3>3. l \in Members(x) <=> /\ l \in Words /\ tokens[x].start < l /\ l < pos
                               /\ Level(l) = Level(tokens[x].start) + 1
      BY <2>2, MembersAre DEF EndOf
    <3>4. l \in Members(x)' <=> /\ l \in Words /\ tokens[x].start < l /\ l < pos + 1
                                /\ Level(l) = Level(tokens[x].start) + 1
      BY <1>2, <1>3, <1>5, <2>2
    <3>5. QED
      BY <1>4, <1>6, <3>1, <3>2, <3>3, <3>4
  <2>3. CASE x \notin Opened
    <3>1. x # toksuper
      BY <1>2, <2>1, <2>3
    <3>2. l \in Members(x) <=> /\ l \in Words /\ tokens[x].start < l /\ l < tokens[x].end
                               /\ Level(l) = Level(tokens[x].start) + 1
      BY <2>3, MembersAre DEF EndOf
    <3>3. l \in Members(x)' <=> /\ l \in Words /\ tokens[x].start < l /\ l < tokens[x].end
                                /\ Level(l) = Level(tokens[x].start) + 1
      BY <1>2, <1>3, <1>5, <2>3
    <3>4. QED
      BY <3>1, <3>2, <3>3
  <2>4. QED
    BY <2>2, <2>3
<1>8. ASSUME NEW x \in 1..(n + 1)
      PROVE  tokens'[x].size = Cardinality(Members(x)')
  <2>1. CASE x = n + 1
    <3>1. (IF x \in Opened' THEN pos + 1 ELSE tokens'[x].end) = pos + 1
      BY <1>2, <1>3, <2>1
    <3>2. \A l \in Words : ~(pos < l /\ l < pos + 1)
      BY <1>2, <1>4
    <3>3. \A l : l \notin Members(x)'
      BY <1>3, <1>5, <2>1, <3>1, <3>2
    <3>4. Members(x)' = {}
      BY <3>3
    <3>5. QED
      BY <1>3, <2>1, <3>4, FS_EmptySet
  <2>2. CASE x \in 1..n /\ x = toksuper
    <3>1. Members(x)' = Members(x) \cup {pos}
      <4>1. \A l : l \in Members(x)' <=> l \in Members(x) \/ l = pos
        BY <1>7, <2>2
      <4>2. QED
        BY <4>1
    <3>2. pos \notin Members(x)
      <4>1. EndOf(x) <= pos
        BY <1>2, <1>6, <2>2 DEF EndOf
      <4>2. EndOf(x) \in Int
        BY <1>2, <1>6, <2>2 DEF EndOf
      <4>3. ~(pos < EndOf(x))
        BY <1>2, <4>1, <4>2
      <4>4. QED
        BY <4>3, MembersAre
    <3>3. IsFiniteSet(Members(x))
      BY <1>2, <2>2, MembersFinite
    <3>4. Cardinality(Members(x)') = Cardinality(Members(x)) + 1
      BY <3>1, <3>2, <3>3, OneMore
    <3>5. QED
      BY <1>3, <1>6, <2>2, <3>4
  <2>3. CASE x \in 1..n /\ x # toksuper
    <3>1. \A l : l \in Members(x)' <=> l \in Members(x)
      BY <1>7, <2>3
    <3>2. Members(x)' = Members(x)
      BY <3>1
    <3>3. QED
      BY <1>3, <1>6, <2>3, <3>2
  <2>4. QED
    BY <1>2, <2>1, <2>2, <2>3
<1>9. QED
  BY <1>2, <1>8 DEF Sizes

\* The bracket that closes is no member of any token.
LEMMA CloseSizes ==
    ASSUME ParserTypes, Placed, Ended, Levels, Sizes, NEW i, Closes(i), ParserTypes'
    PROVE  Sizes'
<1>1. PICK n : n = Len(tokens)
  OBVIOUS
<1>2. /\ n \in Nat /\ pos \in Nat /\ pos' = pos + 1
      /\ DOMAIN tokens = 1..n /\ DOMAIN tokens' = 1..n /\ js' = js
      /\ i \in 1..n /\ i \in Opened
      /\ \A x : x \in Opened' <=> x \in Opened /\ x # i
  BY <1>1, CloseFacts DEF Closes
<1>3. \A x \in 1..n : /\ tokens'[x].start = tokens[x].start /\ tokens'[x].size = tokens[x].size
                      /\ tokens'[x].end = IF x = i THEN pos + 1 ELSE tokens[x].end
  BY <1>1 DEF Closes
<1>4. /\ pos \notin Words /\ Words' = Words /\ Words \subseteq Nat
      /\ \A k : Level(k)' = Level(k)
      /\ \A x : Level(tokens[x].start)' = Level(tokens'[x].start)
  <2>1. pos \in DOMAIN js /\ js[pos] \in Closers
    BY DEF Closes
  <2>2. QED
    BY <1>2, <2>1, SameText, LevelNext, TextIs DEF Words, Places
<1>5. ASSUME NEW x, NEW l
      PROVE  l \in Members(x)' <=> /\ l \in Words /\ tokens'[x].start < l
                                   /\ l < (IF x \in Opened' THEN pos + 1 ELSE tokens'[x].end)
                                   /\ Level(l) = Level(tokens'[x].start) + 1
  <2>1. l \in Members(x)' <=> /\ l \in Words' /\ tokens'[x].start < l
                              /\ l < (IF x \in Opened' THEN pos' ELSE tokens'[x].end)
                              /\ Level(l)' = Level(tokens[x].start)' + 1
    BY Zenon DEF Members, EndOf
  <2>2. QED
    BY <1>2, <1>4, <2>1
<1>6. \A l \in Words : l < pos + 1 <=> l < pos
  BY <1>2, <1>4
<1>7. ASSUME NEW x \in 1..n PROVE Members(x)' = Members(x)
  <2>1. CASE x \in Opened
    <3>1. (IF x \in Opened' THEN pos + 1 ELSE tokens'[x].end) = pos + 1
      BY <1>2, <1>3, <2>1
    <3>2. \A l : l \in Members(x) <=> /\ l \in Words /\ tokens[x].start < l /\ l < pos
                                      /\ Level(l) = Level(tokens[x].start) + 1
      BY <2>1, MembersAre DEF EndOf
    <3>3. \A l : l \in Members(x)' <=> l \in Members(x)
      BY <1>3, <1>5, <1>6, <3>1, <3>2
    <3>4. QED
      BY <3>3
  <2>2. CASE x \notin Opened
    <3>1. (IF x \in Opened' THEN pos + 1 ELSE tokens'[x].end) = tokens[x].end
      BY <1>2, <1>3, <2>2
    <3>2. \A l : l \in Members(x) <=> /\ l \in Words /\ tokens[x].start < l /\ l < tokens[x].end
                                      /\ Level(l) = Level(tokens[x].start) + 1
      BY <2>2, MembersAre DEF EndOf
    <3>3. \A l : l \in Members(x)' <=> l \in Members(x)
      BY <1>3, <1>5, <3>1, <3>2
    <3>4. QED
      BY <3>3
  <2>3. QED
    BY <2>1, <2>2
<1>8. QED
  BY <1>2, <1>3, <1>7 DEF Sizes

\* A word is no bracket that closes.
LEMMA PushBegun ==
    ASSUME ParserTypes, Begun, NEW e, Pushes(e)
    PROVE  Begun'
<1>1. /\ pos \in Nat /\ pos' = pos + 1 /\ js' = js /\ js[pos] \notin Closers /\ js[pos] # "bad"
      /\ Places(Closers) \subseteq Nat
  BY TextIs DEF Pushes
<1>2. /\ Places(Closers)' = Places(Closers) /\ \A k : ClosesOne(k)' <=> ClosesOne(k)
  BY <1>1, SameText
<1>3. \A k \in 1..((pos + 1) - 1) : k = pos \/ k \in 1..(pos - 1)
  BY <1>1
<1>4. \A k \in Places(Closers) : k < pos + 1 => k < pos
  <2>1. pos \notin Places(Closers)
    BY <1>1 DEF Places
  <2>2. QED
    BY <1>1, <2>1
<1>5. QED
  BY <1>1, <1>2, <1>3, <1>4 DEF Begun

\* The bracket that closes is of the kind of the one that opened the token.
LEMMA CloseBegun ==
    ASSUME ParserTypes, Placed, Ended, Levels, Begun, NEW i, Closes(i)
    PROVE  Begun'
<1>1. /\ pos \in Nat /\ pos' = pos + 1 /\ js' = js /\ js[pos] \in Closers /\ pos \in DOMAIN js
      /\ Places(Closers) \subseteq Nat
      /\ i \in Opened /\ (\A x \in Opened : x <= i) /\ tokens[i].type = Type(js[pos])
  BY TextIs DEF Closes
<1>2. /\ Places(Closers)' = Places(Closers) /\ \A k : ClosesOne(k)' <=> ClosesOne(k)
  BY <1>1, SameText
<1>3. \A k \in 1..((pos + 1) - 1) : k = pos \/ k \in 1..(pos - 1)
  BY <1>1
<1>4. \A k \in Places(Closers) : k < pos + 1 => k < pos \/ k = pos
  BY <1>1
<1>5. ClosesOne(pos)
  <2>1. OpenerOf(pos) = tokens[i].start /\ tokens[i].start # 0
    BY <1>1, OpenerIs
  <2>2. tokens[i].type = Type(js[tokens[i].start])
    BY <1>1, TokensAre DEF Placed
  <2>3. QED
    BY <1>1, <2>1, <2>2 DEF ClosesOne
<1>6. js[pos] # "bad"
  BY <1>1 DEF Closers
<1>7. QED
  BY <1>1, <1>2, <1>3, <1>4, <1>5, <1>6 DEF Begun

\* Nothing is read yet.
LEMMA TextInit ==
    ASSUME ParserInit, ParserInv
    PROVE  TextInv
<1>1. pos = 1 /\ tokens = <<>> /\ ParserTypes /\ Opened = {}
  BY DEF ParserInit, ParserInv, Opened
<1>2. Level(1) = 0 /\ Cardinality(Opened) = 0
  BY <1>1, LevelStep, FS_EmptySet
<1>3. \A k \in 1..1 : k = 1
  OBVIOUS
<1>4. Level(pos) = Cardinality(Opened)
  BY <1>1, <1>2
<1>5. \A k \in 1..pos : Level(k) >= 0
  BY <1>1, <1>2, <1>3
<1>6. Levels /\ Sizes
  BY <1>1, <1>4, <1>5 DEF Levels, Sizes
<1>7. \A k \in Places(Closers) : ~(k < 1)
  <2>1. DOMAIN js = 1..Len(js) /\ Len(js) \in Nat
    BY <1>1, TextIs
  <2>2. QED
    BY <2>1 DEF Places
<1>8. Begun
  BY <1>1, <1>7 DEF Begun
<1>9. QED
  BY <1>6, <1>8 DEF TextInv

\* What the invariant speaks of may stay as it is.
LEMMA TextStutter ==
    ASSUME TextInv, UNCHANGED <<js, pos, tokens>>
    PROVE  TextInv'
<1>1. /\ Words' = Words /\ \A S : Places(S)' = Places(S)
      /\ \A k : Level(k)' = Level(k)
      /\ \A k : ClosesOne(k)' <=> ClosesOne(k)
  BY SameText
<1>2. /\ Level(pos)' = Level(pos)
      /\ \A x : Level(tokens[x].start)' = Level(tokens[x].start)
      /\ \A x : Level(tokens[x].end)' = Level(tokens[x].end)
  BY LevelNext
<1>3. Opened' = Opened /\ \A x : IsOpener(x)' <=> IsOpener(x)
  BY DEF Opened, IsOpener
<1>4. Levels'
  BY <1>1, <1>2, <1>3 DEF TextInv, Levels, Below
<1>5. \A x : Members(x)' = Members(x)
  BY <1>1, <1>2, <1>3 DEF Members, EndOf
<1>6. Sizes'
  BY <1>5 DEF TextInv, Sizes
<1>7. Begun'
  BY <1>1 DEF TextInv, Begun
<1>8. QED
  BY <1>4, <1>6, <1>7 DEF TextInv

\* Each step of the parser keeps the invariant.
LEMMA TextStep ==
    ASSUME ParserInv, TextInv, Parse
    PROVE  TextInv'
<1>1. ParserTypes /\ Placed /\ Ended /\ Levels /\ Sizes /\ Begun
  BY DEF ParserInv, TextInv
<1>2. ASSUME NEW e, Pushes(e), ParserTypes' PROVE TextInv'
  BY <1>1, <1>2, PushLevels, PushSizes, PushBegun DEF TextInv
<1>3. CASE Open
  BY <1>1, <1>2, <1>3, OpenPushes
<1>4. CASE Leaf
  BY <1>1, <1>2, <1>4, LeafPushes
<1>5. CASE Close
  <2>1. Closes(Max(Opened)) /\ ParserTypes'
    BY <1>1, <1>5, CloseCloses
  <2>2. QED
    BY <1>1, <2>1, CloseLevels, CloseSizes, CloseBegun DEF TextInv
<1>6. CASE Grow \/ Invalid \/ Parsed
  <2>1. UNCHANGED <<js, pos, tokens>>
    BY <1>6 DEF Grow, Invalid, Parsed, parser
  <2>2. QED
    BY <2>1, TextStutter
<1>7. QED
  BY <1>3, <1>4, <1>5, <1>6 DEF Parse

\* The parser gives up on what is not well-formed only: it is at the end and a
\* token is open, or at what is no token, or at a bracket that does not match.
LEMMA InvalidExact ==
    ASSUME ParserInv, TextInv, Invalid
    PROVE  ~WellFormed
<1>1. /\ ParserTypes /\ Placed /\ Ended /\ Levels /\ Begun
      /\ DOMAIN js = 1..Len(js) /\ Len(js) \in Nat /\ pos \in Nat /\ pos \in 1..(Len(js) + 1)
  BY TextIs DEF ParserInv, ParserTypes, TextInv
<1>2. Level(pos) = Cardinality(Opened)
  BY <1>1 DEF Levels
<1>3. CASE pos > Len(js) /\ Opened # {}
  <2>1. pos = Len(js) + 1
    BY <1>1, <1>3
  <2>2. Cardinality(Opened) # 0
    <3>1. IsFiniteSet(Opened)
      BY <1>1, AroundFacts
    <3>2. QED
      BY <1>3, <3>1, FS_EmptySet
  <2>3. Level(Len(js) + 1) # 0
    BY <1>2, <2>1, <2>2
  <2>4. QED
    BY <2>3 DEF WellFormed
<1>4. CASE pos <= Len(js) /\ js[pos] = "bad"
  <2>1. pos \in DOMAIN js
    BY <1>1, <1>4
  <2>2. pos \in Places({"bad"})
    BY <1>4, <2>1 DEF Places
  <2>3. QED
    BY <2>2 DEF WellFormed
<1>5. CASE pos <= Len(js) /\ js[pos] \in Closers /\ ~Matches
  <2>1. pos \in DOMAIN js /\ pos \in Places(Closers)
    BY <1>1, <1>5 DEF Places
  <2>2. SUFFICES ASSUME OpenerOf(pos) # 0, Type(js[OpenerOf(pos)]) = Type(js[pos]) PROVE FALSE
    BY <2>1 DEF WellFormed
  <2>3. CASE Opened = {}
    <3>. DEFINE S == {0} \cup {l \in Places(Openers) : l < pos /\ Level(l) = Level(pos) - 1}
    <3>1. Level(pos) = 0
      BY <1>2, <2>3, FS_EmptySet
    <3>2. ASSUME NEW l \in Places(Openers), l < pos PROVE Level(l) >= 0 /\ Level(l) \in Int
      <4>1. l \in 1..pos /\ l \in Nat
        BY <1>1, <3>2 DEF Places
      <4>2. QED
        BY <1>1, <4>1, LevelStep DEF Levels
    <3>3. ASSUME NEW l \in Places(Openers), l < pos PROVE Level(l) # Level(pos) - 1
      BY <3>1, <3>2, <3>3
    <3>4. S = {0}
      BY <3>3
    <3>5. OpenerOf(pos) = Max(S)
      BY DEF OpenerOf
    <3>. HIDE DEF S
    <3>6. Max({0}) = 0
      BY IsMax
    <3>7. QED
      BY <2>2, <3>4, <3>5, <3>6
  <2>4. CASE Opened # {}
    <3>1. PICK i : i = Max(Opened)
      OBVIOUS
    <3>2. i \in Opened /\ \A x \in Opened : x <= i
      <4>1. PICK n, S : n = Len(tokens) /\ S = Opened
        OBVIOUS
      <4>2. S # {} /\ S \subseteq 0..n /\ n \in Nat /\ S \subseteq Nat
        BY <1>1, <2>4, <4>1, TokensAre
      <4>3. Max(S) \in S /\ \A y \in S : Max(S) >= y
        BY <4>2, MaxIs
      <4>4. QED
        BY <3>1, <4>1, <4>2, <4>3
    <3>3. OpenerOf(pos) = tokens[i].start
      BY <1>1, <2>1, <3>2, OpenerIs
    <3>4. tokens[i].type = Type(js[tokens[i].start])
      BY <1>1, <3>2, TokensAre DEF Placed
    <3>5. tokens[i].type # Type(js[pos])
      BY <1>5, <2>4, <3>1 DEF Matches
    <3>6. QED
      BY <2>2, <3>3, <3>4, <3>5
  <2>5. QED
    BY <2>3, <2>4
<1>6. QED
  BY <1>3, <1>4, <1>5 DEF Invalid

\* A token that ended is closed by the first bracket behind it that is one level up.
LEMMA CloserIs ==
    ASSUME ParserInv, TextInv, NEW x \in DOMAIN tokens, IsOpener(x), x \notin Opened
    PROVE  CloserOf(tokens[x].start) + 1 = tokens[x].end
<1>1. PICK s, c : s = tokens[x].start /\ c = tokens[x].end - 1
  OBVIOUS
<1>2. /\ ParserTypes /\ Levels /\ DOMAIN js = 1..Len(js) /\ Len(js) \in Nat /\ pos \in Nat
      /\ pos \in 1..(Len(js) + 1)
  BY TextIs DEF ParserInv, ParserTypes, TextInv
<1>3. /\ s \in Nat /\ tokens[x].end \in Int /\ tokens[x].end <= pos
      /\ s < c /\ js[c] \in Closers /\ s \in Words
  BY <1>1, <1>2, TokensAre DEF ParserInv, Ended, Placed
<1>4. c \in DOMAIN js /\ c \in Nat /\ s \in DOMAIN js /\ c + 1 = tokens[x].end /\ c < pos
  BY <1>1, <1>2, <1>3 DEF Words
<1>5. /\ \A l \in (s + 1)..pos : l < c + 1 => Level(l) > Level(s)
      /\ Level(c + 1) = Level(s)
  BY <1>1, <1>2, <1>4 DEF Levels
<1>6. \A k \in Nat : Level(k) \in Int
  BY <1>2, LevelStep
<1>7. ASSUME NEW l \in DOMAIN js, js[l] \in Closers PROVE Level(l + 1) = Level(l) - 1
  <2>1. js[l] \notin Openers
    BY <1>7 DEF Openers, Closers
  <2>2. Level(l + 1) = Level(l) + (-1)
    BY <1>2, <1>7, <2>1, LevelStep
  <2>3. l \in Nat
    BY <1>2
  <2>4. QED
    BY <1>6, <2>2, <2>3
<1>. DEFINE S == {l \in Places(Closers) : l > s /\ Level(l) = Level(s) + 1}
<1>8. c \in S
  <2>1. Level(c) = Level(s) + 1
    BY <1>3, <1>4, <1>5, <1>6, <1>7
  <2>2. QED
    BY <1>3, <1>4, <2>1 DEF Places
<1>9. ASSUME NEW l \in S PROVE l \in Nat /\ c <= l
  <2>1. l \in DOMAIN js /\ js[l] \in Closers /\ l > s /\ Level(l) = Level(s) + 1 /\ l \in Nat
    BY <1>2 DEF Places
  <2>2. Level(l + 1) = Level(s)
    BY <1>3, <1>6, <1>7, <2>1
  <2>3. ~(l + 1 \in (s + 1)..pos /\ l + 1 < c + 1)
    BY <1>3, <1>5, <1>6, <2>2
  <2>4. QED
    BY <1>2, <1>3, <1>4, <2>1, <2>3
<1>10. CloserOf(s) = Min(S)
  BY DEF CloserOf
<1>. HIDE DEF S
<1>11. S \subseteq Nat
  BY <1>9
<1>12. Min(S) = c
  BY <1>8, <1>9, <1>11, IsMin
<1>13. QED
  BY <1>1, <1>4, <1>10, <1>12

\* At the end, with every token ended, the text is well-formed.
LEMMA ParsedWellFormed ==
    ASSUME ParserInv, TextInv, pos = Len(js) + 1, Opened = {}
    PROVE  WellFormed
<1>1. /\ ParserTypes /\ Levels /\ Begun /\ DOMAIN js = 1..Len(js) /\ Len(js) \in Nat
  BY TextIs DEF ParserInv, TextInv
<1>2. Level(Len(js) + 1) = 0
  <2>1. Level(pos) = Cardinality(Opened)
    BY <1>1 DEF Levels
  <2>2. QED
    BY <2>1, FS_EmptySet
<1>3. Places({"bad"}) = {}
  <2>1. \A k \in DOMAIN js : k \in 1..(pos - 1)
    BY <1>1
  <2>2. \A k \in DOMAIN js : js[k] # "bad"
    BY <1>1, <2>1 DEF Begun
  <2>3. QED
    BY <2>2 DEF Places
<1>4. \A k \in Places(Closers) : OpenerOf(k) # 0 /\ Type(js[OpenerOf(k)]) = Type(js[k])
  <2>1. \A k \in Places(Closers) : k < pos
    BY <1>1 DEF Places
  <2>2. QED
    BY <1>1, <2>1 DEF Begun, ClosesOne
<1>5. QED
  BY <1>2, <1>3, <1>4 DEF WellFormed

\* The word of a rank is the one with so many before it.
LEMMA AscendingIs ==
    ASSUME NEW S, S \subseteq Nat, NEW n \in 1..Cardinality(S), NEW s \in S,
           Cardinality(Below(S, s)) = n - 1
    PROVE  Ascending(S)[n] = s
<1>1. Ascending(S)[n] = CHOOSE k \in S : Cardinality(Below(S, k)) = n - 1
  BY DEF Ascending, Below
<1>2. \A k \in S : Cardinality(Below(S, k)) = n - 1 => k = s
  BY RankUnique
<1>3. QED
  BY <1>1, <1>2

\* At the end, with every token ended, a token is what the text has at its start.
LEMMA TokenIs ==
    ASSUME ParserInv, TextInv, pos = Len(js) + 1, Opened = {}, NEW x \in DOMAIN tokens
    PROVE  tokens[x] = TokenAt(tokens[x].start)
<1>1. PICK s : s = tokens[x].start
  OBVIOUS
<1>2. /\ ParserTypes /\ Sizes /\ tokens[x] \in TokenType
      /\ tokens[x].type = Type(js[s])
      /\ x \notin Opened
  BY <1>1, TokensAre DEF ParserInv, Placed, TextInv
<1>3. tokens[x].end = IF js[s] \in Openers THEN CloserOf(s) + 1 ELSE s + 1
  <2>1. CASE js[s] \in Openers
    <3>1. IsOpener(x)
      BY <1>1, <2>1 DEF IsOpener
    <3>2. QED
      BY <1>1, <1>2, <2>1, <3>1, CloserIs
  <2>2. CASE js[s] \notin Openers
    BY <1>1, <1>2, <2>2 DEF ParserInv, Ended, IsOpener
  <2>3. QED
    BY <2>1, <2>2
<1>4. PICK e : e = tokens[x].end
  OBVIOUS
<1>5. Members(x) = {l \in DOMAIN js \ Places(Closers) : l > s /\ l < e /\ Level(l) = Level(s) + 1}
  <2>1. EndOf(x) = e
    BY <1>2, <1>4 DEF EndOf
  <2>2. \A l \in Words : s < l <=> l > s
    BY <1>1, <1>2, TokensAre, TextIs
  <2>3. QED
    BY <1>1, <2>1, <2>2 DEF Members, Words
<1>6. tokens[x].size = Cardinality({l \in DOMAIN js \ Places(Closers) :
                                      l > s /\ l < e /\ Level(l) = Level(s) + 1})
  BY <1>2, <1>5 DEF Sizes
<1>7. TokenAt(s) = [type |-> Type(js[s]), start |-> s, end |-> e,
                    size |-> Cardinality({l \in DOMAIN js \ Places(Closers) :
                                            l > s /\ l < e /\ Level(l) = Level(s) + 1})]
  BY <1>3, <1>4 DEF TokenAt
<1>8. tokens[x] = [type |-> tokens[x].type, start |-> tokens[x].start,
                   end |-> tokens[x].end, size |-> tokens[x].size]
  BY <1>2 DEF TokenType
<1>9. QED
  BY <1>1, <1>2, <1>4, <1>6, <1>7, <1>8, Zenon

\* At the end, with every token ended, the tokens are those of the text.
LEMMA ParsedTokens ==
    ASSUME ParserInv, TextInv, pos = Len(js) + 1, Opened = {}
    PROVE  tokens = TokensOfText
<1>1. PICK n : n = Len(tokens)
  OBVIOUS
<1>2. /\ ParserTypes /\ Placed /\ n \in Nat /\ DOMAIN tokens = 1..n
      /\ DOMAIN js = 1..Len(js) /\ Len(js) \in Nat /\ Words \subseteq Nat
  BY <1>1, TokensAre, TextIs DEF ParserInv
<1>3. Cardinality(Words) = n
  <2>1. \A l \in Words : l < pos
    BY <1>2 DEF Words
  <2>2. Below(Words, pos) = Words
    <3>1. \A l : l \in Below(Words, pos) <=> l \in Words
      BY <2>1, BelowIs
    <3>2. QED
      BY <3>1
  <2>3. QED
    BY <1>1, <1>2, <2>2 DEF Placed
<1>4. DOMAIN Ascending(Words) = 1..n
  BY <1>3 DEF Ascending
<1>5. ASSUME NEW x \in 1..n PROVE Ascending(Words)[x] = tokens[x].start
  <2>1. tokens[x].start \in Words /\ Cardinality(Below(Words, tokens[x].start)) = x - 1
    BY <1>2 DEF Placed
  <2>2. x \in 1..Cardinality(Words)
    BY <1>3
  <2>3. QED
    BY <1>2, <2>1, <2>2, AscendingIs
<1>6. ASSUME NEW x \in 1..n PROVE tokens[x] = TokenAt(Ascending(Words)[x])
  BY <1>2, <1>5, TokenIs
<1>7. TokensOfText = [x \in 1..n |-> TokenAt(Ascending(Words)[x])]
  BY <1>4 DEF TokensOfText, Words
<1>8. tokens = [x \in 1..n |-> tokens[x]]
  <2>1. tokens \in Seq(TokenType)
    BY <1>2 DEF ParserTypes
  <2>2. QED
    BY <1>1, <2>1
<1>9. QED
  <2>1. [x \in 1..n |-> tokens[x]] = [x \in 1..n |-> TokenAt(Ascending(Words)[x])]
    BY <1>6
  <2>2. QED
    BY <1>7, <1>8, <2>1
=============================================================================
