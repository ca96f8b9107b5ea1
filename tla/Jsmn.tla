-------------------------------- MODULE Jsmn --------------------------------
(***************************************************************************)
(* The parser of the configuration: read_cfg and parse_cfg of main.c, and  *)
(* jsmn_parse of common/jsmn.c, which stops when the array of tokens is    *)
(* full and goes on where it stopped when it is called with a larger one.  *)
(*                                                                         *)
(* A text is a sequence of lexemes: brackets, strings, the unquoted words  *)
(* that jsmn calls primitives, and "bad", what is no token. An empty or    *)
(* blank file is the text without lexemes, for which no token is filled.   *)
(***************************************************************************)
EXTENDS Integers, Sequences, FiniteSets, FiniteSetsExt, SequencesExt

CONSTANTS
    Texts,       \* the texts that the file may hold
    Junk,        \* what may lie behind it in memory: buffer has no '\0'
    Primitives,  \* the unquoted words
    FirstRoom    \* the tokens there is room for at first, 256 in the code

Openers == {"{", "["}
Closers == {"}", "]"}

ASSUME JsmnAssumption ==
    /\ \A t \in Texts : t \in Seq(ToSet(t))
    /\ \A g \in Junk : g \in Seq(ToSet(g))
    /\ FirstRoom \in Nat \ {0}
    /\ (Openers \cup Closers \cup {"bad"}) \cap Primitives = {}

VARIABLES
    file,      \* the text of the file
    js,        \* what the buffer seems to hold
    pc,        \* where main is; "invalid" and the like are its ends
    pos,       \* parser->pos
    tokens,    \* the tokens filled so far: parser->toknext of them
    toksuper,  \* parser->toksuper, 0 for none
    room       \* the size of the array

parser == <<file, js, pos, tokens, toksuper, room>>

Type(l) ==
    CASE l \in {"{", "}"} -> "OBJECT"
      [] l \in {"[", "]"} -> "ARRAY"
      [] l \in Primitives -> "PRIMITIVE"
      [] OTHER            -> "STRING"

\* malloc leaves what was there before; a '\0' or the lexemes of Junk follow.
ParserInit ==
    /\ file \in Texts
    /\ \E g \in Junk : js = file \o g
    /\ pc = "parse"
    /\ pos = 1 /\ tokens = <<>> /\ toksuper = 0
    /\ room = FirstRoom

Opened == {i \in DOMAIN tokens : tokens[i].end = -1}

\* One more child of toksuper.
Counted == IF toksuper = 0 THEN tokens ELSE [tokens EXCEPT ![toksuper].size = @ + 1]

Parsing == pc = "parse" /\ pos <= Len(js)

\* Faulty: the child is counted before it is known whether there is room.
GrowCounts ==
    /\ Parsing /\ js[pos] \notin Closers \cup {"bad"}
    /\ Len(tokens) >= room
    /\ room' = room * 2 + 1
    /\ tokens' = Counted
    /\ UNCHANGED <<file, js, pc, pos, toksuper>>

\* Faulty: the array is not enlarged.
GrowNot ==
    /\ Parsing /\ js[pos] \notin Closers \cup {"bad"}
    /\ Len(tokens) >= room
    /\ UNCHANGED <<parser, pc>>

\* JSMN_ERROR_NOMEM, and parse_cfg calls again with more room.
Grow ==
    /\ Parsing /\ js[pos] \notin Closers \cup {"bad"}
    /\ Len(tokens) >= room
    /\ room' = room * 2 + 1
    /\ UNCHANGED <<file, js, pc, pos, tokens, toksuper>>

Open ==
    /\ Parsing /\ js[pos] \in Openers /\ Len(tokens) < room
    /\ tokens' = Append(Counted, [type |-> Type(js[pos]), start |-> pos,
                                  end |-> -1, size |-> 0])
    /\ toksuper' = Len(tokens')
    /\ pos' = pos + 1
    /\ UNCHANGED <<file, js, pc, room>>

\* Faulty: nobody looks whether there is room.
LeafNoRoom ==
    /\ Parsing /\ js[pos] \notin Openers \cup Closers \cup {"bad"}
    /\ tokens' = Append(Counted, [type |-> Type(js[pos]), start |-> pos,
                                  end |-> pos + 1, size |-> 0])
    /\ pos' = pos + 1
    /\ UNCHANGED <<file, js, pc, toksuper, room>>

\* jsmn_parse_primitive and jsmn_parse_string
Leaf ==
    /\ Parsing /\ js[pos] \notin Openers \cup Closers \cup {"bad"} /\ Len(tokens) < room
    /\ tokens' = Append(Counted, [type |-> Type(js[pos]), start |-> pos,
                                  end |-> pos + 1, size |-> 0])
    /\ pos' = pos + 1
    /\ UNCHANGED <<file, js, pc, toksuper, room>>

\* Faulty: the brackets need not be of one kind.
MatchesAny == Opened # {}

\* The bracket at pos closes the last token that is open.
Matches == Opened # {} /\ tokens[Max(Opened)].type = Type(js[pos])

Close ==
    /\ Parsing /\ js[pos] \in Closers /\ Matches
    /\ LET i == Max(Opened) IN
       /\ tokens' = [tokens EXCEPT ![i].end = pos + 1]
       /\ toksuper' = Max((Opened \ {i}) \cup {0})
    /\ pos' = pos + 1
    /\ UNCHANGED <<file, js, pc, room>>

\* JSMN_ERROR_INVAL, and JSMN_ERROR_PART at the end: exit(-1)
Invalid ==
    /\ pc = "parse"
    /\ \/ /\ pos > Len(js) /\ Opened # {}
       \/ /\ pos <= Len(js) /\ js[pos] = "bad"
       \/ /\ pos <= Len(js) /\ js[pos] \in Closers /\ ~Matches
    /\ pc' = "invalid"
    /\ UNCHANGED parser

Parsed ==
    /\ pc = "parse" /\ pos > Len(js) /\ Opened = {}
    /\ pc' = "tokens"
    /\ UNCHANGED parser

Parse == Grow \/ Open \/ Leaf \/ Close \/ Invalid \/ Parsed

----------------------------------------------------------------------------
(* What a parser returns, read off the whole text at once.                 *)

Places(S) == {k \in DOMAIN js : js[k] \in S}

\* The numbers of S in ascending order.
Ascending(S) ==
    [n \in 1..Cardinality(S) |-> CHOOSE k \in S : Cardinality({l \in S : l < k}) = n - 1]

Level(k)  == Cardinality({l \in Places(Openers) : l < k})
             - Cardinality({l \in Places(Closers) : l < k})

\* The bracket that the one at k closes.
OpenerOf(k) == Max({0} \cup {l \in Places(Openers) : l < k /\ Level(l) = Level(k) - 1})
CloserOf(k) == Min({l \in Places(Closers) : l > k /\ Level(l) = Level(k) + 1})

WellFormed ==
    /\ Places({"bad"}) = {}
    /\ \A k \in Places(Closers) :
          OpenerOf(k) # 0 /\ Type(js[OpenerOf(k)]) = Type(js[k])
    /\ Level(Len(js) + 1) = 0

TokenAt(k) ==
    LET end == IF js[k] \in Openers THEN CloserOf(k) + 1 ELSE k + 1 IN
    [type  |-> Type(js[k]), start |-> k, end |-> end,
     size  |-> Cardinality({l \in DOMAIN js \ Places(Closers) :
                              l > k /\ l < end /\ Level(l) = Level(k) + 1})]

TokensOfText ==
    LET places == Ascending(DOMAIN js \ Places(Closers))
    IN  [n \in DOMAIN places |-> TokenAt(places[n])]
=============================================================================
