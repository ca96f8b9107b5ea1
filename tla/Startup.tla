------------------------------ MODULE Startup -------------------------------
(***************************************************************************)
(* main of main.c up to its event loop: the walk over the tokens of the    *)
(* configuration and, for each output array met, clive_new_channel,        *)
(* clive_channel_add_output, clive_channel_start and clive_channel_add.    *)
(* The http thread runs meanwhile and sees every value of channels.        *)
(***************************************************************************)
EXTENDS Jsmn

CONSTANT NULL

VARIABLES
    i, j,      \* the next token, and how many are still to come
    state,     \* of the walk, with m: the key whose value comes next
    m,
    temp,      \* the CfgStore: input_url and outputs; nobody reads the name
    channel,   \* the channel that is made
    channels   \* all_channels

walk == <<i, j, state, m, temp>>
vars == <<parser, pc, walk, channel, channels>>

NoChannel == [url |-> NULL, skt |-> "none", ts |-> FALSE, flv |-> FALSE, events |-> {}]

\* temp is not initialised: a pointer on the stack may point to anything.
Init ==
    /\ ParserInit
    /\ i = 1 /\ j = 1 /\ state = "START" /\ m = NULL
    /\ \E u \in {NULL, "stray"} : temp = [url |-> u, outputs |-> <<>>]
    /\ channel = NoChannel
    /\ channels = <<>>

----------------------------------------------------------------------------
(* The walk over the tokens.                                               *)

Token == tokens[i]   \* one that the parser filled; see Unfilled
Lexeme == js[Token.start]

\* Faulty: the size of a container is that of all it holds.
MoreOneMore ==
    /\ i' = i + 1
    /\ j' = j - 1 + IF Token.type \in {"OBJECT", "ARRAY"} /\ Token.size > 0
                    THEN Token.size + 1 ELSE 0

\* i++, j-- and j += t->size
More ==
    /\ i' = i + 1
    /\ j' = j - 1 + IF Token.type \in {"OBJECT", "ARRAY"} THEN Token.size ELSE 0

AtToken(s) == pc = "tokens" /\ j > 0 /\ i \in DOMAIN tokens /\ state = s

\* A token as malloc left it. If it seems to be no object, or to have -1 for its
\* start or its end, main returns; there is no telling where another leads it.
Unfilled ==
    /\ pc = "tokens" /\ j > 0 /\ i \notin DOMAIN tokens
    /\ pc' \in {"returned", "stray"}
    /\ UNCHANGED <<parser, walk, channel, channels>>

NoObject ==
    /\ AtToken("START") /\ Token.type # "OBJECT"
    /\ pc' = "returned"
    /\ UNCHANGED <<parser, walk, channel, channels>>

\* The first object goes on to case KEY, which passes over it.
FirstObject ==
    /\ AtToken("START") /\ Token.type = "OBJECT"
    /\ state' = "KEY" /\ More
    /\ UNCHANGED <<parser, pc, m, temp, channel, channels>>

Keys == {"channel_name", "input_url", "output"}

\* The lexemes of these names are the words without quotes.
ASSUME KeysAssumption == Keys \subseteq Primitives

NoKey ==
    /\ AtToken("KEY") /\ Token.type # "PRIMITIVE"
    /\ More
    /\ UNCHANGED <<parser, pc, state, m, temp, channel, channels>>

Key ==
    /\ AtToken("KEY") /\ Token.type = "PRIMITIVE"
    /\ IF Lexeme \in Keys THEN state' = "PRINT" /\ m' = Lexeme
                          ELSE state' = "SKIP" /\ m' = NULL
    /\ More
    /\ UNCHANGED <<parser, pc, temp, channel, channels>>

Skip ==
    /\ AtToken("SKIP")
    /\ state' = "KEY" /\ More
    /\ UNCHANGED <<parser, pc, m, temp, channel, channels>>

\* memset: a url or outputs that came before the name are forgotten.
PrintName ==
    /\ AtToken("PRINT") /\ m = "channel_name"
    /\ temp' = [url |-> NULL, outputs |-> <<>>]
    /\ state' = "KEY" /\ More
    /\ UNCHANGED <<parser, pc, m, channel, channels>>

PrintUrl ==
    /\ AtToken("PRINT") /\ m = "input_url"
    /\ temp' = [temp EXCEPT !.url = Lexeme]
    /\ state' = "KEY" /\ More
    /\ UNCHANGED <<parser, pc, m, channel, channels>>

\* Faulty: the last output is forgotten.
PrintOutputOneLess ==
    /\ AtToken("PRINT") /\ m = "output"
    /\ temp' = [temp EXCEPT !.outputs = SubSeq(js, Token.start + 1,
                                               Token.start + Token.size - 1)]
    /\ pc' = "new"
    /\ state' = "KEY" /\ More
    /\ UNCHANGED <<parser, m, channel, channels>>

\* The scan for output_total strings from the token's start on.
PrintOutput ==
    /\ AtToken("PRINT") /\ m = "output"
    /\ temp' = [temp EXCEPT !.outputs = SubSeq(js, Token.start + 1,
                                               Token.start + Token.size)]
    /\ pc' = "new"
    /\ state' = "KEY" /\ More
    /\ UNCHANGED <<parser, m, channel, channels>>

\* while (1) event_wait
AllTokens ==
    /\ pc = "tokens" /\ j = 0
    /\ pc' = "wait"
    /\ UNCHANGED <<parser, walk, channel, channels>>

Tokens == Unfilled \/ NoObject \/ FirstObject \/ NoKey \/ Key \/ Skip
          \/ PrintName \/ PrintUrl \/ PrintOutput \/ AllTokens

----------------------------------------------------------------------------
(* Making a channel.                                                       *)

Abort ==
    /\ pc' = "aborted"
    /\ UNCHANGED <<parser, walk, channel, channels>>

\* clive_new_channel: socket() may fail, and what bind and listen return is
\* ignored. There is no socket for other protocols: skt is any number.
NewChannel ==
    /\ pc = "new"
    /\ IF temp.url = NULL
       THEN Abort
       ELSE /\ \E s \in IF temp.url \in {"udp", "tcp"} THEN {"open", "failed"}
                                                       ELSE {"stray"} :
                  channel' = [NoChannel EXCEPT !.url = temp.url, !.skt = s]
            /\ pc' = "add_output"
            /\ UNCHANGED <<parser, walk, channels>>

\* The first of the outputs that are left; one of a kind not known is logged.
AddOutput ==
    /\ pc = "add_output" /\ temp.outputs # <<>>
    /\ LET o == Head(temp.outputs) IN
       channel' = [channel EXCEPT !.flv = @ \/ o \in {"flv", "rtmp"},
                                  !.ts  = @ \/ o \in {"ts", "m3u8"}]
    /\ temp' = [temp EXCEPT !.outputs = Tail(@)]
    /\ UNCHANGED <<parser, pc, i, j, state, m, channels>>

\* event_add_conn may fail, which nobody looks at.
EventAddConn == {{}, {"in", "out"}}

EventDelOut(e) == e \ {"out"}

\* clive_channel_start: event_add_conn aborts when skt is not positive;
\* event_del_out follows for udp and tcp.
ChannelStart ==
    /\ pc = "add_output" /\ temp.outputs = <<>>
    /\ \/ channel.skt # "open" /\ Abort
       \/ /\ channel.skt # "failed"
          /\ \E e \in EventAddConn :
                channel' = [channel EXCEPT
                    !.events = IF channel.url \in {"udp", "tcp"} THEN EventDelOut(e) ELSE e]
          /\ pc' = "add"
          /\ UNCHANGED <<parser, walk, channels>>

\* ListAdd may find no memory.
ChannelAdd ==
    /\ pc = "add"
    /\ channels' \in {channels, Append(channels, channel)}
    /\ channel' = NoChannel
    /\ pc' = "tokens"
    /\ UNCHANGED <<parser, walk>>

Make == NewChannel \/ AddOutput \/ ChannelStart \/ ChannelAdd

Next == (Parse /\ UNCHANGED <<walk, channel, channels>>) \/ Tokens \/ Make

Spec == Init /\ [][Next]_vars /\ WF_vars(Next)

----------------------------------------------------------------------------
(* Properties.                                                             *)

Ends == {"invalid", "returned", "aborted", "wait", "stray"}

ChannelType == [url : {NULL, "stray"} \cup {js[k] : k \in DOMAIN js},
                skt : {"none", "open", "failed", "stray"},
                ts : BOOLEAN, flv : BOOLEAN, events : SUBSET {"in", "out"}]

\* The variables keep their types.
TypeOK ==
    /\ pc \in Ends \cup {"parse", "tokens", "new", "add_output", "add"}
    /\ pos \in 1..(Len(js) + 1) /\ room \in Nat
    /\ toksuper \in 0..Len(tokens) /\ Len(tokens) <= room
    /\ i \in Nat /\ j \in Nat
    /\ state \in {"START", "KEY", "SKIP", "PRINT"}
    /\ m \in Keys \cup {NULL}
    /\ channel \in ChannelType
    /\ \A c \in ToSet(channels) : c \in ChannelType

\* The parser accepts the well-formed texts, and however often it ran out of
\* tokens and was called again, its tokens are those of the text.
ParseExact ==
    /\ pc = "invalid" => ~WellFormed
    /\ pc = "tokens" /\ state = "START" => WellFormed /\ tokens = TokensOfText

\* The walk reads a token that the parser did not fill just when what the buffer
\* seems to hold has no lexeme at all (main.c:114-119 then looks at tokens[0]), and
\* it comes to the event loop with the first value of the text behind it.
ReadsFilled ==
    /\ pc = "tokens" /\ j > 0 => (i \in DOMAIN tokens <=> js # <<>>)
    /\ pc = "wait" => i = Cardinality({k \in DOMAIN tokens :
                                          tokens[k].start < tokens[1].end}) + 1

\* The outputs there is room for in temp.
MAX_OUTPUTS == 5

\* A configuration of the form that README.md shows: it is not empty, each unquoted word is a key
\* with its value behind it, output is an array of at most MAX_OUTPUTS strings, and
\* an input_url comes before it in the same object.
AsDocumented(t) ==
    LET Those(S) == {k \in DOMAIN t : t[k] \in S} IN
    /\ t # <<>>
    /\ Cardinality(Those(Openers)) = Cardinality(Those(Closers))
    /\ \A k \in Those(Primitives) :
          k < Len(t) /\ t[k + 1] \notin Primitives \cup Closers \cup {"bad"}
    /\ \A k \in Those({"output"}) :
          /\ t[k + 1] = "["
          /\ \E e \in (k + 2)..Len(t) :
                /\ t[e] = "]" /\ e - (k + 2) <= MAX_OUTPUTS
                /\ \A l \in (k + 2)..(e - 1) :
                      t[l] \notin Openers \cup Closers \cup Primitives
          /\ \E l \in 1..(k - 1) :
                t[l] = "input_url" /\ \A n \in l..k : t[n] \notin {"{", "}"}

\* What the channel should be whose output array is the value at k + 1: its url is
\* that of the same object, none that was left by a channel before.
Said(k) ==
    LET own == Max({0} \cup {l \in Places({"{", "}"}) : l < k})
        url == js[Max({l \in Places({"input_url"}) : own < l /\ l < k}) + 1]
        end == Min({l \in Places({"]"}) : l > k})
        outs == {js[l] : l \in (k + 2)..(end - 1)}
    IN  [url |-> url, ts |-> outs \cap {"ts", "m3u8"} # {},
         flv |-> outs \cap {"flv", "rtmp"} # {}]

ListedAs(c) == [url |-> c.url, ts |-> c.ts, flv |-> c.flv]

\* At any moment all_channels holds channels that the configuration describes,
\* finished, in its order and each once; the http thread may look at any time.
\* (A channel is left out only when there is no memory for its entry.)
ChannelsOfFile ==
    channels # <<>> =>
    \E S \in kSubset(Len(channels), Places({"output"})) :
       LET places == Ascending(S) IN
       \A n \in DOMAIN places : ListedAs(channels[n]) = Said(places[n])

\* main comes to its event loop, to an exit, or to a token that was never filled.
StartupEnds == <>(pc \in Ends)
=============================================================================
