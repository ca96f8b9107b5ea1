----------------------------- MODULE MCStartup ------------------------------
(***************************************************************************)
(* Texts: all short ones, which try the parser, and whole configurations   *)
(* of the form shown in README.md: channels with a name, an input_url and  *)
(* outputs, in this order or with the first two exchanged, and perhaps     *)
(* a key that main does not know.                                          *)
(***************************************************************************)
EXTENDS Startup

MCPrimitives == Keys \cup {"channels", "other"}

Short == BoundedSeq({"{", "}", "[", "]", "input_url", "text"}, 4)

Name == <<"channel_name", "text">>
Entries ==
    {<<"{">> \o k \o <<"output", "[">> \o o \o <<"]", "}">> :
        k \in UNION {{Name \o <<"input_url", u>>, <<"input_url", u>> \o Name,
                      Name \o <<"input_url", u, "other", "text">>,
                      Name \o <<"other", "[", "text", "]", "input_url", u>>} :
                     u \in {"udp", "rtmp"}},
        o \in {<<>>, <<"ts">>, <<"flv", "mp4", "m3u8">>}}

Configs ==
    {<<"{", "channels", "[">> \o s \o <<"]", "}">> :
        s \in {a \o b : a \in Entries, b \in Entries \cup {<<>>}}}

ASSUME \A t \in Configs : AsDocumented(t)

MCTexts == Short \cup Configs
MCJunk == {<<>>, <<"bad">>, <<"}">>, <<"{">>, <<"input_url">>}
=============================================================================
