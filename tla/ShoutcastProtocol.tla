------------------------- MODULE ShoutcastProtocol -------------------------
(***************************************************************************)
(* The Shoutcast helpers (adapter/shoutcast-protocol.ts): what the adapter *)
(* makes of the headers of a source request and of the size of a buffer.   *)
(*                                                                         *)
(* A header is the sequence of its values: empty when absent, longer than  *)
(* one when it was sent several times.  A number header's value is the     *)
(* integer parseInt reads from it, or something that is no integer.  A     *)
(* content type is the set of the marks the code looks for in it.          *)
(***************************************************************************)
EXTENDS Integers, Sequences

Codecs == {"mp3", "aac", "opus"}

\* TShoutcastSourceInfo; the station's name is not used.
SourceInfo == [bitrate: Nat \ {0}, sampleRate: Nat \ {0}, channels: Nat \ {0},
               codec: Codecs]

\* fnFirstString with the callers' defaults.
FirstOr(header, default) == IF header = <<>> THEN default ELSE Head(header)

\* A plausible bug: zero is a number as well.
ParseIntHeader_Zero(header, default) ==
    LET value == FirstOr(header, default) IN
    IF value \in Nat THEN value ELSE default

ParseIntHeader(header, default) ==
    LET value == FirstOr(header, default) IN
    IF value \in Nat \ {0} THEN value ELSE default

DetectCodec(marks) ==
    IF marks \cap {"aac", "mp4a", "aacp"} # {} THEN "aac"
    ELSE IF marks \cap {"opus", "ogg"} # {} THEN "opus"
    ELSE "mp3"

\* A missing content type is taken for audio/mpeg, which has none of the marks.
ParseShoutcastHeaders(headers) ==
    [bitrate |-> ParseIntHeader(headers.br, 128),
     sampleRate |-> ParseIntHeader(headers.sr, 44100),
     channels |-> ParseIntHeader(headers.channels, 2),
     codec |-> DetectCodec(FirstOr(headers.type, {}))]

-----------------------------------------------------------------------------
\* Where the decoded credential has its colons.
Colons(text) == {i \in 1..Len(text) : text[i] = ":"}

\* A plausible bug: the last colon separates.
AfterColon_Last(text) ==
    IF Colons(text) = {} THEN text
    ELSE LET i == CHOOSE i \in Colons(text) : \A j \in Colons(text) : j <= i
         IN  SubSeq(text, i + 1, Len(text))

AfterColon(text) ==
    IF Colons(text) = {} THEN text
    ELSE LET i == CHOOSE i \in Colons(text) : \A j \in Colons(text) : i <= j
         IN  SubSeq(text, i + 1, Len(text))

\* The password an Authorization header carries: a sequence of one, empty for
\* null.
ParseSourcePassword(auth) ==
    IF auth.scheme = "Basic" THEN <<AfterColon(auth.text)>> ELSE <<>>

-----------------------------------------------------------------------------
\* A plausible bug: Math.floor in place of Math.round.
EstimateFrameDurationMs_Floor(bytes, bitrate) ==
    IF bytes <= 0 \/ bitrate <= 0 THEN 0 ELSE (8 * bytes) \div bitrate

\* Math.round(8 * bytes / bitrate): halves are rounded up.
EstimateFrameDurationMs(bytes, bitrate) ==
    IF bytes <= 0 \/ bitrate <= 0 THEN 0
    ELSE (16 * bytes + bitrate) \div (2 * bitrate)
=============================================================================
