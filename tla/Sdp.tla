-------------------------------- MODULE Sdp ---------------------------------
(***************************************************************************)
(* The operators on session descriptions of internal/b2bua/sdp.go and of   *)
(* the recording application's sdp.go.  A description is a sequence of     *)
(* lines; a line (Line) is abstracted to what some operator reads of it.   *)
(* Every other line is passed through by all of them and is left out, as   *)
(* are line endings.                                                       *)
(*                                                                         *)
(* Definitions named Mut... are defects the code might have had.           *)
(***************************************************************************)
EXTENDS Integers, Sequences, FiniteSetsExt

CONSTANTS
    Nil,         \* an operator's error
    Text,        \* what a field of a line may hold: strings
    IPLiterals   \* the addresses net.ParseIP accepts

Empty == ""   \* what a string variable of the code starts as

ASSUME TextAssumption ==
    /\ {Empty, "audio", "sendrecv", "recvonly", "inactive"} \subseteq Text
    /\ {"PCMU", "GSM", "PCMA", "G722", "G729"} \subseteq Text
    /\ Empty \notin IPLiterals

\* m=<media> <port> <proto> <fmts>; secure: the profile is RTP/SAVP(F); fmts = <<>>: fewer
\* than four fields
MediaLine == [k : {"m"}, media : Text, port : Int, secure : BOOLEAN, fmts : Seq(Nat)]
RtpmapLine == [k : {"rtpmap"}, pt : Nat, name : Text]
Line ==
    MediaLine \cup RtpmapLine
        \cup [k : {"c"}, addr : Text]      \* c=IN IP4 <addr>
        \cup [k : {"fmtp"}, pt : Nat]
        \cup [k : {"fingerprint"}]           \* the DTLS attribute of a browser
        \cup [k : {"dir"}, dir : Text]     \* a=sendrecv, recvonly, inactive

IsMedia(l) == l.k = "m"
IsAudio(l) == l.k = "m" /\ l.media = "audio"
IsConn(l) == l.k = "c"

\* The positions of the lines that pass the test, and the first of them, one beyond the end
\* if there is none.
Lines(sdp, Test(_)) == {i \in DOMAIN sdp : Test(sdp[i])}
First(sdp, Test(_)) == Min(Lines(sdp, Test) \cup {Len(sdp) + 1})

\* The lines of the section that the m= line at i opens, and where it ends.
SectionEnd(sdp, i) == Min({j \in Lines(sdp, IsMedia) : i < j} \cup {Len(sdp) + 1}) - 1
Section(sdp, i) == SubSeq(sdp, i + 1, SectionEnd(sdp, i))

\* One pass over a sequence, element by element: what it has made of the first i.
Pass(Read(_, _), start, s) ==
    LET pass[i \in 0 .. Len(s)] == IF i = 0 THEN start ELSE Read(pass[i - 1], s[i])
    IN  pass

\* The elements of s at the positions in at, in order.
KeepPass(s, at) ==
    LET Read(acc, i) == IF i \in at THEN Append(acc, s[i]) ELSE acc
    IN  Pass(Read, <<>>, [i \in DOMAIN s |-> i])
Keep(s, at) == KeepPass(s, at)[Len(s)]

AudioLine(port, fmts) ==
    [k |-> "m", media |-> "audio", port |-> port, secure |-> FALSE, fmts |-> fmts]
ConnLine(addr) == [k |-> "c", addr |-> addr]
DirLine(dir) == [k |-> "dir", dir |-> dir]

-----------------------------------------------------------------------------
(* Codecs: always those of the first audio section. *)

IsRtpmap(l) == l.k = "rtpmap"
IsFmtp(l) == l.k = "fmtp"

CodecsOf(fmts, section) ==
    [fmts |-> fmts,
     attrs |-> Keep(section, Lines(section, IsRtpmap)) \o Keep(section, Lines(section, IsFmtp))]

extractAudioCodecs(sdp) ==
    LET i == First(sdp, IsAudio)
    IN  IF i > Len(sdp) THEN Nil
        ELSE IF sdp[i].fmts = <<>> THEN Nil
        ELSE CodecsOf(sdp[i].fmts, Section(sdp, i))

\* A type without a name here, and without an rtpmap, has the empty name.
staticAudioRTPMap(pt) ==
    CASE pt = 0 -> "PCMU" [] pt = 3 -> "GSM" [] pt = 8 -> "PCMA" [] pt = 9 -> "G722"
      [] pt = 18 -> "G729" [] OTHER -> Empty

\* The name and the payload type of the agreed codec; the clock rate is part of the name.
selectedAudioCodec(sdp) ==
    LET i == First(sdp, IsAudio)
    IN  IF i > Len(sdp) THEN Nil
        ELSE IF sdp[i].fmts = <<>> THEN Nil
        ELSE LET pt == Head(sdp[i].fmts)
                 maps == {n \in Lines(sdp, IsRtpmap) :
                            i < n /\ n <= SectionEnd(sdp, i) /\ sdp[n].pt = pt}
             IN  [pt |-> pt,
                  name |-> IF maps # {} THEN sdp[Min(maps)].name ELSE staticAudioRTPMap(pt)]

MutPayloadTypes(a, b) == a.pt = b.pt

codecsMatch(a, b) == IF a.name = Empty /\ b.name = Empty THEN a.pt = b.pt ELSE a.name = b.name

offerIsWebRTC(sdp) ==
    \E i \in DOMAIN sdp : sdp[i].k = "fingerprint" \/ (IsAudio(sdp[i]) /\ sdp[i].secure)

-----------------------------------------------------------------------------
(* The offers the engine writes itself. *)

Block(host, port, codecs, dir) ==
    <<AudioLine(port, codecs.fmts), ConnLine(host)>> \o codecs.attrs \o <<DirLine(dir)>>

buildTapOffer(callOffer, host, port1, port2) ==
    LET codecs == extractAudioCodecs(callOffer)
    IN  IF codecs = Nil THEN Nil
        ELSE Block(host, port1, codecs, "recvonly") \o Block(host, port2, codecs, "recvonly")

buildInactiveOffer(callOffer, host) ==
    LET codecs == extractAudioCodecs(callOffer)
    IN  IF codecs = Nil THEN Nil ELSE Block(host, 0, codecs, "inactive")

buildPlainOfferFromWebRTC(offer, host, port) ==
    LET codecs == extractAudioCodecs(offer)
    IN  IF codecs = Nil THEN Nil ELSE Block(host, port, codecs, "sendrecv")

-----------------------------------------------------------------------------
(* Addresses. *)

MutStickyHost(acc, l) ==
    CASE IsMedia(l) ->
            [acc EXCEPT !.inAudio = IsAudio(l), !.port = IF IsAudio(l) THEN l.port ELSE @]
      [] IsConn(l) /\ acc.inAudio -> [acc EXCEPT !.host = l.addr]
      [] IsConn(l) /\ ~acc.inAudio ->
            [acc EXCEPT !.session = l.addr, !.host = IF @ = Empty THEN l.addr ELSE @]
      [] OTHER -> acc

\* One line of parseMedia's pass.  A c= line outside an audio section becomes the
\* session's, whichever section it is in; every audio section starts over.
ReadMedia(acc, l) ==
    CASE IsMedia(l) ->
            [acc EXCEPT !.inAudio = IsAudio(l),
                        !.port = IF IsAudio(l) THEN l.port ELSE @,
                        !.host = IF IsAudio(l) THEN acc.session ELSE @]
      [] IsConn(l) /\ acc.inAudio -> [acc EXCEPT !.host = l.addr]
      [] IsConn(l) /\ ~acc.inAudio ->
            [acc EXCEPT !.session = l.addr, !.host = IF @ = Empty THEN l.addr ELSE @]
      [] OTHER -> acc

MediaPass(sdp) ==
    Pass(ReadMedia, [inAudio |-> FALSE, session |-> Empty, host |-> Empty, port |-> 0], sdp)

parseMedia(sdp) ==
    LET end == MediaPass(sdp)[Len(sdp)]
    IN  IF end.port = 0 \/ end.host \notin IPLiterals THEN Nil
        ELSE [host |-> end.host, port |-> end.port]

\* One line of parseTapAnswer's pass: a c= line belongs to the audio line before it.
ReadTap(acc, l) ==
    CASE IsAudio(l) ->
            [acc EXCEPT !.streams = Append(@, [host |-> acc.session, port |-> l.port])]
      [] IsConn(l) /\ acc.streams # <<>> ->
            [acc EXCEPT !.streams[Len(acc.streams)].host = l.addr]
      [] IsConn(l) /\ acc.streams = <<>> -> [acc EXCEPT !.session = l.addr]
      [] OTHER -> acc

TapPass(answer) == Pass(ReadTap, [session |-> Empty, streams |-> <<>>], answer)

parseTapAnswer(answer) ==
    LET streams == TapPass(answer)[Len(answer)].streams
    IN  IF Len(streams) < 2 THEN Nil ELSE <<streams[1], streams[2]>>

MutFirstMediaLine(sdp, host, port) ==
    [i \in DOMAIN sdp |->
        IF i = First(sdp, IsConn) THEN ConnLine(host)
        ELSE IF i = First(sdp, IsMedia) THEN [sdp[i] EXCEPT !.port = port]
        ELSE sdp[i]]

\* Only the first c= line and the first audio line change.
rewriteToAnchor(sdp, host, port) ==
    [i \in DOMAIN sdp |->
        IF i = First(sdp, IsConn) THEN ConnLine(host)
        ELSE IF i = First(sdp, IsAudio) THEN [sdp[i] EXCEPT !.port = port]
        ELSE sdp[i]]

-----------------------------------------------------------------------------
(* The recording application. *)

\* One entry for each audio section, or Nil.
parseOffer(sdp) ==
    LET audio == Keep([i \in DOMAIN sdp |-> i], Lines(sdp, IsAudio))
    IN  IF audio = <<>> \/ \E n \in DOMAIN audio : sdp[audio[n]].fmts = <<>> THEN Nil
        ELSE [n \in DOMAIN audio |-> CodecsOf(sdp[audio[n]].fmts, Section(sdp, audio[n]))]

\* The blocks of an answer, one after the other.
AnswerPass(host, ports, streams) ==
    LET Write(acc, n) == acc \o Block(host, ports[n], streams[n], "recvonly")
    IN  Pass(Write, <<>>, [n \in DOMAIN streams |-> n])
AnswerBlocks(host, ports, streams) == AnswerPass(host, ports, streams)[Len(streams)]

MutPortsSwapped(offer, host, ports) ==
    LET streams == parseOffer(offer)
    IN  IF streams = Nil THEN Nil
        ELSE AnswerBlocks(host, [n \in DOMAIN streams |-> ports[Len(streams) + 1 - n]], streams)

buildAnswer(offer, host, ports) ==
    LET streams == parseOffer(offer)
    IN  IF streams = Nil THEN Nil
        ELSE IF Len(ports) < Len(streams) THEN Nil
        ELSE AnswerBlocks(host, ports, streams)
=============================================================================
