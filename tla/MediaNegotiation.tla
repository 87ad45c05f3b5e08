-------------------------- MODULE MediaNegotiation --------------------------
(***************************************************************************)
(* What one call makes of the session descriptions it is handed: the       *)
(* offers to the applications, the address it anchors the caller at, the   *)
(* offer to the PBX and what it reads of the answers (bridge.go).  Ports,  *)
(* dialogs and failures other than those of a description are CallBridge's *)
(* business and succeed here.                                              *)
(*                                                                         *)
(* Peers read a description by RFC 4566 (StreamAt): a media-level c= line  *)
(* overrides the session's, and belongs to its own section only.           *)
(***************************************************************************)
EXTENDS Sdp

CONSTANTS
    Host,            \* e.mediaHost
    EpPort, PbxPort, \* RTP ports of the call's two pairs
    TapPorts,        \* those of the tap, callerPair and calleePair
    Recorder,        \* the recording application: [host, ports]
    LibCodecs,       \* the audio codecs the WebRTC library knows
    TrackCodec,      \* that of the one track it sends to the webphone: Opus
    Offers, Answers, \* what callers and PBXs may send ...
    CommonOffers, CommonAnswers,  \* ... of which one of the two is always a common one
    AppAnswers       \* the answers of applications other than the recorder

Description == Seq(Line)

ASSUME DescriptionAssumption ==
    /\ Offers \subseteq Description /\ AppAnswers \subseteq Description
    /\ Answers \subseteq Description /\ CommonAnswers \subseteq Description

\* The ports are the allocator's.
ASSUME AnchorAssumption ==
    /\ Host \in Text /\ EpPort \in Nat \ {0} /\ PbxPort \in Nat \ {0}
    /\ TapPorts \in (Nat \ {0}) \X (Nat \ {0})

\* The recorder has an address of its own and a port for each of the two streams.
ASSUME RecorderAssumption ==
    /\ Recorder.host \in IPLiterals \cap Text
    /\ Recorder.ports \in (Nat \ {0}) \X (Nat \ {0})

\* Opus has no static payload type.
ASSUME TrackAssumption == TrackCodec \notin {Empty, "PCMU", "GSM", "PCMA", "G722", "G729"}

\* An error is no result.
ASSUME NilAssumption ==
    /\ Nil \notin Description
    /\ Nil \notin [fmts : Seq(Nat), attrs : Description]
    /\ Nil \notin [pt : Nat, name : Text]
    /\ Nil \notin [host : Text, port : Int]
    /\ Nil \notin Seq([host : Text, port : Int])
    /\ Nil \notin Seq([fmts : Seq(Nat), attrs : Description])

VARIABLES
    stage,       \* how far handleInvite has got
    offer,       \* call.inbound.offerSDP
    tapOffer, tapAnswer,
    tap,         \* what the two tap sides send to; Nil for a side that sends nothing
    epRemote,    \* what the endpoint side sends to (Nil for a secured leg)
    epAnswer,    \* what the caller is answered, or will be (secured leg)
    pbxOffer, pbxAnswer, pbxRemote,
    mismatch     \* MediaCodecMismatch was counted

tapVars == <<tapOffer, tapAnswer, tap>>
vars == <<stage, offer, tapVars, epRemote, epAnswer, pbxOffer, pbxAnswer, pbxRemote, mismatch>>

\* refused: 488, a description without an address; unbuilt: 500, an offer without codecs.
Stages == {"chain", "tapped", "anchored", "dialled", "up", "refused", "unbuilt"}

Init ==
    /\ stage = "chain"
    /\ offer \in Offers
    /\ tapOffer = Nil /\ tapAnswer = Nil /\ tap = <<Nil, Nil>>
    /\ epRemote = Nil /\ epAnswer = Nil
    /\ pbxOffer = Nil /\ pbxAnswer = Nil /\ pbxRemote = Nil
    /\ mismatch = FALSE

\* No application has a tap: none is routed to, or those that are have an inactive stream.
NoTap ==
    /\ stage = "chain"
    /\ stage' = "tapped"
    /\ UNCHANGED <<offer, tapVars, epRemote, epAnswer, pbxOffer, pbxAnswer, pbxRemote, mismatch>>

\* The offer has no codecs an application's offer could copy: the call fails, whatever the
\* application's on_failure.
NotCopied ==
    /\ stage = "chain"
    /\ \/ buildTapOffer(offer, Host, TapPorts[1], TapPorts[2]) = Nil
       \/ buildInactiveOffer(offer, Host) = Nil
    /\ stage' = "unbuilt"
    /\ UNCHANGED <<offer, tapVars, epRemote, epAnswer, pbxOffer, pbxAnswer, pbxRemote, mismatch>>

\* setRemote is skipped for a declined stream and for a host that is no IP literal.
TapTarget(s) == IF s.port > 0 /\ s.host \in IPLiterals THEN s ELSE Nil

\* The application is offered the tap and answers; an answer that is no use gives the tap up.
TapAnswered ==
    /\ stage = "chain"
    /\ stage' = "tapped"
    /\ tapOffer' = buildTapOffer(offer, Host, TapPorts[1], TapPorts[2])
    /\ tapOffer' # Nil
    /\ tapAnswer' \in AppAnswers \cup {buildAnswer(tapOffer', Recorder.host, Recorder.ports)}
    /\ LET read == parseTapAnswer(tapAnswer')
       IN  tap' = IF read = Nil THEN <<Nil, Nil>> ELSE <<TapTarget(read[1]), TapTarget(read[2])>>
    /\ UNCHANGED <<offer, epRemote, epAnswer, pbxOffer, pbxAnswer, pbxRemote, mismatch>>

\* anchorMedia for a plain caller; 488 when its offer cannot be parsed.
AnchorPlain ==
    /\ stage = "tapped" /\ ~offerIsWebRTC(offer)
    /\ epRemote' = parseMedia(offer)
    /\ stage' = IF epRemote' = Nil THEN "refused" ELSE "anchored"
    /\ UNCHANGED <<offer, tapVars, epAnswer, pbxOffer, pbxAnswer, pbxRemote, mismatch>>

\* The codecs of an offer by their names, as the WebRTC library reads them.
NameOf(codecs, pt) ==
    LET maps == {n \in Lines(codecs.attrs, IsRtpmap) : codecs.attrs[n].pt = pt}
    IN  IF maps # {} THEN codecs.attrs[Min(maps)].name ELSE staticAudioRTPMap(pt)

CodecsOffered(codecs) ==
    [n \in DOMAIN codecs.fmts |->
        [pt |-> codecs.fmts[n], name |-> NameOf(codecs, codecs.fmts[n])]]

\* The audio section of the library's answer: the codecs it agrees to, one rtpmap each, and
\* its fingerprint; its address is in its candidates, not in the port and the c= line.
SecuredAnswer(agreed) ==
    <<[AudioLine(9, [n \in DOMAIN agreed |-> agreed[n].pt]) EXCEPT !.secure = TRUE],
      ConnLine(Host)>>
        \o [n \in DOMAIN agreed |->
              [k |-> "rtpmap", pt |-> agreed[n].pt, name |-> agreed[n].name]]
        \o <<[k |-> "fingerprint"]>>

\* With no preference set, the library agrees to every codec it knows, in the offer's order,
\* or to some of them only where the format parameters (left out here) differ from its own; it
\* answers an offer whose audio codecs cannot be listed without audio.
SecuredAnswers(codecs) ==
    IF codecs = Nil THEN {<<ConnLine(Host), [k |-> "fingerprint"]>>}
    ELSE LET offered == CodecsOffered(codecs)
             known == {n \in DOMAIN offered : offered[n].name \in LibCodecs}
         IN  {SecuredAnswer(Keep(offered, K)) : K \in (SUBSET known) \ {{}}}

\* anchorWebRTC: the WebRTC library refuses the offer or answers it.
AnchorSecured ==
    /\ stage = "tapped" /\ offerIsWebRTC(offer)
    /\ \/ stage' = "refused" /\ UNCHANGED epAnswer
       \/ /\ stage' = "anchored"
          /\ epAnswer' \in SecuredAnswers(extractAudioCodecs(offer))
    /\ UNCHANGED <<offer, tapVars, epRemote, pbxOffer, pbxAnswer, pbxRemote, mismatch>>

\* dialPBX and bridgeSecuredToPBX up to originatePBX; 500 when there is no offer to send.
DialPBX ==
    /\ stage = "anchored"
    /\ pbxOffer' = IF offerIsWebRTC(offer) THEN buildPlainOfferFromWebRTC(offer, Host, PbxPort)
                   ELSE rewriteToAnchor(offer, Host, PbxPort)
    /\ stage' = IF pbxOffer' = Nil THEN "unbuilt" ELSE "dialled"
    /\ UNCHANGED <<offer, tapVars, epRemote, epAnswer, pbxAnswer, pbxRemote, mismatch>>

\* A description that does not parse is "cannot tell", not a mismatch.
reportCodecAgreement(endpointSDP, pbxSDP) ==
    LET ep == selectedAudioCodec(endpointSDP)
        pbx == selectedAudioCodec(pbxSDP)
    IN  ep # Nil /\ pbx # Nil /\ ~codecsMatch(ep, pbx)

\* The PBX's answer is read, and passed on, rewritten, to a plain caller.
PBXAnswers ==
    /\ stage = "dialled"
    /\ pbxAnswer' \in IF offer \in CommonOffers THEN Answers ELSE CommonAnswers
    /\ pbxRemote' = parseMedia(pbxAnswer')
    /\ IF pbxRemote' = Nil
       THEN stage' = "refused" /\ UNCHANGED <<epAnswer, mismatch>>
       ELSE /\ stage' = "up"
            /\ epAnswer' = IF offerIsWebRTC(offer) THEN epAnswer
                           ELSE rewriteToAnchor(pbxAnswer', Host, EpPort)
            /\ mismatch' = reportCodecAgreement(epAnswer', pbxAnswer')
    /\ UNCHANGED <<offer, tapVars, epRemote, pbxOffer>>

\* The call is up, or has failed: nothing is negotiated any more.
Settled == stage \in {"up", "refused", "unbuilt"} /\ UNCHANGED vars

Next == NoTap \/ NotCopied \/ TapAnswered \/ AnchorPlain \/ AnchorSecured \/ DialPBX \/ PBXAnswers \/ Settled

Spec == Init /\ [][Next]_vars

-----------------------------------------------------------------------------
(* How a peer reads a description. *)

FirstAudio(sdp) == First(sdp, IsAudio)

\* The c= lines of the section opened at i, and the one that governs it: its own, else the
\* session's.
OwnConns(sdp, i) == {j \in Lines(sdp, IsConn) : i < j /\ j <= SectionEnd(sdp, i)}
Governing(sdp, i) ==
    IF OwnConns(sdp, i) # {} THEN OwnConns(sdp, i)
    ELSE {j \in Lines(sdp, IsConn) : j < First(sdp, IsMedia)}

\* RFC 4566, 5.7: each section has a c= line that governs it, and only one; each c= line has
\* an address.
WellFormed(sdp) ==
    /\ Lines(sdp, IsMedia) # {}
    /\ \A i \in Lines(sdp, IsMedia) : \E j \in DOMAIN sdp : Governing(sdp, i) = {j}
    /\ \A j \in Lines(sdp, IsConn) : sdp[j].addr # Empty

StreamAt(sdp, i) ==
    [host |-> sdp[CHOOSE j \in DOMAIN sdp : j \in Governing(sdp, i)].addr, port |-> sdp[i].port]

LastAudio(sdp) == CHOOSE i \in Lines(sdp, IsAudio) : \A j \in Lines(sdp, IsAudio) : j <= i
OneAudio(sdp) == \A i, j \in Lines(sdp, IsAudio) : i = j

\* The audio section at i has no c= line of its own, and an earlier section that is not
\* audio has one.
Misattributed(sdp, i) ==
    /\ OwnConns(sdp, i) = {}
    /\ \E v \in Lines(sdp, IsMedia) : v < i /\ ~IsAudio(sdp[v]) /\ OwnConns(sdp, v) # {}

Secured == offerIsWebRTC(offer)
Dialled == stage \in {"dialled", "up"}
ReadsAnchor(sdp, port) == StreamAt(sdp, FirstAudio(sdp)) = [host |-> Host, port |-> port]

\* Whether the one c= line rewriteToAnchor replaces is the one that counts, or the sender is
\* at the sequencer's own address.
RewriteReaches(sdp) ==
    \/ First(sdp, IsConn) \in Governing(sdp, FirstAudio(sdp))
    \/ StreamAt(sdp, FirstAudio(sdp)).host = Host

\* rewriteToAnchor: the PBX and the caller send the call's audio to the sequencer's ports
\* exactly when the first c= line of what the other side sent governs its first audio section
\* (or names the sequencer's host already); otherwise (a session-level and a media-level
\* address, or video first) they are told the other side's own address and the media bypasses
\* the anchor.  The offer made for a WebRTC caller has no exception.
PeersSendToAnchor ==
    /\ Dialled /\ Secured => ReadsAnchor(pbxOffer, PbxPort)
    /\ Dialled /\ ~Secured /\ WellFormed(offer) =>
        (ReadsAnchor(pbxOffer, PbxPort) <=> RewriteReaches(offer))
    /\ stage = "up" /\ ~Secured /\ WellFormed(pbxAnswer) =>
        (ReadsAnchor(epAnswer, EpPort) <=> RewriteReaches(pbxAnswer))

\* parseMedia: the sequencer sends audio where the peer receives it.  With several audio
\* sections that is the last one, although rewriteToAnchor, the codecs and the peers go by the
\* first; and the c= line of an earlier video section is taken for the session's.  488 is for
\* descriptions that name nowhere to send to: a caller or a PBX whose only audio section has a
\* port and an IP address is not refused.
ReadsPeer(sdp, remote) ==
    WellFormed(sdp) /\ ~Misattributed(sdp, LastAudio(sdp)) =>
        remote = StreamAt(sdp, LastAudio(sdp))

Reachable(sdp) ==
    /\ WellFormed(sdp) /\ Lines(sdp, IsAudio) # {} /\ OneAudio(sdp)
    /\ ~Misattributed(sdp, FirstAudio(sdp))
    /\ LET stream == StreamAt(sdp, FirstAudio(sdp))
       IN  stream.port # 0 /\ stream.host \in IPLiterals

AnchorSendsToPeers ==
    /\ epRemote # Nil => ReadsPeer(offer, epRemote)
    /\ stage = "up" => ReadsPeer(pbxAnswer, pbxRemote)
    /\ stage = "refused" /\ ~Secured =>
        ~Reachable(IF pbxAnswer = Nil THEN offer ELSE pbxAnswer)

\* The nth audio section; whether a section of another kind that follows it, with a c= line, is
\* read into it; and whether it has no c= line and one in a section before the first audio is
\* taken for the session's.
NthAudio(sdp, n) ==
    CHOOSE i \in Lines(sdp, IsAudio) : Cardinality({j \in Lines(sdp, IsAudio) : j <= i}) = n
Overwritten(sdp, i) ==
    \E j \in Lines(sdp, IsConn) :
        /\ j > SectionEnd(sdp, i)
        /\ \A a \in Lines(sdp, IsAudio) : a <= i \/ a > j
Borrowed(sdp, i) ==
    /\ OwnConns(sdp, i) = {}
    /\ \E v \in Lines(sdp, IsMedia) : v < FirstAudio(sdp) /\ OwnConns(sdp, v) # {}

\* buildTapOffer, the application's answer, parseTapAnswer: the caller's copies go to the
\* application's first audio stream and the callee's to its second, and a stream it declined
\* or placed at a name gets nothing, unless a c= line of a section that is not audio is read
\* for it; the recorder's answer keeps the codecs of the call.
TapStreamsInOrder ==
    tapAnswer # Nil =>
        /\ tap # <<Nil, Nil>> /\ WellFormed(tapAnswer) =>
            \A n \in 1 .. 2 :
                LET i == NthAudio(tapAnswer, n)
                IN  \/ Overwritten(tapAnswer, i) \/ Borrowed(tapAnswer, i)
                    \/ tap[n] = TapTarget(StreamAt(tapAnswer, i))
        /\ tapAnswer \notin AppAnswers =>
            /\ tap = [n \in 1 .. 2 |-> [host |-> Recorder.host, port |-> Recorder.ports[n]]]
            /\ parseOffer(tapAnswer) = [n \in 1 .. 2 |-> extractAudioCodecs(offer)]

\* The rtpmap lines of the first audio section, and whether they say one thing of each type.
Maps(sdp) ==
    {sdp[j] : j \in {n \in Lines(sdp, IsRtpmap) :
                        FirstAudio(sdp) < n /\ n <= SectionEnd(sdp, FirstAudio(sdp))}}
Unambiguous(sdp) == \A l, m \in Maps(sdp) : l.pt = m.pt => l.name = m.name

\* A peer sends in the first codec of the answer it gave or was given.  Where RTP is relayed
\* byte for byte, the other side must have answered that codec under the same payload type.
Decodes(from, to) ==
    LET sent == selectedAudioCodec(from)
        m == to[FirstAudio(to)]
    IN  /\ sent.pt \in {m.fmts[n] : n \in DOMAIN m.fmts}
        /\ \A l \in Maps(to) : l.pt = sent.pt => l.name = sent.name

\* Toward a webphone the library gives every packet the payload type its one track has in its
\* answer, and sends nothing if the answer does not have the track's codec.
TrackDecodes(from, to) ==
    /\ selectedAudioCodec(from).name = TrackCodec
    /\ \E l \in Maps(to) : l.name = TrackCodec

Audible ==
    /\ Decodes(epAnswer, pbxAnswer)
    /\ IF Secured THEN TrackDecodes(pbxAnswer, epAnswer) ELSE Decodes(pbxAnswer, epAnswer)

SeveralFormats(sdp) == Len(sdp[FirstAudio(sdp)].fmts) > 1

\* reportCodecAgreement: a call is counted as a mismatch only if it is silent in some
\* direction or the PBX answered several formats (only the first of each answer is compared);
\* a silent one goes uncounted only when both sides agreed on one codec (codecsMatch compares
\* names) that the PBX renumbered or that is not the Opus of the library's track, or when the
\* PBX gave a payload type two names; a plain call, where the caller is answered with the
\* PBX's own answer, is never counted.
SilentCallIsReported ==
    LET ep == selectedAudioCodec(epAnswer)
        pbx == selectedAudioCodec(pbxAnswer)
    IN  stage = "up" /\ pbx # Nil =>
            /\ mismatch => Secured /\ (Audible => SeveralFormats(pbxAnswer))
            /\ Secured /\ Unambiguous(pbxAnswer) /\ ~Audible =>
                mismatch \/ (ep.name = pbx.name /\ (ep.pt # pbx.pt \/ ep.name # TrackCodec))
=============================================================================
