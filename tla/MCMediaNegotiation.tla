------------------------- MODULE MCMediaNegotiation -------------------------
(***************************************************************************)
(* Every description of up to four lines (MaxLines) of an alphabet that    *)
(* has two addresses, a host name and an empty address, two audio          *)
(* sections, a declined one, one with too few fields, video, two mappings  *)
(* of one payload type and a fingerprint.                                  *)
(***************************************************************************)
EXTENDS MediaNegotiation

CONSTANTS MaxLines

MCText == STRING

Audio(port, fmts) == AudioLine(port, fmts)
Video == [k |-> "m", media |-> "video", port |-> 30, secure |-> FALSE, fmts |-> <<97>>]
Opus(pt) == [k |-> "rtpmap", pt |-> pt, name |-> "opus"]

Alphabet ==
    {ConnLine("a"), ConnLine("anchor"), ConnLine("name"), ConnLine(""),
     Audio(10, <<0, 96>>), Audio(20, <<96>>), Audio(0, <<0>>), Audio(10, <<>>),
     Video, Opus(96), [Opus(96) EXCEPT !.name = "L16"], [k |-> "fingerprint"]}

AllDescriptions == UNION {[1 .. n -> Alphabet] : n \in 1 .. MaxLines}

Plain == <<ConnLine("a"), Audio(10, <<0, 96>>), Opus(96)>>
Browser == <<ConnLine("a"), Audio(10, <<96, 0>>), Opus(96), [k |-> "fingerprint"]>>
MCCommonOffers == {Plain, Browser}
MCOffers == AllDescriptions \cup MCCommonOffers

PlainAnswer(pt) == <<ConnLine("b"), Audio(20, <<pt>>), Opus(96)>>
Renumbered == <<ConnLine("b"), Audio(20, <<98>>), Opus(98)>>
TwoFormats == <<ConnLine("b"), Audio(20, <<96, 0>>), Opus(96)>>
MCCommonAnswers == {PlainAnswer(0), PlainAnswer(96), Renumbered, TwoFormats}
MCAnswers == AllDescriptions \cup MCCommonAnswers

MCTapPorts == <<104, 106>>
MCRecorder == [host |-> "r", ports |-> <<200, 202>>]
MCAppAnswers ==
    {<<ConnLine("r"), Audio(200, <<0>>), Audio(202, <<0>>)>>,
     <<ConnLine("r"), Audio(200, <<0>>), Video, ConnLine("b"), Audio(0, <<0>>)>>,
     <<ConnLine("r"), Video, ConnLine("b"), Audio(200, <<0>>), Audio(202, <<0>>)>>,
     <<Audio(200, <<0>>), ConnLine("name"), Audio(202, <<0>>), ConnLine("r")>>,
     <<ConnLine("r"), Audio(200, <<0>>)>>}
=============================================================================
