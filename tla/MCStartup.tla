----------------------------- MODULE MCStartup ------------------------------
(***************************************************************************)
(* A good document has a TLS listener and a TLS next hop.  Checked are all *)
(* documents within two changes of it that concern its listeners, legs,    *)
(* profiles, files, ports or idle timeout, which depend on each other, and *)
(* all within one change that concerns anything else; and every peer       *)
(* within two changes of one that both contexts let in.                    *)
(***************************************************************************)
EXTENDS Startup

\* r with field f set to each of the values.
Set(r, f, values) == {[r EXCEPT ![f] = v] : v \in values}

ProfileChanges(p) ==
    {[p EXCEPT !.cert = "c1", !.key = "k1"], [p EXCEPT !.key = "sealed", !.passphrase = "x"]}
    \cup Set(p, "cert", {"", "absent"}) \cup Set(p, "key", {"", "absent", "sealed", "pkcs8", "k1"})
    \cup Set(p, "passphrase", {"x", "y"}) \cup Set(p, "ca", {"", "ca1", "absent", "empty"})
    \cup Set(p, "minVersion", {"tlsv1.3", "tlsv1.1"}) \cup Set(p, "ciphers", {{"s1"}, {"bogus"}, {""}})
    \cup Set(p, "verifyPeer", {FALSE}) \cup Set(p, "verifyDepth", {-1, 0, 1})
    \cup Set(p, "verifyDates", {FALSE}) \cup Set(p, "verifySubjects", {{"alice"}, {""}})
    \cup Set(p, "connectTimeout", {"1s", "x"})

App == [name |-> "app", uri |-> "u", onFailure |-> "", media |-> "", transport |-> "",
        profile |-> "", timeout |-> "", routing |-> Nil]

AppChanges(a) ==
    {[a EXCEPT !.transport = "tls", !.profile = "p"]}
    \cup Set(a, "transport", {"tcp", "tls", "x"}) \cup Set(a, "profile", {"p", "x"})

OtherAppChanges(a) ==
    Set(a, "name", {""}) \cup Set(a, "uri", {""}) \cup Set(a, "onFailure", {"abort", "x"})
    \cup Set(a, "media", {"tap", "x"}) \cup Set(a, "timeout", {"0s", "-1s", "1s", "x"})
    \cup Set(a, "routing", {[from |-> "(", to |-> ""], [from |-> "a", to |-> ""]})

HopChanges(h) ==
    {Nil, [h EXCEPT !.transport = "", !.profile = ""]}
    \cup Set(h, "uri", {""}) \cup Set(h, "transport", {"", "tcp", "x"})
    \cup Set(h, "profile", {"", "p", "x"})

Addresses == {"", "host", "host:name"}

DocumentChanges(d) ==
    Set(d, "sip", Addresses) \cup Set(d, "ws", {"host:port", "host"})
    \cup {[d EXCEPT !.tls = t] : t \in Set(d.tls, "listen", Addresses) \cup Set(d.tls, "profile", {"", "q", "x"})}
    \cup Set(d, "wss", {[listen |-> "host:port", profile |-> n] : n \in {"p", "q", "x", ""}})
    \cup (IF d.nextHop = Nil THEN {} ELSE Set(d, "nextHop", HopChanges(d.nextHop)))
    \cup Set(d, "portRange", {<<>>, <<7>>, <<7, 9>>, <<8, 8>>, <<65534, 65537>>})
    \cup Set(d, "idleTimeout", {"0s", "-1s", "1ns", "1s", "x"}) \cup Set(d, "obs", {"host:port", "host"})
    \cup Set(d, "sequence", {Nil, <<>>})
    \cup (IF d.sequence \in {Nil, <<>>} THEN {} ELSE Set(d, "sequence", {<<a>> : a \in AppChanges(d.sequence[1])}))
    \cup {[d EXCEPT !.profiles[n] = p] : n \in {"q"}, p \in ProfileChanges(d.profiles["q"])}
    \cup {[d EXCEPT !.profiles["p"] = p] :
            p \in Set(d.profiles["p"], "ca", {"", "ca2"}) \cup Set(d.profiles["p"], "verifyDates", {FALSE})
                  \cup Set(d.profiles["p"], "verifyDepth", {0}) \cup Set(d.profiles["p"], "verifyPeer", {FALSE})}

OtherChanges(d) ==
    Set(d, "legTimeout", {"0s", "1s", "x"}) \cup Set(d, "publicAddress", {"host", "host:port"})
    \cup Set(d, "logLevel", {"warn", "x"}) \cup Set(d, "sequence", {<<a>> : a \in OtherAppChanges(App)})

Profile(n, cert, key, ca) ==
    [cert |-> cert, key |-> key, passphrase |-> "", ca |-> ca, minVersion |-> "", ciphers |-> {},
     verifyPeer |-> TRUE, verifyDepth |-> Nil, verifyDates |-> Nil, verifySubjects |-> {},
     connectTimeout |-> ""]

Good ==
    [sip |-> "host:port", tls |-> [listen |-> "host:port", profile |-> "p"], ws |-> "",
     wss |-> [listen |-> "", profile |-> ""],
     nextHop |-> [uri |-> "u", transport |-> "tls", profile |-> "q"], portRange |-> <<8, 15>>,
     idleTimeout |-> "", legTimeout |-> "", publicAddress |-> "", obs |-> "", logLevel |-> "",
     sequence |-> <<App>>,
     profiles |-> [p |-> Profile("p", "c1", "k1", "ca1"), q |-> Profile("q", "c2", "k2", "ca2")]]

MCDocuments ==
    {Nil, Good} \cup OtherChanges(Good) \cup DocumentChanges(Good)
    \cup UNION {DocumentChanges(d) : d \in DocumentChanges(Good)}

MCCertFiles == [c1 |-> 1, c2 |-> 2]
MCKeyFiles ==
    [k1 |-> [pair |-> 1, seal |-> "none", passphrase |-> ""],
     k2 |-> [pair |-> 2, seal |-> "none", passphrase |-> ""],
     sealed |-> [pair |-> 2, seal |-> "legacy", passphrase |-> "x"],
     pkcs8 |-> [pair |-> 2, seal |-> "pkcs8", passphrase |-> "x"]]
MCCAFiles == [ca1 |-> {"r1"}, ca2 |-> {"r1", "r2"}, empty |-> {}]

Chain(root, n, window) == [root |-> root, intermediates |-> n, window |-> window]
Certificate ==
    [subject |-> "alice", window |-> <<1, 3>>, usages |-> {"client", "server"}, covers |-> TRUE,
     chains |-> {Chain("r1", 1, <<0, 4>>)}]
GoodPeer == [version |-> 13, suites |-> {"s1"}, cert |-> Certificate, dialled |-> "name"]

PeerChanges(p) ==
    Set(p, "version", {11, 12}) \cup Set(p, "suites", {{"s2"}}) \cup Set(p, "cert", {Nil})
    \cup Set(p, "dialled", {"ip"})
    \cup (IF p.cert = Nil THEN {} ELSE {[p EXCEPT !.cert = c] : c \in
            Set(p.cert, "subject", {"bob"}) \cup Set(p.cert, "window", {<<0, 1>>, <<3, 4>>})
            \cup Set(p.cert, "usages", {{"client"}, {"server"}}) \cup Set(p.cert, "covers", {FALSE})
            \cup Set(p.cert, "chains", {{}, {Chain("r2", 0, <<0, 4>>)}, {Chain("sys", 1, <<0, 4>>)},
                                        {Chain("r1", 3, <<0, 4>>)}, {Chain("r1", 1, <<2, 4>>)},
                                        {Chain("r1", 1, <<0, 1>>)},
                                        {Chain("sys", 0, <<0, 4>>), Chain("r1", 2, <<0, 4>>)}})})

MCPeers == {GoodPeer} \cup PeerChanges(GoodPeer) \cup UNION {PeerChanges(p) : p \in PeerChanges(GoodPeer)}
=============================================================================
