------------------------------- MODULE Config -------------------------------
(***************************************************************************)
(* internal/config: from the decoded YAML document to the Config the       *)
(* engine runs on.  A document is a record, one field for each key ("" for *)
(* a key that is absent, Nil for an absent next_hop, sequence, routing or  *)
(* verify_ key).  An error is Nil: which one is reported makes no          *)
(* difference.                                                             *)
(*                                                                         *)
(* Values are abstracted to the classes the code tells apart: an address   *)
(* is "host:port", "host:name" (a port that is no number), "host" or "";   *)
(* a pattern is "(" when regexp refuses it; a duration is a text that      *)
(* ParseDuration maps to nanoseconds, if it is in its domain; a port range *)
(* is the sequence of its numbers, <<>> when the key is absent.            *)
(*                                                                         *)
(* Definitions named Mut... are defects the code might have had.           *)
(***************************************************************************)
EXTENDS Integers, Sequences

CONSTANT Nil

-----------------------------------------------------------------------------
(* The types of a decoded document. *)

TLSListener == [listen : STRING, profile : STRING]
RoutingRule == [from : STRING, to : STRING]
Application ==
    [name : STRING, uri : STRING, onFailure : STRING, media : STRING, transport : STRING,
     profile : STRING, timeout : STRING, routing : RoutingRule \cup {Nil}]
NextHop == [uri : STRING, transport : STRING, profile : STRING]
TLSProfile ==
    [cert : STRING, key : STRING, passphrase : STRING, ca : STRING, minVersion : STRING,
     ciphers : SUBSET STRING, verifyPeer : BOOLEAN, verifyDepth : Int \cup {Nil},
     verifyDates : BOOLEAN \cup {Nil}, verifySubjects : SUBSET STRING, connectTimeout : STRING]
ResolvedTLSProfile ==
    [name : STRING, cert : STRING, key : STRING, passphrase : STRING, ca : STRING,
     minVersion : {"tlsv1.2", "tlsv1.3"}, ciphers : SUBSET STRING, verifyPeer : BOOLEAN,
     verifyDepth : Int, verifyDates : BOOLEAN, verifySubjects : SUBSET STRING,
     connectTimeout : Int]

\* d has the fields of a rawConfig.  tls_profiles maps names to profiles.
rawConfig(d) ==
    /\ d = [sip |-> d.sip, tls |-> d.tls, ws |-> d.ws, wss |-> d.wss, nextHop |-> d.nextHop,
            portRange |-> d.portRange, idleTimeout |-> d.idleTimeout,
            legTimeout |-> d.legTimeout, publicAddress |-> d.publicAddress, obs |-> d.obs,
            logLevel |-> d.logLevel, sequence |-> d.sequence, profiles |-> d.profiles]
    /\ {d.sip, d.ws, d.idleTimeout, d.legTimeout, d.publicAddress, d.obs, d.logLevel}
            \subseteq STRING
    /\ {d.tls, d.wss} \subseteq TLSListener
    /\ d.nextHop # Nil => d.nextHop \in NextHop
    /\ d.portRange \in Seq(Int)
    /\ d.sequence # Nil => d.sequence \in Seq(Application)
    /\ \A name \in DOMAIN d.profiles : d.profiles[name] \in TLSProfile

-----------------------------------------------------------------------------
(* Defaults. *)

SplitHostPort(addr) == addr \in {"host:port", "host:name"}

\* time.ParseDuration, with a duration of each class: negative, none, the shortest, others.
ParseDuration ==
    [text \in {"-1s", "0s", "1ns", "1s"} |->
        CASE text = "-1s" -> -1000000000
          [] text = "0s" -> 0
          [] text = "1ns" -> 1
          [] text = "1s" -> 1000000000]

defaultLegTimeout == 2000000000    \* 32s; TLC's integers end here
defaultIdleTimeout == 2000000001   \* 5m, another value than the one above

Or(v, default) == IF v = "" THEN default ELSE v

AppDefaults(a) ==
    [a EXCEPT !.onFailure = Or(@, "skip"), !.media = Or(@, "none"), !.transport = Or(@, "udp")]
HopDefaults(h) == [h EXCEPT !.transport = Or(@, "udp")]

applyDefaults(raw) ==
    [raw EXCEPT !.logLevel = Or(@, "info"),
                !.sequence = IF @ = Nil THEN Nil ELSE [i \in DOMAIN @ |-> AppDefaults(@[i])],
                !.nextHop = IF @ = Nil THEN Nil ELSE HopDefaults(@)]

-----------------------------------------------------------------------------
(* Validation. *)

Apps(c) == {c.sequence[i] : i \in DOMAIN c.sequence}

\* What originates calls: the applications and the next hop.
Outbound(c) == Apps(c) \cup {c.nextHop}

\* A tls endpoint has a profile, any other has none.
Wired(e) ==
    /\ e.transport \in {"udp", "tcp", "tls"}
    /\ e.transport = "tls" <=> e.profile # ""

\* An absent listener is not looked at, its profile key included.
ListenerWired(l, profiles) ==
    l.listen # "" => SplitHostPort(l.listen) /\ l.profile # "" /\ l.profile \in DOMAIN profiles

validateTLSWiring(c) ==
    /\ \A e \in Outbound(c) : Wired(e)
    /\ ListenerWired(c.tls, c.profiles)
    /\ ListenerWired(c.wss, c.profiles)
    /\ c.ws # "" => SplitHostPort(c.ws)
    /\ \A e \in Outbound(c) : e.transport = "tls" => e.profile \in DOMAIN c.profiles

validateTLSProfiles(c) ==
    \A name \in DOMAIN c.profiles :
        LET p == c.profiles[name]
        IN  /\ p.cert # "" /\ p.key # ""
            /\ p.minVersion \in {"", "tlsv1.2", "tlsv1.3"}
            /\ "" \notin p.ciphers \cup p.verifySubjects
            /\ p.connectTimeout # "" => p.connectTimeout \in DOMAIN ParseDuration
            /\ p.verifyDepth # Nil => p.verifyDepth >= 0

validate(c) ==
    /\ c.sip # ""
    /\ c.nextHop # Nil /\ c.nextHop.uri # ""
    /\ c.portRange # <<>>
    /\ c.sequence # Nil
    /\ c.logLevel \in {"debug", "info", "warn", "error"}
    /\ c.obs # "" => SplitHostPort(c.obs)
    /\ ~SplitHostPort(c.publicAddress)
    /\ \A a \in Apps(c) :
        /\ a.name # "" /\ a.uri # ""
        /\ a.onFailure \in {"skip", "abort"}
        /\ a.media \in {"tap", "none"}
    /\ validateTLSWiring(c)
    /\ validateTLSProfiles(c)

-----------------------------------------------------------------------------
(* Resolution. *)

Parses(text, min) ==
    text # "" => text \in DOMAIN ParseDuration /\ ParseDuration[text] >= min

\* A timeout must be positive; an idle timeout may be 0, which disables the reaper.
TimeoutsValid(c) ==
    /\ Parses(c.legTimeout, 1)
    /\ \A a \in Apps(c) : Parses(a.timeout, 1)
    /\ Parses(c.idleTimeout, 0)

Duration(text, default) == IF text = "" THEN default ELSE ParseDuration[text]

AppTimeout(a) == [a EXCEPT !.timeout = Duration(@, 0)]

resolveTimeouts(c) ==
    [c EXCEPT !.legTimeout = Duration(@, defaultLegTimeout),
              !.sequence = [i \in DOMAIN @ |-> AppTimeout(@[i])],
              !.idleTimeout = Duration(@, defaultIdleTimeout)]

\* A profile with its defaults.
Resolved(c, name) ==
    LET p == c.profiles[name]
    IN  [name |-> name, cert |-> p.cert, key |-> p.key, passphrase |-> p.passphrase, ca |-> p.ca,
         minVersion |-> IF p.minVersion = "" THEN "tlsv1.2" ELSE p.minVersion,
         ciphers |-> p.ciphers,
         verifyPeer |-> p.verifyPeer,
         verifyDepth |-> IF p.verifyDepth = Nil THEN 2 ELSE p.verifyDepth,
         verifyDates |-> IF p.verifyDates = Nil THEN TRUE ELSE p.verifyDates,
         verifySubjects |-> p.verifySubjects,
         connectTimeout |-> Duration(p.connectTimeout, 0)]

\* The profile of a listener that is configured and of an endpoint whose transport is tls.
resolveTLS(c) ==
    LET Listener(l) == IF l.listen = "" THEN Nil ELSE Resolved(c, l.profile)
        Endpoint(e) == IF e.transport = "tls" THEN Resolved(c, e.profile) ELSE Nil
    IN  [tls |-> Listener(c.tls), wss |-> Listener(c.wss),
         apps |-> [i \in DOMAIN c.sequence |-> Endpoint(c.sequence[i])],
         nextHop |-> Endpoint(c.nextHop)]

\* A pattern that does not compile aborts the load.
RoutingCompiles(c) ==
    \A a \in Apps(c) : a.routing # Nil => a.routing.from # "(" /\ a.routing.to # "("

\* A record with one field more.
With(r, field, value) ==
    [f \in DOMAIN r \cup {field} |-> IF f = field THEN value ELSE r[f]]

\* The Config, with what resolveTLS found in its field resolved; or Nil.
Parse(raw) ==
    LET c == applyDefaults(raw)
    IN  IF validate(c) /\ TimeoutsValid(c) /\ RoutingCompiles(c)
        THEN With(resolveTimeouts(c), "resolved", resolveTLS(c))
        ELSE Nil
=============================================================================
