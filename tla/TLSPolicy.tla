----------------------------- MODULE TLSPolicy ------------------------------
(***************************************************************************)
(* internal/tlsprov: how a resolved profile becomes certificate material   *)
(* and a *tls.Config, and which peers the result lets in.  crypto/tls and  *)
(* crypto/x509 are external (Completes): a handshake agrees on a version   *)
(* and, for TLS 1.2, on a suite, verifies the peer's chains as configured  *)
(* and runs the callbacks the package installs.                            *)
(*                                                                         *)
(* A peer presents no certificate (Nil) or one with its validity, usages   *)
(* and the chains that lead from it to roots; a server is dialled by name  *)
(* or by an IP literal, which its certificate covers or not.  Definitions  *)
(* named Mut... are defects the code might have had.                       *)
(***************************************************************************)
EXTENDS Config

CONSTANTS
    CertFiles,    \* readable certificate files: path -> the key pair they belong to
    KeyFiles,     \* key files: path -> [pair, seal, passphrase]
    CAFiles,      \* CA bundles: path -> the roots they hold, {} for a file without any
    SystemRoots,  \* the roots of the host
    Suites,       \* the TLS 1.2 suites crypto/tls knows
    Now           \* the time of a handshake

\* seal: "none", "legacy" (PKCS#1 with DEK-Info) or "pkcs8".  X509KeyPair does not read a
\* sealed key; decryptKeyPEM opens a legacy one and ignores the passphrase of an open one.
Opens(key, passphrase) ==
    \/ key.seal = "none"
    \/ key.seal = "legacy" /\ passphrase # "" /\ key.passphrase = passphrase

\* Load on a cache miss: everything is read from the files; Nil when something is wrong.
ReadMaterial(rp) ==
    IF /\ rp.cert \in DOMAIN CertFiles
       /\ rp.key \in DOMAIN KeyFiles
       /\ Opens(KeyFiles[rp.key], rp.passphrase)
       /\ CertFiles[rp.cert] = KeyFiles[rp.key].pair
       /\ rp.ca # "" => rp.ca \in DOMAIN CAFiles /\ CAFiles[rp.ca] # {}
    THEN [pair |-> CertFiles[rp.cert], pool |-> IF rp.ca = "" THEN Nil ELSE CAFiles[rp.ca]]
    ELSE Nil

\* The key of the material cache: the two files, not the profile.
CacheKey(rp) == <<rp.cert, rp.key>>

mapVersion(v) == IF v = "tlsv1.3" THEN 13 ELSE 12

\* An empty list leaves the choice to Go; a name Go does not know is an error.
mapCiphers(names) == IF names = {} THEN Suites ELSE IF names \subseteq Suites THEN names ELSE Nil

-----------------------------------------------------------------------------
(* A *tls.Config: the version floor, the suites, what crypto/tls verifies itself (verify:
   "none"; "any": a certificate is presented; "full": chain, dates, usage and the name of a
   server) against which roots, and the callback: "none"; "verifier" over the chains Go
   verified; "connVerifier", which verifies the chains itself, at the leaf's NotBefore. *)

Base(rp, verify, callback, roots) ==
    [min |-> mapVersion(rp.minVersion), suites |-> mapCiphers(rp.ciphers),
     verify |-> verify, callback |-> callback, roots |-> roots,
     depth |-> rp.verifyDepth, subjects |-> rp.verifySubjects]

ServerConfig(rp, m) ==
    IF mapCiphers(rp.ciphers) = Nil \/ (rp.verifyPeer /\ m.pool = Nil) THEN Nil
    ELSE CASE ~rp.verifyPeer -> Base(rp, "none", "none", {})
           [] rp.verifyPeer /\ rp.verifyDates -> Base(rp, "full", "verifier", m.pool)
           [] rp.verifyPeer /\ ~rp.verifyDates -> Base(rp, "any", "connVerifier", m.pool)

MutRelaxedUnverified(rp, m) ==
    LET roots == IF m.pool = Nil THEN SystemRoots ELSE m.pool
    IN  IF mapCiphers(rp.ciphers) = Nil THEN Nil
        ELSE IF rp.verifyPeer /\ rp.verifyDates THEN Base(rp, "full", "verifier", roots)
        ELSE Base(rp, "none", "none", roots)

ClientConfig(rp, m) ==
    LET roots == IF m.pool = Nil THEN SystemRoots ELSE m.pool
    IN  IF mapCiphers(rp.ciphers) = Nil THEN Nil
        ELSE CASE ~rp.verifyPeer -> Base(rp, "none", "none", roots)
               [] rp.verifyPeer /\ rp.verifyDates -> Base(rp, "full", "verifier", roots)
               [] rp.verifyPeer /\ ~rp.verifyDates -> Base(rp, "none", "connVerifier", roots)

-----------------------------------------------------------------------------
(* Handshakes. *)

During(window, t) == window[1] <= t /\ t <= window[2]

\* x509.Verify at time t: the chains to a root, every certificate valid then, the leaf usable
\* by a peer of that role and, of a server that is asked for one, covering its name or address.
VerifiedChains(cert, roots, role, t, asked) ==
    {c \in cert.chains :
        /\ c.root \in roots
        /\ During(cert.window, t) /\ During(c.window, t)
        /\ role \in cert.usages
        /\ role = "server" /\ asked => cert.covers}

checkDepth(chain, max) == chain.intermediates <= max
checkSubject(cert, allow) == allow = {} \/ cert.subject \in allow
checkChains(cert, chains, conf) ==
    \E c \in chains : checkDepth(c, conf.depth) /\ checkSubject(cert, conf.subjects)

\* It asks for cs.ServerName, which crypto/tls leaves empty, and so unchecked, for a server
\* dialled by an IP literal.
connVerifier(conf, peer, role) ==
    /\ peer.cert # Nil
    /\ LET chains == VerifiedChains(peer.cert, conf.roots, role, peer.cert.window[1],
                                    peer.dialled = "name")
       IN  checkChains(peer.cert, chains, conf)

Agrees(min, suites, peer) ==
    /\ peer.version >= min
    /\ peer.version = 12 => peer.suites \cap suites # {}

\* role is the peer's: "client" at a listener, "server" at a dialer.
Completes(conf, peer, role) ==
    /\ Agrees(conf.min, conf.suites, peer)
    /\ conf.verify # "none" => peer.cert # Nil
    /\ conf.verify = "full" =>
        LET chains == VerifiedChains(peer.cert, conf.roots, role, Now, TRUE)
        IN  chains # {} /\ checkChains(peer.cert, chains, conf)
    /\ conf.callback = "connVerifier" => connVerifier(conf, peer, role)

-----------------------------------------------------------------------------
(* What a profile promises, in one sentence (requirements, User-story-14). *)

\* Without verify_peer any peer whose version and suites will do; with it, one whose
\* certificate leads over at most verify_depth intermediates to the profile's own CA bundle
\* (the system's roots for a dialer without one), has a listed subject and the right usage;
\* and nothing expired, unless verify_dates is off.
Trusts(rp, peer, role) ==
    /\ Agrees(mapVersion(rp.minVersion), IF rp.ciphers = {} THEN Suites ELSE rp.ciphers, peer)
    /\ rp.verifyPeer =>
        /\ peer.cert # Nil
        /\ rp.verifySubjects # {} => peer.cert.subject \in rp.verifySubjects
        /\ role \in peer.cert.usages
        /\ rp.verifyDates => During(peer.cert.window, Now)
        /\ \E c \in peer.cert.chains :
            /\ c.root \in (IF rp.ca = "" THEN SystemRoots ELSE CAFiles[rp.ca])
            /\ c.intermediates <= rp.verifyDepth
            /\ rp.verifyDates => During(c.window, Now)

\* With verify_peer, a server is the one that was dialled.
Identifies(rp, peer, role) ==
    rp.verifyPeer /\ role = "server" => peer.cert # Nil /\ peer.cert.covers

\* An authority above the leaf was reissued after the leaf was: it was not valid yet when the
\* leaf became so, which is the time connVerifier verifies at.
Reissued(cert) == \E c \in cert.chains : ~During(c.window, cert.window[1])
=============================================================================
