---------------------------- MODULE StartupProofs ----------------------------
(***************************************************************************)
(* Theorems about Startup, for any set of documents, files and peers.      *)
(*                                                                         *)
(* Validation happens once, in Parse, and everything after relies on it:   *)
(* ParseSound says what an accepted document gives.  StartInv carries that *)
(* to the sockets, with what the cache and the contexts hold by then.      *)
(***************************************************************************)
EXTENDS Startup, TLAPS

-----------------------------------------------------------------------------
(* What config.Parse accepts *)

\* What an endpoint's Resolved field may hold.
Profiles == ResolvedTLSProfile \cup {Nil}

\* time.ParseDuration yields a number.
LEMMA DurationsAreNumbers ==
    /\ \A text \in DOMAIN ParseDuration : ParseDuration[text] \in Int
    /\ defaultLegTimeout \in Int /\ defaultLegTimeout > 0
BY SMT DEF ParseDuration, defaultLegTimeout

\* A timeout that is accepted is positive, and the default where none is written.
LEMMA DurationBound ==
    ASSUME NEW text, Parses(text, 1), NEW default \in Int
    PROVE  /\ Duration(text, default) \in Int
           /\ text # "" => Duration(text, default) > 0
           /\ text = "" => Duration(text, default) = default
<1>1. CASE text = ""
    BY <1>1 DEF Duration
<1>2. CASE text # ""
    <2>1. Duration(text, default) = ParseDuration[text] /\ text \in DOMAIN ParseDuration
        BY <1>2 DEF Parses, Duration
    <2>2. ParseDuration[text] >= 1 /\ ParseDuration[text] \in Int
        BY <1>2, <2>1, DurationsAreNumbers DEF Parses
    <2>3. ParseDuration[text] > 0
        BY <2>2
    <2> QED
        BY <1>2, <2>1, <2>2, <2>3
<1> QED
    BY <1>1, <1>2

\* A profile's connect_timeout need only parse.
LEMMA DurationNumber ==
    ASSUME NEW text, text # "" => text \in DOMAIN ParseDuration, NEW default \in Int
    PROVE  Duration(text, default) \in Int
BY DurationsAreNumbers DEF Duration

\* resolveTLS gives a profile that validateTLSProfiles accepted all its defaults.
LEMMA ResolvedType ==
    ASSUME NEW c, NEW name \in STRING, name \in DOMAIN c.profiles, c.profiles[name] \in TLSProfile,
           validateTLSProfiles(c)
    PROVE  Resolved(c, name) \in ResolvedTLSProfile /\ Resolved(c, name).name = name
<1> DEFINE p == c.profiles[name]
           minVersion == IF p.minVersion = "" THEN "tlsv1.2" ELSE p.minVersion
           depth == IF p.verifyDepth = Nil THEN 2 ELSE p.verifyDepth
           dates == IF p.verifyDates = Nil THEN TRUE ELSE p.verifyDates
           timeout == Duration(p.connectTimeout, 0)
<1>1. p \in TLSProfile
    OBVIOUS
<1>2. /\ p.connectTimeout # "" => p.connectTimeout \in DOMAIN ParseDuration
      /\ p.minVersion \in {"", "tlsv1.2", "tlsv1.3"}
    BY DEF validateTLSProfiles
<1>3. Resolved(c, name) =
        [name |-> name, cert |-> p.cert, key |-> p.key, passphrase |-> p.passphrase,
         ca |-> p.ca, minVersion |-> minVersion, ciphers |-> p.ciphers,
         verifyPeer |-> p.verifyPeer, verifyDepth |-> depth, verifyDates |-> dates,
         verifySubjects |-> p.verifySubjects, connectTimeout |-> timeout]
    BY DEF Resolved
<1> HIDE DEF p
<1>4. /\ p.cert \in STRING /\ p.key \in STRING /\ p.passphrase \in STRING /\ p.ca \in STRING
      /\ p.ciphers \in SUBSET STRING
      /\ p.verifyDepth \in Int \cup {Nil}
      /\ p.verifySubjects \in SUBSET STRING /\ p.connectTimeout \in STRING
    BY <1>1 DEF TLSProfile
<1>5. p.verifyPeer \in BOOLEAN /\ p.verifyDates \in BOOLEAN \cup {Nil}
    BY <1>1 DEF TLSProfile
<1>6. minVersion \in {"tlsv1.2", "tlsv1.3"}
    BY <1>2
<1>7. depth \in Int
    BY <1>4
<1>8. dates \in BOOLEAN
    BY <1>5, Zenon
<1>9. timeout \in Int
    <2>1. 0 \in Int
        OBVIOUS
    <2> QED
        BY <1>2, <2>1, DurationNumber, Zenon
<1> HIDE DEF minVersion, depth, dates, timeout
<1>10. Resolved(c, name).name = name
    BY <1>3
<1>11. Resolved(c, name) \in ResolvedTLSProfile
    BY <1>3, <1>4, <1>5, <1>6, <1>7, <1>8, <1>9, SMT DEF ResolvedTLSProfile
<1> QED
    BY <1>10, <1>11

\* Defaults and timeouts leave the other keys of an application and a next hop alone.
LEMMA EndpointKeys ==
    /\ \A a \in Application :
        /\ a.profile \in STRING
        /\ AppDefaults(a).profile = a.profile /\ AppDefaults(a).timeout = a.timeout
        /\ AppTimeout(AppDefaults(a)).transport = AppDefaults(a).transport
        /\ AppTimeout(AppDefaults(a)).profile = a.profile
        /\ AppTimeout(AppDefaults(a)).timeout = Duration(a.timeout, 0)
    /\ \A h \in NextHop : h.profile \in STRING /\ HopDefaults(h).profile = h.profile
BY DEF Application, AppDefaults, AppTimeout, NextHop, HopDefaults

\* What applyDefaults and resolveTimeouts make of a document.
LEMMA DocumentKeys ==
    ASSUME NEW d, rawConfig(d), NEW c, c = applyDefaults(d), c.sequence # Nil, c.nextHop # Nil
    PROVE  /\ c.tls = d.tls /\ c.wss = d.wss /\ c.profiles = d.profiles
           /\ c.legTimeout = d.legTimeout
           /\ d.sequence \in Seq(Application) /\ d.nextHop \in NextHop
           /\ c.sequence = [i \in 1 .. Len(d.sequence) |-> AppDefaults(d.sequence[i])]
           /\ c.nextHop = HopDefaults(d.nextHop)
           /\ DOMAIN resolveTimeouts(c) = DOMAIN d
           /\ {"legTimeout", "sequence", "nextHop"} \subseteq DOMAIN d
           /\ resolveTimeouts(c).legTimeout = Duration(d.legTimeout, defaultLegTimeout)
           /\ resolveTimeouts(c).nextHop = c.nextHop
           /\ resolveTimeouts(c).sequence =
                [i \in 1 .. Len(d.sequence) |-> AppTimeout(AppDefaults(d.sequence[i]))]
<1>1. /\ c.tls = d.tls /\ c.wss = d.wss /\ c.profiles = d.profiles
      /\ c.legTimeout = d.legTimeout
    BY DEF rawConfig, applyDefaults
<1>2. c.sequence = IF d.sequence = Nil THEN Nil
                   ELSE [i \in DOMAIN d.sequence |-> AppDefaults(d.sequence[i])]
    BY DEF rawConfig, applyDefaults
<1>3. c.nextHop = IF d.nextHop = Nil THEN Nil ELSE HopDefaults(d.nextHop)
    BY DEF rawConfig, applyDefaults
<1>4. d.sequence \in Seq(Application) /\ d.nextHop \in NextHop
    BY <1>2, <1>3 DEF rawConfig
<1>5. c.nextHop = HopDefaults(d.nextHop)
    BY <1>3
<1>6. c.sequence = [i \in 1 .. Len(d.sequence) |-> AppDefaults(d.sequence[i])]
    BY <1>2, <1>4
<1>7. /\ DOMAIN resolveTimeouts(c) = DOMAIN d
      /\ {"legTimeout", "sequence", "nextHop"} \subseteq DOMAIN d
    BY DEF rawConfig, applyDefaults, resolveTimeouts
<1>8. /\ resolveTimeouts(c).legTimeout = Duration(d.legTimeout, defaultLegTimeout)
      /\ resolveTimeouts(c).nextHop = c.nextHop
    BY DEF rawConfig, applyDefaults, resolveTimeouts
<1>9. resolveTimeouts(c).sequence = [i \in DOMAIN c.sequence |-> AppTimeout(c.sequence[i])]
    BY DEF rawConfig, applyDefaults, resolveTimeouts
<1> QED
    BY <1>1, <1>4, <1>5, <1>6, <1>7, <1>8, <1>9

\* What the rest of startup relies on in the Config k of the document d.
SoundProfiles(d, k, r) ==
    /\ r = [tls |-> r.tls, wss |-> r.wss, apps |-> r.apps, nextHop |-> r.nextHop]
    /\ r.tls \in Profiles /\ r.wss \in Profiles /\ r.nextHop \in Profiles
    /\ r.apps \in Seq(Profiles)
    /\ d.tls.listen # "" => r.tls # Nil
    /\ d.wss.listen # "" => r.wss # Nil
    /\ \A e \in Outbound(k) :
        e.transport = "tls" =>
            \E rp \in ({r.apps[i] : i \in DOMAIN r.apps} \cup {r.nextHop}) \ {Nil} :
                rp.name = e.profile

Sound(d, k) ==
    /\ SoundProfiles(d, k, k.resolved)
    /\ k.legTimeout > 0
    /\ \A i \in DOMAIN d.sequence :
        /\ k.sequence[i].timeout >= 0
        /\ d.sequence[i].timeout # "" => k.sequence[i].timeout > 0

\* Parse accepts no document in which a listener or a leg lacks the profile it names or a
\* deadline is not positive: validation and resolution go by the same keys.
LEMMA ParseSound ==
    ASSUME NEW d, rawConfig(d), NEW k, k = Parse(d), k # Nil
    PROVE  Sound(d, k)
<1> DEFINE c == applyDefaults(d)
           t == resolveTimeouts(c)
           r == resolveTLS(c)
           Listen(l) == IF l.listen = "" THEN Nil ELSE Resolved(c, l.profile)
           Endpoint(e) == IF e.transport = "tls" THEN Resolved(c, e.profile) ELSE Nil
<1>1. /\ validate(c) /\ TimeoutsValid(c)
      /\ k = With(t, "resolved", r)
    BY DEF Parse
<1>2. c.sequence # Nil /\ c.nextHop # Nil
    BY <1>1 DEF validate
<1>3. /\ c.tls = d.tls /\ c.wss = d.wss /\ c.profiles = d.profiles
      /\ c.legTimeout = d.legTimeout
      /\ d.sequence \in Seq(Application) /\ d.nextHop \in NextHop
      /\ c.sequence = [i \in 1 .. Len(d.sequence) |-> AppDefaults(d.sequence[i])]
      /\ c.nextHop = HopDefaults(d.nextHop)
      /\ DOMAIN t = DOMAIN d
      /\ {"legTimeout", "sequence", "nextHop"} \subseteq DOMAIN d
      /\ t.legTimeout = Duration(d.legTimeout, defaultLegTimeout)
      /\ t.nextHop = c.nextHop
      /\ t.sequence = [i \in 1 .. Len(d.sequence) |-> AppTimeout(AppDefaults(d.sequence[i]))]
    BY <1>2, DocumentKeys
<1>4. r = [tls |-> Listen(c.tls), wss |-> Listen(c.wss),
           apps |-> [i \in DOMAIN c.sequence |-> Endpoint(c.sequence[i])],
           nextHop |-> Endpoint(c.nextHop)]
    BY DEF resolveTLS
<1>5. /\ validateTLSWiring(c) /\ validateTLSProfiles(c)
      /\ \A name \in DOMAIN c.profiles : c.profiles[name] \in TLSProfile
      /\ c.tls \in TLSListener /\ c.wss \in TLSListener
    BY <1>1, <1>3 DEF validate, rawConfig
<1> HIDE DEF c, t, r
<1>6. ASSUME NEW l \in TLSListener, ListenerWired(l, c.profiles)
      PROVE  Listen(l) \in Profiles /\ (l.listen # "" => Listen(l) # Nil)
    <2>1. CASE l.listen = ""
        BY <2>1 DEF Profiles
    <2>2. CASE l.listen # ""
        <3>1. l.profile \in STRING /\ l.profile \in DOMAIN c.profiles
            BY <1>6, <2>2 DEF ListenerWired, TLSListener
        <3>2. Resolved(c, l.profile) \in ResolvedTLSProfile
            BY <1>5, <3>1, ResolvedType
        <3> QED
            BY <2>2, <3>2, NilAssumption DEF Profiles
    <2> QED
        BY <2>1, <2>2
<1>7. ASSUME NEW e \in Outbound(c), e.profile \in STRING
      PROVE  /\ Endpoint(e) \in Profiles
             /\ e.transport = "tls" => Endpoint(e) # Nil /\ Endpoint(e).name = e.profile
    <2>1. CASE e.transport = "tls"
        <3>1. e.profile \in DOMAIN c.profiles
            BY <1>5, <2>1 DEF validateTLSWiring
        <3>2. /\ Resolved(c, e.profile) \in ResolvedTLSProfile
              /\ Resolved(c, e.profile).name = e.profile
            BY <1>5, <1>7, <3>1, ResolvedType
        <3> QED
            BY <2>1, <3>2, NilAssumption DEF Profiles
    <2>2. CASE e.transport # "tls"
        BY <2>2 DEF Profiles
    <2> QED
        BY <2>1, <2>2
<1>8. \A i \in 1 .. Len(d.sequence) :
        /\ c.sequence[i] = AppDefaults(d.sequence[i]) /\ d.sequence[i] \in Application
        /\ c.sequence[i] \in Outbound(c) /\ c.sequence[i].profile \in STRING
    BY <1>3, EndpointKeys DEF Outbound, Apps
<1>9. c.nextHop \in Outbound(c) /\ c.nextHop.profile \in STRING
    BY <1>3, EndpointKeys DEF Outbound
<1>10. /\ k.resolved = r /\ k.legTimeout = t.legTimeout
       /\ k.sequence = t.sequence /\ k.nextHop = t.nextHop
    BY <1>1, <1>3 DEF With
<1>11. /\ \A i \in 1 .. Len(d.sequence) : Endpoint(c.sequence[i]) \in Profiles
       /\ Endpoint(c.nextHop) \in Profiles
       /\ ListenerWired(c.tls, c.profiles) /\ ListenerWired(c.wss, c.profiles)
    BY <1>5, <1>7, <1>8, <1>9 DEF validateTLSWiring
<1> HIDE DEF Listen, Endpoint
<1>12. r.apps = [i \in 1 .. Len(d.sequence) |-> Endpoint(c.sequence[i])]
    BY <1>3, <1>4
<1>13. r.apps \in Seq(Profiles)
    BY <1>3, <1>11, <1>12
<1>14. /\ r = [tls |-> r.tls, wss |-> r.wss, apps |-> r.apps, nextHop |-> r.nextHop]
       /\ r.tls \in Profiles /\ r.wss \in Profiles /\ r.nextHop \in Profiles
       /\ d.tls.listen # "" => r.tls # Nil
       /\ d.wss.listen # "" => r.wss # Nil
    BY <1>3, <1>4, <1>5, <1>6, <1>11
<1>15. ASSUME NEW e \in Outbound(k), e.transport = "tls"
       PROVE  \E rp \in ({r.apps[i] : i \in DOMAIN r.apps} \cup {r.nextHop}) \ {Nil} :
                    rp.name = e.profile
    <2>1. CASE e = k.nextHop
        <3>1. e = c.nextHop
            BY <1>3, <1>10, <2>1
        <3>2. Endpoint(c.nextHop) # Nil /\ Endpoint(c.nextHop).name = e.profile
            BY <1>7, <1>9, <1>15, <3>1
        <3> QED
            BY <1>4, <3>2
    <2>2. CASE e \in Apps(k)
        <3>1. PICK i \in 1 .. Len(d.sequence) : e = AppTimeout(AppDefaults(d.sequence[i]))
            BY <1>3, <1>10, <2>2 DEF Apps
        <3>2. e.transport = c.sequence[i].transport /\ e.profile = c.sequence[i].profile
            BY <1>8, <3>1, EndpointKeys
        <3>3. Endpoint(c.sequence[i]) # Nil /\ Endpoint(c.sequence[i]).name = e.profile
            BY <1>7, <1>8, <1>15, <3>2
        <3>4. i \in DOMAIN r.apps /\ r.apps[i] = Endpoint(c.sequence[i])
            BY <1>12
        <3> QED
            BY <3>3, <3>4
    <2> QED
        BY <2>1, <2>2 DEF Outbound
<1>16. k.legTimeout > 0
    <2>1. Parses(d.legTimeout, 1)
        BY <1>1, <1>3 DEF TimeoutsValid
    <2>2. defaultLegTimeout \in Int /\ defaultLegTimeout > 0
        BY DurationsAreNumbers
    <2>3. /\ d.legTimeout # "" => Duration(d.legTimeout, defaultLegTimeout) > 0
          /\ d.legTimeout = "" => Duration(d.legTimeout, defaultLegTimeout) = defaultLegTimeout
        BY <2>1, <2>2, DurationBound
    <2> QED
        BY <1>3, <1>10, <2>2, <2>3
<1>17. ASSUME NEW i \in DOMAIN d.sequence
       PROVE  /\ k.sequence[i].timeout >= 0
              /\ d.sequence[i].timeout # "" => k.sequence[i].timeout > 0
    <2>1. i \in 1 .. Len(d.sequence) /\ c.sequence[i].timeout = d.sequence[i].timeout
        BY <1>3, <1>8, EndpointKeys
    <2>2. Parses(d.sequence[i].timeout, 1)
        BY <1>1, <1>3, <2>1 DEF TimeoutsValid, Apps
    <2>3. k.sequence[i].timeout = Duration(d.sequence[i].timeout, 0)
        BY <1>3, <1>8, <1>10, <2>1, EndpointKeys
    <2>4. 0 \in Int
        OBVIOUS
    <2>5. /\ k.sequence[i].timeout \in Int
          /\ d.sequence[i].timeout # "" => k.sequence[i].timeout > 0
          /\ d.sequence[i].timeout = "" => k.sequence[i].timeout = 0
        BY <2>2, <2>3, <2>4, DurationBound, Zenon
    <2>6. \A x \in Int : (x > 0 \/ x = 0) => x >= 0
        OBVIOUS
    <2> QED
        BY <2>5, <2>6, Zenon
<1>18. SoundProfiles(d, k, r)
    BY <1>13, <1>14, <1>15 DEF SoundProfiles
<1> QED
    BY <1>10, <1>16, <1>17, <1>18 DEF Sound

-----------------------------------------------------------------------------
(* From the configuration to the sockets *)

\* The phases in which main has a Config.
Configured == {"load", "build", "run"}

\* Every profile is read, or still to be read, and what the cache holds was read for one
\* of them.
Cached ==
    /\ phase = "load" => pending \in Seq(Referenced \cup {Nil})
    /\ \A key \in DOMAIN cache :
        \E q \in Referenced :
            CacheKey(q) = key /\ cache[key] = ReadMaterial(q) /\ cache[key] # Nil
    /\ \A rp \in Referenced :
        \/ CacheKey(rp) \in DOMAIN cache
        \/ phase = "load" /\ \E i \in DOMAIN pending : pending[i] = rp

\* New has made a context for each listener with a profile and a dialer for each leg's.
Built ==
    /\ cfg.resolved.tls # Nil => conf.tls # Nil
    /\ cfg.resolved.wss # Nil => conf.wss # Nil
    /\ DOMAIN conf.dialers = DialerNames

\* The invariant.  No socket is bound before main is in Run.
StartInv ==
    /\ raw \in Documents
    /\ phase = "boot" => DOMAIN cache = {}
    /\ phase \in Configured => Sound(raw, cfg) /\ Cached
    /\ phase = "run" => Built
    /\ DOMAIN sock = AllListeners
    /\ phase # "run" => \A l \in AllListeners : sock[l] # "bound"

\* LoadAll's list, and what it is made of.
Walk(r) == <<r.tls, r.wss>> \o r.apps \o <<r.nextHop>>
Held(r) == {r.tls, r.wss, r.nextHop} \cup {r.apps[i] : i \in DOMAIN r.apps}

\* LoadAll goes through every profile that some endpoint holds, and through no other.
LEMMA WalkVisits ==
    ASSUME NEW r, r.tls \in Profiles, r.wss \in Profiles, r.apps \in Seq(Profiles),
           r.nextHop \in Profiles
    PROVE  /\ Walk(r) \in Seq(Profiles)
           /\ \A x \in Held(r) : \E i \in DOMAIN Walk(r) : Walk(r)[i] = x
           /\ \A i \in DOMAIN Walk(r) : Walk(r)[i] \in Held(r)
<1> DEFINE s == r.apps
           p == Walk(r)
           front == <<r.tls, r.wss>> \o s
<1>1. front \in Seq(Profiles) /\ Len(front) = Len(s) + 2 /\ Len(s) \in Nat /\ s \in Seq(Profiles)
      /\ front[1] = r.tls /\ front[2] = r.wss /\ \A i \in 1 .. Len(s) : front[i + 2] = s[i]
    OBVIOUS
<1>2. p = front \o <<r.nextHop>>
    BY DEF Walk
<1> HIDE DEF s, p, front
<1>3. p \in Seq(Profiles) /\ Len(p) = Len(s) + 3 /\ Len(s) \in Nat /\ s \in Seq(Profiles)
    BY <1>1, <1>2
<1>4. /\ p[1] = r.tls /\ p[2] = r.wss /\ p[Len(s) + 3] = r.nextHop
      /\ \A i \in 1 .. Len(s) : p[i + 2] = s[i]
    BY <1>1, <1>2
<1>5. Held(r) = {r.tls, r.wss, r.nextHop} \cup {s[n] : n \in DOMAIN s}
    BY DEF Held, s
<1>6. /\ 1 \in DOMAIN p /\ 2 \in DOMAIN p /\ Len(s) + 3 \in DOMAIN p
      /\ \A i \in 1 .. Len(s) : i + 2 \in DOMAIN p
    BY <1>3
<1>7. ASSUME NEW i \in DOMAIN p PROVE p[i] \in Held(r)
    <2>1. i = 1 \/ i = 2 \/ i = Len(s) + 3 \/ (i - 2 \in 1 .. Len(s) /\ i = (i - 2) + 2)
        BY <1>3
    <2>2. \A n \in 1 .. Len(s) : p[n + 2] \in Held(r)
        BY <1>3, <1>4, <1>5
    <2> QED
        BY <1>4, <1>5, <2>1, <2>2
<1>8. ASSUME NEW x \in Held(r) PROVE \E i \in DOMAIN p : p[i] = x
    <2>1. CASE x \in {r.tls, r.wss, r.nextHop}
        BY <1>4, <1>6, <2>1
    <2>2. CASE x \in {s[n] : n \in DOMAIN s}
        <3>1. PICK i \in 1 .. Len(s) : x = s[i]
            BY <1>3, <2>2
        <3> QED
            BY <1>4, <1>6, <3>1
    <2> QED
        BY <1>5, <2>1, <2>2
<1> QED
    BY <1>3, <1>7, <1>8 DEF p

\* main starts with nothing read.
LEMMA InitStart == Init => StartInv
BY DEF Init, StartInv, Configured, AllListeners

\* Load: what Parse accepts is sound, and each of its profiles waits for LoadAll.
LEMMA LoadConfigStart == StartInv /\ LoadConfig => StartInv'
<1> SUFFICES ASSUME StartInv, LoadConfig PROVE StartInv'
    OBVIOUS
<1>1. CASE cfg' = Nil
    BY <1>1 DEF LoadConfig, Abort, StartInv, Configured
<1>2. CASE cfg' # Nil
    <2>1. /\ raw # Nil /\ cfg' = Parse(raw) /\ phase' = "load" /\ phase = "boot"
          /\ UNCHANGED <<raw, cache, conf, sock>>
          /\ pending' = <<cfg'.resolved.tls, cfg'.resolved.wss>> \o cfg'.resolved.apps
                            \o <<cfg'.resolved.nextHop>>
        BY <1>2 DEF LoadConfig
    <2>2. Sound(raw, cfg')
        BY <1>2, <2>1, ParseSound, DocumentAssumption DEF StartInv
    <2>3. /\ cfg'.resolved.tls \in Profiles /\ cfg'.resolved.wss \in Profiles
          /\ cfg'.resolved.apps \in Seq(Profiles) /\ cfg'.resolved.nextHop \in Profiles
        BY <2>2 DEF Sound, SoundProfiles
    <2>4. Referenced' = ({cfg'.resolved.tls, cfg'.resolved.wss, cfg'.resolved.nextHop}
                          \cup {cfg'.resolved.apps[i] : i \in DOMAIN cfg'.resolved.apps}) \ {Nil}
        BY DEF Referenced, OutboundProfiles
    <2>5. /\ pending' \in Seq(Profiles)
          /\ \A rp \in Referenced' : \E i \in DOMAIN pending' : pending'[i] = rp
          /\ \A i \in DOMAIN pending' : pending'[i] \in Referenced' \cup {Nil}
        <3> DEFINE r == cfg'.resolved
                   all == Held(r)
        <3>1. /\ pending' \in Seq(Profiles)
              /\ \A x \in all : \E i \in DOMAIN pending' : pending'[i] = x
              /\ \A i \in DOMAIN pending' : pending'[i] \in all
            <4>1. /\ r.tls \in Profiles /\ r.wss \in Profiles /\ r.apps \in Seq(Profiles)
                  /\ r.nextHop \in Profiles
                BY <2>3
            <4>2. pending' = Walk(r)
                BY <2>1 DEF Walk
            <4> HIDE DEF r
            <4> QED
                BY <4>1, <4>2, WalkVisits
        <3>2. Referenced' = all \ {Nil}
            BY <2>4 DEF Held
        <3> HIDE DEF all
        <3> QED
            BY <3>1, <3>2
    <2>6. pending' \in Seq(Referenced' \cup {Nil})
        BY <2>5
    <2> QED
        BY <2>1, <2>2, <2>5, <2>6 DEF StartInv, Cached, Configured
<1> QED
    BY <1>1, <1>2

\* A round of LoadAll: the profile it takes off the list is then in the cache, read for it or
\* for one with the same files, unless the process ends.
LEMMA LoadProfileStart == StartInv /\ LoadProfile => StartInv'
<1> SUFFICES ASSUME StartInv, LoadProfile PROVE StartInv'
    OBVIOUS
<1> DEFINE head == Head(pending)
<1>1. /\ phase = "load" /\ pending # <<>> /\ pending' = Tail(pending)
      /\ UNCHANGED <<raw, cfg, conf, sock>>
      /\ Sound(raw, cfg) /\ Cached /\ pending \in Seq(Referenced \cup {Nil})
      /\ Referenced' = Referenced
    BY DEF LoadProfile, StartInv, Configured, Cached, Referenced, OutboundProfiles
<1>2. /\ pending' \in Seq(Referenced \cup {Nil})
      /\ \A i \in DOMAIN pending :
            pending[i] = head \/ \E j \in DOMAIN pending' : pending'[j] = pending[i]
      /\ head \in Referenced \cup {Nil}
    <2>1. /\ pending' \in Seq(Referenced \cup {Nil}) /\ Len(pending') = Len(pending) - 1
          /\ head \in Referenced \cup {Nil} /\ head = pending[1] /\ Len(pending) \in Nat
          /\ \A j \in 1 .. Len(pending) - 1 : pending'[j] = pending[j + 1]
        BY <1>1
    <2>2. ASSUME NEW i \in DOMAIN pending, i # 1
          PROVE  \E j \in DOMAIN pending' : pending'[j] = pending[i]
        <3>1. i - 1 \in 1 .. Len(pending) - 1 /\ (i - 1) + 1 = i /\ i - 1 \in DOMAIN pending'
            BY <1>1, <2>1, <2>2
        <3> QED
            BY <2>1, <3>1
    <2> QED
        BY <2>1, <2>2
<1>3. CASE phase' = "exited"
    BY <1>1, <1>3 DEF StartInv, Configured
<1>4. CASE /\ head = Nil \/ CacheKey(head) \in DOMAIN cache
           /\ UNCHANGED <<cache, phase>>
    <2>1. ASSUME NEW rp \in Referenced, CacheKey(rp) \notin DOMAIN cache
          PROVE  \E i \in DOMAIN pending' : pending'[i] = rp
        <3>1. PICK i \in DOMAIN pending : pending[i] = rp
            BY <1>1, <2>1 DEF Cached
        <3>2. rp # Nil
            BY DEF Referenced, OutboundProfiles
        <3> QED
            BY <1>2, <1>4, <2>1, <3>1, <3>2
    <2>2. Cached'
        BY <1>1, <1>2, <1>4, <2>1 DEF Cached
    <2> QED
        BY <1>1, <1>4, <2>2 DEF StartInv, Configured
<1>5. CASE /\ head # Nil /\ CacheKey(head) \notin DOMAIN cache
           /\ cache' = With(cache, CacheKey(head), ReadMaterial(head)) /\ ReadMaterial(head) # Nil
           /\ UNCHANGED phase
    <2>1. /\ DOMAIN cache' = DOMAIN cache \cup {CacheKey(head)}
          /\ \A key \in DOMAIN cache : cache'[key] = cache[key]
          /\ cache'[CacheKey(head)] = ReadMaterial(head)
        BY <1>5 DEF With
    <2>2. head \in Referenced
        BY <1>2, <1>5
    <2>3. ASSUME NEW rp \in Referenced, CacheKey(rp) \notin DOMAIN cache'
          PROVE  \E i \in DOMAIN pending' : pending'[i] = rp
        <3>1. PICK i \in DOMAIN pending : pending[i] = rp
            BY <1>1, <2>1, <2>3 DEF Cached
        <3> QED
            BY <1>2, <2>1, <2>3, <3>1
    <2>4. ASSUME NEW key \in DOMAIN cache'
          PROVE  \E q \in Referenced :
                    CacheKey(q) = key /\ cache'[key] = ReadMaterial(q) /\ cache'[key] # Nil
        BY <1>1, <1>5, <2>1, <2>2, <2>4 DEF Cached
    <2>5. Cached'
        BY <1>1, <1>2, <1>5, <2>3, <2>4 DEF Cached
    <2> QED
        BY <1>1, <1>5, <2>5 DEF StartInv, Configured
<1> QED
    BY <1>3, <1>4, <1>5 DEF LoadProfile, Abort

\* New: it keeps all the contexts or none.
LEMMA NewStart == StartInv /\ New => StartInv'
<1> SUFFICES ASSUME StartInv, New PROVE StartInv'
    OBVIOUS
<1>1. /\ phase = "build" /\ UNCHANGED <<raw, cfg, cache>>
      /\ Sound(raw, cfg) /\ Cached
      /\ \A l \in AllListeners : sock'[l] # "bound"
      /\ DOMAIN sock' = AllListeners
    BY DEF New, StartInv, Configured
<1>2. CASE phase' = "exited"
    BY <1>1, <1>2 DEF StartInv, Configured
<1>3. CASE phase' = "run"
    <2>1. /\ conf' = [tls |-> ServerConf(cfg.resolved.tls), wss |-> ServerConf(cfg.resolved.wss),
                      dialers |-> [n \in DialerNames |-> ClientConfig(Named(n), Material(Named(n)))]]
          /\ cfg.resolved.tls # Nil => ServerConf(cfg.resolved.tls) # Nil
          /\ cfg.resolved.wss # Nil => ServerConf(cfg.resolved.wss) # Nil
        BY <1>3 DEF New, Abort
    <2>2. DialerNames' = DialerNames /\ Referenced' = Referenced
        BY <1>1 DEF DialerNames, Referenced, OutboundProfiles
    <2>3. Built'
        BY <1>1, <2>1, <2>2 DEF Built
    <2>4. Cached'
        BY <1>1, <1>3, <2>2 DEF Cached
    <2> QED
        BY <1>1, <1>3, <2>3, <2>4 DEF StartInv
<1> QED
    BY <1>2, <1>3 DEF New, Abort

\* Run and Shutdown leave what was built alone.
LEMMA RunStart ==
    ASSUME StartInv, UNCHANGED buildVars, phase' = phase \/ phase' \notin Configured \cup {"boot"},
           DOMAIN sock' = AllListeners,
           phase' # "run" => \A l \in AllListeners : sock'[l] # "bound"
    PROVE  StartInv'
<1>1. /\ Referenced' = Referenced /\ DialerNames' = DialerNames
      /\ UNCHANGED <<raw, cfg, pending, cache, conf>>
    BY DEF buildVars, Referenced, DialerNames, OutboundProfiles
<1>2. CASE phase' = phase
    <2>1. Cached => Cached'
        BY <1>1, <1>2 DEF Cached
    <2>2. Built => Built'
        BY <1>1 DEF Built
    <2> QED
        BY <1>1, <1>2, <2>1, <2>2 DEF StartInv
<1>3. CASE phase' \notin Configured \cup {"boot"}
    BY <1>1, <1>3 DEF StartInv, Configured
<1> QED
    BY <1>2, <1>3

\* Every step of main and of the goroutines of Run keeps the invariant.
LEMMA StartStep == StartInv /\ [Next]_vars => StartInv'
<1> SUFFICES ASSUME StartInv, [Next]_vars PROVE StartInv'
    OBVIOUS
<1>0. DOMAIN sock = AllListeners /\ (phase # "run" => \A l \in AllListeners : sock[l] # "bound")
    BY DEF StartInv
<1>1. ASSUME LoadedAll PROVE StartInv'
    <2>1. /\ phase = "load" /\ pending = <<>> /\ phase' = "build" /\ UNCHANGED buildVars
          /\ UNCHANGED sock /\ Cached /\ Sound(raw, cfg)
        BY <1>1 DEF LoadedAll, StartInv, Configured
    <2>2. Referenced' = Referenced
        BY <2>1 DEF buildVars, Referenced, OutboundProfiles
    <2>3. DOMAIN pending = {}
        BY <2>1
    <2>4. Cached'
        BY <2>1, <2>2, <2>3 DEF Cached, buildVars
    <2> QED
        BY <2>1, <2>4 DEF StartInv, buildVars
<1>2. ASSUME NEW l \in AllListeners,
             Bind(l) \/ ListenerFails(l) \/ ListenerStops(l) \/ LateBindFails(l)
      PROVE  StartInv'
    <2>1. /\ UNCHANGED <<buildVars, phase>> /\ phase = "run"
          /\ DOMAIN sock' = AllListeners
        BY <1>0, <1>2 DEF Bind, ListenerFails, ListenerStops, LateBindFails
    <2> QED
        BY <2>1, RunStart
<1>3. ASSUME Signal \/ ObsStarts \/ Over \/ UNCHANGED vars PROVE StartInv'
    <2>1. UNCHANGED <<buildVars, phase, sock>>
        BY <1>3 DEF Signal, ObsStarts, Over, vars
    <2> QED
        BY <1>0, <2>1, RunStart
<1>4. ASSUME ReaperStarts PROVE StartInv'
    <2>1. CASE UNCHANGED <<phase, sock>>
        BY <1>0, <1>4, <2>1, RunStart DEF ReaperStarts
    <2>2. CASE /\ phase' = "crashed"
               /\ sock' = [l \in AllListeners |-> IF sock[l] = "bound" THEN "closed" ELSE sock[l]]
        <3>1. DOMAIN sock' = AllListeners /\ \A l \in AllListeners : sock'[l] # "bound"
            BY <2>2
        <3> QED
            BY <1>4, <2>2, <3>1, RunStart DEF ReaperStarts, Configured
    <2> QED
        BY <1>4, <2>1, <2>2 DEF ReaperStarts
<1>5. ASSUME RunReturns PROVE StartInv'
    BY <1>0, <1>5, RunStart DEF RunReturns, Ended, Configured
<1>6. ASSUME Shutdown PROVE StartInv'
    BY <1>0, <1>6, RunStart DEF Shutdown, Configured
<1> QED
    BY <1>1, <1>2, <1>3, <1>4, <1>5, <1>6, LoadConfigStart, LoadProfileStart, NewStart DEF Next

\* Fail fast: whatever the document and the files, a process that has bound a socket serves all
\* of its document.  What Parse checked (Sound) holds of the configuration in use, LoadAll has
\* been through every profile, and New built a context for each.
THEOREM DocumentIsServed == Spec => []ServesWholeDocument
<1>1. StartInv => ServesWholeDocument
    <2> SUFFICES ASSUME StartInv, NEW b \in AllListeners, sock[b] = "bound"
                 PROVE  /\ \A l \in {"tls", "wss"} : raw[l].listen # "" => l \in Listeners
                        /\ \A e \in Outbound(cfg) :
                            e.transport = "tls" => e.profile \in DOMAIN conf.dialers
                        /\ cfg.legTimeout > 0
                        /\ \A i \in DOMAIN raw.sequence :
                            /\ cfg.sequence[i].timeout >= 0
                            /\ raw.sequence[i].timeout # "" => cfg.sequence[i].timeout > 0
                        /\ \A rp \in Referenced : ReadMaterial(rp) # Nil \/ Shares(rp)
        BY DEF ServesWholeDocument
    <2>1. phase = "run" /\ Sound(raw, cfg) /\ Cached /\ Built
        BY DEF StartInv, Configured
    <2>2. \A l \in {"tls", "wss"} : raw[l].listen # "" => l \in Listeners
        BY <2>1 DEF Sound, SoundProfiles, Built, Listeners, Group
    <2>3. \A e \in Outbound(cfg) : e.transport = "tls" => e.profile \in DOMAIN conf.dialers
        BY <2>1 DEF Sound, SoundProfiles, Built, DialerNames, OutboundProfiles
    <2>4. ASSUME NEW rp \in Referenced PROVE ReadMaterial(rp) # Nil \/ Shares(rp)
        <3>1. CacheKey(rp) \in DOMAIN cache
            BY <2>1 DEF Cached
        <3>2. PICK q \in Referenced : CacheKey(q) = CacheKey(rp) /\ ReadMaterial(q) # Nil
            BY <2>1, <3>1 DEF Cached
        <3>3. CASE q.ca = rp.ca /\ q.passphrase = rp.passphrase
            <4>1. q.cert = rp.cert /\ q.key = rp.key
                BY <3>2 DEF CacheKey
            <4>2. ReadMaterial(q) = ReadMaterial(rp)
                BY <3>3, <4>1 DEF ReadMaterial
            <4> QED
                BY <3>2, <4>2
        <3>4. CASE ~(q.ca = rp.ca /\ q.passphrase = rp.passphrase)
            BY <3>2, <3>4 DEF Shares
        <3> QED
            BY <3>3, <3>4
    <2> QED
        BY <2>1, <2>2, <2>3, <2>4 DEF Sound
<1> QED
    BY <1>1, InitStart, StartStep, PTL DEF Spec

-----------------------------------------------------------------------------
(* The contexts New builds *)

\* A context and its profile agree on a peer.
Keeps(rp, ctx, peer, role) ==
    /\ Completes(ctx, peer, role) =>
        /\ Trusts(rp, peer, role)
        /\ Identifies(rp, peer, role) \/ (~rp.verifyDates /\ peer.dialled = "ip")
    /\ Trusts(rp, peer, role) /\ Identifies(rp, peer, role) =>
        Completes(ctx, peer, role) \/ (~rp.verifyDates /\ Reissued(peer.cert))

\* The roots the profile names.
Roots(rp) == IF rp.ca = "" THEN SystemRoots ELSE CAFiles[rp.ca]

\* Without verify_peer, ServerConfig and ClientConfig ask for nothing but version and suites.
LEMMA UnverifiedKeeps ==
    ASSUME NEW rp, NEW peer, NEW role, NEW roots,
           ~rp.verifyPeer, mapCiphers(rp.ciphers) # Nil
    PROVE  Keeps(rp, Base(rp, "none", "none", roots), peer, role)
BY DEF Keeps, Completes, Trusts, Identifies, Base, mapCiphers

\* With dates, crypto/tls verifies the chains now and the verifier callback looks at them again.
LEMMA VerifiedKeeps ==
    ASSUME NEW rp, NEW peer, NEW role,
           rp.verifyPeer, rp.verifyDates, mapCiphers(rp.ciphers) # Nil
    PROVE  Keeps(rp, Base(rp, "full", "verifier", Roots(rp)), peer, role)
<1> DEFINE ctx == Base(rp, "full", "verifier", Roots(rp))
<1>1. /\ ctx.verify = "full" /\ ctx.callback = "verifier" /\ ctx.roots = Roots(rp)
      /\ ctx.depth = rp.verifyDepth /\ ctx.subjects = rp.verifySubjects
      /\ ctx.min = mapVersion(rp.minVersion)
      /\ ctx.suites = IF rp.ciphers = {} THEN Suites ELSE rp.ciphers
    BY DEF Base, mapCiphers
<1> HIDE DEF ctx
<1>2. ASSUME Completes(ctx, peer, role)
      PROVE  Trusts(rp, peer, role) /\ Identifies(rp, peer, role)
    <2>1. /\ peer.cert # Nil
          /\ checkChains(peer.cert, VerifiedChains(peer.cert, Roots(rp), role, Now, TRUE), ctx)
          /\ Agrees(ctx.min, ctx.suites, peer)
        BY <1>1, <1>2 DEF Completes
    <2>2. PICK c \in peer.cert.chains :
            /\ c.root \in Roots(rp) /\ During(peer.cert.window, Now) /\ During(c.window, Now)
            /\ role \in peer.cert.usages /\ (role = "server" => peer.cert.covers)
            /\ checkDepth(c, ctx.depth) /\ checkSubject(peer.cert, ctx.subjects)
        BY <2>1 DEF checkChains, VerifiedChains
    <2> QED
        BY <1>1, <2>1, <2>2 DEF Trusts, Identifies, Roots, checkDepth, checkSubject
<1>3. ASSUME Trusts(rp, peer, role), Identifies(rp, peer, role)
      PROVE  Completes(ctx, peer, role)
    <2>1. /\ peer.cert # Nil /\ Agrees(ctx.min, ctx.suites, peer)
          /\ rp.verifySubjects # {} => peer.cert.subject \in rp.verifySubjects
          /\ role \in peer.cert.usages /\ (role = "server" => peer.cert.covers)
          /\ During(peer.cert.window, Now)
        BY <1>1, <1>3 DEF Trusts, Identifies
    <2>2. PICK c \in peer.cert.chains :
            c.root \in Roots(rp) /\ c.intermediates <= rp.verifyDepth /\ During(c.window, Now)
        BY <1>3 DEF Trusts, Roots
    <2>3. c \in VerifiedChains(peer.cert, Roots(rp), role, Now, TRUE)
        BY <2>1, <2>2 DEF VerifiedChains
    <2>4. checkChains(peer.cert, VerifiedChains(peer.cert, Roots(rp), role, Now, TRUE), ctx)
        BY <1>1, <2>1, <2>2, <2>3 DEF checkChains, checkDepth, checkSubject
    <2> QED
        BY <1>1, <2>1, <2>3, <2>4 DEF Completes
<1> QED
    BY <1>2, <1>3 DEF Keeps, ctx

\* Without dates, connVerifier verifies the chains itself, as of the leaf's NotBefore.
LEMMA RelaxedKeeps ==
    ASSUME NEW rp, NEW peer \in Peers, NEW role, NEW verify \in {"any", "none"},
           rp.verifyPeer, ~rp.verifyDates, mapCiphers(rp.ciphers) # Nil
    PROVE  Keeps(rp, Base(rp, verify, "connVerifier", Roots(rp)), peer, role)
<1> DEFINE ctx == Base(rp, verify, "connVerifier", Roots(rp))
           asked == peer.dialled = "name"
           chains == VerifiedChains(peer.cert, Roots(rp), role, peer.cert.window[1], asked)
<1>1. /\ ctx.verify \in {"any", "none"} /\ ctx.callback = "connVerifier" /\ ctx.roots = Roots(rp)
      /\ ctx.depth = rp.verifyDepth /\ ctx.subjects = rp.verifySubjects
      /\ ctx.min = mapVersion(rp.minVersion)
      /\ ctx.suites = IF rp.ciphers = {} THEN Suites ELSE rp.ciphers
    BY DEF Base, mapCiphers
<1> HIDE DEF ctx
<1>2. ASSUME Completes(ctx, peer, role)
      PROVE  Trusts(rp, peer, role) /\ (Identifies(rp, peer, role) \/ peer.dialled = "ip")
    <2>1. /\ peer.cert # Nil /\ checkChains(peer.cert, chains, ctx)
          /\ Agrees(ctx.min, ctx.suites, peer)
        BY <1>1, <1>2 DEF Completes, connVerifier
    <2>2. PICK c \in peer.cert.chains :
            /\ c.root \in Roots(rp)
            /\ role \in peer.cert.usages /\ (role = "server" /\ asked => peer.cert.covers)
            /\ checkDepth(c, ctx.depth) /\ checkSubject(peer.cert, ctx.subjects)
        BY <2>1 DEF checkChains, VerifiedChains
    <2>3. asked \/ peer.dialled = "ip"
        BY PeerAssumption
    <2>4. Identifies(rp, peer, role) \/ peer.dialled = "ip"
        BY <2>1, <2>2, <2>3 DEF Identifies
    <2> QED
        BY <1>1, <2>1, <2>2, <2>4 DEF Trusts, Roots, checkDepth, checkSubject
<1>3. ASSUME Trusts(rp, peer, role), Identifies(rp, peer, role), ~Reissued(peer.cert)
      PROVE  Completes(ctx, peer, role)
    <2>1. /\ peer.cert # Nil /\ Agrees(ctx.min, ctx.suites, peer)
          /\ rp.verifySubjects # {} => peer.cert.subject \in rp.verifySubjects
          /\ role \in peer.cert.usages /\ (role = "server" => peer.cert.covers)
        BY <1>1, <1>3 DEF Trusts, Identifies
    <2>2. PICK c \in peer.cert.chains : c.root \in Roots(rp) /\ c.intermediates <= rp.verifyDepth
        BY <1>3 DEF Trusts, Roots
    <2>3. During(c.window, peer.cert.window[1])
        BY <1>3, <2>2 DEF Reissued
    <2>4. During(peer.cert.window, peer.cert.window[1])
        BY <2>1, PeerAssumption DEF During
    <2>5. c \in chains
        BY <2>1, <2>2, <2>3, <2>4 DEF VerifiedChains
    <2>6. checkChains(peer.cert, chains, ctx)
        BY <1>1, <2>1, <2>2, <2>5 DEF checkChains, checkDepth, checkSubject
    <2> QED
        BY <1>1, <2>1, <2>6 DEF Completes, connVerifier
<1> QED
    BY <1>2, <1>3 DEF Keeps, ctx

\* ServerConfig and ClientConfig, given the material read for the profile.
LEMMA ContextsKeep ==
    ASSUME NEW rp \in ResolvedTLSProfile, NEW m, NEW peer \in Peers,
           m.pool = IF rp.ca = "" THEN Nil ELSE CAFiles[rp.ca],
           rp.ca # "" => rp.ca \in DOMAIN CAFiles
    PROVE  /\ ServerConfig(rp, m) # Nil => Keeps(rp, ServerConfig(rp, m), peer, "client")
           /\ ClientConfig(rp, m) # Nil => Keeps(rp, ClientConfig(rp, m), peer, "server")
<1>1. rp.verifyPeer \in BOOLEAN /\ rp.verifyDates \in BOOLEAN
    BY DEF ResolvedTLSProfile
<1>2. (IF m.pool = Nil THEN SystemRoots ELSE m.pool) = Roots(rp)
    BY NilAssumption DEF Roots
<1>3. m.pool # Nil => m.pool = Roots(rp)
    BY <1>2
<1>4. CASE mapCiphers(rp.ciphers) = Nil
    BY <1>4 DEF ServerConfig, ClientConfig
<1>5. CASE mapCiphers(rp.ciphers) # Nil /\ ~rp.verifyPeer
    <2>1. /\ ServerConfig(rp, m) = Base(rp, "none", "none", {})
          /\ ClientConfig(rp, m) = Base(rp, "none", "none", Roots(rp))
        BY <1>1, <1>2, <1>5 DEF ServerConfig, ClientConfig
    <2> QED
        BY <1>5, <2>1, UnverifiedKeeps
<1>6. CASE mapCiphers(rp.ciphers) # Nil /\ rp.verifyPeer /\ rp.verifyDates
    <2>1. /\ ServerConfig(rp, m) # Nil =>
                ServerConfig(rp, m) = Base(rp, "full", "verifier", Roots(rp))
          /\ ClientConfig(rp, m) = Base(rp, "full", "verifier", Roots(rp))
        BY <1>1, <1>2, <1>3, <1>6 DEF ServerConfig, ClientConfig
    <2> QED
        BY <1>6, <2>1, VerifiedKeeps
<1>7. CASE mapCiphers(rp.ciphers) # Nil /\ rp.verifyPeer /\ ~rp.verifyDates
    <2>1. /\ ServerConfig(rp, m) # Nil =>
                ServerConfig(rp, m) = Base(rp, "any", "connVerifier", Roots(rp))
          /\ ClientConfig(rp, m) = Base(rp, "none", "connVerifier", Roots(rp))
        BY <1>1, <1>2, <1>3, <1>7 DEF ServerConfig, ClientConfig
    <2> QED
        BY <1>7, <2>1, RelaxedKeeps
<1> QED
    BY <1>1, <1>4, <1>5, <1>6, <1>7

\* The cache goes by certificate and key; a profile that shares these with none that differs
\* otherwise is given its own trust pool.
LEMMA MaterialIsOwn ==
    ASSUME Cached, phase = "build", NEW rp \in Referenced, ~Shares(rp)
    PROVE  /\ Material(rp).pool = IF rp.ca = "" THEN Nil ELSE CAFiles[rp.ca]
           /\ rp.ca # "" => rp.ca \in DOMAIN CAFiles
<1>1. CacheKey(rp) \in DOMAIN cache
    BY DEF Cached
<1>2. PICK q \in Referenced :
        CacheKey(q) = CacheKey(rp) /\ Material(rp) = ReadMaterial(q) /\ ReadMaterial(q) # Nil
    BY <1>1 DEF Cached, Material
<1>3. q.ca = rp.ca
    BY <1>2 DEF Shares
<1>4. /\ ReadMaterial(q) = [pair |-> CertFiles[q.cert],
                            pool |-> IF q.ca = "" THEN Nil ELSE CAFiles[q.ca]]
      /\ q.ca # "" => q.ca \in DOMAIN CAFiles
    BY <1>2 DEF ReadMaterial
<1>5. ReadMaterial(q).pool = IF q.ca = "" THEN Nil ELSE CAFiles[q.ca]
    <2> DEFINE pool == IF q.ca = "" THEN Nil ELSE CAFiles[q.ca]
    <2>1. ReadMaterial(q) = [pair |-> CertFiles[q.cert], pool |-> pool]
        BY <1>4
    <2> HIDE DEF pool
    <2>2. ReadMaterial(q).pool = pool
        BY <2>1
    <2> QED
        BY <2>2 DEF pool
<1> QED
    BY <1>2, <1>3, <1>4, <1>5

\* LoadAll and New deal with resolved profiles only.
LEMMA ReferencedType ==
    ASSUME Sound(raw, cfg), NEW rp \in Referenced
    PROVE  rp \in ResolvedTLSProfile
<1> DEFINE r == cfg.resolved
<1>1. /\ r.tls \in Profiles /\ r.wss \in Profiles /\ r.nextHop \in Profiles
      /\ \A i \in DOMAIN r.apps : r.apps[i] \in Profiles
    <2>1. /\ r.tls \in Profiles /\ r.wss \in Profiles /\ r.nextHop \in Profiles
          /\ r.apps \in Seq(Profiles)
        BY DEF Sound, SoundProfiles
    <2> HIDE DEF r
    <2> QED
        BY <2>1
<1>2. /\ rp # Nil
      /\ rp \in {r.tls, r.wss, r.nextHop} \cup {r.apps[i] : i \in DOMAIN r.apps}
    BY DEF Referenced, OutboundProfiles
<1> HIDE DEF r
<1>3. rp \in Profiles
    BY <1>1, <1>2
<1> QED
    BY <1>2, <1>3 DEF Profiles

\* Whatever the profiles, files and peers, a context New builds lets in nobody its profile does
\* not trust and, but for a server dialled by an IP literal under relaxed dates, nobody but the
\* peer that was dialled; and it lets in all of these, but for a reissued authority under
\* relaxed dates.  Profiles that share their files apart.  By cases on the three ways of
\* verifying.
THEOREM PromisesKept == Spec => ContextsKeepPromises
<1> DEFINE Kept ==
        conf' # conf =>
            \A c \in Contexts' : Shares(c.rp)' \/
                \A peer \in Peers :
                    /\ Completes(c.conf, peer, c.role) =>
                        /\ Trusts(c.rp, peer, c.role)
                        /\ \/ Identifies(c.rp, peer, c.role)
                           \/ ~c.rp.verifyDates /\ peer.dialled = "ip"
                    /\ Trusts(c.rp, peer, c.role) /\ Identifies(c.rp, peer, c.role) =>
                        \/ Completes(c.conf, peer, c.role)
                        \/ ~c.rp.verifyDates /\ Reissued(peer.cert)
<1>1. StartInv /\ [Next]_vars => Kept
    <2> SUFFICES ASSUME StartInv, [Next]_vars, conf' # conf,
                        NEW c \in Contexts', ~Shares(c.rp)', NEW peer \in Peers
                 PROVE  Keeps(c.rp, c.conf, peer, c.role)
        BY DEF Keeps
    <2>1. New
        BY DEF Next, vars, LoadConfig, LoadProfile, LoadedAll, Bind, ListenerFails, ListenerStops,
               LateBindFails, Signal, ObsStarts, ReaperStarts, RunReturns, Shutdown, Over, buildVars
    <2>2. /\ phase = "build" /\ Cached /\ Sound(raw, cfg) /\ UNCHANGED cfg
          /\ conf' = [tls |-> ServerConf(cfg.resolved.tls), wss |-> ServerConf(cfg.resolved.wss),
                      dialers |-> [n \in DialerNames |-> ClientConfig(Named(n), Material(Named(n)))]]
          /\ \A n \in DialerNames : ClientConfig(Named(n), Material(Named(n))) # Nil
        BY <2>1 DEF New, StartInv, Configured
    <2>3. Referenced' = Referenced /\ OutboundProfiles' = OutboundProfiles
        BY <2>2 DEF Referenced, OutboundProfiles
    <2>4. ~Shares(c.rp)
        BY <2>3 DEF Shares
    <2>5. ASSUME NEW l \in {"tls", "wss"}, conf'[l] # Nil,
                 c = [rp |-> cfg'.resolved[l], conf |-> conf'[l], role |-> "client"]
          PROVE  Keeps(c.rp, c.conf, peer, c.role)
        <3>1. /\ c.rp = cfg.resolved[l] /\ c.role = "client"
              /\ c.conf = ServerConf(c.rp) /\ c.conf # Nil
            BY <2>2, <2>5
        <3>2. c.rp \in Referenced
            BY <3>1 DEF ServerConf, Referenced
        <3> QED
            BY <2>2, <2>4, <3>1, <3>2, ContextsKeep, MaterialIsOwn, ReferencedType DEF ServerConf
    <2>6. ASSUME NEW n \in DOMAIN conf'.dialers,
                 c = [rp |-> Named(n)', conf |-> conf'.dialers[n], role |-> "server"]
          PROVE  Keeps(c.rp, c.conf, peer, c.role)
        <3>1. n \in DialerNames /\ Named(n)' = Named(n)
            BY <2>2, <2>3, <2>6 DEF Named
        <3>2. /\ c.rp = Named(n) /\ c.role = "server" /\ c.conf # Nil
              /\ c.conf = ClientConfig(c.rp, Material(c.rp))
            BY <2>2, <2>6, <3>1
        <3>3. c.rp \in Referenced
            BY <3>1, <3>2 DEF Named, DialerNames, Referenced
        <3> QED
            BY <2>2, <2>4, <3>2, <3>3, ContextsKeep, MaterialIsOwn, ReferencedType
    <2> QED
        BY <2>5, <2>6 DEF Contexts
<1>2. Spec => []StartInv
    BY InitStart, StartStep, PTL DEF Spec
<1>3. Spec => [][Kept]_vars
    BY <1>1, <1>2, PTL DEF Spec
<1> QED
    BY <1>3 DEF ContextsKeepPromises
=============================================================================
