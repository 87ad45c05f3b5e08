------------------------------ MODULE Startup -------------------------------
(***************************************************************************)
(* The life of the process: main (cmd/sip-sequencer), New, Run and         *)
(* Shutdown of the engine, around the calls that CallBridge models.  main  *)
(* is sequential up to Run; from then on every listener, the observability *)
(* server and the reaper's start are goroutines of their own.              *)
(***************************************************************************)
EXTENDS TLSPolicy

CONSTANTS
    Documents,  \* the configuration documents; Nil for a file that cannot be read or decoded
    Peers       \* the TLS peers that may try a handshake

\* A document that can be decoded is a rawConfig.
ASSUME DocumentAssumption == \A d \in Documents : d = Nil \/ rawConfig(d)

\* An error is told from a profile and from a pool of roots.
ASSUME NilAssumption ==
    /\ Nil \notin ResolvedTLSProfile
    /\ \A file \in DOMAIN CAFiles : CAFiles[file] # Nil

\* A certificate becomes valid before it expires.
ASSUME PeerAssumption ==
    \A peer \in Peers :
        /\ peer.dialled \in {"name", "ip"}
        /\ peer.cert # Nil =>
            peer.cert.window \in Int \X Int /\ peer.cert.window[1] <= peer.cert.window[2]

VARIABLES
    raw,       \* the document
    phase,     \* where main stands
    exit,      \* the process's exit code once it has one
    cfg,       \* config.Load's result
    pending,   \* the profiles LoadAll has still to load
    cache,     \* StdProvider.cache
    conf,      \* tlsServerConf, wssServerConf and the dialers' contexts
    sock,      \* the listeners of Run's errgroup
    obs,       \* the observability server
    reaper,    \* the idle reaper's goroutine
    stopped    \* gctx is cancelled: by a listener that failed or by a signal

buildVars == <<raw, cfg, pending, cache, conf>>
vars == <<buildVars, phase, exit, sock, obs, reaper, stopped>>

AllListeners == {"udp", "tcp", "tls", "ws", "wss"}

\* What Run starts; without a context, tls and wss are not.
Group(contexts) ==
    {"udp", "tcp"} \cup {l \in {"tls", "wss"} : contexts[l] # Nil}
        \cup (IF cfg.ws # "" THEN {"ws"} ELSE {})
Listeners == Group(conf)

NoConf == [tls |-> Nil, wss |-> Nil, dialers |-> <<>>]

Init ==
    /\ raw \in Documents
    /\ phase = "boot" /\ exit = Nil
    /\ cfg = Nil /\ pending = <<>> /\ cache = <<>> /\ conf = NoConf
    /\ sock = [l \in AllListeners |-> "none"]
    /\ obs = "off" /\ reaper = "off"
    /\ stopped = FALSE

Abort == phase' = "exited" /\ exit' = 1

\* config.Load, and the profiles LoadAll walks: listeners first, then in dial order.
LoadConfig ==
    /\ phase = "boot"
    /\ cfg' = IF raw = Nil THEN Nil ELSE Parse(raw)
    /\ IF cfg' = Nil THEN Abort /\ UNCHANGED pending
       ELSE LET r == cfg'.resolved
            IN  /\ phase' = "load" /\ UNCHANGED exit
                /\ pending' = <<r.tls, r.wss>> \o r.apps \o <<r.nextHop>>
    /\ UNCHANGED <<raw, cache, conf, sock, obs, reaper, stopped>>

\* One round of LoadAll; a hit returns what the first profile with these files was given.
LoadProfile ==
    /\ phase = "load" /\ pending # <<>>
    /\ LET rp == Head(pending)
           m == ReadMaterial(rp)
       IN  IF rp = Nil \/ CacheKey(rp) \in DOMAIN cache
           THEN UNCHANGED <<cache, phase, exit>>
           ELSE IF m = Nil THEN Abort /\ UNCHANGED cache
           ELSE cache' = With(cache, CacheKey(rp), m) /\ UNCHANGED <<phase, exit>>
    /\ pending' = Tail(pending)
    /\ UNCHANGED <<raw, cfg, conf, sock, obs, reaper, stopped>>

LoadedAll ==
    /\ phase = "load" /\ pending = <<>>
    /\ phase' = "build"
    /\ UNCHANGED <<buildVars, exit, sock, obs, reaper, stopped>>

parsePortRange(r) == Len(r) = 2 /\ r[1] > 0 /\ r[1] % 2 = 0 /\ r[1] < r[2]

\* The profiles of the outbound legs; one dialer is built for each name.
OutboundProfiles ==
    {rp \in {cfg.resolved.apps[i] : i \in DOMAIN cfg.resolved.apps} \cup {cfg.resolved.nextHop} :
        rp # Nil}
Named(name) == CHOOSE rp \in OutboundProfiles : rp.name = name

Material(rp) == cache[CacheKey(rp)]
ServerConf(rp) == IF rp = Nil THEN Nil ELSE ServerConfig(rp, Material(rp))

MutNextHopForgotten ==
    {rp.name : rp \in {cfg.resolved.apps[i] : i \in DOMAIN cfg.resolved.apps} \ {Nil}}

DialerNames == {rp.name : rp \in OutboundProfiles}

\* idle_timeout 0 disables the reaper.
ReaperEnabled == cfg.idleTimeout > 0

\* New: the listen address, the port range and every context, before any socket is bound.
New ==
    LET built == [tls |-> ServerConf(cfg.resolved.tls), wss |-> ServerConf(cfg.resolved.wss),
                  dialers |-> [n \in DialerNames |-> ClientConfig(Named(n), Material(Named(n)))]]
    IN  /\ phase = "build"
        /\ IF /\ cfg.sip = "host:port" /\ parsePortRange(cfg.portRange)
              /\ cfg.resolved.tls # Nil => built.tls # Nil
              /\ cfg.resolved.wss # Nil => built.wss # Nil
              /\ \A n \in DialerNames : built.dialers[n] # Nil
           THEN conf' = built /\ phase' = "run" /\ UNCHANGED exit
           ELSE Abort /\ UNCHANGED conf
        /\ sock' = [l \in AllListeners |->
                        IF phase' = "run" /\ l \in Group(built) THEN "starting" ELSE "none"]
        /\ obs' = IF phase' = "run" /\ cfg.obs # "" THEN "starting" ELSE "off"
        /\ reaper' = IF phase' = "run" /\ ReaperEnabled THEN "starting" ELSE "off"
        /\ UNCHANGED <<raw, cfg, pending, cache, stopped>>

-----------------------------------------------------------------------------
(* Run. *)

Bind(l) ==
    /\ phase = "run" /\ sock[l] = "starting"
    /\ sock' = [sock EXCEPT ![l] = "bound"]
    /\ UNCHANGED <<buildVars, phase, exit, obs, reaper, stopped>>

\* The address is taken, or a bound listener fails: errgroup cancels the siblings.
ListenerFails(l) ==
    /\ phase = "run" /\ sock[l] \in {"starting", "bound"} /\ ~stopped
    /\ sock' = [sock EXCEPT ![l] = "failed"]
    /\ stopped' = TRUE
    /\ UNCHANGED <<buildVars, phase, exit, obs, reaper>>

\* SIGINT or SIGTERM.
Signal ==
    /\ phase = "run" /\ ~stopped
    /\ stopped' = TRUE
    /\ UNCHANGED <<buildVars, phase, exit, sock, obs, reaper>>

\* A cancelled gctx closes a listener, which then returns; one that had not bound yet may
\* also fail to, which nobody hears of.
ListenerStops(l) ==
    /\ phase = "run" /\ stopped /\ sock[l] = "bound"
    /\ sock' = [sock EXCEPT ![l] = "closed"]
    /\ UNCHANGED <<buildVars, phase, exit, obs, reaper, stopped>>

LateBindFails(l) ==
    /\ phase = "run" /\ stopped /\ sock[l] = "starting"
    /\ sock' = [sock EXCEPT ![l] = "failed"]
    /\ UNCHANGED <<buildVars, phase, exit, obs, reaper, stopped>>

\* A failure of the observability server is logged and the rest goes on.
ObsStarts ==
    /\ phase \in {"run", "shutdown"} /\ obs = "starting"
    /\ obs' \in {"bound", "failed"}
    /\ UNCHANGED <<buildVars, phase, exit, sock, reaper, stopped>>

\* time.NewTicker(idleTimeout/2) panics on 0, and takes the process with it.
ReaperStarts ==
    /\ phase \in {"run", "shutdown"} /\ reaper = "starting"
    /\ IF cfg.idleTimeout \div 2 > 0 THEN reaper' = "ticking" /\ UNCHANGED <<phase, sock, obs>>
       ELSE /\ phase' = "crashed"
            /\ sock' = [l \in AllListeners |-> IF sock[l] = "bound" THEN "closed" ELSE sock[l]]
            /\ obs' = IF obs = "bound" THEN "closed" ELSE obs
            /\ UNCHANGED reaper
    /\ UNCHANGED <<buildVars, exit, stopped>>

Ended(l) == sock[l] \in {"none", "closed", "failed"}

\* g.Wait returns; its error is printed and main goes on to Shutdown.
RunReturns ==
    /\ phase = "run" /\ stopped
    /\ \A l \in AllListeners : Ended(l)
    /\ phase' = "shutdown"
    /\ UNCHANGED <<buildVars, exit, sock, obs, reaper, stopped>>

MutObsKept ==
    /\ phase = "shutdown"
    /\ phase' = "exited" /\ exit' = 0
    /\ UNCHANGED <<buildVars, sock, obs, reaper, stopped>>

\* Shutdown closes the observability server and ends calls (CallBridge); main returns.
Shutdown ==
    /\ phase = "shutdown"
    /\ phase' = "exited" /\ exit' = 0
    /\ obs' = IF obs \in {"starting", "bound"} THEN "closed" ELSE obs
    /\ UNCHANGED <<buildVars, sock, reaper, stopped>>

Over == phase \in {"exited", "crashed"} /\ UNCHANGED vars

Next ==
    \/ LoadConfig \/ LoadProfile \/ LoadedAll \/ New
    \/ \E l \in AllListeners : Bind(l) \/ ListenerFails(l) \/ ListenerStops(l) \/ LateBindFails(l)
    \/ Signal \/ ObsStarts \/ ReaperStarts \/ RunReturns \/ Shutdown \/ Over

\* The code's own steps happen; a failing listener and a signal need not.
Fairness ==
    /\ WF_vars(LoadConfig) /\ WF_vars(LoadProfile) /\ WF_vars(LoadedAll) /\ WF_vars(New)
    /\ \A l \in AllListeners : WF_vars(Bind(l)) /\ WF_vars(ListenerStops(l))
    /\ WF_vars(RunReturns) /\ WF_vars(Shutdown)

Spec == Init /\ [][Next]_vars /\ Fairness

-----------------------------------------------------------------------------
\* The profiles the configuration refers to.
Referenced == OutboundProfiles \cup ({cfg.resolved.tls, cfg.resolved.wss} \ {Nil})

\* Another profile has the same certificate and key files and not the same way to read them.
Shares(rp) ==
    \E q \in Referenced :
        CacheKey(q) = CacheKey(rp) /\ <<q.ca, q.passphrase>> # <<rp.ca, rp.passphrase>>

\* The contexts in use, each with its profile and the role of the peers it meets.
Contexts ==
    {[rp |-> cfg.resolved[l], conf |-> conf[l], role |-> "client"] :
        l \in {l \in {"tls", "wss"} : conf[l] # Nil}}
    \cup {[rp |-> Named(n), conf |-> conf.dialers[n], role |-> "server"] :
            n \in DOMAIN conf.dialers}

\* Fail fast (main, New, Run): a socket is bound only by a process that serves all of its
\* document: each TLS listener it asks for is in the group, each outbound tls leg finds a dialer
\* (dialerFor indexes the map unchecked), no leg starts with its deadline over or, for a
\* timeout written as 0, silently with another one; and ("an unloadable certificate aborts
\* startup before any listener binds") every profile's files can be read.  The cache goes by
\* the certificate and key paths, so it does not notice a CA bundle or a passphrase that is
\* wrong in a profile that shares these files with another.
ServesWholeDocument ==
    (\E l \in AllListeners : sock[l] = "bound") =>
        /\ \A l \in {"tls", "wss"} : raw[l].listen # "" => l \in Listeners
        /\ \A e \in Outbound(cfg) : e.transport = "tls" => e.profile \in DOMAIN conf.dialers
        /\ cfg.legTimeout > 0
        /\ \A i \in DOMAIN raw.sequence :
            /\ cfg.sequence[i].timeout >= 0
            /\ raw.sequence[i].timeout # "" => cfg.sequence[i].timeout > 0
        /\ \A rp \in Referenced : ReadMaterial(rp) # Nil \/ Shares(rp)

\* ServerConfig, ClientConfig and their callbacks: every context New builds lets a peer in
\* only if its profile promises to, along each of the three ways of verifying, except that
\* with relaxed dates a server dialled by an IP literal may be any that is trusted; and lets
\* in all it promises, except that relaxed dates refuse a peer whose authority was reissued
\* after its own certificate.  A profile that shares its files with another may have been
\* given the other's trust pool.
ContextsKeepPromises ==
    [][conf' # conf =>
        \A c \in Contexts' : Shares(c.rp)' \/
            \A peer \in Peers :
                /\ Completes(c.conf, peer, c.role) =>
                    /\ Trusts(c.rp, peer, c.role)
                    /\ \/ Identifies(c.rp, peer, c.role)
                       \/ ~c.rp.verifyDates /\ peer.dialled = "ip"
                /\ Trusts(c.rp, peer, c.role) /\ Identifies(c.rp, peer, c.role) =>
                    \/ Completes(c.conf, peer, c.role)
                    \/ ~c.rp.verifyDates /\ Reissued(peer.cert)]_vars

\* errgroup, Run and Shutdown: when a listener fails or a signal arrives, at whatever point of
\* the others' start, every sibling stops and the process ends, with all it opened closed (and
\* exit code 0 in both cases).  Only the shortest idle_timeout there is panics in startReaper.
StopEndsProcess ==
    stopped ~> \/ phase = "exited" /\ obs \notin {"starting", "bound"}
                  /\ \A l \in AllListeners : Ended(l)
               \/ phase = "crashed" /\ raw.idleTimeout = "1ns"
=============================================================================
