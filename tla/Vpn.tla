-------------------------------- MODULE Vpn ---------------------------------
(***************************************************************************)
(* Which path the traffic takes: vpn::Manager, whose worker registers a    *)
(* device, raises a tunnel and gives it to the session; the user, who      *)
(* connects, disconnects, changes the account and requires the VPN; and    *)
(* the engine, which looks at the transport once per turn while the others *)
(* replace it.                                                             *)
(*                                                                         *)
(* A transport is None, Direct or the number of a tunnel, of which there   *)
(* is one per connection (MaxTunnels is a bound).  Sockets are known by    *)
(* the transport they came from; those of the torrents that failed, which  *)
(* the engine no longer ticks, are kept apart from all the others.         *)
(*                                                                         *)
(* Manager::update() is left out: it only writes for a tunnel that is Down *)
(* or Failed, and the one the manager holds never is (HeldTunnelLives).    *)
(***************************************************************************)
EXTENDS Integers

CONSTANTS
    Accounts,       \* account numbers, of 16 digits
    MaxTunnels,     \* bound: tunnels made
    Patience        \* 15 s, in ticks: how long the worker waits for the handshake

ASSUME VpnAssumption == MaxTunnels \in Nat /\ Patience \in Nat

None == -1
Direct == 0
Tunnels == 1 .. MaxTunnels
Transports == {None, Direct} \cup Tunnels
NoAccount == "none"

VARIABLES
    state,          \* Manager::state_
    busy,           \* Manager::busy_
    account,        \* account_number_
    device,         \* the account device_id_, assigned_ip_ and private_key_ belong to
    held,           \* tunnel_, then the local of disconnect() that takes it over
    worker,         \* where the worker is
    job,            \* its locals: account, device, tunnel and time waited
    edited,         \* history: the account was last changed under the worker
    tunnel,         \* the state of each tunnel
    active,         \* g_active
    upOnce,         \* history: the tunnels that have been up
    transport,      \* Session::transport_
    setting,        \* who is between the two halves of set_transport()
    queued,         \* a SetTransport waits in commands_
    requireVpn,     \* privacy_.require_vpn
    engine,         \* where the engine is in its turn
    rules,          \* the engine's copy of requireVpn
    ref,            \* the engine's transport_ref
    peers,          \* the transports of the peers' sockets
    failed,         \* those of the peers of failed torrents
    dht             \* the transport of the DHT's socket

manager == <<state, busy, account, device, held, worker, job, edited>>
tunnels == <<tunnel, active, upOnce>>
session == <<transport, setting, queued, requireVpn>>
turn == <<engine, rules, ref, peers, failed, dht>>
vars == <<state, busy, account, device, held, worker, job, edited, tunnel, active,
          upOnce, transport, setting, queued, requireVpn, engine, rules, ref, peers, failed,
          dht>>

NoJob == [account |-> NoAccount, device |-> NoAccount, tunnel |-> 0, waited |-> 0]

Init ==
    /\ state = "Disconnected" /\ busy = FALSE
    /\ account = NoAccount /\ device = NoAccount
    /\ held = None /\ worker = "none" /\ job = NoJob /\ edited = FALSE
    /\ tunnel = [t \in Tunnels |-> "Down"] /\ active = None /\ upOnce = {}
    /\ transport = Direct /\ setting = "nobody" /\ queued = FALSE
    /\ requireVpn \in BOOLEAN
    /\ engine = "commands" /\ rules = FALSE /\ ref = None
    /\ peers = {} /\ failed = {} /\ dht = None

\* BsdTransport::ready() and WireGuardTunnel::ready()
Ready(t) == t = Direct \/ (t \in Tunnels /\ tunnel[t] = "Up")

-----------------------------------------------------------------------------
(* The user                                                                *)

\* Mutant of SetAccount: the device stays
SetAccountKeepsDevice(a) ==
    /\ setting # "user"
    /\ account' = a
    /\ edited' = busy
    /\ UNCHANGED <<state, busy, device, held, worker, job, tunnels, session, turn>>

\* set_account(): another account has no device
SetAccount(a) ==
    /\ setting # "user"
    /\ account' = a /\ device' = NoAccount
    /\ edited' = busy
    /\ UNCHANGED <<state, busy, held, worker, job, tunnels, session, turn>>

SetRequireVpn ==
    /\ requireVpn' = ~ requireVpn
    /\ UNCHANGED <<manager, tunnels, transport, setting, queued, turn>>

\* connect(), from button A; the snapshot is the first thing the worker does
Connect ==
    /\ ~ busy /\ state # "Connected" /\ account # NoAccount
    /\ setting = "nobody" /\ job.tunnel < MaxTunnels
    /\ busy' = TRUE /\ state' = "Working" /\ worker' = "snapshot"
    /\ UNCHANGED <<account, device, held, job, edited, tunnels, session, turn>>

\* disconnect(), first half: the direct transport is set before the tunnel stops
Disconnect ==
    /\ ~ busy /\ state = "Connected" /\ setting = "nobody"
    /\ transport' = Direct /\ setting' = "user"
    /\ UNCHANGED <<manager, tunnels, queued, requireVpn, turn>>

\* Its second half
Disconnected ==
    /\ setting = "user"
    /\ setting' = "nobody" /\ queued' = TRUE
    /\ tunnel' = [tunnel EXCEPT ![held] = "Down"]
    /\ active' = IF active = held THEN None ELSE active
    /\ held' = None /\ state' = "Disconnected"
    /\ UNCHANGED <<busy, account, device, worker, job, edited, upOnce, transport,
                   requireVpn, turn>>

-----------------------------------------------------------------------------
(* The worker                                                              *)

\* Where the worker has no tunnel yet
Calling == {"snapshot", "login", "device", "relays", "make"}

Finish(s) == state' = s /\ busy' = FALSE /\ worker' = "none"

\* Mutant of Fail: the manager stays busy
FailBusy(at) ==
    /\ worker = at
    /\ state' = "Failed" /\ worker' = "none"
    /\ UNCHANGED <<busy, account, device, held, job, edited, tunnels, session, turn>>

\* Any call to the API fails: login(), create_device(), list_relays()
Fail(at) ==
    /\ worker = at
    /\ Finish("Failed")
    /\ UNCHANGED <<account, device, held, job, edited, tunnels, session, turn>>

Snapshot ==
    /\ worker = "snapshot"
    /\ worker' = "login"
    /\ job' = [job EXCEPT !.account = account, !.device = device]
    /\ UNCHANGED <<state, busy, account, device, held, edited, tunnels, session, turn>>

\* login(), then assigned_ip_ is read: it may have been cleared since the snapshot
Login ==
    /\ worker = "login"
    /\ worker' = "device"
    /\ job' = [job EXCEPT !.device = IF device = NoAccount THEN NoAccount ELSE @]
    /\ UNCHANGED <<state, busy, account, device, held, edited, tunnels, session, turn>>

\* device_exists() says whether the device is still known to the account; a question
\* that got no answer concludes nothing.
StillThere(d) == IF d = NoAccount THEN {NoAccount} ELSE {d, NoAccount}

\* create_device(), with a new key, for an account without one
Created(d, a) == IF d = NoAccount THEN a ELSE d

CheckDevice ==
    /\ worker = "device"
    /\ worker' = "relays"
    /\ \E d \in StillThere(job.device) : job' = [job EXCEPT !.device = Created(d, job.account)]
    /\ UNCHANGED <<state, busy, account, device, held, edited, tunnels, session, turn>>

\* list_relays(), then what was registered is stored and saved
StoreDevice ==
    /\ worker = "relays"
    /\ worker' = "make"
    /\ device' = job.device
    /\ UNCHANGED <<state, busy, account, held, job, edited, tunnels, session, turn>>

\* make_tunnel(), unless another one is active
MakeTunnel ==
    /\ worker = "make"
    /\ LET t == job.tunnel + 1
       IN  IF active = None
           THEN /\ tunnel' = [tunnel EXCEPT ![t] = "Handshaking"] /\ active' = t
                /\ job' = [job EXCEPT !.tunnel = t, !.waited = 0] /\ worker' = "wait"
                /\ UNCHANGED <<state, busy>>
           ELSE Finish("Failed") /\ UNCHANGED <<tunnel, active, job>>
    /\ UNCHANGED <<account, device, held, edited, upOnce, session, turn>>

WaitForHandshake ==
    /\ worker = "wait" /\ ~ Ready(job.tunnel) /\ job.waited < Patience
    /\ job' = [job EXCEPT !.waited = @ + 1]
    /\ UNCHANGED <<state, busy, account, device, held, worker, edited, tunnels, session, turn>>

\* Nobody answered for 15 seconds
NoAnswer ==
    /\ worker = "wait" /\ ~ Ready(job.tunnel) /\ job.waited = Patience
    /\ tunnel' = [tunnel EXCEPT ![job.tunnel] = "Down"] /\ active' = None
    /\ Finish("Failed")
    /\ UNCHANGED <<account, device, held, job, edited, upOnce, session, turn>>

HandshakeDone == Ready(job.tunnel)

\* The tunnel is up: it is held, and set_transport() begins
UseTunnel ==
    /\ worker = "wait" /\ HandshakeDone
    /\ held' = job.tunnel
    /\ transport' = job.tunnel /\ setting' = "worker"
    /\ worker' = "queue"
    /\ UNCHANGED <<state, busy, account, device, job, edited, tunnels, queued, requireVpn, turn>>

\* The second half of set_transport(), and the end
Connected ==
    /\ worker = "queue"
    /\ queued' = TRUE /\ setting' = "nobody"
    /\ Finish("Connected")
    /\ UNCHANGED <<account, device, held, job, edited, tunnels, transport, requireVpn, turn>>

-----------------------------------------------------------------------------
(* The tunnels, see Tunnel                                                 *)

Rises(t) ==
    /\ tunnel[t] = "Handshaking"
    /\ tunnel' = [tunnel EXCEPT ![t] = "Up"] /\ upOnce' = upOnce \cup {t}
    /\ UNCHANGED <<manager, active, session, turn>>

Falls(t) ==
    /\ tunnel[t] = "Up"
    /\ tunnel' = [tunnel EXCEPT ![t] = "Handshaking"]
    /\ UNCHANGED <<manager, active, upOnce, session, turn>>

-----------------------------------------------------------------------------
(* The engine's turn                                                       *)

\* Mutant of PeersAfter: SetTransport drops no peer
PeersKept(P) == P

\* What SetTransport leaves of the peers P of any torrent, failed or not: none
PeersAfter(P) == IF queued THEN {} ELSE P

\* process_commands(): torrents may also be paused or removed, with their peers
ProcessCommands ==
    /\ engine = "commands"
    /\ peers' \in SUBSET PeersAfter(peers) /\ failed' \in SUBSET PeersAfter(failed)
    /\ queued' = FALSE
    /\ engine' = "rules"
    /\ UNCHANGED <<manager, tunnels, transport, setting, requireVpn, rules, ref, dht>>

ReadRules ==
    /\ engine = "rules"
    /\ rules' = requireVpn
    /\ engine' = "transport"
    /\ UNCHANGED <<manager, tunnels, session, ref, peers, failed, dht>>

\* Mutant of Allowed: the requirement is not looked at
AllowedAlways(t) == t

\* With the VPN required the direct transport is not shown to the torrents
Allowed(t) == IF rules /\ t = Direct THEN None ELSE t

ReadTransport ==
    /\ engine = "transport"
    /\ ref' = Allowed(transport)
    /\ engine' = "tick"
    /\ UNCHANGED <<manager, tunnels, session, rules, peers, failed, dht>>

\* The peers P, those of some torrents that fail at a write among them
SomeFail(P) == \E S, T \in SUBSET P : /\ S \cup T = P
                                      /\ peers' = S /\ failed' = failed \cup T

\* tick() drops the peers without a path, or connects some through it; it returns at
\* once for a torrent that failed, whose sockets stay as they are
Tick ==
    /\ engine = "tick"
    /\ IF Ready(ref)
       THEN SomeFail(peers) \/ SomeFail(peers \cup {ref})
       ELSE peers' = {} /\ failed' = failed
    /\ engine' = "dht"
    /\ UNCHANGED <<manager, tunnels, session, rules, ref, dht>>

\* The DHT follows: its socket is opened anew on another transport
FollowDht ==
    /\ engine = "dht"
    /\ dht' = ref
    /\ engine' = "poll"
    /\ UNCHANGED <<manager, tunnels, session, rules, ref, peers, failed>>

\* The sockets of the one poll for all: none without a transport
Polled == IF ref = None THEN {} ELSE peers \cup failed

\* Some peers close, some torrents fail at a block, and some that had failed are
\* complete at their last
Poll ==
    /\ engine = "poll"
    /\ IF ref = None THEN UNCHANGED <<peers, failed>>
       ELSE peers' \in SUBSET Polled /\ failed' \in SUBSET Polled
    /\ engine' = "commands"
    /\ UNCHANGED <<manager, tunnels, session, rules, ref, dht>>

Engine == ProcessCommands \/ ReadRules \/ ReadTransport \/ Tick \/ FollowDht \/ Poll
Worker ==
    \/ \E at \in {"login", "device", "relays"} : Fail(at)
    \/ Snapshot \/ Login \/ CheckDevice \/ StoreDevice \/ MakeTunnel
    \/ WaitForHandshake \/ NoAnswer \/ UseTunnel \/ Connected

Next ==
    \/ \E a \in Accounts : SetAccount(a)
    \/ SetRequireVpn \/ Connect \/ Disconnect \/ Disconnected
    \/ Worker
    \/ \E t \in Tunnels : Rises(t) \/ Falls(t)
    \/ Engine

\* The worker's calls all end, in an answer or a time-out; the engine's turns go on
Spec == Init /\ [][Next]_vars /\ WF_vars(Worker) /\ WF_vars(Engine) /\ WF_vars(Disconnected)

-----------------------------------------------------------------------------
(* Properties                                                              *)

ManagerTypes ==
    /\ state \in {"Disconnected", "Working", "Connected", "Failed"}
    /\ worker \in {"none", "wait", "queue"} \cup Calling
    /\ busy \in BOOLEAN /\ (busy <=> worker # "none")
    /\ account \in Accounts \cup {NoAccount} /\ device \in Accounts \cup {NoAccount}
    /\ job \in [account : Accounts \cup {NoAccount}, device : Accounts \cup {NoAccount},
                tunnel : 0 .. MaxTunnels, waited : Nat]
    /\ edited \in BOOLEAN
    /\ held \in Tunnels \cup {None} /\ active \in Tunnels \cup {None}
    /\ tunnel \in [Tunnels -> {"Down", "Handshaking", "Up"}] /\ upOnce \subseteq Tunnels

PathTypes ==
    /\ transport \in Transports \ {None} /\ setting \in {"nobody", "user", "worker"}
    /\ queued \in BOOLEAN /\ requireVpn \in BOOLEAN
    /\ engine \in {"commands", "rules", "transport", "tick", "dht", "poll"}
    /\ rules \in BOOLEAN /\ ref \in Transports /\ dht \in Transports
    /\ peers \cup failed \subseteq Transports \ {None}

TypeOK == ManagerTypes /\ PathTypes

\* A transport replaced in the middle of a turn is still to be handled by the next one
Switching == queued \/ setting # "nobody"

\* Every socket is polled through the transport that made it: the poll casts it to
\* that transport's own class.  Only a transport set since the turn began can break
\* it, and never beyond that turn.
PolledByItsOwn == engine = "poll" /\ ~ Switching => Polled \subseteq {ref}

\* With the VPN required when the turn looked, the DHT and the torrents that run have no
\* socket left on the direct path when it polls, and none is polled, whoever sets what
\* meanwhile, but for that same turn.  A torrent that failed keeps its sockets open.
NothingGoesDirect ==
    engine = "poll" /\ rules =>
        dht # Direct /\ (~ Switching => Direct \notin peers \cup Polled)

\* The session's transport is direct or a tunnel that agreed keys and was not
\* stopped: it is set after the handshake and replaced before the stop.
TransportLives ==
    transport \in Tunnels => transport \in upOnce /\ tunnel[transport] # "Down"

\* The tunnel the manager holds is open, so that update() has nothing to report; and
\* no other is, so that a new connection is never refused for another's sake.
HeldTunnelLives ==
    /\ held # None => tunnel[held] # "Down"
    /\ \A t \in Tunnels : tunnel[t] # "Down" => t = active
    /\ worker = "make" => active = None

\* The registered device belongs to the account, unless the account was changed
\* while a worker was registering for the one before.
DeviceIsOurs == device # NoAccount /\ ~ edited => device = account

\* One tunnel at a time: the worker's from its making on, then the manager's, whose
\* transport the session has until disconnect() puts the direct one back.
OneTunnel ==
    /\ busy => state = "Working"
    /\ worker \in Calling => job.tunnel < MaxTunnels
    /\ worker \in {"wait", "queue"} => active = job.tunnel /\ active # None
    /\ worker = "none" /\ state = "Connected" => held = active /\ active # None
    /\ worker \in Calling \/ (worker = "none" /\ state # "Connected") => active = None
    /\ active # None => tunnel[active] # "Down"
    /\ held = IF worker = "queue" \/ state = "Connected" THEN active ELSE None
    /\ setting = "worker" <=> worker = "queue"
    /\ setting = "user" => worker = "none" /\ state = "Connected"
    /\ transport = IF held # None /\ setting # "user" THEN held ELSE Direct
    /\ \A t \in Tunnels : tunnel[t] = "Up" => t \in upOnce

\* The worker's device is of its account, which is still the user's.
JobIsOurs ==
    ~ edited /\ worker \in {"login", "device", "relays"} =>
        /\ job.account = account
        /\ job.device \in {NoAccount, account}
        /\ worker = "relays" => job.device = account

\* Between two replacements the engine, its peers and the session agree on a path;
\* without one the torrents that run have no peer.
OnePath ==
    LET looked == engine \in {"tick", "dht", "poll"}
    IN  /\ ~ Switching => peers \cup failed \subseteq {transport}
        /\ ~ Switching /\ looked => ref \in {transport, None}
        /\ looked /\ rules => ref # Direct
        /\ engine \in {"dht", "poll"} /\ ref = None => peers = {}
        /\ engine = "poll" => dht = ref

\* The manager, its tunnel and the session's transport agree, and its device is the
\* account's: with the places of the threads, an inductive invariant.
VpnInvariant ==
    /\ TypeOK /\ TransportLives /\ HeldTunnelLives /\ DeviceIsOurs
    /\ OneTunnel /\ JobIsOurs /\ OnePath

\* Every connection ends, connected or failed: the manager is never busy for ever.
ConnectEnds == busy ~> ~ busy
=============================================================================
