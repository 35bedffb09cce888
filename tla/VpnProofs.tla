----------------------------- MODULE VpnProofs ------------------------------
(***************************************************************************)
(* The VPN, from its manager down to the sockets of its tunnel, for any    *)
(* accounts, tunnels, threads, windows, delays and bounds.                 *)
(*                                                                         *)
(* Vpn: VpnInvariant is inductive, and says which path is taken.           *)
(*                                                                         *)
(* WireGuard: the replay window delivers each packet at most once, and no  *)
(* counter leaves twice under the same keys.                               *)
(*                                                                         *)
(* Tunnel: the threads that share the session only repeat a counter when   *)
(* one changes it in the middle of another's encapsulate().                *)
(*                                                                         *)
(* TunnelSockets: bytes are read as they arrived, a close is told after    *)
(* them, and callbacks and answers find who they are for.                  *)
(***************************************************************************)
EXTENDS Vpn, WireGuard, Tunnel, TunnelSockets, FiniteSetTheorems, SequenceTheorems, TLAPS

-----------------------------------------------------------------------------
(* What a step leaves alone                                                *)

\* The manager and the tunnels agree as long as neither they nor the transport change.
LEMMA SameManager ==
    ASSUME VpnInvariant, UNCHANGED <<manager, tunnels, transport, setting>>
    PROVE  (TransportLives /\ HeldTunnelLives /\ DeviceIsOurs /\ OneTunnel /\ JobIsOurs)'
BY DEF VpnInvariant, manager, tunnels, TransportLives, HeldTunnelLives, DeviceIsOurs,
       OneTunnel, JobIsOurs, Calling

\* The engine's path does not depend on the manager.
LEMMA SamePath ==
    ASSUME VpnInvariant, UNCHANGED <<session, turn>>
    PROVE  OnePath' /\ PathTypes'
<1>1. OnePath'
  BY DEF VpnInvariant, session, turn, OnePath, Switching
<1>2. PathTypes'
  BY DEF VpnInvariant, TypeOK, session, turn, PathTypes
<1>3. QED
  BY <1>1, <1>2

-----------------------------------------------------------------------------
(* The user                                                                *)

LEMMA InitInvariant == Init => VpnInvariant
<1> SUFFICES ASSUME Init PROVE VpnInvariant
  OBVIOUS
<1>1. TypeOK
  <2>1. job \in [account : Accounts \cup {NoAccount}, device : Accounts \cup {NoAccount},
                tunnel : 0 .. MaxTunnels, waited : Nat]
    BY VpnAssumption DEF Init, NoJob
  <2>2. tunnel \in [Tunnels -> {"Down", "Handshaking", "Up"}]
    BY DEF Init
  <2>3. transport \in Transports \ {None} /\ ref \in Transports /\ dht \in Transports
    BY DEF Init, Transports, None, Direct
  <2>4. /\ busy \in BOOLEAN /\ edited \in BOOLEAN /\ queued \in BOOLEAN
        /\ requireVpn \in BOOLEAN /\ rules \in BOOLEAN
    BY DEF Init
  <2>5. QED
    BY <2>1, <2>2, <2>3, <2>4 DEF Init, TypeOK, ManagerTypes, PathTypes
<1>2. TransportLives /\ HeldTunnelLives /\ OneTunnel
  BY DEF Init, TransportLives, HeldTunnelLives, OneTunnel, Calling, Tunnels, None, Direct
<1>3. DeviceIsOurs /\ JobIsOurs /\ OnePath
  BY DEF Init, DeviceIsOurs, JobIsOurs, OnePath, Switching
<1>4. QED
  BY <1>1, <1>2, <1>3 DEF VpnInvariant

LEMMA SetAccountStep ==
    ASSUME VpnInvariant, NEW a \in Accounts, SetAccount(a)
    PROVE  VpnInvariant'
<1>1. ManagerTypes'
  BY DEF VpnInvariant, SetAccount, TypeOK, ManagerTypes, tunnels, session, turn
<1>2. TransportLives' /\ HeldTunnelLives' /\ OneTunnel'
  BY DEF VpnInvariant, SetAccount, TransportLives, HeldTunnelLives, OneTunnel, Calling,
         tunnels, session
<1>3. DeviceIsOurs' /\ JobIsOurs'
  BY DEF VpnInvariant, TypeOK, ManagerTypes, SetAccount, DeviceIsOurs, JobIsOurs, Calling
<1>4. OnePath' /\ PathTypes'
  BY SamePath DEF SetAccount
<1>5. QED
  BY <1>1, <1>2, <1>3, <1>4 DEF VpnInvariant, TypeOK

LEMMA SetRequireVpnStep == ASSUME VpnInvariant, SetRequireVpn PROVE VpnInvariant'
<1>1. ManagerTypes'
  BY DEF VpnInvariant, SetRequireVpn, TypeOK, ManagerTypes, manager, tunnels
<1>2. OnePath' /\ PathTypes'
  BY DEF VpnInvariant, SetRequireVpn, TypeOK, PathTypes, OnePath, Switching, turn
<1>3. QED
  BY <1>1, <1>2, SameManager DEF VpnInvariant, TypeOK, SetRequireVpn

LEMMA ConnectStep == ASSUME VpnInvariant, Connect PROVE VpnInvariant'
<1>1. ManagerTypes'
  BY DEF VpnInvariant, Connect, TypeOK, ManagerTypes, Calling, tunnels, session, turn
<1>2. TransportLives' /\ HeldTunnelLives' /\ OneTunnel'
  BY DEF VpnInvariant, TypeOK, ManagerTypes, Connect, TransportLives, HeldTunnelLives, OneTunnel, Calling,
         tunnels, session
<1>3. DeviceIsOurs' /\ JobIsOurs'
  BY DEF VpnInvariant, TypeOK, ManagerTypes, Connect, DeviceIsOurs, JobIsOurs, Calling
<1>4. OnePath' /\ PathTypes'
  BY SamePath DEF Connect
<1>5. QED
  BY <1>1, <1>2, <1>3, <1>4 DEF VpnInvariant, TypeOK

LEMMA DisconnectStep == ASSUME VpnInvariant, Disconnect PROVE VpnInvariant'
<1>1. ManagerTypes'
  BY DEF VpnInvariant, Disconnect, TypeOK, ManagerTypes, manager, tunnels, turn, Transports, Direct, None
<1>2. TransportLives' /\ HeldTunnelLives' /\ OneTunnel'
  BY DEF VpnInvariant, TypeOK, ManagerTypes, Disconnect, TransportLives, HeldTunnelLives, OneTunnel,
         Calling, manager, tunnels, Tunnels, Direct, None
<1>3. DeviceIsOurs' /\ JobIsOurs'
  BY DEF VpnInvariant, Disconnect, DeviceIsOurs, JobIsOurs, manager
<1>4. OnePath'
  BY DEF VpnInvariant, Disconnect, OnePath, Switching, turn
<1>5. PathTypes'
  BY DEF VpnInvariant, TypeOK, Disconnect, PathTypes, turn, Transports, Direct, None
<1>6. QED
  BY <1>5, <1>1, <1>2, <1>3, <1>4 DEF VpnInvariant, TypeOK

LEMMA DisconnectedStep == ASSUME VpnInvariant, Disconnected PROVE VpnInvariant'
<1>1. held = active /\ active \in Tunnels /\ transport = Direct
  BY DEF VpnInvariant, TypeOK, ManagerTypes, Disconnected, OneTunnel
<1>2. ManagerTypes'
  BY <1>1 DEF VpnInvariant, Disconnected, TypeOK, ManagerTypes, turn
<1>3. TransportLives' /\ HeldTunnelLives' /\ OneTunnel'
  BY <1>1 DEF VpnInvariant, TypeOK, ManagerTypes, Disconnected, TransportLives, HeldTunnelLives, OneTunnel,
              Calling, Tunnels, Direct, None
<1>4. DeviceIsOurs' /\ JobIsOurs'
  BY DEF VpnInvariant, Disconnected, DeviceIsOurs, JobIsOurs
<1>5. OnePath'
  BY DEF VpnInvariant, Disconnected, OnePath, Switching, turn
<1>6. PathTypes'
  BY DEF VpnInvariant, TypeOK, Disconnected, PathTypes, turn
<1>7. QED
  BY <1>6, <1>2, <1>3, <1>4, <1>5 DEF VpnInvariant, TypeOK

-----------------------------------------------------------------------------
(* The worker                                                              *)

\* The steps before there is a tunnel change the worker's place, and its locals.
LEMMA CallStep ==
    ASSUME VpnInvariant, worker \in Calling, UNCHANGED <<held, tunnels, session, turn>>,
           worker' \in Calling \/ (Finish("Failed") /\ UNCHANGED job),
           worker' \in Calling => UNCHANGED <<state, busy>> /\ job'.tunnel = job.tunnel
    PROVE  (TransportLives /\ HeldTunnelLives /\ OneTunnel /\ OnePath /\ PathTypes)'
<1>1. TransportLives' /\ HeldTunnelLives'
  BY DEF VpnInvariant, TransportLives, HeldTunnelLives, OneTunnel, tunnels, session, Calling
<1>2. OneTunnel'
  BY DEF VpnInvariant, TypeOK, ManagerTypes, OneTunnel, Finish, tunnels, session, Calling
<1>3. OnePath' /\ PathTypes'
  BY SamePath
<1>4. QED
  BY <1>1, <1>2, <1>3

LEMMA FailStep ==
    ASSUME VpnInvariant, NEW at \in {"login", "device", "relays"}, Fail(at)
    PROVE  VpnInvariant'
<1>1. ManagerTypes'
  BY DEF VpnInvariant, Fail, Finish, TypeOK, ManagerTypes, tunnels, session, turn
<1>2. (TransportLives /\ HeldTunnelLives /\ OneTunnel /\ OnePath /\ PathTypes)'
  BY CallStep DEF Fail, Finish, Calling
<1>3. DeviceIsOurs' /\ JobIsOurs'
  BY DEF VpnInvariant, Fail, Finish, DeviceIsOurs, JobIsOurs
<1>4. QED
  BY <1>1, <1>2, <1>3 DEF VpnInvariant, TypeOK

LEMMA SnapshotStep == ASSUME VpnInvariant, Snapshot PROVE VpnInvariant'
<1>1. ManagerTypes'
  BY DEF VpnInvariant, Snapshot, TypeOK, ManagerTypes, Calling, tunnels, session, turn
<1>2. (TransportLives /\ HeldTunnelLives /\ OneTunnel /\ OnePath /\ PathTypes)'
  BY CallStep DEF VpnInvariant, TypeOK, ManagerTypes, Snapshot, Calling
<1>3. DeviceIsOurs' /\ JobIsOurs'
  BY DEF VpnInvariant, TypeOK, ManagerTypes, Snapshot, DeviceIsOurs, JobIsOurs
<1>4. QED
  BY <1>1, <1>2, <1>3 DEF VpnInvariant, TypeOK

LEMMA LoginStep == ASSUME VpnInvariant, Login PROVE VpnInvariant'
<1>1. ManagerTypes'
  BY DEF VpnInvariant, Login, TypeOK, ManagerTypes, Calling, tunnels, session, turn
<1>2. (TransportLives /\ HeldTunnelLives /\ OneTunnel /\ OnePath /\ PathTypes)'
  BY CallStep DEF VpnInvariant, TypeOK, ManagerTypes, Login, Calling
<1>3. DeviceIsOurs' /\ JobIsOurs'
  BY DEF VpnInvariant, TypeOK, ManagerTypes, Login, DeviceIsOurs, JobIsOurs
<1>4. QED
  BY <1>1, <1>2, <1>3 DEF VpnInvariant, TypeOK

LEMMA CheckDeviceStep == ASSUME VpnInvariant, CheckDevice PROVE VpnInvariant'
<1> PICK d \in StillThere(job.device) :
      job' = [job EXCEPT !.device = Created(d, job.account)]
  BY DEF CheckDevice
<1>1. job.account \in Accounts \cup {NoAccount} /\ job.device \in Accounts \cup {NoAccount}
  BY DEF VpnInvariant, TypeOK, ManagerTypes
<1>2. Created(d, job.account) \in {job.account, job.device}
  BY DEF StillThere, Created
<1>3. ManagerTypes'
  BY <1>1, <1>2 DEF VpnInvariant, CheckDevice, TypeOK, ManagerTypes, Calling, tunnels, session, turn
<1>4. (TransportLives /\ HeldTunnelLives /\ OneTunnel /\ OnePath /\ PathTypes)'
  BY CallStep DEF VpnInvariant, TypeOK, ManagerTypes, CheckDevice, Calling
<1>5. DeviceIsOurs' /\ JobIsOurs'
  BY DEF VpnInvariant, TypeOK, ManagerTypes, CheckDevice, StillThere, Created, DeviceIsOurs, JobIsOurs
<1>6. QED
  BY <1>3, <1>4, <1>5 DEF VpnInvariant, TypeOK

LEMMA StoreDeviceStep == ASSUME VpnInvariant, StoreDevice PROVE VpnInvariant'
<1>1. ManagerTypes'
  BY DEF VpnInvariant, StoreDevice, TypeOK, ManagerTypes, Calling, tunnels, session, turn
<1>2. (TransportLives /\ HeldTunnelLives /\ OneTunnel /\ OnePath /\ PathTypes)'
  BY CallStep DEF StoreDevice, Calling
<1>3. DeviceIsOurs' /\ JobIsOurs'
  BY DEF VpnInvariant, StoreDevice, DeviceIsOurs, JobIsOurs
<1>4. QED
  BY <1>1, <1>2, <1>3 DEF VpnInvariant, TypeOK

LEMMA MakeTunnelStep == ASSUME VpnInvariant, MakeTunnel PROVE VpnInvariant'
<1> DEFINE t == job.tunnel + 1
<1>1. t \in Tunnels /\ t # None /\ active = None /\ held = None /\ transport = Direct
  BY VpnAssumption DEF VpnInvariant, TypeOK, ManagerTypes, MakeTunnel, OneTunnel, Calling,
                       Tunnels, None
<1>2. /\ tunnel' = [tunnel EXCEPT ![t] = "Handshaking"] /\ active' = t
      /\ job' = [job EXCEPT !.tunnel = t, !.waited = 0] /\ worker' = "wait"
      /\ UNCHANGED <<state, busy, account, device, held, edited, upOnce, session, turn>>
  BY <1>1 DEF MakeTunnel
<1> HIDE DEF t
<1>3. ManagerTypes'
  <2>1. job' \in [account : Accounts \cup {NoAccount}, device : Accounts \cup {NoAccount},
                 tunnel : 0 .. MaxTunnels, waited : Nat]
    <3>1. t \in 0 .. MaxTunnels
      BY <1>1 DEF Tunnels
    <3>2. job' = [job EXCEPT !.tunnel = t, !.waited = 0]
      BY <1>2
    <3>3. QED
      BY <3>1, <3>2 DEF VpnInvariant, TypeOK, ManagerTypes
  <2>2. tunnel' \in [Tunnels -> {"Down", "Handshaking", "Up"}]
    BY <1>1, <1>2 DEF VpnInvariant, TypeOK, ManagerTypes
  <2>3. busy' /\ active' \in Tunnels /\ held' \in Tunnels \cup {None}
    BY <1>1, <1>2 DEF VpnInvariant, TypeOK, ManagerTypes, MakeTunnel
  <2>4. QED
    BY <1>2, <2>1, <2>2, <2>3 DEF VpnInvariant, TypeOK, ManagerTypes
<1>4. TransportLives' /\ HeldTunnelLives'
  <2>1. \A u \in Tunnels : tunnel[u] = "Down"
    BY <1>1 DEF VpnInvariant, HeldTunnelLives, None, Tunnels
  <2>2. QED
    BY <1>1, <1>2, <2>1 DEF VpnInvariant, TypeOK, ManagerTypes, TransportLives,
                            HeldTunnelLives, Tunnels, Direct, None, session
<1>5. OneTunnel'
  BY <1>1, <1>2 DEF VpnInvariant, TypeOK, ManagerTypes, MakeTunnel, OneTunnel, Calling,
                    Tunnels, None, session
<1>6. DeviceIsOurs' /\ JobIsOurs'
  BY <1>2 DEF VpnInvariant, DeviceIsOurs, JobIsOurs
<1>7. OnePath' /\ PathTypes'
  BY <1>2, SamePath
<1>8. QED
  BY <1>3, <1>4, <1>5, <1>6, <1>7 DEF VpnInvariant, TypeOK

LEMMA WaitForHandshakeStep == ASSUME VpnInvariant, WaitForHandshake PROVE VpnInvariant'
<1>1. ManagerTypes'
  BY DEF VpnInvariant, WaitForHandshake, TypeOK, ManagerTypes, tunnels, session, turn
<1>2. TransportLives' /\ HeldTunnelLives' /\ OneTunnel'
  BY DEF VpnInvariant, TypeOK, ManagerTypes, WaitForHandshake, TransportLives, HeldTunnelLives, OneTunnel,
         Calling, tunnels, session
<1>3. DeviceIsOurs' /\ JobIsOurs'
  BY DEF VpnInvariant, TypeOK, ManagerTypes, WaitForHandshake, DeviceIsOurs, JobIsOurs
<1>4. OnePath' /\ PathTypes'
  BY SamePath DEF WaitForHandshake
<1>5. QED
  BY <1>1, <1>2, <1>3, <1>4 DEF VpnInvariant, TypeOK

LEMMA NoAnswerStep == ASSUME VpnInvariant, NoAnswer PROVE VpnInvariant'
<1>1. active = job.tunnel /\ active \in Tunnels /\ held = None /\ transport = Direct
  BY DEF VpnInvariant, TypeOK, ManagerTypes, NoAnswer, OneTunnel, Tunnels, None
<1>2. ManagerTypes'
  BY <1>1 DEF VpnInvariant, NoAnswer, Finish, TypeOK, ManagerTypes, session, turn
<1>3. TransportLives' /\ HeldTunnelLives' /\ OneTunnel'
  BY <1>1 DEF VpnInvariant, TypeOK, ManagerTypes, NoAnswer, Finish, TransportLives, HeldTunnelLives,
              OneTunnel, Calling, session, Tunnels, Direct, None
<1>4. DeviceIsOurs' /\ JobIsOurs'
  BY DEF VpnInvariant, NoAnswer, Finish, DeviceIsOurs, JobIsOurs
<1>5. OnePath' /\ PathTypes'
  BY SamePath DEF NoAnswer
<1>6. QED
  BY <1>2, <1>3, <1>4, <1>5 DEF VpnInvariant, TypeOK

LEMMA UseTunnelStep == ASSUME VpnInvariant, UseTunnel PROVE VpnInvariant'
<1>1. active = job.tunnel /\ active \in Tunnels /\ job.tunnel # Direct
  BY DEF VpnInvariant, TypeOK, ManagerTypes, UseTunnel, OneTunnel, Tunnels, None, Direct
<1>2. tunnel[job.tunnel] = "Up"
  BY <1>1 DEF UseTunnel, HandshakeDone, Ready
<1>3. ManagerTypes'
  BY <1>1 DEF VpnInvariant, UseTunnel, TypeOK, ManagerTypes, tunnels, turn, Transports, Tunnels, None
<1>4. TransportLives' /\ HeldTunnelLives' /\ OneTunnel'
  BY <1>1, <1>2 DEF VpnInvariant, TypeOK, ManagerTypes, UseTunnel, TransportLives, HeldTunnelLives,
                    OneTunnel, Calling, tunnels, Tunnels, None
<1>5. DeviceIsOurs' /\ JobIsOurs'
  BY DEF VpnInvariant, UseTunnel, DeviceIsOurs, JobIsOurs
<1>6. OnePath'
  BY DEF VpnInvariant, UseTunnel, OnePath, Switching, turn
<1>7. PathTypes'
  BY <1>1 DEF VpnInvariant, TypeOK, UseTunnel, PathTypes, turn, Transports, Tunnels, None
<1>8. QED
  BY <1>7, <1>3, <1>4, <1>5, <1>6 DEF VpnInvariant, TypeOK

LEMMA ConnectedStep == ASSUME VpnInvariant, Connected PROVE VpnInvariant'
<1>1. ManagerTypes'
  BY DEF VpnInvariant, Connected, Finish, TypeOK, ManagerTypes, tunnels, turn
<1>2. TransportLives' /\ HeldTunnelLives' /\ OneTunnel'
  BY DEF VpnInvariant, TypeOK, ManagerTypes, Connected, Finish, TransportLives, HeldTunnelLives, OneTunnel,
         Calling, tunnels
<1>3. DeviceIsOurs' /\ JobIsOurs'
  BY DEF VpnInvariant, Connected, Finish, DeviceIsOurs, JobIsOurs
<1>4. OnePath'
  BY DEF VpnInvariant, Connected, OnePath, Switching, turn
<1>5. PathTypes'
  BY DEF VpnInvariant, TypeOK, Connected, PathTypes, turn
<1>6. QED
  BY <1>5, <1>1, <1>2, <1>3, <1>4 DEF VpnInvariant, TypeOK

-----------------------------------------------------------------------------
(* The tunnels                                                             *)

\* A tunnel that rises or falls is neither opened nor stopped.
LEMMA TunnelStep ==
    ASSUME VpnInvariant, NEW t \in Tunnels, Rises(t) \/ Falls(t)
    PROVE  VpnInvariant'
<1>1. /\ \E s \in {"Handshaking", "Up"} : tunnel' = [tunnel EXCEPT ![t] = s]
      /\ tunnel[t] # "Down" /\ upOnce' \subseteq Tunnels /\ upOnce \subseteq upOnce'
      /\ UNCHANGED <<manager, active, session, turn>>
  BY DEF VpnInvariant, TypeOK, ManagerTypes, Rises, Falls
<1>2. ManagerTypes'
  BY <1>1 DEF VpnInvariant, TypeOK, ManagerTypes, manager
<1>3. \A u \in Tunnels : tunnel'[u] = "Down" <=> tunnel[u] = "Down"
  BY <1>1 DEF VpnInvariant, TypeOK, ManagerTypes
<1>4. TransportLives'
  BY <1>1, <1>3 DEF VpnInvariant, TransportLives, session
<1>5. HeldTunnelLives'
  BY <1>1, <1>3 DEF VpnInvariant, HeldTunnelLives, manager
<1>6. DeviceIsOurs' /\ JobIsOurs'
  BY <1>1 DEF VpnInvariant, DeviceIsOurs, JobIsOurs, manager
<1>7. OneTunnel'
  <2>1. \A u \in Tunnels : tunnel'[u] = "Up" => u \in upOnce'
    BY DEF VpnInvariant, TypeOK, ManagerTypes, OneTunnel, Rises, Falls
  <2>2. active' # None => tunnel'[active'] # "Down"
    BY <1>1, <1>3 DEF VpnInvariant, TypeOK, ManagerTypes, OneTunnel
  <2>3. QED
    BY <1>1, <2>1, <2>2 DEF VpnInvariant, OneTunnel, manager, session
<1>8. OnePath' /\ PathTypes'
  BY <1>1, SamePath
<1>9. QED
  BY <1>2, <1>4, <1>5, <1>6, <1>7, <1>8 DEF VpnInvariant, TypeOK

-----------------------------------------------------------------------------
(* The engine                                                              *)

\* A step of the engine leaves the manager and the transport alone.
LEMMA EngineKeepsManager ==
    ASSUME VpnInvariant, UNCHANGED <<manager, tunnels, transport, setting>>, OnePath', PathTypes'
    PROVE  VpnInvariant'
<1>1. ManagerTypes'
  BY DEF VpnInvariant, TypeOK, ManagerTypes, manager, tunnels
<1>2. QED
  BY <1>1, SameManager DEF VpnInvariant, TypeOK

LEMMA ProcessCommandsStep == ASSUME VpnInvariant, ProcessCommands PROVE VpnInvariant'
<1>1. OnePath'
  BY DEF VpnInvariant, ProcessCommands, PeersAfter, OnePath, Switching
<1>2. PathTypes'
  BY DEF VpnInvariant, TypeOK, ProcessCommands, PeersAfter, PathTypes
<1>3. QED
  BY <1>1, <1>2, EngineKeepsManager DEF ProcessCommands

LEMMA ReadRulesStep == ASSUME VpnInvariant, ReadRules PROVE VpnInvariant'
<1>1. OnePath'
  BY DEF VpnInvariant, ReadRules, OnePath, Switching, session
<1>2. PathTypes'
  BY DEF VpnInvariant, TypeOK, ReadRules, PathTypes, session
<1>3. QED
  BY <1>1, <1>2, EngineKeepsManager DEF ReadRules, session

LEMMA ReadTransportStep == ASSUME VpnInvariant, ReadTransport PROVE VpnInvariant'
<1>1. OnePath'
  BY DEF VpnInvariant, TypeOK, PathTypes, ReadTransport, Allowed, OnePath, Switching,
         session, Direct, None
<1>2. PathTypes'
  BY DEF VpnInvariant, TypeOK, ReadTransport, Allowed, PathTypes, session, Transports
<1>3. QED
  BY <1>1, <1>2, EngineKeepsManager DEF ReadTransport, session

LEMMA TickStep == ASSUME VpnInvariant, Tick PROVE VpnInvariant'
<1>1. ~ Ready(None)
  BY DEF Ready, None, Direct, Tunnels
<1>2. /\ ref = None => peers' = {}
      /\ peers' \cup failed' \subseteq peers \cup failed \cup ({ref} \ {None})
  <2>1. CASE Ready(ref)
    BY <1>1, <2>1 DEF Tick, SomeFail
  <2>2. CASE ~ Ready(ref)
    BY <2>2 DEF Tick
  <2>3. QED
    BY <2>1, <2>2
<1>3. OnePath'
  <2>1. engine = "tick" /\ engine' = "dht" /\ UNCHANGED <<session, rules, ref, dht>>
    BY DEF Tick
  <2>2. ~ Switching => peers' \cup failed' \subseteq {transport}
    BY <1>2, <2>1 DEF VpnInvariant, OnePath
  <2>3. QED
    BY <1>2, <2>1, <2>2 DEF VpnInvariant, OnePath, Switching, session
<1>4. PathTypes'
  BY <1>2 DEF VpnInvariant, TypeOK, Tick, PathTypes, session
<1>5. QED
  BY <1>3, <1>4, EngineKeepsManager DEF Tick, session

LEMMA FollowDhtStep == ASSUME VpnInvariant, FollowDht PROVE VpnInvariant'
<1>1. OnePath'
  BY DEF VpnInvariant, FollowDht, OnePath, Switching, session
<1>2. PathTypes'
  BY DEF VpnInvariant, TypeOK, FollowDht, PathTypes, session
<1>3. QED
  BY <1>1, <1>2, EngineKeepsManager DEF FollowDht, session

LEMMA PollStep == ASSUME VpnInvariant, Poll PROVE VpnInvariant'
<1>1. peers' \cup failed' \subseteq peers \cup failed
  BY DEF Poll, Polled
<1>2. OnePath'
  BY <1>1 DEF VpnInvariant, Poll, OnePath, Switching, session
<1>3. PathTypes'
  BY <1>1 DEF VpnInvariant, TypeOK, Poll, PathTypes, session
<1>4. QED
  BY <1>2, <1>3, EngineKeepsManager DEF Poll, session

-----------------------------------------------------------------------------
(* Together                                                                *)

LEMMA NextInvariant == VpnInvariant /\ [Next]_vars => VpnInvariant'
<1> SUFFICES ASSUME VpnInvariant, [Next]_vars PROVE VpnInvariant'
  OBVIOUS
<1>1. ASSUME NEW a \in Accounts, SetAccount(a) PROVE VpnInvariant'
  BY <1>1, SetAccountStep
<1>2. CASE SetRequireVpn \/ Connect \/ Disconnect \/ Disconnected
  BY <1>2, SetRequireVpnStep, ConnectStep, DisconnectStep, DisconnectedStep
<1>3. CASE Worker
  BY <1>3, FailStep, SnapshotStep, LoginStep, CheckDeviceStep, StoreDeviceStep, MakeTunnelStep,
     WaitForHandshakeStep, NoAnswerStep, UseTunnelStep, ConnectedStep DEF Worker
<1>4. ASSUME NEW t \in Tunnels, Rises(t) \/ Falls(t) PROVE VpnInvariant'
  BY <1>4, TunnelStep
<1>5. CASE Engine
  BY <1>5, ProcessCommandsStep, ReadRulesStep, ReadTransportStep, TickStep, FollowDhtStep,
     PollStep DEF Engine
<1>6. CASE UNCHANGED vars
  <2>1. UNCHANGED <<manager, tunnels, session, turn>>
    BY <1>6 DEF vars, manager, tunnels, session, turn
  <2>2. UNCHANGED <<transport, setting>>
    BY <2>1 DEF session
  <2>3. QED
    BY <2>1, <2>2, SamePath, EngineKeepsManager
<1>7. QED
  BY <1>1, <1>2, <1>3, <1>4, <1>5, <1>6 DEF Next

\* Whatever the user, the worker and the engine do in whatever order, the manager, its
\* tunnel and the session's transport agree, and a stored device is the account's.
THEOREM ManagerAgrees == Spec => []VpnInvariant
<1>1. Init => VpnInvariant
  BY InitInvariant
<1>2. QED
  BY <1>1, NextInvariant, PTL DEF Spec

\* A poll finds no socket that another transport made, not even of a failed torrent,
\* unless the transport was replaced during that same turn: peers dropped by SetTransport
\* never come back.
THEOREM OwnPoll == Spec => []PolledByItsOwn
<1>1. VpnInvariant => PolledByItsOwn
  BY DEF VpnInvariant, OnePath, PolledByItsOwn, Polled
<1>2. QED
  BY <1>1, ManagerAgrees, PTL

\* With the VPN required nothing that a turn polls is on the direct path, and of what is
\* not polled only the sockets of failed torrents may be, unless the transport was
\* replaced during that turn, whoever replaces it.
THEOREM PathIsTunnel == Spec => []NothingGoesDirect
<1>1. ASSUME VpnInvariant, engine = "poll", rules
      PROVE  dht # Direct /\ (~ Switching => Direct \notin peers \cup Polled)
  <2>1. dht = ref /\ ref # Direct /\ (ref = None => peers = {})
    BY <1>1 DEF VpnInvariant, OnePath
  <2>2. ~ Switching => peers \cup failed \subseteq {transport} /\ ref \in {transport, None}
    BY <1>1 DEF VpnInvariant, OnePath
  <2>3. QED
    BY <2>1, <2>2 DEF Polled
<1>2. VpnInvariant => NothingGoesDirect
  BY <1>1 DEF NothingGoesDirect
<1>3. QED
  BY <1>2, ManagerAgrees, PTL

-----------------------------------------------------------------------------
(* The session, over a network that loses, repeats and delays              *)

\* What the type of the peer says of each member the proofs use
LEMMA PeerTypes ==
    ASSUME peer \in PeerState
    PROVE  /\ peer.established \in BOOLEAN /\ peer.inProgress \in BOOLEAN
           /\ peer.local \in Keys \cup {0} /\ peer.keys \in Keys \cup {0}
           /\ peer.secrets \in {"none", "fresh", "spoilt"}
           /\ peer.counter \in Nat /\ peer.recv \in BOOLEAN /\ peer.highest \in Nat
           /\ peer.window \subseteq 0 .. Window - 1
           /\ peer.keyAge \in 0 .. RejectAfter
           /\ peer.sendAge \in 0 .. KeepaliveAfter
           /\ peer.tryAge \in 0 .. RekeyTimeout
BY DEF PeerState

LEMMA DataFields ==
    ASSUME NEW m \in Data
    PROVE  m.keys \in Keys /\ m.counter \in 0 .. MaxCount
BY DEF Data

LEMMA SameData ==
    ASSUME NEW m \in Data, NEW n \in Data, m.keys = n.keys, m.counter = n.counter
    PROVE  m = n
BY DEF Data

LEMMA InitIInv == SessionInit => IInv
<1> SUFFICES ASSUME SessionInit PROVE IInv
  OBVIOUS
<1>1. peer \in PeerState
  BY WireGuardAssumption DEF SessionInit, Configured, PeerState
<1>2. SessionTypeOK
  BY <1>1 DEF SessionInit, SessionTypeOK
<1>3. KeysAreAgreed
  BY DEF SessionInit, Configured, KeysAreAgreed
<1>4. WindowIsMemory
  BY DEF SessionInit, Configured, WindowIsMemory
<1>5. DeliveredOnce /\ SentOnce
  BY DEF SessionInit, DeliveredOnce, SentOnce
<1>6. QED
  BY <1>2, <1>3, <1>4, <1>5 DEF IInv

\* A step that leaves the keys, the counter and the window alone
LEMMA QuietStep ==
    ASSUME IInv, SessionTypeOK', KeysAreAgreed', UNCHANGED <<sent, delivered>>,
           peer'.keys = peer.keys, peer'.recv = peer.recv,
           peer'.highest = peer.highest, peer'.window = peer.window
    PROVE  IInv'
<1>1. WindowIsMemory'
  BY DEF IInv, WindowIsMemory
<1>2. DeliveredOnce' /\ SentOnce'
  BY DEF IInv, DeliveredOnce, SentOnce
<1>3. QED
  BY <1>1, <1>2 DEF IInv

LEMMA InitiateStep == ASSUME IInv, Initiate PROVE IInv'
<1>1. peer \in PeerState /\ peer.local + 1 \in Keys
  <2>1. peer \in PeerState
    BY DEF IInv, SessionTypeOK
  <2>2. peer.local \in 0 .. MaxKeys /\ peer.local < MaxKeys
    BY <2>1, WireGuardAssumption, PeerTypes DEF Initiate, Keys
  <2>3. QED
    BY <2>1, <2>2, WireGuardAssumption DEF Keys
<1>2. peer' = [peer EXCEPT !.inProgress = TRUE, !.local = peer.local + 1,
                           !.secrets = "fresh", !.tryAge = 0]
  BY DEF Initiate, MakeInitiation
<1>3. 0 \in 0 .. RekeyTimeout
  BY WireGuardAssumption
<1>4. peer' \in PeerState
  BY <1>1, <1>2, <1>3 DEF PeerState
<1>5. SessionTypeOK'
  BY <1>4 DEF IInv, SessionTypeOK, Initiate
<1>6. /\ peer'.keys = peer.keys /\ peer'.recv = peer.recv
      /\ peer'.highest = peer.highest /\ peer'.window = peer.window
      /\ peer'.counter = peer.counter /\ peer'.established = peer.established
      /\ peer'.local = peer.local + 1
  BY <1>1, <1>2 DEF PeerState
<1>7. KeysAreAgreed'
  <2>1. peer.keys \in Int /\ peer.local \in Int /\ peer.keys <= peer.local
    BY <1>1, PeerTypes DEF IInv, KeysAreAgreed, Keys
  <2>2. peer'.keys < peer'.local
    BY <1>6, <2>1
  <2>3. QED
    BY <1>6, <2>1, <2>2 DEF IInv, KeysAreAgreed, Initiate
<1>8. QED
  BY <1>5, <1>6, <1>7, QuietStep DEF Initiate

LEMMA TimeStep == ASSUME IInv, SessionAges PROVE IInv'
<1>1. peer \in PeerState /\ peer' = Older(peer)
  BY DEF IInv, SessionTypeOK, SessionAges
<1>2. /\ peer'.keys = peer.keys /\ peer'.recv = peer.recv
      /\ peer'.highest = peer.highest /\ peer'.window = peer.window
      /\ peer'.counter = peer.counter /\ peer'.established = peer.established
      /\ peer'.local = peer.local /\ peer'.inProgress = peer.inProgress
      /\ peer'.secrets = peer.secrets
  BY <1>1 DEF Older, PeerState
<1>3. peer' \in PeerState
  <2>1. \A n \in Nat : \A a \in 0 .. n : (IF a < n THEN a + 1 ELSE a) \in 0 .. n
    OBVIOUS
  <2>2. /\ (IF peer.keyAge < RejectAfter THEN peer.keyAge + 1 ELSE peer.keyAge) \in 0 .. RejectAfter
        /\ (IF peer.sendAge < KeepaliveAfter THEN peer.sendAge + 1 ELSE peer.sendAge) \in 0 .. KeepaliveAfter
        /\ (IF peer.tryAge < RekeyTimeout THEN peer.tryAge + 1 ELSE peer.tryAge) \in 0 .. RekeyTimeout
    BY <1>1, <2>1, PeerTypes, WireGuardAssumption
  <2>3. QED
    BY <1>1, <2>2 DEF Older, PeerState
<1>4. SessionTypeOK'
  BY <1>3 DEF IInv, SessionTypeOK, SessionAges
<1>5. KeysAreAgreed'
  BY <1>2 DEF IInv, KeysAreAgreed, SessionAges
<1>6. QED
  BY <1>2, <1>4, <1>5, QuietStep DEF SessionAges

LEMMA RelayStep ==
    ASSUME IInv, NEW k \in Keys,
           RelaySends(k) \/ \E genuine \in BOOLEAN : RelayResponds(k, genuine)
    PROVE  IInv'
<1>1. UNCHANGED <<peer, sent, delivered>>
  BY DEF RelaySends, RelayResponds
<1>2. SessionTypeOK'
  <2>1. CASE \E genuine \in BOOLEAN : RelayResponds(k, genuine)
    BY <1>1, <2>1 DEF IInv, SessionTypeOK, RelayResponds, Response
  <2>2. CASE RelaySends(k)
    <3>1. relay[k] \in 0 .. MaxCount /\ relay' \in [Keys -> Nat]
      BY <2>2, WireGuardAssumption DEF IInv, SessionTypeOK, RelaySends
    <3>2. [type |-> "data", keys |-> k, counter |-> relay[k]] \in Data
      BY <3>1 DEF Data
    <3>3. QED
      BY <1>1, <2>2, <3>1, <3>2 DEF IInv, SessionTypeOK, RelaySends
  <2>3. QED
    BY <2>1, <2>2
<1>3. KeysAreAgreed'
  BY <1>1 DEF IInv, KeysAreAgreed
<1>4. QED
  BY <1>1, <1>2, <1>3, QuietStep

LEMMA ResponseStep ==
    ASSUME IInv, NEW m \in network, ReceiveResponse(m)
    PROVE  IInv'
<1>1. /\ peer \in PeerState /\ UNCHANGED <<relay, network, sent, delivered>>
      /\ peer' = ConsumeResponse(peer, m)
  BY DEF IInv, SessionTypeOK, ReceiveResponse
<1>2. CASE ~ Answers(peer, m)
  <2>1. peer' = peer
    BY <1>1, <1>2 DEF ConsumeResponse
  <2>2. SessionTypeOK' /\ KeysAreAgreed'
    BY <1>1, <2>1 DEF IInv, SessionTypeOK, KeysAreAgreed
  <2>3. QED
    BY <1>1, <2>1, <2>2, QuietStep
<1>3. CASE Answers(peer, m) /\ (~ m.genuine \/ peer.secrets # "fresh")
  <2>1. peer' = [peer EXCEPT !.secrets = "spoilt"]
    BY <1>1, <1>3 DEF ConsumeResponse
  <2>2. /\ peer' \in PeerState
        /\ peer'.keys = peer.keys /\ peer'.recv = peer.recv
        /\ peer'.highest = peer.highest /\ peer'.window = peer.window
        /\ peer'.counter = peer.counter /\ peer'.established = peer.established
        /\ peer'.local = peer.local /\ peer'.secrets = "spoilt"
    BY <1>1, <2>1 DEF PeerState
  <2>3. SessionTypeOK' /\ KeysAreAgreed'
    BY <1>1, <2>2 DEF IInv, SessionTypeOK, KeysAreAgreed
  <2>4. QED
    BY <1>1, <2>2, <2>3, QuietStep
<1>4. CASE Answers(peer, m) /\ m.genuine /\ peer.secrets = "fresh"
  <2>1. peer' = [TransportKeys(peer) EXCEPT !.established = TRUE, !.inProgress = FALSE,
                                            !.keyAge = 0, !.sendAge = 0]
    BY <1>1, <1>4 DEF ConsumeResponse
  <2>2. /\ peer'.keys = peer.local /\ peer'.counter = 0 /\ peer'.recv = FALSE
        /\ peer'.window = {} /\ peer'.local = peer.local /\ peer'.highest = 0
        /\ peer'.established = TRUE /\ peer'.inProgress = FALSE
    BY <1>1, <2>1 DEF TransportKeys, PeerState
  <2>3. peer.keys < peer.local /\ peer.local \in Keys
    BY <1>1, <1>4, PeerTypes DEF Answers, IInv, KeysAreAgreed, Keys
  <2>4. peer' \in PeerState
    <3>1. 0 \in 0 .. RejectAfter /\ 0 \in 0 .. KeepaliveAfter /\ 0 \in Nat
      BY WireGuardAssumption
    <3>2. peer' = [established |-> TRUE, inProgress |-> FALSE, local |-> peer.local,
                   secrets |-> "none", keys |-> peer.local, counter |-> 0,
                   recv |-> FALSE, highest |-> 0, window |-> {}, keyAge |-> 0,
                   sendAge |-> 0, tryAge |-> peer.tryAge]
      BY <1>1, <2>1 DEF TransportKeys, PeerState
    <3>3. peer.tryAge \in 0 .. RekeyTimeout
      BY <1>1, PeerTypes
    <3>4. QED
      BY <2>3, <3>1, <3>2, <3>3 DEF PeerState
  <2>5. ASSUME NEW n \in Data, sent[n] > 0 \/ delivered[n] > 0
        PROVE  n.keys < peer'.keys
    BY <1>1, <2>2, <2>3, <2>5, PeerTypes, DataFields DEF IInv, KeysAreAgreed, Keys
  <2>6. SessionTypeOK'
    BY <1>1, <2>4 DEF IInv, SessionTypeOK
  <2>7. KeysAreAgreed'
    <3>1. peer'.keys <= peer'.local /\ peer'.keys \in Keys
      BY <2>2, <2>3 DEF Keys
    <3>2. ASSUME NEW n \in Data, sent[n] > 0 \/ delivered[n] > 0
          PROVE  n.keys <= peer'.keys /\ n.keys # peer'.keys
      BY <2>2, <2>3, <2>5, <3>2, DataFields DEF Keys
    <3>3. QED
      BY <1>1, <2>2, <3>1, <3>2 DEF KeysAreAgreed
  <2>8. WindowIsMemory'
    <3>1. ASSUME NEW n \in Data, n.keys = peer'.keys PROVE ~ (delivered[n] > 0)
      BY <2>2, <2>3, <2>5, <3>1 DEF Keys
    <3>2. QED
      BY <1>1, <2>2, <3>1 DEF WindowIsMemory
  <2>9. DeliveredOnce' /\ SentOnce'
    BY <1>1 DEF IInv, DeliveredOnce, SentOnce
  <2>10. QED
    BY <2>6, <2>7, <2>8, <2>9 DEF IInv
<1>5. QED
  BY <1>2, <1>3, <1>4

LEMMA SendStep == ASSUME IInv, Send PROVE IInv'
<1>1. /\ peer \in PeerState /\ UNCHANGED <<relay, network, delivered>>
      /\ peer.counter <= MaxCount /\ peer' = Encapsulate(peer)
      /\ sent' = IF MaySend(peer) THEN [sent EXCEPT ![Message(peer)] = @ + 1] ELSE sent
  BY DEF IInv, SessionTypeOK, Send
<1>2. CASE ~ MaySend(peer)
  <2>1. peer' = [peer EXCEPT !.established = FALSE] /\ sent' = sent
    BY <1>1, <1>2 DEF Encapsulate
  <2>2. /\ peer' \in PeerState
        /\ peer'.keys = peer.keys /\ peer'.recv = peer.recv
        /\ peer'.highest = peer.highest /\ peer'.window = peer.window
        /\ peer'.counter = peer.counter /\ peer'.established = FALSE
        /\ peer'.local = peer.local /\ peer'.inProgress = peer.inProgress
        /\ peer'.secrets = peer.secrets
    BY <1>1, <2>1 DEF PeerState
  <2>3. SessionTypeOK' /\ KeysAreAgreed'
    BY <1>1, <2>1, <2>2 DEF IInv, SessionTypeOK, KeysAreAgreed
  <2>4. QED
    BY <1>1, <2>1, <2>2, <2>3, QuietStep
<1>3. CASE MaySend(peer)
  <2> DEFINE new == Message(peer)
  <2>1. /\ peer' = [peer EXCEPT !.counter = peer.counter + 1, !.sendAge = 0]
        /\ sent' = [sent EXCEPT ![new] = @ + 1]
    BY <1>1, <1>3 DEF Encapsulate
  <2>2. peer.keys \in Keys /\ peer.counter \in 0 .. MaxCount
    BY <1>1, <1>3, PeerTypes, WireGuardAssumption DEF MaySend, IInv, KeysAreAgreed
  <2>3. new \in Data /\ new.keys = peer.keys /\ new.counter = peer.counter
    BY <2>2 DEF Message, Data
  <2>4. 0 \in 0 .. KeepaliveAfter /\ peer.counter + 1 \in Nat
    BY <2>2, WireGuardAssumption
  <2>5. peer' \in PeerState
    BY <1>1, <2>1, <2>4 DEF PeerState
  <2>6. /\ peer'.keys = peer.keys /\ peer'.recv = peer.recv
        /\ peer'.highest = peer.highest /\ peer'.window = peer.window
        /\ peer'.counter = peer.counter + 1 /\ peer'.established = peer.established
        /\ peer'.local = peer.local /\ peer'.inProgress = peer.inProgress
        /\ peer'.secrets = peer.secrets
    BY <1>1, <2>1 DEF PeerState
  <2>7. sent \in [Data -> Nat] /\ sent[new] = 0
    <3>1. ~ (sent[new] > 0)
      BY <2>2, <2>3 DEF IInv, KeysAreAgreed
    <3>2. QED
      BY <2>3, <3>1 DEF IInv, SessionTypeOK
  <2>8. /\ sent' \in [Data -> Nat] /\ sent'[new] = 1
        /\ \A n \in Data : n # new => sent'[n] = sent[n]
    BY <2>1, <2>3, <2>7
  <2>9. SessionTypeOK'
    BY <1>1, <2>5, <2>8 DEF IInv, SessionTypeOK
  <2>10. KeysAreAgreed'
    <3>1. /\ peer'.keys <= peer'.local
          /\ peer'.inProgress /\ peer'.secrets = "fresh" => peer'.keys < peer'.local
          /\ peer'.established => peer'.keys \in Keys
      BY <2>6 DEF IInv, KeysAreAgreed
    <3>2. ASSUME NEW n \in Data, sent'[n] > 0 \/ delivered'[n] > 0
          PROVE  n.keys <= peer'.keys
      <4>1. CASE n = new
        BY <2>2, <2>3, <2>6, <4>1 DEF Keys
      <4>2. CASE n # new
        BY <1>1, <2>6, <2>8, <3>2, <4>2 DEF IInv, KeysAreAgreed
      <4>3. QED
        BY <4>1, <4>2
    <3>3. ASSUME NEW n \in Data, n.keys = peer'.keys, sent'[n] > 0
          PROVE  n.counter < peer'.counter
      <4>1. CASE n = new
        BY <2>2, <2>3, <2>6, <4>1
      <4>2. CASE n # new
        <5>1. n.counter < peer.counter
          BY <2>6, <2>8, <3>3, <4>2 DEF IInv, KeysAreAgreed
        <5>2. QED
          BY <2>2, <2>6, <5>1, DataFields
      <4>3. QED
        BY <4>1, <4>2
    <3>4. QED
      BY <3>1, <3>2, <3>3 DEF KeysAreAgreed
  <2>11. WindowIsMemory'
    BY <1>1, <2>6 DEF IInv, WindowIsMemory
  <2>12. DeliveredOnce' /\ SentOnce'
    BY <1>1, <2>8 DEF IInv, DeliveredOnce, SentOnce
  <2>13. QED
    BY <2>9, <2>10, <2>11, <2>12 DEF IInv
<1>4. QED
  BY <1>2, <1>3

\* What an accepted message leaves alone, and the window it leaves
LEMMA Decapsulated ==
    ASSUME peer \in PeerState, NEW m \in Data, peer' = Decapsulate(peer, m)
    PROVE  /\ peer'.keys = peer.keys /\ peer'.counter = peer.counter
           /\ peer'.established = peer.established /\ peer'.local = peer.local
           /\ peer'.inProgress = peer.inProgress /\ peer'.secrets = peer.secrets
           /\ peer'.recv = TRUE
           /\ peer'.highest = IF peer.recv /\ m.counter <= peer.highest
                              THEN peer.highest ELSE m.counter
           /\ peer'.window = IF ~ peer.recv THEN {0}
                             ELSE IF m.counter > peer.highest
                             THEN Shifted(peer, m.counter - peer.highest)
                             ELSE peer.window \cup {peer.highest - m.counter}
<1>1. m.counter \in Int /\ peer.highest \in Int /\ peer.recv \in BOOLEAN
  BY DataFields, PeerTypes
<1>2. CASE ~ peer.recv
  <2>1. peer' = [peer EXCEPT !.recv = TRUE, !.highest = m.counter, !.window = {0}]
    BY <1>2 DEF Decapsulate
  <2>2. QED
    BY <1>2, <2>1 DEF PeerState
<1>3. CASE peer.recv /\ m.counter > peer.highest
  <2>1. peer' = [peer EXCEPT !.highest = m.counter,
                             !.window = Shifted(peer, m.counter - peer.highest)]
    BY <1>3 DEF Decapsulate
  <2>2. ~ (m.counter <= peer.highest)
    BY <1>1, <1>3
  <2>3. QED
    BY <1>3, <2>1, <2>2 DEF PeerState
<1>4. CASE peer.recv /\ m.counter <= peer.highest
  <2>1. ~ (m.counter > peer.highest)
    BY <1>1, <1>4
  <2>2. peer' = [peer EXCEPT !.window = peer.window \cup {peer.highest - m.counter}]
    BY <1>4, <2>1 DEF Decapsulate
  <2>3. QED
    BY <1>4, <2>1, <2>2 DEF PeerState
<1>5. peer.recv => (m.counter > peer.highest) \/ (m.counter <= peer.highest)
  BY <1>1
<1>6. QED
  BY <1>2, <1>3, <1>4, <1>5

LEMMA DataStep ==
    ASSUME IInv, NEW m \in network, ReceiveData(m)
    PROVE  IInv'
<1>1. /\ peer \in PeerState /\ UNCHANGED <<relay, network, sent>>
      /\ delivered' = [delivered EXCEPT ![m] = @ + 1]
      /\ delivered \in [Data -> Nat]
      /\ peer' = Decapsulate(peer, m) /\ Accepts(peer, m)
  BY DEF IInv, SessionTypeOK, ReceiveData
<1>2. m \in Data
  <2>1. m \in Data \cup Response /\ m.type = "data"
    BY DEF IInv, SessionTypeOK, ReceiveData
  <2>2. m \in Response => m.type = "response"
    BY DEF Response
  <2>3. QED
    BY <2>1, <2>2
<1>3. /\ m.keys = peer.keys /\ m.counter \in Nat /\ peer.highest \in Nat
      /\ peer.recv \in BOOLEAN /\ peer.window \subseteq 0 .. Window - 1
      /\ Window \in Nat \ {0} /\ peer.keys \in Keys
  BY <1>1, <1>2, DataFields, PeerTypes, WireGuardAssumption DEF Accepts
<1> DEFINE top == IF peer.recv /\ m.counter <= peer.highest THEN peer.highest ELSE m.counter
<1>4. /\ peer'.keys = peer.keys /\ peer'.counter = peer.counter
      /\ peer'.established = peer.established /\ peer'.local = peer.local
      /\ peer'.inProgress = peer.inProgress /\ peer'.secrets = peer.secrets
      /\ peer'.recv = TRUE /\ peer'.highest = top
  BY <1>1, <1>2, Decapsulated
<1>5. /\ ~ peer.recv => peer'.window = {0} /\ top = m.counter
      /\ peer.recv /\ m.counter > peer.highest =>
            peer'.window = Shifted(peer, m.counter - peer.highest) /\ top = m.counter
      /\ peer.recv /\ m.counter <= peer.highest =>
            peer'.window = peer.window \cup {peer.highest - m.counter} /\ top = peer.highest
  <2>1. ~ (m.counter <= peer.highest) <=> m.counter > peer.highest
    BY <1>3
  <2>2. peer'.window = IF ~ peer.recv THEN {0}
                       ELSE IF m.counter > peer.highest
                       THEN Shifted(peer, m.counter - peer.highest)
                       ELSE peer.window \cup {peer.highest - m.counter}
    BY <1>1, <1>2, Decapsulated
  <2>3. QED
    BY <2>1, <2>2
<1>20. top \in Nat /\ m.counter <= top /\ (peer.recv => peer.highest <= top)
  BY <1>3
<1> HIDE DEF top
<1>6. delivered[m] = 0
  <2>1. SUFFICES ASSUME delivered[m] > 0 PROVE FALSE
    BY <1>1, <1>2
  <2>2. /\ peer.recv /\ m.counter <= peer.highest
        /\ m.counter + Window > peer.highest => (peer.highest - m.counter) \in peer.window
    BY <1>2, <1>3, <2>1 DEF IInv, WindowIsMemory
  <2>3. m.counter + Window > peer.highest
    BY <1>1, <1>3, <2>2 DEF Accepts, TooOld
  <2>4. QED
    BY <1>1, <2>2, <2>3 DEF Accepts, Replayed
<1>7. /\ delivered' \in [Data -> Nat] /\ delivered'[m] = 1
      /\ \A n \in Data : n # m => delivered'[n] = delivered[n]
  BY <1>1, <1>2, <1>6
<1>8. SessionTypeOK'
  <2>1. peer'.window \subseteq 0 .. Window - 1
    <3>1. CASE ~ peer.recv
      BY <1>3, <1>5, <3>1
    <3>2. CASE peer.recv /\ m.counter > peer.highest
      BY <1>3, <1>5, <3>2 DEF Shifted
    <3>3. CASE peer.recv /\ m.counter <= peer.highest
      <4>1. ~ (m.counter + Window <= peer.highest)
        BY <1>1, <3>3 DEF Accepts, TooOld
      <4>2. peer.highest - m.counter \in 0 .. Window - 1
        BY <1>3, <3>3, <4>1
      <4>3. QED
        BY <1>3, <1>5, <3>3, <4>2
    <3>4. QED
      BY <1>3, <3>1, <3>2, <3>3
  <2>2. peer' = [peer EXCEPT !.recv = TRUE, !.highest = peer'.highest,
                             !.window = peer'.window]
    BY <1>1, <1>3 DEF Decapsulate, PeerState
  <2>3. peer'.highest \in Nat
    BY <1>4, <1>20
  <2>4. peer' \in PeerState
    BY <1>1, <2>1, <2>2, <2>3 DEF PeerState
  <2>5. QED
    BY <1>1, <1>7, <2>4 DEF IInv, SessionTypeOK
<1>9. KeysAreAgreed'
  <2>1. ASSUME NEW n \in Data, sent'[n] > 0 \/ delivered'[n] > 0
        PROVE  n.keys <= peer'.keys
    <3>1. CASE n = m
      BY <1>3, <1>4, <3>1 DEF Keys
    <3>2. CASE n # m
      BY <1>1, <1>4, <1>7, <2>1, <3>2 DEF IInv, KeysAreAgreed
    <3>3. QED
      BY <3>1, <3>2
  <2>2. QED
    BY <1>1, <1>4, <2>1 DEF IInv, KeysAreAgreed
<1>10. ASSUME NEW n \in Data, n.keys = peer'.keys, delivered'[n] > 0
       PROVE  /\ n.counter <= top
              /\ n.counter + Window > top => (top - n.counter) \in peer'.window
  <2>1. CASE n = m
    <3>1. top - m.counter \in peer'.window
      <4>1. CASE ~ peer.recv
        BY <1>3, <1>5, <4>1
      <4>2. CASE peer.recv /\ m.counter > peer.highest
        <5>1. top - m.counter = 0
          BY <1>3, <1>5, <4>2
        <5>2. QED
          BY <1>5, <4>2, <5>1 DEF Shifted
      <4>3. CASE peer.recv /\ m.counter <= peer.highest
        BY <1>5, <4>3
      <4>4. QED
        BY <1>3, <4>1, <4>2, <4>3
    <3>2. QED
      BY <1>20, <2>1, <3>1
  <2>2. CASE n # m
    <3>1. n.counter \in Nat /\ delivered[n] > 0 /\ n.keys = peer.keys
      BY <1>4, <1>7, <1>10, <2>2, DataFields
    <3>2. /\ peer.recv /\ n.counter <= peer.highest
          /\ n.counter + Window > peer.highest => (peer.highest - n.counter) \in peer.window
      BY <3>1 DEF IInv, WindowIsMemory
    <3>3. n.counter <= top
      BY <1>3, <1>20, <3>1, <3>2
    <3>4. CASE m.counter > peer.highest
      <4>1. peer'.window = Shifted(peer, m.counter - peer.highest) /\ top = m.counter
        BY <1>5, <3>2, <3>4
      <4>2. ASSUME n.counter + Window > top
            PROVE  (top - n.counter) \in peer'.window
        <5>1. peer.highest - n.counter \in peer.window
          BY <1>3, <3>1, <3>2, <3>4, <4>1, <4>2
        <5>2. top - n.counter = (peer.highest - n.counter) + (m.counter - peer.highest)
          BY <1>3, <3>1, <4>1
        <5>3. top - n.counter \in 0 .. Window - 1
          BY <1>3, <3>1, <3>3, <4>1, <4>2
        <5>4. QED
          BY <4>1, <5>1, <5>2, <5>3 DEF Shifted
      <4>3. QED
        BY <3>3, <4>2
    <3>5. CASE m.counter <= peer.highest
      BY <1>5, <3>2, <3>5
    <3>6. QED
      BY <1>3, <3>4, <3>5
  <2>3. QED
    BY <2>1, <2>2
<1>11. ASSUME NEW s \in peer'.window
       PROVE  \E n \in Data : /\ n.keys = peer'.keys /\ delivered'[n] > 0
                               /\ n.counter = top - s
  <2>1. CASE s = top - m.counter
    <3>1. m.counter = top - s
      BY <1>3, <1>20, <2>1
    <3>2. m.keys = peer'.keys /\ delivered'[m] > 0
      BY <1>3, <1>4, <1>7
    <3>3. QED
      BY <1>2, <3>1, <3>2
  <2>2. ASSUME peer.recv, NEW r \in peer.window, peer.highest - r = top - s
        PROVE  \E n \in Data : /\ n.keys = peer'.keys /\ delivered'[n] > 0
                                /\ n.counter = top - s
    <3>1. PICK n \in Data : /\ n.keys = peer.keys /\ delivered[n] > 0
                            /\ n.counter = peer.highest - r
      BY DEF IInv, WindowIsMemory
    <3>2. n # m
      BY <1>6, <3>1
    <3>3. QED
      BY <1>4, <1>7, <2>2, <3>1, <3>2
  <2>3. CASE ~ peer.recv
    <3>1. s = top - m.counter
      BY <1>3, <1>5, <2>3
    <3>2. QED
      BY <2>1, <3>1
  <2>4. CASE peer.recv /\ m.counter > peer.highest
    <3>1. peer'.window = Shifted(peer, m.counter - peer.highest) /\ top = m.counter
      BY <1>5, <2>4
    <3>2. CASE s = 0
      <4>1. s = top - m.counter
        BY <1>3, <3>1, <3>2
      <4>2. QED
        BY <2>1, <4>1
    <3>3. CASE s # 0
      <4>1. PICK r \in peer.window : s = r + (m.counter - peer.highest)
        BY <3>1, <3>3 DEF Shifted
      <4>2. r \in Int
        BY <1>3
      <4>3. peer.highest - r = top - s
        BY <1>3, <3>1, <4>1, <4>2
      <4>4. QED
        BY <2>2, <2>4, <4>3
    <3>4. QED
      BY <3>2, <3>3
  <2>5. CASE peer.recv /\ m.counter <= peer.highest
    <3>1. peer'.window = peer.window \cup {peer.highest - m.counter} /\ top = peer.highest
      BY <1>5, <2>5
    <3>2. CASE s \in peer.window
      BY <2>2, <2>5, <3>1, <3>2
    <3>3. QED
      BY <2>1, <3>1, <3>2
  <2>6. QED
    BY <1>3, <2>3, <2>4, <2>5
<1>12. WindowIsMemory'
  BY <1>4, <1>10, <1>11 DEF WindowIsMemory
<1>13. DeliveredOnce' /\ SentOnce'
  BY <1>1, <1>7 DEF IInv, DeliveredOnce, SentOnce
<1>14. QED
  BY <1>8, <1>9, <1>12, <1>13 DEF IInv

-----------------------------------------------------------------------------
(* The theorems                                                            *)

LEMMA NextIInv == IInv /\ [SessionNext]_sessionVars => IInv'
<1> SUFFICES ASSUME IInv, [SessionNext]_sessionVars PROVE IInv'
  OBVIOUS
<1>1. CASE Initiate
  BY <1>1, InitiateStep
<1>2. ASSUME NEW k \in Keys, NEW genuine \in BOOLEAN, RelayResponds(k, genuine) PROVE IInv'
  BY <1>2, RelayStep
<1>3. ASSUME NEW k \in Keys, RelaySends(k) PROVE IInv'
  BY <1>3, RelayStep
<1>4. ASSUME NEW m \in network, ReceiveResponse(m) PROVE IInv'
  BY <1>4, ResponseStep
<1>5. ASSUME NEW m \in network, ReceiveData(m) PROVE IInv'
  BY <1>5, DataStep
<1>6. CASE Send
  BY <1>6, SendStep
<1>7. CASE SessionAges
  BY <1>7, TimeStep
<1>8. CASE UNCHANGED sessionVars
  <2>1. UNCHANGED <<peer, relay, network, sent, delivered>>
    BY <1>8 DEF sessionVars
  <2>2. SessionTypeOK' /\ KeysAreAgreed'
    BY <2>1 DEF IInv, SessionTypeOK, KeysAreAgreed
  <2>3. QED
    BY <2>1, <2>2, QuietStep
<1>9. QED
  BY <1>1, <1>2, <1>3, <1>4, <1>5, <1>6, <1>7, <1>8 DEF SessionNext

\* The inductive invariant of the session
THEOREM SessionInvariant == SessionSpec => []IInv
<1>1. QED
  BY InitIInv, NextIInv, PTL DEF SessionSpec

\* decapsulate() passes no packet to the IP stack twice
THEOREM PacketsOnce == SessionSpec => []DeliveredOnce
<1>1. IInv => DeliveredOnce
  BY DEF IInv
<1>2. QED
  BY <1>1, SessionInvariant, PTL

\* encapsulate() never uses a counter twice under the same keys
THEOREM CountersOnce == SessionSpec => []SentOnce
<1>1. IInv => SentOnce
  BY DEF IInv
<1>2. QED
  BY <1>1, SessionInvariant, PTL

\* recv_window_ remembers exactly the packets delivered lately
THEOREM WindowExact == SessionSpec => []WindowIsMemory
<1>1. IInv => WindowIsMemory
  BY DEF IInv
<1>2. QED
  BY <1>1, SessionInvariant, PTL

-----------------------------------------------------------------------------
(* The tunnel, whose threads share the session                             *)

\* Until a thread disturbs another, a counter that is being sealed is the one to come,
\* and those that left are below it.
CounterToCome ==
    /\ ~ reused
    /\ \A c \in used : c < peer.counter
    /\ \A t \in Threads : sending[t].at = "sealing" => sending[t].counter = peer.counter

TunnelIInv == TunnelInvariant /\ (~ raced => CounterToCome)

\* What a method of the peer that sends nothing does to it
SameCounter(p, q) == q \in PeerState /\ q.keys = p.keys /\ q.counter = p.counter

LEMMA InitiationKeeps ==
    ASSUME NEW p \in PeerState, NEW i \in Keys
    PROVE  SameCounter(p, MakeInitiation(p, i))
<1>1. 0 \in 0 .. RekeyTimeout
  BY WireGuardAssumption
<1>2. QED
  BY <1>1 DEF PeerState, MakeInitiation, SameCounter

LEMMA OlderKeeps ==
    ASSUME NEW p \in PeerState
    PROVE  SameCounter(p, Older(p))
<1>1. /\ p.keyAge \in 0 .. RejectAfter /\ p.sendAge \in 0 .. KeepaliveAfter
      /\ p.tryAge \in 0 .. RekeyTimeout
  BY DEF PeerState
<1>2. /\ (IF p.keyAge < RejectAfter THEN p.keyAge + 1 ELSE p.keyAge) \in 0 .. RejectAfter
      /\ (IF p.sendAge < KeepaliveAfter THEN p.sendAge + 1 ELSE p.sendAge) \in 0 .. KeepaliveAfter
      /\ (IF p.tryAge < RekeyTimeout THEN p.tryAge + 1 ELSE p.tryAge) \in 0 .. RekeyTimeout
  BY <1>1, WireGuardAssumption
<1>3. QED
  BY <1>2 DEF PeerState, Older, SameCounter

\* encapsulate() without the keys to do it
LEMMA RefusalKeeps ==
    ASSUME NEW p \in PeerState, ~ MaySend(p)
    PROVE  SameCounter(p, Encapsulate(p))
<1>1. Encapsulate(p) = [p EXCEPT !.established = FALSE]
  BY DEF Encapsulate
<1>2. QED
  BY <1>1 DEF PeerState, SameCounter

\* A response brings the keys of the initiation in progress, with a counter of zero, or
\* changes neither keys nor counter.
LEMMA ResponseConsumed ==
    ASSUME NEW p \in PeerState, NEW m \in Response
    PROVE  LET q == ConsumeResponse(p, m)
           IN  \/ SameCounter(p, q) /\ q.inProgress = p.inProgress
               \/ /\ q \in PeerState /\ p.inProgress /\ ~ q.inProgress
                  /\ q.keys \in Keys /\ q.counter = 0
<1> DEFINE q == ConsumeResponse(p, m)
<1>1. m.to \in Keys
  BY DEF Response
<1>2. CASE ~ Answers(p, m)
  BY <1>2 DEF ConsumeResponse, SameCounter
<1>3. CASE Answers(p, m) /\ (~ m.genuine \/ p.secrets # "fresh")
  <2>1. q = [p EXCEPT !.secrets = "spoilt"]
    BY <1>3 DEF ConsumeResponse
  <2>2. QED
    BY <2>1 DEF PeerState, SameCounter
<1>4. CASE Answers(p, m) /\ m.genuine /\ p.secrets = "fresh"
  <2>1. p.local \in Keys /\ p.inProgress
    BY <1>1, <1>4 DEF Answers
  <2>2. q = [TransportKeys(p) EXCEPT !.established = TRUE, !.inProgress = FALSE,
                                     !.keyAge = 0, !.sendAge = 0]
    BY <1>4 DEF ConsumeResponse
  <2>3. 0 \in 0 .. RejectAfter /\ 0 \in 0 .. KeepaliveAfter /\ 0 \in Nat
    BY WireGuardAssumption
  <2>4. /\ TransportKeys(p) \in PeerState
        /\ TransportKeys(p).keys = p.local /\ TransportKeys(p).counter = 0
    BY <2>1, <2>3 DEF TransportKeys, PeerState
  <2>5. /\ q \in PeerState /\ q.inProgress = FALSE
        /\ q.keys = p.local /\ q.counter = 0
    <3> DEFINE fresh == TransportKeys(p)
               up == [fresh EXCEPT !.established = TRUE, !.inProgress = FALSE]
    <3>1. fresh \in PeerState /\ fresh.keys = p.local /\ fresh.counter = 0
      BY <2>4
    <3>2. q = [fresh EXCEPT !.established = TRUE, !.inProgress = FALSE, !.keyAge = 0, !.sendAge = 0]
      BY <2>2
    <3> HIDE DEF q, fresh
    <3>3. up \in PeerState /\ up.inProgress = FALSE /\ up.keys = p.local /\ up.counter = 0
      BY <3>1 DEF PeerState
    <3>4. q = [up EXCEPT !.keyAge = 0, !.sendAge = 0]
      BY <3>2
    <3> HIDE DEF up
    <3>5. q \in PeerState
      BY <2>3, <3>3, <3>4 DEF PeerState
    <3>6. q.inProgress = up.inProgress /\ q.keys = up.keys /\ q.counter = up.counter
      BY <3>3, <3>4 DEF PeerState
    <3>7. QED
      BY <3>3, <3>5, <3>6
  <2>6. QED
    BY <2>1, <2>5
<1>5. QED
  BY <1>2, <1>3, <1>4

\* The state of a thread, in TunnelTypeOK
SendingState ==
    [at : {"idle", "encapsulate", "sealing", "refused"}, packet : BOOLEAN, counter : 0 .. MaxCount]

LEMMA TunnelTypes ==
    ASSUME TunnelIInv
    PROVE  /\ peer \in PeerState /\ peer.counter \in Nat
           /\ sending \in [Threads -> SendingState]
           /\ used \subseteq 0 .. MaxCount /\ reused \in BOOLEAN /\ raced \in BOOLEAN
           /\ wire \subseteq Response
           /\ (phase = "Up" => peer.keys # 0)
BY DEF TunnelIInv, TunnelInvariant, TunnelTypeOK, ReadyHasKeys, SendingState, PeerState

\* What a step that seals nothing and agrees no keys has to show
LEMMA CounterKept ==
    ASSUME TunnelIInv, SameCounter(peer, peer'), UNCHANGED <<used, reused>>, raced => raced',
           \A t \in Threads :
               sending'[t].at = "sealing" =>
                   \/ sending'[t].counter = peer.counter
                   \/ sending'[t] = sending[t],
           phase' = "Up" => phase = "Up"
    PROVE  ReadyHasKeys' /\ (~ raced => CounterToCome)'
<1>1. ReadyHasKeys'
  BY TunnelTypes DEF SameCounter, ReadyHasKeys
<1>2. ASSUME ~ raced' PROVE CounterToCome'
  <2>1. CounterToCome
    BY <1>2 DEF TunnelIInv
  <2>2. QED
    BY <2>1 DEF CounterToCome, SameCounter
<1>3. QED
  BY <1>1, <1>2

\* Whether a step of t is disturbing only matters to the histories.
LEMMA RacedIsKept ==
    ASSUME NEW t \in Threads, TunnelIInv, Disturbs(t)
    PROVE  raced' \in BOOLEAN /\ (raced => raced')
BY TunnelTypes DEF Disturbs

LEMMA SamePeer == ASSUME TunnelIInv, UNCHANGED peer PROVE SameCounter(peer, peer')
BY TunnelTypes DEF SameCounter

LEMMA TunnelInitIInv == TunnelInit => TunnelIInv
<1> SUFFICES ASSUME TunnelInit PROVE TunnelIInv
  OBVIOUS
<1>1. Configured \in PeerState /\ Configured.counter = 0 /\ Configured.keys = 0
  BY WireGuardAssumption DEF Configured, PeerState
<1>2. Cardinality({}) = 0
  BY FS_EmptySet
<1>3. 0 \in 0 .. MaxCount /\ 0 \in 0 .. MaxDamaged
  BY WireGuardAssumption, TunnelAssumption
<1>4. TunnelTypeOK
  <2>1. Idle \in SendingState
    BY <1>3 DEF Idle, SendingState
  <2>2. sending \in [Threads -> SendingState]
    BY <2>1 DEF TunnelInit
  <2>3. /\ pumping \subseteq Threads /\ Cardinality(pumping) <= 1
        /\ damaged \in 0 .. MaxDamaged
    BY <1>2, <1>3 DEF TunnelInit
  <2>4. QED
    BY <1>1, <2>2, <2>3 DEF TunnelInit, TunnelTypeOK, SendingState
<1>5. ReadyHasKeys /\ CounterToCome
  BY <1>1 DEF TunnelInit, ReadyHasKeys, CounterToCome, Idle
<1>6. QED
  BY <1>4, <1>5 DEF TunnelIInv, TunnelInvariant

LEMMA SendHandshakeKeeps ==
    ASSUME TunnelIInv, SendHandshake
    PROVE  SameCounter(peer, peer') /\ wire' \subseteq Response
<1>1. peer \in PeerState /\ wire \subseteq Response
  BY TunnelTypes
<1>2. NextIndex(peer) \in Keys
  <2>1. peer.local \in 0 .. MaxKeys
    BY <1>1, WireGuardAssumption DEF PeerState, Keys
  <2>2. peer.local % MaxKeys \in 0 .. MaxKeys - 1
    BY <2>1, WireGuardAssumption, TunnelAssumption
  <2>3. QED
    BY <2>2, WireGuardAssumption DEF NextIndex, Keys
<1>3. QED
  BY <1>1, <1>2, InitiationKeeps DEF SendHandshake

LEMMA StartStep == ASSUME TunnelIInv, Start PROVE TunnelIInv'
<1>1. SameCounter(peer, peer') /\ wire' \subseteq Response
  BY SendHandshakeKeeps DEF Start
<1>2. TunnelTypeOK'
  BY <1>1 DEF TunnelIInv, TunnelInvariant, TunnelTypeOK, Start, SameCounter
<1>3. QED
  BY <1>1, <1>2, CounterKept DEF TunnelIInv, TunnelInvariant, Start

LEMMA StopStep == ASSUME TunnelIInv, Stop PROVE TunnelIInv'
<1>1. TunnelTypeOK'
  BY DEF TunnelIInv, TunnelInvariant, TunnelTypeOK, Stop
<1>2. QED
  BY <1>1, SamePeer, CounterKept DEF TunnelIInv, TunnelInvariant, Stop

LEMMA PumpStep == ASSUME TunnelIInv, NEW t \in Threads, Pump(t) PROVE TunnelIInv'
<1>1. SameCounter(peer, peer') /\ wire' \subseteq Response
  BY SendHandshakeKeeps, SamePeer, TunnelTypes DEF Pump
<1>2. raced' \in BOOLEAN /\ (raced => raced')
  BY RacedIsKept DEF Pump
<1>3. {t} \subseteq Threads /\ Cardinality({t}) <= 1
  BY FS_Singleton
<1>4. TunnelTypeOK'
  BY <1>1, <1>2, <1>3 DEF TunnelIInv, TunnelInvariant, TunnelTypeOK, Pump, SameCounter
<1>5. QED
  BY <1>1, <1>2, <1>4, CounterKept DEF TunnelIInv, TunnelInvariant, Pump

\* Reading a response with another thread in encapsulate() is a race; without one there
\* is no counter to spoil.
LEMMA HandleResponseStep ==
    ASSUME TunnelIInv, NEW t \in Threads, NEW m \in wire, HandleResponse(t, m)
    PROVE  TunnelIInv'
<1>1. /\ peer \in PeerState /\ m \in Response /\ peer' = ConsumeResponse(peer, m)
      /\ raced' \in BOOLEAN /\ (raced => raced') /\ wire' \subseteq Response
  BY TunnelTypes, RacedIsKept DEF HandleResponse
<1>2. CASE SameCounter(peer, peer') /\ peer'.inProgress = peer.inProgress
  <2>1. UNCHANGED <<phase, used, open, pumping, sending, damaged, reused>>
    BY <1>2 DEF HandleResponse
  <2>2. TunnelTypeOK'
    BY <1>1, <1>2, <2>1 DEF TunnelIInv, TunnelInvariant, TunnelTypeOK, SameCounter
  <2>3. QED
    BY <1>1, <1>2, <2>1, <2>2, CounterKept DEF TunnelIInv, TunnelInvariant
<1>3. CASE /\ peer' \in PeerState /\ peer.inProgress /\ ~ peer'.inProgress
           /\ peer'.keys \in Keys /\ peer'.counter = 0
  <2>1. /\ phase' = "Up" /\ used' = {} /\ UNCHANGED <<open, pumping, sending, damaged, reused>>
        /\ sending[t] = Idle
    BY <1>3 DEF HandleResponse
  <2>2. TunnelTypeOK'
    BY <1>1, <1>3, <2>1 DEF TunnelIInv, TunnelInvariant, TunnelTypeOK
  <2>3. ReadyHasKeys'
    BY <1>3, WireGuardAssumption DEF ReadyHasKeys, Keys
  <2>4. ASSUME ~ raced' PROVE CounterToCome'
    <3>1. ~ raced /\ ~ reused
      BY <1>1, <2>4 DEF TunnelIInv, CounterToCome
    <3>2. peer' # peer
      BY <1>3
    <3>3. InEncapsulate(t) = {}
      BY <2>4, <3>2 DEF HandleResponse, Disturbs
    <3>4. \A u \in Threads : sending'[u].at # "sealing"
      BY <2>1, <3>3 DEF InEncapsulate, Idle
    <3>5. QED
      BY <2>1, <3>1, <3>4 DEF CounterToCome
  <2>5. QED
    BY <2>2, <2>3, <2>4 DEF TunnelIInv, TunnelInvariant
<1>4. QED
  BY <1>1, <1>2, <1>3, ResponseConsumed

\* A step of t in output_packet() or send_keepalive() that leaves the peer as it is, or
\* that gives up on its keys
LEMMA ThreadStep ==
    ASSUME TunnelIInv, NEW t \in Threads, NEW s \in SendingState,
           sending' = [sending EXCEPT ![t] = s],
           s.at = "sealing" => s.counter = peer.counter,
           SameCounter(peer, peer'), UNCHANGED <<open, pumping, wire, damaged, used, reused>>,
           raced' \in BOOLEAN, raced => raced',
           phase' \in {phase, "Handshaking"}
    PROVE  TunnelIInv'
<1>1. sending \in [Threads -> SendingState]
  BY TunnelTypes
<1>2. sending' \in [Threads -> SendingState]
  BY <1>1
<1>3. \A u \in Threads : sending'[u] = IF u = t THEN s ELSE sending[u]
  BY <1>1
<1>4. TunnelTypeOK'
  BY <1>2 DEF TunnelIInv, TunnelInvariant, TunnelTypeOK, SameCounter, SendingState
<1>5. ReadyHasKeys' /\ (~ raced => CounterToCome)'
  <2>1. \A u \in Threads : sending'[u].at = "sealing" =>
            sending'[u].counter = peer.counter \/ sending'[u] = sending[u]
    BY <1>3
  <2>2. phase' = "Up" => phase = "Up"
    OBVIOUS
  <2>3. QED
    BY <2>1, <2>2, CounterKept
<1>6. QED
  BY <1>4, <1>5 DEF TunnelIInv, TunnelInvariant

LEMMA ThreadStates ==
    ASSUME TunnelIInv, NEW t \in Threads
    PROVE  /\ sending[t] \in SendingState /\ Idle \in SendingState
           /\ \A at \in {"encapsulate", "refused"} : [sending[t] EXCEPT !.at = at] \in SendingState
           /\ [Idle EXCEPT !.at = "encapsulate"] \in SendingState
           /\ [Idle EXCEPT !.at = "encapsulate", !.packet = TRUE] \in SendingState
<1>1. sending[t] \in SendingState
  BY TunnelTypes
<1>2. 0 \in 0 .. MaxCount
  BY WireGuardAssumption
<1>3. QED
  BY <1>1, <1>2 DEF SendingState, Idle

LEMMA SendKeepaliveStep == ASSUME TunnelIInv, NEW t \in Threads, SendKeepalive(t) PROVE TunnelIInv'
<1> DEFINE s == [Idle EXCEPT !.at = "encapsulate"]
<1>1. s \in SendingState /\ s.at # "sealing"
  BY ThreadStates DEF Idle
<1>2. /\ sending' = [sending EXCEPT ![t] = s]
      /\ UNCHANGED <<peer, phase, open, pumping, wire, damaged, used, reused, raced>>
  BY DEF SendKeepalive
<1> HIDE DEF s
<1>3. QED
  BY <1>1, <1>2, SamePeer, TunnelTypes, ThreadStep

LEMMA EndPumpStep == ASSUME TunnelIInv, NEW t \in Threads, EndPump(t) PROVE TunnelIInv'
<1>1. Cardinality({}) <= 1
  BY FS_EmptySet
<1>2. TunnelTypeOK'
  BY <1>1 DEF TunnelIInv, TunnelInvariant, TunnelTypeOK, EndPump
<1>3. QED
  BY <1>2, SamePeer, CounterKept DEF TunnelIInv, TunnelInvariant, EndPump

LEMMA OutputPacketStep == ASSUME TunnelIInv, NEW t \in Threads, OutputPacket(t) PROVE TunnelIInv'
<1> DEFINE s == [Idle EXCEPT !.at = "encapsulate", !.packet = TRUE]
<1>1. s \in SendingState /\ s.at # "sealing"
  BY ThreadStates DEF Idle
<1>2. /\ sending' = [sending EXCEPT ![t] = s]
      /\ UNCHANGED <<peer, phase, open, pumping, wire, damaged, used, reused, raced>>
  BY DEF OutputPacket
<1> HIDE DEF s
<1>3. QED
  BY <1>1, <1>2, SamePeer, TunnelTypes, ThreadStep

LEMMA RefuseStep == ASSUME TunnelIInv, NEW t \in Threads, Refuse(t) PROVE TunnelIInv'
<1> DEFINE s == IF sending[t].packet THEN [sending[t] EXCEPT !.at = "refused"] ELSE Idle
<1>1. s \in SendingState /\ s.at # "sealing"
  BY ThreadStates DEF Idle, SendingState
<1>2. sending' = [sending EXCEPT ![t] = s]
  BY DEF Refuse
<1>3. /\ SameCounter(peer, peer')
      /\ raced' \in BOOLEAN /\ (raced => raced')
      /\ UNCHANGED <<phase, open, pumping, wire, damaged, used, reused>>
  BY TunnelTypes, RefusalKeeps, RacedIsKept DEF Refuse
<1> HIDE DEF s
<1>4. QED
  BY <1>1, <1>2, <1>3, ThreadStep

LEMMA GiveUpStep == ASSUME TunnelIInv, NEW t \in Threads, GiveUp(t) PROVE TunnelIInv'
<1>1. Idle \in SendingState /\ Idle.at # "sealing"
  BY ThreadStates DEF Idle
<1>2. /\ sending' = [sending EXCEPT ![t] = Idle] /\ phase' = "Handshaking"
      /\ UNCHANGED <<peer, open, pumping, wire, damaged, used, reused, raced>>
  BY DEF GiveUp
<1>3. QED
  BY <1>1, <1>2, SamePeer, TunnelTypes, ThreadStep

LEMMA ReadCounterStep == ASSUME TunnelIInv, NEW t \in Threads, ReadCounter(t) PROVE TunnelIInv'
<1> DEFINE s == [sending[t] EXCEPT !.at = "sealing", !.counter = peer.counter]
<1>1. /\ sending[t] \in SendingState /\ peer.counter \in 0 .. MaxCount
      /\ sending \in [Threads -> SendingState]
  BY ThreadStates, TunnelTypes, WireGuardAssumption DEF ReadCounter
<1>2. s \in SendingState /\ s.counter = peer.counter
  BY <1>1 DEF SendingState
<1>3. sending' = [sending EXCEPT ![t] = s]
  BY <1>1 DEF ReadCounter, SendingState
<1>4. UNCHANGED <<peer, phase, open, pumping, wire, damaged, used, reused, raced>>
  BY DEF ReadCounter
<1> HIDE DEF s
<1>5. QED
  BY <1>2, <1>3, <1>4, SamePeer, TunnelTypes, ThreadStep

\* Alone in encapsulate(), t uses the counter to come, which nobody used, and leaves the
\* next one.
LEMMA SealStep == ASSUME TunnelIInv, NEW t \in Threads, Seal(t) PROVE TunnelIInv'
<1>1. PICK c \in {peer.counter, sending[t].counter} :
          peer' = [peer EXCEPT !.counter = c + 1, !.sendAge = 0]
  BY DEF Seal
<1>2. /\ sending[t] \in SendingState /\ Idle \in SendingState
      /\ peer \in PeerState /\ peer.counter \in Nat
      /\ sending \in [Threads -> SendingState]
      /\ used \subseteq 0 .. MaxCount /\ reused \in BOOLEAN
      /\ raced' \in BOOLEAN /\ (raced => raced')
  BY ThreadStates, TunnelTypes, RacedIsKept DEF Seal
<1>3. sending[t].counter \in 0 .. MaxCount /\ sending[t].counter \in Nat /\ c \in Nat
  BY <1>2, WireGuardAssumption DEF SendingState
<1>4. peer' \in PeerState /\ peer'.counter = c + 1 /\ peer'.keys = peer.keys
  <2>1. 0 \in 0 .. KeepaliveAfter /\ c + 1 \in Nat
    BY <1>3, WireGuardAssumption
  <2>2. QED
    BY <1>1, <1>2, <2>1 DEF PeerState
<1>5. /\ used' = used \cup {sending[t].counter}
      /\ reused' = (reused \/ sending[t].counter \in used)
      /\ sending' = [sending EXCEPT ![t] = Idle]
      /\ UNCHANGED <<phase, open, pumping, wire, damaged>>
  BY DEF Seal
<1>6. TunnelTypeOK'
  <2>1. used' \subseteq 0 .. MaxCount /\ reused' \in BOOLEAN
    BY <1>2, <1>3, <1>5
  <2>2. sending' \in [Threads -> SendingState]
    BY <1>2, <1>5
  <2>3. QED
    BY <1>2, <1>4, <1>5, <2>1, <2>2
       DEF TunnelIInv, TunnelInvariant, TunnelTypeOK, SendingState
<1>7. ReadyHasKeys'
  BY <1>4, <1>5, TunnelTypes DEF ReadyHasKeys
<1>8. ASSUME ~ raced' PROVE CounterToCome'
  <2>1. CounterToCome
    BY <1>2, <1>8 DEF TunnelIInv
  <2>2. c = peer.counter /\ sending[t].counter = peer.counter
    BY <2>1 DEF CounterToCome, Seal
  <2>3. ~ reused' /\ \A d \in used' : d < peer'.counter
    <3>1. \A d \in used : d \in Nat /\ d < peer.counter
      BY <1>2, <2>1, WireGuardAssumption DEF CounterToCome
    <3>2. sending[t].counter \notin used
      BY <1>2, <2>2, <3>1
    <3>3. ~ reused'
      BY <1>5, <2>1, <3>2 DEF CounterToCome
    <3>4. \A d \in used' : d < peer'.counter
      BY <1>2, <1>4, <1>5, <2>2, <3>1
    <3>5. QED
      BY <3>3, <3>4
  <2>4. InEncapsulate(t) = {}
    <3>1. peer' # peer
      BY <1>2, <1>4, <2>2
    <3>2. QED
      BY <1>8, <3>1 DEF Seal, Disturbs
  <2>5. \A u \in Threads : sending'[u].at # "sealing"
    BY <1>2, <1>5, <2>4 DEF InEncapsulate, Idle
  <2>6. QED
    BY <2>3, <2>5 DEF CounterToCome
<1>9. QED
  BY <1>6, <1>7, <1>8 DEF TunnelIInv, TunnelInvariant

\* The relay, the network and the clock leave the counter alone.
LEMMA NetworkStep ==
    ASSUME TunnelIInv, SameCounter(peer, peer'), wire' \subseteq Response, damaged' \in 0 .. MaxDamaged,
           UNCHANGED <<phase, open, pumping, sending, used, reused, raced>>
    PROVE  TunnelIInv'
<1>1. TunnelTypeOK'
  BY DEF TunnelIInv, TunnelInvariant, TunnelTypeOK, SameCounter
<1>2. QED
  BY <1>1, CounterKept DEF TunnelIInv, TunnelInvariant

LEMMA NextTunnelIInv == TunnelIInv /\ [TunnelNext]_tunnelVars => TunnelIInv'
<1> SUFFICES ASSUME TunnelIInv, [TunnelNext]_tunnelVars PROVE TunnelIInv'
  OBVIOUS
<1>1. peer \in PeerState /\ wire \subseteq Response /\ damaged \in 0 .. MaxDamaged
  BY TunnelTypes DEF TunnelIInv, TunnelInvariant, TunnelTypeOK
<1>2. CASE Start \/ Stop
  BY <1>2, StartStep, StopStep
<1>3. ASSUME NEW t \in Threads, Pump(t) \/ SendKeepalive(t) \/ EndPump(t) PROVE TunnelIInv'
  BY <1>3, PumpStep, SendKeepaliveStep, EndPumpStep
<1>4. ASSUME NEW t \in Threads, NEW m \in wire, HandleResponse(t, m) PROVE TunnelIInv'
  BY <1>4, HandleResponseStep
<1>5. ASSUME NEW t \in Threads,
             OutputPacket(t) \/ Refuse(t) \/ GiveUp(t) \/ ReadCounter(t) \/ Seal(t)
      PROVE  TunnelIInv'
  BY <1>5, OutputPacketStep, RefuseStep, GiveUpStep, ReadCounterStep, SealStep
<1>6. ASSUME NEW i \in Keys, RelayAnswers(i) PROVE TunnelIInv'
  <2>1. [type |-> "response", to |-> i, genuine |-> TRUE] \in Response
    BY DEF Response
  <2>2. wire' \subseteq Response
    BY <1>1, <1>6, <2>1 DEF RelayAnswers
  <2>3. QED
    BY <1>1, <1>6, <2>2, SamePeer, NetworkStep DEF RelayAnswers
<1>7. ASSUME NEW m \in wire, Damage(m) PROVE TunnelIInv'
  <2>1. [m EXCEPT !.genuine = FALSE] \in Response
    BY <1>1 DEF Response
  <2>2. wire' \subseteq Response
    BY <1>1, <1>7, <2>1 DEF Damage
  <2>3. damaged' \in 0 .. MaxDamaged
    BY <1>1, <1>7, TunnelAssumption DEF Damage
  <2>4. QED
    BY <1>7, <2>2, <2>3, SamePeer, NetworkStep DEF Damage
<1>8. ASSUME NEW m \in wire, Lose(m) PROVE TunnelIInv'
  BY <1>1, <1>8, SamePeer, NetworkStep DEF Lose
<1>9. CASE TimePasses
  BY <1>1, <1>9, OlderKeeps, NetworkStep DEF TimePasses
<1>10. CASE UNCHANGED tunnelVars
  BY <1>1, <1>10, SamePeer, NetworkStep DEF tunnelVars
<1>11. QED
  BY <1>2, <1>3, <1>4, <1>5, <1>6, <1>7, <1>8, <1>9, <1>10 DEF TunnelNext

\* One thread at a time in the mutex of the tunnel, and the tunnel is up only with keys,
\* in any order of damaged, late and refused responses and for any number of threads.
THEOREM TunnelIsRight == TunnelSpec => []TunnelInvariant
<1>1. TunnelIInv => TunnelInvariant
  BY DEF TunnelIInv
<1>2. QED
  BY <1>1, TunnelInitIInv, NextTunnelIInv, PTL DEF TunnelSpec

\* A counter only leaves twice when peer_ was changed by one thread while another was
\* between the two halves of encapsulate().
THEOREM CountersRepeatByRace == TunnelSpec => []ReusedOnlyByRace
<1>1. TunnelIInv => ReusedOnlyByRace
  BY DEF TunnelIInv, CounterToCome, ReusedOnlyByRace
<1>2. QED
  BY <1>1, TunnelInitIInv, NextTunnelIInv, PTL DEF TunnelSpec

-----------------------------------------------------------------------------
(* The sockets of the tunnel: the bytes of a TCP connection                *)

Unit == 1 .. MaxUnits
SockState == [pcb : 0 .. MaxPcbs, connected : BOOLEAN, closed : BOOLEAN,
              failed : BOOLEAN, rx : Seq(Unit), pos : 0 .. MaxUnits]

\* What recv() has still to return, and what arrived of a connection: its units are numbered
Rest(s) == SubSeq(s.rx, s.pos + 1, Len(s.rx))
Counted(n) == [i \in 1 .. n |-> i]

TcpTypes ==
    /\ sock \in SockState /\ recving \in {Nil, "clears", "keeps"}
    /\ linked \subseteq 1 .. MaxPcbs /\ opened \in 0 .. MaxPcbs
    /\ arrived \in 0 .. MaxUnits /\ got \in Seq(Unit)
    /\ said \in {Nil, "closed", "error", "wait"} /\ interrupted \in BOOLEAN

\* The position is within what was received, of which there is no more than arrived.
ReadWithin == sock.pos <= Len(sock.rx) /\ Len(sock.rx) <= arrived

\* A recv() about to clear rx_ has read it all, and a close was only told when nothing
\* was left, unless lwIP called back since the copy.
NothingLeft ==
    ~ interrupted =>
        /\ recving = "clears" => sock.pos = Len(sock.rx)
        /\ said = "closed" => sock.closed /\ sock.pos = Len(sock.rx)

TcpInv == TcpTypes /\ NoStrayCallback /\ ReadWithin /\ NothingLeft /\ ReadsWhatArrived

LEMMA CountedIsSeq ==
    ASSUME NEW n \in 0 .. MaxUnits
    PROVE  /\ Counted(n) \in Seq(Unit) /\ Len(Counted(n)) = n
           /\ \A i \in 1 .. n : Counted(n)[i] = i
<1>1. n \in Nat /\ MaxUnits \in Nat
  BY TunnelSocketsAssumption
<1>2. Counted(n) \in [1 .. n -> Unit]
  BY <1>1 DEF Counted, Unit
<1>3. Counted(n) \in Seq(Unit)
  BY <1>1, <1>2
<1>4. QED
  BY <1>1, <1>3 DEF Counted

LEMMA CountedNext ==
    ASSUME NEW n \in Nat, n + 1 <= MaxUnits
    PROVE  Append(Counted(n), n + 1) = Counted(n + 1)
<1>1. n \in 0 .. MaxUnits /\ n + 1 \in 0 .. MaxUnits /\ n + 1 \in Unit
  BY TunnelSocketsAssumption DEF Unit
<1>2. /\ Counted(n) \in Seq(Unit) /\ Len(Counted(n)) = n
      /\ \A i \in 1 .. n : Counted(n)[i] = i
  BY <1>1, CountedIsSeq
<1>3. /\ Counted(n + 1) \in Seq(Unit) /\ Len(Counted(n + 1)) = n + 1
      /\ \A i \in 1 .. n + 1 : Counted(n + 1)[i] = i
  BY <1>1, CountedIsSeq
<1>4. /\ Append(Counted(n), n + 1) \in Seq(Unit)
      /\ Len(Append(Counted(n), n + 1)) = n + 1
      /\ \A i \in 1 .. n : Append(Counted(n), n + 1)[i] = i
      /\ Append(Counted(n), n + 1)[n + 1] = n + 1
  BY <1>1, <1>2, AppendProperties
<1>5. \A i \in 1 .. n + 1 : Append(Counted(n), n + 1)[i] = Counted(n + 1)[i]
  BY <1>3, <1>4
<1>6. QED
  BY <1>3, <1>4, <1>5, SeqEqual

LEMMA RestIsSeq ==
    ASSUME NEW rx \in Seq(Unit), NEW pos \in Nat, pos <= Len(rx)
    PROVE  /\ SubSeq(rx, pos + 1, Len(rx)) \in Seq(Unit)
           /\ Len(SubSeq(rx, pos + 1, Len(rx))) = Len(rx) - pos
           /\ pos = Len(rx) => SubSeq(rx, pos + 1, Len(rx)) = <<>>
<1>1. Len(rx) \in Nat
  BY LenProperties
<1>2. \A i \in pos + 1 .. Len(rx) : rx[i] \in Unit
  BY <1>1, ElementOfSeq
<1>3. /\ SubSeq(rx, pos + 1, Len(rx)) \in Seq(Unit)
      /\ Len(SubSeq(rx, pos + 1, Len(rx))) = IF pos + 1 <= Len(rx) THEN Len(rx) - (pos + 1) + 1 ELSE 0
  BY <1>1, <1>2, SubSeqProperties
<1>4. pos = Len(rx) => SubSeq(rx, pos + 1, Len(rx)) = <<>>
  BY <1>1, SubSeqEmpty
<1>5. QED
  BY <1>1, <1>3, <1>4

\* What is appended is read last.
LEMMA RestAppended ==
    ASSUME NEW rx \in Seq(Unit), NEW pos \in Nat, pos <= Len(rx), NEW u \in Unit
    PROVE  SubSeq(Append(rx, u), pos + 1, Len(Append(rx, u)))
               = Append(SubSeq(rx, pos + 1, Len(rx)), u)
<1> DEFINE ry == Append(rx, u)
<1>1. Len(rx) \in Nat
  BY LenProperties
<1>2. /\ ry \in Seq(Unit) /\ Len(ry) = Len(rx) + 1
      /\ \A i \in 1 .. Len(rx) : ry[i] = rx[i]
      /\ ry[Len(rx) + 1] = u
  BY AppendProperties
<1> DEFINE a == SubSeq(ry, pos + 1, Len(ry))
           b == SubSeq(rx, pos + 1, Len(rx))
<1>3. /\ \A i \in pos + 1 .. Len(ry) : ry[i] \in Unit
      /\ \A i \in pos + 1 .. Len(rx) : rx[i] \in Unit
  BY <1>1, <1>2, ElementOfSeq
<1> HIDE DEF ry
<1>4. /\ a \in Seq(Unit) /\ Len(a) = Len(rx) + 1 - pos
      /\ \A i \in 1 .. Len(rx) + 1 - pos : a[i] = ry[pos + i]
  <2>1. /\ a \in Seq(Unit)
        /\ Len(a) = IF pos + 1 <= Len(ry) THEN Len(ry) - (pos + 1) + 1 ELSE 0
        /\ \A i \in 1 .. Len(ry) - (pos + 1) + 1 : a[i] = ry[pos + 1 + i - 1]
    BY <1>1, <1>2, <1>3, SubSeqProperties
  <2>2. QED
    BY <1>1, <1>2, <2>1
<1>5. /\ b \in Seq(Unit) /\ Len(b) = Len(rx) - pos
      /\ \A i \in 1 .. Len(rx) - pos : b[i] = rx[pos + i]
  <2>1. /\ b \in Seq(Unit)
        /\ Len(b) = IF pos + 1 <= Len(rx) THEN Len(rx) - (pos + 1) + 1 ELSE 0
        /\ \A i \in 1 .. Len(rx) - (pos + 1) + 1 : b[i] = rx[pos + 1 + i - 1]
    BY <1>1, <1>3, SubSeqProperties
  <2>2. QED
    BY <1>1, <2>1
<1> HIDE DEF a, b
<1>6. /\ Append(b, u) \in Seq(Unit) /\ Len(Append(b, u)) = Len(rx) + 1 - pos
      /\ \A i \in 1 .. Len(rx) - pos : Append(b, u)[i] = b[i]
      /\ Append(b, u)[Len(rx) - pos + 1] = u
  BY <1>1, <1>5, AppendProperties
<1>7. \A i \in 1 .. Len(rx) + 1 - pos : a[i] = Append(b, u)[i]
  <2> SUFFICES ASSUME NEW i \in 1 .. Len(rx) + 1 - pos PROVE a[i] = Append(b, u)[i]
    OBVIOUS
  <2>1. CASE i = Len(rx) + 1 - pos
    BY <1>1, <1>2, <1>4, <1>6, <2>1
  <2>2. CASE i # Len(rx) + 1 - pos
    <3>1. i \in 1 .. Len(rx) - pos /\ pos + i \in 1 .. Len(rx)
      BY <1>1, <2>2
    <3>2. a[i] = rx[pos + i]
      BY <1>2, <1>4, <3>1
    <3>3. QED
      BY <1>5, <1>6, <3>1, <3>2
  <2>3. QED
    BY <2>1, <2>2
<1>8. a = Append(b, u)
  BY <1>4, <1>6, <1>7, SeqEqual
<1>9. QED
  BY <1>8 DEF a, b, ry

\* What is taken, then what is left, is what there was.
LEMMA RestTaken ==
    ASSUME NEW rx \in Seq(Unit), NEW pos \in Nat, NEW take \in 1 .. Len(rx) - pos
    PROVE  SubSeq(rx, pos + 1, pos + take) \o SubSeq(rx, pos + take + 1, Len(rx))
               = SubSeq(rx, pos + 1, Len(rx))
<1>1. Len(rx) \in Nat
  BY LenProperties
<1>2. /\ pos + 1 \in 1 .. Len(rx) + 1 /\ pos + take \in (pos + 1) - 1 .. Len(rx)
      /\ Len(rx) \in pos + take .. Len(rx)
  BY <1>1
<1>3. QED
  BY <1>2, ConcatAdjacentSubSeq

\* Appending to what follows appends to the whole.
LEMMA ConcatAppend ==
    ASSUME NEW a \in Seq(Unit), NEW b \in Seq(Unit), NEW u \in Unit
    PROVE  a \o Append(b, u) = Append(a \o b, u)
<1>1. <<u>> \in Seq(Unit)
  OBVIOUS
<1>2. Append(b, u) = b \o <<u>>
  BY AppendIsConcat
<1>3. a \o b \in Seq(Unit)
  BY ConcatProperties
<1>4. Append(a \o b, u) = (a \o b) \o <<u>>
  BY <1>3, AppendIsConcat
<1>5. QED
  BY <1>1, <1>2, <1>4, ConcatAssociative

\* What a TCP state with the socket s and the history g has read or will read
LEMMA TcpFacts ==
    ASSUME TcpInv
    PROVE  /\ sock \in SockState /\ sock.rx \in Seq(Unit) /\ sock.pos \in Nat
           /\ sock.pos \in 0 .. MaxUnits /\ MaxUnits \in Nat
           /\ Len(sock.rx) \in Nat /\ sock.pos <= Len(sock.rx)
           /\ arrived \in 0 .. MaxUnits /\ arrived \in Nat /\ Len(sock.rx) <= arrived
           /\ got \in Seq(Unit) /\ Rest(sock) \in Seq(Unit)
           /\ Unread = Len(sock.rx) - sock.pos
           /\ (~ interrupted => got \o Rest(sock) = Counted(arrived))
<1>1. /\ sock \in SockState /\ got \in Seq(Unit) /\ arrived \in 0 .. MaxUnits
      /\ sock.pos <= Len(sock.rx) /\ Len(sock.rx) <= arrived
  BY DEF TcpInv, TcpTypes, ReadWithin
<1>2. sock.rx \in Seq(Unit) /\ sock.pos \in 0 .. MaxUnits
  BY <1>1 DEF SockState
<1>3. /\ MaxUnits \in Nat /\ sock.pos \in Nat /\ arrived \in Nat /\ Len(sock.rx) \in Nat
  BY <1>1, <1>2, TunnelSocketsAssumption, LenProperties
<1>4. Rest(sock) \in Seq(Unit)
  BY <1>1, <1>2, <1>3, RestIsSeq DEF Rest
<1>5. ~ interrupted => got \o Rest(sock) = Counted(arrived)
  BY DEF TcpInv, ReadsWhatArrived, Rest, Counted
<1>6. QED
  BY <1>1, <1>2, <1>3, <1>4, <1>5 DEF Unread

\* Nothing was read, nothing is left and nothing arrived.
LEMMA NothingYet ==
    /\ <<>> \in Seq(Unit) /\ Len(<<>>) = 0
    /\ <<>> \o SubSeq(<<>>, 0 + 1, Len(<<>>)) = [i \in 1 .. 0 |-> i]
<1>1. <<>> \in Seq(Unit) /\ Len(<<>>) = 0
  BY EmptySeq
<1>2. SubSeq(<<>>, 0 + 1, 0) = <<>>
  BY SubSeqEmpty
<1>3. <<>> \o <<>> = <<>>
  BY <1>1, ConcatEmptySeq
<1>4. [i \in 1 .. 0 |-> i] = <<>>
  <2>1. Counted(0) \in Seq(Unit) /\ Len(Counted(0)) = 0
    BY TunnelSocketsAssumption, CountedIsSeq
  <2>2. QED
    BY <2>1, EmptySeq DEF Counted
<1>5. QED
  BY <1>1, <1>2, <1>3, <1>4

\* A socket that has read and received nothing
LEMMA FreshTcp ==
    ASSUME sock'.rx = <<>>, sock'.pos = 0, arrived' = 0, got' = <<>>, said' = Nil,
           interrupted' = FALSE, recving' = Nil
    PROVE  (ReadWithin /\ NothingLeft /\ ReadsWhatArrived)'
<1>1. (ReadWithin /\ NothingLeft)'
  BY NothingYet DEF ReadWithin, NothingLeft, Nil
<1>2. ReadsWhatArrived'
  BY NothingYet DEF ReadsWhatArrived
<1>3. QED
  BY <1>1, <1>2

LEMMA ClosedSocket ==
    /\ Closed \in SockState /\ Closed.rx = <<>> /\ Closed.pos = 0 /\ Closed.pcb = 0
    /\ Closed.closed = FALSE
<1>1. <<>> \in Seq(Unit)
  BY EmptySeq
<1>2. 0 \in 0 .. MaxPcbs /\ 0 \in 0 .. MaxUnits
  BY TunnelSocketsAssumption
<1>3. QED
  BY <1>1, <1>2 DEF Closed, SockState

LEMMA TcpInit == SocketsInit => TcpInv
<1> SUFFICES ASSUME SocketsInit PROVE TcpInv
  OBVIOUS
<1>1. 0 \in 0 .. MaxPcbs /\ 0 \in 0 .. MaxUnits
  BY TunnelSocketsAssumption
<1>2. /\ sock = Closed /\ recving = Nil /\ linked = {} /\ opened = 0 /\ arrived = 0
      /\ got = <<>> /\ said = Nil /\ interrupted = FALSE
  BY DEF SocketsInit
<1>3. TcpTypes /\ NoStrayCallback
  BY <1>1, <1>2, NothingYet, ClosedSocket DEF TcpTypes, NoStrayCallback
<1>4. ReadWithin /\ NothingLeft
  BY <1>2, NothingYet, ClosedSocket DEF ReadWithin, NothingLeft, Nil
<1>5. ReadsWhatArrived
  BY <1>2, NothingYet, ClosedSocket DEF ReadsWhatArrived
<1>6. QED
  BY <1>3, <1>4, <1>5 DEF TcpInv

\* A connection begins with a socket that nothing is linked to.
LEMMA StartConnectStep == ASSUME TcpInv, StartConnect PROVE TcpInv'
<1>1. /\ sock = Closed /\ recving = Nil /\ opened < MaxPcbs
      /\ opened' = opened + 1 /\ UNCHANGED recving
      /\ arrived' = 0 /\ got' = <<>> /\ said' = Nil /\ interrupted' = FALSE
  BY DEF StartConnect
<1>2. opened' \in 0 .. MaxPcbs /\ opened + 1 \in 1 .. MaxPcbs
  BY <1>1, TunnelSocketsAssumption DEF TcpInv, TcpTypes
<1>3. linked = {}
  BY <1>1, ClosedSocket DEF TcpInv, TcpTypes, NoStrayCallback
<1>4. /\ sock' \in SockState /\ sock'.rx = <<>> /\ sock'.pos = 0
      /\ linked' \subseteq 1 .. MaxPcbs /\ linked' \subseteq {sock'.pcb}
  <2>1. CASE sock' = [sock EXCEPT !.pcb = opened + 1] /\ linked' = linked \cup {opened + 1}
    <3>1. /\ sock' \in SockState /\ sock'.rx = <<>> /\ sock'.pos = 0 /\ sock'.pcb = opened + 1
      BY <1>1, <1>2, <2>1, ClosedSocket DEF SockState
    <3>2. QED
      BY <1>2, <1>3, <2>1, <3>1
  <2>2. CASE UNCHANGED <<sock, linked>>
    BY <1>1, <1>3, <2>2, ClosedSocket
  <2>3. QED
    BY <2>1, <2>2 DEF StartConnect
<1>5. <<>> \in Seq(Unit) /\ 0 \in 0 .. MaxUnits
  BY EmptySeq, TunnelSocketsAssumption
<1>6. TcpTypes'
  BY <1>1, <1>2, <1>4, <1>5 DEF TcpTypes
<1>7. QED
  BY <1>1, <1>4, <1>6, FreshTcp DEF TcpInv, NoStrayCallback

LEMMA CloseStep == ASSUME TcpInv, Close PROVE TcpInv'
<1>1. /\ sock' = Closed /\ recving' = Nil /\ UNCHANGED opened /\ linked' = linked \ {sock.pcb}
      /\ arrived' = 0 /\ got' = <<>> /\ said' = Nil /\ interrupted' = FALSE
  BY DEF Close, Detached
<1>2. linked' = {}
  BY <1>1 DEF TcpInv, NoStrayCallback
<1>3. <<>> \in Seq(Unit) /\ 0 \in 0 .. MaxUnits
  BY EmptySeq, TunnelSocketsAssumption
<1>4. TcpTypes'
  BY <1>1, <1>2, <1>3, ClosedSocket DEF TcpInv, TcpTypes
<1>5. QED
  BY <1>1, <1>2, <1>4, ClosedSocket, FreshTcp DEF TcpInv, NoStrayCallback

\* A callback, or a failure, that leaves what is received alone
LEMMA SameBytes ==
    ASSUME TcpInv, sock' \in SockState, sock'.rx = sock.rx, sock'.pos = sock.pos,
           sock.closed => sock'.closed, linked' \subseteq linked, linked' \subseteq {sock'.pcb},
           interrupted' \in BOOLEAN, interrupted => interrupted',
           UNCHANGED <<recving, opened, arrived, got, said>>
    PROVE  TcpInv'
<1>1. TcpTypes'
  BY DEF TcpInv, TcpTypes
<1>2. (ReadWithin /\ NothingLeft)'
  BY DEF TcpInv, ReadWithin, NothingLeft
<1>3. ReadsWhatArrived'
  BY DEF TcpInv, ReadsWhatArrived
<1>4. QED
  BY <1>1, <1>2, <1>3 DEF TcpInv, NoStrayCallback

LEMMA CallbackKeeps ==
    ASSUME TcpInv, NEW c \in linked, NEW s, CallsBack(c, s)
    PROVE  /\ sock' = s /\ UNCHANGED <<recving, opened, got, said>>
           /\ interrupted' \in BOOLEAN /\ (interrupted => interrupted')
           /\ (~ interrupted' => recving = Nil)
BY DEF CallsBack, TcpInv, TcpTypes

LEMMA OnConnectedStep == ASSUME TcpInv, NEW c \in linked, OnConnected(c) PROVE TcpInv'
<1> DEFINE s == [sock EXCEPT !.connected = TRUE]
<1>1. CallsBack(c, s) /\ UNCHANGED <<linked, arrived>>
  BY DEF OnConnected
<1>2. sock \in SockState /\ linked \subseteq {sock.pcb}
  BY DEF TcpInv, TcpTypes, NoStrayCallback
<1>3. /\ s \in SockState /\ s.rx = sock.rx /\ s.pos = sock.pos /\ s.pcb = sock.pcb
      /\ s.closed = sock.closed
  BY <1>2 DEF SockState
<1> HIDE DEF s
<1>4. QED
  BY <1>1, <1>2, <1>3, CallbackKeeps, SameBytes

LEMMA OnRemoteCloseStep == ASSUME TcpInv, NEW c \in linked, OnRemoteClose(c) PROVE TcpInv'
<1> DEFINE s == [sock EXCEPT !.closed = TRUE]
<1>1. CallsBack(c, s) /\ UNCHANGED <<linked, arrived>>
  BY DEF OnRemoteClose
<1>2. sock \in SockState /\ linked \subseteq {sock.pcb}
  BY DEF TcpInv, TcpTypes, NoStrayCallback
<1>3. /\ s \in SockState /\ s.rx = sock.rx /\ s.pos = sock.pos /\ s.pcb = sock.pcb /\ s.closed
  BY <1>2 DEF SockState
<1> HIDE DEF s
<1>4. QED
  BY <1>1, <1>2, <1>3, CallbackKeeps, SameBytes

LEMMA OnErrorStep == ASSUME TcpInv, NEW c \in linked, OnError(c) PROVE TcpInv'
<1> DEFINE s == [sock EXCEPT !.pcb = 0, !.failed = TRUE, !.connected = FALSE]
<1>1. CallsBack(c, s) /\ linked' = linked \ {c} /\ UNCHANGED arrived
  BY DEF OnError
<1>2. sock \in SockState /\ linked \subseteq {sock.pcb}
  BY DEF TcpInv, TcpTypes, NoStrayCallback
<1>3. 0 \in 0 .. MaxPcbs
  BY TunnelSocketsAssumption
<1>4. /\ s \in SockState /\ s.rx = sock.rx /\ s.pos = sock.pos /\ s.closed = sock.closed
  BY <1>2, <1>3 DEF SockState
<1>5. linked' = {}
  BY <1>1, <1>2
<1> HIDE DEF s
<1>6. QED
  BY <1>1, <1>4, <1>5, CallbackKeeps, SameBytes

LEMMA SendFailsStep == ASSUME TcpInv, SendFails PROVE TcpInv'
<1>1. /\ sock' = [sock EXCEPT !.failed = TRUE]
      /\ UNCHANGED <<recving, linked, opened, arrived, got, said, interrupted>>
  BY DEF SendFails
<1>2. sock \in SockState /\ linked \subseteq {sock.pcb} /\ interrupted \in BOOLEAN
  BY DEF TcpInv, TcpTypes, NoStrayCallback
<1>3. /\ sock' \in SockState /\ sock'.rx = sock.rx /\ sock'.pos = sock.pos
      /\ sock'.pcb = sock.pcb /\ sock'.closed = sock.closed
  BY <1>1, <1>2 DEF SockState
<1>4. QED
  BY <1>1, <1>2, <1>3, SameBytes

\* A unit that arrives is the last that will be read.
LEMMA OnRecvStep == ASSUME TcpInv, NEW c \in linked, OnRecv(c) PROVE TcpInv'
<1> DEFINE s == [sock EXCEPT !.rx = Append(sock.rx, arrived + 1)]
<1>1. CallsBack(c, s) /\ arrived' = arrived + 1 /\ arrived < MaxUnits /\ UNCHANGED linked
      /\ ~ sock.closed
  BY DEF OnRecv
<1>2. /\ sock \in SockState /\ sock.rx \in Seq(Unit) /\ sock.pos \in Nat /\ arrived \in Nat
      /\ sock.pos <= Len(sock.rx) /\ Len(sock.rx) \in Nat /\ Len(sock.rx) <= arrived
      /\ got \in Seq(Unit) /\ Rest(sock) \in Seq(Unit) /\ MaxUnits \in Nat
      /\ (~ interrupted => got \o Rest(sock) = Counted(arrived))
  BY TcpFacts
<1>3. arrived + 1 \in Unit /\ arrived' \in 0 .. MaxUnits /\ arrived' \in Nat
  BY <1>1, <1>2 DEF Unit
<1>4. /\ Append(sock.rx, arrived + 1) \in Seq(Unit)
      /\ Len(Append(sock.rx, arrived + 1)) = Len(sock.rx) + 1
  BY <1>2, <1>3, AppendProperties
<1>5. /\ s \in SockState /\ s.rx = Append(sock.rx, arrived + 1) /\ s.pos = sock.pos
      /\ s.pcb = sock.pcb /\ s.closed = sock.closed
  BY <1>2, <1>4 DEF SockState
<1> HIDE DEF s
<1>6. /\ sock' = s /\ UNCHANGED <<recving, opened, got, said>>
      /\ interrupted' \in BOOLEAN /\ (interrupted => interrupted')
      /\ (~ interrupted' => recving = Nil)
  BY <1>1, CallbackKeeps
<1>7. TcpTypes' /\ NoStrayCallback'
  BY <1>1, <1>3, <1>5, <1>6 DEF TcpInv, TcpTypes, NoStrayCallback
<1>8. ReadWithin'
  BY <1>1, <1>2, <1>4, <1>5, <1>6 DEF ReadWithin
<1>9. NothingLeft'
  BY <1>1, <1>6 DEF TcpInv, NothingLeft, Nil
<1>10. ASSUME ~ interrupted' PROVE got' \o Rest(sock') = Counted(arrived')
  <2>1. Rest(sock') = Append(Rest(sock), arrived + 1)
    <3>1. Rest(s) = SubSeq(Append(sock.rx, arrived + 1), sock.pos + 1, Len(Append(sock.rx, arrived + 1)))
      BY <1>5 DEF Rest
    <3>2. Rest(s) = Append(SubSeq(sock.rx, sock.pos + 1, Len(sock.rx)), arrived + 1)
      BY <1>2, <1>3, <3>1, RestAppended
    <3>3. QED
      BY <1>6, <3>2 DEF Rest
  <2>2. got \o Append(Rest(sock), arrived + 1) = Append(got \o Rest(sock), arrived + 1)
    BY <1>2, <1>3, ConcatAppend
  <2>3. got \o Rest(sock) = Counted(arrived)
    BY <1>2, <1>6, <1>10
  <2>4. Append(Counted(arrived), arrived + 1) = Counted(arrived + 1)
    BY <1>1, <1>2, CountedNext
  <2>5. QED
    BY <1>1, <1>6, <2>1, <2>2, <2>3, <2>4
<1>11. ReadsWhatArrived'
  BY <1>10 DEF ReadsWhatArrived, Rest, Counted
<1>12. QED
  BY <1>7, <1>8, <1>9, <1>11 DEF TcpInv

\* recv() moves what it takes from the front of what is left to the end of what was read.
LEMMA RecvStep == ASSUME TcpInv, Recv PROVE TcpInv'
<1>1. /\ sock \in SockState /\ sock.rx \in Seq(Unit) /\ sock.pos \in Nat /\ sock.pos \in 0 .. MaxUnits
      /\ sock.pos <= Len(sock.rx) /\ Len(sock.rx) \in Nat /\ Len(sock.rx) <= arrived
      /\ got \in Seq(Unit) /\ arrived \in 0 .. MaxUnits /\ MaxUnits \in Nat
      /\ Unread = Len(sock.rx) - sock.pos
      /\ (~ interrupted => got \o Rest(sock) = Counted(arrived))
  BY TcpFacts
<1>2. PICK take \in 1 .. Unread :
          /\ got' = got \o SubSeq(sock.rx, sock.pos + 1, sock.pos + take)
          /\ sock' = [sock EXCEPT !.pos = sock.pos + take]
          /\ recving' = IF take = Unread THEN "clears" ELSE "keeps"
  BY DEF Recv
<1>3. Unread > 0 /\ UNCHANGED <<linked, opened, arrived, said, interrupted>>
  BY DEF Recv
<1>4. /\ take \in 1 .. Len(sock.rx) - sock.pos /\ take \in Nat
      /\ sock.pos + take \in 0 .. MaxUnits /\ sock.pos + take \in Nat
      /\ sock.pos + take <= Len(sock.rx)
  <2>1. take \in 1 .. Len(sock.rx) - sock.pos
    BY <1>1, <1>2
  <2>2. take \in Nat /\ sock.pos + take \in Nat /\ sock.pos + take <= Len(sock.rx)
    BY <1>1, <2>1
  <2>3. arrived \in Nat /\ arrived <= MaxUnits
    BY <1>1
  <2>4. sock.pos + take <= MaxUnits
    BY <1>1, <2>2, <2>3
  <2>5. QED
    BY <1>1, <2>1, <2>2, <2>4
<1>5. /\ sock' \in SockState /\ sock'.rx = sock.rx /\ sock'.pos = sock.pos + take
      /\ sock'.pcb = sock.pcb /\ sock'.closed = sock.closed
  BY <1>1, <1>2, <1>4 DEF SockState
<1> DEFINE taken == SubSeq(sock.rx, sock.pos + 1, sock.pos + take)
<1>6. taken \in Seq(Unit)
  <2>1. \A i \in sock.pos + 1 .. sock.pos + take : sock.rx[i] \in Unit
    BY <1>1, <1>4, ElementOfSeq
  <2>2. QED
    BY <1>1, <1>4, <2>1, SubSeqProperties
<1>7. got' = got \o taken /\ got' \in Seq(Unit)
  BY <1>1, <1>2, <1>6, ConcatProperties
<1>8. TcpTypes' /\ NoStrayCallback'
  <2>1. TcpTypes'
    BY <1>2, <1>3, <1>5, <1>7 DEF TcpInv, TcpTypes
  <2>2. NoStrayCallback'
    BY <1>3, <1>5 DEF TcpInv, NoStrayCallback
  <2>3. QED
    BY <2>1, <2>2
<1>9. ReadWithin'
  BY <1>1, <1>3, <1>4, <1>5 DEF ReadWithin
<1>10. NothingLeft'
  <2> SUFFICES ASSUME ~ interrupted'
               PROVE  /\ recving' = "clears" => sock'.pos = Len(sock'.rx)
                      /\ said' = "closed" => sock'.closed /\ sock'.pos = Len(sock'.rx)
    BY DEF NothingLeft
  <2>1. recving' = "clears" => sock'.pos = Len(sock'.rx)
    <3>1. recving' = "clears" => take = Unread
      BY <1>2
    <3>2. take = Unread => sock.pos + take = Len(sock.rx)
      BY <1>1
    <3>3. QED
      BY <1>5, <3>1, <3>2
  <2>2. said' # "closed"
    BY <1>1, <1>3 DEF TcpInv, NothingLeft
  <2>3. QED
    BY <2>1, <2>2
<1>11. ASSUME ~ interrupted' PROVE got' \o Rest(sock') = Counted(arrived')
  <2>1. Rest(sock') = SubSeq(sock.rx, sock.pos + take + 1, Len(sock.rx))
    BY <1>5 DEF Rest
  <2>2. Rest(sock') \in Seq(Unit)
    BY <1>1, <1>4, <2>1, RestIsSeq
  <2>3. taken \o Rest(sock') = Rest(sock)
    BY <1>1, <1>4, <2>1, RestTaken DEF Rest
  <2> HIDE DEF taken
  <2>4. (got \o taken) \o Rest(sock') = got \o (taken \o Rest(sock'))
    <3> DEFINE left == Rest(sock')
    <3>1. got \in Seq(Unit) /\ taken \in Seq(Unit) /\ left \in Seq(Unit)
      BY <1>1, <1>6, <2>2
    <3> HIDE DEF left
    <3>2. (got \o taken) \o left = got \o (taken \o left)
      BY <3>1, ConcatAssociative
    <3>3. QED
      BY <3>2 DEF left
  <2>5. got \o Rest(sock) = Counted(arrived) /\ arrived' = arrived
    BY <1>1, <1>3, <1>11
  <2>6. QED
    BY <1>7, <2>3, <2>4, <2>5
<1>12. ReadsWhatArrived'
  BY <1>11 DEF ReadsWhatArrived, Rest, Counted
<1>13. QED
  BY <1>8, <1>9, <1>10, <1>12 DEF TcpInv

\* The end of recv() drops what was read, and more only when lwIP called back meanwhile.
LEMMA RecvEndsStep == ASSUME TcpInv, RecvEnds PROVE TcpInv'
<1>1. /\ sock \in SockState /\ sock.rx \in Seq(Unit) /\ sock.pos \in Nat
      /\ sock.pos <= Len(sock.rx) /\ Len(sock.rx) \in Nat /\ Len(sock.rx) <= arrived
      /\ got \in Seq(Unit) /\ arrived \in 0 .. MaxUnits /\ arrived \in Nat
      /\ (~ interrupted => got \o Rest(sock) = Counted(arrived))
  BY TcpFacts
<1>2. /\ sock' = Settled(sock) /\ recving' = Nil
      /\ UNCHANGED <<linked, opened, arrived, got, said, interrupted>>
  BY DEF RecvEnds
<1>3. <<>> \in Seq(Unit) /\ Len(<<>>) = 0 /\ 0 \in 0 .. MaxUnits
  BY EmptySeq, TunnelSocketsAssumption
<1>4. /\ sock' \in SockState /\ sock'.pcb = sock.pcb /\ sock'.closed = sock.closed
      /\ sock'.pos <= Len(sock'.rx) /\ Len(sock'.rx) <= Len(sock.rx)
      /\ sock.pos = Len(sock.rx) => sock'.pos = Len(sock'.rx)
      /\ ~ (recving = "clears" /\ sock.pos # Len(sock.rx)) => Rest(sock') = Rest(sock)
  <2>1. CASE recving = "clears"
    <3>1. sock' = [sock EXCEPT !.rx = <<>>, !.pos = 0]
      BY <1>2, <2>1 DEF Settled
    <3>2. /\ sock' \in SockState /\ sock'.pcb = sock.pcb /\ sock'.closed = sock.closed
          /\ sock'.rx = <<>> /\ sock'.pos = 0
      BY <1>1, <1>3, <3>1 DEF SockState
    <3>3. Rest(sock') = <<>>
      <4>1. SubSeq(<<>>, 0 + 1, 0) = <<>>
        BY SubSeqEmpty
      <4>2. QED
        BY <1>3, <3>2, <4>1 DEF Rest
    <3>4. sock.pos = Len(sock.rx) => Rest(sock) = <<>>
      BY <1>1, RestIsSeq DEF Rest
    <3>5. QED
      BY <1>1, <1>3, <2>1, <3>2, <3>3, <3>4
  <2>2. CASE recving # "clears" /\ sock.pos > Compact
    <3>1. sock' = [sock EXCEPT !.rx = Rest(sock), !.pos = 0]
      BY <1>2, <2>2 DEF Settled, Rest
    <3>2. /\ Rest(sock) \in Seq(Unit) /\ Len(Rest(sock)) = Len(sock.rx) - sock.pos
          /\ sock.pos = Len(sock.rx) => Rest(sock) = <<>>
      BY <1>1, RestIsSeq DEF Rest
    <3>3. /\ sock' \in SockState /\ sock'.pcb = sock.pcb /\ sock'.closed = sock.closed
          /\ sock'.rx = Rest(sock) /\ sock'.pos = 0
      BY <1>1, <1>3, <3>1, <3>2 DEF SockState
    <3>4. Rest(sock') = Rest(sock)
      <4> DEFINE left == Rest(sock)
      <4>1. Rest(sock') = SubSeq(left, 0 + 1, Len(left))
        BY <3>3 DEF Rest
      <4>2. left \in Seq(Unit)
        BY <3>2
      <4> HIDE DEF left
      <4>3. SubSeq(left, 1, Len(left)) = left
        BY <4>2, SubSeqFull
      <4>4. Rest(sock') = left
        BY <4>1, <4>3
      <4>5. QED
        BY <4>4 DEF left
    <3>5. QED
      BY <1>1, <2>2, <3>2, <3>3, <3>4
  <2>3. CASE recving # "clears" /\ ~ (sock.pos > Compact)
    BY <1>1, <1>2, <2>3 DEF Settled
  <2>4. QED
    BY <2>1, <2>2, <2>3
<1>5. TcpTypes' /\ NoStrayCallback'
  BY <1>2, <1>4 DEF TcpInv, TcpTypes, NoStrayCallback
<1>6. ReadWithin'
  <2>1. sock'.rx \in Seq(Unit)
    BY <1>4 DEF SockState
  <2>2. Len(sock'.rx) \in Nat
    BY <2>1, LenProperties
  <2>3. QED
    BY <1>1, <1>2, <1>4, <2>2 DEF ReadWithin
<1>7. NothingLeft'
  BY <1>2, <1>4 DEF TcpInv, NothingLeft, Nil
<1>8. ASSUME ~ interrupted' PROVE got' \o Rest(sock') = Counted(arrived')
  <2>1. Rest(sock') = Rest(sock)
    BY <1>2, <1>4, <1>8 DEF TcpInv, NothingLeft
  <2>2. QED
    BY <1>1, <1>2, <1>8, <2>1
<1>9. ReadsWhatArrived'
  BY <1>8 DEF ReadsWhatArrived, Rest, Counted
<1>10. QED
  BY <1>5, <1>6, <1>7, <1>9 DEF TcpInv

LEMMA RecvNothingStep == ASSUME TcpInv, RecvNothing PROVE TcpInv'
<1>1. /\ said' = Verdict(sock) /\ Verdict(sock) # Nil
      /\ UNCHANGED <<sock, recving, linked, opened, arrived, got, interrupted>>
  BY DEF RecvNothing
<1>2. /\ sock.pos <= Len(sock.rx) /\ Len(sock.rx) \in Nat /\ sock.pos \in Nat
      /\ Unread = Len(sock.rx) - sock.pos
  BY TcpFacts
<1>3. /\ said' \in {"closed", "error", "wait"}
      /\ said' = "closed" => sock.closed /\ sock.pos = Len(sock.rx)
  BY <1>1, <1>2 DEF Verdict
<1>4. TcpTypes' /\ NoStrayCallback' /\ ReadWithin' /\ ReadsWhatArrived'
  BY <1>1, <1>3 DEF TcpInv, TcpTypes, NoStrayCallback, ReadWithin, ReadsWhatArrived
<1>5. NothingLeft'
  BY <1>1, <1>3 DEF TcpInv, NothingLeft
<1>6. QED
  BY <1>4, <1>5 DEF TcpInv

LEMMA SameTcp == ASSUME TcpInv, UNCHANGED tcp PROVE TcpInv'
<1>1. UNCHANGED <<sock, recving, linked, opened, arrived, got, said, interrupted>>
  BY DEF tcp
<1>2. QED
  BY <1>1 DEF TcpInv, TcpTypes, NoStrayCallback, ReadWithin, NothingLeft, ReadsWhatArrived

-----------------------------------------------------------------------------
(* The sockets of the tunnel: datagrams and names                          *)

NamesTypes ==
    /\ udp \in 0 .. MaxQueue
    /\ asked \in Hosts \cup {Nil} /\ age \in 0 .. Deadline
    /\ dns \in [done : BOOLEAN, result : Hosts \cup {Nil}]
    /\ queries \subseteq Hosts /\ outlived \in BOOLEAN
    /\ answer \in [host : Hosts \cup {Nil}, result : Hosts \cup {Nil}]

\* While every query was waited for, lwIP asks for nothing else than the host in hand, and
\* for nothing once it has answered; what it answered is about that host.
OneQuestion ==
    ~ outlived =>
        /\ queries \subseteq {asked}
        /\ asked = Nil \/ dns.done => queries = {}
        /\ asked # Nil => dns.result \in {asked, Nil}

NamesInv == NamesTypes /\ OneQuestion /\ AnswersItsQuestion

LEMMA NamesInit == SocketsInit => NamesInv
<1> SUFFICES ASSUME SocketsInit PROVE NamesInv
  OBVIOUS
<1>1. 0 \in 0 .. MaxQueue /\ 0 \in 0 .. Deadline
  BY TunnelSocketsAssumption
<1>2. NamesTypes
  BY <1>1 DEF SocketsInit, NamesTypes, Unanswered
<1>3. OneQuestion /\ AnswersItsQuestion
  BY DEF SocketsInit, OneQuestion, AnswersItsQuestion
<1>4. QED
  BY <1>2, <1>3 DEF NamesInv

LEMMA ResolveStep == ASSUME NamesInv, NEW h \in Hosts, Resolve(h) PROVE NamesInv'
<1>1. /\ asked = Nil /\ dns' = Unanswered /\ UNCHANGED <<udp, outlived>> /\ h # Nil
      /\ 0 \in 0 .. Deadline
  BY TunnelSocketsAssumption DEF Resolve, NewDns
<1>2. dns' \in [done : BOOLEAN, result : Hosts \cup {Nil}] /\ ~ dns'.done /\ dns'.result = Nil
  BY <1>1 DEF Unanswered
<1>3. CASE (\E r \in {h, Nil} : answer' = [host |-> h, result |-> r]) /\ UNCHANGED <<asked, age, queries>>
  <2>1. PICK r \in {h, Nil} : answer' = [host |-> h, result |-> r]
    BY <1>3
  <2>2. answer'.host = h /\ answer'.result = r
    BY <2>1
  <2>3. NamesTypes'
    BY <1>1, <1>2, <1>3, <2>1 DEF NamesInv, NamesTypes
  <2>4. OneQuestion'
    BY <1>1, <1>2, <1>3 DEF NamesInv, OneQuestion
  <2>5. AnswersItsQuestion'
    BY <2>1, <2>2 DEF AnswersItsQuestion
  <2>6. QED
    BY <2>3, <2>4, <2>5 DEF NamesInv
<1>4. CASE asked' = h /\ age' = 0 /\ queries' = queries \cup {h} /\ UNCHANGED answer
  <2>1. NamesTypes'
    BY <1>1, <1>2, <1>4 DEF NamesInv, NamesTypes
  <2>2. OneQuestion'
    BY <1>1, <1>2, <1>4 DEF NamesInv, OneQuestion
  <2>3. AnswersItsQuestion'
    BY <1>1, <1>4 DEF NamesInv, AnswersItsQuestion
  <2>4. QED
    BY <2>1, <2>2, <2>3 DEF NamesInv
<1>5. QED
  BY <1>3, <1>4 DEF Resolve

LEMMA DnsFoundStep == ASSUME NamesInv, NEW h \in Hosts, DnsFound(h) PROVE NamesInv'
<1>1. /\ h \in queries /\ queries' = queries \ {h}
      /\ UNCHANGED <<udp, asked, age, answer, outlived>>
  BY DEF DnsFound
<1>2. PICK r \in {h, Nil} : dns' = [done |-> TRUE, result |-> r]
  BY DEF DnsFound
<1>3. dns' \in [done : BOOLEAN, result : Hosts \cup {Nil}] /\ dns'.done /\ dns'.result = r
  BY <1>2
<1>4. NamesTypes'
  BY <1>1, <1>3 DEF NamesInv, NamesTypes
<1>5. OneQuestion'
  BY <1>1, <1>2, <1>3 DEF NamesInv, OneQuestion
<1>6. AnswersItsQuestion'
  BY <1>1 DEF NamesInv, AnswersItsQuestion
<1>7. QED
  BY <1>4, <1>5, <1>6 DEF NamesInv

LEMMA ResolvedStep == ASSUME NamesInv, Resolved PROVE NamesInv'
<1>1. /\ asked # Nil /\ answer' = [host |-> asked, result |-> dns.result]
      /\ outlived' = (outlived \/ ~ dns.done) /\ asked' = Nil /\ age' = 0
      /\ UNCHANGED <<udp, dns, queries>> /\ 0 \in 0 .. Deadline
  BY TunnelSocketsAssumption DEF Resolved
<1>2. answer'.host = asked /\ answer'.result = dns.result
  BY <1>1
<1>3. NamesTypes'
  <2>1. dns.done \in BOOLEAN /\ dns.result \in Hosts \cup {Nil} /\ asked \in Hosts \cup {Nil}
    BY DEF NamesInv, NamesTypes
  <2>2. outlived' \in BOOLEAN
    BY <1>1
  <2>3. answer' \in [host : Hosts \cup {Nil}, result : Hosts \cup {Nil}]
    BY <1>1, <2>1
  <2>4. QED
    BY <1>1, <2>2, <2>3 DEF NamesInv, NamesTypes
<1>4. OneQuestion' /\ AnswersItsQuestion'
  BY <1>1, <1>2 DEF NamesInv, OneQuestion, AnswersItsQuestion
<1>5. QED
  BY <1>3, <1>4 DEF NamesInv

LEMMA WaitsStep == ASSUME NamesInv, Waits PROVE NamesInv'
<1>1. /\ age' = age + 1 /\ age < Deadline
      /\ UNCHANGED <<udp, asked, dns, queries, answer, outlived>>
  BY DEF Waits
<1>2. age' \in 0 .. Deadline
  BY <1>1, TunnelSocketsAssumption DEF NamesInv, NamesTypes
<1>3. QED
  BY <1>1, <1>2 DEF NamesInv, NamesTypes, OneQuestion, AnswersItsQuestion

LEMMA SameNames == ASSUME NamesInv, UNCHANGED names, udp' \in 0 .. MaxQueue PROVE NamesInv'
<1>1. UNCHANGED <<asked, age, dns, queries, answer, outlived>>
  BY DEF names
<1>2. QED
  BY <1>1 DEF NamesInv, NamesTypes, OneQuestion, AnswersItsQuestion

LEMMA DatagramStep == ASSUME NamesInv, OnDatagram \/ RecvFrom \/ CloseUdp PROVE NamesInv'
<1>1. udp' \in 0 .. MaxQueue
  BY TunnelSocketsAssumption DEF NamesInv, NamesTypes, OnDatagram, RecvFrom, CloseUdp, HasRoom
<1>2. UNCHANGED names
  BY DEF OnDatagram, RecvFrom, CloseUdp
<1>3. QED
  BY <1>1, <1>2, SameNames

LEMMA NextSockets == TcpInv /\ NamesInv /\ [SocketsNext]_socketsVars => (TcpInv /\ NamesInv)'
<1> SUFFICES ASSUME TcpInv, NamesInv, [SocketsNext]_socketsVars PROVE TcpInv' /\ NamesInv'
  OBVIOUS
<1>1. udp \in 0 .. MaxQueue
  BY DEF NamesInv, NamesTypes
<1>2. CASE StartConnect \/ SendFails \/ Recv \/ RecvEnds \/ RecvNothing \/ Close
  <2>1. UNCHANGED names /\ UNCHANGED udp
    BY <1>2 DEF StartConnect, SendFails, Recv, RecvEnds, RecvNothing, Close
  <2>2. TcpInv'
    BY <1>2, StartConnectStep, SendFailsStep, RecvStep, RecvEndsStep, RecvNothingStep, CloseStep
  <2>3. QED
    BY <1>1, <2>1, <2>2, SameNames
<1>3. ASSUME NEW c \in linked, OnConnected(c) \/ OnRecv(c) \/ OnRemoteClose(c) \/ OnError(c)
      PROVE  TcpInv' /\ NamesInv'
  <2>1. UNCHANGED names /\ UNCHANGED udp
    BY <1>3 DEF OnConnected, OnRecv, OnRemoteClose, OnError, CallsBack
  <2>2. TcpInv'
    BY <1>3, OnConnectedStep, OnRecvStep, OnRemoteCloseStep, OnErrorStep
  <2>3. QED
    BY <1>1, <2>1, <2>2, SameNames
<1>4. CASE OnDatagram \/ RecvFrom \/ CloseUdp
  <2>1. UNCHANGED tcp
    BY <1>4 DEF OnDatagram, RecvFrom, CloseUdp
  <2>2. QED
    BY <1>4, <2>1, SameTcp, DatagramStep
<1>5. ASSUME NEW h \in Hosts, Resolve(h) \/ DnsFound(h) PROVE TcpInv' /\ NamesInv'
  <2>1. UNCHANGED tcp
    BY <1>5 DEF Resolve, DnsFound
  <2>2. QED
    BY <1>5, <2>1, SameTcp, ResolveStep, DnsFoundStep
<1>6. CASE Resolved \/ Waits
  <2>1. UNCHANGED tcp
    BY <1>6 DEF Resolved, Waits
  <2>2. QED
    BY <1>6, <2>1, SameTcp, ResolvedStep, WaitsStep
<1>7. CASE UNCHANGED socketsVars
  <2>1. UNCHANGED tcp /\ UNCHANGED names /\ UNCHANGED udp
    BY <1>7 DEF socketsVars, tcp, names
  <2>2. QED
    BY <1>1, <2>1, SameTcp, SameNames
<1>8. QED
  BY <1>2, <1>3, <1>4, <1>5, <1>6, <1>7 DEF SocketsNext

LEMMA SocketsAlways == SocketsSpec => [](TcpInv /\ NamesInv)
<1>1. QED
  BY TcpInit, NamesInit, NextSockets, PTL DEF SocketsSpec

\* lwIP never calls back a socket that was closed or connected again, and resolve() answers
\* what it was asked as long as it waited for every query.
THEOREM SocketsAreRight == SocketsSpec => []SocketsInvariant
<1>1. TcpInv /\ NamesInv => SocketsInvariant
  BY DEF TcpInv, NamesInv, SocketsInvariant, SocketsTypeOK, TcpTypes, NamesTypes, SockState, Unit
<1>2. QED
  BY <1>1, SocketsAlways, PTL

\* recv() returns every unit once, in order, through partial reads and compactions of rx_,
\* as long as lwIP does not call back in the middle of it.
THEOREM BytesInOrder == SocketsSpec => []ReadsWhatArrived
<1>1. TcpInv => ReadsWhatArrived
  BY DEF TcpInv
<1>2. QED
  BY <1>1, SocketsAlways, PTL

\* The other side's close is told once all that it had sent was read.
THEOREM CloseComesLast == SocketsSpec => []ClosedAfterData
<1>1. ASSUME TcpInv, ~ interrupted, said = "closed" PROVE Len(got) = arrived
  <2>1. /\ sock.rx \in Seq(Unit) /\ sock.pos \in Nat /\ sock.pos <= Len(sock.rx)
        /\ got \in Seq(Unit) /\ arrived \in 0 .. MaxUnits
        /\ got \o Rest(sock) = Counted(arrived)
    BY <1>1, TcpFacts
  <2>2. Rest(sock) = <<>>
    BY <1>1, <2>1, RestIsSeq DEF TcpInv, NothingLeft, Rest
  <2>3. got = Counted(arrived)
    BY <2>1, <2>2, ConcatEmptySeq
  <2>4. QED
    BY <2>1, <2>3, CountedIsSeq
<1>2. TcpInv => ClosedAfterData
  BY <1>1 DEF ClosedAfterData
<1>3. QED
  BY <1>2, SocketsAlways, PTL

=============================================================================
