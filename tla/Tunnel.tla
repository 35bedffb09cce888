------------------------------- MODULE Tunnel -------------------------------
(***************************************************************************)
(* wg::WireGuardTunnel between its threads.  Whoever polls or resolves     *)
(* holds the recursive mutex and pumps: it renews the handshake, reads     *)
(* what the relay sent, keeps the session alive and lets lwIP work.  The   *)
(* sockets do not take the mutex: a send goes through lwIP to              *)
(* output_packet() and into the same wg::Peer, whoever is pumping.  Hence  *)
(* encapsulate() is several steps here, and the others go on between them. *)
(*                                                                         *)
(* A data datagram changes the replay window alone, which is WireGuard's   *)
(* matter; what lwIP sends in answer is a packet of the thread that pumps. *)
(* The relay's answers may be lost, late and, a bounded number of times,   *)
(* damaged.  Reading stops when the socket has no more or after            *)
(* kDrainBudget datagrams: here, at any time.                              *)
(***************************************************************************)
EXTENDS WireGuardPeer, FiniteSets

CONSTANTS
    Threads,        \* the engine and the announcer
    MaxDamaged      \* bound: responses damaged on their way

ASSUME TunnelAssumption ==
    MaxDamaged \in Nat /\ MaxKeys > 1

VARIABLES
    phase,          \* state_
    open,           \* udp_fd_ >= 0
    pumping,        \* the thread that holds mutex_, as a set
    sending,        \* where each thread is in output_packet() or send_keepalive()
    wire,           \* the responses on their way
    damaged,        \* how many were damaged
    used,           \* history: the counters sent under the keys in use
    reused,         \* history: one of them was sent twice
    raced           \* history: peer_ was changed under a thread in encapsulate()

tunnelVars == <<peer, phase, open, pumping, sending, wire, damaged, used, reused, raced>>

Idle == [at |-> "idle", packet |-> FALSE, counter |-> 0]

\* The threads between two steps of encapsulate(), but for t
InEncapsulate(t) == {u \in Threads \ {t} : sending[u].at = "sealing"}

\* What t does to peer_ disturbs the others
Disturbs(t) == raced' = (raced \/ (peer' # peer /\ InEncapsulate(t) # {}))

-----------------------------------------------------------------------------
(* Start, stop and the handshake                                           *)

TunnelInit ==
    /\ peer = Configured /\ phase = "Down" /\ open = FALSE
    /\ pumping = {} /\ sending = [t \in Threads |-> Idle]
    /\ wire = {} /\ damaged = 0
    /\ used = {} /\ reused = FALSE /\ raced = FALSE

\* Initiations are numbered in a circle: when a number comes back, what was on its
\* way for the older initiation is lost.
NextIndex(p) == (p.local % MaxKeys) + 1

\* send_handshake(): a degenerate key of the relay makes it fail, which is left out
SendHandshake ==
    /\ peer' = MakeInitiation(peer, NextIndex(peer))
    /\ wire' = {m \in wire : m.to # NextIndex(peer)}

\* start(), of a tunnel that was never started: a new one is made for each connection
Start ==
    /\ phase = "Down" /\ ~ open /\ peer.local = 0 /\ pumping = {}
    /\ open' = TRUE
    /\ phase' = "Handshaking"
    /\ SendHandshake
    /\ UNCHANGED <<pumping, sending, damaged, used, reused, raced>>

\* stop(), under the mutex; the sockets are not told
Stop ==
    /\ open /\ pumping = {}
    /\ open' = FALSE
    /\ phase' = "Down"
    /\ UNCHANGED <<peer, pumping, sending, wire, damaged, used, reused, raced>>

-----------------------------------------------------------------------------
(* pump(): poll() and resolve() call it under the mutex                    *)

\* Its beginning: a handshake when one is due, whether the tunnel is up or not
Pump(t) ==
    /\ open /\ pumping = {} /\ sending[t] = Idle
    /\ pumping' = {t}
    /\ IF NeedsHandshake(peer) THEN SendHandshake ELSE UNCHANGED <<peer, wire>>
    /\ Disturbs(t)
    /\ UNCHANGED <<phase, open, sending, damaged, used, reused>>

\* Mutant of HandleResponse: the tunnel comes up on any response
HandleResponseAny(t, m) ==
    /\ t \in pumping /\ sending[t] = Idle /\ m \in wire
    /\ wire' = wire \ {m}
    /\ peer' = ConsumeResponse(peer, m)
    /\ phase' = "Up"
    /\ used' = IF peer'.keys # peer.keys THEN {} ELSE used
    /\ Disturbs(t)
    /\ UNCHANGED <<open, pumping, sending, damaged, reused>>

\* handle_datagram() of a response
HandleResponse(t, m) ==
    /\ t \in pumping /\ sending[t] = Idle /\ m \in wire
    /\ wire' = wire \ {m}
    /\ peer' = ConsumeResponse(peer, m)
    /\ IF peer.inProgress /\ ~ peer'.inProgress     \* consume_response() succeeded
       THEN phase' = "Up" /\ used' = {}
       ELSE UNCHANGED <<phase, used>>
    /\ Disturbs(t)
    /\ UNCHANGED <<open, pumping, sending, damaged, reused>>

KeepaliveDue == phase = "Up" /\ NeedsKeepalive(peer)

SendKeepalive(t) ==
    /\ t \in pumping /\ sending[t] = Idle /\ KeepaliveDue
    /\ sending' = [sending EXCEPT ![t] = [Idle EXCEPT !.at = "encapsulate"]]
    /\ UNCHANGED <<peer, phase, open, pumping, wire, damaged, used, reused, raced>>

EndPump(t) ==
    /\ t \in pumping /\ sending[t] = Idle /\ ~ KeepaliveDue
    /\ pumping' = {}
    /\ UNCHANGED <<peer, phase, open, sending, wire, damaged, used, reused, raced>>

-----------------------------------------------------------------------------
(* Sending: from lwIP while t pumps, or from a socket, without the mutex   *)

\* output_packet() looks at the phase
OutputPacket(t) ==
    /\ sending[t] = Idle /\ phase = "Up"
    /\ peer.counter <= MaxCount \/ ~ MaySend(peer)
    /\ sending' = [sending EXCEPT ![t] = [Idle EXCEPT !.at = "encapsulate", !.packet = TRUE]]
    /\ UNCHANGED <<peer, phase, open, pumping, wire, damaged, used, reused, raced>>

\* encapsulate(): without keys, or with expired ones, there is nothing to send
Refuse(t) ==
    /\ sending[t].at = "encapsulate" /\ ~ MaySend(peer)
    /\ peer' = Encapsulate(peer)
    /\ sending' = [sending EXCEPT ![t] = IF @.packet THEN [@ EXCEPT !.at = "refused"] ELSE Idle]
    /\ Disturbs(t)
    /\ UNCHANGED <<phase, open, pumping, wire, damaged, used, reused>>

\* Back in output_packet(): the phase is written whatever happened to it meanwhile
GiveUp(t) ==
    /\ sending[t].at = "refused"
    /\ phase' = "Handshaking"
    /\ sending' = [sending EXCEPT ![t] = Idle]
    /\ UNCHANGED <<peer, open, pumping, wire, damaged, used, reused, raced>>

\* encapsulate() reads the counter into the header and the nonce...
ReadCounter(t) ==
    /\ sending[t].at = "encapsulate" /\ MaySend(peer) /\ peer.counter <= MaxCount
    /\ sending' = [sending EXCEPT ![t].at = "sealing", ![t].counter = peer.counter]
    /\ UNCHANGED <<peer, phase, open, pumping, wire, damaged, used, reused, raced>>

\* Mutant of Seal: the counter is not incremented
SealTwice(t) ==
    /\ sending[t].at = "sealing"
    /\ peer' = [peer EXCEPT !.sendAge = 0]
    /\ used' = used \cup {sending[t].counter}
    /\ reused' = (reused \/ sending[t].counter \in used)
    /\ sending' = [sending EXCEPT ![t] = Idle]
    /\ Disturbs(t)
    /\ UNCHANGED <<phase, open, pumping, wire, damaged>>

\* ... encrypts with the keys of that moment and increments what the counter has
\* become, or what it was; the datagram leaves or the socket stays full, the
\* counter has moved on in both cases.
Seal(t) ==
    /\ sending[t].at = "sealing"
    /\ \E c \in {peer.counter, sending[t].counter} :
          peer' = [peer EXCEPT !.counter = c + 1, !.sendAge = 0]
    /\ used' = used \cup {sending[t].counter}
    /\ reused' = (reused \/ sending[t].counter \in used)
    /\ sending' = [sending EXCEPT ![t] = Idle]
    /\ Disturbs(t)
    /\ UNCHANGED <<phase, open, pumping, wire, damaged>>

-----------------------------------------------------------------------------
(* The relay, the network and the clock                                    *)

\* External: the relay answers an initiation
RelayAnswers(i) ==
    /\ i \in Keys /\ peer.local # 0
    /\ wire' = wire \cup {[type |-> "response", to |-> i, genuine |-> TRUE]}
    /\ UNCHANGED <<peer, phase, open, pumping, sending, damaged, used, reused, raced>>

Damage(m) ==
    /\ m \in wire /\ m.genuine /\ damaged < MaxDamaged
    /\ wire' = (wire \ {m}) \cup {[m EXCEPT !.genuine = FALSE]}
    /\ damaged' = damaged + 1
    /\ UNCHANGED <<peer, phase, open, pumping, sending, used, reused, raced>>

Lose(m) ==
    /\ m \in wire
    /\ wire' = wire \ {m}
    /\ UNCHANGED <<peer, phase, open, pumping, sending, damaged, used, reused, raced>>

TimePasses ==
    /\ peer' = Older(peer)
    /\ UNCHANGED <<phase, open, pumping, sending, wire, damaged, used, reused, raced>>

TunnelNext ==
    \/ Start \/ Stop
    \/ \E t \in Threads :
          \/ Pump(t) \/ SendKeepalive(t) \/ EndPump(t)
          \/ \E m \in wire : HandleResponse(t, m)
          \/ OutputPacket(t) \/ Refuse(t) \/ GiveUp(t) \/ ReadCounter(t) \/ Seal(t)
    \/ \E i \in Keys : RelayAnswers(i)
    \/ \E m \in wire : Damage(m) \/ Lose(m)
    \/ TimePasses

\* What a thread began it ends, the engine polls at every turn, time goes on; and the
\* answer to the current initiation, sent again every kRekeyTimeoutMs, reaches a
\* thread that reads the socket, again and again.
InHand(t) == SendKeepalive(t) \/ EndPump(t) \/ Refuse(t) \/ GiveUp(t) \/ ReadCounter(t) \/ Seal(t)
Arrives == RelayAnswers(peer.local) /\ \E t \in pumping : sending[t] = Idle
InTime(t) == \E m \in wire : m.genuine /\ m.to = peer.local /\ HandleResponse(t, m)

Fairness ==
    /\ \A t \in Threads : WF_tunnelVars(InHand(t))
    /\ WF_tunnelVars(\E t \in Threads : Pump(t))
    /\ WF_tunnelVars(TimePasses)
    /\ SF_tunnelVars(Arrives)
    /\ SF_tunnelVars(\E t \in Threads : InTime(t))

TunnelSpec == TunnelInit /\ [][TunnelNext]_tunnelVars /\ Fairness

-----------------------------------------------------------------------------
(* Properties                                                              *)

\* The types; and one thread at a time holds the mutex.
TunnelTypeOK ==
    /\ peer \in PeerState
    /\ phase \in {"Down", "Handshaking", "Up"}
    /\ open \in BOOLEAN /\ reused \in BOOLEAN /\ raced \in BOOLEAN
    /\ pumping \subseteq Threads /\ Cardinality(pumping) <= 1
    /\ sending \in [Threads -> [at : {"idle", "encapsulate", "sealing", "refused"},
                                packet : BOOLEAN, counter : 0 .. MaxCount]]
    /\ wire \subseteq Response
    /\ damaged \in 0 .. MaxDamaged /\ used \subseteq 0 .. MaxCount

\* Only two threads in wg::Peer at once can make a counter leave twice: renewals,
\* expiries, refused packets and keepalives never do it by themselves.
ReusedOnlyByRace == reused => raced

\* ready() is only true of a tunnel that agreed keys with the relay, however many
\* damaged, late or refused responses came first.
ReadyHasKeys == phase = "Up" => peer.keys # 0

\* The tunnel as the others see it: one thread in its mutex, and up only with keys.
TunnelInvariant == TunnelTypeOK /\ ReadyHasKeys

\* A tunnel that lost its keys gets others as long as the relay answers: no late or
\* damaged response, no send in progress and no expiry leaves it handshaking for ever.
ComesBack == phase = "Handshaking" ~> (phase = "Up" \/ ~ open)
=============================================================================
