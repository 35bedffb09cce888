----------------------------- MODULE WireGuard -----------------------------
(***************************************************************************)
(* A WireGuard session whose methods are called in any order, over a       *)
(* network that may lose a message, deliver it twice, late or out of       *)
(* order, and damage it.                                                   *)
(***************************************************************************)
EXTENDS WireGuardPeer

VARIABLES
    relay,          \* external: the next counter of the relay, under each keys
    network,        \* what the relay sent, any of it still to arrive, or again
    sent,           \* how many messages left with each keys and counter
    delivered       \* how many times each message was passed to the IP stack

sessionVars == <<peer, relay, network, sent, delivered>>

-----------------------------------------------------------------------------
(* The session, whoever calls it                                           *)

SessionInit ==
    /\ peer = Configured
    /\ relay = [k \in Keys |-> 0]
    /\ network = {}
    /\ sent = [m \in Data |-> 0]
    /\ delivered = [m \in Data |-> 0]

Initiate ==
    /\ peer.local < MaxKeys
    /\ peer' = MakeInitiation(peer, peer.local + 1)
    /\ UNCHANGED <<relay, network, sent, delivered>>

\* External: the relay answers an initiation; the answer may be damaged
RelayResponds(k, genuine) ==
    /\ k <= peer.local
    /\ network' = network \cup {[type |-> "response", to |-> k, genuine |-> genuine]}
    /\ UNCHANGED <<peer, relay, sent, delivered>>

\* External: the relay sends a packet under keys it has agreed to
RelaySends(k) ==
    /\ [type |-> "response", to |-> k, genuine |-> TRUE] \in network
    /\ relay[k] <= MaxCount
    /\ network' = network \cup {[type |-> "data", keys |-> k, counter |-> relay[k]]}
    /\ relay' = [relay EXCEPT ![k] = @ + 1]
    /\ UNCHANGED <<peer, sent, delivered>>

ReceiveResponse(m) ==
    /\ m \in network /\ m.type = "response"
    /\ peer' = ConsumeResponse(peer, m)
    /\ UNCHANGED <<relay, network, sent, delivered>>

ReceiveData(m) ==
    /\ m \in network /\ m.type = "data"
    /\ Accepts(peer, m)
    /\ peer' = Decapsulate(peer, m)
    /\ delivered' = [delivered EXCEPT ![m] = @ + 1]
    /\ UNCHANGED <<relay, network, sent>>

Send ==
    /\ peer.counter <= MaxCount
    /\ peer' = Encapsulate(peer)
    /\ sent' = IF MaySend(peer) THEN [sent EXCEPT ![Message(peer)] = @ + 1] ELSE sent
    /\ UNCHANGED <<relay, network, delivered>>

SessionAges ==
    /\ peer' = Older(peer)
    /\ UNCHANGED <<relay, network, sent, delivered>>

SessionNext ==
    \/ Initiate
    \/ \E k \in Keys, genuine \in BOOLEAN : RelayResponds(k, genuine)
    \/ \E k \in Keys : RelaySends(k)
    \/ \E m \in network : ReceiveResponse(m)
    \/ \E m \in network : ReceiveData(m)
    \/ Send
    \/ SessionAges

SessionSpec == SessionInit /\ [][SessionNext]_sessionVars

-----------------------------------------------------------------------------
(* Properties                                                              *)

SessionTypeOK ==
    /\ peer \in PeerState
    /\ relay \in [Keys -> Nat]
    /\ network \subseteq Data \cup Response
    /\ sent \in [Data -> Nat]
    /\ delivered \in [Data -> Nat]

\* recv_window_ is exactly what was delivered lately under the keys in use: bit s
\* stands for the message s behind the highest, across shifts, gaps and renewals.
\* A bit too many refuses a packet nobody saw, one too few lets a repeat through.
WindowIsMemory ==
    /\ \A m \in Data : m.keys = peer.keys /\ delivered[m] > 0 =>
          /\ peer.recv /\ m.counter <= peer.highest
          /\ m.counter + Window > peer.highest => (peer.highest - m.counter) \in peer.window
    /\ \A s \in peer.window :
          /\ peer.recv
          /\ \E m \in Data : /\ m.keys = peer.keys /\ delivered[m] > 0
                             /\ m.counter = peer.highest - s

\* However the network repeats and reorders, a packet reaches the IP stack once:
\* also when its keys were replaced meanwhile, or a late response to an older
\* initiation arrives after the newer one's.
DeliveredOnce == \A m \in Data : delivered[m] <= 1

\* No two packets leave with the same keys and counter, which the cipher takes for
\* its nonce: a renewal that resets the counter must have changed the keys.
SentOnce == \A m \in Data : sent[m] <= 1

\* Keys are only ever replaced by those of a later initiation, and none is used
\* before it was agreed: with the properties above, an inductive invariant.
KeysAreAgreed ==
    /\ peer.keys <= peer.local
    /\ peer.inProgress /\ peer.secrets = "fresh" => peer.keys < peer.local
    /\ peer.established => peer.keys \in Keys
    /\ \A m \in Data : sent[m] > 0 \/ delivered[m] > 0 =>
          m.keys <= peer.keys
    /\ \A m \in Data : m.keys = peer.keys /\ sent[m] > 0 => m.counter < peer.counter

IInv == SessionTypeOK /\ KeysAreAgreed /\ WindowIsMemory /\ DeliveredOnce /\ SentOnce
=============================================================================
