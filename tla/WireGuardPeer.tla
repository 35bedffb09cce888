--------------------------- MODULE WireGuardPeer ----------------------------
(***************************************************************************)
(* wg::Peer, the initiator's side of a WireGuard session: the handshake,   *)
(* the timers that renew its keys, the counter of what it sends and the    *)
(* replay window over what it receives.  The methods are operators on the  *)
(* record of the object's members; WireGuard calls them in any order over  *)
(* a bad network, Tunnel in the order of its threads.                      *)
(*                                                                         *)
(* The exchange of keys is abstracted to its outcome.  Each initiation     *)
(* draws a fresh index and a fresh ephemeral key and is numbered; the keys *)
(* of a session bear the number of the initiation they were agreed in, and *)
(* a message is authentic when it was made with those keys.  remote_index_ *)
(* is left out: what is sent is told apart by its keys, what is received   *)
(* does not depend on it (a response sets it before it is authenticated).  *)
(*                                                                         *)
(* Instants are kept as ages, saturating at the delay they are compared    *)
(* with.                                                                   *)
(***************************************************************************)
EXTENDS Integers

CONSTANTS
    Window,         \* 64: the width of recv_window_
    RekeyAfter,     \* kRekeyAfterMs, in ticks
    RejectAfter,    \* kRejectAfterMs
    KeepaliveAfter, \* kKeepaliveMs
    RekeyTimeout,   \* kRekeyTimeoutMs
    MaxKeys,        \* bound: initiations
    MaxCount        \* bound: messages of each side under the same keys

VARIABLE
    peer            \* the members of the object: peer_ of the tunnel

ASSUME WireGuardAssumption ==
    /\ Window \in Nat \ {0}
    /\ {RekeyAfter, RejectAfter, KeepaliveAfter, RekeyTimeout, MaxKeys, MaxCount} \subseteq Nat

Keys == 1 .. MaxKeys
Data == [type : {"data"}, keys : Keys, counter : 0 .. MaxCount]
Response == [type : {"response"}, to : Keys, genuine : BOOLEAN]

PeerState == [
    established : BOOLEAN,
    inProgress  : BOOLEAN,                      \* handshake_in_progress_
    local       : Keys \cup {0},                \* local_index_, the ephemeral key
    secrets     : {"none", "fresh", "spoilt"},  \* chaining_key_, hash_
    keys        : Keys \cup {0},                \* send_key_, recv_key_
    counter     : Nat,                          \* send_counter_
    recv        : BOOLEAN,                      \* have_recv_
    highest     : Nat,                          \* recv_highest_
    window      : SUBSET (0 .. Window - 1),     \* the bits set in recv_window_
    keyAge      : 0 .. RejectAfter,             \* now - established_at_ms_
    sendAge     : 0 .. KeepaliveAfter,          \* now - last_send_ms_
    tryAge      : 0 .. RekeyTimeout]            \* now - last_handshake_attempt_ms_

-----------------------------------------------------------------------------
(* The methods                                                             *)

\* configure(): a zero last_handshake_attempt_ms_ counts as long ago
Configured == [
    established |-> FALSE, inProgress |-> FALSE, local |-> 0, secrets |-> "none",
    keys |-> 0, counter |-> 0, recv |-> FALSE, highest |-> 0, window |-> {},
    keyAge |-> 0, sendAge |-> 0, tryAge |-> RekeyTimeout]

\* make_initiation(), the i-th
MakeInitiation(p, i) ==
    [p EXCEPT !.inProgress = TRUE, !.local = i, !.secrets = "fresh", !.tryAge = 0]

\* Mutant of TransportKeys: the window of the replaced keys is kept
TransportKeysKeepWindow(p) == [p EXCEPT !.keys = p.local, !.counter = 0, !.secrets = "none"]

\* derive_transport_keys()
TransportKeys(p) ==
    [p EXCEPT !.keys = p.local, !.counter = 0, !.recv = FALSE, !.highest = 0,
              !.window = {}, !.secrets = "none"]

\* Is m taken for the response to the current initiation?
Answers(p, m) == p.inProgress /\ m.to = p.local

\* consume_response(): one that fails half way has already changed the chain of
\* secrets, which the genuine response can no longer continue
ConsumeResponse(p, m) ==
    IF ~ Answers(p, m) THEN p
    ELSE IF ~ m.genuine \/ p.secrets # "fresh" THEN [p EXCEPT !.secrets = "spoilt"]
    ELSE [TransportKeys(p) EXCEPT !.established = TRUE, !.inProgress = FALSE,
                                  !.keyAge = 0, !.sendAge = 0]

\* Mutant of NeedsHandshake: an initiation without an answer is not sent again
NeedsHandshakeOnce(p) == IF p.established THEN p.keyAge >= RekeyAfter ELSE ~ p.inProgress

NeedsHandshake(p) ==
    IF p.established THEN p.keyAge >= RekeyAfter ELSE p.tryAge >= RekeyTimeout

NeedsKeepalive(p) == p.established /\ p.sendAge >= KeepaliveAfter

\* encapsulate(): may a packet leave, the message it becomes, and the state after
MaySend(p) == p.established /\ p.keyAge < RejectAfter
Message(p) == [type |-> "data", keys |-> p.keys, counter |-> p.counter]

\* Mutant of Encapsulate: the counter stays
EncapsulateSame(p) ==
    IF MaySend(p) THEN [p EXCEPT !.sendAge = 0] ELSE [p EXCEPT !.established = FALSE]

Encapsulate(p) ==
    IF MaySend(p) THEN [p EXCEPT !.counter = @ + 1, !.sendAge = 0]
    ELSE [p EXCEPT !.established = FALSE]

TooOld(p, m) == p.recv /\ m.counter + Window <= p.highest

\* Mutant of Replayed: the highest message itself is not looked up
ReplayedBelow(p, m) ==
    p.recv /\ m.counter < p.highest /\ (p.highest - m.counter) \in p.window

Replayed(p, m) ==
    p.recv /\ m.counter <= p.highest /\ (p.highest - m.counter) \in p.window

\* decapsulate() returns a packet
Accepts(p, m) ==
    /\ p.established /\ ~ TooOld(p, m) /\ ~ Replayed(p, m)
    /\ m.keys = p.keys      \* chacha20poly1305_decrypt()

\* recv_window_ once moved to a higher counter: the bits shifted out are lost
Shifted(p, by) == {0} \cup ({s + by : s \in p.window} \cap (0 .. Window - 1))

\* The rest of decapsulate(): the window is only told of authentic messages
Decapsulate(p, m) ==
    IF ~ p.recv THEN [p EXCEPT !.recv = TRUE, !.highest = m.counter, !.window = {0}]
    ELSE IF m.counter > p.highest
         THEN [p EXCEPT !.highest = m.counter,
                        !.window = Shifted(p, m.counter - p.highest)]
         ELSE [p EXCEPT !.window = @ \cup {p.highest - m.counter}]

\* Time spent: every age grows, up to the delay it is compared with
Older(p) ==
    [p EXCEPT !.keyAge = IF @ < RejectAfter THEN @ + 1 ELSE @,
              !.sendAge = IF @ < KeepaliveAfter THEN @ + 1 ELSE @,
              !.tryAge = IF @ < RekeyTimeout THEN @ + 1 ELSE @]
=============================================================================
