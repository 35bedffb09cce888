------------------------------- MODULE Swarm -------------------------------
(***************************************************************************)
(* The peers of one torrent and its picker: who is connected, what each    *)
(* peer has, what it was asked for, through the callbacks of bt::Torrent,  *)
(* Torrent::tick() and the polls of bt::PeerConnection.                    *)
(*                                                                         *)
(* Every handler calls the operations of PiecePicker in the order of the   *)
(* code.  The engine is one thread; `phase` says where *)
(* it is in its turn.  A peer's own clock starts when a request is sent,   *)
(* the picker's when it is picked; both are kept as ages.                  *)
(***************************************************************************)
EXTENDS PiecePicker, Functions

CONSTANTS
    Peer,           \* addresses the torrent knows
    MaxInFlight,    \* kMaxRequestsInFlight
    Bitfields,      \* what a peer may announce on arrival
    Circumstances,  \* what may happen in one behaviour:
                    \*   "magnet" the metadata are not known at the start
                    \*   "send"   the kernel refuses a request, which closes the peer
                    \*   "again"  a peer repeats or replaces what it announced
                    \*   "lie"    a peer sends a false size or false pieces of metadata
                    \*   "resume" the resume file lists some pieces
    Resumed,        \* the pieces it lists
    Repeaters,      \* bound: who repeats or replaces what it announced
    Repeated,       \* bound: and of which pieces
    MaxTroubles,    \* bound: closes, chokes, wrong pieces, losses of the network
    MetaPieces, MetaSizes

VARIABLES
    conn,           \* PeerConnection::state_; "absent" outside peers_
    pieces,         \* what each peer announced (pending_bitfield_, then pieces_)
    choking,        \* the peers with peer_choking_
    requested,      \* requested_: the age of each request of each peer
    meta_complete,  \* meta_complete_
    size, got, spoiled, supports, asked,    \* Metadata
    phase,          \* where the engine is in its turn
    todo,           \* request_blocks() is still to be called for these peers
    asking,         \* the blocks just picked, not sent yet
    allowed,        \* what may happen in this behaviour
    troubles        \* bound: troubles so far

Meta == INSTANCE Metadata

ASSUME SwarmAssumption ==
    /\ IsFiniteSet(Peer) /\ 2 * Cardinality(Peer) < AvailMax   \* 60 and 0xffff
    /\ MaxInFlight \in Nat /\ MaxInFlight <= MaxPick /\ MaxTroubles \in Nat
    /\ Timeout > 0
    /\ Bitfields \subseteq SUBSET Piece /\ Repeaters \subseteq Peer /\ Repeated \subseteq Piece
    /\ Resumed \subseteq Piece
    /\ Circumstances \subseteq SUBSET {"magnet", "send", "again", "lie", "resume"}
    /\ \A C \in Circumstances : "magnet" \in C => "resume" \notin C
    /\ MetaPieces \in MetaSizes /\ MetaSizes \subseteq Nat \ {0}

peerVars == <<conn, pieces, choking, requested>>
turnVars == <<phase, todo, asking>>
metaVars == <<size, got, spoiled, supports, asked>>
vars == <<pickerVars, peerVars, meta_complete, metaVars, turnVars, allowed, troubles>>

Nothing == <<>>             \* no request, or nothing to send
Ready == {c \in Peer : conn[c] = "ready"}
Open == {c \in Peer : conn[c] \in {"connecting", "handshaking", "ready"}}
Listed == {c \in Peer : conn[c] # "absent"}
Outstanding(c) == DOMAIN requested[c]
With(c, R) == [x \in Outstanding(c) \cup R |-> IF x \in R THEN 0 ELSE requested[c][x]]
Without(c, R) == [x \in Outstanding(c) \ R |-> requested[c][x]]

Init ==
    /\ Meta!MetaInit
    /\ conn = [c \in Peer |-> "absent"]
    /\ pieces = [c \in Peer |-> {}]
    /\ choking = Peer
    /\ requested = [c \in Peer |-> Nothing]
    /\ allowed \in Circumstances
    /\ IF "resume" \in allowed
       THEN PickerWith(Resumed, MapThenSumSet(LAMBDA p : PieceSize[p], Resumed))
       ELSE PickerInit
    /\ meta_complete = ("magnet" \notin allowed)
    /\ phase = "start" /\ todo = {} /\ asking = Nothing
    /\ troubles = 0

Trouble == troubles < MaxTroubles /\ troubles' = troubles + 1

-----------------------------------------------------------------------------
(* Peers that go                                                           *)

\* Mutant of Closed: the blocks the peer was to serve are not given back
ClosedKeepingBlocks(c, R) ==
    /\ conn' = [conn EXCEPT ![c] = "closed"]
    /\ availability' = IF meta_complete THEN Uncounted(pieces[c]) ELSE availability
    /\ UNCHANGED <<have, bytes_done, pick_cursor, started, block, done, npending,
                   pending, age, handed>>

\* close() of a peer that was asked for R, and on_peer_closed()
Closed(c, R) ==
    /\ conn' = [conn EXCEPT ![c] = "closed"]
    /\ IF meta_complete
       THEN availability' = Uncounted(pieces[c]) /\ GiveBack(R)
       ELSE UNCHANGED pickerVars

Leaves(c) ==
    /\ c \in Open /\ Trouble
    /\ Closed(c, Outstanding(c))
    /\ UNCHANGED <<pieces, choking, requested, meta_complete, metaVars, allowed, turnVars>>

\* tick() finds that it takes too long to connect, to shake hands, or to say anything
TimesOut(c) == phase = "delays" /\ Leaves(c)

\* The other end leaves or says nonsense, a message cannot be sent, it chokes for too long
Close(c) == phase \in {"tick", "poll"} /\ Leaves(c)

Forgotten(C) ==
    /\ conn' = [c \in Peer |-> IF c \in C THEN "absent" ELSE conn[c]]
    /\ pieces' = [c \in Peer |-> IF c \in C THEN {} ELSE pieces[c]]
    /\ choking' = choking \cup C

\* How often drop_all_peers() takes p away: once per peer of peers_, closed ones too
DroppedCounts(p) == Cardinality({c \in Listed : p \in pieces[c]})

\* drop_all_peers(), by a pause, the queue, or a transport that is not ready
DropAllPeers ==
    /\ phase = "start" /\ Listed # {}
    /\ Trouble
    /\ IF meta_complete
       THEN /\ GiveBack(UNION {Outstanding(c) : c \in Listed})
            /\ availability' = [p \in Piece |->
                    IF availability[p] > DroppedCounts(p)
                    THEN availability[p] - DroppedCounts(p) ELSE 0]
       ELSE UNCHANGED pickerVars
    /\ Forgotten(Peer) /\ Meta!MetaForgets(Peer)
    /\ requested' = [c \in Peer |-> Nothing]
    /\ phase' = "poll"
    /\ UNCHANGED <<meta_complete, allowed, todo, asking>>

-----------------------------------------------------------------------------
(* tick()                                                                  *)

\* The requests that PeerConnection::tick() forgets
Unserved(c) == {x \in Outstanding(c) : requested[c][x] > Timeout}

\* Closed peers leave peers_
Tick ==
    /\ phase = "start" /\ phase' = "delays"
    /\ LET dead == {c \in Peer : conn[c] = "closed"}
       IN /\ Forgotten(dead) /\ Meta!MetaForgets(dead)
          /\ requested' = [c \in Peer |-> IF c \in dead THEN Nothing ELSE requested[c]]
    /\ UNCHANGED <<pickerVars, meta_complete, allowed, todo, asking, troubles>>

\* The others forget what they were not served
Purge ==
    /\ phase = "delays" /\ phase' = "tick"
    /\ requested' = [c \in Peer |-> IF c \in Open THEN Without(c, Unserved(c)) ELSE requested[c]]
    /\ UNCHANGED <<pickerVars, conn, pieces, choking, meta_complete, metaVars, allowed, todo,
                   asking, troubles>>

\* connect_more()
Connect(c) ==
    /\ phase = "tick" /\ conn[c] = "absent"
    /\ conn' = [conn EXCEPT ![c] = "connecting"]
    /\ UNCHANGED <<pickerVars, pieces, choking, requested, meta_complete, metaVars, allowed, turnVars, troubles>>

\* finish_piece(), for a verdict of the writer's thread
FinishPiece(p, ok) ==
    /\ phase = "tick" /\ meta_complete
    /\ IF ok THEN UNCHANGED troubles ELSE Trouble
    /\ OnPieceVerified(p, ok)
    /\ UNCHANGED <<peerVars, meta_complete, metaVars, allowed, turnVars>>

\* expire_requests(), then request_blocks() for every peer that is ready
BeginRequests ==
    /\ phase = "tick" /\ meta_complete
    /\ Release(Expired)
    /\ phase' = "request" /\ todo' = Ready
    /\ UNCHANGED <<peerVars, meta_complete, metaVars, allowed, asking, troubles>>

DriveMetadata ==
    /\ phase = "tick" /\ ~meta_complete
    /\ Meta!Asks(Ready)
    /\ phase' = "poll"
    /\ UNCHANGED <<pickerVars, peerVars, meta_complete, allowed, todo, asking, troubles>>

Wanted(c) == MaxInFlight - Cardinality(Outstanding(c))

\* request_blocks() up to the pick
RequestBlocks(c) ==
    /\ phase = "request" /\ c \in todo
    /\ todo' = todo \ {c}
    /\ IF have = Piece \/ c \in choking \/ Wanted(c) <= 0
       THEN UNCHANGED <<pickerVars, asking, phase>>
       ELSE \E R \in Picks(pieces[c], Wanted(c)) :
                /\ Pick(pieces[c], Wanted(c), R)
                /\ asking' = IF R = {} THEN Nothing ELSE <<c, R>>
                /\ phase' = IF R = {} THEN phase ELSE "send"
    /\ UNCHANGED <<peerVars, meta_complete, metaVars, allowed, troubles>>

\* send_request() for each of them
SendRequests ==
    /\ phase = "send" /\ phase' = "request"
    /\ requested' = [requested EXCEPT ![asking[1]] = With(asking[1], asking[2])]
    /\ asking' = Nothing
    /\ UNCHANGED <<pickerVars, conn, pieces, choking, meta_complete, metaVars, allowed, todo, troubles>>

\* One of them closes the peer: those sent so far, D, are given back, and the loop
\* goes on with the others
SendFails(D) ==
    /\ "send" \in allowed /\ Trouble
    /\ phase = "send" /\ phase' = "request"
    /\ LET c == asking[1]
       IN /\ D \subseteq asking[2] /\ D # {}
          /\ Closed(c, Outstanding(c) \cup D)
          /\ requested' = [requested EXCEPT ![c] = With(c, asking[2])]
    /\ asking' = Nothing
    /\ UNCHANGED <<pieces, choking, meta_complete, metaVars, allowed, todo>>

StartPoll ==
    /\ phase = "request" /\ todo = {}
    /\ phase' = "poll"
    /\ UNCHANGED <<pickerVars, peerVars, meta_complete, metaVars, allowed, todo, asking, troubles>>

-----------------------------------------------------------------------------
(* The poll: what peers say, in any order                                  *)

Says(c) == phase = "poll" /\ c \in Ready
Repeats(c, S) == "again" \in allowed /\ c \in Repeaters /\ S \subseteq Repeated

\* on_poll(): the socket is connected, our handshake leaves
Established(c) ==
    /\ phase = "poll" /\ conn[c] = "connecting"
    /\ conn' = [conn EXCEPT ![c] = "handshaking"]
    /\ UNCHANGED <<pickerVars, pieces, choking, requested, meta_complete, metaVars, allowed, turnVars, troubles>>

\* consume_handshake(): theirs arrives
Handshake(c) ==
    /\ phase = "poll" /\ conn[c] = "handshaking"
    /\ conn' = [conn EXCEPT ![c] = "ready"]
    /\ UNCHANGED <<pickerVars, pieces, choking, requested, meta_complete, metaVars, allowed, turnVars, troubles>>

BitfieldMessage(c, S) ==
    /\ Says(c)
    /\ pieces[c] = {} \/ Repeats(c, S)
    /\ pieces' = [pieces EXCEPT ![c] = S]
    /\ IF meta_complete THEN PeerAdded(S) ELSE UNCHANGED pickerVars
    /\ UNCHANGED <<conn, choking, requested, meta_complete, metaVars, allowed, turnVars, troubles>>

HaveMessage(c, p) ==
    /\ Says(c)
    /\ p \notin pieces[c] \/ Repeats(c, {p})
    /\ pieces' = [pieces EXCEPT ![c] = @ \cup {p}]
    /\ IF meta_complete THEN PeerHas(p) ELSE UNCHANGED pickerVars
    /\ UNCHANGED <<conn, choking, requested, meta_complete, metaVars, allowed, turnVars, troubles>>

Choke(c) ==
    /\ Says(c) /\ Trouble
    /\ choking' = choking \cup {c}
    /\ IF meta_complete THEN Release(Outstanding(c)) ELSE UNCHANGED pickerVars
    /\ requested' = [requested EXCEPT ![c] = Nothing]
    /\ UNCHANGED <<conn, pieces, meta_complete, metaVars, allowed, turnVars>>

Unchoke(c) ==
    /\ Says(c) /\ c \in choking
    /\ choking' = choking \ {c}
    /\ UNCHANGED <<pickerVars, conn, pieces, requested, meta_complete, metaVars, allowed, turnVars, troubles>>

\* Asked for or not, in time or not
PieceMessage(c, x) ==
    /\ Says(c)
    /\ requested' = [requested EXCEPT ![c] = Without(c, {x})]
    /\ IF meta_complete /\ x[1] \in started \ have
       THEN OnBlockReceived(x[1], x[2]) ELSE UNCHANGED pickerVars
    /\ UNCHANGED <<conn, pieces, choking, meta_complete, metaVars, allowed, turnVars, troubles>>

\* Mutant of Announced: the bitfields that came before the metadata are not counted
AnnouncedLater == {}

\* The peers whose early bitfield set_piece_count() announces: the closed ones too
Announced == Listed

\* handle_extended(): a peer gives the size of the metadata
ExtendedMessage(c, n) ==
    /\ Says(c) /\ ~meta_complete /\ c \notin supports
    /\ n # MetaPieces => "lie" \in allowed /\ Trouble
    /\ n = MetaPieces => UNCHANGED troubles
    /\ Meta!Hears(c, n)
    /\ UNCHANGED <<pickerVars, peerVars, meta_complete, allowed, turnVars>>

\* finish_metadata(), when the hash is right: the picker is new, and learns what was
\* announced before.  Nothing of the exchange is read any more.
Finished ==
    /\ meta_complete' = TRUE
    /\ availability' = [p \in Piece |-> Cardinality({c \in Announced : p \in pieces[c]})]
    /\ size' = 0 /\ got' = {} /\ spoiled' = FALSE
    /\ supports' = {} /\ asked' = [c \in Peer |-> {}]

\* on_peer_metadata_piece(), for a genuine piece that was asked for, or for anything else
MetadataMessage(c, i, good) ==
    /\ Says(c) /\ ~meta_complete
    /\ good => i \in asked[c] /\ i < MetaPieces /\ UNCHANGED troubles
    /\ ~good => "lie" \in allowed /\ Trouble
    /\ IF Meta!Whole(i) /\ Meta!Genuine(good) THEN Finished
       ELSE /\ UNCHANGED <<meta_complete, availability>>
            /\ \/ Meta!Whole(i) /\ Meta!Rejects(c, i)
               \/ ~Meta!Whole(i) /\ Meta!Receives(c, i, good)
               \/ size # MetaPieces /\ Meta!Ignores(c, i)
    /\ UNCHANGED <<have, bytes_done, pick_cursor, started, block, done, npending,
                   pending, age, handed, peerVars, turnVars, allowed>>

\* The turn is over; time may have passed
EndTurn(time) ==
    /\ phase = "poll" /\ phase' = "start"
    /\ age' = IF time THEN Older ELSE age
    /\ requested' = [c \in Peer |-> [x \in Outstanding(c) |->
                        IF time /\ requested[c][x] <= Timeout
                        THEN requested[c][x] + 1 ELSE requested[c][x]]]
    /\ UNCHANGED <<have, bytes_done, availability, pick_cursor, started, block, done,
                   npending, pending, handed, conn, pieces, choking, meta_complete, metaVars, allowed,
                   todo, asking, troubles>>

-----------------------------------------------------------------------------

EngineStep ==
    \/ Tick \/ Purge \/ DriveMetadata \/ BeginRequests \/ SendRequests \/ StartPoll
    \/ \E c \in Peer : RequestBlocks(c)
    \/ EndTurn(FALSE)

Next ==
    \/ EngineStep
    \/ EndTurn(TRUE)
    \/ DropAllPeers
    \/ \E D \in SUBSET Block : SendFails(D)
    \/ \E p \in Piece, ok \in BOOLEAN : FinishPiece(p, ok)
    \/ \E c \in Peer : \/ Connect(c) \/ Established(c) \/ Handshake(c)
                       \/ TimesOut(c) \/ Close(c)
                       \/ Choke(c) \/ Unchoke(c)
                       \/ \E n \in MetaSizes : ExtendedMessage(c, n)
                       \/ \E i \in Meta!Indices, good \in BOOLEAN : MetadataMessage(c, i, good)
                       \/ \E S \in Bitfields : BitfieldMessage(c, S)
                       \/ \E p \in Piece : HaveMessage(c, p)
                       \/ \E x \in Block : PieceMessage(c, x)

Spec == Init /\ [][Next]_vars

\* What brings a peer to serve us, what it then sends (requests not yet too old), and
\* the verdicts of the writer's thread
Arrives(c) ==
    \/ Connect(c) \/ Established(c) \/ Handshake(c) \/ Unchoke(c)
    \/ ExtendedMessage(c, MetaPieces)
    \/ \E S \in Bitfields : pieces[c] = {} /\ BitfieldMessage(c, S)
    \/ \E p \in Piece \ pieces[c] : HaveMessage(c, p)
Serves(c) ==
    \/ \E x \in Outstanding(c) : requested[c][x] <= Timeout /\ PieceMessage(c, x)
    \/ \E i \in asked[c] \ got : MetadataMessage(c, i, TRUE)
Outside ==
    \/ \E c \in Peer : Arrives(c) \/ Serves(c)
    \/ \E p \in Piece : FinishPiece(p, TRUE)

\* The engine turns, time passes, and something of what may come from outside comes:
\* none of it may come for ever without ending, so no order is asked of it.
FairSpec ==
    /\ Spec
    /\ WF_vars(EngineStep) /\ SF_vars(EndTurn(TRUE))
    /\ SF_vars(Outside)

-----------------------------------------------------------------------------
(* Properties                                                              *)

\* The requests of a peer: some blocks, each with the age of its request
Requests == UNION {[R -> 0 .. Timeout + 1] : R \in SUBSET Block}

TypeOK ==
    /\ PickerTypeOK /\ Meta!MetaTypeOK
    /\ conn \in [Peer -> {"absent", "connecting", "handshaking", "ready", "closed"}]
    /\ pieces \in [Peer -> SUBSET Piece]
    /\ choking \subseteq Peer
    /\ requested \in [Peer -> Requests]
    /\ meta_complete \in BOOLEAN /\ allowed \in Circumstances
    /\ phase \in {"start", "delays", "tick", "request", "send", "poll"}
    /\ todo \subseteq Peer

\* The requests of a turn go to peers that are there: todo and the picks are not
\* looked at again before they are used.
TurnIsOrdered ==
    /\ phase \in {"request", "send"} => meta_complete /\ todo \subseteq Ready
    /\ phase = "send" => asking \in (Ready \ todo) \X (SUBSET Block)
    /\ phase # "send" => asking = Nothing

\* Before the metadata, which only a magnet lacks, nothing is reserved; before its
\* handshake a peer has announced nothing.
NothingTooEarly ==
    /\ ~meta_complete => "magnet" \in allowed /\ pending = {}
    /\ \A c \in Peer : conn[c] \notin {"ready", "closed"} => pieces[c] = {}

Having(p) == {c \in Ready : p \in pieces[c]}

\* A piece is counted at least once for each peer that has it: on_bitfield() and
\* on_have() may count a peer twice, on_peer_closed() takes each away once.
CountedForEach == meta_complete => \A p \in Piece : Cardinality(Having(p)) <= availability[p]

\* A counter is too high only by the peers that had gone when the metadata came, as long
\* as nobody repeats what it announced.
CountIsBounded ==
    meta_complete /\ "again" \notin allowed =>
        \A p \in Piece : availability[p] <= Cardinality(Having(p)) + Cardinality(Peer)

\* pick() skips a piece that no peer is counted for, and one whose counter is saturated: a
\* piece that a connected peer announced is always counted, whatever peers repeat, close
\* or lose in between, and its counter saturates only where a peer repeats itself.
NoPieceOverlooked ==
    meta_complete => \A c \in Ready : \A p \in pieces[c] :
        /\ availability[p] > 0
        /\ "again" \notin allowed => availability[p] < AvailMax

\* "réservés 45 secondes à un pair qui n'existe plus": a reserved block is in flight at
\* a connected peer, which may still serve it; those of a peer that is closed go back
\* to the common pot at once.  A send that closes its peer breaks it.
NoneHeldByTheGone ==
    \A x \in pending :
        \/ \E c \in Ready : x \in Outstanding(c)
        \/ phase = "send" /\ x \in asking[2]

\* Short of that, a block is never reserved to nobody, whatever peers do and in
\* whatever order their requests are forgotten on both sides.
HeldBySomeone == "send" \notin allowed => NoneHeldByTheGone

\* ... because the clock of the peer that serves a block is never ahead of the picker's,
\* and what is reserved for too long was expired before its peer forgets it.
ClocksAgree ==
    "send" \notin allowed =>
        /\ \A x \in pending :
              \/ \E c \in Ready : x \in Outstanding(c) /\ requested[c][x] <= age[x]
              \/ phase = "send" /\ x \in asking[2]
        /\ phase \in {"request", "send", "poll"} => \A x \in pending : age[x] < Timeout

\* "on réclame en priorité ce que peu de pairs possèdent": the counter of a piece
\* is the number of connected peers that have it, as long as no peer announced anything
\* before the metadata were known, nor repeats itself.
AvailabilityIsCount ==
    allowed \cap {"magnet", "again"} = {} => \A p \in Piece :
        availability[p] = Cardinality(Having(p))

\* A false size that stays, or a rejection after every peer gave its size
Misled ==
    /\ "lie" \in allowed /\ ~meta_complete
    /\ size \notin {0, MetaPieces} \/ (size = 0 /\ supports = Peer)

\* Announced so often that pick() no longer chooses it
Hidden == "again" \in allowed /\ \E p \in Piece \ have : availability[p] = AvailMax

\* The download ends, from the magnet link to the last piece: no reservation, no request in
\* flight, no counter and no piece of the metadata is left in a state that stops the
\* engine from asking for what it lacks.  A lie about the metadata may stop it, and so
\* may a counter that a peer saturates by repeating itself; nothing else does.
Completes == <>(have = Piece \/ Misled \/ Hidden)

\* Both sides of the requests, what availability counts, the picker's own invariant and
\* the progress shown.
SwarmInvariant ==
    /\ TypeOK /\ IInv /\ BytesMatch
    /\ TurnIsOrdered /\ NothingTooEarly
    /\ CountedForEach /\ AvailabilityIsCount /\ CountIsBounded
    /\ HeldBySomeone /\ ClocksAgree

=============================================================================
