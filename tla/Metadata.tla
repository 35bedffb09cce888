------------------------------ MODULE Metadata ------------------------------
(***************************************************************************)
(* What a torrent added by a magnet link knows of its metadata: the size   *)
(* that the first peer to speak gave it, and the pieces received since.    *)
(* Sizes are counted in pieces of kMetadataPieceSize.  Composed by Swarm.  *)
(***************************************************************************)
EXTENDS Integers

CONSTANTS
    Peer,
    MetaPieces,     \* pieces of the metadata with the torrent's info hash
    MetaSizes       \* sizes that a peer may announce

VARIABLES
    size,           \* metadata_size_; 0 for unknown
    got,            \* metadata_have_
    spoiled,        \* metadata_buf_ holds something else than the genuine piece
    supports,       \* the peers with a ut_metadata_id_
    asked           \* what each peer was asked and has not sent

metaVars == <<size, got, spoiled, supports, asked>>

Index(n) == 0 .. n - 1
Indices == UNION {Index(n) : n \in MetaSizes}

MetaInit ==
    /\ size = 0 /\ got = {} /\ spoiled = FALSE
    /\ supports = {} /\ asked = [c \in Peer |-> {}]

\* Peers leave peers_
MetaForgets(C) ==
    /\ supports' = supports \ C
    /\ asked' = [c \in Peer |-> IF c \in C THEN {} ELSE asked[c]]
    /\ UNCHANGED <<size, got, spoiled>>

\* handle_extended() and on_peer_metadata_size(): the first size is the one
Hears(c, n) ==
    /\ supports' = supports \cup {c}
    /\ size' = IF size = 0 THEN n ELSE size
    /\ UNCHANGED <<got, spoiled, asked>>

\* request_metadata_piece(), for each of those that are missing
Asked(c) == [asked EXCEPT ![c] = Index(size) \ got]

\* drive_metadata(): one ready peer that supports it is asked for all that is missing.
\* In the code it is the first of peers_, every kMetadataRetryMs; here any, every turn.
Asks(ready) ==
    IF size = 0 \/ ready \cap supports = {} THEN UNCHANGED metaVars
    ELSE \E c \in ready \cap supports :
            /\ asked' = Asked(c)
            /\ UNCHANGED <<size, got, spoiled, supports>>

Wants(i) == i \in Index(size) \ got

\* on_peer_metadata_piece(): the piece that c sends completes them
Whole(i) == Wants(i) /\ got \cup {i} = Index(size)
Genuine(good) == size = MetaPieces /\ good /\ ~ spoiled

\* It is kept, or of no use
Receives(c, i, good) ==
    /\ asked' = [asked EXCEPT ![c] = @ \ {i}]
    /\ IF Wants(i)
       THEN got' = got \cup {i} /\ spoiled' = (spoiled \/ ~ good)
       ELSE UNCHANGED <<got, spoiled>>
    /\ UNCHANGED <<size, supports>>

\* It is too long for the size announced
Ignores(c, i) ==
    /\ asked' = [asked EXCEPT ![c] = @ \ {i}]
    /\ UNCHANGED <<size, got, spoiled, supports>>

\* finish_metadata(), when their hash is not that of the torrent: all is forgotten, and a
\* peer that gave its size before does not give it again
Rejects(c, i) ==
    /\ size' = 0 /\ got' = {} /\ spoiled' = FALSE
    /\ asked' = [asked EXCEPT ![c] = @ \ {i}]
    /\ UNCHANGED supports

MetaTypeOK ==
    /\ size \in MetaSizes \cup {0} /\ got \subseteq Index(size) /\ spoiled \in BOOLEAN
    /\ supports \subseteq Peer /\ asked \in [Peer -> SUBSET Indices]
=============================================================================
