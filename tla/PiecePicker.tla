----------------------------- MODULE PiecePicker -----------------------------
(***************************************************************************)
(* bt::PiecePicker: which blocks to ask of which peer, and what is known   *)
(* of every block: free, asked for, or received.  One action per method.   *)
(*                                                                         *)
(* The picker trusts its callers with nothing but the verdicts: any block  *)
(* may be received or dropped at any time (peers answer late, twice, or    *)
(* unasked), while a piece is judged only after on_block_received          *)
(* announced it complete.                                                  *)
(*                                                                         *)
(* Time: pending_ keeps the instant of each request and only compares its  *)
(* age with the timeout, so an age saturating at Timeout is kept instead.  *)
(***************************************************************************)
EXTENDS Integers, FiniteSets, FiniteSetsExt

CONSTANTS
    NumPieces,      \* meta_.piece_count()
    PieceSize,      \* meta_.size_of_piece, in units the block size is given in
    BlockSize,      \* kBlockSize
    AvailMax,       \* 0xffff, where availability_ saturates
    RarestSample,   \* kRarestSample
    EndgameFactor,  \* 50 in endgame(): "less than 2 % left"
    MaxPick,        \* the largest `max` a caller passes to pick()
    Timeout         \* timeout_ms of expire_requests(), in ticks

Piece == 0 .. NumPieces - 1
NumBlocks(p) == (PieceSize[p] + BlockSize - 1) \div BlockSize
BlocksIn(p) == 0 .. NumBlocks(p) - 1
Block == UNION {{p} \X BlocksIn(p) : p \in Piece}

ASSUME PickerAssumption ==
    /\ NumPieces \in Nat
    /\ BlockSize \in Nat \ {0}
    /\ PieceSize \in [Piece -> Nat \ {0}]
    /\ \A p \in Piece : NumBlocks(p) \in Nat \ {0}
    /\ {AvailMax, RarestSample, EndgameFactor, MaxPick, Timeout} \subseteq Nat

VARIABLES
    have,           \* have_: pieces verified and kept
    bytes_done,     \* bytes_done_
    availability,   \* availability_: how many peers announced each piece
    pick_cursor,    \* pick_cursor_
    started,        \* the keys of progress_
    block,          \* PieceProgress::blocks ("Free" outside progress_)
    done,           \* PieceProgress::done
    npending,       \* PieceProgress::pending
    pending,        \* the keys of pending_
    age,            \* now - pending_[key], saturating at Timeout
    handed          \* caller: pieces announced complete, verdict not yet given

stateVars == <<have, bytes_done, pick_cursor, started, block, done, npending,
               pending, age, handed>>
pickerVars == <<have, bytes_done, availability, pick_cursor, started, block, done,
          npending, pending, age, handed>>

BlockState == {"Free", "Pending", "Done"}

-----------------------------------------------------------------------------

\* init(), then set_have() of the pieces S, of that many bytes
PickerWith(S, bytes) ==
    /\ have = S /\ bytes_done = bytes
    /\ availability = [p \in Piece |-> 0]
    /\ pick_cursor = 0
    /\ started = {}
    /\ block = [x \in Block |-> "Free"]
    /\ done = [p \in Piece |-> 0]
    /\ npending = [p \in Piece |-> 0]
    /\ pending = {}
    /\ age = [x \in Block |-> 0]
    /\ handed = {}

PickerInit == PickerWith({}, 0)

\* progress_.erase(p), or filling p's blocks with Free
ForgetProgress(p) ==
    /\ block' = [x \in Block |-> IF x[1] = p THEN "Free" ELSE block[x]]
    /\ done' = [done EXCEPT ![p] = 0]
    /\ npending' = [npending EXCEPT ![p] = 0]

SetHave(p) ==
    IF p \in have
    THEN UNCHANGED <<have, bytes_done, started, block, done, npending>>
    ELSE /\ have' = have \cup {p}
         /\ bytes_done' = bytes_done + PieceSize[p]
         /\ started' = started \ {p}
         /\ ForgetProgress(p)

\* Reload of the resume file or of a scan: only before the first pick
Restore(p) ==
    /\ started = {}
    /\ SetHave(p)
    /\ UNCHANGED <<availability, pick_cursor, pending, age, handed>>

PeerAdded(S) ==
    /\ availability' = [p \in Piece |->
            IF p \in S /\ availability[p] < AvailMax
            THEN availability[p] + 1 ELSE availability[p]]
    /\ UNCHANGED stateVars

\* The counters once a peer that had the pieces S is gone
Uncounted(S) == [p \in Piece |->
    IF p \in S /\ availability[p] > 0 THEN availability[p] - 1 ELSE availability[p]]

PeerRemoved(S) == availability' = Uncounted(S) /\ UNCHANGED stateVars

PeerHas(p) == PeerAdded({p})

-----------------------------------------------------------------------------
(* pick().  Its blocks come from a queue of pieces: those already started, *)
(* in the arbitrary order of a hash map, then the new ones, rarest first.  *)
(* Each piece gives its blocks in order, until max blocks are taken.       *)

Endgame == NumPieces > 0 /\ (NumPieces - Cardinality(have)) * EndgameFactor < NumPieces

\* Mutant of Takeable: reserved blocks are taken again, endgame or not
TakeableTwice(p) == {b \in BlocksIn(p) : block[<<p, b>>] # "Done"}

\* The blocks of p that pick() may ask for
Takeable(p) == {b \in BlocksIn(p) : \/ block[<<p, b>>] = "Free"
                                    \/ Endgame /\ block[<<p, b>>] = "Pending"}

StartedFor(S) == {p \in (started \cap S) \ have :
                    done[p] + npending[p] < NumBlocks(p) \/ Endgame}

Candidates(S) == {p \in (Piece \cap S) \ (have \cup started) : availability[p] > 0}

\* How far p is from the cursor
Distance(cursor, p) == (p - cursor + NumPieces) % NumPieces

\* The first RarestSample of the candidates C met from the cursor on
Sample(cursor, C) ==
    {p \in C : Cardinality({q \in C : Distance(cursor, q) < Distance(cursor, p)}) < RarestSample}

\* Mutant of Choosable: best_avail starts at the half of what the counter holds
ChoosableBelowHalf(cursor, C) == {p \in Sample(cursor, C) : availability[p] < AvailMax \div 2}

\* Those that are rarer than best_avail at the start of the loop, 0xffff: a piece whose
\* counter saturated takes its place in the sample and is never chosen
Choosable(cursor, C) == {p \in Sample(cursor, C) : availability[p] < AvailMax}

\* The rarest of them, the first met when several are
Rarest(cursor, C) ==
    CHOOSE p \in Choosable(cursor, C) : \A q \in Choosable(cursor, C) :
        \/ availability[p] < availability[q]
        \/ availability[p] = availability[q] /\ Distance(cursor, p) <= Distance(cursor, q)

Orders(S) == {f \in [1 .. Cardinality(S) -> S] : \A i, j \in DOMAIN f : f[i] = f[j] => i = j}

NextCursor(p) == (p + 1) % NumPieces

\* The new pieces a peer that has S may be asked for, in the order of the loop: the rarest
\* of what is left each time, until none can be chosen
Openings(S) ==
    {f \in UNION {Orders(T) : T \in SUBSET Candidates(S)} :
        LET cursor(i) == IF i = 1 THEN pick_cursor ELSE NextCursor(f[i - 1])
            left(i) == Candidates(S) \ {f[j] : j \in 1 .. i - 1}
            last == Cardinality(DOMAIN f) + 1
        IN /\ \A i \in DOMAIN f : /\ Choosable(cursor(i), left(i)) # {}
                                  /\ f[i] = Rarest(cursor(i), left(i))
           /\ Choosable(cursor(last), left(last)) = {}}

\* The blocks taken when `old`, then `new`, are served in these orders
Picked(old, new, max) ==
    LET rank(p) == IF \E i \in DOMAIN old : old[i] = p
                   THEN CHOOSE i \in DOMAIN old : old[i] = p
                   ELSE Cardinality(DOMAIN old) + CHOOSE i \in DOMAIN new : new[i] = p
        queued == {x \in Block : /\ x[2] \in Takeable(x[1])
                                 /\ \/ \E i \in DOMAIN old : old[i] = x[1]
                                    \/ \E i \in DOMAIN new : new[i] = x[1]}
        ahead(x) == {y \in queued : \/ rank(y[1]) < rank(x[1])
                                    \/ y[1] = x[1] /\ y[2] < x[2]}
    IN {x \in queued : Cardinality(ahead(x)) < max}

\* Pending blocks of R keep their state and have their clock restarted
Reserve(R) ==
    LET fresh(p) == {b \in BlocksIn(p) : <<p, b>> \in R /\ block[<<p, b>>] = "Free"}
    IN /\ block' = [x \in Block |-> IF x \in R THEN "Pending" ELSE block[x]]
       /\ npending' = [p \in Piece |-> npending[p] + Cardinality(fresh(p))]
       /\ started' = started \cup {x[1] : x \in R}
       /\ pending' = pending \cup R
       /\ age' = [x \in Block |-> IF x \in R THEN 0 ELSE age[x]]
       /\ UNCHANGED <<have, bytes_done, availability, done, handed>>

\* The results pick(S, out, max) may have: one per order of the hash map
Picks(S, max) == {Picked(old, new, max) :
                    old \in Orders(StartedFor(S)),
                    new \in Openings(S)}

\* pick(S, out, max) when it returns the blocks R
Pick(S, max, R) ==
    \E new \in Openings(S) :
        LET opened == {i \in DOMAIN new : \E x \in R : x[1] = new[i]}
        IN /\ \/ opened = {} /\ pick_cursor' = pick_cursor
              \/ \E i \in opened : /\ \A j \in opened : j <= i
                                   /\ pick_cursor' = NextCursor(new[i])
           /\ Reserve(R)

-----------------------------------------------------------------------------

\* Does on_block_received(p, b) return true?
CompletesPiece(p, b) ==
    /\ p \in started \ have
    /\ block[<<p, b>>] # "Done"
    /\ done[p] + 1 = NumBlocks(p)

OnBlockReceived(p, b) ==
    /\ p \in started \ have
    /\ pending' = pending \ {<<p, b>>}
    /\ age' = [age EXCEPT ![<<p, b>>] = 0]
    /\ IF block[<<p, b>>] = "Done"
       THEN UNCHANGED <<block, done, npending>>
       ELSE /\ block' = [block EXCEPT ![<<p, b>>] = "Done"]
            /\ done' = [done EXCEPT ![p] = @ + 1]
            /\ npending' = IF block[<<p, b>>] = "Pending" /\ npending[p] > 0
                           THEN [npending EXCEPT ![p] = @ - 1] ELSE npending
    /\ handed' = IF CompletesPiece(p, b) THEN handed \cup {p} ELSE handed
    /\ UNCHANGED <<have, bytes_done, availability, pick_cursor, started>>

\* Mutant of Freed: the state of the block is not looked at
FreedUnchecked(R, p) == {b \in BlocksIn(p) : <<p, b>> \in R /\ p \in started}

\* The blocks of p that become free when the requests R are given up
Freed(R, p) ==
    {b \in BlocksIn(p) : <<p, b>> \in R /\ p \in started /\ block[<<p, b>>] = "Pending"}

\* on_request_dropped for each of the requests R
GiveBack(R) ==
    /\ pending' = pending \ R
    /\ age' = [x \in Block |-> IF x \in R THEN 0 ELSE age[x]]
    /\ block' = [x \in Block |-> IF x[2] \in Freed(R, x[1]) THEN "Free" ELSE block[x]]
    /\ npending' = [p \in Piece |->
                     IF Cardinality(Freed(R, p)) <= npending[p]
                     THEN npending[p] - Cardinality(Freed(R, p)) ELSE 0]
    /\ UNCHANGED <<have, bytes_done, pick_cursor, started, done, handed>>

Release(R) == GiveBack(R) /\ UNCHANGED availability

OnRequestDropped(p, b) == Release({<<p, b>>})

OnPieceVerified(p, ok) ==
    /\ p \in handed
    /\ handed' = handed \ {p}
    /\ IF ok
       THEN /\ SetHave(p)
            /\ UNCHANGED <<pending, age>>
       ELSE /\ IF p \in started THEN ForgetProgress(p) ELSE UNCHANGED <<block, done, npending>>
            /\ pending' = {x \in pending : x[1] # p}
            /\ age' = [x \in Block |-> IF x[1] = p THEN 0 ELSE age[x]]
            /\ UNCHANGED <<have, bytes_done, started>>
    /\ UNCHANGED <<availability, pick_cursor>>

Expired == {x \in pending : age[x] >= Timeout}

ExpireRequests == Expired # {} /\ Release(Expired)

Older == [x \in Block |-> IF x \in pending /\ age[x] < Timeout THEN age[x] + 1 ELSE age[x]]

TimePasses ==
    /\ \E x \in pending : age[x] < Timeout
    /\ age' = Older
    /\ UNCHANGED <<have, bytes_done, availability, pick_cursor, started, block,
                   done, npending, pending, handed>>

-----------------------------------------------------------------------------

PickerNext ==
    \/ \E p \in Piece : Restore(p)
    \/ \E S \in SUBSET Piece : PeerAdded(S)
    \/ \E S \in SUBSET Piece : PeerRemoved(S)
    \/ \E p \in Piece : PeerHas(p)
    \/ \E S \in SUBSET Piece, max \in 1 .. MaxPick : \E R \in Picks(S, max) \ {{}} : Pick(S, max, R)
    \/ \E x \in Block : OnBlockReceived(x[1], x[2])
    \/ \E x \in Block : OnRequestDropped(x[1], x[2])
    \/ \E p \in Piece, ok \in BOOLEAN : OnPieceVerified(p, ok)
    \/ ExpireRequests
    \/ TimePasses

PickerSpec == PickerInit /\ [][PickerNext]_pickerVars

-----------------------------------------------------------------------------
(* Properties                                                              *)

PickerTypeOK ==
    /\ have \subseteq Piece
    /\ bytes_done \in Nat
    /\ availability \in [Piece -> 0 .. AvailMax]
    /\ pick_cursor \in Piece \cup {0}
    /\ started \subseteq Piece
    /\ block \in [Block -> BlockState]
    /\ done \in [Piece -> Nat]
    /\ npending \in [Piece -> Nat]
    /\ pending \subseteq Block
    /\ age \in [Block -> 0 .. Timeout]
    /\ handed \subseteq Piece

InState(p, s) == {b \in BlocksIn(p) : block[<<p, b>>] = s}

\* The counters `done` and `pending` of a piece, kept apart from its blocks and
\* adjusted by five methods, always equal the number of its Done and Pending
\* blocks: pick() and on_block_received() decide on the counters alone.
CountsMatch ==
    \A p \in Piece : /\ done[p] = Cardinality(InState(p, "Done"))
                     /\ npending[p] = Cardinality(InState(p, "Pending"))

\* A block is reserved exactly when pending_ knows it: a reserved block that
\* expire_requests() cannot see would never be asked for again, and a key
\* without a reserved block would free one it does not stand for.
ReservedIffTimed == pending = {x \in Block : block[x] = "Pending"}

\* on_block_received() answers true once, on the last block: a piece whose
\* blocks are all in is waiting for its verdict, and no other piece is.  A
\* complete piece nobody was told of would stay started for ever.
CompleteIffHanded ==
    \A p \in Piece : p \in handed <=> InState(p, "Done") = BlocksIn(p)

\* A piece that was verified has no work left on it: not in progress_, no block
\* reserved or received, no verdict expected.
HaveIsSettled ==
    \A p \in have : p \notin started \cup handed /\ InState(p, "Free") = BlocksIn(p)

\* progress() is computed from bytes_done_, which set_have() increments: every
\* piece is counted once, whichever way it came.
BytesMatch == bytes_done = MapThenSumSet(LAMBDA p : PieceSize[p], have)

\* Outside progress_ there is nothing to know about a piece: with the properties
\* above, an inductive invariant.
FreshUnlessStarted == \A p \in Piece \ started : InState(p, "Free") = BlocksIn(p)

IInv == /\ PickerTypeOK
        /\ CountsMatch
        /\ ReservedIffTimed
        /\ CompleteIffHanded
        /\ HaveIsSettled
        /\ FreshUnlessStarted

\* What was received is asked for again only if its piece failed its check.
ReceivedIsKept ==
    [][\A x \in Block : block[x] = "Done" /\ block'[x] # "Done"
            => x[1] \in handed \ handed']_pickerVars

\* Outside the endgame no block is promised to two peers at a time: the request
\* of a reserved block is not renewed while it is pending.
OneRequestAtATime ==
    [][~Endgame => \A x \in pending \cap pending' : age'[x] >= age[x]]_pickerVars

=============================================================================
