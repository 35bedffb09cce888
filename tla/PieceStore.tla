----------------------------- MODULE PieceStore -----------------------------
(***************************************************************************)
(* The way of a piece inside bt::Torrent: blocks arrive from peers in any  *)
(* order, late or twice, are assembled in memory by bt::Storage (or go     *)
(* straight to the card when memory is short), the complete piece is       *)
(* handed to the writer, its verdict is collected, the resume file lists   *)
(* it, and after a stop or a crash the torrent starts again from there.    *)
(*                                                                         *)
(* The writer is WriterContract, which PieceWriter implements.  Content is *)
(* a Boolean: the right bytes, or other ones.  Sizes are counted in pieces.*)
(***************************************************************************)
EXTENDS Integers, Sequences, FiniteSets

CONSTANTS
    Piece,
    NumBlocks,      \* blocks of a piece
    BufferBudget,   \* kBufferBudget, in pieces
    Tails,          \* blocks whose last bytes do not fill stdio's buffer
    Capacity,       \* what the card holds, in pieces
    Elsewhere,      \* what the other files of the card may take of it
    FaultSets,      \* what may go wrong together, in one behaviour:
                    \*   "io"     an access to the card fails and says so
                    \*   "tail"   the end of a block of Tails stays in stdio's buffer
                    \*   "flush"  the flush of stdio's buffer fails
                    \*   "crash"  the program ends anywhere
                    \*   "late"   a wrong block comes for a piece not in progress
                    \*   "early"  blocks nobody asked for come before the check
                    \*   "ordinary"  the files found cannot reach their size (FAT32)
    MaxSubmits      \* bound: pieces handed to the writer between two starts

BlocksIn == 1 .. NumBlocks
Block == Piece \X BlocksIn
BlocksOf(p) == {p} \X BlocksIn
Job == [piece : Piece, good : BOOLEAN]

ASSUME StoreAssumption ==
    /\ IsFiniteSet(Piece) /\ Piece # {}
    /\ NumBlocks \in Nat \ {0}
    /\ BufferBudget \in Nat /\ Capacity \in Nat /\ MaxSubmits \in Nat
    /\ Tails \subseteq Block
    /\ Elsewhere \subseteq Nat
    /\ FaultSets \subseteq SUBSET {"io", "tail", "flush", "crash", "late", "early", "ordinary"}
    /\ "no file" \notin Piece /\ "no bitfield" \notin Piece

NoResume == {"no file"}
Damaged == {"no bitfield"}      \* a file that load_resume() refuses
Listed(r) == IF r \subseteq Piece THEN r ELSE {}

VARIABLES
    state,          \* state_; without a Torrent: "Off" after a crash, "Closed"
                    \* after a stop, "Gone" while a removed one is destroyed
    recreated,      \* Storage::recreated_: open() emptied a file of the card
    fresh,          \* Storage::created_fresh_, as long as run_check() has not read it
    checked,        \* checked_: run_check() is done
    card,           \* content of the files, as read through their handles
    disk,           \* content of the files after a crash
    grown,          \* size of the files (FileSlot::allocated)
    buffer,         \* buffers_: what each block of a buffered piece holds
    started,        \* picker: pieces in progress
    received,       \* picker: blocks received
    have,           \* picker: pieces verified
    accepted, answered, ended,      \* the writer (WriterContract)
    collected,      \* how many of its answers finish_piece() has handled
    resume,         \* content of the .torfoil file
    last,           \* history: the latest content received for each block
    faults          \* what may go wrong in this behaviour

writerVars == <<accepted, answered, ended>>
pickerVars == <<started, received, have>>
vars == <<state, recreated, fresh, checked, card, disk, grown, buffer, pickerVars, writerVars, collected, resume, last, faults>>

Writer == INSTANCE WriterContract

\* A buffer with nothing in it, and no buffer
Empty == [b \in BlocksIn |-> "absent"]
NoBuffer == <<>>
Held == [BlocksIn -> {"absent", "right", "wrong"}]
Buffered == {p \in Piece : buffer[p] # NoBuffer}

NoBuffers == [p \in Piece |-> NoBuffer]
Whole(h) == h # NoBuffer /\ \A b \in BlocksIn : h[b] # "absent"
AllRight(h) == \A b \in BlocksIn : h[b] = "right"
Content(ok) == IF ok THEN "right" ELSE "wrong"

Init ==
    /\ state = "Closed" /\ checked = FALSE /\ recreated = FALSE /\ fresh = TRUE
    /\ faults \in FaultSets
    /\ \/ card = [x \in Block |-> FALSE] /\ grown = 0 /\ resume = NoResume
       \/ /\ card \in [Block -> BOOLEAN] /\ grown = Cardinality(Piece)  \* found on the card
          /\ resume = NoResume
       \/ /\ "ordinary" \in faults      \* begun by an earlier version
          /\ card \in [Block -> BOOLEAN] /\ grown = 1
          /\ resume = {p \in Piece : \A x \in BlocksOf(p) : card[x]}
    /\ disk = card
    /\ buffer = NoBuffers
    /\ started = {} /\ received = {} /\ have = {}
    /\ Writer!Init /\ collected = 0
    /\ last = [x \in Block |-> FALSE]

-----------------------------------------------------------------------------
(* The card                                                                *)

\* Nothing reaches the files
CardUnchanged == UNCHANGED <<card, disk, grown>>

\* ensure_allocated(): files grow by chunks, larger than all there is here
Allocated == Cardinality(Piece)

Written(w) == [x \in Block |-> IF x \in DOMAIN w THEN w[x] ELSE card[x]]

\* The blocks whose end a write leaves in stdio's buffer
Buffering == IF "tail" \in faults THEN Tails ELSE {}

\* The blocks of w reach the files.  fseeko() sends what stdio still held; the
\* tail of the new write stays in stdio's buffer.
WriteThrough(w) ==
    IF DOMAIN w = {} THEN CardUnchanged
    ELSE /\ card' = Written(w)
         /\ disk' = [x \in Block |-> IF x \in DOMAIN w \ Buffering THEN w[x] ELSE card[x]]
         /\ grown' = Allocated

\* A write that fails has written some of its blocks
WriteFails(w) ==
    /\ "io" \in faults
    /\ \E D \in SUBSET DOMAIN w : WriteThrough([x \in D |-> w[x]])

\* flush_buffer(): only the blocks that the buffer holds
Contents(p, h) ==
    [x \in {y \in BlocksOf(p) : h[y[2]] # "absent"} |-> h[x[2]] = "right"]

-----------------------------------------------------------------------------
(* The picker, as far as the content of pieces depends on it               *)

Handed == {p \in Piece \ have : BlocksOf(p) \subseteq received}

PieceVerified(p, ok) ==
    /\ received' = received \ BlocksOf(p)
    /\ have' = IF ok THEN have \cup {p} ELSE have
    /\ started' = IF ok THEN started \ {p} ELSE started

Complete == have' = Piece

-----------------------------------------------------------------------------
(* Start                                                                   *)

\* The Torrent object is gone, and with it what lived in memory
Forget ==
    /\ buffer' = NoBuffers /\ checked' = FALSE /\ recreated' = FALSE /\ fresh' = TRUE
    /\ started' = {} /\ received' = {} /\ have' = {}
    /\ accepted' = <<>> /\ answered' = <<>> /\ ended' = FALSE /\ collected' = 0

\* Zero free means "unknown"
RoomWith(used) ==
    LET free == Capacity - grown - used IN free <= 0 \/ free >= Cardinality(Piece)

\* prepare_large_file(): the file there is ordinary, too short, and cannot grow
TooSmall == "ordinary" \in faults /\ grown \in 1 .. Cardinality(Piece) - 1

\* prepare_storage(): fresh files get an empty resume file
Prepared == IF grown = 0 /\ resume = NoResume THEN {} ELSE resume

\* Storage::open(): room for the whole torrent is asked for
Open ==
    /\ state \in {"Off", "Closed"}
    /\ \E used \in Elsewhere :
           IF RoomWith(used)
           THEN /\ ~TooSmall
                /\ state' = "Checking"
                /\ resume' = Prepared
                /\ fresh' = (grown = 0)
           ELSE state' = "Refused" /\ UNCHANGED <<resume, fresh>>
    /\ CardUnchanged
    /\ UNCHANGED <<recreated, checked, buffer, pickerVars, writerVars, collected, last, faults>>

\* create_large_file(): what was there is removed for a file of the final size, or for
\* one that can reach it, or for nothing
Recreate ==
    /\ state \in {"Off", "Closed"} /\ TooSmall
    /\ \E used \in Elsewhere : RoomWith(used)
    /\ recreated' = TRUE /\ fresh' = FALSE
    /\ card' = [x \in Block |-> FALSE] /\ disk' = card'
    /\ \/ state' = "Checking" /\ grown' = Cardinality(Piece)
       \/ "io" \in faults /\ state' = "Refused" /\ grown' = 0
    /\ UNCHANGED <<checked, buffer, pickerVars, writerVars, collected, resume, last, faults>>

Right(p) == \A x \in BlocksOf(p) : card[x]

\* Mutant of Believed: the resume file is trusted, whatever open() did to the files
BelievedAlways == resume \subseteq Piece

\* run_check(): is the resume file loaded?  It is removed when a file was recreated.
Believed == resume \subseteq Piece /\ ~recreated

\* verify_piece(): a piece whole in memory is judged there, and not written; what memory
\* holds of another goes to the card, which is read again
Verified(p, onCard) == IF Whole(buffer[p]) THEN AllRight(buffer[p]) ELSE \A x \in BlocksOf(p) : onCard[x]

\* scan_existing() of the pieces S, those before the user's interruption; ok are those for
\* which no access fails, and dropped those whose buffer could be flushed
Scan(S, ok, dropped) ==
    LET partial == {p \in S \cap Buffered : ~Whole(buffer[p])}
        w == [x \in {y \in Block : y[1] \in partial /\ buffer[y[1]][y[2]] # "absent"}
                |-> buffer[x[1]][x[2]] = "right"]
    IN /\ ok \cap partial \subseteq dropped /\ dropped \subseteq partial
       /\ ok = S \/ "io" \in faults
       /\ \E D \in SUBSET DOMAIN w :
             /\ \A x \in DOMAIN w \ D : x[1] \notin dropped
             /\ card' = [x \in Block |-> IF x \in D THEN w[x] ELSE card[x]]
             /\ grown' = IF D = {} THEN grown ELSE Allocated
       /\ disk' = card'
       /\ buffer' = [p \in Piece |-> IF p \in dropped THEN NoBuffer ELSE buffer[p]]
       /\ have' = have \cup {p \in S : (p \in ok \/ Whole(buffer[p])) /\ Verified(p, card')}
       /\ resume' = have'

\* run_check(): the resume file is trusted, else what was found on the card is read again.
RunCheck ==
    /\ state = "Checking"
    /\ IF Believed \/ recreated \/ fresh \/ grown = 0
       THEN /\ have' = IF Believed THEN have \cup resume ELSE have
            /\ resume' = IF recreated THEN NoResume ELSE resume
            /\ CardUnchanged /\ UNCHANGED buffer
       ELSE \E S \in SUBSET Piece : \E ok, dropped \in SUBSET S : Scan(S, ok, dropped)
    /\ started' = started \ have'
    /\ received' = {x \in received : x[1] \notin have'}
    /\ checked' = TRUE /\ fresh' = TRUE
    /\ state' = IF Complete THEN "Seeding" ELSE "Downloading"
    /\ UNCHANGED <<recreated, writerVars, collected, last, faults>>

-----------------------------------------------------------------------------
(* on_peer_block(): peers answer what was asked, late, twice or unasked    *)

\* buffer_for(p, true) finds or makes a buffer
InMemory(p) == p \in Buffered \/ Cardinality(Buffered) < BufferBudget

\* Mutant of Received: a new buffer is taken for a whole one
ReceivedAsWhole(p, b, ok) == [c \in BlocksIn |-> Content(ok)]

\* The buffer of p once the block b is in it
Received(p, b, ok) ==
    [(IF p \in Buffered THEN buffer[p] ELSE Empty) EXCEPT ![b] = Content(ok)]

\* Does on_block_received(p, b) announce the piece complete?
Completes(p, b) ==
    /\ p \in started
    /\ BlocksOf(p) \ received = {<<p, b>>}

\* verify_piece() and finish_piece() of a piece that is not whole in memory: what
\* the buffer holds goes to the card, and the card is read again.
Reverify(p, w, flushing) ==
    \/ /\ card' = Written(w) /\ disk' = card' /\ grown' = Allocated
       /\ PieceVerified(p, \A x \in BlocksOf(p) : card'[x])
    \/ /\ "io" \in faults
       /\ WriteThrough(w) \/ (flushing /\ WriteFails(w))
       /\ PieceVerified(p, FALSE)

\* The last block of p: the piece goes to the writer if memory holds all of it
Finish(p, h, w) ==
    IF Whole(h)
    THEN /\ Len(accepted) < MaxSubmits
         /\ Writer!Accept([piece |-> p, good |-> AllRight(h)])
         /\ received' = received \cup BlocksOf(p)
         /\ CardUnchanged
         /\ UNCHANGED <<started, have, state, resume>>
    ELSE /\ Reverify(p, IF h = NoBuffer THEN w ELSE Contents(p, h), h # NoBuffer)
         /\ UNCHANGED writerVars
         /\ IF Complete
            THEN state' = "Seeding" /\ resume' = have'
            ELSE UNCHANGED <<state, resume>>

Active == {"Checking", "Downloading", "Seeding", "Failed"}

ReceiveBlock(p, b, ok) ==
    LET h == IF InMemory(p) THEN Received(p, b, ok) ELSE NoBuffer
        w == IF InMemory(p) THEN <<>> ELSE [x \in {<<p, b>>} |-> ok]
    IN /\ state \in Active
       /\ checked \/ "early" \in faults
       /\ ok \/ p \in started \ Handed \/ "late" \in faults
       /\ last' = [last EXCEPT ![<<p, b>>] = ok]
       /\ UNCHANGED <<recreated, fresh, checked, collected, faults>>
       /\ \/ /\ Completes(p, b)
             /\ Finish(p, h, w)
             /\ buffer' = [buffer EXCEPT ![p] = NoBuffer]
          \/ /\ ~Completes(p, b)
             /\ WriteThrough(w)
             /\ buffer' = [buffer EXCEPT ![p] = h]
             /\ received' = IF p \in started THEN received \cup {<<p, b>>} ELSE received
             /\ UNCHANGED <<started, have, writerVars, state, resume>>
          \/ /\ ~InMemory(p)
             /\ WriteFails(w)
             /\ state' = "Failed"
             /\ UNCHANGED <<buffer, pickerVars, writerVars, resume>>

\* acquire() and evict_if_needed(): what stdio held is flushed, or lost when that fails
Evicts ==
    \/ disk' = card /\ UNCHANGED card
    \/ "flush" \in faults /\ card' = disk /\ UNCHANGED disk

\* on_peer_request(): the read of a block flushes what stdio held, by fseeko() or
\* by the eviction of a handle
ReadBlock(p) ==
    /\ state \in Active /\ p \in have /\ disk # card
    /\ Evicts
    /\ UNCHANGED <<state, recreated, fresh, checked, grown, buffer, pickerVars, writerVars, collected,
                   resume, last, faults>>

-----------------------------------------------------------------------------
(* The writer's thread                                                     *)

\* The next accepted piece is hashed, and written when its hash is right; after
\* delete_files() there is no file left to write to.
WriterAnswers(v) ==
    /\ Writer!Answer(v)
    /\ LET p == accepted[Len(answered) + 1].piece
           w == [x \in BlocksOf(p) |-> TRUE]
       IN \/ v = "written" /\ state # "Gone" /\ WriteThrough(w)
          \/ v = "write_failed" /\ state # "Gone" /\ WriteFails(w)
          \/ v = "write_failed" /\ state = "Gone" /\ CardUnchanged
          \/ v = "hash_failed" /\ CardUnchanged
    /\ UNCHANGED <<state, recreated, fresh, checked, buffer, pickerVars, collected, resume, last, faults>>

-----------------------------------------------------------------------------
(* The engine's turn                                                       *)

NewAnswers == {answered[i] : i \in collected + 1 .. Len(answered)}
Answered(v) == {r.job.piece : r \in {n \in NewAnswers : n.verdict = v}}

\* Mutant of Saved: the pieces in the writer's hands are listed too
SavedEarly(h) == h \cup Handed

\* What save_resume() writes
Saved(h) == h

\* collect_written_pieces(), then the picks of the turn, then save_resume()
Tick(P, save) ==
    LET written == Answered("written")
        rejected == Answered("hash_failed")
        failed == Answered("write_failed") # {}
        done == written \cup rejected
    IN /\ state \in {"Downloading", "Seeding"}
       /\ collected' = Len(answered)
       /\ have' = have \cup written
       /\ received' = received \ UNION {BlocksOf(p) : p \in done}
       /\ buffer' = [p \in Piece |-> IF p \in rejected THEN NoBuffer ELSE buffer[p]]
       /\ P \subseteq Piece \ (have' \cup started)
       /\ IF failed
          THEN /\ state' = "Failed" /\ P = {} /\ ~save
               /\ started' = started \ written
               /\ UNCHANGED resume
          ELSE /\ state' = IF Complete THEN "Seeding" ELSE state
               /\ started' = (started \ written) \cup P
               /\ resume' = IF save \/ (Complete /\ written # {}) THEN Saved(have') ELSE resume
       /\ CardUnchanged /\ UNCHANGED <<recreated, fresh, checked, writerVars, last, faults>>

\* set_paused(): a paused torrent ignores blocks and is not ticked
Pause ==
    /\ state \in {"Checking", "Downloading", "Seeding"}
    /\ state' = "Paused"
    /\ CardUnchanged
    /\ UNCHANGED <<recreated, fresh, checked, buffer, pickerVars, writerVars, collected, resume, last, faults>>

Unpause ==
    /\ state = "Paused"
    /\ state' = IF ~checked THEN "Checking" ELSE IF have = Piece THEN "Seeding" ELSE "Downloading"
    /\ CardUnchanged
    /\ UNCHANGED <<recreated, fresh, checked, buffer, pickerVars, writerVars, collected, resume, last, faults>>

-----------------------------------------------------------------------------
(* Ends                                                                    *)

Alive == Active \cup {"Paused", "Refused"}

\* Session::stop(): the last resume file of every torrent, even of one whose check
\* has not had its turn yet (the metadata arrives in the poll, the check is done in
\* the next turn).  One whose storage was refused has no bitfield to write.
Stop ==
    /\ state \in Alive
    /\ state' = "Stopping"
    /\ resume' = IF state = "Refused" THEN Damaged ELSE Saved(have)
    /\ CardUnchanged
    /\ UNCHANGED <<recreated, fresh, checked, buffer, pickerVars, writerVars, collected, last, faults>>

\* ~Torrent(): the writer is stopped, then Storage::close() flushes the buffers
Close ==
    /\ state = "Stopping" /\ Len(answered) = Len(accepted)
    /\ state' = "Closed"
    /\ LET all == [x \in {y \in Block : /\ y[1] \in Buffered
                                        /\ buffer[y[1]][y[2]] # "absent"}
                     |-> buffer[x[1]][x[2]] = "right"]
       IN \E D \in (IF "io" \in faults THEN SUBSET DOMAIN all ELSE {DOMAIN all}) :
            /\ card' = [x \in Block |-> IF x \in D THEN all[x] ELSE card[x]]
            /\ grown' = IF D = {} THEN grown ELSE Allocated
    /\ disk' = card'
    /\ Forget
    /\ UNCHANGED <<resume, last, faults>>

Crash ==
    /\ "crash" \in faults
    /\ state \in Alive \cup {"Stopping"}
    /\ state' = "Off"
    /\ card' = disk
    /\ Forget
    /\ UNCHANGED <<disk, grown, resume, last, faults>>

\* delete_files(): the storage is closed and the files removed, then the Torrent
\* is destroyed once its writer has stopped.
DeleteFiles ==
    /\ state \in Alive
    /\ state' = "Gone"
    /\ card' = [x \in Block |-> FALSE] /\ disk' = card' /\ grown' = 0
    /\ buffer' = NoBuffers /\ fresh' = TRUE
    /\ resume' = NoResume
    /\ UNCHANGED <<recreated, checked, pickerVars, writerVars, collected, last, faults>>

Destroyed ==
    /\ state = "Gone" /\ Len(answered) = Len(accepted)
    /\ state' = "Closed"
    /\ Forget
    /\ CardUnchanged /\ UNCHANGED <<resume, last, faults>>

-----------------------------------------------------------------------------

Next ==
    \/ Open \/ Recreate \/ RunCheck
    \/ \E p \in Piece, b \in BlocksIn, ok \in BOOLEAN : ReceiveBlock(p, b, ok)
    \/ \E p \in Piece : ReadBlock(p)
    \/ \E v \in {"written", "write_failed", "hash_failed"} : WriterAnswers(v)
    \/ \E P \in SUBSET Piece, save \in BOOLEAN : Tick(P, save)
    \/ Pause \/ Unpause
    \/ Stop \/ Close \/ Crash \/ DeleteFiles \/ Destroyed

Spec == Init /\ [][Next]_vars

-----------------------------------------------------------------------------
(* Properties                                                              *)

Reply == [job : Job, verdict : {"written", "write_failed", "hash_failed"}]

TypeOK ==
    /\ state \in Active \cup {"Paused", "Refused", "Stopping", "Gone", "Off", "Closed"}
    /\ checked \in BOOLEAN /\ recreated \in BOOLEAN /\ fresh \in BOOLEAN
    /\ card \in [Block -> BOOLEAN] /\ disk \in [Block -> BOOLEAN]
    /\ grown \in {0, Cardinality(Piece)} \/ (TooSmall /\ grown = 1)
    /\ buffer \in [Piece -> Held \cup {NoBuffer}]
    /\ started \subseteq Piece /\ received \subseteq Block /\ have \subseteq Piece
    /\ accepted \in Seq(Job) /\ answered \in Seq(Reply) /\ collected \in 0 .. Len(answered)
    /\ resume \in (SUBSET Piece) \cup {NoResume, Damaged}
    /\ last \in [Block -> BOOLEAN]
    /\ faults \in FaultSets

\* Is p whole and right in memory?  The check judges what came before it from there.
Remembered(p) == "early" \in faults /\ Whole(buffer[p]) /\ AllRight(buffer[p])
Safe(p) == Right(p) \/ Remembered(p)

\* "every piece SHA-1 verified, zero corruption": the pieces counted as had are
\* right on the card, whatever went through memory, the writer's thread, the
\* direct path or a restart; or right in memory, for those that came before the check.
HaveIsRight == state # "Gone" => \A p \in have : Safe(p)

\* The resume file may be trusted: a piece it lists is on the card, and survives a
\* crash at any moment, as long as stdio keeps nothing of it for later, the check found it
\* on the card, and open() has not just emptied a file, which run_check() looks at.
ResumeIsTrue ==
    faults \cap {"tail", "early"} = {} /\ ~(recreated /\ ~checked) =>
        \A p \in Listed(resume) : \A x \in BlocksOf(p) : disk[x]

\* Assembling pieces never holds more memory than kBufferBudget.
BuffersWithinBudget == Cardinality(Buffered) <= BufferBudget

\* Is p judged, if it is, on the latest bytes received for each of its blocks?
Judged(p) ==
    LET arrived == \A x \in BlocksOf(p) : last'[x]
        submitted == Len(accepted') > Len(accepted) /\ accepted'[Len(accepted')].piece = p
        accepts == checked /\ p \in have' \ have
        rejects == /\ checked' /\ p \notin have'
                   /\ BlocksOf(p) \cap received # {} /\ BlocksOf(p) \cap received' = {}
    IN /\ submitted => (accepted'[Len(accepted')].good <=> arrived)
       /\ "io" \notin faults /\ collected' = collected =>
              (accepts => arrived) /\ (rejects => ~arrived)

\* A piece is judged on the latest bytes received for each of its blocks, whether
\* they went to memory, to the card, or to both: as long as the card does not fail, a
\* damaged piece is never accepted, an intact one never rejected and redownloaded.
JudgedOnWhatArrived == [][\A p \in Piece : Judged(p)]_vars

\* The writer answers about the pieces it was given, in order.
AnswersMatch ==
    /\ ended = FALSE /\ Len(answered) <= Len(accepted)
    /\ \A i \in 1 .. Len(answered) :
          answered[i].job = accepted[i] /\ answered[i].verdict \in Writer!Verdicts(accepted[i])

\* A piece in the writer's hands is one that the picker holds for complete, and it is
\* there once.
InHands == collected + 1 .. Len(accepted)
HandedOnce ==
    /\ \A i \in InHands : accepted[i].piece \in Handed
    /\ \A i, j \in InHands : accepted[i].piece = accepted[j].piece => i = j

\* The picker counts blocks for the pieces in progress only, and has none of those.
PickerAgrees == started \cap have = {} /\ \A x \in received : x[1] \in started

\* No piece is asked for, had or handed over before the check of this start, and no block
\* comes unless it was not asked for.
CheckedFirst ==
    /\ ~checked => started = {} /\ have = {} /\ accepted = <<>>
    /\ checked \/ "early" \in faults \/ buffer = NoBuffers
    /\ state \in {"Downloading", "Seeding"} => checked
    /\ state \in {"Off", "Closed", "Refused", "Checking"} => ~checked
    /\ state \in {"Off", "Closed"} => ~recreated
    /\ recreated => "ordinary" \in faults

\* Memory holds the latest bytes received.
BuffersAsArrived ==
    \A p \in Buffered, b \in BlocksIn :
        buffer[p][b] # "absent" => buffer[p][b] = Content(last[<<p, b>>])

\* Without a tail left behind, what is read through the handles survives a crash.
CardIsDisk == "tail" \notin faults => disk = card

\* The blocks counted for a piece in progress are in memory or on the card, as they arrived.
BlocksAreSomewhere ==
    state # "Gone" /\ "io" \notin faults /\ ~({"tail", "flush"} \subseteq faults) =>
        \A p \in started \ Handed, b \in BlocksIn : <<p, b>> \in received =>
            \/ buffer[p] # NoBuffer /\ buffer[p][b] # "absent"
            \/ card[<<p, b>>] = last[<<p, b>>]

Bookkeeping ==
    /\ AnswersMatch /\ HandedOnce /\ PickerAgrees /\ CheckedFirst
    /\ BuffersAsArrived /\ CardIsDisk /\ BlocksAreSomewhere

\* What may go wrong together without a damaged piece being had: README.md says what the
\* other combinations do.
Survivable(F) ==
    /\ "late" \notin F
    /\ "tail" \in F => "flush" \notin F /\ "crash" \notin F
    /\ "crash" \in F => "ordinary" \notin F
    /\ "early" \in F => "io" \notin F /\ "crash" \notin F

\* Wrong bytes wait in memory only for a piece still to be verified.
WrongOnlyInProgress ==
    \A p \in Buffered : p \notin started \ Handed => \A b \in BlocksIn : buffer[p][b] # "wrong"

\* What the writer says to have written is right on the card until it is collected.
WrittenIsRight ==
    state # "Gone" => \A i \in collected + 1 .. Len(answered) :
                          answered[i].verdict = "written" => Right(answered[i].job.piece)

\* The resume file lists pieces that are right on the card, or on their way to it from
\* memory, and after the check only those
\* that the picker has.
ResumeIsRight ==
    /\ checked \/ state = "Stopping" => Listed(resume) \subseteq have
    /\ state = "Gone" => Listed(resume) = {}
    /\ ~(recreated /\ ~checked) => \A p \in Listed(resume) : Safe(p)

Sound ==
    Survivable(faults) =>
        HaveIsRight /\ WrongOnlyInProgress /\ WrittenIsRight /\ ResumeIsRight

\* The store as a whole: the types, the bound on memory, a resume file that may be
\* believed, and the bookkeeping that both rest on.
StoreInvariant == TypeOK /\ BuffersWithinBudget /\ ResumeIsTrue /\ Bookkeeping /\ Sound

-----------------------------------------------------------------------------
(* What the comments and the documentation say, and the code does not keep *)
(* (README.md says how to see each of them fail)                           *)

\* "every piece SHA-1 verified, zero corruption": what is counted as had, announced and
\* served is on the card.  The check judges from memory a piece that came before it, and
\* the peers are served from the card.
HadIsOnTheCard == state # "Gone" => \A p \in have : Right(p)

\* "Le fil d'écriture d'abord : il touche au stockage": the storage is not closed
\* while a piece is in the writer's hands.
ClosedQuietly ==
    [][state' \in {"Gone", "Closed"} /\ state \in Alive \cup {"Stopping"}
            => Len(answered) = Len(accepted)]_vars

\* "Point de reprise final": what is verified on the card when the program ends is
\* listed, and not asked for again at the next start.
FinalResumeIsComplete ==
    [][state' = "Closed" /\ state = "Stopping" =>
        \A i \in DOMAIN answered : answered[i].verdict = "written"
                                        => answered[i].job.piece \in Listed(resume)]_vars

\* "the download picks up where it stopped": short of a removal, the resume file
\* does not forget a piece that is right on the card.
ResumeForgetsNothing ==
    [][state' # "Gone" => Listed(resume) \subseteq Listed(resume')]_vars

\* "permet de reprendre un téléchargement interrompu": a torrent whose files are
\* already on the card is not refused for want of room.
ReopensWhatItStarted == state = "Refused" => grown = 0

=============================================================================
