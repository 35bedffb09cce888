-------------------------- MODULE PieceStoreProofs --------------------------
(***************************************************************************)
(* No damaged piece is had: what the picker counts as had, and what the    *)
(* resume file lists, is right on the card, whatever the pieces, the       *)
(* memory, the order of the blocks and the faults that can be survived.    *)
(***************************************************************************)
EXTENDS PieceStore, FiniteSetTheorems, SequenceTheorems, TLAPS

-----------------------------------------------------------------------------
(* Pieces, blocks and buffers                                              *)

LEMMA Pieces ==
    /\ Cardinality(Piece) \in Nat \ {0}
    /\ Cardinality({}) <= BufferBudget
    /\ ~(NoResume \subseteq Piece) /\ ~(Damaged \subseteq Piece)
    /\ Listed(NoResume) = {} /\ Listed(Damaged) = {}
<1>1. Cardinality(Piece) \in Nat \ {0}
  BY StoreAssumption, FS_CardinalityType, FS_EmptySet
<1>2. ~(NoResume \subseteq Piece) /\ ~(Damaged \subseteq Piece)
  BY StoreAssumption DEF NoResume, Damaged
<1>3. Cardinality({}) <= BufferBudget
  <2>1. Cardinality({}) = 0
    BY FS_EmptySet
  <2>2. BufferBudget \in Nat
    BY StoreAssumption, Zenon
  <2>3. QED
    BY <2>1, <2>2
<1>4. QED
  BY <1>1, <1>2, <1>3 DEF Listed

LEMMA Blocks ==
    /\ 1 \in BlocksIn
    /\ \A p \in Piece, b \in BlocksIn : <<p, b>> \in Block /\ <<p, b>> \in BlocksOf(p)
    /\ \A p \in Piece : \A x \in BlocksOf(p) :
          x \in Block /\ x[1] = p /\ x[2] \in BlocksIn /\ x = <<p, x[2]>>
    /\ \A x \in Block : x[1] \in Piece /\ x[2] \in BlocksIn /\ x = <<x[1], x[2]>>
                        /\ x \in BlocksOf(x[1])
<1>1. 1 \in BlocksIn
  <2>1. NumBlocks \in Nat \ {0}
    BY StoreAssumption, Zenon
  <2>2. QED
    BY <2>1 DEF BlocksIn
<1>2. \A p \in Piece, b \in BlocksIn : <<p, b>> \in Block /\ <<p, b>> \in BlocksOf(p)
  BY DEF Block, BlocksOf
<1>3. ASSUME NEW p \in Piece, NEW x \in BlocksOf(p)
      PROVE  x \in Block /\ x[1] = p /\ x[2] \in BlocksIn /\ x = <<p, x[2]>>
  <2>1. x \in {p} \X BlocksIn
    BY <1>3 DEF BlocksOf
  <2>2. QED
    BY <2>1 DEF Block
<1>4. ASSUME NEW x \in Block
      PROVE  x[1] \in Piece /\ x[2] \in BlocksIn /\ x = <<x[1], x[2]>> /\ x \in BlocksOf(x[1])
  BY DEF Block, BlocksOf
<1>5. QED
  BY <1>1, <1>2, <1>3, <1>4

LEMMA HeldIsBuffer == \A h \in Held : h # NoBuffer
<1> SUFFICES ASSUME NEW h \in Held PROVE h # NoBuffer
  OBVIOUS
<1>1. DOMAIN h = BlocksIn
  BY DEF Held
<1>2. DOMAIN NoBuffer = 1 .. 0
  BY DEF NoBuffer
<1>3. 1 \in DOMAIN h /\ 1 \notin DOMAIN NoBuffer
  BY <1>1, <1>2, Blocks
<1>4. QED
  BY <1>3

\* The pieces handed over are in progress
LEMMA HandedInProgress == PickerAgrees => Handed \subseteq started
<1> SUFFICES ASSUME PickerAgrees, NEW p \in Handed PROVE p \in started
  OBVIOUS
<1>1. <<p, 1>> \in received
  BY Blocks DEF Handed
<1>2. QED
  BY <1>1 DEF PickerAgrees

-----------------------------------------------------------------------------
(* What a write does to the card                                           *)

LEMMA Writing ==
    ASSUME TypeOK, NEW w, DOMAIN w \subseteq Block, \A x \in DOMAIN w : w[x] \in BOOLEAN,
           WriteThrough(w)
    PROVE  /\ card' \in [Block -> BOOLEAN] /\ disk' \in [Block -> BOOLEAN]
           /\ \A x \in Block : card'[x] = IF x \in DOMAIN w THEN w[x] ELSE card[x]
           /\ grown' \in {grown, Cardinality(Piece)}
           /\ CardIsDisk /\ "tail" \notin faults => disk' = card'
<1>1. CASE DOMAIN w = {}
  BY <1>1 DEF WriteThrough, CardUnchanged, TypeOK, CardIsDisk
<1>2. CASE DOMAIN w # {}
  <2>1. /\ card' = [x \in Block |-> IF x \in DOMAIN w THEN w[x] ELSE card[x]]
        /\ disk' = [x \in Block |-> IF x \in DOMAIN w \ Buffering THEN w[x] ELSE card[x]]
        /\ grown' = Cardinality(Piece)
    BY <1>2 DEF WriteThrough, Written, Allocated
  <2>2. "tail" \notin faults => Buffering = {}
    BY DEF Buffering
  <2>3. card' \in [Block -> BOOLEAN] /\ disk' \in [Block -> BOOLEAN]
    BY <2>1 DEF TypeOK
  <2>4. "tail" \notin faults => disk' = card'
    BY <2>1, <2>2
  <2>5. QED
    BY <2>1, <2>3, <2>4
<1>3. QED
  BY <1>1, <1>2

\* ... whether it succeeds or fails
Writes(w) == WriteThrough(w) \/ WriteFails(w)

LEMMA WritingSome ==
    ASSUME TypeOK, NEW w, DOMAIN w \subseteq Block, \A x \in DOMAIN w : w[x] \in BOOLEAN,
           Writes(w)
    PROVE  /\ card' \in [Block -> BOOLEAN] /\ disk' \in [Block -> BOOLEAN]
           /\ \A x \in Block : card'[x] = card[x] \/ (x \in DOMAIN w /\ card'[x] = w[x])
           /\ grown' \in {grown, Cardinality(Piece)}
           /\ CardIsDisk /\ "tail" \notin faults => disk' = card'
<1>1. CASE WriteThrough(w)
  <2>1. /\ card' \in [Block -> BOOLEAN] /\ disk' \in [Block -> BOOLEAN]
        /\ \A x \in Block : card'[x] = IF x \in DOMAIN w THEN w[x] ELSE card[x]
        /\ grown' \in {grown, Cardinality(Piece)}
        /\ CardIsDisk /\ "tail" \notin faults => disk' = card'
    BY <1>1, Writing
  <2>2. QED
    BY <2>1
<1>2. CASE WriteFails(w)
  <2>1. PICK D \in SUBSET DOMAIN w : WriteThrough([x \in D |-> w[x]])
    BY <1>2 DEF WriteFails
  <2> DEFINE v == [x \in D |-> w[x]]
  <2>2. DOMAIN v = D /\ DOMAIN v \subseteq Block /\ \A x \in DOMAIN v : v[x] \in BOOLEAN
    OBVIOUS
  <2>3. \A x \in D : v[x] = w[x]
    OBVIOUS
  <2>4. WriteThrough(v)
    BY <2>1
  <2> HIDE DEF v
  <2>5. /\ card' \in [Block -> BOOLEAN] /\ disk' \in [Block -> BOOLEAN]
        /\ \A x \in Block : card'[x] = IF x \in DOMAIN v THEN v[x] ELSE card[x]
        /\ grown' \in {grown, Cardinality(Piece)}
        /\ CardIsDisk /\ "tail" \notin faults => disk' = card'
    BY <2>2, <2>4, Writing
  <2>6. QED
    BY <2>2, <2>3, <2>5
<1>3. QED
  BY <1>1, <1>2 DEF Writes

-----------------------------------------------------------------------------
(* The cases of a block that arrives                                       *)

\* The buffer of p with the block, and what goes straight to the card
Filled(p, b, ok) == IF InMemory(p) THEN Received(p, b, ok) ELSE NoBuffer
Direct(p, b, ok) == IF InMemory(p) THEN <<>> ELSE [x \in {<<p, b>>} |-> ok]

\* What goes to the card before the piece is read again
Flushed(p, b, ok) ==
    IF Filled(p, b, ok) = NoBuffer THEN Direct(p, b, ok) ELSE Contents(p, Filled(p, b, ok))

Kept(p, b, ok) ==
    /\ ~Completes(p, b)
    /\ WriteThrough(Direct(p, b, ok))
    /\ buffer' = [buffer EXCEPT ![p] = Filled(p, b, ok)]
    /\ received' = IF p \in started THEN received \cup {<<p, b>>} ELSE received
    /\ UNCHANGED <<started, have, accepted, state, resume>>

HandedOver(p, b, ok) ==
    /\ Completes(p, b) /\ Whole(Filled(p, b, ok))
    /\ accepted' = Append(accepted, [piece |-> p, good |-> AllRight(Filled(p, b, ok))])
    /\ received' = received \cup BlocksOf(p)
    /\ buffer' = [buffer EXCEPT ![p] = NoBuffer]
    /\ CardUnchanged
    /\ UNCHANGED <<started, have, state, resume>>

ReadAgain(p, b, ok) ==
    /\ Completes(p, b) /\ ~Whole(Filled(p, b, ok))
    /\ Reverify(p, Flushed(p, b, ok), Filled(p, b, ok) # NoBuffer)
    /\ buffer' = [buffer EXCEPT ![p] = NoBuffer]
    /\ IF Complete THEN state' = "Seeding" /\ resume' = have' ELSE UNCHANGED <<state, resume>>
    /\ UNCHANGED accepted

Refused(p, b, ok) ==
    /\ ~InMemory(p) /\ WriteFails(Direct(p, b, ok))
    /\ state' = "Failed"
    /\ UNCHANGED <<buffer, started, received, have, accepted, resume>>

LEMMA ReceiveCases ==
    ASSUME NEW p \in Piece, NEW b \in BlocksIn, NEW ok \in BOOLEAN, ReceiveBlock(p, b, ok)
    PROVE  /\ state \in Active
           /\ checked \/ "early" \in faults
           /\ ok \/ p \in started \ Handed \/ "late" \in faults
           /\ last' = [last EXCEPT ![<<p, b>>] = ok]
           /\ UNCHANGED <<recreated, fresh, checked, collected, faults, answered, ended>>
           /\ Kept(p, b, ok) \/ HandedOver(p, b, ok) \/ ReadAgain(p, b, ok) \/ Refused(p, b, ok)
<1> USE DEF Filled, Direct
<1>1. /\ state \in Active
      /\ checked \/ "early" \in faults
      /\ ok \/ p \in started \ Handed \/ "late" \in faults
      /\ last' = [last EXCEPT ![<<p, b>>] = ok]
      /\ UNCHANGED <<recreated, fresh, checked, collected, faults>>
  BY DEF ReceiveBlock
<1>2. CASE /\ Completes(p, b)
           /\ Finish(p, Filled(p, b, ok), Direct(p, b, ok))
           /\ buffer' = [buffer EXCEPT ![p] = NoBuffer]
  <2>1. CASE Whole(Filled(p, b, ok))
    BY <1>1, <1>2, <2>1 DEF Finish, HandedOver, Writer!Accept
  <2>2. CASE ~Whole(Filled(p, b, ok))
    BY <1>1, <1>2, <2>2 DEF Finish, ReadAgain, Flushed, writerVars
  <2>3. QED
    BY <2>1, <2>2
<1>3. CASE /\ ~Completes(p, b)
           /\ WriteThrough(Direct(p, b, ok))
           /\ buffer' = [buffer EXCEPT ![p] = Filled(p, b, ok)]
           /\ received' = IF p \in started THEN received \cup {<<p, b>>} ELSE received
           /\ UNCHANGED <<started, have, writerVars, state, resume>>
  BY <1>1, <1>3 DEF Kept, writerVars
<1>4. CASE /\ ~InMemory(p)
           /\ WriteFails(Direct(p, b, ok))
           /\ state' = "Failed"
           /\ UNCHANGED <<buffer, pickerVars, writerVars, resume>>
  BY <1>1, <1>4 DEF Refused, pickerVars, writerVars
<1>5. QED
  BY <1>2, <1>3, <1>4 DEF ReceiveBlock

LEMMA FilledFacts ==
    ASSUME TypeOK, NEW p \in Piece, NEW b \in BlocksIn, NEW ok \in BOOLEAN
    PROVE  /\ ~InMemory(p) => Filled(p, b, ok) = NoBuffer /\ p \notin Buffered
           /\ InMemory(p) =>
                /\ Filled(p, b, ok) \in Held /\ Filled(p, b, ok) # NoBuffer
                /\ \A c \in BlocksIn :
                     Filled(p, b, ok)[c] = IF c = b THEN Content(ok)
                                           ELSE IF p \in Buffered THEN buffer[p][c]
                                           ELSE "absent"
           /\ Content(ok) \in {"right", "wrong"}
<1>1. Content(ok) \in {"right", "wrong"}
  BY DEF Content
<1>2. ~InMemory(p) => Filled(p, b, ok) = NoBuffer /\ p \notin Buffered
  BY DEF Filled, InMemory
<1>3. ASSUME InMemory(p)
      PROVE  /\ Filled(p, b, ok) \in Held
             /\ \A c \in BlocksIn :
                  Filled(p, b, ok)[c] = IF c = b THEN Content(ok)
                                        ELSE IF p \in Buffered THEN buffer[p][c]
                                        ELSE "absent"
  <2> DEFINE h == IF p \in Buffered THEN buffer[p] ELSE Empty
  <2>1. h \in Held
    BY DEF TypeOK, Buffered, Held, Empty
  <2>2. Filled(p, b, ok) = [h EXCEPT ![b] = Content(ok)]
    BY <1>3 DEF Filled, Received
  <2>3. \A c \in BlocksIn : p \notin Buffered => h[c] = "absent"
    BY DEF Empty
  <2>4. p \in Buffered => h = buffer[p]
    OBVIOUS
  <2> HIDE DEF h
  <2>5. QED
    BY <1>1, <2>1, <2>2, <2>3, <2>4 DEF Held
<1>4. QED
  BY <1>1, <1>2, <1>3, HeldIsBuffer

LEMMA DirectFacts ==
    ASSUME NEW p \in Piece, NEW b \in BlocksIn, NEW ok \in BOOLEAN
    PROVE  /\ DOMAIN Direct(p, b, ok) = IF InMemory(p) THEN {} ELSE {<<p, b>>}
           /\ DOMAIN Direct(p, b, ok) \subseteq Block
           /\ \A x \in DOMAIN Direct(p, b, ok) : Direct(p, b, ok)[x] = ok
<1>1. CASE InMemory(p)
  BY <1>1 DEF Direct
<1>2. CASE ~InMemory(p)
  <2>1. Direct(p, b, ok) = [x \in {<<p, b>>} |-> ok]
    BY <1>2 DEF Direct
  <2>2. QED
    BY <1>2, <2>1, Blocks
<1>3. QED
  BY <1>1, <1>2

LEMMA FlushedFacts ==
    ASSUME TypeOK, NEW p \in Piece, NEW b \in BlocksIn, NEW ok \in BOOLEAN
    PROVE  /\ DOMAIN Flushed(p, b, ok) \subseteq BlocksOf(p)
           /\ DOMAIN Flushed(p, b, ok) \subseteq Block
           /\ \A x \in DOMAIN Flushed(p, b, ok) : Flushed(p, b, ok)[x] \in BOOLEAN
           /\ ~InMemory(p) => /\ DOMAIN Flushed(p, b, ok) = {<<p, b>>}
                              /\ Flushed(p, b, ok)[<<p, b>>] = ok
<1>1. CASE InMemory(p)
  <2>1. Flushed(p, b, ok) = Contents(p, Filled(p, b, ok))
    BY <1>1, FilledFacts DEF Flushed
  <2> DEFINE h == Filled(p, b, ok)
  <2>2. Flushed(p, b, ok) = [x \in {y \in BlocksOf(p) : h[y[2]] # "absent"} |-> h[x[2]] = "right"]
    BY <2>1 DEF Contents
  <2> HIDE DEF h
  <2>3. /\ DOMAIN Flushed(p, b, ok) = {x \in BlocksOf(p) : h[x[2]] # "absent"}
        /\ \A x \in DOMAIN Flushed(p, b, ok) : Flushed(p, b, ok)[x] = (h[x[2]] = "right")
    BY <2>2
  <2>4. DOMAIN Flushed(p, b, ok) \subseteq BlocksOf(p)
    BY <2>3
  <2>5. DOMAIN Flushed(p, b, ok) \subseteq Block
    BY <2>4, Blocks
  <2>6. QED
    BY <1>1, <2>3, <2>4, <2>5 DEF h
<1>2. CASE ~InMemory(p)
  <2>1. Flushed(p, b, ok) = Direct(p, b, ok)
    BY <1>2, FilledFacts DEF Flushed
  <2>2. DOMAIN Flushed(p, b, ok) = {<<p, b>>} /\ Flushed(p, b, ok)[<<p, b>>] = ok
    <3>1. /\ DOMAIN Direct(p, b, ok) = {<<p, b>>}
          /\ \A x \in DOMAIN Direct(p, b, ok) : Direct(p, b, ok)[x] = ok
      BY <1>2, DirectFacts
    <3>2. QED
      BY <2>1, <3>1
  <2>3. <<p, b>> \in BlocksOf(p) /\ <<p, b>> \in Block
    BY Blocks
  <2>4. /\ DOMAIN Flushed(p, b, ok) \subseteq BlocksOf(p)
        /\ DOMAIN Flushed(p, b, ok) \subseteq Block
        /\ \A x \in DOMAIN Flushed(p, b, ok) : Flushed(p, b, ok)[x] \in BOOLEAN
    BY <2>2, <2>3
  <2>5. QED
    BY <1>2, <2>2, <2>4
<1>3. QED
  BY <1>1, <1>2

LEMMA FlushedBuffer ==
    ASSUME TypeOK, NEW p \in Piece, NEW b \in BlocksIn, NEW ok \in BOOLEAN, InMemory(p),
           NEW c \in BlocksIn
    PROVE  /\ Filled(p, b, ok)[c] = "absent" => <<p, c>> \notin DOMAIN Flushed(p, b, ok)
           /\ Filled(p, b, ok)[c] = "right" =>
                <<p, c>> \in DOMAIN Flushed(p, b, ok) /\ Flushed(p, b, ok)[<<p, c>>] = TRUE
           /\ Filled(p, b, ok)[c] = "wrong" =>
                <<p, c>> \in DOMAIN Flushed(p, b, ok) /\ Flushed(p, b, ok)[<<p, c>>] = FALSE
<1> DEFINE h == Filled(p, b, ok)
<1>1. Flushed(p, b, ok) = Contents(p, Filled(p, b, ok))
  BY FilledFacts DEF Flushed
<1>2. Flushed(p, b, ok) = [x \in {y \in BlocksOf(p) : h[y[2]] # "absent"} |-> h[x[2]] = "right"]
  BY <1>1 DEF Contents
<1> HIDE DEF h
<1>3. <<p, c>> \in BlocksOf(p) /\ <<p, c>>[2] = c
  BY Blocks
<1>4. <<p, c>> \in DOMAIN Flushed(p, b, ok) <=> h[c] # "absent"
  BY <1>2, <1>3
<1>5. h[c] # "absent" => Flushed(p, b, ok)[<<p, c>>] = (h[c] = "right")
  BY <1>2, <1>3
<1>6. QED
  BY <1>4, <1>5 DEF h

\* What reading the piece again does to the card and to the picker
LEMMA ReadAgainFacts ==
    ASSUME TypeOK, NEW p \in Piece, NEW b \in BlocksIn, NEW ok \in BOOLEAN, ReadAgain(p, b, ok)
    PROVE  /\ card' \in [Block -> BOOLEAN] /\ disk' \in [Block -> BOOLEAN]
           /\ \A x \in Block : \/ card'[x] = card[x]
                               \/ /\ x \in DOMAIN Flushed(p, b, ok)
                                  /\ card'[x] = Flushed(p, b, ok)[x]
           /\ grown' \in {grown, Cardinality(Piece)}
           /\ CardIsDisk /\ "tail" \notin faults => disk' = card'
           /\ received' = received \ BlocksOf(p)
           /\ \/ p \in started /\ have' = have \cup {p} /\ started' = started \ {p} /\ Right(p)'
              \/ have' = have /\ started' = started
           /\ "io" \notin faults =>
                /\ \A x \in Block : card'[x] = IF x \in DOMAIN Flushed(p, b, ok)
                                               THEN Flushed(p, b, ok)[x] ELSE card[x]
                /\ ~Right(p)' => have' = have
                /\ Right(p)' => have' = have \cup {p}
<1> DEFINE w == Flushed(p, b, ok)
<1>1. /\ DOMAIN w \subseteq Block /\ DOMAIN w \subseteq BlocksOf(p)
      /\ \A x \in DOMAIN w : w[x] \in BOOLEAN
  BY FlushedFacts
<1>2. p \in started
  BY DEF ReadAgain, Completes
<1>3. Reverify(p, w, Filled(p, b, ok) # NoBuffer)
  BY DEF ReadAgain
<1> HIDE DEF w
<1>4. CASE /\ card' = Written(w) /\ disk' = card' /\ grown' = Allocated
           /\ PieceVerified(p, \A x \in BlocksOf(p) : card'[x])
  <2>1. card' = [x \in Block |-> IF x \in DOMAIN w THEN w[x] ELSE card[x]]
    BY <1>4 DEF Written
  <2>2. card' \in [Block -> BOOLEAN] /\ disk' \in [Block -> BOOLEAN]
    BY <1>1, <1>4, <2>1 DEF TypeOK
  <2>3. /\ received' = received \ BlocksOf(p)
        /\ have' = IF Right(p)' THEN have \cup {p} ELSE have
        /\ started' = IF Right(p)' THEN started \ {p} ELSE started
    BY <1>4 DEF PieceVerified, Right
  <2>4. grown' = Cardinality(Piece) /\ disk' = card'
    BY <1>4 DEF Allocated
  <2>5. QED
    BY <1>2, <2>1, <2>2, <2>3, <2>4 DEF w
<1>5. CASE /\ "io" \in faults
           /\ Writes(w)
           /\ PieceVerified(p, FALSE)
  <2>1. /\ received' = received \ BlocksOf(p) /\ have' = have /\ started' = started
    BY <1>5 DEF PieceVerified
  <2>2. /\ card' \in [Block -> BOOLEAN] /\ disk' \in [Block -> BOOLEAN]
        /\ \A x \in Block : card'[x] = card[x] \/ (x \in DOMAIN w /\ card'[x] = w[x])
        /\ grown' \in {grown, Cardinality(Piece)}
        /\ CardIsDisk /\ "tail" \notin faults => disk' = card'
    BY <1>1, <1>5, WritingSome
  <2>3. QED
    BY <1>5, <2>1, <2>2 DEF w
<1>6. QED
  BY <1>3, <1>4, <1>5 DEF Reverify, Writes

-----------------------------------------------------------------------------
(* The bookkeeping, action by action                                       *)

Structure ==
    /\ TypeOK /\ BuffersWithinBudget
    /\ AnswersMatch /\ HandedOnce /\ PickerAgrees /\ CheckedFirst
    /\ BuffersAsArrived /\ CardIsDisk

\* No action but a start or an end takes a piece back from the writer
LEMMA HandsKept ==
    ASSUME HandedOnce, UNCHANGED <<accepted, collected>>, Handed \subseteq Handed'
    PROVE  HandedOnce'
BY DEF HandedOnce, InHands

\* The four ways a block is taken
LEMMA ReceiveTypes ==
    ASSUME Structure, NEW p \in Piece, NEW b \in BlocksIn, NEW ok \in BOOLEAN,
           ReceiveBlock(p, b, ok)
    PROVE  TypeOK' /\ CardIsDisk'
<1> USE DEF Structure
<1>1. /\ last' = [last EXCEPT ![<<p, b>>] = ok]
      /\ UNCHANGED <<recreated, fresh, checked, collected, faults, answered, ended>>
      /\ Kept(p, b, ok) \/ HandedOver(p, b, ok) \/ ReadAgain(p, b, ok) \/ Refused(p, b, ok)
  BY ReceiveCases
<1>2. last' \in [Block -> BOOLEAN]
  BY <1>1 DEF TypeOK
<1>3. ASSUME card' \in [Block -> BOOLEAN], disk' \in [Block -> BOOLEAN],
             grown' \in {grown, Cardinality(Piece)},
             "tail" \notin faults => disk' = card',
             buffer' \in [Piece -> Held \cup {NoBuffer}],
             started' \subseteq Piece, received' \subseteq Block, have' \subseteq Piece,
             accepted' \in Seq(Job), resume' \in {resume, have'},
             state' \in {state, "Seeding", "Failed"}
      PROVE  TypeOK' /\ CardIsDisk'
  <2>1. CardIsDisk'
    BY <1>1, <1>3 DEF CardIsDisk
  <2>2. grown' \in {0, Cardinality(Piece)} \/ (TooSmall' /\ grown' = 1)
    <3>1. CASE grown' = grown
      BY <1>1, <3>1 DEF TypeOK, TooSmall
    <3>2. QED
      BY <1>3, <3>1
  <2>3. state' \in Active \cup {"Paused", "Refused", "Stopping", "Gone", "Off", "Closed"}
    BY <1>3 DEF TypeOK, Active
  <2>4. resume' \in (SUBSET Piece) \cup {NoResume, Damaged}
    BY <1>3 DEF TypeOK
  <2>5. /\ checked' \in BOOLEAN /\ recreated' \in BOOLEAN /\ fresh' \in BOOLEAN /\ answered' \in Seq(Reply)
        /\ collected' \in 0 .. Len(answered') /\ faults' \in FaultSets
    BY <1>1 DEF TypeOK
  <2> HIDE DEF Structure
  <2>6. TypeOK'
    BY <1>2, <1>3, <2>2, <2>3, <2>4, <2>5 DEF TypeOK
  <2>7. QED
    BY <2>1, <2>6
<1>4. buffer \in [Piece -> Held \cup {NoBuffer}] /\ accepted \in Seq(Job)
      /\ started \subseteq Piece /\ received \subseteq Block /\ have \subseteq Piece
  BY DEF TypeOK
<1>5. Filled(p, b, ok) \in Held \cup {NoBuffer} /\ <<p, b>> \in Block
      /\ BlocksOf(p) \subseteq Block
  BY FilledFacts, Blocks
<1>6. CASE Kept(p, b, ok)
  <2>1. WriteThrough(Direct(p, b, ok))
    BY <1>6 DEF Kept
  <2>2. /\ card' \in [Block -> BOOLEAN] /\ disk' \in [Block -> BOOLEAN]
        /\ grown' \in {grown, Cardinality(Piece)}
        /\ CardIsDisk /\ "tail" \notin faults => disk' = card'
    BY <2>1, DirectFacts, Writing
  <2>3. QED
    BY <1>3, <1>4, <1>5, <1>6, <2>2 DEF Kept
<1>7. CASE HandedOver(p, b, ok)
  <2>1. AllRight(Filled(p, b, ok)) \in BOOLEAN
    BY DEF AllRight
  <2>2. [piece |-> p, good |-> AllRight(Filled(p, b, ok))] \in Job
    BY <2>1 DEF Job
  <2>3. accepted' \in Seq(Job)
    BY <1>4, <1>7, <2>2, AppendProperties DEF HandedOver
  <2>4. card' \in [Block -> BOOLEAN] /\ disk' \in [Block -> BOOLEAN] /\ grown' = grown
        /\ ("tail" \notin faults => disk' = card')
    BY <1>7 DEF HandedOver, CardUnchanged, TypeOK, CardIsDisk
  <2>5. QED
    BY <1>3, <1>4, <1>5, <1>7, <2>3, <2>4 DEF HandedOver
<1>8. CASE ReadAgain(p, b, ok)
  <2>1. /\ card' \in [Block -> BOOLEAN] /\ disk' \in [Block -> BOOLEAN]
        /\ grown' \in {grown, Cardinality(Piece)}
        /\ CardIsDisk /\ "tail" \notin faults => disk' = card'
        /\ received' = received \ BlocksOf(p)
        /\ have' \subseteq have \cup {p} /\ started' \subseteq started
    BY <1>8, ReadAgainFacts
  <2>2. /\ buffer' = [buffer EXCEPT ![p] = NoBuffer] /\ accepted' = accepted
        /\ resume' \in {resume, have'} /\ state' \in {state, "Seeding"}
    BY <1>8 DEF ReadAgain
  <2>3. QED
    BY <1>3, <1>4, <2>1, <2>2
<1>9. CASE Refused(p, b, ok)
  <2>1. Writes(Direct(p, b, ok))
    BY <1>9 DEF Refused, Writes
  <2>2. /\ card' \in [Block -> BOOLEAN] /\ disk' \in [Block -> BOOLEAN]
        /\ grown' \in {grown, Cardinality(Piece)}
        /\ CardIsDisk /\ "tail" \notin faults => disk' = card'
    BY <2>1, DirectFacts, WritingSome
  <2>3. QED
    BY <1>3, <1>4, <1>9, <2>2 DEF Refused
<1>10. QED
  BY <1>1, <1>6, <1>7, <1>8, <1>9

LEMMA ReceiveBudget ==
    ASSUME Structure, NEW p \in Piece, NEW b \in BlocksIn, NEW ok \in BOOLEAN,
           ReceiveBlock(p, b, ok)
    PROVE  BuffersWithinBudget'
<1> USE DEF Structure
<1>1. BufferBudget \in Nat /\ IsFiniteSet(Piece)
  BY StoreAssumption
<1>2. Buffered \in SUBSET Piece /\ Buffered' \in SUBSET Piece
  BY DEF Buffered
<1>3. /\ IsFiniteSet(Buffered) /\ Cardinality(Buffered) \in Nat
      /\ IsFiniteSet(Buffered') /\ Cardinality(Buffered') \in Nat
  BY <1>1, <1>2, FS_Subset, FS_CardinalityType, Zenon
<1>4. buffer' \in {buffer, [buffer EXCEPT ![p] = NoBuffer]}
      \/ (buffer' = [buffer EXCEPT ![p] = Filled(p, b, ok)])
  <2>1. Kept(p, b, ok) \/ HandedOver(p, b, ok) \/ ReadAgain(p, b, ok) \/ Refused(p, b, ok)
    BY ReceiveCases
  <2>2. QED
    BY <2>1, Zenon DEF Kept, HandedOver, ReadAgain, Refused
<1>5. CASE Buffered' \subseteq Buffered
  <2>1. Cardinality(Buffered') <= Cardinality(Buffered)
    BY <1>3, <1>5, FS_Subset
  <2>2. QED
    BY <1>1, <1>3, <2>1 DEF BuffersWithinBudget
<1>6. CASE ~(Buffered' \subseteq Buffered)
  <2>1. Buffered' \subseteq Buffered \cup {p} /\ p \notin Buffered /\ InMemory(p)
    <3>1. \A q \in Piece : q # p => buffer'[q] = buffer[q]
      BY <1>4 DEF TypeOK
    <3>2. p \in Buffered' /\ p \notin Buffered
      BY <1>6, <3>1 DEF Buffered
    <3>3. buffer'[p] # NoBuffer /\ buffer[p] = NoBuffer
      BY <3>2 DEF Buffered
    <3>4. InMemory(p)
      BY <1>4, <3>3, FilledFacts DEF TypeOK
    <3>5. QED
      BY <3>1, <3>2, <3>4 DEF Buffered
  <2>2. Cardinality(Buffered) < BufferBudget
    BY <2>1 DEF InMemory
  <2>3. /\ IsFiniteSet(Buffered \cup {p})
        /\ Cardinality(Buffered \cup {p}) = Cardinality(Buffered) + 1
    BY <1>3, <2>1, FS_AddElement
  <2>4. Cardinality(Buffered') <= Cardinality(Buffered \cup {p})
    BY <2>1, <2>3, FS_Subset
  <2>5. QED
    BY <1>1, <1>3, <2>2, <2>3, <2>4 DEF BuffersWithinBudget
<1>7. QED
  BY <1>5, <1>6

LEMMA ReceivePicker ==
    ASSUME Structure, NEW p \in Piece, NEW b \in BlocksIn, NEW ok \in BOOLEAN,
           ReceiveBlock(p, b, ok)
    PROVE  /\ PickerAgrees' /\ CheckedFirst'
           /\ Handed \subseteq Handed'
           /\ \A q \in Piece : q # p /\ q \in Handed' => q \in Handed
           /\ Completes(p, b) => p \in started \ Handed
           /\ HandedOver(p, b, ok) => p \in Handed'
           /\ started' \subseteq started /\ \A q \in started : q # p => q \in started'
<1> USE DEF Structure
<1>1. /\ last' = [last EXCEPT ![<<p, b>>] = ok]
      /\ UNCHANGED <<recreated, fresh, checked, collected, faults, answered, ended>>
      /\ Kept(p, b, ok) \/ HandedOver(p, b, ok) \/ ReadAgain(p, b, ok) \/ Refused(p, b, ok)
      /\ state \in Active
      /\ checked \/ "early" \in faults
  BY ReceiveCases
<1>2. started \cap have = {} /\ \A x \in received : x[1] \in started
  BY DEF PickerAgrees
<1>3. Completes(p, b) => p \in started \ Handed
  BY Blocks DEF Completes, Handed
<1>4. <<p, b>>[1] = p /\ (\A x \in BlocksOf(p) : x[1] = p)
  BY Blocks
<1>5. CASE Kept(p, b, ok)
  <2>1. /\ UNCHANGED <<started, have, state, accepted>>
        /\ received \subseteq received' /\ received' \subseteq received \cup {<<p, b>>}
        /\ p \notin started => received' = received
    BY <1>5 DEF Kept
  <2>2. PickerAgrees'
    BY <1>2, <1>4, <2>1 DEF PickerAgrees
  <2>3. CheckedFirst'
    BY <1>1, <2>1 DEF CheckedFirst
  <2>4. Handed \subseteq Handed'
    BY <2>1 DEF Handed
  <2>5. ASSUME NEW q \in Piece, q # p, q \in Handed' PROVE q \in Handed
    <3>1. <<p, b>> \notin BlocksOf(q)
      BY <2>5, Blocks
    <3>2. QED
      BY <2>1, <2>5, <3>1 DEF Handed
  <2>6. ~HandedOver(p, b, ok)
    BY <1>5 DEF Kept, HandedOver
  <2>7. QED
    BY <1>3, <2>1, <2>2, <2>3, <2>4, <2>5, <2>6
<1>6. CASE HandedOver(p, b, ok)
  <2>1. /\ UNCHANGED <<started, have, state>>
        /\ received' = received \cup BlocksOf(p)
        /\ Completes(p, b)
    BY <1>6 DEF HandedOver
  <2>2. PickerAgrees'
    BY <1>2, <1>3, <1>4, <2>1 DEF PickerAgrees
  <2>3. CheckedFirst'
    BY <1>1, <1>3, <2>1 DEF CheckedFirst
  <2>4. Handed \subseteq Handed'
    BY <2>1 DEF Handed
  <2>5. ASSUME NEW q \in Piece, q # p, q \in Handed' PROVE q \in Handed
    <3>1. BlocksOf(q) \cap BlocksOf(p) = {}
      BY <2>5, Blocks
    <3>2. QED
      BY <2>1, <2>5, <3>1 DEF Handed
  <2>6. p \in Handed'
    BY <1>2, <1>3, <2>1 DEF Handed
  <2>7. QED
    BY <1>3, <2>1, <2>2, <2>3, <2>4, <2>5, <2>6
<1>7. CASE ReadAgain(p, b, ok)
  <2>1. Completes(p, b)
    BY <1>7 DEF ReadAgain
  <2>2. /\ received' = received \ BlocksOf(p)
        /\ \/ have' = have \cup {p} /\ started' = started \ {p}
           \/ have' = have /\ started' = started
    BY <1>7, ReadAgainFacts
  <2>3. PickerAgrees'
    <3>1. \A x \in received' : x[1] \in started /\ x[1] # p
      BY <1>2, <2>2, Blocks DEF TypeOK
    <3>2. QED
      BY <1>2, <2>2, <3>1 DEF PickerAgrees
  <2>4. CheckedFirst'
    <3>1. checked
      BY <1>3, <2>1 DEF CheckedFirst
    <3>2. state' \in {state, "Seeding"}
      BY <1>7 DEF ReadAgain
    <3>3. QED
      BY <1>1, <3>1, <3>2 DEF CheckedFirst, Active
  <2>5. ASSUME NEW q \in Piece, q # p
        PROVE  q \in Handed <=> q \in Handed'
    <3>1. BlocksOf(q) \cap BlocksOf(p) = {}
      BY <2>5, Blocks
    <3>2. QED
      BY <2>2, <2>5, <3>1 DEF Handed
  <2>6. Handed \subseteq Handed'
    <3>1. Handed \subseteq Piece /\ p \notin Handed
      BY <1>3, <2>1 DEF Handed
    <3>2. QED
      BY <2>5, <3>1
  <2>7. ~HandedOver(p, b, ok) /\ started' \subseteq started
        /\ \A q \in started : q # p => q \in started'
    BY <1>7, <2>2 DEF HandedOver, ReadAgain
  <2>8. QED
    BY <1>3, <2>3, <2>4, <2>5, <2>6, <2>7
<1>8. CASE Refused(p, b, ok)
  <2>1. UNCHANGED <<started, have, received, accepted>> /\ state' = "Failed"
    BY <1>8 DEF Refused
  <2>2. PickerAgrees' /\ CheckedFirst' /\ Handed' = Handed
    BY <1>1, <2>1 DEF PickerAgrees, CheckedFirst, Handed
  <2>3. HandedOver(p, b, ok) => p \in Handed'
    <3>1. ASSUME HandedOver(p, b, ok) PROVE FALSE
      BY <1>1, <2>1, <3>1, FilledFacts, <1>8 DEF HandedOver, Whole, Refused
    <3>2. QED
      BY <3>1
  <2>4. QED
    BY <1>3, <2>1, <2>2, <2>3
<1>9. QED
  BY <1>1, <1>5, <1>6, <1>7, <1>8

LEMMA ReceiveHands ==
    ASSUME Structure, NEW p \in Piece, NEW b \in BlocksIn, NEW ok \in BOOLEAN,
           ReceiveBlock(p, b, ok)
    PROVE  AnswersMatch' /\ HandedOnce'
<1> USE DEF Structure
<1>1. UNCHANGED <<collected, answered, ended>> /\ Handed \subseteq Handed'
  BY ReceiveCases, ReceivePicker
<1>2. CASE UNCHANGED accepted
  BY <1>1, <1>2, HandsKept DEF AnswersMatch
<1>3. CASE HandedOver(p, b, ok)
  <2> DEFINE j == [piece |-> p, good |-> AllRight(Filled(p, b, ok))]
  <2>1. accepted' = Append(accepted, j) /\ p \in Handed' /\ p \notin Handed
    BY <1>3, ReceivePicker DEF HandedOver
  <2>2. accepted \in Seq(Job) /\ j \in Job
    BY DEF TypeOK, Job, AllRight
  <2> HIDE DEF j
  <2>3. /\ Len(accepted') = Len(accepted) + 1 /\ accepted'[Len(accepted) + 1] = j
        /\ \A i \in 1 .. Len(accepted) : accepted'[i] = accepted[i]
    BY <2>1, <2>2, AppendProperties
  <2>4. /\ Len(accepted) \in Nat /\ Len(answered) \in Nat /\ collected \in 0 .. Len(answered)
        /\ Len(answered) <= Len(accepted)
    BY <2>2, LenProperties DEF TypeOK, AnswersMatch
  <2>5. AnswersMatch'
    BY <1>1, <2>3, <2>4 DEF AnswersMatch
  <2>6. \A i \in InHands' : i \in InHands \/ i = Len(accepted) + 1
    BY <1>1, <2>3, <2>4 DEF InHands
  <2>7. \A i \in InHands : /\ accepted'[i] = accepted[i] /\ accepted[i].piece \in Handed
                           /\ accepted[i].piece # p
    BY <2>1, <2>3, <2>4 DEF InHands, HandedOnce
  <2>8. accepted'[Len(accepted) + 1].piece = p
    BY <2>3 DEF j
  <2>9. HandedOnce'
    <3>1. \A i \in InHands' : accepted'[i].piece \in Handed'
      BY <1>1, <2>1, <2>6, <2>7, <2>8
    <3>2. \A i, k \in InHands : accepted'[i].piece = accepted'[k].piece => i = k
      BY <2>7 DEF HandedOnce
    <3>3. \A i, k \in InHands' : accepted'[i].piece = accepted'[k].piece => i = k
      BY <2>6, <2>7, <2>8, <3>2
    <3>4. QED
      BY <3>1, <3>3 DEF HandedOnce
  <2>10. QED
    BY <2>5, <2>9
<1>4. QED
  BY <1>2, <1>3, ReceiveCases DEF Kept, ReadAgain, Refused

LEMMA ReceiveBuffers ==
    ASSUME Structure, NEW p \in Piece, NEW b \in BlocksIn, NEW ok \in BOOLEAN,
           ReceiveBlock(p, b, ok)
    PROVE  /\ BuffersAsArrived'
           /\ \A q \in Piece : q # p => buffer'[q] = buffer[q]
           /\ buffer'[p] \in {NoBuffer, Filled(p, b, ok)}
<1> USE DEF Structure
<1>1. /\ last' = [last EXCEPT ![<<p, b>>] = ok]
      /\ Kept(p, b, ok) \/ HandedOver(p, b, ok) \/ ReadAgain(p, b, ok) \/ Refused(p, b, ok)
  BY ReceiveCases
<1>2. buffer \in [Piece -> Held \cup {NoBuffer}]
  BY DEF TypeOK
<1>3. \A q \in Piece : q # p => buffer'[q] = buffer[q]
  BY <1>1, <1>2 DEF Kept, HandedOver, ReadAgain, Refused
<1>4. buffer'[p] \in {NoBuffer, Filled(p, b, ok)}
  <2>1. CASE Refused(p, b, ok)
    BY <1>2, <2>1, FilledFacts DEF Refused, Buffered
  <2>2. QED
    BY <1>1, <1>2, <2>1 DEF Kept, HandedOver, ReadAgain
<1>5. /\ last'[<<p, b>>] = ok
      /\ \A q \in Piece, c \in BlocksIn : q # p \/ c # b => last'[<<q, c>>] = last[<<q, c>>]
  BY <1>1, Blocks DEF TypeOK
<1>6. ASSUME NEW q \in Buffered', NEW c \in BlocksIn, buffer'[q][c] # "absent"
      PROVE  buffer'[q][c] = Content(last'[<<q, c>>])
  <2>1. q \in Piece /\ buffer'[q] # NoBuffer
    BY <1>6 DEF Buffered
  <2>2. CASE q # p
    BY <1>3, <1>5, <1>6, <2>1, <2>2 DEF BuffersAsArrived, Buffered
  <2>3. CASE q = p
    <3>1. buffer'[p] = Filled(p, b, ok) /\ InMemory(p)
      BY <1>4, <2>1, <2>3, FilledFacts
    <3>2. Filled(p, b, ok)[c] = IF c = b THEN Content(ok)
                                ELSE IF p \in Buffered THEN buffer[p][c] ELSE "absent"
      BY <3>1, FilledFacts
    <3>3. CASE c = b
      BY <1>5, <2>3, <3>1, <3>2, <3>3
    <3>4. CASE c # b
      BY <1>5, <1>6, <2>3, <3>1, <3>2, <3>4 DEF BuffersAsArrived
    <3>5. QED
      BY <3>3, <3>4
  <2>4. QED
    BY <2>2, <2>3
<1>7. BuffersAsArrived'
  BY <1>6 DEF BuffersAsArrived
<1>8. QED
  BY <1>3, <1>4, <1>7

LEMMA ReceiveStep ==
    ASSUME Structure, NEW p \in Piece, NEW b \in BlocksIn, NEW ok \in BOOLEAN,
           ReceiveBlock(p, b, ok)
    PROVE  Structure'
BY ReceiveTypes, ReceiveBudget, ReceivePicker, ReceiveHands, ReceiveBuffers DEF Structure

\* Steps that leave the picker, the memory and the writer alone
LEMMA SameWork ==
    ASSUME Structure,
           UNCHANGED <<buffer, started, received, have, accepted, answered, ended, collected,
                       last, faults>>
    PROVE  /\ BuffersWithinBudget' /\ AnswersMatch' /\ HandedOnce' /\ PickerAgrees'
           /\ BuffersAsArrived'
<1>1. Buffered' = Buffered /\ Handed' = Handed
  BY DEF Buffered, Handed
<1>2. QED
  BY <1>1 DEF Structure, BuffersWithinBudget, AnswersMatch, HandedOnce, InHands, PickerAgrees,
              BuffersAsArrived

LEMMA AroundStep ==
    ASSUME Structure,
           \/ Open \/ Recreate \/ Pause \/ Unpause \/ Stop
           \/ \E p \in Piece : ReadBlock(p)
           \/ UNCHANGED vars
    PROVE  Structure'
<1>1. UNCHANGED <<buffer, started, received, have, accepted, answered, ended, collected, last,
                  faults, checked>>
  BY DEF Open, Recreate, Pause, Unpause, Stop, ReadBlock, vars, pickerVars, writerVars
<1>2. /\ BuffersWithinBudget' /\ AnswersMatch' /\ HandedOnce' /\ PickerAgrees'
      /\ BuffersAsArrived'
  BY <1>1, SameWork
<1>3. /\ recreated' \in BOOLEAN /\ fresh' \in BOOLEAN
      /\ state' \in Active \cup {"Paused", "Refused", "Stopping", "Gone", "Off", "Closed"}
      /\ card' \in [Block -> BOOLEAN] /\ disk' \in [Block -> BOOLEAN]
      /\ grown' \in {grown, 0, Cardinality(Piece)}
      /\ CardIsDisk'
  <2>1. CASE Open
    BY <1>1, <2>1 DEF Structure, TypeOK, Open, CardUnchanged, Active, CardIsDisk
  <2>2. CASE Recreate
    <3>1. card' = [x \in Block |-> FALSE] /\ disk' = card'
      BY <2>2 DEF Recreate
    <3>2. recreated' = TRUE /\ fresh' = FALSE /\ state' \in {"Checking", "Refused"}
          /\ grown' \in {0, Cardinality(Piece)}
      BY <2>2 DEF Recreate
    <3>3. QED
      BY <3>1, <3>2 DEF Active, CardIsDisk
  <2>3. CASE Pause \/ Unpause \/ Stop
    BY <1>1, <2>3 DEF Structure, TypeOK, Pause, Unpause, Stop, CardUnchanged, Active, CardIsDisk
  <2>4. ASSUME NEW p \in Piece, ReadBlock(p)
        PROVE  /\ UNCHANGED <<recreated, fresh, state, grown>>
               /\ card' \in {card, disk} /\ disk' \in {card, disk}
               /\ (card' = card /\ disk' = card) \/ (card' = disk /\ disk' = disk)
    BY <2>4 DEF ReadBlock, Evicts
  <2>5. CASE \E p \in Piece : ReadBlock(p)
    BY <1>1, <2>4, <2>5 DEF Structure, TypeOK, CardIsDisk
  <2>6. CASE UNCHANGED vars
    BY <2>6 DEF Structure, TypeOK, CardIsDisk, vars
  <2>7. QED
    BY <2>1, <2>2, <2>3, <2>5, <2>6
<1>4. resume' \in (SUBSET Piece) \cup {NoResume, Damaged}
  <2>1. {} \in SUBSET Piece /\ have \in SUBSET Piece /\ resume \in (SUBSET Piece) \cup {NoResume, Damaged}
    BY DEF Structure, TypeOK
  <2>2. resume' = resume \/ resume' = {} \/ resume' = have \/ resume' = Damaged
    <3>1. CASE Open
      BY <3>1 DEF Open, Prepared
    <3>2. CASE Recreate \/ Pause \/ Unpause
      BY <3>2 DEF Recreate, Pause, Unpause
    <3>3. CASE Stop
      BY <3>3 DEF Stop, Saved
    <3>4. CASE (\E p \in Piece : ReadBlock(p)) \/ UNCHANGED vars
      BY <3>4 DEF ReadBlock, vars
    <3>5. QED
      BY <3>1, <3>2, <3>3, <3>4
  <2>3. QED
    BY <2>1, <2>2
<1>5. TypeOK'
  <2>1. grown' \in {0, Cardinality(Piece)} \/ (TooSmall' /\ grown' = 1)
    <3>1. CASE grown' = grown
      BY <1>1, <3>1 DEF Structure, TypeOK, TooSmall
    <3>2. QED
      BY <1>3, <3>1
  <2>2. QED
    BY <1>1, <1>3, <1>4, <2>1 DEF Structure, TypeOK
<1>6. CheckedFirst'
  <2>1. CASE Open
    BY <1>1, <2>1 DEF Structure, CheckedFirst, Open
  <2>2. CASE Recreate
    BY <1>1, <2>2 DEF Structure, CheckedFirst, Recreate, TooSmall
  <2>3. CASE Pause
    BY <1>1, <2>3 DEF Structure, CheckedFirst, Pause
  <2>4. CASE Unpause
    BY <1>1, <2>4 DEF Structure, CheckedFirst, Unpause
  <2>5. CASE Stop
    BY <1>1, <2>5 DEF Structure, CheckedFirst, Stop
  <2>6. CASE \E p \in Piece : ReadBlock(p)
    BY <1>1, <2>6 DEF Structure, CheckedFirst, ReadBlock
  <2>7. CASE UNCHANGED vars
    BY <1>1, <2>7 DEF Structure, CheckedFirst, vars
  <2>8. QED
    BY <2>1, <2>2, <2>3, <2>4, <2>5, <2>6, <2>7
<1>7. QED
  BY <1>2, <1>3, <1>5, <1>6 DEF Structure

\* What the check makes of the files, of the memory and of the resume file
Examined ==
    /\ have' \subseteq Piece /\ card' \in [Block -> BOOLEAN]
    /\ buffer' \in [Piece -> Held \cup {NoBuffer}]
    /\ \A p \in Piece : buffer'[p] = buffer[p] \/ buffer'[p] = NoBuffer
    /\ grown' = grown \/ grown' = Cardinality(Piece)
    /\ \/ have' = Listed(resume) /\ Believed /\ UNCHANGED <<resume, card, disk, buffer>>
       \/ /\ have' = {} /\ ~Believed /\ resume' \in {resume, NoResume}
          /\ UNCHANGED <<card, disk, buffer>>
       \/ /\ \A p \in have' :
                \/ \A x \in BlocksOf(p) : card'[x]
                \/ Whole(buffer[p]) /\ AllRight(buffer[p]) /\ buffer'[p] = buffer[p]
          /\ resume' = have' /\ disk' = card'
    /\ (~Believed /\ recreated) => resume' = NoResume

\* The files are read again
LEMMA ScanFacts ==
    ASSUME TypeOK, have = {}, ~recreated,
           NEW S \in SUBSET Piece, NEW ok \in SUBSET S, NEW dropped \in SUBSET S,
           Scan(S, ok, dropped)
    PROVE  Examined
<1> DEFINE partial == {p \in S \cap Buffered : ~Whole(buffer[p])}
<1> DEFINE w == [x \in {y \in Block : y[1] \in partial /\ buffer[y[1]][y[2]] # "absent"}
                    |-> buffer[x[1]][x[2]] = "right"]
<1>1. PICK D \in SUBSET DOMAIN w :
           /\ card' = [x \in Block |-> IF x \in D THEN w[x] ELSE card[x]]
           /\ grown' = IF D = {} THEN grown ELSE Allocated
  BY DEF Scan
<1>2. /\ dropped \subseteq partial /\ disk' = card' /\ resume' = have'
      /\ buffer' = [p \in Piece |-> IF p \in dropped THEN NoBuffer ELSE buffer[p]]
      /\ have' = {p \in S : (p \in ok \/ Whole(buffer[p])) /\ Verified(p, card')}
  BY DEF Scan
<1>3. \A x \in DOMAIN w : w[x] \in BOOLEAN
  OBVIOUS
<1>4. \A p \in dropped : ~Whole(buffer[p])
  BY <1>2
<1> HIDE DEF w, partial
<1>5. card' \in [Block -> BOOLEAN]
  BY <1>1, <1>3 DEF TypeOK
<1>6. /\ buffer' \in [Piece -> Held \cup {NoBuffer}]
      /\ \A p \in Piece : buffer'[p] = buffer[p] \/ buffer'[p] = NoBuffer
      /\ \A p \in Piece : p \notin dropped => buffer'[p] = buffer[p]
  BY <1>2 DEF TypeOK
<1>7. ASSUME NEW p \in have'
      PROVE  \/ \A x \in BlocksOf(p) : card'[x]
             \/ Whole(buffer[p]) /\ AllRight(buffer[p]) /\ buffer'[p] = buffer[p]
  <2>1. p \in Piece /\ Verified(p, card')
    BY <1>2
  <2>2. CASE Whole(buffer[p])
    BY <1>4, <1>6, <2>1, <2>2 DEF Verified
  <2>3. CASE ~Whole(buffer[p])
    BY <2>1, <2>3 DEF Verified
  <2>4. QED
    BY <2>2, <2>3
<1>8. have' \subseteq Piece /\ (grown' = grown \/ grown' = Cardinality(Piece))
  BY <1>1, <1>2 DEF Allocated
<1>9. QED
  BY <1>2, <1>5, <1>6, <1>7, <1>8 DEF Examined

LEMMA RunCheckFacts ==
    ASSUME Structure, RunCheck
    PROVE  /\ ~checked /\ checked' = TRUE /\ started = {} /\ have = {} /\ received = {}
           /\ accepted = <<>> /\ answered = <<>> /\ collected = 0
           /\ started' = {} /\ received' = {}
           /\ Examined
           /\ state' \in {"Seeding", "Downloading"} /\ fresh' = TRUE
           /\ UNCHANGED <<recreated, accepted, answered, ended, collected, last, faults>>
<1>1. state = "Checking" /\ ~checked
  BY DEF RunCheck, Structure, CheckedFirst
<1>2. started = {} /\ have = {} /\ accepted = <<>>
  BY <1>1 DEF Structure, CheckedFirst
<1>3. received = {}
  BY <1>2 DEF Structure, PickerAgrees
<1>4. answered = <<>> /\ collected = 0
  <2>1. Len(answered) <= 0 /\ Len(answered) \in Nat /\ collected \in 0 .. Len(answered)
    BY <1>2, LenProperties, EmptySeq DEF Structure, AnswersMatch, TypeOK
  <2>2. answered \in Seq(Reply)
    BY DEF Structure, TypeOK
  <2>3. QED
    BY <2>1, <2>2, EmptySeq
<1>5. Examined
  <2>1. CASE Believed \/ recreated \/ fresh \/ grown = 0
    <3>1. /\ have' = IF Believed THEN resume ELSE {}
          /\ resume' = IF recreated THEN NoResume ELSE resume
          /\ UNCHANGED <<card, disk, grown, buffer>>
      BY <1>2, <2>1 DEF RunCheck, CardUnchanged
    <3>2. /\ card \in [Block -> BOOLEAN] /\ buffer \in [Piece -> Held \cup {NoBuffer}]
      BY DEF Structure, TypeOK
    <3>3. Believed => have' = Listed(resume) /\ resume' = resume /\ have' \subseteq Piece
      BY <3>1 DEF Believed, Listed
    <3>4. ~Believed => have' = {} /\ resume' \in {resume, NoResume} /\ have' \subseteq Piece
      BY <3>1
    <3>5. (~Believed /\ recreated) => resume' = NoResume
      BY <3>1
    <3>6. QED
      BY <3>1, <3>2, <3>3, <3>4, <3>5 DEF Examined
  <2>2. CASE ~(Believed \/ recreated \/ fresh \/ grown = 0)
    <3>1. PICK S \in SUBSET Piece : \E ok, dropped \in SUBSET S : Scan(S, ok, dropped)
      BY <2>2 DEF RunCheck
    <3>2. PICK ok \in SUBSET S, dropped \in SUBSET S : Scan(S, ok, dropped)
      BY <3>1
    <3>3. QED
      BY <1>2, <2>2, <3>2, ScanFacts DEF Structure
  <2>3. QED
    BY <2>1, <2>2
<1>6. /\ checked' = TRUE /\ started' = {} /\ received' = {} /\ fresh' = TRUE
      /\ state' \in {"Seeding", "Downloading"}
      /\ UNCHANGED <<recreated, accepted, answered, ended, collected, last, faults>>
  BY <1>2, <1>3 DEF RunCheck, writerVars
<1>7. QED
  BY <1>1, <1>2, <1>3, <1>4, <1>5, <1>6

LEMMA RunCheckStep == ASSUME Structure, RunCheck PROVE Structure'
<1>1. /\ ~checked /\ checked' = TRUE /\ started = {} /\ have = {} /\ received = {}
      /\ accepted = <<>> /\ answered = <<>> /\ collected = 0
      /\ started' = {} /\ received' = {}
      /\ state' \in {"Seeding", "Downloading"} /\ fresh' = TRUE
      /\ UNCHANGED <<recreated, accepted, answered, ended, collected, last, faults>>
      /\ Examined
  BY RunCheckFacts
<1>2. /\ have' \subseteq Piece /\ card' \in [Block -> BOOLEAN]
      /\ buffer' \in [Piece -> Held \cup {NoBuffer}]
      /\ \A p \in Piece : buffer'[p] = buffer[p] \/ buffer'[p] = NoBuffer
      /\ grown' = grown \/ grown' = Cardinality(Piece)
      /\ resume' = resume \/ resume' = NoResume \/ resume' = have'
      /\ (disk' = disk /\ card' = card) \/ disk' = card'
  BY <1>1 DEF Examined
<1>3. TypeOK'
  <2>1. /\ state' \in Active /\ checked' \in BOOLEAN /\ fresh' \in BOOLEAN
        /\ resume' \in (SUBSET Piece) \cup {NoResume, Damaged}
        /\ disk' \in [Block -> BOOLEAN]
    <3>1. state' \in Active /\ checked' \in BOOLEAN /\ fresh' \in BOOLEAN
      BY <1>1 DEF Active
    <3>2. resume \in (SUBSET Piece) \cup {NoResume, Damaged} /\ have' \in SUBSET Piece
      BY <1>2 DEF Structure, TypeOK
    <3>3. disk' \in [Block -> BOOLEAN]
      BY <1>2 DEF Structure, TypeOK
    <3>4. resume' \in (SUBSET Piece) \cup {NoResume, Damaged}
      BY <1>2, <3>2, Zenon
    <3>5. QED
      BY <3>1, <3>3, <3>4
  <2>2. grown' \in {0, Cardinality(Piece)} \/ (TooSmall' /\ grown' = 1)
    <3>1. CASE grown' = grown
      BY <1>1, <3>1 DEF Structure, TypeOK, TooSmall
    <3>2. QED
      BY <1>2, <3>1
  <2>3. QED
    BY <1>1, <1>2, <2>1, <2>2 DEF Structure, TypeOK
<1>4. Buffered' \subseteq Buffered /\ \A p \in Buffered' : buffer'[p] = buffer[p]
  BY <1>2 DEF Buffered
<1>5. BuffersWithinBudget'
  <2>1. BufferBudget \in Nat /\ IsFiniteSet(Piece)
    BY StoreAssumption
  <2>2. IsFiniteSet(Buffered) /\ Cardinality(Buffered) \in Nat
    BY <2>1, FS_Subset, FS_CardinalityType DEF Buffered
  <2>3. Cardinality(Buffered') \in Nat /\ Cardinality(Buffered') <= Cardinality(Buffered)
    BY <1>4, <2>2, FS_Subset, FS_CardinalityType
  <2>4. QED
    BY <2>1, <2>2, <2>3 DEF Structure, BuffersWithinBudget
<1>6. AnswersMatch' /\ BuffersAsArrived' /\ CardIsDisk'
  BY <1>1, <1>2, <1>4 DEF Structure, AnswersMatch, BuffersAsArrived, CardIsDisk
<1>7. HandedOnce'
  <2>1. InHands' = {}
    BY <1>1, EmptySeq DEF InHands
  <2>2. QED
    BY <2>1 DEF HandedOnce
<1>8. PickerAgrees' /\ CheckedFirst'
  BY <1>1 DEF Structure, PickerAgrees, CheckedFirst
<1>9. QED
  BY <1>3, <1>5, <1>6, <1>7, <1>8 DEF Structure

\* The piece that the writer answers about, and what it does to the card
Turn == Len(answered) + 1

LEMMA AnswerFacts ==
    ASSUME Structure, NEW v \in {"written", "write_failed", "hash_failed"}, WriterAnswers(v)
    PROVE  /\ Turn \in 1 .. Len(accepted) /\ Turn \in InHands
           /\ accepted[Turn] \in Job /\ accepted[Turn].piece \in Handed
           /\ v \in Writer!Verdicts(accepted[Turn])
           /\ answered' \in Seq(Reply) /\ Len(answered') = Turn
           /\ answered'[Turn] = [job |-> accepted[Turn], verdict |-> v]
           /\ \A i \in 1 .. Len(answered) : answered'[i] = answered[i]
           /\ UNCHANGED <<accepted, ended, state, recreated, fresh, checked, buffer, started, received,
                          have, collected, resume, last, faults>>
           /\ card' \in [Block -> BOOLEAN] /\ disk' \in [Block -> BOOLEAN]
           /\ \A x \in Block : card'[x] = card[x]
                               \/ (state # "Gone" /\ x \in BlocksOf(accepted[Turn].piece)
                                   /\ card'[x] = TRUE)
           /\ v = "written" => /\ state # "Gone"
                               /\ \A x \in BlocksOf(accepted[Turn].piece) : card'[x] = TRUE
           /\ grown' \in {grown, Cardinality(Piece)}
           /\ CardIsDisk'
<1> USE DEF Structure
<1>1. /\ Writer!Answer(v)
      /\ UNCHANGED <<state, recreated, fresh, checked, buffer, started, received, have, collected,
                     resume, last, faults>>
  BY DEF WriterAnswers, pickerVars
<1>2. /\ accepted \in Seq(Job) /\ answered \in Seq(Reply) /\ Len(accepted) \in Nat
      /\ Len(answered) \in Nat /\ collected \in 0 .. Len(answered)
  BY LenProperties DEF TypeOK
<1>3. /\ Len(answered) < Len(accepted)
      /\ v \in Writer!Verdicts(accepted[Turn])
      /\ answered' = Append(answered, [job |-> accepted[Turn], verdict |-> v])
      /\ UNCHANGED <<accepted, ended>>
  BY <1>1 DEF Writer!Answer, Turn
<1>4. Turn \in 1 .. Len(accepted) /\ Turn \in InHands
  BY <1>2, <1>3 DEF Turn, InHands
<1>5. accepted[Turn] \in Job /\ accepted[Turn].piece \in Handed
  BY <1>2, <1>4, ElementOfSeq DEF HandedOnce
<1>6. [job |-> accepted[Turn], verdict |-> v] \in Reply
  BY <1>5 DEF Reply
<1>7. /\ answered' \in Seq(Reply) /\ Len(answered') = Turn
      /\ answered'[Turn] = [job |-> accepted[Turn], verdict |-> v]
      /\ \A i \in 1 .. Len(answered) : answered'[i] = answered[i]
  BY <1>2, <1>3, <1>6, AppendProperties DEF Turn
<1> DEFINE q == accepted[Turn].piece
<1> DEFINE w == [x \in BlocksOf(q) |-> TRUE]
<1>8. q \in Piece
  BY <1>5 DEF Handed
<1>9. DOMAIN w = BlocksOf(q) /\ DOMAIN w \subseteq Block /\ \A x \in DOMAIN w : w[x] = TRUE
  BY <1>8, Blocks
<1>10. \/ v = "written" /\ state # "Gone" /\ WriteThrough(w)
       \/ v = "write_failed" /\ state # "Gone" /\ WriteFails(w)
       \/ v # "written" /\ CardUnchanged
  BY DEF WriterAnswers, Turn
<1> HIDE DEF w, q
<1>11. CASE v = "written" /\ state # "Gone" /\ WriteThrough(w)
  <2>1. /\ card' \in [Block -> BOOLEAN] /\ disk' \in [Block -> BOOLEAN]
        /\ \A x \in Block : card'[x] = IF x \in DOMAIN w THEN w[x] ELSE card[x]
        /\ grown' \in {grown, Cardinality(Piece)}
        /\ CardIsDisk /\ "tail" \notin faults => disk' = card'
    BY <1>9, <1>11, Writing
  <2>2. \A x \in BlocksOf(q) : card'[x] = TRUE
    BY <1>9, <2>1
  <2>3. \A x \in Block : card'[x] = card[x] \/ (x \in BlocksOf(q) /\ card'[x] = TRUE)
    BY <1>9, <2>1
  <2>4. CardIsDisk'
    BY <1>1, <2>1 DEF CardIsDisk
  <2>5. QED
    BY <1>1, <1>3, <1>4, <1>5, <1>7, <1>11, <2>1, <2>2, <2>3, <2>4 DEF q, Turn
<1>12. CASE v = "write_failed" /\ state # "Gone" /\ WriteFails(w)
  <2>1. /\ card' \in [Block -> BOOLEAN] /\ disk' \in [Block -> BOOLEAN]
        /\ \A x \in Block : card'[x] = card[x] \/ (x \in DOMAIN w /\ card'[x] = w[x])
        /\ grown' \in {grown, Cardinality(Piece)}
        /\ CardIsDisk /\ "tail" \notin faults => disk' = card'
    BY <1>9, <1>12, WritingSome DEF Writes
  <2>2. \A x \in Block : card'[x] = card[x] \/ (x \in BlocksOf(q) /\ card'[x] = TRUE)
    BY <1>9, <2>1
  <2>3. CardIsDisk'
    BY <1>1, <2>1 DEF CardIsDisk
  <2>4. QED
    BY <1>1, <1>3, <1>4, <1>5, <1>7, <1>12, <2>1, <2>2, <2>3 DEF q
<1>13. CASE v # "written" /\ CardUnchanged
  <2>1. UNCHANGED <<card, disk, grown>>
    BY <1>13 DEF CardUnchanged
  <2>2. CardIsDisk' /\ card' \in [Block -> BOOLEAN] /\ disk' \in [Block -> BOOLEAN]
    BY <1>1, <2>1 DEF CardIsDisk, TypeOK
  <2>3. QED
    BY <1>1, <1>3, <1>4, <1>5, <1>7, <1>13, <2>1, <2>2
<1>14. QED
  BY <1>10, <1>11, <1>12, <1>13

LEMMA AnswerStep ==
    ASSUME Structure, NEW v \in {"written", "write_failed", "hash_failed"}, WriterAnswers(v)
    PROVE  Structure'
<1>1. /\ Turn \in 1 .. Len(accepted)
      /\ v \in Writer!Verdicts(accepted[Turn])
      /\ answered' \in Seq(Reply) /\ Len(answered') = Turn
      /\ answered'[Turn] = [job |-> accepted[Turn], verdict |-> v]
      /\ \A i \in 1 .. Len(answered) : answered'[i] = answered[i]
      /\ UNCHANGED <<accepted, ended, state, recreated, fresh, checked, buffer, started, received,
                     have, collected, resume, last, faults>>
      /\ card' \in [Block -> BOOLEAN] /\ disk' \in [Block -> BOOLEAN]
      /\ grown' \in {grown, Cardinality(Piece)}
      /\ CardIsDisk'
  BY AnswerFacts
<1>2. /\ Len(answered) \in Nat /\ collected \in 0 .. Len(answered)
  BY LenProperties DEF Structure, TypeOK
<1>3. TypeOK'
  <2>1. grown' \in {0, Cardinality(Piece)} \/ (TooSmall' /\ grown' = 1)
    <3>1. CASE grown' = grown
      BY <1>1, <3>1 DEF Structure, TypeOK, TooSmall
    <3>2. QED
      BY <1>1, <3>1
  <2>2. collected' \in 0 .. Len(answered')
    BY <1>1, <1>2 DEF Turn
  <2>3. QED
    BY <1>1, <2>1, <2>2 DEF Structure, TypeOK
<1>4. AnswersMatch'
  <2>1. /\ ended' = FALSE /\ Len(answered') <= Len(accepted')
    BY <1>1 DEF Structure, AnswersMatch
  <2>2. \A i \in 1 .. Len(answered') : i = Turn \/ i \in 1 .. Len(answered)
    BY <1>1, <1>2 DEF Turn
  <2>3. ASSUME NEW i \in 1 .. Len(answered')
        PROVE  /\ answered'[i].job = accepted[i]
               /\ answered'[i].verdict \in Writer!Verdicts(accepted[i])
    BY <1>1, <2>2, <2>3 DEF Structure, AnswersMatch
  <2>4. QED
    BY <1>1, <2>1, <2>3 DEF AnswersMatch, Writer!Verdicts
<1>5. Buffered' = Buffered /\ Handed' = Handed
  BY <1>1 DEF Buffered, Handed
<1>6. BuffersWithinBudget' /\ HandedOnce' /\ PickerAgrees' /\ CheckedFirst' /\ BuffersAsArrived'
  BY <1>1, <1>5 DEF Structure, BuffersWithinBudget, HandedOnce, InHands, PickerAgrees,
                    CheckedFirst, BuffersAsArrived
<1>7. QED
  BY <1>1, <1>3, <1>4, <1>6 DEF Structure

\* What a turn collects: the pieces answered about were in the writer's hands
LEMMA Collected ==
    ASSUME Structure
    PROVE  /\ \A v : \A q \in Answered(v) :
                 \E i \in collected + 1 .. Len(answered) :
                     /\ i \in InHands /\ q = accepted[i].piece
                     /\ answered[i].verdict = v /\ answered[i].job = accepted[i]
           /\ \A v : Answered(v) \subseteq Handed
           /\ \A u, v : u # v => Answered(u) \cap Answered(v) = {}
           /\ \A v : \A i \in InHands : Len(answered) < i => accepted[i].piece \notin Answered(v)
<1> USE DEF Structure
<1>1. Len(answered) \in Nat /\ Len(accepted) \in Nat /\ collected \in 0 .. Len(answered)
      /\ Len(answered) <= Len(accepted)
  BY LenProperties DEF TypeOK, AnswersMatch
<1>2. ASSUME NEW v, NEW q \in Answered(v)
      PROVE  \E i \in collected + 1 .. Len(answered) :
                 /\ i \in InHands /\ q = accepted[i].piece
                 /\ answered[i].verdict = v /\ answered[i].job = accepted[i]
  <2>1. PICK r \in NewAnswers : r.verdict = v /\ q = r.job.piece
    BY <1>2 DEF Answered
  <2>2. PICK i \in collected + 1 .. Len(answered) : r = answered[i]
    BY DEF NewAnswers
  <2>3. i \in 1 .. Len(answered) /\ i \in InHands
    BY <1>1 DEF InHands
  <2>4. answered[i].job = accepted[i]
    BY <2>3 DEF AnswersMatch
  <2>5. QED
    BY <2>1, <2>2, <2>3, <2>4
<1>3. \A v : Answered(v) \subseteq Handed
  BY <1>2 DEF HandedOnce
<1>4. ASSUME NEW u, NEW v, u # v, NEW q \in Answered(u) \cap Answered(v)
      PROVE  FALSE
  <2>1. PICK i \in InHands : q = accepted[i].piece /\ answered[i].verdict = u
    BY <1>2, <1>4
  <2>2. PICK j \in InHands : q = accepted[j].piece /\ answered[j].verdict = v
    BY <1>2, <1>4
  <2>3. i = j
    BY <2>1, <2>2 DEF HandedOnce
  <2>4. QED
    BY <1>4, <2>1, <2>2, <2>3
<1>5. ASSUME NEW v, NEW i \in InHands, Len(answered) < i, accepted[i].piece \in Answered(v)
      PROVE  FALSE
  <2>1. PICK j \in collected + 1 .. Len(answered) : j \in InHands /\ accepted[i].piece = accepted[j].piece
    BY <1>2, <1>5
  <2>2. i = j
    BY <2>1 DEF HandedOnce
  <2>3. i \in Int /\ j <= Len(answered)
    BY <1>1, <2>1 DEF InHands
  <2>4. QED
    BY <1>1, <1>5, <2>2, <2>3
<1>6. QED
  BY <1>2, <1>3, <1>4, <1>5

\* A turn: what was written is had, what was refused is free again, picks are in progress
Turned(picks) ==
    /\ state \in {"Downloading", "Seeding"} /\ checked
    /\ Answered("written") \subseteq Handed /\ Answered("hash_failed") \subseteq Handed
    /\ Answered("written") \cap Answered("hash_failed") = {}
    /\ collected' = Len(answered)
    /\ have' = have \cup Answered("written")
    /\ started' = (started \ Answered("written")) \cup picks
    /\ picks \subseteq Piece \ (have' \cup started)
    /\ \A x \in Block : x \in received' <=>
           x \in received /\ x[1] \notin Answered("written") \cup Answered("hash_failed")
    /\ received' \subseteq received
    /\ buffer' = [p \in Piece |-> IF p \in Answered("hash_failed") THEN NoBuffer ELSE buffer[p]]
    /\ resume' = resume \/ resume' = have'
    /\ state' \in {"Downloading", "Seeding", "Failed"}
    /\ \A p \in Piece : p \in Handed' <=>
           p \in Handed /\ p \notin Answered("written") \cup Answered("hash_failed")
    /\ UNCHANGED <<card, disk, grown, recreated, fresh, checked, accepted, answered, ended, last,
                   faults>>

LEMMA TickFacts ==
    ASSUME Structure, NEW picks \in SUBSET Piece, NEW save \in BOOLEAN, Tick(picks, save)
    PROVE  Turned(picks)
<1> USE DEF Structure
<1> DEFINE W == Answered("written")
<1> DEFINE R == Answered("hash_failed")
<1>1. W \subseteq Handed /\ R \subseteq Handed /\ W \cap R = {}
  BY Collected
<1>2. /\ state \in {"Downloading", "Seeding"}
      /\ collected' = Len(answered)
      /\ have' = have \cup W
      /\ received' = received \ UNION {BlocksOf(p) : p \in W \cup R}
      /\ buffer' = [p \in Piece |-> IF p \in R THEN NoBuffer ELSE buffer[p]]
      /\ picks \subseteq Piece \ (have' \cup started)
      /\ UNCHANGED <<card, disk, grown, recreated, fresh, checked, accepted, answered, ended, last, faults>>
  BY DEF Tick, CardUnchanged, writerVars
<1>3. /\ started' = (started \ W) \cup picks
      /\ resume' = resume \/ resume' = have'
      /\ state' \in {"Downloading", "Seeding", "Failed"}
  BY <1>2 DEF Tick, Saved
<1> HIDE DEF W, R
<1>4. W \subseteq Piece /\ R \subseteq Piece
  BY <1>1 DEF Handed
<1>5. \A x \in Block : x \in received' <=> x \in received /\ x[1] \notin W \cup R
  <2>1. \A x \in Block : x \in UNION {BlocksOf(p) : p \in W \cup R} <=> x[1] \in W \cup R
    BY <1>4, Blocks
  <2>2. QED
    BY <1>2, <2>1
<1>6. ASSUME NEW p \in Piece
      PROVE  p \in Handed' <=> p \in Handed /\ p \notin W \cup R
  <2>1. p \in Handed' <=> p \notin have' /\ BlocksOf(p) \subseteq received'
    BY DEF Handed
  <2>2. p \in Handed <=> p \notin have /\ BlocksOf(p) \subseteq received
    BY DEF Handed
  <2>3. BlocksOf(p) \subseteq received' <=> BlocksOf(p) \subseteq received /\ p \notin W \cup R
    <3>1. \A x \in BlocksOf(p) : x \in received' <=> x \in received /\ p \notin W \cup R
      BY <1>5, Blocks
    <3>2. <<p, 1>> \in BlocksOf(p)
      BY Blocks
    <3>3. QED
      BY <3>1, <3>2
  <2>4. QED
    BY <1>2, <2>1, <2>2, <2>3
<1>7. checked
  BY <1>2 DEF CheckedFirst
<1>8. received' \subseteq received
  BY <1>2
<1>9. QED
  BY <1>1, <1>2, <1>3, <1>5, <1>6, <1>7, <1>8 DEF W, R, Turned

LEMMA TickStep ==
    ASSUME Structure, NEW picks \in SUBSET Piece, NEW save \in BOOLEAN, Tick(picks, save)
    PROVE  Structure'
<1> DEFINE W == Answered("written")
<1> DEFINE R == Answered("hash_failed")
<1>1. /\ state \in {"Downloading", "Seeding"} /\ checked
      /\ W \subseteq Handed /\ R \subseteq Handed /\ W \cap R = {}
      /\ collected' = Len(answered)
      /\ have' = have \cup W
      /\ started' = (started \ W) \cup picks
      /\ picks \subseteq Piece \ (have' \cup started)
      /\ received' \subseteq received
      /\ \A x \in Block : x \in received' <=> x \in received /\ x[1] \notin W \cup R
      /\ buffer' = [p \in Piece |-> IF p \in R THEN NoBuffer ELSE buffer[p]]
      /\ resume' = resume \/ resume' = have'
      /\ state' \in {"Downloading", "Seeding", "Failed"}
      /\ \A p \in Piece : p \in Handed' <=> p \in Handed /\ p \notin W \cup R
      /\ UNCHANGED <<card, disk, grown, recreated, fresh, checked, accepted, answered, ended, last, faults>>
  <2>1. Turned(picks)
    BY TickFacts
  <2>2. QED
    BY <2>1 DEF Turned
<1>2. \A i \in InHands : Len(answered) < i => accepted[i].piece \notin W \cup R
  BY Collected
<1> USE DEF Structure
<1>3. W \subseteq Piece /\ W \subseteq started
  BY <1>1, HandedInProgress DEF Handed
<1> HIDE DEF W, R
<1>4. Len(answered) \in Nat /\ Len(accepted) \in Nat /\ collected \in 0 .. Len(answered)
      /\ Len(answered) <= Len(accepted)
  BY LenProperties DEF TypeOK, AnswersMatch
<1>5. TypeOK'
  <2>1. grown' \in {0, Cardinality(Piece)} \/ (TooSmall' /\ grown' = 1)
    BY <1>1 DEF TypeOK, TooSmall
  <2>2. have' \subseteq Piece /\ started' \subseteq Piece /\ received' \subseteq Block
    BY <1>1, <1>3 DEF TypeOK
  <2>3. buffer' \in [Piece -> Held \cup {NoBuffer}]
    BY <1>1 DEF TypeOK
  <2>4. resume' \in (SUBSET Piece) \cup {NoResume, Damaged}
    BY <1>1, <2>2 DEF TypeOK
  <2>5. state' \in Active
    BY <1>1 DEF Active
  <2>6. collected' \in 0 .. Len(answered')
    BY <1>1, <1>4
  <2>7. QED
    BY <1>1, <2>1, <2>2, <2>3, <2>4, <2>5, <2>6 DEF TypeOK
<1>6. BuffersWithinBudget'
  <2>1. BufferBudget \in Nat /\ IsFiniteSet(Piece)
    BY StoreAssumption
  <2>2. Buffered \in SUBSET Piece /\ Buffered' \in SUBSET Buffered
    BY <1>1 DEF Buffered
  <2>3. IsFiniteSet(Buffered) /\ Cardinality(Buffered) \in Nat
    BY <2>1, <2>2, FS_Subset, FS_CardinalityType, Zenon
  <2>4. Cardinality(Buffered') \in Nat /\ Cardinality(Buffered') <= Cardinality(Buffered)
    BY <2>2, <2>3, FS_Subset, FS_CardinalityType, Zenon
  <2>5. QED
    BY <2>1, <2>3, <2>4 DEF BuffersWithinBudget
<1>7. AnswersMatch' /\ CardIsDisk'
  BY <1>1 DEF AnswersMatch, CardIsDisk
<1>8. HandedOnce'
  <2>1. \A i \in InHands' : i \in InHands /\ Len(answered) < i
    BY <1>1, <1>4 DEF InHands
  <2>2. \A i \in InHands' : accepted[i].piece \in Handed'
    BY <1>1, <1>2, <2>1 DEF HandedOnce, Handed
  <2>3. QED
    BY <1>1, <2>1, <2>2 DEF HandedOnce
<1>9. PickerAgrees'
  <2>1. started' \cap have' = {}
    BY <1>1 DEF PickerAgrees
  <2>2. \A x \in received' : x[1] \in started'
    BY <1>1 DEF PickerAgrees, TypeOK
  <2>3. QED
    BY <2>1, <2>2 DEF PickerAgrees
<1>10. CheckedFirst'
  BY <1>1 DEF CheckedFirst
<1>11. BuffersAsArrived'
  BY <1>1 DEF BuffersAsArrived, Buffered
<1>12. QED
  BY <1>5, <1>6, <1>7, <1>8, <1>9, <1>10, <1>11

\* Without a Torrent there is nothing to keep
LEMMA Forgotten ==
    ASSUME Structure, Forget, state' \in {"Off", "Closed"}, UNCHANGED <<last, faults>>
    PROVE  /\ BuffersWithinBudget' /\ AnswersMatch' /\ HandedOnce' /\ PickerAgrees'
           /\ CheckedFirst' /\ BuffersAsArrived'
<1>1. /\ buffer' = NoBuffers /\ checked' = FALSE /\ recreated' = FALSE /\ fresh' = TRUE
      /\ started' = {} /\ received' = {} /\ have' = {}
      /\ accepted' = <<>> /\ answered' = <<>> /\ ended' = FALSE /\ collected' = 0
  BY DEF Forget
<1>2. Buffered' = {}
  BY <1>1 DEF Buffered, NoBuffers
<1>3. Len(accepted') = 0 /\ Len(answered') = 0
  BY <1>1, EmptySeq
<1>4. BuffersWithinBudget'
  BY <1>2, Pieces DEF BuffersWithinBudget
<1>5. AnswersMatch'
  BY <1>1, <1>3 DEF AnswersMatch
<1>6. HandedOnce'
  BY <1>1, <1>3 DEF HandedOnce, InHands
<1>7. PickerAgrees' /\ CheckedFirst' /\ BuffersAsArrived'
  BY <1>1, <1>2 DEF PickerAgrees, CheckedFirst, BuffersAsArrived
<1>8. QED
  BY <1>4, <1>5, <1>6, <1>7

LEMMA ForgottenTypes ==
    ASSUME Structure, Forget, state' \in {"Off", "Closed"}, UNCHANGED <<resume, last, faults>>,
           card' \in [Block -> BOOLEAN], disk' \in [Block -> BOOLEAN],
           grown' = grown \/ grown' = Cardinality(Piece)
    PROVE  TypeOK'
<1>1. /\ buffer' \in [Piece -> Held \cup {NoBuffer}]
      /\ checked' \in BOOLEAN /\ recreated' \in BOOLEAN /\ fresh' \in BOOLEAN
      /\ started' \subseteq Piece /\ received' \subseteq Block /\ have' \subseteq Piece
  BY DEF Forget, NoBuffers
<1>2. accepted' \in Seq(Job) /\ answered' \in Seq(Reply) /\ collected' \in 0 .. Len(answered')
  BY EmptySeq DEF Forget
<1>3. grown' \in {0, Cardinality(Piece)} \/ (TooSmall' /\ grown' = 1)
  <2>1. CASE grown' = grown
    BY <2>1 DEF Structure, TypeOK, TooSmall
  <2>2. QED
    BY <2>1
<1>4. resume' \in (SUBSET Piece) \cup {NoResume, Damaged} /\ last' \in [Block -> BOOLEAN]
      /\ faults' \in FaultSets
  BY DEF Structure, TypeOK
<1>5. QED
  BY <1>1, <1>2, <1>3, <1>4 DEF TypeOK

\* What the buffers hold when the storage is closed
Remains ==
    [x \in {y \in Block : y[1] \in Buffered /\ buffer[y[1]][y[2]] # "absent"}
        |-> buffer[x[1]][x[2]] = "right"]

LEMMA CloseFacts ==
    ASSUME Structure, Close
    PROVE  /\ state = "Stopping" /\ state' = "Closed" /\ Forget /\ UNCHANGED <<resume, last, faults>>
           /\ card' \in [Block -> BOOLEAN] /\ disk' = card'
           /\ grown' = grown \/ grown' = Cardinality(Piece)
           /\ \A x \in Block :
                \/ card'[x] = card[x]
                \/ /\ x[1] \in Buffered /\ buffer[x[1]][x[2]] # "absent"
                   /\ card'[x] = (buffer[x[1]][x[2]] = "right")
           /\ "io" \notin faults => \A x \in Block :
                x[1] \in Buffered /\ buffer[x[1]][x[2]] = "right" => card'[x]
<1>1. PICK D \in SUBSET DOMAIN Remains :
           /\ "io" \notin faults => D = DOMAIN Remains
           /\ card' = [x \in Block |-> IF x \in D THEN Remains[x] ELSE card[x]]
           /\ grown' = IF D = {} THEN grown ELSE Allocated
  BY DEF Close, Remains
<1>2. \A x \in D : /\ x[1] \in Buffered /\ buffer[x[1]][x[2]] # "absent"
                   /\ Remains[x] = (buffer[x[1]][x[2]] = "right")
  BY DEF Remains
<1>3. \A x \in D : Remains[x] \in BOOLEAN
  BY <1>2
<1>4. card' \in [Block -> BOOLEAN]
  BY <1>1, <1>3 DEF Structure, TypeOK
<1>5. \A x \in Block :
          \/ card'[x] = card[x]
          \/ /\ x[1] \in Buffered /\ buffer[x[1]][x[2]] # "absent"
             /\ card'[x] = (buffer[x[1]][x[2]] = "right")
  BY <1>1, <1>2
<1>6. grown' = grown \/ grown' = Cardinality(Piece)
  BY <1>1 DEF Allocated
<1>7. /\ state = "Stopping" /\ state' = "Closed" /\ Forget /\ UNCHANGED <<resume, last, faults>>
      /\ disk' = card'
  BY DEF Close
<1>9. ASSUME "io" \notin faults, NEW x \in Block, x[1] \in Buffered, buffer[x[1]][x[2]] = "right"
      PROVE  card'[x]
  <2>1. x \in D /\ Remains[x]
    BY <1>1, <1>9 DEF Remains
  <2>2. QED
    BY <1>1, <1>9, <2>1
<1>8. QED
  BY <1>4, <1>5, <1>6, <1>7, <1>9

LEMMA EndStep == ASSUME Structure, Close \/ Crash \/ Destroyed PROVE Structure'
<1>1. /\ Forget /\ state' \in {"Off", "Closed"} /\ UNCHANGED <<resume, last, faults>>
      /\ card' \in [Block -> BOOLEAN] /\ disk' \in [Block -> BOOLEAN]
      /\ grown' = grown \/ grown' = Cardinality(Piece)
      /\ CardIsDisk'
  <2>1. CASE Close
    BY <2>1, CloseFacts DEF CardIsDisk
  <2>2. CASE Crash
    BY <2>2 DEF Crash, Structure, TypeOK, CardIsDisk
  <2>3. CASE Destroyed
    BY <2>3 DEF Destroyed, CardUnchanged, Structure, TypeOK, CardIsDisk
  <2>4. QED
    BY <2>1, <2>2, <2>3
<1>2. QED
  BY <1>1, Forgotten, ForgottenTypes DEF Structure

LEMMA DeleteStep == ASSUME Structure, DeleteFiles PROVE Structure'
<1>1. /\ state \in Alive /\ state' = "Gone" /\ grown' = 0
      /\ card' = [x \in Block |-> FALSE] /\ disk' = card'
      /\ buffer' = NoBuffers /\ fresh' = TRUE /\ resume' = NoResume
      /\ UNCHANGED <<recreated, checked, started, received, have, accepted, answered, ended,
                     collected, last, faults>>
  BY DEF DeleteFiles, pickerVars, writerVars
<1>2. Buffered' = {} /\ Handed' = Handed
  BY <1>1 DEF Buffered, NoBuffers, Handed
<1>3. BuffersWithinBudget'
  BY <1>2, Pieces DEF BuffersWithinBudget
<1>4. AnswersMatch' /\ HandedOnce' /\ PickerAgrees' /\ CheckedFirst' /\ BuffersAsArrived'
  BY <1>1, <1>2 DEF Structure, AnswersMatch, HandedOnce, InHands, PickerAgrees, CheckedFirst,
                    BuffersAsArrived
<1>5. card' \in [Block -> BOOLEAN] /\ disk' \in [Block -> BOOLEAN] /\ CardIsDisk'
  BY <1>1 DEF CardIsDisk
<1>6. buffer' \in [Piece -> Held \cup {NoBuffer}]
  BY <1>1 DEF NoBuffers
<1>7. TypeOK'
  BY <1>1, <1>5, <1>6 DEF Structure, TypeOK
<1>8. QED
  BY <1>3, <1>4, <1>5, <1>7 DEF Structure

LEMMA StructureInit == Init => Structure
<1> SUFFICES ASSUME Init PROVE Structure
  OBVIOUS
<1>1. /\ state = "Closed" /\ checked = FALSE /\ recreated = FALSE /\ fresh = TRUE /\ faults \in FaultSets
      /\ buffer = NoBuffers /\ started = {} /\ received = {} /\ have = {}
      /\ collected = 0 /\ last = [x \in Block |-> FALSE] /\ disk = card
      /\ accepted = <<>> /\ answered = <<>> /\ ended = FALSE
  BY DEF Init, Writer!Init
<1>2. card \in [Block -> BOOLEAN]
  BY DEF Init
<1>3. grown \in {0, Cardinality(Piece)} \/ (TooSmall /\ grown = 1)
  <2>1. grown = 0 \/ grown = Cardinality(Piece) \/ ("ordinary" \in faults /\ grown = 1)
    BY DEF Init
  <2>2. Cardinality(Piece) \in Nat \ {0}
    BY Pieces
  <2>3. QED
    BY <2>1, <2>2 DEF TooSmall
<1>4. resume \in (SUBSET Piece) \cup {NoResume, Damaged}
  <2>1. resume = NoResume \/ resume \in SUBSET Piece
    BY DEF Init
  <2>2. QED
    BY <2>1
<1>5. TypeOK
  <2>1. buffer \in [Piece -> Held \cup {NoBuffer}] /\ last \in [Block -> BOOLEAN]
        /\ disk \in [Block -> BOOLEAN]
    BY <1>1, <1>2 DEF NoBuffers
  <2>2. accepted \in Seq(Job) /\ answered \in Seq(Reply) /\ collected \in 0 .. Len(answered)
    BY <1>1, EmptySeq
  <2>3. QED
    BY <1>1, <1>2, <1>3, <1>4, <2>1, <2>2 DEF TypeOK
<1>6. Buffered = {} /\ Len(accepted) = 0 /\ Len(answered) = 0
  BY <1>1, EmptySeq DEF Buffered, NoBuffers
<1>7. BuffersWithinBudget
  BY <1>6, Pieces DEF BuffersWithinBudget
<1>8. AnswersMatch /\ HandedOnce /\ PickerAgrees /\ CheckedFirst /\ BuffersAsArrived /\ CardIsDisk
  BY <1>1, <1>6 DEF AnswersMatch, HandedOnce, InHands, PickerAgrees, CheckedFirst,
                    BuffersAsArrived, CardIsDisk
<1>9. QED
  BY <1>5, <1>7, <1>8 DEF Structure

LEMMA StructureStep == Structure /\ [Next]_vars => Structure'
<1> SUFFICES ASSUME Structure, [Next]_vars PROVE Structure'
  OBVIOUS
<1>1. CASE Open \/ Recreate \/ Pause \/ Unpause \/ Stop
           \/ (\E p \in Piece : ReadBlock(p)) \/ UNCHANGED vars
  BY <1>1, AroundStep
<1>2. CASE RunCheck
  BY <1>2, RunCheckStep
<1>3. ASSUME NEW p \in Piece, NEW b \in BlocksIn, NEW ok \in BOOLEAN, ReceiveBlock(p, b, ok)
      PROVE  Structure'
  BY <1>3, ReceiveStep
<1>4. ASSUME NEW v \in {"written", "write_failed", "hash_failed"}, WriterAnswers(v)
      PROVE  Structure'
  BY <1>4, AnswerStep
<1>5. ASSUME NEW P \in SUBSET Piece, NEW save \in BOOLEAN, Tick(P, save)
      PROVE  Structure'
  BY <1>5, TickStep
<1>6. CASE Close \/ Crash \/ Destroyed
  BY <1>6, EndStep
<1>7. CASE DeleteFiles
  BY <1>7, DeleteStep
<1>8. QED
  BY <1>1, <1>2, <1>3, <1>4, <1>5, <1>6, <1>7 DEF Next

\* Whatever goes wrong, the types hold, the writer's answers match what it was given, a piece
\* is in its hands once while the picker holds it for complete, and the buffers hold the
\* latest bytes received.
THEOREM StoreKeepsItsBooks == Spec => []Structure
BY StructureInit, StructureStep, PTL DEF Spec

\* Memory never assembles more than kBufferBudget.
THEOREM MemoryIsBounded == Spec => []BuffersWithinBudget
<1>1. Structure => BuffersWithinBudget
  BY DEF Structure
<1>2. QED
  BY <1>1, StoreKeepsItsBooks, PTL

-----------------------------------------------------------------------------
(* What is had is right, as long as the faults can be survived             *)

\* The inductive part of Sound
Truth == HaveIsRight /\ WrongOnlyInProgress /\ WrittenIsRight /\ ResumeIsRight

LEMMA SameSafe ==
    ASSUME UNCHANGED <<card, buffer, faults>>
    PROVE  \A p : (Right(p)' <=> Right(p)) /\ (Safe(p)' <=> Safe(p))
BY DEF Safe, Right, Remembered

LEMMA ReceiveTruth ==
    ASSUME Structure, Survivable(faults), Truth,
           NEW p \in Piece, NEW b \in BlocksIn, NEW ok \in BOOLEAN, ReceiveBlock(p, b, ok)
    PROVE  Truth'
<1>1. /\ state \in Active /\ (ok \/ p \in started \ Handed)
      /\ UNCHANGED <<recreated, fresh, checked, collected, faults, answered>>
      /\ Kept(p, b, ok) \/ HandedOver(p, b, ok) \/ ReadAgain(p, b, ok) \/ Refused(p, b, ok)
  BY ReceiveCases DEF Survivable
<1>2. /\ started' \subseteq started /\ \A q \in started : q # p => q \in started'
      /\ Handed \subseteq Handed'
      /\ \A q \in Piece : q # p /\ q \in Handed' => q \in Handed
      /\ Completes(p, b) => p \in started \ Handed
  BY ReceivePicker
<1>3. card \in [Block -> BOOLEAN] /\ have \subseteq Piece
  BY DEF Structure, TypeOK
\* Only blocks of p reach the card, right ones unless p is still to be verified
<1>4. \A x \in Block : \/ card'[x] = card[x]
                       \/ x \in BlocksOf(p) /\ (p \in started \ Handed \/ card'[x] = TRUE)
  <2>1. CASE Kept(p, b, ok) \/ Refused(p, b, ok)
    <3>1. Writes(Direct(p, b, ok))
      BY <2>1 DEF Kept, Refused, Writes
    <3>2. /\ DOMAIN Direct(p, b, ok) \subseteq {<<p, b>>} /\ DOMAIN Direct(p, b, ok) \subseteq Block
          /\ \A x \in DOMAIN Direct(p, b, ok) : Direct(p, b, ok)[x] = ok
      BY DirectFacts
    <3>3. \A x \in Block :
              card'[x] = card[x] \/ (x \in DOMAIN Direct(p, b, ok) /\ card'[x] = Direct(p, b, ok)[x])
      BY <3>1, <3>2, WritingSome DEF Structure
    <3>4. <<p, b>> \in BlocksOf(p)
      BY Blocks
    <3>5. QED
      BY <1>1, <3>2, <3>3, <3>4
  <2>2. CASE HandedOver(p, b, ok)
    BY <2>2 DEF HandedOver, CardUnchanged
  <2>3. CASE ReadAgain(p, b, ok)
    <3>1. p \in started \ Handed
      BY <1>2, <2>3 DEF ReadAgain
    <3>2. DOMAIN Flushed(p, b, ok) \subseteq BlocksOf(p)
      BY FlushedFacts DEF Structure
    <3>3. \A x \in Block : card'[x] = card[x] \/ x \in DOMAIN Flushed(p, b, ok)
      BY <2>3, ReadAgainFacts DEF Structure
    <3>4. QED
      BY <3>1, <3>2, <3>3
  <2>4. QED
    BY <1>1, <2>1, <2>2, <2>3
<1>5. ASSUME NEW q \in Piece, q \notin started \ Handed, Right(q)
      PROVE  Right(q)'
  <2>1. ASSUME NEW x \in BlocksOf(q) PROVE card'[x]
    <3>1. x \in Block /\ card[x] /\ (x \in BlocksOf(p) => q = p)
      BY <1>5, <2>1, Blocks DEF Right
    <3>2. QED
      BY <1>4, <1>5, <3>1
  <2>2. QED
    BY <2>1 DEF Right
\* Memory keeps what is right of the pieces that are not in progress
<1>14. ASSUME NEW q \in Piece, q \notin started \ Handed, Remembered(q)
       PROVE  Remembered(q)'
  <2>1. /\ \A r \in Piece : r # p => buffer'[r] = buffer[r]
        /\ q \in Buffered /\ "early" \in faults' /\ \A c \in BlocksIn : buffer[q][c] = "right"
    BY <1>1, <1>14, ReceiveBuffers DEF Remembered, Whole, AllRight, Buffered
  <2>2. CASE q # p
    BY <1>14, <2>1, <2>2 DEF Remembered
  <2>3. CASE q = p
    <3>1. InMemory(p) /\ ~Completes(p, b) /\ ok
      BY <1>1, <1>2, <1>14, <2>1, <2>3 DEF InMemory
    <3>2. Kept(p, b, ok)
      BY <1>1, <3>1 DEF HandedOver, ReadAgain, Refused
    <3>3. buffer'[p] = Filled(p, b, ok)
      BY <3>2 DEF Kept, Structure, TypeOK
    <3>4. /\ Filled(p, b, ok) # NoBuffer
          /\ \A c \in BlocksIn : Filled(p, b, ok)[c] = IF c = b THEN Content(ok) ELSE buffer[p][c]
      BY <2>1, <2>3, <3>1, FilledFacts DEF Structure
    <3>5. \A c \in BlocksIn : Filled(p, b, ok)[c] = "right"
      BY <2>1, <2>3, <3>1, <3>4 DEF Content
    <3>6. QED
      BY <2>1, <2>3, <3>3, <3>4, <3>5 DEF Remembered, Whole, AllRight
  <2>4. QED
    BY <2>2, <2>3
<1>15. \A q \in Piece : q \notin started \ Handed /\ Safe(q) => Safe(q)'
  BY <1>5, <1>14 DEF Safe
<1>6. /\ have' = have \/ (have' = have \cup {p} /\ Right(p)')
      /\ have \subseteq have' /\ \A q \in have' : q \in have \/ (q = p /\ Right(p)')
  <2>1. have' = have \/ (have' = have \cup {p} /\ Right(p)')
    <3>1. CASE ReadAgain(p, b, ok)
      BY <3>1, ReadAgainFacts DEF Structure
    <3>2. CASE UNCHANGED have
      BY <3>2
    <3>3. QED
      BY <1>1, <3>1, <3>2 DEF Kept, HandedOver, Refused
  <2>2. QED
    BY <2>1
<1>7. /\ resume' = resume \/ resume' = have'
      /\ state' = state \/ state' = "Seeding" \/ state' = "Failed"
  <2>1. CASE ReadAgain(p, b, ok)
    BY <2>1 DEF ReadAgain
  <2>2. CASE Kept(p, b, ok) \/ HandedOver(p, b, ok) \/ Refused(p, b, ok)
    BY <2>2 DEF Kept, HandedOver, Refused
  <2>3. QED
    BY <1>1, <2>1, <2>2
<1>8. state # "Gone" /\ state' # "Gone" /\ state' # "Stopping"
  <2>1. state \in Active
    BY DEF ReceiveBlock
  <2>2. QED
    BY <1>7, <2>1 DEF Active
<1>9. HaveIsRight'
  <2>1. ASSUME NEW q \in have' PROVE Safe(q)'
    <3>1. CASE q \in have
      <4>1. q \notin started /\ Safe(q) /\ q \in Piece
        BY <1>3, <1>8, <3>1 DEF Structure, PickerAgrees, Truth, HaveIsRight
      <4>2. QED
        BY <1>15, <4>1
    <3>2. QED
      BY <1>6, <2>1, <3>1 DEF Safe
  <2>2. QED
    BY <2>1 DEF HaveIsRight
<1>10. WrongOnlyInProgress'
  <2>1. /\ \A q \in Piece : q # p => buffer'[q] = buffer[q]
        /\ buffer'[p] \in {NoBuffer, Filled(p, b, ok)}
    BY ReceiveBuffers
  <2>2. ASSUME NEW q \in Buffered', q \notin started' \ Handed', NEW c \in BlocksIn
        PROVE  buffer'[q][c] # "wrong"
    <3>1. q \in Piece /\ buffer'[q] # NoBuffer
      BY <2>2 DEF Buffered
    <3>2. CASE q # p
      <4>1. q \in Buffered /\ q \notin started \ Handed
        BY <1>2, <2>1, <2>2, <3>1, <3>2 DEF Buffered
      <4>2. QED
        BY <2>1, <3>1, <3>2, <4>1 DEF Truth, WrongOnlyInProgress
    <3>3. CASE q = p
      <4>1. Kept(p, b, ok) \/ Refused(p, b, ok)
        BY <1>1, <3>1, <3>3 DEF HandedOver, ReadAgain, Structure, TypeOK
      <4>2. p \notin started \ Handed
        <5>1. started' = started
          BY <4>1 DEF Kept, Refused
        <5>2. CASE Refused(p, b, ok)
          BY <2>2, <3>3, <5>1, <5>2 DEF Refused, Handed
        <5>3. CASE Kept(p, b, ok) /\ p \in started
          <6>1. received' = received \cup {<<p, b>>} /\ ~Completes(p, b) /\ have' = have
            BY <5>3 DEF Kept
          <6>2. CASE p \in Handed'
            <7>1. BlocksOf(p) \subseteq received \cup {<<p, b>>} /\ p \notin have
              BY <6>1, <6>2 DEF Handed
            <7>2. BlocksOf(p) \ received # {<<p, b>>}
              BY <5>3, <6>1 DEF Completes
            <7>3. BlocksOf(p) \subseteq received
              BY <7>1, <7>2
            <7>4. QED
              BY <7>1, <7>3 DEF Handed
          <6>3. QED
            BY <2>2, <3>3, <5>1, <6>2
        <5>4. QED
          BY <4>1, <5>2, <5>3
      <4>3. ok
        BY <1>1, <4>2
      <4>4. buffer'[p] = Filled(p, b, ok) /\ InMemory(p)
        BY <2>1, <3>1, <3>3, FilledFacts DEF Structure
      <4>5. Filled(p, b, ok)[c] = IF c = b THEN Content(ok)
                                  ELSE IF p \in Buffered THEN buffer[p][c] ELSE "absent"
        BY <4>4, FilledFacts DEF Structure
      <4>6. p \in Buffered => buffer[p][c] # "wrong"
        BY <4>2 DEF Truth, WrongOnlyInProgress
      <4>7. QED
        BY <3>3, <4>3, <4>4, <4>5, <4>6 DEF Content
    <3>4. QED
      BY <3>2, <3>3
  <2>3. QED
    BY <2>2 DEF WrongOnlyInProgress
<1>11. WrittenIsRight'
  <2>1. ASSUME NEW i \in collected + 1 .. Len(answered), answered[i].verdict = "written"
        PROVE  Right(answered[i].job.piece)'
    <3>1. i \in InHands /\ answered[i].job = accepted[i]
      BY LenProperties DEF Structure, TypeOK, AnswersMatch, InHands
    <3>2. accepted[i].piece \in Handed
      BY <3>1 DEF Structure, HandedOnce
    <3>3. Right(accepted[i].piece) /\ accepted[i].piece \in Piece
      BY <1>8, <2>1, <3>1, <3>2 DEF Truth, WrittenIsRight, Handed
    <3>4. \A q \in Piece : q \notin started \ Handed /\ Right(q) => \A x \in BlocksOf(q) : card'[x]
      BY <1>5 DEF Right
    <3>5. \A x \in BlocksOf(answered[i].job.piece) : card'[x]
      BY <3>1, <3>2, <3>3, <3>4
    <3>6. UNCHANGED answered[i].job.piece
      BY <1>1
    <3>7. QED
      BY <3>5, <3>6 DEF Right
  <2>2. QED
    BY <1>1, <2>1 DEF WrittenIsRight
<1>12. ResumeIsRight'
  <2>1. checked => Listed(resume) \subseteq have
    BY DEF Truth, ResumeIsRight
  <2>2. Listed(have') = have'
    BY <1>3, <1>6 DEF Listed
  <2>3. checked' \/ state' = "Stopping" => Listed(resume') \subseteq have'
    <3>1. Listed(resume') = Listed(resume) \/ Listed(resume') = have'
      BY <1>7, <2>2
    <3>2. QED
      BY <1>1, <1>6, <1>8, <2>1, <3>1
  <2>4. ASSUME ~(recreated' /\ ~checked'), NEW q \in Listed(resume')
        PROVE  Safe(q)'
    <3>1. CASE resume' = have'
      BY <1>8, <1>9, <2>2, <2>4, <3>1 DEF HaveIsRight
    <3>2. CASE resume' = resume
      <4>1. q \in Listed(resume)
        BY <2>4, <3>2
      <4>2. q \in Piece /\ Safe(q)
        BY <1>1, <2>4, <4>1 DEF Truth, ResumeIsRight, Listed
      <4>3. q \notin started
        BY <2>1, <4>1 DEF Structure, CheckedFirst, PickerAgrees
      <4>4. QED
        BY <1>15, <4>2, <4>3
    <3>3. QED
      BY <1>7, <3>1, <3>2
  <2>5. QED
    BY <1>8, <2>3, <2>4 DEF ResumeIsRight
<1>13. QED
  BY <1>9, <1>10, <1>11, <1>12 DEF Truth

LEMMA AroundTruth ==
    ASSUME Structure, Survivable(faults), Truth,
           \/ Open \/ Recreate \/ Pause \/ Unpause \/ Stop
           \/ \E p \in Piece : ReadBlock(p)
           \/ UNCHANGED vars
    PROVE  Truth'
<1>1. UNCHANGED <<buffer, started, received, have, accepted, answered, collected, checked, faults>>
  BY DEF Open, Recreate, Pause, Unpause, Stop, ReadBlock, vars, pickerVars, writerVars
<1>2. WrongOnlyInProgress'
  <2>1. Buffered' = Buffered /\ Handed' = Handed
    BY <1>1 DEF Buffered, Handed
  <2>2. QED
    BY <1>1, <2>1 DEF Truth, WrongOnlyInProgress
\* An emptied file holds no piece that anything relies on
<1>3. CASE Recreate
  <2>1. /\ state \in {"Off", "Closed"} /\ (state' = "Checking" \/ state' = "Refused")
        /\ recreated' = TRUE
    BY <1>3 DEF Recreate
  <2>2. ~checked /\ have = {} /\ accepted = <<>>
    BY <2>1 DEF Structure, CheckedFirst
  <2>3. collected + 1 .. Len(answered) = {}
    <3>1. Len(answered) \in Nat /\ Len(answered) <= 0 /\ collected \in 0 .. Len(answered)
      BY <2>2, LenProperties, EmptySeq DEF Structure, AnswersMatch, TypeOK
    <3>2. QED
      BY <3>1
  <2>4. HaveIsRight' /\ WrittenIsRight'
    BY <1>1, <2>2, <2>3 DEF HaveIsRight, WrittenIsRight
  <2>5. ResumeIsRight'
    BY <1>1, <2>1, <2>2 DEF ResumeIsRight
  <2>6. QED
    BY <1>2, <2>4, <2>5 DEF Truth
<1>4. CASE ~Recreate
  <2>1. card' = card
    <3>1. ASSUME NEW p \in Piece, ReadBlock(p) PROVE card' = card
      <4>1. card' = card \/ ("flush" \in faults /\ card' = disk)
        BY <3>1 DEF ReadBlock, Evicts
      <4>2. "flush" \in faults => disk = card
        BY DEF Survivable, Structure, CardIsDisk
      <4>3. QED
        BY <4>1, <4>2
    <3>2. QED
      BY <1>4, <3>1 DEF Open, Pause, Unpause, Stop, CardUnchanged, vars
  <2>2. \A p : (Right(p)' <=> Right(p)) /\ (Safe(p)' <=> Safe(p))
    BY <1>1, <2>1, SameSafe
  <2>3. CASE Open
    <3>1. /\ state \in {"Off", "Closed"} /\ (state' = "Checking" \/ state' = "Refused")
          /\ (resume' = resume \/ resume' = {}) /\ recreated' = recreated
      BY <2>3 DEF Open, Prepared
    <3>2. ~checked /\ ~recreated /\ have = {}
      BY <3>1 DEF Structure, CheckedFirst
    <3>3. \A p \in Listed(resume') : Safe(p)
      <4>1. Listed({}) = {}
        BY DEF Listed
      <4>2. \A p \in Listed(resume) : Safe(p)
        BY <3>2 DEF Truth, ResumeIsRight
      <4>3. QED
        BY <3>1, <4>1, <4>2
    <3>4. ResumeIsRight'
      BY <1>1, <2>2, <3>1, <3>2, <3>3 DEF ResumeIsRight
    <3>5. HaveIsRight'
      BY <1>1, <3>2 DEF HaveIsRight
    <3>6. state # "Gone"
      BY <3>1
    <3>7. WrittenIsRight'
      BY <1>1, <2>2, <3>6 DEF Truth, WrittenIsRight
    <3>8. QED
      BY <1>2, <3>4, <3>5, <3>7 DEF Truth
  <2>4. CASE Pause \/ Unpause \/ (\E p \in Piece : ReadBlock(p)) \/ UNCHANGED vars
    <3>1. /\ resume' = resume /\ recreated' = recreated
          /\ state' = state \/ (state # "Gone" /\ state' # "Gone" /\ state' # "Stopping")
      BY <2>4 DEF Pause, Unpause, ReadBlock, vars
    <3>2. HaveIsRight'
      BY <1>1, <2>2, <3>1 DEF Truth, HaveIsRight
    <3>3. WrittenIsRight'
      BY <1>1, <2>2, <3>1 DEF Truth, WrittenIsRight
    <3>4. Listed(resume') = Listed(resume)
      BY <3>1
    <3>5. ResumeIsRight'
      BY <1>1, <2>2, <3>1, <3>4 DEF Truth, ResumeIsRight
    <3>6. QED
      BY <1>2, <3>2, <3>3, <3>5 DEF Truth
  <2>5. CASE Stop
    <3>1. state # "Gone" /\ state' = "Stopping" /\ (resume' = Damaged \/ resume' = have)
      BY <2>5 DEF Stop, Saved, Alive, Active
    <3>2. Listed(resume') \subseteq have
      BY <3>1, Pieces DEF Listed, Structure, TypeOK
    <3>3. HaveIsRight'
      BY <1>1, <2>2, <3>1 DEF Truth, HaveIsRight
    <3>4. WrittenIsRight'
      BY <1>1, <2>2, <3>1 DEF Truth, WrittenIsRight
    <3>5. ResumeIsRight'
      BY <1>1, <2>2, <3>1, <3>2 DEF Truth, HaveIsRight, ResumeIsRight
    <3>6. QED
      BY <1>2, <3>3, <3>4, <3>5 DEF Truth
  <2>6. QED
    BY <1>4, <2>3, <2>4, <2>5
<1>5. QED
  BY <1>3, <1>4

LEMMA RunCheckTruth ==
    ASSUME Structure, Survivable(faults), Truth, RunCheck
    PROVE  Truth'
<1>1. /\ ~checked /\ checked' = TRUE /\ started = {} /\ received = {} /\ started' = {}
      /\ answered = <<>> /\ collected = 0
      /\ Examined
      /\ state' \in {"Seeding", "Downloading"}
      /\ UNCHANGED <<answered, collected, faults>>
  BY RunCheckFacts
<1>2. Listed(have') = have'
  BY <1>1 DEF Examined, Listed
<1>3. (\A p \in have' : Safe(p)') /\ Listed(resume') \subseteq have'
  <2>1. CASE have' = Listed(resume) /\ Believed /\ UNCHANGED <<resume, card, disk, buffer>>
    <3>1. Listed(resume') = have'
      BY <2>1
    <3>2. \A p \in Listed(resume) : Safe(p)
      BY <2>1 DEF Truth, ResumeIsRight, Believed
    <3>3. QED
      BY <1>1, <2>1, <3>1, <3>2, SameSafe
  <2>2. CASE have' = {} /\ ~Believed /\ resume' \in {resume, NoResume}
    <3>1. Listed(resume') = {}
      <4>1. CASE recreated
        BY <1>1, <2>2, <4>1, Pieces DEF Examined
      <4>2. CASE ~recreated
        <5>1. ~(resume \subseteq Piece)
          BY <2>2, <4>2 DEF Believed
        <5>2. Listed(resume) = {}
          BY <5>1 DEF Listed
        <5>3. QED
          BY <2>2, <5>2, Pieces
      <4>3. QED
        BY <4>1, <4>2
    <3>2. QED
      BY <2>2, <3>1
  \* What is whole in memory came before the check
  <2>3. CASE /\ \A p \in have' :
                    \/ \A x \in BlocksOf(p) : card'[x]
                    \/ Whole(buffer[p]) /\ AllRight(buffer[p]) /\ buffer'[p] = buffer[p]
             /\ resume' = have'
    <3>1. ASSUME NEW p \in have', Whole(buffer[p]), AllRight(buffer[p]), buffer'[p] = buffer[p]
          PROVE  Remembered(p)'
      <4>1. p \in Buffered
        BY <1>1, <3>1 DEF Examined, Whole, Buffered
      <4>2. buffer # NoBuffers
        BY <4>1 DEF Buffered, NoBuffers
      <4>3. "early" \in faults'
        BY <1>1, <4>2 DEF Structure, CheckedFirst
      <4>4. QED
        BY <3>1, <4>3 DEF Remembered
    <3>2. ASSUME NEW p \in have' PROVE Safe(p)'
      BY <2>3, <3>1, <3>2 DEF Safe, Right
    <3>3. QED
      BY <1>2, <2>3, <3>2
  <2>4. QED
    BY <1>1, <2>1, <2>2, <2>3 DEF Examined
<1>5. HaveIsRight'
  BY <1>3 DEF HaveIsRight
<1>6. WrongOnlyInProgress'
  <2>1. \A p \in Buffered' : p \in Buffered /\ buffer'[p] = buffer[p]
    BY <1>1 DEF Examined, Buffered
  <2>2. QED
    BY <1>1, <2>1 DEF Truth, WrongOnlyInProgress
<1>7. WrittenIsRight'
  <2>1. Len(answered') = 0 /\ collected' = 0
    BY <1>1, EmptySeq
  <2>2. QED
    BY <2>1 DEF WrittenIsRight
<1>8. ResumeIsRight'
  <2>1. state' # "Gone"
    BY <1>1
  <2>2. QED
    BY <1>3, <2>1 DEF ResumeIsRight
<1>9. QED
  BY <1>5, <1>6, <1>7, <1>8 DEF Truth

LEMMA AnswerTruth ==
    ASSUME Structure, Truth, NEW v \in {"written", "write_failed", "hash_failed"}, WriterAnswers(v)
    PROVE  Truth'
<1>1. /\ answered'[Turn] = [job |-> accepted[Turn], verdict |-> v] /\ Len(answered') = Turn
      /\ \A i \in 1 .. Len(answered) : answered'[i] = answered[i]
      /\ UNCHANGED <<accepted, state, recreated, fresh, checked, buffer, started, received, have,
                     collected, resume>>
      /\ \A x \in Block : card'[x] = card[x]
                          \/ (state # "Gone" /\ x \in BlocksOf(accepted[Turn].piece)
                              /\ card'[x] = TRUE)
      /\ v = "written" => \A x \in BlocksOf(accepted[Turn].piece) : card'[x] = TRUE
  BY AnswerFacts
<1>9. faults' = faults
  BY DEF WriterAnswers
<1>2. ASSUME NEW q \in Piece, Right(q) PROVE Right(q)'
  <2>1. \A x \in BlocksOf(q) : x \in Block /\ card[x]
    BY <1>2, Blocks DEF Right
  <2>2. QED
    BY <1>1, <2>1 DEF Right
<1>10. \A q \in Piece : Safe(q) => Safe(q)'
  BY <1>1, <1>2, <1>9 DEF Safe, Remembered
<1>3. have \subseteq Piece /\ Listed(resume) \subseteq Piece
  BY DEF Structure, TypeOK, Listed
<1>4. HaveIsRight'
  BY <1>1, <1>3, <1>10 DEF Truth, HaveIsRight
<1>5. WrongOnlyInProgress'
  <2>1. Buffered' = Buffered /\ Handed' = Handed
    BY <1>1 DEF Buffered, Handed
  <2>2. QED
    BY <1>1, <2>1 DEF Truth, WrongOnlyInProgress
<1>6. WrittenIsRight'
  <2>1. Len(answered) \in Nat /\ collected \in 0 .. Len(answered)
    BY LenProperties DEF Structure, TypeOK
  <2>2. ASSUME state # "Gone", NEW i \in collected + 1 .. Len(answered'),
               answered'[i].verdict = "written"
        PROVE  \A x \in BlocksOf(answered'[i].job.piece) : card'[x]
    <3>1. CASE i = Turn
      BY <1>1, <2>2, <3>1
    <3>2. CASE i # Turn
      <4>1. i \in collected + 1 .. Len(answered) /\ i \in 1 .. Len(answered)
        BY <1>1, <2>1, <3>2 DEF Turn
      <4>2. answered'[i] = answered[i]
        BY <1>1, <4>1
      <4>3. Right(answered[i].job.piece)
        BY <2>2, <4>1, <4>2 DEF Truth, WrittenIsRight
      <4>4. answered[i] \in Reply
        BY <4>1, ElementOfSeq DEF Structure, TypeOK
      <4>5. answered[i].job.piece \in Piece
        BY <4>4 DEF Reply, Job
      <4>6. \A q \in Piece : Right(q) => \A x \in BlocksOf(q) : card'[x]
        BY <1>2 DEF Right
      <4>7. QED
        BY <4>2, <4>3, <4>5, <4>6
    <3>3. QED
      BY <3>1, <3>2
  <2>3. QED
    BY <1>1, <2>2 DEF WrittenIsRight, Right
<1>7. ResumeIsRight'
  <2>1. Listed(resume') = Listed(resume)
    BY <1>1
  <2>2. QED
    BY <1>1, <1>3, <1>10, <2>1 DEF Truth, ResumeIsRight
<1>8. QED
  BY <1>4, <1>5, <1>6, <1>7 DEF Truth

LEMMA TickTruth ==
    ASSUME Structure, Truth, NEW picks \in SUBSET Piece, NEW save \in BOOLEAN, Tick(picks, save)
    PROVE  Truth'
<1>1. Turned(picks)
  BY TickFacts
<1>2. /\ state \in {"Downloading", "Seeding"} /\ state' \in {"Downloading", "Seeding", "Failed"}
      /\ Answered("written") \subseteq Handed /\ Answered("hash_failed") \subseteq Handed
      /\ collected' = Len(answered)
      /\ have' = have \cup Answered("written")
      /\ started' = (started \ Answered("written")) \cup picks
      /\ buffer' = [p \in Piece |-> IF p \in Answered("hash_failed") THEN NoBuffer ELSE buffer[p]]
      /\ resume' = resume \/ resume' = have'
      /\ \A p \in Piece : p \in Handed' => p \in Handed
      /\ UNCHANGED <<card, recreated, fresh, checked, answered>>
  BY <1>1 DEF Turned
<1>3. \A p : Right(p)' <=> Right(p)
  BY <1>2 DEF Right
<1>4. state # "Gone" /\ state' # "Gone" /\ state' # "Stopping"
  BY <1>2
<1>5. have \subseteq Piece /\ have' \subseteq Piece
  BY <1>2 DEF Structure, TypeOK, Handed
<1>6. \A p \in Answered("written") : Right(p)
  <2>1. \A q \in Answered("written") :
            \E i \in collected + 1 .. Len(answered) :
                /\ q = accepted[i].piece
                /\ answered[i].verdict = "written" /\ answered[i].job = accepted[i]
    BY Collected
  <2>2. QED
    BY <1>4, <2>1 DEF Truth, WrittenIsRight
\* The buffers dropped are those of pieces that were in the writer's hands
<1>12. \A p \in have : Safe(p)'
  <2>1. \A p \in have : buffer'[p] = buffer[p]
    BY <1>2, <1>5 DEF Handed
  <2>2. faults' = faults
    BY DEF Tick
  <2>3. \A p \in have : Safe(p)
    BY <1>4 DEF Truth, HaveIsRight
  <2>4. QED
    BY <1>3, <2>1, <2>2, <2>3 DEF Safe, Remembered
<1>7. HaveIsRight'
  BY <1>2, <1>3, <1>6, <1>12 DEF HaveIsRight, Safe
<1>8. WrongOnlyInProgress'
  <2>1. ASSUME NEW p \in Buffered', p \notin started' \ Handed'
        PROVE  p \in Buffered /\ buffer'[p] = buffer[p] /\ p \notin started \ Handed
    <3>1. p \in Piece /\ buffer'[p] # NoBuffer
      BY <2>1 DEF Buffered
    <3>2. p \in Buffered /\ buffer'[p] = buffer[p]
      BY <1>2, <3>1 DEF Buffered
    <3>3. p \notin started \ Handed
      BY <1>2, <2>1, <3>1
    <3>4. QED
      BY <3>2, <3>3
  <2>2. QED
    BY <2>1 DEF Truth, WrongOnlyInProgress
<1>9. WrittenIsRight'
  <2>1. Len(answered) \in Nat
    BY LenProperties DEF Structure, TypeOK
  <2>2. collected' + 1 .. Len(answered') = {}
    BY <1>2, <2>1
  <2>3. QED
    BY <2>2 DEF WrittenIsRight
<1>10. ResumeIsRight'
  <2>1. Listed(resume') = Listed(resume) \/ Listed(resume') = have'
    <3>1. Listed(have') = have'
      BY <1>5 DEF Listed
    <3>2. QED
      BY <1>2, <3>1
  <2>2. checked => Listed(resume) \subseteq have
    BY DEF Truth, ResumeIsRight
  <2>3. checked
    BY <1>2 DEF Structure, CheckedFirst
  <2>7. \A p \in have' : Safe(p)'
    BY <1>4, <1>7 DEF HaveIsRight
  <2>4. \A p \in Listed(resume') : Safe(p)'
    BY <1>2, <2>1, <2>2, <2>3, <2>7
  <2>5. checked => Listed(resume') \subseteq have'
    BY <1>2, <2>1, <2>2
  <2>6. QED
    BY <1>2, <1>4, <2>4, <2>5 DEF ResumeIsRight
<1>11. QED
  BY <1>7, <1>8, <1>9, <1>10 DEF Truth

\* What lives in memory is gone; what the resume file lists is on the card
LEMMA ForgottenTruth ==
    ASSUME Forget, state' \in {"Off", "Closed"}, \A p \in Listed(resume') : Right(p)'
    PROVE  Truth'
<1>1. /\ buffer' = NoBuffers /\ checked' = FALSE /\ have' = {} /\ answered' = <<>>
      /\ collected' = 0
  BY DEF Forget
<1>2. HaveIsRight'
  BY <1>1 DEF HaveIsRight
<1>3. WrongOnlyInProgress'
  BY <1>1 DEF WrongOnlyInProgress, Buffered, NoBuffers
<1>4. WrittenIsRight'
  <2>1. Len(answered') = 0
    BY <1>1, EmptySeq
  <2>2. QED
    BY <1>1, <2>1 DEF WrittenIsRight
<1>5. ResumeIsRight'
  BY <1>1 DEF ResumeIsRight, Safe
<1>6. QED
  BY <1>2, <1>3, <1>4, <1>5 DEF Truth

LEMMA EndTruth ==
    ASSUME Structure, Survivable(faults), Truth, Close \/ Crash \/ Destroyed
    PROVE  Truth'
<1>1. Forget /\ state' \in {"Off", "Closed"} /\ resume' = resume
  BY DEF Close, Crash, Destroyed
<1>2. Listed(resume') = Listed(resume) /\ Listed(resume) \subseteq Piece
  BY <1>1 DEF Listed
<1>3. ASSUME NEW p \in Listed(resume) PROVE Right(p)'
  <2>1. p \in Piece
    BY <1>2, <1>3
  \* The buffers of the pieces listed hold nothing wrong
  <2>2. CASE Close
    <3>1. state = "Stopping"
          /\ \A x \in Block :
               \/ card'[x] = card[x]
               \/ /\ x[1] \in Buffered /\ buffer[x[1]][x[2]] # "absent"
                  /\ card'[x] = (buffer[x[1]][x[2]] = "right")
      BY <2>2, CloseFacts
    <3>2. p \in have
      BY <1>3, <3>1 DEF Truth, ResumeIsRight
    <3>3. Safe(p) /\ p \notin started
      BY <3>1, <3>2 DEF Truth, HaveIsRight, Structure, PickerAgrees
    <3>4. p \in Buffered => \A c \in BlocksIn : buffer[p][c] \in {"absent", "right"}
      <4>1. p \in Buffered => buffer[p] \in Held
        BY DEF Buffered, Structure, TypeOK
      <4>2. p \in Buffered => \A c \in BlocksIn : buffer[p][c] # "wrong"
        BY <3>3 DEF Truth, WrongOnlyInProgress
      <4>3. QED
        BY <4>1, <4>2 DEF Held
    <3>5. ASSUME NEW x \in BlocksOf(p) PROVE card'[x]
      <4>1. x \in Block /\ x[1] = p /\ x[2] \in BlocksIn
        BY <2>1, Blocks
      <4>2. CASE Right(p)
        BY <3>1, <3>4, <4>1, <4>2 DEF Right
      \* What memory held whole is flushed
      <4>3. CASE Remembered(p)
        <5>1. "io" \notin faults /\ p \in Buffered /\ buffer[p][x[2]] = "right"
          BY <2>1, <4>1, <4>3 DEF Survivable, Remembered, Whole, AllRight, Buffered
        <5>2. QED
          BY <2>2, <4>1, <5>1, CloseFacts
      <4>4. QED
        BY <3>3, <4>2, <4>3 DEF Safe
    <3>6. QED
      BY <3>5 DEF Right
  \* Nothing waits in stdio's buffer where the program may crash
  <2>3. CASE Crash
    <3>1. /\ "crash" \in faults /\ card' = disk
      BY <2>3 DEF Crash
    <3>2. ~recreated /\ disk = card
      BY <3>1 DEF Survivable, Structure, CheckedFirst, CardIsDisk
    <3>3. Right(p)
      BY <1>3, <3>1, <3>2 DEF Truth, ResumeIsRight, Safe, Remembered, Survivable
    <3>4. QED
      BY <3>1, <3>2, <3>3 DEF Right
  <2>4. CASE Destroyed
    BY <1>3, <2>4 DEF Destroyed, Truth, ResumeIsRight
  <2>5. QED
    BY <2>2, <2>3, <2>4
<1>4. \A p \in Listed(resume') : Right(p)'
  BY <1>2, <1>3
<1>5. QED
  BY <1>1, <1>4, ForgottenTruth

LEMMA DeleteTruth == ASSUME DeleteFiles PROVE Truth'
<1>1. /\ state' = "Gone" /\ buffer' = NoBuffers /\ resume' = NoResume
  BY DEF DeleteFiles
<1>2. Listed(resume') = {}
  BY <1>1, Pieces
<1>3. HaveIsRight' /\ WrittenIsRight'
  BY <1>1 DEF HaveIsRight, WrittenIsRight
<1>4. WrongOnlyInProgress'
  BY <1>1 DEF WrongOnlyInProgress, Buffered, NoBuffers
<1>5. ResumeIsRight'
  BY <1>2 DEF ResumeIsRight
<1>6. QED
  BY <1>3, <1>4, <1>5 DEF Truth

LEMMA TruthInit == Init => Truth
<1> SUFFICES ASSUME Init PROVE Truth
  OBVIOUS
<1>1. /\ state = "Closed" /\ checked = FALSE /\ buffer = NoBuffers /\ have = {}
      /\ collected = 0 /\ answered = <<>>
  BY DEF Init, Writer!Init
<1>2. resume = NoResume \/ resume = {p \in Piece : \A x \in BlocksOf(p) : card[x]}
  BY DEF Init
<1>3. \A p \in Listed(resume) : Right(p)
  BY <1>2, Pieces DEF Right, Listed
<1>4. HaveIsRight /\ WrongOnlyInProgress
  BY <1>1 DEF HaveIsRight, WrongOnlyInProgress, Buffered, NoBuffers
<1>5. WrittenIsRight
  <2>1. Len(answered) = 0
    BY <1>1, EmptySeq
  <2>2. QED
    BY <1>1, <2>1 DEF WrittenIsRight
<1>6. ResumeIsRight
  BY <1>1, <1>3 DEF ResumeIsRight, Safe
<1>7. QED
  BY <1>4, <1>5, <1>6 DEF Truth

LEMMA SameFaults == [Next]_vars => faults' = faults
<1> SUFFICES ASSUME [Next]_vars PROVE faults' = faults
  OBVIOUS
<1>1. ASSUME NEW p \in Piece, NEW b \in BlocksIn, NEW ok \in BOOLEAN, ReceiveBlock(p, b, ok)
      PROVE  faults' = faults
  BY <1>1 DEF ReceiveBlock
<1>2. ASSUME NEW P \in SUBSET Piece, NEW save \in BOOLEAN, Tick(P, save)
      PROVE  faults' = faults
  BY <1>2 DEF Tick
<1>3. ASSUME NEW v \in {"written", "write_failed", "hash_failed"}, WriterAnswers(v)
      PROVE  faults' = faults
  BY <1>3 DEF WriterAnswers
<1>4. CASE Open \/ Recreate \/ RunCheck \/ (\E p \in Piece : ReadBlock(p)) \/ UNCHANGED vars
  BY <1>4 DEF Open, Recreate, RunCheck, ReadBlock, vars
<1>5. CASE Pause \/ Unpause \/ Stop \/ Close \/ Crash \/ DeleteFiles \/ Destroyed
  BY <1>5 DEF Pause, Unpause, Stop, Close, Crash, DeleteFiles, Destroyed
<1>6. QED
  BY <1>1, <1>2, <1>3, <1>4, <1>5 DEF Next

LEMMA SoundStep == Structure /\ Sound /\ [Next]_vars => Sound'
<1> SUFFICES ASSUME Structure, Sound, [Next]_vars, Survivable(faults) PROVE Truth'
  BY SameFaults DEF Sound, Truth
<1>1. Truth
  BY DEF Sound, Truth
<1>2. CASE Open \/ Recreate \/ Pause \/ Unpause \/ Stop
           \/ (\E p \in Piece : ReadBlock(p)) \/ UNCHANGED vars
  BY <1>1, <1>2, AroundTruth
<1>3. CASE RunCheck
  BY <1>1, <1>3, RunCheckTruth
<1>4. ASSUME NEW p \in Piece, NEW b \in BlocksIn, NEW ok \in BOOLEAN, ReceiveBlock(p, b, ok)
      PROVE  Truth'
  BY <1>1, <1>4, ReceiveTruth
<1>5. ASSUME NEW v \in {"written", "write_failed", "hash_failed"}, WriterAnswers(v)
      PROVE  Truth'
  BY <1>1, <1>5, AnswerTruth
<1>6. ASSUME NEW P \in SUBSET Piece, NEW save \in BOOLEAN, Tick(P, save)
      PROVE  Truth'
  BY <1>1, <1>6, TickTruth
<1>7. CASE Close \/ Crash \/ Destroyed
  BY <1>1, <1>7, EndTruth
<1>8. CASE DeleteFiles
  BY <1>8, DeleteTruth
<1>9. QED
  BY <1>2, <1>3, <1>4, <1>5, <1>6, <1>7, <1>8 DEF Next

\* No damaged piece is had, none waits in memory among the pieces that are not in progress,
\* what the writer says to have written is right, and so is what the resume file lists,
\* whatever goes wrong that can be survived.
THEOREM StoreIsSound == Spec => []Sound
<1>1. Init => Sound
  BY TruthInit DEF Sound, Truth
<1>2. QED
  BY <1>1, SoundStep, StoreKeepsItsBooks, PTL DEF Spec

\* The pieces that the picker counts as had are right on the card, or right in memory for
\* those of which every block came before the check, which judges them there.
THEOREM NothingDamagedIsHad == Spec => [](Survivable(faults) => HaveIsRight)
<1>1. Sound => (Survivable(faults) => HaveIsRight)
  BY DEF Sound
<1>2. QED
  BY <1>1, StoreIsSound, PTL

-----------------------------------------------------------------------------
(* A piece is judged on what arrived                                       *)

\* The card does not fail: nothing it was given is lost while the program runs
Reliable == "io" \notin faults /\ ~({"tail", "flush"} \subseteq faults)

\* The blocks counted for the pieces in progress
Somewhere == \A p \in started \ Handed, b \in BlocksIn : <<p, b>> \in received =>
             \/ buffer[p] # NoBuffer /\ buffer[p][b] # "absent"
             \/ card[<<p, b>>] = last[<<p, b>>]

\* After a step, what the files hold of p is what arrived last
AsArrived(p) == \A x \in BlocksOf(p) : card'[x] = last'[x]

\* The card after a block that does not complete its piece
LEMMA KeptCard ==
    ASSUME TypeOK, NEW p \in Piece, NEW b \in BlocksIn, NEW ok \in BOOLEAN, Kept(p, b, ok)
    PROVE  \A x \in Block : card'[x] = IF ~InMemory(p) /\ x = <<p, b>> THEN ok ELSE card[x]
<1>1. WriteThrough(Direct(p, b, ok))
  BY DEF Kept
<1>2. /\ DOMAIN Direct(p, b, ok) = IF InMemory(p) THEN {} ELSE {<<p, b>>}
      /\ DOMAIN Direct(p, b, ok) \subseteq Block
      /\ \A x \in DOMAIN Direct(p, b, ok) : Direct(p, b, ok)[x] = ok
  BY DirectFacts
<1>3. \A x \in DOMAIN Direct(p, b, ok) : Direct(p, b, ok)[x] \in BOOLEAN
  BY <1>2
<1>4. \A x \in Block : card'[x] = IF x \in DOMAIN Direct(p, b, ok)
                                  THEN Direct(p, b, ok)[x] ELSE card[x]
  BY <1>1, <1>2, <1>3, Writing
<1>5. QED
  BY <1>2, <1>4

\* What arrived and is not in memory is on the card
LEMMA ReceiveKeeps ==
    ASSUME Structure, Reliable, Somewhere,
           NEW p \in Piece, NEW b \in BlocksIn, NEW ok \in BOOLEAN, ReceiveBlock(p, b, ok)
    PROVE  /\ Somewhere'
           /\ ReadAgain(p, b, ok) => AsArrived(p)
<1>1. TypeOK
  BY DEF Structure
<1>2. /\ last' = [last EXCEPT ![<<p, b>>] = ok]
      /\ Kept(p, b, ok) \/ HandedOver(p, b, ok) \/ ReadAgain(p, b, ok) \/ Refused(p, b, ok)
  BY ReceiveCases
<1>3. ~Refused(p, b, ok)
  BY DEF Refused, WriteFails, Reliable
<1>4. /\ last'[<<p, b>>] = ok
      /\ \A q \in Piece, c \in BlocksIn : q # p \/ c # b => last'[<<q, c>>] = last[<<q, c>>]
      /\ \A q \in Piece, c \in BlocksIn : last[<<q, c>>] \in BOOLEAN
      /\ last[<<p, b>>] \in BOOLEAN
  BY <1>2, Blocks DEF Structure, TypeOK
<1>5. /\ started' \subseteq started /\ Handed \subseteq Handed'
      /\ Completes(p, b) => p \in started \ Handed
      /\ HandedOver(p, b, ok) => p \in Handed'
  BY ReceivePicker
<1>6. /\ \A q \in Piece : q # p => buffer'[q] = buffer[q]
      /\ buffer \in [Piece -> Held \cup {NoBuffer}] /\ started \subseteq Piece
      /\ card \in [Block -> BOOLEAN]
  BY ReceiveBuffers DEF Structure, TypeOK
\* The other pieces
<1>7. ASSUME NEW q \in started' \ Handed', q # p, NEW c \in BlocksIn, <<q, c>> \in received'
      PROVE  /\ q \in started \ Handed /\ <<q, c>> \in received
             /\ card'[<<q, c>>] = card[<<q, c>>]
  <2>1. q \in started \ Handed /\ <<q, c>> \in Block /\ <<q, c>> \notin BlocksOf(p)
        /\ <<q, c>> # <<p, b>>
    BY <1>5, <1>6, <1>7, Blocks
  <2>2. <<q, c>> \in received
    <3>1. \/ received' = received \cup {<<p, b>>} \/ received' = received
          \/ received' = received \cup BlocksOf(p) \/ received' = received \ BlocksOf(p)
      <4>1. CASE ReadAgain(p, b, ok)
        BY <4>1, ReadAgainFacts DEF Structure
      <4>2. CASE Kept(p, b, ok) \/ HandedOver(p, b, ok)
        BY <4>2 DEF Kept, HandedOver
      <4>3. QED
        BY <1>2, <1>3, <4>1, <4>2
    <3>2. QED
      BY <1>7, <2>1, <3>1
  <2>3. card'[<<q, c>>] = card[<<q, c>>]
    <3>1. CASE Kept(p, b, ok)
      BY <1>1, <2>1, <3>1, KeptCard
    <3>2. CASE HandedOver(p, b, ok)
      BY <3>2 DEF HandedOver, CardUnchanged
    <3>3. CASE ReadAgain(p, b, ok)
      <4>1. <<q, c>> \notin DOMAIN Flushed(p, b, ok)
        BY <2>1, FlushedFacts DEF Structure
      <4>2. \A x \in Block : card'[x] = card[x] \/ x \in DOMAIN Flushed(p, b, ok)
        BY <3>3, ReadAgainFacts DEF Structure
      <4>3. QED
        BY <2>1, <4>1, <4>2
    <3>4. QED
      BY <1>2, <1>3, <3>1, <3>2, <3>3
  <2>4. QED
    BY <2>1, <2>2, <2>3
\* The piece itself, when more blocks are to come
<1>8. ASSUME Kept(p, b, ok), p \in started' \ Handed', NEW c \in BlocksIn, <<p, c>> \in received'
      PROVE  \/ buffer'[p] # NoBuffer /\ buffer'[p][c] # "absent"
             \/ card'[<<p, c>>] = last'[<<p, c>>]
  <2>1. /\ p \in started \ Handed
        /\ WriteThrough(Direct(p, b, ok))
        /\ buffer'[p] = Filled(p, b, ok)
        /\ received' \subseteq received \cup {<<p, b>>}
    BY <1>5, <1>6, <1>8 DEF Kept
  <2>2. c # b => <<p, c>> \in received
    BY <1>8, <2>1
  <2>3. \A x \in Block : card'[x] = IF ~InMemory(p) /\ x = <<p, b>> THEN ok ELSE card[x]
    BY <1>1, <1>8, KeptCard
  <2>4. <<p, c>> \in Block
    BY Blocks
  <2>5. CASE InMemory(p)
    <3>1. card'[<<p, c>>] = card[<<p, c>>]
      BY <2>3, <2>4, <2>5
    <3>2. /\ Filled(p, b, ok) # NoBuffer
          /\ Filled(p, b, ok)[c] = IF c = b THEN Content(ok)
                                   ELSE IF p \in Buffered THEN buffer[p][c] ELSE "absent"
          /\ Content(ok) # "absent"
      BY <2>5, FilledFacts DEF Structure
    <3>3. CASE c = b
      BY <2>1, <3>2, <3>3
    <3>4. CASE c # b
      <4>1. \/ buffer[p] # NoBuffer /\ buffer[p][c] # "absent"
            \/ card[<<p, c>>] = last[<<p, c>>]
        BY <2>1, <2>2, <3>4 DEF Somewhere
      <4>2. CASE buffer[p] # NoBuffer /\ buffer[p][c] # "absent"
        BY <2>1, <3>2, <3>4, <4>2 DEF Buffered
      <4>3. CASE card[<<p, c>>] = last[<<p, c>>]
        BY <1>4, <3>1, <3>4, <4>3
      <4>4. QED
        BY <4>1, <4>2, <4>3
    <3>5. QED
      BY <3>3, <3>4
  <2>6. CASE ~InMemory(p)
    <3>1. p \notin Buffered
      BY <2>6 DEF InMemory
    <3>2. CASE c = b
      BY <1>4, <2>3, <2>4, <2>6, <3>2
    <3>3. CASE c # b
      <4>1. card[<<p, c>>] = last[<<p, c>>]
        BY <2>1, <2>2, <3>1, <3>3 DEF Somewhere, Buffered
      <4>2. <<p, c>> # <<p, b>>
        BY <3>3
      <4>3. QED
        BY <1>4, <2>3, <2>4, <3>3, <4>1, <4>2
    <3>4. QED
      BY <3>2, <3>3
  <2>7. QED
    BY <2>5, <2>6
\* The piece itself, when it is read again
<1>9. ASSUME ReadAgain(p, b, ok), NEW c \in BlocksIn
      PROVE  card'[<<p, c>>] = last'[<<p, c>>]
  <2>1. /\ Completes(p, b) /\ <<p, c>> \in Block /\ <<p, c>> \in BlocksOf(p)
        /\ p \in started \ Handed
    BY <1>5, <1>9, Blocks DEF ReadAgain
  <2>2. c # b => <<p, c>> \in received
    BY <2>1 DEF Completes
  <2>3. card'[<<p, c>>] = IF <<p, c>> \in DOMAIN Flushed(p, b, ok)
                          THEN Flushed(p, b, ok)[<<p, c>>] ELSE card[<<p, c>>]
    BY <1>9, <2>1, ReadAgainFacts DEF Structure, Reliable
  <2>4. CASE InMemory(p)
    <3>1. /\ Filled(p, b, ok)[c] = "absent" => <<p, c>> \notin DOMAIN Flushed(p, b, ok)
          /\ Filled(p, b, ok)[c] = "right" =>
               <<p, c>> \in DOMAIN Flushed(p, b, ok) /\ Flushed(p, b, ok)[<<p, c>>] = TRUE
          /\ Filled(p, b, ok)[c] = "wrong" =>
               <<p, c>> \in DOMAIN Flushed(p, b, ok) /\ Flushed(p, b, ok)[<<p, c>>] = FALSE
      BY <1>1, <2>4, FlushedBuffer
    <3>2. Filled(p, b, ok)[c] = IF c = b THEN Content(ok)
                                ELSE IF p \in Buffered THEN buffer[p][c] ELSE "absent"
      BY <2>4, FilledFacts DEF Structure
    <3>3. Content(TRUE) = "right" /\ Content(FALSE) = "wrong"
      BY DEF Content
    <3>4. CASE c = b
      BY <1>4, <2>3, <3>1, <3>2, <3>3, <3>4
    <3>5. CASE c # b
      <4>1. \/ buffer[p] # NoBuffer /\ buffer[p][c] # "absent"
            \/ card[<<p, c>>] = last[<<p, c>>]
        BY <2>1, <2>2, <3>5 DEF Somewhere
      <4>2. last'[<<p, c>>] = last[<<p, c>>] /\ last[<<p, c>>] \in BOOLEAN
        BY <1>4, <3>5
      <4>3. CASE p \in Buffered /\ buffer[p][c] # "absent"
        <5>1. buffer[p][c] = Content(last[<<p, c>>])
          BY <4>3 DEF Structure, BuffersAsArrived
        <5>2. Filled(p, b, ok)[c] = Content(last[<<p, c>>])
          BY <3>2, <3>5, <4>3, <5>1
        <5>3. QED
          BY <2>3, <3>1, <3>3, <4>2, <5>2
      <4>4. CASE ~(p \in Buffered /\ buffer[p][c] # "absent")
        <5>1. Filled(p, b, ok)[c] = "absent"
          BY <3>2, <3>5, <4>4
        <5>2. card[<<p, c>>] = last[<<p, c>>]
          BY <4>1, <4>4 DEF Buffered
        <5>3. QED
          BY <2>3, <3>1, <4>2, <5>1, <5>2
      <4>5. QED
        BY <4>3, <4>4
    <3>6. QED
      BY <3>4, <3>5
  <2>5. CASE ~InMemory(p)
    <3>1. /\ DOMAIN Flushed(p, b, ok) = {<<p, b>>} /\ Flushed(p, b, ok)[<<p, b>>] = ok
      BY <1>1, <2>5, FlushedFacts
    <3>2. CASE c = b
      BY <1>4, <2>3, <3>1, <3>2
    <3>3. CASE c # b
      <4>1. card[<<p, c>>] = last[<<p, c>>]
        BY <2>1, <2>2, <2>5, <3>3 DEF Somewhere, Buffered, InMemory
      <4>2. <<p, c>> # <<p, b>>
        BY <3>3
      <4>3. QED
        BY <1>4, <2>3, <3>1, <3>3, <4>1, <4>2
    <3>4. QED
      BY <3>2, <3>3
  <2>6. QED
    BY <2>4, <2>5
<1>10. ReadAgain(p, b, ok) => AsArrived(p)
  BY <1>9, Blocks DEF AsArrived
<1>11. ASSUME NEW q \in started' \ Handed', NEW c \in BlocksIn, <<q, c>> \in received'
       PROVE  \/ buffer'[q] # NoBuffer /\ buffer'[q][c] # "absent"
              \/ card'[<<q, c>>] = last'[<<q, c>>]
  <2>1. q \in Piece
    BY <1>5, <1>6
  <2>2. CASE q # p
    <3>1. /\ q \in started \ Handed /\ <<q, c>> \in received
          /\ card'[<<q, c>>] = card[<<q, c>>]
      BY <1>7, <1>11, <2>2
    <3>2. /\ buffer'[q] = buffer[q] /\ last'[<<q, c>>] = last[<<q, c>>]
      BY <1>4, <1>6, <2>1, <2>2
    <3>3. QED
      BY <3>1, <3>2 DEF Somewhere
  <2>3. CASE q = p
    <3>1. ~HandedOver(p, b, ok)
      BY <1>5, <1>11, <2>3
    <3>2. ~ReadAgain(p, b, ok)
      <4>1. ASSUME ReadAgain(p, b, ok) PROVE <<p, c>> \notin received'
        BY <4>1, ReadAgainFacts, Blocks DEF Structure
      <4>2. QED
        BY <1>11, <2>3, <4>1
    <3>3. QED
      BY <1>2, <1>3, <1>8, <1>11, <2>3, <3>1, <3>2
  <2>4. QED
    BY <2>2, <2>3
<1>12. Somewhere'
  BY <1>11 DEF Somewhere
<1>13. QED
  BY <1>10, <1>12

LEMMA SomewhereStep ==
    ASSUME Structure, BlocksAreSomewhere, [Next]_vars
    PROVE  BlocksAreSomewhere'
<1> SUFFICES ASSUME Reliable, state' # "Gone" PROVE Somewhere'
  BY SameFaults DEF BlocksAreSomewhere, Reliable, Somewhere
<1>1. state # "Gone" => Somewhere
  BY DEF BlocksAreSomewhere, Reliable, Somewhere
<1>2. started' = {} => Somewhere'
  BY DEF Somewhere
<1>3. started \subseteq Piece
  BY DEF Structure, TypeOK
<1>4. ASSUME NEW p \in Piece, NEW b \in BlocksIn, NEW ok \in BOOLEAN, ReceiveBlock(p, b, ok)
      PROVE  Somewhere'
  <2>1. state # "Gone"
    BY <1>4 DEF ReceiveBlock, Active
  <2>2. QED
    BY <1>1, <1>4, <2>1, ReceiveKeeps
<1>5. CASE Open \/ Recreate
  <2>1. ~checked /\ started' = started
    BY <1>5 DEF Open, Recreate, pickerVars, Structure, CheckedFirst
  <2>2. QED
    BY <1>2, <2>1 DEF Structure, CheckedFirst
<1>6. CASE Pause \/ Unpause \/ Stop \/ (\E p \in Piece : ReadBlock(p)) \/ UNCHANGED vars
  <2>1. /\ UNCHANGED <<buffer, started, received, have, last>> /\ state # "Gone"
    BY <1>6 DEF Pause, Unpause, Stop, ReadBlock, vars, pickerVars, Alive, Active
  <2>2. card' = card
    <3>1. ASSUME NEW p \in Piece, ReadBlock(p) PROVE card' = card
      <4>1. card' = card \/ ("flush" \in faults /\ card' = disk)
        BY <3>1 DEF ReadBlock, Evicts
      <4>2. "flush" \in faults => disk = card
        BY DEF Reliable, Structure, CardIsDisk
      <4>3. QED
        BY <4>1, <4>2
    <3>2. QED
      BY <1>6, <3>1 DEF Pause, Unpause, Stop, CardUnchanged, vars
  <2>3. Handed' = Handed
    BY <2>1 DEF Handed
  <2>4. QED
    BY <1>1, <2>1, <2>2, <2>3 DEF Somewhere
<1>7. CASE RunCheck
  BY <1>2, <1>7, RunCheckFacts
<1>8. ASSUME NEW v \in {"written", "write_failed", "hash_failed"}, WriterAnswers(v)
      PROVE  Somewhere'
  <2>1. /\ accepted[Turn].piece \in Handed
        /\ UNCHANGED <<state, buffer, started, received, have, last>>
        /\ \A x \in Block : card'[x] = card[x]
                            \/ (state # "Gone" /\ x \in BlocksOf(accepted[Turn].piece)
                                /\ card'[x] = TRUE)
    BY <1>8, AnswerFacts
  <2>2. Handed' = Handed /\ Handed \subseteq Piece
    BY <2>1 DEF Handed
  <2>3. ASSUME NEW p \in started \ Handed, NEW b \in BlocksIn
        PROVE  card'[<<p, b>>] = card[<<p, b>>]
    <3>1. <<p, b>> \in Block /\ <<p, b>> \notin BlocksOf(accepted[Turn].piece)
      BY <1>3, <2>1, <2>2, <2>3, Blocks
    <3>2. QED
      BY <2>1, <3>1
  <2>4. QED
    BY <1>1, <2>1, <2>2, <2>3 DEF Somewhere
<1>9. ASSUME NEW picks \in SUBSET Piece, NEW save \in BOOLEAN, Tick(picks, save)
      PROVE  Somewhere'
  <2>1. Turned(picks)
    BY <1>9, TickFacts
  <2>2. /\ state # "Gone"
        /\ Answered("written") \subseteq Handed /\ Answered("hash_failed") \subseteq Handed
        /\ started' = (started \ Answered("written")) \cup picks
        /\ picks \subseteq Piece \ started
        /\ \A x \in Block : x \in received' <=>
               x \in received /\ x[1] \notin Answered("written") \cup Answered("hash_failed")
        /\ buffer' = [p \in Piece |-> IF p \in Answered("hash_failed") THEN NoBuffer ELSE buffer[p]]
        /\ \A p \in Piece : p \in Handed' <=>
               p \in Handed /\ p \notin Answered("written") \cup Answered("hash_failed")
        /\ UNCHANGED <<card, last>>
    BY <2>1 DEF Turned
  <2>3. ASSUME NEW p \in started' \ Handed', NEW b \in BlocksIn, <<p, b>> \in received'
        PROVE  p \in started \ Handed /\ <<p, b>> \in received /\ buffer'[p] = buffer[p]
    <3>1. p \in Piece /\ <<p, b>> \in Block /\ <<p, b>>[1] = p
      BY <1>3, <2>2, <2>3, Blocks
    <3>2. /\ <<p, b>> \in received /\ p \notin Answered("written") \cup Answered("hash_failed")
      BY <2>2, <2>3, <3>1
    <3>3. p \in started
      BY <3>1, <3>2 DEF Structure, PickerAgrees
    <3>4. QED
      BY <2>2, <2>3, <3>1, <3>2, <3>3
  <2>4. QED
    BY <1>1, <2>2, <2>3 DEF Somewhere
<1>10. CASE Close \/ Crash \/ Destroyed
  BY <1>2, <1>10 DEF Close, Crash, Destroyed, Forget
<1>11. CASE DeleteFiles
  BY <1>11 DEF DeleteFiles
<1>12. QED
  BY <1>4, <1>5, <1>6, <1>7, <1>8, <1>9, <1>10, <1>11 DEF Next

\* A block counted for a piece in progress is in memory or on the card, with the bytes that
\* arrived last, as long as the card does not fail.
THEOREM BlocksAreNotLost == Spec => []BlocksAreSomewhere
<1>1. Init => BlocksAreSomewhere
  BY DEF Init, BlocksAreSomewhere
<1>2. QED
  BY <1>1, SomewhereStep, StoreKeepsItsBooks, PTL DEF Spec

\* Everything that the run of the store checks, whatever can be survived.
THEOREM StoreIsRight == Spec => [](Survivable(faults) => StoreInvariant)
<1>1. Structure /\ Sound /\ BlocksAreSomewhere => (Survivable(faults) => StoreInvariant)
  <2> SUFFICES ASSUME Structure, Sound, BlocksAreSomewhere, Survivable(faults)
               PROVE  StoreInvariant
    OBVIOUS
  <2>1. ResumeIsTrue
    BY DEF Structure, Sound, CardIsDisk, ResumeIsRight, ResumeIsTrue, Right, Safe, Remembered
  <2>2. QED
    BY <2>1 DEF Structure, StoreInvariant, Bookkeeping
<1>2. QED
  BY <1>1, StoreKeepsItsBooks, StoreIsSound, BlocksAreNotLost, PTL

-----------------------------------------------------------------------------

\* A piece handed over carries the verdict of the latest bytes of its blocks
LEMMA HandedAsArrived ==
    ASSUME Structure, NEW p \in Piece, NEW b \in BlocksIn, NEW ok \in BOOLEAN,
           ReceiveBlock(p, b, ok), HandedOver(p, b, ok)
    PROVE  AllRight(Filled(p, b, ok)) <=> \A x \in BlocksOf(p) : last'[x]
<1>1. last' = [last EXCEPT ![<<p, b>>] = ok]
  BY ReceiveCases
<1>2. /\ last'[<<p, b>>] = ok
      /\ \A c \in BlocksIn : c # b => last'[<<p, c>>] = last[<<p, c>>]
      /\ \A c \in BlocksIn : last'[<<p, c>>] \in BOOLEAN
  BY <1>1, Blocks DEF Structure, TypeOK
<1>3. Whole(Filled(p, b, ok))
  BY DEF HandedOver
<1>4. InMemory(p)
  BY <1>3, FilledFacts DEF Structure, Whole
<1>5. \A c \in BlocksIn : Filled(p, b, ok)[c] = IF c = b THEN Content(ok)
                                                ELSE IF p \in Buffered THEN buffer[p][c]
                                                ELSE "absent"
  BY <1>4, FilledFacts DEF Structure
<1>6. ASSUME NEW c \in BlocksIn
      PROVE  Filled(p, b, ok)[c] = Content(last'[<<p, c>>])
  <2>1. Filled(p, b, ok)[c] # "absent"
    BY <1>3 DEF Whole
  <2>2. CASE c = b
    BY <1>2, <1>5, <2>2
  <2>3. CASE c # b
    <3>1. p \in Buffered /\ Filled(p, b, ok)[c] = buffer[p][c]
      BY <1>5, <2>1, <2>3
    <3>2. buffer[p][c] = Content(last[<<p, c>>])
      BY <2>1, <3>1 DEF Structure, BuffersAsArrived
    <3>3. QED
      BY <1>2, <2>3, <3>1, <3>2
  <2>4. QED
    BY <2>2, <2>3
<1>7. \A c \in BlocksIn : Filled(p, b, ok)[c] = "right" <=> last'[<<p, c>>]
  BY <1>2, <1>6 DEF Content
<1>8. (\A x \in BlocksOf(p) : last'[x]) <=> (\A c \in BlocksIn : last'[<<p, c>>])
  <2>1. \A x \in BlocksOf(p) : x[2] \in BlocksIn /\ x = <<p, x[2]>>
    BY Blocks
  <2>2. \A c \in BlocksIn : <<p, c>> \in BlocksOf(p)
    BY Blocks
  <2>3. QED
    BY <2>1, <2>2
<1>9. AllRight(Filled(p, b, ok)) <=> \A c \in BlocksIn : last'[<<p, c>>]
  BY <1>7 DEF AllRight
<1>10. QED
  BY <1>8, <1>9

LEMMA JudgedReceive ==
    ASSUME Structure, BlocksAreSomewhere, ~({"tail", "flush"} \subseteq faults),
           NEW q \in Piece, NEW b \in BlocksIn, NEW ok \in BOOLEAN, ReceiveBlock(q, b, ok),
           NEW p \in Piece
    PROVE  Judged(p)
<1>1. Kept(q, b, ok) \/ HandedOver(q, b, ok) \/ ReadAgain(q, b, ok) \/ Refused(q, b, ok)
  BY ReceiveCases
<1>2. accepted \in Seq(Job) /\ Len(accepted) \in Nat
  BY LenProperties DEF Structure, TypeOK
<1>3. CASE Kept(q, b, ok) \/ Refused(q, b, ok)
  <2>1. accepted' = accepted /\ have' = have /\ received \subseteq received'
    BY <1>3 DEF Kept, Refused
  <2>2. QED
    BY <1>2, <2>1 DEF Judged
<1>4. CASE HandedOver(q, b, ok)
  <2> DEFINE j == [piece |-> q, good |-> AllRight(Filled(q, b, ok))]
  <2>1. /\ accepted' = Append(accepted, j) /\ have' = have /\ received \subseteq received'
    BY <1>4 DEF HandedOver
  <2>2. j \in Job /\ j.piece = q /\ j.good = AllRight(Filled(q, b, ok))
    BY DEF Job, AllRight
  <2> HIDE DEF j
  <2>3. Len(accepted') = Len(accepted) + 1 /\ accepted'[Len(accepted')] = j
    BY <1>2, <2>1, <2>2, AppendProperties
  <2>4. j.good <=> \A x \in BlocksOf(q) : last'[x]
    BY <1>4, <2>2, HandedAsArrived
  <2>5. QED
    BY <2>1, <2>2, <2>3, <2>4 DEF Judged
<1>5. CASE ReadAgain(q, b, ok)
  <2>1. /\ accepted' = accepted /\ checked' = checked
        /\ received' = received \ BlocksOf(q)
        /\ have' \subseteq have \cup {q}
    <3>1. accepted' = accepted
      BY <1>5 DEF ReadAgain
    <3>2. checked' = checked
      BY ReceiveCases
    <3>3. /\ received' = received \ BlocksOf(q)
          /\ have' = have \cup {q} \/ have' = have
      BY <1>5, ReadAgainFacts DEF Structure
    <3>4. QED
      BY <3>1, <3>2, <3>3
  <2>2. CASE p # q
    <3>1. BlocksOf(p) \cap BlocksOf(q) = {}
      BY <2>2, Blocks
    <3>2. QED
      BY <1>2, <2>1, <2>2, <3>1 DEF Judged
  <2>3. CASE p = q /\ "io" \in faults
    BY <1>2, <2>1, <2>3 DEF Judged
  <2>4. CASE p = q /\ "io" \notin faults
    <3>1. state # "Gone"
      BY DEF ReceiveBlock, Active
    <3>2. Reliable /\ Somewhere
      BY <2>4, <3>1 DEF Reliable, Somewhere, BlocksAreSomewhere
    <3>3. AsArrived(p)
      BY <1>5, <2>4, <3>2, ReceiveKeeps
    <3>4. /\ ~Right(q)' => have' = have
          /\ Right(q)' => have' = have \cup {q}
      BY <1>5, <2>4, ReadAgainFacts DEF Structure
    <3>5. (\A x \in BlocksOf(p) : card'[x]) <=> (\A x \in BlocksOf(p) : last'[x])
      BY <3>3 DEF AsArrived
    <3>6. Right(q)' <=> \A x \in BlocksOf(q) : card'[x]
      BY DEF Right
    <3>7. QED
      BY <1>2, <2>1, <2>4, <3>4, <3>5, <3>6 DEF Judged
  <2>5. QED
    BY <2>2, <2>3, <2>4
<1>6. QED
  BY <1>1, <1>3, <1>4, <1>5

LEMMA JudgedStep ==
    ASSUME Structure, BlocksAreSomewhere, ~({"tail", "flush"} \subseteq faults), [Next]_vars,
           NEW p \in Piece
    PROVE  Judged(p)
<1>1. accepted \in Seq(Job) /\ Len(accepted) \in Nat
  BY LenProperties DEF Structure, TypeOK
<1>2. ASSUME NEW q \in Piece, NEW b \in BlocksIn, NEW ok \in BOOLEAN, ReceiveBlock(q, b, ok)
      PROVE  Judged(p)
  BY <1>2, JudgedReceive
<1>3. CASE Open \/ Recreate \/ Pause \/ Unpause \/ Stop \/ DeleteFiles
           \/ (\E q \in Piece : ReadBlock(q)) \/ UNCHANGED vars
  <2>1. UNCHANGED <<accepted, have, received>>
    BY <1>3 DEF Open, Recreate, Pause, Unpause, Stop, DeleteFiles, ReadBlock, vars, pickerVars,
                writerVars
  <2>2. QED
    BY <1>1, <2>1 DEF Judged
<1>4. CASE RunCheck
  <2>1. accepted' = accepted /\ ~checked /\ received = {}
    BY <1>4, RunCheckFacts
  <2>2. QED
    BY <1>1, <2>1 DEF Judged
<1>5. ASSUME NEW v \in {"written", "write_failed", "hash_failed"}, WriterAnswers(v)
      PROVE  Judged(p)
  <2>1. UNCHANGED <<accepted, have, received>>
    BY <1>5, AnswerFacts
  <2>2. QED
    BY <1>1, <2>1 DEF Judged
\* A turn that collects nothing judges nothing
<1>6. ASSUME NEW picks \in SUBSET Piece, NEW save \in BOOLEAN, Tick(picks, save)
      PROVE  Judged(p)
  <2>1. Turned(picks)
    BY <1>6, TickFacts
  <2>2. accepted' = accepted /\ collected' = Len(answered)
    BY <2>1 DEF Turned
  <2>3. CASE collected' = collected
    <3>1. \A v : Answered(v) = {}
      <4>1. Len(answered) \in Nat
        BY LenProperties DEF Structure, TypeOK
      <4>2. collected + 1 .. Len(answered) = {}
        BY <2>2, <2>3, <4>1
      <4>3. QED
        BY <4>2 DEF Answered, NewAnswers
    <3>2. have' = have /\ \A x \in Block : x \in received' <=> x \in received
      BY <2>1, <3>1 DEF Turned
    <3>3. BlocksOf(p) \cap received' = BlocksOf(p) \cap received
      BY <3>2, Blocks
    <3>4. QED
      BY <1>1, <2>2, <3>2, <3>3 DEF Judged
  <2>4. CASE collected' # collected
    BY <1>1, <2>2, <2>4 DEF Judged
  <2>5. QED
    BY <2>3, <2>4
<1>7. CASE Close \/ Crash \/ Destroyed
  <2>1. accepted' = <<>> /\ have' = {} /\ checked' = FALSE
    BY <1>7 DEF Close, Crash, Destroyed, Forget
  <2>2. Len(accepted') = 0
    BY <2>1, EmptySeq
  <2>3. QED
    BY <1>1, <2>1, <2>2 DEF Judged
<1>8. QED
  BY <1>2, <1>3, <1>4, <1>5, <1>6, <1>7 DEF Next

\* A piece is judged on the latest bytes that arrived for each of its blocks, unless a flush
\* of stdio's buffer may fail while it holds the end of a block.
THEOREM PiecesJudgedOnWhatArrived ==
    ASSUME \A F \in FaultSets : ~({"tail", "flush"} \subseteq F)
    PROVE  Spec => JudgedOnWhatArrived
<1>1. Structure => ~({"tail", "flush"} \subseteq faults)
  BY DEF Structure, TypeOK
<1>2. Structure /\ BlocksAreSomewhere /\ [Next]_vars => [\A p \in Piece : Judged(p)]_vars
  BY <1>1, JudgedStep
<1>3. QED
  BY <1>2, StoreKeepsItsBooks, BlocksAreNotLost, PTL DEF Spec, JudgedOnWhatArrived

=============================================================================
