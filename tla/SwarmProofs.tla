----------------------------- MODULE SwarmProofs -----------------------------
(***************************************************************************)
(* A torrent's picker, then the peers that use it, for any geometry, any   *)
(* peers and any numbers of requests.                                      *)
(*                                                                         *)
(* The picker's bookkeeping: IInv is inductive, one lemma per operation.   *)
(*                                                                         *)
(* The peers: SwarmInvariant is inductive, whatever they say or close. It  *)
(* has two sides that have little to do with each other: what is counted   *)
(* of what peers have (availability), and who serves what is reserved (the *)
(* clocks).                                                                *)
(***************************************************************************)
EXTENDS Swarm, FiniteSetTheorems, WellFoundedInduction, TLAPS

-----------------------------------------------------------------------------
(* Facts about blocks                                                      *)

\* The indices of a piece's blocks are finitely many naturals, NumBlocks of them
LEMMA BlocksInFinite ==
    ASSUME NEW p \in Piece
    PROVE  /\ NumBlocks(p) \in Nat \ {0}
           /\ BlocksIn(p) \subseteq Nat
           /\ IsFiniteSet(BlocksIn(p))
           /\ Cardinality(BlocksIn(p)) = NumBlocks(p)
<1>1. NumBlocks(p) \in Nat \ {0}
  BY PickerAssumption
<1>2. IsFiniteSet(0 .. NumBlocks(p) - 1) /\ Cardinality(0 .. NumBlocks(p) - 1) = NumBlocks(p)
  <2>1. NumBlocks(p) - 1 \in Int /\ 0 \in Int
    BY <1>1
  <2>2. QED
    BY <1>1, <2>1, FS_Interval
<1>3. QED
  BY <1>1, <1>2 DEF BlocksIn

\* A block is a piece and the index of one of its blocks
LEMMA BlockPairs ==
    /\ \A p \in Piece : \A b \in BlocksIn(p) :
          <<p, b>> \in Block /\ <<p, b>>[1] = p /\ <<p, b>>[2] = b
    /\ \A x \in Block : x[1] \in Piece /\ x[2] \in BlocksIn(x[1]) /\ x = <<x[1], x[2]>>
<1>1. ASSUME NEW p \in Piece, NEW b \in BlocksIn(p)
      PROVE  <<p, b>> \in Block /\ <<p, b>>[1] = p /\ <<p, b>>[2] = b
  BY <1>1 DEF Block
<1>2. ASSUME NEW x \in Block
      PROVE  x[1] \in Piece /\ x[2] \in BlocksIn(x[1]) /\ x = <<x[1], x[2]>>
  <2>1. PICK p \in Piece : x \in {p} \X BlocksIn(p)
    BY <1>2 DEF Block
  <2>2. QED
    BY <2>1
<1>3. QED
  BY <1>1, <1>2

\* The blocks of a piece in one state are finitely many
LEMMA InStateFinite ==
    ASSUME NEW p \in Piece, NEW s
    PROVE  /\ InState(p, s) \subseteq BlocksIn(p)
           /\ IsFiniteSet(InState(p, s))
           /\ Cardinality(InState(p, s)) \in Nat
           /\ Cardinality(InState(p, s)) <= NumBlocks(p)
<1>1. InState(p, s) \subseteq BlocksIn(p)
  BY DEF InState
<1>2. QED
  BY <1>1, BlocksInFinite, FS_Subset, FS_CardinalityType

\* All the blocks of a piece are received exactly when NumBlocks of them are
LEMMA AllDone ==
    ASSUME NEW p \in Piece
    PROVE  Cardinality(InState(p, "Done")) = NumBlocks(p) <=> InState(p, "Done") = BlocksIn(p)
BY BlocksInFinite, InStateFinite, FS_Subset

-----------------------------------------------------------------------------
(* The sum of the sizes of some pieces is the number of their bytes        *)

\* The bytes of the pieces of T, one by one
Units(T) == UNION {{p} \X (1 .. PieceSize[p]) : p \in T}

\* A smallest of some sets of pieces
LEMMA Smallest ==
    ASSUME NEW C \in SUBSET (SUBSET Piece), C # {}
    PROVE  \E c \in C : \A d \in C : ~(d \subseteq c /\ d # c)
<1>1. IsFiniteSet(Piece)
  BY PickerAssumption, FS_Interval DEF Piece
<1>2. FiniteSubsetsOf(Piece) = SUBSET Piece
  BY <1>1, FS_FiniteSubsetsOfFinite
<1>3. IsWellFoundedOn(StrictSubsetOrdering(Piece), SUBSET Piece)
  BY <1>2, FS_StrictSubsetOrderingWellFounded
<1>4. PICK c \in C : \A d \in C : <<d, c>> \notin StrictSubsetOrdering(Piece)
  BY <1>3, WFMin, Zenon
<1>5. QED
  BY <1>4 DEF StrictSubsetOrdering

\* One piece more has the bytes of its own
LEMMA UnitsOfOne ==
    ASSUME NEW T \in SUBSET Piece, NEW p \in T
    PROVE  /\ Units(T) = Units(T \ {p}) \cup ({p} \X (1 .. PieceSize[p]))
           /\ Units(T \ {p}) \cap ({p} \X (1 .. PieceSize[p])) = {}
           /\ IsFiniteSet({p} \X (1 .. PieceSize[p]))
           /\ Cardinality({p} \X (1 .. PieceSize[p])) = PieceSize[p]
<1>1. PieceSize[p] \in Nat
  BY PickerAssumption
<1>2. IsFiniteSet({p}) /\ Cardinality({p}) = 1
  BY FS_Singleton
<1>3. IsFiniteSet(1 .. PieceSize[p]) /\ Cardinality(1 .. PieceSize[p]) = PieceSize[p]
  BY <1>1, FS_Interval
<1>4. /\ IsFiniteSet({p} \X (1 .. PieceSize[p]))
      /\ Cardinality({p} \X (1 .. PieceSize[p])) = 1 * PieceSize[p]
  <2> DEFINE I == 1 .. PieceSize[p]
  <2>1. IsFiniteSet(I) /\ Cardinality(I) = PieceSize[p]
    BY <1>3
  <2> HIDE DEF I
  <2>2. /\ IsFiniteSet({p} \X I)
        /\ Cardinality({p} \X I) = Cardinality({p}) * Cardinality(I)
    BY <1>2, <2>1, FS_Product, Zenon
  <2>3. QED
    BY <1>2, <2>1, <2>2 DEF I
<1>5. QED
  BY <1>1, <1>4 DEF Units

\* Two finite sets without a common element
LEMMA Together ==
    ASSUME NEW A, NEW B, IsFiniteSet(A), IsFiniteSet(B), A \cap B = {}
    PROVE  /\ IsFiniteSet(A \cup B)
           /\ Cardinality(A \cup B) = Cardinality(A) + Cardinality(B)
<1>1. Cardinality(A) \in Nat /\ Cardinality(B) \in Nat
  BY FS_CardinalityType
<1>2. Cardinality(A \cap B) = 0
  BY FS_EmptySet
<1>3. /\ IsFiniteSet(A \cup B)
      /\ Cardinality(A \cup B) = Cardinality(A) + Cardinality(B) - Cardinality(A \cap B)
  BY FS_Union, Zenon
<1>4. QED
  BY <1>1, <1>2, <1>3

LEMMA UnitsFinite ==
    ASSUME NEW T \in SUBSET Piece
    PROVE  IsFiniteSet(Units(T))
<1> DEFINE C == {U \in SUBSET Piece : ~ IsFiniteSet(Units(U))}
<1>1. ASSUME C # {} PROVE FALSE
  <2> HIDE DEF C
  <2>0. C \in SUBSET (SUBSET Piece)
    BY DEF C
  <2>1. PICK c \in C : \A d \in C : ~(d \subseteq c /\ d # c)
    BY <1>1, <2>0, Smallest, Zenon
  <2> USE DEF C
  <2>2. Units({}) = {}
    BY DEF Units
  <2>3. PICK p \in c : TRUE
    BY <2>1, <2>2, FS_EmptySet
  <2>4. IsFiniteSet(Units(c \ {p}))
    BY <2>1, <2>3
  <2>5. /\ Units(c) = Units(c \ {p}) \cup ({p} \X (1 .. PieceSize[p]))
        /\ Units(c \ {p}) \cap ({p} \X (1 .. PieceSize[p])) = {}
        /\ IsFiniteSet({p} \X (1 .. PieceSize[p]))
    BY <2>1, <2>3, UnitsOfOne, Zenon
  <2>6. IsFiniteSet(Units(c))
    <3> DEFINE u == Units(c \ {p})  v == {p} \X (1 .. PieceSize[p])
    <3>1. IsFiniteSet(u) /\ IsFiniteSet(v) /\ u \cap v = {} /\ Units(c) = u \cup v
      BY <2>4, <2>5
    <3> HIDE DEF u, v
    <3>2. QED
      BY <3>1, Together
  <2>7. QED
    BY <2>1, <2>6
<1>2. QED
  BY <1>1

\* The sum of the sizes of some pieces, one of which comes after the others
LEMMA SumIsUnits ==
    ASSUME NEW S \in SUBSET Piece
    PROVE  MapThenSumSet(LAMBDA p : PieceSize[p], S) = Cardinality(Units(S))
<1> DEFINE one(s) == CHOOSE x \in s : TRUE
           body(f, s) == IF s = {} THEN 0 ELSE PieceSize[one(s)] + f[s \ {one(s)}]
           sum == CHOOSE f : f = [s \in SUBSET S |-> body(f, s)]
           units == [s \in SUBSET S |-> Cardinality(Units(s))]
<1>1. MapThenSumSet(LAMBDA p : PieceSize[p], S) = sum[S]
  BY DEF MapThenSumSet, MapThenFoldSet
<1>2. ASSUME NEW s \in SUBSET S PROVE units[s] = body(units, s)
  <2>1. CASE s = {}
    <3>1. Units({}) = {}
      BY DEF Units
    <3>2. QED
      BY <2>1, <3>1, FS_EmptySet
  <2>2. CASE s # {}
    <3>1. one(s) \in s
      BY <2>2
    <3> HIDE DEF one
    <3>2. Cardinality(Units(s)) = Cardinality(Units(s \ {one(s)})) + PieceSize[one(s)]
      <4> DEFINE p == one(s)  u == Units(s \ {p})  v == {p} \X (1 .. PieceSize[p])
      <4>1. IsFiniteSet(u) /\ IsFiniteSet(v) /\ Cardinality(v) = PieceSize[p]
            /\ Units(s) = u \cup v /\ u \cap v = {} /\ PieceSize[p] \in Nat
        BY <3>1, UnitsOfOne, UnitsFinite, PickerAssumption
      <4> HIDE DEF u, v, p
      <4>2. Cardinality(u \cup v) = Cardinality(u) + Cardinality(v)
        BY <4>1, Together, Zenon
      <4>4. Cardinality(Units(s)) = Cardinality(u) + PieceSize[p]
        BY <4>1, <4>2, Zenon
      <4>5. QED
        BY <4>4 DEF u, p
    <3>3. Cardinality(Units(s \ {one(s)})) \in Nat /\ PieceSize[one(s)] \in Nat
      BY <3>1, UnitsFinite, FS_CardinalityType, PickerAssumption
    <3>4. QED
      BY <2>2, <3>2, <3>3
  <2>3. QED
    BY <2>1, <2>2
<1>3. units = [s \in SUBSET S |-> body(units, s)]
  <2> HIDE DEF body
  <2>1. QED
    BY <1>2
<1>4. sum = [s \in SUBSET S |-> body(sum, s)]
  <2> HIDE DEF body, units
  <2>1. QED
    BY <1>3
<1> DEFINE C == {s \in SUBSET S : sum[s] # units[s]}
<1> HIDE DEF sum, units, one
<1>5. ASSUME C # {} PROVE FALSE
  <2> HIDE DEF C
  <2>0. C \in SUBSET (SUBSET Piece)
    BY DEF C
  <2>1. PICK c \in C : \A d \in C : ~(d \subseteq c /\ d # c)
    BY <1>5, <2>0, Smallest, Zenon
  <2> USE DEF C
  <2>2. sum[c] = body(sum, c) /\ units[c] = body(units, c)
    BY <1>2, <1>4
  <2>3. CASE c = {}
    BY <2>1, <2>2, <2>3
  <2>4. CASE c # {}
    <3>1. one(c) \in c
      BY <2>4 DEF one
    <3>2. sum[c \ {one(c)}] = units[c \ {one(c)}]
      BY <2>1, <3>1
    <3>3. QED
      BY <2>1, <2>2, <2>4, <3>2
  <2>5. QED
    BY <2>3, <2>4
<1>6. sum[S] = units[S]
  BY <1>5
<1>7. QED
  BY <1>1, <1>6 DEF units

-----------------------------------------------------------------------------
(* One lemma per operation: it keeps IInv                                  *)

LEMMA WithIInv ==
    ASSUME NEW S \in SUBSET Piece, NEW bytes \in Nat, PickerWith(S, bytes)
    PROVE  IInv
<1>1. PickerTypeOK
  BY PickerAssumption DEF PickerWith, PickerTypeOK, BlockState
<1>2. ASSUME NEW p \in Piece
      PROVE  /\ InState(p, "Done") = {} /\ InState(p, "Pending") = {}
             /\ InState(p, "Free") = BlocksIn(p)
             /\ BlocksIn(p) # {}
  BY BlockPairs, BlocksInFinite, FS_EmptySet DEF PickerWith, InState
<1>3. CountsMatch
  BY <1>2, FS_EmptySet DEF CountsMatch, PickerWith
<1>4. QED
  BY <1>1, <1>2, <1>3
  DEF IInv, PickerWith, ReservedIffTimed, CompleteIffHanded, HaveIsSettled, FreshUnlessStarted

LEMMA InitIInv == PickerInit => IInv
  BY WithIInv DEF PickerInit

\* The availability of the pieces concerns no other variable
LEMMA AvailabilityStep ==
    ASSUME IInv, UNCHANGED stateVars, availability' \in [Piece -> 0 .. AvailMax]
    PROVE  IInv'
<1>1. UNCHANGED <<have, bytes_done, pick_cursor, started, block, done, npending,
                  pending, age, handed>>
  BY DEF stateVars
<1>2. PickerTypeOK'
  BY <1>1 DEF IInv, PickerTypeOK
<1>3. CountsMatch'
  BY <1>1 DEF IInv, CountsMatch, InState
<1>4. ReservedIffTimed'
  BY <1>1 DEF IInv, ReservedIffTimed
<1>5. CompleteIffHanded'
  BY <1>1 DEF IInv, CompleteIffHanded, InState
<1>6. HaveIsSettled' /\ FreshUnlessStarted'
  BY <1>1 DEF IInv, HaveIsSettled, FreshUnlessStarted, InState
<1>7. QED
  BY <1>2, <1>3, <1>4, <1>5, <1>6 DEF IInv

\* A piece waiting for its verdict was started, and has nothing reserved
LEMMA HandedIsStarted ==
    ASSUME IInv, NEW p \in handed
    PROVE  /\ p \in started \ have
           /\ InState(p, "Pending") = {} /\ InState(p, "Free") = {}
<1>1. p \in Piece /\ BlocksIn(p) # {} /\ InState(p, "Done") = BlocksIn(p)
  BY BlocksInFinite, FS_EmptySet DEF IInv, PickerTypeOK, CompleteIffHanded
<1>2. InState(p, "Pending") = {} /\ InState(p, "Free") = {}
  BY <1>1 DEF InState
<1>3. QED
  BY <1>1, <1>2 DEF IInv, HaveIsSettled, FreshUnlessStarted

\* Forgetting the blocks of p, none of which stays in pending_, leaves the other
\* pieces as they were
LEMMA ForgetStep ==
    ASSUME IInv, NEW p \in Piece, ForgetProgress(p),
           handed' = handed \ {p},
           pending' = {x \in pending : x[1] # p},
           \/ started' = started /\ have' = have
           \/ started' = started \ {p} /\ have' = have \cup {p},
           bytes_done' \in Nat, UNCHANGED <<availability, pick_cursor>>,
           age' \in [Block -> 0 .. Timeout]
    PROVE  IInv'
<1> USE DEF ForgetProgress
<1>1. PickerTypeOK'
  BY DEF IInv, PickerTypeOK, BlockState
<1>2. ASSUME NEW q \in Piece, NEW s
      PROVE  InState(q, s)' = IF q = p THEN (IF s = "Free" THEN BlocksIn(p) ELSE {})
                              ELSE InState(q, s)
  BY BlockPairs DEF InState
<1>3. CountsMatch'
  BY <1>2, FS_EmptySet DEF CountsMatch, IInv, PickerTypeOK
<1>4. ReservedIffTimed'
  BY BlockPairs DEF ReservedIffTimed, IInv
<1>5. CompleteIffHanded'
  <2>1. ASSUME NEW q \in Piece, q # p
        PROVE  q \in handed' <=> InState(q, "Done")' = BlocksIn(q)
    BY <2>1, <1>2 DEF IInv, CompleteIffHanded
  <2>2. p \notin handed' /\ InState(p, "Done")' # BlocksIn(p)
    BY <1>2, BlocksInFinite, FS_EmptySet
  <2>3. QED
    BY <2>1, <2>2 DEF CompleteIffHanded, BlocksIn, NumBlocks
<1>6. HaveIsSettled'
  <2>1. ASSUME NEW q \in have'
        PROVE  q \notin started' \cup handed' /\ InState(q, "Free")' = BlocksIn(q)
    BY <2>1, <1>2 DEF IInv, HaveIsSettled, PickerTypeOK
  <2>2. QED
    BY <2>1 DEF HaveIsSettled, BlocksIn, NumBlocks
<1>7. FreshUnlessStarted'
  <2>1. ASSUME NEW q \in Piece \ started'
        PROVE  InState(q, "Free")' = BlocksIn(q)
    BY <2>1, <1>2 DEF IInv, FreshUnlessStarted, PickerTypeOK
  <2>2. QED
    BY <2>1 DEF FreshUnlessStarted, BlocksIn, NumBlocks, Piece
<1>8. QED
  BY <1>1, <1>3, <1>4, <1>5, <1>6, <1>7 DEF IInv

LEMMA RestoreStep == ASSUME IInv, NEW p \in Piece, Restore(p) PROVE IInv'
<1>1. CASE p \in have
  BY <1>1, AvailabilityStep DEF Restore, SetHave, stateVars, IInv, PickerTypeOK
<1>2. CASE p \notin have
  <2>1. p \notin handed
    BY HandedIsStarted DEF Restore
  <2>2. \A x \in pending : x[1] # p
    BY BlockPairs DEF IInv, ReservedIffTimed, FreshUnlessStarted, InState, Restore, PickerTypeOK
  <2>3. bytes_done' \in Nat
    BY <1>2, PickerAssumption DEF Restore, SetHave, IInv, PickerTypeOK
  <2>4. age' \in [Block -> 0 .. Timeout]
    BY DEF Restore, IInv, PickerTypeOK
  <2>5. QED
    BY <1>2, <2>1, <2>2, <2>3, <2>4, ForgetStep DEF Restore, SetHave
<1>3. QED
  BY <1>1, <1>2

LEMMA VerifiedStep ==
    ASSUME IInv, NEW p \in Piece, NEW ok \in BOOLEAN, OnPieceVerified(p, ok)
    PROVE  IInv'
<1>1. p \in handed /\ p \in started \ have
  BY HandedIsStarted DEF OnPieceVerified
<1>2. CASE ok
  <2>1. \A x \in pending : x[1] # p
    BY <1>1, HandedIsStarted, BlockPairs DEF IInv, ReservedIffTimed, InState
  <2>2. bytes_done' \in Nat
    BY <1>1, <1>2, PickerAssumption DEF OnPieceVerified, SetHave, IInv, PickerTypeOK
  <2>3. age' \in [Block -> 0 .. Timeout]
    BY <1>2 DEF OnPieceVerified, IInv, PickerTypeOK
  <2>4. QED
    BY <1>1, <1>2, <2>1, <2>2, <2>3, ForgetStep DEF OnPieceVerified, SetHave
<1>3. CASE ~ok
  <2>1. age' \in [Block -> 0 .. Timeout] /\ bytes_done' \in Nat
    BY <1>3, PickerAssumption DEF OnPieceVerified, IInv, PickerTypeOK
  <2>2. QED
    BY <1>1, <1>3, <2>1, ForgetStep DEF OnPieceVerified
<1>4. QED
  BY <1>2, <1>3

\* Reserving blocks that are not received, of pieces not had
LEMMA ReserveStep ==
    ASSUME IInv, NEW R \in SUBSET Block, Reserve(R),
           \A x \in R : x[1] \notin have /\ block[x] # "Done",
           pick_cursor' \in Piece \cup {0}
    PROVE  IInv'
<1> DEFINE fresh(p) == {b \in BlocksIn(p) : <<p, b>> \in R /\ block[<<p, b>>] = "Free"}
<1>1. ASSUME NEW p \in Piece
      PROVE  /\ InState(p, "Done")' = InState(p, "Done")
             /\ InState(p, "Pending")' = InState(p, "Pending") \cup fresh(p)
             /\ InState(p, "Pending") \cap fresh(p) = {}
             /\ p \in have => InState(p, "Free")' = InState(p, "Free")
             /\ p \notin started' => InState(p, "Free")' = InState(p, "Free")
  BY BlockPairs DEF Reserve, InState, IInv, PickerTypeOK, BlockState
<1>2. ASSUME NEW p \in Piece
      PROVE  /\ IsFiniteSet(fresh(p)) /\ Cardinality(fresh(p)) \in Nat
             /\ Cardinality(InState(p, "Pending")')
                  = Cardinality(InState(p, "Pending")) + Cardinality(fresh(p))
  <2>1. fresh(p) \subseteq BlocksIn(p)
    OBVIOUS
  <2>2. IsFiniteSet(fresh(p)) /\ Cardinality(fresh(p)) \in Nat
    BY <2>1, BlocksInFinite, FS_Subset, FS_CardinalityType
  <2>3. Cardinality(InState(p, "Pending") \cup fresh(p))
          = Cardinality(InState(p, "Pending")) + Cardinality(fresh(p))
              - Cardinality(InState(p, "Pending") \cap fresh(p))
    BY <2>2, InStateFinite, FS_Union
  <2>4. Cardinality(InState(p, "Pending") \cap fresh(p)) = 0
    BY <1>1, FS_EmptySet
  <2>5. Cardinality(InState(p, "Pending")) \in Nat
    BY InStateFinite
  <2>6. Cardinality(InState(p, "Pending") \cup fresh(p))
          = Cardinality(InState(p, "Pending")) + Cardinality(fresh(p))
    BY <2>2, <2>3, <2>4, <2>5
  <2>7. QED
    BY <2>2, <2>6, <1>1
<1>3. PickerTypeOK'
  <2>1. npending' \in [Piece -> Nat]
    <3>1. npending' = [p \in Piece |-> npending[p] + Cardinality(fresh(p))]
      BY DEF Reserve
    <3>2. \A p \in Piece : npending[p] \in Nat /\ Cardinality(fresh(p)) \in Nat
      BY <1>2 DEF IInv, PickerTypeOK
    <3>3. QED
      BY <3>1, <3>2
  <2>2. age' \in [Block -> 0 .. Timeout]
    BY PickerAssumption DEF Reserve, IInv, PickerTypeOK
  <2>3. block' \in [Block -> BlockState] /\ pending' \subseteq Block
    BY DEF Reserve, IInv, PickerTypeOK, BlockState
  <2>4. started' \subseteq Piece
    BY BlockPairs DEF Reserve, IInv, PickerTypeOK
  <2>5. QED
    BY <2>1, <2>2, <2>3, <2>4 DEF Reserve, IInv, PickerTypeOK
<1>4. CountsMatch'
  BY <1>1, <1>2 DEF CountsMatch, Reserve, IInv, PickerTypeOK
<1>5. ReservedIffTimed'
  BY DEF ReservedIffTimed, Reserve, IInv, PickerTypeOK
<1>6. CompleteIffHanded'
  BY <1>1 DEF CompleteIffHanded, Reserve, IInv, BlocksIn, NumBlocks, Piece
<1>7. HaveIsSettled'
  BY <1>1 DEF HaveIsSettled, Reserve, IInv, PickerTypeOK, BlocksIn, NumBlocks
<1>8. FreshUnlessStarted'
  BY <1>1 DEF FreshUnlessStarted, Reserve, IInv, BlocksIn, NumBlocks, Piece
<1>9. QED
  BY <1>3, <1>4, <1>5, <1>6, <1>7, <1>8 DEF IInv

LEMMA OpenedAreCandidates ==
    ASSUME NEW S, NEW f \in Openings(S), NEW i \in DOMAIN f
    PROVE  f[i] \in Candidates(S)
<1>1. PICK T \in SUBSET Candidates(S) : f \in Orders(T)
  BY DEF Openings
<1>2. QED
  BY <1>1 DEF Orders

\* pick() takes only blocks that are not received, of pieces not had
LEMMA PickedBlocks ==
    ASSUME NEW S \in SUBSET Piece, NEW max, NEW R \in Picks(S, max)
    PROVE  /\ R \subseteq Block
           /\ \A x \in R : x[1] \notin have /\ block[x] # "Done"
           /\ ~Endgame => \A x \in R : block[x] = "Free"
<1>1. PICK old \in Orders(StartedFor(S)), new \in Openings(S) :
          R = Picked(old, new, max)
  BY DEF Picks
<1>2. /\ R \subseteq Block
      /\ \A x \in R : x[2] \in Takeable(x[1])
                      /\ (x[1] \in StartedFor(S) \/ x[1] \in Candidates(S))
  <2>1. \A i \in DOMAIN old : old[i] \in StartedFor(S)
    BY <1>1 DEF Orders
  <2>2. \A i \in DOMAIN new : new[i] \in Candidates(S)
    BY <1>1, OpenedAreCandidates
  <2>3. QED
    BY <1>1, <2>1, <2>2 DEF Picked
<1>3. ASSUME NEW x \in R
      PROVE  x[1] \notin have /\ block[x] # "Done" /\ (~Endgame => block[x] = "Free")
  <2>1. x = <<x[1], x[2]>> /\ x[2] \in Takeable(x[1])
    BY <1>2, BlockPairs
  <2>2. /\ block[<<x[1], x[2]>>] # "Done"
        /\ ~Endgame => block[<<x[1], x[2]>>] = "Free"
    BY <2>1 DEF Takeable
  <2>3. x[1] \notin have
    BY <1>2 DEF StartedFor, Candidates
  <2>4. QED
    BY <2>1, <2>2, <2>3
<1>4. QED
  BY <1>2, <1>3

LEMMA PickStep ==
    ASSUME IInv, NEW S \in SUBSET Piece, NEW max, NEW R \in Picks(S, max), Pick(S, max, R)
    PROVE  IInv'
<1>1. Reserve(R)
  BY DEF Pick
<1>2. ASSUME NEW f \in Openings(S), NEW i \in DOMAIN f
      PROVE  NextCursor(f[i]) \in Piece \cup {0}
  <2>1. f[i] \in Piece
    BY <1>2, OpenedAreCandidates DEF Candidates
  <2>2. NumPieces \in Nat /\ f[i] \in Int /\ f[i] >= 0 /\ f[i] < NumPieces
    BY <2>1, PickerAssumption DEF Piece
  <2>3. (f[i] + 1) % NumPieces \in 0 .. NumPieces - 1
    BY <2>2
  <2>4. QED
    BY <2>3 DEF NextCursor, Piece
<1>3. pick_cursor' \in Piece \cup {0}
  <2>1. pick_cursor \in Piece \cup {0}
    BY DEF IInv, PickerTypeOK
  <2>2. PICK f \in Openings(S) :
           \/ pick_cursor' = pick_cursor
           \/ \E i \in DOMAIN f : pick_cursor' = NextCursor(f[i])
    BY DEF Pick
  <2>3. QED
    BY <1>2, <2>1, <2>2
<1>4. QED
  BY <1>1, <1>3, PickedBlocks, ReserveStep

LEMMA ReceivedStep ==
    ASSUME IInv, NEW p \in Piece, NEW b \in BlocksIn(p), OnBlockReceived(p, b)
    PROVE  IInv'
<1> DEFINE x == <<p, b>>
<1>1. x \in Block /\ p \in started \ have
  BY BlockPairs DEF OnBlockReceived
<1>2. age' \in [Block -> 0 .. Timeout] /\ pending' \subseteq Block
  <2>1. 0 \in 0 .. Timeout
    BY PickerAssumption
  <2>2. age' = [age EXCEPT ![x] = 0] /\ pending' = pending \ {x}
    BY DEF OnBlockReceived
  <2>3. QED
    BY <2>1, <2>2 DEF IInv, PickerTypeOK
<1>3. CASE block[x] = "Done"
  <2>1. x \notin pending
    BY <1>1, <1>3 DEF IInv, ReservedIffTimed
  <2>2. ~CompletesPiece(p, b)
    BY <1>3 DEF CompletesPiece
  <2>3. UNCHANGED <<have, bytes_done, availability, pick_cursor, started, block, done,
                    npending, pending, handed>>
    BY <1>3, <2>1, <2>2 DEF OnBlockReceived
  <2>4. PickerTypeOK'
    BY <1>2, <2>3 DEF IInv, PickerTypeOK
  <2>5. QED
    BY <2>3, <2>4 DEF IInv, CountsMatch, ReservedIffTimed, CompleteIffHanded,
                      HaveIsSettled, FreshUnlessStarted, InState
<1>4. CASE block[x] # "Done"
  <2>1. /\ block' = [block EXCEPT ![x] = "Done"]
        /\ done' = [done EXCEPT ![p] = @ + 1]
    BY <1>4 DEF OnBlockReceived
  <2>2. ASSUME NEW q \in Piece, NEW s
        PROVE  InState(q, s)' = IF q # p THEN InState(q, s)
                                ELSE IF s = "Done" THEN InState(p, s) \cup {b}
                                ELSE InState(p, s) \ {b}
    BY <1>1, <2>1, BlockPairs DEF InState, IInv, PickerTypeOK
  <2>3. b \notin InState(p, "Done") /\ (b \in InState(p, "Pending") <=> block[x] = "Pending")
    BY <1>4 DEF InState
  <2>4. /\ Cardinality(InState(p, "Done") \cup {b}) = Cardinality(InState(p, "Done")) + 1
        /\ Cardinality(InState(p, "Pending") \ {b})
              = IF block[x] = "Pending" THEN Cardinality(InState(p, "Pending")) - 1
                ELSE Cardinality(InState(p, "Pending"))
    BY <2>3, InStateFinite, FS_AddElement, FS_RemoveElement
  <2>5. block[x] = "Pending" => npending[p] > 0
    BY <2>3, InStateFinite, FS_EmptySet DEF IInv, CountsMatch
  <2>6. npending' = [npending EXCEPT ![p] = IF block[x] = "Pending" THEN @ - 1 ELSE @]
    BY <1>4, <2>5 DEF OnBlockReceived, IInv, PickerTypeOK
  <2>7. PickerTypeOK'
    <3>1. npending' \in [Piece -> Nat]
      BY <2>5, <2>6 DEF IInv, PickerTypeOK
    <3>2. handed' \subseteq Piece
      BY DEF OnBlockReceived, IInv, PickerTypeOK
    <3>3. block' \in [Block -> BlockState] /\ done' \in [Piece -> Nat]
      <4>1. block' \in [Block -> BlockState]
        BY <1>1, <2>1 DEF IInv, PickerTypeOK, BlockState
      <4>2. done' \in [Piece -> Nat]
        BY <2>1 DEF IInv, PickerTypeOK
      <4>3. QED
        BY <4>1, <4>2
    <3>4. UNCHANGED <<have, bytes_done, availability, pick_cursor, started>>
      BY DEF OnBlockReceived
    <3>5. QED
      BY <1>2, <3>1, <3>2, <3>3, <3>4 DEF IInv, PickerTypeOK
  <2>8. CountsMatch'
    <3>1. ASSUME NEW q \in Piece, q # p
          PROVE  /\ done'[q] = Cardinality(InState(q, "Done")')
                 /\ npending'[q] = Cardinality(InState(q, "Pending")')
      BY <3>1, <2>1, <2>2, <2>6 DEF IInv, PickerTypeOK, CountsMatch
    <3>2. /\ done'[p] = Cardinality(InState(p, "Done")')
          /\ npending'[p] = Cardinality(InState(p, "Pending")')
      BY <2>1, <2>2, <2>4, <2>6 DEF IInv, PickerTypeOK, CountsMatch
    <3>3. QED
      BY <3>1, <3>2 DEF CountsMatch, Piece
  <2>9. ReservedIffTimed'
    BY <1>1, <2>1 DEF ReservedIffTimed, IInv, PickerTypeOK, OnBlockReceived
  <2>10. CompleteIffHanded'
    <3>1. ASSUME NEW q \in Piece, q # p
          PROVE  q \in handed' <=> InState(q, "Done")' = BlocksIn(q)
      BY <3>1, <2>2 DEF IInv, CompleteIffHanded, OnBlockReceived
    <3>2. p \notin handed
      BY <2>3 DEF IInv, CompleteIffHanded
    <3>3. p \in handed' <=> done[p] + 1 = NumBlocks(p)
      BY <1>1, <1>4, <3>2 DEF OnBlockReceived, CompletesPiece
    <3>4. done[p] + 1 = Cardinality(InState(p, "Done")')
      BY <2>2, <2>4 DEF IInv, CountsMatch
    <3>5. /\ InState(p, "Done")' \subseteq BlocksIn(p)
          /\ Cardinality(InState(p, "Done")') = NumBlocks(p)
                <=> InState(p, "Done")' = BlocksIn(p)
      <4>1. InState(p, "Done") \cup {b} \subseteq BlocksIn(p)
        BY InStateFinite
      <4>2. Cardinality(InState(p, "Done") \cup {b}) = NumBlocks(p)
                <=> InState(p, "Done") \cup {b} = BlocksIn(p)
        BY <4>1, BlocksInFinite, FS_Subset
      <4>3. InState(p, "Done")' = InState(p, "Done") \cup {b}
        BY <2>2
      <4>4. QED
        BY <4>1, <4>2, <4>3
    <3>6. QED
      BY <3>1, <3>3, <3>4, <3>5 DEF CompleteIffHanded, BlocksIn, NumBlocks, Piece
  <2>11. HaveIsSettled'
    <3>1. ASSUME NEW q \in have
          PROVE  q \notin started' \cup handed' /\ InState(q, "Free")' = BlocksIn(q)
      BY <1>1, <3>1, <2>2 DEF IInv, PickerTypeOK, HaveIsSettled, OnBlockReceived
    <3>2. QED
      BY <3>1 DEF HaveIsSettled, BlocksIn, NumBlocks, OnBlockReceived
  <2>12. FreshUnlessStarted'
    <3>1. ASSUME NEW q \in Piece \ started
          PROVE  InState(q, "Free")' = BlocksIn(q)
      BY <1>1, <3>1, <2>2 DEF IInv, FreshUnlessStarted
    <3>2. QED
      BY <3>1 DEF FreshUnlessStarted, BlocksIn, NumBlocks, Piece, OnBlockReceived
  <2>13. QED
    BY <2>7, <2>8, <2>9, <2>10, <2>11, <2>12 DEF IInv
<1>5. QED
  BY <1>3, <1>4

\* Taking a subset out of a finite set takes its number of elements
LEMMA SubsetTaken ==
    ASSUME NEW S, NEW T \in SUBSET S, IsFiniteSet(S)
    PROVE  Cardinality(S \ T) = Cardinality(S) - Cardinality(T)
<1>1. S \cap T = T
  OBVIOUS
<1>2. QED
  BY <1>1, FS_Difference

\* The requests of a peer given back, while it may cease to be counted
LEMMA GiveBackStep ==
    ASSUME IInv, NEW R \in SUBSET Block, GiveBack(R), availability' \in [Piece -> 0 .. AvailMax]
    PROVE  IInv'
<1> DEFINE freed(p) == Freed(R, p)
<1> USE DEF Freed
<1>1. ASSUME NEW x \in Block
      PROVE  block'[x] = IF x \in R /\ block[x] = "Pending" THEN "Free" ELSE block[x]
  <2>1. x[1] \in Piece /\ x[2] \in BlocksIn(x[1]) /\ x = <<x[1], x[2]>>
    BY BlockPairs
  <2>2. block[x] = "Pending" => x[1] \in started
    BY <2>1 DEF IInv, FreshUnlessStarted, InState
  <2>3. x[2] \in freed(x[1]) <=> x \in R /\ block[x] = "Pending"
    BY <2>1, <2>2
  <2>4. QED
    BY <2>3 DEF GiveBack
<1>2. ASSUME NEW p \in Piece
      PROVE  /\ InState(p, "Done")' = InState(p, "Done")
             /\ InState(p, "Pending")' = InState(p, "Pending") \ freed(p)
             /\ InState(p, "Free") \subseteq InState(p, "Free")'
             /\ freed(p) \subseteq InState(p, "Pending")
  <2>1. \A b \in BlocksIn(p) : <<p, b>> \in Block /\ (block[<<p, b>>] = "Pending" => p \in started)
    BY BlockPairs DEF IInv, FreshUnlessStarted, InState
  <2>2. QED
    BY <1>1, <2>1 DEF InState
<1>3. ASSUME NEW p \in Piece
      PROVE  /\ Cardinality(freed(p)) \in Nat
             /\ Cardinality(freed(p)) <= npending[p]
             /\ Cardinality(InState(p, "Pending")') = npending[p] - Cardinality(freed(p))
  <2>1. IsFiniteSet(freed(p)) /\ Cardinality(freed(p)) \in Nat
        /\ Cardinality(freed(p)) <= Cardinality(InState(p, "Pending"))
    BY <1>2, InStateFinite, FS_Subset, FS_CardinalityType
  <2>2. IsFiniteSet(InState(p, "Pending")) /\ freed(p) \subseteq InState(p, "Pending")
    BY <1>2, InStateFinite
  <2>3. Cardinality(InState(p, "Pending") \ freed(p))
          = Cardinality(InState(p, "Pending")) - Cardinality(freed(p))
    BY <2>2, SubsetTaken
  <2>4. QED
    BY <1>2, <2>1, <2>3 DEF IInv, CountsMatch
<1>4. npending' = [p \in Piece |-> npending[p] - Cardinality(freed(p))]
  <2>1. npending' = [p \in Piece |-> IF Cardinality(freed(p)) <= npending[p]
                                     THEN npending[p] - Cardinality(freed(p)) ELSE 0]
    BY DEF GiveBack
  <2>2. QED
    BY <1>3, <2>1
<1>5. PickerTypeOK'
  <2>1. npending' \in [Piece -> Nat]
    BY <1>3, <1>4 DEF IInv, PickerTypeOK
  <2>2. age' \in [Block -> 0 .. Timeout] /\ pending' \subseteq Block
    BY PickerAssumption DEF GiveBack, IInv, PickerTypeOK
  <2>3. block' \in [Block -> BlockState]
    BY DEF GiveBack, IInv, PickerTypeOK, BlockState
  <2>4. UNCHANGED <<have, bytes_done, pick_cursor, started, done, handed>>
    BY DEF GiveBack
  <2>5. QED
    BY <2>1, <2>2, <2>3, <2>4 DEF IInv, PickerTypeOK
<1>6. CountsMatch'
  <2>1. Piece' = Piece /\ UNCHANGED done
    BY DEF Piece, GiveBack
  <2>2. ASSUME NEW p \in Piece
        PROVE  /\ done'[p] = Cardinality(InState(p, "Done")')
               /\ npending'[p] = Cardinality(InState(p, "Pending")')
    BY <1>2, <1>3, <1>4, <2>1 DEF CountsMatch, IInv
  <2>3. QED
    BY <2>1, <2>2 DEF CountsMatch
<1>7. ReservedIffTimed'
  BY <1>1 DEF ReservedIffTimed, IInv, GiveBack, PickerTypeOK
<1>8. CompleteIffHanded'
  BY <1>2 DEF CompleteIffHanded, IInv, GiveBack, Piece, BlocksIn, NumBlocks
<1>9. HaveIsSettled' /\ FreshUnlessStarted'
  <2>1. ASSUME NEW p \in Piece, InState(p, "Free") = BlocksIn(p)
        PROVE  InState(p, "Free")' = BlocksIn(p)
    BY <1>2, <2>1 DEF InState
  <2>2. QED
    BY <2>1 DEF IInv, PickerTypeOK, HaveIsSettled, FreshUnlessStarted, GiveBack, Piece, BlocksIn, NumBlocks
<1>10. QED
  BY <1>5, <1>6, <1>7, <1>8, <1>9 DEF IInv

LEMMA ReleaseStep == ASSUME IInv, NEW R \in SUBSET Block, Release(R) PROVE IInv'
<1>1. GiveBack(R) /\ availability' \in [Piece -> 0 .. AvailMax]
  BY DEF Release, IInv, PickerTypeOK
<1>2. QED
  BY <1>1, GiveBackStep

\* The clocks concern no other variable
LEMMA AgeStep ==
    ASSUME IInv, age' = Older \/ age' = age,
           UNCHANGED <<have, bytes_done, availability, pick_cursor, started, block,
                       done, npending, pending, handed>>
    PROVE  IInv'
<1>1. age' \in [Block -> 0 .. Timeout]
  BY PickerAssumption DEF Older, IInv, PickerTypeOK
<1>3. PickerTypeOK'
  BY <1>1 DEF IInv, PickerTypeOK
<1>4. CountsMatch'
  BY DEF IInv, CountsMatch, InState
<1>5. ReservedIffTimed'
  BY DEF IInv, ReservedIffTimed
<1>6. CompleteIffHanded'
  BY DEF IInv, CompleteIffHanded, InState
<1>7. HaveIsSettled' /\ FreshUnlessStarted'
  BY DEF IInv, HaveIsSettled, FreshUnlessStarted, InState
<1>8. QED
  BY <1>3, <1>4, <1>5, <1>6, <1>7 DEF IInv

LEMMA TimeStep == ASSUME IInv, TimePasses PROVE IInv'
BY AgeStep DEF TimePasses

-----------------------------------------------------------------------------
(* The theorems                                                            *)

LEMMA NextIInv == IInv /\ [PickerNext]_pickerVars => IInv'
<1> SUFFICES ASSUME IInv, [PickerNext]_pickerVars PROVE IInv'
  OBVIOUS
<1>1. ASSUME NEW p \in Piece, Restore(p) PROVE IInv'
  BY <1>1, RestoreStep
<1>2. ASSUME NEW S \in SUBSET Piece, PeerAdded(S) PROVE IInv'
  <2>1. availability' \in [Piece -> 0 .. AvailMax] /\ UNCHANGED stateVars
    BY <1>2, PickerAssumption DEF PeerAdded, IInv, PickerTypeOK
  <2>2. QED
    BY <2>1, AvailabilityStep
<1>3. ASSUME NEW S \in SUBSET Piece, PeerRemoved(S) PROVE IInv'
  <2>1. availability' \in [Piece -> 0 .. AvailMax] /\ UNCHANGED stateVars
    BY <1>3, PickerAssumption DEF PeerRemoved, Uncounted, IInv, PickerTypeOK
  <2>2. QED
    BY <2>1, AvailabilityStep
<1>4. ASSUME NEW p \in Piece, PeerHas(p) PROVE IInv'
  BY <1>2, <1>4 DEF PeerHas
<1>5. ASSUME NEW S \in SUBSET Piece, NEW max \in 1 .. MaxPick,
             NEW R \in Picks(S, max) \ {{}}, Pick(S, max, R)
      PROVE  IInv'
  BY <1>5, PickStep
<1>6. ASSUME NEW x \in Block, OnBlockReceived(x[1], x[2]) PROVE IInv'
  BY <1>6, BlockPairs, ReceivedStep
<1>7. ASSUME NEW x \in Block, OnRequestDropped(x[1], x[2]) PROVE IInv'
  BY <1>7, BlockPairs, ReleaseStep DEF OnRequestDropped
<1>8. ASSUME NEW p \in Piece, NEW ok \in BOOLEAN, OnPieceVerified(p, ok) PROVE IInv'
  BY <1>8, VerifiedStep
<1>9. ASSUME ExpireRequests PROVE IInv'
  <2>1. Expired \in SUBSET Block
    BY DEF Expired, IInv, PickerTypeOK
  <2>2. Release(Expired)
    BY <1>9 DEF ExpireRequests
  <2>3. ASSUME NEW R \in SUBSET Block, Release(R) PROVE IInv'
    BY <2>3, ReleaseStep
  <2>4. QED
    BY <2>1, <2>2, <2>3
<1>10. CASE TimePasses
  BY <1>10, TimeStep
<1>11. CASE UNCHANGED pickerVars
  BY <1>11, AvailabilityStep DEF pickerVars, stateVars, IInv, PickerTypeOK
<1>12. QED
  BY <1>1, <1>2, <1>3, <1>4, <1>5, <1>6, <1>7, <1>8, <1>9, <1>10, <1>11 DEF PickerNext

\* The inductive invariant holds of every behaviour of the picker.
THEOREM PickerInvariant == PickerSpec => []IInv
BY InitIInv, NextIInv, PTL DEF PickerSpec

\* The counters kept beside the blocks never drift from them.
THEOREM CountersAreRight == PickerSpec => []CountsMatch
BY PickerInvariant, PTL DEF IInv

\* No block is reserved out of reach of expire_requests().
THEOREM NoReservationForgotten == PickerSpec => []ReservedIffTimed
BY PickerInvariant, PTL DEF IInv

\* No complete piece is left without a verdict to come, and none is judged early.
THEOREM CompletePiecesAreHanded == PickerSpec => []CompleteIffHanded
BY PickerInvariant, PTL DEF IInv

\* A verified piece is never asked for, received or judged again.
THEOREM VerifiedIsSettled == PickerSpec => []HaveIsSettled
BY PickerInvariant, PTL DEF IInv

\* Only the verdict of its piece takes a block out of Done.
LEMMA KeptStep ==
    IInv /\ [PickerNext]_pickerVars =>
        \A x \in Block : block[x] = "Done" /\ block'[x] # "Done" => x[1] \in handed \ handed'
<1> SUFFICES ASSUME IInv, [PickerNext]_pickerVars, NEW x \in Block, block[x] = "Done", block'[x] # "Done"
             PROVE  x[1] \in handed \ handed'
  OBVIOUS
<1>1. x[1] \in Piece /\ x[2] \in BlocksIn(x[1]) /\ x = <<x[1], x[2]>>
  BY BlockPairs
<1>2. x[1] \in started
  BY <1>1 DEF IInv, FreshUnlessStarted, InState
<1>3. ASSUME NEW p \in Piece, Restore(p) PROVE FALSE
  BY <1>2, <1>3 DEF Restore
<1>4. ASSUME block' = block PROVE FALSE
  BY <1>4
<1>5. ASSUME NEW S \in SUBSET Piece, NEW max \in 1 .. MaxPick,
             NEW R \in Picks(S, max) \ {{}}, Pick(S, max, R)
      PROVE  FALSE
  <2>1. x \in R
    BY <1>5 DEF Pick, Reserve
  <2>2. QED
    BY <1>5, <2>1, PickedBlocks
<1>6. ASSUME NEW R, Release(R) PROVE FALSE
  <2>1. x[2] \in Freed(R, x[1])
    BY <1>6 DEF Release, GiveBack
  <2>2. block[<<x[1], x[2]>>] = "Pending"
    BY <2>1 DEF Freed
  <2>3. QED
    BY <1>1, <2>2
<1>7. ASSUME NEW y \in Block, OnBlockReceived(y[1], y[2]) PROVE FALSE
  BY <1>7 DEF OnBlockReceived, IInv, PickerTypeOK
<1>8. ASSUME NEW p \in Piece, NEW ok \in BOOLEAN, OnPieceVerified(p, ok)
      PROVE  x[1] \in handed \ handed'
  <2>1. x[1] = p
    BY <1>8 DEF OnPieceVerified, SetHave, ForgetProgress
  <2>2. QED
    BY <1>8, <2>1 DEF OnPieceVerified
<1>9. QED
  BY <1>3, <1>4, <1>5, <1>6, <1>7, <1>8
  DEF PickerNext, pickerVars, PeerAdded, PeerRemoved, Uncounted, PeerHas, stateVars, OnRequestDropped,
      ExpireRequests, TimePasses, Uncounted

\* A received block is asked for again only after its piece failed its check:
\* neither a dropped request, nor an expired one, nor the endgame frees it.
THEOREM NothingReceivedIsLost == PickerSpec => ReceivedIsKept
BY PickerInvariant, KeptStep, PTL DEF PickerSpec, ReceivedIsKept

\* A block that is pending is asked of a second peer in the endgame only.
LEMMA OneRequestStep ==
    IInv /\ [PickerNext]_pickerVars =>
        (~Endgame => \A x \in pending \cap pending' : age'[x] >= age[x])
<1> SUFFICES ASSUME IInv, [PickerNext]_pickerVars, ~Endgame, NEW x \in pending \cap pending'
             PROVE  age'[x] >= age[x]
  OBVIOUS
<1>1. x \in Block /\ block[x] = "Pending" /\ age[x] \in 0 .. Timeout /\ Timeout \in Nat
  BY PickerAssumption DEF IInv, PickerTypeOK, ReservedIffTimed
<1>2. ASSUME age' = age PROVE age'[x] >= age[x]
  BY <1>1, <1>2
<1>3. ASSUME NEW S \in SUBSET Piece, NEW max \in 1 .. MaxPick,
             NEW R \in Picks(S, max) \ {{}}, Pick(S, max, R)
      PROVE  age'[x] >= age[x]
  <2>1. x \notin R
    BY <1>1, <1>3, PickedBlocks
  <2>2. age'[x] = age[x]
    BY <1>1, <1>3, <2>1 DEF Pick, Reserve
  <2>3. QED
    BY <1>1, <2>2
<1>4. ASSUME NEW R, Release(R) PROVE age'[x] >= age[x]
  <2>1. x \notin R /\ age'[x] = age[x]
    BY <1>1, <1>4 DEF Release, GiveBack
  <2>2. QED
    BY <1>1, <2>1
<1>5. ASSUME NEW y \in Block, OnBlockReceived(y[1], y[2]) PROVE age'[x] >= age[x]
  <2>1. y = <<y[1], y[2]>>
    BY BlockPairs
  <2>2. x # y /\ age' = [age EXCEPT ![y] = 0]
    BY <1>5, <2>1 DEF OnBlockReceived
  <2>3. age'[x] = age[x]
    BY <1>1, <2>2 DEF IInv, PickerTypeOK
  <2>4. QED
    BY <1>1, <2>3
<1>6. ASSUME NEW p \in Piece, NEW ok \in BOOLEAN, OnPieceVerified(p, ok) PROVE age'[x] >= age[x]
  <2>1. age'[x] = age[x]
    BY <1>1, <1>6 DEF OnPieceVerified
  <2>2. QED
    BY <1>1, <2>1
<1>7. ASSUME TimePasses PROVE age'[x] >= age[x]
  BY <1>1, <1>7 DEF TimePasses, Older
<1>8. QED
  BY <1>2, <1>3, <1>4, <1>5, <1>6, <1>7
  DEF PickerNext, pickerVars, PeerAdded, PeerRemoved, PeerHas, stateVars, Restore,
      OnRequestDropped, ExpireRequests

\* Outside the endgame a reserved block is never promised to a second peer: its clock
\* is not started again.
THEOREM OnePeerPerBlock == PickerSpec => OneRequestAtATime
BY PickerInvariant, OneRequestStep, PTL DEF PickerSpec, OneRequestAtATime

\* A piece verified is counted, once
LEMMA BytesStep ==
    ASSUME IInv, BytesMatch,
           \/ have' = have /\ bytes_done' = bytes_done
           \/ \E p \in Piece \ have : /\ have' = have \cup {p}
                                      /\ bytes_done' = bytes_done + PieceSize[p]
    PROVE  BytesMatch'
<1>1. have \in SUBSET Piece /\ bytes_done = Cardinality(Units(have))
  BY SumIsUnits DEF IInv, PickerTypeOK, BytesMatch
<1>2. ASSUME NEW p \in Piece \ have PROVE Cardinality(Units(have \cup {p})) = bytes_done + PieceSize[p]
  <2> DEFINE u == Units(have)  v == {p} \X (1 .. PieceSize[p])
  <2>1. have \cup {p} \in SUBSET Piece /\ (have \cup {p}) \ {p} = have
    BY <1>1
  <2>2. /\ Units(have \cup {p}) = u \cup v /\ u \cap v = {}
        /\ IsFiniteSet(v) /\ Cardinality(v) = PieceSize[p] /\ IsFiniteSet(u)
    BY <1>1, <2>1, UnitsOfOne, UnitsFinite
  <2> HIDE DEF u, v
  <2>3. Cardinality(u \cup v) = Cardinality(u) + Cardinality(v)
    BY <2>2, Together, Zenon
  <2>4. QED
    BY <1>1, <2>2, <2>3 DEF u
<1>3. bytes_done' = Cardinality(Units(have')) /\ have' \in SUBSET Piece
  BY <1>1, <1>2
<1>4. MapThenSumSet(LAMBDA p : PieceSize[p], have') = Cardinality(Units(have'))
  BY <1>3, SumIsUnits
<1>5. QED
  BY <1>3, <1>4 DEF BytesMatch, MapThenSumSet, MapThenFoldSet

LEMMA InitBytes == PickerInit => BytesMatch
<1>1. Units({}) = {}
  BY DEF Units
<1>2. QED
  BY <1>1, SumIsUnits, FS_EmptySet DEF PickerInit, PickerWith, BytesMatch

\* progress() shows the pieces that are had, each counted once.
THEOREM ProgressIsRight == PickerSpec => []BytesMatch
<1>1. IInv /\ BytesMatch /\ [PickerNext]_pickerVars => BytesMatch'
  <2> SUFFICES ASSUME IInv, BytesMatch, [PickerNext]_pickerVars PROVE BytesMatch'
    OBVIOUS
  <2>1. \/ have' = have /\ bytes_done' = bytes_done
        \/ \E p \in Piece \ have : have' = have \cup {p} /\ bytes_done' = bytes_done + PieceSize[p]
    BY DEF PickerNext, pickerVars, stateVars, Restore, SetHave, PeerAdded, PeerRemoved, PeerHas,
           Pick, Reserve, OnBlockReceived, OnRequestDropped, Release, GiveBack, OnPieceVerified,
           ExpireRequests, TimePasses
  <2>2. QED
    BY <2>1, BytesStep
<1>2. QED
  BY <1>1, InitBytes, PickerInvariant, PTL DEF PickerSpec

-----------------------------------------------------------------------------
(* Facts about the state                                                   *)

LEMMA SomePeers ==
    ASSUME NEW S \in SUBSET Peer
    PROVE  /\ IsFiniteSet(S) /\ Cardinality(S) \in Nat /\ Cardinality(S) <= AvailMax
           /\ Cardinality(S) <= Cardinality(Peer) /\ Cardinality(Peer) \in Nat
           /\ \A T \in SUBSET S : Cardinality(T) \in Nat /\ Cardinality(T) <= Cardinality(S)
<1>1. /\ IsFiniteSet(Peer) /\ Cardinality(Peer) <= AvailMax /\ AvailMax \in Nat
  BY SwarmAssumption, PickerAssumption, FS_CardinalityType
<1>2. /\ IsFiniteSet(S) /\ Cardinality(S) <= Cardinality(Peer)
  BY <1>1, FS_Subset
<1>3. Cardinality(S) \in Nat /\ Cardinality(Peer) \in Nat
  BY <1>1, <1>2, FS_CardinalityType
<1>4. ASSUME NEW T \in SUBSET S PROVE Cardinality(T) \in Nat /\ Cardinality(T) <= Cardinality(S)
  BY <1>2, FS_Subset, FS_CardinalityType
<1>5. QED
  BY <1>1, <1>2, <1>3, <1>4

LEMMA HavingPeers == \A p : Having(p) \in SUBSET Peer /\ Having(p)' \in SUBSET Peer
BY DEF Having, Ready

\* The requests of a peer
LEMMA RequestsOf ==
    ASSUME TypeOK, NEW c \in Peer
    PROVE  /\ Outstanding(c) \subseteq Block
           /\ requested[c] \in [Outstanding(c) -> 0 .. Timeout + 1]
<1>1. PICK R \in SUBSET Block : requested[c] \in [R -> 0 .. Timeout + 1]
  BY DEF TypeOK, Requests
<1>2. QED
  BY <1>1 DEF Outstanding

LEMMA AreRequests ==
    ASSUME NEW R \in SUBSET Block, NEW f \in [R -> 0 .. Timeout + 1]
    PROVE  f \in Requests
BY DEF Requests

\* What is reserved is of a piece in progress
LEMMA ReservedInProgress ==
    ASSUME IInv, NEW x \in pending
    PROVE  x \in Block /\ x[1] \in started \ have /\ x = <<x[1], x[2]>>
<1>1. x \in Block /\ block[x] = "Pending" /\ x[1] \in Piece /\ x[2] \in BlocksIn(x[1])
      /\ x = <<x[1], x[2]>>
  BY BlockPairs DEF IInv, ReservedIffTimed
<1>2. x[2] \notin InState(x[1], "Free")
  BY <1>1 DEF InState
<1>3. QED
  BY <1>1, <1>2 DEF IInv, FreshUnlessStarted, HaveIsSettled

\* The parts of the invariant that the peers alone decide
PeersOK ==
    /\ Meta!MetaTypeOK
    /\ conn \in [Peer -> {"absent", "connecting", "handshaking", "ready", "closed"}]
    /\ pieces \in [Peer -> SUBSET Piece]
    /\ choking \subseteq Peer
    /\ requested \in [Peer -> Requests]
    /\ meta_complete \in BOOLEAN /\ allowed \in Circumstances
    /\ phase \in {"start", "delays", "tick", "request", "send", "poll"}
    /\ todo \subseteq Peer
    /\ TurnIsOrdered

PickerOK == IInv /\ BytesMatch
Counts == CountedForEach /\ AvailabilityIsCount /\ CountIsBounded

LEMMA Parts ==
    SwarmInvariant <=> PickerOK /\ PeersOK /\ NothingTooEarly /\ Counts /\ ClocksAgree
<1>1. ClocksAgree => HeldBySomeone
  BY DEF ClocksAgree, HeldBySomeone, NoneHeldByTheGone
<1>2. QED
  BY <1>1 DEF SwarmInvariant, PickerOK, PeersOK, Counts, TypeOK, IInv

LEMMA PartsNext ==
    ASSUME PickerOK', PeersOK', NothingTooEarly', Counts', ClocksAgree'
    PROVE  SwarmInvariant'
BY Parts, PTL

\* Nothing happens to the picker
LEMMA PickerSame == ASSUME PickerOK, UNCHANGED pickerVars PROVE PickerOK'
<1>1. IInv'
  BY AvailabilityStep DEF pickerVars, stateVars, IInv, PickerTypeOK, PickerOK
<1>2. BytesMatch'
  BY BytesStep DEF PickerOK, pickerVars
<1>3. QED
  BY <1>1, <1>2 DEF PickerOK

LEMMA PickerUncounted ==
    ASSUME PickerOK, UNCHANGED stateVars, availability' \in [Piece -> 0 .. AvailMax]
    PROVE  PickerOK'
<1>1. IInv'
  BY AvailabilityStep DEF PickerOK
<1>2. BytesMatch'
  BY BytesStep DEF PickerOK, stateVars
<1>3. QED
  BY <1>1, <1>2 DEF PickerOK

LEMMA PickerGivesBack ==
    ASSUME PickerOK, NEW R \in SUBSET Block, GiveBack(R), availability' \in [Piece -> 0 .. AvailMax]
    PROVE  PickerOK'
<1>1. IInv'
  BY GiveBackStep DEF PickerOK
<1>2. BytesMatch'
  BY BytesStep DEF PickerOK, GiveBack
<1>3. QED
  BY <1>1, <1>2 DEF PickerOK

LEMMA UncountedType ==
    ASSUME PickerOK, NEW S
    PROVE  /\ Uncounted(S) \in [Piece -> 0 .. AvailMax]
           /\ availability \in [Piece -> 0 .. AvailMax]
BY PickerAssumption DEF PickerOK, IInv, PickerTypeOK, Uncounted

-----------------------------------------------------------------------------
(* What is counted                                                         *)

\* Peers and counters stay as they are
LEMMA CountsSame ==
    ASSUME Counts, UNCHANGED <<meta_complete, allowed, availability>>,
           \A p \in Piece : Having(p)' = Having(p)
    PROVE  Counts'
BY DEF Counts, CountedForEach, AvailabilityIsCount, CountIsBounded

\* A peer goes, and is counted no more
LEMMA CountsLess ==
    ASSUME PickerOK, NothingTooEarly, Counts, NEW c \in Peer,
           UNCHANGED <<meta_complete, allowed>>,
           availability' = IF meta_complete THEN Uncounted(pieces[c]) ELSE availability,
           \A p \in Piece : Having(p)' = Having(p) \ {c},
           c \in Ready \/ pieces[c] = {}
    PROVE  Counts'
<1>1. ASSUME NEW p \in Piece
      PROVE  /\ Cardinality(Having(p)') = IF c \in Having(p) THEN Cardinality(Having(p)) - 1
                                                              ELSE Cardinality(Having(p))
             /\ Cardinality(Having(p)) \in Nat /\ Cardinality(Having(p)') \in Nat
             /\ c \in Having(p) <=> p \in pieces[c]
             /\ availability[p] \in Nat
             /\ meta_complete => availability'[p] = IF p \in pieces[c] /\ availability[p] > 0
                                                   THEN availability[p] - 1 ELSE availability[p]
  <2>1. IsFiniteSet(Having(p)) /\ Cardinality(Having(p)) \in Nat /\ Cardinality(Having(p)') \in Nat
    BY HavingPeers, SomePeers
  <2>2. Having(p)' = Having(p) \ {c}
    OBVIOUS
  <2>3. Cardinality(Having(p) \ {c}) = IF c \in Having(p) THEN Cardinality(Having(p)) - 1
                                                           ELSE Cardinality(Having(p))
    BY <2>1, FS_RemoveElement
  <2>4. c \in Having(p) <=> p \in pieces[c]
    BY DEF Having
  <2>5. availability[p] \in Nat
    BY PickerAssumption DEF PickerOK, IInv, PickerTypeOK
  <2>6. meta_complete => availability'[p] = IF p \in pieces[c] /\ availability[p] > 0
                                            THEN availability[p] - 1 ELSE availability[p]
    BY DEF Uncounted
  <2>7. QED
    BY <2>1, <2>2, <2>3, <2>4, <2>5, <2>6
<1>2. CountedForEach'
  <2>1. ASSUME NEW p \in Piece, meta_complete PROVE Cardinality(Having(p)') <= availability'[p]
    BY <1>1, <2>1 DEF Counts, CountedForEach
  <2>2. QED
    BY <2>1 DEF CountedForEach, Piece
<1>3. AvailabilityIsCount'
  <2>1. ASSUME NEW p \in Piece, allowed \cap {"magnet", "again"} = {}
        PROVE  availability'[p] = Cardinality(Having(p)')
    <3>1. meta_complete /\ availability[p] = Cardinality(Having(p))
      BY <2>1 DEF NothingTooEarly, Counts, AvailabilityIsCount
    <3>2. QED
      BY <1>1, <3>1
  <2>2. QED
    BY <2>1 DEF AvailabilityIsCount, Piece
<1>4. CountIsBounded'
  <2>1. ASSUME NEW p \in Piece, meta_complete, "again" \notin allowed
        PROVE  availability'[p] <= Cardinality(Having(p)') + Cardinality(Peer)
    <3>1. availability[p] <= Cardinality(Having(p)) + Cardinality(Peer) /\ Cardinality(Peer) \in Nat
      BY <2>1, SomePeers DEF Counts, CountIsBounded
    <3>2. QED
      BY <1>1, <2>1, <3>1
  <2>2. QED
    BY <2>1 DEF CountIsBounded, Piece
<1>5. QED
  BY <1>2, <1>3, <1>4 DEF Counts

\* A peer announces the pieces S, and now has those of T
LEMMA CountsMore ==
    ASSUME PickerOK, NothingTooEarly, Counts, NEW c \in Ready, NEW S \in SUBSET Piece,
           UNCHANGED <<meta_complete, allowed>>,
           IF meta_complete THEN PeerAdded(S) ELSE UNCHANGED pickerVars,
           \A p \in Piece : /\ p \in S => Having(p)' = Having(p) \cup {c}
                            /\ p \notin S => Having(p)' \subseteq Having(p),
           \/ "again" \in allowed
           \/ \A p \in Piece : /\ p \in S => c \notin Having(p)
                               /\ p \notin S => Having(p)' = Having(p)
    PROVE  PickerOK' /\ Counts'
<1>1. meta_complete => availability' = [p \in Piece |-> IF p \in S /\ availability[p] < AvailMax
                                                        THEN availability[p] + 1 ELSE availability[p]]
  BY DEF PeerAdded
<1>2. \A p \in Piece : availability[p] \in 0 .. AvailMax /\ AvailMax \in Nat
  BY PickerAssumption DEF PickerOK, IInv, PickerTypeOK
<1>3. PickerOK'
  <2>1. CASE meta_complete
    BY <1>1, <1>2, <2>1, PickerUncounted DEF PeerAdded
  <2>2. CASE ~meta_complete
    BY <2>2, PickerSame
  <2>3. QED
    BY <2>1, <2>2
<1>4. ASSUME NEW p \in Piece
      PROVE  /\ Cardinality(Having(p)) \in Nat /\ Cardinality(Having(p)') \in Nat
             /\ Cardinality(Having(p)') <= AvailMax
             /\ p \in S => Cardinality(Having(p)') = IF c \in Having(p) THEN Cardinality(Having(p))
                                                                      ELSE Cardinality(Having(p)) + 1
             /\ p \notin S => Cardinality(Having(p)') <= Cardinality(Having(p))
  <2>1. IsFiniteSet(Having(p)) /\ Cardinality(Having(p)) \in Nat /\ Cardinality(Having(p)') \in Nat
        /\ Cardinality(Having(p)') <= AvailMax
    BY HavingPeers, SomePeers
  <2>2. Cardinality(Having(p) \cup {c}) = IF c \in Having(p) THEN Cardinality(Having(p))
                                                             ELSE Cardinality(Having(p)) + 1
    BY <2>1, FS_AddElement
  <2>3. p \notin S => Cardinality(Having(p)') <= Cardinality(Having(p))
    BY <2>1, FS_Subset
  <2>4. QED
    BY <2>1, <2>2, <2>3
<1>5. CountedForEach'
  <2>1. ASSUME NEW p \in Piece, meta_complete PROVE Cardinality(Having(p)') <= availability'[p]
    BY <1>1, <1>2, <1>4, <2>1 DEF Counts, CountedForEach
  <2>2. QED
    BY <2>1 DEF CountedForEach, Piece
<1>6. AvailabilityIsCount'
  <2>1. ASSUME NEW p \in Piece, allowed \cap {"magnet", "again"} = {}
        PROVE  availability'[p] = Cardinality(Having(p)')
    <3>1. meta_complete /\ availability[p] = Cardinality(Having(p)) /\ "again" \notin allowed
      BY <2>1 DEF NothingTooEarly, Counts, AvailabilityIsCount
    <3>2. QED
      BY <1>1, <1>2, <1>4, <3>1
  <2>2. QED
    BY <2>1 DEF AvailabilityIsCount, Piece
<1>7. CountIsBounded'
  <2>1. ASSUME NEW p \in Piece, meta_complete, "again" \notin allowed
        PROVE  availability'[p] <= Cardinality(Having(p)') + Cardinality(Peer)
    <3>1. availability[p] <= Cardinality(Having(p)) + Cardinality(Peer) /\ Cardinality(Peer) \in Nat
      BY <2>1, SomePeers DEF Counts, CountIsBounded
    <3>2. /\ p \in S => Cardinality(Having(p)') = Cardinality(Having(p)) + 1
          /\ p \notin S => Cardinality(Having(p)') = Cardinality(Having(p))
      <4>1. /\ p \in S => c \notin Having(p)
            /\ p \notin S => Having(p)' = Having(p)
        BY <2>1
      <4>2. p \notin S => Cardinality(Having(p)') = Cardinality(Having(p))
        BY <4>1, Zenon
      <4>3. p \in S => Cardinality(Having(p)') = Cardinality(Having(p)) + 1
        <5> SUFFICES ASSUME p \in S PROVE Cardinality(Having(p)') = Cardinality(Having(p)) + 1
          OBVIOUS
        <5>1. Cardinality(Having(p)') = IF c \in Having(p) THEN Cardinality(Having(p))
                                                           ELSE Cardinality(Having(p)) + 1
          BY <1>4
        <5>2. c \notin Having(p)
          BY <4>1
        <5>3. QED
          BY <5>1, <5>2
      <4>4. QED
        BY <4>2, <4>3
    <3>3. availability'[p] <= IF p \in S THEN availability[p] + 1 ELSE availability[p]
      BY <1>1, <1>2, <2>1
    <3>4. CASE p \in S
      <4>1. /\ Cardinality(Having(p)) \in Nat /\ availability[p] \in Nat
            /\ availability'[p] <= availability[p] + 1
            /\ Cardinality(Having(p)') = Cardinality(Having(p)) + 1
        BY <1>2, <1>4, <3>2, <3>3, <3>4
      <4>2. availability'[p] \in Int
        BY <1>1, <1>2, <2>1
      <4>3. QED
        BY <3>1, <4>1, <4>2
    <3>5. CASE p \notin S
      <4>1. /\ availability'[p] <= availability[p]
            /\ Cardinality(Having(p)') = Cardinality(Having(p))
        BY <3>2, <3>3, <3>5
      <4>2. availability'[p] \in Int /\ availability[p] \in Int /\ Cardinality(Having(p)) \in Nat
        BY <1>1, <1>2, <1>4, <2>1
      <4>3. QED
        BY <3>1, <4>1, <4>2
    <3>6. QED
      BY <3>4, <3>5
  <2>2. QED
    BY <2>1 DEF CountIsBounded, Piece
<1>8. QED
  BY <1>3, <1>5, <1>6, <1>7 DEF Counts

-----------------------------------------------------------------------------
(* Who serves what is reserved                                             *)

\* What stays reserved is still asked of whoever was to serve it in time
LEMMA ClocksKept ==
    ASSUME ClocksAgree, UNCHANGED allowed, phase # "send", phase' # "send",
           phase' \in {"request", "poll"} => phase \in {"request", "poll"} \/ pending' = {},
           pending' \subseteq pending, \A x \in pending' : age'[x] = age[x],
           \A x \in pending', c \in Ready :
              x \in Outstanding(c) /\ requested[c][x] <= age[x] =>
                 c \in Ready' /\ x \in Outstanding(c)' /\ requested'[c][x] = requested[c][x]
    PROVE  ClocksAgree'
<1> SUFFICES ASSUME "send" \notin allowed PROVE ClocksAgree'
  BY DEF ClocksAgree
<1>1. ASSUME NEW x \in pending'
      PROVE  \E c \in Ready' : x \in Outstanding(c)' /\ requested'[c][x] <= age'[x]
  <2>1. PICK c \in Ready : x \in Outstanding(c) /\ requested[c][x] <= age[x]
    BY <1>1 DEF ClocksAgree
  <2>2. QED
    BY <1>1, <2>1
<1>2. ASSUME NEW x \in pending', phase' \in {"request", "send", "poll"} PROVE age'[x] < Timeout
  BY <1>2 DEF ClocksAgree
<1>3. QED
  BY <1>1, <1>2 DEF ClocksAgree

-----------------------------------------------------------------------------
(* The beginning                                                           *)

LEMMA NoRequest == Nothing \in Requests /\ DOMAIN Nothing = {}
<1>1. Nothing \in [{} -> 0 .. Timeout + 1]
  BY DEF Nothing
<1>2. QED
  BY <1>1 DEF Requests

LEMMA InitSwarm == Init => SwarmInvariant
<1> SUFFICES ASSUME Init PROVE SwarmInvariant
  OBVIOUS
<1>1. PickerOK
  <2>1. CASE "resume" \in allowed
    <3> DEFINE bytes == MapThenSumSet(LAMBDA p : PieceSize[p], Resumed)
    <3>1. Resumed \in SUBSET Piece /\ PickerWith(Resumed, bytes)
      BY <2>1, SwarmAssumption DEF Init
    <3>2. bytes \in Nat
      BY <3>1, SumIsUnits, UnitsFinite, FS_CardinalityType
    <3>3. IInv
      BY <3>1, <3>2, WithIInv
    <3>4. BytesMatch
      BY <3>1 DEF BytesMatch, PickerWith
    <3>5. QED
      BY <3>3, <3>4 DEF PickerOK
  <2>2. CASE "resume" \notin allowed
    BY <2>2, InitIInv, InitBytes DEF Init, PickerOK
  <2>3. QED
    BY <2>1, <2>2
<1>2. Meta!MetaTypeOK
  BY DEF Init, Meta!MetaInit, Meta!MetaTypeOK, Meta!Index, Meta!Indices
<1>3. PeersOK
  BY <1>2, NoRequest DEF Init, PeersOK, TurnIsOrdered
<1>4. NothingTooEarly
  BY DEF Init, NothingTooEarly, PickerInit, PickerWith
<1>5. Counts
  <2>1. \A p \in Piece : Cardinality(Having(p)) = 0 /\ availability[p] = 0
    BY FS_EmptySet DEF Init, PickerInit, PickerWith, Having, Ready
  <2>2. Cardinality(Peer) \in Nat
    BY SomePeers
  <2>3. QED
    BY <2>1, <2>2 DEF Counts, CountedForEach, AvailabilityIsCount, CountIsBounded
<1>6. ClocksAgree
  BY DEF Init, PickerInit, PickerWith, ClocksAgree
<1>7. QED
  BY <1>1, <1>3, <1>4, <1>5, <1>6, Parts

-----------------------------------------------------------------------------
(* Peers that go                                                           *)

LEMMA ClosedPeer ==
    ASSUME SwarmInvariant, NEW c \in Open, NEW R \in SUBSET Block, Closed(c, R),
           UNCHANGED <<pieces, meta_complete, allowed>>
    PROVE  /\ PickerOK' /\ Counts' /\ NothingTooEarly'
           /\ conn' \in [Peer -> {"absent", "connecting", "handshaking", "ready", "closed"}]
           /\ Ready' = Ready \ {c}
           /\ pending' = IF meta_complete THEN pending \ R ELSE pending
           /\ \A x \in pending' : age'[x] = age[x]
<1>1. PickerOK /\ PeersOK /\ NothingTooEarly /\ Counts
  BY Parts
<1>2. c \in Peer /\ (c \in Ready \/ pieces[c] = {})
  BY <1>1 DEF Open, Ready, NothingTooEarly
<1>3. /\ conn' \in [Peer -> {"absent", "connecting", "handshaking", "ready", "closed"}]
      /\ Ready' = Ready \ {c}
  BY <1>1, <1>2 DEF Closed, PeersOK, Ready
<1>4. /\ pending' = IF meta_complete THEN pending \ R ELSE pending
      /\ \A x \in pending' : age'[x] = age[x]
  BY <1>1 DEF Closed, GiveBack, pickerVars, PickerOK, IInv, PickerTypeOK
<1>5. PickerOK'
  <2>1. CASE meta_complete
    BY <1>1, <2>1, PickerGivesBack, UncountedType DEF Closed
  <2>2. CASE ~meta_complete
    BY <1>1, <2>2, PickerSame DEF Closed
  <2>3. QED
    BY <2>1, <2>2
<1>6. Counts'
  <2>1. availability' = IF meta_complete THEN Uncounted(pieces[c]) ELSE availability
    BY DEF Closed, pickerVars
  <2>2. \A p \in Piece : Having(p)' = Having(p) \ {c}
    BY <1>3 DEF Having
  <2>3. QED
    BY <1>1, <1>2, <2>1, <2>2, CountsLess
<1>7. NothingTooEarly'
  BY <1>1, <1>2, <1>4 DEF NothingTooEarly, Closed, PeersOK
<1>8. QED
  BY <1>3, <1>4, <1>5, <1>6, <1>7

LEMMA LeavesStep ==
    ASSUME SwarmInvariant, NEW c \in Peer, Leaves(c), phase \in {"delays", "tick", "poll"}
    PROVE  SwarmInvariant'
<1>1. PeersOK /\ NothingTooEarly /\ ClocksAgree /\ TypeOK
  BY Parts DEF SwarmInvariant
<1>2. /\ c \in Open /\ Closed(c, Outstanding(c)) /\ Outstanding(c) \in SUBSET Block
      /\ UNCHANGED <<pieces, choking, requested, meta_complete, metaVars, allowed, turnVars>>
  BY <1>1, RequestsOf DEF Leaves
<1>3. /\ PickerOK' /\ Counts' /\ NothingTooEarly'
      /\ conn' \in [Peer -> {"absent", "connecting", "handshaking", "ready", "closed"}]
      /\ Ready' = Ready \ {c}
      /\ pending' = IF meta_complete THEN pending \ Outstanding(c) ELSE pending
      /\ \A x \in pending' : age'[x] = age[x]
  BY <1>2, ClosedPeer
<1>4. PeersOK'
  BY <1>1, <1>2, <1>3 DEF PeersOK, turnVars, metaVars, TurnIsOrdered, Meta!MetaTypeOK
<1>5. ClocksAgree'
  <2>1. \A x \in pending' : x \notin Outstanding(c)
    BY <1>1, <1>3 DEF NothingTooEarly
  <2>2. QED
    BY <1>1, <1>2, <1>3, <2>1, ClocksKept DEF turnVars, Outstanding
<1>6. QED
  BY <1>3, <1>4, <1>5, PartsNext

LEMMA DropAllStep == ASSUME SwarmInvariant, DropAllPeers PROVE SwarmInvariant'
<1> DEFINE R == UNION {Outstanding(c) : c \in Listed}
<1>1. PickerOK /\ PeersOK /\ NothingTooEarly /\ Counts /\ ClocksAgree /\ TypeOK
  BY Parts DEF SwarmInvariant
<1>2. R \in SUBSET Block
  BY <1>1, RequestsOf DEF Listed
<1>3. \A c \in Peer : conn'[c] = "absent" /\ pieces'[c] = {}
  BY DEF DropAllPeers, Forgotten
<1>4. \A p \in Piece : Cardinality(Having(p)') = 0
  BY <1>3, FS_EmptySet DEF Having, Ready
<1>5. ASSUME NEW p \in Piece
      PROVE  /\ availability[p] \in 0 .. AvailMax /\ AvailMax \in Nat
             /\ DroppedCounts(p) \in Nat /\ Cardinality(Having(p)) <= DroppedCounts(p)
  <2>1. Having(p) \subseteq {c \in Listed : p \in pieces[c]}
    BY DEF Having, Ready, Listed
  <2>2. {c \in Listed : p \in pieces[c]} \in SUBSET Peer
    BY DEF Listed
  <2>3. DroppedCounts(p) \in Nat /\ Cardinality(Having(p)) <= DroppedCounts(p)
    BY <2>1, <2>2, SomePeers DEF DroppedCounts
  <2>4. QED
    BY <1>1, <2>3, PickerAssumption DEF PickerOK, IInv, PickerTypeOK
<1>6. \A p \in Piece : availability'[p] \in 0 .. AvailMax
                       /\ (availability[p] <= DroppedCounts(p) /\ meta_complete => availability'[p] = 0)
  BY <1>5 DEF DropAllPeers, pickerVars
<1>7. PickerOK'
  <2>1. CASE meta_complete
    <3>1. GiveBack(R) /\ availability' \in [Piece -> 0 .. AvailMax]
      BY <1>6, <2>1 DEF DropAllPeers
    <3>2. QED
      BY <1>1, <1>2, <3>1, PickerGivesBack
  <2>2. CASE ~meta_complete
    BY <1>1, <2>2, PickerSame DEF DropAllPeers
  <2>3. QED
    BY <2>1, <2>2
<1>8. PeersOK'
  <2>1. Meta!MetaTypeOK'
    BY <1>1 DEF DropAllPeers, PeersOK, Meta!MetaForgets, Meta!MetaTypeOK, Meta!Index
  <2>2. TurnIsOrdered'
    BY <1>1 DEF DropAllPeers, PeersOK, TurnIsOrdered
  <2>3. QED
    BY <1>1, <2>1, <2>2, NoRequest DEF DropAllPeers, Forgotten, PeersOK
<1>9. "send" \notin allowed \/ ~meta_complete => pending' = {}
  <2>1. ASSUME "send" \notin allowed, meta_complete PROVE pending' = {}
    <3>1. pending \subseteq R
      BY <1>1, <2>1 DEF ClocksAgree, DropAllPeers, Ready, Listed
    <3>2. QED
      BY <2>1, <3>1 DEF DropAllPeers, GiveBack
  <2>2. ASSUME ~meta_complete PROVE pending' = {}
    BY <1>1, <2>2 DEF DropAllPeers, pickerVars, NothingTooEarly
  <2>3. QED
    BY <2>1, <2>2
<1>10. NothingTooEarly'
  BY <1>1, <1>3, <1>9 DEF NothingTooEarly, DropAllPeers
<1>11. ClocksAgree'
  BY <1>9 DEF ClocksAgree, DropAllPeers
<1>12. Counts'
  <2>1. CountedForEach'
    BY <1>4, <1>6 DEF CountedForEach, Piece
  <2>2. ASSUME NEW p \in Piece, allowed \cap {"magnet", "again"} = {}
        PROVE  availability'[p] = 0
    <3>1. meta_complete /\ availability[p] = Cardinality(Having(p))
      BY <1>1, <2>2 DEF NothingTooEarly, Counts, AvailabilityIsCount
    <3>2. QED
      BY <1>5, <1>6, <3>1
  <2>3. allowed' = allowed /\ meta_complete' = meta_complete
    BY DEF DropAllPeers
  <2>4. ASSUME NEW p \in Piece, meta_complete, "again" \notin allowed
        PROVE  availability'[p] <= Cardinality(Having(p)') + Cardinality(Peer)
    <3>1. /\ availability[p] <= Cardinality(Having(p)) + Cardinality(Peer)
          /\ Cardinality(Peer) \in Nat /\ Cardinality(Having(p)) \in Nat
      BY <1>1, <2>4, SomePeers, HavingPeers DEF Counts, CountIsBounded
    <3>2. availability'[p] = IF availability[p] > DroppedCounts(p)
                             THEN availability[p] - DroppedCounts(p) ELSE 0
      BY <2>4 DEF DropAllPeers
    <3>3. QED
      BY <1>4, <1>5, <3>1, <3>2
  <2>5. AvailabilityIsCount' /\ CountIsBounded'
    BY <1>4, <2>2, <2>3, <2>4 DEF AvailabilityIsCount, CountIsBounded, Piece
  <2>6. QED
    BY <2>1, <2>5 DEF Counts
<1>13. QED
  BY <1>7, <1>8, <1>10, <1>11, <1>12, PartsNext

-----------------------------------------------------------------------------
(* tick()                                                                  *)

LEMMA TickStep == ASSUME SwarmInvariant, Tick PROVE SwarmInvariant'
<1> DEFINE dead == {c \in Peer : conn[c] = "closed"}
<1>1. PickerOK /\ PeersOK /\ NothingTooEarly /\ Counts /\ ClocksAgree
  BY Parts
<1>2. /\ phase = "start" /\ phase' = "delays"
      /\ Forgotten(dead) /\ Meta!MetaForgets(dead)
      /\ requested' = [c \in Peer |-> IF c \in dead THEN Nothing ELSE requested[c]]
      /\ UNCHANGED <<pickerVars, meta_complete, allowed, todo, asking>>
  BY DEF Tick
<1>3. Ready' = Ready
  BY <1>2 DEF Ready, Forgotten
<1>4. PickerOK'
  BY <1>1, <1>2, PickerSame
<1>5. PeersOK'
  <2>1. Meta!MetaTypeOK'
    BY <1>1, <1>2 DEF PeersOK, Meta!MetaForgets, Meta!MetaTypeOK, Meta!Index
  <2>2. TurnIsOrdered'
    BY <1>1, <1>2 DEF PeersOK, TurnIsOrdered
  <2>3. /\ conn' \in [Peer -> {"absent", "connecting", "handshaking", "ready", "closed"}]
        /\ pieces' \in [Peer -> SUBSET Piece] /\ choking' \subseteq Peer
    BY <1>1, <1>2 DEF Forgotten, PeersOK
  <2>4. requested' \in [Peer -> Requests]
    BY <1>1, <1>2, NoRequest DEF PeersOK
  <2>5. QED
    BY <1>1, <1>2, <2>1, <2>2, <2>3, <2>4 DEF PeersOK, Piece
<1>6. NothingTooEarly'
  BY <1>1, <1>2 DEF NothingTooEarly, Forgotten, pickerVars
<1>7. Counts'
  <2>1. \A p \in Piece : Having(p)' = Having(p)
    BY <1>2, <1>3 DEF Having, Forgotten, Ready
  <2>2. QED
    BY <1>1, <1>2, <2>1, CountsSame DEF pickerVars
<1>8. ClocksAgree'
  <2>1. \A c \in Ready : requested'[c] = requested[c]
    BY <1>2 DEF Ready
  <2>2. QED
    BY <1>1, <1>2, <1>3, <2>1, ClocksKept DEF pickerVars, Outstanding
<1>9. QED
  BY <1>4, <1>5, <1>6, <1>7, <1>8, PartsNext

\* Fewer requests are requests
LEMMA WithoutRequests ==
    ASSUME TypeOK, NEW c \in Peer, NEW R
    PROVE  /\ Without(c, R) \in Requests
           /\ DOMAIN Without(c, R) = Outstanding(c) \ R
           /\ \A x \in Outstanding(c) \ R : Without(c, R)[x] = requested[c][x]
<1>1. Without(c, R) \in [Outstanding(c) \ R -> 0 .. Timeout + 1] /\ Outstanding(c) \ R \in SUBSET Block
  BY RequestsOf DEF Without
<1>2. QED
  BY <1>1 DEF Requests, Without

LEMMA PurgeStep == ASSUME SwarmInvariant, Purge PROVE SwarmInvariant'
<1>1. PickerOK /\ PeersOK /\ NothingTooEarly /\ Counts /\ ClocksAgree /\ TypeOK
  BY Parts DEF SwarmInvariant
<1>2. /\ phase = "delays" /\ phase' = "tick"
      /\ requested' = [c \in Peer |-> IF c \in Open THEN Without(c, Unserved(c)) ELSE requested[c]]
      /\ UNCHANGED <<pickerVars, conn, pieces, choking, meta_complete, metaVars, allowed, todo, asking>>
  BY DEF Purge
<1>3. PickerOK'
  BY <1>1, <1>2, PickerSame
<1>4. PeersOK'
  <2>1. requested' \in [Peer -> Requests]
    BY <1>1, <1>2, WithoutRequests DEF PeersOK
  <2>2. TurnIsOrdered' /\ Meta!MetaTypeOK'
    BY <1>1, <1>2 DEF PeersOK, TurnIsOrdered, Meta!MetaTypeOK, metaVars
  <2>3. QED
    BY <1>1, <1>2, <2>1, <2>2 DEF PeersOK
<1>5. NothingTooEarly'
  BY <1>1, <1>2 DEF NothingTooEarly, pickerVars
<1>6. Counts'
  BY <1>1, <1>2, CountsSame DEF pickerVars, Having, Ready
<1>7. ClocksAgree'
  <2>1. ASSUME NEW c \in Ready, NEW x \in Outstanding(c), x \in pending, requested[c][x] <= age[x]
        PROVE  x \in Outstanding(c)' /\ requested'[c][x] = requested[c][x]
    <3>1. c \in Peer /\ c \in Open
      BY DEF Ready, Open
    <3>2. requested[c][x] \in Int /\ age[x] \in 0 .. Timeout /\ Timeout \in Nat
      BY <1>1, <2>1, <3>1, RequestsOf, PickerAssumption DEF PickerOK, IInv, PickerTypeOK
    <3>3. x \notin Unserved(c)
      BY <2>1, <3>2 DEF Unserved
    <3>4. requested'[c] = Without(c, Unserved(c))
      BY <1>2, <3>1
    <3>5. x \in DOMAIN Without(c, Unserved(c)) /\ Without(c, Unserved(c))[x] = requested[c][x]
      BY <2>1, <3>3 DEF Without
    <3>6. QED
      BY <3>4, <3>5 DEF Outstanding
  <2>2. QED
    BY <1>1, <1>2, <2>1, ClocksKept DEF pickerVars, Ready
<1>8. QED
  BY <1>3, <1>4, <1>5, <1>6, <1>7, PartsNext

\* A peer on its way, that has announced nothing
LEMMA ComesStep ==
    ASSUME SwarmInvariant, NEW c \in Peer, Connect(c) \/ Established(c) \/ Handshake(c)
    PROVE  SwarmInvariant'
<1>1. PickerOK /\ PeersOK /\ NothingTooEarly /\ Counts /\ ClocksAgree
  BY Parts
<1>2. /\ conn[c] \notin {"ready", "closed"} /\ phase \in {"tick", "poll"}
      /\ \E s \in {"connecting", "handshaking", "ready"} : conn' = [conn EXCEPT ![c] = s]
      /\ UNCHANGED <<pickerVars, pieces, choking, requested, meta_complete, metaVars, allowed, turnVars>>
  BY DEF Connect, Established, Handshake
<1>3. Ready \subseteq Ready' /\ Ready' \subseteq Ready \cup {c}
  BY <1>1, <1>2 DEF Ready, PeersOK
<1>4. PickerOK'
  BY <1>1, <1>2, PickerSame
<1>5. PeersOK'
  <2>1. conn' \in [Peer -> {"absent", "connecting", "handshaking", "ready", "closed"}]
    BY <1>1, <1>2 DEF PeersOK
  <2>2. TurnIsOrdered' /\ Meta!MetaTypeOK'
    BY <1>1, <1>2, <1>3 DEF PeersOK, TurnIsOrdered, Meta!MetaTypeOK, metaVars, turnVars
  <2>3. QED
    BY <1>1, <1>2, <2>1, <2>2 DEF PeersOK, turnVars
<1>6. NothingTooEarly'
  BY <1>1, <1>2 DEF NothingTooEarly, pickerVars, PeersOK
<1>7. Counts'
  <2>1. pieces[c] = {}
    BY <1>1, <1>2 DEF NothingTooEarly
  <2>2. \A p \in Piece : Having(p)' = Having(p)
    BY <1>2, <1>3, <2>1 DEF Having
  <2>3. QED
    BY <1>1, <1>2, <2>2, CountsSame DEF pickerVars
<1>8. ClocksAgree'
  BY <1>1, <1>2, <1>3, ClocksKept DEF pickerVars, turnVars, Outstanding
<1>9. QED
  BY <1>4, <1>5, <1>6, <1>7, <1>8, PartsNext

\* The peers stay as they are
LEMMA PeersSame ==
    ASSUME PeersOK, UNCHANGED <<peerVars, meta_complete, metaVars, allowed, todo, asking>>,
           \/ phase' = phase
           \/ phase \notin {"send"} /\ phase' \in {"start", "delays", "tick", "poll"}
    PROVE  PeersOK' /\ Ready' = Ready /\ \A p : Having(p)' = Having(p)
<1>1. TurnIsOrdered'
  BY DEF PeersOK, TurnIsOrdered, peerVars, Ready
<1>2. Meta!MetaTypeOK'
  BY DEF PeersOK, metaVars, Meta!MetaTypeOK
<1>3. QED
  BY <1>1, <1>2 DEF PeersOK, peerVars, Ready, Having

LEMMA FinishStep ==
    ASSUME SwarmInvariant, NEW p \in Piece, NEW ok \in BOOLEAN, FinishPiece(p, ok)
    PROVE  SwarmInvariant'
<1>1. PickerOK /\ PeersOK /\ NothingTooEarly /\ Counts /\ ClocksAgree
  BY Parts
<1>2. /\ phase = "tick" /\ phase' = "tick" /\ OnPieceVerified(p, ok)
      /\ UNCHANGED <<peerVars, meta_complete, metaVars, allowed, todo, asking>>
  BY DEF FinishPiece, turnVars
<1>3. PickerOK'
  <2>1. IInv'
    BY <1>1, <1>2, VerifiedStep DEF PickerOK
  <2>2. \/ have' = have /\ bytes_done' = bytes_done
        \/ \E q \in Piece \ have : have' = have \cup {q} /\ bytes_done' = bytes_done + PieceSize[q]
    BY <1>2 DEF OnPieceVerified, SetHave
  <2>3. QED
    BY <1>1, <2>1, <2>2, BytesStep DEF PickerOK
<1>4. PeersOK' /\ Ready' = Ready /\ \A q \in Piece : Having(q)' = Having(q)
  BY <1>1, <1>2, PeersSame
<1>5. pending' \subseteq pending /\ \A x \in pending' : age'[x] = age[x]
  BY <1>1, <1>2 DEF OnPieceVerified, PickerOK, IInv, PickerTypeOK
<1>6. NothingTooEarly'
  BY <1>1, <1>2, <1>5 DEF NothingTooEarly, peerVars
<1>7. Counts'
  <2>1. availability' = availability
    BY <1>2 DEF OnPieceVerified
  <2>2. QED
    BY <1>1, <1>2, <1>4, <2>1, CountsSame
<1>8. ClocksAgree'
  BY <1>1, <1>2, <1>4, <1>5, ClocksKept DEF peerVars, Outstanding
<1>9. QED
  BY <1>3, <1>4, <1>6, <1>7, <1>8, PartsNext

LEMMA DriveStep == ASSUME SwarmInvariant, DriveMetadata PROVE SwarmInvariant'
<1>1. PickerOK /\ PeersOK /\ NothingTooEarly /\ Counts /\ ClocksAgree
  BY Parts
<1>2. /\ phase = "tick" /\ phase' = "poll" /\ ~meta_complete /\ Meta!Asks(Ready)
      /\ UNCHANGED <<pickerVars, peerVars, meta_complete, allowed, todo, asking>>
  BY DEF DriveMetadata
<1>3. Meta!MetaTypeOK'
  <2>1. Meta!Index(size) \subseteq Meta!Indices
    <3>1. size \in MetaSizes \/ Meta!Index(size) = {}
      BY <1>1 DEF PeersOK, Meta!MetaTypeOK, Meta!Index
    <3>2. QED
      BY <3>1 DEF Meta!Indices
  <2>2. QED
    BY <1>1, <1>2, <2>1 DEF PeersOK, Meta!Asks, Meta!Asked, Meta!MetaTypeOK, Meta!metaVars
<1>4. PeersOK'
  <2>1. TurnIsOrdered'
    BY <1>1, <1>2 DEF PeersOK, TurnIsOrdered, peerVars, Ready
  <2>2. QED
    BY <1>1, <1>2, <1>3, <2>1 DEF PeersOK, peerVars
<1>5. NothingTooEarly' /\ pending' = {}
  BY <1>1, <1>2 DEF NothingTooEarly, peerVars, pickerVars
<1>6. Counts'
  BY <1>1, <1>2, CountsSame DEF pickerVars, peerVars, Having, Ready
<1>7. ClocksAgree'
  BY <1>5 DEF ClocksAgree
<1>8. QED
  BY <1>1, <1>2, <1>4, <1>5, <1>6, <1>7, PickerSame, PartsNext

-----------------------------------------------------------------------------
(* The requests of a turn                                                  *)

LEMMA BeginStep == ASSUME SwarmInvariant, BeginRequests PROVE SwarmInvariant'
<1>1. PickerOK /\ PeersOK /\ NothingTooEarly /\ Counts /\ ClocksAgree
  BY Parts
<1>2. /\ phase = "tick" /\ phase' = "request" /\ todo' = Ready /\ meta_complete
      /\ Release(Expired) /\ Expired \in SUBSET Block
      /\ UNCHANGED <<peerVars, meta_complete, metaVars, allowed, asking>>
  BY <1>1 DEF BeginRequests, Expired, PickerOK, IInv, PickerTypeOK
<1>3. PickerOK'
  <2>1. availability' \in [Piece -> 0 .. AvailMax] /\ GiveBack(Expired)
    BY <1>1, <1>2, UncountedType DEF Release
  <2>2. QED
    BY <1>1, <1>2, <2>1, PickerGivesBack
<1>4. PeersOK' /\ Ready' = Ready
  <2>1. TurnIsOrdered' /\ Ready' = Ready
    BY <1>1, <1>2 DEF PeersOK, TurnIsOrdered, peerVars, Ready
  <2>2. Meta!MetaTypeOK'
    BY <1>1, <1>2 DEF PeersOK, metaVars, Meta!MetaTypeOK
  <2>3. QED
    BY <1>1, <1>2, <2>1, <2>2 DEF PeersOK, peerVars, Ready
<1>5. NothingTooEarly'
  BY <1>1, <1>2 DEF NothingTooEarly, peerVars
<1>6. Counts'
  BY <1>1, <1>2, CountsSame DEF Release, peerVars, Having, Ready
<1>7. ASSUME NEW x \in pending' PROVE x \in pending /\ age'[x] = age[x] /\ age[x] < Timeout
  <2>1. x \in pending /\ x \notin Expired /\ age'[x] = age[x]
    BY <1>1, <1>2 DEF Release, GiveBack, PickerOK, IInv, PickerTypeOK
  <2>2. age[x] \in 0 .. Timeout /\ Timeout \in Nat
    BY <1>1, <2>1, PickerAssumption DEF PickerOK, IInv, PickerTypeOK
  <2>3. QED
    BY <2>1, <2>2 DEF Expired
<1>8. ClocksAgree'
  <2> SUFFICES ASSUME "send" \notin allowed PROVE ClocksAgree'
    BY <1>2 DEF ClocksAgree
  <2>1. ASSUME NEW x \in pending'
        PROVE  \E c \in Ready' : x \in Outstanding(c)' /\ requested'[c][x] <= age'[x]
    BY <1>1, <1>2, <1>4, <1>7 DEF ClocksAgree, peerVars, Outstanding
  <2>2. QED
    BY <1>7, <2>1 DEF ClocksAgree
<1>9. QED
  BY <1>3, <1>4, <1>5, <1>6, <1>8, PartsNext

LEMMA RequestStep ==
    ASSUME SwarmInvariant, NEW c \in Peer, RequestBlocks(c)
    PROVE  SwarmInvariant'
<1>1. PickerOK /\ PeersOK /\ NothingTooEarly /\ Counts /\ ClocksAgree
  BY Parts
<1>2. /\ phase = "request" /\ c \in todo /\ todo' = todo \ {c}
      /\ UNCHANGED <<peerVars, meta_complete, metaVars, allowed>>
  BY DEF RequestBlocks
<1>3. /\ meta_complete /\ c \in Ready /\ todo \subseteq Ready /\ asking = Nothing
      /\ pieces[c] \in SUBSET Piece
  BY <1>1, <1>2 DEF PeersOK, TurnIsOrdered
<1>4. Ready' = Ready /\ \A p \in Piece : Having(p)' = Having(p)
  BY <1>2 DEF peerVars, Ready, Having
<1>5. Meta!MetaTypeOK'
  BY <1>1, <1>2 DEF PeersOK, metaVars, Meta!MetaTypeOK
<1>6. CASE UNCHANGED <<pickerVars, asking, phase>>
  <2>1. PeersOK'
    <3>1. TurnIsOrdered'
      BY <1>2, <1>3, <1>4, <1>6 DEF TurnIsOrdered
    <3>2. QED
      BY <1>1, <1>2, <1>5, <1>6, <3>1 DEF PeersOK, peerVars
  <2>2. NothingTooEarly'
    BY <1>1, <1>2, <1>3 DEF NothingTooEarly, peerVars
  <2>3. Counts'
    BY <1>1, <1>2, <1>4, <1>6, CountsSame DEF pickerVars
  <2>4. ClocksAgree'
    BY <1>1, <1>2, <1>4, <1>6, ClocksKept DEF pickerVars, peerVars, Outstanding
  <2>5. QED
    BY <1>1, <1>6, <2>1, <2>2, <2>3, <2>4, PickerSame, PartsNext
<1>7. ASSUME NEW R \in Picks(pieces[c], Wanted(c)), Pick(pieces[c], Wanted(c), R),
             asking' = IF R = {} THEN Nothing ELSE <<c, R>>,
             phase' = IF R = {} THEN phase ELSE "send"
      PROVE  SwarmInvariant'
  <2>1. R \subseteq Block /\ Reserve(R)
    BY <1>3, <1>7, PickedBlocks DEF Pick
  <2>2. PickerOK'
    <3>1. IInv'
      BY <1>1, <1>3, <1>7, PickStep DEF PickerOK
    <3>2. QED
      BY <1>1, <2>1, <3>1, BytesStep DEF PickerOK, Reserve
  <2>3. PeersOK'
    <3>1. TurnIsOrdered'
      <4>1. CASE R = {}
        BY <1>2, <1>3, <1>4, <1>7, <4>1 DEF TurnIsOrdered
      <4>2. CASE R # {}
        <5>1. asking' \in (Ready' \ todo') \X (SUBSET Block) /\ phase' = "send"
          BY <1>2, <1>3, <1>4, <1>7, <2>1, <4>2
        <5>2. QED
          BY <1>2, <1>3, <1>4, <5>1 DEF TurnIsOrdered, Block, Piece, BlocksIn, NumBlocks
      <4>3. QED
        BY <4>1, <4>2
    <3>2. phase' \in {"request", "send"} /\ todo' \subseteq Peer
      BY <1>1, <1>2, <1>7 DEF PeersOK
    <3>3. QED
      BY <1>1, <1>2, <1>5, <3>1, <3>2 DEF PeersOK, peerVars
  <2>4. NothingTooEarly'
    BY <1>1, <1>2, <1>3 DEF NothingTooEarly, peerVars
  <2>5. Counts'
    BY <1>1, <1>2, <1>4, <2>1, CountsSame DEF Reserve
  <2>6. ASSUME NEW x \in pending', "send" \notin allowed
        PROVE  /\ \/ \E d \in Ready' : x \in Outstanding(d)' /\ requested'[d][x] <= age'[x]
                  \/ phase' = "send" /\ x \in asking'[2]
               /\ age'[x] < Timeout
    <3>1. CASE x \in R
      <4>1. asking'[2] = R /\ phase' = "send"
        BY <1>7, <3>1
      <4>2. age'[x] = 0
        BY <2>1, <3>1 DEF Reserve
      <4>3. QED
        BY <3>1, <4>1, <4>2, SwarmAssumption
    <3>2. CASE x \notin R
      <4>1. x \in pending /\ age'[x] = age[x]
        BY <1>1, <2>1, <3>2 DEF Reserve, PickerOK, IInv, PickerTypeOK
      <4>2. QED
        BY <1>1, <1>2, <1>4, <2>6, <4>1 DEF ClocksAgree, peerVars, Outstanding
    <3>3. QED
      BY <3>1, <3>2
  <2>7. ClocksAgree'
    BY <1>2, <2>6 DEF ClocksAgree
  <2>8. QED
    BY <2>2, <2>3, <2>4, <2>5, <2>7, PartsNext
<1>8. QED
  BY <1>6, <1>7 DEF RequestBlocks

\* More requests are requests
LEMMA WithRequests ==
    ASSUME TypeOK, NEW c \in Peer, NEW R \in SUBSET Block
    PROVE  /\ With(c, R) \in Requests
           /\ DOMAIN With(c, R) = Outstanding(c) \cup R
           /\ \A x \in R : With(c, R)[x] = 0
           /\ \A x \in Outstanding(c) \ R : With(c, R)[x] = requested[c][x]
<1>1. Outstanding(c) \cup R \in SUBSET Block /\ Timeout \in Nat
  BY RequestsOf, PickerAssumption
<1>2. With(c, R) \in [Outstanding(c) \cup R -> 0 .. Timeout + 1]
  BY <1>1, RequestsOf DEF With
<1>3. QED
  BY <1>1, <1>2 DEF Requests, With

LEMMA SendStep == ASSUME SwarmInvariant, SendRequests PROVE SwarmInvariant'
<1>1. PickerOK /\ PeersOK /\ NothingTooEarly /\ Counts /\ ClocksAgree /\ TypeOK
  BY Parts DEF SwarmInvariant
<1>2. PICK c \in Ready \ todo, R \in SUBSET Block : asking = <<c, R>>
  BY <1>1 DEF SendRequests, PeersOK, TurnIsOrdered
<1>3. /\ phase = "send" /\ phase' = "request" /\ asking' = Nothing
      /\ requested' = [requested EXCEPT ![c] = With(c, R)]
      /\ UNCHANGED <<pickerVars, conn, pieces, choking, meta_complete, metaVars, allowed, todo>>
  BY <1>2 DEF SendRequests
<1>4. c \in Peer /\ meta_complete /\ todo \subseteq Ready /\ Ready' = Ready
  BY <1>1, <1>2, <1>3 DEF Ready, PeersOK, TurnIsOrdered
<1>5. \A d \in Peer : requested'[d] = IF d = c THEN With(c, R) ELSE requested[d]
  BY <1>1, <1>3 DEF PeersOK
<1>6. PeersOK'
  <2>1. requested' \in [Peer -> Requests]
    BY <1>1, <1>3, <1>4, WithRequests DEF PeersOK
  <2>2. TurnIsOrdered'
    BY <1>3, <1>4 DEF TurnIsOrdered
  <2>3. Meta!MetaTypeOK'
    BY <1>1, <1>3 DEF PeersOK, metaVars, Meta!MetaTypeOK
  <2>4. QED
    BY <1>1, <1>3, <2>1, <2>2, <2>3 DEF PeersOK
<1>7. NothingTooEarly'
  BY <1>1, <1>3 DEF NothingTooEarly, pickerVars
<1>8. Counts'
  BY <1>1, <1>3, <1>4, CountsSame DEF pickerVars, Having
<1>9. ASSUME NEW x \in pending', "send" \notin allowed
      PROVE  /\ \E d \in Ready' : x \in Outstanding(d)' /\ requested'[d][x] <= age'[x]
             /\ age'[x] < Timeout
  <2>1. x \in pending /\ age' = age /\ age[x] \in 0 .. Timeout /\ age[x] < Timeout
    BY <1>1, <1>3, <1>9 DEF pickerVars, ClocksAgree, PickerOK, IInv, PickerTypeOK
  <2>2. CASE x \in R
    <3>1. x \in DOMAIN With(c, R) /\ With(c, R)[x] = 0
      BY <2>2 DEF With
    <3>2. x \in Outstanding(c)' /\ requested'[c][x] = 0 /\ c \in Ready'
      BY <1>2, <1>4, <1>5, <3>1 DEF Outstanding
    <3>3. requested'[c][x] <= age'[x]
      BY <2>1, <3>2
    <3>4. QED
      BY <2>1, <3>2, <3>3
  <2>3. CASE x \notin R
    <3>1. asking[2] = R
      BY <1>2
    <3>2. PICK d \in Ready : x \in Outstanding(d) /\ requested[d][x] <= age[x]
      BY <1>1, <1>9, <2>1, <2>3, <3>1 DEF ClocksAgree
    <3>3. x \in DOMAIN requested'[d] /\ requested'[d][x] = requested[d][x]
      <4>1. CASE d = c
        <5>1. x \in DOMAIN With(c, R) /\ With(c, R)[x] = requested[c][x]
          BY <2>3, <3>2, <4>1 DEF With
        <5>2. QED
          BY <1>4, <1>5, <4>1, <5>1
      <4>2. CASE d # c
        BY <1>5, <3>2, <4>2 DEF Ready, Outstanding
      <4>3. QED
        BY <4>1, <4>2
    <3>4. QED
      BY <1>4, <2>1, <3>2, <3>3 DEF Outstanding
  <2>4. QED
    BY <2>2, <2>3
<1>10. ClocksAgree'
  BY <1>3, <1>9 DEF ClocksAgree
<1>11. QED
  BY <1>1, <1>3, <1>6, <1>7, <1>8, <1>10, PickerSame, PartsNext

LEMMA SendFailsStep ==
    ASSUME SwarmInvariant, NEW D \in SUBSET Block, SendFails(D)
    PROVE  SwarmInvariant'
<1>1. PeersOK /\ TypeOK
  BY Parts DEF SwarmInvariant
<1>2. PICK c \in Ready \ todo, R \in SUBSET Block : asking = <<c, R>>
  BY <1>1 DEF SendFails, PeersOK, TurnIsOrdered
<1>3. /\ phase = "send" /\ phase' = "request" /\ asking' = Nothing /\ "send" \in allowed
      /\ Closed(c, Outstanding(c) \cup D)
      /\ requested' = [requested EXCEPT ![c] = With(c, R)]
      /\ UNCHANGED <<pieces, choking, meta_complete, metaVars, allowed, todo>>
  BY <1>2 DEF SendFails
<1>4. c \in Peer /\ c \in Open /\ Outstanding(c) \cup D \in SUBSET Block
  BY <1>1, <1>2, RequestsOf DEF Ready, Open
<1>5. /\ PickerOK' /\ Counts' /\ NothingTooEarly'
      /\ conn' \in [Peer -> {"absent", "connecting", "handshaking", "ready", "closed"}]
      /\ Ready' = Ready \ {c}
  BY <1>3, <1>4, ClosedPeer
<1>6. PeersOK'
  <2>1. requested' \in [Peer -> Requests]
    BY <1>1, <1>3, <1>4, WithRequests DEF PeersOK
  <2>2. TurnIsOrdered'
    BY <1>1, <1>2, <1>3, <1>5 DEF TurnIsOrdered, PeersOK
  <2>3. Meta!MetaTypeOK'
    BY <1>1, <1>3 DEF PeersOK, metaVars, Meta!MetaTypeOK
  <2>4. QED
    BY <1>1, <1>3, <1>5, <2>1, <2>2, <2>3 DEF PeersOK
<1>7. ClocksAgree'
  BY <1>3 DEF ClocksAgree
<1>8. QED
  BY <1>5, <1>6, <1>7, PartsNext

LEMMA StartPollStep == ASSUME SwarmInvariant, StartPoll PROVE SwarmInvariant'
<1>1. PickerOK /\ PeersOK /\ NothingTooEarly /\ Counts /\ ClocksAgree
  BY Parts
<1>2. /\ phase = "request" /\ phase' = "poll"
      /\ UNCHANGED <<pickerVars, peerVars, meta_complete, metaVars, allowed, todo, asking>>
  BY DEF StartPoll
<1>3. PeersOK' /\ Ready' = Ready /\ \A p \in Piece : Having(p)' = Having(p)
  BY <1>1, <1>2, PeersSame
<1>4. NothingTooEarly'
  BY <1>1, <1>2 DEF NothingTooEarly, pickerVars, peerVars
<1>5. Counts'
  BY <1>1, <1>2, <1>3, CountsSame DEF pickerVars
<1>6. ClocksAgree'
  BY <1>1, <1>2, <1>3, ClocksKept DEF pickerVars, peerVars, Outstanding
<1>7. QED
  BY <1>1, <1>2, <1>3, <1>4, <1>5, <1>6, PickerSame, PartsNext

-----------------------------------------------------------------------------
(* The poll                                                                *)

\* A ready peer announces the pieces S, and now has those of T
LEMMA AnnouncesStep ==
    ASSUME SwarmInvariant, NEW c \in Ready, phase = "poll",
           NEW S \in SUBSET Piece, NEW T \in {S, pieces[c] \cup S},
           pieces' = [pieces EXCEPT ![c] = T],
           IF meta_complete THEN PeerAdded(S) ELSE UNCHANGED pickerVars,
           UNCHANGED <<conn, choking, requested, meta_complete, metaVars, allowed, turnVars>>,
           "again" \in allowed \/ (pieces[c] \cap S = {} /\ pieces[c] \subseteq T)
    PROVE  SwarmInvariant'
<1>1. PickerOK /\ PeersOK /\ NothingTooEarly /\ Counts /\ ClocksAgree
  BY Parts
<1>2. c \in Peer /\ Ready' = Ready /\ conn[c] = "ready" /\ pieces[c] \in SUBSET Piece
  BY <1>1 DEF Ready, PeersOK
<1>3. UNCHANGED <<pending, age>>
  BY DEF PeerAdded, stateVars, pickerVars
<1>4. \A d \in Peer : pieces'[d] = IF d = c THEN T ELSE pieces[d]
  BY <1>1 DEF PeersOK
<1>5. ASSUME NEW p \in Piece
      PROVE  /\ p \in S => Having(p)' = Having(p) \cup {c}
             /\ p \notin S => Having(p)' \subseteq Having(p)
             /\ p \in pieces[c] => c \in Having(p)
             /\ c \in Having(p) => p \in pieces[c]
             /\ p \notin S /\ pieces[c] \subseteq T => Having(p)' = Having(p)
  BY <1>2, <1>4 DEF Having, Ready
<1>6. PickerOK' /\ Counts'
  <2>1. "again" \in allowed
        \/ \A p \in Piece : /\ p \in S => c \notin Having(p)
                            /\ p \notin S => Having(p)' = Having(p)
    BY <1>5
  <2>2. QED
    BY <1>1, <1>5, <2>1, CountsMore
<1>7. PeersOK'
  <2>1. pieces' \in [Peer -> SUBSET Piece]
    BY <1>1, <1>2 DEF PeersOK
  <2>2. TurnIsOrdered' /\ Meta!MetaTypeOK'
    BY <1>1, <1>2 DEF PeersOK, TurnIsOrdered, Meta!MetaTypeOK, metaVars, turnVars
  <2>3. QED
    BY <1>1, <2>1, <2>2 DEF PeersOK, turnVars, Piece
<1>8. NothingTooEarly'
  BY <1>1, <1>2, <1>3, <1>4 DEF NothingTooEarly
<1>9. ClocksAgree'
  BY <1>1, <1>2, <1>3, ClocksKept DEF turnVars, Outstanding
<1>10. QED
  BY <1>6, <1>7, <1>8, <1>9, PartsNext

LEMMA BitfieldStep ==
    ASSUME SwarmInvariant, NEW c \in Peer, NEW S \in Bitfields, BitfieldMessage(c, S)
    PROVE  SwarmInvariant'
<1>1. S \in SUBSET Piece /\ c \in Ready /\ phase = "poll"
  BY SwarmAssumption DEF BitfieldMessage, Says
<1>2. "again" \in allowed \/ pieces[c] = {}
  BY DEF BitfieldMessage, Repeats
<1>3. QED
  BY <1>1, <1>2, AnnouncesStep DEF BitfieldMessage

LEMMA HaveStep ==
    ASSUME SwarmInvariant, NEW c \in Peer, NEW p \in Piece, HaveMessage(c, p)
    PROVE  SwarmInvariant'
<1> DEFINE S == {p}  T == pieces[c] \cup S
<1>1. S \in SUBSET Piece /\ c \in Ready /\ phase = "poll"
  BY DEF HaveMessage, Says
<1>2. "again" \in allowed \/ pieces[c] \cap S = {}
  BY DEF HaveMessage, Repeats
<1>3. /\ pieces' = [pieces EXCEPT ![c] = T]
      /\ IF meta_complete THEN PeerAdded(S) ELSE UNCHANGED pickerVars
      /\ UNCHANGED <<conn, choking, requested, meta_complete, metaVars, allowed, turnVars>>
  BY DEF HaveMessage, PeerHas
<1>4. QED
  BY <1>1, <1>2, <1>3, AnnouncesStep

LEMMA ChokeStep == ASSUME SwarmInvariant, NEW c \in Peer, Choke(c) PROVE SwarmInvariant'
<1>1. PickerOK /\ PeersOK /\ NothingTooEarly /\ Counts /\ ClocksAgree /\ TypeOK
  BY Parts DEF SwarmInvariant
<1>2. /\ phase = "poll" /\ c \in Ready /\ choking' = choking \cup {c}
      /\ IF meta_complete THEN Release(Outstanding(c)) ELSE UNCHANGED pickerVars
      /\ requested' = [requested EXCEPT ![c] = Nothing]
      /\ UNCHANGED <<conn, pieces, meta_complete, metaVars, allowed, turnVars>>
      /\ Outstanding(c) \in SUBSET Block
  BY <1>1, RequestsOf DEF Choke, Says
<1>3. PickerOK'
  <2>1. CASE meta_complete
    <3>1. availability' \in [Piece -> 0 .. AvailMax] /\ GiveBack(Outstanding(c))
      BY <1>1, <1>2, <2>1, UncountedType DEF Release
    <3>2. QED
      BY <1>1, <1>2, <3>1, PickerGivesBack
  <2>2. CASE ~meta_complete
    BY <1>1, <1>2, <2>2, PickerSame
  <2>3. QED
    BY <2>1, <2>2
<1>4. \A d \in Peer : requested'[d] = IF d = c THEN Nothing ELSE requested[d]
  BY <1>1, <1>2 DEF PeersOK
<1>5. PeersOK'
  <2>1. requested' \in [Peer -> Requests] /\ choking' \subseteq Peer
    BY <1>1, <1>2, NoRequest DEF PeersOK
  <2>2. TurnIsOrdered' /\ Meta!MetaTypeOK'
    BY <1>1, <1>2 DEF PeersOK, TurnIsOrdered, Meta!MetaTypeOK, metaVars, turnVars
  <2>3. QED
    BY <1>1, <1>2, <2>1, <2>2 DEF PeersOK, turnVars
<1>6. /\ availability' = availability /\ pending' \subseteq pending
      /\ \A x \in pending' : x \notin Outstanding(c) /\ age'[x] = age[x]
  BY <1>1, <1>2 DEF Release, GiveBack, pickerVars, NothingTooEarly, PickerOK, IInv, PickerTypeOK
<1>7. NothingTooEarly'
  BY <1>1, <1>2, <1>6 DEF NothingTooEarly
<1>8. Counts'
  BY <1>1, <1>2, <1>6, CountsSame DEF Having, Ready
<1>9. ClocksAgree'
  BY <1>1, <1>2, <1>4, <1>6, ClocksKept DEF turnVars, Outstanding, Ready
<1>10. QED
  BY <1>3, <1>5, <1>7, <1>8, <1>9, PartsNext

LEMMA UnchokeStep == ASSUME SwarmInvariant, NEW c \in Peer, Unchoke(c) PROVE SwarmInvariant'
<1>1. PickerOK /\ PeersOK /\ NothingTooEarly /\ Counts /\ ClocksAgree
  BY Parts
<1>2. /\ phase = "poll" /\ choking' = choking \ {c}
      /\ UNCHANGED <<pickerVars, conn, pieces, requested, meta_complete, metaVars, allowed, turnVars>>
  BY DEF Unchoke, Says
<1>3. PeersOK'
  <2>1. TurnIsOrdered' /\ Meta!MetaTypeOK'
    BY <1>1, <1>2 DEF PeersOK, TurnIsOrdered, Meta!MetaTypeOK, metaVars, turnVars
  <2>2. QED
    BY <1>1, <1>2, <2>1 DEF PeersOK, turnVars
<1>4. NothingTooEarly'
  BY <1>1, <1>2 DEF NothingTooEarly, pickerVars
<1>5. Counts'
  BY <1>1, <1>2, CountsSame DEF pickerVars, Having, Ready
<1>6. ClocksAgree'
  BY <1>1, <1>2, ClocksKept DEF pickerVars, turnVars, Outstanding, Ready
<1>7. QED
  BY <1>1, <1>2, <1>3, <1>4, <1>5, <1>6, PickerSame, PartsNext

LEMMA PieceStep ==
    ASSUME SwarmInvariant, NEW c \in Peer, NEW x \in Block, PieceMessage(c, x)
    PROVE  SwarmInvariant'
<1>1. PickerOK /\ PeersOK /\ NothingTooEarly /\ Counts /\ ClocksAgree /\ TypeOK
  BY Parts DEF SwarmInvariant
<1>2. /\ phase = "poll" /\ c \in Ready
      /\ requested' = [requested EXCEPT ![c] = Without(c, {x})]
      /\ UNCHANGED <<conn, pieces, choking, meta_complete, metaVars, allowed, turnVars>>
  BY DEF PieceMessage, Says
<1>3. x[1] \in Piece /\ x[2] \in BlocksIn(x[1]) /\ x = <<x[1], x[2]>>
  BY BlockPairs
<1>4. /\ PickerOK' /\ availability' = availability
      /\ pending' = pending \ {x} /\ \A y \in pending' : age'[y] = age[y]
  <2>1. CASE meta_complete /\ x[1] \in started \ have
    <3>1. OnBlockReceived(x[1], x[2])
      BY <2>1 DEF PieceMessage
    <3>2. IInv'
      BY <1>1, <1>3, <3>1, ReceivedStep DEF PickerOK
    <3>3. PickerOK'
      BY <1>1, <3>1, <3>2, BytesStep DEF PickerOK, OnBlockReceived
    <3>4. /\ availability' = availability /\ pending' = pending \ {x}
          /\ \A y \in pending' : age'[y] = age[y]
      BY <1>1, <1>3, <3>1 DEF OnBlockReceived, PickerOK, IInv, PickerTypeOK
    <3>5. QED
      BY <3>3, <3>4
  <2>2. CASE ~(meta_complete /\ x[1] \in started \ have)
    <3>1. UNCHANGED pickerVars
      BY <2>2 DEF PieceMessage
    <3>2. x \notin pending
      BY <1>1, <2>2, ReservedInProgress DEF NothingTooEarly, PickerOK
    <3>3. QED
      BY <1>1, <3>1, <3>2, PickerSame DEF pickerVars
  <2>3. QED
    BY <2>1, <2>2
<1>5. PeersOK'
  <2>1. requested' \in [Peer -> Requests]
    BY <1>1, <1>2, WithoutRequests DEF PeersOK
  <2>2. TurnIsOrdered' /\ Meta!MetaTypeOK'
    BY <1>1, <1>2 DEF PeersOK, TurnIsOrdered, Meta!MetaTypeOK, metaVars, turnVars
  <2>3. QED
    BY <1>1, <1>2, <2>1, <2>2 DEF PeersOK, turnVars
<1>6. NothingTooEarly'
  BY <1>1, <1>2, <1>4 DEF NothingTooEarly
<1>7. Counts'
  BY <1>1, <1>2, <1>4, CountsSame DEF Having, Ready
<1>8. ClocksAgree'
  <2>1. ASSUME NEW d \in Ready, NEW y \in Outstanding(d), y # x
        PROVE  y \in Outstanding(d)' /\ requested'[d][y] = requested[d][y]
    <3>1. CASE d = c
      <4>1. requested'[d] = Without(c, {x}) /\ y \in DOMAIN Without(c, {x})
            /\ Without(c, {x})[y] = requested[c][y]
        BY <1>1, <1>2, <2>1, <3>1 DEF PeersOK, Without, Ready
      <4>2. QED
        BY <3>1, <4>1 DEF Outstanding
    <3>2. CASE d # c
      BY <1>1, <1>2, <2>1, <3>2 DEF PeersOK, Ready, Outstanding
    <3>3. QED
      BY <3>1, <3>2
  <2>2. Ready' = Ready
    BY <1>2 DEF Ready
  <2>3. QED
    BY <1>1, <1>2, <1>4, <2>1, <2>2, ClocksKept DEF turnVars
<1>9. QED
  BY <1>4, <1>5, <1>6, <1>7, <1>8, PartsNext

LEMMA ExtendedStep ==
    ASSUME SwarmInvariant, NEW c \in Peer, NEW n \in MetaSizes, ExtendedMessage(c, n)
    PROVE  SwarmInvariant'
<1>1. PickerOK /\ PeersOK /\ NothingTooEarly /\ Counts /\ ClocksAgree
  BY Parts
<1>2. /\ ~meta_complete /\ Meta!Hears(c, n)
      /\ UNCHANGED <<pickerVars, peerVars, meta_complete, allowed, turnVars>>
  BY DEF ExtendedMessage
<1>3. PeersOK'
  <2>1. Meta!MetaTypeOK'
    BY <1>1, <1>2 DEF PeersOK, Meta!Hears, Meta!MetaTypeOK, Meta!Index
  <2>2. TurnIsOrdered'
    BY <1>1, <1>2 DEF PeersOK, TurnIsOrdered, peerVars, turnVars, Ready
  <2>3. QED
    BY <1>1, <1>2, <2>1, <2>2 DEF PeersOK, peerVars, turnVars
<1>4. NothingTooEarly' /\ pending' = {}
  BY <1>1, <1>2 DEF NothingTooEarly, peerVars, pickerVars
<1>5. Counts'
  BY <1>1, <1>2, CountsSame DEF pickerVars, peerVars, Having, Ready
<1>6. ClocksAgree'
  BY <1>4 DEF ClocksAgree
<1>7. QED
  BY <1>1, <1>2, <1>3, <1>4, <1>5, <1>6, PickerSame, PartsNext

\* The metadata are known: every peer that is listed is counted
LEMMA FinishedCounts ==
    ASSUME SwarmInvariant, ~meta_complete, Finished, UNCHANGED <<stateVars, peerVars, allowed>>
    PROVE  PickerOK' /\ Counts'
<1>1. PickerOK /\ PeersOK /\ NothingTooEarly
  BY Parts
<1>2. ASSUME NEW p \in Piece
      PROVE  /\ availability'[p] \in 0 .. AvailMax /\ Cardinality(Having(p)') <= availability'[p]
             /\ availability'[p] <= Cardinality(Having(p)') + Cardinality(Peer)
  <2> DEFINE counted == {c \in Listed : p \in pieces[c]}
  <2>1. counted \in SUBSET Peer /\ Having(p)' \in SUBSET counted
    BY DEF Listed, Having, Ready, peerVars
  <2>2. availability'[p] = Cardinality(counted)
    BY DEF Finished, Announced
  <2> HIDE DEF counted
  <2>3. QED
    BY <2>1, <2>2, SomePeers, PickerAssumption
<1>3. availability' \in [Piece -> 0 .. AvailMax]
  BY <1>2 DEF Finished
<1>4. CountedForEach'
  BY <1>2 DEF CountedForEach, Piece
<1>5. AvailabilityIsCount'
  BY <1>1 DEF NothingTooEarly, AvailabilityIsCount
<1>6. CountIsBounded'
  BY <1>2 DEF CountIsBounded, Piece
<1>7. QED
  BY <1>1, <1>3, <1>4, <1>5, <1>6, PickerUncounted DEF Counts

LEMMA MetadataStep ==
    ASSUME SwarmInvariant, NEW c \in Peer, NEW i \in Meta!Indices, NEW good \in BOOLEAN,
           MetadataMessage(c, i, good)
    PROVE  SwarmInvariant'
<1>1. PickerOK /\ PeersOK /\ NothingTooEarly /\ Counts /\ ClocksAgree
  BY Parts
<1>2. ~meta_complete /\ UNCHANGED <<stateVars, peerVars, turnVars, allowed>>
  BY DEF MetadataMessage, stateVars
<1>3. \/ Finished
      \/ /\ UNCHANGED <<meta_complete, availability>>
         /\ Meta!Rejects(c, i) \/ Meta!Receives(c, i, good) \/ Meta!Ignores(c, i)
  BY DEF MetadataMessage
<1>4. PickerOK' /\ Counts'
  <2>1. CASE Finished
    BY <1>2, <2>1, FinishedCounts
  <2>2. CASE UNCHANGED <<meta_complete, availability>>
    <3>1. PickerOK'
      BY <1>1, <1>2, <2>2, PickerUncounted, UncountedType
    <3>2. Counts'
      BY <1>1, <1>2, <2>2, CountsSame DEF peerVars, Having, Ready
    <3>3. QED
      BY <3>1, <3>2
  <2>3. QED
    BY <1>3, <2>1, <2>2
<1>5. PeersOK'
  <2>1. Meta!MetaTypeOK' /\ meta_complete' \in BOOLEAN
    <3>1. CASE Finished
      BY <3>1 DEF Finished, Meta!MetaTypeOK, Meta!Index
    <3>2. CASE Meta!Rejects(c, i) \/ Meta!Receives(c, i, good) \/ Meta!Ignores(c, i)
      <4>1. asked' \in [Peer -> SUBSET Meta!Indices]
        BY <1>1, <3>2 DEF PeersOK, Meta!MetaTypeOK, Meta!Rejects, Meta!Receives, Meta!Ignores
      <4>2. spoiled' \in BOOLEAN
        BY <1>1, <3>2 DEF PeersOK, Meta!MetaTypeOK, Meta!Rejects, Meta!Receives, Meta!Ignores
      <4>3. /\ size' \in MetaSizes \cup {0} /\ got' \subseteq Meta!Index(size)'
            /\ supports' \subseteq Peer
        BY <1>1, <3>2
        DEF PeersOK, Meta!MetaTypeOK, Meta!Rejects, Meta!Receives, Meta!Ignores, Meta!Wants, Meta!Index
      <4>4. CASE UNCHANGED meta_complete
        BY <1>1, <4>1, <4>2, <4>3, <4>4 DEF Meta!MetaTypeOK, PeersOK, Meta!Indices
      <4>5. QED
        BY <1>3, <3>1, <4>4
    <3>3. QED
      BY <1>3, <3>1, <3>2
  <2>2. TurnIsOrdered'
    BY <1>1, <1>2 DEF PeersOK, TurnIsOrdered, peerVars, turnVars, Ready
  <2>3. QED
    BY <1>1, <1>2, <2>1, <2>2 DEF PeersOK, peerVars, turnVars
<1>6. NothingTooEarly' /\ pending' = {}
  BY <1>1, <1>2 DEF NothingTooEarly, peerVars, stateVars
<1>7. ClocksAgree'
  BY <1>6 DEF ClocksAgree
<1>8. QED
  BY <1>4, <1>5, <1>6, <1>7, PartsNext

LEMMA EndTurnStep == ASSUME SwarmInvariant, NEW time \in BOOLEAN, EndTurn(time) PROVE SwarmInvariant'
<1>1. PickerOK /\ PeersOK /\ NothingTooEarly /\ Counts /\ ClocksAgree /\ TypeOK
  BY Parts DEF SwarmInvariant
<1>2. /\ phase = "poll" /\ phase' = "start"
      /\ age' = IF time THEN Older ELSE age
      /\ UNCHANGED <<have, bytes_done, availability, pick_cursor, started, block, done,
                     npending, pending, handed>>
      /\ UNCHANGED <<conn, pieces, choking, meta_complete, metaVars, allowed, todo, asking>>
  BY DEF EndTurn
<1>3. PickerOK'
  <2>1. IInv'
    BY <1>1, <1>2, AgeStep DEF PickerOK
  <2>2. QED
    BY <1>1, <1>2, <2>1, BytesStep DEF PickerOK
<1>4. ASSUME NEW c \in Peer
      PROVE  /\ requested'[c] \in Requests /\ DOMAIN requested'[c] = Outstanding(c)
             /\ \A x \in Outstanding(c) :
                   requested'[c][x] = IF time /\ requested[c][x] <= Timeout
                                      THEN requested[c][x] + 1 ELSE requested[c][x]
  <2> DEFINE f == [x \in Outstanding(c) |-> IF time /\ requested[c][x] <= Timeout
                                            THEN requested[c][x] + 1 ELSE requested[c][x]]
  <2>1. requested'[c] = f
    BY DEF EndTurn
  <2>2. f \in [Outstanding(c) -> 0 .. Timeout + 1] /\ Outstanding(c) \in SUBSET Block
    BY <1>1, RequestsOf, PickerAssumption
  <2>3. QED
    BY <2>1, <2>2, AreRequests
<1>5. PeersOK'
  <2>1. requested' \in [Peer -> Requests]
    BY <1>4 DEF EndTurn
  <2>2. TurnIsOrdered' /\ Meta!MetaTypeOK'
    BY <1>1, <1>2 DEF PeersOK, TurnIsOrdered, Meta!MetaTypeOK, metaVars
  <2>3. QED
    BY <1>1, <1>2, <2>1, <2>2 DEF PeersOK
<1>6. NothingTooEarly'
  BY <1>1, <1>2 DEF NothingTooEarly
<1>7. Counts'
  BY <1>1, <1>2, CountsSame DEF Having, Ready
<1>8. ASSUME NEW x \in pending', "send" \notin allowed
      PROVE  \E c \in Ready' : x \in Outstanding(c)' /\ requested'[c][x] <= age'[x]
  <2>1. PICK c \in Ready : x \in Outstanding(c) /\ requested[c][x] <= age[x]
    BY <1>1, <1>2, <1>8 DEF ClocksAgree
  <2>2. c \in Peer /\ c \in Ready' /\ requested[c][x] \in Int /\ age[x] \in Int /\ age[x] < Timeout
        /\ Timeout \in Int /\ x \in Block /\ x \in pending
    BY <1>1, <1>2, <1>8, <2>1, RequestsOf, PickerAssumption
    DEF ClocksAgree, Ready, PickerOK, IInv, PickerTypeOK
  <2>3. age'[x] = IF time THEN age[x] + 1 ELSE age[x]
    BY <1>2, <2>2 DEF Older
  <2>4. x \in Outstanding(c)' /\ requested'[c][x] <= age'[x]
    BY <1>4, <2>1, <2>2, <2>3 DEF Outstanding
  <2>5. QED
    BY <2>2, <2>4
<1>9. ClocksAgree'
  BY <1>2, <1>8 DEF ClocksAgree
<1>10. QED
  BY <1>3, <1>5, <1>6, <1>7, <1>9, PartsNext

-----------------------------------------------------------------------------
(* The theorems                                                            *)

LEMMA NextSwarm == SwarmInvariant /\ [Next]_vars => SwarmInvariant'
<1> SUFFICES ASSUME SwarmInvariant, [Next]_vars PROVE SwarmInvariant'
  OBVIOUS
<1>1. ASSUME EngineStep PROVE SwarmInvariant'
  BY <1>1, TickStep, PurgeStep, DriveStep, BeginStep, SendStep, StartPollStep, RequestStep, EndTurnStep
  DEF EngineStep
<1>2. ASSUME EndTurn(TRUE) \/ DropAllPeers PROVE SwarmInvariant'
  BY <1>2, EndTurnStep, DropAllStep
<1>3. ASSUME NEW D \in SUBSET Block, SendFails(D) PROVE SwarmInvariant'
  BY <1>3, SendFailsStep
<1>4. ASSUME NEW p \in Piece, NEW ok \in BOOLEAN, FinishPiece(p, ok) PROVE SwarmInvariant'
  BY <1>4, FinishStep
<1>5. ASSUME NEW c \in Peer, \/ Connect(c) \/ Established(c) \/ Handshake(c)
                             \/ TimesOut(c) \/ Close(c) \/ Choke(c) \/ Unchoke(c)
      PROVE  SwarmInvariant'
  BY <1>5, ComesStep, LeavesStep, ChokeStep, UnchokeStep DEF TimesOut, Close
<1>6. ASSUME NEW c \in Peer, NEW n \in MetaSizes, ExtendedMessage(c, n) PROVE SwarmInvariant'
  BY <1>6, ExtendedStep
<1>7. ASSUME NEW c \in Peer, NEW i \in Meta!Indices, NEW good \in BOOLEAN, MetadataMessage(c, i, good)
      PROVE  SwarmInvariant'
  BY <1>7, MetadataStep
<1>8. ASSUME NEW c \in Peer, NEW S \in Bitfields, BitfieldMessage(c, S) PROVE SwarmInvariant'
  BY <1>8, BitfieldStep
<1>9. ASSUME NEW c \in Peer, NEW p \in Piece, HaveMessage(c, p) PROVE SwarmInvariant'
  BY <1>9, HaveStep
<1>10. ASSUME NEW c \in Peer, NEW x \in Block, PieceMessage(c, x) PROVE SwarmInvariant'
  BY <1>10, PieceStep
<1>11. CASE UNCHANGED vars
  <2>1. PickerOK /\ PeersOK /\ NothingTooEarly /\ Counts /\ ClocksAgree
    BY Parts
  <2>2. UNCHANGED <<pickerVars, peerVars, meta_complete, metaVars, allowed, turnVars>>
    BY <1>11 DEF vars
  <2>3. PeersOK' /\ Ready' = Ready /\ \A p \in Piece : Having(p)' = Having(p)
    BY <2>1, <2>2, PeersSame DEF turnVars
  <2>4. NothingTooEarly'
    BY <2>1, <2>2 DEF NothingTooEarly, pickerVars, peerVars
  <2>5. Counts'
    BY <2>1, <2>2, <2>3, CountsSame DEF pickerVars
  <2>6. ClocksAgree'
    BY <2>1, <2>2, <2>3 DEF ClocksAgree, pickerVars, peerVars, turnVars, Outstanding
  <2>7. QED
    BY <2>1, <2>2, <2>3, <2>4, <2>5, <2>6, PickerSame, PartsNext
<1>12. QED
  BY <1>1, <1>2, <1>3, <1>4, <1>5, <1>6, <1>7, <1>8, <1>9, <1>10, <1>11 DEF Next

\* Whatever peers announce, choke, send late, twice or unasked, and however they go, what
\* is reserved is asked of someone, every announcement is counted, and the picker's
\* own bookkeeping and the progress shown are right.
THEOREM SwarmIsRight == Spec => []SwarmInvariant
BY InitSwarm, NextSwarm, PTL DEF Spec

\* A piece that a connected peer announced is never out of pick()'s sight: it is counted
\* for each peer that has it, and these are at least one; and its counter stays below the
\* value that pick() never chooses, unless a peer repeats itself.
THEOREM PiecesAreFound == Spec => []NoPieceOverlooked
<1>1. SwarmInvariant => NoPieceOverlooked
  <2> SUFFICES ASSUME SwarmInvariant, meta_complete, NEW c \in Ready, NEW p \in pieces[c]
               PROVE  availability[p] > 0 /\ ("again" \notin allowed => availability[p] < AvailMax)
    BY DEF NoPieceOverlooked
  <2>1. p \in Piece /\ c \in Having(p) /\ Cardinality(Having(p)) <= availability[p]
    BY DEF SwarmInvariant, TypeOK, CountedForEach, Having, Ready
  <2>2. /\ IsFiniteSet(Having(p)) /\ Cardinality(Having(p)) \in Nat
        /\ Cardinality(Having(p)) <= Cardinality(Peer) /\ Cardinality(Peer) \in Nat
    BY HavingPeers, SomePeers
  <2>3. Cardinality(Having(p)) # 0
    BY <2>1, <2>2, FS_EmptySet
  <2>4. availability[p] \in Nat /\ AvailMax \in Nat
    BY <2>1, PickerAssumption DEF SwarmInvariant, TypeOK, PickerTypeOK
  <2>5. ASSUME "again" \notin allowed PROVE availability[p] < AvailMax
    <3>1. availability[p] <= Cardinality(Having(p)) + Cardinality(Peer)
      BY <2>1, <2>5 DEF SwarmInvariant, CountIsBounded
    <3>2. QED
      BY <2>2, <2>4, <3>1, SwarmAssumption
  <2>6. QED
    BY <2>1, <2>2, <2>3, <2>4, <2>5
<1>2. QED
  BY <1>1, SwarmIsRight, PTL

=============================================================================
