------------------------- MODULE SessionQueueProofs -------------------------
(***************************************************************************)
(* The download queue keeps its limit, leaves no slot free while a torrent *)
(* waits, and only puts the youngest back, whatever the torrents and the   *)
(* limits.                                                                 *)
(***************************************************************************)
EXTENDS SessionQueue, FiniteSetTheorems, SequenceTheorems, WellFoundedInduction, TLAPS

-----------------------------------------------------------------------------
(* The order of the torrents                                               *)

LEMMA Places ==
    ASSUME TypeOK
    PROVE  \E pos \in [Present -> 1 .. Len(order)] :
             /\ \A t, u \in Present : Before(t, u) <=> pos[t] < pos[u]
             /\ \A t, u \in Present : pos[t] = pos[u] => t = u
<1> DEFINE pos == [t \in Present |-> CHOOSE i \in DOMAIN order : order[i] = t]
<1>1. DOMAIN order = 1 .. Len(order) /\ Len(order) \in Nat
  BY LenProperties DEF TypeOK
<1>2. \A t \in Present : pos[t] \in DOMAIN order /\ order[pos[t]] = t
  <2>1. \A t \in Present : \E i \in DOMAIN order : order[i] = t
    BY DEF TypeOK, ToSet
  <2>2. QED
    BY <2>1
<1>3. \A i, j \in DOMAIN order : order[i] = order[j] => i = j
  BY DEF TypeOK, IsInjective
<1>4. \A t, u \in Present : Before(t, u) <=> pos[t] < pos[u]
  <2>1. ASSUME NEW t \in Present, NEW u \in Present, Before(t, u)
        PROVE  pos[t] < pos[u]
    <3>1. PICK i \in DOMAIN order, j \in DOMAIN order : i < j /\ order[i] = t /\ order[j] = u
      BY <2>1 DEF Before
    <3>2. pos[t] = i /\ pos[u] = j
      BY <1>2, <1>3, <3>1
    <3>3. QED
      BY <3>1, <3>2
  <2>2. ASSUME NEW t \in Present, NEW u \in Present, pos[t] < pos[u]
        PROVE  Before(t, u)
    BY <1>2, <2>2 DEF Before
  <2>3. QED
    BY <2>1, <2>2
<1>5. \A t, u \in Present : pos[t] = pos[u] => t = u
  BY <1>2
<1>6. pos \in [Present -> 1 .. Len(order)]
  BY <1>1, <1>2
<1>7. QED
  BY <1>4, <1>5, <1>6

\* The torrents are in a strict total order
LEMMA TotalOrder ==
    ASSUME TypeOK
    PROVE  /\ \A t \in Present : ~Before(t, t)
           /\ \A t, u \in Present : t # u => Before(t, u) \/ Before(u, t)
           /\ \A t, u, v \in Present : Before(t, u) /\ Before(u, v) => Before(t, v)
<1>1. PICK pos \in [Present -> 1 .. Len(order)] :
        /\ \A t, u \in Present : Before(t, u) <=> pos[t] < pos[u]
        /\ \A t, u \in Present : pos[t] = pos[u] => t = u
  BY Places
<1>2. Len(order) \in Nat
  BY LenProperties DEF TypeOK
<1>3. \A t \in Present : pos[t] \in Nat
  BY <1>2
<1>4. QED
  BY <1>1, <1>3

LEMMA PresentIsFinite == IsFiniteSet(Present) /\ Present \subseteq Torrent
<1>1. Present \in SUBSET Torrent
  BY DEF Present
<1>2. QED
  BY <1>1, QueueAssumption, FS_Subset, Zenon

\* A smallest of some sets of torrents
LEMMA Smallest ==
    ASSUME NEW C \in SUBSET (SUBSET Torrent), C # {}
    PROVE  \E c \in C : \A d \in C : ~(d \subseteq c /\ d # c)
<1>1. FiniteSubsetsOf(Torrent) = SUBSET Torrent
  BY QueueAssumption, FS_FiniteSubsetsOfFinite
<1>2. IsWellFoundedOn(StrictSubsetOrdering(Torrent), SUBSET Torrent)
  BY <1>1, FS_StrictSubsetOrderingWellFounded
<1>3. PICK c \in C : \A d \in C : <<d, c>> \notin StrictSubsetOrdering(Torrent)
  BY <1>2, WFMin, Zenon
<1>4. QED
  BY <1>3 DEF StrictSubsetOrdering

\* Some torrents, if any, have an oldest
LEMMA Oldest ==
    ASSUME TypeOK, NEW S \in SUBSET Present, S # {}
    PROVE  \E t \in S : \A u \in S : u = t \/ Before(t, u)
<1> DEFINE older(t) == {u \in Present : Before(u, t)}
<1> DEFINE C == {older(t) : t \in S}
<1>1. C \in SUBSET (SUBSET Torrent) /\ C # {}
  BY PresentIsFinite
<1> HIDE DEF C
<1>2. PICK c \in C : \A d \in C : ~(d \subseteq c /\ d # c)
  BY <1>1, Smallest, Zenon
<1> USE DEF C
<1>3. PICK t \in S : c = older(t)
  OBVIOUS
<1>4. ASSUME NEW u \in S, u # t, ~Before(t, u) PROVE FALSE
  <2>1. Before(u, t) /\ ~Before(u, u)
    BY <1>4, TotalOrder
  <2>2. older(u) \subseteq older(t)
    BY <2>1, TotalOrder
  <2>3. u \in older(t) /\ u \notin older(u)
    BY <2>1
  <2>4. QED
    BY <1>2, <1>3, <2>2, <2>3
<1>5. QED
  BY <1>4

\* ... and a youngest
LEMMA Youngest ==
    ASSUME TypeOK, NEW S \in SUBSET Present, S # {}
    PROVE  \E t \in S : \A u \in S : u = t \/ Before(u, t)
<1> DEFINE younger(t) == {u \in Present : Before(t, u)}
<1> DEFINE C == {younger(t) : t \in S}
<1>1. C \in SUBSET (SUBSET Torrent) /\ C # {}
  BY PresentIsFinite
<1> HIDE DEF C
<1>2. PICK c \in C : \A d \in C : ~(d \subseteq c /\ d # c)
  BY <1>1, Smallest, Zenon
<1> USE DEF C
<1>3. PICK t \in S : c = younger(t)
  OBVIOUS
<1>4. ASSUME NEW u \in S, u # t, ~Before(u, t) PROVE FALSE
  <2>1. Before(t, u) /\ ~Before(u, u)
    BY <1>4, TotalOrder
  <2>2. younger(u) \subseteq younger(t)
    BY <2>1, TotalOrder
  <2>3. u \in younger(t) /\ u \notin younger(u)
    BY <2>1
  <2>4. QED
    BY <1>2, <1>3, <2>2, <2>3
<1>5. QED
  BY <1>4

-----------------------------------------------------------------------------
(* The slots that update_queue() gives and takes                           *)

LEMMA Sets ==
    /\ Active \subseteq Present /\ Waiting \subseteq Present
    /\ Active \cap Waiting = {}
    /\ IsFiniteSet(Active) /\ NowActive \in Nat
<1>1. Active \subseteq Present /\ Waiting \subseteq Present /\ Active \cap Waiting = {}
  BY DEF Active, Waiting, Present, HoldsSlot
<1>2. IsFiniteSet(Active)
  BY <1>1, PresentIsFinite, FS_Subset
<1>3. QED
  BY <1>1, <1>2, FS_CardinalityType DEF NowActive

\* One more element at most
LEMMA OneMore ==
    ASSUME NEW S, NEW x, IsFiniteSet(S), NEW D \in SUBSET (S \cup {x})
    PROVE  Cardinality(D) <= Cardinality(S) + 1
<1> DEFINE T == S \cup {x}
<1>1. /\ IsFiniteSet(T)
      /\ Cardinality(T) = IF x \in S THEN Cardinality(S) ELSE Cardinality(S) + 1
  BY FS_AddElement, Zenon
<1>2. Cardinality(T) \in Nat /\ Cardinality(S) \in Nat
  BY <1>1, FS_CardinalityType, Zenon
<1>3. IsFiniteSet(D) /\ Cardinality(D) <= Cardinality(T)
  BY <1>1, FS_Subset, Zenon
<1>4. Cardinality(D) \in Nat
  BY <1>3, FS_CardinalityType, Zenon
<1> HIDE DEF T
<1>5. QED
  BY <1>1, <1>2, <1>3, <1>4

\* The promoted torrents that take a slot
Served(limit) == {t \in Promoted(limit) : HoldsSlot(Released(t))}

\* The torrents that wait before t for a slot
Ahead(t) == {u \in Waiting : Before(u, t) /\ HoldsSlot(Released(u))}

\* The torrents with a slot after t
Behind(t) == {u \in Active : Before(t, u)}

\* Promoting fills the slots that are free, and no other
LEMMA Promotion ==
    ASSUME TypeOK, NEW limit \in Nat
    PROVE  /\ IsFiniteSet(Served(limit)) /\ Cardinality(Served(limit)) \in Nat
           /\ Served(limit) # {} => NowActive + Cardinality(Served(limit)) <= limit
           /\ Waiting \ Promoted(limit) # {} =>
                NowActive + Cardinality(Served(limit)) >= limit
<1> DEFINE P == Served(limit)
<1>1. P \subseteq Waiting /\ Promoted(limit) \subseteq Waiting
  BY DEF Served, Promoted
<1>2. IsFiniteSet(P) /\ Cardinality(P) \in Nat
  <2>1. P \in SUBSET Present
    BY <1>1, Sets
  <2>2. QED
    BY <2>1, PresentIsFinite, FS_Subset, FS_CardinalityType, Zenon
<1>3. \A t \in Torrent : IsFiniteSet(Ahead(t)) /\ Cardinality(Ahead(t)) \in Nat
  <2>1. \A t \in Torrent : Ahead(t) \in SUBSET Present
    BY Sets DEF Ahead
  <2>2. QED
    BY <2>1, PresentIsFinite, FS_Subset, FS_CardinalityType, Zenon
<1>4. \A t \in Waiting : t \in Promoted(limit) <=> NowActive + Cardinality(Ahead(t)) < limit
  BY DEF Promoted, Ahead
<1>5. ASSUME P # {} PROVE NowActive + Cardinality(P) <= limit
  <2>1. P \in SUBSET Present
    BY <1>1, Sets
  <2>2. PICK l \in P : \A u \in P : u = l \/ Before(u, l)
    BY <1>5, <2>1, Youngest, Zenon
  <2>3. l \in Torrent /\ l \in Promoted(limit)
    BY <2>1, PresentIsFinite DEF Served
  <2>4. P \subseteq Ahead(l) \cup {l}
    BY <1>1, <2>2 DEF Ahead, Served
  <2>5. Cardinality(P) <= Cardinality(Ahead(l)) + 1
    <3>1. IsFiniteSet(Ahead(l))
      BY <1>3, <2>3
    <3>2. QED
      BY <2>4, <3>1, OneMore
  <2>6. NowActive + Cardinality(Ahead(l)) < limit
    BY <1>1, <1>4, <2>3
  <2>7. QED
    BY <1>2, <1>3, <2>3, <2>5, <2>6, Sets
<1>6. ASSUME Waiting \ Promoted(limit) # {} PROVE NowActive + Cardinality(P) >= limit
  <2>1. Waiting \ Promoted(limit) \in SUBSET Present
    BY Sets
  <2>2. PICK w \in Waiting \ Promoted(limit) :
          \A u \in Waiting \ Promoted(limit) : u = w \/ Before(w, u)
    BY <1>6, <2>1, Oldest, Zenon
  <2>3. w \in Torrent /\ w \in Present
    BY <2>1, PresentIsFinite
  <2>4. Ahead(w) \subseteq P
    <3>1. ASSUME NEW u \in Ahead(w), u \notin Promoted(limit) PROVE FALSE
      <4>1. u \in Waiting /\ Before(u, w) /\ u \in Present
        BY Sets DEF Ahead
      <4>2. u = w \/ Before(w, u)
        BY <2>2, <3>1, <4>1
      <4>3. QED
        BY <2>3, <4>1, <4>2, TotalOrder
    <3>2. QED
      BY <3>1 DEF Served, Ahead
  <2>5. Cardinality(Ahead(w)) <= Cardinality(P)
    BY <1>2, <2>4, FS_Subset
  <2>6. ~(NowActive + Cardinality(Ahead(w)) < limit)
    BY <1>4, <2>2
  <2>7. QED
    BY <1>2, <1>3, <2>3, <2>5, <2>6, Sets
<1>7. QED
  BY <1>2, <1>5, <1>6

\* Demoting takes the slots over the limit, and no other
LEMMA Demotion ==
    ASSUME TypeOK, NEW limit \in Nat
    PROVE  /\ IsFiniteSet(Active \ Demoted(limit))
           /\ Cardinality(Active \ Demoted(limit)) \in Nat
           /\ Cardinality(Active \ Demoted(limit)) <= limit
           /\ Demoted(limit) # {} => /\ Cardinality(Active \ Demoted(limit)) = limit
                                     /\ NowActive > limit
<1> DEFINE D == Demoted(limit)
<1> DEFINE R == Active \ D
<1>1. D \subseteq Active /\ D \in SUBSET Present /\ R \in SUBSET Present
  BY Sets DEF Demoted
<1>2. /\ IsFiniteSet(D) /\ Cardinality(D) \in Nat
      /\ IsFiniteSet(R) /\ Cardinality(R) \in Nat
  BY <1>1, PresentIsFinite, FS_Subset, FS_CardinalityType, Zenon
<1>3. Cardinality(R) = NowActive - Cardinality(D)
  <2>1. Active \cap D = D
    BY <1>1
  <2>2. Cardinality(Active \ D) = Cardinality(Active) - Cardinality(Active \cap D)
    BY Sets, FS_Difference, Zenon
  <2>3. QED
    BY <2>1, <2>2 DEF NowActive
<1>4. \A t \in Torrent : IsFiniteSet(Behind(t)) /\ Cardinality(Behind(t)) \in Nat
  <2>1. \A t \in Torrent : Behind(t) \in SUBSET Present
    BY Sets DEF Behind
  <2>2. QED
    BY <2>1, PresentIsFinite, FS_Subset, FS_CardinalityType, Zenon
<1>5. \A t \in Active : t \in D <=> Cardinality(Behind(t)) < NowActive - limit
  BY DEF Demoted, Behind
<1>6. ASSUME R # {} PROVE Cardinality(R) <= limit
  <2>1. PICK r \in R : \A u \in R : u = r \/ Before(u, r)
    BY <1>1, <1>6, Youngest, Zenon
  <2>2. r \in Torrent /\ r \in Present /\ r \in Active
    BY <1>1, <2>1, PresentIsFinite
  <2>3. Behind(r) \subseteq D
    <3>1. ASSUME NEW u \in Behind(r), u \notin D PROVE FALSE
      <4>1. u \in R /\ u \in Present /\ Before(r, u)
        BY <3>1, Sets DEF Behind
      <4>2. QED
        BY <2>1, <2>2, <4>1, TotalOrder
    <3>2. QED
      BY <3>1
  <2>4. Cardinality(Behind(r)) <= Cardinality(D)
    <3>1. Behind(r) \in SUBSET D
      BY <2>3
    <3>2. QED
      BY <1>2, <3>1, FS_Subset, Zenon
  <2>5. ~(Cardinality(Behind(r)) < NowActive - limit)
    BY <1>5, <2>1
  <2>6. QED
    BY <1>2, <1>3, <1>4, <2>2, <2>4, <2>5, Sets
<1>7. Cardinality(R) <= limit
  <2>1. CASE R = {}
    BY <2>1, FS_EmptySet
  <2>2. QED
    BY <1>6, <2>1
<1>8. ASSUME D # {} PROVE Cardinality(R) >= limit /\ NowActive > limit
  <2>1. PICK d \in D : \A u \in D : u = d \/ Before(d, u)
    BY <1>1, <1>8, Oldest, Zenon
  <2>2. d \in Torrent /\ d \in Active
    BY <1>1, <2>1, PresentIsFinite
  <2>3. D \subseteq Behind(d) \cup {d}
    BY <1>1, <2>1 DEF Behind
  <2>4. Cardinality(D) <= Cardinality(Behind(d)) + 1
    <3>1. IsFiniteSet(Behind(d))
      BY <1>4, <2>2
    <3>2. QED
      BY <2>3, <3>1, OneMore
  <2>5. Cardinality(Behind(d)) < NowActive - limit
    BY <1>5, <2>1, <2>2
  <2>6. QED
    BY <1>2, <1>3, <1>4, <2>2, <2>4, <2>5, Sets
<1>9. QED
  BY <1>2, <1>7, <1>8

-----------------------------------------------------------------------------
(* The steps, one lemma per action                                         *)

\* The torrents that update_queue() releases and those it puts back
Up == IF max_active = 0 THEN Waiting ELSE Promoted(max_active)
Down == IF max_active = 0 THEN {} ELSE Demoted(max_active)

LEMMA Balance ==
    ASSUME TypeOK, BrakesHold, UpdateQueue
    PROVE  /\ Up \subseteq Waiting /\ Down \subseteq Active
           /\ \A t \in Up : state'[t] = Released(t)
           /\ \A t \in Down : state'[t] = "Queued"
           /\ \A t \in Torrent \ (Up \cup Down) : state'[t] = state[t]
           /\ queued' = (queued \ Up) \cup Down
           /\ state' \in [Torrent -> State]
<1>1. Waiting = {t \in Torrent : state[t] = "Queued"}
  BY DEF Waiting, BrakesHold, Present
<1>2. /\ queued' = (queued \ Up) \cup Down
      /\ state' = [t \in Torrent |-> IF t \in Up \cup Down
                                     THEN Gate(t, state[t], t \in user_paused, t \in Down)
                                     ELSE state[t]]
  BY <1>1 DEF UpdateQueue, Up, Down
<1>3. Up \subseteq Waiting /\ Down \subseteq Active
  BY DEF Promoted, Demoted, Up, Down
<1>4. ASSUME NEW t \in Up PROVE state'[t] = Released(t)
  <2>1. t \in Torrent /\ state[t] = "Queued" /\ t \notin user_paused /\ t \notin Down
    BY <1>3, <1>4 DEF Waiting, Active, HoldsSlot
  <2>2. QED
    BY <1>2, <1>4, <2>1 DEF Gate
<1>5. ASSUME NEW t \in Down PROVE state'[t] = "Queued"
  <2>1. t \in Torrent /\ state[t] \in {"Downloading", "FetchingMetadata"}
    BY <1>3, <1>5 DEF Active, HoldsSlot
  <2>2. t \notin user_paused
    BY <2>1 DEF BrakesHold, Present
  <2>3. QED
    BY <1>2, <1>5, <2>1, <2>2 DEF Gate
<1>6. \A t \in Torrent \ (Up \cup Down) : state'[t] = state[t]
  BY <1>2
<1>7. \A t \in Torrent : state'[t] \in State
  BY <1>3, <1>4, <1>5, <1>6 DEF TypeOK, State, Released
<1>8. QED
  BY <1>2, <1>3, <1>4, <1>5, <1>6, <1>7

\* Steps that leave the list of torrents alone
LEMMA SameOrder ==
    ASSUME TypeOK, UNCHANGED order, Present' = Present
    PROVE  order' \in Seq(Torrent) /\ IsInjective(order') /\ ToSet(order') = Present'
BY DEF TypeOK

\* Steps that give no torrent a slot
LEMMA LimitKept ==
    ASSUME TypeOK, LimitUntilStirred, UNCHANGED max_active, stirred' = {} => stirred = {},
           Active' \subseteq Active
    PROVE  LimitUntilStirred'
<1>1. IsFiniteSet(Active) /\ NowActive \in Nat
  BY Sets
<1>2. IsFiniteSet(Active') /\ Cardinality(Active') <= Cardinality(Active)
  BY <1>1, FS_Subset
<1>3. Cardinality(Active') \in Nat
  BY <1>2, FS_CardinalityType
<1>4. /\ NowActive' = Cardinality(Active')
      /\ NowActive = Cardinality(Active)
  BY DEF NowActive
<1>5. ASSUME stirred' = {}, max_active' > 0 PROVE NowActive' <= max_active'
  <2>1. NowActive <= max_active /\ max_active' = max_active
    BY <1>5 DEF LimitUntilStirred
  <2>2. max_active \in Nat
    BY QueueAssumption DEF TypeOK
  <2>3. QED
    BY <1>1, <1>2, <1>3, <1>4, <2>1, <2>2
<1>6. QED
  BY <1>5 DEF LimitUntilStirred

\* The peers of the torrents that a brake stops are dropped
LEMMA QuietKept ==
    ASSUME StoppedIsQuiet, DropStopped
    PROVE  StoppedIsQuiet'
<1>1. ASSUME NEW t \in connected', state'[t] \in {"Paused", "Queued"} PROVE FALSE
  <2>1. t \in connected /\ state'[t] = state[t]
    BY <1>1 DEF DropStopped
  <2>2. QED
    BY <1>1, <2>1 DEF StoppedIsQuiet
<1>2. QED
  BY <1>1 DEF StoppedIsQuiet

LEMMA InitInv == Init => QueueInvariant
<1> SUFFICES ASSUME Init PROVE QueueInvariant
  OBVIOUS
<1>1. Present = {} /\ Active = {} /\ Waiting = {}
  BY DEF Init, Present, Active, HoldsSlot, Waiting
<1>2. order \in Seq(Torrent) /\ IsInjective(order) /\ ToSet(order) = Present
  BY <1>1 DEF Init, IsInjective, ToSet
<1>3. TypeOK
  BY <1>1, <1>2 DEF Init, TypeOK, State
<1>4. BrakesHold /\ ShowsWhatItHas /\ StoppedIsQuiet
  BY <1>1 DEF Init, BrakesHold, ShowsWhatItHas, StoppedIsQuiet
<1>5. LimitUntilStirred /\ NoIdleSlot
  <2>1. NowActive = 0
    BY <1>1, FS_EmptySet DEF NowActive
  <2>2. max_active \in Nat
    BY QueueAssumption DEF Init
  <2>3. QED
    BY <1>1, <2>1, <2>2 DEF LimitUntilStirred, NoIdleSlot
<1>6. QED
  BY <1>3, <1>4, <1>5 DEF QueueInvariant

LEMMA AddStep == ASSUME QueueInvariant, NEW t \in Torrent, Add(t) PROVE QueueInvariant'
<1> USE DEF QueueInvariant
<1>1. PICK s \in {"FetchingMetadata", "Checking", "Failed"} :
        /\ state' = [state EXCEPT ![t] = s]
        /\ meta_complete' = IF s = "FetchingMetadata" THEN meta_complete
                            ELSE meta_complete \cup {t}
  BY DEF Add
<1>2. t \notin Present /\ Present' = Present \cup {t}
  BY <1>1 DEF Add, Present, TypeOK
<1>3. order' \in Seq(Torrent) /\ IsInjective(order') /\ ToSet(order') = Present'
  <2>1. order \in Seq(Torrent) /\ order' = Append(order, t) /\ Len(order) \in Nat
    BY LenProperties DEF TypeOK, Add
  <2>2. /\ order' \in Seq(Torrent) /\ Len(order') = Len(order) + 1
        /\ \A i \in 1 .. Len(order) : order'[i] = order[i]
        /\ order'[Len(order) + 1] = t
    BY <2>1, AppendProperties
  <2>3. DOMAIN order = 1 .. Len(order) /\ DOMAIN order' = 1 .. Len(order) + 1
    BY <2>1, <2>2, LenProperties
  <2>4. \A i \in 1 .. Len(order) : order[i] \in Present
    BY <2>3 DEF TypeOK, ToSet
  <2>5. \A i, j \in 1 .. Len(order) : order[i] = order[j] => i = j
    BY <2>3 DEF TypeOK, IsInjective
  <2>6. IsInjective(order')
    <3>1. ASSUME NEW i \in DOMAIN order', NEW j \in DOMAIN order', order'[i] = order'[j]
          PROVE  i = j
      <4>1. CASE i \in 1 .. Len(order) /\ j \in 1 .. Len(order)
        BY <2>2, <2>5, <3>1, <4>1
      <4>2. CASE i = Len(order) + 1 /\ j = Len(order) + 1
        BY <4>2
      <4>3. ASSUME NEW k \in 1 .. Len(order) PROVE order'[k] # order'[Len(order) + 1]
        BY <1>2, <2>2, <2>4
      <4>4. QED
        BY <2>1, <2>3, <3>1, <4>1, <4>2, <4>3
    <3>2. QED
      BY <3>1 DEF IsInjective
  <2>7. ToSet(order') = Present'
    <3>1. ToSet(order) = Present
      BY DEF TypeOK
    <3>2. \A p : p \in ToSet(order') <=> p \in ToSet(order) \/ p = t
      <4>1. \A p : p \in ToSet(order') <=> \E i \in 1 .. Len(order) + 1 : p = order'[i]
        BY <2>3 DEF ToSet
      <4>2. \A p : p \in ToSet(order) <=> \E i \in 1 .. Len(order) : p = order[i]
        BY <2>3 DEF ToSet
      <4>3. QED
        BY <2>1, <2>2, <4>1, <4>2
    <3>3. QED
      BY <1>2, <3>1, <3>2
  <2>8. QED
    BY <2>2, <2>6, <2>7
<1>4. TypeOK'
  BY <1>1, <1>2, <1>3 DEF TypeOK, Add, State, brakes
<1>5. BrakesHold' /\ ShowsWhatItHas' /\ StoppedIsQuiet'
  BY <1>1, <1>2 DEF TypeOK, BrakesHold, ShowsWhatItHas, StoppedIsQuiet, Add, brakes
<1>6. stirred' # {}
  BY DEF Add
<1>7. QED
  BY <1>4, <1>5, <1>6 DEF LimitUntilStirred, NoIdleSlot

LEMMA SetPausedStep ==
    ASSUME QueueInvariant, NEW t \in Torrent, NEW paused \in BOOLEAN, SetPaused(t, paused)
    PROVE  QueueInvariant'
<1> USE DEF QueueInvariant
<1> DEFINE s == Gate(t, state[t], paused, t \in queued)
<1>1. t \in Present /\ state' = [state EXCEPT ![t] = s]
  BY DEF SetPaused
<1>2. /\ s \in State \ {"Absent"}
      /\ state[t] = "Failed" => s = "Failed"
      /\ state[t] # "Failed" => s # "Failed"
  BY <1>1 DEF Gate, Released, TypeOK, State, Present
<1>3. state[t] # "Failed" =>
        /\ paused => s = "Paused"
        /\ ~paused /\ t \in queued => s = "Queued"
        /\ ~paused /\ t \notin queued => s \notin {"Queued", "Paused"}
  BY <1>1 DEF Gate, Released, BrakesHold, Present
<1>4. ~HoldsSlot(state[t]) /\ HoldsSlot(s) => ~paused
  BY DEF HoldsSlot, Gate
<1>5. Present' = Present
  BY <1>1, <1>2 DEF Present, TypeOK
<1>6. ShowsWhatItHas'
  <2>1. /\ s = "FetchingMetadata" => t \notin meta_complete
        /\ s = "Checking" => t \in meta_complete \ checked
        /\ s = "Downloading" => t \in checked \ complete
        /\ s = "Seeding" => t \in complete
    BY <1>1 DEF Gate, Released, ShowsWhatItHas, TypeOK
  <2>2. QED
    BY <1>1, <1>5, <2>1 DEF ShowsWhatItHas, SetPaused, data, Present, TypeOK
<1> HIDE DEF s
<1>7. TypeOK'
  <2>1. order' \in Seq(Torrent) /\ IsInjective(order') /\ ToSet(order') = Present'
    BY <1>5, SameOrder DEF SetPaused
  <2>2. QED
    BY <1>1, <1>2, <1>5, <2>1 DEF TypeOK, SetPaused, State, data, DropStopped
<1>8. BrakesHold'
  BY <1>1, <1>2, <1>3, <1>5 DEF BrakesHold, SetPaused, TypeOK, Present
<1>9. StoppedIsQuiet'
  BY QuietKept DEF SetPaused
<1>10. LimitUntilStirred'
  <2>1. CASE paused
    <3>1. Active' \subseteq Active
      BY <1>1, <1>4, <2>1 DEF Active, TypeOK
    <3>2. QED
      BY <2>1, <3>1, LimitKept DEF SetPaused
  <2>2. CASE ~paused
    BY <2>2 DEF SetPaused, LimitUntilStirred
  <2>3. QED
    BY <2>1, <2>2
<1>11. NoIdleSlot'
  BY DEF SetPaused, Command, NoIdleSlot
<1>12. QED
  BY <1>6, <1>7, <1>8, <1>9, <1>10, <1>11

LEMMA RemoveStep ==
    ASSUME QueueInvariant, NEW t \in Torrent, RemoveTorrent(t)
    PROVE  QueueInvariant'
<1> USE DEF QueueInvariant
<1>1. t \in Present /\ state' = [state EXCEPT ![t] = "Absent"]
  BY DEF RemoveTorrent
<1>2. Present' = Present \ {t}
  BY <1>1 DEF Present, TypeOK
<1>3. order' \in Seq(Torrent) /\ IsInjective(order') /\ ToSet(order') = Present'
  <2>1. PICK i \in DOMAIN order : order[i] = t /\ order' = RemoveAt(order, i)
    BY DEF RemoveTorrent
  <2>2. order \in Seq(Torrent) /\ Len(order) \in Nat /\ DOMAIN order = 1 .. Len(order)
    BY LenProperties DEF TypeOK
  <2>3. \A k \in 1 .. Len(order) : order[k] \in Torrent
    BY <2>2, ElementOfSeq
  <2> DEFINE a == SubSeq(order, 1, i - 1)
  <2> DEFINE b == SubSeq(order, i + 1, Len(order))
  <2>4. /\ a \in Seq(Torrent) /\ Len(a) = i - 1
        /\ \A k \in 1 .. i - 1 : a[k] = order[k]
    <3>1. \A k \in 1 .. i - 1 : order[k] \in Torrent
      BY <2>2, <2>3
    <3>2. /\ a \in Seq(Torrent)
          /\ Len(a) = IF 1 <= i - 1 THEN i - 1 - 1 + 1 ELSE 0
          /\ \A k \in 1 .. i - 1 - 1 + 1 : a[k] = order[1 + k - 1]
      BY <2>2, <3>1, SubSeqProperties
    <3>3. QED
      BY <2>2, <3>2
  <2>5. /\ b \in Seq(Torrent) /\ Len(b) = Len(order) - i
        /\ \A k \in 1 .. Len(order) - i : b[k] = order[i + k]
    <3>1. \A k \in i + 1 .. Len(order) : order[k] \in Torrent
      BY <2>2, <2>3
    <3>2. /\ b \in Seq(Torrent)
          /\ Len(b) = IF i + 1 <= Len(order) THEN Len(order) - (i + 1) + 1 ELSE 0
          /\ \A k \in 1 .. Len(order) - (i + 1) + 1 : b[k] = order[i + 1 + k - 1]
      BY <2>2, <3>1, SubSeqProperties
    <3>3. QED
      BY <2>2, <3>2
  <2> HIDE DEF a, b
  <2>6. order' = a \o b
    BY <2>1 DEF RemoveAt, a, b
  <2>7. /\ order' \in Seq(Torrent) /\ Len(order') = Len(order) - 1
        /\ \A k \in 1 .. Len(order) - 1 :
             order'[k] = IF k < i THEN order[k] ELSE order[k + 1]
    <3>1. /\ a \o b \in Seq(Torrent) /\ Len(a \o b) = Len(a) + Len(b)
          /\ \A k \in 1 .. Len(a) + Len(b) :
               (a \o b)[k] = IF k <= Len(a) THEN a[k] ELSE b[k - Len(a)]
      BY <2>4, <2>5, ConcatProperties
    <3>2. ASSUME NEW k \in 1 .. Len(order) - 1
          PROVE  order'[k] = IF k < i THEN order[k] ELSE order[k + 1]
      <4>1. k \in 1 .. Len(a) + Len(b)
        BY <2>2, <2>4, <2>5
      <4>2. order'[k] = IF k <= Len(a) THEN a[k] ELSE b[k - Len(a)]
        BY <2>6, <3>1, <4>1
      <4>3. CASE k < i
        BY <2>2, <2>4, <4>2, <4>3
      <4>4. CASE ~(k < i)
        <5>1. k - Len(a) \in 1 .. Len(order) - i /\ i + (k - Len(a)) = k + 1
          BY <2>2, <2>4, <4>4
        <5>2. ~(k <= Len(a))
          BY <2>2, <2>4, <4>4
        <5>3. QED
          BY <2>5, <4>2, <4>4, <5>1, <5>2
      <4>5. QED
        BY <4>3, <4>4
    <3>3. QED
      BY <2>2, <2>4, <2>5, <2>6, <3>1, <3>2
  <2>8. DOMAIN order' = 1 .. Len(order) - 1
    BY <2>7, LenProperties
  <2>9. \A k, l \in 1 .. Len(order) : order[k] = order[l] => k = l
    BY <2>2 DEF TypeOK, IsInjective
  <2>10. IsInjective(order')
    <3>1. ASSUME NEW k \in DOMAIN order', NEW l \in DOMAIN order', order'[k] = order'[l]
          PROVE  k = l
      BY <2>2, <2>7, <2>8, <2>9, <3>1
    <3>2. QED
      BY <3>1 DEF IsInjective
  <2>11. ToSet(order') = Present'
    <3>1. ToSet(order) = Present
      BY DEF TypeOK
    <3>2. ASSUME NEW k \in 1 .. Len(order) - 1
          PROVE  order'[k] \in Present \ {t}
      <4>1. \A j \in 1 .. Len(order) : order[j] \in Present /\ (order[j] = t => j = i)
        BY <2>1, <2>2, <2>9, <3>1 DEF ToSet
      <4>2. QED
        BY <2>2, <2>7, <4>1
    <3>3. ASSUME NEW p \in Present \ {t}
          PROVE  \E k \in 1 .. Len(order) - 1 : order'[k] = p
      <4>1. PICK j \in 1 .. Len(order) : order[j] = p
        BY <2>2, <3>1 DEF ToSet
      <4>2. CASE j < i
        BY <2>2, <2>7, <4>1, <4>2
      <4>3. CASE j > i
        <5>1. j - 1 \in 1 .. Len(order) - 1 /\ order'[j - 1] = p
          BY <2>2, <2>7, <4>1, <4>3
        <5>2. QED
          BY <5>1
      <4>4. QED
        BY <2>1, <2>2, <4>1, <4>2, <4>3
    <3>4. QED
      BY <1>2, <2>8, <3>2, <3>3 DEF ToSet
  <2>12. QED
    BY <2>7, <2>10, <2>11
<1>4. TypeOK'
  BY <1>1, <1>2, <1>3 DEF TypeOK, RemoveTorrent, State
<1>5. BrakesHold' /\ ShowsWhatItHas' /\ StoppedIsQuiet'
  BY <1>1, <1>2 DEF TypeOK, BrakesHold, ShowsWhatItHas, StoppedIsQuiet, RemoveTorrent, Present
<1>6. LimitUntilStirred'
  <2>1. Active' \subseteq Active
    BY <1>1 DEF Active, TypeOK, HoldsSlot
  <2>2. QED
    BY <2>1, LimitKept DEF RemoveTorrent
<1>7. NoIdleSlot'
  BY DEF RemoveTorrent, Command, NoIdleSlot
<1>8. QED
  BY <1>4, <1>5, <1>6, <1>7

LEMMA SetMaxActiveStep ==
    ASSUME QueueInvariant, NEW n \in Limits, SetMaxActive(n)
    PROVE  QueueInvariant'
<1> USE DEF QueueInvariant
<1>1. Present' = Present /\ stirred' # {} /\ max_active' = n
      /\ UNCHANGED <<order, state, brakes, data, connected, phase, revived>>
  BY DEF SetMaxActive, Present
<1>2. TypeOK'
  BY <1>1 DEF TypeOK, brakes, data
<1>3. BrakesHold' /\ ShowsWhatItHas' /\ StoppedIsQuiet'
  BY <1>1 DEF BrakesHold, ShowsWhatItHas, StoppedIsQuiet, brakes, data
<1>4. LimitUntilStirred' /\ NoIdleSlot'
  BY <1>1 DEF LimitUntilStirred, NoIdleSlot
<1>5. QED
  BY <1>2, <1>3, <1>4

LEMMA UpdateQueueStep == ASSUME QueueInvariant, UpdateQueue PROVE QueueInvariant'
<1> USE DEF QueueInvariant
<1>1. /\ Up \subseteq Waiting /\ Down \subseteq Active
      /\ \A t \in Up : state'[t] = Released(t)
      /\ \A t \in Down : state'[t] = "Queued"
      /\ \A t \in Torrent \ (Up \cup Down) : state'[t] = state[t]
      /\ queued' = (queued \ Up) \cup Down
      /\ state' \in [Torrent -> State]
  BY Balance
<1>2. /\ phase' = "checks" /\ stirred' = {}
      /\ UNCHANGED <<order, user_paused, meta_complete, checked, complete, max_active, revived>>
      /\ DropStopped
  BY DEF UpdateQueue, data
<1>3. \A t \in Torrent : Released(t) \in {"FetchingMetadata", "Checking", "Seeding", "Downloading"}
  BY DEF Released
<1>4. Present' = Present
  <2>1. \A t \in Up \cup Down : state[t] # "Absent" /\ state'[t] # "Absent" /\ t \in Torrent
    BY <1>1, <1>3 DEF Waiting, Active, HoldsSlot
  <2>2. QED
    BY <1>1, <2>1 DEF Present
<1>5. TypeOK'
  <2>1. order' \in Seq(Torrent) /\ IsInjective(order') /\ ToSet(order') = Present'
    BY <1>2, <1>4, SameOrder
  <2>2. Down \subseteq Present
    BY <1>1, Sets
  <2>3. QED
    BY <1>1, <1>2, <1>4, <2>1, <2>2 DEF TypeOK, DropStopped
<1>6. BrakesHold'
  <2>1. ASSUME NEW t \in Present
        PROVE  /\ state'[t] = "Paused" => t \in user_paused
               /\ state'[t] = "Queued" => t \in queued' \ user_paused
               /\ t \in user_paused =>
                     state'[t] \in {"Paused", "Failed"} \/ (t \in revived /\ state'[t] = "Seeding")
               /\ t \in queued' => state'[t] \in {"Queued", "Paused"}
    <3>1. t \in Torrent
      BY DEF Present
    <3>2. CASE t \in Up
      <4>1. t \notin Down /\ t \notin user_paused /\ t \notin queued'
        BY <1>1, <3>2 DEF Waiting, Active, HoldsSlot
      <4>2. QED
        BY <1>1, <1>3, <3>1, <3>2, <4>1
    <3>3. CASE t \in Down
      <4>1. t \notin user_paused /\ t \in queued'
        BY <1>1, <3>3 DEF Active, HoldsSlot, BrakesHold
      <4>2. QED
        BY <1>1, <3>3, <4>1
    <3>4. CASE t \notin Up /\ t \notin Down
      BY <1>1, <3>1, <3>4 DEF BrakesHold
    <3>5. QED
      BY <3>2, <3>3, <3>4
  <2>2. QED
    BY <1>2, <1>4, <2>1 DEF BrakesHold
<1>7. ShowsWhatItHas'
  <2>1. ASSUME NEW t \in Present
        PROVE  /\ state'[t] = "FetchingMetadata" => t \notin meta_complete
               /\ state'[t] = "Checking" => t \in meta_complete \ checked
               /\ state'[t] = "Downloading" => t \in checked \ complete
               /\ state'[t] = "Seeding" => t \in complete
    <3>1. t \in Torrent
      BY DEF Present
    <3>2. CASE t \in Up
      BY <1>1, <3>2 DEF Released
    <3>3. CASE t \in Down
      BY <1>1, <3>3
    <3>4. CASE t \notin Up /\ t \notin Down
      BY <1>1, <3>1, <3>4 DEF ShowsWhatItHas
    <3>5. QED
      BY <3>2, <3>3, <3>4
  <2>2. QED
    BY <1>2, <1>4, <2>1 DEF ShowsWhatItHas
<1>8. StoppedIsQuiet'
  BY <1>2, QuietKept
<1> DEFINE P == {t \in Up : HoldsSlot(Released(t))}
<1>9. Active' = (Active \ Down) \cup P
  <2>1. ASSUME NEW t \in Torrent
        PROVE  HoldsSlot(state'[t]) <=> t \in (Active \ Down) \cup P
    <3>1. CASE t \in Up
      BY <1>1, <3>1 DEF Waiting, Active, HoldsSlot
    <3>2. CASE t \in Down
      <4>1. t \notin Up
        BY <1>1, <3>2 DEF Waiting, Active, HoldsSlot
      <4>2. QED
        BY <1>1, <3>2, <4>1 DEF HoldsSlot
    <3>3. CASE t \notin Up /\ t \notin Down
      BY <1>1, <3>3 DEF Active
    <3>4. QED
      BY <3>1, <3>2, <3>3
  <2>2. P \subseteq Torrent
    BY <1>1 DEF Waiting
  <2>3. QED
    BY <2>1, <2>2 DEF Active
<1>10. Waiting' = (Waiting \ Up) \cup Down
  <2>1. ASSUME NEW t \in Torrent
        PROVE  state'[t] = "Queued" /\ t \notin user_paused <=> t \in (Waiting \ Up) \cup Down
    <3>1. CASE t \in Up
      <4>1. t \notin Down
        BY <1>1, <3>1 DEF Waiting, Active, HoldsSlot
      <4>2. QED
        BY <1>1, <1>3, <3>1, <4>1
    <3>2. CASE t \in Down
      <4>1. t \notin user_paused
        BY <1>1, <3>2 DEF Active, HoldsSlot, BrakesHold, Present
      <4>2. QED
        BY <1>1, <3>2, <4>1
    <3>3. CASE t \notin Up /\ t \notin Down
      BY <1>1, <3>3 DEF Waiting
    <3>4. QED
      BY <3>1, <3>2, <3>3
  <2>2. Down \subseteq Torrent
    BY <1>1 DEF Active
  <2>3. QED
    BY <1>2, <2>1, <2>2 DEF Waiting
<1>11. max_active \in Nat
  BY QueueAssumption DEF TypeOK
<1>12. max_active > 0 =>
         /\ Cardinality(Active') <= max_active
         /\ (Waiting \ Up) \cup Down # {} => Cardinality(Active') >= max_active
  <2> SUFFICES ASSUME max_active > 0
      PROVE  /\ Cardinality(Active') <= max_active
             /\ (Waiting \ Up) \cup Down # {} => Cardinality(Active') >= max_active
    OBVIOUS
  <2>1. Up = Promoted(max_active) /\ Down = Demoted(max_active) /\ P = Served(max_active)
    BY <1>11 DEF Up, Down, Served
  <2> DEFINE R == Active \ Down
  <2> HIDE DEF P, R
  <2>2. /\ IsFiniteSet(P) /\ Cardinality(P) \in Nat
        /\ P # {} => NowActive + Cardinality(P) <= max_active
        /\ Waiting \ Up # {} => NowActive + Cardinality(P) >= max_active
    BY <1>11, <2>1, Promotion
  <2>3. /\ IsFiniteSet(R) /\ Cardinality(R) \in Nat /\ Cardinality(R) <= max_active
        /\ Down # {} => Cardinality(R) = max_active /\ NowActive > max_active
    BY <1>11, <2>1, Demotion DEF R
  <2>4. R \cap P = {} /\ Active' = R \cup P
    BY <1>1, <1>9, Sets DEF R, P
  <2>5. Cardinality(Active') = Cardinality(R) + Cardinality(P)
    <3>1. Cardinality(R \cup P) = Cardinality(R) + Cardinality(P) - Cardinality(R \cap P)
      BY <2>2, <2>3, FS_Union
    <3>2. Cardinality(R \cap P) = 0
      BY <2>4, FS_EmptySet
    <3>3. QED
      BY <2>2, <2>3, <2>4, <3>1, <3>2
  <2>6. NowActive \in Nat /\ (Down = {} => Cardinality(R) = NowActive)
    BY Sets DEF R, NowActive
  <2>7. P = {} => Cardinality(P) = 0
    BY FS_EmptySet
  <2>8. CASE Down = {}
    BY <1>11, <2>2, <2>3, <2>5, <2>6, <2>7, <2>8
  <2>9. CASE Down # {}
    <3>1. P = {}
      BY <1>11, <2>2, <2>3, <2>6, <2>9
    <3>2. QED
      BY <1>11, <2>3, <2>5, <2>7, <2>9, <3>1
  <2>10. QED
    BY <2>8, <2>9
<1>13. max_active = 0 => Waiting' = {}
  BY <1>10 DEF Up, Down
<1>14. NowActive' = Cardinality(Active')
  BY DEF NowActive
<1>15. LimitUntilStirred'
  BY <1>2, <1>12, <1>14 DEF LimitUntilStirred
<1>16. NoIdleSlot'
  BY <1>2, <1>10, <1>11, <1>12, <1>13, <1>14 DEF NoIdleSlot
<1>17. QED
  BY <1>5, <1>6, <1>7, <1>8, <1>15, <1>16

LEMMA RunChecksStep ==
    ASSUME QueueInvariant, NEW D \in SUBSET Torrent, RunChecks(D)
    PROVE  QueueInvariant'
<1> USE DEF QueueInvariant
<1> DEFINE due == {t \in Torrent : state[t] = "Checking"}
<1>1. /\ D \subseteq due /\ checked' = checked \cup due /\ complete' = complete \cup D
      /\ UNCHANGED <<order, user_paused, queued, meta_complete, max_active, revived>>
      /\ DropStopped /\ phase' = "ticks"
      /\ stirred' = IF due \ D = {} THEN stirred ELSE stirred \cup {"check"}
  BY DEF RunChecks, brakes
<1>2. /\ state' \in [Torrent -> State]
      /\ \A t \in due : state'[t] = IF t \in D THEN "Seeding" ELSE "Downloading"
      /\ \A t \in Torrent \ due : state'[t] = state[t]
  <2>1. \A t \in due : t \notin user_paused /\ t \notin queued /\ t \notin complete
    BY DEF BrakesHold, Present, ShowsWhatItHas, TypeOK
  <2>2. state' = [t \in Torrent |->
                    IF t \in due
                    THEN Gate(t, IF t \in complete \cup D THEN "Seeding" ELSE "Downloading",
                              t \in user_paused, t \in queued)
                    ELSE state[t]]
    BY DEF RunChecks
  <2>3. \A t \in due : state'[t] = IF t \in D THEN "Seeding" ELSE "Downloading"
    BY <2>1, <2>2 DEF Gate
  <2>4. QED
    BY <2>2, <2>3 DEF TypeOK, State
<1>3. Present' = Present
  BY <1>2 DEF Present
<1>4. \A t \in due : /\ t \in meta_complete \ checked /\ t \notin complete
                     /\ t \notin user_paused /\ t \notin queued
  BY DEF ShowsWhatItHas, BrakesHold, Present, TypeOK
<1>5. TypeOK'
  <2>1. order' \in Seq(Torrent) /\ IsInjective(order') /\ ToSet(order') = Present'
    BY <1>1, <1>3, SameOrder
  <2>2. QED
    BY <1>1, <1>2, <1>3, <1>4, <2>1 DEF TypeOK, DropStopped
<1>6. BrakesHold'
  BY <1>1, <1>2, <1>3, <1>4 DEF BrakesHold, Present
<1>7. ShowsWhatItHas'
  BY <1>1, <1>2, <1>3, <1>4 DEF ShowsWhatItHas, Present
<1>8. StoppedIsQuiet'
  BY <1>1, QuietKept
<1>9. LimitUntilStirred'
  <2>1. CASE due \ D = {}
    <3>1. Active' \subseteq Active
      BY <1>1, <1>2, <2>1 DEF Active, HoldsSlot
    <3>2. QED
      BY <1>1, <2>1, <3>1, LimitKept
  <2>2. CASE due \ D # {}
    BY <1>1, <2>2 DEF LimitUntilStirred
  <2>3. QED
    BY <2>1, <2>2
<1>10. NoIdleSlot'
  BY <1>1 DEF NoIdleSlot
<1>11. QED
  BY <1>5, <1>6, <1>7, <1>8, <1>9, <1>10

\* A tick changes the state of one torrent, which no brake holds, or which failed
LEMMA TickStep ==
    ASSUME QueueInvariant, NEW t \in Torrent,
           FinishMetadata(t) \/ LastPiece(t) \/ WriteError(t)
    PROVE  QueueInvariant'
<1> USE DEF QueueInvariant
<1>1. t \in Present /\ t \notin queued /\ state[t] \notin {"Absent", "Paused", "Queued"}
  BY DEF FinishMetadata, LastPiece, WriteError, MayFinish, BrakesHold, Present
<1>2. PICK s \in {"Failed", "Checking", "Seeding"} :
        /\ state' = [state EXCEPT ![t] = s]
        /\ s = "Checking" => FinishMetadata(t)
        /\ s = "Seeding" => LastPiece(t)
  <2>1. CASE FinishMetadata(t)
    <3>1. t \notin user_paused
      BY <1>1, <2>1 DEF FinishMetadata, BrakesHold
    <3>2. QED
      BY <1>1, <2>1, <3>1 DEF FinishMetadata, Gate
  <2>2. CASE LastPiece(t)
    BY <2>2 DEF LastPiece
  <2>3. CASE WriteError(t)
    BY <2>3 DEF WriteError
  <2>4. QED
    BY <2>1, <2>2, <2>3
<1>3. /\ UNCHANGED <<order, user_paused, queued, max_active, stirred>>
      /\ phase' = "ticks" /\ connected' \subseteq connected
  BY DEF FinishMetadata, LastPiece, WriteError, brakes, data, DropStopped
<1>4. Present' = Present
  BY <1>1, <1>2 DEF Present, TypeOK
<1>5. /\ meta_complete' = IF FinishMetadata(t) THEN meta_complete \cup {t} ELSE meta_complete
      /\ checked' = IF FinishMetadata(t) THEN checked \ {t} ELSE checked
      /\ complete' = complete \/ (complete' = complete \cup {t} /\ t \in checked)
      /\ FinishMetadata(t) => complete' = complete /\ state[t] = "FetchingMetadata"
      /\ LastPiece(t) => t \in complete' /\ state[t] \in {"Downloading", "Failed"}
      /\ WriteError(t) => s = "Failed"
      /\ revived \subseteq revived' /\ revived' \subseteq revived \cup {t}
      /\ LastPiece(t) /\ state[t] = "Failed" => t \in revived'
  <2>1. CASE FinishMetadata(t)
    <3>1. ~LastPiece(t) /\ ~WriteError(t)
      BY <2>1 DEF FinishMetadata, LastPiece, WriteError, MayFinish, ShowsWhatItHas, Present
    <3>2. QED
      BY <2>1, <3>1 DEF FinishMetadata
  <2>2. CASE LastPiece(t)
    <3>1. ~FinishMetadata(t) /\ t \in complete' /\ state'[t] = "Seeding"
      BY <1>1, <2>2 DEF FinishMetadata, LastPiece, MayFinish, TypeOK
    <3>2. ~WriteError(t)
      BY <1>1, <3>1 DEF WriteError, TypeOK
    <3>3. QED
      BY <2>2, <3>1, <3>2 DEF LastPiece, MayFinish
  <2>3. CASE WriteError(t)
    <3>1. ~FinishMetadata(t) /\ ~LastPiece(t)
      BY <1>1, <2>3 DEF FinishMetadata, LastPiece, WriteError, TypeOK
    <3>2. s = "Failed"
      BY <1>1, <1>2, <2>3 DEF WriteError, TypeOK
    <3>3. QED
      BY <2>3, <3>1, <3>2 DEF WriteError, MayFinish, data
  <2>4. QED
    BY <2>1, <2>2, <2>3
<1>6. /\ s = "Checking" => t \in meta_complete' /\ t \notin checked'
      /\ s = "Seeding" => t \in complete'
      /\ FinishMetadata(t) => t \notin meta_complete /\ t \notin checked /\ t \notin user_paused
      /\ t \in user_paused /\ s = "Seeding" => t \in revived'
      /\ s # "Checking" \/ t \notin user_paused
  BY <1>1, <1>2, <1>5 DEF ShowsWhatItHas, BrakesHold, TypeOK
<1>7. TypeOK'
  <2>1. order' \in Seq(Torrent) /\ IsInjective(order') /\ ToSet(order') = Present'
    BY <1>3, <1>4, SameOrder
  <2>2. complete' \subseteq checked' /\ checked' \subseteq meta_complete'
        /\ meta_complete' \cup revived' \subseteq Present
    BY <1>1, <1>5, <1>6 DEF TypeOK
  <2>3. QED
    BY <1>2, <1>3, <1>4, <2>1, <2>2 DEF TypeOK, State
<1>8. BrakesHold'
  <2>1. ASSUME NEW u \in Present
        PROVE  /\ state'[u] = "Paused" => u \in user_paused
               /\ state'[u] = "Queued" => u \in queued \ user_paused
               /\ u \in user_paused =>
                     state'[u] \in {"Paused", "Failed"} \/ (u \in revived' /\ state'[u] = "Seeding")
               /\ u \in queued => state'[u] \in {"Queued", "Paused"}
    <3>1. CASE u = t
      BY <1>1, <1>2, <1>6, <3>1 DEF TypeOK
    <3>2. CASE u # t
      <4>1. state'[u] = state[u] /\ (u \in revived => u \in revived')
        BY <1>2, <1>5, <3>2 DEF TypeOK, Present
      <4>2. QED
        BY <4>1 DEF BrakesHold
    <3>3. QED
      BY <3>1, <3>2
  <2>2. QED
    BY <1>3, <1>4, <2>1 DEF BrakesHold
<1>9. ShowsWhatItHas'
  <2>1. ASSUME NEW u \in Present
        PROVE  /\ state'[u] = "FetchingMetadata" => u \notin meta_complete'
               /\ state'[u] = "Checking" => u \in meta_complete' \ checked'
               /\ state'[u] = "Downloading" => u \in checked' \ complete'
               /\ state'[u] = "Seeding" => u \in complete'
    <3>1. CASE u = t
      BY <1>1, <1>2, <1>6, <3>1 DEF TypeOK
    <3>2. CASE u # t
      <4>1. /\ state'[u] = state[u]
            /\ u \in meta_complete' <=> u \in meta_complete
            /\ u \in checked' <=> u \in checked
            /\ u \in complete' <=> u \in complete
        BY <1>2, <1>5, <3>2 DEF TypeOK, Present
      <4>2. QED
        BY <4>1 DEF ShowsWhatItHas
    <3>3. QED
      BY <3>1, <3>2
  <2>2. QED
    BY <1>4, <2>1 DEF ShowsWhatItHas
<1>10. StoppedIsQuiet'
  BY <1>2, <1>3 DEF StoppedIsQuiet, TypeOK
<1>11. LimitUntilStirred'
  <2>1. Active' \subseteq Active
    BY <1>2 DEF Active, HoldsSlot, TypeOK
  <2>2. QED
    BY <1>3, <2>1, LimitKept
<1>12. NoIdleSlot'
  BY <1>3 DEF NoIdleSlot
<1>13. QED
  BY <1>7, <1>8, <1>9, <1>10, <1>11, <1>12

\* The steps after which every torrent is as it was
LEMMA QuietStep ==
    ASSUME QueueInvariant, (\E t \in Torrent : Connect(t)) \/ EndTurn \/ UNCHANGED vars
    PROVE  QueueInvariant'
<1> USE DEF QueueInvariant
<1>1. /\ UNCHANGED <<order, state, user_paused, queued, meta_complete, checked, complete,
                     max_active, revived, stirred>>
      /\ phase' = phase \/ phase' = "commands"
      /\ \A t \in connected' : t \in connected \/ (t \in Torrent /\ state[t] \in
                                 {"FetchingMetadata", "Downloading", "Seeding"})
  BY DEF Connect, EndTurn, vars, brakes, data
<1>2. Present' = Present /\ Active' = Active /\ Waiting' = Waiting /\ NowActive' = NowActive
  BY <1>1 DEF Present, Active, Waiting, NowActive
<1>3. TypeOK'
  <2>1. order' \in Seq(Torrent) /\ IsInjective(order') /\ ToSet(order') = Present'
    BY <1>1, <1>2, SameOrder
  <2>2. QED
    BY <1>1, <1>2, <2>1 DEF TypeOK, Present
<1>4. BrakesHold' /\ ShowsWhatItHas' /\ StoppedIsQuiet'
  BY <1>1, <1>2 DEF BrakesHold, ShowsWhatItHas, StoppedIsQuiet
<1>5. LimitUntilStirred' /\ NoIdleSlot'
  BY <1>1, <1>2 DEF LimitUntilStirred, NoIdleSlot
<1>6. QED
  BY <1>3, <1>4, <1>5

LEMMA Step == QueueInvariant /\ [Next]_vars => QueueInvariant'
<1> SUFFICES ASSUME QueueInvariant, [Next]_vars PROVE QueueInvariant'
  OBVIOUS
<1>1. ASSUME NEW t \in Torrent, Add(t) \/ RemoveTorrent(t) PROVE QueueInvariant'
  BY <1>1, AddStep, RemoveStep
<1>2. ASSUME NEW t \in Torrent, NEW paused \in BOOLEAN, SetPaused(t, paused)
      PROVE  QueueInvariant'
  BY <1>2, SetPausedStep
<1>3. ASSUME NEW n \in Limits, SetMaxActive(n) PROVE QueueInvariant'
  BY <1>3, SetMaxActiveStep
<1>4. CASE UpdateQueue
  BY <1>4, UpdateQueueStep
<1>5. ASSUME NEW D \in SUBSET Torrent, RunChecks(D) PROVE QueueInvariant'
  BY <1>5, RunChecksStep
<1>6. ASSUME NEW t \in Torrent, FinishMetadata(t) \/ LastPiece(t) \/ WriteError(t)
      PROVE  QueueInvariant'
  BY <1>6, TickStep
<1>7. ASSUME (\E t \in Torrent : Connect(t)) \/ EndTurn \/ UNCHANGED vars
      PROVE  QueueInvariant'
  BY <1>7, QuietStep
<1>8. QED
  BY <1>1, <1>2, <1>3, <1>4, <1>5, <1>6, <1>7 DEF Next

-----------------------------------------------------------------------------
(* The theorems                                                            *)

\* The brakes hold, the limit holds until something gives a torrent a slot, and no
\* slot is left free while a torrent waits, in every state of every behaviour.
THEOREM QueueIsRight == Spec => []QueueInvariant
<1>1. Init => QueueInvariant
  BY InitInv
<1>2. QueueInvariant /\ [Next]_vars => QueueInvariant'
  BY Step
<1>3. QED
  BY <1>1, <1>2, PTL DEF Spec

\* Only update_queue() puts a running torrent back
LEMMA OnlyTheQueueStops ==
    ASSUME QueueInvariant, [Next]_vars, NEW t \in Active, state'[t] = "Queued"
    PROVE  UpdateQueue /\ t \in Down
<1> USE DEF QueueInvariant
<1>1. t \in Torrent /\ state[t] \in {"Downloading", "FetchingMetadata"}
      /\ t \notin queued /\ t \notin user_paused
  BY DEF Active, HoldsSlot, BrakesHold, Present
<1>2. ASSUME NEW u \in Torrent, Add(u) \/ RemoveTorrent(u) PROVE FALSE
  BY <1>1, <1>2 DEF Add, RemoveTorrent, TypeOK
<1>3. ASSUME NEW u \in Torrent, NEW paused \in BOOLEAN, SetPaused(u, paused) PROVE FALSE
  BY <1>1, <1>3 DEF SetPaused, TypeOK, Gate
<1>4. ASSUME NEW n \in Limits, SetMaxActive(n) PROVE FALSE
  BY <1>1, <1>4 DEF SetMaxActive
<1>5. ASSUME NEW D \in SUBSET Torrent, RunChecks(D) PROVE FALSE
  BY <1>1, <1>5 DEF RunChecks
<1>6. ASSUME NEW u \in Torrent, FinishMetadata(u) \/ LastPiece(u) \/ WriteError(u) PROVE FALSE
  BY <1>1, <1>6 DEF FinishMetadata, LastPiece, WriteError, TypeOK, Gate
<1>7. ASSUME (\E u \in Torrent : Connect(u)) \/ EndTurn \/ UNCHANGED vars PROVE FALSE
  BY <1>1, <1>7 DEF Connect, EndTurn, vars
<1>8. UpdateQueue
  BY <1>2, <1>3, <1>4, <1>5, <1>6, <1>7 DEF Next
<1>9. t \in Down
  <2>1. t \notin Up
    BY <1>1, <1>8, Balance DEF Waiting
  <2>2. QED
    BY <1>1, <1>8, <2>1, Balance
<1>10. QED
  BY <1>8, <1>9

\* A running torrent is put back in the queue only when something else has changed.
THEOREM StableQueue == Spec => StableUnlessStirred
<1>1. ASSUME QueueInvariant, [Next]_vars, NEW t \in Active, state'[t] = "Queued"
      PROVE  stirred # {}
  <2>1. t \in Down /\ TypeOK
    BY <1>1, OnlyTheQueueStops DEF QueueInvariant
  <2>2. max_active \in Nat
    BY <2>1, QueueAssumption DEF TypeOK
  <2>3. max_active > 0 /\ Demoted(max_active) # {}
    BY <2>1, <2>2 DEF Down
  <2>4. NowActive > max_active
    BY <2>1, <2>2, <2>3, Demotion
  <2>5. NowActive \in Nat
    BY Sets
  <2>6. QED
    BY <1>1, <2>2, <2>3, <2>4, <2>5 DEF QueueInvariant, LimitUntilStirred
<1>2. QueueInvariant /\ [Next]_vars =>
        [\A t \in Active : state'[t] = "Queued" => stirred # {}]_vars
  BY <1>1
<1>3. QED
  BY <1>2, QueueIsRight, PTL DEF Spec, StableUnlessStirred

\* The torrent put back in the queue is never older than one that goes on running.
THEOREM YoungestGoesBack == Spec => LatestGoesBack
<1>1. ASSUME QueueInvariant, [Next]_vars, NEW t \in Active, NEW u \in Active,
             state'[t] = "Queued", HoldsSlot(state'[u])
      PROVE  Before(u, t)
  <2>1. UpdateQueue /\ t \in Down /\ TypeOK /\ BrakesHold
    BY <1>1, OnlyTheQueueStops DEF QueueInvariant
  <2>2. u \notin Down
    BY <1>1, <2>1, Balance DEF HoldsSlot
  <2>3. Down = Demoted(max_active)
    BY <2>1 DEF Down
  <2>4. t \in Present /\ u \in Present /\ t # u
    BY <2>1, <2>2, Sets
  <2>5. /\ Cardinality(Behind(t)) < NowActive - max_active
        /\ ~(Cardinality(Behind(u)) < NowActive - max_active)
    BY <2>1, <2>2, <2>3 DEF Demoted, Behind
  <2>6. ASSUME Before(t, u) PROVE FALSE
    <3>1. Behind(u) \subseteq Behind(t)
      BY <2>1, <2>4, <2>6, TotalOrder, Sets DEF Behind
    <3>2. Behind(t) \in SUBSET Present
      BY Sets DEF Behind
    <3>3. IsFiniteSet(Behind(t))
      BY <3>2, PresentIsFinite, FS_Subset, Zenon
    <3>4. /\ Cardinality(Behind(u)) <= Cardinality(Behind(t))
          /\ IsFiniteSet(Behind(u))
      BY <3>1, <3>3, FS_Subset
    <3>5. Cardinality(Behind(u)) \in Nat /\ Cardinality(Behind(t)) \in Nat
      BY <3>3, <3>4, FS_CardinalityType
    <3>6. NowActive \in Nat /\ max_active \in Nat
      BY <2>1, Sets, QueueAssumption DEF TypeOK
    <3>7. QED
      BY <2>5, <3>4, <3>5, <3>6
  <2>7. QED
    BY <2>1, <2>4, <2>6, TotalOrder
<1>2. QueueInvariant /\ [Next]_vars =>
        [\A t, u \in Active : state'[t] = "Queued" /\ HoldsSlot(state'[u]) => Before(u, t)]_vars
  BY <1>1
<1>3. QED
  BY <1>2, QueueIsRight, PTL DEF Spec, LatestGoesBack

\* Both together: the queue is steady.
THEOREM SteadyQueue == Spec => QueueIsSteady
BY StableQueue, YoungestGoesBack DEF QueueIsSteady

=============================================================================
