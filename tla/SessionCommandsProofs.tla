----------------------- MODULE SessionCommandsProofs -----------------------
(***************************************************************************)
(* However many callers add and remove torrents, the engine ends with what *)
(* the latest orders asked for, and a torrent that is there and wanted has *)
(* the link that brings it back, unless an add and a removal crossed.      *)
(***************************************************************************)
EXTENDS SessionCommands, FiniteSetTheorems, SequenceTheorems, TLAPS

-----------------------------------------------------------------------------
(* What a queue says of a torrent                                          *)

\* The latest word of s about t is an add
EndsAdded(t, s) ==
    \E i \in DOMAIN s : s[i] = Adding(t) /\ \A j \in DOMAIN s : i < j => s[j] # Removing(t)

\* s adds t, removes it and adds it again
AddsAgain(t, s) ==
    \E i, j, k \in DOMAIN s : i < j /\ j < k /\ s[i] = Adding(t) /\ s[j] = Removing(t) /\ s[k] = Adding(t)

LEMMA Orders ==
    ASSUME NEW t \in Torrent
    PROVE  /\ Adding(t) \in Command /\ Removing(t) \in Command /\ Adding(t) # Removing(t)
           /\ Adding(t).torrent = t /\ Removing(t).torrent = t
           /\ Adding(t).type = "add" /\ Removing(t).type = "remove"
           /\ \A u \in Torrent : /\ Adding(t) # Removing(u)
                                 /\ Adding(t) = Adding(u) => t = u
                                 /\ Removing(t) = Removing(u) => t = u
  BY DEF Adding, Removing, Command

LEMMA CommandIs ==
    ASSUME NEW cmd \in Command
    PROVE  /\ cmd.torrent \in Torrent
           /\ cmd.type = "add" => cmd = Adding(cmd.torrent)
           /\ cmd.type # "add" => cmd = Removing(cmd.torrent)
           /\ cmd = Adding(cmd.torrent) \/ cmd = Removing(cmd.torrent)
  BY DEF Adding, Removing, Command

LEMMA NothingSaid ==
    ASSUME NEW t
    PROVE  /\ ~Holds(Adding(t), <<>>) /\ ~Holds(Removing(t), <<>>)
           /\ ~ThenHolds(Adding(t), Removing(t), <<>>) /\ ~ThenHolds(Removing(t), Adding(t), <<>>)
           /\ ~EndsAdded(t, <<>>) /\ ~AddsAgain(t, <<>>)
<1>1. DOMAIN <<>> = {}
  OBVIOUS
<1>2. QED
  BY <1>1 DEF Holds, ThenHolds, EndsAdded, AddsAgain

LEMMA OneMore ==
    ASSUME NEW s \in Seq(Command), NEW e \in Command
    PROVE  /\ \A x \in Command : Holds(x, Append(s, e)) <=> Holds(x, s) \/ e = x
           /\ \A x, y \in Command : ThenHolds(x, y, Append(s, e))
                                      <=> ThenHolds(x, y, s) \/ (Holds(x, s) /\ e = y)
           /\ \A t \in Torrent : EndsAdded(t, Append(s, e))
                                   <=> e = Adding(t) \/ (EndsAdded(t, s) /\ e # Removing(t))
           /\ \A t \in Torrent : AddsAgain(t, Append(s, e))
                  <=> AddsAgain(t, s) \/ (ThenHolds(Adding(t), Removing(t), s) /\ e = Adding(t))
<1> DEFINE z == Append(s, e)
           n == Len(s)
<1>1. n \in Nat /\ DOMAIN s = 1 .. n
  BY LenProperties
<1>2. z \in Seq(Command) /\ Len(z) = n + 1 /\ (\A i \in 1 .. n : z[i] = s[i]) /\ z[n + 1] = e
  BY AppendProperties
<1>3. DOMAIN z = 1 .. n + 1
  BY <1>2, LenProperties
<1> HIDE DEF z, n
<1>4. \A x \in Command : Holds(x, z) <=> Holds(x, s) \/ e = x
  BY <1>1, <1>2, <1>3 DEF Holds
<1>5. ASSUME NEW x \in Command, NEW y \in Command
      PROVE  ThenHolds(x, y, z) <=> ThenHolds(x, y, s) \/ (Holds(x, s) /\ e = y)
  <2>1. ThenHolds(x, y, z) => ThenHolds(x, y, s) \/ (Holds(x, s) /\ e = y)
    BY <1>1, <1>2, <1>3 DEF ThenHolds, Holds
  <2>2. ThenHolds(x, y, s) => ThenHolds(x, y, z)
    BY <1>1, <1>2, <1>3 DEF ThenHolds
  <2>3. Holds(x, s) /\ e = y => ThenHolds(x, y, z)
    BY <1>1, <1>2, <1>3 DEF ThenHolds, Holds
  <2>4. QED
    BY <2>1, <2>2, <2>3
<1>6. ASSUME NEW t \in Torrent
      PROVE  EndsAdded(t, z) <=> e = Adding(t) \/ (EndsAdded(t, s) /\ e # Removing(t))
  <2>1. EndsAdded(t, z) => e = Adding(t) \/ (EndsAdded(t, s) /\ e # Removing(t))
    BY <1>1, <1>2, <1>3 DEF EndsAdded
  <2>2. e = Adding(t) => EndsAdded(t, z)
    BY <1>1, <1>2, <1>3 DEF EndsAdded
  <2>3. EndsAdded(t, s) /\ e # Removing(t) => EndsAdded(t, z)
    BY <1>1, <1>2, <1>3 DEF EndsAdded
  <2>4. QED
    BY <2>1, <2>2, <2>3
<1>7. ASSUME NEW t \in Torrent
      PROVE  AddsAgain(t, z)
               <=> AddsAgain(t, s) \/ (ThenHolds(Adding(t), Removing(t), s) /\ e = Adding(t))
  <2>1. AddsAgain(t, z)
          => AddsAgain(t, s) \/ (ThenHolds(Adding(t), Removing(t), s) /\ e = Adding(t))
    BY <1>1, <1>2, <1>3 DEF AddsAgain, ThenHolds
  <2>2. AddsAgain(t, s) => AddsAgain(t, z)
    BY <1>1, <1>2, <1>3 DEF AddsAgain
  <2>3. ThenHolds(Adding(t), Removing(t), s) /\ e = Adding(t) => AddsAgain(t, z)
    BY <1>1, <1>2, <1>3 DEF AddsAgain, ThenHolds
  <2>4. QED
    BY <2>1, <2>2, <2>3
<1>8. QED
  BY <1>4, <1>5, <1>6, <1>7 DEF z

LEMMA OneLess ==
    ASSUME NEW s \in Seq(Command), s # <<>>
    PROVE  /\ \A x \in Command : Holds(x, s) <=> Holds(x, Tail(s)) \/ Head(s) = x
           /\ \A x, y \in Command : ThenHolds(x, y, s)
                                      <=> ThenHolds(x, y, Tail(s)) \/ (Head(s) = x /\ Holds(y, Tail(s)))
           /\ \A t \in Torrent : EndsAdded(t, s)
                  <=> EndsAdded(t, Tail(s)) \/ (Head(s) = Adding(t) /\ ~Holds(Removing(t), Tail(s)))
           /\ \A t \in Torrent : AddsAgain(t, s)
                  <=> AddsAgain(t, Tail(s))
                        \/ (Head(s) = Adding(t) /\ ThenHolds(Removing(t), Adding(t), Tail(s)))
<1> DEFINE z == Tail(s)
           h == Head(s)
           n == Len(s)
<1>1. n \in Nat \ {0} /\ DOMAIN s = 1 .. n
  BY LenProperties, EmptySeq
<1>2. z \in Seq(Command) /\ Len(z) = n - 1 /\ (\A i \in 1 .. n - 1 : z[i] = s[i + 1])
  BY HeadTailProperties
<1>3. DOMAIN z = 1 .. n - 1
  BY <1>2, LenProperties
<1>4. h = s[1]
  OBVIOUS
<1> HIDE DEF z, n, h
<1>5. \A i \in 2 .. n : i - 1 \in 1 .. n - 1 /\ z[i - 1] = s[i]
  BY <1>1, <1>2
<1>6. ASSUME NEW x \in Command
      PROVE  Holds(x, s) <=> Holds(x, z) \/ h = x
  <2>1. Holds(x, s) => Holds(x, z) \/ h = x
    BY <1>1, <1>3, <1>4, <1>5 DEF Holds
  <2>2. Holds(x, z) \/ h = x => Holds(x, s)
    BY <1>1, <1>2, <1>3, <1>4 DEF Holds
  <2>3. QED
    BY <2>1, <2>2
<1>7. ASSUME NEW x \in Command, NEW y \in Command
      PROVE  ThenHolds(x, y, s) <=> ThenHolds(x, y, z) \/ (h = x /\ Holds(y, z))
  <2>1. ASSUME NEW i \in DOMAIN s, NEW j \in DOMAIN s, i < j, s[i] = x, s[j] = y
        PROVE  ThenHolds(x, y, z) \/ (h = x /\ Holds(y, z))
    <3>1. j - 1 \in DOMAIN z /\ z[j - 1] = y
      BY <1>1, <1>3, <1>5, <2>1
    <3>2. CASE i = 1
      BY <1>4, <2>1, <3>1, <3>2 DEF Holds
    <3>3. CASE i # 1
      <4>1. i - 1 \in DOMAIN z /\ z[i - 1] = x /\ i - 1 < j - 1
        BY <1>1, <1>3, <1>5, <2>1, <3>3
      <4>2. QED
        BY <3>1, <4>1 DEF ThenHolds
    <3>4. QED
      BY <3>2, <3>3
  <2>2. ASSUME NEW i \in DOMAIN z, NEW j \in DOMAIN z, i < j, z[i] = x, z[j] = y
        PROVE  ThenHolds(x, y, s)
    <3>1. i + 1 \in DOMAIN s /\ j + 1 \in DOMAIN s /\ i + 1 < j + 1 /\ s[i + 1] = x /\ s[j + 1] = y
      BY <1>1, <1>2, <1>3, <2>2
    <3>2. QED
      BY <3>1 DEF ThenHolds
  <2>3. ASSUME h = x, NEW j \in DOMAIN z, z[j] = y
        PROVE  ThenHolds(x, y, s)
    <3>1. 1 \in DOMAIN s /\ j + 1 \in DOMAIN s /\ 1 < j + 1 /\ s[1] = x /\ s[j + 1] = y
      BY <1>1, <1>2, <1>3, <1>4, <2>3
    <3>2. QED
      BY <3>1 DEF ThenHolds
  <2>4. QED
    BY <2>1, <2>2, <2>3 DEF ThenHolds, Holds
<1>8. ASSUME NEW t \in Torrent
      PROVE  EndsAdded(t, s) <=> EndsAdded(t, z) \/ (h = Adding(t) /\ ~Holds(Removing(t), z))
  <2>1. ASSUME NEW i \in DOMAIN s, s[i] = Adding(t), \A j \in DOMAIN s : i < j => s[j] # Removing(t)
        PROVE  EndsAdded(t, z) \/ (h = Adding(t) /\ ~Holds(Removing(t), z))
    <3>1. CASE i = 1
      BY <1>1, <1>2, <1>3, <1>4, <2>1, <3>1 DEF Holds
    <3>2. CASE i # 1
      <4>1. i - 1 \in DOMAIN z /\ z[i - 1] = Adding(t)
        BY <1>1, <1>3, <1>5, <2>1, <3>2
      <4>2. ASSUME NEW j \in DOMAIN z, i - 1 < j
            PROVE  z[j] # Removing(t)
        <5>1. j + 1 \in DOMAIN s /\ i < j + 1 /\ z[j] = s[j + 1]
          BY <1>1, <1>2, <1>3, <4>2
        <5>2. QED
          BY <2>1, <5>1
      <4>3. QED
        BY <4>1, <4>2 DEF EndsAdded
    <3>3. QED
      BY <3>1, <3>2
  <2>2. ASSUME NEW i \in DOMAIN z, z[i] = Adding(t), \A j \in DOMAIN z : i < j => z[j] # Removing(t)
        PROVE  EndsAdded(t, s)
    <3>1. i + 1 \in DOMAIN s /\ s[i + 1] = Adding(t)
      BY <1>1, <1>2, <1>3, <2>2
    <3>2. \A j \in DOMAIN s : i + 1 < j => s[j] # Removing(t)
      BY <1>1, <1>3, <1>5, <2>2
    <3>3. QED
      BY <3>1, <3>2 DEF EndsAdded
  <2>3. ASSUME h = Adding(t), ~Holds(Removing(t), z)
        PROVE  EndsAdded(t, s)
    <3>1. 1 \in DOMAIN s /\ s[1] = Adding(t)
      BY <1>1, <1>4, <2>3
    <3>2. \A j \in DOMAIN s : 1 < j => s[j] # Removing(t)
      BY <1>1, <1>3, <1>5, <2>3 DEF Holds
    <3>3. QED
      BY <3>1, <3>2 DEF EndsAdded
  <2>4. QED
    BY <2>1, <2>2, <2>3 DEF EndsAdded
<1>9. ASSUME NEW t \in Torrent
      PROVE  AddsAgain(t, s)
               <=> AddsAgain(t, z) \/ (h = Adding(t) /\ ThenHolds(Removing(t), Adding(t), z))
  <2>1. ASSUME NEW i \in DOMAIN s, NEW j \in DOMAIN s, NEW k \in DOMAIN s, i < j, j < k,
               s[i] = Adding(t), s[j] = Removing(t), s[k] = Adding(t)
        PROVE  AddsAgain(t, z) \/ (h = Adding(t) /\ ThenHolds(Removing(t), Adding(t), z))
    <3>1. /\ j - 1 \in DOMAIN z /\ z[j - 1] = Removing(t)
          /\ k - 1 \in DOMAIN z /\ z[k - 1] = Adding(t) /\ j - 1 < k - 1
      BY <1>1, <1>3, <1>5, <2>1
    <3>2. CASE i = 1
      BY <1>4, <2>1, <3>1, <3>2 DEF ThenHolds
    <3>3. CASE i # 1
      <4>1. i - 1 \in DOMAIN z /\ z[i - 1] = Adding(t) /\ i - 1 < j - 1
        BY <1>1, <1>3, <1>5, <2>1, <3>3
      <4>2. QED
        BY <3>1, <4>1 DEF AddsAgain
    <3>4. QED
      BY <3>2, <3>3
  <2>2. ASSUME NEW i \in DOMAIN z, NEW j \in DOMAIN z, NEW k \in DOMAIN z, i < j, j < k,
               z[i] = Adding(t), z[j] = Removing(t), z[k] = Adding(t)
        PROVE  AddsAgain(t, s)
    <3>1. /\ i + 1 \in DOMAIN s /\ j + 1 \in DOMAIN s /\ k + 1 \in DOMAIN s
          /\ i + 1 < j + 1 /\ j + 1 < k + 1
          /\ s[i + 1] = Adding(t) /\ s[j + 1] = Removing(t) /\ s[k + 1] = Adding(t)
      BY <1>1, <1>2, <1>3, <2>2
    <3>2. QED
      BY <3>1 DEF AddsAgain
  <2>3. ASSUME h = Adding(t), NEW j \in DOMAIN z, NEW k \in DOMAIN z, j < k,
               z[j] = Removing(t), z[k] = Adding(t)
        PROVE  AddsAgain(t, s)
    <3>1. /\ 1 \in DOMAIN s /\ j + 1 \in DOMAIN s /\ k + 1 \in DOMAIN s
          /\ 1 < j + 1 /\ j + 1 < k + 1
          /\ s[1] = Adding(t) /\ s[j + 1] = Removing(t) /\ s[k + 1] = Adding(t)
      BY <1>1, <1>2, <1>3, <1>4, <2>3
    <3>2. QED
      BY <3>1 DEF AddsAgain
  <2>4. QED
    BY <2>1, <2>2, <2>3 DEF AddsAgain, ThenHolds
<1>10. QED
  BY <1>6, <1>7, <1>8, <1>9 DEF z, h

LEMMA Reading ==
    ASSUME NEW s \in Seq(Command), NEW t \in Torrent
    PROVE  /\ ThenHolds(Adding(t), Removing(t), s) => Holds(Adding(t), s) /\ Holds(Removing(t), s)
           /\ ThenHolds(Removing(t), Adding(t), s) => Holds(Adding(t), s) /\ Holds(Removing(t), s)
           /\ EndsAdded(t, s) => Holds(Adding(t), s)
           /\ Holds(Adding(t), s) /\ ~ThenHolds(Adding(t), Removing(t), s) => EndsAdded(t, s)
           /\ AddsAgain(t, s) => /\ ThenHolds(Adding(t), Removing(t), s)
                                 /\ ThenHolds(Removing(t), Adding(t), s)
<1>1. QED
  BY DEF Holds, ThenHolds, EndsAdded, AddsAgain

-----------------------------------------------------------------------------
(* The invariant, in terms of what the queue says                          *)

WillLose(t) ==
    \/ t \in torrents /\ Holds(Removing(t), Told)
    \/ ThenHolds(Adding(t), Removing(t), Told)

LosesLast(t) ==
    /\ ~(t \in torrents /\ ThenHolds(Removing(t), Adding(t), Told))
    /\ ~AddsAgain(t, Told)

Safe(t) ==
    /\ Remembering(t) \/ t \notin cached_status \cup unseen => ~WillLose(t)
    /\ LosesLast(t)
    /\ (t \in torrents \/ Pushing(t) \/ Holds(Adding(t), Told)) /\ ~WillLose(t) => t \in magnets

Comes(t, s) == (t \in torrents /\ ~Holds(Removing(t), s)) \/ EndsAdded(t, s)

Bookkeeping == TypeOK /\ StartsAlone /\ OrdersArrive /\ MagnetsLeadBack

IInv == Bookkeeping /\ \A t \in Torrent \ crossed : Safe(t) /\ SeenInTime(t)

LEMMA AfterIsComes ==
    ASSUME NEW t, NEW s
    PROVE  After(t, s) <=> Comes(t, s)
  BY DEF After, Comes, EndsAdded

LEMMA AfterIsComesNext ==
    ASSUME NEW t, NEW s
    PROVE  After(t, s)' <=> Comes(t, s)'
  BY DEF After, Comes, EndsAdded

LEMMA Losing ==
    ASSUME NEW s \in Seq(Command), NEW t \in Torrent, NEW here \in BOOLEAN
    PROVE  /\ (\E i \in DOMAIN s : /\ s[i] = Removing(t)
                                   /\ here \/ \E j \in DOMAIN s : j < i /\ s[j] = Adding(t))
                <=> (here /\ Holds(Removing(t), s)) \/ ThenHolds(Adding(t), Removing(t), s)
           /\ (\A i, k \in DOMAIN s :
                   (/\ s[i] = Removing(t)
                    /\ here \/ \E j \in DOMAIN s : j < i /\ s[j] = Adding(t)) /\ i < k
                   => s[k] # Adding(t))
                <=> ~(here /\ ThenHolds(Removing(t), Adding(t), s)) /\ ~AddsAgain(t, s)
<1>1. CASE here
  BY <1>1 DEF Holds, ThenHolds, AddsAgain
<1>2. CASE ~here
  BY <1>2 DEF Holds, ThenHolds, AddsAgain
<1>3. QED
  BY <1>1, <1>2

LEMMA ToldIsQueue ==
    ASSUME TypeOK
    PROVE  Told \in Seq(Command)
  BY ConcatProperties DEF TypeOK, Told

LEMMA SafeIsNotTakenBack ==
    ASSUME TypeOK, NEW t \in Torrent
    PROVE  /\ Safe(t) <=> NotTakenBack(t)
           /\ Doomed(t) <=> WillLose(t)
<1>1. Told \in Seq(Command)
  BY ToldIsQueue
<1>2. Doomed(t) <=> WillLose(t)
  BY <1>1, Losing DEF Doomed, Takes, WillLose
<1>3. (\A i, j \in DOMAIN Told : Takes(t, i) /\ i < j => Told[j] # Adding(t)) <=> LosesLast(t)
  BY <1>1, Losing DEF Takes, LosesLast
<1>4. QED
  BY <1>2, <1>3 DEF Safe, NotTakenBack

LEMMA ToldGrows ==
    ASSUME TypeOK, NEW e \in Command, commands' = Append(commands, e), batch' = batch
    PROVE  Told' = Append(Told, e)
<1>1. commands \in Seq(Command) /\ batch \in Seq(Command) /\ <<e>> \in Seq(Command)
  BY DEF TypeOK
<1>2. commands' = commands \o <<e>>
  BY <1>1, AppendIsConcat
<1>3. Told' = (batch \o commands) \o <<e>>
  BY <1>1, <1>2, ConcatAssociative DEF Told
<1>4. Told \in Seq(Command)
  BY ToldIsQueue
<1>5. QED
  BY <1>3, <1>4, AppendIsConcat DEF Told

LEMMA ToldShrinks ==
    ASSUME TypeOK, batch # <<>>, batch' = Tail(batch), commands' = commands
    PROVE  Told # <<>> /\ Head(Told) = Head(batch) /\ Told' = Tail(Told)
<1>1. commands \in Seq(Command) /\ batch \in Seq(Command) /\ Told \in Seq(Command)
  BY ToldIsQueue DEF TypeOK
<1>2. Len(batch) \in Nat \ {0} /\ Len(commands) \in Nat
  BY <1>1, EmptySeq, LenProperties
<1>3. /\ Len(Told) = Len(batch) + Len(commands)
      /\ \A i \in 1 .. Len(batch) + Len(commands) :
           Told[i] = IF i <= Len(batch) THEN batch[i] ELSE commands[i - Len(batch)]
  BY <1>1, ConcatProperties DEF Told
<1>4. Told # <<>>
  BY <1>1, <1>2, <1>3, EmptySeq
<1>5. Head(Told) = Head(batch)
  BY <1>2, <1>3
<1>6. /\ Tail(Told) \in Seq(Command) /\ Len(Tail(Told)) = Len(Told) - 1
      /\ \A i \in 1 .. Len(Tail(Told)) : Tail(Told)[i] = Told[i + 1]
  BY <1>1, <1>4, HeadTailProperties
<1>7. /\ Tail(batch) \in Seq(Command) /\ Len(Tail(batch)) = Len(batch) - 1
      /\ \A i \in 1 .. Len(Tail(batch)) : Tail(batch)[i] = batch[i + 1]
  BY <1>1, HeadTailProperties
<1>8. /\ Told' \in Seq(Command) /\ Len(Told') = Len(batch) - 1 + Len(commands)
      /\ \A i \in 1 .. Len(batch) - 1 + Len(commands) :
           Told'[i] = IF i <= Len(batch) - 1 THEN Tail(batch)[i] ELSE commands[i - (Len(batch) - 1)]
  BY <1>1, <1>7, ConcatProperties DEF Told
<1>9. \A i \in 1 .. Len(Told') : Told'[i] = Tail(Told)[i]
  BY <1>2, <1>3, <1>6, <1>7, <1>8
<1>10. Told' = Tail(Told)
  BY <1>2, <1>3, <1>6, <1>8, <1>9, SeqEqual
<1>11. QED
  BY <1>4, <1>5, <1>10


LEMMA QueueSame ==
    ASSUME NEW t, batch' = batch, commands' = commands, torrents' = torrents
    PROVE  /\ Told' = Told /\ (WillLose(t)' <=> WillLose(t)) /\ (LosesLast(t)' <=> LosesLast(t))
           /\ \A s : After(t, s)' <=> After(t, s)
           /\ Coming(t)' <=> Coming(t)
<1>1. Told' = Told
  BY DEF Told
<1>2. \A s : After(t, s)' <=> After(t, s)
  BY DEF After
<1>3. QED
  BY <1>1, <1>2 DEF WillLose, LosesLast, Coming, After

LEMMA Places ==
    /\ \A t : Idle # At("snapshot", t) /\ Idle # At("remember", t) /\ Idle # At("push", t)
    /\ \A p \in {"glance", "drop"} : \A t, u :
          Idle # At(p, t) /\ At(p, t) # At("remember", u) /\ At(p, t) # At("push", u)
    /\ \A t, u : /\ At("snapshot", t) # At("remember", u) /\ At("snapshot", t) # At("push", u)
                 /\ At("remember", t) # At("push", u)
    /\ \A p \in Place : \A t : /\ At(p, t).at = p /\ At(p, t).torrent = t
                           /\ \A u : At(p, t) = At(p, u) => t = u
<1>1. \A p, t : "torrent" \in DOMAIN At(p, t) /\ DOMAIN At(p, t) = {"at", "torrent"}
  BY DEF At
<1>2. "torrent" \notin DOMAIN Idle
  BY DEF Idle
<1>3. \A p, t : Idle # At(p, t)
  BY <1>1, <1>2
<1>4. \A p, t : At(p, t).at = p /\ At(p, t).torrent = t
  BY DEF At
<1>5. \A t, u : /\ At("snapshot", t) # At("remember", u) /\ At("snapshot", t) # At("push", u)
                /\ At("remember", t) # At("push", u)
  BY <1>4
<1>6. \A p \in {"glance", "drop"} : \A t, u :
          At(p, t) # At("remember", u) /\ At(p, t) # At("push", u)
  BY <1>4
<1>7. QED
  BY <1>3, <1>4, <1>5, <1>6

LEMMA CallerIs ==
    ASSUME TypeOK, NEW c \in Caller, NEW p \in Place, caller[c].at = p
    PROVE  caller[c] # Idle /\ \E t \in Torrent : caller[c] = At(p, t)
<1>1. caller[c] # Idle
  BY DEF Place, Idle
<1>2. caller[c] \in {Idle} \cup {At(q, t) : q \in Place, t \in Torrent}
  BY DEF TypeOK
<1>3. PICK q \in Place, t \in Torrent : caller[c] = At(q, t)
  BY <1>1, <1>2
<1>4. p = q
  BY <1>3, Places
<1>5. QED
  BY <1>1, <1>3, <1>4

LEMMA AtPush ==
    ASSUME NEW p, NEW t
    PROVE  [At(p, t) EXCEPT !.at = "push"] = At("push", t)
  BY DEF At

LEMMA Started ==
    ASSUME running', links' = <<>>
    PROVE  StartsAlone'
<1>1. DOMAIN links' = {}
  OBVIOUS
<1>2. QED
  BY <1>1 DEF StartsAlone

LEMMA CallersAtWork ==
    ASSUME Bookkeeping, NEW c \in Caller, caller[c] # Idle
    PROVE  running /\ links = <<>>
  BY DEF Bookkeeping, StartsAlone

\* A caller is now at v
Moved(c, v) ==
    /\ \A d \in Caller : caller'[d] = IF d = c THEN v ELSE caller[d]
    /\ v = Idle \/ (\E p \in Place, t \in Torrent : v = At(p, t))
         => caller' \in [Caller -> {Idle} \cup {At(p, t) : p \in Place, t \in Torrent}]
    /\ \A t : Pushing(t)' <=> v = At("push", t) \/ \E d \in Caller \ {c} : caller[d] = At("push", t)
    /\ \A t : Remembering(t)' <=> v = At("push", t) \/ v = At("remember", t)
          \/ \E d \in Caller \ {c} : caller[d] = At("push", t) \/ caller[d] = At("remember", t)

LEMMA CallerMoves ==
    ASSUME TypeOK, NEW c \in Caller, NEW v, caller' = [caller EXCEPT ![c] = v]
    PROVE  Moved(c, v)
<1>1. \A d \in Caller : caller'[d] = IF d = c THEN v ELSE caller[d]
  BY DEF TypeOK
<1>2. v = Idle \/ (\E p \in Place, t \in Torrent : v = At(p, t))
        => caller' \in [Caller -> {Idle} \cup {At(p, t) : p \in Place, t \in Torrent}]
  BY DEF TypeOK
<1>3. \A t : Pushing(t)' <=> v = At("push", t) \/ \E d \in Caller \ {c} : caller[d] = At("push", t)
  BY <1>1 DEF Pushing
<1>4. \A t : Remembering(t)' <=> v = At("push", t) \/ v = At("remember", t)
        \/ \E d \in Caller \ {c} : caller[d] = At("push", t) \/ caller[d] = At("remember", t)
  BY <1>1 DEF Pushing, Remembering
<1>5. QED
  BY <1>1, <1>2, <1>3, <1>4 DEF Moved

\* Moves of a caller that leave the queue, the engine and the wishes alone
LEMMA CallersOnly ==
    ASSUME Bookkeeping, TypeOK', running' /\ links' = <<>>, running,
           links = <<>>, allowed' = allowed, wanted' = wanted, magnets' = magnets,
           batch' = batch, commands' = commands, torrents' = torrents,
           \A t : Pushing(t)' <=> Pushing(t)
    PROVE  Bookkeeping'
<1>1. StartsAlone'
  BY Started
<1>2. Told' = Told /\ \A t : Coming(t)' <=> Coming(t)
  BY QueueSame
<1>3. OrdersArrive'
  BY <1>2 DEF Bookkeeping, OrdersArrive
<1>4. MagnetsLeadBack'
  BY <1>2 DEF Bookkeeping, MagnetsLeadBack, Holds
<1>5. QED
  BY <1>1, <1>3, <1>4 DEF Bookkeeping

LEMMA AddStep ==
    ASSUME IInv, NEW c \in Caller, NEW t \in Torrent, Add(c, t)
    PROVE  IInv'
<1>1. TypeOK /\ Bookkeeping
  BY DEF IInv, Bookkeeping
<1>2. PICK v : /\ caller' = [caller EXCEPT ![c] = v]
               /\ v = At("snapshot", t) \/ v = At("remember", t) \/ v = Idle
  BY DEF Add
<1>3. /\ running /\ running' /\ links = <<>> /\ links' = <<>> /\ caller[c] = Idle
      /\ batch' = batch /\ commands' = commands /\ torrents' = torrents
      /\ cached_status' = cached_status
      /\ magnets' = magnets /\ allowed' = allowed /\ wanted' = wanted /\ unseen' = unseen
  BY DEF Add, Order, engineVars
<1>4. Moved(c, v)
  BY <1>1, <1>2, CallerMoves
<1>5. caller'[c] = v
  BY <1>4 DEF Moved
<1>6. crossed' = IF v.at = "remember" THEN crossed \cup {t} ELSE crossed
  BY <1>5 DEF Add
<1>7. v = Idle \/ (\E p \in Place, u \in Torrent : v = At(p, u))
  BY <1>2 DEF Place
<1>8. TypeOK'
  <2>1. caller' \in [Caller -> {Idle} \cup {At(p, u) : p \in Place, u \in Torrent}]
    BY <1>7, <1>4 DEF Moved
  <2>2. crossed' \subseteq Torrent
    BY <1>1, <1>6 DEF TypeOK
  <2>3. QED
    BY <1>1, <1>3, <2>1, <2>2 DEF TypeOK
<1>9. \A u : Pushing(u)' <=> Pushing(u)
  <2>1. \A u : v # At("push", u) /\ caller[c] # At("push", u)
    BY <1>2, <1>3, Places
  <2>2. \A u : Pushing(u)' <=> \E d \in Caller \ {c} : caller[d] = At("push", u)
    BY <1>4, <2>1 DEF Moved
  <2>3. QED
    BY <2>1, <2>2 DEF Pushing
<1>10. Bookkeeping'
  BY <1>1, <1>3, <1>8, <1>9, CallersOnly
<1>11. ASSUME NEW u \in Torrent \ crossed'
       PROVE  Safe(u)' /\ SeenInTime(u)'
  <2>1. u \notin crossed /\ v # At("remember", u)
    <3>1. CASE v = At("remember", t)
      BY <1>6, <3>1, Places DEF Place
    <3>2. CASE v # At("remember", t)
      BY <1>2, <1>6, <3>2, Places
    <3>3. QED
      BY <3>1, <3>2
  <2>2. Remembering(u)' <=> Remembering(u)
    <3>1. v # At("push", u) /\ caller[c] # At("push", u) /\ caller[c] # At("remember", u)
      BY <1>2, <1>3, Places
    <3>2. Remembering(u)' <=> \E d \in Caller \ {c} : caller[d] = At("push", u) \/ caller[d] = At("remember", u)
      BY <1>4, <2>1, <3>1 DEF Moved
    <3>3. QED
      BY <3>1, <3>2 DEF Remembering, Pushing
  <2>3. Safe(u) /\ SeenInTime(u)
    BY <2>1 DEF IInv
  <2>4. /\ Told' = Told /\ (WillLose(u)' <=> WillLose(u)) /\ (LosesLast(u)' <=> LosesLast(u))
        /\ \A s : After(u, s)' <=> After(u, s)
    BY <1>3, QueueSame
  <2>5. Safe(u)'
    BY <1>3, <1>9, <2>2, <2>3, <2>4 DEF Safe
  <2>6. After(u, batch)' <=> After(u, batch)
    BY <1>3 DEF After
  <2>7. SeenInTime(u)'
    BY <1>3, <2>2, <2>3, <2>6 DEF SeenInTime
  <2>8. QED
    BY <2>5, <2>7
<1>12. QED
  BY <1>10, <1>11 DEF IInv


LEMMA LookAtSnapshotStep ==
    ASSUME IInv, NEW c \in Caller, LookAtSnapshot(c)
    PROVE  IInv'
<1>1. TypeOK /\ Bookkeeping
  BY DEF IInv, Bookkeeping
<1>2. PICK t \in Torrent : caller[c] # Idle /\ caller[c] = At("snapshot", t)
  BY <1>1, CallerIs DEF LookAtSnapshot, Place
<1>3. caller[c].torrent = t
  BY <1>2, Places DEF Place
<1>4. PICK v : /\ caller' = [caller EXCEPT ![c] = v]
               /\ v = Idle \/ (v = At("remember", t) /\ t \notin cached_status)
  <2>1. caller' = [caller EXCEPT ![c] = IF t \in cached_status THEN Idle ELSE At("remember", t)]
    BY <1>3 DEF LookAtSnapshot
  <2>2. QED
    BY <2>1
<1>5. /\ running /\ running' /\ links = <<>> /\ links' = <<>>
      /\ batch' = batch /\ commands' = commands /\ torrents' = torrents
      /\ cached_status' = cached_status
      /\ crossed' = crossed \cup {u \in unseen \ cached_status : u = t}
      /\ magnets' = magnets /\ allowed' = allowed /\ wanted' = wanted /\ unseen' = unseen
  BY <1>1, <1>2, <1>3, CallersAtWork DEF LookAtSnapshot, engineVars
<1>6. Moved(c, v)
  BY <1>1, <1>4, CallerMoves
<1>7. TypeOK'
  <2>1. v = Idle \/ \E p \in Place, u \in Torrent : v = At(p, u)
    BY <1>4 DEF Place
  <2>2. caller' \in [Caller -> {Idle} \cup {At(p, u) : p \in Place, u \in Torrent}]
    BY <1>6, <2>1 DEF Moved
  <2>3. QED
    BY <1>1, <1>5, <2>2 DEF TypeOK
<1>8. \A u : Pushing(u)' <=> Pushing(u)
  <2>1. \A u : v # At("push", u) /\ caller[c] # At("push", u)
    BY <1>2, <1>4, Places
  <2>2. \A u : Pushing(u)' <=> \E d \in Caller \ {c} : caller[d] = At("push", u)
    BY <1>6, <2>1 DEF Moved
  <2>3. QED
    BY <2>1, <2>2 DEF Pushing
<1>9. Bookkeeping'
  BY <1>1, <1>5, <1>7, <1>8, CallersOnly
<1>10. ASSUME NEW u \in Torrent \ crossed'
       PROVE  Safe(u)' /\ SeenInTime(u)'
  <2>1. Remembering(u)' => Remembering(u) \/ u \notin cached_status \cup unseen
    <3>1. v # At("push", u) /\ (v = At("remember", u) => u \notin cached_status \cup unseen)
      <4>1. v # At("push", u)
        BY <1>4, Places
      <4>2. v = At("remember", u) => u = t /\ t \notin cached_status
        BY <1>4, Places DEF Place
      <4>3. QED
        BY <1>5, <1>10, <4>1, <4>2
    <3>2. Remembering(u)' => u \notin cached_status \cup unseen
             \/ \E d \in Caller \ {c} : caller[d] = At("push", u) \/ caller[d] = At("remember", u)
      BY <1>6, <3>1 DEF Moved
    <3>3. QED
      BY <3>2 DEF Remembering, Pushing
  <2>2. Safe(u) /\ SeenInTime(u)
    BY <1>5 DEF IInv
  <2>3. Told' = Told /\ (WillLose(u)' <=> WillLose(u)) /\ (LosesLast(u)' <=> LosesLast(u))
    BY <1>5, QueueSame
  <2>4. Safe(u)'
    BY <1>5, <1>8, <2>1, <2>2, <2>3 DEF Safe
  <2>5. After(u, batch)' <=> After(u, batch)
    BY <1>5 DEF After
  <2>6. SeenInTime(u)'
    BY <1>5, <2>1, <2>2, <2>5 DEF SeenInTime
  <2>7. QED
    BY <2>4, <2>6
<1>11. QED
  BY <1>9, <1>10 DEF IInv

LEMMA RememberMagnetStep ==
    ASSUME IInv, NEW c \in Caller, RememberMagnet(c)
    PROVE  IInv'
<1>1. TypeOK /\ Bookkeeping
  BY DEF IInv, Bookkeeping
<1>2. PICK t \in Torrent : caller[c] # Idle /\ caller[c] = At("remember", t)
  BY <1>1, CallerIs DEF RememberMagnet, Place
<1>3. caller[c].torrent = t
  BY <1>2, Places DEF Place
<1>4. caller' = [caller EXCEPT ![c] = At("push", t)]
  <2>1. caller' = [caller EXCEPT ![c] = [caller[c] EXCEPT !.at = "push"]]
    BY DEF RememberMagnet
  <2>2. [At("remember", t) EXCEPT !.at = "push"] = At("push", t)
    BY AtPush, Zenon
  <2>3. QED
    BY <1>2, <2>1, <2>2, Zenon
<1>5. /\ running /\ running' /\ links = <<>> /\ links' = <<>>
      /\ batch' = batch /\ commands' = commands /\ torrents' = torrents
      /\ cached_status' = cached_status /\ crossed' = crossed
      /\ magnets' = magnets \cup {t} /\ allowed' = allowed /\ wanted' = wanted \cup {t}
      /\ unseen' = unseen
  BY <1>1, <1>2, <1>3, CallersAtWork DEF RememberMagnet, engineVars
<1>6. Moved(c, At("push", t))
  BY <1>1, <1>4, CallerMoves
<1>7. TypeOK'
  <2>1. \E p \in Place, u \in Torrent : At("push", t) = At(p, u)
    BY DEF Place
  <2>2. caller' \in [Caller -> {Idle} \cup {At(p, u) : p \in Place, u \in Torrent}]
    BY <1>6, <2>1 DEF Moved
  <2>3. QED
    BY <1>1, <1>5, <2>2 DEF TypeOK
<1>8. \A u : Pushing(u)' <=> Pushing(u) \/ u = t
  <2>1. \A u : (At("push", t) = At("push", u) <=> t = u) /\ caller[c] # At("push", u)
    BY <1>2, Places DEF Place
  <2>2. \A u : Pushing(u)' <=> u = t \/ \E d \in Caller \ {c} : caller[d] = At("push", u)
    BY <1>6, <2>1 DEF Moved
  <2>3. QED
    BY <2>1, <2>2 DEF Pushing
<1>9. \A u : Remembering(u)' => Remembering(u)
  <2>1. \A u : At("push", t) = At("push", u) => u = t
    BY Places DEF Place
  <2>2. \A u : At("push", t) # At("remember", u)
    BY Places
  <2>3. \A u : Remembering(u)' => u = t
           \/ \E d \in Caller \ {c} : caller[d] = At("push", u) \/ caller[d] = At("remember", u)
    BY <1>6, <2>1, <2>2 DEF Moved
  <2>4. Remembering(t)
    BY <1>2 DEF Remembering
  <2>5. QED
    BY <2>3, <2>4 DEF Remembering, Pushing
<1>10. Told' = Told /\ \A u : Coming(u)' <=> Coming(u)
  BY <1>5, QueueSame
<1>11. Bookkeeping'
  <2>1. StartsAlone'
    BY <1>5, Started
  <2>2. OrdersArrive'
    BY <1>1, <1>5, <1>8, <1>10 DEF Bookkeeping, OrdersArrive
  <2>3. MagnetsLeadBack'
    BY <1>1, <1>5, <1>8, <1>10 DEF Bookkeeping, MagnetsLeadBack, Holds
  <2>4. QED
    BY <1>7, <2>1, <2>2, <2>3 DEF Bookkeeping
<1>12. ASSUME NEW u \in Torrent \ crossed'
       PROVE  Safe(u)' /\ SeenInTime(u)'
  <2>1. Safe(u) /\ SeenInTime(u)
    BY <1>5 DEF IInv
  <2>2. Told' = Told /\ (WillLose(u)' <=> WillLose(u)) /\ (LosesLast(u)' <=> LosesLast(u))
    BY <1>5, QueueSame
  <2>3. Safe(u)'
    BY <1>5, <1>8, <1>9, <2>1, <2>2 DEF Safe
  <2>4. After(u, batch)' <=> After(u, batch)
    BY <1>5 DEF After
  <2>5. SeenInTime(u)'
    BY <1>5, <1>9, <2>1, <2>4 DEF SeenInTime
  <2>6. QED
    BY <2>3, <2>5
<1>13. QED
  BY <1>11, <1>12 DEF IInv


\* What one more command changes in what is said of u
Said(e, u) ==
    /\ Holds(Adding(u), Told)' <=> Holds(Adding(u), Told) \/ e = Adding(u)
    /\ Holds(Adding(u), commands)' <=> Holds(Adding(u), commands) \/ e = Adding(u)
    /\ ThenHolds(Adding(u), Removing(u), commands)'
         <=> \/ ThenHolds(Adding(u), Removing(u), commands)
             \/ Holds(Adding(u), commands) /\ e = Removing(u)
    /\ WillLose(u)' <=> \/ WillLose(u)
                        \/ e = Removing(u) /\ (u \in torrents \/ Holds(Adding(u), Told))
    /\ LosesLast(u)' <=> LosesLast(u) /\ ~(e = Adding(u) /\ WillLose(u))
    /\ Coming(u)' <=> e = Adding(u) \/ (Coming(u) /\ e # Removing(u))
    /\ After(u, batch)' <=> After(u, batch)

LEMMA Saying ==
    ASSUME TypeOK, NEW e \in Command, NEW u \in Torrent,
           commands' = Append(commands, e), batch' = batch, torrents' = torrents
    PROVE  Said(e, u)
<1>1. Told \in Seq(Command) /\ commands \in Seq(Command) /\ Told' = Append(Told, e)
  BY ToldIsQueue, ToldGrows DEF TypeOK
<1>2. Adding(u) \in Command /\ Removing(u) \in Command /\ Adding(u) # Removing(u)
  BY Orders
<1>3. /\ Holds(Adding(u), Append(Told, e)) <=> Holds(Adding(u), Told) \/ e = Adding(u)
      /\ Holds(Removing(u), Append(Told, e)) <=> Holds(Removing(u), Told) \/ e = Removing(u)
      /\ ThenHolds(Adding(u), Removing(u), Append(Told, e))
           <=> ThenHolds(Adding(u), Removing(u), Told) \/ (Holds(Adding(u), Told) /\ e = Removing(u))
      /\ ThenHolds(Removing(u), Adding(u), Append(Told, e))
           <=> ThenHolds(Removing(u), Adding(u), Told) \/ (Holds(Removing(u), Told) /\ e = Adding(u))
      /\ EndsAdded(u, Append(Told, e)) <=> e = Adding(u) \/ (EndsAdded(u, Told) /\ e # Removing(u))
      /\ AddsAgain(u, Append(Told, e))
           <=> AddsAgain(u, Told) \/ (ThenHolds(Adding(u), Removing(u), Told) /\ e = Adding(u))
  BY <1>1, <1>2, OneMore
<1>4. /\ Holds(Adding(u), Append(commands, e)) <=> Holds(Adding(u), commands) \/ e = Adding(u)
      /\ ThenHolds(Adding(u), Removing(u), Append(commands, e))
           <=> ThenHolds(Adding(u), Removing(u), commands) \/ (Holds(Adding(u), commands) /\ e = Removing(u))
  BY <1>1, <1>2, OneMore
<1>5. /\ Holds(Adding(u), Told)' <=> Holds(Adding(u), Append(Told, e))
      /\ Holds(Adding(u), commands)' <=> Holds(Adding(u), Append(commands, e))
      /\ ThenHolds(Adding(u), Removing(u), commands)' <=> ThenHolds(Adding(u), Removing(u), Append(commands, e))
  BY <1>1 DEF Holds, ThenHolds
<1>6. WillLose(u)' <=> \/ u \in torrents /\ Holds(Removing(u), Append(Told, e))
                       \/ ThenHolds(Adding(u), Removing(u), Append(Told, e))
  BY <1>1 DEF WillLose
<1>7. LosesLast(u)' <=> /\ ~(u \in torrents /\ ThenHolds(Removing(u), Adding(u), Append(Told, e)))
                        /\ ~AddsAgain(u, Append(Told, e))
  BY <1>1 DEF LosesLast
<1>8. Coming(u)' <=> \/ u \in torrents /\ ~Holds(Removing(u), Append(Told, e))
                     \/ EndsAdded(u, Append(Told, e))
  BY <1>1 DEF Coming, After, EndsAdded
<1>9. Coming(u) <=> (u \in torrents /\ ~Holds(Removing(u), Told)) \/ EndsAdded(u, Told)
  BY DEF Coming, After, EndsAdded
<1>10. After(u, batch)' <=> After(u, batch)
  BY DEF After
<1>11. WillLose(u)' <=> \/ WillLose(u)
                        \/ e = Removing(u) /\ (u \in torrents \/ Holds(Adding(u), Told))
  BY <1>3, <1>6 DEF WillLose
<1>12. LosesLast(u)' <=> LosesLast(u) /\ ~(e = Adding(u) /\ WillLose(u))
  BY <1>3, <1>7 DEF WillLose, LosesLast
<1>13. CASE e = Adding(u)
  BY <1>2, <1>3, <1>4, <1>5, <1>8, <1>9, <1>10, <1>11, <1>12, <1>13 DEF Said
<1>14. CASE e # Adding(u)
  BY <1>2, <1>3, <1>4, <1>5, <1>8, <1>9, <1>10, <1>11, <1>12, <1>14 DEF Said
<1>15. QED
  BY <1>13, <1>14

LEMMA PushAddStep ==
    ASSUME IInv, NEW c \in Caller, PushAdd(c)
    PROVE  IInv'
<1>1. TypeOK /\ Bookkeeping
  BY DEF IInv, Bookkeeping
<1>2. PICK t \in Torrent : caller[c] # Idle /\ caller[c] = At("push", t)
  BY <1>1, CallerIs DEF PushAdd, Place
<1>3. caller[c].torrent = t
  BY <1>2, Places DEF Place
<1>4. /\ running /\ running' /\ links = <<>> /\ links' = <<>>
      /\ batch' = batch /\ commands' = Append(commands, Adding(t)) /\ torrents' = torrents
      /\ cached_status' = cached_status /\ crossed' = crossed
      /\ magnets' = magnets /\ allowed' = allowed /\ wanted' = wanted \cup {t}
      /\ unseen' = unseen
      /\ caller' = [caller EXCEPT ![c] = Idle]
  BY <1>1, <1>2, <1>3, CallersAtWork DEF PushAdd, engineVars
<1>5. Moved(c, Idle) /\ Adding(t) \in Command
  BY <1>1, <1>4, CallerMoves, Orders
<1>6. TypeOK'
  <2>1. caller' \in [Caller -> {Idle} \cup {At(p, u) : p \in Place, u \in Torrent}]
    BY <1>5 DEF Moved
  <2>2. commands' \in Seq(Command)
    BY <1>1, <1>4, <1>5, AppendProperties DEF TypeOK
  <2>3. QED
    BY <1>1, <1>4, <2>1, <2>2 DEF TypeOK
<1>7. ASSUME NEW u \in Torrent
      PROVE  /\ Pushing(u)' => Pushing(u)
             /\ Pushing(u) => Pushing(u)' \/ u = t
             /\ Remembering(u)' => Remembering(u)
  <2>1. Idle # At("push", u) /\ Idle # At("remember", u) /\ (caller[c] = At("push", u) <=> u = t)
    BY <1>2, Places DEF Place
  <2>2. Pushing(u)' <=> \E d \in Caller \ {c} : caller[d] = At("push", u)
    BY <1>5, <2>1 DEF Moved
  <2>3. Remembering(u)' <=> \E d \in Caller \ {c} : caller[d] = At("push", u) \/ caller[d] = At("remember", u)
    BY <1>5, <2>1 DEF Moved
  <2>4. QED
    BY <2>1, <2>2, <2>3 DEF Pushing, Remembering
<1>8. \A u \in Torrent : Said(Adding(t), u)
  BY <1>1, <1>4, <1>5, Saying
<1>9. \A u \in Torrent : (Adding(t) = Adding(u) <=> t = u) /\ Adding(t) # Removing(u)
  BY Orders
<1>10. Bookkeeping'
  <2>1. StartsAlone'
    BY <1>4, Started
  <2>2. OrdersArrive'
    BY <1>1, <1>4, <1>7, <1>8, <1>9 DEF Bookkeeping, OrdersArrive, Said
  <2>3. MagnetsLeadBack'
    <3>1. ASSUME NEW u \in magnets
          PROVE  u \in torrents' \/ Pushing(u)' \/ Holds(Adding(u), Told)'
      <4>1. u \in Torrent
        BY <1>1 DEF TypeOK
      <4>2. ~Holds(u, links)
        <5>1. DOMAIN links = {}
          BY <1>4
        <5>2. QED
          BY <5>1 DEF Holds
      <4>3. u \in torrents \/ Pushing(u) \/ Holds(Adding(u), Told)
        BY <1>1, <1>4, <4>2 DEF Bookkeeping, MagnetsLeadBack
      <4>4. QED
        BY <1>4, <1>7, <1>8, <1>9, <4>1, <4>3 DEF Said
    <3>2. QED
      BY <1>4, <3>1 DEF MagnetsLeadBack
  <2>4. QED
    BY <1>6, <2>1, <2>2, <2>3 DEF Bookkeeping
<1>11. ASSUME NEW u \in Torrent \ crossed'
       PROVE  Safe(u)' /\ SeenInTime(u)'
  <2>1. Safe(u) /\ SeenInTime(u)
    BY <1>4 DEF IInv
  <2>2. Said(Adding(t), u)
    BY <1>8
  <2>3. CASE u = t
    <3>1. Pushing(u) /\ Remembering(u)
      BY <1>2, <2>3 DEF Pushing, Remembering
    <3>2. ~WillLose(u) /\ LosesLast(u) /\ u \in magnets
      BY <2>1, <3>1 DEF Safe
    <3>3. ~WillLose(u)' /\ LosesLast(u)'
      BY <1>9, <2>2, <3>2 DEF Said
    <3>4. Safe(u)'
      BY <1>4, <3>2, <3>3 DEF Safe
    <3>5. u \in cached_status => After(u, batch)
      BY <2>1, <3>1 DEF SeenInTime
    <3>6. SeenInTime(u)'
      BY <1>4, <1>9, <2>1, <2>2, <3>5 DEF SeenInTime, Said
    <3>7. QED
      BY <3>4, <3>6
  <2>4. CASE u # t
    <3>1. Safe(u)'
      BY <1>4, <1>7, <1>9, <2>1, <2>2, <2>4 DEF Safe, Said
    <3>2. SeenInTime(u)'
      BY <1>4, <1>7, <1>9, <2>1, <2>2, <2>4 DEF SeenInTime, Said
    <3>3. QED
      BY <3>1, <3>2
  <2>5. QED
    BY <2>3, <2>4
<1>12. QED
  BY <1>10, <1>11 DEF IInv

\* A caller on its way to a removal
LEMMA Wandering ==
    ASSUME IInv, NEW c \in Caller, NEW v,
           v = Idle \/ \E p \in {"glance", "drop"}, t \in Torrent : v = At(p, t),
           \A u : caller[c] # At("remember", u) /\ caller[c] # At("push", u),
           running, links = <<>>,
           caller' = [caller EXCEPT ![c] = v],
           UNCHANGED <<running, commands, batch, torrents, cached_status, links, magnets>>,
           UNCHANGED <<allowed, wanted, unseen, crossed>>
    PROVE  IInv'
<1>1. TypeOK /\ Bookkeeping
  BY DEF IInv, Bookkeeping
<1>2. Moved(c, v)
  BY <1>1, CallerMoves
<1>3. v = Idle \/ \E p \in Place, u \in Torrent : v = At(p, u)
  BY DEF Place
<1>4. \A u : v # At("push", u) /\ v # At("remember", u)
  BY Places
<1>5. TypeOK'
  <2>1. caller' \in [Caller -> {Idle} \cup {At(p, u) : p \in Place, u \in Torrent}]
    BY <1>2, <1>3 DEF Moved
  <2>2. QED
    BY <1>1, <2>1 DEF TypeOK
<1>6. \A u : (Pushing(u)' <=> Pushing(u)) /\ (Remembering(u)' <=> Remembering(u))
  <2>1. \A u : Pushing(u)' <=> \E d \in Caller \ {c} : caller[d] = At("push", u)
    BY <1>2, <1>4 DEF Moved
  <2>2. \A u : Remembering(u)' <=>
           \E d \in Caller \ {c} : caller[d] = At("push", u) \/ caller[d] = At("remember", u)
    BY <1>2, <1>4 DEF Moved
  <2>3. QED
    BY <2>1, <2>2 DEF Pushing, Remembering
<1>7. Bookkeeping'
  BY <1>1, <1>5, <1>6, CallersOnly
<1>8. ASSUME NEW u \in Torrent \ crossed'
      PROVE  Safe(u)' /\ SeenInTime(u)'
  <2>1. Safe(u) /\ SeenInTime(u)
    BY DEF IInv
  <2>2. /\ Told' = Told /\ (WillLose(u)' <=> WillLose(u)) /\ (LosesLast(u)' <=> LosesLast(u))
        /\ (After(u, batch)' <=> After(u, batch))
    BY QueueSame DEF After
  <2>3. Safe(u)'
    BY <1>6, <2>1, <2>2 DEF Safe
  <2>4. SeenInTime(u)'
    BY <1>6, <2>1, <2>2 DEF SeenInTime
  <2>5. QED
    BY <2>3, <2>4
<1>9. QED
  BY <1>7, <1>8 DEF IInv

LEMMA RemoveTorrentStep ==
    ASSUME IInv, NEW c \in Caller, NEW t \in Torrent, RemoveTorrent(c, t)
    PROVE  IInv'
<1>1. PICK p \in {"glance", "drop"} : caller' = [caller EXCEPT ![c] = At(p, t)]
  BY DEF RemoveTorrent
<1>2. \A u : caller[c] # At("remember", u) /\ caller[c] # At("push", u)
  BY Places DEF RemoveTorrent
<1>3. /\ running /\ links = <<>>
      /\ UNCHANGED <<running, commands, batch, torrents, cached_status, links, magnets>>
      /\ UNCHANGED <<allowed, wanted, unseen, crossed>>
  BY DEF RemoveTorrent, Order, engineVars
<1>4. \E q \in {"glance", "drop"}, u \in Torrent : At(p, t) = At(q, u)
  OBVIOUS
<1>5. QED
  BY <1>1, <1>2, <1>3, <1>4, Wandering

LEMMA LookForRemovalStep ==
    ASSUME IInv, NEW c \in Caller, LookForRemoval(c)
    PROVE  IInv'
<1>1. TypeOK /\ Bookkeeping
  BY DEF IInv, Bookkeeping
<1>2. PICK t \in Torrent : caller[c] # Idle /\ caller[c] = At("glance", t)
  BY <1>1, CallerIs DEF LookForRemoval, Place
<1>3. caller[c].torrent = t
  BY <1>2, Places DEF Place
<1>4. PICK v \in {Idle, At("drop", t)} : caller' = [caller EXCEPT ![c] = v]
  <2>1. caller' = [caller EXCEPT ![c] = IF t \in cached_status THEN At("drop", t) ELSE Idle]
    BY <1>3 DEF LookForRemoval
  <2>2. QED
    BY <2>1
<1>5. \A u : caller[c] # At("remember", u) /\ caller[c] # At("push", u)
  BY <1>2, Places
<1>6. /\ running /\ links = <<>>
      /\ UNCHANGED <<running, commands, batch, torrents, cached_status, links, magnets>>
      /\ UNCHANGED <<allowed, wanted, unseen, crossed>>
  BY <1>1, <1>2, CallersAtWork DEF LookForRemoval, engineVars, history
<1>7. v = Idle \/ \E p \in {"glance", "drop"}, u \in Torrent : v = At(p, u)
  BY <1>4
<1>8. QED
  BY <1>4, <1>5, <1>6, <1>7, Wandering

LEMMA PushRemoveStep ==
    ASSUME IInv, NEW c \in Caller, PushRemove(c)
    PROVE  IInv'
<1>1. TypeOK /\ Bookkeeping
  BY DEF IInv, Bookkeeping
<1>11. PICK t \in Torrent : caller[c] # Idle /\ caller[c] = At("drop", t)
  BY <1>1, CallerIs DEF PushRemove, Place
<1>12. caller[c].torrent = t
  BY <1>11, Places DEF Place
<1>2. /\ running /\ running' /\ links = <<>> /\ links' = <<>>
      /\ batch' = batch /\ commands' = Append(commands, Removing(t)) /\ torrents' = torrents
      /\ cached_status' = cached_status
      /\ unseen' = IF t \in cached_status THEN unseen ELSE unseen \cup {t}
      /\ crossed' = IF Remembering(t) THEN crossed \cup {t} ELSE crossed
      /\ magnets' = magnets /\ allowed' = allowed /\ wanted' = wanted \ {t}
      /\ caller' = [caller EXCEPT ![c] = Idle]
  BY <1>1, <1>11, <1>12, CallersAtWork DEF PushRemove, engineVars
<1>3. Moved(c, Idle) /\ Removing(t) \in Command
  BY <1>1, <1>2, CallerMoves, Orders
<1>4. TypeOK'
  <2>1. commands' \in Seq(Command)
    BY <1>1, <1>2, <1>3, AppendProperties DEF TypeOK
  <2>2. crossed' \subseteq Torrent /\ unseen' \subseteq Torrent
    BY <1>1, <1>2 DEF TypeOK
  <2>4. caller' \in [Caller -> {Idle} \cup {At(p, u) : p \in Place, u \in Torrent}]
    BY <1>3 DEF Moved
  <2>3. QED
    BY <1>1, <1>2, <2>1, <2>2, <2>4 DEF TypeOK
<1>5. \A u : (Pushing(u)' <=> Pushing(u)) /\ (Remembering(u)' <=> Remembering(u))
  <2>1. \A u : /\ Idle # At("push", u) /\ Idle # At("remember", u)
               /\ caller[c] # At("push", u) /\ caller[c] # At("remember", u)
    BY <1>11, Places
  <2>2. \A u : Pushing(u)' <=> \E d \in Caller \ {c} : caller[d] = At("push", u)
    BY <1>3, <2>1 DEF Moved
  <2>3. \A u : Remembering(u)' <=>
           \E d \in Caller \ {c} : caller[d] = At("push", u) \/ caller[d] = At("remember", u)
    BY <1>3, <2>1 DEF Moved
  <2>4. QED
    BY <2>1, <2>2, <2>3 DEF Pushing, Remembering
<1>6. \A u \in Torrent : Said(Removing(t), u)
  BY <1>1, <1>2, <1>3, Saying
<1>7. \A u \in Torrent : (Removing(t) = Removing(u) <=> t = u) /\ Removing(t) # Adding(u)
  BY Orders
<1>8. Bookkeeping'
  <2>1. StartsAlone'
    BY <1>2, Started
  <2>2. OrdersArrive'
    BY <1>1, <1>2, <1>5, <1>6, <1>7 DEF Bookkeeping, OrdersArrive, Said
  <2>3. MagnetsLeadBack'
    <3>1. ASSUME NEW u \in magnets
          PROVE  u \in torrents \/ Pushing(u) \/ Holds(Adding(u), Told)' \/ Holds(u, links)
      <4>1. u \in Torrent
        BY <1>1 DEF TypeOK
      <4>2. u \in torrents \/ Pushing(u) \/ Holds(Adding(u), Told) \/ Holds(u, links)
        BY <1>1, <1>2 DEF Bookkeeping, MagnetsLeadBack
      <4>3. QED
        BY <1>6, <4>1, <4>2 DEF Said
    <3>2. QED
      BY <1>2, <1>5, <3>1 DEF MagnetsLeadBack, Holds
  <2>4. QED
    BY <1>4, <2>1, <2>2, <2>3 DEF Bookkeeping
<1>9. ASSUME NEW u \in Torrent \ crossed'
      PROVE  Safe(u)' /\ SeenInTime(u)'
  <2>1. Safe(u) /\ SeenInTime(u) /\ (u = t => ~Remembering(t) /\ ~Pushing(t))
    BY <1>2 DEF IInv, Remembering
  <2>2. Said(Removing(t), u)
    BY <1>6
  <2>3. CASE u = t
    <3>1. LosesLast(u)'
      BY <1>7, <2>1, <2>2 DEF Safe, Said
    <3>2. Safe(u)'
      BY <1>2, <1>5, <1>7, <2>1, <2>2, <2>3, <3>1 DEF Safe, Said
    <3>3. SeenInTime(u)'
      BY <1>2, <1>5, <1>7, <2>1, <2>2, <2>3 DEF SeenInTime, Said
    <3>4. QED
      BY <3>2, <3>3
  <2>4. CASE u # t
    <3>1. Safe(u)'
      BY <1>2, <1>5, <1>7, <2>1, <2>2, <2>4 DEF Safe, Said
    <3>2. SeenInTime(u)'
      BY <1>2, <1>5, <1>7, <2>1, <2>2, <2>4 DEF SeenInTime, Said
    <3>3. QED
      BY <3>1, <3>2
  <2>5. QED
    BY <2>3, <2>4
<1>10. QED
  BY <1>8, <1>9 DEF IInv


LEMMA TakeBatchStep ==
    ASSUME IInv, TakeBatch
    PROVE  IInv'
<1>1. TypeOK /\ Bookkeeping
  BY DEF IInv, Bookkeeping
<1>2. /\ running /\ running' /\ links' = links /\ batch = <<>>
      /\ batch' = commands /\ commands' = <<>> /\ torrents' = torrents
      /\ cached_status' = cached_status /\ crossed' = crossed
      /\ magnets' = magnets /\ allowed' = allowed /\ wanted' = wanted
      /\ caller' = caller /\ unseen' = unseen
  BY DEF TakeBatch, history
<1>3. commands \in Seq(Command) /\ <<>> \in Seq(Command)
  BY <1>1, EmptySeq DEF TypeOK
<1>4. TypeOK'
  BY <1>1, <1>2, <1>3 DEF TypeOK
<1>5. Told = commands /\ Told' = Told
  BY <1>2, <1>3, ConcatEmptySeq DEF Told
<1>6. \A u : (Pushing(u)' <=> Pushing(u)) /\ (Remembering(u)' <=> Remembering(u))
  BY <1>2 DEF Pushing, Remembering
<1>7. ASSUME NEW u
      PROVE  /\ Coming(u)' <=> Coming(u)
             /\ WillLose(u)' <=> WillLose(u)
             /\ LosesLast(u)' <=> LosesLast(u)
  BY <1>2, <1>5 DEF Coming, After, WillLose, LosesLast
<1>8. Bookkeeping'
  <2>1. StartsAlone'
    BY <1>1, <1>2, <1>5 DEF Bookkeeping, StartsAlone
  <2>2. OrdersArrive'
    BY <1>1, <1>2, <1>6, <1>7 DEF Bookkeeping, OrdersArrive
  <2>3. MagnetsLeadBack'
    BY <1>1, <1>2, <1>5, <1>6 DEF Bookkeeping, MagnetsLeadBack, Holds
  <2>4. QED
    BY <1>4, <2>1, <2>2, <2>3 DEF Bookkeeping
<1>9. ASSUME NEW u \in Torrent \ crossed'
      PROVE  Safe(u)' /\ SeenInTime(u)'
  <2>1. Safe(u) /\ SeenInTime(u)
    BY <1>2 DEF IInv
  <2>2. Safe(u)'
    BY <1>2, <1>5, <1>6, <1>7, <2>1 DEF Safe, Holds
  <2>3. ~ThenHolds(Adding(u), Removing(u), commands)' /\ ~Holds(Adding(u), commands)'
    BY <1>2, NothingSaid DEF ThenHolds, Holds
  <2>4. ASSUME u \in cached_status, Remembering(u)
        PROVE  After(u, batch)'
    <3>1. ~Holds(Removing(u), batch) /\ ~EndsAdded(u, batch)
      BY <1>2, NothingSaid
    <3>2. u \in torrents
      BY <2>1, <2>4, <3>1, AfterIsComes DEF SeenInTime, Comes
    <3>3. ~WillLose(u)
      BY <2>1, <2>4 DEF Safe
    <3>4. ~Holds(Removing(u), commands)
      BY <1>5, <3>2, <3>3 DEF WillLose
    <3>5. QED
      BY <1>2, <3>2, <3>4 DEF After, Holds
  <2>5. SeenInTime(u)'
    BY <1>2, <1>6, <2>3, <2>4 DEF SeenInTime
  <2>6. QED
    BY <2>2, <2>5
<1>10. QED
  BY <1>8, <1>9 DEF IInv

LEMMA PublishStatusStep ==
    ASSUME IInv, PublishStatus
    PROVE  IInv'
<1>1. TypeOK /\ Bookkeeping
  BY DEF IInv, Bookkeeping
<1>2. /\ running /\ running' /\ links' = links /\ batch = <<>>
      /\ batch' = batch /\ commands' = commands /\ torrents' = torrents
      /\ cached_status' = torrents /\ crossed' = crossed
      /\ magnets' = magnets /\ allowed' = allowed /\ wanted' = wanted
      /\ caller' = caller /\ unseen' = unseen
  BY DEF PublishStatus, Published, history
<1>3. TypeOK'
  BY <1>1, <1>2 DEF TypeOK
<1>4. Told = commands /\ Told' = Told
  <2>1. commands \in Seq(Command)
    BY <1>1 DEF TypeOK
  <2>2. QED
    BY <1>2, <2>1, ConcatEmptySeq DEF Told
<1>5. \A u : (Pushing(u)' <=> Pushing(u)) /\ (Remembering(u)' <=> Remembering(u))
  BY <1>2 DEF Pushing, Remembering
<1>6. ASSUME NEW u
      PROVE  /\ Coming(u)' <=> Coming(u)
             /\ WillLose(u)' <=> WillLose(u)
             /\ LosesLast(u)' <=> LosesLast(u)
             /\ After(u, batch)' <=> After(u, batch)
  BY <1>2, <1>4 DEF Coming, After, WillLose, LosesLast
<1>7. Bookkeeping'
  <2>1. StartsAlone'
    BY <1>1, <1>2, <1>4 DEF Bookkeeping, StartsAlone
  <2>2. OrdersArrive'
    BY <1>1, <1>2, <1>5, <1>6 DEF Bookkeeping, OrdersArrive
  <2>3. MagnetsLeadBack'
    BY <1>1, <1>2, <1>4, <1>5 DEF Bookkeeping, MagnetsLeadBack, Holds
  <2>4. QED
    BY <1>3, <2>1, <2>2, <2>3 DEF Bookkeeping
<1>8. ASSUME NEW u \in Torrent \ crossed'
      PROVE  Safe(u)' /\ SeenInTime(u)'
  <2>1. Safe(u) /\ SeenInTime(u)
    BY <1>2 DEF IInv
  <2>2. After(u, batch) <=> u \in torrents
    <3>1. ~Holds(Removing(u), batch) /\ ~EndsAdded(u, batch)
      BY <1>2, NothingSaid
    <3>2. QED
      BY <3>1, AfterIsComes DEF Comes
  <2>3. u \notin torrents \cup unseen => ~WillLose(u)
    BY <1>4, <2>1, <2>2 DEF WillLose, SeenInTime
  <2>4. Safe(u)'
    BY <1>2, <1>4, <1>5, <1>6, <2>1, <2>3 DEF Safe, Holds
  <2>5. ThenHolds(Adding(u), Removing(u), commands)' <=> ThenHolds(Adding(u), Removing(u), commands)
    BY <1>2 DEF ThenHolds
  <2>6. SeenInTime(u)'
    BY <1>2, <1>6, <2>1, <2>2, <2>5 DEF SeenInTime
  <2>7. QED
    BY <2>4, <2>6
<1>9. QED
  BY <1>7, <1>8 DEF IInv

\* What a command done changes in what is said of u
Done(u) ==
    /\ Coming(u)' <=> Coming(u)
    /\ After(u, batch)' <=> After(u, batch)
    /\ Head(batch) # Removing(u) => WillLose(u)' <=> WillLose(u)
    /\ Head(batch) # Removing(u) /\ LosesLast(u) => LosesLast(u)'
    /\ Head(batch) = Removing(u) /\ u \in torrents => WillLose(u)
    /\ Head(batch) = Removing(u) /\ u \in torrents /\ LosesLast(u)
         => ~WillLose(u)' /\ LosesLast(u)' /\ ~Holds(Adding(u), Told)'
    /\ Head(batch) = Removing(u) /\ u \notin torrents
         => (WillLose(u)' <=> WillLose(u)) /\ (LosesLast(u) => LosesLast(u)')
    /\ Holds(Adding(u), Told) <=> Holds(Adding(u), Told)' \/ Head(batch) = Adding(u)

LEMMA Doing ==
    ASSUME TypeOK, HandleCommand, NEW u \in Torrent
    PROVE  Done(u)
<1>1. /\ batch # <<>> /\ batch' = Tail(batch) /\ commands' = commands /\ Handled(Head(batch))
      /\ batch \in Seq(Command)
  BY DEF HandleCommand, TypeOK
<1>2. Told \in Seq(Command) /\ Told # <<>> /\ Head(Told) = Head(batch) /\ Told' = Tail(Told)
  BY <1>1, ToldIsQueue, ToldShrinks
<1> DEFINE h == Head(batch)
           z == Tail(Told)
           A == Adding(u)
           R == Removing(u)
<1>3. h \in Command /\ z \in Seq(Command) /\ Tail(batch) \in Seq(Command)
  BY <1>1, <1>2, HeadTailProperties
<1>4. /\ u \in torrents' <=> h = A \/ (u \in torrents /\ h # R)
      /\ A # R /\ A \in Command /\ R \in Command
  <2>1. \A t \in Torrent : /\ A # Removing(t) /\ R # Adding(t) /\ (A = Adding(t) <=> t = u)
                           /\ (R = Removing(t) <=> t = u)
    BY Orders
  <2>2. CASE h.type = "add"
    BY <1>1, <1>3, <2>1, <2>2, CommandIs, Orders DEF Handled
  <2>3. CASE h.type # "add"
    BY <1>1, <1>3, <2>1, <2>3, CommandIs, Orders DEF Handled
  <2>4. QED
    BY <2>2, <2>3, Orders
<1>5. /\ Holds(A, Told) <=> Holds(A, z) \/ h = A
      /\ Holds(R, Told) <=> Holds(R, z) \/ h = R
      /\ ThenHolds(A, R, Told) <=> ThenHolds(A, R, z) \/ (h = A /\ Holds(R, z))
      /\ ThenHolds(R, A, Told) <=> ThenHolds(R, A, z) \/ (h = R /\ Holds(A, z))
      /\ EndsAdded(u, Told) <=> EndsAdded(u, z) \/ (h = A /\ ~Holds(R, z))
      /\ AddsAgain(u, Told) <=> AddsAgain(u, z) \/ (h = A /\ ThenHolds(R, A, z))
  BY <1>2, <1>4, OneLess
<1>6. /\ Holds(R, batch) <=> Holds(R, Tail(batch)) \/ h = R
      /\ EndsAdded(u, batch) <=> EndsAdded(u, Tail(batch)) \/ (h = A /\ ~Holds(R, Tail(batch)))
  BY <1>1, <1>4, OneLess
<1>7. /\ ThenHolds(A, R, z) => Holds(A, z) /\ Holds(R, z)
      /\ AddsAgain(u, z) => ThenHolds(R, A, z) /\ ThenHolds(A, R, z)
      /\ ThenHolds(R, A, z) => Holds(A, z) /\ Holds(R, z)
  BY <1>3, Reading
<1>8. /\ Coming(u)' <=> (u \in torrents' /\ ~Holds(R, z)) \/ EndsAdded(u, z)
      /\ Coming(u) <=> (u \in torrents /\ ~Holds(R, Told)) \/ EndsAdded(u, Told)
      /\ After(u, batch)' <=> (u \in torrents' /\ ~Holds(R, Tail(batch))) \/ EndsAdded(u, Tail(batch))
      /\ After(u, batch) <=> (u \in torrents /\ ~Holds(R, batch)) \/ EndsAdded(u, batch)
  BY <1>1, <1>2 DEF Coming, After, EndsAdded
<1>9. /\ WillLose(u)' <=> (u \in torrents' /\ Holds(R, z)) \/ ThenHolds(A, R, z)
      /\ WillLose(u) <=> (u \in torrents /\ Holds(R, Told)) \/ ThenHolds(A, R, Told)
      /\ LosesLast(u)' <=> ~(u \in torrents' /\ ThenHolds(R, A, z)) /\ ~AddsAgain(u, z)
      /\ LosesLast(u) <=> ~(u \in torrents /\ ThenHolds(R, A, Told)) /\ ~AddsAgain(u, Told)
      /\ Holds(A, Told)' <=> Holds(A, z)
  BY <1>2 DEF WillLose, LosesLast
<1> HIDE DEF h, z, A, R
<1>10. h = A \/ h # A
  OBVIOUS
<1>11. CASE h = A
  <2>1. h # R
    BY <1>4, <1>11
  <2>2. (Coming(u)' <=> Coming(u)) /\ (After(u, batch)' <=> After(u, batch))
    BY <1>4, <1>5, <1>6, <1>8, <1>11, <2>1
  <2>3. (WillLose(u)' <=> WillLose(u)) /\ (LosesLast(u) => LosesLast(u)')
    BY <1>4, <1>5, <1>7, <1>9, <1>11, <2>1
  <2>4. Holds(A, Told) <=> Holds(A, Told)' \/ h = A
    BY <1>5, <1>9
  <2>5. QED
    BY <2>1, <2>2, <2>3, <2>4 DEF Done, h, A, R
<1>12. CASE h = R
  <2>1. h # A
    BY <1>4, <1>12
  <2>2. (Coming(u)' <=> Coming(u)) /\ (After(u, batch)' <=> After(u, batch))
    BY <1>4, <1>5, <1>6, <1>8, <1>12, <2>1
  <2>3. u \in torrents => WillLose(u)
    BY <1>5, <1>9, <1>12
  <2>4. u \in torrents /\ LosesLast(u) => ~WillLose(u)' /\ LosesLast(u)' /\ ~Holds(A, Told)'
    BY <1>4, <1>5, <1>7, <1>9, <1>12, <2>1
  <2>5. u \notin torrents => (WillLose(u)' <=> WillLose(u)) /\ (LosesLast(u) => LosesLast(u)')
    BY <1>4, <1>5, <1>7, <1>9, <1>12, <2>1
  <2>6. Holds(A, Told) <=> Holds(A, Told)' \/ h = A
    BY <1>5, <1>9
  <2>7. QED
    BY <1>12, <2>2, <2>3, <2>4, <2>5, <2>6 DEF Done, h, A, R
<1>13. CASE h # A /\ h # R
  <2>1. (Coming(u)' <=> Coming(u)) /\ (After(u, batch)' <=> After(u, batch))
    BY <1>4, <1>5, <1>6, <1>8, <1>13
  <2>2. (WillLose(u)' <=> WillLose(u)) /\ (LosesLast(u) => LosesLast(u)')
    BY <1>4, <1>5, <1>7, <1>9, <1>13
  <2>3. Holds(A, Told) <=> Holds(A, Told)' \/ h = A
    BY <1>5, <1>9
  <2>4. QED
    BY <1>13, <2>1, <2>2, <2>3 DEF Done, h, A, R
<1>14. QED
  BY <1>11, <1>12, <1>13


LEMMA Handling ==
    ASSUME NEW cmd \in Command, Handled(cmd), NEW u \in Torrent
    PROVE  /\ u \in torrents' <=> cmd = Adding(u) \/ (u \in torrents /\ cmd # Removing(u))
           /\ u \in magnets' <=> u \in magnets /\ ~(cmd = Removing(u) /\ u \in torrents)
<1>1. \A t \in Torrent : /\ Adding(u) # Removing(t) /\ Removing(u) # Adding(t)
                         /\ Adding(u) = Adding(t) <=> t = u
                         /\ Removing(u) = Removing(t) <=> t = u
  BY Orders
<1>2. CASE cmd.type = "add"
  BY <1>1, <1>2, CommandIs DEF Handled
<1>3. CASE cmd.type # "add"
  BY <1>1, <1>3, CommandIs DEF Handled
<1>4. QED
  BY <1>2, <1>3

LEMMA HandleCommandStep ==
    ASSUME IInv, HandleCommand
    PROVE  IInv'
<1>1. TypeOK /\ Bookkeeping
  BY DEF IInv, Bookkeeping
<1>2. /\ running /\ running' /\ links' = links /\ batch # <<>>
      /\ batch' = Tail(batch) /\ commands' = commands /\ Handled(Head(batch))
      /\ cached_status' = cached_status /\ crossed' = crossed
      /\ allowed' = allowed /\ wanted' = wanted
      /\ caller' = caller
      /\ unseen' = {u \in unseen : Holds(Removing(u), Told)'}
  BY DEF HandleCommand, Told, Holds
<1> DEFINE h == Head(batch)
<1>3. batch \in Seq(Command) /\ h \in Command /\ Tail(batch) \in Seq(Command)
  BY <1>1, <1>2, HeadTailProperties DEF TypeOK
<1>4. \A u \in Torrent : /\ u \in torrents' <=> h = Adding(u) \/ (u \in torrents /\ h # Removing(u))
                         /\ u \in magnets' <=> u \in magnets /\ ~(h = Removing(u) /\ u \in torrents)
  BY <1>2, <1>3, Handling
<1>5. Told \in Seq(Command) /\ Told # <<>> /\ Head(Told) = h /\ Told' = Tail(Told)
  BY <1>1, <1>2, ToldIsQueue, ToldShrinks
<1>6. TypeOK'
  <2>1. torrents' \subseteq Torrent /\ magnets' \subseteq Torrent
    <3>1. h.torrent \in Torrent
      BY <1>3, CommandIs
    <3>2. QED
      BY <1>1, <1>2, <3>1 DEF Handled, TypeOK
  <2>2. QED
    BY <1>1, <1>2, <1>3, <2>1 DEF TypeOK
<1>7. \A u : (Pushing(u)' <=> Pushing(u)) /\ (Remembering(u)' <=> Remembering(u))
  BY <1>2 DEF Pushing, Remembering
<1>8. \A u \in Torrent : Done(u)
  BY <1>1, Doing
<1>9. StartsAlone'
  <2>1. /\ Len(Told) \in Nat \ {0} /\ DOMAIN Told = 1 .. Len(Told) /\ h = Told[1]
        /\ \A j \in DOMAIN Told' : j + 1 \in DOMAIN Told /\ Told'[j] = Told[j + 1]
    <3>1. Len(Told) \in Nat \ {0} /\ DOMAIN Told = 1 .. Len(Told)
      BY <1>5, EmptySeq, LenProperties
    <3>2. /\ Told' \in Seq(Command) /\ Len(Told') = Len(Told) - 1
          /\ \A j \in 1 .. Len(Told') : Told'[j] = Told[j + 1]
      BY <1>5, HeadTailProperties
    <3>3. DOMAIN Told' = 1 .. Len(Told) - 1
      BY <3>2, LenProperties
    <3>4. h = Told[1]
      BY <1>5
    <3>5. QED
      BY <3>1, <3>2, <3>3, <3>4
  <2>2. ASSUME NEW i \in DOMAIN links
        PROVE  /\ links[i] \notin torrents' \cup cached_status
               /\ \A j \in DOMAIN Told' : Told'[j].torrent # links[i]
    <3>1. /\ links[i] \notin torrents \cup cached_status
          /\ \A j \in DOMAIN Told : Told[j].torrent # links[i]
      BY <1>1 DEF Bookkeeping, StartsAlone
    <3>2. links[i] \in Torrent
      BY <1>1, ElementOfSeq, LenProperties DEF TypeOK
    <3>3. h.torrent # links[i]
      BY <2>1, <3>1
    <3>4. links[i] \notin torrents'
      BY <1>4, <3>1, <3>2, <3>3, Orders
    <3>5. QED
      BY <2>1, <3>1, <3>4
  <2>3. QED
    BY <1>1, <1>2, <2>2 DEF Bookkeeping, StartsAlone
<1>10. OrdersArrive'
  <2>1. \A u \in Torrent : Coming(u)' <=> Coming(u)
    BY <1>8 DEF Done
  <2>2. QED
    BY <1>1, <1>2, <1>7, <2>1 DEF Bookkeeping, OrdersArrive
<1>11. MagnetsLeadBack'
  <2>1. ASSUME NEW u \in magnets'
        PROVE  u \in torrents' \/ Pushing(u)' \/ Holds(Adding(u), Told)' \/ Holds(u, links)'
    <3>1. u \in Torrent
      BY <1>6 DEF TypeOK
    <3>2. u \in magnets /\ ~(h = Removing(u) /\ u \in torrents)
      BY <1>4, <3>1
    <3>3. u \in torrents \/ Pushing(u) \/ Holds(Adding(u), Told) \/ Holds(u, links)
      BY <1>1, <1>2, <3>2 DEF Bookkeeping, MagnetsLeadBack
    <3>4. Holds(u, links)' <=> Holds(u, links)
      BY <1>2 DEF Holds
    <3>5. Holds(Adding(u), Told) => Holds(Adding(u), Told)' \/ h = Adding(u)
      BY <1>8, <3>1 DEF Done
    <3>6. QED
      BY <1>4, <1>7, <3>1, <3>2, <3>3, <3>4, <3>5
  <2>2. QED
    BY <2>1 DEF MagnetsLeadBack
\* A torrent whose removal was handled is not told to be removed again
<1>14. ASSUME NEW u \in Torrent, u \in unseen \ unseen'
       PROVE  /\ ~Holds(Removing(u), Told)' /\ ~ThenHolds(Adding(u), Removing(u), Told)'
              /\ ~ThenHolds(Adding(u), Removing(u), commands)
  <2>1. ~Holds(Removing(u), Told)'
    BY <1>2, <1>14
  <2>2. ~ThenHolds(Adding(u), Removing(u), Told)'
    BY <2>1 DEF ThenHolds, Holds
  <2>3. ASSUME NEW j \in DOMAIN commands, commands[j] = Removing(u)
        PROVE  FALSE
    <3>1. commands \in Seq(Command) /\ Tail(batch) \in Seq(Command) /\ Told' = Tail(batch) \o commands
      BY <1>1, <1>2, <1>3 DEF TypeOK, Told
    <3>2. /\ Len(commands) \in Nat /\ Len(Tail(batch)) \in Nat /\ DOMAIN commands = 1 .. Len(commands)
          /\ Told' \in Seq(Command) /\ Len(Told') = Len(Tail(batch)) + Len(commands)
          /\ \A i \in 1 .. Len(Tail(batch)) + Len(commands) :
               Told'[i] = IF i <= Len(Tail(batch)) THEN Tail(batch)[i]
                          ELSE commands[i - Len(Tail(batch))]
      BY <3>1, LenProperties, ConcatProperties
    <3>3. DOMAIN Told' = 1 .. Len(Told')
      BY <3>2, LenProperties
    <3>4. Len(Tail(batch)) + j \in DOMAIN Told' /\ Told'[Len(Tail(batch)) + j] = Removing(u)
      BY <2>3, <3>2, <3>3
    <3>5. QED
      BY <2>1, <3>4 DEF Holds
  <2>4. QED
    BY <2>1, <2>2, <2>3 DEF ThenHolds
<1>12. ASSUME NEW u \in Torrent \ crossed'
       PROVE  Safe(u)' /\ SeenInTime(u)'
  <2>1. Safe(u) /\ SeenInTime(u) /\ Done(u)
    BY <1>2, <1>8 DEF IInv
  <2>2. /\ u \in torrents' <=> h = Adding(u) \/ (u \in torrents /\ h # Removing(u))
        /\ u \in magnets' <=> u \in magnets /\ ~(h = Removing(u) /\ u \in torrents)
    BY <1>4
  <2>3. LosesLast(u)'
    BY <2>1 DEF Safe, Done
  <2>4. ASSUME h = Removing(u) /\ u \in torrents
        PROVE  Safe(u)'
    <3>1. WillLose(u) /\ ~WillLose(u)' /\ ~Holds(Adding(u), Told)'
      BY <2>1, <2>4 DEF Safe, Done
    <3>2. ~Pushing(u) /\ u \notin torrents'
      <4>1. ~Remembering(u)
        BY <2>1, <3>1 DEF Safe
      <4>2. h # Adding(u)
        BY <2>4, Orders
      <4>3. QED
        BY <2>2, <2>4, <4>1, <4>2 DEF Remembering
    <3>3. ~Pushing(u)'
      BY <1>7, <3>2
    <3>4. QED
      BY <2>3, <3>1, <3>2, <3>3, Zenon DEF Safe
  <2>5. ASSUME ~(h = Removing(u) /\ u \in torrents)
        PROVE  Safe(u)'
    <3>1. (WillLose(u)' <=> WillLose(u)) /\ (u \in magnets' <=> u \in magnets)
      BY <2>1, <2>2, <2>5 DEF Done
    <3>2. u \in torrents' \/ Pushing(u)' \/ Holds(Adding(u), Told)'
            => u \in torrents \/ Pushing(u) \/ Holds(Adding(u), Told)
      BY <1>7, <2>1, <2>2 DEF Done
    <3>3. (u \in torrents \/ Pushing(u) \/ Holds(Adding(u), Told)) /\ ~WillLose(u) => u \in magnets
      BY <2>1 DEF Safe
    <3>4. Remembering(u)' \/ u \notin cached_status' \cup unseen' => ~WillLose(u)'
      <4>1. u \in unseen \ unseen' => ~WillLose(u)'
        BY <1>14 DEF WillLose
      <4>2. QED
        BY <1>2, <1>7, <2>1, <3>1, <4>1 DEF Safe
    <3>5. (u \in torrents' \/ Pushing(u)' \/ Holds(Adding(u), Told)') /\ ~WillLose(u)' => u \in magnets'
      BY <3>1, <3>2, <3>3, Zenon
    <3>6. QED
      BY <2>3, <3>4, <3>5, Zenon DEF Safe
  <2>6. Safe(u)'
    BY <2>4, <2>5
  <2>7. /\ ThenHolds(Adding(u), Removing(u), commands)' <=> ThenHolds(Adding(u), Removing(u), commands)
        /\ Holds(Adding(u), commands)' <=> Holds(Adding(u), commands)
    BY <1>2 DEF ThenHolds, Holds
  <2>10. u \in unseen \ unseen' => ~ThenHolds(Adding(u), Removing(u), commands)'
    BY <1>2, <1>14 DEF ThenHolds
  <2>8. SeenInTime(u)'
    BY <1>2, <1>7, <2>1, <2>7, <2>10 DEF SeenInTime, Done
  <2>9. QED
    BY <2>6, <2>8
<1>13. QED
  BY <1>6, <1>9, <1>10, <1>11, <1>12 DEF IInv, Bookkeeping

-----------------------------------------------------------------------------
(* End and start of the program                                            *)

\* Nothing is said, nothing is there and no one is at work
LEMMA NothingUnderWay ==
    ASSUME TypeOK', commands' = <<>>, batch' = <<>>, torrents' = {}, cached_status' = {},
           \A c \in Caller : caller'[c] = Idle
    PROVE  /\ Told' = <<>>
           /\ \A u \in Torrent : Safe(u)' /\ SeenInTime(u)' /\ ~Pushing(u)'
<1>1. Told' = <<>>
  BY EmptySeq, ConcatEmptySeq DEF Told
<1>2. ASSUME NEW u \in Torrent
      PROVE  Safe(u)' /\ SeenInTime(u)' /\ ~Pushing(u)'
  <2>1. ~Pushing(u)' /\ ~Remembering(u)'
    BY Places DEF Pushing, Remembering
  <2>2. ~WillLose(u)' /\ LosesLast(u)' /\ ~Holds(Adding(u), Told)'
    <3>1. DOMAIN Told' = {}
      BY <1>1
    <3>2. QED
      BY <3>1 DEF WillLose, LosesLast, Holds, ThenHolds, AddsAgain
  <2>3. Safe(u)'
    BY <2>1, <2>2 DEF Safe
  <2>4. ~ThenHolds(Adding(u), Removing(u), commands)'
    <3>1. DOMAIN commands' = {}
      OBVIOUS
    <3>2. QED
      BY <3>1 DEF ThenHolds
  <2>5. SeenInTime(u)'
    BY <2>4 DEF SeenInTime
  <2>6. QED
    BY <2>1, <2>3, <2>5
<1>3. QED
  BY <1>1, <1>2

LEMMA EndStep ==
    ASSUME IInv, Stop \/ Crash
    PROVE  IInv'
<1>1. TypeOK /\ Bookkeeping
  BY DEF IInv, Bookkeeping
<1>2. /\ running' = FALSE /\ commands' = <<>> /\ batch' = <<>> /\ torrents' = {} /\ cached_status' = {}
      /\ links' = <<>> /\ magnets' = magnets /\ allowed' = allowed /\ wanted' = wanted
      /\ crossed' = crossed /\ unseen' = {} /\ ~(allowed \subseteq {"readd"})
  BY DEF Stop, Crash
<1>3. (\A c \in Caller : caller'[c] = Idle) /\ caller' \in [Caller -> {Idle}]
  <2>1. CASE Stop
    BY <1>1, <2>1 DEF Stop, TypeOK
  <2>2. CASE Crash
    BY <2>2 DEF Crash
  <2>3. QED
    BY <2>1, <2>2
<1>4. TypeOK'
  <2>1. caller' \in [Caller -> {Idle} \cup {At(p, t) : p \in Place, t \in Torrent}]
    BY <1>3
  <2>2. <<>> \in Seq(Command) /\ <<>> \in Seq(Torrent)
    BY EmptySeq
  <2>3. torrents' \cup cached_status' \cup magnets' \cup wanted' \cup unseen' \cup crossed' \subseteq Torrent
    BY <1>1, <1>2 DEF TypeOK
  <2>4. running' \in BOOLEAN
    BY <1>2
  <2>6. allowed' \in Circumstances
    BY <1>1, <1>2 DEF TypeOK
  <2>5. QED
    BY <1>2, <2>1, <2>2, <2>3, <2>4, <2>6 DEF TypeOK
<1>5. Told' = <<>> /\ \A u \in Torrent : Safe(u)' /\ SeenInTime(u)'
  BY <1>2, <1>3, <1>4, NothingUnderWay
<1>6. StartsAlone'
  <2>1. DOMAIN links' = {}
    BY <1>2
  <2>2. QED
    BY <1>2, <1>3, <1>5, <2>1 DEF StartsAlone
<1>7. OrdersArrive' /\ MagnetsLeadBack'
  BY <1>2 DEF OrdersArrive, MagnetsLeadBack
<1>8. QED
  BY <1>4, <1>5, <1>6, <1>7 DEF IInv, Bookkeeping

LEMMA StartStep ==
    ASSUME IInv, Start
    PROVE  IInv'
<1>1. TypeOK /\ Bookkeeping
  BY DEF IInv, Bookkeeping
<1>2. /\ ~running /\ running'
      /\ commands' = commands /\ batch' = batch /\ torrents' = torrents
      /\ cached_status' = cached_status /\ magnets' = magnets /\ caller' = caller
      /\ allowed' = allowed /\ wanted' = wanted /\ unseen' = unseen /\ crossed' = crossed
  BY DEF Start, engineVars, history
<1>3. /\ Told = <<>> /\ torrents = {} /\ cached_status = {}
      /\ \A c \in Caller : caller[c] = Idle
      /\ ~(allowed \subseteq {"readd"})
  BY <1>1, <1>2 DEF Bookkeeping, StartsAlone
<1>4. PICK f \in [1 .. Cardinality(magnets) -> magnets] :
        /\ \A i, j \in DOMAIN f : f[i] = f[j] => i = j
        /\ \A t \in magnets : \E i \in DOMAIN f : f[i] = t
        /\ links' = f
  BY DEF Start
<1>5. links' \in Seq(Torrent)
  <2>1. IsFiniteSet(magnets) /\ magnets \subseteq Torrent
    BY <1>1, CommandsAssumption, FS_Subset DEF TypeOK
  <2>2. Cardinality(magnets) \in Nat
    BY <2>1, FS_CardinalityType
  <2>3. f \in [1 .. Cardinality(magnets) -> Torrent]
    BY <2>1
  <2>4. QED
    BY <1>4, <2>2, <2>3, SeqDef
<1>6. TypeOK'
  BY <1>1, <1>2, <1>5 DEF TypeOK
<1>7. batch = <<>> /\ commands = <<>>
  BY <1>1, <1>3, ConcatEqualIffEmpty DEF TypeOK, Told
<1>8. Told' = <<>> /\ \A u \in Torrent : Safe(u)' /\ SeenInTime(u)'
  BY <1>2, <1>3, <1>6, <1>7, NothingUnderWay
<1>9. StartsAlone'
  <2>1. DOMAIN Told' = {}
    BY <1>8
  <2>2. QED
    BY <1>2, <1>3, <1>4, <2>1 DEF StartsAlone
<1>10. OrdersArrive'
  BY <1>2, <1>3 DEF OrdersArrive
<1>11. MagnetsLeadBack'
  BY <1>2, <1>4 DEF MagnetsLeadBack, Holds
<1>12. QED
  BY <1>6, <1>8, <1>9, <1>10, <1>11 DEF IInv, Bookkeeping


LEMMA RestoreOpensStep ==
    ASSUME IInv, RestoreOpens
    PROVE  IInv'
<1>1. TypeOK /\ Bookkeeping
  BY DEF IInv, Bookkeeping
<1> DEFINE t == Head(links)
<1>2. /\ links # <<>> /\ magnets' = magnets \ {t}
      /\ running' = running /\ links' = links
      /\ commands' = commands /\ batch' = batch /\ torrents' = torrents
      /\ cached_status' = cached_status /\ caller' = caller
      /\ allowed' = allowed /\ wanted' = wanted /\ unseen' = unseen /\ crossed' = crossed
  BY DEF RestoreOpens, engineVars, history
<1>3. 1 \in DOMAIN links /\ links[1] = t /\ t \in Torrent
  BY <1>1, <1>2, EmptySeq, LenProperties, HeadTailProperties DEF TypeOK
<1>4. /\ t \notin torrents \cup cached_status
      /\ \A j \in DOMAIN Told : Told[j].torrent # t
      /\ \A c \in Caller : caller[c] = Idle
  BY <1>1, <1>2, <1>3 DEF Bookkeeping, StartsAlone
<1>5. TypeOK'
  BY <1>1, <1>2 DEF TypeOK
<1>6. Told' = Told /\ \A u : Coming(u)' <=> Coming(u)
  BY <1>2, QueueSame
<1>7. \A u : (Pushing(u)' <=> Pushing(u)) /\ (Remembering(u)' <=> Remembering(u))
  BY <1>2 DEF Pushing, Remembering
<1>8. Bookkeeping'
  <2>1. StartsAlone'
    BY <1>1, <1>2, <1>6 DEF Bookkeeping, StartsAlone
  <2>2. OrdersArrive'
    BY <1>1, <1>2, <1>6, <1>7 DEF Bookkeeping, OrdersArrive
  <2>3. MagnetsLeadBack'
    BY <1>1, <1>2, <1>6, <1>7 DEF Bookkeeping, MagnetsLeadBack, Holds
  <2>4. QED
    BY <1>5, <2>1, <2>2, <2>3 DEF Bookkeeping
<1>9. ASSUME NEW u \in Torrent \ crossed'
      PROVE  Safe(u)' /\ SeenInTime(u)'
  <2>1. Safe(u) /\ SeenInTime(u)
    BY <1>2 DEF IInv
  <2>2. /\ WillLose(u)' <=> WillLose(u)
        /\ LosesLast(u)' <=> LosesLast(u)
        /\ After(u, batch)' <=> After(u, batch)
    BY <1>2, <1>6 DEF WillLose, LosesLast, After
  <2>3. u \in torrents \/ Pushing(u) \/ Holds(Adding(u), Told) => u # t
    <3>1. ~Pushing(t)
      BY <1>4, Places DEF Pushing
    <3>2. ~Holds(Adding(t), Told)
      BY <1>3, <1>4, Orders DEF Holds
    <3>3. QED
      BY <1>4, <3>1, <3>2
  <2>4. Safe(u)'
    BY <1>2, <1>6, <1>7, <2>1, <2>2, <2>3 DEF Safe, Holds
  <2>5. SeenInTime(u)'
    BY <1>2, <1>7, <2>1, <2>2 DEF SeenInTime, ThenHolds, Holds
  <2>6. QED
    BY <2>4, <2>5
<1>10. QED
  BY <1>8, <1>9 DEF IInv

LEMMA RestoreAddsStep ==
    ASSUME IInv, RestoreAdds
    PROVE  IInv'
<1>1. TypeOK /\ Bookkeeping
  BY DEF IInv, Bookkeeping
<1> DEFINE t == Head(links)
<1>2. /\ links # <<>> /\ magnets' = magnets \cup {t}
      /\ running' = running /\ links' = Tail(links)
      /\ commands' = Append(commands, Adding(t)) /\ batch' = batch /\ torrents' = torrents
      /\ cached_status' = cached_status /\ caller' = caller
      /\ allowed' = allowed /\ wanted' = wanted /\ unseen' = unseen /\ crossed' = crossed
  BY DEF RestoreAdds, engineVars, history
<1>3. /\ Len(links) \in Nat \ {0} /\ DOMAIN links = 1 .. Len(links) /\ links[1] = t
      /\ t \in Torrent /\ links' \in Seq(Torrent)
      /\ \A i \in DOMAIN links' : i + 1 \in DOMAIN links /\ links'[i] = links[i + 1]
      /\ \A i \in DOMAIN links : i # 1 => i - 1 \in DOMAIN links' /\ links'[i - 1] = links[i]
      /\ DOMAIN links' \subseteq Nat \ {0}
  <2>1. links \in Seq(Torrent)
    BY <1>1 DEF TypeOK
  <2>2. Len(links) \in Nat \ {0} /\ DOMAIN links = 1 .. Len(links)
    BY <1>2, <2>1, EmptySeq, LenProperties
  <2>3. /\ t \in Torrent /\ links' \in Seq(Torrent) /\ Len(links') = Len(links) - 1
        /\ \A i \in 1 .. Len(links') : links'[i] = links[i + 1]
    BY <1>2, <2>1, HeadTailProperties
  <2>4. DOMAIN links' = 1 .. Len(links) - 1
    BY <2>3, LenProperties
  <2>5. links[1] = t
    OBVIOUS
  <2>6. QED
    BY <2>2, <2>3, <2>4, <2>5
<1>4. /\ t \notin torrents \cup cached_status
      /\ \A j \in DOMAIN Told : Told[j].torrent # t
      /\ \A c \in Caller : caller[c] = Idle
      /\ \A i, j \in DOMAIN links : links[i] = links[j] => i = j
      /\ \A i \in DOMAIN links : /\ links[i] \notin torrents \cup cached_status
                                 /\ \A j \in DOMAIN Told : Told[j].torrent # links[i]
      /\ ~(allowed \subseteq {"readd"}) /\ running
  BY <1>1, <1>2, <1>3 DEF Bookkeeping, StartsAlone
<1>5. Adding(t) \in Command
  BY <1>3, Orders
<1>6. TypeOK'
  <2>1. commands' \in Seq(Command)
    BY <1>1, <1>2, <1>5, AppendProperties DEF TypeOK
  <2>2. QED
    BY <1>1, <1>2, <1>3, <2>1 DEF TypeOK
<1>7. \A u \in Torrent : Said(Adding(t), u)
  BY <1>1, <1>2, <1>5, Saying
<1>8. \A u \in Torrent : (Adding(t) = Adding(u) <=> t = u) /\ Adding(t) # Removing(u)
  BY <1>3, Orders
<1>9. \A u : (Pushing(u)' <=> Pushing(u)) /\ (Remembering(u)' <=> Remembering(u))
  BY <1>2 DEF Pushing, Remembering
<1>10. StartsAlone'
  <2>1. /\ Told \in Seq(Command) /\ Told' = Append(Told, Adding(t))
    BY <1>1, <1>2, <1>5, ToldIsQueue, ToldGrows
  <2>2. \A j \in DOMAIN Told' : (j \in DOMAIN Told /\ Told'[j] = Told[j]) \/ Told'[j] = Adding(t)
    <3>1. /\ Len(Told') = Len(Told) + 1 /\ Told'[Len(Told) + 1] = Adding(t)
          /\ \A i \in 1 .. Len(Told) : Told'[i] = Told[i]
          /\ Told' \in Seq(Command)
      BY <1>5, <2>1, AppendProperties
    <3>2. Len(Told) \in Nat /\ DOMAIN Told = 1 .. Len(Told) /\ DOMAIN Told' = 1 .. Len(Told')
      BY <2>1, <3>1, LenProperties
    <3>3. QED
      BY <3>1, <3>2
  <2>3. ASSUME NEW i \in DOMAIN links'
        PROVE  /\ links'[i] \notin torrents \cup cached_status
               /\ \A j \in DOMAIN Told' : Told'[j].torrent # links'[i]
    <3>1. i + 1 \in DOMAIN links /\ links'[i] = links[i + 1] /\ i + 1 # 1
      BY <1>3
    <3>2. links[i + 1] # t
      BY <1>3, <1>4, <3>1
    <3>3. Adding(t).torrent = t
      BY <1>3, Orders
    <3>4. QED
      BY <1>4, <2>2, <3>1, <3>2, <3>3
  <2>4. ASSUME NEW i \in DOMAIN links', NEW j \in DOMAIN links', links'[i] = links'[j]
        PROVE  i = j
    <3>1. i + 1 = j + 1
      BY <1>3, <1>4, <2>4
    <3>2. QED
      BY <1>3, <3>1
  <2>5. QED
    BY <1>2, <1>4, <2>3, <2>4 DEF StartsAlone
<1>11. OrdersArrive'
  BY <1>2, <1>4 DEF OrdersArrive
<1>12. MagnetsLeadBack'
  <2>1. ASSUME NEW u \in magnets'
        PROVE  u \in torrents' \/ Pushing(u)' \/ Holds(Adding(u), Told)' \/ Holds(u, links)'
    <3>1. u \in Torrent
      BY <1>6 DEF TypeOK
    <3>2. CASE u = t
      BY <1>7, <3>1, <3>2 DEF Said
    <3>3. CASE u # t
      <4>1. u \in torrents \/ Pushing(u) \/ Holds(Adding(u), Told) \/ Holds(u, links)
        BY <1>1, <1>2, <1>4, <3>3 DEF Bookkeeping, MagnetsLeadBack
      <4>2. Holds(u, links) => Holds(u, links)'
        BY <1>3, <3>3 DEF Holds
      <4>3. Holds(Adding(u), Told) => Holds(Adding(u), Told)'
        BY <1>7, <3>1 DEF Said
      <4>4. QED
        BY <1>2, <1>9, <4>1, <4>2, <4>3
    <3>4. QED
      BY <3>2, <3>3
  <2>2. QED
    BY <2>1 DEF MagnetsLeadBack
<1>13. ASSUME NEW u \in Torrent \ crossed'
       PROVE  Safe(u)' /\ SeenInTime(u)'
  <2>1. Safe(u) /\ SeenInTime(u) /\ Said(Adding(t), u)
    BY <1>2, <1>7 DEF IInv
  <2>2. CASE u = t
    <3>1. ~Holds(Adding(u), Told) /\ ~Holds(Removing(u), Told)
      <4>1. Adding(u).torrent = t /\ Removing(u).torrent = t
        BY <1>3, <2>2, Orders
      <4>2. QED
        BY <1>4, <4>1 DEF Holds
    <3>2. ~WillLose(u)
      <4>1. Told \in Seq(Command)
        BY <1>1, ToldIsQueue
      <4>2. QED
        BY <3>1, <4>1, Reading DEF WillLose
    <3>3. ~WillLose(u)' /\ LosesLast(u)'
      BY <1>8, <2>1, <3>2 DEF Said, Safe
    <3>4. Safe(u)'
      BY <1>2, <2>2, <3>3 DEF Safe
    <3>5. u \notin cached_status'
      BY <1>2, <1>4, <2>2
    <3>6. SeenInTime(u)'
      BY <1>2, <1>8, <2>1, <3>5 DEF SeenInTime, Said
    <3>7. QED
      BY <3>4, <3>6
  <2>3. CASE u # t
    <3>1. Safe(u)'
      BY <1>2, <1>8, <1>9, <2>1, <2>3 DEF Safe, Said
    <3>2. SeenInTime(u)'
      BY <1>2, <1>8, <1>9, <2>1, <2>3 DEF SeenInTime, Said
    <3>3. QED
      BY <3>1, <3>2
  <2>4. QED
    BY <2>2, <2>3
<1>14. QED
  BY <1>6, <1>10, <1>11, <1>12, <1>13 DEF IInv, Bookkeeping

-----------------------------------------------------------------------------
(* The theorems                                                            *)

LEMMA InitialState ==
    ASSUME Init
    PROVE  IInv
<1>1. <<>> \in Seq(Command) /\ <<>> \in Seq(Torrent) /\ DOMAIN <<>> = {}
  BY EmptySeq
<1>2. TypeOK
  BY <1>1 DEF Init, TypeOK
<1>3. Told = <<>>
  BY <1>1, ConcatEmptySeq DEF Init, Told
<1>4. \A t : ~Pushing(t) /\ ~Remembering(t)
  BY Places DEF Init, Pushing, Remembering
<1>5. \A t : /\ ~Holds(Adding(t), Told) /\ ~Holds(Removing(t), Told) /\ ~EndsAdded(t, Told)
             /\ ~ThenHolds(Adding(t), Removing(t), Told) /\ ~ThenHolds(Removing(t), Adding(t), Told)
             /\ ~AddsAgain(t, Told)
  BY <1>3, NothingSaid
<1>6. StartsAlone
  BY <1>1, <1>3 DEF Init, StartsAlone
<1>7. OrdersArrive
  <2>1. \A t \in Torrent : ~Coming(t)
    BY <1>5, AfterIsComes DEF Init, Coming, Comes
  <2>2. QED
    BY <2>1 DEF Init, OrdersArrive
<1>8. MagnetsLeadBack
  BY DEF Init, MagnetsLeadBack
<1>9. ASSUME NEW t \in Torrent
      PROVE  Safe(t) /\ SeenInTime(t)
  <2>1. Safe(t)
    BY <1>4, <1>5 DEF Init, Safe, WillLose, LosesLast
  <2>2. ~ThenHolds(Adding(t), Removing(t), commands)
    BY NothingSaid DEF Init
  <2>3. SeenInTime(t)
    BY <2>2 DEF Init, SeenInTime
  <2>4. QED
    BY <2>1, <2>3
<1>10. QED
  BY <1>2, <1>6, <1>7, <1>8, <1>9 DEF IInv, Bookkeeping

LEMMA Stutter ==
    ASSUME IInv, UNCHANGED vars
    PROVE  IInv'
<1>1. /\ running' = running /\ links' = links /\ commands' = commands /\ batch' = batch
      /\ torrents' = torrents /\ cached_status' = cached_status /\ caller' = caller
      /\ magnets' = magnets /\ allowed' = allowed /\ wanted' = wanted /\ unseen' = unseen /\ crossed' = crossed
  BY DEF vars, engineVars, history
<1>2. Told' = Told
  BY <1>1 DEF Told
<1>3. TypeOK'
  BY <1>1 DEF IInv, Bookkeeping, TypeOK
<1>4. StartsAlone' /\ OrdersArrive' /\ MagnetsLeadBack'
  <2>1. \A u : (Pushing(u)' <=> Pushing(u)) /\ (Coming(u)' <=> Coming(u))
    BY <1>1, <1>2 DEF Pushing, Coming, After
  <2>2. QED
    BY <1>1, <1>2, <2>1 DEF IInv, Bookkeeping, StartsAlone, OrdersArrive, MagnetsLeadBack, Holds
<1>5. ASSUME NEW u \in Torrent \ crossed'
      PROVE  Safe(u)' /\ SeenInTime(u)'
  <2>1. Safe(u) /\ SeenInTime(u)
    BY <1>1 DEF IInv
  <2>2. /\ WillLose(u)' <=> WillLose(u)
        /\ LosesLast(u)' <=> LosesLast(u)
        /\ After(u, batch)' <=> After(u, batch)
        /\ Pushing(u)' <=> Pushing(u)
        /\ Remembering(u)' <=> Remembering(u)
    BY <1>1, <1>2 DEF WillLose, LosesLast, After, Pushing, Remembering
  <2>3. Safe(u)'
    BY <1>1, <1>2, <2>1, <2>2 DEF Safe, Holds
  <2>4. SeenInTime(u)'
    BY <1>1, <2>1, <2>2 DEF SeenInTime, ThenHolds, Holds
  <2>5. QED
    BY <2>3, <2>4
<1>6. QED
  BY <1>3, <1>4, <1>5 DEF IInv, Bookkeeping

LEMMA Inductive ==
    Spec => []IInv
<1>1. Init => IInv
  BY InitialState
<1>2. IInv /\ [Next]_vars => IInv'
  <2>1. ASSUME IInv, Next
        PROVE  IInv'
    <3>1. ASSUME NEW c \in Caller, Calls(c)
          PROVE  IInv'
      BY <2>1, <3>1, LookAtSnapshotStep, RememberMagnetStep, PushAddStep, LookForRemovalStep,
         PushRemoveStep DEF Calls
    <3>2. ASSUME Engine
          PROVE  IInv'
      BY <2>1, <3>2, TakeBatchStep, HandleCommandStep, PublishStatusStep DEF Engine
    <3>3. ASSUME NEW c \in Caller, NEW t \in Torrent, Add(c, t) \/ RemoveTorrent(c, t)
          PROVE  IInv'
      BY <2>1, <3>3, AddStep, RemoveTorrentStep
    <3>4. ASSUME Stop \/ Crash \/ Start \/ RestoreOpens \/ RestoreAdds
          PROVE  IInv'
      BY <2>1, <3>4, EndStep, StartStep, RestoreOpensStep, RestoreAddsStep
    <3>5. QED
      BY <2>1, <3>1, <3>2, <3>3, <3>4 DEF Next
  <2>2. QED
    BY <2>1, Stutter
<1>3. QED
  BY <1>1, <1>2, PTL DEF Spec

\* Once every order was handled the session has the torrents that the latest orders asked
\* for (as long as the program went on) and no .magnet file without its torrent; and what
\* this rests on, whatever the torrents, the callers and the number of their orders
\* (add_magnet(), remove(), process_commands(), restore_torrents()).
THEOREM OrdersAreObeyed ==
    Spec => []CommandsInvariant
<1>1. IInv => CommandsInvariant
  <2>1. SUFFICES ASSUME IInv
                 PROVE  CommandsInvariant
    OBVIOUS
  <2>2. TypeOK /\ StartsAlone /\ OrdersArrive /\ MagnetsLeadBack
    BY <2>1 DEF IInv, Bookkeeping
  <2>3. \A t \in Torrent \ crossed : NotTakenBack(t) /\ SeenInTime(t)
    BY <2>1, <2>2, SafeIsNotTakenBack DEF IInv
  <2>4. ASSUME Settled
        PROVE  /\ \A t : ~Pushing(t) /\ ~Holds(Adding(t), Told) /\ ~Holds(t, links)
               /\ \A t : Coming(t) <=> t \in torrents
    <3>1. Told = <<>> /\ DOMAIN links = {}
      <4>1. <<>> \in Seq(Command)
        BY EmptySeq
      <4>2. QED
        BY <2>4, <4>1, ConcatEmptySeq DEF Settled, Told
    <3>2. \A t : ~Pushing(t)
      BY <2>4, Places DEF Settled, Pushing
    <3>3. \A t : ~Holds(Adding(t), Told) /\ ~Holds(Removing(t), Told) /\ ~EndsAdded(t, Told)
      BY <3>1, NothingSaid
    <3>4. \A t : Coming(t) <=> t \in torrents
      BY <3>3, AfterIsComes DEF Coming, Comes
    <3>5. QED
      BY <3>1, <3>2, <3>3, <3>4 DEF Holds
  <2>5. LatestOrderWins
    <3>1. SUFFICES ASSUME Settled, allowed \subseteq {"readd"}
                   PROVE  torrents = wanted
      BY DEF LatestOrderWins
    <3>2. \A t \in Torrent : t \in torrents <=> t \in wanted
      BY <2>2, <2>4, <3>1 DEF OrdersArrive
    <3>3. torrents \subseteq Torrent /\ wanted \subseteq Torrent
      BY <2>2 DEF TypeOK
    <3>4. QED
      BY <3>2, <3>3
  <2>6. NoStrayMagnet
    BY <2>2, <2>4 DEF NoStrayMagnet, MagnetsLeadBack, Settled
  <2>7. QED
    BY <2>2, <2>3, <2>5, <2>6 DEF CommandsInvariant
<1>2. QED
  BY <1>1, Inductive, PTL

\* At whatever moment the program ends, a torrent that the engine has and no one removes
\* has the link that brings it back, unless an add and a removal of it have crossed.
THEOREM AcceptedTorrentsSurvive ==
    Spec => []AcceptedSurvives
<1>1. IInv => AcceptedSurvives
  <2>1. SUFFICES ASSUME IInv, NEW t \in (torrents \cap wanted) \ crossed
                 PROVE  t \in magnets \/ \E i \in DOMAIN Told : Told[i].torrent = t
    BY DEF AcceptedSurvives
  <2>2. TypeOK
    BY <2>1 DEF IInv, Bookkeeping
  <2>3. t \in Torrent
    BY <2>2 DEF TypeOK
  <2>4. CASE WillLose(t)
    <3>1. PICK i \in DOMAIN Told : Told[i] = Removing(t)
      BY <2>2, <2>3, <2>4, SafeIsNotTakenBack DEF Doomed, Takes
    <3>2. QED
      BY <2>3, <3>1, Orders
  <2>5. CASE ~WillLose(t)
    BY <2>1, <2>3, <2>5 DEF IInv, Safe
  <2>6. QED
    BY <2>4, <2>5
<1>2. QED
  BY <1>1, Inductive, PTL


=============================================================================
