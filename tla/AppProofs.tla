------------------------------ MODULE AppProofs ------------------------------
(***************************************************************************)
(* The main thread and those it drives, whatever the torrents, the ports   *)
(* and the work: who uses the session is gone before it, results are read  *)
(* whole, and an order is about the torrent that was on the screen.        *)
(***************************************************************************)
EXTENDS App, FiniteSetTheorems, SequenceTheorems, TLAPS

-----------------------------------------------------------------------------
(* The inductive invariant                                                 *)

\* A list of torrents, none of them twice
Rows(l) ==
    /\ l \in Seq([hash : Hash, state : State])
    /\ \A i, j \in DOMAIN l : l[i].hash = l[j].hash => i = j

\* The torrent of an open panel is the one that the screen named, or is about to
MenuInv ==
    /\ Rows(list) /\ Rows(shown)
    /\ selection \in 1 .. Cardinality(Hash)
    /\ held \in Hash \cup {None} /\ panel \in Hash \cup {None}
    /\ order \in [what : Order, hash : Hash \cup {None}]
    /\ held # None => panel = held \/ (at # "input" /\ Has(shown, held))

WorkInv ==
    /\ flag \in [Worker -> BOOLEAN]
    /\ work \in [Worker -> {"none", "begun", "busy", "written", "done"}]
    /\ tasks \in [Worker -> 0 .. MaxTasks]
    /\ ResultsAreWhole

\* A server that runs has a thread, and one with a thread has its session
ServersInv ==
    /\ running \in [Server -> BOOLEAN]
    /\ thread \in [Server -> Gone \cup Serving \cup {"poll", "accept"}]
    /\ port \in [Server -> 0 .. Ports] /\ items \in [Server -> PhoneCalls \cup RemoteCalls]
    /\ engine \in [Server -> BOOLEAN]
    /\ \A s \in Server : (running[s] => thread[s] # "none") /\ (thread[s] # "none" => engine[s])
    /\ step = "off" => ~ ap /\ ~ running["phone"]

\* The calls of the shutdown from the i-th on
Remaining(i) == SubSeq(ShutdownCalls, i, 6)

\* What the calls before the i-th have ended
EndedBefore(i) ==
    /\ i > 1 => thread["phone"] = "none" /\ ~ ap
    /\ i > 2 => thread["remote"] = "none"
    /\ i > 3 => work["extract"] = "none"
    /\ i > 4 => work["search"] = "none"
    /\ i > 5 => work["diag"] = "none"
    /\ IF i > 6 THEN ~ alive /\ ~ awake ELSE alive

\* The calls to make: at most one stop of a server as long as the program runs, then those
\* of the shutdown
CallsInv ==
    /\ at \in {"frame", "input", "quit"}
    /\ at # "quit" => alive /\ todo \in {<<>>, <<"phone">>, <<"remote">>}
    /\ at = "input" => todo = <<>>
    /\ at = "quit" => \E i \in 1 .. 7 :
          /\ EndedBefore(i)
          /\ \/ todo = Remaining(i)
             \/ i = 3 /\ todo = <<"cancelled">> \o Remaining(4)
    /\ ap => running["phone"] \/ (todo # <<>> /\ Head(todo) = "phone")

AppIInv == MenuInv /\ WorkInv /\ ServersInv /\ CallsInv

-----------------------------------------------------------------------------
(* Lists and their rows                                                    *)

LEMMA RowRemoved ==
    ASSUME NEW S, NEW s \in Seq(S), NEW i \in DOMAIN s
    PROVE  /\ RemoveAt(s, i) \in Seq(S) /\ Len(RemoveAt(s, i)) = Len(s) - 1
           /\ \A k \in 1 .. Len(s) - 1 :
                RemoveAt(s, i)[k] = IF k < i THEN s[k] ELSE s[k + 1]
<1> DEFINE a == SubSeq(s, 1, i - 1)
<1> DEFINE b == SubSeq(s, i + 1, Len(s))
<1>1. Len(s) \in Nat /\ DOMAIN s = 1 .. Len(s) /\ i \in 1 .. Len(s)
  BY LenProperties
<1>2. \A k \in 1 .. Len(s) : s[k] \in S
  BY <1>1, ElementOfSeq
<1>3. /\ a \in Seq(S) /\ Len(a) = i - 1
      /\ \A k \in 1 .. i - 1 : a[k] = s[k]
  <2>1. \A k \in 1 .. i - 1 : s[k] \in S
    BY <1>1, <1>2
  <2>2. /\ a \in Seq(S)
        /\ Len(a) = IF 1 <= i - 1 THEN i - 1 - 1 + 1 ELSE 0
        /\ \A k \in 1 .. i - 1 - 1 + 1 : a[k] = s[1 + k - 1]
    BY <1>1, <2>1, SubSeqProperties
  <2>3. QED
    BY <1>1, <2>2
<1>4. /\ b \in Seq(S) /\ Len(b) = Len(s) - i
      /\ \A k \in 1 .. Len(s) - i : b[k] = s[i + k]
  <2>1. \A k \in i + 1 .. Len(s) : s[k] \in S
    BY <1>1, <1>2
  <2>2. /\ b \in Seq(S)
        /\ Len(b) = IF i + 1 <= Len(s) THEN Len(s) - (i + 1) + 1 ELSE 0
        /\ \A k \in 1 .. Len(s) - (i + 1) + 1 : b[k] = s[i + 1 + k - 1]
    BY <1>1, <2>1, SubSeqProperties
  <2>3. QED
    BY <1>1, <2>2
<1> HIDE DEF a, b
<1>5. RemoveAt(s, i) = a \o b
  BY DEF RemoveAt, a, b
<1>6. /\ a \o b \in Seq(S) /\ Len(a \o b) = Len(a) + Len(b)
      /\ \A k \in 1 .. Len(a) + Len(b) :
           (a \o b)[k] = IF k <= Len(a) THEN a[k] ELSE b[k - Len(a)]
  BY <1>3, <1>4, ConcatProperties
<1>7. ASSUME NEW k \in 1 .. Len(s) - 1
      PROVE  (a \o b)[k] = IF k < i THEN s[k] ELSE s[k + 1]
  <2>1. (a \o b)[k] = IF k <= Len(a) THEN a[k] ELSE b[k - Len(a)]
    BY <1>1, <1>3, <1>4, <1>6
  <2>2. CASE k < i
    BY <1>1, <1>3, <2>1, <2>2
  <2>3. CASE ~(k < i)
    <3>1. k - Len(a) \in 1 .. Len(s) - i /\ i + (k - Len(a)) = k + 1 /\ ~(k <= Len(a))
      BY <1>1, <1>3, <2>3
    <3>2. QED
      BY <1>4, <2>1, <2>3, <3>1
  <2>4. QED
    BY <2>2, <2>3
<1>8. QED
  BY <1>1, <1>3, <1>4, <1>5, <1>6, <1>7

\* What ListChanges does to a list keeps its torrents apart
LEMMA ListChangeKeepsRows ==
    ASSUME Rows(list), ListChanges
    PROVE  Rows(list')
<1> DEFINE Row == [hash : Hash, state : State]
<1> DEFINE n == Len(list)
<1>1. list \in Seq(Row) /\ n \in Nat /\ DOMAIN list = 1 .. n
  BY LenProperties DEF Rows
<1>2. \A i \in 1 .. n : list[i] \in Row
  BY <1>1, ElementOfSeq
<1>3. \A i, j \in 1 .. n : list[i].hash = list[j].hash => i = j
  BY <1>1 DEF Rows
<1>4. ASSUME NEW h \in Hash, NEW s \in State, ~ Has(list, h),
             list' = Append(list, [hash |-> h, state |-> s])
      PROVE  Rows(list')
  <2> DEFINE r == [hash |-> h, state |-> s]
  <2>1. r \in Row /\ r.hash = h
    OBVIOUS
  <2> HIDE DEF r
  <2>2. /\ Append(list, r) \in Seq(Row) /\ Len(Append(list, r)) = n + 1
        /\ \A i \in 1 .. n : Append(list, r)[i] = list[i]
        /\ Append(list, r)[n + 1] = r
    BY <1>1, <2>1, AppendProperties
  <2>3. list' = Append(list, r)
    BY <1>4 DEF r
  <2>4. DOMAIN list' = 1 .. n + 1
    BY <1>1, <2>2, <2>3, LenProperties
  <2>5. \A i \in 1 .. n : list[i].hash # h
    BY <1>1, <1>4 DEF Has
  <2>6. ASSUME NEW i \in 1 .. n + 1, NEW j \in 1 .. n + 1, list'[i].hash = list'[j].hash
        PROVE  i = j
    <3>1. (i \in 1 .. n \/ i = n + 1) /\ (j \in 1 .. n \/ j = n + 1)
      BY <1>1
    <3>2. QED
      BY <1>1, <1>3, <2>1, <2>2, <2>3, <2>5, <2>6, <3>1
  <2>7. QED
    BY <2>2, <2>3, <2>4, <2>6 DEF Rows
<1>5. ASSUME NEW i \in DOMAIN list, NEW s \in State, list' = [list EXCEPT ![i].state = s]
      PROVE  Rows(list')
  <2>1. list' = [k \in 1 .. n |-> IF k = i THEN [list[k] EXCEPT !.state = s] ELSE list[k]]
    BY <1>1, <1>5
  <2>2. \A k \in 1 .. n : list'[k] \in Row /\ list'[k].hash = list[k].hash
    <3>1. SUFFICES ASSUME NEW k \in 1 .. n
                   PROVE  list'[k] \in Row /\ list'[k].hash = list[k].hash
      OBVIOUS
    <3>2. list[k] \in Row
      BY <1>2
    <3>3. /\ [list[k] EXCEPT !.state = s] \in Row
          /\ [list[k] EXCEPT !.state = s].hash = list[k].hash
      BY <3>2
    <3>4. QED
      BY <2>1, <3>2, <3>3
  <2>3. DOMAIN list' = 1 .. n
    BY <2>1
  <2>4. list' \in Seq(Row)
    BY <1>1, <2>1, <2>2
  <2>5. QED
    BY <1>3, <2>2, <2>3, <2>4 DEF Rows
<1>6. ASSUME NEW i \in DOMAIN list, list' = RemoveAt(list, i)
      PROVE  Rows(list')
  <2>1. /\ list' \in Seq(Row) /\ Len(list') = n - 1
        /\ \A k \in 1 .. n - 1 : list'[k] = IF k < i THEN list[k] ELSE list[k + 1]
    BY <1>1, <1>6, RowRemoved
  <2>2. DOMAIN list' = 1 .. n - 1
    BY <2>1, LenProperties
  <2>3. ASSUME NEW k \in 1 .. n - 1, NEW l \in 1 .. n - 1, list'[k].hash = list'[l].hash
        PROVE  k = l
    <3>1. /\ k \in 1 .. n /\ k + 1 \in 1 .. n /\ l \in 1 .. n /\ l + 1 \in 1 .. n
          /\ k \in Int /\ l \in Int /\ i \in Int
      BY <1>1
    <3>2. CASE k < i /\ l < i
      BY <1>3, <2>1, <2>3, <3>1, <3>2
    <3>3. CASE k < i /\ ~(l < i)
      <4>1. k = l + 1
        BY <1>3, <2>1, <2>3, <3>1, <3>3
      <4>2. QED
        BY <3>1, <3>3, <4>1
    <3>4. CASE ~(k < i) /\ l < i
      <4>1. k + 1 = l
        BY <1>3, <2>1, <2>3, <3>1, <3>4
      <4>2. QED
        BY <3>1, <3>4, <4>1
    <3>5. CASE ~(k < i) /\ ~(l < i)
      <4>1. k + 1 = l + 1
        BY <1>3, <2>1, <2>3, <3>1, <3>5
      <4>2. QED
        BY <3>1, <4>1
    <3>6. QED
      BY <3>2, <3>3, <3>4, <3>5
  <2>4. QED
    BY <2>1, <2>2, <2>3 DEF Rows
<1>7. QED
  BY <1>4, <1>5, <1>6 DEF ListChanges

\* A list is never longer than there are torrents
LEMMA RowsFit ==
    ASSUME NEW l, Rows(l)
    PROVE  /\ Len(l) \in Nat /\ DOMAIN l = 1 .. Len(l) /\ Cardinality(Hash) \in Nat \ {0}
           /\ Len(l) <= Cardinality(Hash)
<1> DEFINE n == Len(l)
<1> DEFINE f == [i \in 1 .. n |-> l[i].hash]
<1>1. n \in Nat /\ DOMAIN l = 1 .. n
  BY LenProperties DEF Rows
<1>2. \A i \in 1 .. n : l[i].hash \in Hash
  <2>1. \A i \in 1 .. n : l[i] \in [hash : Hash, state : State]
    BY <1>1, ElementOfSeq DEF Rows
  <2>2. QED
    BY <2>1
<1>3. f \in Injection(1 .. n, Hash)
  <2>1. f \in [1 .. n -> Hash]
    BY <1>2
  <2>2. \A i, j \in 1 .. n : f[i] = f[j] => i = j
    BY <1>1 DEF Rows
  <2>3. QED
    BY <2>1, <2>2 DEF Injection, IsInjective
<1>4. Cardinality(1 .. n) <= Cardinality(Hash)
  BY <1>3, FS_Injection, AppAssumption
<1>5. Cardinality(1 .. n) = n
  <2>1. ASSUME NEW m \in Nat
        PROVE  Cardinality(1 .. m) = m
    <3>1. 1 \in Int /\ m \in Int
      OBVIOUS
    <3>2. Cardinality(1 .. m) = IF 1 > m THEN 0 ELSE m - 1 + 1
      BY <3>1, FS_Interval
    <3>3. QED
      BY <3>2
  <2>2. QED
    BY <1>1, <2>1
<1>6. Cardinality(Hash) \in Nat /\ Cardinality(Hash) # 0
  BY AppAssumption, FS_CardinalityType, FS_EmptySet
<1>7. QED
  BY <1>1, <1>4, <1>5, <1>6

LEMMA FocusIs ==
    ASSUME Rows(shown), held \in Hash \cup {None}, NEW sel
    PROVE  /\ Focus(shown, sel) \in Hash \cup {None}
           /\ held # None /\ Focus(shown, sel) # None
                => Focus(shown, sel) = held /\ Has(shown, held)
           /\ held = None /\ Focus(shown, sel) # None => Has(shown, Focus(shown, sel))
<1>1. DOMAIN shown = 1 .. Len(shown)
  BY LenProperties DEF Rows
<1>2. \A i \in DOMAIN shown : shown[i].hash \in Hash
  <2>1. \A i \in 1 .. Len(shown) : shown[i] \in [hash : Hash, state : State]
    BY <1>1, ElementOfSeq DEF Rows
  <2>2. QED
    BY <1>1, <2>1
<1>3. QED
  BY <1>2 DEF Focus, Has

-----------------------------------------------------------------------------
(* The menu                                                                *)

\* No one touches what is on the screen
MenuSame == UNCHANGED <<list, shown, selection, held, panel, order, at>>

LEMMA MenuStutters ==
    ASSUME MenuInv, MenuSame
    PROVE  MenuInv'
  BY DEF MenuInv, MenuSame, Rows, Has

LEMMA MenuInit ==
    ASSUME Init
    PROVE  MenuInv
<1>1. Rows(<<>>)
  BY DEF Rows
<1>2. Cardinality(Hash) \in Nat \ {0}
  BY <1>1, RowsFit
<1>3. QED
  BY <1>1, <1>2 DEF MenuInv, Init, NoOrder, Order

\* What an input does to the panel: its torrent stays, or is one of the screen, or none; and
\* an order is about it
InputKeeps ==
    /\ UNCHANGED <<list, shown, panel>> /\ at' = "frame"
    /\ selection' \in 1 .. Cardinality(Hash)
    /\ held' \in {None, held} \/ (held' \in Hash /\ Has(shown, held'))
    /\ \/ order' = order
       \/ /\ order' \in [what : Order, hash : Hash \cup {None}]
          /\ held # None => order'.hash = held

LEMMA InputKeepsMenu ==
    ASSUME MenuInv, at = "input", InputKeeps
    PROVE  /\ MenuInv'
           /\ order' # order /\ order'.what # "none" /\ held # None => order'.hash = panel
<1>1. held # None => panel = held
  BY DEF MenuInv
<1>2. Rows(list') /\ Rows(shown')
  BY DEF MenuInv, InputKeeps, Rows
<1>3. /\ selection' \in 1 .. Cardinality(Hash) /\ held' \in Hash \cup {None}
      /\ panel' \in Hash \cup {None} /\ order' \in [what : Order, hash : Hash \cup {None}]
  BY DEF MenuInv, InputKeeps
<1>4. held' # None => panel' = held' \/ (at' # "input" /\ Has(shown', held'))
  BY <1>1 DEF MenuInv, InputKeeps, Has
<1>5. MenuInv'
  BY <1>2, <1>3, <1>4 DEF MenuInv
<1>6. QED
  BY <1>1, <1>5 DEF InputKeeps

LEMMA EachInputKeeps ==
    ASSUME MenuInv, at = "input", Input
    PROVE  InputKeeps
<1> DEFINE n == Len(shown)
<1>1. /\ n \in Nat /\ n <= Cardinality(Hash)
      /\ Cardinality(Hash) \in Nat \ {0} /\ selection \in 1 .. Cardinality(Hash)
      /\ shown # <<>> => n # 0
  <2>1. shown \in Seq([hash : Hash, state : State]) /\ Rows(shown)
    BY DEF MenuInv, Rows
  <2>2. shown # <<>> => n # 0
    BY <2>1, EmptySeq
  <2>3. QED
    BY <2>1, <2>2, RowsFit DEF MenuInv
<1>2. \A sel \in Nat \ {0} : Clamped(sel) \in 1 .. Cardinality(Hash)
  BY <1>1 DEF Clamped
<1>3. \A sel : /\ Focus(shown, sel) \in Hash \cup {None}
               /\ held # None /\ Focus(shown, sel) # None => Focus(shown, sel) = held
               /\ held = None /\ Focus(shown, sel) # None => Has(shown, Focus(shown, sel))
  BY FocusIs DEF MenuInv
<1>4. CASE Nothing \/ PassGate \/ CloseActions \/ ClosePanel \/ BrowseOrphans \/ EnterDir \/ LeaveDir
  BY <1>1, <1>4 DEF Nothing, PassGate, CloseActions, ClosePanel, BrowseOrphans, EnterDir, LeaveDir,
       NoPanel, Panel, Handled, Closes, Opens, SameMenu, InputKeeps
<1>5. CASE StartSearch \/ AnswerSearch \/ StartDiag
  BY <1>1, <1>5 DEF StartSearch, AnswerSearch, StartDiag, NoPanel, Panel, Handled, Opens, SameMenu,
       InputKeeps
<1>6. CASE OpenPhone \/ ClosePhone \/ SayJoined \/ ApplySettings
  BY <1>1, <1>6 DEF OpenPhone, ClosePhone, SayJoined, ApplySettings, NoPanel, Panel, Handled,
       Elsewhere, SameMenu, InputKeeps
<1>7. CASE MoveCursor
  <2>1. PICK step_ \in {1, n - 1} :
          selection' = IF shown = <<>> THEN 1 ELSE Clamped(((selection - 1 + step_) % n) + 1)
    BY <1>7 DEF MoveCursor
  <2> DEFINE row == ((selection - 1 + step_) % n) + 1
  <2>2. shown # <<>> => row \in Nat \ {0}
    <3>1. SUFFICES ASSUME shown # <<>>
                   PROVE  row \in Nat \ {0}
      OBVIOUS
    <3>2. n \in Nat \ {0} /\ selection - 1 + step_ \in Nat
      BY <1>1, <2>1, <3>1
    <3>3. \A a \in Nat, m \in Nat \ {0} : a % m \in Nat
      OBVIOUS
    <3>4. (selection - 1 + step_) % n \in Nat
      BY <3>2, <3>3
    <3>5. QED
      BY <3>4
  <2>3. selection' \in 1 .. Cardinality(Hash)
    <3>1. selection' = 1 \/ (shown # <<>> /\ selection' = Clamped(row))
      BY <2>1
    <3> HIDE DEF row
    <3>2. 1 \in 1 .. Cardinality(Hash)
      BY <1>1
    <3>3. QED
      BY <1>2, <2>2, <3>1, <3>2
  <2>4. QED
    BY <1>7, <2>3 DEF MoveCursor, NoPanel, Panel, Handled, InputKeeps
<1>8. CASE OpenActions
  <2>1. Clamped(selection) \in 1 .. Cardinality(Hash)
    BY <1>1, <1>2
  <2>2. QED
    BY <1>3, <1>8, <2>1 DEF OpenActions, NoPanel, Panel, Handled, InputKeeps
<1>9. CASE \E choice \in offered, back \in BOOLEAN : RunAction(choice, back)
  <2>1. PICK choice \in offered, back \in BOOLEAN : RunAction(choice, back)
    BY <1>9
  <2>2. QED
    BY <1>1, <1>3, <2>1 DEF RunAction, Panel, Handled, Closes, Opens, InputKeeps, Order
<1>10. CASE \E yes, back \in BOOLEAN : AnswerConfirm(yes, back)
  <2>1. PICK yes \in BOOLEAN, back \in BOOLEAN : AnswerConfirm(yes, back)
    BY <1>10
  <2>2. QED
    BY <1>1, <1>3, <2>1 DEF AnswerConfirm, Panel, Handled, InputKeeps, Order
<1>11. QED
  BY <1>4, <1>5, <1>6, <1>7, <1>8, <1>9, <1>10 DEF Input

LEMMA InputIsNow ==
    ASSUME Input
    PROVE  at = "input" /\ at' = "frame" /\ UNCHANGED <<list, alive>>
<1>1. CASE Nothing \/ PassGate \/ CloseActions \/ ClosePanel \/ BrowseOrphans \/ EnterDir \/ LeaveDir
  BY <1>1 DEF Nothing, PassGate, CloseActions, ClosePanel, BrowseOrphans, EnterDir, LeaveDir,
       NoPanel, Panel, Handled, Rest
<1>2. CASE StartSearch \/ AnswerSearch \/ StartDiag \/ MoveCursor \/ OpenActions
  BY <1>2 DEF StartSearch, AnswerSearch, StartDiag, MoveCursor, OpenActions, NoPanel, Panel, Handled,
       Rest
<1>3. CASE OpenPhone \/ ClosePhone \/ SayJoined \/ ApplySettings
  BY <1>3 DEF OpenPhone, ClosePhone, SayJoined, ApplySettings, NoPanel, Panel, Handled, Elsewhere
<1>4. CASE \/ \E choice \in offered, back \in BOOLEAN : RunAction(choice, back)
           \/ \E yes, back \in BOOLEAN : AnswerConfirm(yes, back)
  BY <1>4 DEF RunAction, AnswerConfirm, Panel, Handled, Rest
<1>5. QED
  BY <1>1, <1>2, <1>3, <1>4 DEF Input

LEMMA MenuFrame ==
    ASSUME MenuInv, Frame
    PROVE  MenuInv' /\ order'.what = "none"
<1>1. Rows(list') /\ Rows(shown')
  BY DEF MenuInv, Frame, Rows
<1>2. /\ selection' \in 1 .. Cardinality(Hash) /\ held' = held
      /\ order' \in [what : Order, hash : Hash \cup {None}] /\ order'.what = "none"
  BY DEF MenuInv, Frame, NoOrder, Order
<1>3. Focus(shown, selection) \in Hash \cup {None}
  BY FocusIs DEF MenuInv
<1>4. held # None => panel' = held
  <2>1. SUFFICES ASSUME held # None
                 PROVE  panel' = held
    OBVIOUS
  <2>2. CASE Has(shown, held)
    BY <2>1, <2>2 DEF Frame, Focus
  <2>3. CASE ~ Has(shown, held)
    BY <2>1, <2>3 DEF Frame, Focus, MenuInv
  <2>4. QED
    BY <2>2, <2>3
<1>5. panel' \in Hash \cup {None}
  BY <1>3 DEF Frame, MenuInv
<1>6. QED
  BY <1>1, <1>2, <1>4, <1>5 DEF MenuInv

\* Whatever happens between the input and the drawing is not about the panel
LEMMA MenuStep ==
    ASSUME MenuInv, [Next]_vars
    PROVE  /\ MenuInv'
           /\ order' # order /\ order'.what # "none" /\ held # None => order'.hash = panel
<1>1. CASE Input
  BY <1>1, InputIsNow, EachInputKeeps, InputKeepsMenu
<1>2. CASE Frame
  BY <1>2, MenuFrame
<1>3. CASE ListChanges
  <2>1. Rows(list') /\ UNCHANGED <<menuVars, at>>
    BY <1>3, ListChangeKeepsRows DEF MenuInv, ListChanges, mainVars
  <2>2. QED
    BY <2>1 DEF MenuInv, menuVars, Rows, Has
<1>4. CASE Quit
  BY <1>4 DEF Quit, MenuInv, menuVars, Rows, Has
<1>5. CASE Blocking \/ (\E s \in Server : ServesApp(s)) \/ (\E w \in Worker : Works(w))
           \/ UNCHANGED vars
  <2>1. Blocking => MenuSame
    BY DEF Blocking, CallStop, CallStopped, CancelExtract, Join, StopSession, SameButCall,
         menuVars, MenuSame
  <2>2. (\E s \in Server : ServesApp(s)) => MenuSame
    BY DEF ServesApp, menuVars, mainVars, MenuSame
  <2>3. (\E w \in Worker : Works(w)) => MenuSame
    BY DEF Works, Begins, DoesTask, Publishes, Lowers, menuVars, mainVars, MenuSame
  <2>4. UNCHANGED vars => MenuSame
    BY DEF vars, menuVars, mainVars, MenuSame
  <2>5. MenuSame
    BY <1>5, <2>1, <2>2, <2>3, <2>4
  <2>6. QED
    BY <2>5, MenuStutters DEF MenuSame
<1>6. QED
  BY <1>1, <1>2, <1>3, <1>4, <1>5 DEF Next

-----------------------------------------------------------------------------
(* The workers                                                             *)

LEMMA WorkInit ==
    ASSUME Init
    PROVE  WorkInv
  BY AppAssumption DEF Init, WorkInv, ResultsAreWhole

LEMMA LaunchWork ==
    ASSUME WorkInv, NEW w \in Worker, NEW n \in 0 .. MaxTasks, Launch(w, n)
    PROVE  WorkInv'
  BY DEF WorkInv, Launch, ResultsAreWhole

LEMMA EachWorks ==
    ASSUME WorkInv, NEW w \in Worker, Works(w)
    PROVE  WorkInv'
<1>1. work[w] \in {"begun", "busy", "written"} => flag[w]
  BY DEF WorkInv, ResultsAreWhole
<1>2. CASE Begins(w)
  BY <1>1, <1>2 DEF WorkInv, Begins, ResultsAreWhole
<1>3. CASE DoesTask(w)
  <2>1. PICK n \in {tasks[w] - 1} \cup {0} : tasks' = [tasks EXCEPT ![w] = n]
    BY <1>3 DEF DoesTask
  <2>2. n \in 0 .. MaxTasks
    BY <1>3, <2>1, AppAssumption DEF DoesTask, WorkInv
  <2>3. QED
    BY <1>3, <2>1, <2>2 DEF WorkInv, DoesTask, ResultsAreWhole
<1>4. CASE Publishes(w)
  BY <1>1, <1>4, AppAssumption DEF WorkInv, Publishes, ResultsAreWhole
<1>5. CASE Lowers(w)
  BY <1>5 DEF WorkInv, Lowers, ResultsAreWhole
<1>6. QED
  BY <1>2, <1>3, <1>4, <1>5 DEF Works

LEMMA WorkInput ==
    ASSUME WorkInv, Input
    PROVE  WorkInv'
<1>1. UNCHANGED workVars => WorkInv'
  BY DEF workVars, WorkInv, ResultsAreWhole
<1>2. CASE Nothing \/ PassGate \/ CloseActions \/ ClosePanel \/ BrowseOrphans \/ EnterDir \/ LeaveDir
  BY <1>1, <1>2 DEF Nothing, PassGate, CloseActions, ClosePanel, BrowseOrphans, EnterDir, LeaveDir, Rest
<1>3. CASE AnswerSearch \/ MoveCursor \/ OpenActions
  BY <1>1, <1>3 DEF AnswerSearch, MoveCursor, OpenActions, Rest
<1>4. CASE OpenPhone \/ ClosePhone \/ SayJoined \/ ApplySettings
  BY <1>1, <1>4 DEF OpenPhone, ClosePhone, SayJoined, ApplySettings, Elsewhere
<1>5. CASE \E yes, back \in BOOLEAN : AnswerConfirm(yes, back)
  BY <1>1, <1>5 DEF AnswerConfirm, Rest
<1>6. CASE \E choice \in offered, back \in BOOLEAN : RunAction(choice, back)
  <2>1. UNCHANGED workVars \/ \E n \in 0 .. MaxTasks : Launch("extract", n)
    BY <1>6 DEF RunAction
  <2>2. QED
    BY <1>1, <2>1, LaunchWork DEF Worker
<1>7. CASE StartSearch
  <2>1. CASE UNCHANGED workVars \/ \E n \in 0 .. MaxTasks : Launch("search", n)
    BY <1>1, <2>1, LaunchWork DEF Worker
  <2>2. CASE work' = [work EXCEPT !["search"] = "none"] /\ UNCHANGED <<flag, tasks, cancel>>
    BY <2>2 DEF WorkInv, ResultsAreWhole
  <2>3. QED
    BY <1>7, <2>1, <2>2 DEF StartSearch
<1>8. CASE StartDiag
  BY <1>8, LaunchWork DEF StartDiag, Worker
<1>9. QED
  BY <1>2, <1>3, <1>4, <1>5, <1>6, <1>7, <1>8 DEF Input

LEMMA WorkStep ==
    ASSUME WorkInv, [Next]_vars
    PROVE  WorkInv'
<1>1. UNCHANGED workVars => WorkInv'
  BY DEF workVars, WorkInv, ResultsAreWhole
<1>2. CASE Input
  BY <1>2, WorkInput
<1>3. CASE \E w \in Worker : Works(w)
  BY <1>3, EachWorks
<1>4. CASE Frame
  BY <1>4 DEF Frame, WorkInv, ResultsAreWhole
<1>5. CASE Blocking
  <2>1. CASE \E w \in Worker : Join(w)
    BY <2>1 DEF Join, WorkInv, ResultsAreWhole
  <2>2. CASE CancelExtract
    BY <2>2 DEF CancelExtract, WorkInv, ResultsAreWhole
  <2>3. CASE StopSession \/ \E s \in Server : CallStop(s) \/ CallStopped(s)
    BY <1>1, <2>3 DEF StopSession, CallStop, CallStopped
  <2>4. QED
    BY <1>5, <2>1, <2>2, <2>3 DEF Blocking
<1>6. CASE ListChanges \/ Quit \/ (\E s \in Server : ServesApp(s)) \/ UNCHANGED vars
  BY <1>1, <1>6 DEF ListChanges, Quit, ServesApp, vars
<1>7. QED
  BY <1>2, <1>3, <1>4, <1>5, <1>6 DEF Next

-----------------------------------------------------------------------------
(* The servers                                                             *)

LEMMA ServersStart ==
    ASSUME Init
    PROVE  ServersInv
<1>1. /\ running = [s \in Server |-> FALSE] /\ thread = [s \in Server |-> "none"]
      /\ port = [s \in Server |-> 0] /\ items = [s \in Server |-> 0]
      /\ engine = [s \in Server |-> FALSE] /\ ~ ap
  BY DEF Init, ServersInit
<1>2. 0 \in 0 .. Ports /\ 0 \in PhoneCalls \cup RemoteCalls /\ "none" \in Gone
  BY ServersAssumption DEF RemoteCalls, Gone
<1>3. /\ running \in [Server -> BOOLEAN] /\ engine \in [Server -> BOOLEAN]
      /\ thread \in [Server -> Gone \cup Serving \cup {"poll", "accept"}]
      /\ port \in [Server -> 0 .. Ports] /\ items \in [Server -> PhoneCalls \cup RemoteCalls]
  BY <1>1, <1>2
<1>4. QED
  BY <1>1, <1>3 DEF ServersInv, Server

LEMMA ServersStutter ==
    ASSUME ServersInv, UNCHANGED <<serverVars, phoneVars>>
    PROVE  ServersInv'
  BY DEF ServersInv, serverVars, phoneVars

LEMMA Listening ==
    ASSUME ServersInv, NEW s \in Server, Listens(s)
    PROVE  /\ running' = [running EXCEPT ![s] = TRUE]
           /\ thread' \in [Server -> Gone \cup Serving \cup {"poll", "accept"}]
           /\ port' \in [Server -> 0 .. Ports]
           /\ thread'[s] # "none" /\ \A t \in Server \ {s} : thread'[t] = thread[t]
<1>1. CASE running[s]
  <2>1. UNCHANGED <<running, thread, port>>
    BY <1>1 DEF Listens
  <2>2. running = [running EXCEPT ![s] = TRUE]
    BY <1>1 DEF ServersInv
  <2>3. QED
    BY <1>1, <2>1, <2>2 DEF ServersInv
<1>2. CASE ~ running[s]
  <2>1. PICK p \in Available(s) :
           /\ port' = [port EXCEPT ![s] = p]
           /\ running' = [running EXCEPT ![s] = TRUE]
           /\ thread' = [thread EXCEPT ![s] = "poll"]
    BY <1>2 DEF Listens
  <2>2. p \in 0 .. Ports
    BY ServersAssumption DEF Available
  <2>3. QED
    BY <2>1, <2>2 DEF ServersInv
<1>3. QED
  BY <1>1, <1>2

LEMMA ServersStartPhone ==
    ASSUME ServersInv, NEW outcome, StartPhone(outcome)
    PROVE  /\ ServersInv'
           /\ running'["remote"] = running["remote"]
           /\ ap' => ap \/ running'["phone"]
           /\ ap' /\ ~ running'["phone"] => ap /\ ~ running["phone"]
<1>1. /\ engine' = [engine EXCEPT !["phone"] = TRUE] /\ UNCHANGED items
      /\ step' # "off"
  BY DEF StartPhone
<1>2. CASE UNCHANGED <<running, thread, port>> /\ (~ ap' \/ UNCHANGED ap)
  BY <1>1, <1>2 DEF ServersInv, Server
<1>3. CASE Listens("phone")
  <2>1. /\ running' = [running EXCEPT !["phone"] = TRUE]
        /\ thread' \in [Server -> Gone \cup Serving \cup {"poll", "accept"}]
        /\ port' \in [Server -> 0 .. Ports]
        /\ thread'["phone"] # "none" /\ thread'["remote"] = thread["remote"]
    BY <1>3, Listening DEF Server
  <2>2. QED
    BY <1>1, <2>1 DEF ServersInv, Server
<1>4. QED
  BY <1>2, <1>3 DEF StartPhone

LEMMA ServersStartRemote ==
    ASSUME ServersInv, StartRemote
    PROVE  ServersInv' /\ running'["phone"] = running["phone"] /\ UNCHANGED ap
<1>1. UNCHANGED <<items, ap, addressed, step>>
  BY DEF StartRemote, phoneVars
<1>2. CASE UNCHANGED <<running, thread, port, engine>>
  BY <1>1, <1>2 DEF ServersInv
<1>3. CASE Listens("remote") /\ engine' = [engine EXCEPT !["remote"] = TRUE]
  <2>1. /\ running' = [running EXCEPT !["remote"] = TRUE]
        /\ thread' \in [Server -> Gone \cup Serving \cup {"poll", "accept"}]
        /\ port' \in [Server -> 0 .. Ports]
        /\ thread'["remote"] # "none" /\ thread'["phone"] = thread["phone"]
    BY <1>3, Listening DEF Server
  <2>2. QED
    BY <1>1, <1>3, <2>1 DEF ServersInv, Server
<1>4. QED
  BY <1>2, <1>3 DEF StartRemote

LEMMA ServersStop ==
    ASSUME ServersInv, NEW s \in Server, AskStop(s) \/ Stopped(s)
    PROVE  ServersInv'
<1>1. CASE AskStop(s)
  BY <1>1 DEF AskStop, ServersInv, phoneVars, Server
<1>2. CASE Stopped(s)
  BY <1>2, ServersAssumption DEF Stopped, ServersInv, phoneVars, Server, Gone
<1>3. QED
  BY <1>1, <1>2

\* The thread of a server goes on among its own places
LEMMA ThreadGoes ==
    ASSUME ServersInv, NEW s \in Server, SameServer,
           thread[s] # "none",
           NEW to \in {"ended", "poll", "accept"} \cup Serving, thread' = [thread EXCEPT ![s] = to],
           items' \in [Server -> PhoneCalls \cup RemoteCalls]
    PROVE  ServersInv'
  BY DEF ServersInv, SameServer, phoneVars, Gone, Serving

LEMMA ServersServe ==
    ASSUME ServersInv, NEW s \in Server, Serves(s)
    PROVE  /\ ServersInv' /\ thread[s] # "none"
           /\ \A t \in Server \ {s} : thread'[t] = thread[t]
           /\ UNCHANGED <<running, ap, step>>
<1>1. items \in [Server -> PhoneCalls \cup RemoteCalls]
  BY DEF ServersInv
<1>2. SameServer /\ UNCHANGED <<running, ap, step>>
  BY DEF Serves, Wakes, Accepts, ReadsHeaders, ReadsBody, HandlesItem, Replies, Sends,
       SameServer, phoneVars
<1>3. \A from, to : Goes(s, from, to) => thread[s] = from /\ thread' = [thread EXCEPT ![s] = to]
  BY DEF Goes
<1>4. ASSUME NEW from \in {"poll", "accept"} \cup Serving,
             NEW to \in {"ended", "poll", "accept"} \cup Serving,
             Goes(s, from, to), items' \in [Server -> PhoneCalls \cup RemoteCalls]
      PROVE  ServersInv' /\ thread[s] # "none" /\ \A t \in Server \ {s} : thread'[t] = thread[t]
  <2>1. thread[s] # "none" /\ thread' = [thread EXCEPT ![s] = to]
    BY <1>3, <1>4 DEF Serving
  <2>2. QED
    BY <1>2, <1>4, <2>1, ThreadGoes DEF ServersInv
<1>5. ASSUME NEW from \in Serving, Handling(s, from)
      PROVE  Goes(s, from, "handle") /\ items' \in [Server -> PhoneCalls \cup RemoteCalls]
  BY <1>1, <1>5 DEF Handling
<1>6. CASE Wakes(s)
  BY <1>1, <1>2, <1>4, <1>6 DEF Wakes
<1>7. CASE Accepts(s)
  BY <1>1, <1>2, <1>4, <1>7 DEF Accepts, Serving
<1>8. CASE ReadsHeaders(s)
  BY <1>1, <1>2, <1>4, <1>5, <1>8 DEF ReadsHeaders, Serving
<1>9. CASE ReadsBody(s)
  BY <1>1, <1>2, <1>4, <1>5, <1>9 DEF ReadsBody, Serving
<1>10. CASE HandlesItem(s)
  <2>1. items[s] \in 0 .. MaxItems \cup {0, 1, 2} /\ items[s] > 0
    BY <1>1, <1>10 DEF HandlesItem, PhoneCalls, RemoteCalls
  <2>2. items[s] - 1 \in PhoneCalls \cup RemoteCalls
    BY <2>1, ServersAssumption DEF PhoneCalls, RemoteCalls
  <2>3. UNCHANGED <<running, thread, port, engine, ap, step>> /\ items' = [items EXCEPT ![s] = @ - 1]
    BY <1>10 DEF HandlesItem, SameServer, phoneVars
  <2>4. items' \in [Server -> PhoneCalls \cup RemoteCalls]
    BY <1>1, <2>2, <2>3
  <2>5. QED
    BY <1>10, <2>3, <2>4 DEF ServersInv, HandlesItem
<1>11. CASE Replies(s) \/ Sends(s)
  BY <1>1, <1>2, <1>4, <1>11 DEF Replies, Sends, Serving
<1>12. QED
  BY <1>6, <1>7, <1>8, <1>9, <1>10, <1>11 DEF Serves

LEMMA ServersStep ==
    ASSUME ServersInv, [Next]_vars
    PROVE  ServersInv'
<1>1. UNCHANGED <<serverVars, phoneVars>> => ServersInv'
  BY ServersStutter
<1>2. CASE Input
  <2>1. CASE Nothing \/ PassGate \/ CloseActions \/ ClosePanel \/ BrowseOrphans \/ EnterDir \/ LeaveDir
    BY <1>1, <2>1 DEF Nothing, PassGate, CloseActions, ClosePanel, BrowseOrphans, EnterDir, LeaveDir, Rest
  <2>2. CASE \/ AnswerSearch \/ MoveCursor \/ OpenActions \/ StartSearch \/ StartDiag
             \/ \E choice \in offered, back \in BOOLEAN : RunAction(choice, back)
             \/ \E yes, back \in BOOLEAN : AnswerConfirm(yes, back)
    BY <1>1, <2>2 DEF AnswerSearch, MoveCursor, OpenActions, StartSearch, StartDiag, RunAction,
         AnswerConfirm, Rest
  <2>3. CASE OpenPhone
    BY <2>3, ServersStartPhone DEF OpenPhone
  <2>4. CASE ClosePhone
    BY <1>1, <2>4 DEF ClosePhone
  <2>5. CASE SayJoined
    BY <2>5 DEF SayJoined, ConfirmJoined, ServersInv, serverVars
  <2>6. CASE ApplySettings
    BY <1>1, <2>6, ServersStartRemote DEF ApplySettings, Applied
  <2>7. QED
    BY <1>2, <2>1, <2>2, <2>3, <2>4, <2>5, <2>6 DEF Input
<1>3. CASE \E s \in Server : ServesApp(s)
  BY <1>3, ServersServe DEF ServesApp
<1>4. CASE Blocking
  <2>1. CASE \E s \in Server : CallStop(s) \/ CallStopped(s)
    BY <2>1, ServersStop DEF CallStop, CallStopped
  <2>2. CASE CancelExtract \/ StopSession \/ \E w \in Worker : Join(w)
    BY <1>1, <2>2 DEF CancelExtract, StopSession, Join
  <2>3. QED
    BY <1>4, <2>1, <2>2 DEF Blocking
<1>5. CASE ListChanges \/ Frame \/ Quit \/ (\E w \in Worker : Works(w)) \/ UNCHANGED vars
  BY <1>1, <1>5 DEF ListChanges, Frame, Quit, Works, Begins, DoesTask, Publishes, Lowers, vars
<1>6. QED
  BY <1>2, <1>3, <1>4, <1>5 DEF Next

-----------------------------------------------------------------------------
(* The calls to make                                                       *)

LEMMA Remains ==
    /\ Remaining(1) = ShutdownCalls /\ Remaining(7) = <<>>
    /\ \A i \in 1 .. 6 : /\ Remaining(i) # <<>>
                         /\ Head(Remaining(i)) = ShutdownCalls[i]
                         /\ Tail(Remaining(i)) = Remaining(i + 1)
    /\ Tail(<<"cancelled">> \o Remaining(4)) = Remaining(4)
    /\ Head(<<"cancelled">> \o Remaining(4)) = "cancelled"
    /\ <<"cancelled">> \o Remaining(4) # <<>>
<1> DEFINE S == {"phone", "remote", "extract", "search", "diag", "session", "cancelled"}
<1>1. /\ ShutdownCalls \in Seq(S) /\ Len(ShutdownCalls) = 6
      /\ \A i \in 1 .. 6 : ShutdownCalls[i] \in S
  BY DEF ShutdownCalls
<1> HIDE DEF S
<1>2. ASSUME NEW i \in 1 .. 7
      PROVE  /\ Remaining(i) \in Seq(S) /\ Len(Remaining(i)) = 7 - i
             /\ \A k \in 1 .. 7 - i : Remaining(i)[k] = ShutdownCalls[i + k - 1]
  <2>1. \A k \in i .. 6 : ShutdownCalls[k] \in S
    BY <1>1
  <2>2. /\ Remaining(i) \in Seq(S)
        /\ Len(Remaining(i)) = IF i <= 6 THEN 6 - i + 1 ELSE 0
        /\ \A k \in 1 .. 6 - i + 1 : Remaining(i)[k] = ShutdownCalls[i + k - 1]
    BY <1>1, <2>1, SubSeqProperties DEF Remaining
  <2>3. QED
    BY <2>2
<1>3. Remaining(1) = ShutdownCalls
  BY <1>1, SubSeqFull DEF Remaining
<1>4. \A i \in 1 .. 7 : Remaining(i) = <<>> <=> i = 7
  <2>1. \A i \in 1 .. 7 : Remaining(i) \in Seq(S) /\ Len(Remaining(i)) = 7 - i
    BY <1>2
  <2>2. \A s \in Seq(S) : s = <<>> <=> Len(s) = 0
    BY EmptySeq
  <2>3. \A i \in 1 .. 7 : Remaining(i) = <<>> <=> 7 - i = 0
    BY <2>1, <2>2, Zenon
  <2>4. \A i \in 1 .. 7 : 7 - i = 0 <=> i = 7
    OBVIOUS
  <2>5. QED
    BY <2>3, <2>4, Zenon
<1>5. ASSUME NEW i \in 1 .. 6
      PROVE  /\ Remaining(i) # <<>> /\ Head(Remaining(i)) = ShutdownCalls[i]
             /\ Tail(Remaining(i)) = Remaining(i + 1)
  <2>1. i \in 1 .. Len(ShutdownCalls) /\ 6 \in i .. Len(ShutdownCalls)
    BY <1>1
  <2>2. /\ Head(SubSeq(ShutdownCalls, i, 6)) = ShutdownCalls[i]
        /\ Tail(SubSeq(ShutdownCalls, i, 6)) = SubSeq(ShutdownCalls, i + 1, 6)
    BY <1>1, <2>1, HeadTailOfSubSeq
  <2>3. QED
    BY <1>4, <2>2 DEF Remaining
<1>6. /\ Tail(<<"cancelled">> \o Remaining(4)) = Remaining(4)
      /\ Head(<<"cancelled">> \o Remaining(4)) = "cancelled"
      /\ <<"cancelled">> \o Remaining(4) # <<>>
  <2> DEFINE one == <<"cancelled">>
  <2> DEFINE r == Remaining(4)
  <2> DEFINE c == one \o r
  <2>1. one \in Seq(S) /\ Len(one) = 1 /\ one[1] = "cancelled"
    BY DEF S
  <2>2. r \in Seq(S) /\ Len(r) = 3
    <3>1. 4 \in 1 .. 7
      OBVIOUS
    <3>2. Remaining(4) \in Seq(S) /\ Len(Remaining(4)) = 7 - 4
      BY <1>2, <3>1, Zenon
    <3>3. QED
      BY <3>2
  <2> HIDE DEF one, r
  <2>3. /\ c \in Seq(S) /\ Len(c) = Len(one) + Len(r)
        /\ \A k \in 1 .. Len(one) + Len(r) : c[k] = IF k <= Len(one) THEN one[k] ELSE r[k - Len(one)]
    BY <2>1, <2>2, ConcatProperties
  <2> HIDE DEF c
  <2>4. Len(c) = 4 /\ c[1] = "cancelled" /\ \A k \in 1 .. 3 : c[k + 1] = r[k]
    BY <2>1, <2>2, <2>3
  <2>5. c # <<>>
    BY <2>3, <2>4, EmptySeq
  <2>6. /\ Tail(c) \in Seq(S) /\ Len(Tail(c)) = 3 /\ \A k \in 1 .. 3 : Tail(c)[k] = c[k + 1]
    <3>1. /\ Tail(c) \in Seq(S) /\ Len(Tail(c)) = Len(c) - 1
          /\ \A k \in 1 .. Len(Tail(c)) : Tail(c)[k] = c[k + 1]
      BY <2>3, <2>5, HeadTailProperties
    <3>2. Len(Tail(c)) = 3
      BY <2>4, <3>1
    <3>3. 1 .. Len(Tail(c)) = 1 .. 3
      BY <3>2
    <3>4. QED
      BY <3>1, <3>2, <3>3, Zenon
  <2>7. \A k \in 1 .. 3 : Tail(c)[k] = r[k]
    BY <2>4, <2>6
  <2>8. Tail(c) = r
    BY <2>2, <2>6, <2>7, SeqEqual
  <2>9. Head(c) = "cancelled"
    BY <2>3, <2>4, <2>5
  <2>10. QED
    BY <2>5, <2>8, <2>9 DEF c, one, r
<1>7. Remaining(7) = <<>>
  BY <1>4
<1>8. QED
  BY <1>3, <1>5, <1>6, <1>7

LEMMA CallsInit ==
    ASSUME Init
    PROVE  CallsInv
  BY DEF Init, ServersInit, CallsInv

LEMMA CallsInput ==
    ASSUME CallsInv, ServersInv, Input
    PROVE  CallsInv'
<1>1. at = "input" /\ at' = "frame" /\ alive /\ alive' /\ todo = <<>> /\ (ap => running["phone"])
  BY InputIsNow DEF CallsInv
<1>2. Head(<<"phone">>) = "phone" /\ <<"phone">> # <<>>
  OBVIOUS
<1>3. SUFFICES /\ todo' \in {<<>>, <<"phone">>, <<"remote">>}
               /\ ap' => running'["phone"] \/ todo' = <<"phone">>
  BY <1>1, <1>2 DEF CallsInv
<1>4. UNCHANGED <<todo, ap, running>> => /\ todo' \in {<<>>, <<"phone">>, <<"remote">>}
                                         /\ ap' => running'["phone"] \/ todo' = <<"phone">>
  BY <1>1
<1>5. CASE Nothing \/ PassGate \/ CloseActions \/ ClosePanel \/ BrowseOrphans \/ EnterDir \/ LeaveDir
  BY <1>4, <1>5 DEF Nothing, PassGate, CloseActions, ClosePanel, BrowseOrphans, EnterDir, LeaveDir,
       Rest, serverVars, phoneVars
<1>6. CASE \/ AnswerSearch \/ MoveCursor \/ OpenActions \/ StartSearch \/ StartDiag
           \/ \E choice \in offered, back \in BOOLEAN : RunAction(choice, back)
           \/ \E yes, back \in BOOLEAN : AnswerConfirm(yes, back)
  BY <1>4, <1>6 DEF AnswerSearch, MoveCursor, OpenActions, StartSearch, StartDiag, RunAction,
       AnswerConfirm, Rest, serverVars, phoneVars
<1>7. CASE OpenPhone
  <2>1. PICK outcome \in {"refused", "unlistened", "undrawn", "joined"} :
           /\ StartPhone(outcome)
           /\ todo' = IF outcome = "undrawn" THEN <<"phone">> ELSE todo
    BY <1>7 DEF OpenPhone
  <2>2. /\ ap' => ap \/ running'["phone"]
        /\ ap' /\ ~ running'["phone"] => ap /\ ~ running["phone"]
    BY <2>1, ServersStartPhone
  <2>3. QED
    BY <1>1, <2>1, <2>2
<1>8. CASE ClosePhone
  BY <1>8 DEF ClosePhone
<1>9. CASE SayJoined
  BY <1>4, <1>9 DEF SayJoined, ConfirmJoined, serverVars
<1>10. CASE ApplySettings
  <2>1. PICK on \in BOOLEAN : Applied(on)
    BY <1>10 DEF ApplySettings
  <2>2. running'["phone"] = running["phone"] /\ UNCHANGED ap
    <3>1. StartRemote \/ UNCHANGED <<serverVars, phoneVars>>
      BY <2>1 DEF Applied
    <3>2. QED
      BY <3>1, ServersStartRemote DEF serverVars, phoneVars
  <2>3. QED
    BY <1>1, <2>1, <2>2 DEF Applied
<1>11. QED
  BY <1>5, <1>6, <1>7, <1>8, <1>9, <1>10, Zenon DEF Input

\* Those who use the session only end, between two calls
LEMMA CallsWait ==
    ASSUME CallsInv, UNCHANGED <<at, todo, alive, awake, ap, running>>,
           \A s \in Server : thread[s] = "none" => thread'[s] = "none",
           \A w \in Worker : work[w] = "none" => work'[w] = "none"
    PROVE  CallsInv'
<1>1. \A i \in 1 .. 7 : EndedBefore(i) => EndedBefore(i)'
  BY DEF EndedBefore, Server, Worker
<1>2. QED
  BY <1>1 DEF CallsInv, Remaining, ShutdownCalls

LEMMA CallsShutdown ==
    ASSUME CallsInv, Quit
    PROVE  CallsInv'
<1>1. /\ at' = "quit" /\ todo' = ShutdownCalls /\ alive /\ alive'
  BY DEF CallsInv, Quit
<1>2. todo' = Remaining(1) /\ todo' # <<>> /\ Head(todo') = "phone"
  BY <1>1, Remains DEF ShutdownCalls
<1>3. EndedBefore(1)'
  BY <1>1 DEF EndedBefore
<1>4. QED
  BY <1>1, <1>2, <1>3 DEF CallsInv, Remaining, ShutdownCalls

\* The call that is made: of the shutdown, or the one stop of a server
LEMMA WhichCall ==
    ASSUME CallsInv, NEW c, Calls(c)
    PROVE  \/ at # "quit" /\ c \in {"phone", "remote"} /\ Tail(todo) = <<>> /\ alive
           \/ at = "quit" /\ \E i \in 1 .. 6 : /\ EndedBefore(i) /\ c = ShutdownCalls[i]
                                               /\ Tail(todo) = Remaining(i + 1)
           \/ at = "quit" /\ EndedBefore(3) /\ c = "cancelled" /\ Tail(todo) = Remaining(4)
<1>1. todo # <<>> /\ Head(todo) = c
  BY DEF Calls
<1>2. CASE at # "quit"
  <2>1. todo = <<"phone">> \/ todo = <<"remote">>
    BY <1>1, <1>2 DEF CallsInv
  <2>2. /\ Head(<<"phone">>) = "phone" /\ Tail(<<"phone">>) = <<>>
        /\ Head(<<"remote">>) = "remote" /\ Tail(<<"remote">>) = <<>>
    OBVIOUS
  <2>3. QED
    BY <1>1, <1>2, <2>1, <2>2 DEF CallsInv
<1>3. CASE at = "quit"
  <2>1. PICK i \in 1 .. 7 : /\ EndedBefore(i)
                            /\ \/ todo = Remaining(i)
                               \/ i = 3 /\ todo = <<"cancelled">> \o Remaining(4)
    BY <1>3 DEF CallsInv
  <2>2. CASE todo = Remaining(i)
    <3>1. i # 7
      BY <1>1, <2>2, Remains
    <3>2. i \in 1 .. 6
      BY <3>1
    <3>3. Head(todo) = ShutdownCalls[i] /\ Tail(todo) = Remaining(i + 1)
      BY <2>2, <3>2, Remains
    <3>4. QED
      BY <1>1, <1>3, <2>1, <3>2, <3>3
  <2>3. CASE i = 3 /\ todo = <<"cancelled">> \o Remaining(4)
    BY <1>1, <1>3, <2>1, <2>3, Remains
  <2>4. QED
    BY <2>1, <2>2, <2>3
<1>4. QED
  BY <1>2, <1>3

\* The names of the calls, in order
LEMMA CallNames ==
    /\ ShutdownCalls[1] = "phone" /\ ShutdownCalls[2] = "remote" /\ ShutdownCalls[3] = "extract"
    /\ ShutdownCalls[4] = "search" /\ ShutdownCalls[5] = "diag" /\ ShutdownCalls[6] = "session"
    /\ \A i \in 1 .. 6 : i \in {1, 2, 3, 4, 5, 6}
  BY DEF ShutdownCalls

\* One more call of the shutdown is made
LEMMA CallMade ==
    ASSUME CallsInv, NEW i \in 1 .. 6, at = "quit", at' = "quit",
           todo' = Remaining(i + 1), EndedBefore(i + 1)',
           ~ ap'
    PROVE  CallsInv'
<1>1. i + 1 \in 1 .. 7
  OBVIOUS
<1>2. Remaining(i + 1)' = Remaining(i + 1)
  BY DEF Remaining, ShutdownCalls
<1>3. \E k \in 1 .. 7 : EndedBefore(k)' /\ todo' = Remaining(k)'
  BY <1>1, <1>2
<1>4. QED
  BY <1>3 DEF CallsInv

LEMMA CallsStop ==
    ASSUME CallsInv, ServersInv, NEW s \in Server, CallStop(s) \/ CallStopped(s)
    PROVE  CallsInv'
<1>1. CASE CallStop(s)
  <2>1. /\ UNCHANGED <<at, todo, alive, awake, ap, thread, work>>
        /\ running' = [running EXCEPT ![s] = FALSE] /\ todo # <<>> /\ Head(todo) = s
    BY <1>1 DEF CallStop, AskStop, Calls, SameButCall, phoneVars, workVars
  <2>2. \A i \in 1 .. 7 : EndedBefore(i) => EndedBefore(i)'
    BY <2>1 DEF EndedBefore
  <2>3. ap' => running'["phone"] \/ (todo' # <<>> /\ Head(todo') = "phone")
    BY <2>1 DEF CallsInv, ServersInv, Server
  <2>4. QED
    BY <2>1, <2>2, <2>3 DEF CallsInv, Remaining, ShutdownCalls
<1>2. CASE CallStopped(s)
  <2>1. /\ UNCHANGED <<at, alive, awake, running, work>> /\ todo' = Tail(todo) /\ Calls(s)
        /\ thread' = [thread EXCEPT ![s] = "none"] /\ ~ running[s]
        /\ IF s = "phone" THEN ~ ap' ELSE ap' = ap
    BY <1>2 DEF CallStopped, Stopped, SameButCall, phoneVars, workVars
  <2>2. /\ thread'[s] = "none" /\ \A t \in Server : thread[t] = "none" => thread'[t] = "none"
    BY <2>1 DEF ServersInv
  <2>3. CASE at # "quit" /\ Tail(todo) = <<>> /\ alive
    <3>1. at = "frame"
      BY <2>1, <2>3 DEF CallsInv, Calls
    <3>2. ap' => running'["phone"]
      BY <2>1 DEF CallsInv, Calls, Server
    <3>3. QED
      BY <2>1, <2>3, <3>1, <3>2 DEF CallsInv
  <2>4. CASE at = "quit"
    <3>1. PICK i \in 1 .. 6 : /\ EndedBefore(i) /\ s = ShutdownCalls[i]
                              /\ Tail(todo) = Remaining(i + 1)
      BY <2>1, <2>4, WhichCall DEF Server
    <3>2. i \in {1, 2} /\ (i = 1 <=> s = "phone") /\ (i = 2 <=> s = "remote")
      BY <3>1, CallNames DEF Server
    <3>3. ~ ap' /\ EndedBefore(i + 1)'
      BY <2>1, <2>2, <3>1, <3>2 DEF EndedBefore, Server
    <3>4. QED
      BY <2>1, <2>4, <3>1, <3>3, CallMade
  <2>5. QED
    BY <2>1, <2>3, <2>4, WhichCall
<1>3. QED
  BY <1>1, <1>2

LEMMA CallsCancel ==
    ASSUME CallsInv, CancelExtract
    PROVE  CallsInv'
<1>1. /\ UNCHANGED <<at, alive, awake, running, thread, work, ap>>
      /\ todo' = <<"cancelled">> \o Tail(todo) /\ Calls("extract")
  BY DEF CancelExtract, SameButCall, serverVars, phoneVars
<1>2. at = "quit" /\ EndedBefore(3) /\ Tail(todo) = Remaining(4)
  BY <1>1, WhichCall, CallNames
<1>3. EndedBefore(3)' /\ ~ ap'
  BY <1>1, <1>2 DEF EndedBefore
<1>4. todo' = <<"cancelled">> \o Remaining(4)'
  BY <1>1, <1>2 DEF Remaining, ShutdownCalls
<1>5. at' = "quit" /\ 3 \in 1 .. 7
  BY <1>1, <1>2
<1>6. \E i \in 1 .. 7 :
         /\ EndedBefore(i)'
         /\ todo' = Remaining(i)' \/ (i = 3 /\ todo' = <<"cancelled">> \o Remaining(4)')
  BY <1>3, <1>4, <1>5, Zenon
<1>7. QED
  BY <1>3, <1>5, <1>6 DEF CallsInv

LEMMA CallsJoin ==
    ASSUME CallsInv, WorkInv, NEW w \in Worker, Join(w)
    PROVE  CallsInv'
<1>1. /\ UNCHANGED <<at, alive, awake, running, thread, ap>>
      /\ work' = [work EXCEPT ![w] = "none"] /\ todo' = Tail(todo)
      /\ Calls(w) \/ (Calls("cancelled") /\ w = "extract")
  BY DEF Join, SameButCall, serverVars, phoneVars
<1>2. work'[w] = "none" /\ \A v \in Worker : work[v] = "none" => work'[v] = "none"
  BY <1>1 DEF WorkInv
<1>3. PICK i \in 3 .. 5 : /\ at = "quit" /\ EndedBefore(i) /\ w = ShutdownCalls[i]
                          /\ Tail(todo) = Remaining(i + 1)
  <2>1. CASE Calls(w)
    <3>1. PICK i \in 1 .. 6 : /\ at = "quit" /\ EndedBefore(i) /\ w = ShutdownCalls[i]
                              /\ Tail(todo) = Remaining(i + 1)
      BY <2>1, WhichCall DEF Worker
    <3>2. i \in 3 .. 5
      BY <3>1, CallNames DEF Worker
    <3>3. QED
      BY <3>1, <3>2
  <2>2. CASE Calls("cancelled") /\ w = "extract"
    <3>1. at = "quit" /\ EndedBefore(3) /\ Tail(todo) = Remaining(4)
      BY <2>2, WhichCall, CallNames
    <3>2. 3 \in 3 .. 5 /\ 3 + 1 = 4
      OBVIOUS
    <3>3. QED
      BY <2>2, <3>1, <3>2, CallNames
  <2>3. QED
    BY <1>1, <2>1, <2>2
<1>4. /\ i = 3 \/ i = 4 \/ i = 5
      /\ (i = 3 <=> w = "extract") /\ (i = 4 <=> w = "search") /\ (i = 5 <=> w = "diag")
  BY <1>3, CallNames DEF Worker
<1>5. EndedBefore(i + 1)' /\ ~ ap'
  BY <1>1, <1>2, <1>3, <1>4 DEF EndedBefore, Worker
<1>6. i \in 1 .. 6
  BY <1>4
<1>7. QED
  BY <1>1, <1>3, <1>5, <1>6, CallMade

LEMMA CallsEnd ==
    ASSUME CallsInv, StopSession
    PROVE  CallsInv'
<1>1. /\ UNCHANGED <<at, running, thread, ap, work>> /\ ~ alive' /\ ~ awake'
      /\ todo' = Tail(todo) /\ Calls("session")
  BY DEF StopSession, SameButCall, serverVars, phoneVars, workVars
<1>2. at = "quit" /\ EndedBefore(6) /\ Tail(todo) = Remaining(7)
  BY <1>1, WhichCall, CallNames
<1>3. EndedBefore(7)' /\ ~ ap'
  BY <1>1, <1>2 DEF EndedBefore
<1>4. 6 \in 1 .. 6 /\ 6 + 1 = 7
  OBVIOUS
<1>5. QED
  BY <1>1, <1>2, <1>3, <1>4, CallMade

LEMMA CallsStep ==
    ASSUME CallsInv, ServersInv, WorkInv, [Next]_vars
    PROVE  CallsInv'
<1>1. CASE Input
  BY <1>1, CallsInput
<1>2. CASE Quit
  BY <1>2, CallsShutdown
<1>3. CASE Frame
  BY <1>3 DEF Frame, CallsInv, serverVars, phoneVars
<1>4. CASE Blocking
  <2>1. CASE \E s \in Server : CallStop(s) \/ CallStopped(s)
    BY <2>1, CallsStop
  <2>2. CASE \E w \in Worker : Join(w)
    BY <2>2, CallsJoin
  <2>3. CASE CancelExtract \/ StopSession
    BY <2>3, CallsCancel, CallsEnd
  <2>4. QED
    BY <1>4, <2>1, <2>2, <2>3 DEF Blocking
<1>5. CASE \E s \in Server : ServesApp(s)
  <2>1. PICK s \in Server : ServesApp(s)
    BY <1>5
  <2>2. /\ \A t \in Server : thread[t] = "none" => thread'[t] = "none"
        /\ UNCHANGED <<running, ap>>
    BY <2>1, ServersServe DEF ServesApp
  <2>3. QED
    BY <2>1, <2>2, CallsWait DEF ServesApp, mainVars, workVars
<1>6. CASE \E w \in Worker : Works(w)
  <2>1. PICK w \in Worker : Works(w)
    BY <1>6
  <2>2. \A v \in Worker : work[v] = "none" => work'[v] = "none"
    BY <2>1 DEF Works, Begins, DoesTask, Publishes, Lowers, WorkInv
  <2>3. UNCHANGED <<at, todo, alive, awake, ap, running, thread>>
    BY <2>1 DEF Works, Begins, DoesTask, Publishes, Lowers, mainVars, serverVars, phoneVars
  <2>4. QED
    BY <2>2, <2>3, CallsWait
<1>7. CASE ListChanges \/ UNCHANGED vars
  <2>1. UNCHANGED <<at, todo, alive, awake, ap, running, thread, work>>
    BY <1>7 DEF ListChanges, vars, mainVars, serverVars, phoneVars, workVars
  <2>2. QED
    BY <2>1, CallsWait
<1>8. QED
  BY <1>1, <1>2, <1>3, <1>4, <1>5, <1>6, <1>7 DEF Next

-----------------------------------------------------------------------------
(* What follows                                                            *)

LEMMA AppIInvHolds == Spec => []AppIInv
<1>1. Init => AppIInv
  BY MenuInit, WorkInit, ServersStart, CallsInit DEF AppIInv
<1>2. AppIInv /\ [Next]_vars => AppIInv'
  BY MenuStep, WorkStep, ServersStep, CallsStep DEF AppIInv
<1>3. QED
  BY <1>1, <1>2, PTL DEF Spec

LEMMA AppIInvIsEnough ==
    ASSUME AppIInv
    PROVE  AppInvariant
<1> USE DEF AppIInv
<1>1. TypeOK /\ ResultsAreWhole
  BY DEF TypeOK, MenuInv, WorkInv, ServersInv
<1>2. ~ alive => EndedBefore(7)
  <2>1. SUFFICES ASSUME ~ alive
                 PROVE  EndedBefore(7)
    OBVIOUS
  <2>2. PICK i \in 1 .. 7 : EndedBefore(i)
    BY <2>1 DEF CallsInv
  <2>3. i = 7
    BY <2>1, <2>2 DEF EndedBefore
  <2>4. QED
    BY <2>2, <2>3
<1>3. SessionOutlivesItsUsers
  BY <1>2 DEF SessionOutlivesItsUsers, EndedBefore, Server, Worker
<1>4. HandlerKeepsSession
  BY <1>3 DEF HandlerKeepsSession, SessionOutlivesItsUsers, ServersInv
<1>5. NothingLeftUp
  BY <1>2 DEF NothingLeftUp, EndedBefore, CallsInv, ServersInv
<1>6. QED
  BY <1>1, <1>3, <1>4, <1>5 DEF AppInvariant

\* The session outlives the threads that use it, a handler keeps its session, the access
\* point does not stay up alone, and a result is read once it is whole (App::shutdown(),
\* Phone::stop(), Remote::stop(), App::poll_extract() and App::poll_search()).
THEOREM NoThreadOutlivesSession == Spec => []AppInvariant
<1>1. AppIInv => AppInvariant
  BY AppIInvIsEnough
<1>2. QED
  BY <1>1, AppIInvHolds, PTL

\* An order of the menu is about the torrent that its panel named on the screen, whatever
\* the list became in between (App::focused(), App::run_action()).
THEOREM OrdersWhatIsShown == Spec => OrderedAsShown
<1>1. AppIInv /\ [Next]_vars
        => [order' # order /\ order'.what # "none" /\ held # None => order'.hash = panel]_vars
  BY MenuStep DEF AppIInv
<1>2. QED
  BY <1>1, AppIInvHolds, PTL DEF Spec, OrderedAsShown
=============================================================================
