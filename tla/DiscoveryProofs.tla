--------------------------- MODULE DiscoveryProofs ---------------------------
(***************************************************************************)
(* Whatever the trackers, the nodes, what they answer and what is lost:    *)
(* each object of a torrent tells each event once at most for an entry of  *)
(* the list of trackers and in order, and nothing is searched for a        *)
(* torrent that is gone.                                                   *)
(***************************************************************************)
EXTENDS Discovery, FiniteSetTheorems, SequenceTheorems, TLAPS

-----------------------------------------------------------------------------
(* The inductive invariant                                                 *)

Event == {"none", "started", "completed"}
Job == [url : Schemes, entry : Nat, event : Event, of : Nat]

Torrent == [here : BOOLEAN, of : Nat, active : BOOLEAN, private : BOOLEAN, known : 0 .. Enough,
            wait : 0 .. (Interval + Retry), started : BOOLEAN, completed : BOOLEAN, done : BOOLEAN]

\* The places of the announce thread where the tracker has not heard its job yet
Unheard == {"resolve", "connect", "again", "open", "send"}

\* What a tracker may be told
Mark == [url : Schemes, entry : Nat, event : {"started", "completed"}]

\* The torrent is that of the last add, and nothing is for a later one
TorrentInv ==
    /\ torrent \in Torrent
    /\ rules \in Settings /\ delayed \in BOOLEAN /\ last \in Nat /\ usable \in BOOLEAN
    /\ torrent.here => torrent.of = last
    /\ jobs \in Seq(Job) /\ Len(jobs) <= MaxJobs /\ \A i \in DOMAIN jobs : jobs[i].of <= last
    /\ job \in Job /\ job.of <= last
    /\ at \in Udp \cup Http \cup {Idle, "resolve"}
    /\ replies \in Seq([ok : BOOLEAN, of : Nat]) /\ \A i \in DOMAIN replies : replies[i].of <= last

\* A torrent without its "started" has no announce under way, nor one that was answered,
\* and its first one is due
FirstInv ==
    torrent.here /\ ~ torrent.started =>
        /\ \A i \in DOMAIN jobs : jobs[i].of # last
        /\ at # Idle => job.of # last
        /\ \A i \in DOMAIN replies : replies[i].of # last
        /\ told = <<>>
        /\ Urls # {} => torrent.wait = 0 \/ delayed

\* What is on its way to a tracker of the last torrent
Carries(j, m) == Heard(j) = m /\ j.of = last /\ j.event # "none"
InHand(m) == at \in Unheard /\ Carries(job, m)
Queued(i, m) == i \in DOMAIN jobs /\ Carries(jobs[i], m)

\* What was heard, then the job in hand, then the queue: each may be told after those before
OrderInv ==
    /\ told \in Seq(Mark)
    /\ EventsOnce
    /\ \A m \in Mark, i \in DOMAIN told : InHand(m) => Follows(told[i], m)
    /\ \A m \in Mark, i \in DOMAIN told, k \in Nat : Queued(k, m) => Follows(told[i], m)
    /\ \A l, m \in Mark, k \in Nat : InHand(l) /\ Queued(k, m) => Follows(l, m)
    /\ \A l, m \in Mark, i, k \in Nat : Queued(i, l) /\ Queued(k, m) /\ i < k => Follows(l, m)
    /\ torrent.here /\ ~ torrent.completed =>
          /\ \A i \in DOMAIN told : told[i].event = "started"
          /\ \A m \in Mark : InHand(m) => m.event = "started"
          /\ \A m \in Mark, i \in Nat : Queued(i, m) => m.event = "started"

\* The DHT searches for the torrent only as long as it is there
SearchInv ==
    /\ dht \in DhtState /\ Len(dht.nodes) <= MaxNodes
    /\ dht.search.active => torrent.here

DiscoveryIInv == TorrentInv /\ FirstInv /\ OrderInv /\ SearchInv

-----------------------------------------------------------------------------
(* The DHT                                                                 *)

\* The table within its bounds
DhtOK(d) == d \in DhtState /\ Len(d.nodes) <= MaxNodes

\* From d to e nothing is asked about a torrent that d does not search for
Silent(d, e) ==
    ~ d.search.active =>
        ~ e.search.active /\ \A n \in Nodes : e.left[<<n, "get_peers">>] <= d.left[<<n, "get_peers">>]

DhtSearch == [active : BOOLEAN, age : 0 .. Lifetime + 1,
              queried : SUBSET {Address[n] : n \in Nodes}, candidates : SUBSET Nodes]

LEMMA DhtFields ==
    ASSUME NEW d
    PROVE  /\ d \in DhtState <=>
                d \in [sock : BOOLEAN, nodes : Seq(Nodes), left : [Query -> 0 .. Timeout],
                       search : DhtSearch, found : BOOLEAN, boot : 0 .. BootRetry]
           /\ d \in DhtState => /\ d.sock \in BOOLEAN /\ d.nodes \in Seq(Nodes)
                                /\ d.left \in [Query -> 0 .. Timeout] /\ d.search \in DhtSearch
                                /\ d.found \in BOOLEAN /\ d.boot \in 0 .. BootRetry
  BY DEF DhtState, DhtSearch

LEMMA Bounds ==
    /\ MaxNodes \in Nat \ {0} /\ MinNodes \in Nat /\ MaxQueried \in Nat /\ PerStep \in Nat
    /\ Lifetime \in Nat /\ Timeout \in Nat /\ BootRetry \in Nat
    /\ Enough \in Nat /\ Retry \in Nat /\ Interval \in Nat /\ MaxJobs \in Nat /\ MaxAdds \in Nat
    /\ \A n \in Nodes : Contact[n] \in Nodes
    /\ \A n \in Nodes : <<n, "get_peers">> \in Query /\ <<n, "ping">> \in Query
  BY DhtAssumption, DiscoveryAssumption DEF Query

LEMMA NoSearchIs == NoSearch \in DhtSearch /\ ~ NoSearch.active
  BY Bounds DEF NoSearch, DhtSearch

LEMMA NewDhtIs ==
    /\ DhtOK(NewDht) /\ ~ NewDht.search.active
    /\ \A q \in Query : NewDht.left[q] = 0
    /\ NewDht.nodes = <<>>
<1>1. <<>> \in Seq(Nodes) /\ Len(<<>>) = 0
  BY EmptySeq
<1>2. [q \in Query |-> 0] \in [Query -> 0 .. Timeout] /\ 0 \in 0 .. BootRetry
  BY Bounds
<1>3. NewDht \in DhtState
  <2>1. NewDht \in [sock : BOOLEAN, nodes : Seq(Nodes), left : [Query -> 0 .. Timeout],
                    search : DhtSearch, found : BOOLEAN, boot : 0 .. BootRetry]
    BY <1>1, <1>2, NoSearchIs DEF NewDht
  <2>2. QED
    BY <2>1, DhtFields
<1>4. /\ NewDht.nodes = <<>> /\ NewDht.search = NoSearch
      /\ \A q \in Query : NewDht.left[q] = 0
  BY DEF NewDht
<1>5. Len(NewDht.nodes) <= MaxNodes
  BY <1>1, <1>4, Bounds
<1>6. QED
  BY <1>3, <1>4, <1>5, NoSearchIs DEF DhtOK

LEMMA TransportOK ==
    ASSUME NEW d, DhtOK(d), NEW ready \in BOOLEAN
    PROVE  \A e \in SetDhtTransport(d, ready) : DhtOK(e) /\ Silent(d, e)
<1> TAKE e \in SetDhtTransport(d, ready)
<1> DEFINE s == [d.search EXCEPT !.queried = {}, !.candidates = {}]
<1>1. s \in DhtSearch /\ s.active = d.search.active
  BY DhtFields DEF DhtOK, DhtSearch
<1> HIDE DEF s
<1>2. PICK opens \in {FALSE, ready} :
        e = [NewDht EXCEPT !.sock = opens, !.found = d.found, !.search = s]
  BY DEF SetDhtTransport, s
<1>3. d.found \in BOOLEAN /\ d.left \in [Query -> 0 .. Timeout]
  BY DhtFields DEF DhtOK
<1>4. NewDht \in DhtState /\ Len(NewDht.nodes) <= MaxNodes
  BY NewDhtIs DEF DhtOK
<1>5. /\ e.sock = opens /\ e.found = d.found /\ e.search = s
      /\ e.nodes = NewDht.nodes /\ e.left = NewDht.left
  BY <1>2 DEF NewDht
<1>6. e \in DhtState
  <2>1. NewDht \in [sock : BOOLEAN, nodes : Seq(Nodes), left : [Query -> 0 .. Timeout],
                    search : DhtSearch, found : BOOLEAN, boot : 0 .. BootRetry]
    BY <1>4, DhtFields
  <2>2. e \in [sock : BOOLEAN, nodes : Seq(Nodes), left : [Query -> 0 .. Timeout],
               search : DhtSearch, found : BOOLEAN, boot : 0 .. BootRetry]
    BY <1>1, <1>2, <1>3, <2>1
  <2>3. QED
    BY <2>2, DhtFields
<1>7. \A n \in Nodes : e.left[<<n, "get_peers">>] <= d.left[<<n, "get_peers">>]
  <2>1. SUFFICES ASSUME NEW n \in Nodes
                 PROVE  e.left[<<n, "get_peers">>] <= d.left[<<n, "get_peers">>]
    OBVIOUS
  <2>2. e.left[<<n, "get_peers">>] = 0 /\ d.left[<<n, "get_peers">>] \in 0 .. Timeout
    BY <1>3, <1>5, NewDhtIs, Bounds
  <2>3. QED
    BY <2>2, Bounds
<1>8. QED
  BY <1>1, <1>4, <1>5, <1>6, <1>7 DEF DhtOK, Silent

\* A DHT with other parts of the right types
LEMMA Changed ==
    ASSUME NEW d, DhtOK(d), NEW e,
           e = [d EXCEPT !.left = e.left, !.boot = e.boot, !.search = e.search],
           e.left \in [Query -> 0 .. Timeout], e.boot \in 0 .. BootRetry, e.search \in DhtSearch
    PROVE  DhtOK(e) /\ e.nodes = d.nodes
<1>1. d \in [sock : BOOLEAN, nodes : Seq(Nodes), left : [Query -> 0 .. Timeout],
             search : DhtSearch, found : BOOLEAN, boot : 0 .. BootRetry]
  BY DhtFields DEF DhtOK
<1>2. e.nodes = d.nodes
  BY <1>1
<1>3. e \in [sock : BOOLEAN, nodes : Seq(Nodes), left : [Query -> 0 .. Timeout],
             search : DhtSearch, found : BOOLEAN, boot : 0 .. BootRetry]
  BY <1>1
<1>4. QED
  BY <1>2, <1>3, DhtFields DEF DhtOK

LEMMA AgedOK ==
    ASSUME NEW d, DhtOK(d)
    PROVE  DhtOK(DhtAged(d)) /\ Silent(d, DhtAged(d))
<1> DEFINE e == DhtAged(d)
<1>1. d \in [sock : BOOLEAN, nodes : Seq(Nodes), left : [Query -> 0 .. Timeout],
             search : DhtSearch, found : BOOLEAN, boot : 0 .. BootRetry]
  BY DhtFields DEF DhtOK
<1>2. e.left = [q \in Query |-> IF d.left[q] = 0 THEN 0 ELSE d.left[q] - 1]
  BY <1>1 DEF DhtAged
<1>3. e.boot = IF d.boot = 0 THEN 0 ELSE d.boot - 1
  BY <1>1 DEF DhtAged
<1>4. e.search = [d.search EXCEPT !.age = IF d.search.active /\ @ <= Lifetime THEN @ + 1 ELSE @]
  BY <1>1 DEF DhtAged, DhtSearch
<1>5. e = [d EXCEPT !.left = e.left, !.boot = e.boot, !.search = e.search]
  BY <1>1, <1>2, <1>3, <1>4 DEF DhtAged, DhtSearch
<1> HIDE DEF e
<1>6. e.left \in [Query -> 0 .. Timeout] /\ \A q \in Query : e.left[q] <= d.left[q]
  BY <1>1, <1>2, Bounds
<1>7. e.boot \in 0 .. BootRetry
  BY <1>1, <1>3, Bounds
<1>8. e.search \in DhtSearch /\ e.search.active = d.search.active
  <2>1. d.search \in DhtSearch /\ d.search.age \in 0 .. Lifetime + 1
    BY <1>1 DEF DhtSearch
  <2>2. (IF d.search.active /\ d.search.age <= Lifetime THEN d.search.age + 1 ELSE d.search.age)
          \in 0 .. Lifetime + 1
    BY <2>1, Bounds
  <2>3. QED
    BY <1>4, <2>1, <2>2 DEF DhtSearch
<1>9. DhtOK(e)
  BY <1>5, <1>6, <1>7, <1>8, Changed
<1>10. Silent(d, e)
  BY <1>6, <1>8, Bounds DEF Silent
<1>11. QED
  BY <1>9, <1>10 DEF e

LEMMA FindOK ==
    ASSUME NEW d, DhtOK(d)
    PROVE  DhtOK(FindPeers(d))
<1> DEFINE s == [NoSearch EXCEPT !.active = TRUE]
           e == FindPeers(d)
<1>1. CASE d.search.active
  BY <1>1 DEF FindPeers
<1>2. CASE ~ d.search.active
  <2>1. d \in [sock : BOOLEAN, nodes : Seq(Nodes), left : [Query -> 0 .. Timeout],
               search : DhtSearch, found : BOOLEAN, boot : 0 .. BootRetry]
    BY DhtFields DEF DhtOK
  <2>2. s \in DhtSearch
    BY NoSearchIs DEF DhtSearch
  <2>3. e = [d EXCEPT !.search = s]
    BY <1>2 DEF FindPeers
  <2> HIDE DEF s, e
  <2>4. e.left = d.left /\ e.boot = d.boot /\ e.search = s
    BY <2>1, <2>3
  <2>5. e = [d EXCEPT !.left = e.left, !.boot = e.boot, !.search = e.search]
    BY <2>1, <2>3, <2>4
  <2>6. DhtOK(e)
    BY <2>1, <2>2, <2>4, <2>5, Changed
  <2>7. QED
    BY <2>6 DEF e
<1>3. QED
  BY <1>1, <1>2

LEMMA ForgetOK ==
    ASSUME NEW d, DhtOK(d)
    PROVE  DhtOK(Forget(d)) /\ ~ Forget(d).search.active
<1> DEFINE e == Forget(d)
<1>1. d \in [sock : BOOLEAN, nodes : Seq(Nodes), left : [Query -> 0 .. Timeout],
             search : DhtSearch, found : BOOLEAN, boot : 0 .. BootRetry]
  BY DhtFields DEF DhtOK
<1>2. e = [d EXCEPT !.search = NoSearch]
  BY DEF Forget
<1> HIDE DEF e
<1>3. e.left = d.left /\ e.boot = d.boot /\ e.search = NoSearch
  BY <1>1, <1>2
<1>4. e = [d EXCEPT !.left = e.left, !.boot = e.boot, !.search = e.search]
  BY <1>1, <1>2, <1>3
<1>5. DhtOK(e)
  BY <1>1, <1>3, <1>4, NoSearchIs, Changed
<1>6. QED
  BY <1>3, <1>5, NoSearchIs DEF e

LEMMA BootstrapOK ==
    ASSUME NEW d, DhtOK(d), NEW resolved \in BOOLEAN
    PROVE  DhtOK(Bootstrap(d, resolved)) /\ Silent(d, Bootstrap(d, resolved))
<1> DEFINE e == Bootstrap(d, resolved)
<1>1. d \in [sock : BOOLEAN, nodes : Seq(Nodes), left : [Query -> 0 .. Timeout],
             search : DhtSearch, found : BOOLEAN, boot : 0 .. BootRetry]
  BY DhtFields DEF DhtOK
<1>2. e.left = [q \in Query |-> IF resolved /\ q[1] = Router /\ (q[2] = "ping" \/ d.search.active)
                                THEN Timeout ELSE d.left[q]]
  BY <1>1 DEF Bootstrap
<1>3. e.boot = BootRetry /\ e.search = d.search
  BY <1>1 DEF Bootstrap
<1>4. e = [d EXCEPT !.left = e.left, !.boot = e.boot, !.search = e.search]
  BY <1>1, <1>2, <1>3 DEF Bootstrap
<1> HIDE DEF e
<1>5. e.left \in [Query -> 0 .. Timeout]
  BY <1>1, <1>2, Bounds
<1>6. DhtOK(e)
  <2>1. e.boot \in 0 .. BootRetry /\ e.search \in DhtSearch
    BY <1>1, <1>3, Bounds
  <2>2. QED
    BY <1>4, <1>5, <2>1, Changed
<1>7. ~ d.search.active => \A n \in Nodes : e.left[<<n, "get_peers">>] <= d.left[<<n, "get_peers">>]
  <2>1. SUFFICES ASSUME ~ d.search.active, NEW n \in Nodes
                 PROVE  e.left[<<n, "get_peers">>] <= d.left[<<n, "get_peers">>]
    OBVIOUS
  <2> DEFINE q == <<n, "get_peers">>
  <2>2. q \in Query /\ q[2] = "get_peers"
    BY DEF Query
  <2> HIDE DEF q
  <2>3. e.left[q] = d.left[q] /\ d.left[q] \in 0 .. Timeout
    BY <1>1, <1>2, <2>1, <2>2
  <2>4. e.left[q] <= d.left[q]
    BY <2>3, Bounds
  <2>5. QED
    BY <2>4 DEF q
<1>8. QED
  BY <1>3, <1>6, <1>7 DEF Silent, e

LEMMA SilentTransitive ==
    ASSUME NEW d, NEW e, NEW f, DhtOK(d), DhtOK(e), DhtOK(f), Silent(d, e), Silent(e, f)
    PROVE  Silent(d, f)
<1>1. \A n \in Nodes : /\ d.left[<<n, "get_peers">>] \in 0 .. Timeout
                       /\ e.left[<<n, "get_peers">>] \in 0 .. Timeout
                       /\ f.left[<<n, "get_peers">>] \in 0 .. Timeout
  BY DhtFields, Bounds DEF DhtOK
<1>2. QED
  BY <1>1, Bounds DEF Silent

LEMMA SilentSame ==
    ASSUME NEW d, DhtOK(d)
    PROVE  Silent(d, d)
<1>1. \A n \in Nodes : d.left[<<n, "get_peers">>] \in 0 .. Timeout
  BY DhtFields, Bounds DEF DhtOK
<1>2. QED
  BY <1>1, Bounds DEF Silent

LEMMA EnteredOK ==
    ASSUME NEW d, DhtOK(d), NEW ready \in BOOLEAN, NEW resolved \in BOOLEAN
    PROVE  \A e \in Entered(d, ready, resolved) : DhtOK(e) /\ Silent(d, e)
<1> TAKE e \in Entered(d, ready, resolved)
<1>1. CASE e = d
  BY <1>1, SilentSame
<1>2. CASE e \in SetDhtTransport(d, TRUE)
  BY <1>2, TransportOK
<1>3. CASE e = Bootstrap(d, resolved)
  BY <1>3, BootstrapOK
<1>4. QED
  BY <1>1, <1>2, <1>3 DEF Entered

\* A step of a search; none without one
LEMMA SearchedOK ==
    ASSUME NEW d, DhtOK(d), NEW resolved \in BOOLEAN
    PROVE  DhtOK(Searched(d, resolved)) /\ Silent(d, Searched(d, resolved))
<1> DEFINE e == Searched(d, resolved)
           nodes == d.search.candidates \cup Table(d)
           asked == ToAsk(nodes, d.search.queried)
<1>1. CASE ~ d.search.active
  <2>1. e = d
    BY <1>1 DEF Searched
  <2>2. QED
    BY <2>1, SilentSame
<1>2. CASE d.search.active
  <2>1. d \in [sock : BOOLEAN, nodes : Seq(Nodes), left : [Query -> 0 .. Timeout],
               search : DhtSearch, found : BOOLEAN, boot : 0 .. BootRetry]
    BY DhtFields DEF DhtOK
  <2>2. nodes \subseteq Nodes
    <3>1. Table(d) \subseteq Nodes
      BY <2>1, ElementOfSeq, LenProperties DEF Table
    <3>2. QED
      BY <2>1, <3>1 DEF DhtSearch
  <2> HIDE DEF nodes
  <2>3. asked \subseteq Nodes
    BY <2>2 DEF ToAsk
  <2> HIDE DEF asked
  <2>4. e \in {EndSearch(d), StepSearch(d, nodes, asked, resolved)}
    BY <1>2 DEF Searched, nodes, asked
  <2> HIDE DEF e
  <2>5. DhtOK(EndSearch(d))
    <3> DEFINE s == [d.search EXCEPT !.active = FALSE, !.age = 0]
               f == EndSearch(d)
    <3>1. s \in DhtSearch
      <4> DEFINE Asked == {Address[n] : n \in Nodes}
                 Ages == 0 .. Lifetime + 1
      <4>1. 0 \in Ages
        BY Bounds
      <4>2. d.search \in [active : BOOLEAN, age : Ages, queried : SUBSET Asked,
                          candidates : SUBSET Nodes]
        BY <2>1 DEF DhtSearch
      <4> HIDE DEF Asked, Ages
      <4>3. s \in [active : BOOLEAN, age : Ages, queried : SUBSET Asked, candidates : SUBSET Nodes]
        BY <4>1, <4>2
      <4>4. QED
        BY <4>3 DEF DhtSearch, Asked, Ages
    <3>2. f.search = s /\ f.left = d.left /\ f.boot = d.boot
      BY <2>1 DEF EndSearch, DhtSearch
    <3>3. f = [d EXCEPT !.left = f.left, !.boot = f.boot, !.search = f.search]
      BY <2>1, <3>2 DEF EndSearch, DhtSearch
    <3> HIDE DEF f, s
    <3>4. DhtOK(f)
      BY <2>1, <3>1, <3>2, <3>3, Changed
    <3>5. QED
      BY <3>4 DEF f
  <2>6. DhtOK(StepSearch(d, nodes, asked, resolved))
    <3> DEFINE more == {Address[n] : n \in asked}
               f == [d EXCEPT !.search.queried = @ \cup more,
                              !.search.candidates = nodes,
                              !.left = [q \in Query |-> IF q[1] \in asked /\ q[2] = "get_peers"
                                                        THEN Timeout ELSE @[q]]]
    <3>1. CASE StepSearch(d, nodes, asked, resolved) \in {EndSearch(d), Bootstrap(d, resolved), d}
      BY <2>5, <3>1, BootstrapOK
    <3>2. CASE StepSearch(d, nodes, asked, resolved) = f
      <4>1. more \subseteq {Address[n] : n \in Nodes}
        BY <2>3
      <4> HIDE DEF more
      <4>2. f.search = [d.search EXCEPT !.queried = d.search.queried \cup more, !.candidates = nodes]
        BY <2>1 DEF DhtSearch
      <4>3. f.left = [q \in Query |-> IF q[1] \in asked /\ q[2] = "get_peers"
                                      THEN Timeout ELSE d.left[q]]
        BY <2>1
      <4>4. f.boot = d.boot
        BY <2>1
      <4>5. f = [d EXCEPT !.left = f.left, !.boot = f.boot, !.search = f.search]
        BY <2>1, <4>2, <4>3, <4>4 DEF DhtSearch
      <4> HIDE DEF f
      <4>6. f.search \in DhtSearch
        BY <2>1, <2>2, <4>1, <4>2 DEF DhtSearch
      <4>7. f.left \in [Query -> 0 .. Timeout]
        BY <2>1, <4>3, Bounds
      <4>8. DhtOK(f)
        BY <2>1, <4>4, <4>5, <4>6, <4>7, Changed
      <4>9. QED
        BY <3>2, <4>8
    <3>3. QED
      BY <3>1, <3>2 DEF StepSearch
  <2>7. QED
    BY <1>2, <2>4, <2>5, <2>6 DEF Silent, e
<1>3. QED
  BY <1>1, <1>2

LEMMA NodeRemoved ==
    ASSUME NEW S, NEW s \in Seq(S), NEW i \in DOMAIN s
    PROVE  /\ RemoveAt(s, i) \in Seq(S) /\ Len(RemoveAt(s, i)) = Len(s) - 1
           /\ \A k \in 1 .. Len(s) - 1 :
                RemoveAt(s, i)[k] = IF k < i THEN s[k] ELSE s[k + 1]
<1> DEFINE a == SubSeq(s, 1, i - 1)
<1> DEFINE b == SubSeq(s, i + 1, Len(s))
<1>1. Len(s) \in Nat /\ DOMAIN s = 1 .. Len(s) /\ i \in 1 .. Len(s)
  BY LenProperties
<1>2. \A k \in 1 .. Len(s) : s[k] \in S
  BY <1>1, ElementOfSeq
<1>3. /\ a \in Seq(S) /\ Len(a) = i - 1
      /\ \A k \in 1 .. i - 1 : a[k] = s[k]
  <2>1. \A k \in 1 .. i - 1 : s[k] \in S
    BY <1>1, <1>2
  <2>2. /\ a \in Seq(S)
        /\ Len(a) = IF 1 <= i - 1 THEN i - 1 - 1 + 1 ELSE 0
        /\ \A k \in 1 .. i - 1 - 1 + 1 : a[k] = s[1 + k - 1]
    BY <1>1, <2>1, SubSeqProperties
  <2>3. QED
    BY <1>1, <2>2
<1>4. /\ b \in Seq(S) /\ Len(b) = Len(s) - i
      /\ \A k \in 1 .. Len(s) - i : b[k] = s[i + k]
  <2>1. \A k \in i + 1 .. Len(s) : s[k] \in S
    BY <1>1, <1>2
  <2>2. /\ b \in Seq(S)
        /\ Len(b) = IF i + 1 <= Len(s) THEN Len(s) - (i + 1) + 1 ELSE 0
        /\ \A k \in 1 .. Len(s) - (i + 1) + 1 : b[k] = s[i + 1 + k - 1]
    BY <1>1, <2>1, SubSeqProperties
  <2>3. QED
    BY <1>1, <2>2
<1> HIDE DEF a, b
<1>5. RemoveAt(s, i) = a \o b
  BY DEF RemoveAt, a, b
<1>6. /\ a \o b \in Seq(S) /\ Len(a \o b) = Len(a) + Len(b)
      /\ \A k \in 1 .. Len(a) + Len(b) :
           (a \o b)[k] = IF k <= Len(a) THEN a[k] ELSE b[k - Len(a)]
  BY <1>3, <1>4, ConcatProperties
<1>7. ASSUME NEW k \in 1 .. Len(s) - 1
      PROVE  (a \o b)[k] = IF k < i THEN s[k] ELSE s[k + 1]
  <2>1. (a \o b)[k] = IF k <= Len(a) THEN a[k] ELSE b[k - Len(a)]
    BY <1>1, <1>3, <1>4, <1>6
  <2>2. CASE k < i
    BY <1>1, <1>3, <2>1, <2>2
  <2>3. CASE ~(k < i)
    <3>1. k - Len(a) \in 1 .. Len(s) - i /\ i + (k - Len(a)) = k + 1 /\ ~(k <= Len(a))
      BY <1>1, <1>3, <2>3
    <3>2. QED
      BY <1>4, <2>1, <2>3, <3>1
  <2>4. QED
    BY <2>2, <2>3
<1>8. QED
  BY <1>1, <1>3, <1>4, <1>5, <1>6, <1>7

LEMMA RememberOK ==
    ASSUME NEW nodes \in Seq(Nodes), Len(nodes) <= MaxNodes, NEW n \in Nodes
    PROVE  Remember(nodes, n) \in Seq(Nodes) /\ Len(Remember(nodes, n)) <= MaxNodes
<1> DEFINE others == IF \E i \in DOMAIN nodes : nodes[i] = n
                     THEN RemoveAt(nodes, CHOOSE i \in DOMAIN nodes : nodes[i] = n) ELSE nodes
           kept == IF Len(others) = MaxNodes THEN Tail(others) ELSE others
<1>1. Len(nodes) \in Nat
  BY LenProperties
<1>2. others \in Seq(Nodes) /\ Len(others) <= Len(nodes) /\ Len(others) \in Nat
  <2>1. CASE \E i \in DOMAIN nodes : nodes[i] = n
    <3>1. PICK i \in DOMAIN nodes : i = CHOOSE k \in DOMAIN nodes : nodes[k] = n
      BY <2>1
    <3>2. others = RemoveAt(nodes, i)
      BY <2>1, <3>1
    <3>3. RemoveAt(nodes, i) \in Seq(Nodes) /\ Len(RemoveAt(nodes, i)) = Len(nodes) - 1
      BY NodeRemoved
    <3>4. Len(RemoveAt(nodes, i)) \in Nat
      BY <3>3, LenProperties
    <3>5. QED
      BY <1>1, <3>2, <3>3, <3>4
  <2>2. CASE ~ \E i \in DOMAIN nodes : nodes[i] = n
    BY <1>1, <2>2
  <2>3. QED
    BY <2>1, <2>2
<1> HIDE DEF others
<1>3. kept \in Seq(Nodes) /\ Len(kept) \in Nat /\ Len(kept) + 1 <= MaxNodes
  <2>1. CASE Len(others) = MaxNodes
    <3>1. others # <<>>
      BY <2>1, Bounds, EmptySeq
    <3>2. Tail(others) \in Seq(Nodes) /\ Len(Tail(others)) = Len(others) - 1
      BY <1>2, <3>1, HeadTailProperties
    <3>3. QED
      BY <1>2, <2>1, <3>2, Bounds
  <2>2. CASE Len(others) # MaxNodes
    BY <1>1, <1>2, <2>2, Bounds
  <2>3. QED
    BY <2>1, <2>2
<1> HIDE DEF kept
<1>4. Append(kept, n) \in Seq(Nodes) /\ Len(Append(kept, n)) = Len(kept) + 1
  BY <1>3, AppendProperties
<1>5. Remember(nodes, n) = Append(kept, n)
  BY DEF Remember, others, kept
<1>6. QED
  BY <1>3, <1>4, <1>5, Bounds

LEMMA AnswerOK ==
    ASSUME NEW d, DhtOK(d), NEW n \in Nodes, NEW what \in {"ping", "get_peers"}
    PROVE  /\ DhtOK(HandleAnswer(d, n, what))
           /\ HandleAnswer(d, n, what).search.active = d.search.active
           /\ \A m \in Nodes : HandleAnswer(d, n, what).left[<<m, "get_peers">>]
                                 <= d.left[<<m, "get_peers">>]
<1> DEFINE e == [d EXCEPT !.left[<<n, what>>] = 0, !.nodes = Remember(@, n)]
           f == [e EXCEPT !.nodes = Remember(@, Contact[n]),
                          !.found = @ \/ n \in Holders,
                          !.search.candidates = IF d.search.active THEN @ \cup {Contact[n]} ELSE @]
           T == [sock : BOOLEAN, nodes : Seq(Nodes), left : [Query -> 0 .. Timeout],
                 search : DhtSearch, found : BOOLEAN, boot : 0 .. BootRetry]
<1>1. d \in T /\ Len(d.nodes) <= MaxNodes
  BY DhtFields DEF DhtOK
<1>2. <<n, what>> \in Query /\ 0 \in 0 .. Timeout
  BY Bounds DEF Query
<1>3. Remember(d.nodes, n) \in Seq(Nodes) /\ Len(Remember(d.nodes, n)) <= MaxNodes
  BY <1>1, RememberOK
<1>4. /\ e.nodes = Remember(d.nodes, n) /\ e.search = d.search /\ e.found = d.found
      /\ e.left = [d.left EXCEPT ![<<n, what>>] = 0]
  BY <1>1
<1>5. e \in T
  BY <1>1, <1>2, <1>3
<1> HIDE DEF e
<1>6. \A m \in Nodes : e.left[<<m, "get_peers">>] <= d.left[<<m, "get_peers">>]
  <2>1. \A q \in Query : e.left[q] = d.left[q] \/ e.left[q] = 0
    BY <1>1, <1>2, <1>4
  <2>2. \A q \in Query : d.left[q] \in 0 .. Timeout
    BY <1>1
  <2>3. \A q \in Query : e.left[q] <= d.left[q]
    BY <2>1, <2>2, Bounds
  <2>4. QED
    BY <2>3, Bounds
<1>7. CASE what = "ping"
  <2>1. HandleAnswer(d, n, what) = e
    BY <1>7 DEF HandleAnswer, e
  <2>2. DhtOK(e)
    BY <1>3, <1>4, <1>5, DhtFields DEF DhtOK
  <2>3. QED
    BY <1>4, <1>6, <2>1, <2>2
<1>8. CASE what # "ping"
  <2>1. HandleAnswer(d, n, what) = f
    BY <1>8 DEF HandleAnswer, e
  <2> DEFINE next == Remember(e.nodes, Contact[n])
             cand == IF d.search.active THEN e.search.candidates \cup {Contact[n]}
                     ELSE e.search.candidates
             s == [e.search EXCEPT !.candidates = cand]
  <2>2. next \in Seq(Nodes) /\ Len(next) <= MaxNodes
    BY <1>3, <1>4, Bounds, RememberOK
  <2>3. cand \subseteq Nodes /\ e.search \in DhtSearch
    BY <1>5, Bounds DEF DhtSearch
  <2>4. f = [e EXCEPT !.nodes = next, !.found = e.found \/ n \in Holders, !.search = s]
    BY <1>5 DEF DhtSearch
  <2> HIDE DEF next, cand
  <2>5. s \in DhtSearch /\ s.active = e.search.active
    <3> DEFINE Asked == {Address[k] : k \in Nodes}
               Ages == 0 .. Lifetime + 1
    <3>1. e.search \in [active : BOOLEAN, age : Ages, queried : SUBSET Asked,
                        candidates : SUBSET Nodes]
      BY <2>3 DEF DhtSearch
    <3> HIDE DEF Asked, Ages
    <3>2. /\ s \in [active : BOOLEAN, age : Ages, queried : SUBSET Asked, candidates : SUBSET Nodes]
          /\ s.active = e.search.active
      BY <2>3, <3>1
    <3>3. QED
      BY <3>2 DEF DhtSearch, Asked, Ages
  <2> HIDE DEF s, f
  <2>6. /\ f.nodes = next /\ f.search = s /\ f.left = e.left
    BY <1>5, <2>4
  <2>7. f \in T
    BY <1>5, <2>2, <2>4, <2>5
  <2>8. DhtOK(f)
    BY <2>2, <2>6, <2>7, DhtFields DEF DhtOK
  <2>9. QED
    BY <1>4, <1>6, <2>1, <2>5, <2>6, <2>8
<1>9. QED
  BY <1>7, <1>8

\* The DHT's part of a turn
LEMMA DhtTurnOK ==
    ASSUME TorrentInv, SearchInv, NEW resolved \in BOOLEAN, NEW a \in FollowTransport,
           NEW d \in DhtTurn(DhtAged(a), resolved)
    PROVE  /\ DhtOK(d) /\ (d.search.active => torrent.here)
           /\ ~ torrent.here => \A n \in Nodes : d.left[<<n, "get_peers">>] <= dht.left[<<n, "get_peers">>]
<1> DEFINE b == DhtAged(a)
           c == IF Searchable THEN FindPeers(b) ELSE b
<1>1. DhtOK(dht) /\ (dht.search.active => torrent.here)
  BY DEF SearchInv, DhtOK
<1> USE DEF TorrentInv
<1>2. DhtOK(a) /\ Silent(dht, a)
  <2>1. a = dht \/ a \in SetDhtTransport(dht, usable)
    BY DEF FollowTransport
  <2>2. QED
    BY <1>1, <2>1, TransportOK, SilentSame
<1>3. DhtOK(b) /\ Silent(a, b)
  BY <1>2, AgedOK
<1>4. DhtOK(c) /\ (~ torrent.here => c = b)
  BY <1>3, FindOK DEF Searchable
<1>5. PICK e : DhtOK(e) /\ Silent(c, e) /\ (d = b \/ d = IF b.sock THEN Searched(e, resolved) ELSE e)
  <2>1. CASE d = b
    BY <1>4, <2>1, SilentSame
  <2>2. CASE d # b
    <3>1. PICK e \in Entered(c, usable, resolved) : d = IF b.sock THEN Searched(e, resolved) ELSE e
      BY <2>2 DEF DhtTurn
    <3>2. DhtOK(e) /\ Silent(c, e)
      BY <1>4, <3>1, EnteredOK
    <3>3. QED
      BY <3>1, <3>2
  <2>3. QED
    BY <2>1, <2>2
<1>6. DhtOK(d) /\ (Silent(e, d) \/ d = b)
  BY <1>3, <1>5, SearchedOK, SilentSame
<1> HIDE DEF b, c
<1>7. Silent(dht, b)
  BY <1>1, <1>2, <1>3, SilentTransitive
<1>8. ~ torrent.here => Silent(dht, d)
  <2>1. SUFFICES ASSUME ~ torrent.here
                 PROVE  Silent(dht, d)
    OBVIOUS
  <2>2. Silent(dht, e)
    BY <1>1, <1>3, <1>4, <1>5, <1>7, <2>1, SilentTransitive
  <2>3. QED
    BY <1>1, <1>5, <1>6, <1>7, <2>2, SilentTransitive
<1>9. QED
  BY <1>1, <1>6, <1>8 DEF Silent

-----------------------------------------------------------------------------
(* A turn                                                                  *)

LEMMA UrlsAre ==
    ASSUME rules \in Settings
    PROVE  /\ IsFiniteSet(Urls)
           /\ \A i \in Urls : i \in Nat /\ rules.trackers[i] \in Schemes
<1>1. rules.trackers \in Seq(Schemes)
  BY DiscoveryAssumption
<1>2. /\ DOMAIN rules.trackers = 1 .. Len(rules.trackers) /\ Len(rules.trackers) \in Nat
      /\ 1 \in Int /\ Len(rules.trackers) \in Int
  BY <1>1, LenProperties
<1>3. IsFiniteSet(1 .. Len(rules.trackers))
  BY <1>2, FS_Interval
<1>4. Urls \subseteq 1 .. Len(rules.trackers)
  BY <1>2 DEF Urls
<1>5. \A i \in 1 .. Len(rules.trackers) : rules.trackers[i] \in Schemes
  BY <1>1, ElementOfSeq
<1>6. IsFiniteSet(Urls)
  BY <1>3, <1>4, FS_Subset
<1>7. \A i \in Urls : i \in Nat /\ rules.trackers[i] \in Schemes
  <2>1. \A i \in 1 .. Len(rules.trackers) : i \in Nat
    BY <1>2
  <2>2. QED
    BY <1>4, <1>5, <2>1
<1>8. QED
  BY <1>6, <1>7

LEMMA LearnOK ==
    ASSUME NEW t \in Torrent, NEW n \in Nat
    PROVE  /\ Learn(t, n) \in Torrent
           /\ Learn(t, n) = [t EXCEPT !.known = Learn(t, n).known]
<1> DEFINE k == IF t.known + n > Enough THEN Enough ELSE t.known + n
<1>1. k \in 0 .. Enough
  BY Bounds DEF Torrent
<1>2. Learn(t, n) = [t EXCEPT !.known = k]
  BY DEF Learn, Torrent
<1> HIDE DEF k
<1>3. QED
  BY <1>1, <1>2 DEF Torrent

\* What does not depend on the answers: the torrent of u is that of t
SameButTime(t, u) ==
    /\ u \in Torrent
    /\ u.here = t.here /\ u.of = t.of /\ u.active = t.active /\ u.private = t.private /\ u.done = t.done
    /\ u.started = t.started /\ u.completed = t.completed

LEMMA AppliedOK ==
    ASSUME NEW t \in Torrent, replies \in Seq([ok : BOOLEAN, of : Nat])
    PROVE  /\ SameButTime(t, Applied(t, replies))
           /\ (\A i \in DOMAIN replies : ~ replies[i].ok) => Applied(t, replies) = t
<1> DEFINE good == {i \in DOMAIN replies : replies[i].ok}
<1>1. Cardinality(good) \in Nat
  <2>1. DOMAIN replies = 1 .. Len(replies) /\ Len(replies) \in Nat /\ 1 \in Int /\ Len(replies) \in Int
    BY LenProperties
  <2>2. IsFiniteSet(1 .. Len(replies))
    BY <2>1, FS_Interval
  <2>3. IsFiniteSet(good)
    BY <2>1, <2>2, FS_Subset
  <2>4. QED
    BY <2>3, FS_CardinalityType
<1>2. Applied(t, replies) = IF t.here /\ good # {}
                            THEN [Learn(t, Cardinality(good)) EXCEPT !.wait = Interval] ELSE t
  BY DEF Applied
<1>3. SameButTime(t, t)
  BY DEF SameButTime
<1>4. SameButTime(t, [Learn(t, Cardinality(good)) EXCEPT !.wait = Interval])
  <2> DEFINE l == Learn(t, Cardinality(good))
  <2>1. l \in Torrent /\ l = [t EXCEPT !.known = l.known]
    BY <1>1, LearnOK
  <2> HIDE DEF l
  <2>2. Interval \in 0 .. (Interval + Retry)
    BY Bounds
  <2>3. SameButTime(t, l)
    BY <2>1 DEF SameButTime, Torrent
  <2>4. SameButTime(t, [l EXCEPT !.wait = Interval])
    BY <2>1, <2>2, <2>3 DEF SameButTime, Torrent
  <2>5. QED
    BY <2>4 DEF l
<1>5. (\A i \in DOMAIN replies : ~ replies[i].ok) => good = {}
  OBVIOUS
<1> HIDE DEF good
<1>6. QED
  BY <1>2, <1>3, <1>4, <1>5

\* The torrent after a turn's start, the one after its announce, and the jobs queued
TurnIs(found, due, new) ==
    /\ SameButTime(torrent, found) /\ (torrent.wait = 0 => found.wait = 0)
    /\ due = IF Due(found) THEN MarkAnnounced(found) ELSE found
    /\ due \in Torrent
    /\ new \in Seq(Job) /\ jobs' = jobs \o new /\ Len(jobs') <= MaxJobs
    /\ \A i \in DOMAIN new : /\ new[i].event = NextEvent(found) /\ new[i].of = torrent.of
                             /\ Due(found) /\ Urls # {}
    /\ \A i, k \in DOMAIN new : new[i].entry = new[k].entry => i = k
    /\ torrent' = Applied(due, replies)

LEMMA TurnParts ==
    ASSUME TorrentInv, SearchInv, NEW resolved \in BOOLEAN, TurnWith(resolved)
    PROVE  /\ \E found, due, new : TurnIs(found, due, new)
           /\ SearchInv'
           /\ ~ torrent.here => \A n \in Nodes : dht'.left[<<n, "get_peers">>] <= dht.left[<<n, "get_peers">>]
<1> USE DEF TorrentInv
<1> DEFINE aged == [torrent EXCEPT !.wait = IF @ = 0 THEN 0 ELSE @ - 1]
           Found(d) == IF rules.dht /\ d.found /\ aged.here THEN Learn(aged, 1) ELSE aged
           Next_(d) == IF Due(Found(d)) THEN MarkAnnounced(Found(d)) ELSE Found(d)
           Asked(d) == IF Due(Found(d)) THEN Urls ELSE {}
<1>1. PICK d :
        /\ \E a \in FollowTransport : d \in DhtTurn(DhtAged(a), resolved)
        /\ Len(jobs) + Cardinality(Asked(d)) <= MaxJobs
        /\ dht' = IF rules.dht THEN [d EXCEPT !.found = FALSE] ELSE d
        /\ \E seq \in SetToSeqs(Asked(d)) :
              jobs' = jobs \o [i \in DOMAIN seq |->
                         [url |-> rules.trackers[seq[i]], entry |-> seq[i],
                          event |-> NextEvent(Found(d)), of |-> torrent.of]]
        /\ torrent' = Applied(Next_(d), replies)
  BY DEF TurnWith
<1> DEFINE found == Found(d)
           due == Next_(d)
           urls == Asked(d)
<1>2. SameButTime(torrent, aged) /\ (torrent.wait = 0 => aged.wait = 0)
  <2> DEFINE w == IF torrent.wait = 0 THEN 0 ELSE torrent.wait - 1
  <2>1. w \in 0 .. (Interval + Retry) /\ (torrent.wait = 0 => w = 0)
    BY Bounds DEF Torrent
  <2>2. aged = [torrent EXCEPT !.wait = w]
    OBVIOUS
  <2> HIDE DEF w, aged
  <2>3. QED
    BY <2>1, <2>2 DEF SameButTime, Torrent
<1> HIDE DEF aged
<1>3. SameButTime(torrent, found) /\ (torrent.wait = 0 => found.wait = 0)
  <2>1. CASE found = aged
    BY <1>2, <2>1
  <2>2. CASE found = Learn(aged, 1)
    <3>1. aged \in Torrent
      BY <1>2 DEF SameButTime
    <3>2. Learn(aged, 1) \in Torrent /\ Learn(aged, 1) = [aged EXCEPT !.known = Learn(aged, 1).known]
      BY <3>1, LearnOK
    <3>3. SameButTime(aged, Learn(aged, 1)) /\ Learn(aged, 1).wait = aged.wait
      BY <3>1, <3>2 DEF SameButTime, Torrent
    <3>4. QED
      BY <1>2, <2>2, <3>3 DEF SameButTime
  <2>3. QED
    BY <2>1, <2>2
<1> HIDE DEF Found
<1>4. due \in Torrent
  <2>1. found \in Torrent
    BY <1>3 DEF SameButTime
  <2>2. Retry \in 0 .. (Interval + Retry)
    BY Bounds
  <2>3. MarkAnnounced(found) \in Torrent
    BY <2>1, <2>2 DEF MarkAnnounced, Torrent
  <2>4. QED
    BY <2>1, <2>3
<1> HIDE DEF Next_
<1>5. PICK seq \in SetToSeqs(urls) :
        jobs' = jobs \o [i \in DOMAIN seq |->
                   [url |-> rules.trackers[seq[i]], entry |-> seq[i],
                    event |-> NextEvent(found), of |-> torrent.of]]
  BY <1>1
<1> DEFINE new == [i \in DOMAIN seq |->
                     [url |-> rules.trackers[seq[i]], entry |-> seq[i],
                      event |-> NextEvent(found), of |-> torrent.of]]
<1>6. /\ \A i \in urls : i \in Nat /\ rules.trackers[i] \in Schemes
      /\ Cardinality(urls) \in Nat /\ (urls # {} => Due(found) /\ urls = Urls)
  BY UrlsAre, FS_CardinalityType, FS_EmptySet
<1> HIDE DEF Asked
<1>7. /\ seq \in [1 .. Cardinality(urls) -> urls]
      /\ \A i, k \in 1 .. Cardinality(urls) : i # k => seq[i] # seq[k]
  BY <1>5 DEF SetToSeqs
<1>8. /\ DOMAIN new = 1 .. Cardinality(urls)
      /\ \A i \in DOMAIN new : new[i].entry = seq[i] /\ new[i].event = NextEvent(found)
                               /\ new[i].of = torrent.of
  BY <1>7
<1>9. new \in Seq(Job) /\ Len(new) = Cardinality(urls)
  <2>1. NextEvent(found) \in Event
    BY DEF NextEvent, Event
  <2>2. torrent.of \in Nat
    BY DEF Torrent
  <2>3. \A i \in 1 .. Cardinality(urls) :
           [url |-> rules.trackers[seq[i]], entry |-> seq[i],
            event |-> NextEvent(found), of |-> torrent.of] \in Job
    BY <1>6, <1>7, <2>1, <2>2 DEF Job
  <2>4. new \in [1 .. Cardinality(urls) -> Job]
    BY <1>7, <2>3
  <2> HIDE DEF new
  <2>5. QED
    BY <1>6, <2>4
<1> HIDE DEF new
<1>10. Len(jobs') <= MaxJobs
  <2>1. Len(jobs \o new) = Len(jobs) + Len(new)
    BY <1>9, ConcatProperties
  <2>2. QED
    BY <1>1, <1>5, <1>9, <2>1 DEF new
<1>11. TurnIs(found, due, new)
  <2>1. due = IF Due(found) THEN MarkAnnounced(found) ELSE found
    BY DEF Next_
  <2>2. jobs' = jobs \o new
    BY <1>5 DEF new
  <2>3. \A i \in DOMAIN new : Due(found) /\ Urls # {}
    BY <1>6, <1>7, <1>8
  <2>4. \A i, k \in DOMAIN new : new[i].entry = new[k].entry => i = k
    BY <1>7, <1>8
  <2>5. QED
    BY <1>1, <1>3, <1>4, <1>8, <1>9, <1>10, <2>1, <2>2, <2>3, <2>4 DEF TurnIs
<1>12. torrent'.here = torrent.here
  <2>1. torrent'.here = due.here
    BY <1>1, <1>4, AppliedOK DEF SameButTime
  <2>2. found.here = torrent.here /\ found \in Torrent
    BY <1>3 DEF SameButTime
  <2>3. MarkAnnounced(found).here = found.here
    BY <2>2 DEF MarkAnnounced, Torrent
  <2>4. QED
    BY <2>1, <2>2, <2>3 DEF Next_
<1>13. /\ SearchInv'
       /\ ~ torrent.here => \A n \in Nodes : dht'.left[<<n, "get_peers">>] <= dht.left[<<n, "get_peers">>]
  <2>1. /\ DhtOK(d) /\ (d.search.active => torrent.here)
        /\ ~ torrent.here => \A n \in Nodes : d.left[<<n, "get_peers">>] <= dht.left[<<n, "get_peers">>]
    <3>1. PICK a \in FollowTransport : d \in DhtTurn(DhtAged(a), resolved)
      BY <1>1
    <3>2. QED
      BY <3>1, DhtTurnOK
  <2>2. /\ dht' \in DhtState /\ dht'.nodes = d.nodes /\ dht'.search = d.search /\ dht'.left = d.left
    <3>1. dht' = d \/ dht' = [d EXCEPT !.found = FALSE]
      BY <1>1
    <3>2. d \in [sock : BOOLEAN, nodes : Seq(Nodes), left : [Query -> 0 .. Timeout],
                 search : DhtSearch, found : BOOLEAN, boot : 0 .. BootRetry]
      BY <2>1, DhtFields DEF DhtOK
    <3>3. /\ dht' \in [sock : BOOLEAN, nodes : Seq(Nodes), left : [Query -> 0 .. Timeout],
                       search : DhtSearch, found : BOOLEAN, boot : 0 .. BootRetry]
          /\ dht'.nodes = d.nodes /\ dht'.search = d.search /\ dht'.left = d.left
      BY <3>1, <3>2
    <3>4. QED
      BY <3>3, DhtFields
  <2>3. QED
    BY <1>12, <2>1, <2>2 DEF SearchInv, DhtOK
<1>14. QED
  BY <1>11, <1>13

\* The flags that an announce sets
LEMMA Marked ==
    ASSUME NEW t \in Torrent
    PROVE  LET m == MarkAnnounced(t)
           IN  /\ m.here = t.here /\ m.of = t.of
               /\ m.started <=> t.started \/ (Urls # {} /\ NextEvent(t) = "started")
               /\ m.completed <=> t.completed \/ (Urls # {} /\ NextEvent(t) = "completed")
<1>1. NextEvent(t) \in Event
  BY DEF NextEvent, Event
<1>2. t.started \in BOOLEAN /\ t.completed \in BOOLEAN
  BY DEF Torrent
<1>3. QED
  BY <1>1, <1>2 DEF MarkAnnounced, Torrent

\* The queue after a turn
LEMMA QueueAfter ==
    ASSUME TorrentInv, NEW found, NEW due, NEW new, TurnIs(found, due, new)
    PROVE  /\ jobs' \in Seq(Job) /\ Len(jobs') = Len(jobs) + Len(new)
           /\ Len(jobs) \in Nat /\ Len(new) \in Nat
           /\ DOMAIN jobs' = 1 .. Len(jobs) + Len(new)
           /\ DOMAIN jobs = 1 .. Len(jobs) /\ DOMAIN new = 1 .. Len(new)
           /\ \A i \in 1 .. Len(jobs) : jobs'[i] = jobs[i]
           /\ \A i \in 1 .. Len(new) : jobs'[Len(jobs) + i] = new[i]
<1>1. jobs \in Seq(Job) /\ new \in Seq(Job) /\ jobs' = jobs \o new
  BY DEF TorrentInv, TurnIs
<1>2. /\ jobs' \in Seq(Job) /\ Len(jobs') = Len(jobs) + Len(new)
      /\ \A i \in 1 .. Len(jobs) + Len(new) :
           jobs'[i] = IF i <= Len(jobs) THEN jobs[i] ELSE new[i - Len(jobs)]
  BY <1>1, ConcatProperties
<1>3. /\ Len(jobs) \in Nat /\ Len(new) \in Nat /\ DOMAIN jobs = 1 .. Len(jobs)
      /\ DOMAIN new = 1 .. Len(new) /\ DOMAIN jobs' = 1 .. Len(jobs')
  BY <1>1, <1>2, LenProperties
<1>4. QED
  BY <1>2, <1>3

LEMMA TurnKeepsTorrent ==
    ASSUME TorrentInv, SearchInv, NEW resolved \in BOOLEAN, TurnWith(resolved)
    PROVE  TorrentInv'
<1>1. PICK found, due, new : TurnIs(found, due, new)
  BY TurnParts
<1>2. SameButTime(due, torrent')
  BY <1>1, AppliedOK DEF TurnIs, TorrentInv
<1>3. found \in Torrent /\ found.here = torrent.here /\ found.of = torrent.of
  BY <1>1 DEF TurnIs, SameButTime
<1>4. due.here = torrent.here /\ due.of = torrent.of
  BY <1>1, <1>3, Marked DEF TurnIs
<1>5. torrent' \in Torrent /\ (torrent'.here => torrent'.of = last)
  BY <1>2, <1>4 DEF SameButTime, TorrentInv
<1>6. UNCHANGED <<rules, at, job, last, usable>> /\ replies' = <<>> /\ delayed' \in BOOLEAN
  BY DEF TurnWith, TorrentInv, Torrent
<1>7. jobs' \in Seq(Job) /\ Len(jobs') <= MaxJobs /\ \A i \in DOMAIN jobs' : jobs'[i].of <= last
  <2>1. \A i \in DOMAIN new : new[i].of = last
    BY <1>1, <1>3 DEF TurnIs, TorrentInv, Due
  <2>2. ASSUME NEW i \in DOMAIN jobs'
        PROVE  jobs'[i].of <= last
    <3>1. CASE i \in 1 .. Len(jobs)
      BY <1>1, <3>1, QueueAfter DEF TorrentInv
    <3>2. CASE i \notin 1 .. Len(jobs)
      <4>1. i - Len(jobs) \in 1 .. Len(new) /\ i = Len(jobs) + (i - Len(jobs))
        BY <1>1, <2>2, <3>2, QueueAfter
      <4>2. jobs'[i] = new[i - Len(jobs)]
        BY <1>1, <4>1, QueueAfter
      <4>3. QED
        BY <1>1, <2>1, <4>1, <4>2, QueueAfter DEF TorrentInv
    <3>3. QED
      BY <3>1, <3>2
  <2>3. QED
    BY <1>1, <2>2, QueueAfter DEF TurnIs
<1>8. replies' \in Seq([ok : BOOLEAN, of : Nat]) /\ \A i \in DOMAIN replies' : replies'[i].of <= last
  <2>1. <<>> \in Seq([ok : BOOLEAN, of : Nat]) /\ DOMAIN <<>> = {}
    BY EmptySeq
  <2>2. QED
    BY <1>6, <2>1
<1>9. QED
  BY <1>5, <1>6, <1>7, <1>8 DEF TorrentInv

LEMMA TurnKeepsFirst ==
    ASSUME TorrentInv, FirstInv, SearchInv, NEW resolved \in BOOLEAN, TurnWith(resolved)
    PROVE  FirstInv'
<1>1. PICK found, due, new : TurnIs(found, due, new)
  BY TurnParts
<1>2. SUFFICES ASSUME torrent'.here, ~ torrent'.started
               PROVE  /\ \A i \in DOMAIN jobs' : jobs'[i].of # last'
                      /\ at' # Idle => job'.of # last'
                      /\ \A i \in DOMAIN replies' : replies'[i].of # last'
                      /\ told' = <<>>
                      /\ Urls' # {} => torrent'.wait = 0 \/ delayed'
  BY DEF FirstInv
<1>3. UNCHANGED <<rules, at, job, told, last, usable>> /\ replies' = <<>> /\ Urls' = Urls
  BY DEF TurnWith, Urls
<1>4. SameButTime(due, torrent')
  BY <1>1, AppliedOK DEF TurnIs, TorrentInv
<1>5. /\ found \in Torrent /\ found.here = torrent.here /\ found.of = torrent.of
      /\ found.started = torrent.started /\ (torrent.wait = 0 => found.wait = 0)
  BY <1>1 DEF TurnIs, SameButTime
<1>6. torrent.here /\ ~ torrent.started /\ ~ due.started
  BY <1>1, <1>2, <1>4, <1>5, Marked DEF TurnIs, SameButTime
<1>7. ~ (Due(found) /\ Urls # {})
  <2>1. NextEvent(found) = "started"
    BY <1>5, <1>6 DEF NextEvent
  <2>2. QED
    BY <1>1, <1>5, <1>6, <2>1, Marked DEF TurnIs
<1>8. Len(new) = 0
  <2>1. DOMAIN new = {} /\ DOMAIN new = 1 .. Len(new) /\ Len(new) \in Nat
    BY <1>1, <1>7, QueueAfter DEF TurnIs
  <2>2. QED
    BY <2>1
<1>9. \A i \in DOMAIN jobs' : i \in DOMAIN jobs /\ jobs'[i] = jobs[i]
  BY <1>1, <1>8, QueueAfter
<1>10. Urls # {} => torrent'.wait = 0 \/ delayed'
  <2>1. SUFFICES ASSUME Urls # {}, ~ delayed'
                 PROVE  torrent'.wait = 0
    OBVIOUS
  <2>2. ~ delayed /\ \A i \in DOMAIN replies : replies[i].ok => replies[i].of = torrent.of
    BY <1>6, <2>1 DEF TurnWith, TorrentInv
  <2>3. \A i \in DOMAIN replies : ~ replies[i].ok
    BY <1>6, <2>2 DEF FirstInv, TorrentInv
  <2>4. torrent' = due /\ due = found
    BY <1>1, <1>7, <2>1, <2>3, AppliedOK DEF TurnIs, TorrentInv
  <2>5. torrent.wait = 0
    BY <1>6, <2>1, <2>2 DEF FirstInv
  <2>6. QED
    BY <1>5, <2>4, <2>5
<1>11. DOMAIN replies' = {}
  BY <1>3
<1>12. QED
  BY <1>3, <1>6, <1>9, <1>10, <1>11 DEF FirstInv

\* A torrent that is due has nothing on its way that its next event may not follow
LEMMA NextEventFits ==
    ASSUME TorrentInv, FirstInv, OrderInv, NEW t, SameButTime(torrent, t), Due(t),
           NEW m \in Mark, m.event = NextEvent(t)
    PROVE  /\ \A i \in DOMAIN told : Follows(told[i], m)
           /\ \A l \in Mark : InHand(l) => Follows(l, m)
           /\ \A l \in Mark, i \in Nat : Queued(i, l) => Follows(l, m)
<1>1. torrent.here /\ t.started = torrent.started /\ t.completed = torrent.completed
  BY DEF Due, SameButTime
<1>2. CASE ~ torrent.started
  <2>1. DOMAIN told = {}
    BY <1>1, <1>2 DEF FirstInv
  <2>2. \A l \in Mark : ~ InHand(l)
    BY <1>1, <1>2 DEF FirstInv, InHand, Carries, Unheard, Idle
  <2>3. \A l \in Mark, i \in Nat : ~ Queued(i, l)
    BY <1>1, <1>2 DEF FirstInv, Queued, Carries
  <2>4. QED
    BY <2>1, <2>2, <2>3
<1>3. CASE torrent.started
  <2>1. m.event = "completed" /\ ~ torrent.completed
    <3>1. m.event # "none"
      BY DEF Mark
    <3>2. QED
      BY <1>1, <1>3, <3>1 DEF NextEvent
  <2>2. /\ \A i \in DOMAIN told : told[i].event = "started"
        /\ \A l \in Mark : InHand(l) => l.event = "started"
        /\ \A l \in Mark, i \in Nat : Queued(i, l) => l.event = "started"
    BY <1>1, <2>1 DEF OrderInv
  <2>3. ASSUME NEW l, l.event = "started"
        PROVE  Follows(l, m)
    BY <2>1, <2>3 DEF Follows
  <2>4. QED
    BY <2>2, <2>3
<1>4. QED
  BY <1>2, <1>3

LEMMA TurnKeepsOrder ==
    ASSUME TorrentInv, FirstInv, OrderInv, SearchInv, NEW resolved \in BOOLEAN, TurnWith(resolved)
    PROVE  OrderInv'
<1>1. PICK found, due, new : TurnIs(found, due, new)
  BY TurnParts
<1>2. UNCHANGED <<at, job, told, last>>
  BY DEF TurnWith
<1>3. \A m : InHand(m)' <=> InHand(m)
  BY <1>2 DEF InHand, Carries, Heard
<1> DEFINE n == Len(jobs)
           New(i, m) == /\ i - n \in DOMAIN new /\ i \in Nat /\ i > n
                        /\ m.entry = new[i - n].entry /\ m.event = NextEvent(found)
                        /\ Due(found) /\ Urls # {}
<1>4. ASSUME NEW i \in Nat, NEW m, Queued(i, m)'
      PROVE  (i <= n /\ Queued(i, m)) \/ New(i, m)
  <2>1. i \in DOMAIN jobs' /\ Carries(jobs'[i], m)
    BY <1>2, <1>4 DEF Queued, Carries, Heard
  <2>2. CASE i \in 1 .. n
    BY <1>1, <2>1, <2>2, QueueAfter DEF Queued
  <2>3. CASE i \notin 1 .. n
    <3>1. i - n \in 1 .. Len(new) /\ i = n + (i - n) /\ i > n
      BY <1>1, <2>1, <2>3, QueueAfter
    <3>2. jobs'[i] = new[i - n] /\ i - n \in DOMAIN new
      BY <1>1, <3>1, QueueAfter
    <3>3. m.entry = new[i - n].entry /\ m.event = new[i - n].event
      BY <2>1, <3>2 DEF Carries, Heard
    <3>4. QED
      BY <1>1, <3>1, <3>2, <3>3 DEF TurnIs
  <2>4. QED
    BY <2>2, <2>3
<1>5. SameButTime(torrent, found)
  BY <1>1 DEF TurnIs
<1>6. ASSUME NEW i \in Nat, NEW m \in Mark, New(i, m)
      PROVE  /\ \A k \in DOMAIN told : Follows(told[k], m)
             /\ \A l \in Mark : InHand(l) => Follows(l, m)
             /\ \A l \in Mark, k \in Nat : Queued(k, l) => Follows(l, m)
  BY <1>5, <1>6, NextEventFits
<1>7. n \in Nat
  BY <1>1, QueueAfter
<1> HIDE DEF n
<1>8. ASSUME NEW i \in Nat, NEW k \in Nat, NEW l \in Mark, NEW m \in Mark,
             New(i, l), New(k, m), i < k
      PROVE  Follows(l, m)
  <2>1. l.entry # m.entry
    <3>1. i - n # k - n
      BY <1>7, <1>8
    <3>2. QED
      BY <1>1, <1>8, <3>1 DEF TurnIs
  <2>2. l.event = m.event /\ l.event \in {"started", "completed"}
    BY <1>8 DEF Mark
  <2>3. QED
    BY <2>1, <2>2 DEF Follows
<1>9. ASSUME NEW i \in Nat, NEW m, New(i, m)
      PROVE  i > n
  BY <1>9
<1>10. ASSUME torrent'.here, ~ torrent'.completed
       PROVE  /\ torrent.here /\ ~ torrent.completed
              /\ \A m \in Mark, i \in Nat : New(i, m) => m.event = "started"
  <2>1. SameButTime(due, torrent')
    BY <1>1, AppliedOK DEF TurnIs, TorrentInv
  <2>2. due.here /\ ~ due.completed
    BY <1>10, <2>1 DEF SameButTime
  <2>3. /\ found \in Torrent /\ found.here = torrent.here /\ found.completed = torrent.completed
    BY <1>5 DEF SameButTime
  <2>4. /\ torrent.here /\ ~ torrent.completed
        /\ Due(found) /\ Urls # {} => NextEvent(found) # "completed"
    BY <1>1, <2>2, <2>3, Marked DEF TurnIs
  <2>5. \A m \in Mark : m.event # "completed" => m.event = "started"
    BY DEF Mark
  <2>6. QED
    BY <2>4, <2>5
<1>11. told' \in Seq(Mark) /\ EventsOnce'
  BY <1>2 DEF OrderInv, EventsOnce
<1>12. ASSUME NEW l \in Mark, NEW m \in Mark, NEW i \in Nat, NEW k \in Nat,
              Queued(i, l)', Queued(k, m)', i < k
       PROVE  Follows(l, m)
  <2>1. CASE Queued(i, l) /\ Queued(k, m)
    BY <1>12, <2>1 DEF OrderInv
  <2>2. CASE Queued(i, l) /\ New(k, m)
    BY <1>6, <2>2
  <2>3. CASE New(i, l) /\ k <= n
    BY <1>7, <1>9, <1>12, <2>3
  <2>4. CASE New(i, l) /\ New(k, m)
    BY <1>8, <1>12, <2>4
  <2> HIDE DEF New
  <2>5. QED
    BY <1>4, <1>12, <2>1, <2>2, <2>3, <2>4
<1> HIDE DEF New
<1>13. ASSUME NEW l \in Mark, NEW m \in Mark, NEW k \in Nat, InHand(l)', Queued(k, m)'
       PROVE  Follows(l, m)
  <2>1. InHand(l) /\ (Queued(k, m) \/ New(k, m))
    BY <1>3, <1>4, <1>13
  <2>2. CASE Queued(k, m)
    BY <2>1, <2>2 DEF OrderInv
  <2>3. CASE New(k, m)
    BY <1>6, <2>1, <2>3
  <2>4. QED
    BY <2>1, <2>2, <2>3
<1>14. ASSUME NEW m \in Mark, NEW i \in DOMAIN told', NEW k \in Nat, InHand(m)' \/ Queued(k, m)'
       PROVE  Follows(told'[i], m)
  <2>1. told'[i] = told[i] /\ i \in DOMAIN told
    BY <1>2
  <2>2. CASE InHand(m) \/ Queued(k, m)
    BY <2>1, <2>2 DEF OrderInv
  <2>3. CASE New(k, m)
    BY <1>6, <2>1, <2>3
  <2>4. QED
    BY <1>3, <1>4, <1>14, <2>2, <2>3
<1>15. ASSUME torrent'.here, ~ torrent'.completed
       PROVE  /\ \A i \in DOMAIN told' : told'[i].event = "started"
              /\ \A m \in Mark : InHand(m)' => m.event = "started"
              /\ \A m \in Mark, i \in Nat : Queued(i, m)' => m.event = "started"
  <2>1. /\ torrent.here /\ ~ torrent.completed
        /\ \A m \in Mark, i \in Nat : New(i, m) => m.event = "started"
    BY <1>10, <1>15
  <2>2. /\ \A i \in DOMAIN told : told[i].event = "started"
        /\ \A m \in Mark : InHand(m) => m.event = "started"
        /\ \A m \in Mark, i \in Nat : Queued(i, m) => m.event = "started"
    BY <2>1 DEF OrderInv
  <2>3. QED
    BY <1>2, <1>3, <1>4, <2>1, <2>2
<1>16. \A m \in Mark, i \in DOMAIN told' : InHand(m)' => Follows(told'[i], m)
  <2>1. 0 \in Nat
    OBVIOUS
  <2>2. QED
    BY <1>14, <2>1
<1>17. QED
  BY <1>11, <1>12, <1>13, <1>14, <1>15, <1>16 DEF OrderInv, Follows

-----------------------------------------------------------------------------
(* The announce thread                                                     *)

\* What the thread leaves to the engine
EngineRests == UNCHANGED <<torrent, dht, moved, rules, delayed>>

\* Nothing new on its way, nothing heard
LEMMA NothingNew ==
    ASSUME OrderInv, UNCHANGED told,
           \A m \in Mark : InHand(m)' => InHand(m),
           \A m \in Mark, i \in Nat : Queued(i, m)' => Queued(i, m),
           torrent'.here /\ ~ torrent'.completed => torrent.here /\ ~ torrent.completed
    PROVE  OrderInv'
<1>1. told' \in Seq(Mark) /\ EventsOnce'
  BY DEF OrderInv, EventsOnce
<1>2. /\ \A m \in Mark, i \in DOMAIN told' : InHand(m)' => Follows(told'[i], m)
      /\ \A m \in Mark, i \in DOMAIN told', k \in Nat : Queued(k, m)' => Follows(told'[i], m)
  BY DEF OrderInv
<1>3. /\ \A l, m \in Mark, k \in Nat : InHand(l)' /\ Queued(k, m)' => Follows(l, m)
      /\ \A l, m \in Mark, i, k \in Nat :
           Queued(i, l)' /\ Queued(k, m)' /\ i < k => Follows(l, m)
  BY DEF OrderInv
<1>4. ASSUME torrent'.here, ~ torrent'.completed
      PROVE  /\ \A i \in DOMAIN told' : told'[i].event = "started"
             /\ \A m \in Mark : InHand(m)' => m.event = "started"
             /\ \A m \in Mark, i \in Nat : Queued(i, m)' => m.event = "started"
  BY <1>4 DEF OrderInv
<1>5. QED
  BY <1>1, <1>2, <1>3, <1>4 DEF OrderInv, Follows

\* A job is taken from the queue, and is in hand unless there is no way out
LEMMA TakeJobKeeps ==
    ASSUME TorrentInv, FirstInv, OrderInv, TakeJob, EngineRests
    PROVE  TorrentInv' /\ FirstInv' /\ OrderInv'
<1>1. /\ jobs' = Tail(jobs) /\ at = Idle /\ UNCHANGED <<replies, told, last, usable>>
      /\ UNCHANGED <<torrent, rules, delayed>> /\ Urls' = Urls
  BY DEF TakeJob, EngineRests, Urls
<1>2. /\ jobs \in Seq(Job) /\ jobs # <<>> /\ jobs' \in Seq(Job) /\ Head(jobs) = jobs[1]
      /\ Len(jobs) \in Nat /\ Len(jobs') = Len(jobs) - 1
      /\ DOMAIN jobs = 1 .. Len(jobs) /\ DOMAIN jobs' = 1 .. Len(jobs')
      /\ \A i \in 1 .. Len(jobs') : jobs'[i] = jobs[i + 1]
  <2>1. jobs \in Seq(Job) /\ jobs # <<>>
    BY DEF TakeJob, TorrentInv
  <2>2. /\ Tail(jobs) \in Seq(Job) /\ Len(Tail(jobs)) = Len(jobs) - 1
        /\ \A i \in 1 .. Len(Tail(jobs)) : Tail(jobs)[i] = jobs[i + 1]
    BY <2>1, HeadTailProperties
  <2>3. Head(jobs) = jobs[1]
    BY <2>1
  <2>4. Len(jobs) \in Nat /\ DOMAIN jobs = 1 .. Len(jobs) /\ DOMAIN Tail(jobs) = 1 .. Len(Tail(jobs))
    BY <2>1, <2>2, LenProperties
  <2>5. QED
    BY <1>1, <2>1, <2>2, <2>3, <2>4
<1>3. 1 \in DOMAIN jobs /\ \A i \in DOMAIN jobs' : i + 1 \in DOMAIN jobs /\ jobs'[i] = jobs[i + 1]
  <2>1. Len(jobs) # 0
    BY <1>2, EmptySeq
  <2>2. QED
    BY <1>2, <2>1
<1>4. \/ job' = jobs[1] /\ at' \in {"resolve", "open"}
      \/ job' = job /\ at' = Idle
  BY <1>1, <1>2 DEF TakeJob
<1>5. job' \in Job /\ job'.of <= last /\ at' \in Udp \cup Http \cup {Idle, "resolve"}
  <2>1. jobs[1] \in Job /\ jobs[1].of <= last
    BY <1>2, <1>3, ElementOfSeq DEF TorrentInv
  <2>2. QED
    BY <1>4, <2>1 DEF TorrentInv, Udp, Http
<1>6. TorrentInv'
  <2>1. Len(jobs') <= MaxJobs
    BY <1>2, Bounds DEF TorrentInv
  <2>2. \A i \in DOMAIN jobs' : jobs'[i].of <= last
    BY <1>3 DEF TorrentInv
  <2>3. QED
    BY <1>1, <1>2, <1>5, <2>1, <2>2 DEF TorrentInv
<1>7. FirstInv'
  <2>1. SUFFICES ASSUME torrent.here, ~ torrent.started
                 PROVE  /\ \A i \in DOMAIN jobs' : jobs'[i].of # last
                        /\ at' # Idle => job'.of # last
                        /\ \A i \in DOMAIN replies : replies[i].of # last
                        /\ told = <<>>
                        /\ Urls # {} => torrent.wait = 0 \/ delayed
    BY <1>1 DEF FirstInv
  <2>2. \A i \in DOMAIN jobs : jobs[i].of # last
    BY <2>1 DEF FirstInv
  <2>3. QED
    BY <1>3, <1>4, <2>1, <2>2 DEF FirstInv
<1>8. ASSUME NEW m, NEW i \in Nat, Queued(i, m)'
      PROVE  i + 1 \in Nat /\ Queued(i + 1, m)
  BY <1>1, <1>3, <1>8 DEF Queued, Carries, Heard
<1>9. ASSUME NEW m, InHand(m)'
      PROVE  Queued(1, m)
  <2>1. at' # Idle
    BY <1>9 DEF InHand, Unheard, Idle
  <2>2. QED
    BY <1>1, <1>3, <1>4, <1>9, <2>1 DEF InHand, Queued, Carries, Heard
<1>10. told' \in Seq(Mark) /\ EventsOnce'
  BY <1>1 DEF OrderInv, EventsOnce
<1>11. ASSUME NEW l \in Mark, NEW m \in Mark, NEW i \in Nat, NEW k \in Nat,
              Queued(i, l)', Queued(k, m)', i < k
       PROVE  Follows(l, m)
  <2>1. Queued(i + 1, l) /\ Queued(k + 1, m) /\ i + 1 < k + 1 /\ i + 1 \in Nat /\ k + 1 \in Nat
    BY <1>8, <1>11
  <2>2. QED
    BY <2>1 DEF OrderInv
<1>12. ASSUME NEW l \in Mark, NEW m \in Mark, NEW k \in Nat, InHand(l)', Queued(k, m)'
       PROVE  Follows(l, m)
  <2>1. Queued(1, l) /\ Queued(k + 1, m) /\ k + 1 \in Nat
    BY <1>8, <1>9, <1>12
  <2>2. k # 0
    BY <1>2, <1>12 DEF Queued
  <2>3. 1 \in Nat /\ 1 < k + 1
    BY <2>2
  <2>4. QED
    BY <2>1, <2>3 DEF OrderInv
<1>13. ASSUME NEW m \in Mark, NEW i \in DOMAIN told', NEW k \in Nat, InHand(m)' \/ Queued(k, m)'
       PROVE  Follows(told'[i], m)
  <2>1. 1 \in Nat /\ (Queued(1, m) \/ (k + 1 \in Nat /\ Queued(k + 1, m)))
    BY <1>8, <1>9, <1>13
  <2>2. told'[i] = told[i] /\ i \in DOMAIN told
    BY <1>1
  <2>3. QED
    BY <2>1, <2>2 DEF OrderInv
<1>14. ASSUME torrent'.here, ~ torrent'.completed
       PROVE  /\ \A i \in DOMAIN told' : told'[i].event = "started"
              /\ \A m \in Mark : InHand(m)' => m.event = "started"
              /\ \A m \in Mark, i \in Nat : Queued(i, m)' => m.event = "started"
  <2>1. /\ \A i \in DOMAIN told : told[i].event = "started"
        /\ \A m \in Mark, i \in Nat : Queued(i, m) => m.event = "started"
    BY <1>1, <1>14 DEF OrderInv
  <2>2. 1 \in Nat
    OBVIOUS
  <2>3. QED
    BY <1>1, <1>8, <1>9, <2>1, <2>2
<1>15. OrderInv'
  <2>1. \A m \in Mark, i \in DOMAIN told' : InHand(m)' => Follows(told'[i], m)
    <3>1. 0 \in Nat
      OBVIOUS
    <3>2. QED
      BY <1>13, <3>1
  <2>2. QED
    BY <1>10, <1>11, <1>12, <1>13, <1>14, <2>1 DEF OrderInv, Follows
<1>16. QED
  BY <1>6, <1>7, <1>15

\* The exchange goes on to a place where nothing more was heard
LEMMA GoesOn ==
    ASSUME TorrentInv, FirstInv, OrderInv, EngineRests,
           UNCHANGED <<jobs, job, replies, told, last, usable>>,
           at # Idle, at' \in Udp \cup Http \cup {"resolve"},
           at' \in Unheard => at \in Unheard
    PROVE  TorrentInv' /\ FirstInv' /\ OrderInv'
<1>1. UNCHANGED <<torrent, rules, delayed>> /\ Urls' = Urls
  BY DEF EngineRests, Urls
<1>2. TorrentInv'
  BY <1>1 DEF TorrentInv
<1>3. FirstInv'
  BY <1>1 DEF FirstInv
<1>4. /\ \A m \in Mark : InHand(m)' => InHand(m)
      /\ \A m \in Mark, i \in Nat : Queued(i, m)' => Queued(i, m)
  BY DEF InHand, Queued, Carries, Heard
<1>5. OrderInv'
  BY <1>1, <1>4, NothingNew
<1>6. QED
  BY <1>2, <1>3, <1>5

\* The result is for the torrent of the job
LEMMA AnswerKeeps ==
    ASSUME TorrentInv, FirstInv, OrderInv, EngineRests, at # Idle,
           NEW ok \in BOOLEAN, Answer(ok), UNCHANGED told
    PROVE  TorrentInv' /\ FirstInv' /\ OrderInv'
<1>1. /\ UNCHANGED <<torrent, rules, delayed>> /\ Urls' = Urls
      /\ UNCHANGED <<jobs, last, usable>> /\ at' = Idle /\ job' = NoJob
      /\ replies' = Append(replies, [ok |-> ok, of |-> job.of])
  BY DEF EngineRests, Urls, Answer
<1> DEFINE reply == [ok |-> ok, of |-> job.of]
<1>2. reply \in [ok : BOOLEAN, of : Nat] /\ reply.of = job.of /\ job.of <= last
  BY DEF TorrentInv, Job
<1> HIDE DEF reply
<1>3. /\ replies \in Seq([ok : BOOLEAN, of : Nat]) /\ replies' = Append(replies, reply)
      /\ Len(replies) \in Nat /\ DOMAIN replies = 1 .. Len(replies)
  <2>1. replies \in Seq([ok : BOOLEAN, of : Nat])
    BY DEF TorrentInv
  <2>2. QED
    BY <1>1, <2>1, LenProperties DEF reply
<1>4. /\ replies' \in Seq([ok : BOOLEAN, of : Nat])
      /\ \A i \in DOMAIN replies' : \/ i \in DOMAIN replies /\ replies'[i] = replies[i]
                                    \/ replies'[i] = reply
  <2>1. /\ replies' \in Seq([ok : BOOLEAN, of : Nat]) /\ Len(replies') = Len(replies) + 1
        /\ \A i \in 1 .. Len(replies) : replies'[i] = replies[i]
        /\ replies'[Len(replies) + 1] = reply
    BY <1>2, <1>3, AppendProperties
  <2>2. DOMAIN replies' = 1 .. Len(replies) + 1
    BY <2>1, LenProperties
  <2>3. QED
    BY <1>3, <2>1, <2>2
<1>5. \A i \in DOMAIN replies' : replies'[i].of <= last
  BY <1>2, <1>4 DEF TorrentInv
<1>6. NoJob \in Job /\ NoJob.of = 0
  BY DEF NoJob, Job, Schemes, Event
<1>7. TorrentInv'
  <2>1. at' \in Udp \cup Http \cup {Idle, "resolve"} /\ last \in Nat
    BY <1>1 DEF TorrentInv
  <2>2. job' \in Job /\ job'.of <= last
    BY <1>1, <1>6, <2>1
  <2>3. QED
    BY <1>1, <1>4, <1>5, <2>1, <2>2 DEF TorrentInv
<1>8. FirstInv'
  BY <1>1, <1>2, <1>4 DEF FirstInv
<1>9. /\ \A m \in Mark : InHand(m)' => InHand(m)
      /\ \A m \in Mark, i \in Nat : Queued(i, m)' => Queued(i, m)
  BY <1>1 DEF InHand, Unheard, Idle, Queued, Carries, Heard
<1>10. OrderInv'
  BY <1>1, <1>9, NothingNew
<1>11. QED
  BY <1>7, <1>8, <1>10

\* The tracker of the job in hand hears it
LEMMA HearsKeeps ==
    ASSUME TorrentInv, FirstInv, OrderInv, EngineRests,
           UNCHANGED <<jobs, job, replies, last, usable>>,
           at \in Unheard, at' \in {"announce", "receive"}, Hears
    PROVE  TorrentInv' /\ FirstInv' /\ OrderInv'
<1>1. UNCHANGED <<torrent, rules, delayed>> /\ Urls' = Urls
  BY DEF EngineRests, Urls
<1>2. at # Idle /\ at' # Idle /\ at' \notin Unheard
  BY DEF Unheard, Idle
<1>3. TorrentInv'
  BY <1>1 DEF TorrentInv, Udp, Http
<1>4. CASE job.event = "none" \/ job.of # last
  <2>1. told' = told
    BY <1>4 DEF Hears
  <2>2. FirstInv'
    BY <1>1, <1>2, <2>1 DEF FirstInv
  <2>3. /\ \A m \in Mark : InHand(m)' => InHand(m)
        /\ \A m \in Mark, i \in Nat : Queued(i, m)' => Queued(i, m)
    BY <1>2 DEF InHand, Queued, Carries, Heard
  <2>4. OrderInv'
    BY <1>1, <2>1, <2>3, NothingNew
  <2>5. QED
    BY <1>3, <2>2, <2>4
<1>5. CASE job.event # "none" /\ job.of = last
  <2> DEFINE h == Heard(job)
             n == Len(told)
  <2>1. h \in Mark /\ InHand(h) /\ told' = Append(told, h) /\ h.event = job.event
    BY <1>5 DEF TorrentInv, Job, Mark, Event, InHand, Carries, Hears, Heard
  <2> HIDE DEF h
  <2>2. told \in Seq(Mark) /\ n \in Nat /\ DOMAIN told = 1 .. n
    BY LenProperties DEF OrderInv
  <2>3. /\ told' \in Seq(Mark) /\ DOMAIN told' = 1 .. n + 1
        /\ \A i \in 1 .. n : told'[i] = told[i]
        /\ told'[n + 1] = h
    <3>1. /\ told' \in Seq(Mark) /\ Len(told') = n + 1
          /\ \A i \in 1 .. n : told'[i] = told[i]
          /\ told'[n + 1] = h
      BY <2>1, <2>2, AppendProperties
    <3>2. QED
      BY <3>1, LenProperties
  <2> HIDE DEF n
  <2>4. /\ \A i \in 1 .. n : Follows(told[i], h)
        /\ \A m \in Mark, k \in Nat : Queued(k, m) => Follows(h, m)
    BY <2>1, <2>2 DEF OrderInv
  <2>5. \A m : ~ InHand(m)'
    BY <1>2 DEF InHand
  <2>6. \A i, m : Queued(i, m)' <=> Queued(i, m)
    BY DEF Queued, Carries, Heard
  <2>7. FirstInv'
    <3>1. torrent.here => torrent.started
      BY <1>2, <1>5 DEF FirstInv
    <3>2. QED
      BY <1>1, <3>1 DEF FirstInv
  <2>8. EventsOnce'
    <3>1. SUFFICES ASSUME NEW i \in 1 .. n + 1, NEW k \in 1 .. n + 1, i < k
                   PROVE  Follows(told'[i], told'[k])
      BY <2>3 DEF EventsOnce, Follows
    <3>2. i \in 1 .. n /\ told'[i] = told[i]
      BY <2>2, <2>3, <3>1
    <3>3. CASE k = n + 1
      BY <2>3, <2>4, <3>2, <3>3
    <3>4. CASE k # n + 1
      <4>1. k \in 1 .. n /\ told'[k] = told[k]
        BY <2>2, <2>3, <3>1, <3>4
      <4>2. QED
        BY <2>2, <3>1, <3>2, <4>1 DEF OrderInv, EventsOnce
    <3>5. QED
      BY <3>3, <3>4
  <2>9. \A m \in Mark, i \in DOMAIN told', k \in Nat : Queued(k, m)' => Follows(told'[i], m)
    <3>1. SUFFICES ASSUME NEW m \in Mark, NEW i \in 1 .. n + 1, NEW k \in Nat, Queued(k, m)
                   PROVE  Follows(told'[i], m)
      BY <2>3, <2>6
    <3>2. CASE i = n + 1
      BY <2>3, <2>4, <3>1, <3>2
    <3>3. CASE i # n + 1
      <4>1. i \in 1 .. n /\ told'[i] = told[i]
        BY <2>2, <2>3, <3>1, <3>3
      <4>2. QED
        BY <2>2, <3>1, <4>1 DEF OrderInv
    <3>4. QED
      BY <3>2, <3>3
  <2>10. \A l, m \in Mark, i, k \in Nat : Queued(i, l)' /\ Queued(k, m)' /\ i < k => Follows(l, m)
    BY <2>6 DEF OrderInv
  <2>11. ASSUME torrent'.here, ~ torrent'.completed
         PROVE  /\ \A i \in DOMAIN told' : told'[i].event = "started"
                /\ \A m \in Mark, i \in Nat : Queued(i, m)' => m.event = "started"
    <3>1. /\ \A i \in DOMAIN told : told[i].event = "started"
          /\ h.event = "started"
          /\ \A m \in Mark, i \in Nat : Queued(i, m) => m.event = "started"
      BY <1>1, <2>1, <2>11 DEF OrderInv
    <3>2. ASSUME NEW i \in 1 .. n + 1
          PROVE  told'[i].event = "started"
      <4>1. i = n + 1 \/ i \in 1 .. n
        BY <2>2
      <4>2. QED
        BY <2>2, <2>3, <3>1, <4>1
    <3>3. QED
      BY <2>3, <2>6, <3>1, <3>2
  <2>12. OrderInv'
    BY <2>3, <2>5, <2>8, <2>9, <2>10, <2>11 DEF OrderInv, Follows
  <2>13. QED
    BY <1>3, <2>7, <2>12
<1>6. QED
  BY <1>4, <1>5

\* An exchange, whatever is lost of it
LEMMA ExchangeKeeps ==
    ASSUME DiscoveryIInv, Exchange, EngineRests
    PROVE  DiscoveryIInv'
<1> USE DEF DiscoveryIInv
<1>1. SearchInv'
  BY DEF SearchInv, EngineRests
<1>2. CASE TakeJob
  BY <1>1, <1>2, TakeJobKeeps
<1>3. CASE Fail
  BY <1>1, <1>3, AnswerKeeps DEF Fail
<1>4. CASE SendConnect
  <2>1. at # Idle /\ at' \in Udp \cup Http \cup {"resolve"} /\ at \in Unheard
    BY <1>4 DEF SendConnect, Udp, Idle, Unheard
  <2>2. QED
    BY <1>1, <1>4, <2>1, GoesOn DEF SendConnect
<1>5. CASE Again
  <2>1. at # Idle /\ at' \in Udp \cup Http \cup {"resolve"} /\ at \in Unheard
    BY <1>5 DEF Again, Udp, Idle, Unheard
  <2>2. QED
    BY <1>1, <1>5, <2>1, GoesOn DEF Again
<1>6. CASE ConnectReply
  <2>1. /\ at # Idle /\ at' \in Udp \cup Http \cup {"resolve"} /\ at \in Unheard
        /\ at' \in {"announce", "receive"} /\ UNCHANGED <<jobs, job, replies, last, usable>>
    BY <1>6 DEF ConnectReply, Udp, Idle, Unheard
  <2>2. CASE Hears
    BY <1>1, <2>1, <2>2, HearsKeeps
  <2>3. CASE UNCHANGED told
    BY <1>1, <2>1, <2>3, GoesOn
  <2>4. QED
    BY <1>6, <2>2, <2>3 DEF ConnectReply
<1>7. CASE AnnounceReply
  <2>1. at # Idle /\ Answer(TRUE) /\ UNCHANGED told
    BY <1>7 DEF AnnounceReply, Idle
  <2>2. QED
    BY <1>1, <2>1, AnswerKeeps
<1>8. CASE Opened
  <2>1. at # Idle /\ at' \in Udp \cup Http \cup {"resolve"} /\ at \in Unheard
    BY <1>8 DEF Opened, Http, Idle, Unheard
  <2>2. QED
    BY <1>1, <1>8, <2>1, GoesOn DEF Opened
<1>9. CASE Sent
  <2>1. at \in Unheard /\ at' \in {"announce", "receive"}
    BY <1>9 DEF Sent, Unheard
  <2>2. QED
    BY <1>1, <1>9, <2>1, HearsKeeps DEF Sent
<1>10. CASE Received
  <2>1. at # Idle /\ Answer(TRUE) /\ UNCHANGED told
    BY <1>10 DEF Received, Idle
  <2>2. QED
    BY <1>1, <2>1, AnswerKeeps
<1>11. QED
  BY <1>2, <1>3, <1>4, <1>5, <1>6, <1>7, <1>8, <1>9, <1>10 DEF Exchange

-----------------------------------------------------------------------------
(* The engine, out of its turns                                            *)

LEMMA NewTorrentIs ==
    \A n \in Nat : /\ NewTorrent(n) \in Torrent
                   /\ NewTorrent(n).here /\ NewTorrent(n).of = n
                   /\ ~ NewTorrent(n).started /\ NewTorrent(n).wait = 0
                   /\ [NewTorrent(n) EXCEPT !.here = FALSE] \in Torrent
                   /\ ~ [NewTorrent(n) EXCEPT !.here = FALSE].here
<1>1. 0 \in 0 .. Enough /\ 0 \in 0 .. (Interval + Retry)
  BY Bounds
<1> DEFINE Known == 0 .. Enough
           Waits == 0 .. (Interval + Retry)
<1>2. 0 \in Known /\ 0 \in Waits
  BY <1>1
<1>3. Torrent = [here : BOOLEAN, of : Nat, active : BOOLEAN, private : BOOLEAN, known : Known,
                 wait : Waits, started : BOOLEAN, completed : BOOLEAN, done : BOOLEAN]
  BY DEF Torrent
<1> HIDE DEF Known, Waits
<1>4. SUFFICES ASSUME NEW n \in Nat
               PROVE  /\ NewTorrent(n) \in Torrent
                      /\ NewTorrent(n).here /\ NewTorrent(n).of = n
                      /\ ~ NewTorrent(n).started /\ NewTorrent(n).wait = 0
                      /\ [NewTorrent(n) EXCEPT !.here = FALSE] \in Torrent
                      /\ ~ [NewTorrent(n) EXCEPT !.here = FALSE].here
  OBVIOUS
<1> DEFINE t == NewTorrent(n)
           gone == [t EXCEPT !.here = FALSE]
<1>5. t \in Torrent /\ t.here /\ t.of = n /\ ~ t.started /\ t.wait = 0
  BY <1>2, <1>3 DEF NewTorrent
<1> HIDE DEF t
<1>6. gone \in Torrent /\ ~ gone.here
  BY <1>3, <1>5
<1>7. QED
  BY <1>5, <1>6 DEF t

\* Nothing changes for the trackers, and the torrent there was may go
LEMMA EngineKeeps ==
    ASSUME TorrentInv, FirstInv, OrderInv,
           UNCHANGED <<rules, delayed, jobs, at, job, replies, told, last>>, usable' \in BOOLEAN,
           torrent' \in Torrent,
           torrent'.here => /\ torrent.here /\ torrent'.of = torrent.of
                            /\ torrent'.started = torrent.started
                            /\ torrent'.completed = torrent.completed
                            /\ torrent'.wait = torrent.wait
    PROVE  TorrentInv' /\ FirstInv' /\ OrderInv'
<1>1. Urls' = Urls
  BY DEF Urls
<1>2. TorrentInv'
  BY DEF TorrentInv
<1>3. FirstInv'
  BY <1>1 DEF FirstInv
<1>4. /\ \A m \in Mark : InHand(m)' => InHand(m)
      /\ \A m \in Mark, i \in Nat : Queued(i, m)' => Queued(i, m)
  BY DEF InHand, Queued, Carries, Heard
<1>5. OrderInv'
  BY <1>4, NothingNew
<1>6. QED
  BY <1>2, <1>3, <1>5

\* Nothing on its way is for the new object
LEMMA AddKeeps ==
    ASSUME DiscoveryIInv, Add
    PROVE  DiscoveryIInv'
<1> USE DEF DiscoveryIInv
<1>1. /\ last \in Nat /\ last' = last + 1 /\ torrent' = NewTorrent(last')
      /\ delayed' = FALSE /\ told' = <<>>
      /\ UNCHANGED <<dht, rules, jobs, at, job, replies, usable>> /\ Urls' = Urls
  BY DEF Add, TorrentInv, Urls
<1>2. last' \in Nat /\ \A n \in Nat : n <= last => n <= last' /\ n # last'
  BY <1>1
<1>3. /\ torrent' \in Torrent /\ torrent'.here /\ torrent'.of = last'
      /\ ~ torrent'.started /\ torrent'.wait = 0
  BY <1>1, <1>2, NewTorrentIs
<1>4. \A i \in DOMAIN jobs : jobs[i].of \in Nat /\ jobs[i].of <= last
  <2>1. \A i \in DOMAIN jobs : jobs[i] \in Job
    BY ElementOfSeq, LenProperties DEF TorrentInv
  <2>2. QED
    BY <2>1 DEF TorrentInv, Job
<1>5. job.of \in Nat /\ job.of <= last
  BY DEF TorrentInv, Job
<1>6. \A i \in DOMAIN replies : replies[i].of \in Nat /\ replies[i].of <= last
  <2>1. \A i \in DOMAIN replies : replies[i] \in [ok : BOOLEAN, of : Nat]
    BY ElementOfSeq, LenProperties DEF TorrentInv
  <2>2. QED
    BY <2>1 DEF TorrentInv
<1>7. TorrentInv'
  BY <1>1, <1>2, <1>3, <1>4, <1>5, <1>6 DEF TorrentInv
<1>8. FirstInv'
  BY <1>1, <1>2, <1>3, <1>4, <1>5, <1>6 DEF FirstInv
<1>9. /\ \A m : ~ InHand(m)'
      /\ \A i, m : ~ Queued(i, m)'
  BY <1>1, <1>2, <1>4, <1>5 DEF InHand, Queued, Carries
<1>10. OrderInv'
  <2>1. told' \in Seq(Mark) /\ DOMAIN told' = {}
    BY <1>1, EmptySeq
  <2>2. QED
    BY <1>9, <2>1 DEF OrderInv, EventsOnce
<1>11. SearchInv'
  BY <1>1, <1>3 DEF SearchInv
<1>12. QED
  BY <1>7, <1>8, <1>10, <1>11

LEMMA Starts == Init => DiscoveryIInv
<1> SUFFICES ASSUME Init
             PROVE  DiscoveryIInv
  OBVIOUS
<1>1. /\ dht = NewDht /\ rules \in Settings /\ delayed = FALSE /\ usable \in BOOLEAN
      /\ jobs = <<>> /\ at = Idle /\ job = NoJob /\ replies = <<>> /\ last = 0
      /\ told = <<>>
      /\ torrent = [NewTorrent(0) EXCEPT !.here = FALSE]
  BY DEF Init, AnnouncesInit
<1>2. torrent \in Torrent /\ ~ torrent.here
  BY <1>1, NewTorrentIs
<1>3. jobs \in Seq(Job) /\ Len(jobs) = 0 /\ DOMAIN jobs = {}
  BY <1>1, EmptySeq
<1>4. replies \in Seq([ok : BOOLEAN, of : Nat]) /\ DOMAIN replies = {}
  BY <1>1, EmptySeq
<1>5. NoJob \in Job /\ NoJob.of = 0
  BY DEF NoJob, Job, Schemes, Event
<1>6. TorrentInv
  <2>1. at \in Udp \cup Http \cup {Idle, "resolve"} /\ last \in Nat /\ delayed \in BOOLEAN
    BY <1>1
  <2>2. job \in Job /\ job.of <= last
    BY <1>1, <1>5
  <2>3. Len(jobs) <= MaxJobs
    BY <1>3, Bounds
  <2>4. QED
    BY <1>1, <1>2, <1>3, <1>4, <2>1, <2>2, <2>3 DEF TorrentInv
<1>7. FirstInv
  BY <1>2 DEF FirstInv
<1>8. /\ \A m : ~ InHand(m)
      /\ \A i, m : ~ Queued(i, m)
  BY <1>1, <1>3 DEF InHand, Unheard, Idle, Queued
<1>9. OrderInv
  <2>1. told \in Seq(Mark) /\ DOMAIN told = {}
    BY <1>1, EmptySeq
  <2>2. QED
    BY <1>2, <1>8, <2>1 DEF OrderInv, EventsOnce
<1>10. SearchInv
  BY <1>1, NewDhtIs DEF SearchInv, DhtOK
<1>11. QED
  BY <1>6, <1>7, <1>9, <1>10 DEF DiscoveryIInv

\* What of the torrent the announces and the searches depend on
Same(t, u) ==
    /\ u.here = t.here /\ u.of = t.of /\ u.wait = t.wait
    /\ u.started = t.started /\ u.completed = t.completed

LEMMA SameKeeps ==
    ASSUME DiscoveryIInv,
           UNCHANGED <<rules, delayed, jobs, at, job, replies, told, last, dht>>,
           usable' \in BOOLEAN, torrent' \in Torrent, Same(torrent, torrent')
    PROVE  DiscoveryIInv'
<1>1. TorrentInv' /\ FirstInv' /\ OrderInv'
  BY EngineKeeps DEF DiscoveryIInv, Same
<1>2. SearchInv'
  BY DEF DiscoveryIInv, SearchInv, Same
<1>3. QED
  BY <1>1, <1>2 DEF DiscoveryIInv

\* One case per action
LEMMA StepKeeps == DiscoveryIInv /\ [Next]_vars => DiscoveryIInv'
<1> SUFFICES ASSUME DiscoveryIInv, [Next]_vars
             PROVE  DiscoveryIInv'
  OBVIOUS
<1>1. torrent \in Torrent /\ usable \in BOOLEAN
  BY DEF DiscoveryIInv, TorrentInv
<1>2. CASE Add
  BY <1>2, AddKeeps
<1>3. CASE RemoveTorrent
  <2>1. /\ UNCHANGED <<rules, delayed, jobs, at, job, replies, told, last, usable>>
        /\ torrent' = [NewTorrent(0) EXCEPT !.here = FALSE] /\ dht' = Forget(dht)
    BY <1>3 DEF RemoveTorrent, announceVars
  <2>2. torrent' \in Torrent /\ ~ torrent'.here
    BY <2>1, NewTorrentIs
  <2>3. TorrentInv' /\ FirstInv' /\ OrderInv'
    BY <1>1, <2>1, <2>2, EngineKeeps DEF DiscoveryIInv
  <2>4. SearchInv'
    BY <2>1, ForgetOK DEF DiscoveryIInv, SearchInv, DhtOK
  <2>5. QED
    BY <2>3, <2>4 DEF DiscoveryIInv
<1>4. CASE SetActive
  <2>1. torrent' \in Torrent /\ Same(torrent, torrent')
    BY <1>1, <1>4 DEF SetActive, Torrent, Same
  <2>2. QED
    BY <1>1, <1>4, <2>1, SameKeeps DEF SetActive, announceVars
<1>5. CASE MetadataSaysPrivate
  <2>1. torrent' \in Torrent /\ Same(torrent, torrent')
    BY <1>1, <1>5 DEF MetadataSaysPrivate, Torrent, Same
  <2>2. QED
    BY <1>1, <1>5, <2>1, SameKeeps DEF MetadataSaysPrivate, announceVars
<1>6. CASE Completes
  <2>1. torrent' \in Torrent /\ Same(torrent, torrent')
    BY <1>1, <1>6 DEF Completes, Torrent, Same
  <2>2. QED
    BY <1>1, <1>6, <2>1, SameKeeps DEF Completes, announceVars
<1>7. CASE TransportChanges
  <2>1. torrent' \in Torrent /\ Same(torrent, torrent')
    BY <1>1, <1>7 DEF TransportChanges, Same
  <2>2. QED
    BY <1>7, <2>1, SameKeeps DEF TransportChanges
<1>8. CASE Turn
  <2>1. PICK resolved \in BOOLEAN : TurnWith(resolved)
    BY <1>8 DEF Turn
  <2>2. QED
    BY <2>1, TurnParts, TurnKeepsTorrent, TurnKeepsFirst, TurnKeepsOrder DEF DiscoveryIInv
<1>9. ASSUME NEW q \in Query, Poll(q[1], q[2])
      PROVE  DiscoveryIInv'
  <2>1. /\ UNCHANGED <<torrent, rules, delayed, jobs, at, job, replies, told, last, usable>>
        /\ dht' = HandleAnswer(dht, q[1], q[2]) /\ q[1] \in Nodes /\ q[2] \in {"ping", "get_peers"}
    BY <1>9 DEF Poll, announceVars, Query
  <2>2. torrent' \in Torrent /\ TorrentInv' /\ FirstInv' /\ OrderInv'
    BY <1>1, <2>1, EngineKeeps DEF DiscoveryIInv
  <2>3. SearchInv'
    BY <2>1, AnswerOK DEF DiscoveryIInv, SearchInv, DhtOK
  <2>4. QED
    BY <2>2, <2>3 DEF DiscoveryIInv
<1>10. CASE Exchange /\ UNCHANGED <<torrent, dht, moved, rules, delayed>>
  BY <1>10, ExchangeKeeps DEF EngineRests
<1>11. CASE UNCHANGED vars
  <2>1. torrent' \in Torrent /\ Same(torrent, torrent')
    BY <1>1, <1>11 DEF vars, Same
  <2>2. QED
    BY <1>1, <1>11, <2>1, SameKeeps DEF vars
<1>12. QED
  BY <1>2, <1>3, <1>4, <1>5, <1>6, <1>7, <1>8, <1>9, <1>10, <1>11 DEF Next

LEMMA Implies == DiscoveryIInv => DiscoveryInvariant
<1> SUFFICES ASSUME DiscoveryIInv
             PROVE  DiscoveryInvariant
  OBVIOUS
<1> USE DEF DiscoveryIInv
<1>1. TypeOK
  <2>1. dht.left \in [Query -> 0 .. Timeout] /\ Len(dht.nodes) <= MaxNodes /\ dht.search.age <= Lifetime + 1
    BY DhtFields, Bounds DEF SearchInv, DhtSearch
  <2>2. torrent.wait \in 0 .. (Interval + Retry) /\ torrent.known \in 0 .. Enough
    BY DEF TorrentInv, Torrent
  <2>3. QED
    BY <2>1, <2>2 DEF TorrentInv, TypeOK
<1>2. EventsOnce
  BY DEF OrderInv
<1>3. StartedAtOnce
  BY DEF FirstInv, StartedAtOnce
<1>4. QED
  BY <1>1, <1>2, <1>3 DEF DiscoveryInvariant

\* Whatever the turns of the engine, the announce thread and the trackers come to: for each
\* entry of its list of trackers an object of a torrent tells "started" at most once and
\* "completed" at most once, and "started" to none after "completed" to one
\* (wants_announce(), note_event_sent() and mark_announced(), one queue and one
\* announce_loop()), and its first announce is due at once, unless put off by the answer to
\* a torrent that was removed.  A tracker that two entries name hears each event from both.
THEOREM EventsToldOnce == Spec => []DiscoveryInvariant
<1>1. Spec => []DiscoveryIInv
  BY Starts, StepKeeps, PTL DEF Spec
<1>2. QED
  BY <1>1, Implies, PTL

\* The engine, through Dht::forget() on the Remove command and through find_peers() for the
\* torrents it has only, sends no query of a search for a torrent that is gone.
THEOREM GoneFallsSilent == Spec => GoneIsSilent
<1> DEFINE Quiet == \A n \in Nodes :
                       dht'.left[<<n, "get_peers">>] > dht.left[<<n, "get_peers">>] => torrent.here
<1>1. ASSUME DiscoveryIInv, DiscoveryIInv', [Next]_vars
      PROVE  Quiet
  <2>1. \A n \in Nodes : /\ dht.left[<<n, "get_peers">>] \in 0 .. Timeout
                         /\ dht'.left[<<n, "get_peers">>] \in 0 .. Timeout
    BY <1>1, DhtFields, Bounds DEF DiscoveryIInv, SearchInv
  <2>2. SUFFICES ~ torrent.here => \A n \in Nodes :
                    dht'.left[<<n, "get_peers">>] <= dht.left[<<n, "get_peers">>]
    BY <2>1, Bounds
  <2>3. \A n \in Nodes : dht.left[<<n, "get_peers">>] <= dht.left[<<n, "get_peers">>]
    <3>1. \A x \in 0 .. Timeout : x <= x
      BY Bounds
    <3>2. QED
      BY <2>1, <3>1, Zenon
  <2>4. CASE Turn
    BY <1>1, <2>4, TurnParts DEF DiscoveryIInv, Turn
  <2>5. ASSUME NEW q \in Query, Poll(q[1], q[2])
        PROVE  \A n \in Nodes : dht'.left[<<n, "get_peers">>] <= dht.left[<<n, "get_peers">>]
    <3>1. /\ dht' = HandleAnswer(dht, q[1], q[2])
          /\ q[1] \in Nodes /\ q[2] \in {"ping", "get_peers"}
      BY <2>5 DEF Poll, Query
    <3>2. QED
      BY <1>1, <3>1, AnswerOK DEF DiscoveryIInv, SearchInv, DhtOK
  <2>6. CASE RemoveTorrent
    <3>1. dht' = [dht EXCEPT !.search = NoSearch]
      BY <2>6 DEF RemoveTorrent, Forget
    <3>2. dht \in [sock : BOOLEAN, nodes : Seq(Nodes), left : [Query -> 0 .. Timeout],
                   search : DhtSearch, found : BOOLEAN, boot : 0 .. BootRetry]
      BY <1>1, DhtFields DEF DiscoveryIInv, SearchInv
    <3>3. dht'.left = dht.left
      BY <3>1, <3>2
    <3>4. QED
      BY <2>3, <3>3
  <2>7. CASE dht' = dht
    BY <2>3, <2>7
  <2>8. QED
    BY <1>1, <2>4, <2>5, <2>6, <2>7
       DEF Next, Add, SetActive, MetadataSaysPrivate, Completes, TransportChanges, vars
<1>2. Spec => []DiscoveryIInv
  BY Starts, StepKeeps, PTL DEF Spec
<1>3. QED
  BY <1>1, <1>2, PTL DEF Spec, GoneIsSilent
=============================================================================
