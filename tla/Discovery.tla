----------------------------- MODULE Discovery ------------------------------
(***************************************************************************)
(* How a torrent of the session gets to know peers: the turns of the       *)
(* engine, which searches the DHT and queues announces for another thread  *)
(* to make, while the torrent is stopped, removed, added again or turns    *)
(* out to be private.  A turn lasts a step of the searches here.           *)
(***************************************************************************)
EXTENDS Dht, Announces

CONSTANTS
    Enough,         \* 60: known peers above which the DHT is not asked
    Retry,          \* 300 s, in turns: to the next announce, without an answer
    Interval,       \* to the next one, as the tracker asks
    MaxJobs,        \* bound: jobs that wait
    MaxAdds,        \* bound: times the torrent is added
    Settings         \* of the user and of the torrent: the DHT is enabled, clear trackers
                    \* are refused, the trackers, whether the torrent is private

ASSUME DiscoveryAssumption ==
    /\ {Enough, Retry, Interval, MaxJobs, MaxAdds} \subseteq Nat
    /\ Settings \subseteq [dht : BOOLEAN, secure : BOOLEAN,
                         trackers : Seq(Schemes), private : BOOLEAN]

VARIABLES
    torrent,        \* the Torrent with this hash
    dht,            \* dht_
    moved,          \* the transport is no longer the one the DHT was given
    rules,          \* the choice made
    delayed         \* history: an answer for a removed object came to this one

vars == <<torrent, dht, moved, rules, delayed, jobs, at, job, wire, replies, told, last, usable>>

\* A torrent just added, whose metadata is unknown
NewTorrent(n) == [here |-> TRUE, of |-> n, active |-> FALSE, private |-> FALSE, known |-> 0,
                  wait |-> 0, started |-> FALSE, completed |-> FALSE, done |-> FALSE]

Init ==
    /\ torrent = [NewTorrent(0) EXCEPT !.here = FALSE]
    /\ rules \in Settings
    /\ dht = NewDht /\ moved = rules.dht /\ delayed = FALSE
    /\ AnnouncesInit

-----------------------------------------------------------------------------
(* Between two turns                                                       *)

Add ==
    /\ ~ torrent.here /\ last < MaxAdds
    /\ last' = last + 1 /\ torrent' = NewTorrent(last + 1)
    /\ delayed' = FALSE /\ told' = <<>>
    /\ UNCHANGED <<dht, moved, rules, jobs, at, job, wire, replies, usable>>

\* The Remove command, which stops the search too
RemoveTorrent ==
    /\ torrent.here
    /\ torrent' = [NewTorrent(0) EXCEPT !.here = FALSE]
    /\ dht' = Forget(dht)
    /\ UNCHANGED <<moved, rules, delayed, announceVars>>

\* Paused, queued or failed, and back
SetActive ==
    /\ torrent.here
    /\ torrent' = [torrent EXCEPT !.active = ~ @]
    /\ UNCHANGED <<dht, moved, rules, delayed, announceVars>>

\* finish_metadata() finds the torrent private
MetadataSaysPrivate ==
    /\ torrent.here /\ torrent.active /\ rules.private /\ ~ torrent.private
    /\ torrent' = [torrent EXCEPT !.private = TRUE]
    /\ UNCHANGED <<dht, moved, rules, delayed, announceVars>>

\* The last piece is verified
Completes ==
    /\ torrent.here /\ torrent.active /\ ~ torrent.done
    /\ torrent' = [torrent EXCEPT !.done = TRUE]
    /\ UNCHANGED <<dht, moved, rules, delayed, announceVars>>

\* Another transport, or none, or the same one ready or not.  It is for the DHT alone
\* that another one counts.
TransportChanges ==
    /\ usable' \in BOOLEAN /\ moved' \in {moved, rules.dht}
    /\ UNCHANGED <<torrent, dht, rules, delayed, jobs, at, job, wire, replies, told, last>>

-----------------------------------------------------------------------------
(* A turn                                                                  *)

\* The torrents the engine searches for, whatever their state: not the private ones
Searchable == torrent.here /\ ~ torrent.private /\ torrent.known < Enough

\* The DHT's part: it follows the transport, then searches
FollowTransport == IF moved THEN SetDhtTransport(dht, usable) ELSE {dht}
DhtTurn(d, resolved) ==
    IF ~ rules.dht THEN {d}
    ELSE {IF d.sock THEN Searched(e, resolved) ELSE e :
            e \in Entered(IF Searchable THEN FindPeers(d) ELSE d, usable, resolved)}

Learn(t, n) == [t EXCEPT !.known = IF @ + n > Enough THEN Enough ELSE @ + n]

\* The entries of the list of trackers that may be asked, two of which may name the same
\* one: not in clear if the user refuses it
Urls == {i \in DOMAIN rules.trackers : ~ (rules.secure /\ rules.trackers[i] = "http")}

\* Mutant of Due: the first announce is the last
DueOnce(t) == t.here /\ t.active /\ ~ t.started

\* wants_announce()
Due(t) == t.here /\ t.active /\ t.wait = 0

\* Mutant of NextEvent: a completion is told each time
NextEventAgain(t) ==
    IF ~ t.started THEN "started" ELSE IF t.done THEN "completed" ELSE "none"

NextEvent(t) ==
    IF ~ t.started THEN "started"
    ELSE IF t.done /\ ~ t.completed THEN "completed" ELSE "none"

\* note_event_sent(), if any tracker was asked, and mark_announced()
MarkAnnounced(t) ==
    [t EXCEPT !.wait = Retry,
              !.started = @ \/ (Urls # {} /\ NextEvent(t) = "started"),
              !.completed = @ \/ (Urls # {} /\ NextEvent(t) = "completed")]

\* apply_announce() of each answer, for the torrent with that hash, be it another object
Applied(t, answers) ==
    LET good == {i \in DOMAIN answers : answers[i].ok}
    IN  IF t.here /\ good # {} THEN [Learn(t, Cardinality(good)) EXCEPT !.wait = Interval] ELSE t

\* One turn of the engine, up to its poll: a host resolves or not
TurnWith(resolved) ==
    \E followed \in FollowTransport : \E d \in DhtTurn(DhtAged(followed), resolved) :
    LET aged == [torrent EXCEPT !.wait = IF @ = 0 THEN 0 ELSE @ - 1]
        found == IF rules.dht /\ d.found /\ aged.here THEN Learn(aged, 1) ELSE aged
        due == IF Due(found) THEN MarkAnnounced(found) ELSE found
        urls == IF Due(found) THEN Urls ELSE {}
    IN  /\ Len(jobs) + Cardinality(urls) <= MaxJobs
        /\ dht' = IF rules.dht THEN [d EXCEPT !.found = FALSE] ELSE d
        /\ moved' = FALSE
        /\ \E order \in SetToSeqs(urls) :
              /\ \A i, k \in DOMAIN order : i < k => order[i] < order[k]
              /\ jobs' = jobs \o [i \in DOMAIN order |->
                         [url |-> rules.trackers[order[i]], entry |-> order[i],
                          event |-> NextEvent(found), of |-> torrent.of]]
        /\ torrent' = Applied(due, replies)
        /\ delayed' = (delayed \/ (torrent.here
                         /\ \E i \in DOMAIN replies : replies[i].ok /\ replies[i].of # torrent.of))
        /\ replies' = <<>>
        /\ UNCHANGED <<rules, at, job, wire, told, last, usable>>

Turn == \E resolved \in BOOLEAN : TurnWith(resolved)

\* The poll: an answer of a node, through the socket of the transport in use
Poll(n, what) ==
    /\ dht.sock /\ dht.left[<<n, what>>] > 0
    /\ dht' = HandleAnswer(dht, n, what)
    /\ UNCHANGED <<torrent, moved, rules, delayed, announceVars>>

Next ==
    \/ Add \/ RemoveTorrent \/ SetActive \/ MetadataSaysPrivate \/ Completes
    \/ TransportChanges
    \/ Turn
    \/ \E q \in Query : Poll(q[1], q[2])
    \/ Exchange /\ UNCHANGED <<torrent, dht, moved, rules, delayed>>

\* Turns go on, calls of the announce thread end, and a node asked again and again
\* answers in the end; a host asked again and again resolves, a socket opens.
Fairness ==
    /\ WF_vars(Turn) /\ WF_vars(Exchange /\ UNCHANGED <<torrent, dht, moved, rules, delayed>>)
    /\ SF_vars(TurnWith(TRUE) /\ (dht'.boot = BootRetry \/ (~ dht.sock /\ dht'.sock)))
    /\ \A n \in Nodes : SF_vars(Poll(n, "get_peers"))

Spec == Init /\ [][Next]_vars /\ Fairness

-----------------------------------------------------------------------------
(* Properties                                                              *)

TypeOK ==
    /\ dht.left \in [Query -> 0 .. Timeout] /\ Len(dht.nodes) <= MaxNodes
    /\ dht.search.age <= Lifetime + 1
    /\ Len(jobs) <= MaxJobs /\ at \in Udp \cup Http \cup {Idle, "resolve"}
    /\ torrent.wait \in 0 .. (Interval + Retry) /\ torrent.known \in 0 .. Enough

\* What may be told, and what may be told after it
Follows(a, b) == a # b /\ (a.event = "started" \/ b.event = "completed")

\* For each object of a torrent, "started" is told once at most for each entry of the list
\* of trackers, "completed" once at most, and "started" never after a "completed", whatever
\* is lost, retried or changed.
EventsOnce == \A i, k \in DOMAIN told : i < k => Follows(told[i], told[k])

\* Not kept: a tracker hears each event once.  One that is named twice hears it twice.
EachEventOnce ==
    \A i, k \in DOMAIN told : i # k /\ told[i].url = told[k].url => told[i].event # told[k].event

\* A torrent not announced yet is due at once, unless an answer that was for a removed
\* torrent with its hash has put its announce off.
StartedAtOnce == torrent.here /\ ~ torrent.started /\ Urls # {} => torrent.wait = 0 \/ delayed

\* No query is sent for a torrent that is not there: its search ends with it.
GoneIsSilent ==
    [][\A n \in Nodes : dht'.left[<<n, "get_peers">>] > dht.left[<<n, "get_peers">>] => torrent.here]_vars

\* A torrent that turned out to be private is searched for to the end of the search
\* under way, then never again.
PrivateFallsSilent ==
    torrent.private ~> [](torrent.private => \A n \in Nodes : dht.left[<<n, "get_peers">>] = 0)

\* Who must not be searched for falls silent.
FallsSilent == GoneIsSilent /\ PrivateFallsSilent

\* The events of a torrent reach its trackers once, and the first without delay.
DiscoveryInvariant == TypeOK /\ EventsOnce /\ StartedAtOnce

\* A torrent that runs is announced again and again, as long as there is a way out: an
\* answer or a failure comes back each time.
AnnouncedAgain ==
    torrent.active /\ usable /\ Urls # {} ~> replies # <<>> \/ ~ torrent.active \/ ~ usable

\* With a steady transport a torrent that may be searched for gets to know a peer.
PeersFound ==
    []<>(torrent.known > 0 \/ ~ Searchable \/ ~ rules.dht \/ moved \/ ~ usable)
=============================================================================
