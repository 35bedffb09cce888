-------------------------------- MODULE Dht ---------------------------------
(***************************************************************************)
(* bt::Dht: looking for the peers of a torrent among the nodes of the DHT. *)
(* A DHT is a record, and each operation an operator on it.  There is one  *)
(* torrent: searches share nothing but the table of nodes.                 *)
(*                                                                         *)
(* Time is counted in steps of a search (900 ms).  A query is named by     *)
(* whom it asks and what, instead of by a number: one sent again while     *)
(* outstanding only restarts its clock.  Candidates given to a search that *)
(* ended are left out, find_peers() clearing them; and so is their cap of  *)
(* 256, what it drops coming back from the table at the next step.         *)
(***************************************************************************)
EXTENDS Integers, FiniteSets, SequencesExt

CONSTANTS
    Nodes,          \* external: the nodes
    Distance,       \* external: of each node to the info hash
    Address,        \* external: their IPv4 addresses
    Router,         \* external: the node behind the bootstrap hosts
    Contact,        \* external: the node that each of them answers with
    Holders,        \* external: the nodes that answer with peers
    MaxNodes,       \* 400: nodes in the table
    MinNodes,       \* 16: below, the hosts are asked again
    MaxQueried,     \* 120: nodes asked by a search
    PerStep,        \* 4: nodes asked in a step
    Lifetime,       \* 90 s, in steps
    Timeout,        \* 12 s, in steps
    BootRetry       \* 2.5 s, in steps

ASSUME DhtAssumption ==
    /\ Router \in Nodes /\ Holders \subseteq Nodes
    /\ Distance \in [Nodes -> Nat] /\ Address \in [Nodes -> Nat] /\ Contact \in [Nodes -> Nodes]
    /\ {MaxNodes, MinNodes, MaxQueried, PerStep, Lifetime, Timeout, BootRetry} \subseteq Nat
    /\ MaxNodes > 0

Query == Nodes \X {"ping", "get_peers"}

NoSearch == [active |-> FALSE, age |-> 0, queried |-> {}, candidates |-> {}]

DhtState == [
    sock : BOOLEAN,
    nodes : Seq(Nodes),                 \* nodes_, the one seen longest ago first
    left : [Query -> 0 .. Timeout],     \* pending_: time left, 0 for no query
    search : [active : BOOLEAN, age : 0 .. Lifetime + 1,
              queried : SUBSET {Address[n] : n \in Nodes}, candidates : SUBSET Nodes],
    found : BOOLEAN,                    \* results_ holds peers
    boot : 0 .. BootRetry]              \* time until a host may be asked again

NewDht == [sock |-> FALSE, nodes |-> <<>>, left |-> [q \in Query |-> 0],
           search |-> NoSearch, found |-> FALSE, boot |-> 0]

Table(d) == {d.nodes[i] : i \in DOMAIN d.nodes}

\* set_transport(): nothing learnt through the former path is kept, but the search, and a
\* datagram socket is opened, or cannot be
SetDhtTransport(d, ready) ==
    {[NewDht EXCEPT !.sock = opens, !.found = d.found,
                    !.search = [d.search EXCEPT !.queried = {}, !.candidates = {}]] :
        opens \in {FALSE, ready}}

\* Mutant of FindPeers: a search starts again with what the one before asked
FindPeersAgain(d) == [d EXCEPT !.search.active = TRUE]

FindPeers(d) ==
    IF d.search.active THEN d ELSE [d EXCEPT !.search = [NoSearch EXCEPT !.active = TRUE]]

\* Mutant of Forget: the search goes on
ForgetNothing(d) == d

Forget(d) == [d EXCEPT !.search = NoSearch]

\* The time of a step passes
DhtAged(d) ==
    [d EXCEPT !.left = [q \in Query |-> IF @[q] = 0 THEN 0 ELSE @[q] - 1],
              !.boot = IF @ = 0 THEN 0 ELSE @ - 1,
              !.search.age = IF d.search.active /\ @ <= Lifetime THEN @ + 1 ELSE @]

\* bootstrap(): one host per pass, which may not resolve
Bootstrap(d, resolved) ==
    [d EXCEPT !.boot = BootRetry,
              !.left = [q \in Query |->
                  IF resolved /\ q[1] = Router /\ (q[2] = "ping" \/ d.search.active)
                  THEN Timeout ELSE @[q]]]

\* tick(), first part: another socket, or more nodes when there are few
Entered(d, ready, resolved) ==
    IF d.sock THEN {IF Len(d.nodes) < MinNodes /\ d.boot = 0 THEN Bootstrap(d, resolved) ELSE d}
    ELSE IF ready THEN SetDhtTransport(d, TRUE)
    ELSE {d}

\* The nodes a step asks: the closest ones, never an address twice in a search
ToAsk(nodes, queried) ==
    LET fresh == {n \in nodes : Address[n] \notin queried}
        Closer(S, n) == {m \in S : Distance[m] < Distance[n]}
        first == {n \in fresh : \A m \in Closer(fresh, n) : Address[m] # Address[n]}
    IN  {n \in first : Cardinality(Closer(first, n)) < PerStep}

EndSearch(d) == [d EXCEPT !.search.active = FALSE, !.search.age = 0]

\* step_search(), asking the nodes asked among those known
StepSearch(d, nodes, asked, resolved) ==
    IF Cardinality(d.search.queried) >= MaxQueried THEN EndSearch(d)
    ELSE IF nodes = {} THEN IF d.boot = 0 THEN Bootstrap(d, resolved) ELSE d
    ELSE IF asked = {} THEN EndSearch(d)
    ELSE [d EXCEPT !.search.queried = @ \cup {Address[n] : n \in asked},
                   !.search.candidates = nodes,
                   !.left = [q \in Query |-> IF q[1] \in asked /\ q[2] = "get_peers"
                                             THEN Timeout ELSE @[q]]]

\* tick(), second part: an active search ends or makes a step
Searched(d, resolved) ==
    LET nodes == d.search.candidates \cup Table(d)
    IN  IF ~ d.search.active THEN d
        ELSE IF d.search.age > Lifetime THEN EndSearch(d)
        ELSE StepSearch(d, nodes, ToAsk(nodes, d.search.queried), resolved)

\* remember_node(): a full table loses the node seen longest ago
Remember(nodes, n) ==
    LET others == IF \E i \in DOMAIN nodes : nodes[i] = n
                  THEN RemoveAt(nodes, CHOOSE i \in DOMAIN nodes : nodes[i] = n) ELSE nodes
    IN  Append(IF Len(others) = MaxNodes THEN Tail(others) ELSE others, n)

\* handle_datagram(), for an answer that is waited for (others change nothing)
HandleAnswer(d, n, what) ==
    LET answered == [d EXCEPT !.left[<<n, what>>] = 0, !.nodes = Remember(@, n)]
    IN  IF what = "ping" THEN answered
        ELSE [answered EXCEPT !.nodes = Remember(@, Contact[n]),
                              !.found = @ \/ n \in Holders,
                              !.search.candidates =
                                  IF d.search.active THEN @ \cup {Contact[n]} ELSE @]
=============================================================================
