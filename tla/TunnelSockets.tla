--------------------------- MODULE TunnelSockets ----------------------------
(***************************************************************************)
(* What the tunnel offers over lwIP: a TCP socket, a UDP socket and name   *)
(* resolution.  lwIP is external: it calls back, within pump(), with bytes *)
(* in order, a close, an error, a datagram or the answer to a query.       *)
(*                                                                         *)
(* The engine owns the TCP socket and pumps in poll(); the announcer owns  *)
(* the UDP socket and pumps in resolve(), under the mutex until it         *)
(* returns.  recv() does not take the mutex: the announcer may pump in the *)
(* middle of it, and bytes that arrive there are lost or kept.  (A vector  *)
(* that moves while it is copied from may do worse.)                       *)
(*                                                                         *)
(* A TCP socket connects once.  The next connection uses the same memory   *)
(* here, as an allocator may well do.                                      *)
(***************************************************************************)
EXTENDS Naturals, Sequences

CONSTANTS
    Hosts,          \* names to resolve
    MaxPcbs,        \* bound: connections
    MaxUnits,       \* bound: units of data that reach a connection
    Compact,        \* 64 KiB, in units: rx_ is compacted once more was read
    MaxQueue,       \* 64: datagrams the UDP socket keeps
    Deadline        \* 8000 ms, in ticks: when resolve() gives up

Nil == "nil"

ASSUME TunnelSocketsAssumption ==
    {MaxPcbs, MaxUnits, Compact, MaxQueue, Deadline} \subseteq Nat /\ Nil \notin Hosts

VARIABLES
    sock,           \* LwipTcpSocket
    recving,        \* the recv() under way: none, about to clear rx_, or not to
    linked,         \* external: the connections of lwIP that call the socket back
    opened,         \* external: how many connections there have been
    arrived,        \* how many units reached the socket
    got,            \* what recv() returned, in order
    said,           \* what the last recv() without data returned
    interrupted,    \* history: lwIP called back in the middle of recv()
    udp,            \* LwipUdpSocket: the length of queue_
    asked,          \* the host of the resolve() under way
    age,            \* and for how long it has been
    dns,            \* dns_
    queries,        \* external: the hosts lwIP is asking for
    answer,         \* the host of the last resolve() and what it returned
    outlived        \* history: a resolve() gave up on its query

tcp == <<sock, recving, linked, opened, arrived, got, said, interrupted>>
names == <<asked, age, dns, queries, answer, outlived>>
socketsVars == <<sock, recving, linked, opened, arrived, got, said, interrupted, udp,
                 asked, age, dns, queries, answer, outlived>>

Closed == [pcb |-> 0, connected |-> FALSE, closed |-> FALSE, failed |-> FALSE,
           rx |-> <<>>, pos |-> 0]
Unanswered == [done |-> FALSE, result |-> Nil]

SocketsInit ==
    /\ sock = Closed /\ recving = Nil /\ linked = {} /\ opened = 0
    /\ arrived = 0 /\ got = <<>> /\ said = Nil /\ interrupted = FALSE
    /\ udp = 0
    /\ asked = Nil /\ age = 0 /\ dns = Unanswered /\ queries = {}
    /\ answer = [host |-> Nil, result |-> Nil] /\ outlived = FALSE

-----------------------------------------------------------------------------
(* The TCP socket                                                          *)

\* start_connect(): without a pcb, or when tcp_connect() refuses, the socket is not
\* linked to lwIP (the pcb of the second case is detached and never freed)
StartConnect ==
    /\ sock = Closed /\ opened < MaxPcbs /\ recving = Nil
    /\ \/ sock' = [sock EXCEPT !.pcb = opened + 1] /\ linked' = linked \cup {opened + 1}
       \/ UNCHANGED <<sock, linked>>
    /\ opened' = opened + 1
    /\ arrived' = 0 /\ got' = <<>> /\ said' = Nil /\ interrupted' = FALSE
    /\ UNCHANGED <<recving, udp, names>>

\* Who may call lwIP back: the engine between two calls, or the announcer, which
\* pumps as long as it resolves, whatever the engine does
MayCallBack == recving = Nil \/ asked # Nil

\* What a callback of the connection c writes, in whatever uses the socket's memory
CallsBack(c, s) ==
    /\ c \in linked /\ MayCallBack
    /\ sock' = s
    /\ interrupted' = (interrupted \/ recving # Nil)
    /\ UNCHANGED <<recving, opened, got, said, udp, names>>

\* on_connected(): lwIP reports errors elsewhere
OnConnected(c) ==
    /\ ~ sock.connected /\ ~ sock.failed
    /\ CallsBack(c, [sock EXCEPT !.connected = TRUE])
    /\ UNCHANGED <<linked, arrived>>

\* on_recv() of data, whose window is given back at once
OnRecv(c) ==
    /\ sock.connected /\ ~ sock.closed /\ arrived < MaxUnits
    /\ arrived' = arrived + 1
    /\ CallsBack(c, [sock EXCEPT !.rx = Append(@, arrived + 1)])
    /\ UNCHANGED linked

\* on_recv() of the other side's close
OnRemoteClose(c) ==
    /\ sock.connected /\ ~ sock.closed
    /\ CallsBack(c, [sock EXCEPT !.closed = TRUE])
    /\ UNCHANGED <<linked, arrived>>

\* on_error(): lwIP has freed the pcb
OnError(c) ==
    /\ CallsBack(c, [sock EXCEPT !.pcb = 0, !.failed = TRUE, !.connected = FALSE])
    /\ linked' = linked \ {c}
    /\ UNCHANGED arrived

\* send(): only a refusal of tcp_write() other than for want of memory is remembered
SendFails ==
    /\ recving = Nil /\ ~ sock.failed /\ sock.pcb # 0 /\ sock.connected
    /\ sock' = [sock EXCEPT !.failed = TRUE]
    /\ UNCHANGED <<recving, linked, opened, arrived, got, said, interrupted, udp, names>>

Unread == Len(sock.rx) - sock.pos

\* recv() with data: the copy, and whether rx_ is now read to its end
Recv ==
    /\ recving = Nil /\ Unread > 0
    /\ \E take \in 1 .. Unread :
          /\ got' = got \o SubSeq(sock.rx, sock.pos + 1, sock.pos + take)
          /\ sock' = [sock EXCEPT !.pos = @ + take]
          /\ recving' = IF take = Unread THEN "clears" ELSE "keeps"
    /\ UNCHANGED <<linked, opened, arrived, said, interrupted, udp, names>>

\* Mutant of Settled: the position is kept
SettledInPlace(s) ==
    IF recving = "clears" THEN [s EXCEPT !.rx = <<>>, !.pos = 0]
    ELSE IF s.pos > Compact THEN [s EXCEPT !.rx = SubSeq(@, s.pos + 1, Len(@))]
    ELSE s

\* The end of recv(): what was read is dropped, all at once or past Compact
Settled(s) ==
    IF recving = "clears" THEN [s EXCEPT !.rx = <<>>, !.pos = 0]
    ELSE IF s.pos > Compact THEN [s EXCEPT !.rx = SubSeq(@, s.pos + 1, Len(@)), !.pos = 0]
    ELSE s

RecvEnds ==
    /\ recving # Nil
    /\ sock' = Settled(sock)
    /\ recving' = Nil
    /\ UNCHANGED <<linked, opened, arrived, got, said, interrupted, udp, names>>

\* Mutant of Verdict: the close is told before the data is read
VerdictCloseFirst(s) ==
    IF s.closed THEN "closed" ELSE IF Unread > 0 THEN Nil ELSE "wait"

\* What recv() says for want of data
Verdict(s) ==
    IF Unread > 0 THEN Nil
    ELSE IF s.closed THEN "closed" ELSE IF s.failed THEN "error" ELSE "wait"

RecvNothing ==
    /\ recving = Nil /\ Verdict(sock) # Nil
    /\ said' = Verdict(sock)
    /\ UNCHANGED <<sock, recving, linked, opened, arrived, got, interrupted, udp, names>>

\* detach()
Detached == linked \ {sock.pcb}

\* close(), then the destructor
Close ==
    /\ recving = Nil
    /\ linked' = Detached
    /\ sock' = Closed
    /\ arrived' = 0 /\ got' = <<>> /\ said' = Nil /\ interrupted' = FALSE
    /\ UNCHANGED <<recving, opened, udp, names>>

-----------------------------------------------------------------------------
(* The UDP socket                                                          *)

HasRoom == udp < MaxQueue

\* on_recv(): past the bound a datagram is dropped
OnDatagram ==
    /\ udp' = IF HasRoom THEN udp + 1 ELSE udp
    /\ UNCHANGED <<tcp, names>>

RecvFrom == udp > 0 /\ udp' = udp - 1 /\ UNCHANGED <<tcp, names>>

CloseUdp == udp > 0 /\ udp' = 0 /\ UNCHANGED <<tcp, names>>

-----------------------------------------------------------------------------
(* Names                                                                   *)

\* Mutant of NewDns: what is left of the last answer stays
NewDnsKept == dns

\* dns_ = {}
NewDns == Unanswered

\* resolve() of a name: lwIP knows the answer, refuses the query or begins it
Resolve(h) ==
    /\ asked = Nil
    /\ dns' = NewDns
    /\ \/ /\ \E r \in {h, Nil} : answer' = [host |-> h, result |-> r]
          /\ UNCHANGED <<asked, age, queries>>
       \/ asked' = h /\ age' = 0 /\ queries' = queries \cup {h} /\ UNCHANGED answer
    /\ UNCHANGED <<tcp, udp, outlived>>

\* dns_found_cb(), of whichever query, in a pump of either thread: it does not look
\* at the name
DnsFound(h) ==
    /\ h \in queries
    /\ queries' = queries \ {h}
    /\ \E r \in {h, Nil} : dns' = [done |-> TRUE, result |-> r]
    /\ UNCHANGED <<tcp, udp, asked, age, answer, outlived>>

\* Mutant of Resolved: without the deadline
ResolvedWhenDone ==
    /\ asked # Nil /\ dns.done
    /\ answer' = [host |-> asked, result |-> dns.result]
    /\ asked' = Nil /\ age' = 0
    /\ UNCHANGED <<tcp, udp, dns, queries, outlived>>

\* The end of resolve(), answered or out of time
Resolved ==
    /\ asked # Nil /\ (dns.done \/ age >= Deadline)
    /\ answer' = [host |-> asked, result |-> dns.result]
    /\ outlived' = (outlived \/ ~ dns.done)
    /\ asked' = Nil /\ age' = 0
    /\ UNCHANGED <<tcp, udp, dns, queries>>

Waits ==
    /\ asked # Nil /\ age < Deadline
    /\ age' = age + 1
    /\ UNCHANGED <<tcp, udp, asked, dns, queries, answer, outlived>>

SocketsNext ==
    \/ StartConnect \/ SendFails \/ Recv \/ RecvEnds \/ RecvNothing \/ Close
    \/ \E c \in linked : OnConnected(c) \/ OnRecv(c) \/ OnRemoteClose(c) \/ OnError(c)
    \/ OnDatagram \/ RecvFrom \/ CloseUdp
    \/ \E h \in Hosts : Resolve(h) \/ DnsFound(h)
    \/ Resolved \/ Waits

\* Time goes on, and resolve() looks at its result after each pump
SocketsSpec ==
    /\ SocketsInit /\ [][SocketsNext]_socketsVars
    /\ WF_socketsVars(Waits) /\ WF_socketsVars(Resolved)

-----------------------------------------------------------------------------
(* Properties                                                              *)

\* The types; and the UDP socket keeps no more than its bound.
SocketsTypeOK ==
    /\ sock \in [pcb : 0 .. MaxPcbs, connected : BOOLEAN, closed : BOOLEAN,
                 failed : BOOLEAN, rx : Seq(1 .. MaxUnits), pos : 0 .. MaxUnits]
    /\ recving \in {Nil, "clears", "keeps"}
    /\ linked \subseteq 1 .. MaxPcbs /\ opened \in 0 .. MaxPcbs
    /\ arrived \in 0 .. MaxUnits /\ got \in Seq(1 .. MaxUnits)
    /\ said \in {Nil, "closed", "error", "wait"} /\ interrupted \in BOOLEAN
    /\ udp \in 0 .. MaxQueue
    /\ asked \in Hosts \cup {Nil} /\ age \in 0 .. Deadline
    /\ dns \in [done : BOOLEAN, result : Hosts \cup {Nil}]
    /\ queries \subseteq Hosts /\ outlived \in BOOLEAN
    /\ answer \in [host : Hosts \cup {Nil}, result : Hosts \cup {Nil}]

\* What recv() returned and what rx_ still holds is what arrived, in order and once,
\* through partial reads and compactions, but for a callback in the middle of recv().
ReadsWhatArrived ==
    ~ interrupted => got \o SubSeq(sock.rx, sock.pos + 1, Len(sock.rx)) = [i \in 1 .. arrived |-> i]

\* A connection is only reported closed once everything sent before was read, though
\* lwIP announces the close while data waits.
ClosedAfterData == ~ interrupted /\ said = "closed" => Len(got) = arrived

\* lwIP calls back the socket that owns the connection or nobody: never one that was
\* closed, destroyed or connected again.
NoStrayCallback == linked \subseteq {sock.pcb}

\* resolve() answers the question it was asked, with answers to earlier ones still to
\* come, unless one of those outlived its own resolve().
AnswersItsQuestion ==
    ~ outlived => answer.result \in {answer.host, Nil}

\* Callbacks and answers find who they are for.
SocketsInvariant == SocketsTypeOK /\ NoStrayCallback /\ AnswersItsQuestion

\* resolve(), which holds up the engine, ends.
ResolveReturns == asked # Nil ~> asked = Nil
=============================================================================
