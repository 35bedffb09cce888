------------------------------- MODULE Servers -------------------------------
(***************************************************************************)
(* net::HttpServer, which serves one client at a time on a thread of its   *)
(* own, and its two users: Phone, on the access point that the console     *)
(* opens (net::SoftAp), and Remote, on the local network.  Both are driven *)
(* by the main thread (App).                                               *)
(*                                                                         *)
(* A request is the number of calls to the session its handler makes.      *)
(***************************************************************************)
EXTENDS Naturals

CONSTANTS
    Ports,          \* 8: ports tried
    MaxItems        \* bound: links and files in a request

ASSUME ServersAssumption == Ports \in Nat \ {0} /\ MaxItems \in Nat

Server == {"phone", "remote"}
Gone == {"none", "ended"}
Serving == {"header", "body", "handle", "send"}

VARIABLES
    running,        \* running_ of each server
    thread,         \* where its thread is
    port,           \* port_, from the first one tried on; 0 for none
    items,          \* calls left to the handler
    engine,         \* session_ of Phone and of Remote is set
    ap,             \* the access point is up
    addressed,      \* and its address is known
    step            \* Phone::Step

serverVars == <<running, thread, port, items, engine>>
phoneVars == <<ap, addressed, step>>

ServersInit ==
    /\ running = [s \in Server |-> FALSE] /\ thread = [s \in Server |-> "none"]
    /\ port = [s \in Server |-> 0] /\ items = [s \in Server |-> 0]
    /\ engine = [s \in Server |-> FALSE]
    /\ ap = FALSE /\ addressed = FALSE /\ step = "off"

-----------------------------------------------------------------------------
(* Calls of the main thread                                                *)

\* HttpServer::start(): the first port that nobody, here or elsewhere, listens on
Available(s) == (1 .. Ports) \ {port[t] : t \in Server \ {s}}

Listens(s) ==
    IF running[s] THEN UNCHANGED <<running, thread, port>>
    ELSE \E p \in Available(s) :
            /\ port' = [port EXCEPT ![s] = p]
            /\ running' = [running EXCEPT ![s] = TRUE]
            /\ thread' = [thread EXCEPT ![s] = "poll"]

\* SoftAp::start(), if it is not up already: its address may stay unknown
RaiseAp == ap' = TRUE /\ IF ap THEN UNCHANGED addressed ELSE addressed' \in BOOLEAN

\* Phone::start(): the access point is refused, no port is free, the code cannot be drawn
\* (stop() follows), or all is well
StartPhone(outcome) ==
    /\ step \in {"off", "failed"}
    /\ engine' = [engine EXCEPT !["phone"] = TRUE] /\ UNCHANGED items
    /\ step' = IF outcome = "joined" THEN "joinWifi" ELSE "failed"
    /\ CASE outcome = "refused" -> ~ ap /\ UNCHANGED <<ap, addressed, running, thread, port>>
         [] outcome = "unlistened" ->
              /\ ~ running["phone"]
              /\ ap' = FALSE /\ addressed' = FALSE /\ UNCHANGED <<running, thread, port>>
         [] OTHER -> RaiseAp /\ Listens("phone")

\* Phone::confirm_joined(): without an address of the access point that of the network
\* before is given, if there was one; the code may not be drawable
ConfirmJoined ==
    /\ step = "joinWifi"
    /\ step' \in {"openPage", "failed"}
    /\ UNCHANGED <<ap, addressed, serverVars>>

\* Remote::start()
StartRemote ==
    /\ ~ running["remote"]
    /\ \/ Listens("remote") /\ engine' = [engine EXCEPT !["remote"] = TRUE]
       \/ UNCHANGED <<running, thread, port, engine>>
    /\ UNCHANGED <<items, phoneVars>>

\* HttpServer::stop(), up to the join
AskStop(s) ==
    /\ running[s]
    /\ running' = [running EXCEPT ![s] = FALSE]
    /\ UNCHANGED <<thread, port, items, engine, phoneVars>>

\* The join and what follows it in Phone::stop() and in Remote::stop()
Stopped(s) ==
    /\ ~ running[s] /\ thread[s] \in Gone
    /\ thread' = [thread EXCEPT ![s] = "none"] /\ port' = [port EXCEPT ![s] = 0]
    /\ engine' = [engine EXCEPT ![s] = FALSE]
    /\ IF s = "phone" THEN ap' = FALSE /\ addressed' = FALSE /\ step' = "off"
       ELSE UNCHANGED phoneVars
    /\ UNCHANGED <<running, items>>

-----------------------------------------------------------------------------
(* The thread of a server                                                  *)

Goes(s, from, to) == thread[s] = from /\ thread' = [thread EXCEPT ![s] = to]
SameServer == UNCHANGED <<running, port, engine, phoneVars>>

\* Mutant of Wakes: it takes the next client, whatever was asked meanwhile
WakesAlways(s) == Goes(s, "poll", "accept") /\ SameServer /\ UNCHANGED items

\* serve(): the socket is readable, by a client or by its shutdown
Wakes(s) == Goes(s, "poll", IF running[s] THEN "accept" ELSE "ended") /\ SameServer /\ UNCHANGED items

\* accept(): a client, one from outside or an interruption, or an error that ends it
Accepts(s) ==
    /\ \E to \in {"header", "poll", "ended"} : Goes(s, "accept", to)
    /\ SameServer /\ UNCHANGED items

\* Phone::handle(): none for its page, another path or a form it cannot read, else one for
\* each link and each file
PhoneCalls == 0 .. MaxItems

\* Remote::handle(): none for its page, a bad key or another path, one for the state, one for
\* each link or file; an action looks its torrent up first, and takes two unless either is
\* unknown
RemoteCalls == {0, 1, 2} \cup (0 .. MaxItems)

Handling(s, from) ==
    /\ Goes(s, from, "handle")
    /\ \E n \in IF s = "phone" THEN PhoneCalls ELSE RemoteCalls : items' = [items EXCEPT ![s] = n]

\* handle_client(): the headers, or a client that is malformed, closed or too slow; a body
\* follows, or is too large to be read
ReadsHeaders(s) ==
    /\ \/ \E to \in {"poll", "send", "body"} : Goes(s, "header", to) /\ UNCHANGED items
       \/ Handling(s, "header")
    /\ SameServer

ReadsBody(s) ==
    /\ (Goes(s, "body", "poll") /\ UNCHANGED items) \/ Handling(s, "body")
    /\ SameServer

\* A call to the session
HandlesItem(s) ==
    /\ thread[s] = "handle" /\ items[s] > 0
    /\ items' = [items EXCEPT ![s] = @ - 1]
    /\ SameServer /\ UNCHANGED thread

Replies(s) == items[s] = 0 /\ Goes(s, "handle", "send") /\ SameServer /\ UNCHANGED items

\* Sent, broken or given up
Sends(s) == Goes(s, "send", "poll") /\ SameServer /\ UNCHANGED items

Serves(s) ==
    \/ Wakes(s) \/ Accepts(s) \/ ReadsHeaders(s) \/ ReadsBody(s) \/ HandlesItem(s)
    \/ Replies(s) \/ Sends(s)
=============================================================================
