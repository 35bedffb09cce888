----------------------------- MODULE Announces ------------------------------
(***************************************************************************)
(* The announce thread of the session and its TrackerClient: jobs of the   *)
(* engine are done one at a time, each over UDP (a connect, sent twice at  *)
(* most, then the announce) or over HTTP, and their answers are left for   *)
(* the engine.  The engine's side is in Discovery.                         *)
(*                                                                         *)
(* A tracker is named by the scheme of its URL.  The socket of an exchange *)
(* is its own: what comes late to the former one is never seen.            *)
(***************************************************************************)
EXTENDS Sequences

Schemes == {"udp", "http", "https"}
Idle == "idle"
Udp == {"connect", "again", "announce"}
Http == {"open", "send", "receive"}

VARIABLES
    jobs,           \* announce_queue_
    at,             \* where the thread is with its job
    job,            \* AnnounceJob: the tracker, the event; and the entry of the torrent's list
                    \* and the torrent object it is for
    wire,           \* external: the answers of the UDP tracker on their way
    replies,        \* announce_replies_
    told,           \* external: the events the trackers heard of the last object
    last,           \* external: the number of the last object
    usable          \* the session has a transport, and it is ready

announceVars == <<jobs, at, job, wire, replies, told, last, usable>>
NoJob == [url |-> "udp", entry |-> 0, event |-> "none", of |-> 0]

AnnouncesInit ==
    /\ jobs = <<>> /\ at = Idle /\ job = NoJob /\ wire = {} /\ replies = <<>>
    /\ told = <<>> /\ last = 0 /\ usable \in BOOLEAN

\* The tracker hears the announce in hand
Heard(j) == [url |-> j.url, entry |-> j.entry, event |-> j.event]
Hears == told' = IF job.event = "none" \/ job.of # last THEN told ELSE Append(told, Heard(job))

\* The result is pushed for the engine
Answer(ok) ==
    /\ replies' = Append(replies, [ok |-> ok, of |-> job.of])
    /\ at' = Idle /\ job' = NoJob /\ wire' = {}
    /\ UNCHANGED <<jobs, last, usable>>

\* announce_loop() takes a job; without a transport it is dropped
TakeJob ==
    /\ at = Idle /\ jobs # <<>>
    /\ jobs' = Tail(jobs)
    /\ IF usable
       THEN /\ job' = Head(jobs)
            /\ at' = IF Head(jobs).url = "udp" THEN "resolve" ELSE "open"
       ELSE UNCHANGED <<at, job>>
    /\ UNCHANGED <<wire, replies, told, last, usable>>

\* Any call that fails ends the exchange: no name, no socket, no transport any more, a
\* refused connection, a status other than 200, an unreadable answer, a failure reason
Fail == at # Idle /\ Answer(FALSE) /\ UNCHANGED told

\* The connect request, which may get an answer
SendConnect ==
    /\ at = "resolve"
    /\ at' = "connect" /\ wire' \in {{}, {"connect"}}
    /\ UNCHANGED <<jobs, job, replies, told, last, usable>>

\* await_reply() takes the answer with the action it waits for, drops others, and gives
\* up after a delay: the connect request is sent once more
Again ==
    /\ at = "connect"
    /\ at' = "again" /\ wire' \in {wire, wire \cup {"connect"}}
    /\ UNCHANGED <<jobs, job, replies, told, last, usable>>

\* The connection is there: the announce is sent, and may be lost, or its answer
ConnectReply ==
    /\ at \in {"connect", "again"} /\ "connect" \in wire
    /\ at' = "announce"
    /\ \/ Hears /\ wire' \in {wire, wire \cup {"announce"}}
       \/ UNCHANGED <<told, wire>>
    /\ UNCHANGED <<jobs, job, replies, last, usable>>

AnnounceReply ==
    /\ at = "announce" /\ "announce" \in wire
    /\ Answer(TRUE)
    /\ UNCHANGED told

\* connect_wait(), send_all() and recv_until_close() of an HTTP announce
Opened ==
    /\ at = "open"
    /\ at' = "send"
    /\ UNCHANGED <<jobs, job, wire, replies, told, last, usable>>

Sent ==
    /\ at = "send"
    /\ at' = "receive" /\ Hears
    /\ UNCHANGED <<jobs, job, wire, replies, last, usable>>

Received == at = "receive" /\ Answer(TRUE) /\ UNCHANGED told

Exchange ==
    \/ TakeJob \/ Fail \/ SendConnect \/ Again \/ ConnectReply \/ AnnounceReply
    \/ Opened \/ Sent \/ Received
=============================================================================
