-------------------------- MODULE SessionCommands --------------------------
(***************************************************************************)
(* How torrents come and go: bt::Session's command queue between the       *)
(* callers (the interface's thread, the HTTP servers') and the engine, the *)
(* published snapshot that callers read, and the .magnet files that bring  *)
(* torrents back at the next start.                                        *)
(*                                                                         *)
(* Every critical section is one step.  An add is four of them: the two    *)
(* halves of has_torrent(), the .magnet file, the command.  A removal is   *)
(* two or three: the halves of has_torrent() for the remote page, the      *)
(* snapshot for the interface, then the command.                           *)
(***************************************************************************)
EXTENDS Integers, Sequences, FiniteSets

CONSTANTS
    Torrent,
    Caller,
    Circumstances,  \* what may happen in one behaviour:
                    \*   "readd"  a torrent is added while its removal is queued
                    \*   "stop"   the program is stopped
                    \*   "crash"  the program ends anywhere
    MaxOrders       \* bound: adds and removals asked for

ASSUME CommandsAssumption ==
    /\ IsFiniteSet(Torrent) /\ IsFiniteSet(Caller)
    /\ Circumstances \subseteq SUBSET {"readd", "stop", "crash"}
    /\ MaxOrders \in Nat

Command == [type : {"add", "remove"}, torrent : Torrent]

VARIABLES
    running,        \* running_
    commands,       \* commands_
    batch,          \* engine: the commands taken, not handled yet
    torrents,       \* torrents_
    cached_status,  \* cached_status_: the torrents of the published snapshot
    magnets,        \* the torrents with a .magnet file
    links,          \* the .magnet files that start() has yet to add again
    caller,         \* where each caller is, and the torrent it adds
    allowed,        \* what may happen in this behaviour
    orders,         \* bound: orders given so far
    wanted,         \* history: the torrents whose latest order is an add
    unseen,         \* history: those removed before the snapshot showed them, as long as the
                    \* engine has not handled it
    crossed         \* history: those removed during an add, or added while their removal was
                    \* queued, or while it was under way without the snapshot showing them

engineVars == <<batch, torrents, cached_status>>
history == <<allowed, orders, wanted, unseen, crossed>>
vars == <<running, commands, engineVars, magnets, links, caller, history>>

Idle == [at |-> "idle"]
Place == {"snapshot", "remember", "push", "glance", "drop"}
At(place, t) == [at |-> place, torrent |-> t]

Init ==
    /\ running = TRUE
    /\ commands = <<>> /\ batch = <<>>
    /\ torrents = {} /\ cached_status = {} /\ magnets = {} /\ links = <<>>
    /\ caller = [c \in Caller |-> Idle]
    /\ allowed \in Circumstances
    /\ orders = 0 /\ wanted = {} /\ unseen = {} /\ crossed = {}

Adding(t) == [type |-> "add", torrent |-> t]
Removing(t) == [type |-> "remove", torrent |-> t]

\* The latest of the commands of s about t, as a set of at most one
Latest(t, s) ==
    {s[i] : i \in {k \in DOMAIN s : /\ s[k].torrent = t
                                    /\ \A j \in DOMAIN s : k < j => s[j].torrent # t}}

Holds(cmd, s) == \E i \in DOMAIN s : s[i] = cmd
ThenHolds(first, cmd, s) == \E i, j \in DOMAIN s : i < j /\ s[i] = first /\ s[j] = cmd

\* What the engine was told and has not done
Told == batch \o commands

\* Will t be there once the engine has handled the commands of s?
After(t, s) ==
    \/ t \in torrents /\ ~Holds(Removing(t), s)
    \/ \E i \in DOMAIN s : s[i] = Adding(t) /\ \A j \in DOMAIN s : i < j => s[j] # Removing(t)

Coming(t) == After(t, Told)

\* Is a caller past has_torrent() with t?  With its .magnet file written?
Pushing(t) == \E c \in Caller : caller[c] = At("push", t)
Remembering(t) == Pushing(t) \/ \E c \in Caller : caller[c] = At("remember", t)

-----------------------------------------------------------------------------
(* The callers                                                             *)

\* The interface and its servers come after start()
Order == running /\ links = <<>> /\ orders < MaxOrders /\ orders' = orders + 1

\* The half of has_torrent() that reads the queue backwards
QueueSays(t) == Latest(t, commands)

Add(c, t) ==
    /\ Order
    /\ caller[c] = Idle
    /\ LET said == QueueSays(t)
       IN caller' = [caller EXCEPT ![c] =
            IF said = {} THEN At("snapshot", t)
            ELSE IF Removing(t) \in said /\ "readd" \in allowed THEN At("remember", t)
            ELSE Idle]
    /\ crossed' = IF caller'[c].at = "remember" THEN crossed \cup {t} ELSE crossed
    /\ UNCHANGED <<running, commands, engineVars, links, magnets, allowed, wanted, unseen>>

\* The other half reads the snapshot
LookAtSnapshot(c) ==
    /\ caller[c].at = "snapshot"
    /\ caller' = [caller EXCEPT ![c] =
            IF @.torrent \in cached_status THEN Idle ELSE At("remember", @.torrent)]
    /\ crossed' = crossed \cup {t \in unseen \ cached_status : t = caller[c].torrent}
    /\ UNCHANGED <<running, commands, engineVars, links, magnets, allowed, orders, wanted, unseen>>

\* Mutant of RememberMagnet: only the command remembers the torrent
RememberNothing(c) ==
    /\ caller[c].at = "remember"
    /\ caller' = [caller EXCEPT ![c].at = "push"]
    /\ wanted' = wanted \cup {caller[c].torrent}
    /\ UNCHANGED <<running, commands, engineVars, links, magnets, allowed, orders, unseen, crossed>>

RememberMagnet(c) ==
    /\ caller[c].at = "remember"
    /\ caller' = [caller EXCEPT ![c].at = "push"]
    /\ magnets' = magnets \cup {caller[c].torrent}
    /\ wanted' = wanted \cup {caller[c].torrent}
    /\ UNCHANGED <<running, commands, engineVars, links, allowed, orders, unseen, crossed>>

PushAdd(c) ==
    /\ caller[c].at = "push"
    /\ LET t == caller[c].torrent
       IN /\ commands' = Append(commands, Adding(t))
          /\ wanted' = wanted \cup {t}
    /\ caller' = [caller EXCEPT ![c] = Idle]
    /\ UNCHANGED <<running, engineVars, links, magnets, allowed, orders, unseen, crossed>>

\* The remote page removes what has_torrent() knows, a torrent whose add is still queued
\* included; the interface what its list shows, whatever the queue says.
RemoveTorrent(c, t) ==
    /\ Order
    /\ caller[c] = Idle
    /\ \/ caller' = [caller EXCEPT ![c] = At("glance", t)]
       \/ Adding(t) \in QueueSays(t) /\ caller' = [caller EXCEPT ![c] = At("drop", t)]
    /\ UNCHANGED <<running, commands, engineVars, links, magnets, allowed, wanted, unseen, crossed>>

LookForRemoval(c) ==
    /\ caller[c].at = "glance"
    /\ caller' = [caller EXCEPT ![c] =
            IF @.torrent \in cached_status THEN At("drop", @.torrent) ELSE Idle]
    /\ UNCHANGED <<running, commands, engineVars, links, magnets, history>>

PushRemove(c) ==
    /\ caller[c].at = "drop"
    /\ LET t == caller[c].torrent
       IN /\ commands' = Append(commands, Removing(t))
          /\ wanted' = wanted \ {t}
          /\ unseen' = IF t \in cached_status THEN unseen ELSE unseen \cup {t}
          /\ crossed' = IF Remembering(t) THEN crossed \cup {t} ELSE crossed
    /\ caller' = [caller EXCEPT ![c] = Idle]
    /\ UNCHANGED <<running, engineVars, links, magnets, allowed, orders>>

-----------------------------------------------------------------------------
(* The engine                                                              *)

\* process_commands() takes the whole queue ...
TakeBatch ==
    /\ running /\ batch = <<>> /\ commands # <<>>
    /\ batch' = commands
    /\ commands' = <<>>
    /\ UNCHANGED <<running, torrents, cached_status, magnets, links, caller, history>>

\* Mutant of Handled: a torrent already there makes the engine drop it
HandledAsToggle(cmd) ==
    /\ torrents' = IF cmd.type = "add" /\ cmd.torrent \notin torrents
                   THEN torrents \cup {cmd.torrent} ELSE torrents \ {cmd.torrent}
    /\ UNCHANGED magnets

\* The removal of a torrent that is there takes its .magnet file with it
Handled(cmd) ==
    IF cmd.type = "add" THEN torrents' = torrents \cup {cmd.torrent} /\ UNCHANGED magnets
    ELSE /\ torrents' = torrents \ {cmd.torrent}
         /\ magnets' = IF cmd.torrent \in torrents THEN magnets \ {cmd.torrent} ELSE magnets

\* ... and handles its commands one after the other
HandleCommand ==
    /\ running /\ batch # <<>>
    /\ Handled(Head(batch))
    /\ batch' = Tail(batch)
    /\ unseen' = {t \in unseen : Holds(Removing(t), Tail(batch) \o commands)}
    /\ UNCHANGED <<running, commands, cached_status, links, caller, allowed, orders, wanted, crossed>>

\* Mutant of Published: the snapshot grows and never shrinks
PublishedAdds == cached_status \cup torrents

Published == torrents

PublishStatus ==
    /\ running /\ batch = <<>> /\ cached_status # torrents
    /\ cached_status' = Published
    /\ UNCHANGED <<running, commands, batch, torrents, magnets, links, caller, history>>

-----------------------------------------------------------------------------
(* End and start of the program                                            *)

\* stop(): the engine ends between two turns, what is still queued is not handled
Stop ==
    /\ "stop" \in allowed /\ running
    /\ links = <<>> /\ batch = <<>> /\ \A c \in Caller : caller[c] = Idle
    /\ running' = FALSE
    /\ commands' = <<>>
    /\ torrents' = {} /\ cached_status' = {} /\ unseen' = {} /\ UNCHANGED batch
    /\ UNCHANGED <<magnets, links, caller, allowed, orders, wanted, crossed>>

\* The program ends anywhere
Crash ==
    /\ "crash" \in allowed /\ running
    /\ running' = FALSE
    /\ commands' = <<>> /\ batch' = <<>> /\ links' = <<>>
    /\ torrents' = {} /\ cached_status' = {} /\ unseen' = {}
    /\ caller' = [c \in Caller |-> Idle]
    /\ UNCHANGED <<magnets, allowed, orders, wanted, crossed>>

\* start(), and restore_torrents() up to its loop: the .magnet files are read, in the
\* order of the directory
Start ==
    /\ ~running
    /\ running' = TRUE
    /\ \E f \in [1 .. Cardinality(magnets) -> magnets] :
         /\ \A i, j \in DOMAIN f : f[i] = f[j] => i = j
         /\ \A t \in magnets : \E i \in DOMAIN f : f[i] = t
         /\ links' = f
    /\ UNCHANGED <<commands, engineVars, magnets, caller, history>>

\* add_magnet() of the next link, beside the engine: its file is opened for writing,
\* which empties it ...
RestoreOpens ==
    /\ links # <<>> /\ Head(links) \in magnets
    /\ magnets' = magnets \ {Head(links)}
    /\ UNCHANGED <<running, commands, engineVars, links, caller, history>>

\* ... written again, and the command queued
RestoreAdds ==
    /\ links # <<>> /\ Head(links) \notin magnets
    /\ magnets' = magnets \cup {Head(links)}
    /\ commands' = Append(commands, Adding(Head(links)))
    /\ links' = Tail(links)
    /\ UNCHANGED <<running, engineVars, caller, history>>

-----------------------------------------------------------------------------

Engine == TakeBatch \/ HandleCommand \/ PublishStatus
Calls(c) ==
    \/ LookAtSnapshot(c) \/ RememberMagnet(c) \/ PushAdd(c)
    \/ LookForRemoval(c) \/ PushRemove(c)

Next ==
    \/ \E c \in Caller, t \in Torrent : Add(c, t) \/ RemoveTorrent(c, t)
    \/ \E c \in Caller : Calls(c)
    \/ Engine
    \/ Stop \/ Crash \/ Start \/ RestoreOpens \/ RestoreAdds

Spec == Init /\ [][Next]_vars

FairSpec == Spec /\ WF_vars(Engine) /\ \A c \in Caller : WF_vars(Calls(c))

-----------------------------------------------------------------------------
(* Properties                                                              *)

TypeOK ==
    /\ running \in BOOLEAN
    /\ commands \in Seq(Command) /\ batch \in Seq(Command) /\ links \in Seq(Torrent)
    /\ torrents \cup cached_status \cup magnets \cup wanted \cup unseen \cup crossed \subseteq Torrent
    /\ caller \in [Caller -> {Idle} \cup {At(p, t) : p \in Place, t \in Torrent}]
    /\ allowed \in Circumstances

\* No order is on its way
Settled == running /\ links = <<>> /\ commands = <<>> /\ batch = <<>> /\ \A c \in Caller : caller[c] = Idle

\* The latest order about a torrent is the one obeyed, whichever thread gave it and
\* whatever the others did in between, as long as the program goes on.
LatestOrderWins == Settled /\ allowed \subseteq {"readd"} => torrents = wanted

\* "each magnet link is kept": a torrent the session has comes back at the next start.
MagnetKept == Settled => torrents \subseteq magnets

\* ... and one it does not have does not.
NoStrayMagnet == Settled => magnets \subseteq torrents

\* "Conservé tout de suite": at whatever moment the program ends, a torrent the
\* engine has and no one is removing has the link that brings it back, even when it was
\* removed while its first add was queued, unless an add and a removal of it have crossed.
AcceptedSurvives ==
    \A t \in (torrents \cap wanted) \ crossed :
        t \in magnets \/ \E i \in DOMAIN Told : Told[i].torrent = t

\* What callers see is what the engine has, in the end.
SnapshotCatchesUp ==
    \A t \in Torrent : (t \in cached_status /\ t \notin torrents)
                          ~> (t \notin cached_status \/ t \in torrents)

\* Nothing is under way in a program that has ended, and start() brings torrents back
\* before anyone gives orders, each of them once.
StartsAlone ==
    /\ ~running => Told = <<>> /\ torrents = {} /\ cached_status = {} /\ links = <<>>
    /\ ~running \/ links # <<>> => \A c \in Caller : caller[c] = Idle
    /\ allowed \subseteq {"readd"} => running /\ links = <<>>
    /\ \A i, j \in DOMAIN links : links[i] = links[j] => i = j
    /\ \A i \in DOMAIN links : /\ links[i] \notin torrents \cup cached_status
                               /\ \A j \in DOMAIN Told : Told[j].torrent # links[i]

\* What is coming was wanted, and what is wanted comes, as long as the program goes on.
OrdersArrive ==
    allowed \subseteq {"readd"} =>
        \A t \in Torrent : /\ Coming(t) => t \in wanted
                           /\ t \in wanted => Coming(t) \/ Pushing(t)

\* A .magnet file stands for a torrent that is there or on its way.
MagnetsLeadBack ==
    running => \A t \in magnets :
        t \in torrents \/ Pushing(t) \/ Holds(Adding(t), Told) \/ Holds(t, links)

\* The i-th command told is a removal that will find t there, and take its .magnet file
Takes(t, i) ==
    /\ Told[i] = Removing(t)
    /\ t \in torrents \/ \E j \in DOMAIN Told : j < i /\ Told[j] = Adding(t)

Doomed(t) == \E i \in DOMAIN Told : Takes(t, i)

\* Unless an add and a removal of t have crossed: no file will be taken of a torrent that
\* callers are about to add, or that they do not see, but for a removal that came that soon;
\* none has been of one that stays or comes, and no add follows the removal that takes the file.
NotTakenBack(t) ==
    /\ Remembering(t) \/ t \notin cached_status \cup unseen => ~Doomed(t)
    /\ \A i, j \in DOMAIN Told : Takes(t, i) /\ i < j => Told[j] # Adding(t)
    /\ (t \in torrents \/ Pushing(t) \/ Holds(Adding(t), Told)) /\ ~Doomed(t) => t \in magnets

\* ... because what callers see of it is what the batch in hand will leave.
SeenInTime(t) ==
    /\ ThenHolds(Adding(t), Removing(t), commands) => After(t, batch) \/ t \in unseen
    /\ t \in cached_status /\ (Remembering(t) \/ Holds(Adding(t), commands)) => After(t, batch)

\* What is there once every order was handled: the torrents that the latest orders asked
\* for, and no link to a torrent that is not there.
CommandsInvariant ==
    /\ TypeOK /\ LatestOrderWins /\ NoStrayMagnet
    /\ StartsAlone /\ OrdersArrive /\ MagnetsLeadBack
    /\ \A t \in Torrent \ crossed : NotTakenBack(t) /\ SeenInTime(t)

-----------------------------------------------------------------------------
(* What the comments and the documentation say, and the code does not keep *)
(* (README.md says how to see each of them fail)                           *)

\* "il répondait quand même « ajouté »": an add is not accepted for a torrent that
\* is there, or about to be.
AddedIsNew ==
    [][\A c \in Caller : caller[c].at = "push" /\ commands' # <<>> /\ caller'[c] = Idle
            => ~Coming(caller[c].torrent)]_vars

\* "sinon il reviendrait tout seul au prochain démarrage": a torrent that was removed
\* is not brought back.
RemovedStaysAway == [][~running /\ running' => magnets \subseteq wanted]_vars

\* "each magnet link is kept": at whatever moment the program ends, a torrent that was
\* added, and not removed since, has the link that brings it back.
LinkOutlivesTheProgram == ~running => wanted \ crossed \subseteq magnets

=============================================================================
