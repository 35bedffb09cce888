---------------------------- MODULE SessionQueue ----------------------------
(***************************************************************************)
(* Which torrents run: the state of every bt::Torrent, its two brakes (the *)
(* user's and the queue's) and Session::update_queue(), turn after turn of *)
(* engine_loop().                                                          *)
(*                                                                         *)
(* A turn handles the commands, balances the queue, runs the checks that   *)
(* are due, ticks the torrents and polls their peers.  It is one thread:   *)
(* `phase` says where it is.  Only set_max_active() comes from elsewhere.  *)
(***************************************************************************)
EXTENDS Integers, FiniteSets, SequencesExt

CONSTANTS
    Torrent,        \* the torrents the user may add
    Limits,         \* the values of max_active, 0 for no limit
    MaxCommands     \* bound: commands of the user in a behaviour

ASSUME QueueAssumption ==
    /\ IsFiniteSet(Torrent)
    /\ Limits \subseteq Nat /\ Limits # {}
    /\ MaxCommands \in Nat

VARIABLES
    order,          \* torrents_: the torrents present, oldest first
    state,          \* state_
    user_paused,    \* the torrents with user_paused_
    queued,         \* the torrents with queued_
    meta_complete,  \* the torrents with meta_complete_
    checked,        \* the torrents with checked_
    complete,       \* the torrents whose picker is complete
    connected,      \* the torrents with peers
    max_active,     \* max_active_
    phase,          \* where engine_loop() is: "commands", "checks", "ticks"
    commands,       \* bound: commands given so far
    revived,        \* history: failed torrents whose last piece came all the same, since
                    \* when apply_gate() has not been called for them
    stirred         \* history: what gave a slot to a torrent since the last
                    \* update_queue(): the "user", a "check"

data == <<meta_complete, checked, complete>>
brakes == <<user_paused, queued>>
vars == <<order, state, brakes, data, connected, max_active, phase, commands, revived,
          stirred>>

State == {"Absent", "Checking", "FetchingMetadata", "Downloading", "Seeding",
          "Paused", "Queued", "Failed"}

Init ==
    /\ order = <<>>
    /\ state = [t \in Torrent |-> "Absent"]
    /\ user_paused = {} /\ queued = {}
    /\ meta_complete = {} /\ checked = {} /\ complete = {}
    /\ connected = {}
    /\ max_active \in Limits
    /\ phase = "commands" /\ commands = 0
    /\ revived = {} /\ stirred = {}

Present == {t \in Torrent : state[t] # "Absent"}

\* holds_slot()
HoldsSlot(s) == s \in {"Downloading", "FetchingMetadata"}
Active == {t \in Torrent : HoldsSlot(state[t])}

\* The state of a torrent that no brake holds
Released(t) ==
    IF t \notin meta_complete THEN "FetchingMetadata"
    ELSE IF t \notin checked THEN "Checking"
    ELSE IF t \in complete THEN "Seeding" ELSE "Downloading"

\* Mutant of Gate: resuming a waiting torrent starts it
GateResumes(t, s, paused, wait) ==
    IF s = "Failed" THEN s
    ELSE IF paused THEN "Paused"
    ELSE IF s = "Checking" THEN s
    ELSE IF s \in {"Paused", "Queued"} THEN Released(t)
    ELSE IF wait THEN "Queued" ELSE s

\* apply_gate() on the state s, with these two brakes
Gate(t, s, paused, wait) ==
    IF s = "Failed" THEN s
    ELSE IF paused THEN "Paused"
    ELSE IF s = "Checking" THEN s
    ELSE IF wait THEN "Queued"
    ELSE IF s \in {"Paused", "Queued"} THEN Released(t) ELSE s

\* drop_all_peers() of the torrents that a brake has just stopped
DropStopped ==
    connected' = {t \in connected : state'[t] \notin {"Paused", "Queued"} \/ state'[t] = state[t]}

-----------------------------------------------------------------------------
(* process_commands()                                                      *)

Command == phase = "commands" /\ commands < MaxCommands /\ commands' = commands + 1

\* A magnet has no metadata yet; a .torrent file has, unless its storage is refused
Add(t) ==
    /\ Command
    /\ state[t] = "Absent"
    /\ order' = Append(order, t)
    /\ \/ state' = [state EXCEPT ![t] = "FetchingMetadata"] /\ UNCHANGED meta_complete
       \/ \E s \in {"Checking", "Failed"} :
            state' = [state EXCEPT ![t] = s] /\ meta_complete' = meta_complete \cup {t}
    /\ stirred' = stirred \cup {"user"}
    /\ UNCHANGED <<brakes, checked, complete, connected, max_active, phase, revived>>

SetPaused(t, paused) ==
    /\ Command
    /\ t \in Present
    /\ user_paused' = IF paused THEN user_paused \cup {t} ELSE user_paused \ {t}
    /\ state' = [state EXCEPT ![t] = Gate(t, @, paused, t \in queued)]
    /\ DropStopped
    /\ revived' = revived \ {t}
    /\ stirred' = IF paused THEN stirred ELSE stirred \cup {"user"}
    /\ UNCHANGED <<order, queued, data, max_active, phase>>

RemoveTorrent(t) ==
    /\ Command
    /\ t \in Present
    /\ \E i \in DOMAIN order : order[i] = t /\ order' = RemoveAt(order, i)
    /\ state' = [state EXCEPT ![t] = "Absent"]
    /\ user_paused' = user_paused \ {t} /\ queued' = queued \ {t}
    /\ meta_complete' = meta_complete \ {t} /\ checked' = checked \ {t}
    /\ complete' = complete \ {t} /\ connected' = connected \ {t}
    /\ revived' = revived \ {t}
    /\ UNCHANGED <<max_active, phase, stirred>>

\* From the interface's thread, at any moment
SetMaxActive(n) ==
    /\ commands < MaxCommands /\ commands' = commands + 1
    /\ n # max_active
    /\ max_active' = n
    /\ stirred' = stirred \cup {"user"}
    /\ UNCHANGED <<order, state, brakes, data, connected, phase, revived>>

-----------------------------------------------------------------------------
(* update_queue()                                                          *)

Before(t, u) == \E i, j \in DOMAIN order : i < j /\ order[i] = t /\ order[j] = u
Waiting == {t \in Torrent : state[t] = "Queued" /\ t \notin user_paused}
NowActive == Cardinality(Active)

\* Mutant of Promoted: one torrent too many
PromotedOneMore(limit) ==
    {t \in Waiting : NowActive + Cardinality({u \in Waiting : /\ Before(u, t)
                                                              /\ HoldsSlot(Released(u))}) <= limit}
\* Mutant of Promoted: once over the limit, nobody is served any more
PromotedNever(limit) == {}

\* Waiting torrents are released in order while a slot is free
Promoted(limit) ==
    {t \in Waiting : NowActive + Cardinality({u \in Waiting : /\ Before(u, t)
                                                              /\ HoldsSlot(Released(u))}) < limit}

\* The latest torrents are put back in the queue while the limit is exceeded
Demoted(limit) ==
    {t \in Active : Cardinality({u \in Active : Before(t, u)}) < NowActive - limit}

UpdateQueue ==
    /\ phase = "commands"
    /\ phase' = "checks"
    /\ LET up == IF max_active = 0 THEN {t \in Torrent : state[t] = "Queued"} ELSE Promoted(max_active)
           down == IF max_active = 0 THEN {} ELSE Demoted(max_active)
       IN /\ queued' = (queued \ up) \cup down
          /\ state' = [t \in Torrent |->
                        IF t \in up \cup down THEN Gate(t, state[t], t \in user_paused, t \in down)
                        ELSE state[t]]
    /\ DropStopped
    /\ stirred' = {}
    /\ UNCHANGED <<order, user_paused, data, max_active, commands, revived>>

-----------------------------------------------------------------------------
(* The rest of the turn                                                    *)

\* run_check() of every torrent to be checked; D are those found complete
RunChecks(D) ==
    LET due == {t \in Torrent : state[t] = "Checking"}
    IN /\ phase = "checks"
       /\ D \subseteq due
       /\ phase' = "ticks"
       /\ checked' = checked \cup due
       /\ complete' = complete \cup D
       /\ state' = [t \in Torrent |->
                     IF t \in due
                     THEN Gate(t, IF t \in complete \cup D THEN "Seeding" ELSE "Downloading",
                               t \in user_paused, t \in queued)
                     ELSE state[t]]
       /\ DropStopped
       /\ stirred' = IF due \ D = {} THEN stirred ELSE stirred \cup {"check"}
       /\ UNCHANGED <<order, brakes, meta_complete, max_active, commands, revived>>

\* connect_more(), in the tick of a torrent that is not stopped
Connect(t) ==
    /\ phase = "ticks"
    /\ state[t] \in {"FetchingMetadata", "Downloading", "Seeding"} /\ t \notin connected
    /\ connected' = connected \cup {t}
    /\ UNCHANGED <<order, state, brakes, data, max_active, phase, commands, revived, stirred>>

\* finish_metadata(), when the last piece of metadata is polled
FinishMetadata(t) ==
    /\ phase = "ticks"
    /\ state[t] = "FetchingMetadata" /\ t \in connected
    /\ meta_complete' = meta_complete \cup {t}
    /\ checked' = checked \ {t}
    /\ \/ state' = [state EXCEPT ![t] = "Failed"]
       \/ state' = [state EXCEPT ![t] = Gate(t, "Checking", t \in user_paused, t \in queued)]
    /\ DropStopped
    /\ UNCHANGED <<order, brakes, complete, max_active, phase, commands, revived, stirred>>

\* The last piece may be completed: by a block or a verdict when the torrent downloads, by
\* a block when it failed, since on_peer_block() turns away only what is paused or waits
MayFinish(t) ==
    /\ t \in checked \ complete
    /\ \/ state[t] = "Downloading"
       \/ state[t] = "Failed" /\ t \in connected

\* finish_piece() of the last piece
LastPiece(t) ==
    /\ phase = "ticks"
    /\ MayFinish(t)
    /\ complete' = complete \cup {t}
    /\ state' = [state EXCEPT ![t] = "Seeding"]
    /\ revived' = IF state[t] = "Failed" THEN revived \cup {t} ELSE revived
    /\ UNCHANGED <<order, brakes, meta_complete, checked, connected, max_active, phase,
                   commands, stirred>>

\* The card refuses a write: of a block, unasked for in the poll that brought the metadata
\* or once complete, or of a piece, the last one perhaps
WriteError(t) ==
    /\ phase = "ticks"
    /\ t \in meta_complete /\ state[t] \in {"Checking", "Downloading", "Seeding", "Failed"}
    /\ state' = [state EXCEPT ![t] = "Failed"]
    /\ \/ UNCHANGED complete
       \/ MayFinish(t) /\ complete' = complete \cup {t}
    /\ UNCHANGED <<order, brakes, meta_complete, checked, connected, max_active, phase, commands,
                   revived, stirred>>

EndTurn ==
    /\ phase = "ticks" /\ phase' = "commands"
    /\ UNCHANGED <<order, state, brakes, data, connected, max_active, commands, revived, stirred>>

-----------------------------------------------------------------------------

Next ==
    \/ \E t \in Torrent : Add(t) \/ RemoveTorrent(t)
    \/ \E t \in Torrent, paused \in BOOLEAN : SetPaused(t, paused)
    \/ \E n \in Limits : SetMaxActive(n)
    \/ UpdateQueue
    \/ \E D \in SUBSET Torrent : RunChecks(D)
    \/ \E t \in Torrent : Connect(t) \/ FinishMetadata(t) \/ LastPiece(t) \/ WriteError(t)
    \/ EndTurn

Spec == Init /\ [][Next]_vars

\* The engine's loop goes on; the swarm, though not in every turn, ends up giving
\* what a running torrent asks for.  Of one that failed nothing is expected.
Turn == UpdateQueue \/ EndTurn \/ \E D \in SUBSET Torrent : RunChecks(D)
FairSpec ==
    /\ Spec
    /\ WF_vars(Turn)
    /\ \A t \in Torrent :
          /\ SF_vars(Connect(t))
          /\ SF_vars(\/ FinishMetadata(t)
                     \/ state[t] = "Downloading" /\ t \in connected /\ LastPiece(t))

-----------------------------------------------------------------------------
(* Properties                                                              *)

TypeOK ==
    /\ order \in Seq(Torrent) /\ IsInjective(order) /\ ToSet(order) = Present
    /\ state \in [Torrent -> State]
    /\ user_paused \cup queued \cup meta_complete \cup connected \cup revived \subseteq Present
    /\ complete \subseteq checked /\ checked \subseteq meta_complete
    /\ max_active \in Limits
    /\ phase \in {"commands", "checks", "ticks"}

\* The state agrees with the two brakes, wherever each came from and in which
\* order: only a failed torrent ignores the user's, and goes on ignoring it when its last
\* piece comes and it seeds, until the user speaks again; and the queue's holds exactly
\* the torrents that are Queued, or paused on top of it.
BrakesHold ==
    \A t \in Present :
        /\ state[t] = "Paused" => t \in user_paused
        /\ state[t] = "Queued" => t \in queued \ user_paused
        /\ t \in user_paused =>
              state[t] \in {"Paused", "Failed"} \/ (t \in revived /\ state[t] = "Seeding")
        /\ t \in queued => state[t] \in {"Queued", "Paused"}

\* What a running torrent does is what it lacks: metadata, its check, or pieces.
ShowsWhatItHas ==
    \A t \in Present :
        /\ state[t] = "FetchingMetadata" => t \notin meta_complete
        /\ state[t] = "Checking" => t \in meta_complete \ checked
        /\ state[t] = "Downloading" => t \in checked \ complete
        /\ state[t] = "Seeding" => t \in complete

\* Nothing enters or leaves through the peers of a stopped torrent.
StoppedIsQuiet == \A t \in connected : state[t] \notin {"Paused", "Queued"}

\* When the queue has been balanced the limit holds, and goes on holding until something
\* gives a torrent a slot.
LimitUntilStirred == stirred = {} /\ max_active > 0 => NowActive <= max_active

\* ... and no slot is left free while a torrent waits for one.
NoIdleSlot == phase = "checks" /\ stirred = {} /\ Waiting # {} => NowActive >= max_active /\ max_active > 0

\* A running torrent is put back in the queue only after something else changed:
\* a torrent added, resumed or checked, or another limit.
StableUnlessStirred ==
    [][\A t \in Active : state'[t] = "Queued" => stirred # {}]_vars

\* The torrent put back is never older than one that goes on running.
LatestGoesBack ==
    [][\A t, u \in Active : state'[t] = "Queued" /\ HoldsSlot(state'[u]) => Before(u, t)]_vars

\* A torrent that waits is served in the end, whatever the user did before: the
\* queue neither forgets it nor lets two torrents take each other's place for ever.
WaitingIsServed == \A t \in Torrent : (state[t] = "Queued") ~> (state[t] # "Queued")

\* The states of all torrents together: the brakes, what each shows of its data, the peers
\* of those stopped, and the limit once the queue was balanced, neither passed nor left
\* unused.
QueueInvariant ==
    TypeOK /\ BrakesHold /\ ShowsWhatItHas /\ StoppedIsQuiet /\ LimitUntilStirred /\ NoIdleSlot

\* The queue is steady: it puts a torrent back for a reason, and the youngest first.
QueueIsSteady == StableUnlessStirred /\ LatestGoesBack

-----------------------------------------------------------------------------
(* What the comments and the documentation say, and the code does not keep *)
(* (README.md says how to see each of them fail)                           *)

\* "Fait tenir le nombre de téléchargements simultanés dans la limite réglée": no
\* more torrents than the limit are ticked.
LimitWhenTicked == phase = "ticks" /\ max_active > 0 => NowActive <= max_active

\* "un torrent ne change pas de camp d'un tour à l'autre": a running
\* torrent is not put back when the user asked for nothing.
NoBackAndForth ==
    [][\A t \in Active : state'[t] = "Queued" => "user" \in stirred]_vars

\* "deux freins — l'utilisateur et la file": a torrent the user paused does nothing.  One
\* that failed, was paused, and gets its last piece all the same, seeds.
PausedIsStill == \A t \in user_paused : state[t] \in {"Paused", "Failed"}

\* "le premier arrivé est le premier servi, et il le reste": once balanced, no
\* torrent runs while an older one waits.
FirstComeFirstServed ==
    phase = "checks" => \A t \in Waiting, u \in Active : ~Before(t, u)

=============================================================================
