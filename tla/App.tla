--------------------------------- MODULE App ---------------------------------
(***************************************************************************)
(* ui::App: the main thread, frame after frame, with what it drives: the   *)
(* menu of a torrent over a list that others change, the threads of the    *)
(* extraction, of the search and of the self test, the two local servers,  *)
(* and the shutdown that ends them all.                                    *)
(*                                                                         *)
(* Moving to a tab changes nothing that is kept here, so each order of a   *)
(* tab is taken when no panel is open.  A drawing follows each input.      *)
(***************************************************************************)
EXTENDS Servers, FiniteSets, SequencesExt

CONSTANTS
    Hash,           \* torrents
    None,
    State,          \* of the states of a torrent: "checking", "done" with an archive, others
    MaxTasks,       \* bound: entries of an archive, sources of a search, tests
    Uses            \* what the user makes use of, of "menu", "phone", "remote" and the workers

ASSUME AppAssumption ==
    /\ IsFiniteSet(Hash) /\ Hash # {} /\ None \notin Hash
    /\ MaxTasks \in Nat

Worker == {"extract", "search", "diag"}
Order == {"none", "skip", "toggle", "remove", "delete"}

VARIABLES
    list,           \* what snapshot() would give: [hash, state] in order
    shown,          \* torrents_
    selection, overlay,
    held,           \* overlay_hash_
    offered,        \* actions_
    deep,           \* the file panel is below its root
    panel,          \* history: the torrent that the open panel named when it was last drawn
    order,          \* history: what this frame asked of the session: [what, hash]
    gate,           \* panels of the first start still to pass
    flag,           \* extract_.running, searching_, diag_running_
    work,           \* where each thread is
    tasks,          \* what it still has to do
    cancel,         \* extract_.cancel
    enabled,        \* settings_.remote_enabled
    awake,          \* sleep_disabled_
    at,             \* where the main thread is in its frame
    todo,           \* the blocking calls that it has to make first
    alive,          \* the session is started
    uses            \* of Uses

menuVars == <<shown, selection, overlay, held, offered, deep, panel, order>>
workVars == <<flag, work, tasks, cancel>>
mainVars == <<enabled, awake, at, todo, alive>>
vars == <<list, gate, uses, menuVars, workVars, mainVars, serverVars, phoneVars>>

NoOrder == [what |-> "none", hash |-> None]
Has(l, h) == \E i \in DOMAIN l : l[i].hash = h
StateOf(l, h) == l[CHOOSE i \in DOMAIN l : l[i].hash = h].state

\* The settings read at the start may have the remote control on
Init ==
    /\ ServersInit
    /\ uses \in Uses
    /\ list = <<>> /\ shown = <<>> /\ selection = 1 /\ overlay = "none" /\ held = None
    /\ offered = {} /\ deep = FALSE /\ panel = None /\ order = NoOrder
    /\ gate \in {{}, {"welcome"}, {"language", "welcome"}}
    /\ flag = [w \in Worker |-> FALSE] /\ work = [w \in Worker |-> "none"]
    /\ tasks = [w \in Worker |-> 0] /\ cancel = FALSE
    /\ enabled = FALSE /\ awake = FALSE /\ at = "frame" /\ todo = <<>> /\ alive = TRUE

-----------------------------------------------------------------------------
(* The list, as the engine and those who call the session change it; for   *)
(* an extraction without the menu, one torrent is enough                   *)

ListChanges ==
    /\ alive /\ ("menu" \in uses \/ ("extract" \in uses /\ list = <<>>))
    /\ \/ \E h \in Hash, s \in State :
             ~ Has(list, h) /\ list' = Append(list, [hash |-> h, state |-> s])
       \/ \E i \in DOMAIN list, s \in State : list' = [list EXCEPT ![i].state = s]
       \/ \E i \in DOMAIN list : list' = RemoveAt(list, i)
    /\ UNCHANGED <<gate, uses, menuVars, workVars, mainVars, serverVars, phoneVars>>

-----------------------------------------------------------------------------
(* The menu                                                                *)

\* Mutant of Focus: the torrent under the cursor, whatever the panel is about
FocusSelected(l, sel) == IF sel \in DOMAIN l THEN l[sel].hash ELSE None

\* focused(): the torrent of the panel, if it is still there, or the one under the cursor
Focus(l, sel) ==
    IF held # None THEN IF Has(l, held) THEN held ELSE None
    ELSE IF sel \in DOMAIN l THEN l[sel].hash ELSE None

Clamped(sel) == IF sel > Len(shown) THEN IF shown = <<>> THEN 1 ELSE Len(shown) ELSE sel
Opens(o) == overlay' = o /\ UNCHANGED held
Closes == overlay' = "none" /\ held' = None

\* An input is handled, then drawn
Handled == at = "input" /\ at' = "frame" /\ UNCHANGED <<list, uses, shown, panel>>
Panel(o) == Handled /\ gate = {} /\ overlay = o
NoPanel == Panel("none")
Rest == UNCHANGED <<gate, enabled, awake, todo, alive, workVars, serverVars, phoneVars>>
SameMenu == UNCHANGED <<selection, overlay, held, offered, deep, order>>

Nothing == Handled /\ SameMenu /\ Rest

PassGate ==
    /\ Handled /\ gate # {}
    /\ gate' = IF "language" \in gate THEN {"welcome"} ELSE {}
    /\ SameMenu /\ UNCHANGED <<enabled, awake, todo, alive, workVars, serverVars, phoneVars>>

\* The cursor of the list: round, then within the list
MoveCursor ==
    /\ NoPanel
    /\ \E step_ \in {1, Len(shown) - 1} :
          selection' = IF shown = <<>> THEN 1 ELSE Clamped(((selection - 1 + step_) % Len(shown)) + 1)
    /\ UNCHANGED <<overlay, held, offered, deep, order>> /\ Rest

\* open_actions(): what makes sense at this moment
Offers(state) ==
    {"open", "info", "toggle", "remove", "delete"}
        \cup (IF state = "checking" THEN {"skip"} ELSE {})
        \cup (IF state = "done" THEN {"extract"} ELSE {})

OpenActions ==
    /\ NoPanel
    /\ selection' = Clamped(selection)
    /\ LET f == Focus(shown, Clamped(selection))
       IN  IF f = None THEN UNCHANGED <<overlay, held, offered>>
           ELSE overlay' = "actions" /\ held' = f /\ offered' = Offers(StateOf(shown, f))
    /\ UNCHANGED <<deep, order>> /\ Rest

-----------------------------------------------------------------------------
(* The threads of the main thread's work                                   *)

\* Of a worker: its former thread is joined, a new one created
Launch(w, n) ==
    /\ flag' = [flag EXCEPT ![w] = TRUE] /\ work' = [work EXCEPT ![w] = "begun"]
    /\ tasks' = [tasks EXCEPT ![w] = n] /\ UNCHANGED cancel

\* run_action(): pause and resume follow the state of now, not that of the menu's opening.
\* B in the same frame closes the panel.
RunAction(choice, back) ==
    LET f == Focus(shown, selection)
        Asks == order' = [what |-> choice, hash |-> f]
    IN  /\ Panel("actions") /\ choice \in offered /\ (choice = "extract" => "extract" \in uses)
        /\ IF f = None
           THEN /\ overlay' = "none" /\ held' = IF back THEN None ELSE held
                /\ UNCHANGED <<order, workVars>>
           ELSE /\ CASE choice \in {"skip", "toggle", "remove"} -> Asks /\ Closes
                     [] back -> UNCHANGED order /\ Closes
                     [] choice = "extract" /\ flag["extract"] -> UNCHANGED <<order, overlay, held>>
                     [] choice = "delete" -> UNCHANGED order /\ Opens("confirm")
                     [] choice = "open" -> UNCHANGED order /\ Opens("files")
                     [] OTHER -> UNCHANGED order /\ Opens(choice)
                /\ IF choice = "extract" /\ ~ flag["extract"]
                   THEN \E n \in 0 .. MaxTasks : Launch("extract", n)
                   ELSE UNCHANGED workVars
        /\ deep' = FALSE
        /\ UNCHANGED <<selection, offered, gate, enabled, awake, todo, alive, serverVars, phoneVars>>

CloseActions == Panel("actions") /\ Closes /\ UNCHANGED <<selection, offered, deep, order>> /\ Rest

\* The question before files are erased; B goes back to the menu, with A or without
AnswerConfirm(yes, back) ==
    LET f == Focus(shown, selection)
    IN  /\ Panel("confirm") /\ (yes \/ back)
        /\ order' = IF yes /\ f # None THEN [what |-> "delete", hash |-> f] ELSE order
        /\ held' = IF yes THEN None ELSE held
        /\ overlay' = IF back THEN "actions" ELSE "none"
        /\ UNCHANGED <<selection, offered, deep>> /\ Rest

\* Those that any button closes; the extraction goes on
ClosePanel ==
    /\ \E o \in {"info", "extract"} : Panel(o)
    /\ Closes
    /\ UNCHANGED <<selection, offered, deep, order>> /\ Rest

\* The files of a torrent, or, from the list, those of no torrent
BrowseOrphans == NoPanel /\ Opens("files") /\ deep' = FALSE /\ UNCHANGED <<selection, offered, order>> /\ Rest
EnterDir == Panel("files") /\ deep' = TRUE /\ UNCHANGED <<selection, overlay, held, offered, order>> /\ Rest
LeaveDir ==
    /\ Panel("files")
    /\ deep' = FALSE /\ IF deep THEN UNCHANGED <<overlay, held>> ELSE Closes
    /\ UNCHANGED <<selection, offered, order>> /\ Rest

\* start_search(): its panel comes back if it runs; else a question is typed and sources
\* are read, if there are any
StartSearch ==
    /\ NoPanel /\ "search" \in uses
    /\ IF flag["search"] THEN Opens("search") /\ UNCHANGED workVars
       ELSE \/ Opens("search") /\ \E n \in 0 .. MaxTasks : Launch("search", n)
            \/ /\ work' = [work EXCEPT !["search"] = "none"]
               /\ UNCHANGED <<overlay, held, flag, tasks, cancel>>
    /\ UNCHANGED <<selection, offered, deep, order, gate, enabled, awake, todo, alive, serverVars, phoneVars>>

\* The panel of the search answers once it is done; a result is added and it closes, or
\* is refused
AnswerSearch ==
    /\ Panel("search") /\ ~ flag["search"]
    /\ overlay' = "none"
    /\ UNCHANGED <<selection, held, offered, deep, order>> /\ Rest

\* run_selftest()
StartDiag ==
    /\ NoPanel /\ "diag" \in uses /\ ~ flag["diag"]
    /\ \E n \in 0 .. MaxTasks : Launch("diag", n)
    /\ SameMenu /\ UNCHANGED <<gate, enabled, awake, todo, alive, serverVars, phoneVars>>

\* The thread starts; that of the extraction clears cancel
Begins(w) ==
    /\ work[w] = "begun"
    /\ work' = [work EXCEPT ![w] = "busy"]
    /\ cancel' = (cancel /\ w # "extract")
    /\ UNCHANGED <<list, gate, uses, menuVars, mainVars, flag, tasks, serverVars, phoneVars>>

\* An entry, a source, a test; an entry that fails is the last
DoesTask(w) ==
    /\ work[w] = "busy" /\ tasks[w] > 0 /\ ~ (w = "extract" /\ cancel)
    /\ \E n \in {tasks[w] - 1} \cup (IF w = "extract" THEN {0} ELSE {}) :
          tasks' = [tasks EXCEPT ![w] = n]
    /\ UNCHANGED <<list, gate, uses, menuVars, mainVars, flag, work, cancel, serverVars, phoneVars>>

\* The results are written, then the flag lowered
Publishes(w) ==
    /\ work[w] = "busy" /\ (tasks[w] = 0 \/ (w = "extract" /\ cancel))
    /\ work' = [work EXCEPT ![w] = "written"] /\ tasks' = [tasks EXCEPT ![w] = 0]
    /\ UNCHANGED <<list, gate, uses, menuVars, mainVars, flag, cancel, serverVars, phoneVars>>

Lowers(w) ==
    /\ work[w] = "written"
    /\ work' = [work EXCEPT ![w] = "done"] /\ flag' = [flag EXCEPT ![w] = FALSE]
    /\ UNCHANGED <<list, gate, uses, menuVars, mainVars, tasks, cancel, serverVars, phoneVars>>

Works(w) == Begins(w) \/ DoesTask(w) \/ Publishes(w) \/ Lowers(w)

-----------------------------------------------------------------------------
(* The orders of the other tabs                                            *)

Elsewhere == SameMenu /\ UNCHANGED <<gate, awake, alive, workVars>>

\* The button of the phone's tab: opens, or closes
OpenPhone ==
    /\ NoPanel /\ "phone" \in uses
    /\ \E outcome \in {"refused", "unlistened", "undrawn", "joined"} :
          /\ StartPhone(outcome)
          /\ todo' = IF outcome = "undrawn" THEN <<"phone">> ELSE todo
    /\ UNCHANGED enabled /\ Elsewhere

ClosePhone ==
    /\ NoPanel /\ step \in {"joinWifi", "openPage"}
    /\ todo' = <<"phone">>
    /\ UNCHANGED <<enabled, serverVars, phoneVars>> /\ Elsewhere

SayJoined == NoPanel /\ ConfirmJoined /\ UNCHANGED <<enabled, todo>> /\ Elsewhere

\* apply_settings(): the remote control follows its setting
Applied(on) ==
    /\ enabled' = on
    /\ IF on /\ ~ running["remote"] THEN StartRemote ELSE UNCHANGED <<serverVars, phoneVars>>
    /\ todo' = IF ~ on /\ running["remote"] THEN <<"remote">> ELSE todo

\* The tab of the settings: each change of one, this or another, applies them all
ApplySettings ==
    /\ NoPanel /\ "remote" \in uses
    /\ \E on \in BOOLEAN : Applied(on)
    /\ Elsewhere

-----------------------------------------------------------------------------
(* Frames, blocking calls and the end                                      *)

\* run(): the snapshot, poll_extract(), poll_search().  What a closed menu offered is read
\* no more.
Frame ==
    /\ at = "frame" /\ todo = <<>>
    /\ at' = "input"
    /\ panel' = LET f == Focus(shown, selection)
                IN  IF held = None THEN None ELSE IF f = None THEN panel ELSE f
    /\ offered' = IF overlay = "none" THEN {} ELSE offered
    /\ shown' = list /\ order' = NoOrder
    /\ awake' = \E i \in DOMAIN list : list[i].state = "checking"
    /\ LET over == {w \in {"extract", "search"} : ~ flag[w] /\ work[w] # "none"}
       IN  /\ work' = [w \in Worker |-> IF w \in over THEN "none" ELSE work[w]]
           /\ overlay' = IF "extract" \in over /\ overlay = "extract" THEN "none" ELSE overlay
    /\ UNCHANGED <<list, gate, uses, selection, held, deep, flag, tasks, cancel,
                   enabled, todo, alive, serverVars, phoneVars>>

\* Mutant of ShutdownCalls: the session is stopped before the threads that use it
ShutdownCallsSessionFirst == <<"phone", "session", "remote", "extract", "search", "diag">>

\* shutdown(), call by call
ShutdownCalls == <<"phone", "remote", "extract", "search", "diag", "session">>

\* The + button, or the console closes the program between two frames
Quit ==
    /\ \/ at = "frame" /\ todo = <<>>
       \/ at = "input" /\ overlay = "none" /\ gate = {}
    /\ at' = "quit" /\ todo' = ShutdownCalls
    /\ UNCHANGED <<list, gate, uses, menuVars, workVars, enabled, awake, alive, serverVars, phoneVars>>

Calls(c) == todo # <<>> /\ Head(todo) = c
SameButCall == UNCHANGED <<list, gate, uses, menuVars, enabled, at>>

CallStop(s) == Calls(s) /\ AskStop(s) /\ SameButCall /\ UNCHANGED <<todo, awake, alive, workVars>>
CallStopped(s) == Calls(s) /\ Stopped(s) /\ todo' = Tail(todo) /\ SameButCall /\ UNCHANGED <<awake, alive, workVars>>

\* An extraction under way is cancelled, then joined
CancelExtract ==
    /\ Calls("extract") /\ work["extract"] # "none"
    /\ cancel' = TRUE /\ todo' = <<"cancelled">> \o Tail(todo)
    /\ SameButCall /\ UNCHANGED <<awake, alive, flag, work, tasks, serverVars, phoneVars>>

\* The joins of the workers
Join(w) ==
    /\ \/ Calls(w) /\ (w = "extract" => work[w] = "none")
       \/ Calls("cancelled") /\ w = "extract"
    /\ work[w] \in {"none", "done"}
    /\ work' = [work EXCEPT ![w] = "none"] /\ todo' = Tail(todo)
    /\ SameButCall /\ UNCHANGED <<awake, alive, flag, tasks, cancel, serverVars, phoneVars>>

StopSession ==
    /\ Calls("session")
    /\ awake' = FALSE /\ alive' = FALSE /\ todo' = Tail(todo)
    /\ SameButCall /\ UNCHANGED <<workVars, serverVars, phoneVars>>

Blocking == \/ \E s \in Server : CallStop(s) \/ CallStopped(s)
            \/ CancelExtract \/ \E w \in Worker : Join(w)
            \/ StopSession

Input ==
    \/ Nothing \/ PassGate \/ MoveCursor \/ OpenActions \/ CloseActions \/ ClosePanel
    \/ \E choice \in offered, back \in BOOLEAN : RunAction(choice, back)
    \/ \E yes, back \in BOOLEAN : AnswerConfirm(yes, back)
    \/ BrowseOrphans \/ EnterDir \/ LeaveDir
    \/ StartSearch \/ AnswerSearch \/ StartDiag
    \/ OpenPhone \/ ClosePhone \/ SayJoined \/ ApplySettings

ServesApp(s) == Serves(s) /\ UNCHANGED <<list, gate, uses, menuVars, workVars, mainVars>>

Next ==
    \/ ListChanges \/ Frame \/ Input \/ Quit \/ Blocking
    \/ \E s \in Server : ServesApp(s)
    \/ \E w \in Worker : Works(w)

\* Threads are scheduled; clients are waited for a bounded time, and entries, sources and
\* tests end
Fairness ==
    /\ WF_vars(Blocking)
    /\ \A s \in Server : WF_vars(ServesApp(s))
    /\ \A w \in Worker : WF_vars(Works(w))

Spec == Init /\ [][Next]_vars /\ Fairness

-----------------------------------------------------------------------------
(* Properties                                                              *)

TypeOK ==
    /\ thread \in [Server -> Gone \cup Serving \cup {"poll", "accept"}]
    /\ port \in [Server -> 0 .. Ports] /\ items \in [Server -> PhoneCalls \cup RemoteCalls]
    /\ held \in Hash \cup {None} /\ panel \in Hash \cup {None}
    /\ order \in [what : Order, hash : Hash \cup {None}]
    /\ tasks \in [Worker -> 0 .. MaxTasks]
    /\ selection \in 1 .. Cardinality(Hash)

\* An order about a torrent is about the one that its panel named on the screen, although the
\* list changes under it; but for a menu reopened by A and B pressed at once, which has
\* lost its torrent and follows the cursor.
OrderedAsShown == [][order' # order /\ order'.what # "none" /\ held # None => order'.hash = panel]_vars

\* The session outlives whoever uses it: once it is stopped no server has a thread, and
\* neither search nor self test runs.
SessionOutlivesItsUsers ==
    ~ alive => /\ \A s \in Server : thread[s] = "none"
               /\ \A w \in Worker : work[w] = "none"

\* A handler under way keeps its session: it is forgotten after the thread was joined.
HandlerKeepsSession == \A s \in Server : thread[s] = "handle" => engine[s] /\ alive

\* The access point, which takes the console's Internet away, is up only with its server,
\* never when the phone's tab says it is off, and not after the end.
NothingLeftUp ==
    /\ ap => running["phone"] \/ todo # <<>>
    /\ step = "off" => ~ ap /\ ~ running["phone"]
    /\ ~ alive => ~ ap /\ ~ awake

\* What a thread leaves is read once it is whole: a lowered flag means it writes no more.
ResultsAreWhole == \A w \in Worker : ~ flag[w] => work[w] \in {"none", "done"}

\* The main thread and those it starts: who uses the session, what is left up and what is
\* read of their work.
AppInvariant ==
    /\ TypeOK /\ ResultsAreWhole /\ NothingLeftUp
    /\ SessionOutlivesItsUsers /\ HandlerKeepsSession

\* Every shutdown ends, whatever clients, archives and sources do.
ShutdownEnds == at = "quit" ~> ~ alive
=============================================================================
