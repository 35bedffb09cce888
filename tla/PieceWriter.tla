----------------------------- MODULE PieceWriter -----------------------------
(***************************************************************************)
(* bt::PieceWriter: the thread that hashes complete pieces and writes them *)
(* to the card, fed by the engine through a bounded queue.                 *)
(*                                                                         *)
(* Two threads.  The engine submits, collects results and stops the        *)
(* writer; the writer waits for work, hashes, writes, answers.  mutex_     *)
(* guards jobs_ and queued_bytes_; running_ is atomic and stop() stores it *)
(* without the mutex.  Every critical section is one step, except the      *)
(* writer's wait for work: between finding no work and falling asleep it   *)
(* holds the mutex ("sleep"), and only an unlocked store can slip in.      *)
(***************************************************************************)
EXTENDS Integers, Sequences

CONSTANTS
    Piece,          \* pieces of the torrent
    PieceSize,      \* data.size() of each
    QueueBudget,    \* kQueueBudget
    MaxSubmits      \* bound: submissions in a behaviour

ASSUME WriterAssumption ==
    /\ PieceSize \in [Piece -> Nat \ {0}]
    /\ QueueBudget \in Nat
    /\ MaxSubmits \in Nat

\* A piece handed over, and whether its bytes are the right ones
Job == [piece : Piece, good : BOOLEAN]
Size(j) == PieceSize[j.piece]
Verdict == {"written", "write_failed", "hash_failed"}

VARIABLES
    running,        \* running_
    jobs,           \* jobs_
    queued_bytes,   \* queued_bytes_
    results,        \* results_, not yet collected
    taken,          \* history: the results the engine collected
    accepted,       \* history: the jobs that entered the queue
    engine,         \* where the engine is
    wanted,         \* engine: the job submit() was called with
    writer,         \* where the writer thread is
    job             \* writer: the job in hand, as a sequence of at most one

queueVars == <<jobs, queued_bytes, accepted>>
engineVars == <<engine, wanted, taken>>
vars == <<running, jobs, queued_bytes, results, taken, accepted, engine, wanted, writer, job>>

EnginePC == {"new", "idle", "room", "room_asleep", "notify", "stop_notify", "joining", "stopped"}
WriterPC == {"absent", "test", "sleep", "asleep", "notify", "hash", "write", "exited"}

Init ==
    /\ running = FALSE
    /\ jobs = <<>> /\ queued_bytes = 0
    /\ results = <<>> /\ taken = <<>> /\ accepted = <<>>
    /\ engine = "new" /\ wanted = <<>>
    /\ writer = "absent" /\ job = <<>>

MutexFree == writer # "sleep"

\* notify_one() or notify_all() on has_work_; its mutant notifies no one
WakeNoOne == writer' = writer
WakeWriter == writer' = IF writer = "asleep" THEN "test" ELSE writer

-----------------------------------------------------------------------------
(* The engine's side                                                       *)

Start ==
    /\ engine = "new" /\ ~running
    /\ running' = TRUE
    /\ writer' = "test"
    /\ engine' = "idle"
    /\ UNCHANGED <<queueVars, results, taken, wanted, job>>

Submit(j) ==
    /\ engine = "idle" /\ running
    /\ Len(accepted) < MaxSubmits
    /\ wanted' = <<j>>
    /\ engine' = "room"
    /\ UNCHANGED <<running, queueVars, results, taken, writer, job>>

\* Mutant of HasRoom: a piece larger than the budget waits for ever
RoomWithinBudget(size) == ~running \/ queued_bytes + size <= QueueBudget

HasRoom(size) == ~running \/ queued_bytes + size <= QueueBudget \/ jobs = <<>>

\* Mutant of Enqueue: the new job passes before the others
EnqueueFirst(j) ==
    /\ jobs' = <<j>> \o jobs
    /\ queued_bytes' = queued_bytes + Size(j)
    /\ accepted' = Append(accepted, j)

Enqueue(j) ==
    /\ jobs' = Append(jobs, j)
    /\ queued_bytes' = queued_bytes + Size(j)
    /\ accepted' = Append(accepted, j)

SubmitTest ==
    /\ engine = "room" /\ MutexFree
    /\ IF HasRoom(Size(wanted[1]))
       THEN /\ wanted' = <<>>
            /\ IF running
               THEN Enqueue(wanted[1]) /\ engine' = "notify"
               ELSE UNCHANGED queueVars /\ engine' = "idle"
       ELSE engine' = "room_asleep" /\ UNCHANGED <<queueVars, wanted>>
    /\ UNCHANGED <<running, results, taken, writer, job>>

SubmitNotify ==
    /\ engine = "notify"
    /\ engine' = "idle"
    /\ WakeWriter
    /\ UNCHANGED <<running, queueVars, results, taken, wanted, job>>

TakeResults ==
    /\ engine = "idle" /\ results # <<>>
    /\ taken' = taken \o results
    /\ results' = <<>>
    /\ UNCHANGED <<running, queueVars, engine, wanted, writer, job>>

\* stop(): the store, then the notifications, then the join
StopStore ==
    /\ engine = "idle" /\ running
    /\ running' = FALSE
    /\ engine' = "stop_notify"
    /\ UNCHANGED <<queueVars, results, taken, wanted, writer, job>>

StopNotify ==
    /\ engine = "stop_notify"
    /\ engine' = "joining"
    /\ WakeWriter
    /\ UNCHANGED <<running, queueVars, results, taken, wanted, job>>

StopJoined ==
    /\ engine = "joining" /\ writer = "exited"
    /\ engine' = "stopped"
    /\ jobs' = <<>> /\ queued_bytes' = 0
    /\ UNCHANGED <<running, results, taken, accepted, wanted, writer, job>>

-----------------------------------------------------------------------------
(* The writer's side: loop()                                               *)

MayExit == ~running /\ jobs = <<>>

\* Under the mutex: leave, or take the next job, or find nothing to do
LoopTest ==
    /\ writer = "test"
    /\ \/ /\ MayExit
          /\ writer' = "exited"
          /\ UNCHANGED <<jobs, queued_bytes, job>>
       \/ /\ ~MayExit /\ jobs # <<>>
          /\ job' = <<Head(jobs)>>
          /\ jobs' = Tail(jobs)
          /\ queued_bytes' = queued_bytes - Size(Head(jobs))
          /\ writer' = "notify"
       \/ /\ ~MayExit /\ jobs = <<>>
          /\ writer' = "sleep"
          /\ UNCHANGED <<jobs, queued_bytes, job>>
    /\ UNCHANGED <<running, results, accepted, engineVars>>

\* The mutex is given back and the thread sleeps, in one step
LoopSleep ==
    /\ writer = "sleep"
    /\ writer' = "asleep"
    /\ UNCHANGED <<running, queueVars, results, engineVars, job>>

\* has_room_.notify_all()
WakeEngine == engine' = IF engine = "room_asleep" THEN "room" ELSE engine

LoopNotify ==
    /\ writer = "notify"
    /\ writer' = "hash"
    /\ WakeEngine
    /\ UNCHANGED <<running, queueVars, results, wanted, taken, job>>

\* Mutant of Report: a wrong hash is not reported
ReportUnlessHash(v) ==
    /\ results' = IF v = "hash_failed" THEN results
                  ELSE Append(results, [job |-> job[1], verdict |-> v])
    /\ job' = <<>>
    /\ writer' = "test"

Report(v) ==
    /\ results' = Append(results, [job |-> job[1], verdict |-> v])
    /\ job' = <<>>
    /\ writer' = "test"

LoopHash ==
    /\ writer = "hash"
    /\ IF job[1].good THEN writer' = "write" /\ UNCHANGED <<results, job>>
       ELSE Report("hash_failed")
    /\ UNCHANGED <<running, queueVars, engineVars>>

LoopWrite ==
    /\ writer = "write"
    /\ \E v \in {"written", "write_failed"} : Report(v)
    /\ UNCHANGED <<running, queueVars, engineVars>>

\* A condition variable may wake its waiter for no reason
SpuriousWake ==
    \/ /\ writer = "asleep" /\ writer' = "test"
       /\ UNCHANGED <<running, queueVars, results, engineVars, job>>
    \/ /\ engine = "room_asleep" /\ engine' = "room"
       /\ UNCHANGED <<running, queueVars, results, wanted, taken, writer, job>>

-----------------------------------------------------------------------------

EngineStep == SubmitTest \/ SubmitNotify \/ StopNotify \/ StopJoined
WriterStep == LoopTest \/ LoopSleep \/ LoopNotify \/ LoopHash \/ LoopWrite

Next ==
    \/ Start
    \/ \E j \in Job : Submit(j)
    \/ TakeResults
    \/ StopStore
    \/ EngineStep
    \/ WriterStep
    \/ SpuriousWake

Spec == Init /\ [][Next]_vars

\* Both threads run: a call the engine began goes on, the writer does not stop.
\* Nothing promises a spurious wakeup, and no system wakes a waiter for ever.
FairSpec ==
    /\ Spec
    /\ WF_vars(EngineStep) /\ WF_vars(WriterStep)
    /\ <>[][~SpuriousWake]_vars

-----------------------------------------------------------------------------
(* Properties                                                              *)

Answered == taken \o results
Answer == [job : Job, verdict : Verdict]

TypeOK ==
    /\ running \in BOOLEAN
    /\ jobs \in Seq(Job) /\ accepted \in Seq(Job)
    /\ queued_bytes \in Int
    /\ results \in Seq(Answer) /\ taken \in Seq(Answer)
    /\ engine \in EnginePC
    /\ wanted \in {<<>>} \cup {<<j>> : j \in Job}
    /\ writer \in WriterPC
    /\ job \in {<<>>} \cup {<<j>> : j \in Job}

\* No piece handed over is lost, duplicated or overtaken: what was accepted is,
\* in this order, what was answered, the job in the writer's hands, and the
\* queue.  Submissions, the two halves of a job's life on the writer's thread and
\* the collection of results interleave freely.
InOrder ==
    LET a == Len(taken) + Len(results)
    IN /\ Len(accepted) = a + Len(job) + Len(jobs)
       /\ \A i \in 1 .. Len(taken) : accepted[i] = taken[i].job
       /\ \A i \in 1 .. Len(results) : accepted[Len(taken) + i] = results[i].job
       /\ \A i \in 1 .. Len(job) : accepted[a + i] = job[i]
       /\ \A i \in 1 .. Len(jobs) : accepted[a + Len(job) + i] = jobs[i]

\* The memory promised by kQueueBudget: the queue is within it, or holds the one
\* piece that a torrent with very large pieces must still be able to hand over.
WithinBudget == queued_bytes <= QueueBudget \/ Len(jobs) <= 1

\* "Rien n'est perdu": when the thread ends every accepted piece was answered.
\* The branch of stop() that throws the rest of the queue away is never taken.
DrainedAtExit == writer = "exited" => jobs = <<>> /\ job = <<>>

\* Where the two threads can be together: with the properties above, an
\* inductive invariant.
Phases ==
    /\ engine \in {"room", "room_asleep"} <=> wanted # <<>>
    /\ writer \in {"notify", "hash", "write"} <=> job # <<>>
    /\ writer = "write" => job[1].good
    /\ engine \in {"idle", "room", "room_asleep", "notify"} => running
    /\ engine = "new" <=> writer = "absent"
    /\ writer = "exited" => ~running

IInv == TypeOK /\ InOrder /\ WithinBudget /\ DrainedAtExit /\ Phases

\* The writer is the contract's service, whose results wait to be collected.
Contract == INSTANCE WriterContract WITH answered <- Answered, ended <- (writer = "exited")
KeepsContract == Contract!Spec

\* submit() blocks only for a time: the card always ends up making room.
SubmitReturns == (engine \in {"room", "room_asleep", "notify"}) ~> (engine = "idle")

\* "Termine le travail en attente puis arrête le fil": stop() comes back.
StopReturns == (engine = "stop_notify") ~> (engine = "stopped")

\* A stop() whose store does not fall between the writer's test of running_ and
\* its sleep comes back: this window is the only one where a wakeup is lost.
StopReturnsOutsideWindow == (engine = "stop_notify" /\ writer # "sleep") ~> (engine = "stopped")

=============================================================================
