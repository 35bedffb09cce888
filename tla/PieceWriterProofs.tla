-------------------------- MODULE PieceWriterProofs --------------------------
(***************************************************************************)
(* No piece handed to the writer is lost or overtaken, whatever the        *)
(* pieces, the budget and the interleaving of the two threads; and the     *)
(* writer implements the safety part of its contract.                      *)
(***************************************************************************)
EXTENDS PieceWriter, SequenceTheorems, TLAPS

-----------------------------------------------------------------------------
(* The steps, one lemma per family                                         *)

LEMMA SizeIsPositive == \A j \in Job : Size(j) \in Nat \ {0}
BY WriterAssumption DEF Job, Size

LEMMA InitIInv == Init => IInv
<1> SUFFICES ASSUME Init PROVE IInv
  OBVIOUS
<1>1. TypeOK
  <2>1. <<>> \in Seq(Job) /\ <<>> \in Seq(Answer)
    BY EmptySeq
  <2>2. /\ jobs \in Seq(Job) /\ accepted \in Seq(Job)
        /\ results \in Seq(Answer) /\ taken \in Seq(Answer)
    BY <2>1 DEF Init
  <2>3. /\ running \in BOOLEAN
        /\ engine \in EnginePC /\ writer \in WriterPC
    BY Zenon DEF Init, EnginePC, WriterPC
  <2>4. /\ wanted \in {<<>>} \cup {<<j>> : j \in Job}
        /\ job \in {<<>>} \cup {<<j>> : j \in Job}
    <3>1. \A S : \A e : e = <<>> => e \in {<<>>} \cup S
      BY Zenon
    <3>2. QED
      BY <3>1 DEF Init
  <2>5. queued_bytes \in Int
    BY DEF Init
  <2>6. QED
    BY <2>2, <2>3, <2>4, <2>5 DEF TypeOK
<1>2. InOrder /\ WithinBudget /\ DrainedAtExit /\ Phases
  BY WriterAssumption DEF Init, InOrder, WithinBudget, DrainedAtExit, Phases
<1>3. QED
  BY <1>1, <1>2 DEF IInv

\* The steps that only move one thread's program counter
LEMMA MoveStep ==
    ASSUME IInv,
           \/ \E j \in Job : Submit(j)
           \/ Start \/ SubmitNotify \/ StopStore \/ StopNotify
           \/ LoopSleep \/ LoopNotify \/ SpuriousWake
    PROVE  IInv'
<1>1. TypeOK'
  BY DEF IInv, TypeOK, Submit, Start, SubmitNotify, StopStore, StopNotify, LoopSleep,
         LoopNotify, SpuriousWake, queueVars, engineVars, WakeWriter, WakeEngine,
         EnginePC, WriterPC
<1>2. Phases'
  <2>1. ASSUME NEW j \in Job, Submit(j) PROVE Phases'
    BY <2>1 DEF IInv, TypeOK, Phases, Submit, queueVars
  <2>2. CASE Start
    BY <2>2 DEF IInv, Phases, Start, queueVars
  <2>3. CASE SubmitNotify
    BY <2>3 DEF IInv, Phases, SubmitNotify, queueVars, WakeWriter
  <2>4. CASE StopStore
    BY <2>4 DEF IInv, Phases, StopStore, queueVars
  <2>5. CASE StopNotify
    BY <2>5 DEF IInv, Phases, StopNotify, queueVars, WakeWriter
  <2>6. CASE LoopSleep
    BY <2>6 DEF IInv, Phases, LoopSleep, queueVars, engineVars
  <2>7. CASE LoopNotify
    BY <2>7 DEF IInv, Phases, LoopNotify, queueVars, WakeEngine
  <2>8. CASE SpuriousWake
    BY <2>8 DEF IInv, Phases, SpuriousWake, queueVars, engineVars
  <2>9. QED
    BY <2>1, <2>2, <2>3, <2>4, <2>5, <2>6, <2>7, <2>8
<1>3. UNCHANGED <<queueVars, results, taken, job>>
  BY DEF Submit, Start, SubmitNotify, StopStore, StopNotify, LoopSleep, LoopNotify,
         SpuriousWake, queueVars, engineVars
<1>4. InOrder' /\ WithinBudget'
  BY <1>3 DEF IInv, InOrder, WithinBudget, queueVars
<1>5. DrainedAtExit'
  BY <1>3 DEF IInv, DrainedAtExit, Phases, Submit, Start, SubmitNotify, StopStore,
              StopNotify, LoopSleep, LoopNotify, SpuriousWake, queueVars, engineVars,
              WakeWriter
<1>6. QED
  BY <1>1, <1>2, <1>4, <1>5 DEF IInv

LEMMA SubmitTestStep == ASSUME IInv, SubmitTest PROVE IInv'
<1> DEFINE j == wanted[1]
<1>1. wanted = <<j>> /\ j \in Job /\ running
  BY DEF IInv, TypeOK, Phases, SubmitTest
<1>2. CASE HasRoom(Size(j))
  <2>1. /\ jobs' = Append(jobs, j) /\ accepted' = Append(accepted, j)
        /\ queued_bytes' = queued_bytes + Size(j)
        /\ wanted' = <<>> /\ engine' = "notify"
        /\ UNCHANGED <<running, results, taken, writer, job>>
    BY <1>1, <1>2 DEF SubmitTest, Enqueue
  <2>2. /\ jobs' \in Seq(Job) /\ Len(jobs') = Len(jobs) + 1
        /\ \A i \in 1 .. Len(jobs) : jobs'[i] = jobs[i]
        /\ jobs'[Len(jobs) + 1] = j
    BY <1>1, <2>1, AppendProperties DEF IInv, TypeOK
  <2>3. /\ accepted' \in Seq(Job) /\ Len(accepted') = Len(accepted) + 1
        /\ \A i \in 1 .. Len(accepted) : accepted'[i] = accepted[i]
        /\ accepted'[Len(accepted) + 1] = j
    BY <1>1, <2>1, AppendProperties DEF IInv, TypeOK
  <2>4. /\ Len(jobs) \in Nat /\ Len(accepted) \in Nat /\ Len(job) \in Nat
        /\ Len(taken) \in Nat /\ Len(results) \in Nat
    BY LenProperties DEF IInv, TypeOK
  <2>5. TypeOK'
    BY <1>1, <2>1, <2>2, <2>3, SizeIsPositive DEF IInv, TypeOK, EnginePC
  <2>6. InOrder'
    <3> DEFINE a == Len(taken) + Len(results)
    <3>1. /\ Len(accepted) = a + Len(job) + Len(jobs)
          /\ \A i \in 1 .. Len(taken) : accepted[i] = taken[i].job
          /\ \A i \in 1 .. Len(results) : accepted[Len(taken) + i] = results[i].job
          /\ \A i \in 1 .. Len(job) : accepted[a + i] = job[i]
          /\ \A i \in 1 .. Len(jobs) : accepted[a + Len(job) + i] = jobs[i]
      BY DEF IInv, InOrder
    <3>2. Len(accepted') = a + Len(job) + Len(jobs')
      BY <2>2, <2>3, <2>4, <3>1
    <3>3. \A i \in 1 .. Len(taken) : accepted'[i] = taken[i].job
      BY <2>3, <2>4, <3>1
    <3>4. \A i \in 1 .. Len(results) : accepted'[Len(taken) + i] = results[i].job
      BY <2>3, <2>4, <3>1
    <3>5. \A i \in 1 .. Len(job) : accepted'[a + i] = job[i]
      BY <2>3, <2>4, <3>1
    <3>6. ASSUME NEW i \in 1 .. Len(jobs')
          PROVE  accepted'[a + Len(job) + i] = jobs'[i]
      <4>1. CASE i = Len(jobs) + 1
        <5>1. a + Len(job) + i = Len(accepted) + 1
          BY <2>4, <3>1, <4>1
        <5>2. QED
          BY <2>2, <2>3, <4>1, <5>1
      <4>2. CASE i \in 1 .. Len(jobs)
        <5>1. a + Len(job) + i \in 1 .. Len(accepted)
          BY <2>4, <3>1, <4>2
        <5>2. QED
          BY <2>2, <2>3, <3>1, <4>2, <5>1
      <4>3. QED
        BY <2>2, <2>4, <3>6, <4>1, <4>2
    <3>7. QED
      BY <2>1, <3>2, <3>3, <3>4, <3>5, <3>6 DEF InOrder
  <2>7. WithinBudget'
    <3>1. CASE jobs = <<>>
      BY <3>1, <2>2, <2>4 DEF WithinBudget
    <3>2. CASE queued_bytes + Size(j) <= QueueBudget
      BY <3>2, <2>1 DEF WithinBudget
    <3>3. QED
      BY <1>1, <1>2, <3>1, <3>2 DEF HasRoom
  <2>8. DrainedAtExit' /\ Phases'
    BY <1>1, <2>1 DEF IInv, DrainedAtExit, Phases, SubmitTest
  <2>9. QED
    BY <2>5, <2>6, <2>7, <2>8 DEF IInv
<1>3. CASE ~HasRoom(Size(j))
  <2>1. engine' = "room_asleep"
        /\ UNCHANGED <<running, jobs, queued_bytes, accepted, results, taken, wanted, writer, job>>
    BY <1>3 DEF SubmitTest, queueVars
  <2>2. QED
    BY <1>1, <2>1 DEF IInv, TypeOK, EnginePC, InOrder, WithinBudget, DrainedAtExit, Phases,
                      SubmitTest
<1>4. QED
  BY <1>2, <1>3

LEMMA TakeStep == ASSUME IInv, TakeResults PROVE IInv'
<1>1. /\ taken' = taken \o results /\ results' = <<>>
      /\ UNCHANGED <<running, jobs, queued_bytes, accepted, engine, wanted, writer, job>>
  BY DEF TakeResults, queueVars
<1>2. /\ taken' \in Seq(Answer) /\ results' \in Seq(Answer) /\ Len(results') = 0
      /\ Len(taken') = Len(taken) + Len(results)
      /\ \A i \in 1 .. Len(taken) + Len(results) :
            taken'[i] = IF i <= Len(taken) THEN taken[i] ELSE results[i - Len(taken)]
      /\ Len(taken) \in Nat /\ Len(results) \in Nat
  BY <1>1, ConcatProperties, LenProperties, EmptySeq DEF IInv, TypeOK
<1>3. TypeOK'
  BY <1>1, <1>2 DEF IInv, TypeOK
<1>4. InOrder'
  <2>1. ASSUME NEW i \in 1 .. Len(taken') PROVE accepted[i] = taken'[i].job
    <3>1. CASE i <= Len(taken)
      BY <1>2, <3>1 DEF IInv, InOrder
    <3>2. CASE i > Len(taken)
      <4>1. i - Len(taken) \in 1 .. Len(results)
        BY <1>2, <3>2
      <4>2. accepted[Len(taken) + (i - Len(taken))] = results[i - Len(taken)].job
        BY <4>1 DEF IInv, InOrder
      <4>3. QED
        BY <1>2, <3>2, <4>2
    <3>3. QED
      BY <1>2, <3>1, <3>2
  <2>2. Len(taken') + Len(results') = Len(taken) + Len(results)
    BY <1>2
  <2>3. QED
    BY <1>1, <1>2, <2>1, <2>2 DEF IInv, InOrder
<1>5. QED
  BY <1>1, <1>3, <1>4 DEF IInv, WithinBudget, DrainedAtExit, Phases

LEMMA JoinStep == ASSUME IInv, StopJoined PROVE IInv'
<1>1. jobs = <<>> /\ jobs' = <<>> /\ queued_bytes' = 0 /\ engine' = "stopped"
      /\ UNCHANGED <<running, results, taken, accepted, wanted, writer, job>>
  BY DEF StopJoined, IInv, DrainedAtExit
<1>2. QED
  BY <1>1, WriterAssumption DEF IInv, TypeOK, EnginePC, InOrder, WithinBudget, DrainedAtExit,
                                Phases, StopJoined

LEMMA LoopTestStep == ASSUME IInv, LoopTest PROVE IInv'
<1>1. job = <<>> /\ UNCHANGED <<running, results, accepted, engine, wanted, taken>>
  BY DEF IInv, Phases, LoopTest, engineVars
<1>2. CASE jobs' = jobs /\ queued_bytes' = queued_bytes /\ job' = job
  BY <1>1, <1>2 DEF IInv, TypeOK, WriterPC, InOrder, WithinBudget, DrainedAtExit, Phases,
                    LoopTest, MayExit
<1>3. CASE /\ jobs # <<>> /\ job' = <<Head(jobs)>> /\ jobs' = Tail(jobs)
           /\ queued_bytes' = queued_bytes - Size(Head(jobs)) /\ writer' = "notify"
  <2>1. /\ Head(jobs) \in Job /\ Head(jobs) = jobs[1]
        /\ jobs' \in Seq(Job) /\ Len(jobs') = Len(jobs) - 1
        /\ \A i \in 1 .. Len(jobs) - 1 : jobs'[i] = jobs[i + 1]
        /\ Len(jobs) \in Nat \ {0}
    BY <1>3, HeadTailProperties, EmptySeq DEF IInv, TypeOK
  <2>2. /\ Len(taken) \in Nat /\ Len(results) \in Nat /\ Len(accepted) \in Nat
        /\ Len(job) = 0 /\ Len(job') = 1 /\ job'[1] = jobs[1]
    BY <1>1, <1>3, <2>1, LenProperties DEF IInv, TypeOK
  <2>3. Size(Head(jobs)) \in Nat \ {0}
    BY <2>1, SizeIsPositive
  <2>4. TypeOK'
    BY <1>1, <1>3, <2>1, <2>3 DEF IInv, TypeOK, WriterPC
  <2>5. InOrder'
    <3> DEFINE a == Len(taken) + Len(results)
    <3>1. Len(accepted) = a + 1 + Len(jobs')
      BY <2>1, <2>2 DEF IInv, InOrder
    <3>2. accepted[a + 1] = jobs[1]
      BY <2>1, <2>2 DEF IInv, InOrder
    <3>3. ASSUME NEW i \in 1 .. Len(jobs') PROVE accepted[a + 1 + i] = jobs'[i]
      <4>1. i + 1 \in 1 .. Len(jobs) /\ jobs'[i] = jobs[i + 1]
        BY <2>1
      <4>2. accepted[a + Len(job) + (i + 1)] = jobs[i + 1]
        BY <4>1 DEF IInv, InOrder
      <4>3. QED
        BY <4>1, <4>2, <2>2
    <3>4. QED
      BY <1>1, <2>2, <3>1, <3>2, <3>3 DEF IInv, InOrder
  <2>6. WithinBudget'
    BY <1>3, <2>1, <2>3, WriterAssumption DEF IInv, TypeOK, WithinBudget
  <2>7. DrainedAtExit' /\ Phases'
    BY <1>1, <1>3 DEF IInv, DrainedAtExit, Phases, LoopTest
  <2>8. QED
    BY <2>4, <2>5, <2>6, <2>7 DEF IInv
<1>4. QED
  BY <1>2, <1>3 DEF LoopTest

\* The end of a job: its answer is queued and the writer's hands are empty
LEMMA ReportStep ==
    ASSUME IInv, NEW v \in Verdict, job # <<>>, Report(v),
           UNCHANGED <<running, jobs, queued_bytes, accepted, engine, wanted, taken>>
    PROVE  IInv'
<1> DEFINE r == [job |-> job[1], verdict |-> v]
<1>1. job = <<job[1]>> /\ job[1] \in Job /\ r \in Answer /\ r.job = job[1] /\ Len(job) = 1
  BY DEF IInv, TypeOK, Answer
<1>2. results' = Append(results, r) /\ job' = <<>> /\ writer' = "test" /\ Len(job') = 0
  BY DEF Report
<1>3. /\ results' \in Seq(Answer) /\ Len(results') = Len(results) + 1
      /\ \A i \in 1 .. Len(results) : results'[i] = results[i]
      /\ results'[Len(results) + 1] = r
  BY <1>1, <1>2, AppendProperties DEF IInv, TypeOK
<1>4. /\ Len(jobs) \in Nat /\ Len(accepted) \in Nat
      /\ Len(taken) \in Nat /\ Len(results) \in Nat
  BY LenProperties DEF IInv, TypeOK
<1>5. TypeOK'
  BY <1>2, <1>3 DEF IInv, TypeOK, WriterPC
<1>6. InOrder'
  <2>1. accepted[Len(taken) + Len(results) + 1] = r.job
    BY <1>1 DEF IInv, InOrder
  <2>2. ASSUME NEW i \in 1 .. Len(results') PROVE accepted[Len(taken) + i] = results'[i].job
    <3>1. CASE i = Len(results) + 1
      BY <1>3, <1>4, <2>1, <3>1
    <3>2. CASE i \in 1 .. Len(results)
      BY <1>3, <3>2 DEF IInv, InOrder
    <3>3. QED
      BY <1>3, <1>4, <3>1, <3>2
  <2>3. QED
    BY <1>1, <1>2, <1>3, <1>4, <2>2 DEF IInv, InOrder
<1>7. WithinBudget' /\ DrainedAtExit' /\ Phases'
  BY <1>2 DEF IInv, WithinBudget, DrainedAtExit, Phases
<1>8. QED
  BY <1>5, <1>6, <1>7 DEF IInv

LEMMA LoopHashStep == ASSUME IInv, LoopHash PROVE IInv'
<1>1. /\ writer = "hash" /\ job # <<>>
      /\ UNCHANGED <<running, jobs, queued_bytes, accepted, engine, wanted, taken>>
  BY DEF LoopHash, IInv, Phases, queueVars, engineVars
<1>2. CASE job[1].good
  <2>1. writer' = "write" /\ UNCHANGED <<results, job>>
    BY <1>2 DEF LoopHash
  <2>2. QED
    BY <1>1, <1>2, <2>1 DEF IInv, TypeOK, WriterPC, InOrder, WithinBudget, DrainedAtExit, Phases
<1>3. CASE ~job[1].good
  <2>1. Report("hash_failed")
    BY <1>3 DEF LoopHash
  <2>2. QED
    BY <1>1, <2>1, ReportStep DEF Verdict
<1>4. QED
  BY <1>2, <1>3

LEMMA LoopWriteStep == ASSUME IInv, LoopWrite PROVE IInv'
<1>1. /\ job # <<>>
      /\ UNCHANGED <<running, jobs, queued_bytes, accepted, engine, wanted, taken>>
  BY DEF LoopWrite, IInv, Phases, queueVars, engineVars
<1>2. PICK v \in {"written", "write_failed"} : Report(v)
  BY DEF LoopWrite
<1>3. QED
  BY <1>1, <1>2, ReportStep DEF Verdict

LEMMA NextIInv == IInv /\ [Next]_vars => IInv'
<1> SUFFICES ASSUME IInv, [Next]_vars PROVE IInv'
  OBVIOUS
<1>1. CASE UNCHANGED vars
  BY <1>1 DEF vars, IInv, TypeOK, InOrder, WithinBudget, DrainedAtExit, Phases
<1>2. CASE Next
  BY <1>2, MoveStep, SubmitTestStep, TakeStep, JoinStep, LoopTestStep, LoopHashStep,
     LoopWriteStep DEF Next, EngineStep, WriterStep
<1>3. QED
  BY <1>1, <1>2

-----------------------------------------------------------------------------
(* The theorems                                                            *)

\* The inductive invariant: where the two threads can be, what each of them
\* holds, and what is left of the queue.
THEOREM WriterInvariant == Spec => []IInv
BY InitIInv, NextIInv, PTL DEF Spec

\* Whatever the interleaving, the accepted pieces are, in the order of
\* submission, the answered ones, the one in the writer's hands and the queue.
THEOREM NothingLostOrOvertaken == Spec => []InOrder
<1>1. IInv => InOrder
  BY DEF IInv
<1>2. QED
  BY <1>1, WriterInvariant, PTL

\* The queue never holds more than kQueueBudget bytes, one oversized piece apart.
THEOREM MemoryIsBounded == Spec => []WithinBudget
<1>1. IInv => WithinBudget
  BY DEF IInv
<1>2. QED
  BY <1>1, WriterInvariant, PTL

\* The thread does not end while a piece waits: "Rien n'est perdu".
THEOREM ExitsDrained == Spec => []DrainedAtExit
<1>1. IInv => DrainedAtExit
  BY DEF IInv
<1>2. QED
  BY <1>1, WriterInvariant, PTL

-----------------------------------------------------------------------------
(* The writer implements the safety part of its contract                   *)

\* What the contract sees of a step in which a job is answered
LEMMA ReportAnswers ==
    ASSUME IInv, NEW v, job # <<>>, writer # "exited",
           v \in IF job[1].good THEN {"written", "write_failed"} ELSE {"hash_failed"},
           Report(v), UNCHANGED <<accepted, taken>>
    PROVE  Contract!Answer(v)
<1> DEFINE r == [job |-> job[1], verdict |-> v]
<1>1. job[1] \in Job /\ r \in Answer /\ Len(job) = 1
  BY DEF IInv, TypeOK, Answer, Verdict
<1>2. results' = Append(results, r) /\ writer' = "test"
  BY DEF Report
<1>3. /\ taken \in Seq(Answer) /\ results \in Seq(Answer)
      /\ Len(taken) \in Nat /\ Len(results) \in Nat /\ Len(jobs) \in Nat
  BY LenProperties DEF IInv, TypeOK
<1>4. taken \o Append(results, r) = Append(taken \o results, r)
  BY <1>1, <1>3
<1>5. Answered' = Append(Answered, r)
  BY <1>2, <1>4 DEF Answered
<1>6. Len(Answered) = Len(taken) + Len(results)
  BY <1>3, ConcatProperties DEF Answered
<1>7. accepted[Len(Answered) + 1] = job[1] /\ Len(Answered) < Len(accepted)
  BY <1>1, <1>3, <1>6 DEF IInv, InOrder
<1>8. QED
  BY <1>2, <1>5, <1>7 DEF Contract!Answer, Contract!Verdicts

LEMMA ContractStep == IInv /\ [Next]_vars => [Contract!Next]_(Contract!contractVars)
<1> SUFFICES ASSUME IInv, [Next]_vars
             PROVE  Contract!Next \/ UNCHANGED <<accepted, Answered, writer = "exited">>
  BY DEF Contract!contractVars
<1>1. CASE UNCHANGED vars
  BY <1>1 DEF vars, Answered
<1>2. CASE \/ \E j \in Job : Submit(j)
           \/ Start \/ SubmitNotify \/ StopStore \/ StopNotify \/ StopJoined
           \/ LoopSleep \/ LoopNotify \/ SpuriousWake
  <2>1. UNCHANGED <<accepted, results, taken>>
    BY <1>2 DEF Submit, Start, SubmitNotify, StopStore, StopNotify, StopJoined, LoopSleep,
                LoopNotify, SpuriousWake, queueVars, engineVars
  <2>2. (writer = "exited") = (writer' = "exited")
    BY <1>2 DEF IInv, Phases, Submit, Start, SubmitNotify, StopStore, StopNotify, StopJoined,
                LoopSleep, LoopNotify, SpuriousWake, queueVars, engineVars, WakeWriter
  <2>3. QED
    BY <2>1, <2>2 DEF Answered
<1>3. CASE SubmitTest
  <2>1. UNCHANGED <<results, taken, writer>> /\ writer # "exited"
        /\ wanted # <<>> /\ wanted[1] \in Job
    BY <1>3 DEF SubmitTest, IInv, TypeOK, Phases
  <2>2. CASE accepted' = Append(accepted, wanted[1])
    BY <2>1, <2>2 DEF Contract!Next, Contract!Accept, Answered
  <2>3. CASE UNCHANGED accepted
    BY <2>1, <2>3 DEF Answered
  <2>4. QED
    BY <1>3, <2>2, <2>3 DEF SubmitTest, Enqueue, queueVars
<1>4. CASE TakeResults
  <2>1. /\ taken' = taken \o results /\ results' = <<>>
        /\ UNCHANGED <<accepted, writer>>
    BY <1>4 DEF TakeResults, queueVars
  <2>2. taken \o results \in Seq(Answer)
    BY ConcatProperties DEF IInv, TypeOK
  <2>3. (taken \o results) \o <<>> = taken \o results
    BY <2>2, ConcatEmptySeq
  <2>4. QED
    BY <2>1, <2>3 DEF Answered
<1>5. CASE LoopTest
  <2>1. UNCHANGED <<accepted, results, taken>> /\ writer # "exited" /\ job = <<>>
    BY <1>5 DEF LoopTest, engineVars, IInv, Phases
  <2>2. CASE writer' # "exited"
    BY <2>1, <2>2 DEF Answered
  <2>3. CASE writer' = "exited"
    <3>1. jobs = <<>>
      BY <1>5, <2>3 DEF LoopTest, MayExit
    <3>2. Len(Answered) = Len(accepted)
      BY <2>1, <3>1, ConcatProperties, LenProperties DEF IInv, TypeOK, InOrder, Answered
    <3>3. QED
      BY <2>1, <2>3, <3>2 DEF Contract!Next, Contract!End, Answered
  <2>4. QED
    BY <2>2, <2>3
<1>6. CASE LoopHash
  <2>1. UNCHANGED <<accepted, taken>> /\ writer # "exited" /\ job # <<>>
    BY <1>6 DEF LoopHash, queueVars, engineVars, IInv, Phases
  <2>2. CASE job[1].good
    BY <1>6, <2>1, <2>2 DEF LoopHash, Answered
  <2>3. CASE ~job[1].good
    BY <1>6, <2>1, <2>3, ReportAnswers DEF LoopHash, Contract!Next, Contract!AnyAnswer
  <2>4. QED
    BY <2>2, <2>3
<1>7. CASE LoopWrite
  <2>1. UNCHANGED <<accepted, taken>> /\ writer # "exited" /\ job # <<>> /\ job[1].good
    BY <1>7 DEF LoopWrite, queueVars, engineVars, IInv, Phases
  <2>2. PICK v \in {"written", "write_failed"} : Report(v)
    BY <1>7 DEF LoopWrite
  <2>3. QED
    BY <2>1, <2>2, ReportAnswers DEF Contract!Next, Contract!AnyAnswer
<1>8. QED
  BY <1>1, <1>2, <1>3, <1>4, <1>5, <1>6, <1>7 DEF Next, EngineStep, WriterStep

\* Every behaviour of the two threads is one of the abstract service: pieces are
\* answered once each, in the order of submission, with the truth about their
\* hash, and the service ends with nothing unanswered.
THEOREM ImplementsContract == Spec => Contract!SafeSpec
<1>1. Init => Contract!Init
  BY DEF Init, Contract!Init, Answered
<1>2. IInv /\ [Next]_vars => [Contract!Next]_(Contract!contractVars)
  BY ContractStep
<1>3. QED
  BY <1>1, <1>2, WriterInvariant, PTL DEF Spec, Contract!SafeSpec

=============================================================================
