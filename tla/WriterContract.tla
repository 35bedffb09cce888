--------------------------- MODULE WriterContract ---------------------------
(***************************************************************************)
(* What a torrent expects of its piece writer: every piece it hands over   *)
(* is answered once, in the order of submission, with the truth about its  *)
(* hash; the writer ends only when nothing is left unanswered.             *)
(***************************************************************************)
EXTENDS Naturals, Sequences

CONSTANT Job        \* the pieces handed over: records with a field `good`, true
                    \* when the bytes match the hash of the piece

VARIABLES accepted, \* the jobs handed over, in order
          answered, \* the answers, in order: [job, verdict]
          ended     \* the writer's thread is gone

contractVars == <<accepted, answered, ended>>

Verdicts(j) == IF j.good THEN {"written", "write_failed"} ELSE {"hash_failed"}

Init == accepted = <<>> /\ answered = <<>> /\ ended = FALSE

Accept(j) ==
    /\ ~ended
    /\ accepted' = Append(accepted, j)
    /\ UNCHANGED <<answered, ended>>

Answer(v) ==
    /\ ~ended
    /\ Len(answered) < Len(accepted)
    /\ LET j == accepted[Len(answered) + 1]
       IN  /\ v \in Verdicts(j)
           /\ answered' = Append(answered, [job |-> j, verdict |-> v])
    /\ UNCHANGED <<accepted, ended>>

End ==
    /\ ~ended
    /\ Len(answered) = Len(accepted)
    /\ ended' = TRUE
    /\ UNCHANGED <<accepted, answered>>

AnyAnswer == \E v \in {"written", "write_failed", "hash_failed"} : Answer(v)

Next ==
    \/ \E j \in Job : Accept(j)
    \/ AnyAnswer
    \/ End

SafeSpec == Init /\ [][Next]_contractVars

Spec == SafeSpec /\ WF_contractVars(AnyAnswer)

=============================================================================
