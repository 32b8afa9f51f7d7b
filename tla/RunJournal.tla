---------------------------- MODULE RunJournal ----------------------------
(* What a reader of a run's canonical log may rely on                      *)
(* (docs/research/2026-09-07-canonical-sink-checkpoint.md): operations      *)
(* follow one another, each is admitted, started and settled in the log,   *)
(* and the world is touched only between its start and its settlement.     *)
(* RunLoop implements this specification.                                  *)
EXTENDS Naturals, Sequences

VARIABLES
  journal,  \* the records, each with its type and its operation (0: none)
  doing     \* the operation whose task is at work, or 0

Admission == {"model_admitted", "tool_admitted"}
Start == {"model_started", "tool_started"}
Completion == {"model_completed", "model_failed", "tool_completed"}

\* How far the newest operation is: the last record that says so.
Stages == Admission \cup Start \cup {"operation_settled", "finished"} \cup Completion
Stage ==
  LET staged == {i \in DOMAIN journal : journal[i].type \in Stages}
      last == CHOOSE i \in staged : \A j \in staged : j <= i
  IN  IF staged = {} THEN [type |-> "idle", op |-> 0] ELSE journal[last]
Idle == Stage.type \in {"idle"} \cup Completion

\* The record that a step appends.
New == journal'[Len(journal')]
Appends(types) ==
  /\ Len(journal') = Len(journal) + 1 /\ journal' = Append(journal, New)
  /\ New.type \in types /\ UNCHANGED doing

Init == journal = <<>> /\ doing = 0

Admit == Idle /\ Appends(Admission)
Started == Stage.type \in Admission /\ Appends(Start) /\ New.op = Stage.op
Begin == Stage.type \in Start /\ doing = 0 /\ doing' = Stage.op /\ UNCHANGED journal
Cease == doing' = 0 /\ UNCHANGED journal
Settle ==
  /\ Stage.type \in Admission \cup Start /\ doing = 0
  /\ Appends({"operation_settled"}) /\ New.op = Stage.op
Complete == Stage.type = "operation_settled" /\ Appends(Completion) /\ New.op = Stage.op
\* A call that is answered without an operation.
AnswerCall == Idle /\ Appends({"tool_completed"}) /\ New.op = 0
Finish == Idle /\ Appends({"finished"})
\* Any other record, in any stage but the last.
Note == Stage.type # "finished" /\ Appends({New.type} \ Stages)

Next == Admit \/ Started \/ Begin \/ Cease \/ Settle \/ Complete \/ AnswerCall \/ Finish \/ Note

Spec == Init /\ [][Next]_<<journal, doing>>
=============================================================================
