------------------------------ MODULE RunLoop ------------------------------
(***************************************************************************)
(* One live run (daemon/runtime/run.ex): a GenServer that alternates model *)
(* requests and tool calls, takes commands while it works, and writes each *)
(* step to a canonical sink before it acts on it.                          *)
(*                                                                         *)
(* `run` is the GenServer's state; each action is one handler, whole: what *)
(* the handler does, then drive/1, which goes on until a record waits for  *)
(* the sink or nothing can be done.  The code's continuations are closures *)
(* kept in `pending.next` and `controls`; here they are records that name  *)
(* the closure and carry what it captured.  The op task (`worker`) and the *)
(* sink (`log`) run beside it.  What the subscriber is shown (present/2)   *)
(* and the texts of the conversation are left out.                         *)
(***************************************************************************)
EXTENDS Integers, Sequences, FiniteSets

CONSTANTS
  Clients,      \* processes that call the run
  Approvals,    \* the approval options a run may start with
  Turns,        \* the tool calls a model may answer with: sequences of kinds
  MaxSteps,     \* the max_steps option
  MaxControls,  \* 32 in the code: controls (and steers) that may wait
  MaxWaiters,   \* 128 in the code: callers that may await the end
  MaxEvents,    \* bound: stream or progress events of one operation
  MaxCommands,  \* bound: commands the clients send
  Commands,     \* bound: the kinds of command they send
  SinkFails     \* bound: whether the sink may fail

CallKinds == {"read", "write", "command", "bad"}

ASSUME RunAssumption ==
  /\ Approvals \subseteq {"auto", "ask", "read_only"}
  /\ Turns \subseteq Seq(CallKinds)
  /\ MaxSteps \in Nat \ {0} /\ MaxControls \in Nat \ {0} /\ MaxWaiters \in Nat
  /\ MaxEvents \in Nat /\ MaxCommands \in Nat
  /\ Commands \subseteq {"stop", "pause", "continue", "steer", "approve", "await"}
  /\ SinkFails \in BOOLEAN

VARIABLES
  run,     \* the GenServer's state
  worker,  \* the task of the newest operation that has one, and what it sent the run
  log,     \* what the sink has committed
  issued   \* commands sent so far; also names the steers

vars == <<run, worker, log, issued>>

None == [k |-> "none"]
Terminal == {"completed", "failed", "cancelled"}

\* A closure: the name of what it does and what it captured.
Then(k, arg) == [k |-> k, arg |-> arg]

\* new_operation/2.  `sent` is what the run sent its task, `credits` counts the
\* answers to its events.
NewOp(id, kind, call, steers) ==
  [k |-> "op", id |-> id, kind |-> kind, call |-> call, steers |-> steers,
   effect |-> "none", task |-> FALSE, timer |-> FALSE, result |-> None,
   down |-> "no", sent |-> {}, credits |-> 0]

\* The task of operation `op`: what it does, its events, its messages to the run.
Task(op, st) == [op |-> op, st |-> st, events |-> 0, out |-> <<>>]

Init ==
  /\ \E policy \in Approvals :
     run = [policy |-> policy, alive |-> TRUE, status |-> "running", paused |-> FALSE, stopping |-> FALSE,
            finishing |-> FALSE, timedOut |-> FALSE, steps |-> 0, ops |-> 0, seq |-> 0,
            op |-> None, calls |-> <<>>, steer |-> <<>>, approval |-> None,
            controls |-> <<>>, waiters |-> {}, asked |-> {},
            pending |-> [k |-> "append", committed |-> FALSE, next |-> Then("advance", None),
                         rec |-> [seq |-> 1, type |-> "started", op |-> 0, what |-> None]]]
  /\ worker = Task(0, "dead")
  /\ log = <<>>
  /\ issued = 0

-----------------------------------------------------------------------------
(* Writing.                                                                *)

\* publish/5: one record is appended by a task; `next` runs when it is
\* acknowledged.
Publish(s, type, op, what, next) ==
  [s EXCEPT !.pending =
     [k |-> "append", committed |-> FALSE, next |-> next,
      rec |-> [seq |-> s.seq + 1, type |-> type, op |-> op, what |-> what]]]

OpId(s) == IF s.op = None THEN 0 ELSE s.op.id

\* hold/1
Hold(s) ==
  IF s.status = "paused" THEN s ELSE Publish(s, "paused", 0, None, Then("paused", None))

\* finish/3: an operation that ran out of time fails the run whatever ends it.
Finish(s, status) ==
  LET final == IF s.timedOut THEN "failed" ELSE status
  IN  Publish([s EXCEPT !.finishing = TRUE], "finished", 0, final, Then("finish", final))

\* tool_result/4
CallId(c) == [parent |-> c.parent, index |-> c.index]
ToolResult(s, o, c) == Publish(s, "tool_completed", o, CallId(c), Then("advance", None))

\* model_result/3
ModelResult(s, o, result) ==
  IF result.k \in {"turn", "cut"}
  THEN Publish(s, "model_completed", o, result, Then("turn", result))
  ELSE Publish(s, "model_failed", o, None, Then("model_failed", None))

\* settle_operation/1: the result the task left, or that it ended without one.
Settle(s) ==
  LET result == IF s.op.result = None THEN [k |-> "error"] ELSE s.op.result
  IN  Publish(s, "operation_settled", s.op.id,
              [launch |-> IF s.op.down = "exit" THEN "started" ELSE s.op.down],
              Then("settled", result))

-----------------------------------------------------------------------------
(* Doing.                                                                  *)

\* Mutant: a task is left to its own devices.
CancelNobody(s) == s

\* cancel_operation/1: run_command is asked to stop, every other task is killed.
CancelOperation(s) ==
  IF s.op = None \/ ~s.op.task THEN s
  ELSE [s EXCEPT !.op.sent = @ \cup
          {IF s.op.kind = "tool" /\ s.op.call.kind = "command" THEN "cancel" ELSE "kill"}]

\* launch_model/2 and launch_tool/2 up to their admission.
LaunchModel(s) ==
  Publish([s EXCEPT !.ops = @ + 1, !.op = NewOp(s.ops + 1, "model", None, s.steer)],
          "model_admitted", s.ops + 1, s.steer, Then("effect", "start"))
LaunchTool(s, c) ==
  Publish([s EXCEPT !.ops = @ + 1, !.op = NewOp(s.ops + 1, "tool", c, <<>>)],
          "tool_admitted", s.ops + 1, CallId(c), Then("effect", "start"))

\* Mutant: only `ask` is a policy.
AdmitToolTrusting(s) ==
  LET c == Head(s.calls)
      t == [s EXCEPT !.calls = Tail(@)]
  IN  IF c.kind = "bad" THEN ToolResult(t, 0, c)
      ELSE IF c.kind = "read" \/ s.policy # "ask" \/ c.approved THEN LaunchTool(t, c)
      ELSE Publish(t, "approval_required", 0, CallId(c), Then("approval", c))

\* admit_tool/2 takes the next call.  A call whose arguments cannot be read, or
\* that the policy forbids, is answered without an operation.
AdmitTool(s) ==
  LET c == Head(s.calls)
      t == [s EXCEPT !.calls = Tail(@)]
  IN  IF c.kind = "bad" THEN ToolResult(t, 0, c)
      ELSE IF c.kind = "read" \/ s.policy = "auto" \/ c.approved THEN LaunchTool(t, c)
      ELSE IF s.policy = "read_only" THEN ToolResult(t, 0, c)
      ELSE Publish(t, "approval_required", 0, CallId(c), Then("approval", c))

\* Mutant: the task is not held until its start is stored.
StartTaskAtOnce(s, spawned) ==
  LET t == [s EXCEPT !.op.effect = "none", !.op.task = TRUE, !.op.sent = {"run"}]
  IN  IF s.op.kind = "tool" THEN Publish(t, "tool_started", s.op.id, None, Then("effect", "release"))
      ELSE Publish([t EXCEPT !.steps = @ + 1, !.status = "running",
                             !.steer = SubSeq(@, Len(s.op.steers) + 1, Len(@))],
                   "model_started", s.op.id, None, Then("effect", "release"))

\* The effect of an admission: the request takes the steers it was admitted
\* with, and the task is spawned behind a gate (or cannot be).  The effect of
\* the start: the gate opens and the timer runs.
StartTask(s, spawned) ==
  LET t == IF s.op.kind = "tool" THEN s
           ELSE [s EXCEPT !.steps = @ + 1, !.status = "running",
                          !.steer = SubSeq(@, Len(s.op.steers) + 1, Len(@))]
      started == IF s.op.kind = "tool" THEN "tool_started" ELSE "model_started"
  IN  IF spawned
      THEN Publish([t EXCEPT !.op.effect = "none", !.op.task = TRUE],
                   started, s.op.id, None, Then("effect", "release"))
      ELSE Settle([t EXCEPT !.op.effect = "none", !.op.down = "launch_failed"])
Release(s) ==
  [s EXCEPT !.op.effect = "none", !.op.timer = TRUE, !.op.sent = @ \cup {"run"}]
RunEffect(s, spawned) == IF s.op.effect = "start" THEN StartTask(s, spawned) ELSE Release(s)

\* Mutant: a pause holds only what is not admitted yet.
EffectIgnoresPause(s, spawned) ==
  IF ~s.stopping THEN RunEffect(s, spawned)
  ELSE IF s.op.task THEN CancelOperation(s)
  ELSE Settle([s EXCEPT !.op.effect = "none", !.op.down = "not_started"])

\* An operation whose effect has not run yet: a stop cancels its task, or says
\* that it never started; a pause holds it.
Effect(s, spawned) ==
  IF s.stopping THEN IF s.op.task THEN CancelOperation(s)
                     ELSE Settle([s EXCEPT !.op.effect = "none", !.op.down = "not_started"])
  ELSE IF s.paused THEN Hold(s)
  ELSE RunEffect(s, spawned)

\* Ask the model again, unless the steps are used up.  (The limit on the size of
\* the conversation ends the run in the same way and is left out.)
NextTurn(s) == IF s.steps >= MaxSteps THEN Finish(s, "failed") ELSE LaunchModel(s)

\* advance/1 with nothing pending and no controls: its clauses, in order.
Advance(s, spawned) ==
  IF s.status \in Terminal \/ s.finishing THEN s
  ELSE IF s.op # None THEN
    IF s.op.down # "no" THEN Settle(s)
    ELSE IF s.op.effect # "none" THEN Effect(s, spawned) ELSE s
  ELSE IF s.stopping THEN Finish(s, "cancelled")
  ELSE IF s.paused THEN Hold(s)
  ELSE IF s.approval # None THEN s
  ELSE IF s.calls # <<>> THEN AdmitTool(s)
  ELSE NextTurn(s)

-----------------------------------------------------------------------------
(* Controls: closures that wait for their turn.  A command's is guarded: it *)
(* answers its caller with an error when the run cannot take it any more.   *)

Guarded(c) == c.k \in {"pause", "continue", "steer", "approval"}
Rejecting(s) == s.finishing \/ s.stopping \/ s.status \in Terminal
\* Mutant: a rejected control answers nobody.
CallersNone(cs) == {}
Callers(cs) == {cs[i].from : i \in {j \in DOMAIN cs : Guarded(cs[j])}}

\* What a control publishes when it runs.
RunControl(s, c) ==
  CASE c.k = "stop"     -> Publish(s, "stop_requested", OpId(s), None, Then("advance", None))
    [] c.k = "timeout"  -> Publish(s, "operation_timeout", OpId(s), None, Then("advance", None))
    [] c.k = "event"    -> Publish(s, "event", OpId(s), None, Then("event", None))
    [] c.k = "pause"    -> Publish(s, "pause_requested", OpId(s), None, Then("pause", c))
    [] c.k = "continue" -> Publish(s, "continued", OpId(s), None,
                             Then("continue", [from |-> c.from, status |->
                               IF s.approval = None THEN "running" ELSE "waiting_approval"]))
    [] c.k = "steer"    -> Publish(s, "steer_admitted", 0, c.id, Then("steer", c))
    [] c.k = "approval" -> Publish(s, "approval_resolved", 0,
                             [call |-> CallId(c.call), decision |-> c.decision],
                             Then("approve", c))

\* drive/1 with nothing pending: the controls that are rejected answer their
\* callers, the first other one publishes, and without one the run advances.
Drive(s, spawned) ==
  LET live == {i \in DOMAIN s.controls : ~Rejecting(s) \/ ~Guarded(s.controls[i])}
      first == CHOOSE i \in live : \A j \in live : i <= j
      n == IF live = {} THEN Len(s.controls) ELSE first - 1
      t == [s EXCEPT !.asked = @ \ Callers(SubSeq(s.controls, 1, n)),
                     !.controls = SubSeq(@, n + 2, Len(@))]
  IN  IF s.pending # None THEN s
      ELSE IF live = {} THEN Advance(t, spawned)
      ELSE RunControl(t, s.controls[first])

-----------------------------------------------------------------------------
(* What follows an acknowledged record.                                    *)

\* Mutant: an accepted control answers nobody.
AnswerNobody(s, c) == s
Answer(s, c) == [s EXCEPT !.asked = @ \ {c}]

\* Mutant: a steer that came meanwhile is not looked at.
AfterTurnDeaf(s, o, result) ==
  IF s.stopping THEN s
  ELSE IF result.k = "cut" THEN Finish(s, "failed")
  ELSE IF result.calls = <<>> THEN Finish(s, "completed")
  ELSE [s EXCEPT !.calls = [i \in 1 .. Len(result.calls) |->
                  [parent |-> o, index |-> i, kind |-> result.calls[i], approved |-> FALSE]]]

\* A turn without calls ends the run unless somebody steered or waits to be
\* heard; a refused or cut-off turn ends it at once.
AfterTurn(s, o, result) ==
  LET calls == [i \in 1 .. Len(result.calls) |->
                  [parent |-> o, index |-> i, kind |-> result.calls[i], approved |-> FALSE]]
  IN  IF s.stopping THEN s
      ELSE IF result.k = "cut" THEN Finish(s, "failed")
      ELSE IF calls = <<>> /\ s.steer = <<>> /\ s.controls = <<>> THEN Finish(s, "completed")
      ELSE [s EXCEPT !.calls = calls]

\* Mutant: a denied call gets no result.
DecideSilently(s, c, decision) ==
  IF decision = "deny" THEN s ELSE [s EXCEPT !.calls = <<[c EXCEPT !.approved = TRUE]>> \o @]

\* An allowed call goes back to the head of the queue; a denied one is answered.
Decide(s, c, decision) ==
  IF decision = "deny" THEN ToolResult(s, 0, c)
  ELSE [s EXCEPT !.calls = <<[c EXCEPT !.approved = TRUE]>> \o @]

\* The continuation `next` of the record that was acknowledged.
Resume(s, rec, next) ==
  CASE next.k = "advance"  -> s
    [] next.k = "pause"    -> [Answer(s, next.arg.from) EXCEPT !.paused = TRUE]
    [] next.k = "continue" -> [Answer(s, next.arg.from) EXCEPT !.paused = FALSE,
                                                              !.status = next.arg.status]
    [] next.k = "steer"    -> [Answer(s, next.arg.from) EXCEPT !.steer = Append(@, next.arg.id)]
    [] next.k = "approve"  ->
         Decide([Answer(s, next.arg.from) EXCEPT !.approval = None, !.status = "running"],
                next.arg.call, next.arg.decision)
    [] next.k = "event"    -> IF s.op = None THEN s ELSE [s EXCEPT !.op.credits = @ + 1]
    [] next.k = "approval" -> [s EXCEPT !.status = "waiting_approval",
                                 !.approval = [k |-> "approval", call |-> next.arg,
                                               resolving |-> FALSE]]
    [] next.k = "effect"   -> [s EXCEPT !.op.effect = next.arg]
    [] next.k = "settled"  ->
         LET t == [s EXCEPT !.op = None]
         IN  IF s.op.kind = "model" THEN ModelResult(t, s.op.id, next.arg)
             ELSE ToolResult(t, s.op.id, s.op.call)
    [] next.k = "turn"     -> AfterTurn(s, rec.op, next.arg)
    [] next.k = "model_failed" -> IF s.stopping THEN s ELSE Finish(s, "failed")
    [] next.k = "paused"   -> [s EXCEPT !.status = "paused"]
    [] next.k = "finish"   -> [s EXCEPT !.status = next.arg, !.approval = None, !.calls = <<>>,
                                 !.steer = <<>>, !.asked = @ \ s.waiters, !.waiters = {}]

-----------------------------------------------------------------------------
(* Steps of the run.                                                       *)

Live(s) == ~s.finishing /\ ~s.stopping /\ s.status \notin Terminal

\* The run goes on as s; an operation that just got a task has a held one.
Become(s) ==
  /\ run' = s
  /\ worker' = IF s.op # None /\ s.op.task /\ worker.op # s.op.id
               THEN Task(s.op.id, "held") ELSE worker

\* drive/1 at the end of a handler; a task it spawns may fail to start.
Go(s) == \E spawned \in BOOLEAN : Become(Drive(s, spawned))

\* Mutant: the acknowledged sequence is not taken over.
CommitAckKeepsSequence ==
  /\ run.alive /\ run.pending # None /\ run.pending.committed
  /\ LET p == run.pending
     IN  Go(Resume([run EXCEPT !.pending = None], p.rec, p.next))
  /\ UNCHANGED <<log, issued>>

\* The append task ended with {:ok, sequence}.
CommitAck ==
  /\ run.alive /\ run.pending # None /\ run.pending.committed
  /\ LET p == run.pending
     IN  Go(Resume([run EXCEPT !.pending = None, !.seq = p.rec.seq], p.rec, p.next))
  /\ UNCHANGED <<log, issued>>

\* The sink failed, died or took too long, or the task supervisor exited: the
\* run stops, terminate/2 stops its tasks, and its callers see it go.
Fence ==
  /\ SinkFails /\ run.alive
  /\ run' = [run EXCEPT !.alive = FALSE, !.asked = {}, !.waiters = {}]
  /\ worker' = [worker EXCEPT !.st = "dead", !.out = <<>>]
  /\ UNCHANGED <<log, issued>>

\* A client that waits for no answer sends a command.
Sends(c, command) ==
  /\ command \in Commands /\ issued < MaxCommands /\ issued' = issued + 1
  /\ run.alive /\ c \notin run.asked

\* enqueue_control/4
Enqueue(s, control) ==
  /\ Len(s.controls) < MaxControls
  /\ Go([s EXCEPT !.asked = @ \cup {control.from}, !.controls = Append(@, control)])

\* stop takes effect at once, even while an append is held.
Stop(c) ==
  /\ Sends(c, "stop") /\ Live(run)
  /\ LET s == CancelOperation([run EXCEPT !.stopping = TRUE])
     IN  Go([s EXCEPT !.controls = <<[k |-> "stop"]>> \o @])
  /\ UNCHANGED log

Pause(c) ==
  /\ Sends(c, "pause") /\ run.status \notin Terminal /\ ~run.finishing
  /\ Enqueue(run, [k |-> "pause", from |-> c])
  /\ UNCHANGED log

Continue(c) ==
  /\ Sends(c, "continue") /\ run.status \notin Terminal /\ ~run.finishing
  /\ Enqueue(run, [k |-> "continue", from |-> c])
  /\ UNCHANGED log

Steer(c) ==
  /\ Sends(c, "steer") /\ Live(run)
  /\ Len(run.steer) + Len(run.controls) < MaxControls
  /\ Enqueue(run, [k |-> "steer", from |-> c, id |-> issued + 1])
  /\ UNCHANGED log

\* Only the first decision on the approval that is pending counts.
Approve(c, decision) ==
  /\ Sends(c, "approve") /\ run.approval # None /\ ~run.approval.resolving /\ ~run.stopping
  /\ Enqueue([run EXCEPT !.approval.resolving = TRUE],
             [k |-> "approval", from |-> c, call |-> run.approval.call, decision |-> decision])
  /\ UNCHANGED log

Await(c) ==
  /\ Sends(c, "await") /\ run.status \notin Terminal /\ Cardinality(run.waiters) < MaxWaiters
  /\ run' = [run EXCEPT !.waiters = @ \cup {c}, !.asked = @ \cup {c}]
  /\ UNCHANGED <<worker, log>>

\* A message of the task of the operation in hand.  The result is kept; the
\* end of the task stops the timer and lets the operation be settled.
Message(kinds) == run.alive /\ run.op # None /\ worker.out # <<>> /\ Head(worker.out).k \in kinds
Received == worker' = [worker EXCEPT !.out = Tail(@)]

OperationEvent ==
  /\ Message({"event"}) /\ Received
  /\ run' = Drive([run EXCEPT !.controls = Append(@, [k |-> "event"])], TRUE)
  /\ UNCHANGED <<log, issued>>
OperationResult ==
  /\ Message({"turn", "cut", "error", "text"}) /\ Received
  /\ run' = [run EXCEPT !.op.result = Head(worker.out)]
  /\ UNCHANGED <<log, issued>>
\* Mutant: the handler does not drive the run on.
OperationDownOnly ==
  /\ Message({"down"}) /\ Received
  /\ run' = [run EXCEPT !.op.timer = FALSE, !.op.down = "exit"]
  /\ UNCHANGED <<log, issued>>
OperationDown ==
  /\ Message({"down"}) /\ Received
  /\ run' = Drive([run EXCEPT !.op.timer = FALSE, !.op.down = "exit"], TRUE)
  /\ UNCHANGED <<log, issued>>

\* The timer fires until the task's end has been heard of.
OperationTimeout ==
  /\ run.alive /\ run.op # None /\ run.op.timer /\ run.op.down = "no"
  /\ LET s == CancelOperation([run EXCEPT !.timedOut = TRUE, !.stopping = TRUE, !.op.timer = FALSE])
     IN  Go([s EXCEPT !.controls = <<[k |-> "timeout"]>> \o @])
  /\ UNCHANGED <<log, issued>>

-----------------------------------------------------------------------------
(* The sink and the task.                                                  *)

\* The sink stores the record it was sent, also after the run has gone.
SinkCommit ==
  /\ run.pending # None /\ ~run.pending.committed
  /\ run' = [run EXCEPT !.pending.committed = TRUE]
  /\ log' = Append(log, run.pending.rec)
  /\ UNCHANGED <<worker, issued>>

Told(m) == run.op # None /\ run.op.id = worker.op /\ m \in run.op.sent
Ends(messages) ==
  /\ worker' = [worker EXCEPT !.st = "dead", !.out = @ \o messages]
  /\ UNCHANGED <<run, log, issued>>
Down == [k |-> "down"]

\* The task begins when it is released, and not at all when it is cancelled first.
TaskBegins ==
  /\ worker.st = "held" /\ Told("run")
  /\ worker' = [worker EXCEPT !.st = "working"]
  /\ UNCHANGED <<run, log, issued>>
TaskRefused ==
  /\ worker.st = "held" /\ Told("cancel") /\ ~Told("run")
  /\ Ends(<<[k |-> "error"], Down>>)

\* It reports progress and waits for the run's answer, or for a cancel.  The
\* command helper sends no more output until the last was answered.
TaskReports ==
  /\ worker.st = "working" /\ worker.events < MaxEvents
  /\ run.op # None /\ run.op.credits >= worker.events
  /\ worker' = [worker EXCEPT !.st = "waiting", !.events = @ + 1, !.out = Append(@, [k |-> "event"])]
  /\ UNCHANGED <<run, log, issued>>
TaskGoesOn ==
  /\ worker.st = "waiting" /\ run.op # None
  /\ run.op.credits >= worker.events \/ Told("cancel")
  /\ worker' = [worker EXCEPT !.st = "working"]
  /\ UNCHANGED <<run, log, issued>>

Results(kind) ==
  IF kind = "tool" THEN {[k |-> "text"]}
  ELSE {[k |-> "turn", calls |-> t] : t \in Turns} \cup {[k |-> "cut"], [k |-> "error"]}
TaskReturns ==
  /\ worker.st = "working" /\ run.op # None
  /\ \E result \in Results(run.op.kind) : Ends(<<result, Down>>)

\* A killed task, and one that crashes, end without a result.
TaskDies ==
  /\ worker.st = "working" \/ (worker.st # "dead" /\ Told("kill"))
  /\ Ends(<<Down>>)

-----------------------------------------------------------------------------

Command(c) == Stop(c) \/ Pause(c) \/ Continue(c) \/ Steer(c) \/ Await(c)
              \/ \E decision \in {"allow", "deny"} : Approve(c, decision)
Handle == CommitAck \/ OperationEvent \/ OperationResult \/ OperationDown \/ OperationTimeout
WorkTask == TaskBegins \/ TaskRefused \/ TaskReports \/ TaskGoesOn \/ TaskReturns \/ TaskDies

Next == Handle \/ Fence \/ SinkCommit \/ WorkTask \/ \E c \in Clients : Command(c)

Spec == Init /\ [][Next]_vars

\* The sink answers within its deadline or the run is fenced; the task answers
\* an exit signal and a cancel; timers fire and messages arrive.
FairSpec ==
  /\ Spec
  /\ WF_vars(SinkCommit) /\ WF_vars(Handle)
  /\ WF_vars(TaskBegins) /\ WF_vars(TaskRefused) /\ WF_vars(TaskGoesOn)
  /\ WF_vars(TaskReturns /\ Told("cancel")) /\ WF_vars(TaskDies /\ Told("kill"))

-----------------------------------------------------------------------------
(* Properties.                                                             *)

Is(i, types) == log[i].type \in types
Records(types) == {i \in DOMAIN log : Is(i, types)}

\* The sequence numbers of the sink have no gap and no repeat, and the run is
\* never ahead of what it was told is stored (publish/5, handle_info :DOWN).
LogMatches ==
  /\ \A i \in DOMAIN log : log[i].seq = i
  /\ run.seq <= Len(log)
  /\ run.alive => Len(log) = IF run.pending # None /\ run.pending.committed
                             THEN run.seq + 1 ELSE run.seq

\* Nothing is ever appended after the final record: a control, an event or a
\* timer that comes late cannot reopen the run (enqueue_control/4, finish/3).
NothingAfterFinished ==
  /\ \A i \in Records({"finished"}) : i = Len(log)
  /\ Records({"finished"}) # {} => run.pending = None \/ run.pending.rec.type = "finished"

\* A task may only run when its admission and its start are stored and not yet
\* its settlement; one that writes, under `ask`, only after a stored allow for
\* its call, and never under `read_only` (launch_task/4, admit_tool/2).
WriteAhead ==
  worker.st \in {"working", "waiting"} /\ run.op # None =>
    LET mine(types) == {i \in Records(types) : log[i].op = run.op.id}
        c == run.op.call
    IN  /\ \E i \in mine({"model_admitted", "tool_admitted"}) :
             \E j \in mine({"model_started", "tool_started"}) : i < j
        /\ mine({"operation_settled"}) = {}
        /\ c # None /\ c.kind # "read" =>
             \/ run.policy = "auto"
             \/ /\ run.policy = "ask"
                /\ \E i \in Records({"approval_resolved"}) :
                     log[i].what = [call |-> CallId(c), decision |-> "allow"]

\* Operations follow one another in the log: each is settled, once, before the
\* next is admitted and before the final record, however it ended.
SettledInTurn ==
  \A i \in Records({"model_admitted", "tool_admitted"}) :
    LET settled == {j \in Records({"operation_settled"}) : log[j].op = log[i].op}
        later == {j \in Records({"model_admitted", "tool_admitted", "finished"}) : i < j}
    IN  /\ Cardinality(settled) <= 1
        /\ \A j \in later : \E k \in settled : i < k /\ k < j

\* Before the model is asked again, and before the run completes, each call of
\* its last answer has exactly one stored result: a provider rejects a
\* conversation with a call that has none (tool_result/4, advance/1).
AnsweredBeforeNext ==
  \A i \in {n \in Records({"model_completed"}) : log[n].what.k = "turn"} :
    LET answers(x) == {j \in Records({"tool_completed"}) :
                         log[j].what = [parent |-> log[i].op, index |-> x]}
        again == {j \in Records({"model_admitted", "finished"}) :
                    i < j /\ (Is(j, {"finished"}) => log[j].what = "completed")}
    IN  \A x \in DOMAIN log[i].what.calls :
          /\ Cardinality(answers(x)) <= 1
          /\ \A j \in again : \E k \in answers(x) : k < j

\* A run whose operation ran out of time is reported failed, whoever stopped or
\* ended it in the same moment (finish/3).
TimeoutFails ==
  \A i \in Records({"finished"}) :
    Records({"operation_timeout"}) # {} \/ run.timedOut => log[i].what = "failed"

\* The log makes sense to its readers, whatever met while it was written: it has
\* one end, its operations follow one another, no call is left without a result
\* and no timeout is reported as something else.
LogInOrder == NothingAfterFinished /\ SettledInTurn /\ AnsweredBeforeNext /\ TimeoutFails

\* A steer the client was told is taken is in exactly one started request when
\* the run completes, and never in two (launch_model/2, model_result/3).
SteersReachModel ==
  LET heard(i) == {j \in Records({"model_admitted"}) :
                     /\ \E x \in DOMAIN log[j].what : log[j].what[x] = log[i].what
                     /\ \E k \in Records({"model_started"}) : log[k].op = log[j].op}
      completed == \E j \in Records({"finished"}) : log[j].what = "completed"
  IN  \A i \in Records({"steer_admitted"}) :
        /\ Cardinality(heard(i)) <= 1
        /\ completed => heard(i) # {}

\* Each caller that waits is held in exactly one place: a control in the queue,
\* the record being written, or the list of waiters.  None is forgotten when
\* the run ends (enqueue_control/4, finish/3).
WaitingAt(c) ==
  {<<"control", i>> : i \in {j \in DOMAIN run.controls :
                               Guarded(run.controls[j]) /\ run.controls[j].from = c}}
  \cup (IF run.pending # None /\ run.pending.next.k \in {"pause", "continue", "steer", "approve"}
           /\ run.pending.next.arg.from = c THEN {<<"record", 0>>} ELSE {})
  \cup (IF c \in run.waiters THEN {<<"waiters", 0>>} ELSE {})
EveryCallAccounted ==
  run.alive => /\ \A c \in Clients : Cardinality(WaitingAt(c)) = IF c \in run.asked THEN 1 ELSE 0
               /\ run.status \in Terminal => run.asked = {}

\* The run never sits idle by a missed drive/1: with nothing to write it is
\* over, its task is running, it is paused, or a person has to decide.
NeverIdle ==
  run.alive /\ run.pending = None /\ run.status \notin Terminal =>
    /\ run.controls = <<>>
    /\ IF run.op = None THEN run.approval # None \/ (run.paused /\ run.status = "paused")
       ELSE /\ run.op.down = "no"
            /\ run.op.effect # "none" => run.stopping \/ (run.paused /\ run.status = "paused")
            /\ run.op.task \/ run.op.effect = "start"

\* What a reader of the log may rely on (RunJournal).
Journal == INSTANCE RunJournal
  WITH journal <- [i \in DOMAIN log |-> [type |-> log[i].type, op |-> log[i].op]],
       doing <- IF worker.st \in {"working", "waiting"} THEN worker.op ELSE 0
WritesAhead == Journal!Spec

\* No step lets a task go, admits one or starts the next turn while the run is
\* stopping, or paused (advance/1: "A queued pause is applied before releasing
\* this task's effect gate").
Releases == run'.op # None /\ "run" \in run'.op.sent /\ ~(run.op # None /\ "run" \in run.op.sent)
Admits == run'.ops > run.ops
ReleaseGate == [][Releases \/ Admits => ~run'.stopping /\ ~run'.paused /\ ~run'.finishing]_vars

\* A stop ends the run, however far the task is and whatever it is waiting for.
StopEnds == run.stopping ~> (run.status \in Terminal \/ ~run.alive)

\* A caller of anything but await is answered.
CommandsAnswered ==
  \A c \in Clients : (c \in run.asked \ run.waiters) ~> (c \notin run.asked \ run.waiters)
=============================================================================
