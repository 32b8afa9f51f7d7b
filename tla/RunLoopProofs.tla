--------------------------- MODULE RunLoopProofs ---------------------------
(***************************************************************************)
(* For every instance of the run: the records of the sink are numbered     *)
(* without a gap (LogMatches), a task works only between its stored start  *)
(* and its settlement and with the approval it needs (WriteAhead), no task *)
(* is let go and no turn begins while the run is stopping or paused        *)
(* (ReleaseGate), the run never sits idle by a missed drive/1 (NeverIdle), *)
(* the log is written as RunJournal says (WritesAhead), has one end, has   *)
(* each operation settled once before the next, and never reports a        *)
(* timeout as something else (parts of LogInOrder).                        *)
(*                                                                         *)
(* A handler is a few assignments and then drive/1, and drive/1 writes at  *)
(* most one record.  So the invariant is stated of a run state s, a task w *)
(* and a log L instead of the variables: it also holds between the two, and *)
(* each function of the model is shown to keep it.  Its heart is the stage *)
(* that the newest operation has reached (At), which the run knows by its  *)
(* fields and the log by its last record that tells.                       *)
(***************************************************************************)
EXTENDS RunLoop, WellFoundedInduction, FiniteSetTheorems, SequenceTheorems, TLAPS

-----------------------------------------------------------------------------
(* Types.                                                                  *)

Decisions == {"allow", "deny"}
CallIds == [parent : Nat, index : Nat]
Calls == [parent : Nat, index : Nat, kind : CallKinds, approved : BOOLEAN]
Turned == [k : {"turn"}, calls : Turns] \cup [k : {"cut"}]
Answers == Turned \cup [k : {"error", "text"}]
Downs == {"no", "exit", "launch_failed", "not_started"}
Ops == [k : {"op"}, id : Nat, kind : {"model", "tool"}, call : Calls \cup {None}, steers : Seq(Nat),
        effect : {"none", "start", "release"}, task : BOOLEAN, timer : BOOLEAN,
        result : Answers \cup {None}, down : Downs, sent : SUBSET {"run", "cancel", "kill"},
        credits : Nat]
Requests == [k : {"approval"}, call : Calls, resolving : BOOLEAN]

Pauses == [k : {"pause"}, from : Clients]
Continues == [k : {"continue"}, from : Clients]
Steers == [k : {"steer"}, from : Clients, id : Nat]
Resolutions == [k : {"approval"}, from : Clients, call : Calls, decision : Decisions]
Controls == [k : {"stop", "timeout", "event"}] \cup Pauses \cup Continues \cup Steers \cup Resolutions

Nexts == [k : {"advance", "paused", "event", "model_failed"}, arg : {None}]
         \cup [k : {"pause"}, arg : Pauses]
         \cup [k : {"continue"}, arg : [from : Clients, status : {"running", "waiting_approval"}]]
         \cup [k : {"steer"}, arg : Steers]
         \cup [k : {"approve"}, arg : Resolutions]
         \cup [k : {"approval"}, arg : Calls]
         \cup [k : {"effect"}, arg : {"start", "release"}]
         \cup [k : {"settled"}, arg : Answers]
         \cup [k : {"turn"}, arg : Turned]
         \cup [k : {"finish"}, arg : Terminal]

\* The records: those that tell the stage of an operation, and the others.
Admission == {"model_admitted", "tool_admitted"}
Start == {"model_started", "tool_started"}
Completion == {"model_completed", "model_failed", "tool_completed"}
Stages == Admission \cup Start \cup Completion \cup {"operation_settled", "finished"}
Notes == {"started", "stop_requested", "operation_timeout", "event", "pause_requested", "continued",
          "steer_admitted", "approval_resolved", "approval_required", "paused"}
Contents == {None} \cup Nat \cup Seq(Nat) \cup Terminal \cup Answers \cup CallIds
            \cup [launch : {"started", "no", "launch_failed", "not_started"}]
            \cup [call : CallIds, decision : Decisions]
Recs == [seq : Nat, type : Notes \cup Stages, op : Nat, what : Contents]
Appends == [k : {"append"}, committed : BOOLEAN, next : Nexts, rec : Recs]

Statuses == {"running", "paused", "waiting_approval"} \cup Terminal
Runs == [policy : Approvals, alive : BOOLEAN, status : Statuses, paused : BOOLEAN, stopping : BOOLEAN,
         finishing : BOOLEAN, timedOut : BOOLEAN, steps : Nat, ops : Nat, seq : Nat,
         op : Ops \cup {None}, calls : Seq(Calls), steer : Seq(Nat), approval : Requests \cup {None},
         controls : Seq(Controls), waiters : SUBSET Clients, asked : SUBSET Clients,
         pending : Appends \cup {None}]

Messages == [k : {"event", "down"}] \cup Answers
Tasks == [op : Nat, st : {"held", "working", "waiting", "dead"}, events : Nat, out : Seq(Messages)]

\* What the operation of a tool carries.
TypedOp(s) == s.op # None /\ s.op.kind = "tool" => s.op.call # None

TypeInv == /\ run \in Runs /\ TypedOp(run)
           /\ worker \in Tasks
           /\ log \in Seq(Recs)
           /\ issued \in Nat

\* A set of numbers that is not empty has a least one.
LEMMA LeastOf ==
    ASSUME NEW S, S \subseteq Nat, S # {} PROVE \E i \in S : \A j \in S : i <= j
<1> DEFINE R == OpToRel(<, Nat)
<1>1. IsWellFoundedOn(R, Nat)
  BY Zenon, NatLessThanWellFounded
<1>2. ASSUME NEW x \in Nat, NEW y \in Nat, x < y PROVE <<x, y>> \in R
  BY <1>2, Zenon DEF OpToRel
<1> HIDE DEF R
<1>3. PICK i \in S : \A j \in S : ~ (<<j, i>> \in R)
  BY <1>1, WFMin
<1>4. ASSUME NEW j \in S PROVE i <= j
  <2>1. i \in Nat /\ j \in Nat
    OBVIOUS
  <2>2. ~ (<<j, i>> \in R)
    BY <1>3
  <2>3. ~ (j < i)
    BY <2>1, <2>2, <1>2
  <2> QED  BY <2>1, <2>3
<1> QED  BY <1>4

\* Nothing is none of the records that may be in its place.
LEMMA NoneApart ==
    /\ \A o \in Ops : o # None
    /\ \A r \in Requests : r # None
    /\ \A p \in Appends : p # None
BY DEF None, Ops, Requests, Appends

LEMMA RecordTypes ==
    ASSUME NEW L \in Seq(Recs), NEW i \in DOMAIN L
    PROVE  L[i] \in Recs /\ L[i].op \in Nat /\ L[i].type \in Notes \cup Stages
<1>1. L[i] \in Recs
  <2> HIDE DEF Recs
  <2> QED  OBVIOUS
<1> QED  BY <1>1 DEF Recs

\* t is s with one record on its way to the sink.
Wrote(s, t, type, op, what, next) ==
    /\ t \in Runs /\ t.pending # None /\ t.pending.committed = FALSE /\ t.pending.next = next
    /\ t.pending.rec.seq = s.seq + 1 /\ t.pending.rec.type = type
    /\ t.pending.rec.op = op /\ t.pending.rec.what = what
    /\ t.policy = s.policy /\ t.alive = s.alive /\ t.status = s.status /\ t.paused = s.paused
    /\ t.stopping = s.stopping /\ t.finishing = s.finishing /\ t.timedOut = s.timedOut
    /\ t.steps = s.steps /\ t.ops = s.ops /\ t.seq = s.seq /\ t.op = s.op /\ t.calls = s.calls
    /\ t.steer = s.steer /\ t.approval = s.approval /\ t.controls = s.controls
    /\ t.waiters = s.waiters /\ t.asked = s.asked

LEMMA PublishWrote ==
    ASSUME NEW s \in Runs, NEW type \in Notes \cup Stages, NEW op \in Nat, NEW what \in Contents,
           NEW next \in Nexts
    PROVE  Wrote(s, Publish(s, type, op, what, next), type, op, what, next)
<1> DEFINE r == [seq |-> s.seq + 1, type |-> type, op |-> op, what |-> what]
           p == [k |-> "append", committed |-> FALSE, next |-> next, rec |-> r]
           t == [s EXCEPT !.pending = p]
<1>1. s.seq \in Nat
  BY DEF Runs
<1>2. r \in Recs
  BY <1>1 DEF Recs
<1> HIDE DEF Recs, Nexts
<1>3. p \in Appends
  BY <1>2 DEF Appends
<1>4. p # None
  BY <1>3, NoneApart
<1> HIDE DEF r, p
<1>5. t \in Runs /\ t.pending = p
  BY <1>3 DEF Runs
<1>6. /\ t.policy = s.policy /\ t.alive = s.alive /\ t.status = s.status /\ t.paused = s.paused
      /\ t.stopping = s.stopping /\ t.finishing = s.finishing /\ t.timedOut = s.timedOut
      /\ t.steps = s.steps /\ t.ops = s.ops /\ t.seq = s.seq /\ t.op = s.op /\ t.calls = s.calls
      /\ t.steer = s.steer /\ t.approval = s.approval /\ t.controls = s.controls
      /\ t.waiters = s.waiters /\ t.asked = s.asked
  BY DEF Runs
<1>7. Publish(s, type, op, what, next) = t
  BY DEF Publish, p, r
<1>8. p.committed = FALSE /\ p.next = next /\ p.rec.seq = s.seq + 1 /\ p.rec.type = type
      /\ p.rec.op = op /\ p.rec.what = what
  BY DEF p, r
<1> HIDE DEF t
<1> QED  BY <1>4, <1>5, <1>6, <1>7, <1>8 DEF Wrote

-----------------------------------------------------------------------------
(* The invariant.                                                          *)

\* The last record of L that tells a stage.
StageOf(L) ==
    LET staged == {i \in DOMAIN L : L[i].type \in Stages}
        last == CHOOSE i \in staged : \A j \in staged : j <= i
    IN  IF staged = {} THEN [type |-> "idle", op |-> 0] ELSE [type |-> L[last].type, op |-> L[last].op]

\* The stage once the record on its way is stored as well.
PendingType(s) == IF s.pending = None THEN "none" ELSE s.pending.rec.type
At(s, L) ==
    IF PendingType(s) \in Stages THEN [type |-> s.pending.rec.type, op |-> s.pending.rec.op]
    ELSE StageOf(L)

\* The records that may come after a stage.
Idle(st) == st.type \in Completion \cup {"idle"}
Follows(st, r) ==
    \/ r.type \in Admission /\ Idle(st)
    \/ r.type \in Start /\ st.type \in Admission /\ r.op = st.op
    \/ r.type = "operation_settled" /\ st.type \in Admission \cup Start /\ r.op = st.op
    \/ r.type \in Completion /\ st.type = "operation_settled" /\ r.op = st.op
    \/ r.type = "tool_completed" /\ Idle(st) /\ r.op = 0
    \/ r.type = "finished" /\ Idle(st)
    \/ r.type \notin Stages /\ st.type # "finished"

\* What a continuation was published with.
Fits(next, type, what) ==
    /\ next.k = "advance" => type \in {"started", "stop_requested", "operation_timeout", "tool_completed"}
    /\ next.k = "pause" => type = "pause_requested"
    /\ next.k = "continue" => type = "continued"
    /\ next.k = "steer" => type = "steer_admitted"
    /\ next.k = "approve" => /\ type = "approval_resolved"
                             /\ what = [call |-> CallId(next.arg.call), decision |-> next.arg.decision]
    /\ next.k = "approval" => type = "approval_required"
    /\ next.k = "event" => type = "event"
    /\ next.k = "paused" => type = "paused"
    /\ next.k = "effect" => IF next.arg = "start" THEN type \in Admission ELSE type \in Start
    /\ next.k = "settled" => type = "operation_settled"
    /\ next.k = "turn" => type = "model_completed" /\ what = next.arg
    /\ next.k = "model_failed" => type = "model_failed"
    /\ next.k = "finish" => type = "finished" /\ what = next.arg

\* The record on its way: it carries the next number, follows the log, and ends
\* the log once it is stored.
Written(s, L) ==
    /\ s.pending = None => Len(L) = s.seq
    /\ s.pending # None =>
         LET r == s.pending.rec
         IN  /\ Fits(s.pending.next, r.type, r.what)
             /\ r.seq = s.seq + 1 /\ r.op <= s.ops
             /\ ~s.pending.committed =>
                  /\ Len(L) = s.seq /\ Follows(StageOf(L), r)
                  /\ r.type \in Admission => \A i \in DOMAIN L : L[i].op < r.op
             /\ s.pending.committed =>
                  /\ Len(L) = s.seq + 1 /\ L[Len(L)] = r
                  /\ r.type \in Stages => StageOf(L) = At(s, L)

\* The operation in hand is at the stage that the log and the record tell.
Phase(s, L) ==
    LET st == At(s, L)
    IN  /\ st.type \in Stages \cup {"idle"}
        /\ (s.op = None) <=> (Idle(st) \/ st.type = "finished")
        /\ s.op # None => s.op.id = s.ops /\ st.op = s.ops
        /\ st.type \in Admission =>
             /\ ~s.op.task /\ s.op.down = "no" /\ s.op.sent = {}
             /\ s.op.effect = IF PendingType(s) \in Admission THEN "none" ELSE "start"
        /\ st.type \in Start =>
             /\ s.op.task /\ s.op.down \in {"no", "exit"} /\ s.op.effect # "start"
             /\ PendingType(s) \in Start => s.op.effect = "none"
             /\ PendingType(s) \in Start \/ s.op.effect = "release" => "run" \notin s.op.sent
        /\ st.type = "operation_settled" => PendingType(s) = "operation_settled" /\ s.op.down # "no"

\* The run is finishing from its last record on.
Ending(s, L) ==
    /\ s.finishing <=> At(s, L).type = "finished"
    /\ s.finishing => PendingType(s) = "finished" \/ (s.pending = None /\ s.status \in Terminal)
    /\ s.status \in Terminal => s.finishing /\ s.pending = None

\* What a waiting control says of the run, and a request for approval.
Queued(s, L) ==
    /\ \A i \in DOMAIN s.controls :
         /\ s.controls[i].k \in {"stop", "timeout"} => s.stopping
         /\ s.controls[i].k = "timeout" => s.timedOut
         /\ s.controls[i].k = "event" => s.op # None /\ At(s, L).type # "operation_settled"
         /\ s.finishing => Guarded(s.controls[i])
         /\ s.controls[i].k = "approval" => s.op = None /\ s.policy = "ask"
    /\ s.pending # None /\ s.pending.next.k \in {"approval", "approve"} => s.op = None /\ s.policy = "ask"
    /\ s.approval # None => s.op = None /\ s.policy = "ask"

\* Calls that are not reads are only run as the policy allows.
Allowed(c, L) ==
    \E i \in DOMAIN L : /\ L[i].type = "approval_resolved"
                        /\ L[i].what = [call |-> CallId(c), decision |-> "allow"]
Cleared(s, L) ==
    /\ \A i \in DOMAIN s.calls : s.calls[i].approved => s.policy = "ask" /\ Allowed(s.calls[i], L)
    /\ s.op # None /\ s.op.call # None /\ s.op.call.kind # "read" =>
         s.policy = "auto" \/ (s.policy = "ask" /\ Allowed(s.op.call, L))

\* A timeout that is stored, or about to be, is known to the run.
Late(s, L) ==
    /\ PendingType(s) = "operation_timeout" => s.timedOut
    /\ PendingType(s) = "finished" /\ s.timedOut => s.pending.rec.what = "failed"
    /\ \A i \in DOMAIN L : L[i].type = "operation_timeout" => s.timedOut
    /\ \A i \in DOMAIN L : L[i].type = "finished" /\ s.timedOut => L[i].what = "failed"

Numbered(s, L) == \A i \in DOMAIN L : L[i].op <= s.ops

\* The task that runs, or has messages under way, is that of the operation in
\* hand, which has not heard of its end.
Active(w) == w.st # "dead" \/ w.out # <<>>
Tasked(s, w) ==
    /\ w.op <= s.ops
    /\ s.op # None /\ w.op = s.op.id => s.op.task
    /\ s.op # None /\ s.op.task /\ w.op # s.op.id => s.op.down = "no"
    /\ Active(w) => s.op # None /\ s.op.task /\ s.op.down = "no" /\ w.op = s.op.id
    /\ w.st \in {"working", "waiting"} => "run" \in s.op.sent

Sound(s, w, L) ==
    /\ Written(s, L) /\ Phase(s, L) /\ Ending(s, L) /\ Queued(s, L)
    /\ Cleared(s, L) /\ Late(s, L) /\ Numbered(s, L) /\ Tasked(s, w)

Good(s, w, L) == s \in Runs /\ TypedOp(s) /\ Sound(s, w, L)

\* When drive/1 is done: what the run may wait for with nothing to write.
Rest(s) ==
    s.pending = None /\ s.status \notin Terminal =>
      /\ s.controls = <<>>
      /\ s.op = None => (s.approval # None) \/ (s.paused /\ s.status = "paused")
      /\ s.op # None => /\ s.op.down = "no"
                        /\ s.op.effect # "none" => s.stopping \/ (s.paused /\ s.status = "paused")

\* From s to t a task was let go or an operation admitted.
LetGo(s) == s.op # None /\ "run" \in s.op.sent
Gated(s, t) == (LetGo(t) /\ ~LetGo(s)) \/ t.ops > s.ops => ~t.stopping /\ ~t.paused /\ ~t.finishing
Quiet(s, t) == t.ops = s.ops /\ (LetGo(t) => LetGo(s))

-----------------------------------------------------------------------------
(* One record is published.                                                *)

\* A record that tells no stage may be published at any time before the end.
LEMMA NoteKeeps ==
    ASSUME NEW s, NEW w \in Tasks, NEW L \in Seq(Recs), Good(s, w, L), s.pending = None, ~s.finishing,
           NEW type \in Notes, NEW op \in Nat, NEW what, NEW next, NEW t,
           Wrote(s, t, type, op, what, next), op <= s.ops,
           Fits(next, type, what),
           next.k \in {"approval", "approve"} => s.op = None /\ s.policy = "ask",
           type = "operation_timeout" => s.timedOut
    PROVE  Good(t, w, L)
<1> DEFINE st == StageOf(L)
<1> HIDE DEF st
<1>1. At(s, L) = st /\ PendingType(s) = "none"
  BY DEF At, PendingType, Stages, Admission, Start, Completion, st
<1>2. PendingType(t) = type /\ type \notin Stages
  BY DEF PendingType, Wrote, Notes, Stages, Admission, Start, Completion
<1>3. At(t, L) = st
  BY <1>2 DEF At, st
<1>4. s \in Runs /\ t \in Runs /\ st.type # "finished" /\ s.status \notin Terminal
  BY <1>1 DEF Good, Sound, Ending, Wrote
<1>5. Written(t, L)
  <2>1. Len(L) = s.seq
    BY DEF Good, Sound, Written
  <2>2. Follows(st, t.pending.rec)
    BY <1>2, <1>4 DEF Follows, Wrote
  <2>3. type \notin Admission
    BY <1>2 DEF Stages
  <2> QED  BY <2>1, <2>2, <2>3, <1>4 DEF Written, Wrote, st
<1>6. Phase(t, L)
  <2>1. type \notin Admission /\ type \notin Start /\ type # "operation_settled"
    BY <1>2 DEF Stages
  <2>2. "none" \notin Admission /\ "none" \notin Start
    BY DEF Admission, Start
  <2>3. t.op = s.op /\ t.ops = s.ops
    BY DEF Wrote
  <2> QED  BY <1>1, <1>2, <1>3, <2>1, <2>2, <2>3 DEF Phase, Good, Sound
<1>7. Ending(t, L)
  BY <1>1, <1>2, <1>3, <1>4 DEF Ending, Good, Sound, Wrote
<1>8. Queued(t, L)
  BY <1>1, <1>3 DEF Queued, Good, Sound, Wrote
<1>9. Cleared(t, L)
  BY DEF Cleared, Good, Sound, Wrote
<1>10. Late(t, L)
  BY <1>2 DEF Late, Good, Sound, Wrote, Stages
<1>11. Numbered(t, L) /\ Tasked(t, w) /\ TypedOp(t)
  BY DEF Numbered, Tasked, TypedOp, Good, Sound, Wrote
<1> QED  BY <1>4, <1>5, <1>6, <1>7, <1>8, <1>9, <1>10, <1>11 DEF Good, Sound
\* A call is answered without an operation.
LEMMA AnswerKeeps ==
    ASSUME NEW s, NEW w \in Tasks, NEW L \in Seq(Recs), Good(s, w, L), s.pending = None, ~s.finishing,
           s.op = None, NEW what, NEW next, NEW t, next.k = "advance",
           Wrote(s, t, "tool_completed", 0, what, next)
    PROVE  Good(t, w, L)
<1> DEFINE st == StageOf(L)
<1> HIDE DEF st
<1>1. At(s, L) = st /\ PendingType(s) = "none"
  BY DEF At, PendingType, Stages, Admission, Start, Completion, st
<1>2. /\ PendingType(t) = "tool_completed" /\ "tool_completed" \in Completion
      /\ "tool_completed" \in Stages /\ "tool_completed" \notin Admission \cup Start
  BY DEF PendingType, Wrote, Stages, Admission, Start, Completion
<1>3. At(t, L).type = "tool_completed"
  BY <1>2 DEF At, Wrote
<1>4. s \in Runs /\ t \in Runs /\ st.type # "finished" /\ s.status \notin Terminal /\ s.ops \in Nat
  BY <1>1 DEF Good, Sound, Ending, Wrote, Runs
<1>5. Idle(st)
  BY <1>1, <1>4 DEF Good, Sound, Phase
<1>6. Written(t, L)
  <2>1. Len(L) = s.seq
    BY DEF Good, Sound, Written
  <2>2. Follows(st, t.pending.rec)
    BY <1>5 DEF Follows, Wrote
  <2>3. Fits(next, "tool_completed", what)
    BY DEF Fits
  <2> QED  BY <2>1, <2>2, <2>3, <1>2, <1>4 DEF Written, Wrote, st
<1>7. Phase(t, L)
  BY <1>2, <1>3 DEF Phase, Wrote, Idle
<1>8. Ending(t, L)
  BY <1>2, <1>3, <1>4 DEF Ending, Wrote
<1>9. Queued(t, L)
  BY <1>3 DEF Queued, Good, Sound, Wrote
<1>10. Late(t, L)
  BY <1>2 DEF Late, Good, Sound, Wrote
<1>11. Cleared(t, L) /\ Numbered(t, L) /\ Tasked(t, w) /\ TypedOp(t)
  BY DEF Cleared, Numbered, Tasked, TypedOp, Good, Sound, Wrote
<1> QED  BY <1>4, <1>6, <1>7, <1>8, <1>9, <1>10, <1>11 DEF Good, Sound

\* The run writes its last record.
LEMMA FinishKeeps ==
    ASSUME NEW s, NEW w \in Tasks, NEW L \in Seq(Recs), Good(s, w, L), s.pending = None, ~s.finishing,
           s.op = None, \A i \in DOMAIN s.controls : Guarded(s.controls[i]),
           NEW status \in Terminal
    PROVE  Good(Finish(s, status), w, L) /\ Quiet(s, Finish(s, status)) /\ Finish(s, status).pending # None
<1> DEFINE st == StageOf(L)
           final == IF s.timedOut THEN "failed" ELSE status
           next == Then("finish", final)
           u == [s EXCEPT !.finishing = TRUE]
           t == Publish(u, "finished", 0, final, next)
<1>0. s \in Runs /\ final \in Terminal /\ final \in Contents /\ "finished" \in Stages /\ 0 \in Nat
  BY DEF Good, Terminal, Contents, Stages
<1>1. u \in Runs /\ u.finishing = TRUE
      /\ u.policy = s.policy /\ u.alive = s.alive /\ u.status = s.status /\ u.stopping = s.stopping
      /\ u.timedOut = s.timedOut /\ u.ops = s.ops /\ u.seq = s.seq /\ u.op = s.op /\ u.calls = s.calls
      /\ u.approval = s.approval /\ u.controls = s.controls
  BY <1>0 DEF Runs
<1>2. next \in Nexts /\ next.k = "finish" /\ next.arg = final
  BY <1>0 DEF Nexts, Then
<1>3. Finish(s, status) = t
  BY DEF Finish
<1>4. s.timedOut => final = "failed"
  OBVIOUS
<1> HIDE DEF st, u, next, final
<1>5. Wrote(u, t, "finished", 0, final, next)
  BY <1>0, <1>1, <1>2, PublishWrote
<1> HIDE DEF t
<1>6. At(s, L) = st /\ PendingType(s) = "none"
  BY DEF At, PendingType, Stages, Admission, Start, Completion, st
<1>7. /\ PendingType(t) = "finished" /\ "finished" \in Stages
      /\ "finished" \notin Admission \cup Start \cup Completion
  BY <1>5 DEF PendingType, Wrote, Stages, Admission, Start, Completion
<1>8. At(t, L).type = "finished"
  BY <1>5, <1>7 DEF At, Wrote
<1>9. st.type # "finished" /\ s.status \notin Terminal /\ s.ops \in Nat
  BY <1>0, <1>6 DEF Good, Sound, Ending, Runs
<1>10. Idle(st)
  BY <1>6, <1>9 DEF Good, Sound, Phase
<1>11. Written(t, L)
  <2>1. Len(L) = s.seq
    BY DEF Good, Sound, Written
  <2>2. Follows(st, t.pending.rec)
    BY <1>5, <1>10 DEF Follows, Wrote
  <2>3. Fits(next, "finished", final)
    BY <1>2 DEF Fits
  <2> QED  BY <2>1, <2>2, <2>3, <1>1, <1>5, <1>7, <1>9 DEF Written, Wrote, st
<1>12. Phase(t, L)
  BY <1>1, <1>5, <1>7, <1>8 DEF Phase, Wrote
<1>13. Ending(t, L)
  BY <1>1, <1>5, <1>7, <1>8, <1>9 DEF Ending, Wrote
<1>14. Queued(t, L)
  BY <1>1, <1>2, <1>5 DEF Queued, Good, Sound, Wrote
<1>15. Late(t, L)
  BY <1>1, <1>4, <1>5, <1>7 DEF Late, Good, Sound, Wrote
<1>16. Cleared(t, L) /\ Numbered(t, L) /\ Tasked(t, w) /\ TypedOp(t) /\ Quiet(s, t) /\ t \in Runs
       /\ t.pending # None
  BY <1>1, <1>5 DEF Cleared, Numbered, Tasked, TypedOp, Quiet, LetGo, Good, Sound, Wrote
<1> QED  BY <1>3, <1>11, <1>12, <1>13, <1>14, <1>15, <1>16 DEF Good, Sound

\* The operation is settled: u is the run with what is known of its end.
LEMMA SettleKeeps ==
    ASSUME NEW u \in Runs, NEW w \in Tasks, NEW L \in Seq(Recs), u.pending = None, TypedOp(u),
           Written(u, L), Ending(u, L), Cleared(u, L), Late(u, L), Numbered(u, L), Tasked(u, w),
           u.controls = <<>>, u.approval = None, u.op # None, u.op.id = u.ops, u.op.down # "no",
           StageOf(L).type \in Admission \cup Start, StageOf(L).op = u.ops
    PROVE  Good(Settle(u), w, L) /\ Quiet(u, Settle(u)) /\ Settle(u).pending # None
<1> DEFINE st == StageOf(L)
           result == IF u.op.result = None THEN [k |-> "error"] ELSE u.op.result
           what == [launch |-> IF u.op.down = "exit" THEN "started" ELSE u.op.down]
           next == Then("settled", result)
           t == Publish(u, "operation_settled", u.op.id, what, next)
<1>1. u.op \in Ops /\ u.op.id \in Nat /\ u.op.down \in Downs /\ u.op.result \in Answers \cup {None}
  <2>1. u.op \in Ops
    BY DEF Runs
  <2> QED  BY <2>1 DEF Ops
<1>2. result \in Answers
  <2>1. [k |-> "error"] \in Answers
    BY DEF Answers
  <2> QED  BY <1>1, <2>1
<1>3. what \in Contents
  BY <1>1 DEF Contents, Downs
<1>4. next \in Nexts /\ next.k = "settled"
  <2> HIDE DEF result
  <2> QED  BY <1>2 DEF Nexts, Then
<1>5. Settle(u) = t
  BY DEF Settle
<1>6. /\ "operation_settled" \in Stages /\ "operation_settled" \notin Admission \cup Start \cup Completion
  BY DEF Stages, Admission, Start, Completion
<1> HIDE DEF st, next, what
<1>7. Wrote(u, t, "operation_settled", u.op.id, what, next)
  BY <1>1, <1>3, <1>4, <1>6, PublishWrote
<1> HIDE DEF t
<1>8. At(u, L) = st /\ PendingType(u) = "none"
  BY DEF At, PendingType, Stages, Admission, Start, Completion, st
<1>9. PendingType(t) = "operation_settled"
  BY <1>7 DEF PendingType, Wrote
<1>10. At(t, L) = [type |-> "operation_settled", op |-> u.ops]
  BY <1>6, <1>7, <1>9 DEF At, Wrote
<1>11. st.type # "finished" /\ ~u.finishing /\ u.status \notin Terminal
  BY <1>8 DEF Ending, st, Admission, Start
<1>12. Written(t, L)
  <2>1. Len(L) = u.seq
    BY DEF Written
  <2>2. Follows(st, t.pending.rec)
    BY <1>7 DEF Follows, Wrote, st
  <2>3. Fits(next, "operation_settled", what)
    BY <1>4 DEF Fits
  <2> QED  BY <2>1, <2>2, <2>3, <1>1, <1>6, <1>7 DEF Written, Wrote, st
<1>13. Phase(t, L)
  BY <1>6, <1>7, <1>9, <1>10 DEF Phase, Wrote, Idle
<1>14. Ending(t, L)
  BY <1>7, <1>9, <1>10, <1>11 DEF Ending, Wrote
<1>15. Queued(t, L)
  BY <1>4, <1>7 DEF Queued, Wrote
<1>16. Late(t, L)
  BY <1>7, <1>9 DEF Late, Wrote
<1>17. Cleared(t, L) /\ Numbered(t, L) /\ Tasked(t, w) /\ TypedOp(t) /\ Quiet(u, t) /\ t \in Runs
       /\ t.pending # None
  BY <1>7 DEF Cleared, Numbered, Tasked, TypedOp, Quiet, LetGo, Wrote
<1> QED  BY <1>5, <1>12, <1>13, <1>14, <1>15, <1>16, <1>17 DEF Good, Sound
-----------------------------------------------------------------------------
(* What the run does for its operation.                                    *)

\* t is s but for its operation, which is now q.
Reop(s, t, q) ==
    /\ t \in Runs /\ t.op = q
    /\ t.policy = s.policy /\ t.alive = s.alive /\ t.status = s.status /\ t.paused = s.paused
    /\ t.stopping = s.stopping /\ t.finishing = s.finishing /\ t.timedOut = s.timedOut
    /\ t.ops = s.ops /\ t.seq = s.seq /\ t.calls = s.calls /\ t.steer = s.steer
    /\ t.approval = s.approval /\ t.controls = s.controls /\ t.pending = s.pending
    /\ t.steps = s.steps /\ t.waiters = s.waiters /\ t.asked = s.asked

LEMMA OpChange ==
    ASSUME NEW s \in Runs, NEW q \in Ops
    PROVE  Reop(s, [s EXCEPT !.op = q], q) /\ q # None
<1>1. q # None
  BY NoneApart
<1> HIDE DEF Ops
<1> QED  BY <1>1 DEF Runs, Reop

\* A message to the task is no other change.
LEMMA CancelKeeps ==
    ASSUME NEW s, NEW w \in Tasks, NEW L \in Seq(Recs), Good(s, w, L)
    PROVE  LET t == CancelOperation(s)
           IN  Good(t, w, L) /\ Quiet(s, t) /\ (s.op = None => t = s)
               /\ (s.op # None => /\ t.op # None /\ Reop(s, t, t.op)
                                  /\ t.op.effect = s.op.effect /\ t.op.down = s.op.down
                                  /\ t.op.timer = s.op.timer)
<1> DEFINE t == CancelOperation(s)
           m == IF s.op.kind = "tool" /\ s.op.call.kind = "command" THEN "cancel" ELSE "kill"
           q == [s.op EXCEPT !.sent = @ \cup {m}]
<1>0. s \in Runs
  BY DEF Good
<1>1. CASE s.op = None
  <2>1. t = s
    BY <1>1 DEF CancelOperation
  <2> QED  BY <1>1, <2>1 DEF Quiet
<1>2. CASE s.op # None /\ ~s.op.task
  <2>1. t = s
    BY <1>2 DEF CancelOperation
  <2> QED  BY <1>0, <1>2, <2>1 DEF Quiet, Reop
<1>3. CASE s.op # None /\ s.op.task
  <2>1. s.op \in Ops
    BY <1>0, <1>3 DEF Runs
  <2>2. t = [s EXCEPT !.op = q]
    BY <1>0, <1>3 DEF CancelOperation, Runs
  <2>3. m \in {"cancel", "kill"}
    OBVIOUS
  <2> HIDE DEF m
  <2>4. /\ q \in Ops /\ q.id = s.op.id /\ q.kind = s.op.kind /\ q.call = s.op.call /\ q.effect = s.op.effect
        /\ q.task = s.op.task /\ q.down = s.op.down /\ q.timer = s.op.timer /\ q.sent = s.op.sent \cup {m}
    BY <2>1, <2>3 DEF Ops
  <2> HIDE DEF q, t
  <2>5. Reop(s, t, q) /\ q # None
    BY <1>0, <2>2, <2>4, OpChange
  <2>6. At(t, L) = At(s, L) /\ PendingType(t) = PendingType(s)
    BY <2>5 DEF Reop, At, PendingType
  <2>7. Written(t, L)
    BY <2>5, <2>6 DEF Written, Good, Sound, Reop
  <2>8. Phase(t, L)
    <3>1. "run" \in q.sent <=> "run" \in s.op.sent
      BY <2>3, <2>4
    <3>2. At(s, L).type \notin Admission
      BY <1>3 DEF Good, Sound, Phase
    <3>3. t.op = q /\ t.ops = s.ops
      BY <2>5 DEF Reop
    <3> QED  BY <1>3, <2>4, <2>5, <2>6, <3>1, <3>2, <3>3 DEF Phase, Good, Sound
  <2>9. Ending(t, L) /\ Queued(t, L) /\ Late(t, L) /\ Numbered(t, L)
    BY <1>3, <2>5, <2>6 DEF Ending, Queued, Late, Numbered, Good, Sound, Reop
  <2>10. Cleared(t, L) /\ TypedOp(t) /\ Tasked(t, w)
    BY <1>3, <2>4, <2>5 DEF Cleared, TypedOp, Tasked, Good, Sound, Reop
  <2>11. Quiet(s, t)
    BY <1>3, <2>3, <2>4, <2>5 DEF Quiet, LetGo, Reop
  <2> QED  BY <1>3, <2>4, <2>5, <2>7, <2>8, <2>9, <2>10, <2>11 DEF Good, Sound, Reop, t
<1> QED  BY <1>1, <1>2, <1>3

\* What drive/1 leaves.
Driven(s, t, w, L) == Good(t, w, L) /\ Rest(t) /\ Gated(s, t)

\* A paused run says so once.
LEMMA HoldKeeps ==
    ASSUME NEW s, NEW w \in Tasks, NEW L \in Seq(Recs), Good(s, w, L), s.pending = None, ~s.finishing,
           s.paused, s.controls = <<>>, s.op # None => s.op.down = "no"
    PROVE  Driven(s, Hold(s), w, L)
<1>1. CASE s.status = "paused"
  <2>1. Hold(s) = s
    BY <1>1 DEF Hold
  <2>2. s.ops \in Nat
    BY DEF Good, Runs
  <2> QED  BY <1>1, <2>1, <2>2 DEF Driven, Rest, Gated
<1>2. CASE s.status # "paused"
  <2> DEFINE next == Then("paused", None)
             t == Publish(s, "paused", 0, None, next)
  <2>1. Hold(s) = t
    BY <1>2 DEF Hold
  <2>2. next \in Nexts /\ next.k = "paused" /\ None \in Contents /\ "paused" \in Notes /\ 0 \in Nat
    BY DEF Then, Nexts, Contents, Notes
  <2> HIDE DEF next
  <2>3. s \in Runs /\ s.ops \in Nat
    BY DEF Good, Runs
  <2>4. Wrote(s, t, "paused", 0, None, next)
    BY <2>2, <2>3, PublishWrote
  <2> HIDE DEF t
  <2>5. Fits(next, "paused", None)
    BY <2>2 DEF Fits
  <2>6. 0 <= s.ops
    BY <2>3
  <2>7. Good(t, w, L)
    BY <2>2, <2>4, <2>5, <2>6, NoteKeeps
  <2>8. Rest(t) /\ Gated(s, t)
    BY <2>3, <2>4 DEF Rest, Gated, LetGo, Wrote
  <2> QED  BY <2>1, <2>7, <2>8 DEF Driven
<1> QED  BY <1>1, <1>2

\* An operation is admitted: t is u with the record of it, u is s with the
\* operation.
LEMMA AdmissionKeeps ==
    ASSUME NEW s, NEW w \in Tasks, NEW L \in Seq(Recs), Good(s, w, L), s.pending = None, ~s.finishing,
           s.op = None, s.approval = None, s.controls = <<>>, ~s.stopping, ~s.paused,
           NEW kind \in {"model", "tool"}, NEW call \in Calls \cup {None}, NEW steers \in Seq(Nat),
           kind = "tool" => call # None,
           call # None /\ call.kind # "read" =>
             s.policy = "auto" \/ (s.policy = "ask" /\ Allowed(call, L)),
           NEW type \in Admission, NEW what \in Contents, NEW t,
           t = Publish([s EXCEPT !.ops = @ + 1, !.op = NewOp(s.ops + 1, kind, call, steers)],
                       type, s.ops + 1, what, Then("effect", "start"))
    PROVE  Driven(s, t, w, L)
<1> DEFINE st == StageOf(L)
           o == NewOp(s.ops + 1, kind, call, steers)
           u == [s EXCEPT !.ops = @ + 1, !.op = o]
           next == Then("effect", "start")
<1>0. s \in Runs /\ s.ops \in Nat /\ type \in Notes \cup Stages /\ type \in Stages
      /\ type \notin Start \cup Completion /\ type \notin {"finished", "operation_settled"}
  BY DEF Good, Runs, Stages, Admission, Start, Completion
<1>1. o \in Ops /\ o.id = s.ops + 1 /\ o.kind = kind /\ o.call = call /\ o.effect = "none"
      /\ o.task = FALSE /\ o.down = "no" /\ o.sent = {}
  <2> HIDE DEF Calls
  <2> QED  BY <1>0 DEF Ops, NewOp, Downs
<1>2. o # None
  BY <1>1, NoneApart
<1>3. next \in Nexts /\ next.k = "effect" /\ next.arg = "start"
  BY DEF Nexts, Then
<1>4. t = Publish(u, type, s.ops + 1, what, next)
  OBVIOUS
<1> HIDE DEF st, o, next
<1>5. u \in Runs /\ u.ops = s.ops + 1 /\ u.op = o
      /\ u.policy = s.policy /\ u.alive = s.alive /\ u.status = s.status /\ u.stopping = s.stopping
      /\ u.finishing = s.finishing /\ u.paused = s.paused
      /\ u.timedOut = s.timedOut /\ u.seq = s.seq /\ u.calls = s.calls
      /\ u.approval = s.approval /\ u.controls = s.controls
  <2> HIDE DEF Ops
  <2>1. s.ops + 1 \in Nat
    BY <1>0
  <2>2. u \in Runs
    BY <1>0, <1>1, <2>1 DEF Runs
  <2> QED  BY <1>0, <2>2 DEF Runs
<1> HIDE DEF u
<1>6. Wrote(u, t, type, s.ops + 1, what, next)
  <2>1. s.ops + 1 \in Nat
    BY <1>0
  <2>2. Wrote(u, Publish(u, type, s.ops + 1, what, next), type, s.ops + 1, what, next)
    BY <1>0, <1>3, <1>5, <2>1, PublishWrote
  <2> QED  BY <1>4, <2>2
<1>7. At(s, L) = st /\ PendingType(s) = "none"
  BY DEF At, PendingType, Stages, Admission, Start, Completion, st
<1>8. PendingType(t) = type /\ At(t, L) = [type |-> type, op |-> s.ops + 1]
  BY <1>0, <1>6 DEF PendingType, At, Wrote
<1>9. st.type # "finished" /\ s.status \notin Terminal
  BY <1>7 DEF Good, Sound, Ending
<1>10. Idle(st)
  BY <1>7, <1>9 DEF Good, Sound, Phase
<1>11. Written(t, L)
  <2>1. Len(L) = s.seq
    BY DEF Good, Sound, Written
  <2>2. Follows(st, t.pending.rec)
    BY <1>6, <1>10 DEF Follows, Wrote
  <2>3. Fits(next, type, what)
    BY <1>3 DEF Fits
  <2>4. \A i \in DOMAIN L : L[i].op < s.ops + 1
    <3>1. \A i \in DOMAIN L : L[i].op \in Nat /\ L[i].op <= s.ops
      BY RecordTypes DEF Good, Sound, Numbered
    <3> QED  BY <1>0, <3>1
  <2>5. st = StageOf(L)
    BY DEF st
  <2> QED  BY <2>1, <2>2, <2>3, <2>4, <2>5, <1>0, <1>5, <1>6 DEF Written, Wrote
<1>12. Phase(t, L)
  <2>1. t.op = o /\ t.ops = s.ops + 1
    BY <1>5, <1>6 DEF Wrote
  <2>2. ~Idle(At(t, L))
    <3>1. type \notin Completion /\ type # "idle"
      BY <1>0 DEF Admission
    <3> QED  BY <1>8, <3>1 DEF Idle
  <2> QED  BY <1>0, <1>1, <1>2, <1>8, <2>1, <2>2 DEF Phase
<1>13. Ending(t, L)
  BY <1>0, <1>5, <1>6, <1>8, <1>9, SMTT(40) DEF Ending, Wrote
<1>14. Queued(t, L)
  BY <1>3, <1>5, <1>6 DEF Queued, Good, Sound, Wrote
<1>15. Late(t, L)
  BY <1>0, <1>5, <1>6, <1>8 DEF Late, Good, Sound, Wrote, Admission
<1>16. Numbered(t, L) /\ TypedOp(t)
  <2>1. \A i \in DOMAIN L : L[i].op \in Nat
    BY RecordTypes
  <2> QED  BY <1>0, <1>1, <1>5, <1>6, <2>1 DEF Numbered, TypedOp, Good, Sound, Wrote
<1>17. Cleared(t, L)
  BY <1>1, <1>5, <1>6 DEF Cleared, Good, Sound, Wrote
<1>18. Tasked(t, w)
  <2>1. w.op \in Nat
    BY DEF Tasks
  <2> QED  BY <2>1, <1>0, <1>1, <1>5, <1>6 DEF Tasked, Active, Good, Sound, Wrote
<1>19. Rest(t) /\ Gated(s, t) /\ t \in Runs
  BY <1>5, <1>6 DEF Rest, Gated, Wrote
<1> QED  BY <1>11, <1>12, <1>13, <1>14, <1>15, <1>16, <1>17, <1>18, <1>19 DEF Driven, Good, Sound
\* t is s but for the calls that are left.
Recall(s, t, cs) ==
    /\ t \in Runs /\ t.calls = cs
    /\ t.policy = s.policy /\ t.alive = s.alive /\ t.status = s.status /\ t.paused = s.paused
    /\ t.stopping = s.stopping /\ t.finishing = s.finishing /\ t.timedOut = s.timedOut
    /\ t.ops = s.ops /\ t.seq = s.seq /\ t.op = s.op /\ t.steer = s.steer
    /\ t.approval = s.approval /\ t.controls = s.controls /\ t.pending = s.pending

LEMMA CallsKeep ==
    ASSUME NEW s, NEW w \in Tasks, NEW L \in Seq(Recs), Good(s, w, L), NEW cs \in Seq(Calls),
           \A i \in DOMAIN cs : cs[i].approved => s.policy = "ask" /\ Allowed(cs[i], L)
    PROVE  LET t == [s EXCEPT !.calls = cs] IN Good(t, w, L) /\ Recall(s, t, cs)
<1> DEFINE t == [s EXCEPT !.calls = cs]
<1> HIDE DEF Calls
<1>1. s \in Runs
  BY DEF Good
<1>2. Recall(s, t, cs)
  BY <1>1 DEF Runs, Recall
<1> HIDE DEF t
<1>3. At(t, L) = At(s, L) /\ PendingType(t) = PendingType(s)
  BY <1>2 DEF Recall, At, PendingType
<1>4. Written(t, L) /\ Phase(t, L) /\ Ending(t, L)
  BY <1>2, <1>3 DEF Written, Phase, Ending, Recall, Good, Sound
<1>5. Queued(t, L) /\ Late(t, L) /\ Numbered(t, L)
  BY <1>2, <1>3 DEF Queued, Late, Numbered, Recall, Good, Sound
<1>6. Cleared(t, L) /\ Tasked(t, w) /\ TypedOp(t) /\ t \in Runs
  BY <1>2 DEF Cleared, Tasked, TypedOp, Recall, Good, Sound
<1>7. Good(t, w, L)
  BY <1>4, <1>5, <1>6 DEF Good, Sound
<1> QED  BY <1>2, <1>7 DEF t

LEMMA FirstCall ==
    ASSUME NEW cs \in Seq(Calls), cs # <<>>
    PROVE  /\ Head(cs) \in Calls /\ Tail(cs) \in Seq(Calls) /\ Head(cs) = cs[1] /\ 1 \in DOMAIN cs
           /\ \A i \in DOMAIN Tail(cs) : i + 1 \in DOMAIN cs /\ Tail(cs)[i] = cs[i + 1]
<1> HIDE DEF Calls
<1> QED  OBVIOUS

\* A call's identifier, and the call in a continuation.
LEMMA CallTypes ==
    ASSUME NEW c \in Calls
    PROVE  /\ CallId(c) \in CallIds /\ CallId(c) \in Contents /\ c # None
           /\ Then("approval", c) \in Nexts /\ Then("approval", c).k = "approval"
           /\ Then("advance", None) \in Nexts /\ Then("advance", None).k = "advance"
<1>1. CallId(c) \in CallIds
  BY DEF CallId, CallIds, Calls
<1>2. c # None
  BY DEF Calls, None
<1> HIDE DEF Calls, CallIds
<1> QED  BY <1>1, <1>2 DEF Contents, Nexts, Then

\* A call is answered at once.
LEMMA ToolResultKeeps ==
    ASSUME NEW s, NEW w \in Tasks, NEW L \in Seq(Recs), Good(s, w, L), s.pending = None, ~s.finishing,
           s.op = None, NEW c \in Calls
    PROVE  LET t == ToolResult(s, 0, c)
           IN  Good(t, w, L) /\ Quiet(s, t) /\ t.pending # None
<1> DEFINE t == ToolResult(s, 0, c)
           next == Then("advance", None)
<1>1. s \in Runs /\ "tool_completed" \in Notes \cup Stages /\ 0 \in Nat
  BY DEF Good, Stages, Completion
<1>2. next \in Nexts /\ next.k = "advance" /\ CallId(c) \in Contents
  BY CallTypes
<1>3. t = Publish(s, "tool_completed", 0, CallId(c), next)
  BY DEF ToolResult
<1> HIDE DEF t, next
<1>4. Wrote(s, t, "tool_completed", 0, CallId(c), next)
  <2>1. Wrote(s, Publish(s, "tool_completed", 0, CallId(c), next), "tool_completed", 0, CallId(c), next)
    BY <1>1, <1>2, PublishWrote
  <2> QED  BY <1>3, <2>1
<1>5. Good(t, w, L)
  BY <1>2, <1>4, AnswerKeeps
<1>6. Quiet(s, t) /\ t.pending # None
  BY <1>4 DEF Wrote, Quiet, LetGo
<1> QED  BY <1>5, <1>6 DEF t

\* The next call is admitted, answered or shown to a person.
LEMMA AdmitToolKeeps ==
    ASSUME NEW s, NEW w \in Tasks, NEW L \in Seq(Recs), Good(s, w, L), s.pending = None, ~s.finishing,
           s.op = None, s.approval = None, s.controls = <<>>, ~s.stopping, ~s.paused, s.calls # <<>>
    PROVE  Driven(s, AdmitTool(s), w, L)
<1> DEFINE c == Head(s.calls)
           t == [s EXCEPT !.calls = Tail(s.calls)]
<1>0. s \in Runs /\ s.calls \in Seq(Calls) /\ s.ops \in Nat /\ s.policy \in {"auto", "ask", "read_only"}
  BY RunAssumption DEF Good, Runs
<1>1. c \in Calls /\ Tail(s.calls) \in Seq(Calls)
  BY <1>0, FirstCall
<1>2. c.approved => s.policy = "ask" /\ Allowed(c, L)
  BY <1>0, FirstCall DEF Good, Sound, Cleared
<1>3. \A i \in DOMAIN Tail(s.calls) : Tail(s.calls)[i].approved =>
        s.policy = "ask" /\ Allowed(Tail(s.calls)[i], L)
  BY <1>0, FirstCall DEF Good, Sound, Cleared
<1>4. Good(t, w, L) /\ Recall(s, t, Tail(s.calls))
  BY <1>1, <1>3, CallsKeep
<1> HIDE DEF t, c
<1>5. t.pending = None /\ ~t.finishing /\ t.op = None /\ t.approval = None /\ t.controls = <<>>
      /\ ~t.stopping /\ ~t.paused /\ t.policy = s.policy /\ t.ops = s.ops /\ t \in Runs
  BY <1>4 DEF Recall
<1>6. \A x : Quiet(t, x) /\ x.pending # None => Rest(x) /\ Gated(s, x)
  BY <1>0, <1>5 DEF Quiet, Gated, Rest, LetGo
<1>7. Driven(t, ToolResult(t, 0, c), w, L) /\ Gated(s, ToolResult(t, 0, c))
  <2> DEFINE x == ToolResult(t, 0, c)
  <2>1. Good(x, w, L) /\ Quiet(t, x) /\ x.pending # None
    BY <1>1, <1>4, <1>5, ToolResultKeeps
  <2> HIDE DEF x
  <2>2. Gated(t, x)
    BY <1>0, <1>5, <2>1 DEF Quiet, Gated
  <2> QED  BY <1>6, <2>1, <2>2 DEF Driven, x
<1>8. CASE c.kind = "bad" \/ (c.kind # "read" /\ s.policy = "read_only" /\ ~c.approved)
  <2>1. AdmitTool(s) = ToolResult(t, 0, c)
    BY <1>8 DEF AdmitTool, c, t
  <2> QED  BY <1>7, <2>1 DEF Driven
<1>9. CASE c.kind # "bad" /\ (c.kind = "read" \/ s.policy = "auto" \/ c.approved)
  <2> DEFINE x == LaunchTool(t, c)
  <2>1. AdmitTool(s) = x
    <3>1. s.policy = t.policy
      BY <1>5
    <3> QED  BY <1>9, <3>1 DEF AdmitTool, c, t
  <2>2. x = Publish([t EXCEPT !.ops = @ + 1, !.op = NewOp(t.ops + 1, "tool", c, <<>>)],
                    "tool_admitted", t.ops + 1, CallId(c), Then("effect", "start"))
    BY DEF LaunchTool
  <2>3. /\ "tool_admitted" \in Admission /\ CallId(c) \in Contents /\ <<>> \in Seq(Nat)
        /\ c \in Calls \cup {None} /\ c # None /\ "tool" \in {"model", "tool"}
    BY <1>1, CallTypes DEF Admission
  <2>4. c.kind # "read" => t.policy = "auto" \/ (t.policy = "ask" /\ Allowed(c, L))
    BY <1>2, <1>5, <1>9
  <2> HIDE DEF x
  <2>5. Driven(t, x, w, L)
    BY <1>4, <1>5, <2>2, <2>3, <2>4, AdmissionKeeps
  <2>6. Gated(s, x)
    BY <1>4, <1>5, <2>5 DEF Driven, Gated, LetGo, Recall
  <2> QED  BY <2>1, <2>5, <2>6 DEF Driven
<1>10. CASE c.kind # "bad" /\ c.kind # "read" /\ s.policy = "ask" /\ ~c.approved
  <2> DEFINE next == Then("approval", c)
             x == Publish(t, "approval_required", 0, CallId(c), next)
  <2>1. AdmitTool(s) = x
    BY <1>10 DEF AdmitTool, c, t
  <2>2. next \in Nexts /\ next.k = "approval" /\ CallId(c) \in Contents
    BY <1>1, CallTypes
  <2> HIDE DEF next
  <2>3. "approval_required" \in Notes /\ 0 \in Nat /\ 0 <= t.ops /\ Fits(next, "approval_required", CallId(c))
    BY <1>0, <1>5, <2>2 DEF Notes, Fits
  <2>4. Wrote(t, x, "approval_required", 0, CallId(c), next)
    BY <1>5, <2>2, <2>3, PublishWrote
  <2> HIDE DEF x
  <2>5. Good(x, w, L)
    BY <1>4, <1>5, <1>10, <2>2, <2>3, <2>4, NoteKeeps
  <2>6. Quiet(t, x) /\ x.pending # None
    BY <2>4 DEF Wrote, Quiet, LetGo
  <2> QED  BY <1>6, <2>1, <2>5, <2>6 DEF Driven
<1> QED  BY <1>0, <1>8, <1>9, <1>10

\* The model is asked again, unless the steps are used up.
LEMMA NextTurnKeeps ==
    ASSUME NEW s, NEW w \in Tasks, NEW L \in Seq(Recs), Good(s, w, L), s.pending = None, ~s.finishing,
           s.op = None, s.approval = None, s.controls = <<>>, ~s.stopping, ~s.paused
    PROVE  Driven(s, NextTurn(s), w, L)
<1>0. s \in Runs /\ s.ops \in Nat /\ s.steer \in Seq(Nat)
  BY DEF Good, Runs
<1>1. CASE s.steps >= MaxSteps
  <2> DEFINE x == Finish(s, "failed")
  <2>1. NextTurn(s) = x
    BY <1>1 DEF NextTurn
  <2>2. "failed" \in Terminal /\ \A i \in DOMAIN s.controls : Guarded(s.controls[i])
    BY DEF Terminal
  <2>3. Good(x, w, L) /\ Quiet(s, x) /\ x.pending # None
    BY <2>2, FinishKeeps
  <2> HIDE DEF x
  <2> QED  BY <1>0, <2>1, <2>3 DEF Driven, Rest, Gated, Quiet
<1>2. CASE ~(s.steps >= MaxSteps)
  <2> DEFINE x == LaunchModel(s)
  <2>1. NextTurn(s) = x
    BY <1>2 DEF NextTurn
  <2>2. x = Publish([s EXCEPT !.ops = @ + 1, !.op = NewOp(s.ops + 1, "model", None, s.steer)],
                    "model_admitted", s.ops + 1, s.steer, Then("effect", "start"))
    BY DEF LaunchModel
  <2>3. "model_admitted" \in Admission /\ s.steer \in Contents /\ None \in Calls \cup {None}
        /\ "model" \in {"model", "tool"}
    BY <1>0 DEF Admission, Contents
  <2> HIDE DEF x
  <2>4. Driven(s, x, w, L)
    BY <1>0, <2>2, <2>3, AdmissionKeeps
  <2> QED  BY <2>1, <2>4
<1> QED  BY <1>1, <1>2
\* The operation in hand, with nothing to write: it is admitted or started.
LEMMA InHand ==
    ASSUME NEW s, NEW w \in Tasks, NEW L \in Seq(Recs), Good(s, w, L), s.pending = None, s.op # None
    PROVE  /\ s \in Runs /\ s.op \in Ops /\ s.ops \in Nat /\ s.op.id = s.ops /\ s.approval = None
           /\ StageOf(L) = At(s, L) /\ StageOf(L).op = s.ops /\ PendingType(s) = "none"
           /\ StageOf(L).type \in Admission \cup Start
           /\ StageOf(L).type \in Admission <=> ~s.op.task
           /\ StageOf(L).type \in Admission <=> s.op.effect = "start"
           /\ ~s.finishing /\ s.status \notin Terminal
<1>1. s \in Runs /\ s.op \in Ops /\ s.ops \in Nat
  BY DEF Good, Runs
<1>2. At(s, L) = StageOf(L) /\ PendingType(s) = "none"
  BY DEF At, PendingType, Stages, Admission, Start, Completion
<1>3. StageOf(L).type \in Admission \cup Start /\ StageOf(L).op = s.ops /\ s.op.id = s.ops
  <2>1. StageOf(L).type \in Stages \cup {"idle"} /\ ~Idle(StageOf(L)) /\ StageOf(L).type # "finished"
        /\ StageOf(L).type # "operation_settled" /\ StageOf(L).op = s.ops /\ s.op.id = s.ops
    BY <1>2 DEF Good, Sound, Phase
  <2> QED  BY <2>1 DEF Idle, Stages
<1>4. \A type \in Admission : type \notin Start /\ type # "finished"
  BY DEF Admission, Start
<1>5. /\ StageOf(L).type \in Admission => ~s.op.task /\ s.op.effect = "start"
      /\ StageOf(L).type \in Start => s.op.task /\ s.op.effect # "start"
  BY <1>2 DEF Good, Sound, Phase, Admission
<1>6. ~s.finishing /\ s.status \notin Terminal /\ s.approval = None
  BY <1>2, <1>3, <1>4 DEF Good, Sound, Ending, Queued, Start
<1> QED  BY <1>1, <1>2, <1>3, <1>4, <1>5, <1>6

\* An operation that will not start, or whose start cannot be, is settled.
LEMMA NeverStarted ==
    ASSUME NEW s, NEW w \in Tasks, NEW L \in Seq(Recs), Good(s, w, L), s.pending = None, s.op # None,
           s.controls = <<>>, ~s.op.task, NEW down \in {"launch_failed", "not_started"}
    PROVE  Driven(s, Settle([s EXCEPT !.op.effect = "none", !.op.down = down]), w, L)
<1> DEFINE q == [s.op EXCEPT !.effect = "none", !.down = down]
           u == [s EXCEPT !.op.effect = "none", !.op.down = down]
           x == Settle(u)
<1>1. /\ s \in Runs /\ s.op \in Ops /\ s.ops \in Nat /\ s.op.id = s.ops /\ s.approval = None
      /\ StageOf(L) = At(s, L) /\ StageOf(L).op = s.ops /\ PendingType(s) = "none"
      /\ StageOf(L).type \in Admission \cup Start
  BY InHand
<1>2. u = [s EXCEPT !.op = q]
  BY <1>1 DEF Runs, Ops
<1>3. /\ q \in Ops /\ q.id = s.op.id /\ q.kind = s.op.kind /\ q.call = s.op.call
      /\ q.task = s.op.task /\ q.down = down /\ q.sent = s.op.sent
  BY <1>1 DEF Ops, Downs
<1> HIDE DEF q, u
<1>4. Reop(s, u, q) /\ q # None
  BY <1>1, <1>2, <1>3, OpChange
<1>5. At(u, L) = At(s, L) /\ PendingType(u) = "none" /\ u.pending = None
  BY <1>1, <1>4 DEF Reop, At, PendingType
<1>6. Written(u, L) /\ Ending(u, L) /\ Late(u, L) /\ Numbered(u, L)
  BY <1>1, <1>4, <1>5 DEF Written, Ending, Late, Numbered, Reop, Good, Sound
<1>7. Cleared(u, L) /\ TypedOp(u) /\ Tasked(u, w) /\ u \in Runs
  BY <1>3, <1>4 DEF Cleared, TypedOp, Tasked, Reop, Good, Sound
<1>8. u.controls = <<>> /\ u.approval = None /\ u.op # None /\ u.op.id = u.ops /\ u.op.down # "no"
      /\ u.ops = s.ops /\ u.op = q
  BY <1>1, <1>3, <1>4 DEF Reop
<1>9. Good(x, w, L) /\ Quiet(u, x) /\ x.pending # None
  BY <1>1, <1>5, <1>6, <1>7, <1>8, SettleKeeps
<1> HIDE DEF x
<1>10. Gated(s, x) /\ Rest(x)
  BY <1>1, <1>3, <1>8, <1>9 DEF Gated, Quiet, LetGo, Rest
<1> QED  BY <1>9, <1>10 DEF Driven, x, u

\* The start of a task: t is u with the record of it, u is s with the task.
LEMMA StartKeeps ==
    ASSUME NEW s, NEW w \in Tasks, NEW L \in Seq(Recs), Good(s, w, L), s.pending = None, s.op # None,
           s.op.effect = "start", NEW type \in Start, NEW x,
           x = Publish([s EXCEPT !.op.effect = "none", !.op.task = TRUE], type, s.op.id, None,
                       Then("effect", "release"))
    PROVE  Driven(s, x, w, L)
<1> DEFINE q == [s.op EXCEPT !.effect = "none", !.task = TRUE]
           u == [s EXCEPT !.op.effect = "none", !.op.task = TRUE]
           next == Then("effect", "release")
<1>1. /\ s \in Runs /\ s.op \in Ops /\ s.ops \in Nat /\ s.op.id = s.ops /\ s.approval = None
      /\ StageOf(L) = At(s, L) /\ StageOf(L).op = s.ops /\ PendingType(s) = "none"
      /\ StageOf(L).type \in Admission /\ ~s.op.task /\ ~s.finishing /\ s.status \notin Terminal
  BY InHand
<1>2. u = [s EXCEPT !.op = q]
  BY <1>1 DEF Runs, Ops
<1>3. /\ q \in Ops /\ q.id = s.op.id /\ q.kind = s.op.kind /\ q.call = s.op.call
      /\ q.task = TRUE /\ q.down = s.op.down /\ q.sent = s.op.sent /\ q.effect = "none"
  BY <1>1 DEF Ops
<1>4. next \in Nexts /\ next.k = "effect" /\ next.arg = "release" /\ None \in Contents
  BY DEF Nexts, Then, Contents
<1>5. type \in Stages /\ type \notin Admission \cup Completion /\ type \notin {"finished", "operation_settled"}
  BY DEF Stages, Admission, Start, Completion
<1> HIDE DEF q, next
<1>6. Reop(s, u, q) /\ q # None
  BY <1>1, <1>2, <1>3, OpChange
<1>7. x = Publish(u, type, s.op.id, None, next)
  BY DEF next
<1> HIDE DEF u
<1>8. Wrote(u, x, type, s.op.id, None, next)
  <2>1. u \in Runs /\ s.op.id \in Nat /\ type \in Notes \cup Stages
    BY <1>1, <1>5, <1>6 DEF Reop
  <2>2. Wrote(u, Publish(u, type, s.op.id, None, next), type, s.op.id, None, next)
    BY <1>4, <2>1, PublishWrote
  <2> QED  BY <1>7, <2>2
<1>9. PendingType(x) = type /\ At(x, L) = [type |-> type, op |-> s.ops] /\ x \in Runs /\ x.op = q /\ x.ops = s.ops
  BY <1>1, <1>5, <1>6, <1>8 DEF PendingType, At, Wrote, Reop
<1>10. s.op.down = "no" /\ s.op.sent = {} /\ Len(L) = s.seq
  BY <1>1 DEF Good, Sound, Phase, Written
<1>11. Written(x, L)
  <2>1. Follows(StageOf(L), x.pending.rec)
    BY <1>1, <1>8 DEF Follows, Wrote
  <2>2. Fits(next, type, None)
    BY <1>4 DEF Fits
  <2> QED  BY <2>1, <2>2, <1>1, <1>5, <1>6, <1>8, <1>10 DEF Written, Wrote, Reop
<1>12. Phase(x, L)
  <2>1. ~Idle(At(x, L))
    <3>1. type \notin Completion /\ type # "idle"
      BY <1>5 DEF Start
    <3> QED  BY <1>9, <3>1 DEF Idle
  <2> QED  BY <1>1, <1>3, <1>5, <1>6, <1>9, <1>10, <2>1 DEF Phase
<1>13. Ending(x, L)
  BY <1>1, <1>5, <1>6, <1>8, <1>9, SMTT(40) DEF Ending, Wrote, Reop
<1>14. Queued(x, L)
  BY <1>1, <1>4, <1>5, <1>6, <1>8, <1>9 DEF Queued, Good, Sound, Wrote, Reop
<1>15. Late(x, L) /\ Numbered(x, L)
  BY <1>5, <1>6, <1>8, <1>9, SMTT(40) DEF Late, Numbered, Good, Sound, Wrote, Reop, Start
<1>16. Cleared(x, L) /\ TypedOp(x)
  BY <1>3, <1>6, <1>8 DEF Cleared, TypedOp, Good, Sound, Wrote, Reop
<1>17. Tasked(x, w)
  BY <1>1, <1>3, <1>6, <1>8, <1>10 DEF Tasked, Good, Sound, Wrote, Reop
<1>18. Rest(x) /\ Gated(s, x)
  BY <1>1, <1>3, <1>6, <1>8, <1>9, <1>10 DEF Rest, Gated, LetGo, Wrote
<1> QED  BY <1>9, <1>11, <1>12, <1>13, <1>14, <1>15, <1>16, <1>17, <1>18 DEF Driven, Good, Sound

\* A model's turn takes the steers it was admitted with.
LEMMA TurnKeeps ==
    ASSUME NEW s, NEW w \in Tasks, NEW L \in Seq(Recs), Good(s, w, L), s.pending = None, s.op # None
    PROVE  LET t == [s EXCEPT !.steps = @ + 1, !.status = "running",
                              !.steer = SubSeq(@, Len(s.op.steers) + 1, Len(@))]
           IN  /\ Good(t, w, L) /\ t \in Runs /\ t.op = s.op /\ t.ops = s.ops /\ t.pending = s.pending
               /\ t.stopping = s.stopping /\ t.paused = s.paused /\ t.finishing = s.finishing
               /\ t.controls = s.controls
<1> DEFINE steer == SubSeq(s.steer, Len(s.op.steers) + 1, Len(s.steer))
           t == [s EXCEPT !.steps = s.steps + 1, !.status = "running", !.steer = steer]
<1>1. s \in Runs /\ s.op \in Ops /\ s.status \notin Terminal
  BY InHand
<1>2. s.steer \in Seq(Nat) /\ s.steps + 1 \in Nat
  BY <1>1 DEF Runs
<1>3. Len(s.op.steers) \in Nat
  BY <1>1 DEF Ops
<1>4. steer \in Seq(Nat)
  BY <1>2, <1>3
<1> HIDE DEF steer
<1>5. /\ t \in Runs /\ t.status = "running"
      /\ t.policy = s.policy /\ t.alive = s.alive
      /\ t.paused = s.paused /\ t.stopping = s.stopping /\ t.finishing = s.finishing
      /\ t.timedOut = s.timedOut /\ t.ops = s.ops /\ t.seq = s.seq /\ t.op = s.op /\ t.calls = s.calls
      /\ t.approval = s.approval /\ t.controls = s.controls /\ t.pending = s.pending
  BY <1>1, <1>2, <1>4 DEF Runs, Statuses
<1>6. t = [s EXCEPT !.steps = @ + 1, !.status = "running",
                    !.steer = SubSeq(@, Len(s.op.steers) + 1, Len(@))]
  BY DEF steer
<1> HIDE DEF t
<1>7. At(t, L) = At(s, L) /\ PendingType(t) = PendingType(s)
  BY <1>5 DEF At, PendingType
<1>8. "running" \notin Terminal
  BY DEF Terminal
<1>9. Written(t, L) /\ Phase(t, L) /\ Numbered(t, L)
  BY <1>5, <1>7 DEF Written, Phase, Numbered, Good, Sound
<1>10. Ending(t, L) /\ Queued(t, L) /\ Late(t, L)
  BY <1>1, <1>5, <1>7, <1>8 DEF Ending, Queued, Late, Good, Sound
<1>11. Cleared(t, L) /\ TypedOp(t) /\ Tasked(t, w)
  BY <1>5 DEF Cleared, TypedOp, Tasked, Good, Sound
<1>12. Good(t, w, L)
  BY <1>5, <1>9, <1>10, <1>11 DEF Good, Sound
<1> QED  BY <1>5, <1>6, <1>12

\* The effect of an admission, and of a start.
LEMMA StartTaskKeeps ==
    ASSUME NEW s, NEW w \in Tasks, NEW L \in Seq(Recs), Good(s, w, L), s.pending = None, s.op # None,
           s.op.effect = "start", s.controls = <<>>, NEW spawned \in BOOLEAN
    PROVE  Driven(s, StartTask(s, spawned), w, L)
<1> DEFINE t == IF s.op.kind = "tool" THEN s
                ELSE [s EXCEPT !.steps = @ + 1, !.status = "running",
                               !.steer = SubSeq(@, Len(s.op.steers) + 1, Len(@))]
           type == IF s.op.kind = "tool" THEN "tool_started" ELSE "model_started"
           x == StartTask(s, spawned)
<1>1. /\ Good(t, w, L) /\ t \in Runs /\ t.op = s.op /\ t.ops = s.ops /\ t.pending = None
      /\ t.controls = <<>>
  BY TurnKeeps DEF Good
<1>2. type \in Start
  BY DEF Start
<1>3. x = IF spawned
          THEN Publish([t EXCEPT !.op.effect = "none", !.op.task = TRUE], type, s.op.id, None,
                       Then("effect", "release"))
          ELSE Settle([t EXCEPT !.op.effect = "none", !.op.down = "launch_failed"])
  BY DEF StartTask
<1>4. t.op # None /\ t.op.effect = "start" /\ s.op.id = t.op.id
  BY <1>1
<1> HIDE DEF t, type
<1>5. ~t.op.task
  BY <1>1, <1>4, InHand
<1>6. Driven(t, x, w, L)
  <2>1. CASE spawned
    <3>1. x = Publish([t EXCEPT !.op.effect = "none", !.op.task = TRUE], type, t.op.id, None,
                      Then("effect", "release"))
      BY <1>3, <1>4, <2>1
    <3> HIDE DEF x
    <3> QED  BY <1>1, <1>2, <1>4, <3>1, StartKeeps
  <2>2. CASE ~spawned
    <3>1. x = Settle([t EXCEPT !.op.effect = "none", !.op.down = "launch_failed"])
      BY <1>3, <2>2
    <3> HIDE DEF x
    <3>2. Driven(t, Settle([t EXCEPT !.op.effect = "none", !.op.down = "launch_failed"]), w, L)
      BY <1>1, <1>4, <1>5, NeverStarted
    <3> QED  BY <3>1, <3>2
  <2> QED  BY <2>1, <2>2
<1> HIDE DEF x
<1>7. Gated(s, x)
  BY <1>1, <1>6 DEF Driven, Gated, LetGo
<1> QED  BY <1>6, <1>7 DEF Driven, x

LEMMA ReleaseKeeps ==
    ASSUME NEW s, NEW w \in Tasks, NEW L \in Seq(Recs), Good(s, w, L), s.pending = None, s.op # None,
           s.op.effect = "release", s.op.down = "no", s.controls = <<>>, ~s.stopping, ~s.paused
    PROVE  Driven(s, Release(s), w, L)
<1> DEFINE q == [s.op EXCEPT !.effect = "none", !.timer = TRUE, !.sent = @ \cup {"run"}]
           x == Release(s)
<1>1. /\ s \in Runs /\ s.op \in Ops /\ s.ops \in Nat /\ s.op.id = s.ops
      /\ StageOf(L) = At(s, L) /\ StageOf(L).op = s.ops /\ PendingType(s) = "none"
      /\ StageOf(L).type \in Start /\ s.op.task /\ ~s.finishing
  BY InHand
<1>2. x = [s EXCEPT !.op = q]
  BY <1>1 DEF Release, Runs, Ops
<1>3. /\ q \in Ops /\ q.id = s.op.id /\ q.kind = s.op.kind /\ q.call = s.op.call
      /\ q.task = s.op.task /\ q.down = s.op.down /\ q.sent = s.op.sent \cup {"run"} /\ q.effect = "none"
  BY <1>1 DEF Ops
<1> HIDE DEF q, x
<1>4. Reop(s, x, q) /\ q # None
  BY <1>1, <1>2, <1>3, OpChange
<1>5. At(x, L) = At(s, L) /\ PendingType(x) = "none" /\ x.pending = None /\ x \in Runs /\ x.op = q
  BY <1>1, <1>4 DEF Reop, At, PendingType
<1>6. Phase(x, L)
  <2>1. At(s, L).type \notin Admission /\ "none" \notin Start
    BY <1>1 DEF Start, Admission
  <2>2. x.ops = s.ops
    BY <1>4 DEF Reop
  <2> QED  BY <1>1, <1>3, <1>4, <1>5, <2>1, <2>2 DEF Phase, Good, Sound
<1>7. Written(x, L) /\ Ending(x, L) /\ Queued(x, L) /\ Late(x, L) /\ Numbered(x, L)
  BY <1>1, <1>4, <1>5 DEF Written, Ending, Queued, Late, Numbered, Reop, Good, Sound
<1>8. Cleared(x, L) /\ TypedOp(x) /\ Tasked(x, w)
  BY <1>3, <1>4 DEF Cleared, TypedOp, Tasked, Reop, Good, Sound
<1>9. Rest(x) /\ Gated(s, x)
  BY <1>1, <1>3, <1>4, <1>5 DEF Rest, Gated, LetGo, Reop
<1> QED  BY <1>5, <1>6, <1>7, <1>8, <1>9 DEF Driven, Good, Sound, x

LEMMA EffectKeeps ==
    ASSUME NEW s, NEW w \in Tasks, NEW L \in Seq(Recs), Good(s, w, L), s.pending = None, s.op # None,
           s.op.effect # "none", s.op.down = "no", s.controls = <<>>, NEW spawned \in BOOLEAN
    PROVE  Driven(s, Effect(s, spawned), w, L)
<1>0. s \in Runs /\ s.op \in Ops /\ s.ops \in Nat /\ ~s.finishing
  BY InHand
<1>1. CASE s.stopping /\ s.op.task
  <2> DEFINE x == CancelOperation(s)
  <2>1. Effect(s, spawned) = x
    BY <1>1 DEF Effect
  <2>2. Good(x, w, L) /\ Quiet(s, x) /\ x.op # None /\ Reop(s, x, x.op) /\ x.op.down = "no"
    BY CancelKeeps
  <2> HIDE DEF x
  <2>3. Rest(x) /\ Gated(s, x)
    BY <1>0, <1>1, <2>2 DEF Rest, Gated, Quiet, Reop
  <2> QED  BY <2>1, <2>2, <2>3 DEF Driven
<1>2. CASE s.stopping /\ ~s.op.task
  <2>1. Effect(s, spawned) = Settle([s EXCEPT !.op.effect = "none", !.op.down = "not_started"])
    BY <1>2 DEF Effect
  <2>2. Driven(s, Settle([s EXCEPT !.op.effect = "none", !.op.down = "not_started"]), w, L)
    BY <1>2, NeverStarted
  <2> QED  BY <2>1, <2>2
<1>3. CASE ~s.stopping /\ s.paused
  <2>1. Effect(s, spawned) = Hold(s)
    BY <1>3 DEF Effect
  <2>2. Driven(s, Hold(s), w, L)
    BY <1>0, <1>3, HoldKeeps
  <2> QED  BY <2>1, <2>2
<1>4. CASE ~s.stopping /\ ~s.paused /\ s.op.effect = "start"
  <2>1. Effect(s, spawned) = StartTask(s, spawned)
    BY <1>4 DEF Effect, RunEffect
  <2>2. Driven(s, StartTask(s, spawned), w, L)
    BY <1>4, StartTaskKeeps
  <2> QED  BY <2>1, <2>2
<1>5. CASE ~s.stopping /\ ~s.paused /\ s.op.effect = "release"
  <2>1. Effect(s, spawned) = Release(s)
    BY <1>5 DEF Effect, RunEffect
  <2>2. Driven(s, Release(s), w, L)
    BY <1>5, ReleaseKeeps
  <2> QED  BY <2>1, <2>2
<1>6. s.op.effect \in {"start", "release"}
  BY <1>0 DEF Ops
<1> QED  BY <1>1, <1>2, <1>3, <1>4, <1>5, <1>6
-----------------------------------------------------------------------------
(* drive/1.                                                                *)

LEMMA AdvanceKeeps ==
    ASSUME NEW s, NEW w \in Tasks, NEW L \in Seq(Recs), Good(s, w, L), s.pending = None,
           s.controls = <<>>, NEW spawned \in BOOLEAN
    PROVE  Driven(s, Advance(s, spawned), w, L)
<1> DEFINE x == Advance(s, spawned)
<1>0. s \in Runs /\ s.ops \in Nat
  BY DEF Good, Runs
<1>1. s.finishing <=> s.status \in Terminal
  BY DEF Good, Sound, Ending, PendingType
<1>2. CASE s.finishing
  <2>1. x = s
    BY <1>2 DEF Advance
  <2> HIDE DEF x
  <2>2. Rest(s) /\ Gated(s, s)
    BY <1>0, <1>1, <1>2 DEF Rest, Gated
  <2> QED  BY <2>1, <2>2 DEF Driven, x
<1>3. CASE ~s.finishing /\ s.op # None
  <2>1. CASE s.op.down # "no"
    <3>1. x = Settle(s)
      BY <1>1, <1>3, <2>1 DEF Advance
    <3>2. /\ s.approval = None /\ s.op.id = s.ops /\ StageOf(L).type \in Admission \cup Start
          /\ StageOf(L).op = s.ops
      BY <1>3, InHand
    <3>3. Good(Settle(s), w, L) /\ Quiet(s, Settle(s)) /\ Settle(s).pending # None
      BY <1>0, <1>3, <2>1, <3>2, SettleKeeps DEF Good, Sound
    <3> HIDE DEF x
    <3>4. Rest(x) /\ Gated(s, x)
      BY <1>0, <3>1, <3>3 DEF Rest, Gated, Quiet
    <3> QED  BY <3>1, <3>3, <3>4 DEF Driven, x
  <2>2. CASE s.op.down = "no" /\ s.op.effect # "none"
    <3>1. x = Effect(s, spawned)
      BY <1>1, <1>3, <2>2 DEF Advance
    <3>2. Driven(s, Effect(s, spawned), w, L)
      BY <1>3, <2>2, EffectKeeps
    <3> QED  BY <3>1, <3>2
  <2>3. CASE s.op.down = "no" /\ s.op.effect = "none"
    <3>1. x = s
      BY <1>1, <1>3, <2>3 DEF Advance
    <3> HIDE DEF x
    <3>2. Rest(s) /\ Gated(s, s)
      BY <1>0, <1>3, <2>3 DEF Rest, Gated
    <3> QED  BY <3>1, <3>2 DEF Driven, x
  <2> QED  BY <2>1, <2>2, <2>3
<1>4. CASE ~s.finishing /\ s.op = None /\ s.stopping
  <2>1. x = Finish(s, "cancelled")
    BY <1>1, <1>4 DEF Advance
  <2>2. "cancelled" \in Terminal /\ \A i \in DOMAIN s.controls : Guarded(s.controls[i])
    BY DEF Terminal
  <2>3. Good(Finish(s, "cancelled"), w, L) /\ Quiet(s, Finish(s, "cancelled"))
        /\ Finish(s, "cancelled").pending # None
    BY <1>4, <2>2, FinishKeeps
  <2> HIDE DEF x
  <2>4. Rest(x) /\ Gated(s, x)
    BY <1>0, <2>1, <2>3 DEF Rest, Gated, Quiet
  <2> QED  BY <2>1, <2>3, <2>4 DEF Driven, x
<1>5. CASE ~s.finishing /\ s.op = None /\ ~s.stopping /\ s.paused
  <2>1. x = Hold(s)
    BY <1>1, <1>5 DEF Advance
  <2>2. Driven(s, Hold(s), w, L)
    BY <1>5, HoldKeeps
  <2> QED  BY <2>1, <2>2
<1>6. CASE ~s.finishing /\ s.op = None /\ ~s.stopping /\ ~s.paused /\ s.approval # None
  <2>1. x = s
    BY <1>1, <1>6 DEF Advance
  <2> HIDE DEF x
  <2>2. Rest(s) /\ Gated(s, s)
    BY <1>0, <1>6 DEF Rest, Gated
  <2> QED  BY <2>1, <2>2 DEF Driven, x
<1>7. CASE ~s.finishing /\ s.op = None /\ ~s.stopping /\ ~s.paused /\ s.approval = None /\ s.calls # <<>>
  <2>1. x = AdmitTool(s)
    BY <1>1, <1>7 DEF Advance
  <2>2. Driven(s, AdmitTool(s), w, L)
    BY <1>7, AdmitToolKeeps
  <2> QED  BY <2>1, <2>2
<1>8. CASE ~s.finishing /\ s.op = None /\ ~s.stopping /\ ~s.paused /\ s.approval = None /\ s.calls = <<>>
  <2>1. x = NextTurn(s)
    BY <1>1, <1>8 DEF Advance
  <2>2. Driven(s, NextTurn(s), w, L)
    BY <1>8, NextTurnKeeps
  <2> QED  BY <2>1, <2>2
<1> QED  BY <1>2, <1>3, <1>4, <1>5, <1>6, <1>7, <1>8

\* A control that runs writes its record.
LEMMA ControlWrote ==
    ASSUME NEW s \in Runs, NEW c \in Controls
    PROVE  \E type \in Notes, op \in Nat, what \in Contents, next \in Nexts :
             /\ Wrote(s, RunControl(s, c), type, op, what, next) /\ op \in {0, OpId(s)}
             /\ Fits(next, type, what) /\ next.k \in {"advance", "event", "pause", "continue", "steer", "approve"}
             /\ next.k = "approve" => c.k = "approval"
             /\ type = "operation_timeout" => c.k = "timeout"
<1> DEFINE x == RunControl(s, c)
           go == Then("advance", None)
           status == IF s.approval = None THEN "running" ELSE "waiting_approval"
<1>0. OpId(s) \in Nat /\ 0 \in Nat /\ None \in Contents
  <2>1. s.op \in Ops \cup {None}
    BY DEF Runs
  <2>2. s.op # None => s.op.id \in Nat
    BY <2>1 DEF Ops
  <2> QED  BY <2>2 DEF OpId, Contents
<1>1. Notes \subseteq Notes \cup Stages
  OBVIOUS
<1>2. go \in Nexts /\ go.k = "advance"
  BY DEF Nexts, Then
<1>3. CASE c.k = "stop"
  <2>1. x = Publish(s, "stop_requested", OpId(s), None, go) /\ "stop_requested" \in Notes
    BY <1>3 DEF RunControl, Notes
  <2> HIDE DEF go, x
  <2>2. Wrote(s, x, "stop_requested", OpId(s), None, go)
    BY <1>0, <1>1, <1>2, <2>1, PublishWrote
  <2>3. Fits(go, "stop_requested", None)
    BY <1>2 DEF Fits
  <2> QED  BY <1>0, <1>2, <1>3, <2>1, <2>2, <2>3 DEF x
<1>4. CASE c.k = "timeout"
  <2>1. x = Publish(s, "operation_timeout", OpId(s), None, go) /\ "operation_timeout" \in Notes
    BY <1>4 DEF RunControl, Notes
  <2> HIDE DEF go, x
  <2>2. Wrote(s, x, "operation_timeout", OpId(s), None, go)
    BY <1>0, <1>1, <1>2, <2>1, PublishWrote
  <2>3. Fits(go, "operation_timeout", None)
    BY <1>2 DEF Fits
  <2> QED  BY <1>0, <1>2, <1>4, <2>1, <2>2, <2>3 DEF x
<1>5. CASE c.k = "event"
  <2> DEFINE next == Then("event", None)
  <2>1. x = Publish(s, "event", OpId(s), None, next) /\ "event" \in Notes
    BY <1>5 DEF RunControl, Notes
  <2>2. next \in Nexts /\ next.k = "event"
    BY DEF Nexts, Then
  <2> HIDE DEF next, x
  <2>3. Wrote(s, x, "event", OpId(s), None, next)
    BY <1>0, <1>1, <2>1, <2>2, PublishWrote
  <2>4. Fits(next, "event", None)
    BY <2>2 DEF Fits
  <2> QED  BY <1>0, <2>1, <2>2, <2>3, <2>4 DEF x
<1>6. CASE c.k = "pause"
  <2> DEFINE next == Then("pause", c)
  <2>1. x = Publish(s, "pause_requested", OpId(s), None, next) /\ "pause_requested" \in Notes
    BY <1>6 DEF RunControl, Notes
  <2>2. c \in Pauses
    BY <1>6 DEF Controls, Pauses, Continues, Steers, Resolutions
  <2>3. next \in Nexts /\ next.k = "pause"
    BY <2>2 DEF Nexts, Then
  <2> HIDE DEF next, x
  <2>4. Wrote(s, x, "pause_requested", OpId(s), None, next)
    BY <1>0, <1>1, <2>1, <2>3, PublishWrote
  <2>5. Fits(next, "pause_requested", None)
    BY <2>3 DEF Fits
  <2> QED  BY <1>0, <2>1, <2>3, <2>4, <2>5 DEF x
<1>7. CASE c.k = "continue"
  <2> DEFINE next == Then("continue", [from |-> c.from, status |-> status])
  <2>1. x = Publish(s, "continued", OpId(s), None, next) /\ "continued" \in Notes
    BY <1>7 DEF RunControl, Notes
  <2>2. c.from \in Clients
    BY <1>7 DEF Controls, Pauses, Continues, Steers, Resolutions
  <2>3. next \in Nexts /\ next.k = "continue"
    BY <2>2 DEF Nexts, Then
  <2> HIDE DEF next, x
  <2>4. Wrote(s, x, "continued", OpId(s), None, next)
    BY <1>0, <1>1, <2>1, <2>3, PublishWrote
  <2>5. Fits(next, "continued", None)
    BY <2>3 DEF Fits
  <2> QED  BY <1>0, <2>1, <2>3, <2>4, <2>5 DEF x
<1>8. CASE c.k = "steer"
  <2> DEFINE next == Then("steer", c)
  <2>1. x = Publish(s, "steer_admitted", 0, c.id, next) /\ "steer_admitted" \in Notes
    BY <1>8 DEF RunControl, Notes
  <2>2. c \in Steers
    BY <1>8 DEF Controls, Pauses, Continues, Steers, Resolutions
  <2>3. next \in Nexts /\ next.k = "steer"
    BY <2>2 DEF Nexts, Then
  <2>4. c.id \in Contents
    BY <2>2 DEF Steers, Contents
  <2> HIDE DEF next, x
  <2>5. Wrote(s, x, "steer_admitted", 0, c.id, next)
    BY <1>0, <1>1, <2>1, <2>3, <2>4, PublishWrote
  <2>6. Fits(next, "steer_admitted", c.id)
    BY <2>3 DEF Fits
  <2> QED  BY <1>0, <2>1, <2>3, <2>4, <2>5, <2>6 DEF x
<1>9. CASE c.k = "approval"
  <2> DEFINE next == Then("approve", c)
             what == [call |-> CallId(c.call), decision |-> c.decision]
  <2>1. x = Publish(s, "approval_resolved", 0, what, next) /\ "approval_resolved" \in Notes
    BY <1>9 DEF RunControl, Notes
  <2>2. c \in Resolutions
    BY <1>9 DEF Controls, Pauses, Continues, Steers, Resolutions
  <2>3. next \in Nexts /\ next.k = "approve" /\ next.arg = c
    BY <2>2 DEF Nexts, Then
  <2>4. what \in Contents
    <3>1. c.call \in Calls /\ c.decision \in Decisions
      BY <2>2 DEF Resolutions
    <3>2. CallId(c.call) \in CallIds
      BY <3>1, CallTypes
    <3> QED  BY <3>1, <3>2 DEF Contents
  <2>5. Fits(next, "approval_resolved", what)
    BY <2>3 DEF Fits
  <2> HIDE DEF next, x, what
  <2>6. Wrote(s, x, "approval_resolved", 0, what, next)
    BY <1>0, <1>1, <2>1, <2>3, <2>4, PublishWrote
  <2> QED  BY <1>0, <1>9, <2>1, <2>3, <2>4, <2>5, <2>6 DEF x
<1>10. c.k \in {"stop", "timeout", "event", "pause", "continue", "steer", "approval"}
  BY DEF Controls, Pauses, Continues, Steers, Resolutions
<1> QED  BY <1>3, <1>4, <1>5, <1>6, <1>7, <1>8, <1>9, <1>10
\* t is s but for its controls, and who waits.
Requeue(s, t, cs) ==
    /\ t \in Runs /\ t.controls = cs
    /\ t.policy = s.policy /\ t.status = s.status /\ t.paused = s.paused
    /\ t.stopping = s.stopping /\ t.finishing = s.finishing /\ t.timedOut = s.timedOut
    /\ t.ops = s.ops /\ t.seq = s.seq /\ t.op = s.op /\ t.calls = s.calls /\ t.steer = s.steer
    /\ t.approval = s.approval /\ t.pending = s.pending

\* Controls that the run may hold.
Sensible(s, L, c) ==
    /\ c.k \in {"stop", "timeout"} => s.stopping
    /\ c.k = "timeout" => s.timedOut
    /\ c.k = "event" => s.op # None /\ At(s, L).type # "operation_settled"
    /\ s.finishing => Guarded(c)
    /\ c.k = "approval" => s.op = None /\ s.policy = "ask"

LEMMA ControlsKeep ==
    ASSUME NEW s, NEW w \in Tasks, NEW L \in Seq(Recs), Good(s, w, L), NEW cs, NEW t, Requeue(s, t, cs),
           \A i \in DOMAIN cs : Sensible(s, L, cs[i])
    PROVE  Good(t, w, L) /\ Quiet(s, t)
<1>1. At(t, L) = At(s, L) /\ PendingType(t) = PendingType(s)
  BY DEF Requeue, At, PendingType
<1>2. Written(t, L) /\ Phase(t, L) /\ Ending(t, L)
  BY <1>1 DEF Written, Phase, Ending, Requeue, Good, Sound
<1>3. Queued(t, L)
  BY <1>1 DEF Queued, Sensible, Requeue, Good, Sound
<1>4. Late(t, L) /\ Numbered(t, L)
  BY <1>1 DEF Late, Numbered, Requeue, Good, Sound
<1>5. Cleared(t, L) /\ Tasked(t, w) /\ TypedOp(t) /\ t \in Runs /\ Quiet(s, t)
  BY DEF Cleared, Tasked, TypedOp, Quiet, LetGo, Requeue, Good, Sound
<1> QED  BY <1>2, <1>3, <1>4, <1>5 DEF Good, Sound

LEMMA AreSensible ==
    ASSUME NEW s, NEW w, NEW L, Good(s, w, L), NEW i \in DOMAIN s.controls
    PROVE  Sensible(s, L, s.controls[i])
BY DEF Good, Sound, Queued, Sensible

\* A control of the queue runs: t is s with those behind it.
LEMMA RunControlKeeps ==
    ASSUME NEW s, NEW w \in Tasks, NEW L \in Seq(Recs), Good(s, w, L), s.pending = None, ~s.finishing,
           NEW c \in Controls, Sensible(s, L, c)
    PROVE  Driven(s, RunControl(s, c), w, L)
<1> DEFINE x == RunControl(s, c)
<1>1. s \in Runs /\ s.ops \in Nat /\ OpId(s) <= s.ops /\ 0 <= s.ops
  <2>1. s \in Runs /\ s.ops \in Nat
    BY DEF Good, Runs
  <2>2. s.op # None => s.op.id = s.ops
    BY DEF Good, Sound, Phase
  <2> QED  BY <2>1, <2>2 DEF OpId
<1>2. PICK type \in Notes, op \in Nat, what \in Contents, next \in Nexts :
        /\ Wrote(s, x, type, op, what, next) /\ op \in {0, OpId(s)}
        /\ Fits(next, type, what) /\ next.k \in {"advance", "event", "pause", "continue", "steer", "approve"}
        /\ next.k = "approve" => c.k = "approval"
        /\ type = "operation_timeout" => c.k = "timeout"
  BY <1>1, ControlWrote
<1> HIDE DEF x
<1>3. op <= s.ops
  BY <1>1, <1>2
<1>4. next.k \in {"approval", "approve"} => s.op = None /\ s.policy = "ask"
  BY <1>2 DEF Sensible
<1>5. type = "operation_timeout" => s.timedOut
  BY <1>2 DEF Sensible
<1>6. Good(x, w, L)
  BY <1>2, <1>3, <1>4, <1>5, NoteKeeps
<1>7. Rest(x) /\ Gated(s, x)
  BY <1>1, <1>2 DEF Rest, Gated, LetGo, Wrote
<1> QED  BY <1>6, <1>7 DEF Driven, x

\* The controls behind the n-th.
LEMMA ControlsBehind ==
    ASSUME NEW cs \in Seq(Controls), NEW n \in 0 .. Len(cs)
    PROVE  /\ SubSeq(cs, n + 2, Len(cs)) \in Seq(Controls)
           /\ \A j \in DOMAIN SubSeq(cs, n + 2, Len(cs)) :
                \E i \in DOMAIN cs : SubSeq(cs, n + 2, Len(cs))[j] = cs[i]
           /\ n = Len(cs) => SubSeq(cs, n + 2, Len(cs)) = <<>>
<1> HIDE DEF Controls
<1> DEFINE b == SubSeq(cs, n + 2, Len(cs))
<1>1. Len(cs) \in Nat /\ n \in Nat /\ n <= Len(cs) /\ DOMAIN cs = 1 .. Len(cs)
  OBVIOUS
<1>2. b \in Seq(Controls) /\ \A j \in DOMAIN b : n + 1 + j \in DOMAIN cs /\ b[j] = cs[n + 1 + j]
  BY <1>1
<1>3. n = Len(cs) => b = <<>>
  BY <1>1
<1> QED  BY <1>2, <1>3

LEMMA FirstLive ==
    ASSUME NEW live, live \subseteq Nat \ {0}, live # {}
    PROVE  LET first == CHOOSE i \in live : \A j \in live : i <= j
           IN  first \in live /\ \A j \in live : first <= j
<1>1. live \subseteq Nat
  OBVIOUS
<1> QED  BY <1>1, LeastOf

LEMMA DriveKeeps ==
    ASSUME NEW s, NEW w \in Tasks, NEW L \in Seq(Recs), Good(s, w, L), NEW spawned \in BOOLEAN
    PROVE  Driven(s, Drive(s, spawned), w, L)
<1> DEFINE live == {i \in DOMAIN s.controls : ~Rejecting(s) \/ ~Guarded(s.controls[i])}
           first == CHOOSE i \in live : \A j \in live : i <= j
           n == IF live = {} THEN Len(s.controls) ELSE first - 1
           cs == SubSeq(s.controls, n + 2, Len(s.controls))
           asked == s.asked \ Callers(SubSeq(s.controls, 1, n))
           t == [s EXCEPT !.asked = asked, !.controls = cs]
<1>0. s \in Runs /\ s.controls \in Seq(Controls) /\ s.ops \in Nat /\ asked \in SUBSET Clients
  BY DEF Good, Runs
<1>1. CASE s.pending # None
  <2>1. Drive(s, spawned) = s
    BY <1>1 DEF Drive
  <2>2. Rest(s) /\ Gated(s, s)
    BY <1>0, <1>1 DEF Rest, Gated
  <2> QED  BY <2>1, <2>2 DEF Driven
<1>2. CASE s.pending = None
  <2>1. Drive(s, spawned) = IF live = {} THEN Advance(t, spawned) ELSE RunControl(t, s.controls[first])
    BY <1>2 DEF Drive
  <2>2. live # {} => first \in live /\ first \in DOMAIN s.controls
    <3>1. live \subseteq Nat \ {0}
      <4> HIDE DEF Controls
      <4> QED  BY <1>0
    <3> QED  BY <3>1, FirstLive
  <2>3. n \in 0 .. Len(s.controls)
    <3> HIDE DEF first, Controls
    <3>1. DOMAIN s.controls = 1 .. Len(s.controls) /\ Len(s.controls) \in Nat
      BY <1>0
    <3>2. live # {} => first \in 1 .. Len(s.controls)
      BY <2>2, <3>1
    <3> HIDE DEF live
    <3> QED  BY <3>1, <3>2
  <2> HIDE DEF n
  <2>4. /\ cs \in Seq(Controls) /\ \A j \in DOMAIN cs : \E i \in DOMAIN s.controls : cs[j] = s.controls[i]
        /\ n = Len(s.controls) => cs = <<>>
    BY <1>0, <2>3, ControlsBehind
  <2>5. \A j \in DOMAIN cs : Sensible(s, L, cs[j])
    BY <2>4, AreSensible
  <2> HIDE DEF cs, asked
  <2>6. Good(t, w, L) /\ Requeue(s, t, cs)
    <3>1. Requeue(s, t, cs)
      BY <1>0, <2>4 DEF Runs, Requeue
    <3> QED  BY <2>5, <3>1, ControlsKeep
  <2> HIDE DEF t, first, live
  <2>7. t.pending = None /\ t.ops = s.ops /\ t.op = s.op
    BY <1>2, <2>6 DEF Requeue
  <2>8. Driven(t, Drive(s, spawned), w, L)
    <3>1. CASE live = {}
      <4>1. t.controls = <<>>
        BY <2>4, <2>6, <3>1 DEF n, Requeue
      <4>2. Driven(t, Advance(t, spawned), w, L)
        BY <2>6, <2>7, <4>1, AdvanceKeeps
      <4> QED  BY <2>1, <3>1, <4>2
    <3>2. CASE live # {}
      <4> DEFINE c == s.controls[first]
      <4>1. c \in Controls /\ Sensible(s, L, c)
        <5>1. Sensible(s, L, c)
          BY <2>2, <3>2, AreSensible
        <5> HIDE DEF Controls
        <5> QED  BY <1>0, <2>2, <3>2, <5>1
      <4>2. ~s.finishing
        BY <2>2, <3>2, <4>1 DEF live, Sensible, Rejecting
      <4> HIDE DEF c
      <4>3. Sensible(t, L, c)
        BY <2>6, <4>1 DEF Sensible, Requeue, At, PendingType
      <4>4. Driven(t, RunControl(t, c), w, L)
        BY <2>6, <2>7, <4>1, <4>2, <4>3, RunControlKeeps DEF Requeue
      <4> QED  BY <2>1, <3>2, <4>4 DEF c
    <3> QED  BY <3>1, <3>2
  <2>9. Gated(s, Drive(s, spawned))
    BY <2>7, <2>8 DEF Driven, Gated, LetGo
  <2> QED  BY <2>8, <2>9 DEF Driven
<1> QED  BY <1>1, <1>2
-----------------------------------------------------------------------------
(* What follows an acknowledged record.                                    *)

\* The run has taken over the number of the stored record.
Acked(s, t) ==
    /\ t \in Runs /\ t.pending = None /\ t.seq = s.pending.rec.seq
    /\ t.policy = s.policy /\ t.alive = s.alive /\ t.status = s.status /\ t.paused = s.paused
    /\ t.stopping = s.stopping /\ t.finishing = s.finishing /\ t.timedOut = s.timedOut
    /\ t.steps = s.steps /\ t.ops = s.ops /\ t.op = s.op /\ t.calls = s.calls
    /\ t.steer = s.steer /\ t.approval = s.approval /\ t.controls = s.controls
    /\ t.waiters = s.waiters /\ t.asked = s.asked

LEMMA AckFields ==
    ASSUME NEW s \in Runs, s.pending # None
    PROVE  Acked(s, [s EXCEPT !.pending = None, !.seq = s.pending.rec.seq])
<1>1. s.pending \in Appends
  BY DEF Runs
<1>2. s.pending.rec.seq \in Nat
  <2>1. s.pending.rec \in Recs
    BY <1>1 DEF Appends
  <2> QED  BY <2>1 DEF Recs
<1> HIDE DEF Appends
<1> QED  BY <1>2 DEF Runs, Acked

\* What a record on its way is.
LEMMA PendingTypes ==
    ASSUME NEW s \in Runs, s.pending # None
    PROVE  /\ s.pending.next \in Nexts /\ s.pending.rec \in Recs /\ s.pending.committed \in BOOLEAN
           /\ s.pending.rec.type \in Notes \cup Stages /\ s.pending.rec.op \in Nat
           /\ s.pending.rec.seq \in Nat
           /\ PendingType(s) = s.pending.rec.type
<1>1. s.pending \in Appends
  BY DEF Runs
<1>2. s.pending.rec \in Recs /\ s.pending.next \in Nexts /\ s.pending.committed \in BOOLEAN
  BY <1>1 DEF Appends
<1> QED  BY <1>2 DEF Recs, PendingType

\* The log knows of an acknowledged record what the run knew of it.
LEMMA AckStage ==
    ASSUME NEW s \in Runs, NEW L, NEW t, s.pending # None, s.pending.committed, Written(s, L), Acked(s, t)
    PROVE  /\ Written(t, L) /\ At(t, L) = At(s, L) /\ StageOf(L) = At(s, L) /\ PendingType(t) = "none"
           /\ L[Len(L)] = s.pending.rec /\ Len(L) = s.seq + 1
<1>1. PendingType(t) = "none" /\ "none" \notin Stages
  BY DEF PendingType, Acked, Stages, Admission, Start, Completion
<1>2. At(t, L) = StageOf(L)
  BY <1>1 DEF At
<1>3. StageOf(L) = At(s, L)
  <2>1. CASE s.pending.rec.type \in Stages
    BY <2>1 DEF Written
  <2>2. CASE s.pending.rec.type \notin Stages
    BY <2>2 DEF At, PendingType
  <2> QED  BY <2>1, <2>2
<1>4. Len(L) = s.seq + 1 /\ s.pending.rec.seq = s.seq + 1 /\ L[Len(L)] = s.pending.rec
  BY DEF Written
<1> QED  BY <1>1, <1>2, <1>3, <1>4 DEF Written, Acked

\* Most records leave a run that may go on as it is.
LEMMA AckKeeps ==
    ASSUME NEW s, NEW w \in Tasks, NEW L \in Seq(Recs), Good(s, w, L), s.pending # None, s.pending.committed,
           s.pending.next.k \notin {"effect", "settled", "finish"}, NEW t, Acked(s, t)
    PROVE  Good(t, w, L) /\ Quiet(s, t) /\ ~t.finishing
<1>1. s \in Runs
  BY DEF Good
<1>2. /\ Written(t, L) /\ At(t, L) = At(s, L) /\ StageOf(L) = At(s, L) /\ PendingType(t) = "none"
  BY <1>1, AckStage DEF Good, Sound
<1>3. s.pending.next \in Nexts /\ PendingType(s) = s.pending.rec.type
  BY <1>1, PendingTypes
<1>4. PendingType(s) \notin Admission \cup Start \cup {"operation_settled", "finished"}
  <2>1. s.pending.next.k \in {"advance", "paused", "event", "model_failed", "pause", "continue", "steer",
                              "approve", "approval", "turn"}
    BY <1>3 DEF Nexts
  <2>2. Fits(s.pending.next, s.pending.rec.type, s.pending.rec.what)
    BY DEF Good, Sound, Written
  <2> QED  BY <1>3, <2>1, <2>2 DEF Fits, Admission, Start
<1>5. Phase(t, L)
  <2>1. "none" \notin Admission \cup Start
    BY DEF Admission, Start
  <2>2. t.op = s.op /\ t.ops = s.ops
    BY DEF Acked
  <2> QED  BY <1>2, <1>4, <2>1, <2>2 DEF Phase, Good, Sound
<1>6. ~s.finishing /\ s.status \notin Terminal
  BY <1>4 DEF Good, Sound, Ending
<1>7. Ending(t, L)
  BY <1>2, <1>6 DEF Ending, Good, Sound, Acked
<1>8. Queued(t, L) /\ Late(t, L) /\ Numbered(t, L)
  BY <1>2 DEF Queued, Late, Numbered, Good, Sound, Acked
<1>9. Cleared(t, L) /\ Tasked(t, w) /\ TypedOp(t) /\ t \in Runs
  BY DEF Cleared, Tasked, TypedOp, Good, Sound, Acked
<1>10. Quiet(s, t) /\ ~t.finishing
  BY <1>6 DEF Quiet, LetGo, Acked
<1> QED  BY <1>2, <1>5, <1>7, <1>8, <1>9, <1>10 DEF Good, Sound
\* t is s but for what a control sets without touching the operation: flags,
\* steers, the request and who is answered.
Reset(s, t) ==
    /\ t \in Runs
    /\ t.policy = s.policy /\ t.stopping = s.stopping /\ t.finishing = s.finishing
    /\ t.timedOut = s.timedOut /\ t.ops = s.ops /\ t.seq = s.seq /\ t.op = s.op /\ t.calls = s.calls
    /\ t.controls = s.controls /\ t.pending = s.pending

LEMMA ResetKeeps ==
    ASSUME NEW s, NEW w \in Tasks, NEW L \in Seq(Recs), Good(s, w, L),
           NEW t, Reset(s, t), t.status = s.status \/ (~s.finishing /\ t.status \notin Terminal),
           t.approval # None => s.op = None /\ s.policy = "ask"
    PROVE  Good(t, w, L) /\ Quiet(s, t)
<1>1. At(t, L) = At(s, L) /\ PendingType(t) = PendingType(s)
  BY DEF At, PendingType, Reset
<1>2. Written(t, L) /\ Phase(t, L) /\ Numbered(t, L)
  BY <1>1 DEF Written, Phase, Numbered, Good, Sound, Reset
<1>3. Ending(t, L)
  BY <1>1 DEF Ending, Good, Sound, Reset
<1>4. Queued(t, L) /\ Late(t, L)
  BY <1>1 DEF Queued, Late, Good, Sound, Reset
<1>5. Cleared(t, L) /\ Tasked(t, w) /\ TypedOp(t)
  BY DEF Cleared, Tasked, TypedOp, Good, Sound, Reset
<1>6. Quiet(s, t)
  BY DEF Quiet, LetGo, Reset
<1> QED  BY <1>2, <1>3, <1>4, <1>5, <1>6 DEF Good, Sound, Reset

\* When nothing is stopping the run and no operation is in hand, only callers
\* have controls in the queue.
LEMMA OnlyCallers ==
    ASSUME NEW s, NEW w, NEW L, Good(s, w, L), s.op = None, ~s.stopping
    PROVE  \A i \in DOMAIN s.controls : Guarded(s.controls[i])
<1>1. s.controls \in Seq(Controls)
  BY DEF Good, Runs
<1>2. ASSUME NEW i \in DOMAIN s.controls PROVE Guarded(s.controls[i])
  <2>1. s.controls[i] \in Controls
    <3> HIDE DEF Controls
    <3> QED  BY <1>1
  <2>2. s.controls[i].k \in {"stop", "timeout", "event", "pause", "continue", "steer", "approval"}
    BY <2>1 DEF Controls, Pauses, Continues, Steers, Resolutions
  <2>3. s.controls[i].k \notin {"stop", "timeout", "event"}
    BY DEF Good, Sound, Queued
  <2> QED  BY <2>2, <2>3 DEF Guarded
<1> QED  BY <1>2

\* The calls of a turn.
LEMMA TurnCalls ==
    ASSUME NEW result \in Turned, result.k # "cut", NEW o \in Nat
    PROVE  LET calls == [i \in 1 .. Len(result.calls) |->
                          [parent |-> o, index |-> i, kind |-> result.calls[i], approved |-> FALSE]]
           IN  calls \in Seq(Calls) /\ \A i \in DOMAIN calls : ~calls[i].approved
<1> DEFINE call(i) == [parent |-> o, index |-> i, kind |-> result.calls[i], approved |-> FALSE]
           calls == [i \in 1 .. Len(result.calls) |-> call(i)]
<1>1. result.calls \in Seq(CallKinds)
  BY RunAssumption DEF Turned
<1>2. ASSUME NEW i \in 1 .. Len(result.calls) PROVE call(i) \in Calls /\ call(i).approved = FALSE
  <2>1. result.calls[i] \in CallKinds /\ i \in Nat
    <3> HIDE DEF CallKinds
    <3> QED  BY <1>1
  <2> QED  BY <2>1 DEF Calls
<1>3. Len(result.calls) \in Nat
  BY <1>1
<1> HIDE DEF call, Calls
<1>4. calls \in Seq(Calls)
  <2>1. calls \in [1 .. Len(result.calls) -> Calls]
    BY <1>2
  <2> DEFINE n == Len(result.calls)
  <2> HIDE DEF calls, n
  <2>2. n \in Nat /\ calls \in [1 .. n -> Calls]
    BY <1>3, <2>1 DEF n
  <2> QED  BY <2>2
<1>5. \A i \in DOMAIN calls : ~calls[i].approved
  BY <1>2
<1> QED  BY <1>4, <1>5 DEF call

\* A run without an operation ends, or goes on with the calls of the answer.
LEMMA AfterTurnKeeps ==
    ASSUME NEW s, NEW w \in Tasks, NEW L \in Seq(Recs), Good(s, w, L), s.pending = None, ~s.finishing,
           s.op = None, NEW o \in Nat, NEW result \in Turned
    PROVE  Good(AfterTurn(s, o, result), w, L) /\ Quiet(s, AfterTurn(s, o, result))
<1> DEFINE calls == [i \in 1 .. Len(result.calls) |->
                      [parent |-> o, index |-> i, kind |-> result.calls[i], approved |-> FALSE]]
           x == AfterTurn(s, o, result)
<1>1. Quiet(s, s)
  BY DEF Quiet
<1>2. CASE s.stopping
  <2>1. x = s
    BY <1>2 DEF AfterTurn
  <2> HIDE DEF x
  <2> QED  BY <1>1, <2>1 DEF x
<1>3. ASSUME NEW status \in Terminal, ~s.stopping
      PROVE  Good(Finish(s, status), w, L) /\ Quiet(s, Finish(s, status))
  <2>1. \A i \in DOMAIN s.controls : Guarded(s.controls[i])
    BY <1>3, OnlyCallers
  <2> QED  BY <2>1, FinishKeeps
<1>4. "failed" \in Terminal /\ "completed" \in Terminal
  BY DEF Terminal
<1>5. CASE ~s.stopping /\ result.k = "cut"
  <2>1. x = Finish(s, "failed")
    BY <1>5 DEF AfterTurn
  <2> HIDE DEF x
  <2> QED  BY <1>3, <1>4, <1>5, <2>1 DEF x
<1>6. CASE ~s.stopping /\ result.k # "cut" /\ calls = <<>> /\ s.steer = <<>> /\ s.controls = <<>>
  <2>1. x = Finish(s, "completed")
    BY <1>6 DEF AfterTurn
  <2> HIDE DEF x
  <2> QED  BY <1>3, <1>4, <1>6, <2>1 DEF x
<1>7. CASE ~s.stopping /\ result.k # "cut" /\ ~(calls = <<>> /\ s.steer = <<>> /\ s.controls = <<>>)
  <2>1. x = [s EXCEPT !.calls = calls]
    BY <1>7 DEF AfterTurn
  <2>2. calls \in Seq(Calls) /\ \A i \in DOMAIN calls : ~calls[i].approved
    BY <1>7, TurnCalls
  <2> HIDE DEF calls, x
  <2>3. Good([s EXCEPT !.calls = calls], w, L) /\ Recall(s, [s EXCEPT !.calls = calls], calls)
    BY <2>2, CallsKeep
  <2> QED  BY <2>1, <2>3 DEF Recall, Quiet, LetGo, x
<1> QED  BY <1>2, <1>5, <1>6, <1>7

\* A person has decided on a call.
LEMMA DecideKeeps ==
    ASSUME NEW s, NEW w \in Tasks, NEW L \in Seq(Recs), Good(s, w, L), s.pending = None, ~s.finishing,
           s.op = None, s.policy = "ask", NEW c \in Calls, NEW decision \in Decisions,
           decision = "allow" => Allowed(c, L)
    PROVE  Good(Decide(s, c, decision), w, L) /\ Quiet(s, Decide(s, c, decision))
<1> DEFINE a == [c EXCEPT !.approved = TRUE]
           cs == <<a>> \o s.calls
           x == Decide(s, c, decision)
<1>1. CASE decision = "deny"
  <2>1. x = ToolResult(s, 0, c)
    BY <1>1 DEF Decide
  <2>2. Good(ToolResult(s, 0, c), w, L) /\ Quiet(s, ToolResult(s, 0, c))
    BY ToolResultKeeps
  <2> QED  BY <2>1, <2>2
<1>2. CASE decision = "allow"
  <2>1. x = [s EXCEPT !.calls = cs]
    BY <1>2 DEF Decide
  <2>2. a \in Calls /\ CallId(a) = CallId(c)
    BY DEF Calls, CallId
  <2>3. s.calls \in Seq(Calls)
    BY DEF Good, Runs
  <2>4. Allowed(a, L)
    BY <1>2, <2>2 DEF Allowed
  <2> HIDE DEF a, Calls
  <2>5. cs \in Seq(Calls) /\ \A i \in DOMAIN cs : cs[i] = a \/ (i - 1 \in DOMAIN s.calls /\ cs[i] = s.calls[i - 1])
    BY <2>2, <2>3
  <2> HIDE DEF cs, x
  <2>6. \A i \in DOMAIN cs : cs[i].approved => s.policy = "ask" /\ Allowed(cs[i], L)
    BY <2>4, <2>5 DEF Good, Sound, Cleared
  <2>7. Good([s EXCEPT !.calls = cs], w, L) /\ Recall(s, [s EXCEPT !.calls = cs], cs)
    BY <2>5, <2>6, CallsKeep
  <2> QED  BY <2>1, <2>7 DEF Recall, Quiet, LetGo, x
<1> QED  BY <1>1, <1>2 DEF Decisions
\* The effect of a stored admission or start is noted.
LEMMA EffectAck ==
    ASSUME NEW s, NEW w \in Tasks, NEW L \in Seq(Recs), Good(s, w, L), s.pending # None, s.pending.committed,
           s.pending.next.k = "effect", NEW t, Acked(s, t)
    PROVE  LET x == [t EXCEPT !.op.effect = s.pending.next.arg] IN Good(x, w, L) /\ Quiet(s, x)
<1> DEFINE effect == s.pending.next.arg
           q == [s.op EXCEPT !.effect = effect]
           x == [t EXCEPT !.op.effect = effect]
           type == s.pending.rec.type
<1>1. s \in Runs /\ t \in Runs /\ t.op = s.op
  BY DEF Good, Acked
<1>2. /\ Written(t, L) /\ At(t, L) = At(s, L) /\ StageOf(L) = At(s, L) /\ PendingType(t) = "none"
  BY <1>1, AckStage DEF Good, Sound
<1>3. s.pending.next \in Nexts /\ PendingType(s) = type
  BY <1>1, PendingTypes
<1>4. effect \in {"start", "release"}
  BY <1>3 DEF Nexts
<1>5. /\ effect = "start" => type \in Admission
      /\ effect = "release" => type \in Start
  BY <1>4 DEF Good, Sound, Written, Fits
<1>6. type \in Stages /\ type # "finished" /\ type # "operation_settled" /\ type \notin Completion
      /\ (type \in Admission => type \notin Start)
  BY <1>4, <1>5 DEF Stages, Admission, Start, Completion
<1> HIDE DEF type, effect
<1>7. At(s, L).type = type
  BY <1>3, <1>6 DEF At, type
<1>8. s.op # None /\ s.op \in Ops /\ ~s.finishing /\ s.status \notin Terminal
  <2>1. type # "idle"
    BY <1>6 DEF Stages, Admission, Start, Completion
  <2>2. s.op # None
    BY <1>6, <1>7, <2>1 DEF Good, Sound, Phase, Idle
  <2>3. s.op \in Ops
    BY <1>1, <2>2 DEF Runs
  <2> QED  BY <1>6, <1>7, <2>2, <2>3 DEF Good, Sound, Ending
<1>9. /\ q \in Ops /\ q.id = s.op.id /\ q.kind = s.op.kind /\ q.call = s.op.call
      /\ q.task = s.op.task /\ q.down = s.op.down /\ q.sent = s.op.sent /\ q.effect = effect
  BY <1>4, <1>8 DEF Ops
<1>10. x = [t EXCEPT !.op = q]
  BY <1>1, <1>8 DEF Runs, Ops
<1> HIDE DEF q, x
<1>11. Reop(t, x, q) /\ q # None
  BY <1>1, <1>9, <1>10, OpChange
<1>12. At(x, L) = At(s, L) /\ PendingType(x) = "none" /\ x.op = q /\ x.ops = s.ops /\ x \in Runs
  BY <1>2, <1>11 DEF Reop, Acked, At, PendingType
<1>13. Phase(x, L)
  <2>1. "none" \notin Admission \cup Start
    BY DEF Admission, Start
  <2>2. type \in Start => "run" \notin s.op.sent
    BY <1>3, <1>7 DEF Good, Sound, Phase
  <2> QED  BY <1>3, <1>4, <1>5, <1>6, <1>7, <1>8, <1>9, <1>11, <1>12, <2>1, <2>2 DEF Phase, Good, Sound
<1>14. Written(x, L) /\ Late(x, L) /\ Numbered(x, L)
  BY <1>2, <1>11, <1>12 DEF Written, Late, Numbered, Good, Sound, Acked, Reop
<1>15. Ending(x, L)
  BY <1>6, <1>7, <1>8, <1>11, <1>12 DEF Ending, Good, Sound, Acked, Reop
<1>16. Queued(x, L)
  BY <1>6, <1>7, <1>8, <1>11, <1>12 DEF Queued, Good, Sound, Acked, Reop
<1>17. Cleared(x, L) /\ Tasked(x, w) /\ TypedOp(x) /\ Quiet(s, x)
  BY <1>8, <1>9, <1>11, <1>12 DEF Cleared, Tasked, TypedOp, Quiet, LetGo, Good, Sound, Acked, Reop
<1> QED  BY <1>12, <1>13, <1>14, <1>15, <1>16, <1>17 DEF Good, Sound, x, effect

\* The operation is over: u is without it, and x with the record of what came
\* of it.
LEMMA CompletionKeeps ==
    ASSUME NEW s, NEW w \in Tasks, NEW L \in Seq(Recs), Good(s, w, L), s.pending # None, s.pending.committed,
           s.pending.next.k = "settled", NEW t, Acked(s, t), NEW type \in Completion, NEW what \in Contents,
           NEW next \in Nexts, Fits(next, type, what), next.k \in {"advance", "turn", "model_failed"}
    PROVE  LET x == Publish([t EXCEPT !.op = None], type, s.op.id, what, next)
           IN  Good(x, w, L) /\ Quiet(s, x)
<1> DEFINE u == [t EXCEPT !.op = None]
           x == Publish(u, type, s.op.id, what, next)
<1>1. s \in Runs /\ t \in Runs /\ s.ops \in Nat
  BY DEF Good, Acked, Runs
<1>2. Reop(t, u, None)
  BY <1>1 DEF Runs, Reop
<1>3. StageOf(L) = At(s, L) /\ Len(L) = s.seq + 1 /\ s.pending.rec.seq = s.seq + 1
  BY <1>1, AckStage DEF Good, Sound, Written
<1>4. PendingType(s) = "operation_settled"
  BY <1>1, PendingTypes DEF Good, Sound, Written, Fits
<1>5. At(s, L).type = "operation_settled" /\ "operation_settled" \notin Completion \cup {"idle", "finished"}
  BY <1>4 DEF At, Stages, PendingType, Completion
<1>6. s.op # None /\ s.op.id = s.ops /\ At(s, L).op = s.ops
  BY <1>5 DEF Good, Sound, Phase, Idle
<1>7. ~s.finishing /\ s.status \notin Terminal /\ s.approval = None /\ s.op.down # "no"
  BY <1>5, <1>6 DEF Good, Sound, Ending, Queued, Phase
<1>8. type \in Stages /\ type \notin Admission \cup Start /\ type \notin {"finished", "operation_settled"}
      /\ type \in Notes \cup Stages
  BY DEF Stages, Admission, Start, Completion
<1> HIDE DEF u
<1>9. Wrote(u, x, type, s.op.id, what, next)
  <2>1. u \in Runs /\ s.op.id \in Nat
    BY <1>1, <1>2, <1>6 DEF Reop
  <2> QED  BY <1>8, <2>1, PublishWrote
<1> HIDE DEF x
<1>10. /\ x \in Runs /\ x.op = None /\ x.ops = s.ops /\ x.status = s.status /\ x.finishing = s.finishing
       /\ x.controls = s.controls /\ x.approval = None /\ x.policy = s.policy /\ x.stopping = s.stopping
       /\ x.timedOut = s.timedOut /\ x.calls = s.calls /\ x.seq = s.seq + 1 /\ x.alive = s.alive
  BY <1>2, <1>3, <1>7, <1>9 DEF Wrote, Reop, Acked
<1>11. PendingType(x) = type /\ At(x, L).type = type
  BY <1>8, <1>9 DEF PendingType, At, Wrote
<1>12. Written(x, L)
  <2>1. Follows(StageOf(L), x.pending.rec)
    BY <1>3, <1>5, <1>6, <1>9 DEF Follows, Wrote
  <2> QED  BY <2>1, <1>1, <1>3, <1>6, <1>8, <1>9, <1>10 DEF Written, Wrote
<1>13. Phase(x, L)
  BY <1>8, <1>10, <1>11 DEF Phase, Idle
<1>14. Ending(x, L)
  BY <1>7, <1>8, <1>10, <1>11 DEF Ending
<1>15. Queued(x, L)
  BY <1>5, <1>7, <1>9, <1>10 DEF Queued, Good, Sound, Wrote
<1>16. Late(x, L)
  BY <1>8, <1>10, <1>11 DEF Late, Good, Sound, Completion
<1>17. Cleared(x, L) /\ Numbered(x, L) /\ TypedOp(x)
  BY <1>10 DEF Cleared, Numbered, TypedOp, Good, Sound
<1>18. Tasked(x, w)
  BY <1>7, <1>10 DEF Tasked, Active, Good, Sound
<1>19. Quiet(s, x)
  BY <1>10 DEF Quiet, LetGo
<1> QED  BY <1>10, <1>12, <1>13, <1>14, <1>15, <1>16, <1>17, <1>18, <1>19 DEF Good, Sound, x, u

LEMMA SettledAck ==
    ASSUME NEW s, NEW w \in Tasks, NEW L \in Seq(Recs), Good(s, w, L), s.pending # None, s.pending.committed,
           s.pending.next.k = "settled", NEW t, Acked(s, t)
    PROVE  LET u == [t EXCEPT !.op = None]
               x == IF t.op.kind = "model" THEN ModelResult(u, t.op.id, s.pending.next.arg)
                    ELSE ToolResult(u, t.op.id, t.op.call)
           IN  Good(x, w, L) /\ Quiet(s, x)
<1> DEFINE u == [t EXCEPT !.op = None]
           result == s.pending.next.arg
           x == IF t.op.kind = "model" THEN ModelResult(u, t.op.id, result)
                ELSE ToolResult(u, t.op.id, t.op.call)
           Result == Good(x, w, L) /\ Quiet(s, x)
<1> SUFFICES Result
  OBVIOUS
<1>1. s \in Runs /\ t.op = s.op
  BY DEF Good, Acked
<1>2. result \in Answers
  <2>1. s.pending.next \in Nexts
    BY <1>1, PendingTypes
  <2> QED  BY <2>1 DEF Nexts
<1>3. s.op # None /\ s.op \in Ops
  <2>1. PendingType(s) = "operation_settled"
    BY <1>1, PendingTypes DEF Good, Sound, Written, Fits
  <2>2. At(s, L).type = "operation_settled"
    BY <2>1 DEF At, Stages, PendingType
  <2>3. s.op # None
    BY <2>2 DEF Good, Sound, Phase, Idle, Completion
  <2> QED  BY <1>1, <2>3 DEF Runs
<1>4. s.op.kind \in {"model", "tool"}
  BY <1>3 DEF Ops
<1>5. CASE s.op.kind = "model" /\ result.k \in {"turn", "cut"}
  <2> DEFINE next == Then("turn", result)
  <2>1. x = Publish(u, "model_completed", s.op.id, result, next)
    BY <1>1, <1>5 DEF ModelResult
  <2>2. result \in Turned /\ result \in Contents
    BY <1>2, <1>5 DEF Answers, Contents
  <2> HIDE DEF result
  <2>3. next \in Nexts /\ next.k = "turn" /\ next.arg = result
    BY <2>2 DEF Nexts, Then
  <2> HIDE DEF next
  <2>4. Fits(next, "model_completed", result) /\ "model_completed" \in Completion
    BY <2>3 DEF Fits, Completion
  <2> HIDE DEF x, u
  <2>5. Good(Publish(u, "model_completed", s.op.id, result, next), w, L)
        /\ Quiet(s, Publish(u, "model_completed", s.op.id, result, next))
    BY <2>2, <2>3, <2>4, CompletionKeeps DEF u
  <2> QED  BY <2>1, <2>5
<1>6. CASE s.op.kind = "model" /\ result.k \notin {"turn", "cut"}
  <2> DEFINE next == Then("model_failed", None)
  <2>1. x = Publish(u, "model_failed", s.op.id, None, next)
    BY <1>1, <1>6 DEF ModelResult
  <2>2. next \in Nexts /\ next.k = "model_failed" /\ None \in Contents
    BY DEF Nexts, Then, Contents
  <2> HIDE DEF next
  <2>3. Fits(next, "model_failed", None) /\ "model_failed" \in Completion
    BY <2>2 DEF Fits, Completion
  <2> HIDE DEF x, u
  <2>4. Good(Publish(u, "model_failed", s.op.id, None, next), w, L)
        /\ Quiet(s, Publish(u, "model_failed", s.op.id, None, next))
    BY <2>2, <2>3, CompletionKeeps DEF u
  <2> QED  BY <2>1, <2>4
<1>7. CASE s.op.kind = "tool"
  <2> DEFINE next == Then("advance", None)
             c == s.op.call
  <2>1. x = Publish(u, "tool_completed", s.op.id, CallId(c), next)
    BY <1>1, <1>7 DEF ToolResult
  <2>2. c \in Calls
    BY <1>3, <1>7 DEF Ops, TypedOp, Good
  <2> HIDE DEF c
  <2>3. next \in Nexts /\ next.k = "advance" /\ CallId(c) \in Contents
    BY <2>2, CallTypes
  <2> HIDE DEF next
  <2>4. Fits(next, "tool_completed", CallId(c)) /\ "tool_completed" \in Completion
    BY <2>3 DEF Fits, Completion
  <2> HIDE DEF x, u
  <2>5. Good(Publish(u, "tool_completed", s.op.id, CallId(c), next), w, L)
        /\ Quiet(s, Publish(u, "tool_completed", s.op.id, CallId(c), next))
    BY <2>3, <2>4, CompletionKeeps DEF u
  <2> QED  BY <2>1, <2>5
<1> QED  BY <1>4, <1>5, <1>6, <1>7

\* The run is over.
LEMMA FinishAck ==
    ASSUME NEW s, NEW w \in Tasks, NEW L \in Seq(Recs), Good(s, w, L), s.pending # None, s.pending.committed,
           s.pending.next.k = "finish", NEW t, Acked(s, t)
    PROVE  LET x == [t EXCEPT !.status = s.pending.next.arg, !.approval = None, !.calls = <<>>,
                              !.steer = <<>>, !.asked = @ \ t.waiters, !.waiters = {}]
           IN  Good(x, w, L) /\ Quiet(s, x)
<1> DEFINE status == s.pending.next.arg
           asked == t.asked \ t.waiters
           x == [t EXCEPT !.status = status, !.approval = None, !.calls = <<>>,
                          !.steer = <<>>, !.asked = @ \ t.waiters, !.waiters = {}]
<1>1. s \in Runs /\ t \in Runs
  BY DEF Good, Acked
<1>2. /\ Written(t, L) /\ At(t, L) = At(s, L) /\ StageOf(L) = At(s, L) /\ PendingType(t) = "none"
  BY <1>1, AckStage DEF Good, Sound
<1>3. s.pending.next \in Nexts /\ PendingType(s) = s.pending.rec.type
  BY <1>1, PendingTypes
<1>4. status \in Terminal /\ status \in Statuses
  BY <1>3 DEF Nexts, Statuses
<1>5. PendingType(s) = "finished" /\ At(s, L).type = "finished"
  BY <1>3 DEF Good, Sound, Written, Fits, At, Stages
<1> HIDE DEF status
<1>6. /\ x \in Runs /\ x.status = status /\ x.approval = None /\ x.calls = <<>>
      /\ x.policy = t.policy /\ x.alive = t.alive /\ x.stopping = t.stopping /\ x.finishing = t.finishing
      /\ x.timedOut = t.timedOut /\ x.ops = t.ops /\ x.seq = t.seq /\ x.op = t.op
      /\ x.controls = t.controls /\ x.pending = t.pending
  <2> HIDE DEF Calls, Statuses, Requests, Controls, Ops, Appends
  <2>1. asked \in SUBSET Clients /\ {} \in SUBSET Clients
    BY <1>1 DEF Runs
  <2>2. <<>> \in Seq(Calls) /\ <<>> \in Seq(Nat)
    OBVIOUS
  <2>3. x = [t EXCEPT !.status = status, !.approval = None, !.calls = <<>>,
                      !.steer = <<>>, !.asked = asked, !.waiters = {}]
    OBVIOUS
  <2> HIDE DEF asked, x
  <2>4. x \in Runs
    BY <1>1, <1>4, <2>1, <2>2, <2>3 DEF Runs
  <2> QED  BY <1>1, <2>3, <2>4 DEF Runs
<1> HIDE DEF x
<1>7. At(x, L) = At(s, L) /\ PendingType(x) = "none"
  BY <1>2, <1>6 DEF At, PendingType, Acked
<1>8. s.op = None
  BY <1>5 DEF Good, Sound, Phase
<1>9. Written(x, L) /\ Numbered(x, L) /\ Late(x, L)
  BY <1>2, <1>6, <1>7 DEF Written, Numbered, Late, Good, Sound, Acked
<1>10. Phase(x, L)
  <2>1. "finished" \notin Admission \cup Start /\ "finished" \in Stages
    BY DEF Admission, Start, Stages
  <2> QED  BY <1>5, <1>6, <1>7, <1>8, <2>1 DEF Phase, Acked
<1>11. Ending(x, L)
  BY <1>4, <1>5, <1>6, <1>7 DEF Ending, Good, Sound, Acked
<1>12. Queued(x, L)
  BY <1>5, <1>6, <1>7, <1>8 DEF Queued, Good, Sound, Acked
<1>13. Cleared(x, L) /\ Tasked(x, w) /\ TypedOp(x) /\ Quiet(s, x)
  BY <1>6, <1>8 DEF Cleared, Tasked, TypedOp, Quiet, LetGo, Good, Sound, Acked
<1> QED  BY <1>6, <1>9, <1>10, <1>11, <1>12, <1>13 DEF Good, Sound, x, status
\* Nobody looks at the result, the timer or the credits of an operation.
LEMMA OpKeeps ==
    ASSUME NEW s, NEW w \in Tasks, NEW L \in Seq(Recs), Good(s, w, L), s.op # None, NEW q \in Ops,
           q.id = s.op.id, q.kind = s.op.kind, q.call = s.op.call, q.effect = s.op.effect,
           q.task = s.op.task, q.down = s.op.down, q.sent = s.op.sent
    PROVE  LET t == [s EXCEPT !.op = q]
           IN  Good(t, w, L) /\ Quiet(s, t) /\ Reop(s, t, q) /\ q # None
<1> DEFINE t == [s EXCEPT !.op = q]
<1>1. Reop(s, t, q) /\ q # None
  BY OpChange DEF Good
<1> HIDE DEF t
<1>2. At(t, L) = At(s, L) /\ PendingType(t) = PendingType(s) /\ t.op = q /\ t.ops = s.ops
  BY <1>1 DEF Reop, At, PendingType
<1>3. Phase(t, L)
  BY <1>1, <1>2 DEF Phase, Good, Sound
<1>4. Written(t, L) /\ Ending(t, L) /\ Queued(t, L) /\ Late(t, L) /\ Numbered(t, L)
  BY <1>1, <1>2 DEF Written, Ending, Queued, Late, Numbered, Good, Sound, Reop
<1>5. Cleared(t, L) /\ TypedOp(t) /\ Tasked(t, w)
  BY <1>1 DEF Cleared, TypedOp, Tasked, Good, Sound, Reop
<1>6. Quiet(s, t)
  BY <1>1, <1>2 DEF Quiet, LetGo
<1>7. Good(t, w, L)
  BY <1>1, <1>3, <1>4, <1>5 DEF Good, Sound, Reop
<1> QED  BY <1>1, <1>6, <1>7 DEF t

\* Whatever follows an acknowledged record keeps the invariant, lets no task go
\* and admits nothing.
LEMMA ResumeKeeps ==
    ASSUME NEW s, NEW w \in Tasks, NEW L \in Seq(Recs), Good(s, w, L), s.pending # None, s.pending.committed
    PROVE  LET x == Resume([s EXCEPT !.pending = None, !.seq = s.pending.rec.seq], s.pending.rec, s.pending.next)
           IN  Good(x, w, L) /\ Quiet(s, x)
<1> DEFINE t == [s EXCEPT !.pending = None, !.seq = s.pending.rec.seq]
           rec == s.pending.rec
           next == s.pending.next
           x == Resume(t, rec, next)
           Result == Good(x, w, L) /\ Quiet(s, x)
<1> SUFFICES Result
  OBVIOUS
<1>0. s \in Runs
  BY DEF Good
<1>1. Acked(s, t)
  BY <1>0, AckFields
<1>2. next \in Nexts /\ rec \in Recs /\ rec.op \in Nat
  BY <1>0, PendingTypes
<1>3. L[Len(L)] = rec /\ Len(L) = s.seq + 1 /\ s.seq \in Nat /\ Fits(next, rec.type, rec.what)
  BY <1>0, <1>1, AckStage DEF Good, Sound, Written, Runs
<1>4. t \in Runs /\ t.pending = None /\ t.op = s.op /\ t.policy = s.policy /\ t.approval = s.approval
      /\ t.stopping = s.stopping
  BY <1>1 DEF Acked
<1> HIDE DEF t, rec, next
<1> USE DEF next
<1>5. next.k \notin {"effect", "settled", "finish"} => Good(t, w, L) /\ Quiet(s, t) /\ ~t.finishing
  BY <1>1, AckKeeps
<1> HIDE DEF next
<1>6. ASSUME NEW y, Quiet(t, y), Quiet(s, t) PROVE Quiet(s, y)
  BY <1>6 DEF Quiet
<1>7. ASSUME NEW u, Reset(t, u), u.status \notin Terminal, u.approval # None => t.op = None /\ t.policy = "ask",
             next.k \notin {"effect", "settled", "finish"}
      PROVE  Good(u, w, L) /\ Quiet(s, u)
  BY <1>5, <1>6, <1>7, ResetKeeps
<1>8. next.k \notin {"effect", "settled", "finish"} =>
        (t.approval # None => t.op = None /\ t.policy = "ask") /\ t.status \notin Terminal
  BY <1>4, <1>5 DEF Good, Sound, Queued, Ending
<1>9. CASE next.k = "advance"
  <2>1. x = t
    BY <1>9 DEF Resume
  <2> QED  BY <1>5, <1>9, <2>1
<1>10. CASE next.k = "pause"
  <2> DEFINE u == [Answer(t, next.arg.from) EXCEPT !.paused = TRUE]
  <2>1. x = u
    BY <1>10 DEF Resume
  <2>2. Reset(t, u) /\ u.status = t.status /\ u.approval = t.approval
    BY <1>4 DEF Answer, Runs, Reset
  <2> HIDE DEF u, x
  <2>3. Good(u, w, L) /\ Quiet(s, u)
    BY <1>7, <1>8, <1>10, <2>2
  <2> QED  BY <2>1, <2>3
<1>11. CASE next.k = "continue"
  <2> DEFINE u == [Answer(t, next.arg.from) EXCEPT !.paused = FALSE, !.status = next.arg.status]
  <2>1. x = u
    BY <1>11 DEF Resume
  <2>2. next.arg.status \in {"running", "waiting_approval"}
    BY <1>2, <1>11 DEF Nexts
  <2>3. Reset(t, u) /\ u.status = next.arg.status /\ u.approval = t.approval
    BY <1>4, <2>2 DEF Answer, Runs, Reset, Statuses
  <2> HIDE DEF u, x
  <2>4. u.status \notin Terminal
    BY <2>2, <2>3 DEF Terminal
  <2>5. Good(u, w, L) /\ Quiet(s, u)
    BY <1>7, <1>8, <1>11, <2>3, <2>4
  <2> QED  BY <2>1, <2>5
<1>12. CASE next.k = "steer"
  <2> DEFINE id == next.arg.id
             steer == Append(t.steer, id)
             u == [Answer(t, next.arg.from) EXCEPT !.steer = steer]
  <2>1. x = u
    <3>1. x = [Answer(t, next.arg.from) EXCEPT !.steer = Append(@, next.arg.id)]
      BY <1>12 DEF Resume
    <3>2. Answer(t, next.arg.from).steer = t.steer
      BY <1>4 DEF Answer, Runs
    <3> QED  BY <3>1, <3>2
  <2>2. id \in Nat
    BY <1>2, <1>12 DEF Nexts, Steers
  <2>3. t.steer \in Seq(Nat)
    BY <1>4 DEF Runs
  <2> HIDE DEF id
  <2>4. steer \in Seq(Nat)
    BY <2>2, <2>3
  <2> HIDE DEF steer
  <2>5. Reset(t, u) /\ u.status = t.status /\ u.approval = t.approval
    BY <1>4, <2>4 DEF Answer, Runs, Reset
  <2> HIDE DEF u, x
  <2>6. Good(u, w, L) /\ Quiet(s, u)
    BY <1>7, <1>8, <1>12, <2>5
  <2> QED  BY <2>1, <2>6
<1>13. CASE next.k = "approve"
  <2> DEFINE u == [Answer(t, next.arg.from) EXCEPT !.approval = None, !.status = "running"]
             c == next.arg.call
             decision == next.arg.decision
  <2>1. x = Decide(u, c, decision)
    BY <1>13 DEF Resume
  <2>2. Reset(t, u) /\ u.status = "running" /\ u.approval = None
    BY <1>4 DEF Answer, Runs, Reset, Statuses
  <2>3. c \in Calls /\ decision \in Decisions
    BY <1>2, <1>13 DEF Nexts, Resolutions
  <2>4. decision = "allow" => Allowed(c, L)
    <3>1. rec.type = "approval_resolved" /\ rec.what = [call |-> CallId(c), decision |-> decision]
      BY <1>3, <1>13 DEF Fits
    <3>2. Len(L) \in DOMAIN L
      <4> HIDE DEF Recs
      <4> QED  BY <1>3
    <3> HIDE DEF c, decision
    <3> QED  BY <1>3, <3>1, <3>2 DEF Allowed
  <2>5. s.op = None /\ s.policy = "ask"
    BY <1>13 DEF Good, Sound, Queued, next
  <2> HIDE DEF u, x, c, decision
  <2>6. "running" \notin Terminal
    BY DEF Terminal
  <2>7. Good(u, w, L) /\ Quiet(s, u)
    BY <1>7, <1>13, <2>2, <2>6
  <2>8. u.pending = None /\ ~u.finishing /\ u.op = None /\ u.policy = "ask"
    BY <1>4, <1>5, <1>13, <2>2, <2>5 DEF Reset
  <2>9. Good(Decide(u, c, decision), w, L) /\ Quiet(u, Decide(u, c, decision))
    BY <2>3, <2>4, <2>7, <2>8, DecideKeeps
  <2> QED  BY <2>1, <2>7, <2>9 DEF Quiet
<1>14. CASE next.k = "event"
  <2>1. CASE t.op = None
    <3>1. x = t
      BY <1>14, <2>1 DEF Resume
    <3> QED  BY <1>5, <1>14, <3>1
  <2>2. CASE t.op # None
    <3> DEFINE q == [t.op EXCEPT !.credits = @ + 1]
    <3>1. t.op \in Ops
      BY <1>4, <2>2 DEF Runs
    <3>2. x = [t EXCEPT !.op = q]
      BY <1>4, <1>14, <2>2, <3>1 DEF Resume, Runs, Ops
    <3>3. /\ q \in Ops /\ q.id = t.op.id /\ q.kind = t.op.kind /\ q.call = t.op.call /\ q.effect = t.op.effect
          /\ q.task = t.op.task /\ q.down = t.op.down /\ q.sent = t.op.sent
      <4>1. t.op.credits + 1 \in Nat
        BY <3>1 DEF Ops
      <4>2. q \in Ops
        <5> HIDE DEF Calls, Answers
        <5> QED  BY <3>1, <4>1 DEF Ops
      <4> QED  BY <3>1, <4>2 DEF Ops
    <3> HIDE DEF q, x
    <3>4. Good([t EXCEPT !.op = q], w, L) /\ Quiet(t, [t EXCEPT !.op = q])
      BY <1>5, <1>14, <2>2, <3>3, OpKeeps
    <3> QED  BY <1>5, <1>6, <1>14, <3>2, <3>4
  <2> QED  BY <2>1, <2>2
<1>15. CASE next.k = "approval"
  <2> DEFINE request == [k |-> "approval", call |-> next.arg, resolving |-> FALSE]
             u == [t EXCEPT !.status = "waiting_approval", !.approval = request]
  <2>1. x = u
    BY <1>15 DEF Resume
  <2>2. request \in Requests
    <3>1. next.arg \in Calls
      BY <1>2, <1>15 DEF Nexts
    <3> HIDE DEF Calls
    <3> QED  BY <3>1 DEF Requests
  <2>3. t.op = None /\ t.policy = "ask"
    BY <1>4, <1>15 DEF Good, Sound, Queued, next
  <2> HIDE DEF request
  <2>4. Reset(t, u) /\ u.status = "waiting_approval"
    <3> HIDE DEF Requests
    <3> QED  BY <1>4, <2>2 DEF Runs, Reset, Statuses
  <2> HIDE DEF u, x
  <2>5. "waiting_approval" \notin Terminal
    BY DEF Terminal
  <2>6. Good(u, w, L) /\ Quiet(s, u)
    BY <1>7, <1>15, <2>3, <2>4, <2>5
  <2> QED  BY <2>1, <2>6
<1>16. CASE next.k = "effect"
  <2>1. x = [t EXCEPT !.op.effect = next.arg]
    BY <1>16 DEF Resume
  <2> HIDE DEF x
  <2>2. Good([t EXCEPT !.op.effect = next.arg], w, L) /\ Quiet(s, [t EXCEPT !.op.effect = next.arg])
    BY <1>1, <1>16, EffectAck DEF next
  <2> QED  BY <2>1, <2>2
<1>17. CASE next.k = "settled"
  <2> DEFINE y == IF t.op.kind = "model" THEN ModelResult([t EXCEPT !.op = None], t.op.id, next.arg)
                  ELSE ToolResult([t EXCEPT !.op = None], t.op.id, t.op.call)
  <2>1. x = y
    BY <1>17 DEF Resume
  <2>2. Good(y, w, L) /\ Quiet(s, y)
    BY <1>1, <1>17, SettledAck DEF next
  <2> HIDE DEF x, y
  <2> QED  BY <2>1, <2>2
<1>18. CASE next.k = "turn"
  <2> DEFINE result == next.arg
  <2>1. x = AfterTurn(t, rec.op, result)
    BY <1>18 DEF Resume
  <2>2. result \in Turned
    BY <1>2, <1>18 DEF Nexts
  <2>3. t.op = None
    <3>1. PendingType(s) = "model_completed"
      BY <1>3, <1>18, <1>0, PendingTypes DEF Fits, rec
    <3>2. At(s, L).type = "model_completed" /\ "model_completed" \in Completion
      BY <3>1 DEF At, PendingType, Stages, Completion
    <3> QED  BY <1>4, <3>2 DEF Good, Sound, Phase, Idle
  <2> HIDE DEF result, x
  <2>4. Good(AfterTurn(t, rec.op, result), w, L) /\ Quiet(t, AfterTurn(t, rec.op, result))
    BY <1>2, <1>4, <1>5, <1>18, <2>2, <2>3, AfterTurnKeeps
  <2> QED  BY <1>5, <1>6, <1>18, <2>1, <2>4
<1>19. CASE next.k = "model_failed"
  <2>1. CASE t.stopping
    <3>1. x = t
      BY <1>19, <2>1 DEF Resume
    <3> QED  BY <1>5, <1>19, <3>1
  <2>2. CASE ~t.stopping
    <3>1. x = Finish(t, "failed")
      BY <1>19, <2>2 DEF Resume
    <3>2. t.op = None
      <4>1. PendingType(s) = "model_failed"
        BY <1>3, <1>19, <1>0, PendingTypes DEF Fits, rec
      <4>2. At(s, L).type = "model_failed" /\ "model_failed" \in Completion
        BY <4>1 DEF At, PendingType, Stages, Completion
      <4> QED  BY <1>4, <4>2 DEF Good, Sound, Phase, Idle
    <3>3. "failed" \in Terminal /\ \A i \in DOMAIN t.controls : Guarded(t.controls[i])
      BY <1>5, <1>19, <2>2, <3>2, OnlyCallers DEF Terminal
    <3> HIDE DEF x
    <3>4. Good(Finish(t, "failed"), w, L) /\ Quiet(t, Finish(t, "failed"))
      BY <1>4, <1>5, <1>19, <3>2, <3>3, FinishKeeps
    <3> QED  BY <1>5, <1>6, <1>19, <3>1, <3>4
  <2> QED  BY <2>1, <2>2
<1>20. CASE next.k = "paused"
  <2> DEFINE u == [t EXCEPT !.status = "paused"]
  <2>1. x = u
    BY <1>20 DEF Resume
  <2>2. Reset(t, u) /\ u.status = "paused" /\ u.approval = t.approval
    BY <1>4 DEF Runs, Reset, Statuses
  <2> HIDE DEF u, x
  <2>3. "paused" \notin Terminal
    BY DEF Terminal
  <2>4. Good(u, w, L) /\ Quiet(s, u)
    BY <1>7, <1>8, <1>20, <2>2, <2>3
  <2> QED  BY <2>1, <2>4
<1>21. CASE next.k = "finish"
  <2> DEFINE y == [t EXCEPT !.status = next.arg, !.approval = None, !.calls = <<>>,
                            !.steer = <<>>, !.asked = @ \ t.waiters, !.waiters = {}]
  <2>1. x = y
    BY <1>21 DEF Resume
  <2>2. Good(y, w, L) /\ Quiet(s, y)
    BY <1>1, <1>21, FinishAck DEF next
  <2> HIDE DEF x, y
  <2> QED  BY <2>1, <2>2
<1>22. next.k \in {"advance", "paused", "event", "model_failed", "pause", "continue", "steer", "approve",
                   "approval", "effect", "settled", "turn", "finish"}
  BY <1>2 DEF Nexts
<1> QED  BY <1>9, <1>10, <1>11, <1>12, <1>13, <1>14, <1>15, <1>16, <1>17, <1>18, <1>19, <1>20, <1>21, <1>22
-----------------------------------------------------------------------------
(* The log.                                                                *)

\* What the log alone says: it is numbered and ends once; a start comes after
\* its admission, and an operation is settled at most once, by when another is
\* admitted or the log ends.
SettledAs(r, o) == r.type = "operation_settled" /\ r.op = o
Counted(L) == \A i \in DOMAIN L : L[i].seq = i
Ended(L) == \A i \in DOMAIN L : L[i].type = "finished" => i = Len(L) /\ StageOf(L).type = "finished"
Begun(L) == \A j \in DOMAIN L : L[j].type \in Start =>
              \E i \in DOMAIN L : i < j /\ L[i].type \in Admission /\ L[i].op = L[j].op
SettledOnce(L) ==
    /\ \A i, j \in DOMAIN L : SettledAs(L[i], L[i].op) /\ SettledAs(L[j], L[i].op) => i = j
    /\ StageOf(L).type \in Admission \cup Start => \A i \in DOMAIN L : ~SettledAs(L[i], StageOf(L).op)
SettledFirst(L) ==
    /\ \A i \in DOMAIN L : L[i].type \in Admission =>
         \/ StageOf(L).type \in Admission \cup Start /\ StageOf(L).op = L[i].op
         \/ \E k \in DOMAIN L : i < k /\ SettledAs(L[k], L[i].op)
    /\ \A i, j \in DOMAIN L :
         i < j /\ L[i].type \in Admission /\ L[j].type \in Admission \cup {"finished"} =>
           \E k \in DOMAIN L : i < k /\ k < j /\ SettledAs(L[k], L[i].op)
LogInv(L) == Counted(L) /\ Ended(L) /\ Begun(L) /\ SettledOnce(L) /\ SettledFirst(L)

\* The last record that tells a stage, if there is one, gives it.
LEMMA StageIs ==
    ASSUME NEW L \in Seq(Recs), NEW i \in DOMAIN L, L[i].type \in Stages,
           \A j \in DOMAIN L : i < j => L[j].type \notin Stages
    PROVE  StageOf(L) = [type |-> L[i].type, op |-> L[i].op]
<1> DEFINE staged == {j \in DOMAIN L : L[j].type \in Stages}
           last == CHOOSE k \in staged : \A j \in staged : j <= k
<1>0. DOMAIN L = 1 .. Len(L) /\ Len(L) \in Nat
  <2> HIDE DEF Recs
  <2> QED  OBVIOUS
<1>1. i \in staged /\ staged \subseteq Nat
  BY <1>0
<1>2. \A j \in staged : j <= i
  BY <1>0
<1>3. last \in staged /\ \A j \in staged : j <= last
  BY <1>1, <1>2
<1>4. last = i
  BY <1>1, <1>2, <1>3
<1> QED  BY <1>1, <1>4 DEF StageOf

LEMMA StageFrom ==
    ASSUME NEW L \in Seq(Recs)
    PROVE  \/ /\ StageOf(L) = [type |-> "idle", op |-> 0]
              /\ \A j \in DOMAIN L : L[j].type \notin Stages
           \/ \E i \in DOMAIN L : /\ L[i].type \in Stages
                                  /\ \A j \in DOMAIN L : i < j => L[j].type \notin Stages
                                  /\ StageOf(L) = [type |-> L[i].type, op |-> L[i].op]
<1> DEFINE staged == {j \in DOMAIN L : L[j].type \in Stages}
           behind == {Len(L) - j : j \in staged}
<1>0. DOMAIN L = 1 .. Len(L) /\ Len(L) \in Nat
  <2> HIDE DEF Recs
  <2> QED  OBVIOUS
<1>1. CASE staged = {}
  BY <1>1 DEF StageOf
<1>2. CASE staged # {}
  <2>1. behind \subseteq Nat /\ behind # {}
    BY <1>0, <1>2
  <2>2. PICK b \in behind : \A c \in behind : b <= c
    <3> HIDE DEF behind
    <3> QED  BY <2>1, LeastOf
  <2>3. PICK i \in staged : b = Len(L) - i
    OBVIOUS
  <2>4. \A j \in DOMAIN L : i < j => L[j].type \notin Stages
    <3> SUFFICES ASSUME NEW j \in staged, i < j PROVE FALSE
      OBVIOUS
    <3>1. Len(L) - j \in behind
      OBVIOUS
    <3>2. b <= Len(L) - j
      BY <2>2, <3>1
    <3> QED  BY <1>0, <2>3, <3>2
  <2> QED  BY <2>4, StageIs
<1> QED  BY <1>1, <1>2

LEMMA Appended ==
    ASSUME NEW L \in Seq(Recs), NEW r \in Recs
    PROVE  LET M == Append(L, r)
           IN  /\ M \in Seq(Recs) /\ Len(M) = Len(L) + 1 /\ Len(L) \in Nat /\ M[Len(L) + 1] = r
               /\ DOMAIN L = 1 .. Len(L) /\ DOMAIN M = 1 .. Len(L) + 1
               /\ DOMAIN M = DOMAIN L \cup {Len(L) + 1}
               /\ \A i \in DOMAIN L : M[i] = L[i] /\ i < Len(L) + 1 /\ i \in Nat /\ i # Len(L) + 1
<1> HIDE DEF Recs
<1> QED  OBVIOUS

LEMMA StageAppend ==
    ASSUME NEW L \in Seq(Recs), NEW r \in Recs
    PROVE  StageOf(Append(L, r)) = IF r.type \in Stages THEN [type |-> r.type, op |-> r.op] ELSE StageOf(L)
<1> DEFINE M == Append(L, r)
           n == Len(L) + 1
<1>1. /\ M \in Seq(Recs) /\ n \in DOMAIN M /\ M[n] = r /\ DOMAIN M = DOMAIN L \cup {n}
      /\ \A i \in DOMAIN L : M[i] = L[i] /\ i < n /\ i \in Nat
      /\ n \in Nat
  BY Appended
<1> HIDE DEF M, n
<1>2. CASE r.type \in Stages
  <2>1. \A j \in DOMAIN M : n < j => M[j].type \notin Stages
    BY <1>1
  <2>2. StageOf(M) = [type |-> M[n].type, op |-> M[n].op]
    BY <1>1, <1>2, <2>1, StageIs
  <2> QED  BY <1>1, <1>2, <2>2 DEF M
<1>3. CASE r.type \notin Stages
  <2>1. CASE StageOf(L) = [type |-> "idle", op |-> 0] /\ \A j \in DOMAIN L : L[j].type \notin Stages
    <3>1. \A j \in DOMAIN M : M[j].type \notin Stages
      BY <1>1, <1>3, <2>1
    <3>2. StageOf(M) = [type |-> "idle", op |-> 0]
      BY <1>1, <3>1, StageFrom
    <3> QED  BY <1>3, <2>1, <3>2 DEF M
  <2>2. CASE \E i \in DOMAIN L : /\ L[i].type \in Stages
                                 /\ \A j \in DOMAIN L : i < j => L[j].type \notin Stages
                                 /\ StageOf(L) = [type |-> L[i].type, op |-> L[i].op]
    <3>1. PICK i \in DOMAIN L : /\ L[i].type \in Stages
                                /\ \A j \in DOMAIN L : i < j => L[j].type \notin Stages
                                /\ StageOf(L) = [type |-> L[i].type, op |-> L[i].op]
      BY <2>2
    <3>2. i \in DOMAIN M /\ M[i] = L[i] /\ \A j \in DOMAIN M : i < j => M[j].type \notin Stages
      BY <1>1, <1>3, <3>1
    <3>3. StageOf(M) = [type |-> M[i].type, op |-> M[i].op]
      BY <1>1, <3>1, <3>2, StageIs
    <3> QED  BY <1>3, <3>1, <3>2, <3>3 DEF M
  <2> QED  BY <2>1, <2>2, StageFrom
<1> QED  BY <1>2, <1>3
\* The record types have no part in common.
LEMMA TypesApart ==
    /\ \A x \in Admission : x \notin Start /\ x \notin Completion /\ x \notin {"operation_settled", "finished", "idle"}
    /\ \A x \in Start : x \notin Completion /\ x \notin {"operation_settled", "finished", "idle"}
    /\ \A x \in Completion : x \notin {"operation_settled", "finished", "idle"}
    /\ Admission \subseteq Stages /\ Start \subseteq Stages /\ Completion \subseteq Stages
    /\ "operation_settled" \in Stages /\ "finished" \in Stages
    /\ "tool_completed" \in Completion /\ "idle" \notin Stages /\ "none" \notin Stages
BY DEF Admission, Start, Completion, Stages

\* A record that follows the stage of the log keeps it in order.
LEMMA LogAppend ==
    ASSUME NEW L \in Seq(Recs), LogInv(L), NEW r \in Recs, Follows(StageOf(L), r), r.seq = Len(L) + 1,
           r.type \in Admission => \A i \in DOMAIN L : L[i].op < r.op
    PROVE  LogInv(Append(L, r))
<1> DEFINE M == Append(L, r)
           n == Len(L) + 1
           st == StageOf(L)
           new == StageOf(M)
<1>1. /\ M \in Seq(Recs) /\ Len(M) = n /\ n \in DOMAIN M /\ M[n] = r /\ DOMAIN M = DOMAIN L \cup {n}
      /\ \A i \in DOMAIN L : M[i] = L[i] /\ i < n /\ i \in Nat /\ i # n
      /\ n \in Nat
  BY Appended
<1>2. new = IF r.type \in Stages THEN [type |-> r.type, op |-> r.op] ELSE st
  BY StageAppend
<1>3. /\ r.op \in Nat /\ r.type \in Notes \cup Stages
      /\ \A i \in DOMAIN L : L[i].op \in Nat
  BY RecordTypes DEF Recs
<1>4. /\ Counted(L) /\ Ended(L) /\ Begun(L) /\ SettledOnce(L) /\ SettledFirst(L)
  BY DEF LogInv
<1> HIDE DEF M, n, st, new
<1>5. Follows(st, r)
  BY DEF st
<1>6. st.type # "finished"
  BY <1>5, TypesApart DEF Follows, Idle
<1>7. Counted(M)
  BY <1>1, <1>4 DEF Counted, n
<1>8. Ended(M)
  <2>1. \A i \in DOMAIN L : L[i].type # "finished"
    BY <1>4, <1>6 DEF Ended, st
  <2> QED  BY <1>1, <1>2, <2>1, TypesApart DEF Ended, new
<1>9. Begun(M)
  <2> SUFFICES ASSUME NEW j \in DOMAIN M, M[j].type \in Start
               PROVE  \E i \in DOMAIN M : i < j /\ M[i].type \in Admission /\ M[i].op = M[j].op
    BY DEF Begun
  <2>1. CASE j \in DOMAIN L
    <3>1. PICK i \in DOMAIN L : i < j /\ L[i].type \in Admission /\ L[i].op = L[j].op
      BY <1>1, <1>4, <2>1 DEF Begun
    <3> QED  BY <1>1, <2>1, <3>1
  <2>2. CASE j = n
    <3>1. st.type \in Admission /\ r.op = st.op
      BY <1>1, <1>5, <2>2, TypesApart DEF Follows
    <3>2. PICK i \in DOMAIN L : st = [type |-> L[i].type, op |-> L[i].op]
      BY <3>1, StageFrom, TypesApart DEF st
    <3> QED  BY <1>1, <2>2, <3>1, <3>2
  <2> QED  BY <1>1, <2>1, <2>2
<1>10. SettledOnce(M)
  <2>1. ASSUME r.type = "operation_settled" PROVE \A i \in DOMAIN L : ~SettledAs(L[i], r.op)
    <3>1. st.type \in Admission \cup Start /\ r.op = st.op
      BY <1>5, <2>1, TypesApart DEF Follows
    <3> QED  BY <1>4, <3>1 DEF SettledOnce, st
  <2>2. \A i, j \in DOMAIN M : SettledAs(M[i], M[i].op) /\ SettledAs(M[j], M[i].op) => i = j
    <3> SUFFICES ASSUME NEW i \in DOMAIN M, NEW j \in DOMAIN M, SettledAs(M[i], M[i].op), SettledAs(M[j], M[i].op)
                 PROVE  i = j
      OBVIOUS
    <3>1. CASE i \in DOMAIN L /\ j \in DOMAIN L
      BY <1>1, <1>4, <3>1 DEF SettledOnce
    <3>2. CASE i = n /\ j \in DOMAIN L
      BY <1>1, <2>1, <3>2 DEF SettledAs
    <3>3. CASE i \in DOMAIN L /\ j = n
      BY <1>1, <2>1, <3>3 DEF SettledAs
    <3> QED  BY <1>1, <3>1, <3>2, <3>3
  <2>3. ASSUME new.type \in Admission \cup Start PROVE \A i \in DOMAIN M : ~SettledAs(M[i], new.op)
    <3>1. r.type # "operation_settled"
      BY <1>2, <2>3, TypesApart
    <3>2. ~SettledAs(r, new.op)
      BY <3>1 DEF SettledAs
    <3>3. CASE r.type \in Admission
      <4>1. new.op = r.op
        BY <1>2, <3>3, TypesApart
      <4>2. \A i \in DOMAIN L : L[i].op # r.op
        BY <1>3, <3>3
      <4> QED  BY <1>1, <3>2, <4>1, <4>2 DEF SettledAs
    <3>4. CASE r.type \notin Admission
      <4>1. new.op = st.op /\ st.type \in Admission \cup Start
        BY <1>2, <1>5, <2>3, <3>4, TypesApart DEF Follows
      <4>2. \A i \in DOMAIN L : ~SettledAs(L[i], st.op)
        BY <1>4, <4>1 DEF SettledOnce, st
      <4> QED  BY <1>1, <3>2, <4>1, <4>2
    <3> QED  BY <3>3, <3>4
  <2> QED  BY <2>2, <2>3 DEF SettledOnce, new
<1>11. SettledFirst(M)
  <2>1. ASSUME NEW i \in DOMAIN L, L[i].type \in Admission
        PROVE  \/ st.type \in Admission \cup Start /\ st.op = L[i].op
               \/ \E k \in DOMAIN L : i < k /\ SettledAs(L[k], L[i].op)
    BY <1>4, <2>1 DEF SettledFirst, st
  <2>2. ASSUME NEW i \in DOMAIN M, M[i].type \in Admission
        PROVE  \/ new.type \in Admission \cup Start /\ new.op = M[i].op
               \/ \E k \in DOMAIN M : i < k /\ SettledAs(M[k], M[i].op)
    <3>1. CASE i = n
      BY <1>1, <1>2, <2>2, <3>1, TypesApart
    <3>2. CASE i \in DOMAIN L /\ st.type \in Admission \cup Start /\ st.op = L[i].op
      <4>1. ~Idle(st) /\ st.type # "operation_settled"
        BY <3>2, TypesApart DEF Idle
      <4>2. \/ r.type \in Start /\ r.op = st.op
            \/ r.type = "operation_settled" /\ r.op = st.op
            \/ r.type \notin Stages
        BY <1>5, <4>1 DEF Follows
      <4>3. r.type = "operation_settled" => i < n /\ SettledAs(M[n], M[i].op)
        BY <1>1, <3>2, <4>2, TypesApart DEF SettledAs
      <4> QED  BY <1>1, <1>2, <3>2, <4>2, <4>3, TypesApart
    <3>3. CASE i \in DOMAIN L /\ \E k \in DOMAIN L : i < k /\ SettledAs(L[k], L[i].op)
      BY <1>1, <3>3
    <3>4. i \in DOMAIN L => M[i] = L[i]
      BY <1>1
    <3> QED  BY <1>1, <2>1, <2>2, <3>1, <3>2, <3>3, <3>4
  <2>3. ASSUME NEW i \in DOMAIN M, NEW j \in DOMAIN M, i < j, M[i].type \in Admission,
               M[j].type \in Admission \cup {"finished"}
        PROVE  \E k \in DOMAIN M : i < k /\ k < j /\ SettledAs(M[k], M[i].op)
    <3>1. CASE j \in DOMAIN L
      <4>1. i \in DOMAIN L
        BY <1>1, <2>3, <3>1
      <4>2. PICK k \in DOMAIN L : i < k /\ k < j /\ SettledAs(L[k], L[i].op)
        BY <1>1, <1>4, <2>3, <3>1, <4>1 DEF SettledFirst
      <4> QED  BY <1>1, <4>1, <4>2
    <3>2. CASE j = n
      <4>1. i \in DOMAIN L /\ L[i].type \in Admission
        BY <1>1, <2>3, <3>2
      <4>2. Idle(st)
        BY <1>1, <1>5, <2>3, <3>2, TypesApart DEF Follows
      <4>3. PICK k \in DOMAIN L : i < k /\ SettledAs(L[k], L[i].op)
        BY <2>1, <4>1, <4>2, TypesApart DEF Idle
      <4> QED  BY <1>1, <3>2, <4>1, <4>3
    <3> QED  BY <1>1, <3>1, <3>2
  <2> QED  BY <2>2, <2>3 DEF SettledFirst, new
<1> QED  BY <1>7, <1>8, <1>9, <1>10, <1>11 DEF LogInv, M
-----------------------------------------------------------------------------
(* The whole state.                                                        *)

\* The operation that has a task has the newest one, and its end is the last
\* that is heard of it.
TaskKept(s, w) == s.op # None /\ s.op.task => w.op = s.op.id
DownLast(w) == \A i \in DOMAIN w.out : w.out[i].k = "down" => i = Len(w.out) /\ w.st = "dead"
Whole(s, w, L) ==
    /\ w \in Tasks /\ L \in Seq(Recs)
    /\ Good(s, w, L) /\ Rest(s) /\ TaskKept(s, w) /\ DownLast(w) /\ LogInv(L)
RunInv == Whole(run, worker, log) /\ issued \in Nat

\* When the log has its last record the run knows.
LEMMA Over ==
    ASSUME NEW s, NEW w \in Tasks, NEW L \in Seq(Recs), Good(s, w, L), Ended(L),
           NEW i \in DOMAIN L, L[i].type = "finished"
    PROVE  StageOf(L).type = "finished" /\ At(s, L).type = "finished" /\ s.op = None /\ s.finishing
<1>1. StageOf(L).type = "finished"
  BY DEF Ended
<1>2. At(s, L).type = "finished"
  <2>1. CASE PendingType(s) \notin Stages
    BY <1>1, <2>1 DEF At
  <2>2. CASE PendingType(s) \in Stages
    <3>1. s.pending # None /\ PendingType(s) = s.pending.rec.type
      BY <2>2, TypesApart DEF PendingType
    <3>2. ~Follows(StageOf(L), s.pending.rec)
      BY <1>1, <2>2, <3>1, TypesApart DEF Follows, Idle
    <3>3. s.pending.committed
      BY <3>1, <3>2 DEF Good, Sound, Written
    <3>4. StageOf(L) = At(s, L)
      BY <2>2, <3>1, <3>3 DEF Good, Sound, Written
    <3> QED  BY <1>1, <3>4
  <2> QED  BY <2>1, <2>2
<1>3. s.op = None /\ s.finishing
  BY <1>2 DEF Good, Sound, Phase, Ending
<1> QED  BY <1>1, <1>2, <1>3

\* A stop, also one that a timer brings.
Halted(s, t) ==
    /\ t \in Runs /\ t.stopping = TRUE /\ (s.timedOut => t.timedOut)
    /\ t.policy = s.policy /\ t.alive = s.alive /\ t.status = s.status /\ t.paused = s.paused
    /\ t.finishing = s.finishing /\ t.ops = s.ops /\ t.seq = s.seq /\ t.op = s.op
    /\ t.calls = s.calls /\ t.approval = s.approval /\ t.controls = s.controls /\ t.pending = s.pending
    /\ t.steer = s.steer

LEMMA HaltKeeps ==
    ASSUME NEW s, NEW w \in Tasks, NEW L \in Seq(Recs), Good(s, w, L), Ended(L), ~s.finishing,
           NEW t, Halted(s, t)
    PROVE  Good(t, w, L) /\ Quiet(s, t)
<1>1. At(t, L) = At(s, L) /\ PendingType(t) = PendingType(s)
  BY DEF At, PendingType, Halted
<1>2. Written(t, L) /\ Phase(t, L) /\ Numbered(t, L) /\ Ending(t, L)
  BY <1>1 DEF Written, Phase, Numbered, Ending, Good, Sound, Halted
<1>3. Queued(t, L)
  BY <1>1 DEF Queued, Good, Sound, Halted
<1>4. Late(t, L)
  <2>1. \A i \in DOMAIN L : L[i].type # "finished"
    BY Over
  <2>2. PendingType(s) # "finished"
    <3>1. PendingType(s) = "finished" => At(s, L).type = "finished"
      BY TypesApart DEF At, PendingType
    <3> QED  BY <3>1 DEF Good, Sound, Ending
  <2> QED  BY <1>1, <2>1, <2>2 DEF Late, Good, Sound, Halted
<1>5. Cleared(t, L) /\ Tasked(t, w) /\ TypedOp(t) /\ Quiet(s, t)
  BY DEF Cleared, Tasked, TypedOp, Quiet, LetGo, Good, Sound, Halted
<1> QED  BY <1>2, <1>3, <1>4, <1>5 DEF Good, Sound, Halted

\* A control is put at either end of the queue.
LEMMA EnqueueKeeps ==
    ASSUME NEW s, NEW w \in Tasks, NEW L \in Seq(Recs), Good(s, w, L), NEW c \in Controls, Sensible(s, L, c),
           NEW t, Requeue(s, t, Append(s.controls, c)) \/ Requeue(s, t, <<c>> \o s.controls)
    PROVE  Good(t, w, L) /\ Quiet(s, t)
<1>1. s.controls \in Seq(Controls)
  BY DEF Good, Runs
<1>2. \A i \in DOMAIN s.controls : Sensible(s, L, s.controls[i])
  BY AreSensible
<1> HIDE DEF Controls
<1>3. \A i \in DOMAIN Append(s.controls, c) : Sensible(s, L, Append(s.controls, c)[i])
  <2>1. ASSUME NEW i \in DOMAIN Append(s.controls, c)
        PROVE  Append(s.controls, c)[i] = c \/ (i \in DOMAIN s.controls /\ Append(s.controls, c)[i] = s.controls[i])
    BY <1>1
  <2> QED  BY <1>2, <2>1
<1>4. \A i \in DOMAIN (<<c>> \o s.controls) : Sensible(s, L, (<<c>> \o s.controls)[i])
  <2>1. ASSUME NEW i \in DOMAIN (<<c>> \o s.controls)
        PROVE  \/ (<<c>> \o s.controls)[i] = c
               \/ i - 1 \in DOMAIN s.controls /\ (<<c>> \o s.controls)[i] = s.controls[i - 1]
    BY <1>1
  <2> QED  BY <1>2, <2>1
<1> QED  BY <1>3, <1>4, ControlsKeep

\* An operation whose task has ended is still in hand when drive/1 is done.
LEMMA EndedInHand ==
    ASSUME NEW s \in Runs, s.op # None, s.op.down # "no", NEW spawned \in BOOLEAN
    PROVE  Drive(s, spawned).op = s.op
<1> DEFINE live == {i \in DOMAIN s.controls : ~Rejecting(s) \/ ~Guarded(s.controls[i])}
           first == CHOOSE i \in live : \A j \in live : i <= j
           n == IF live = {} THEN Len(s.controls) ELSE first - 1
           cs == SubSeq(s.controls, n + 2, Len(s.controls))
           asked == s.asked \ Callers(SubSeq(s.controls, 1, n))
           t == [s EXCEPT !.asked = asked, !.controls = cs]
           c == s.controls[first]
<1>1. t.op = s.op /\ "op" \in DOMAIN t
  <2> HIDE DEF asked, cs
  <2> QED  BY DEF Runs
<1>2. ASSUME NEW type, NEW op, NEW what, NEW next PROVE Publish(t, type, op, what, next).op = t.op
  <2> HIDE DEF t
  <2> QED  BY <1>1 DEF Publish
<1>3. Drive(s, spawned) = IF s.pending # None THEN s
                          ELSE IF live = {} THEN Advance(t, spawned) ELSE RunControl(t, c)
  BY DEF Drive
<1>4. live # {} => c \in Controls
  <2>1. live \subseteq Nat \ {0} /\ live \subseteq DOMAIN s.controls /\ s.controls \in Seq(Controls)
    <3>1. s.controls \in Seq(Controls)
      BY DEF Runs
    <3> HIDE DEF Controls
    <3> QED  BY <3>1
  <2>2. live # {} => first \in DOMAIN s.controls
    <3> HIDE DEF live
    <3> QED  BY <2>1, FirstLive
  <2>3. \A i \in DOMAIN s.controls : s.controls[i] \in Controls
    <3> HIDE DEF Controls
    <3> QED  BY <2>1
  <2> HIDE DEF Controls, live, first
  <2> QED  BY <2>2, <2>3
<1> HIDE DEF t, c, live
<1>5. Advance(t, spawned).op = t.op
  BY <1>1, <1>2 DEF Advance, Settle
<1>6. c \in Controls => RunControl(t, c).op = t.op
  <2>1. c \in Controls => c.k \in {"stop", "timeout", "event", "pause", "continue", "steer", "approval"}
    BY DEF Controls, Pauses, Continues, Steers, Resolutions
  <2> QED  BY <1>2, <2>1 DEF RunControl
<1> QED  BY <1>1, <1>3, <1>4, <1>5, <1>6
-----------------------------------------------------------------------------
(* Each step.                                                              *)

\* A step keeps the invariant and lets nothing go that is held back.
Kept == Whole(run', worker', log') /\ Gated(run, run')

\* drive/1 at the end of a handler that left the run as b.
LEMMA GoKeeps ==
    ASSUME Whole(run, worker, log), NEW b, Good(b, worker, log), Quiet(run, b), Go(b), log' = log
    PROVE  Kept
<1>1. PICK spawned \in BOOLEAN : Become(Drive(b, spawned))
  BY DEF Go
<1> DEFINE t == Drive(b, spawned)
<1>2. Good(t, worker, log) /\ Rest(t) /\ Gated(b, t)
  BY DriveKeeps DEF Whole, Driven
<1> HIDE DEF t
<1>3. run' = t
  BY <1>1 DEF Become, t
<1>4. Gated(run, t)
  <2>1. run.ops = b.ops /\ (LetGo(b) => LetGo(run))
    BY DEF Quiet
  <2> QED  BY <1>2, <2>1 DEF Gated
<1>5. CASE t.op # None /\ t.op.task /\ worker.op # t.op.id
  <2> DEFINE v == Task(t.op.id, "held")
  <2>1. worker' = v
    BY <1>1, <1>5 DEF Become, t
  <2>2. t.op \in Ops
    BY <1>2, <1>5 DEF Good, Runs
  <2>3. v \in Tasks /\ v.op = t.op.id /\ v.st = "held" /\ v.out = <<>>
    <3>1. t.op.id \in Nat
      BY <2>2 DEF Ops
    <3> HIDE DEF Messages
    <3> QED  BY <3>1 DEF Tasks, Task
  <2> HIDE DEF v
  <2>4. t.op.id = t.ops /\ t.ops \in Nat
    BY <1>2, <1>5 DEF Good, Sound, Phase, Runs
  <2>5. Tasked(t, v)
    BY <1>2, <1>5, <2>3, <2>4 DEF Tasked, Active, Good, Sound
  <2>6. Good(t, v, log)
    BY <1>2, <2>5 DEF Good, Sound
  <2>7. TaskKept(t, v) /\ DownLast(v)
    BY <2>3 DEF TaskKept, DownLast
  <2> QED  BY <1>2, <1>3, <1>4, <2>1, <2>3, <2>6, <2>7 DEF Kept, Whole
<1>6. CASE ~(t.op # None /\ t.op.task /\ worker.op # t.op.id)
  <2>1. worker' = worker
    BY <1>1, <1>6 DEF Become, t
  <2>2. TaskKept(t, worker)
    BY <1>6 DEF TaskKept
  <2> QED  BY <1>2, <1>3, <1>4, <2>1, <2>2 DEF Kept, Whole
<1> QED  BY <1>5, <1>6

LEMMA CommitAckKeeps ==
    ASSUME Whole(run, worker, log), CommitAck PROVE Kept
<1> DEFINE b == Resume([run EXCEPT !.pending = None, !.seq = run.pending.rec.seq], run.pending.rec, run.pending.next)
<1>1. run.pending # None /\ run.pending.committed /\ Go(b) /\ log' = log
  BY DEF CommitAck
<1>2. Good(b, worker, log) /\ Quiet(run, b)
  <2>1. worker \in Tasks /\ log \in Seq(Recs) /\ Good(run, worker, log)
    BY DEF Whole
  <2>2. run.pending # None /\ run.pending.committed
    BY <1>1
  <2>3. LET x == Resume([run EXCEPT !.pending = None, !.seq = run.pending.rec.seq], run.pending.rec, run.pending.next)
        IN  Good(x, worker, log) /\ Quiet(run, x)
    BY <2>1, <2>2, ResumeKeeps, Zenon
  <2> QED  BY <2>3
<1> HIDE DEF b
<1> QED  BY <1>1, <1>2, GoKeeps

LEMMA FenceKeeps ==
    ASSUME Whole(run, worker, log), Fence PROVE Kept
<1> DEFINE t == [run EXCEPT !.alive = FALSE, !.asked = {}, !.waiters = {}]
           v == [worker EXCEPT !.st = "dead", !.out = <<>>]
<1>1. run' = t /\ worker' = v /\ log' = log
  BY DEF Fence
<1>2. run \in Runs /\ run.controls = run.controls
  BY DEF Whole, Good
<1>3. Requeue(run, t, run.controls)
  BY <1>2 DEF Runs, Requeue
<1>4. v \in Tasks /\ v.op = worker.op /\ v.st = "dead" /\ v.out = <<>>
  <2>1. worker \in Tasks
    BY DEF Whole
  <2>2. <<>> \in Seq(Messages)
    OBVIOUS
  <2> HIDE DEF Messages
  <2> QED  BY <2>1, <2>2 DEF Tasks
<1> HIDE DEF t, v
<1>5. Good(t, worker, log) /\ Quiet(run, t)
  <2>1. \A i \in DOMAIN run.controls : Sensible(run, log, run.controls[i])
    BY AreSensible DEF Whole
  <2> QED  BY <1>3, <2>1, ControlsKeep DEF Whole
<1>6. Good(t, v, log)
  BY <1>4, <1>5 DEF Good, Sound, Tasked, Active
<1>7. Rest(t) /\ TaskKept(t, v) /\ DownLast(v)
  BY <1>3, <1>4 DEF Whole, Rest, TaskKept, DownLast, Requeue
<1>8. Gated(run, t)
  BY <1>2, <1>5 DEF Gated, Quiet, Runs
<1> QED  BY <1>1, <1>4, <1>6, <1>7, <1>8 DEF Kept, Whole

\* A command's control is put behind those that wait.
LEMMA ControlTaken ==
    ASSUME Whole(run, worker, log), NEW s, Good(s, worker, log), Quiet(run, s), NEW c \in Controls,
           Sensible(s, log, c), c.from \in Clients, Enqueue(s, c), log' = log
    PROVE  Kept
<1> DEFINE b == [s EXCEPT !.asked = @ \cup {c.from}, !.controls = Append(@, c)]
<1>1. Go(b)
  BY DEF Enqueue
<1>2. s \in Runs /\ s.controls \in Seq(Controls)
  BY DEF Good, Runs
<1>3. Append(s.controls, c) \in Seq(Controls)
  <2> HIDE DEF Controls
  <2> QED  BY <1>2
<1>4. Requeue(s, b, Append(s.controls, c))
  <2> HIDE DEF Controls
  <2> QED  BY <1>2, <1>3 DEF Runs, Requeue
<1> HIDE DEF b
<1>5. Good(b, worker, log) /\ Quiet(s, b)
  BY <1>4, EnqueueKeeps DEF Whole
<1>6. Quiet(run, b)
  BY <1>5 DEF Quiet
<1> QED  BY <1>1, <1>5, <1>6, GoKeeps
LEMMA CommandKeeps ==
    ASSUME Whole(run, worker, log), NEW c \in Clients, Pause(c) \/ Continue(c) \/ Steer(c), issued \in Nat
    PROVE  Kept
<1>0. Good(run, worker, log) /\ run \in Runs
  BY DEF Whole, Good
<1>1. Quiet(run, run)
  BY DEF Quiet
<1>2. ASSUME Pause(c) PROVE Kept
  <2> DEFINE d == [k |-> "pause", from |-> c]
  <2>1. d \in Controls /\ Sensible(run, log, d) /\ d.from \in Clients
    BY DEF Controls, Pauses, Sensible, Guarded
  <2>2. Enqueue(run, d) /\ log' = log
    BY <1>2 DEF Pause
  <2> HIDE DEF d
  <2> QED  BY <1>0, <1>1, <2>1, <2>2, ControlTaken
<1>3. ASSUME Continue(c) PROVE Kept
  <2> DEFINE d == [k |-> "continue", from |-> c]
  <2>1. d \in Controls /\ Sensible(run, log, d) /\ d.from \in Clients
    BY DEF Controls, Continues, Sensible, Guarded
  <2>2. Enqueue(run, d) /\ log' = log
    BY <1>3 DEF Continue
  <2> HIDE DEF d
  <2> QED  BY <1>0, <1>1, <2>1, <2>2, ControlTaken
<1>4. ASSUME Steer(c) PROVE Kept
  <2> DEFINE d == [k |-> "steer", from |-> c, id |-> issued + 1]
  <2>0. issued + 1 \in Nat
    OBVIOUS
  <2>1. d \in Controls /\ Sensible(run, log, d) /\ d.from \in Clients
    BY <2>0 DEF Controls, Steers, Sensible, Guarded
  <2>2. Enqueue(run, d) /\ log' = log
    BY <1>4 DEF Steer
  <2> HIDE DEF d
  <2> QED  BY <1>0, <1>1, <2>1, <2>2, ControlTaken
<1> QED  BY <1>2, <1>3, <1>4

LEMMA ApproveKeeps ==
    ASSUME Whole(run, worker, log), NEW c \in Clients, NEW decision \in Decisions, Approve(c, decision)
    PROVE  Kept
<1> DEFINE q == [run.approval EXCEPT !.resolving = TRUE]
           s == [run EXCEPT !.approval.resolving = TRUE]
           d == [k |-> "approval", from |-> c, call |-> run.approval.call, decision |-> decision]
<1>0. Good(run, worker, log) /\ run \in Runs /\ worker \in Tasks /\ log \in Seq(Recs)
  BY DEF Whole, Good
<1>1. run.approval # None /\ Enqueue(s, d) /\ log' = log
  BY DEF Approve
<1>2. run.approval \in Requests
  BY <1>0, <1>1 DEF Runs
<1>3. run.approval.call \in Calls /\ q \in Requests
  <2> HIDE DEF Calls
  <2> QED  BY <1>2 DEF Requests
<1>4. s = [run EXCEPT !.approval = q]
  BY <1>0, <1>2 DEF Runs, Requests
<1>5. run.op = None /\ run.policy = "ask"
  BY <1>0, <1>1 DEF Good, Sound, Queued
<1>6. d \in Controls /\ d.from \in Clients /\ d.k = "approval"
  <2> HIDE DEF Calls
  <2> QED  BY <1>3 DEF Controls, Resolutions
<1> HIDE DEF q
<1>7. Reset(run, s) /\ s.status = run.status
  <2> HIDE DEF Requests, s
  <2> QED  BY <1>0, <1>3, <1>4 DEF Runs, Reset
<1> HIDE DEF s, d
<1>8. Good(s, worker, log) /\ Quiet(run, s)
  BY <1>0, <1>5, <1>7, ResetKeeps
<1>9. Sensible(s, log, d)
  BY <1>5, <1>6, <1>7 DEF Sensible, Guarded, Reset
<1> QED  BY <1>1, <1>6, <1>8, <1>9, ControlTaken

LEMMA AwaitKeeps ==
    ASSUME Whole(run, worker, log), NEW c \in Clients, Await(c) PROVE Kept
<1> DEFINE t == [run EXCEPT !.waiters = @ \cup {c}, !.asked = @ \cup {c}]
<1>0. Good(run, worker, log) /\ run \in Runs /\ worker \in Tasks /\ log \in Seq(Recs)
  BY DEF Whole, Good
<1>1. run' = t /\ worker' = worker /\ log' = log
  BY DEF Await
<1>2. Requeue(run, t, run.controls)
  BY <1>0 DEF Runs, Requeue
<1> HIDE DEF t
<1>3. Good(t, worker, log) /\ Quiet(run, t)
  <2>1. \A i \in DOMAIN run.controls : Sensible(run, log, run.controls[i])
    BY AreSensible DEF Whole
  <2> QED  BY <1>0, <1>2, <2>1, ControlsKeep
<1>4. Rest(t) /\ TaskKept(t, worker)
  BY <1>2 DEF Whole, Rest, TaskKept, Requeue
<1>5. Gated(run, t)
  BY <1>0, <1>3 DEF Gated, Quiet, Runs
<1> QED  BY <1>1, <1>3, <1>4, <1>5 DEF Kept, Whole

\* A stop, by a client or by the timer: the operation is cancelled and the
\* control goes first.
LEMMA StopTaken ==
    ASSUME Whole(run, worker, log), NEW s, Good(s, worker, log), Quiet(run, s), NEW t, Halted(s, t),
           ~s.finishing, NEW c \in [k : {"stop", "timeout"}], c.k = "timeout" => t.timedOut,
           NEW b, Requeue(CancelOperation(t), b, <<c>> \o CancelOperation(t).controls),
           Go(b), log' = log
    PROVE  Kept
<1> DEFINE u == CancelOperation(t)
<1>0. worker \in Tasks /\ log \in Seq(Recs) /\ Ended(log)
  BY DEF Whole, LogInv
<1>1. Good(t, worker, log) /\ Quiet(s, t)
  BY <1>0, HaltKeeps
<1>2. /\ Good(u, worker, log) /\ Quiet(t, u)
      /\ u.stopping = t.stopping /\ u.timedOut = t.timedOut /\ u.finishing = t.finishing
  <2>1. /\ Good(u, worker, log) /\ Quiet(t, u)
        /\ (t.op = None => u = t) /\ (t.op # None => Reop(t, u, u.op))
    BY <1>0, <1>1, CancelKeeps
  <2> HIDE DEF u
  <2> QED  BY <2>1 DEF Reop
<1>3. Requeue(u, b, <<c>> \o u.controls)
  OBVIOUS
<1> HIDE DEF u
<1>4. c \in Controls /\ Sensible(u, log, c)
  <2>1. u.stopping /\ ~u.finishing /\ (c.k = "timeout" => u.timedOut)
    BY <1>2 DEF Halted
  <2> QED  BY <2>1 DEF Controls, Sensible
<1>5. Good(b, worker, log) /\ Quiet(u, b)
  BY <1>0, <1>2, <1>3, <1>4, EnqueueKeeps
<1>6. Quiet(run, b)
  BY <1>1, <1>2, <1>5 DEF Quiet
<1> QED  BY <1>5, <1>6, GoKeeps

LEMMA StopKeeps ==
    ASSUME Whole(run, worker, log), NEW c \in Clients, Stop(c) PROVE Kept
<1> DEFINE t == [run EXCEPT !.stopping = TRUE]
           u == CancelOperation(t)
           d == [k |-> "stop"]
           b == [u EXCEPT !.controls = <<d>> \o @]
<1>0. Good(run, worker, log) /\ run \in Runs /\ worker \in Tasks /\ log \in Seq(Recs) /\ Ended(log)
  BY DEF Whole, Good, LogInv
<1>1. ~run.finishing /\ Go(b) /\ log' = log
  BY DEF Stop, Live
<1>2. Halted(run, t)
  BY <1>0 DEF Runs, Halted
<1>3. Quiet(run, run)
  BY DEF Quiet
<1> HIDE DEF t
<1>4. d \in [k : {"stop", "timeout"}] /\ d.k = "stop"
  OBVIOUS
<1>5. Good(t, worker, log)
  BY <1>0, <1>1, <1>2, HaltKeeps
<1>6. Good(u, worker, log)
  BY <1>0, <1>5, CancelKeeps
<1> HIDE DEF u
<1>7. u \in Runs /\ u.controls \in Seq(Controls) /\ <<d>> \o u.controls \in Seq(Controls)
  <2>1. u \in Runs /\ u.controls \in Seq(Controls) /\ d \in Controls
    BY <1>4, <1>6 DEF Good, Runs, Controls
  <2> HIDE DEF Controls, d
  <2> QED  BY <2>1
<1> HIDE DEF d
<1>8. Requeue(u, b, <<d>> \o u.controls)
  <2> HIDE DEF Controls
  <2> QED  BY <1>7 DEF Runs, Requeue
<1> HIDE DEF b
<1> QED  BY <1>0, <1>1, <1>2, <1>3, <1>4, <1>8, StopTaken DEF u

LEMMA TimeoutKeeps ==
    ASSUME Whole(run, worker, log), OperationTimeout PROVE Kept
<1> DEFINE q == [run.op EXCEPT !.timer = FALSE]
           s == [run EXCEPT !.op = q]
           t == [run EXCEPT !.timedOut = TRUE, !.stopping = TRUE, !.op.timer = FALSE]
           u == CancelOperation(t)
           d == [k |-> "timeout"]
           b == [u EXCEPT !.controls = <<d>> \o @]
<1>0. Good(run, worker, log) /\ run \in Runs /\ worker \in Tasks /\ log \in Seq(Recs) /\ Ended(log)
  BY DEF Whole, Good, LogInv
<1>1. run.op # None /\ Go(b) /\ log' = log
  BY DEF OperationTimeout
<1>2. run.op \in Ops /\ ~run.finishing
  <2>1. run.op \in Ops
    BY <1>0, <1>1 DEF Runs
  <2>2. At(run, log).type = "finished" => run.op = None
    BY <1>0 DEF Good, Sound, Phase
  <2> QED  BY <1>0, <1>1, <2>1, <2>2 DEF Good, Sound, Ending
<1>3. /\ q \in Ops /\ q.id = run.op.id /\ q.kind = run.op.kind /\ q.call = run.op.call
      /\ q.effect = run.op.effect /\ q.task = run.op.task /\ q.down = run.op.down /\ q.sent = run.op.sent
  <2> HIDE DEF Calls, Answers
  <2> QED  BY <1>2 DEF Ops
<1>4. t = [s EXCEPT !.timedOut = TRUE, !.stopping = TRUE]
  BY <1>0, <1>2 DEF Runs, Ops
<1> HIDE DEF q
<1>5. Good(s, worker, log) /\ Quiet(run, s) /\ Reop(run, s, q)
  BY <1>0, <1>1, <1>3, OpKeeps
<1> HIDE DEF s, t
<1>6. s \in Runs /\ ~s.finishing
  BY <1>2, <1>5 DEF Reop
<1>7. Halted(s, t) /\ t.timedOut = TRUE
  BY <1>4, <1>6 DEF Runs, Halted
<1>8. d \in [k : {"stop", "timeout"}] /\ d.k = "timeout"
  OBVIOUS
<1>9. Good(u, worker, log)
  <2>1. Good(t, worker, log)
    BY <1>0, <1>5, <1>6, <1>7, HaltKeeps
  <2> QED  BY <1>0, <2>1, CancelKeeps
<1> HIDE DEF u
<1>10. u \in Runs /\ u.controls \in Seq(Controls) /\ <<d>> \o u.controls \in Seq(Controls)
  <2>1. u \in Runs /\ u.controls \in Seq(Controls) /\ d \in Controls
    BY <1>8, <1>9 DEF Good, Runs, Controls
  <2> HIDE DEF Controls, d
  <2> QED  BY <2>1
<1> HIDE DEF d
<1>11. Requeue(u, b, <<d>> \o u.controls)
  <2> HIDE DEF Controls
  <2> QED  BY <1>10 DEF Runs, Requeue
<1> HIDE DEF b
<1> QED  BY <1>1, <1>5, <1>6, <1>7, <1>8, <1>11, StopTaken DEF u
\* A task that does no more than it did is still that of the operation.
LEMMA TaskLess ==
    ASSUME NEW s, NEW w \in Tasks, NEW L \in Seq(Recs), Good(s, w, L), NEW v \in Tasks, v.op = w.op,
           Active(v) => Active(w), v.st \in {"working", "waiting"} => "run" \in s.op.sent
    PROVE  Good(s, v, L)
<1>1. Tasked(s, v)
  BY DEF Tasked, Good, Sound
<1> QED  BY <1>1 DEF Good, Sound

LEMMA HeardFrom ==
    ASSUME NEW w \in Tasks, DownLast(w), w.out # <<>>
    PROVE  LET v == [w EXCEPT !.out = Tail(@)]
           IN  /\ v \in Tasks /\ v.op = w.op /\ v.st = w.st /\ DownLast(v) /\ Active(w)
               /\ Head(w.out) \in Messages
               /\ Head(w.out).k = "down" => v.out = <<>> /\ v.st = "dead"
<1> DEFINE rest == Tail(w.out)
           v == [w EXCEPT !.out = rest]
<1>0. w.out \in Seq(Messages)
  BY DEF Tasks
<1>1. /\ rest \in Seq(Messages) /\ Head(w.out) \in Messages /\ Head(w.out) = w.out[1] /\ 1 \in DOMAIN w.out
      /\ \A i \in DOMAIN rest : i + 1 \in DOMAIN w.out /\ rest[i] = w.out[i + 1]
      /\ Len(w.out) = Len(rest) + 1 /\ Len(rest) \in Nat /\ DOMAIN rest = 1 .. Len(rest)
  <2> HIDE DEF Messages
  <2> QED  BY <1>0
<1>2. Len(rest) = 0 => rest = <<>>
  <2> HIDE DEF Messages, rest
  <2> QED  BY <1>1
<1> HIDE DEF rest
<1>3. v \in Tasks /\ v.op = w.op /\ v.st = w.st /\ v.out = rest
  <2> HIDE DEF Messages
  <2> QED  BY <1>1 DEF Tasks
<1> HIDE DEF v
<1>4. DownLast(v)
  <2> SUFFICES ASSUME NEW i \in DOMAIN rest, rest[i].k = "down" PROVE i = Len(rest) /\ w.st = "dead"
    BY <1>3 DEF DownLast
  <2>1. i + 1 = Len(w.out) /\ w.st = "dead"
    BY <1>1 DEF DownLast
  <2> QED  BY <1>1, <2>1
<1>5. Head(w.out).k = "down" => rest = <<>> /\ w.st = "dead"
  BY <1>1, <1>2 DEF DownLast
<1> QED  BY <1>1, <1>3, <1>4, <1>5 DEF v, rest, Active

LEMMA EventKeeps ==
    ASSUME Whole(run, worker, log), OperationEvent PROVE Kept
<1> DEFINE c == [k |-> "event"]
           b == [run EXCEPT !.controls = Append(@, c)]
           t == Drive(b, TRUE)
           v == [worker EXCEPT !.out = Tail(@)]
<1>0. /\ Good(run, worker, log) /\ run \in Runs /\ worker \in Tasks /\ log \in Seq(Recs) /\ DownLast(worker)
      /\ run.controls \in Seq(Controls)
  BY DEF Whole, Good, Runs
<1>1. run.op # None /\ worker.out # <<>> /\ run' = t /\ worker' = v /\ log' = log
  BY DEF OperationEvent, Message, Received
<1>2. v \in Tasks /\ v.op = worker.op /\ v.st = worker.st /\ DownLast(v) /\ Active(worker)
  BY <1>0, <1>1, HeardFrom
<1>3. c \in Controls /\ c.k = "event"
  BY DEF Controls
<1>4. Sensible(run, log, c)
  <2>1. At(run, log).type = "operation_settled" => run.op.down # "no"
    BY <1>0 DEF Good, Sound, Phase
  <2>2. run.op.down = "no"
    BY <1>0, <1>2 DEF Good, Sound, Tasked
  <2>3. ~run.finishing
    BY <1>0, <1>1 DEF Good, Sound, Phase, Ending
  <2> QED  BY <1>1, <1>3, <2>1, <2>2, <2>3 DEF Sensible
<1> HIDE DEF c
<1>5. Requeue(run, b, Append(run.controls, c))
  <2>1. Append(run.controls, c) \in Seq(Controls)
    <3> HIDE DEF Controls
    <3> QED  BY <1>0, <1>3
  <2> HIDE DEF Controls
  <2> QED  BY <1>0, <2>1 DEF Runs, Requeue
<1> HIDE DEF b, v
<1>6. Good(b, worker, log) /\ Quiet(run, b)
  BY <1>0, <1>3, <1>4, <1>5, EnqueueKeeps
<1>7. Good(t, worker, log) /\ Rest(t) /\ Gated(b, t)
  BY <1>0, <1>6, DriveKeeps DEF Driven
<1> HIDE DEF t
<1>8. t.op # None /\ worker.op = t.op.id
  BY <1>2, <1>7 DEF Good, Sound, Tasked
<1>9. Good(t, v, log)
  <2>1. worker.st \in {"working", "waiting"} => "run" \in t.op.sent
    BY <1>7 DEF Good, Sound, Tasked
  <2> QED  BY <1>0, <1>2, <1>7, <2>1, TaskLess
<1>10. TaskKept(t, v)
  BY <1>2, <1>8 DEF TaskKept
<1>11. Gated(run, t)
  BY <1>6, <1>7 DEF Gated, Quiet
<1> QED  BY <1>1, <1>2, <1>7, <1>9, <1>10, <1>11 DEF Kept, Whole

LEMMA ResultKeeps ==
    ASSUME Whole(run, worker, log), OperationResult PROVE Kept
<1> DEFINE m == Head(worker.out)
           q == [run.op EXCEPT !.result = m]
           t == [run EXCEPT !.op = q]
           v == [worker EXCEPT !.out = Tail(@)]
<1>0. /\ Good(run, worker, log) /\ run \in Runs /\ worker \in Tasks /\ log \in Seq(Recs) /\ DownLast(worker)
      /\ TaskKept(run, worker) /\ Rest(run)
  BY DEF Whole, Good
<1>1. /\ run.op # None /\ worker.out # <<>> /\ run' = [run EXCEPT !.op.result = m]
      /\ worker' = v /\ log' = log /\ m.k \in {"turn", "cut", "error", "text"}
  BY DEF OperationResult, Message, Received
<1>2. v \in Tasks /\ v.op = worker.op /\ v.st = worker.st /\ DownLast(v) /\ Active(worker) /\ m \in Messages
  BY <1>0, <1>1, HeardFrom
<1>3. m \in Answers
  <2> HIDE DEF Answers, m
  <2> QED  BY <1>1, <1>2 DEF Messages
<1>4. run.op \in Ops
  BY <1>0, <1>1 DEF Runs
<1> HIDE DEF m
<1>5. /\ q \in Ops /\ q.id = run.op.id /\ q.kind = run.op.kind /\ q.call = run.op.call
      /\ q.effect = run.op.effect /\ q.task = run.op.task /\ q.down = run.op.down /\ q.sent = run.op.sent
  <2> HIDE DEF Calls, Answers
  <2> QED  BY <1>3, <1>4 DEF Ops
<1>6. run' = t
  BY <1>0, <1>1, <1>4 DEF Runs, Ops
<1> HIDE DEF q, v
<1>7. Good(t, worker, log) /\ Quiet(run, t) /\ Reop(run, t, q) /\ q # None
  BY <1>0, <1>1, <1>5, OpKeeps
<1> HIDE DEF t
<1>8. Good(t, v, log)
  <2>1. worker.st \in {"working", "waiting"} => "run" \in t.op.sent
    BY <1>7 DEF Good, Sound, Tasked
  <2>2. Active(v) => Active(worker)
    BY <1>2
  <2> QED  BY <1>0, <1>2, <1>7, <2>1, <2>2, TaskLess
<1>9. TaskKept(t, v)
  BY <1>0, <1>1, <1>2, <1>5, <1>7 DEF TaskKept, Reop
<1>10. Rest(t)
  BY <1>0, <1>1, <1>5, <1>7 DEF Rest, Reop
<1>11. Gated(run, t)
  BY <1>0, <1>7 DEF Gated, Quiet, Runs
<1> QED  BY <1>1, <1>2, <1>6, <1>8, <1>9, <1>10, <1>11 DEF Kept, Whole

\* The end of the task is heard: the run goes on as b, with the operation q and
\* the task v.
Heeded(q, b, v) ==
  /\ q \in Ops /\ q.id = run.op.id /\ q.kind = run.op.kind /\ q.steers = run.op.steers
  /\ q.task = run.op.task /\ q.down = "exit" /\ q.sent = run.op.sent /\ q.result = run.op.result
  /\ b = [run EXCEPT !.op = q] /\ Reop(run, b, q) /\ Good(b, v, log)
  /\ v \in Tasks /\ v.op = worker.op /\ v.st = "dead" /\ v.out = <<>> /\ DownLast(v)
  /\ run' = Drive(b, TRUE) /\ worker' = v /\ log' = log

LEMMA DownHeard ==
    ASSUME Whole(run, worker, log), OperationDown
    PROVE  /\ run.op # None /\ run.op.task /\ run.op.down = "no" /\ run.op.id = worker.op
           /\ \E q, b, v : Heeded(q, b, v)
<1> DEFINE q == [run.op EXCEPT !.timer = FALSE, !.down = "exit"]
           b == [run EXCEPT !.op = q]
           v == [worker EXCEPT !.out = Tail(@)]
<1>0. /\ Good(run, worker, log) /\ run \in Runs /\ worker \in Tasks /\ log \in Seq(Recs) /\ DownLast(worker)
      /\ TaskKept(run, worker)
  BY DEF Whole, Good
<1>1. /\ run.op # None /\ worker.out # <<>> /\ Head(worker.out).k = "down"
      /\ run' = Drive([run EXCEPT !.op.timer = FALSE, !.op.down = "exit"], TRUE)
      /\ worker' = v /\ log' = log
  BY DEF OperationDown, Message, Received
<1>2. /\ v \in Tasks /\ v.op = worker.op /\ v.st = "dead" /\ v.out = <<>> /\ DownLast(v) /\ Active(worker)
      /\ ~Active(v)
  BY <1>0, <1>1, HeardFrom DEF Active
<1>3. run.op \in Ops /\ run.op.task /\ run.op.down = "no" /\ worker.op = run.op.id /\ run.op.id = run.ops
  BY <1>0, <1>1, <1>2 DEF Runs, Good, Sound, Tasked, Phase
<1>4. /\ q \in Ops /\ q.id = run.op.id /\ q.kind = run.op.kind /\ q.call = run.op.call
      /\ q.effect = run.op.effect /\ q.task = run.op.task /\ q.down = "exit" /\ q.sent = run.op.sent
      /\ q.steers = run.op.steers /\ q.result = run.op.result
  <2> HIDE DEF Calls, Answers
  <2> QED  BY <1>3 DEF Ops, Downs
<1>5. run' = Drive(b, TRUE)
  <2>1. [run EXCEPT !.op.timer = FALSE, !.op.down = "exit"] = b
    BY <1>0, <1>3 DEF Runs, Ops
  <2> QED  BY <1>1, <2>1
<1>a. b = [run EXCEPT !.op = q]
  OBVIOUS
<1> HIDE DEF q, v
<1>6. Reop(run, b, q) /\ q # None
  BY <1>0, <1>4, OpChange
<1> HIDE DEF b
<1>7. At(b, log) = At(run, log) /\ PendingType(b) = PendingType(run) /\ b.op = q /\ b.ops = run.ops
  BY <1>6 DEF Reop, At, PendingType
<1>8. Phase(b, log)
  <2>1. At(run, log).type \notin Admission /\ At(run, log).type # "operation_settled"
    BY <1>0, <1>1, <1>3 DEF Good, Sound, Phase
  <2> QED  BY <1>0, <1>1, <1>4, <1>6, <1>7, <2>1 DEF Phase, Good, Sound
<1>9. Written(b, log) /\ Ending(b, log) /\ Queued(b, log) /\ Late(b, log) /\ Numbered(b, log)
  BY <1>0, <1>1, <1>6, <1>7 DEF Written, Ending, Queued, Late, Numbered, Good, Sound, Reop
<1>10. Cleared(b, log) /\ TypedOp(b) /\ Tasked(b, v)
  <2>1. Cleared(b, log) /\ TypedOp(b)
    BY <1>0, <1>1, <1>4, <1>6 DEF Cleared, TypedOp, Good, Sound, Reop
  <2>2. Tasked(b, v)
    BY <1>0, <1>2, <1>3, <1>4, <1>6 DEF Tasked, Good, Sound, Reop
  <2> QED  BY <2>1, <2>2
<1>11. Good(b, v, log) /\ b \in Runs
  BY <1>6, <1>8, <1>9, <1>10 DEF Good, Sound, Reop
<1>12. Heeded(q, b, v)
  BY <1>1, <1>2, <1>4, <1>5, <1>6, <1>11, <1>a DEF Heeded
<1> QED  BY <1>1, <1>3, <1>12

LEMMA DownKeeps ==
    ASSUME Whole(run, worker, log), OperationDown PROVE Kept
<1>0. /\ worker \in Tasks /\ log \in Seq(Recs) /\ LogInv(log)
      /\ run.op # None /\ run.op.task /\ run.op.down = "no" /\ run.op.id = worker.op
  BY DownHeard DEF Whole
<1>1. PICK q, b, v : Heeded(q, b, v)
  BY DownHeard
<1> DEFINE t == Drive(b, TRUE)
<1>2. /\ q # None /\ q.id = run.op.id /\ q.task = run.op.task /\ q.down = "exit" /\ q.sent = run.op.sent
      /\ Good(b, v, log) /\ b \in Runs /\ b.op = q /\ b.ops = run.ops
      /\ v \in Tasks /\ v.op = worker.op /\ DownLast(v) /\ run' = t /\ worker' = v /\ log' = log
  BY <1>1, NoneApart DEF Heeded, Reop
<1>3. Good(t, v, log) /\ Rest(t) /\ Gated(b, t)
  BY <1>0, <1>2, DriveKeeps DEF Driven
<1>4. t.op = q
  BY <1>2, EndedInHand
<1> HIDE DEF t
<1>5. TaskKept(t, v)
  BY <1>0, <1>2, <1>4 DEF TaskKept
<1>6. Gated(run, t)
  <2>1. LetGo(b) <=> LetGo(run)
    BY <1>0, <1>2 DEF LetGo
  <2> QED  BY <1>2, <1>3, <2>1 DEF Gated
<1> QED  BY <1>0, <1>2, <1>3, <1>5, <1>6 DEF Kept, Whole
\* The task goes on, or stops, with the run as it is.
LEMMA TaskMoves ==
    ASSUME Whole(run, worker, log), run' = run, log' = log, NEW v \in Tasks, worker' = v, v.op = worker.op,
           worker.st # "dead", v.st \in {"working", "waiting"} => "run" \in run.op.sent, DownLast(v)
    PROVE  Kept
<1>0. Good(run, worker, log) /\ worker \in Tasks /\ log \in Seq(Recs) /\ run.ops \in Nat
  BY DEF Whole, Good, Runs
<1>1. Good(run, v, log)
  BY <1>0, TaskLess DEF Active
<1>2. Gated(run, run)
  BY <1>0 DEF Gated
<1>3. TaskKept(run, v) /\ Rest(run) /\ LogInv(log)
  BY DEF Whole, TaskKept
<1> QED  BY <1>0, <1>1, <1>2, <1>3 DEF Kept, Whole

\* A task ends with a message of its end, after its result if it has one.
LEMMA EndsKeeps ==
    ASSUME Whole(run, worker, log), worker.st # "dead", NEW ms \in Seq(Messages), Ends(ms),
           \A i \in DOMAIN ms : ms[i].k = "down" => i = Len(ms)
    PROVE  Kept
<1> DEFINE out == worker.out \o ms
           v == [worker EXCEPT !.st = "dead", !.out = out]
<1>0. worker \in Tasks /\ DownLast(worker)
  BY DEF Whole
<1>1. worker' = v /\ run' = run /\ log' = log
  BY DEF Ends
<1>2. worker.out \in Seq(Messages)
  BY <1>0 DEF Tasks
<1>3. /\ out \in Seq(Messages) /\ Len(out) = Len(worker.out) + Len(ms)
      /\ \A i \in DOMAIN out : \/ i \in DOMAIN worker.out /\ out[i] = worker.out[i]
                               \/ i - Len(worker.out) \in DOMAIN ms /\ out[i] = ms[i - Len(worker.out)]
      /\ Len(worker.out) \in Nat /\ Len(ms) \in Nat /\ DOMAIN out = 1 .. Len(out)
  <2> HIDE DEF Messages
  <2> QED  BY <1>2
<1> HIDE DEF out
<1>4. v \in Tasks /\ v.op = worker.op /\ v.st = "dead" /\ v.out = out
  <2> HIDE DEF Messages
  <2> QED  BY <1>0, <1>3 DEF Tasks
<1> HIDE DEF v
<1>5. DownLast(v)
  <2> SUFFICES ASSUME NEW i \in DOMAIN out, out[i].k = "down" PROVE i = Len(out)
    BY <1>4 DEF DownLast
  <2>1. ~(i \in DOMAIN worker.out /\ out[i] = worker.out[i])
    BY <1>0 DEF DownLast
  <2>2. i - Len(worker.out) \in DOMAIN ms /\ out[i] = ms[i - Len(worker.out)]
    BY <1>3, <2>1
  <2>3. i - Len(worker.out) = Len(ms)
    BY <2>2
  <2> QED  BY <1>3, <2>3
<1>6. v.st \notin {"working", "waiting"}
  BY <1>4
<1> QED  BY <1>1, <1>4, <1>5, <1>6, TaskMoves

LEMMA WorkKeeps ==
    ASSUME Whole(run, worker, log), WorkTask PROVE Kept
<1>0. /\ Good(run, worker, log) /\ run \in Runs /\ worker \in Tasks /\ log \in Seq(Recs) /\ DownLast(worker)
      /\ worker.out \in Seq(Messages) /\ worker.events \in Nat
  BY DEF Whole, Good, Tasks
<1>1. worker.st \in {"working", "waiting"} => "run" \in run.op.sent
  BY <1>0 DEF Good, Sound, Tasked
<1>2. Down \in Messages /\ Down.k = "down"
  BY DEF Down, Messages
<1>3. ASSUME NEW r \in Answers PROVE <<r, Down>> \in Seq(Messages) /\ \A i \in DOMAIN <<r, Down>> : <<r, Down>>[i].k = "down" => i = Len(<<r, Down>>)
  <2>1. r \in Messages /\ r.k # "down"
    BY DEF Messages, Answers, Turned
  <2> HIDE DEF Messages, Answers, Down
  <2> QED  BY <1>2, <2>1
<1>4. ASSUME TaskBegins PROVE Kept
  <2> DEFINE v == [worker EXCEPT !.st = "working"]
  <2>1. worker' = v /\ run' = run /\ log' = log /\ worker.st = "held" /\ "run" \in run.op.sent
    BY <1>4 DEF TaskBegins, Told
  <2>2. v \in Tasks /\ v.op = worker.op /\ v.st = "working" /\ v.out = worker.out
    <3> HIDE DEF Messages
    <3> QED  BY <1>0 DEF Tasks
  <2>3. DownLast(v)
    BY <1>0, <2>1, <2>2 DEF DownLast
  <2> HIDE DEF v
  <2> QED  BY <2>1, <2>2, <2>3, TaskMoves
<1>5. ASSUME TaskRefused PROVE Kept
  <2> DEFINE r == [k |-> "error"]
  <2>1. worker.st # "dead" /\ Ends(<<r, Down>>)
    BY <1>5 DEF TaskRefused
  <2>2. r \in Answers
    BY DEF Answers
  <2> HIDE DEF r
  <2> QED  BY <1>3, <2>1, <2>2, EndsKeeps
<1>6. ASSUME TaskReports PROVE Kept
  <2> DEFINE m == [k |-> "event"]
             out == Append(worker.out, m)
             v == [worker EXCEPT !.st = "waiting", !.events = @ + 1, !.out = out]
  <2>1. worker' = v /\ run' = run /\ log' = log /\ worker.st = "working"
    BY <1>6 DEF TaskReports
  <2>2. m \in Messages /\ m.k # "down" /\ worker.events + 1 \in Nat
    BY <1>0 DEF Messages
  <2> HIDE DEF m
  <2>3. out \in Seq(Messages) /\ \A i \in DOMAIN out : out[i] = m \/ (i \in DOMAIN worker.out /\ out[i] = worker.out[i])
    <3>1. worker.out \in Seq(Messages) /\ m \in Messages
      BY <1>0, <2>2
    <3> QED  BY <3>1, AppendProperties
  <2> HIDE DEF out
  <2>4. v \in Tasks /\ v.op = worker.op /\ v.out = out
    <3> HIDE DEF Messages
    <3> QED  BY <1>0, <2>2, <2>3 DEF Tasks
  <2> HIDE DEF v
  <2>5. DownLast(v)
    BY <1>0, <2>1, <2>2, <2>3, <2>4 DEF DownLast
  <2> QED  BY <1>1, <2>1, <2>4, <2>5, TaskMoves
<1>7. ASSUME TaskGoesOn PROVE Kept
  <2> DEFINE v == [worker EXCEPT !.st = "working"]
  <2>1. worker' = v /\ run' = run /\ log' = log /\ worker.st = "waiting"
    BY <1>7 DEF TaskGoesOn
  <2>2. v \in Tasks /\ v.op = worker.op /\ v.out = worker.out
    <3> HIDE DEF Messages
    <3> QED  BY <1>0 DEF Tasks
  <2>3. DownLast(v)
    BY <1>0, <2>1, <2>2 DEF DownLast
  <2> HIDE DEF v
  <2> QED  BY <1>1, <2>1, <2>2, <2>3, TaskMoves
<1>8. ASSUME TaskReturns PROVE Kept
  <2>1. PICK result \in Results(run.op.kind) : Ends(<<result, Down>>)
    BY <1>8 DEF TaskReturns
  <2>2. worker.st # "dead"
    BY <1>8 DEF TaskReturns
  <2>3. result \in Answers
    BY DEF Results, Answers, Turned
  <2> QED  BY <1>3, <2>1, <2>2, <2>3, EndsKeeps
<1>9. ASSUME TaskDies PROVE Kept
  <2>1. worker.st # "dead" /\ Ends(<<Down>>)
    BY <1>9 DEF TaskDies
  <2>2. <<Down>> \in Seq(Messages) /\ \A i \in DOMAIN <<Down>> : <<Down>>[i].k = "down" => i = Len(<<Down>>)
    <3> HIDE DEF Messages, Down
    <3> QED  BY <1>2
  <2> HIDE DEF Down
  <2> QED  BY <2>1, <2>2, EndsKeeps
<1> QED  BY <1>4, <1>5, <1>6, <1>7, <1>8, <1>9 DEF WorkTask

LEMMA StoredKeeps ==
    ASSUME Whole(run, worker, log), SinkCommit PROVE Kept
<1> DEFINE p == run.pending
           r == p.rec
           q == [p EXCEPT !.committed = TRUE]
           t == [run EXCEPT !.pending = q]
           M == Append(log, r)
<1>0. /\ Good(run, worker, log) /\ run \in Runs /\ worker \in Tasks /\ log \in Seq(Recs) /\ DownLast(worker)
      /\ TaskKept(run, worker) /\ LogInv(log)
  BY DEF Whole, Good
<1>1. /\ p # None /\ ~p.committed /\ run' = [run EXCEPT !.pending.committed = TRUE] /\ log' = M
      /\ worker' = worker
  BY DEF SinkCommit
<1>2. p \in Appends /\ r \in Recs /\ p.next \in Nexts /\ PendingType(run) = r.type
  BY <1>0, <1>1, PendingTypes DEF Runs
<1>3. q \in Appends /\ q.rec = r /\ q.committed = TRUE /\ q.next = p.next
  <2> HIDE DEF Recs, Nexts
  <2> QED  BY <1>2 DEF Appends
<1>4. q # None
  BY <1>3, NoneApart
<1>5. run' = t
  BY <1>0, <1>1, <1>2 DEF Runs, Appends
<1>6. /\ t \in Runs /\ t.pending = q
      /\ t.policy = run.policy /\ t.alive = run.alive /\ t.status = run.status /\ t.paused = run.paused
      /\ t.stopping = run.stopping /\ t.finishing = run.finishing /\ t.timedOut = run.timedOut
      /\ t.ops = run.ops /\ t.seq = run.seq /\ t.op = run.op /\ t.calls = run.calls
      /\ t.steer = run.steer /\ t.approval = run.approval /\ t.controls = run.controls
  <2> HIDE DEF Appends, q, p
  <2> QED  BY <1>0, <1>3 DEF Runs
<1>7. /\ Fits(p.next, r.type, r.what) /\ r.seq = run.seq + 1 /\ r.op <= run.ops
      /\ Len(log) = run.seq /\ Follows(StageOf(log), r)
      /\ r.type \in Admission => \A i \in DOMAIN log : log[i].op < r.op
  BY <1>0, <1>1 DEF Good, Sound, Written
<1>8. StageOf(M) = IF r.type \in Stages THEN [type |-> r.type, op |-> r.op] ELSE StageOf(log)
  BY <1>0, <1>2, StageAppend
<1>9. /\ M \in Seq(Recs) /\ Len(M) = Len(log) + 1 /\ Len(log) \in Nat /\ M[Len(log) + 1] = r
      /\ DOMAIN M = DOMAIN log \cup {Len(log) + 1}
      /\ \A i \in DOMAIN log : M[i] = log[i]
  BY <1>0, <1>2, Appended
<1>10. LogInv(M)
  BY <1>0, <1>2, <1>7, LogAppend
<1> HIDE DEF q, t, M
<1>11. PendingType(t) = r.type
  BY <1>3, <1>4, <1>6 DEF PendingType
<1> HIDE DEF p, r
<1>12. At(t, M) = At(run, log)
  <2>1. t.pending.rec = r /\ run.pending.rec = r
    BY <1>3, <1>6 DEF r, p
  <2> QED  BY <1>2, <1>8, <1>11, <2>1 DEF At
<1>13. Written(t, M)
  <2>1. r.type \in Stages => StageOf(M) = At(t, M)
    BY <1>3, <1>6, <1>8, <1>11 DEF At
  <2> QED  BY <1>3, <1>4, <1>6, <1>7, <1>9, <2>1 DEF Written
<1>14. Phase(t, M) /\ Ending(t, M)
  <2>1. Phase(run, log) /\ Ending(run, log)
    BY <1>0 DEF Good, Sound
  <2>2. t.pending # None /\ run.pending # None
    BY <1>1, <1>4, <1>6 DEF p
  <2> QED  BY <1>2, <1>6, <1>11, <1>12, <2>1, <2>2 DEF Phase, Ending
<1>15. Queued(t, M)
  <2>1. t.pending # None /\ run.pending # None /\ t.pending.next = run.pending.next
    BY <1>1, <1>3, <1>4, <1>6 DEF p
  <2> QED  BY <1>0, <1>6, <1>12, <2>1 DEF Queued, Good, Sound
<1>16. Cleared(t, M)
  <2>1. ASSUME NEW c, Allowed(c, log) PROVE Allowed(c, M)
    BY <1>9, <2>1 DEF Allowed
  <2> QED  BY <1>0, <1>6, <2>1 DEF Cleared, Good, Sound
<1>17. Late(t, M)
  <2>1. run.pending.rec = r /\ t.pending.rec = r
    BY <1>3, <1>6 DEF r, p
  <2>2. /\ r.type = "operation_timeout" => run.timedOut
        /\ r.type = "finished" /\ run.timedOut => r.what = "failed"
        /\ \A i \in DOMAIN log : log[i].type = "operation_timeout" => run.timedOut
        /\ \A i \in DOMAIN log : log[i].type = "finished" /\ run.timedOut => log[i].what = "failed"
    BY <1>0, <1>2, <2>1 DEF Late, Good, Sound
  <2> QED  BY <1>6, <1>9, <1>11, <2>1, <2>2 DEF Late
<1>18. Numbered(t, M)
  BY <1>0, <1>6, <1>7, <1>9 DEF Numbered, Good, Sound
<1>19. Tasked(t, worker) /\ TypedOp(t) /\ TaskKept(t, worker)
  BY <1>0, <1>6 DEF Tasked, TypedOp, TaskKept, Good, Sound
<1>20. Rest(t) /\ Gated(run, t)
  BY <1>0, <1>4, <1>6 DEF Rest, Gated, LetGo, Runs
<1> QED  BY <1>0, <1>1, <1>5, <1>6, <1>9, <1>10, <1>13, <1>14, <1>15, <1>16, <1>17, <1>18, <1>19, <1>20
         DEF Kept, Whole, Good, Sound
-----------------------------------------------------------------------------
(* The theorems.                                                           *)

LEMMA Starts == Init => RunInv
<1> SUFFICES ASSUME Init PROVE RunInv
  OBVIOUS
<1> DEFINE rec == [seq |-> 1, type |-> "started", op |-> 0, what |-> None]
           p == [k |-> "append", committed |-> FALSE, next |-> Then("advance", None), rec |-> rec]
<1>1. PICK policy \in Approvals :
        run = [policy |-> policy, alive |-> TRUE, status |-> "running", paused |-> FALSE, stopping |-> FALSE,
               finishing |-> FALSE, timedOut |-> FALSE, steps |-> 0, ops |-> 0, seq |-> 0,
               op |-> None, calls |-> <<>>, steer |-> <<>>, approval |-> None,
               controls |-> <<>>, waiters |-> {}, asked |-> {}, pending |-> p]
  BY DEF Init
<1>2. worker = Task(0, "dead") /\ log = <<>> /\ issued = 0
  BY DEF Init
<1>3. rec \in Recs /\ rec.seq = 1 /\ rec.type = "started" /\ rec.op = 0
  BY DEF Recs, Notes, Contents
<1> HIDE DEF rec
<1>4. Then("advance", None) \in Nexts /\ Then("advance", None).k = "advance"
  BY DEF Then, Nexts
<1>5. p \in Appends /\ p.rec = rec /\ p.committed = FALSE /\ p.next.k = "advance"
  <2> HIDE DEF Recs, Nexts
  <2> QED  BY <1>3, <1>4 DEF Appends
<1>6. p # None
  BY <1>5, NoneApart
<1> HIDE DEF p
<1>7. <<>> \in Seq(Calls) /\ <<>> \in Seq(Nat) /\ <<>> \in Seq(Controls)
  OBVIOUS
<1>8. /\ run \in Runs /\ run.pending = p /\ run.op = None /\ run.ops = 0 /\ run.seq = 0
      /\ run.calls = <<>> /\ run.controls = <<>> /\ run.approval = None
      /\ run.status = "running" /\ run.finishing = FALSE /\ run.timedOut = FALSE
  <2> HIDE DEF Calls, Controls, Appends, Ops, Requests
  <2> QED  BY <1>1, <1>5, <1>7 DEF Runs, Statuses
<1>9. worker \in Tasks /\ worker.op = 0 /\ worker.st = "dead" /\ worker.out = <<>>
  <2>1. <<>> \in Seq(Messages)
    OBVIOUS
  <2> HIDE DEF Messages
  <2> QED  BY <1>2, <2>1 DEF Tasks, Task
<1>10. log \in Seq(Recs) /\ DOMAIN log = {} /\ Len(log) = 0
  BY <1>2
<1>11. StageOf(log) = [type |-> "idle", op |-> 0] /\ "started" \notin Stages
  BY <1>10 DEF StageOf, Stages, Admission, Start, Completion
<1>12. PendingType(run) = "started" /\ At(run, log) = [type |-> "idle", op |-> 0]
  BY <1>3, <1>5, <1>6, <1>8, <1>11 DEF PendingType, At
<1>13. Written(run, log)
  <2>1. Follows(StageOf(log), rec)
    BY <1>3, <1>11 DEF Follows
  <2>2. Fits(p.next, rec.type, rec.what)
    BY <1>3, <1>5 DEF Fits
  <2>3. rec.type \notin Admission
    BY <1>3 DEF Admission
  <2> QED  BY <1>3, <1>5, <1>6, <1>8, <1>10, <2>1, <2>2, <2>3 DEF Written
<1>14. Phase(run, log)
  <2>1. "idle" \notin Admission \cup Start
    BY DEF Admission, Start
  <2> QED  BY <1>8, <1>12, <2>1 DEF Phase, Idle
<1>15. Ending(run, log) /\ Queued(run, log)
  BY <1>5, <1>8, <1>12 DEF Ending, Queued, Terminal
<1>16. Cleared(run, log) /\ Late(run, log) /\ Numbered(run, log)
  BY <1>8, <1>10, <1>12 DEF Cleared, Late, Numbered
<1>17. Tasked(run, worker) /\ TypedOp(run) /\ TaskKept(run, worker) /\ DownLast(worker) /\ Rest(run)
  BY <1>6, <1>8, <1>9 DEF Tasked, TypedOp, TaskKept, DownLast, Rest, Active
<1>18. LogInv(log)
  BY <1>10, <1>11, TypesApart DEF LogInv, Counted, Ended, Begun, SettledOnce, SettledFirst
<1> QED  BY <1>2, <1>8, <1>9, <1>10, <1>13, <1>14, <1>15, <1>16, <1>17, <1>18 DEF RunInv, Whole, Good, Sound

LEMMA StepKeeps == RunInv /\ [Next]_vars => RunInv' /\ Gated(run, run')
<1> SUFFICES ASSUME RunInv, [Next]_vars PROVE RunInv' /\ Gated(run, run')
  OBVIOUS
<1>0. Whole(run, worker, log) /\ issued \in Nat
  BY DEF RunInv
<1>1. issued' \in Nat
  <2>1. CASE UNCHANGED vars
    BY <1>0, <2>1 DEF vars
  <2>2. ASSUME NEW c \in Clients, Command(c) PROVE issued' = issued + 1
    BY <2>2 DEF Command, Stop, Pause, Continue, Steer, Await, Approve, Sends
  <2>3. ASSUME Handle \/ Fence \/ SinkCommit PROVE issued' = issued
    BY <2>3 DEF Handle, CommitAck, OperationEvent, OperationResult, OperationDown, OperationTimeout, Fence, SinkCommit
  <2>4. ASSUME WorkTask PROVE issued' = issued
    <3>1. ASSUME NEW ms, Ends(ms) PROVE issued' = issued
      BY <3>1 DEF Ends
    <3>2. TaskRefused \/ TaskReturns \/ TaskDies => issued' = issued
      BY <3>1 DEF TaskRefused, TaskReturns, TaskDies
    <3>3. TaskBegins \/ TaskReports \/ TaskGoesOn => issued' = issued
      BY DEF TaskBegins, TaskReports, TaskGoesOn
    <3> QED  BY <2>4, <3>2, <3>3 DEF WorkTask
  <2> QED  BY <1>0, <2>1, <2>2, <2>3, <2>4 DEF Next
<1>2. ASSUME UNCHANGED vars PROVE Kept
  <2>1. run' = run /\ worker' = worker /\ log' = log
    BY <1>2 DEF vars
  <2>2. Gated(run, run)
    BY <1>0 DEF Gated, Whole, Good, Runs
  <2> QED  BY <1>0, <2>1, <2>2 DEF Kept
<1>3. ASSUME Handle PROVE Kept
  BY <1>0, <1>3, CommitAckKeeps, EventKeeps, ResultKeeps, DownKeeps, TimeoutKeeps DEF Handle
<1>4. ASSUME NEW c \in Clients, Command(c) PROVE Kept
  <2>1. ASSUME NEW decision \in {"allow", "deny"}, Approve(c, decision) PROVE Kept
    BY <1>0, <2>1, ApproveKeeps DEF Decisions
  <2> QED  BY <1>0, <1>4, <2>1, StopKeeps, CommandKeeps, AwaitKeeps DEF Command
<1>5. Kept
  BY <1>0, <1>2, <1>3, <1>4, FenceKeeps, StoredKeeps, WorkKeeps DEF Next
<1> QED  BY <1>1, <1>5 DEF Kept, RunInv, Whole

\* The invariant of the run, its task and its log holds in every state.
THEOREM RunInvariant == Spec => []RunInv
<1> QED  BY Starts, StepKeeps, PTL DEF Spec

\* The records of the sink are numbered without a gap or a repeat, and the run
\* knows how many there are but for the one it waits for (publish/5).
THEOREM RunLogMatches == Spec => []LogMatches
<1>1. RunInv => LogMatches
  <2> SUFFICES ASSUME RunInv PROVE LogMatches
    OBVIOUS
  <2>1. Counted(log) /\ Written(run, log) /\ run.seq \in Nat
    BY DEF RunInv, Whole, LogInv, Good, Sound, Runs
  <2>2. run.pending # None => run.pending.committed \in BOOLEAN
    BY PendingTypes DEF RunInv, Whole, Good
  <2> QED  BY <2>1, <2>2 DEF LogMatches, Counted, Written
<1> QED  BY <1>1, RunInvariant, PTL

\* With nothing to write the run is over, its task is at work, it is paused or
\* a person has to decide (drive/1 ends every handler that could change this).
THEOREM RunNeverIdle == Spec => []NeverIdle
<1>1. RunInv => NeverIdle
  <2> SUFFICES ASSUME RunInv, run.alive, run.pending = None, run.status \notin Terminal
               PROVE  /\ run.controls = <<>>
                      /\ IF run.op = None THEN run.approval # None \/ (run.paused /\ run.status = "paused")
                         ELSE /\ run.op.down = "no"
                              /\ run.op.effect # "none" => run.stopping \/ (run.paused /\ run.status = "paused")
                              /\ run.op.task \/ run.op.effect = "start"
    BY DEF NeverIdle
  <2>1. Rest(run) /\ Good(run, worker, log) /\ worker \in Tasks /\ log \in Seq(Recs)
    BY DEF RunInv, Whole
  <2>2. run.op # None => run.op.task \/ run.op.effect = "start"
    BY <2>1, InHand
  <2> QED  BY <2>1, <2>2 DEF Rest
<1> QED  BY <1>1, RunInvariant, PTL

\* A task at work is that of the last operation started in the log.
LEMMA AtWork ==
    ASSUME NEW s, NEW w, NEW L, Whole(s, w, L), w.st \in {"working", "waiting"}
    PROVE  /\ s.op # None /\ "run" \in s.op.sent /\ w.op = s.op.id
           /\ StageOf(L).type \in Start /\ StageOf(L).op = s.op.id
<1>1. Good(s, w, L)
  BY DEF Whole
<1>2. s.op # None /\ s.op.task /\ s.op.down = "no" /\ w.op = s.op.id /\ "run" \in s.op.sent
  BY <1>1 DEF Good, Sound, Tasked, Active
<1>3. At(s, L).type \in Start
  <2>1. /\ At(s, L).type \in Stages \cup {"idle"} /\ ~Idle(At(s, L)) /\ At(s, L).type # "finished"
        /\ At(s, L).type \notin Admission /\ At(s, L).type # "operation_settled"
    BY <1>1, <1>2 DEF Good, Sound, Phase
  <2> QED  BY <2>1 DEF Idle, Stages
<1>4. PendingType(s) \notin Start
  BY <1>1, <1>2, <1>3 DEF Good, Sound, Phase
<1>5. At(s, L) = StageOf(L)
  <2>1. PendingType(s) \in Stages => PendingType(s) = At(s, L).type
    BY TypesApart DEF At, PendingType
  <2> QED  BY <1>3, <1>4, <2>1 DEF At
<1>6. At(s, L).op = s.op.id
  BY <1>1, <1>2 DEF Good, Sound, Phase
<1> QED  BY <1>2, <1>3, <1>5, <1>6

\* A task is at work only when its admission and its start are stored, in this
\* order, and not its settlement, and with the approval its call needs
\* (launch_task/4, admit_tool/2).
THEOREM RunWriteAhead == Spec => []WriteAhead
<1>1. RunInv => WriteAhead
  <2> SUFFICES ASSUME RunInv, worker.st \in {"working", "waiting"}, run.op # None
               PROVE  LET mine(types) == {i \in Records(types) : log[i].op = run.op.id}
                          c == run.op.call
                      IN  /\ \E i \in mine({"model_admitted", "tool_admitted"}) :
                               \E j \in mine({"model_started", "tool_started"}) : i < j
                          /\ mine({"operation_settled"}) = {}
                          /\ c # None /\ c.kind # "read" =>
                               \/ run.policy = "auto"
                               \/ /\ run.policy = "ask"
                                  /\ \E i \in Records({"approval_resolved"}) :
                                       log[i].what = [call |-> CallId(c), decision |-> "allow"]
    BY DEF WriteAhead
  <2>1. StageOf(log).type \in Start /\ StageOf(log).op = run.op.id
    BY AtWork DEF RunInv
  <2>2. Cleared(run, log) /\ log \in Seq(Recs) /\ Begun(log) /\ SettledOnce(log)
    BY DEF RunInv, Whole, Good, Sound, LogInv
  <2>3. PICK j \in DOMAIN log : log[j].type \in Start /\ log[j].op = run.op.id
    <3>1. ~(StageOf(log) = [type |-> "idle", op |-> 0])
      BY <2>1, TypesApart
    <3>2. PICK j \in DOMAIN log : StageOf(log) = [type |-> log[j].type, op |-> log[j].op]
      BY <2>2, <3>1, StageFrom
    <3> QED  BY <2>1, <3>2
  <2>4. PICK i \in DOMAIN log : i < j /\ log[i].type \in Admission /\ log[i].op = run.op.id
    BY <2>2, <2>3 DEF Begun
  <2>5. \A k \in DOMAIN log : ~SettledAs(log[k], run.op.id)
    BY <2>1, <2>2 DEF SettledOnce
  <2>6. run.op.call # None /\ run.op.call.kind # "read" =>
          run.policy = "auto" \/ (run.policy = "ask" /\ Allowed(run.op.call, log))
    BY <2>2 DEF Cleared
  <2> QED  BY <2>3, <2>4, <2>5, <2>6 DEF Records, Is, SettledAs, Allowed, Admission, Start
<1> QED  BY <1>1, RunInvariant, PTL

\* No step lets a task go or admits an operation while the run is stopping,
\* paused or finishing (advance/1).
THEOREM RunReleaseGate == Spec => ReleaseGate
<1>1. RunInv /\ [Next]_vars =>
        [Releases \/ Admits => ~run'.stopping /\ ~run'.paused /\ ~run'.finishing]_vars
  BY StepKeeps DEF Gated, LetGo, Releases, Admits
<1> QED  BY <1>1, RunInvariant, PTL DEF Spec, ReleaseGate
-----------------------------------------------------------------------------
(* The log is written as RunJournal says.                                  *)

Copied(r) == [type |-> r.type, op |-> r.op]
Copy(L) == [i \in DOMAIN L |-> [type |-> L[i].type, op |-> L[i].op]]
Doing(w) == IF w.st \in {"working", "waiting"} THEN w.op ELSE 0

LEMMA JournalStage ==
    ASSUME log \in Seq(Recs) PROVE Journal!Stage = StageOf(log)
<1> DEFINE J == Copy(log)
           staged == {i \in DOMAIN J : J[i].type \in Journal!Stages}
           last == CHOOSE i \in staged : \A j \in staged : j <= i
           theirs == {i \in DOMAIN log : log[i].type \in Stages}
           latest == CHOOSE i \in theirs : \A j \in theirs : j <= i
<1>1. Journal!Stage = IF staged = {} THEN [type |-> "idle", op |-> 0] ELSE J[last]
  BY Zenon DEF Journal!Stage, Copy
<1>2. staged = theirs
  <2>1. Journal!Stages = Stages
    BY DEF Journal!Stages, Journal!Admission, Journal!Start, Journal!Completion, Stages, Admission, Start, Completion
  <2> QED  BY <2>1 DEF Copy
<1>3. StageOf(log) = IF theirs = {} THEN [type |-> "idle", op |-> 0]
                     ELSE [type |-> log[latest].type, op |-> log[latest].op]
  BY DEF StageOf
<1>4. last = latest
  <2> HIDE DEF staged, theirs
  <2> QED  BY <1>2
<1>5. theirs # {} => latest \in theirs
  <2> DEFINE behind == {Len(log) - j : j \in theirs}
  <2>0. DOMAIN log = 1 .. Len(log) /\ Len(log) \in Nat
    <3> HIDE DEF Recs
    <3> QED  OBVIOUS
  <2>1. ASSUME theirs # {} PROVE \E i \in theirs : \A j \in theirs : j <= i
    <3>1. PICK i \in DOMAIN log : log[i].type \in Stages /\ \A j \in DOMAIN log : i < j => log[j].type \notin Stages
      BY <2>1, StageFrom
    <3>2. \A j \in theirs : j <= i
      BY <2>0, <3>1
    <3> QED  BY <3>1, <3>2
  <2> HIDE DEF theirs
  <2> QED  BY <2>1
<1>6. theirs # {} => J[latest] = [type |-> log[latest].type, op |-> log[latest].op]
  <2> HIDE DEF latest
  <2> QED  BY <1>5 DEF Copy
<1> HIDE DEF staged, theirs, last, latest, J
<1> QED  BY <1>1, <1>2, <1>3, <1>4, <1>6

LEMMA CopyAppend ==
    ASSUME NEW L \in Seq(Recs), NEW r \in Recs
    PROVE  Copy(Append(L, r)) = Append(Copy(L), Copied(r)) /\ Len(Copy(L)) = Len(L) /\ Copy(L) \in Seq([type : Notes \cup Stages, op : Nat])
<1> DEFINE R == [type : Notes \cup Stages, op : Nat]
           M == Append(L, r)
<1>1. /\ Len(M) = Len(L) + 1 /\ Len(L) \in Nat /\ M[Len(L) + 1] = r
      /\ DOMAIN L = 1 .. Len(L) /\ DOMAIN M = 1 .. Len(L) + 1
      /\ \A i \in DOMAIN L : M[i] = L[i]
  BY Appended
<1> HIDE DEF M
<1>2. \A i \in DOMAIN L : Copied(L[i]) \in R
  BY RecordTypes DEF Copied
<1>3. Copied(r) \in R
  BY DEF Recs, Copied
<1> HIDE DEF R
<1>4. Copy(L) = [i \in 1 .. Len(L) |-> Copied(L[i])]
  BY <1>1 DEF Copy, Copied
<1>5. Copy(M) = [i \in 1 .. Len(L) + 1 |-> Copied(M[i])]
  BY <1>1 DEF Copy, Copied
<1>6. Copy(L) \in Seq(R) /\ Len(Copy(L)) = Len(L)
  <2>1. Copy(L) \in [1 .. Len(L) -> R]
    BY <1>1, <1>2, <1>4
  <2> QED  BY <1>1, <2>1
<1>7. Copy(M) \in Seq(R) /\ Len(Copy(M)) = Len(L) + 1
  <2>1. \A i \in 1 .. Len(L) + 1 : Copied(M[i]) \in R
    BY <1>1, <1>2, <1>3
  <2>2. Copy(M) \in [1 .. Len(L) + 1 -> R]
    BY <1>5, <2>1
  <2> QED  BY <1>1, <2>2
<1>8. /\ Append(Copy(L), Copied(r)) \in Seq(R) /\ Len(Append(Copy(L), Copied(r))) = Len(L) + 1
      /\ \A i \in 1 .. Len(L) : Append(Copy(L), Copied(r))[i] = Copied(L[i])
      /\ Append(Copy(L), Copied(r))[Len(L) + 1] = Copied(r)
  <2>1. \A i \in 1 .. Len(L) : Copy(L)[i] = Copied(L[i])
    BY <1>4
  <2> HIDE DEF Copied
  <2> QED  BY <1>3, <1>6, <2>1, AppendProperties
<1>9. \A i \in 1 .. Len(L) + 1 : Append(Copy(L), Copied(r))[i] = Copy(M)[i]
  <2> HIDE DEF Copied
  <2> QED  BY <1>1, <1>5, <1>8
<1>10. Append(Copy(L), Copied(r)) = Copy(M)
  BY <1>7, <1>8, <1>9, SeqEqual
<1> QED  BY <1>6, <1>10 DEF M, R
\* What the task does by the log: only a release lets it begin.
LEMMA DoingMoves ==
    ASSUME RunInv, [Next]_vars, ~SinkCommit
    PROVE  /\ log' = log
           /\ Doing(worker') \in {0, Doing(worker)} \/ (TaskBegins /\ Doing(worker') = worker.op)
<1>0. worker \in Tasks
  BY DEF RunInv, Whole
<1>1. ASSUME NEW v, Become(v) PROVE Doing(worker') \in {0, Doing(worker)}
  BY <1>1 DEF Become, Doing, Task
<1>2. ASSUME Received PROVE Doing(worker') = Doing(worker)
  BY <1>0, <1>2 DEF Received, Doing, Tasks
<1>3. ASSUME NEW ms, Ends(ms) PROVE Doing(worker') = 0 /\ log' = log
  BY <1>0, <1>3 DEF Ends, Doing, Tasks
<1>4. ASSUME NEW b, Go(b) PROVE Doing(worker') \in {0, Doing(worker)}
  BY <1>1, <1>4 DEF Go
<1>5. CASE UNCHANGED vars
  BY <1>5 DEF vars
<1>6. CASE Handle
  <2>1. CASE OperationEvent \/ OperationResult \/ OperationDown
    BY <1>2, <2>1 DEF OperationEvent, OperationResult, OperationDown
  <2>2. CASE CommitAck \/ OperationTimeout
    BY <1>4, <2>2 DEF CommitAck, OperationTimeout
  <2> QED  BY <1>6, <2>1, <2>2 DEF Handle
<1>7. CASE Fence
  <2>1. worker' = [worker EXCEPT !.st = "dead", !.out = <<>>] /\ log' = log
    BY <1>7 DEF Fence
  <2>2. worker'.st = "dead"
    BY <1>0, <2>1 DEF Tasks
  <2> QED  BY <2>1, <2>2 DEF Doing
<1>8. CASE WorkTask
  <2>1. CASE TaskRefused \/ TaskReturns \/ TaskDies
    BY <1>3, <2>1 DEF TaskRefused, TaskReturns, TaskDies
  <2>2. CASE TaskReports \/ TaskGoesOn
    BY <1>0, <2>2 DEF TaskReports, TaskGoesOn, Doing, Tasks
  <2>3. CASE TaskBegins
    <3>1. worker' = [worker EXCEPT !.st = "working"] /\ log' = log
      BY <2>3 DEF TaskBegins
    <3>2. worker'.st = "working" /\ worker'.op = worker.op
      BY <1>0, <3>1 DEF Tasks
    <3> QED  BY <2>3, <3>1, <3>2 DEF Doing
  <2> QED  BY <1>8, <2>1, <2>2, <2>3 DEF WorkTask
<1>9. CASE \E c \in Clients : Command(c)
  <2>1. PICK c \in Clients : Command(c)
    BY <1>9
  <2>2. CASE Await(c)
    BY <2>2 DEF Await
  <2>3. CASE Stop(c)
    BY <1>4, <2>3 DEF Stop
  <2>4. CASE Pause(c) \/ Continue(c) \/ Steer(c) \/ \E decision \in {"allow", "deny"} : Approve(c, decision)
    <3>1. ASSUME NEW s, NEW d, Enqueue(s, d) PROVE Doing(worker') \in {0, Doing(worker)}
      BY <1>4, <3>1 DEF Enqueue
    <3> QED  BY <2>4, <3>1 DEF Pause, Continue, Steer, Approve
  <2> QED  BY <2>1, <2>2, <2>3, <2>4 DEF Command
<1> QED  BY <1>5, <1>6, <1>7, <1>8, <1>9 DEF Next

\* One record of the run is one step of the journal.
LEMMA JournalAppends ==
    ASSUME RunInv, SinkCommit PROVE Journal!Next
<1> DEFINE r == run.pending.rec
           N == Copied(r)
           st == StageOf(log)
<1>0. /\ Good(run, worker, log) /\ worker \in Tasks /\ log \in Seq(Recs) /\ run \in Runs
      /\ run.pending # None /\ ~run.pending.committed /\ log' = Append(log, r) /\ worker' = worker
  BY DEF RunInv, Whole, Good, SinkCommit
<1>1. r \in Recs /\ Follows(st, r) /\ PendingType(run) = r.type
  BY <1>0, PendingTypes DEF Good, Sound, Written
<1>2. /\ Copy(log') = Append(Copy(log), N) /\ Len(Copy(log)) = Len(log)
      /\ Copy(log) \in Seq([type : Notes \cup Stages, op : Nat])
      /\ N \in [type : Notes \cup Stages, op : Nat] /\ N.type = r.type /\ N.op = r.op
  <2>1. N \in [type : Notes \cup Stages, op : Nat]
    BY <1>1 DEF Recs, Copied
  <2> QED  BY <1>0, <1>1, <2>1, CopyAppend DEF Copied
<1> HIDE DEF N
<1>3. Len(Copy(log')) = Len(Copy(log)) + 1 /\ Copy(log')[Len(Copy(log'))] = N
  <2> DEFINE R == [type : Notes \cup Stages, op : Nat]
  <2> HIDE DEF R
  <2> QED  BY <1>2, AppendProperties DEF R
<1>4. ASSUME NEW types, N.type \in types PROVE Journal!Appends(types)
  BY <1>0, <1>2, <1>3, <1>4 DEF Journal!Appends, Journal!New, Copy
<1>5. Journal!New = N /\ Journal!Stage = st
  BY <1>0, <1>3, JournalStage DEF Journal!New, Copy
<1>6. /\ Journal!Admission = Admission /\ Journal!Start = Start /\ Journal!Completion = Completion
      /\ Journal!Stages = Stages
  BY DEF Journal!Admission, Journal!Start, Journal!Completion, Journal!Stages, Admission, Start, Completion, Stages
<1>7. Idle(st) => Journal!Idle
  BY <1>5, <1>6 DEF Journal!Idle, Idle
<1> HIDE DEF r, st
<1>8. CASE r.type \in Admission /\ Idle(st)
  BY <1>2, <1>4, <1>6, <1>7, <1>8 DEF Journal!Next, Journal!Admit
<1>9. CASE r.type \in Start /\ st.type \in Admission /\ r.op = st.op
  BY <1>2, <1>4, <1>5, <1>6, <1>9 DEF Journal!Next, Journal!Started
<1>10. CASE r.type = "operation_settled" /\ st.type \in Admission \cup Start /\ r.op = st.op
  <2>1. run.op.down # "no" /\ run.op # None
    <3>1. At(run, log).type = "operation_settled"
      BY <1>1, <1>10, TypesApart DEF At, PendingType
    <3> QED  BY <1>0, <3>1, TypesApart DEF Good, Sound, Phase, Idle
  <2>2. Doing(worker) = 0
    BY <1>0, <2>1 DEF Good, Sound, Tasked, Active, Doing
  <2>3. Journal!Settle
    BY <1>2, <1>4, <1>5, <1>6, <1>10, <2>2 DEF Journal!Settle, Doing
  <2> QED  BY <2>3 DEF Journal!Next
<1>11. CASE r.type \in Completion /\ st.type = "operation_settled" /\ r.op = st.op
  BY <1>2, <1>4, <1>5, <1>6, <1>11 DEF Journal!Next, Journal!Complete
<1>12. CASE r.type = "tool_completed" /\ Idle(st) /\ r.op = 0
  BY <1>2, <1>4, <1>5, <1>7, <1>12 DEF Journal!Next, Journal!AnswerCall
<1>13. CASE r.type = "finished" /\ Idle(st)
  BY <1>2, <1>4, <1>7, <1>13 DEF Journal!Next, Journal!Finish
<1>14. CASE r.type \notin Stages /\ st.type # "finished"
  <2>1. N.type \in {Journal!New.type} \ Journal!Stages
    BY <1>2, <1>5, <1>6, <1>14, SMTT(40)
  <2>2. Journal!Appends({Journal!New.type} \ Journal!Stages)
    BY <1>0, <1>2, <1>3, <2>1 DEF Journal!Appends, Journal!New, Copy
  <2>3. Journal!Note
    BY <1>5, <1>14, <2>2 DEF Journal!Note
  <2> QED  BY <2>3 DEF Journal!Next
<1> QED  BY <1>1, <1>8, <1>9, <1>10, <1>11, <1>12, <1>13, <1>14 DEF Follows

\* The log, with what the task does, is written as RunJournal allows: this is
\* the refinement that the run's handlers implement.
THEOREM RunRefinesJournal == Spec => WritesAhead
<1>1. Init => Journal!Init
  <2> SUFFICES ASSUME Init PROVE Journal!Init
    OBVIOUS
  <2>1. log = <<>> /\ worker.st = "dead"
    BY DEF Init, Task
  <2>2. [i \in DOMAIN log |-> [type |-> log[i].type, op |-> log[i].op]] = <<>>
    BY <2>1
  <2> QED  BY <2>1, <2>2 DEF Journal!Init
<1>2. RunInv /\ [Next]_vars =>
        [Journal!Next]_<<[i \in DOMAIN log |-> [type |-> log[i].type, op |-> log[i].op]],
                         IF worker.st \in {"working", "waiting"} THEN worker.op ELSE 0>>
  <2> SUFFICES ASSUME RunInv, [Next]_vars
               PROVE  Journal!Next \/ (Copy(log') = Copy(log) /\ Doing(worker') = Doing(worker))
    BY DEF Copy, Doing
  <2>1. CASE SinkCommit
    BY <2>1, JournalAppends
  <2>2. CASE ~SinkCommit
    <3>1. log' = log /\ Copy(log') = Copy(log)
      BY <2>2, DoingMoves
    <3>2. CASE Doing(worker') = Doing(worker)
      BY <3>1, <3>2
    <3>3. CASE Doing(worker') = 0
      <4>1. Journal!Cease
        BY <3>1, <3>3 DEF Journal!Cease, Doing
      <4> QED  BY <4>1 DEF Journal!Next
    <3>4. CASE TaskBegins /\ Doing(worker') = worker.op
      <4>1. Doing(worker) = 0
        BY <3>4 DEF TaskBegins, Doing
      <4>2. RunInv' /\ worker'.st \in {"working", "waiting"} /\ worker'.op = worker.op
        <5>1. worker \in Tasks
          BY DEF RunInv, Whole
        <5> QED  BY <3>4, <5>1, StepKeeps DEF TaskBegins, Tasks
      <4>3. StageOf(log').type \in Start /\ StageOf(log').op = worker'.op
        BY <4>2, AtWork DEF RunInv
      <4>4. Journal!Stage = StageOf(log)
        BY JournalStage DEF RunInv, Whole
      <4>5. Journal!Begin
        BY <3>1, <3>4, <4>1, <4>2, <4>3, <4>4 DEF Journal!Begin, Journal!Start, Start, Doing
      <4> QED  BY <4>5 DEF Journal!Next
    <3> QED  BY <2>2, <3>2, <3>3, <3>4, DoingMoves
  <2> QED  BY <2>1, <2>2
<1> QED  BY <1>1, <1>2, RunInvariant, PTL DEF Spec, WritesAhead, Journal!Spec
\* The log ends once: nothing comes after its final record, nor is about to.
THEOREM RunEndsOnce == Spec => []NothingAfterFinished
<1>1. RunInv => NothingAfterFinished
  <2> SUFFICES ASSUME RunInv, NEW i \in DOMAIN log, log[i].type = "finished"
               PROVE  i = Len(log) /\ (run.pending = None \/ run.pending.rec.type = "finished")
    BY DEF NothingAfterFinished, Records, Is
  <2>1. Good(run, worker, log) /\ Ended(log) /\ worker \in Tasks /\ log \in Seq(Recs)
    BY DEF RunInv, Whole, LogInv
  <2>2. run.finishing
    BY <2>1, Over
  <2>3. run.pending = None \/ PendingType(run) = "finished"
    BY <2>1, <2>2 DEF Good, Sound, Ending
  <2> QED  BY <2>1, <2>3 DEF Ended, PendingType
<1> QED  BY <1>1, RunInvariant, PTL

\* Each operation is settled once, before another is admitted and before the
\* end (settle_operation/1, advance/1).
THEOREM RunSettlesInTurn == Spec => []SettledInTurn
<1>1. RunInv => SettledInTurn
  <2> SUFFICES ASSUME RunInv, NEW i \in DOMAIN log, log[i].type \in Admission
               PROVE  LET settled == {j \in Records({"operation_settled"}) : log[j].op = log[i].op}
                          later == {j \in Records({"model_admitted", "tool_admitted", "finished"}) : i < j}
                      IN  /\ Cardinality(settled) <= 1
                          /\ \A j \in later : \E k \in settled : i < k /\ k < j
    BY DEF SettledInTurn, Records, Is, Admission
  <2> DEFINE settled == {j \in Records({"operation_settled"}) : log[j].op = log[i].op}
             later == {j \in Records({"model_admitted", "tool_admitted", "finished"}) : i < j}
  <2>1. SettledOnce(log) /\ SettledFirst(log)
    BY DEF RunInv, Whole, LogInv
  <2>2. \A j \in DOMAIN log : j \in settled <=> SettledAs(log[j], log[i].op)
    BY DEF SettledAs, Records, Is
  <2>3. Cardinality(settled) <= 1
    <3>1. \A j, k \in settled : j = k
      BY <2>1, <2>2 DEF SettledOnce, SettledAs, Records, Is
    <3>2. settled = {} \/ \E j \in settled : settled = {j}
      <4> HIDE DEF settled
      <4> QED  BY <3>1
    <3>3. CASE settled = {}
      <4>1. Cardinality(settled) = 0
        BY <3>3, FS_EmptySet
      <4> QED  BY <4>1
    <3>4. CASE \E j \in settled : settled = {j}
      <4>1. PICK j : settled = {j}
        BY <3>4
      <4>2. Cardinality({j}) = 1
        BY FS_Singleton
      <4> HIDE DEF settled
      <4> QED  BY <4>1, <4>2
    <3> QED  BY <3>2, <3>3, <3>4
  <2>4. ASSUME NEW j \in later PROVE \E k \in settled : i < k /\ k < j
    <3>1. j \in DOMAIN log /\ i < j /\ log[j].type \in Admission \cup {"finished"}
      BY DEF Records, Is, Admission
    <3>2. PICK k \in DOMAIN log : i < k /\ k < j /\ SettledAs(log[k], log[i].op)
      BY <2>1, <3>1 DEF SettledFirst
    <3> QED  BY <2>2, <3>2
  <2> QED  BY <2>3, <2>4
<1> QED  BY <1>1, RunInvariant, PTL

\* A run whose operation ran out of time is reported failed, whatever else
\* ended it in the same moment (finish/3).
THEOREM RunTimeoutFails == Spec => []TimeoutFails
<1>1. RunInv => TimeoutFails
  BY DEF RunInv, Whole, Good, Sound, Late, TimeoutFails, Records, Is
<1> QED  BY <1>1, RunInvariant, PTL
=============================================================================
