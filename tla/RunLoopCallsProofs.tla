------------------------- MODULE RunLoopCallsProofs -------------------------
(***************************************************************************)
(* For every instance of the run: a client that waits for an answer is     *)
(* held in exactly one place - a control in the queue, the record being    *)
(* written, or the list of those who await the end - and in none once it   *)
(* was answered; when the run is over nobody waits (EveryCallAccounted).   *)
(* And a call of the model's answer is in exactly one place until it has a *)
(* result, of which there is one before the model is asked again: with     *)
(* what RunLoopProofs shows of the log, LogInOrder.                        *)
(*                                                                         *)
(* The three places are sets of clients here, disjoint, with `asked` their *)
(* union (Account).  A handler moves a client from one to the next or lets *)
(* it go; drive/1 does both, since it answers the controls that it rejects *)
(* and makes the first other one the record.                               *)
(*                                                                         *)
(* A steer is followed in the same way (Placed): from its control to the   *)
(* record that admits it, to the steers that wait, and to the one request  *)
(* that was started with it (SteersReachModel).                            *)
(***************************************************************************)
EXTENDS RunLoopProofs

-----------------------------------------------------------------------------
(* The places.                                                             *)

\* The continuations that answer the caller of a control.
Callback == {"pause", "continue", "steer", "approve"}

\* Who waits for the record being written, and who for one control.
Recorded(s) ==
    {c \in Clients : s.pending # None /\ s.pending.next.k \in Callback /\ s.pending.next.arg.from = c}
Own(c) == IF Guarded(c) THEN {c.from} ELSE {}

\* No client has two controls in the queue.
OnceEach(cs) ==
    \A i, j \in DOMAIN cs : Guarded(cs[i]) /\ Guarded(cs[j]) /\ cs[i].from = cs[j].from => i = j

Account(s) ==
    /\ s.asked = Callers(s.controls) \cup Recorded(s) \cup s.waiters
    /\ OnceEach(s.controls)
    /\ Callers(s.controls) \cap Recorded(s) = {}
    /\ (Callers(s.controls) \cup Recorded(s)) \cap s.waiters = {}

\* A run that is over has nobody who waits for its end, or for a decision, and
\* only controls that it rejects; when drive/1 is done, none of them either.
Closed(s) ==
    s.status \in Terminal => /\ s.pending = None /\ s.waiters = {} /\ s.approval = None
                             /\ \A i \in DOMAIN s.controls : Guarded(s.controls[i])
Shut(s) == Closed(s) /\ (s.status \in Terminal => s.controls = <<>>)

Accounts == run.alive => Account(run) /\ Shut(run)

-----------------------------------------------------------------------------
(* The queue.                                                              *)

LEMMA CallersOf ==
    ASSUME NEW cs, NEW x
    PROVE  x \in Callers(cs) <=> \E i \in DOMAIN cs : Guarded(cs[i]) /\ cs[i].from = x
BY DEF Callers

\* A control that goes to either end of the queue adds its caller.
LEMMA CallersMore ==
    ASSUME NEW cs \in Seq(Controls), NEW c \in Controls, OnceEach(cs), Own(c) \cap Callers(cs) = {},
           NEW ds, ds = Append(cs, c) \/ ds = <<c>> \o cs
    PROVE  Callers(ds) = Callers(cs) \cup Own(c) /\ OnceEach(ds)
<1> HIDE DEF Controls
<1>1. Len(cs) \in Nat /\ DOMAIN cs = 1 .. Len(cs)
  OBVIOUS
<1>2. CASE ds = Append(cs, c)
  <2>1. /\ DOMAIN ds = 1 .. (Len(cs) + 1) /\ ds[Len(cs) + 1] = c
        /\ \A i \in 1 .. Len(cs) : ds[i] = cs[i]
    BY <1>2
  <2>2. \A i \in DOMAIN ds : (i \in DOMAIN cs /\ ds[i] = cs[i]) \/ (i = Len(cs) + 1 /\ ds[i] = c)
    BY <1>1, <2>1
  <2>3. Len(cs) + 1 \in DOMAIN ds /\ DOMAIN cs \subseteq DOMAIN ds
    BY <1>1, <2>1
  <2>4. \A x : x \in Callers(ds) <=> x \in Callers(cs) \/ x \in Own(c)
    BY <1>1, <2>1, <2>2, <2>3, CallersOf DEF Own
  <2>5. \A i \in DOMAIN cs : Guarded(cs[i]) /\ Guarded(c) => cs[i].from # c.from
    BY CallersOf DEF Own
  <2>6. OnceEach(ds)
    BY <2>2, <2>5 DEF OnceEach
  <2> QED  BY <2>4, <2>6
<1>3. CASE ds = <<c>> \o cs
  <2>1. /\ DOMAIN ds = 1 .. (Len(cs) + 1) /\ ds[1] = c
        /\ \A i \in 1 .. Len(cs) : ds[i + 1] = cs[i]
    BY <1>3
  <2>2. \A i \in DOMAIN ds : (i = 1 /\ ds[i] = c) \/ \E j \in DOMAIN cs : i = j + 1 /\ ds[i] = cs[j]
    <3>1. \A i \in 1 .. (Len(cs) + 1) : i = 1 \/ \E j \in 1 .. Len(cs) : i = j + 1
      <4>1. \A i \in 1 .. (Len(cs) + 1) : i = 1 \/ (i - 1 \in 1 .. Len(cs) /\ i = (i - 1) + 1)
        BY <1>1
      <4> QED  BY <4>1
    <3>2. ASSUME NEW i \in DOMAIN ds, i # 1 PROVE \E j \in DOMAIN cs : i = j + 1 /\ ds[i] = cs[j]
      <4>1. PICK j \in 1 .. Len(cs) : i = j + 1
        BY <2>1, <3>1, <3>2
      <4>2. ds[j + 1] = cs[j]
        BY <2>1
      <4> QED  BY <1>1, <4>1, <4>2
    <3> QED  BY <2>1, <3>2
  <2>3. 1 \in DOMAIN ds /\ \A i \in DOMAIN cs : i + 1 \in DOMAIN ds /\ ds[i + 1] = cs[i] /\ i + 1 # 1
    BY <1>1, <2>1
  <2>4. ASSUME NEW x, x \in Callers(ds) PROVE x \in Callers(cs) \cup Own(c)
    <3>1. PICK i \in DOMAIN ds : Guarded(ds[i]) /\ ds[i].from = x
      BY <2>4, CallersOf
    <3> QED  BY <2>2, <3>1, CallersOf DEF Own
  <2>5. ASSUME NEW x, x \in Callers(cs) \cup Own(c) PROVE x \in Callers(ds)
    <3>1. CASE x \in Callers(cs)
      <4>1. PICK i \in DOMAIN cs : Guarded(cs[i]) /\ cs[i].from = x
        BY <3>1, CallersOf
      <4> QED  BY <2>3, <4>1, CallersOf
    <3>2. CASE x \in Own(c)
      BY <2>1, <2>3, <3>2, CallersOf DEF Own
    <3> QED  BY <2>5, <3>1, <3>2
  <2>6. \A i \in DOMAIN cs : Guarded(cs[i]) /\ Guarded(c) => cs[i].from # c.from
    BY CallersOf DEF Own
  <2>7. OnceEach(ds)
    <3> SUFFICES ASSUME NEW i \in DOMAIN ds, NEW j \in DOMAIN ds, Guarded(ds[i]), Guarded(ds[j]),
                        ds[i].from = ds[j].from
                 PROVE  i = j
      BY DEF OnceEach
    <3>1. CASE ds[i] = c /\ ds[j] = c /\ i = 1 /\ j = 1
      BY <3>1
    <3>2. ASSUME NEW p \in DOMAIN cs, i = p + 1, ds[i] = cs[p], j = 1, ds[j] = c PROVE FALSE
      BY <2>6, <3>2
    <3>3. ASSUME NEW p \in DOMAIN cs, j = p + 1, ds[j] = cs[p], i = 1, ds[i] = c PROVE FALSE
      BY <2>6, <3>3
    <3>4. ASSUME NEW p \in DOMAIN cs, i = p + 1, ds[i] = cs[p],
                 NEW q \in DOMAIN cs, j = q + 1, ds[j] = cs[q]
          PROVE  p = q
      BY <3>4 DEF OnceEach
    <3> QED  BY <2>2, <3>1, <3>2, <3>3, <3>4
  <2>8. Callers(ds) = Callers(cs) \cup Own(c)
    BY <2>4, <2>5
  <2> QED  BY <2>7, <2>8
<1> QED  BY <1>2, <1>3

\* The callers of all of a queue.
LEMMA CallersAll ==
    ASSUME NEW cs \in Seq(Controls) PROVE Callers(SubSeq(cs, 1, Len(cs))) = Callers(cs)
<1> HIDE DEF Controls
<1> DEFINE ds == SubSeq(cs, 1, Len(cs))
<1>1. DOMAIN ds = DOMAIN cs /\ \A i \in DOMAIN cs : ds[i] = cs[i]
  OBVIOUS
<1> HIDE DEF ds
<1>2. \A x : x \in Callers(ds) <=> x \in Callers(cs)
  BY <1>1, CallersOf
<1> QED  BY <1>2 DEF ds

\* A queue is what is before one of its controls, that control and what is
\* behind it; their callers are different ones.
LEMMA CallersParts ==
    ASSUME NEW cs \in Seq(Controls), OnceEach(cs), NEW n \in Nat, n + 1 \in DOMAIN cs
    PROVE  LET pre == SubSeq(cs, 1, n)
               suf == SubSeq(cs, n + 2, Len(cs))
               own == Own(cs[n + 1])
           IN  /\ Callers(cs) = Callers(pre) \cup own \cup Callers(suf)
               /\ OnceEach(suf)
               /\ Callers(pre) \cap own = {} /\ Callers(pre) \cap Callers(suf) = {}
               /\ Callers(suf) \cap own = {}
<1> HIDE DEF Controls
<1> DEFINE pre == SubSeq(cs, 1, n)
           suf == SubSeq(cs, n + 2, Len(cs))
           c == cs[n + 1]
<1>1. Len(cs) \in Nat /\ DOMAIN cs = 1 .. Len(cs) /\ n < Len(cs)
  OBVIOUS
<1>2. DOMAIN pre = 1 .. n /\ \A i \in 1 .. n : i \in DOMAIN cs /\ pre[i] = cs[i]
  BY <1>1
<1>3. \A j \in DOMAIN suf : j \in Nat /\ j > 0 /\ n + 1 + j \in DOMAIN cs /\ suf[j] = cs[n + 1 + j]
  BY <1>1
<1>4. \A i \in DOMAIN cs : i <= n \/ i = n + 1 \/ (i - (n + 1) \in DOMAIN suf /\ suf[i - (n + 1)] = cs[i])
  <2>1. DOMAIN suf = 1 .. (Len(cs) - (n + 1))
    BY <1>1
  <2>2. \A i \in 1 .. Len(cs) : i <= n \/ i = n + 1 \/ (i - (n + 1) \in 1 .. (Len(cs) - (n + 1)) /\ n + 1 + (i - (n + 1)) = i)
    BY <1>1
  <2> QED  BY <1>1, <1>3, <2>1, <2>2
<1>5. \A i \in DOMAIN cs : i <= n => i \in 1 .. n
  BY <1>1
<1> HIDE DEF pre, suf
<1>6. \A x : x \in Callers(pre) <=> \E i \in 1 .. n : Guarded(cs[i]) /\ cs[i].from = x
  BY <1>2, CallersOf
<1>7. \A x : x \in Callers(suf) <=> \E j \in DOMAIN suf : Guarded(cs[n + 1 + j]) /\ cs[n + 1 + j].from = x
  BY <1>3, CallersOf
<1>8. \A x : x \in Own(c) <=> Guarded(cs[n + 1]) /\ cs[n + 1].from = x
  BY DEF Own
<1>9. \A x : x \in Callers(cs) => x \in Callers(pre) \/ x \in Own(c) \/ x \in Callers(suf)
  <2> SUFFICES ASSUME NEW x, x \in Callers(cs) PROVE x \in Callers(pre) \/ x \in Own(c) \/ x \in Callers(suf)
    OBVIOUS
  <2>1. PICK i \in DOMAIN cs : Guarded(cs[i]) /\ cs[i].from = x
    BY CallersOf
  <2>2. CASE i <= n
    BY <1>5, <1>6, <2>1, <2>2
  <2>3. CASE i = n + 1
    BY <1>8, <2>1, <2>3
  <2>4. CASE i - (n + 1) \in DOMAIN suf /\ suf[i - (n + 1)] = cs[i]
    BY <2>1, <2>4, CallersOf
  <2> QED  BY <1>4, <2>2, <2>3, <2>4
<1>10. \A x : x \in Callers(pre) \/ x \in Own(c) \/ x \in Callers(suf) => x \in Callers(cs)
  BY <1>2, <1>3, <1>6, <1>7, <1>8, CallersOf
<1>11. OnceEach(suf)
  <2> SUFFICES ASSUME NEW i \in DOMAIN suf, NEW j \in DOMAIN suf, Guarded(suf[i]), Guarded(suf[j]),
                      suf[i].from = suf[j].from
               PROVE  i = j
    BY DEF OnceEach
  <2>1. n + 1 + i = n + 1 + j
    BY <1>3 DEF OnceEach
  <2> QED  BY <1>3, <2>1
<1>12. \A x : ~(x \in Callers(pre) /\ x \in Own(c))
  BY <1>2, <1>6, <1>8 DEF OnceEach
<1>13. \A x : ~(x \in Callers(pre) /\ x \in Callers(suf))
  <2> SUFFICES ASSUME NEW i \in 1 .. n, NEW j \in DOMAIN suf, Guarded(cs[i]), Guarded(cs[n + 1 + j]),
                      cs[i].from = cs[n + 1 + j].from
               PROVE  FALSE
    BY <1>6, <1>7
  <2>1. i = n + 1 + j
    BY <1>2, <1>3 DEF OnceEach
  <2> QED  BY <1>3, <2>1
<1>14. \A x : ~(x \in Callers(suf) /\ x \in Own(c))
  <2> SUFFICES ASSUME NEW j \in DOMAIN suf, Guarded(cs[n + 1]), Guarded(cs[n + 1 + j]),
                      cs[n + 1].from = cs[n + 1 + j].from
               PROVE  FALSE
    BY <1>7, <1>8
  <2>1. n + 1 = n + 1 + j
    BY <1>3 DEF OnceEach
  <2> QED  BY <1>3, <2>1
<1> HIDE DEF c
<1>15. /\ Callers(cs) = Callers(pre) \cup Own(c) \cup Callers(suf)
       /\ Callers(pre) \cap Own(c) = {} /\ Callers(pre) \cap Callers(suf) = {} /\ Callers(suf) \cap Own(c) = {}
  BY <1>9, <1>10, <1>12, <1>13, <1>14
<1> QED  BY <1>11, <1>15 DEF pre, suf, c

-----------------------------------------------------------------------------
(* What does not touch the callers.                                        *)

\* x is s but for what no caller depends on, and answers nobody next.
HasFields(s) == {"controls", "asked", "waiters", "approval", "status", "pending"} \subseteq DOMAIN s
Kin(s, x) ==
    /\ HasFields(x) /\ x.controls = s.controls /\ x.asked = s.asked /\ x.waiters = s.waiters
    /\ x.approval = s.approval
    /\ x.status \in Terminal => s.status \in Terminal
    /\ x.pending = s.pending \/ x.pending.next.k \notin Callback

LEMMA KinTrans ==
    ASSUME NEW s, NEW x, NEW y, Kin(s, x), Kin(x, y) PROVE Kin(s, y)
BY DEF Kin

LEMMA RunFields ==
    ASSUME NEW s \in Runs PROVE HasFields(s) /\ Kin(s, s)
BY DEF Runs, HasFields, Kin

LEMMA PublishKin ==
    ASSUME NEW s, HasFields(s), NEW type, NEW op, NEW what, NEW k, k \notin Callback, NEW arg
    PROVE  Kin(s, Publish(s, type, op, what, Then(k, arg)))
<1> DEFINE p == [k |-> "append", committed |-> FALSE, next |-> Then(k, arg),
                 rec |-> [seq |-> s.seq + 1, type |-> type, op |-> op, what |-> what]]
           x == [s EXCEPT !.pending = p]
<1>1. p.next.k = k
  BY DEF Then
<1>2. Publish(s, type, op, what, Then(k, arg)) = x
  BY DEF Publish
<1> HIDE DEF p
<1>3. Kin(s, x)
  BY <1>1 DEF Kin, HasFields
<1> QED  BY <1>2, <1>3

\* The functions that only write, or work on the operation.
LEMMA WritersKin ==
    ASSUME NEW s, HasFields(s)
    PROVE  /\ Kin(s, Hold(s)) /\ Kin(s, Settle(s)) /\ Kin(s, CancelOperation(s)) /\ Kin(s, Release(s))
           /\ \A status : Kin(s, Finish(s, status))
           /\ \A o, c : Kin(s, ToolResult(s, o, c))
           /\ \A o, r : Kin(s, ModelResult(s, o, r))
           /\ Kin(s, LaunchModel(s)) /\ \A c : Kin(s, LaunchTool(s, c))
<1>0. Kin(s, s)
  BY DEF Kin
<1>1. Kin(s, Hold(s))
  BY <1>0, PublishKin DEF Hold, Callback
<1>2. Kin(s, Settle(s))
  BY PublishKin DEF Settle, Callback
<1>3. Kin(s, CancelOperation(s))
  BY <1>0 DEF CancelOperation, Kin, HasFields
<1>4. Kin(s, Release(s))
  BY DEF Release, Kin, HasFields
<1>5. ASSUME NEW status PROVE Kin(s, Finish(s, status))
  <2> DEFINE t == [s EXCEPT !.finishing = TRUE]
  <2>1. HasFields(t) /\ Kin(s, t)
    BY DEF Kin, HasFields
  <2> HIDE DEF t
  <2>2. ASSUME NEW final PROVE Kin(t, Publish(t, "finished", 0, final, Then("finish", final)))
    BY <2>1, PublishKin DEF Callback
  <2> QED  BY <2>1, <2>2, KinTrans DEF Finish, t
<1>6. ASSUME NEW o, NEW c PROVE Kin(s, ToolResult(s, o, c))
  BY PublishKin DEF ToolResult, Callback
<1>7. ASSUME NEW o, NEW r PROVE Kin(s, ModelResult(s, o, r))
  BY PublishKin DEF ModelResult, Callback
<1>8. Kin(s, LaunchModel(s))
  <2> DEFINE t == [s EXCEPT !.ops = @ + 1, !.op = NewOp(s.ops + 1, "model", None, s.steer)]
  <2>1. HasFields(t) /\ Kin(s, t)
    BY DEF Kin, HasFields
  <2> HIDE DEF t
  <2>2. Kin(t, Publish(t, "model_admitted", s.ops + 1, s.steer, Then("effect", "start")))
    BY <2>1, PublishKin DEF Callback
  <2> QED  BY <2>1, <2>2, KinTrans DEF LaunchModel, t
<1>9. ASSUME NEW c PROVE Kin(s, LaunchTool(s, c))
  <2> DEFINE t == [s EXCEPT !.ops = @ + 1, !.op = NewOp(s.ops + 1, "tool", c, <<>>)]
  <2>1. HasFields(t) /\ Kin(s, t)
    BY DEF Kin, HasFields
  <2> HIDE DEF t
  <2>2. Kin(t, Publish(t, "tool_admitted", s.ops + 1, CallId(c), Then("effect", "start")))
    BY <2>1, PublishKin DEF Callback
  <2> QED  BY <2>1, <2>2, KinTrans DEF LaunchTool, t
<1> QED  BY <1>1, <1>2, <1>3, <1>4, <1>5, <1>6, <1>7, <1>8, <1>9


\* A task starts, or cannot: no caller is concerned.
LEMMA StartTaskKin ==
    ASSUME NEW s, HasFields(s), NEW spawned \in BOOLEAN PROVE Kin(s, StartTask(s, spawned))
<1> DEFINE m == [s EXCEPT !.steps = @ + 1, !.status = "running",
                          !.steer = SubSeq(@, Len(s.op.steers) + 1, Len(@))]
           t == IF s.op.kind = "tool" THEN s ELSE m
           started == IF s.op.kind = "tool" THEN "tool_started" ELSE "model_started"
           u == [t EXCEPT !.op.effect = "none", !.op.task = TRUE]
           v == [t EXCEPT !.op.effect = "none", !.op.down = "launch_failed"]
<1>1. StartTask(s, spawned) = IF spawned THEN Publish(u, started, s.op.id, None, Then("effect", "release"))
                              ELSE Settle(v)
  BY DEF StartTask
<1>2. Kin(s, m) /\ Kin(s, s)
  BY DEF Kin, HasFields, Terminal
<1> HIDE DEF m
<1>3. Kin(s, t)
  BY <1>2
<1> HIDE DEF t
<1>4. Kin(t, u) /\ Kin(t, v)
  BY <1>3 DEF Kin, HasFields
<1> HIDE DEF u, v, started
<1>5. Kin(u, Publish(u, started, s.op.id, None, Then("effect", "release")))
  BY <1>4, PublishKin DEF Kin, Callback
<1>6. Kin(v, Settle(v))
  BY <1>4, WritersKin DEF Kin
<1>7. Kin(s, u) /\ Kin(s, v)
  BY <1>3, <1>4, KinTrans
<1> QED  BY <1>1, <1>5, <1>6, <1>7, KinTrans

\* advance/1 moves no caller, and the record it writes answers none.
LEMMA AdvanceKin ==
    ASSUME NEW s, HasFields(s), NEW spawned \in BOOLEAN PROVE Kin(s, Advance(s, spawned))
<1>0. Kin(s, s)
  BY DEF Kin
<1>1. Kin(s, Effect(s, spawned))
  <2> DEFINE v == [s EXCEPT !.op.effect = "none", !.op.down = "not_started"]
  <2>1. Kin(s, v)
    BY DEF Kin, HasFields
  <2> HIDE DEF v
  <2>2. Kin(v, Settle(v))
    BY <2>1, WritersKin DEF Kin
  <2>3. Kin(s, Settle(v))
    BY <2>1, <2>2, KinTrans
  <2>4. Kin(s, RunEffect(s, spawned))
    BY StartTaskKin, WritersKin DEF RunEffect
  <2> QED  BY <2>3, <2>4, WritersKin DEF Effect, v
<1>2. Kin(s, AdmitTool(s))
  <2> DEFINE c == Head(s.calls)
             t == [s EXCEPT !.calls = Tail(@)]
  <2>1. Kin(s, t)
    BY DEF Kin, HasFields
  <2>2. AdmitTool(s) \in {ToolResult(t, 0, c), LaunchTool(t, c),
                          Publish(t, "approval_required", 0, CallId(c), Then("approval", c))}
    BY DEF AdmitTool
  <2> HIDE DEF t, c
  <2>3. HasFields(t)
    BY <2>1 DEF Kin
  <2>4. Kin(t, ToolResult(t, 0, c)) /\ Kin(t, LaunchTool(t, c))
    BY <2>3, WritersKin
  <2>5. Kin(t, Publish(t, "approval_required", 0, CallId(c), Then("approval", c)))
    BY <2>3, PublishKin DEF Callback
  <2> QED  BY <2>1, <2>2, <2>4, <2>5, KinTrans
<1>3. Kin(s, NextTurn(s))
  BY WritersKin DEF NextTurn
<1> QED  BY <1>0, <1>1, <1>2, <1>3, WritersKin DEF Advance

-----------------------------------------------------------------------------
(* drive/1.                                                                *)

\* The record of a control is waited for by its caller.
LEMMA ControlRecorded ==
    ASSUME NEW s \in Runs, NEW c \in Controls
    PROVE  LET x == RunControl(s, c)
           IN  /\ x \in Runs /\ Recorded(x) = Own(c) /\ x.pending # None
               /\ x.controls = s.controls /\ x.asked = s.asked /\ x.waiters = s.waiters
               /\ x.status = s.status
<1> DEFINE x == RunControl(s, c)
<1>1. PICK type \in Notes, op \in Nat, what \in Contents, next \in Nexts : Wrote(s, x, type, op, what, next)
  BY ControlWrote
<1>2. x.pending.next.k \in Callback <=> Guarded(c)
  <2>1. c.k \in {"stop", "timeout", "event", "pause", "continue", "steer", "approval"}
    BY DEF Controls, Pauses, Continues, Steers, Resolutions
  <2>2. ASSUME NEW type_1, NEW op_1, NEW what_1, NEW next_1
        PROVE  Publish(s, type_1, op_1, what_1, next_1).pending.next = next_1
    BY DEF Publish, Runs
  <2> QED  BY <2>1, <2>2 DEF RunControl, Guarded, Then, Callback
<1>3. Guarded(c) => x.pending.next.arg.from = c.from /\ c.from \in Clients
  <2>1. Guarded(c) => c.k \in {"pause", "continue", "steer", "approval"} /\ c.from \in Clients
    BY DEF Guarded, Controls, Pauses, Continues, Steers, Resolutions
  <2>2. ASSUME NEW type_1, NEW op_1, NEW what_1, NEW next_1
        PROVE  Publish(s, type_1, op_1, what_1, next_1).pending.next = next_1
    BY DEF Publish, Runs
  <2> QED  BY <2>1, <2>2 DEF RunControl, Then
<1> HIDE DEF x
<1>4. Recorded(x) = Own(c)
  BY <1>1, <1>2, <1>3 DEF Recorded, Own, Wrote
<1> QED  BY <1>1, <1>4 DEF Wrote, x


\* An empty queue has no callers.
LEMMA NoCallers == Callers(<<>>) = {} /\ OnceEach(<<>>)
BY DEF Callers, OnceEach

\* drive/1 answers those it rejects, and nobody else.
LEMMA DriveAccounts ==
    ASSUME NEW s \in Runs, Account(s), Closed(s), NEW spawned \in BOOLEAN
    PROVE  Account(Drive(s, spawned)) /\ Shut(Drive(s, spawned))
<1> DEFINE live == {i \in DOMAIN s.controls : ~Rejecting(s) \/ ~Guarded(s.controls[i])}
           first == CHOOSE i \in live : \A j \in live : i <= j
           n == IF live = {} THEN Len(s.controls) ELSE first - 1
           cs == SubSeq(s.controls, n + 2, Len(s.controls))
           asked == s.asked \ Callers(SubSeq(s.controls, 1, n))
           t == [s EXCEPT !.asked = asked, !.controls = cs]
<1>0. s.controls \in Seq(Controls) /\ asked \in SUBSET Clients
  BY DEF Runs
<1>1. CASE s.pending # None
  <2>1. Drive(s, spawned) = s
    BY <1>1 DEF Drive
  <2> QED  BY <1>1, <2>1 DEF Shut, Closed
<1>2. CASE s.pending = None
  <2>1. Drive(s, spawned) = IF live = {} THEN Advance(t, spawned) ELSE RunControl(t, s.controls[first])
    BY <1>2 DEF Drive
  <2>2. s.status \in Terminal => live = {}
    BY DEF Closed, Rejecting
  <2>3. live # {} => first \in live /\ first \in DOMAIN s.controls
    <3>1. live \subseteq Nat \ {0}
      <4> HIDE DEF Controls
      <4> QED  BY <1>0
    <3> QED  BY <3>1, FirstLive
  <2>4. n \in 0 .. Len(s.controls)
    <3> HIDE DEF first, Controls
    <3>1. DOMAIN s.controls = 1 .. Len(s.controls) /\ Len(s.controls) \in Nat
      BY <1>0
    <3>2. live # {} => first \in 1 .. Len(s.controls)
      BY <2>3, <3>1
    <3> HIDE DEF live
    <3> QED  BY <3>1, <3>2
  <2>5. Recorded(s) = {}
    BY <1>2 DEF Recorded
  <2> HIDE DEF n
  <2>6. cs \in Seq(Controls) /\ (n = Len(s.controls) => cs = <<>>)
    BY <1>0, <2>4, ControlsBehind
  <2> HIDE DEF cs, asked
  <2>7. /\ t \in Runs /\ t.controls = cs /\ t.asked = asked /\ t.waiters = s.waiters
        /\ t.status = s.status /\ t.approval = s.approval /\ t.pending = None
    <3> HIDE DEF Controls
    <3> QED  BY <1>0, <1>2, <2>6 DEF Runs
  <2> HIDE DEF t, first, live
  <2>8. CASE live = {}
    <3> DEFINE x == Advance(t, spawned)
    <3>1. cs = <<>>
      BY <2>6, <2>8 DEF n
    <3>2. asked = s.waiters
      <4>1. asked = s.asked \ Callers(s.controls)
        BY <1>0, <2>8, CallersAll DEF asked, n
      <4> QED  BY <2>5, <4>1 DEF Account
    <3>3. Kin(t, x)
      BY <2>7, RunFields, AdvanceKin
    <3>4. Drive(s, spawned) = x
      BY <2>1, <2>8
    <3> HIDE DEF x
    <3>5. Recorded(x) = {}
      BY <2>7, <3>3 DEF Recorded, Kin
    <3>6. Account(x)
      BY <2>7, <3>1, <3>2, <3>3, <3>5, NoCallers DEF Account, Kin
    <3>7. x.status \in Terminal => x.pending = None
      <4>1. x.status \in Terminal => s.status \in Terminal
        BY <2>7, <3>3 DEF Kin
      <4>2. t.status \in Terminal => Advance(t, spawned) = t
        BY DEF Advance
      <4> QED  BY <2>7, <4>1, <4>2 DEF x
    <3>8. Shut(x)
      BY <2>7, <3>1, <3>3, <3>7 DEF Shut, Closed, Kin
    <3> QED  BY <3>4, <3>6, <3>8
  <2>9. CASE live # {}
    <3> DEFINE c == s.controls[first]
               pre == SubSeq(s.controls, 1, n)
               x == RunControl(t, c)
    <3>1. first \in DOMAIN s.controls /\ n = first - 1 /\ n \in Nat
      BY <2>3, <2>4, <2>9 DEF n
    <3>2. n + 1 = first
      <4>1. first \in Nat
        <5> HIDE DEF Controls
        <5> QED  BY <1>0, <3>1
      <4> QED  BY <3>1, <4>1
    <3>3. c \in Controls
      <4> HIDE DEF Controls
      <4> QED  BY <1>0, <3>1
    <3>4. /\ Callers(s.controls) = Callers(pre) \cup Own(c) \cup Callers(cs)
          /\ OnceEach(cs)
          /\ Callers(pre) \cap Own(c) = {} /\ Callers(pre) \cap Callers(cs) = {}
          /\ Callers(cs) \cap Own(c) = {}
      <4>1. OnceEach(s.controls)
        BY DEF Account
      <4> HIDE DEF first, n, Controls
      <4> QED  BY <1>0, <3>1, <3>2, <4>1, CallersParts DEF cs
    <3> HIDE DEF c
    <3>5. /\ Recorded(x) = Own(c) /\ x.pending # None
          /\ x.controls = cs /\ x.asked = asked /\ x.waiters = s.waiters /\ x.status = s.status
      BY <2>7, <3>3, ControlRecorded
    <3>6. Drive(s, spawned) = x
      BY <2>1, <2>9 DEF c
    <3> HIDE DEF x
    <3>7. asked = s.asked \ Callers(pre)
      BY DEF asked
    <3> HIDE DEF pre
    <3>8. Account(x)
      BY <2>5, <3>4, <3>5, <3>7 DEF Account
    <3>9. Shut(x)
      BY <2>2, <2>9, <3>5 DEF Shut, Closed
    <3> QED  BY <3>6, <3>8, <3>9
  <2> QED  BY <2>8, <2>9
<1> QED  BY <1>1, <1>2

-----------------------------------------------------------------------------
(* What follows an acknowledged record.                                    *)

\* The caller of the record was answered, and nobody else; the run goes on.
Left(s, b) ==
    /\ HasFields(b) /\ b.controls = s.controls /\ b.asked = s.asked \ Recorded(s) /\ b.waiters = s.waiters
    /\ b.pending = None \/ b.pending.next.k \notin Callback
    /\ b.status \notin Terminal

LEMMA LeftKin ==
    ASSUME NEW s, NEW v, NEW b, Left(s, v), Kin(v, b) PROVE Left(s, b)
BY DEF Left, Kin

LEMMA LeftAccount ==
    ASSUME NEW s, NEW b, Account(s), Left(s, b) PROVE Account(b) /\ Closed(b)
<1>1. Recorded(b) = {}
  BY DEF Left, Recorded
<1> QED  BY <1>1 DEF Account, Closed, Left


LEMMA ResumeAccounts ==
    ASSUME NEW s, NEW w \in Tasks, NEW L \in Seq(Recs), Good(s, w, L), s.pending # None, Account(s)
    PROVE  LET b == Resume([s EXCEPT !.pending = None, !.seq = s.pending.rec.seq], s.pending.rec, s.pending.next)
           IN  Account(b) /\ Closed(b)
<1> DEFINE u == [s EXCEPT !.pending = None, !.seq = s.pending.rec.seq]
           rec == s.pending.rec
           next == s.pending.next
           b == Resume(u, rec, next)
<1> SUFFICES Account(b) /\ Closed(b)
  BY DEF b, u, rec, next
<1>1. s \in Runs /\ s.status \notin Terminal
  BY DEF Good, Sound, Ending
<1>2. next \in Nexts /\ Acked(s, u)
  BY <1>1, AckFields, PendingTypes
<1>3. HasFields(u)
  BY <1>2, RunFields DEF Acked
<1> HIDE DEF u, next, rec
<1>4. next.k \in Callback => Recorded(s) = {next.arg.from}
  <2>1. next.k \in Callback => next.arg.from \in Clients
    BY <1>2 DEF Callback, Nexts, Pauses, Steers, Resolutions
  <2> QED  BY <2>1 DEF Recorded, next
<1>5. next.k \notin Callback => Recorded(s) = {} /\ Left(s, u)
  <2>1. next.k \notin Callback => Recorded(s) = {}
    BY DEF Recorded, next
  <2> QED  BY <1>1, <1>2, <1>3, <2>1 DEF Left, Acked
<1>6. CASE next.k \in Callback
  <2> DEFINE v == Answer(u, next.arg.from)
  <2>1. Left(s, v)
    BY <1>1, <1>2, <1>3, <1>4, <1>6 DEF Left, Acked, Answer, HasFields
  <2> HIDE DEF v
  <2>2. HasFields(v)
    BY <2>1 DEF Left
  <2>3. CASE next.k = "pause"
    <3>1. b = [v EXCEPT !.paused = TRUE]
      BY <2>3 DEF Resume, v
    <3> QED  BY <2>1, <3>1, LeftAccount DEF Left, HasFields
  <2>4. CASE next.k = "continue"
    <3>1. next.arg.status \notin Terminal
      BY <1>2, <2>4 DEF Nexts, Terminal
    <3>2. b = [v EXCEPT !.paused = FALSE, !.status = next.arg.status]
      BY <2>4 DEF Resume, v
    <3>3. Left(s, b)
      BY <2>1, <3>1, <3>2 DEF Left, HasFields
    <3> QED  BY <3>3, LeftAccount
  <2>5. CASE next.k = "steer"
    <3>1. b = [v EXCEPT !.steer = Append(@, next.arg.id)]
      BY <2>5 DEF Resume, v
    <3>2. Left(s, b)
      BY <2>1, <3>1 DEF Left, HasFields
    <3> QED  BY <3>2, LeftAccount
  <2>6. CASE next.k = "approve"
    <3> DEFINE x == [v EXCEPT !.approval = None, !.status = "running"]
               y == [x EXCEPT !.calls = <<[next.arg.call EXCEPT !.approved = TRUE]>> \o @]
    <3>1. b \in {ToolResult(x, 0, next.arg.call), y}
      BY <2>6 DEF Resume, v, Decide
    <3>2. Left(s, x)
      BY <2>1 DEF Left, HasFields, Terminal
    <3> HIDE DEF x
    <3>3. HasFields(x)
      BY <3>2 DEF Left
    <3>4. Kin(x, ToolResult(x, 0, next.arg.call))
      BY <3>3, WritersKin
    <3>5. Kin(x, y)
      BY <3>3 DEF Kin, HasFields
    <3> HIDE DEF y
    <3>6. Left(s, b)
      BY <3>1, <3>2, <3>4, <3>5, LeftKin
    <3> QED  BY <3>6, LeftAccount
  <2> QED  BY <1>6, <2>3, <2>4, <2>5, <2>6 DEF Callback
<1>7. CASE next.k = "finish"
  <2>1. b = [u EXCEPT !.status = next.arg, !.approval = None, !.calls = <<>>,
                      !.steer = <<>>, !.asked = @ \ u.waiters, !.waiters = {}]
    BY <1>7 DEF Resume
  <2>2. /\ b.controls = s.controls /\ b.asked = s.asked \ s.waiters /\ b.waiters = {}
        /\ b.pending = None /\ b.approval = None
    BY <1>2, <1>3, <2>1 DEF HasFields, Acked
  <2>3. Recorded(s) = {} /\ Recorded(b) = {}
    BY <1>5, <1>7, <2>2 DEF Callback, Recorded
  <2>4. \A i \in DOMAIN s.controls : Guarded(s.controls[i])
    <3>1. rec.type = "finished"
      BY <1>7 DEF Good, Sound, Written, Fits, rec, next
    <3>2. At(s, L).type = "finished"
      BY <3>1, TypesApart DEF At, PendingType, rec
    <3> QED  BY <3>2 DEF Good, Sound, Ending, Queued
  <2> HIDE DEF b
  <2>5. Account(b)
    BY <2>2, <2>3 DEF Account
  <2> QED  BY <2>2, <2>4, <2>5 DEF Closed, b
<1>8. CASE next.k \in {"advance", "event", "approval", "effect", "settled", "turn", "model_failed", "paused"}
  <2>1. Left(s, u) /\ HasFields(u)
    BY <1>3, <1>5, <1>8 DEF Callback
  <2>2. CASE next.k = "settled"
    <3> DEFINE t == [u EXCEPT !.op = None]
    <3>1. b \in {ModelResult(t, u.op.id, next.arg), ToolResult(t, u.op.id, u.op.call)}
      BY <2>2 DEF Resume
    <3>2. HasFields(t) /\ Kin(u, t)
      BY <2>1 DEF HasFields, Kin
    <3> HIDE DEF t
    <3>3. Kin(t, ModelResult(t, u.op.id, next.arg)) /\ Kin(t, ToolResult(t, u.op.id, u.op.call))
      BY <3>2, WritersKin
    <3>4. Left(s, b)
      BY <2>1, <3>1, <3>2, <3>3, LeftKin
    <3> QED  BY <3>4, LeftAccount
  <2>3. CASE next.k \in {"turn", "model_failed"}
    <3>1. b = u \/ (\E status : b = Finish(u, status)) \/ \E calls : b = [u EXCEPT !.calls = calls]
      BY <2>3 DEF Resume, AfterTurn
    <3>2. \A status : Kin(u, Finish(u, status))
      BY <2>1, WritersKin
    <3>3. \A calls : Kin(u, [u EXCEPT !.calls = calls])
      BY <2>1 DEF Kin, HasFields
    <3>4. Left(s, b)
      BY <2>1, <3>1, <3>2, <3>3, LeftKin
    <3> QED  BY <3>4, LeftAccount
  <2>4. CASE next.k \in {"advance", "event", "approval", "effect", "paused"}
    <3>1. b = u \/ b = [u EXCEPT !.op.credits = @ + 1] \/ b = [u EXCEPT !.op.effect = next.arg]
          \/ b = [u EXCEPT !.status = "paused"]
          \/ b = [u EXCEPT !.status = "waiting_approval",
                           !.approval = [k |-> "approval", call |-> next.arg, resolving |-> FALSE]]
      BY <2>4 DEF Resume
    <3>2. Left(s, b)
      BY <2>1, <3>1 DEF Left, HasFields, Terminal
    <3> QED  BY <3>2, LeftAccount
  <2> QED  BY <1>8, <2>2, <2>3, <2>4
<1>9. next.k \in Callback \cup {"finish", "advance", "event", "approval", "effect", "settled", "turn", "model_failed", "paused"}
  BY <1>2 DEF Nexts, Callback
<1> QED  BY <1>6, <1>7, <1>8, <1>9


-----------------------------------------------------------------------------
(* Each step.                                                              *)

Ready == Whole(run, worker, log) /\ Account(run) /\ Shut(run)
After == Account(run') /\ Shut(run')

\* drive/1 at the end of a handler that left the run as b.
LEMMA GoAccounts ==
    ASSUME NEW b \in Runs, Account(b), Closed(b), Go(b) PROVE After
<1>1. PICK spawned \in BOOLEAN : run' = Drive(b, spawned)
  BY DEF Go, Become
<1> QED  BY <1>1, DriveAccounts DEF After

\* A client whose call is taken waits in the queue.
LEMMA CallTaken ==
    ASSUME NEW s \in Runs, Account(s), Closed(s), s.status \notin Terminal, NEW c \in Controls, Guarded(c),
           c.from \in Clients, c.from \notin s.asked, Enqueue(s, c)
    PROVE  After
<1> DEFINE cs == Append(s.controls, c)
           b == [s EXCEPT !.asked = @ \cup {c.from}, !.controls = cs]
<1>1. s.controls \in Seq(Controls) /\ cs \in Seq(Controls)
  <2>1. s.controls \in Seq(Controls)
    BY DEF Runs
  <2> HIDE DEF Controls
  <2> QED  BY <2>1
<1>2. Callers(cs) = Callers(s.controls) \cup {c.from} /\ OnceEach(cs)
  <2>1. OnceEach(s.controls) /\ Own(c) = {c.from} /\ Own(c) \cap Callers(s.controls) = {}
    BY DEF Account, Own
  <2> HIDE DEF Controls
  <2> QED  BY <1>1, <2>1, CallersMore
<1>3. Go(b)
  BY DEF Enqueue
<1> HIDE DEF cs
<1>4. /\ b \in Runs /\ b.controls = cs /\ b.asked = s.asked \cup {c.from} /\ b.waiters = s.waiters
      /\ b.pending = s.pending /\ b.status = s.status
  <2> HIDE DEF Controls
  <2> QED  BY <1>1 DEF Runs
<1> HIDE DEF b
<1>5. Recorded(b) = Recorded(s)
  BY <1>4 DEF Recorded
<1>6. Account(b) /\ Closed(b)
  BY <1>2, <1>4, <1>5 DEF Account, Closed
<1> QED  BY <1>3, <1>4, <1>6, GoAccounts

\* A pause, a continue, a steer and a decision are taken like that.
LEMMA CallsAccount ==
    ASSUME Ready, issued \in Nat, NEW c \in Clients, Pause(c) \/ Continue(c) \/ Steer(c) PROVE After
<1>0. run \in Runs /\ Account(run) /\ Closed(run) /\ run.status \notin Terminal /\ c \notin run.asked
  BY DEF Ready, Whole, Good, Shut, Pause, Continue, Steer, Sends, Live
<1>1. ASSUME Pause(c) PROVE After
  <2> DEFINE d == [k |-> "pause", from |-> c]
  <2>1. d \in Controls /\ Guarded(d) /\ d.from = c
    BY DEF Controls, Pauses, Guarded
  <2>2. Enqueue(run, d)
    BY <1>1 DEF Pause
  <2> HIDE DEF d
  <2> QED  BY <1>0, <2>1, <2>2, CallTaken
<1>2. ASSUME Continue(c) PROVE After
  <2> DEFINE d == [k |-> "continue", from |-> c]
  <2>1. d \in Controls /\ Guarded(d) /\ d.from = c
    BY DEF Controls, Continues, Guarded
  <2>2. Enqueue(run, d)
    BY <1>2 DEF Continue
  <2> HIDE DEF d
  <2> QED  BY <1>0, <2>1, <2>2, CallTaken
<1>3. ASSUME Steer(c) PROVE After
  <2> DEFINE d == [k |-> "steer", from |-> c, id |-> issued + 1]
  <2>0. issued + 1 \in Nat
    OBVIOUS
  <2>1. d \in Controls /\ Guarded(d) /\ d.from = c
    BY <2>0 DEF Controls, Steers, Guarded
  <2>2. Enqueue(run, d)
    BY <1>3 DEF Steer
  <2> HIDE DEF d
  <2> QED  BY <1>0, <2>1, <2>2, CallTaken
<1> QED  BY <1>1, <1>2, <1>3

LEMMA ApproveAccounts ==
    ASSUME Ready, NEW c \in Clients, NEW decision \in Decisions, Approve(c, decision) PROVE After
<1> DEFINE q == [run.approval EXCEPT !.resolving = TRUE]
           s == [run EXCEPT !.approval.resolving = TRUE]
           d == [k |-> "approval", from |-> c, call |-> run.approval.call, decision |-> decision]
<1>0. run \in Runs /\ Account(run) /\ Closed(run)
  BY DEF Ready, Whole, Good, Shut
<1>1. run.approval # None /\ Enqueue(s, d) /\ c \notin run.asked
  BY DEF Approve, Sends
<1>2. run.status \notin Terminal
  BY <1>0, <1>1 DEF Closed
<1>3. run.approval \in Requests
  BY <1>0, <1>1 DEF Runs
<1>4. run.approval.call \in Calls /\ q \in Requests
  <2> HIDE DEF Calls
  <2> QED  BY <1>3 DEF Requests
<1>5. s = [run EXCEPT !.approval = q]
  BY <1>0, <1>3 DEF Runs, Requests
<1>6. d \in Controls /\ Guarded(d) /\ d.from = c
  <2> HIDE DEF Calls
  <2> QED  BY <1>4 DEF Controls, Resolutions, Guarded
<1> HIDE DEF q, s, d
<1>7. /\ s \in Runs /\ s.controls = run.controls /\ s.asked = run.asked /\ s.waiters = run.waiters
      /\ s.pending = run.pending /\ s.status = run.status
  <2> HIDE DEF Requests
  <2> QED  BY <1>0, <1>4, <1>5 DEF Runs
<1>8. Account(s) /\ Closed(s)
  <2>1. Recorded(s) = Recorded(run)
    BY <1>7 DEF Recorded
  <2> QED  BY <1>0, <1>2, <1>7, <2>1 DEF Account, Closed
<1> QED  BY <1>1, <1>2, <1>6, <1>7, <1>8, CallTaken

\* Who awaits the end waits for nothing else.
LEMMA AwaitAccounts ==
    ASSUME Ready, NEW c \in Clients, Await(c) PROVE After
<1> DEFINE t == [run EXCEPT !.waiters = @ \cup {c}, !.asked = @ \cup {c}]
<1>0. run \in Runs /\ Account(run) /\ run.status \notin Terminal /\ c \notin run.asked
  BY DEF Ready, Whole, Good, Await, Sends
<1>1. run' = t
  BY DEF Await
<1>2. /\ t.controls = run.controls /\ t.asked = run.asked \cup {c} /\ t.waiters = run.waiters \cup {c}
      /\ t.pending = run.pending /\ t.status = run.status
  BY <1>0 DEF Runs
<1> HIDE DEF t
<1>3. Recorded(t) = Recorded(run)
  BY <1>2 DEF Recorded
<1>4. Account(t) /\ Shut(t)
  BY <1>0, <1>2, <1>3 DEF Account, Shut, Closed
<1> QED  BY <1>1, <1>4 DEF After

\* A control without a caller is put at one end of the queue: nobody else waits.
LEMMA NoteTaken ==
    ASSUME Account(run), run \in Runs, run.status \notin Terminal,
           NEW u \in Runs, u.controls = run.controls, u.asked = run.asked, u.waiters = run.waiters,
           u.pending = run.pending, u.status = run.status,
           NEW c \in [k : {"stop", "timeout", "event"}],
           NEW cs, cs = Append(u.controls, c) \/ cs = <<c>> \o u.controls
    PROVE  LET b == [u EXCEPT !.controls = cs] IN b \in Runs /\ Account(b) /\ Closed(b)
<1> DEFINE b == [u EXCEPT !.controls = cs]
<1>1. c \in Controls /\ ~Guarded(c) /\ u.controls \in Seq(Controls)
  BY DEF Controls, Guarded, Runs
<1>2. cs \in Seq(Controls)
  <2> HIDE DEF Controls
  <2>1. Append(u.controls, c) \in Seq(Controls)
    BY <1>1
  <2>2. <<c>> \o u.controls \in Seq(Controls)
    <3>1. <<c>> \in Seq(Controls)
      BY <1>1
    <3> QED  BY <1>1, <3>1, ConcatProperties
  <2> QED  BY <2>1, <2>2
<1>3. Callers(cs) = Callers(run.controls) /\ OnceEach(cs)
  <2>1. OnceEach(u.controls) /\ Own(c) = {} /\ Own(c) \cap Callers(u.controls) = {}
    BY <1>1 DEF Account, Own
  <2> HIDE DEF Controls
  <2>2. Callers(cs) = Callers(u.controls) \cup Own(c) /\ OnceEach(cs)
    BY <1>1, <2>1, CallersMore
  <2> QED  BY <2>1, <2>2
<1>4. /\ b \in Runs /\ b.controls = cs /\ b.asked = run.asked /\ b.waiters = run.waiters
      /\ b.pending = run.pending /\ b.status = run.status
  <2> HIDE DEF Controls
  <2> QED  BY <1>2 DEF Runs
<1> HIDE DEF b
<1>5. Recorded(b) = Recorded(run)
  BY <1>4 DEF Recorded
<1>6. Account(b) /\ Closed(b)
  BY <1>3, <1>4, <1>5 DEF Account, Closed
<1> QED  BY <1>4, <1>6 DEF b


\* A stop and a timeout set flags, cancel the task and note it.
LEMMA StopAccounts ==
    ASSUME Ready, (\E c \in Clients : Stop(c)) \/ OperationTimeout PROVE After
<1>0. /\ run \in Runs /\ Account(run) /\ run.status \notin Terminal
      /\ worker \in Tasks /\ log \in Seq(Recs) /\ Good(run, worker, log)
  <2>1. run.op # None => run.status \notin Terminal
    BY DEF Ready, Whole, Good, Sound, Ending, Phase
  <2> QED  BY <2>1 DEF Ready, Whole, Good, Stop, Live, OperationTimeout
<1>1. ASSUME NEW t \in Runs, t.controls = run.controls, t.asked = run.asked, t.waiters = run.waiters,
             t.pending = run.pending, t.status = run.status,
             NEW d \in [k : {"stop", "timeout", "event"}],
             Go([CancelOperation(t) EXCEPT !.controls = <<d>> \o @]), CancelOperation(t) \in Runs
      PROVE  After
  <2> DEFINE u == CancelOperation(t)
             cs == <<d>> \o u.controls
  <2>1. HasFields(t)
    BY RunFields
  <2>2. CancelOperation(t) = t \/ \E sent : CancelOperation(t) = [t EXCEPT !.op.sent = sent]
    BY DEF CancelOperation
  <2>3. /\ u.controls = run.controls /\ u.asked = run.asked /\ u.waiters = run.waiters
        /\ u.pending = run.pending /\ u.status = run.status
    BY <1>1, <2>1, <2>2 DEF HasFields
  <2>4. u \in Runs /\ Go([u EXCEPT !.controls = cs])
    BY <1>1
  <2> HIDE DEF u
  <2> DEFINE b == [u EXCEPT !.controls = cs]
  <2>5. b \in Runs /\ Account(b) /\ Closed(b)
    <3> HIDE DEF Runs
    <3> QED  BY <1>0, <1>1, <2>3, <2>4, NoteTaken
  <2> QED  BY <2>4, <2>5, GoAccounts
<1>2. ASSUME NEW c \in Clients, Stop(c) PROVE After
  <2> DEFINE t == [run EXCEPT !.stopping = TRUE]
             d == [k |-> "stop"]
  <2>1. Go([CancelOperation(t) EXCEPT !.controls = <<d>> \o @])
    BY <1>2 DEF Stop
  <2>2. /\ t \in Runs /\ t.controls = run.controls /\ t.asked = run.asked /\ t.waiters = run.waiters
        /\ t.pending = run.pending /\ t.status = run.status
    BY <1>0 DEF Runs
  <2>3. CancelOperation(t) \in Runs
    <3>1. Halted(run, t)
      BY <1>0 DEF Runs, Halted
    <3>2. ~run.finishing /\ Ended(log)
      BY <1>2 DEF Stop, Live, Ready, Whole, LogInv
    <3> HIDE DEF t
    <3>3. Good(t, worker, log)
      BY <1>0, <3>1, <3>2, HaltKeeps
    <3> QED  BY <1>0, <3>3, CancelKeeps DEF Good
  <2>4. d \in [k : {"stop", "timeout", "event"}]
    OBVIOUS
  <2> HIDE DEF t, d
  <2> QED  BY <1>1, <2>1, <2>2, <2>3, <2>4
<1>3. ASSUME OperationTimeout PROVE After
  <2> DEFINE q == [run.op EXCEPT !.timer = FALSE]
             s == [run EXCEPT !.op = q]
             t == [run EXCEPT !.timedOut = TRUE, !.stopping = TRUE, !.op.timer = FALSE]
             d == [k |-> "timeout"]
  <2>1. run.op # None /\ Go([CancelOperation(t) EXCEPT !.controls = <<d>> \o @])
    BY <1>3 DEF OperationTimeout
  <2>2. run.op \in Ops /\ ~run.finishing /\ Ended(log)
    <3>1. run.op \in Ops
      BY <1>0, <2>1 DEF Runs
    <3>2. At(run, log).type = "finished" => run.op = None
      BY <1>0 DEF Good, Sound, Phase
    <3> QED  BY <1>0, <2>1, <3>1, <3>2 DEF Good, Sound, Ending, Ready, Whole, LogInv
  <2>3. /\ q \in Ops /\ q.id = run.op.id /\ q.kind = run.op.kind /\ q.call = run.op.call
        /\ q.effect = run.op.effect /\ q.task = run.op.task /\ q.down = run.op.down /\ q.sent = run.op.sent
    <3> HIDE DEF Calls, Answers
    <3> QED  BY <2>2 DEF Ops
  <2>4. t = [s EXCEPT !.timedOut = TRUE, !.stopping = TRUE]
    BY <1>0, <2>2 DEF Runs, Ops
  <2> HIDE DEF q
  <2>5. Good(s, worker, log) /\ Reop(run, s, q)
    BY <1>0, <2>1, <2>3, OpKeeps
  <2> HIDE DEF s, t
  <2>6. s \in Runs /\ ~s.finishing
    BY <2>2, <2>5 DEF Reop
  <2>7. Halted(s, t)
    BY <2>4, <2>6 DEF Runs, Halted
  <2>8. /\ t \in Runs /\ t.controls = run.controls /\ t.asked = run.asked /\ t.waiters = run.waiters
        /\ t.pending = run.pending /\ t.status = run.status
    <3>1. /\ t \in Runs /\ t.controls = s.controls /\ t.asked = s.asked /\ t.waiters = s.waiters
          /\ t.pending = s.pending /\ t.status = s.status
      BY <2>4, <2>6 DEF Runs
    <3> QED  BY <2>5, <3>1 DEF Reop
  <2>9. CancelOperation(t) \in Runs
    <3>1. Good(t, worker, log)
      BY <1>0, <2>2, <2>5, <2>6, <2>7, HaltKeeps
    <3> QED  BY <1>0, <3>1, CancelKeeps DEF Good
  <2>10. d \in [k : {"stop", "timeout", "event"}]
    OBVIOUS
  <2> HIDE DEF d
  <2> QED  BY <1>1, <2>1, <2>8, <2>9, <2>10
<1> QED  BY <1>2, <1>3

\* What the task tells the run concerns no caller.
LEMMA TaskHeard ==
    ASSUME Ready, OperationEvent \/ OperationResult \/ OperationDown PROVE After
<1>0. /\ run \in Runs /\ Account(run) /\ Shut(run) /\ run.op # None /\ run.status \notin Terminal
      /\ worker \in Tasks /\ worker.out # <<>>
  <2>1. run.op # None => run.status \notin Terminal
    BY DEF Ready, Whole, Good, Sound, Ending, Phase
  <2> QED  BY <2>1 DEF Ready, Whole, Good, OperationEvent, OperationResult, OperationDown, Message
<1>1. CASE OperationEvent
  <2> DEFINE d == [k |-> "event"]
             cs == Append(run.controls, d)
             b == [run EXCEPT !.controls = cs]
  <2>1. run' = Drive(b, TRUE)
    BY <1>1 DEF OperationEvent
  <2>2. d \in [k : {"stop", "timeout", "event"}]
    OBVIOUS
  <2> HIDE DEF d
  <2>3. b \in Runs /\ Account(b) /\ Closed(b)
    <3> HIDE DEF Runs
    <3> QED  BY <1>0, <2>2, NoteTaken
  <2> QED  BY <2>1, <2>3, DriveAccounts DEF After
<1>2. ASSUME NEW o \in Ops, NEW b, b = [run EXCEPT !.op = o]
      PROVE  b \in Runs /\ Account(b) /\ Shut(b)
  <2>1. /\ b \in Runs /\ b.controls = run.controls /\ b.asked = run.asked /\ b.waiters = run.waiters
        /\ b.pending = run.pending /\ b.status = run.status
    <3> HIDE DEF Ops
    <3> QED  BY <1>0, <1>2 DEF Runs
  <2>2. Recorded(b) = Recorded(run)
    BY <2>1 DEF Recorded
  <2> QED  BY <1>0, <2>1, <2>2 DEF Account, Shut, Closed
<1>3. run.op \in Ops
  BY <1>0 DEF Runs
<1>4. CASE OperationResult
  <2> DEFINE o == [run.op EXCEPT !.result = Head(worker.out)]
  <2>1. run' = [run EXCEPT !.op = o]
    BY <1>0, <1>3, <1>4 DEF OperationResult, Runs, Ops
  <2>2. o \in Ops
    <3>1. Head(worker.out) \in Messages /\ Head(worker.out).k \in {"turn", "cut", "error", "text"}
      <4>1. worker.out \in Seq(Messages)
        BY <1>0 DEF Tasks
      <4> HIDE DEF Messages
      <4> QED  BY <1>0, <1>4, <4>1 DEF OperationResult, Message
    <3>2. Head(worker.out) \in Answers
      BY <3>1 DEF Messages
    <3> HIDE DEF Answers, Calls
    <3> QED  BY <1>3, <3>2 DEF Ops
  <2> HIDE DEF o
  <2> QED  BY <1>2, <2>1, <2>2 DEF After
<1>5. CASE OperationDown
  <2> DEFINE o == [run.op EXCEPT !.timer = FALSE, !.down = "exit"]
             b == [run EXCEPT !.op = o]
  <2>1. run' = Drive(b, TRUE)
    <3>1. [run EXCEPT !.op.timer = FALSE, !.op.down = "exit"] = b
      BY <1>0, <1>3 DEF Runs, Ops
    <3> QED  BY <1>5, <3>1 DEF OperationDown
  <2>2. o \in Ops
    <3> HIDE DEF Answers, Calls
    <3> QED  BY <1>3 DEF Ops, Downs
  <2> HIDE DEF o
  <2>3. b \in Runs /\ Account(b) /\ Shut(b)
    BY <1>2, <2>2
  <2> QED  BY <2>1, <2>3, DriveAccounts DEF After, Shut
<1> QED  BY <1>1, <1>4, <1>5

LEMMA AckAccounts ==
    ASSUME Ready, CommitAck PROVE After
<1> DEFINE b == Resume([run EXCEPT !.pending = None, !.seq = run.pending.rec.seq], run.pending.rec, run.pending.next)
<1>0. /\ worker \in Tasks /\ log \in Seq(Recs) /\ Good(run, worker, log) /\ Account(run)
      /\ run.pending # None /\ run.pending.committed /\ Go(b)
  BY DEF Ready, Whole, CommitAck
<1>1. LET x == Resume([run EXCEPT !.pending = None, !.seq = run.pending.rec.seq], run.pending.rec, run.pending.next)
      IN  Good(x, worker, log) /\ Quiet(run, x)
  BY <1>0, ResumeKeeps, Zenon
<1>2. LET x == Resume([run EXCEPT !.pending = None, !.seq = run.pending.rec.seq], run.pending.rec, run.pending.next)
      IN  Account(x) /\ Closed(x)
  BY <1>0, ResumeAccounts, Zenon
<1>3. b \in Runs /\ Account(b) /\ Closed(b)
  BY <1>1, <1>2 DEF Good
<1> HIDE DEF b
<1> QED  BY <1>0, <1>3, GoAccounts

\* Storing a record, and what the task does, move nobody.
LEMMA StoredAccounts ==
    ASSUME Ready, SinkCommit \/ WorkTask \/ UNCHANGED run PROVE After
<1>0. run \in Runs /\ Account(run) /\ Shut(run)
  BY DEF Ready, Whole, Good
<1>1. CASE run' = run
  BY <1>0, <1>1 DEF After
<1>2. CASE SinkCommit
  <2> DEFINE p == [run.pending EXCEPT !.committed = TRUE]
  <2>1. run.pending # None /\ run' = [run EXCEPT !.pending = p]
    <3>1. run.pending # None /\ run' = [run EXCEPT !.pending.committed = TRUE]
      BY <1>2 DEF SinkCommit
    <3> QED  BY <1>0, <3>1 DEF Runs
  <2>2. run.pending \in Appends
    BY <1>0, <2>1 DEF Runs
  <2>3. p.next = run.pending.next /\ p # None
    BY <2>2 DEF Appends, None
  <2> HIDE DEF p
  <2>4. /\ run'.controls = run.controls /\ run'.asked = run.asked /\ run'.waiters = run.waiters
        /\ run'.pending = p /\ run'.status = run.status
    BY <1>0, <2>1 DEF Runs
  <2>5. Recorded(run') = Recorded(run)
    BY <2>1, <2>3, <2>4 DEF Recorded
  <2> QED  BY <1>0, <2>1, <2>4, <2>5 DEF After, Account, Shut, Closed
<1>3. WorkTask => run' = run
  <2>1. ASSUME NEW ms, Ends(ms) PROVE run' = run
    BY <2>1 DEF Ends
  <2>2. TaskRefused \/ TaskReturns \/ TaskDies => run' = run
    BY <2>1 DEF TaskRefused, TaskReturns, TaskDies
  <2> QED  BY <2>2 DEF WorkTask, TaskBegins, TaskReports, TaskGoesOn
<1> QED  BY <1>1, <1>2, <1>3


-----------------------------------------------------------------------------
(* In every state.                                                         *)

LEMMA AccountsStart == Init => Accounts
<1> SUFFICES ASSUME Init PROVE Account(run) /\ Shut(run)
  BY DEF Accounts
<1>1. /\ run.controls = <<>> /\ run.waiters = {} /\ run.asked = {} /\ run.status = "running"
      /\ run.pending.next.k = "advance"
  BY DEF Init, Then
<1>2. Recorded(run) = {}
  BY <1>1 DEF Recorded, Callback
<1> QED  BY <1>1, <1>2, NoCallers DEF Account, Shut, Closed, Terminal

LEMMA AccountsStep == RunInv /\ Accounts /\ [Next]_vars => Accounts'
<1> SUFFICES ASSUME RunInv, Accounts, [Next]_vars, run'.alive PROVE After
  BY DEF Accounts, After
<1>0. run \in Runs /\ issued \in Nat
  BY DEF RunInv, Whole, Good
<1>1. run.alive => Ready
  BY DEF Ready, RunInv, Accounts
<1>2. ASSUME Handle PROVE After
  <2>1. run.alive
    BY <1>2 DEF Handle, CommitAck, OperationEvent, OperationResult, OperationDown, OperationTimeout, Message
  <2> QED  BY <1>1, <1>2, <2>1, AckAccounts, TaskHeard, StopAccounts DEF Handle
<1>3. ASSUME NEW c \in Clients, Command(c) PROVE After
  <2>1. run.alive
    BY <1>3 DEF Command, Stop, Pause, Continue, Steer, Await, Approve, Sends
  <2>2. ASSUME NEW decision \in {"allow", "deny"}, Approve(c, decision) PROVE After
    BY <1>1, <2>1, <2>2, ApproveAccounts DEF Decisions
  <2> QED  BY <1>0, <1>1, <1>3, <2>1, <2>2, StopAccounts, CallsAccount, AwaitAccounts DEF Command
<1>4. ASSUME SinkCommit \/ WorkTask \/ UNCHANGED vars PROVE After
  <2>1. run.alive
    <3>1. SinkCommit => run'.alive = run.alive
      BY <1>0 DEF SinkCommit, Runs
    <3>2. ASSUME NEW ms, Ends(ms) PROVE run' = run
      BY <3>2 DEF Ends
    <3>3. TaskRefused \/ TaskReturns \/ TaskDies => run' = run
      BY <3>2 DEF TaskRefused, TaskReturns, TaskDies
    <3>4. WorkTask \/ UNCHANGED vars => run' = run
      BY <3>3 DEF WorkTask, TaskBegins, TaskReports, TaskGoesOn, vars
    <3> QED  BY <1>4, <3>1, <3>4
  <2> QED  BY <1>1, <1>4, <2>1, StoredAccounts DEF vars
<1>5. ~Fence
  BY <1>0 DEF Fence, Runs
<1> QED  BY <1>2, <1>3, <1>4, <1>5 DEF Next

\* The places where clients wait are disjoint, and together they hold those who
\* have asked and were not answered, in every state of a run that is alive.
THEOREM RunAccounts == Spec => [](RunInv /\ Accounts)
<1>1. Init => RunInv /\ Accounts
  BY Starts, AccountsStart
<1>2. (RunInv /\ Accounts) /\ [Next]_vars => (RunInv /\ Accounts)'
  BY StepKeeps, AccountsStep
<1> QED  BY <1>1, <1>2, PTL DEF Spec

\* One client is in one place at most.
LEMMA OnePlace ==
    ASSUME Account(run), run \in Runs, NEW c \in Clients
    PROVE  Cardinality(WaitingAt(c)) = IF c \in run.asked THEN 1 ELSE 0
<1> DEFINE mine == {j \in DOMAIN run.controls : Guarded(run.controls[j]) /\ run.controls[j].from = c}
           queued == {<<"control", i>> : i \in mine}
           recorded == IF run.pending # None /\ run.pending.next.k \in {"pause", "continue", "steer", "approve"}
                          /\ run.pending.next.arg.from = c THEN {<<"record", 0>>} ELSE {}
           awaiting == IF c \in run.waiters THEN {<<"waiters", 0>>} ELSE {}
<1>1. WaitingAt(c) = queued \cup recorded \cup awaiting
  BY DEF WaitingAt
<1>2. c \in Callers(run.controls) <=> mine # {}
  BY CallersOf
<1>3. \A i, j \in mine : i = j
  BY DEF Account, OnceEach
<1>4. recorded = IF c \in Recorded(run) THEN {<<"record", 0>>} ELSE {}
  BY DEF Recorded, Callback
<1>5. IF c \in Callers(run.controls) THEN \E x : queued = {x} ELSE queued = {}
  <2>1. CASE mine = {}
    BY <1>2, <2>1
  <2>2. CASE mine # {}
    <3>1. PICK i \in mine : mine = {i}
      BY <1>3, <2>2
    <3>2. queued = {<<"control", i>>}
      BY <3>1
    <3> QED  BY <1>2, <2>2, <3>2
  <2> QED  BY <2>1, <2>2
<1> HIDE DEF mine, queued, recorded
<1>6. CASE c \in Callers(run.controls)
  <2>1. c \in run.asked /\ recorded = {} /\ awaiting = {}
    BY <1>4, <1>6 DEF Account
  <2>2. PICK x : WaitingAt(c) = {x}
    BY <1>1, <1>5, <1>6, <2>1
  <2> QED  BY <2>1, <2>2, FS_Singleton
<1>7. CASE c \in Recorded(run)
  <2>1. c \in run.asked /\ queued = {} /\ awaiting = {}
    BY <1>5, <1>7 DEF Account
  <2>2. WaitingAt(c) = {<<"record", 0>>}
    BY <1>1, <1>4, <1>7, <2>1
  <2> QED  BY <2>1, <2>2, FS_Singleton
<1>8. CASE c \in run.waiters
  <2>1. c \in run.asked /\ queued = {} /\ recorded = {}
    BY <1>4, <1>5, <1>8 DEF Account
  <2>2. WaitingAt(c) = {<<"waiters", 0>>}
    BY <1>1, <1>8, <2>1
  <2> QED  BY <2>1, <2>2, FS_Singleton
<1>9. CASE c \notin Callers(run.controls) \cup Recorded(run) \cup run.waiters
  <2>1. c \notin run.asked /\ WaitingAt(c) = {}
    BY <1>1, <1>4, <1>5, <1>9 DEF Account
  <2> QED  BY <2>1, FS_EmptySet
<1> QED  BY <1>6, <1>7, <1>8, <1>9

\* Every caller that waits is held in exactly one place, and nobody waits when
\* the run is over (enqueue_control/4, finish/3).
THEOREM RunAccountsForCalls == Spec => []EveryCallAccounted
<1>1. RunInv /\ Accounts => EveryCallAccounted
  <2> SUFFICES ASSUME RunInv, Accounts, run.alive
               PROVE  /\ \A c \in Clients : Cardinality(WaitingAt(c)) = IF c \in run.asked THEN 1 ELSE 0
                      /\ run.status \in Terminal => run.asked = {}
    BY DEF EveryCallAccounted
  <2>1. run \in Runs /\ Account(run) /\ Shut(run)
    BY DEF RunInv, Whole, Good, Accounts
  <2>2. run.status \in Terminal => run.asked = {}
    BY <2>1, NoCallers DEF Account, Shut, Closed, Recorded
  <2> QED  BY <2>1, <2>2, OnePlace
<1> QED  BY <1>1, RunAccounts, PTL

-----------------------------------------------------------------------------
(* The calls of a turn.                                                    *)

(***************************************************************************)
(* A call of the model's answer is open until its result is stored: it is  *)
(* in the queue, or in hand (it waits for a decision, its operation runs,  *)
(* its result is being written).  No call is in two places, and none that  *)
(* is open has a result.  A function that takes a call from one place and  *)
(* has not yet put it into the next holds it itself: such calls are the    *)
(* set X below, empty between two steps.                                   *)
(***************************************************************************)
CallOf(o) == IF o.call = None THEN {} ELSE {CallId(o.call)}
InOp(s) == IF s.op = None THEN {} ELSE CallOf(s.op)
InRequest(s) == IF s.approval = None THEN {} ELSE {CallId(s.approval.call)}
InRecord(s) ==
    IF s.pending = None THEN {}
    ELSE IF s.pending.next.k = "approval" THEN {CallId(s.pending.next.arg)}
    ELSE IF s.pending.rec.type = "tool_completed" /\ ~s.pending.committed THEN {s.pending.rec.what}
    ELSE {}
Hand(s) == InOp(s) \cup InRequest(s) \cup InRecord(s)
Queue(s) == {CallId(s.calls[n]) : n \in DOMAIN s.calls}
Open(s, X) == Hand(s) \cup Queue(s) \cup X

\* The log: who was answered, the calls of its turns, and the records that need
\* every earlier call to be answered.
ResultsOf(L) == {j \in DOMAIN L : L[j].type = "tool_completed"}
Answered(L) == {L[j].what : j \in ResultsOf(L)}
TurnsOf(L) == {i \in DOMAIN L : L[i].type = "model_completed" /\ L[i].what.k = "turn"}
CallsOf(r) == {[parent |-> r.op, index |-> x] : x \in DOMAIN r.what.calls}
Asks(r) == r.type = "model_admitted" \/ (r.type = "finished" /\ r.what = "completed")
AllAnswered(L) == \A i \in TurnsOf(L) : CallsOf(L[i]) \subseteq Answered(L)
Past(L) ==
    \A i \in TurnsOf(L), j \in DOMAIN L : i < j /\ Asks(L[j]) =>
        \A id \in CallsOf(L[i]) : \E n \in ResultsOf(L) : n < j /\ L[n].what = id

\* The run asks the model, or has its answer and not yet queued its calls.
Modelling(s) == s.op # None /\ s.op.kind = "model"
Expanding(s) == s.pending # None /\ s.pending.next.k = "turn"

Once(s, L, X) ==
    /\ \A m, n \in DOMAIN s.calls : CallId(s.calls[m]) = CallId(s.calls[n]) => m = n
    /\ Queue(s) \cap (Hand(s) \cup X) = {}
    /\ Open(s, X) \cap Answered(L) = {}
    /\ \A j, n \in ResultsOf(L) : L[j].what = L[n].what => j = n
\* No call is of a turn to come; and none was answered of the turn in hand.
Parents(s, L, X) ==
    /\ Open(s, X) \cup Answered(L) \subseteq [parent : 0 .. s.ops, index : Nat]
    /\ Modelling(s) \/ Expanding(s) => Answered(L) \subseteq [parent : 0 .. (s.ops - 1), index : Nat]
\* None is lost while the run goes on.
Served(s, L, X) ==
    ~s.stopping /\ ~s.finishing =>
        \A i \in TurnsOf(L) :
            \/ CallsOf(L[i]) \subseteq Answered(L) \cup Open(s, X)
            \/ i = Len(L) /\ Expanding(s) /\ s.pending.committed
Due(s, L) == s.pending # None /\ ~s.pending.committed /\ Asks(s.pending.rec) => AllAnswered(L)

\* A model operation has no call, and what is in hand is so alone.
Alone(s) ==
    /\ s.op # None /\ s.op.kind = "model" => s.op.call = None /\ s.calls = <<>>
    /\ Expanding(s) => s.calls = <<>> /\ s.approval = None /\ s.pending.rec.op = s.ops
    /\ s.pending # None /\ (s.pending.rec.type = "tool_completed" \/ s.pending.next.k = "approval") =>
         s.approval = None

\* A decision under way is the only one, on the request that is pending.
OneDecision(cs) == \A i, j \in DOMAIN cs : cs[i].k = "approval" /\ cs[j].k = "approval" => i = j
Deciding(s) == s.pending # None /\ s.pending.next.k = "approve"
Resolved(s) ==
    ~s.finishing =>
        /\ OneDecision(s.controls)
        /\ \A i \in DOMAIN s.controls : s.controls[i].k = "approval" =>
             /\ s.approval # None /\ s.approval.resolving /\ s.controls[i].call = s.approval.call
             /\ ~Deciding(s)
        /\ Deciding(s) => s.approval # None /\ s.approval.resolving /\ s.pending.next.arg.call = s.approval.call

Reckoned(s, L, X) == Once(s, L, X) /\ Parents(s, L, X) /\ Served(s, L, X)
Dealt(s, L, X) == Reckoned(s, L, X) /\ Due(s, L) /\ Alone(s) /\ Resolved(s)

CallsAnswered == Dealt(run, log, {}) /\ Past(log)

-----------------------------------------------------------------------------
(* What moves no call.                                                     *)

HasParts(s) ==
    /\ {"calls", "op", "ops", "approval", "pending", "stopping", "finishing", "controls"} \subseteq DOMAIN s
    /\ s.op \in Ops \cup {None}
SameOp(o, p) == IF o = None THEN p = None ELSE p # None /\ p.kind = o.kind /\ p.call = o.call

\* A record that neither is about a call nor tells of one, and asks only when
\* it may.
Plain(p, L) ==
    /\ p # None /\ ~p.committed
    /\ p.next.k \notin {"approval", "approve", "turn"} /\ p.rec.type # "tool_completed"
    /\ Asks(p.rec) => AllAnswered(L)

\* t has the calls of s where s has them.
Like(s, t, L) ==
    /\ HasParts(t) /\ t.calls = s.calls /\ t.ops = s.ops /\ t.approval = s.approval
    /\ t.controls = s.controls /\ SameOp(s.op, t.op)
    /\ s.stopping => t.stopping
    /\ s.finishing => t.finishing
    /\ t.pending = s.pending \/ Plain(t.pending, L)

LEMMA LikeTrans ==
    ASSUME NEW s, NEW t, NEW x, NEW L, Like(s, t, L), Like(t, x, L) PROVE Like(s, x, L)
BY DEF Like, SameOp

LEMMA RunParts ==
    ASSUME NEW s \in Runs, NEW L PROVE HasParts(s) /\ Like(s, s, L)
BY DEF Runs, HasParts, Like, SameOp

LEMMA LikeDealt ==
    ASSUME NEW s, NEW t, NEW L, NEW X, Dealt(s, L, X), Like(s, t, L), t.pending = s.pending \/ s.pending = None
    PROVE  Dealt(t, L, X)
<1>1. InOp(t) = InOp(s) /\ (Modelling(t) <=> Modelling(s)) /\ InRequest(t) = InRequest(s) /\ Queue(t) = Queue(s)
  BY DEF Like, SameOp, InOp, CallOf, Modelling, InRequest, Queue
<1>2. CASE t.pending = s.pending
  <2>1. InRecord(t) = InRecord(s) /\ Expanding(t) = Expanding(s) /\ Deciding(t) = Deciding(s)
    BY <1>2 DEF InRecord, Expanding, Deciding
  <2>2. Open(t, X) = Open(s, X) /\ Hand(t) = Hand(s)
    BY <1>1, <2>1 DEF Open, Hand
  <2>3. Once(t, L, X) /\ Parents(t, L, X) /\ Served(t, L, X)
    BY <1>1, <1>2, <2>1, <2>2 DEF Dealt, Reckoned, Once, Parents, Served, Like
  <2>4. Due(t, L) /\ Resolved(t)
    BY <1>2, <2>1 DEF Dealt, Due, Resolved, Like
  <2>5. Alone(t)
    BY <1>2, <2>1 DEF Dealt, Alone, Like, SameOp
  <2> QED  BY <2>3, <2>4, <2>5 DEF Dealt, Reckoned
<1>3. CASE s.pending = None /\ Plain(t.pending, L)
  <2>1. InRecord(t) = {} /\ InRecord(s) = {} /\ ~Expanding(t) /\ ~Expanding(s) /\ ~Deciding(t) /\ ~Deciding(s)
    BY <1>3 DEF InRecord, Expanding, Deciding, Plain
  <2>2. Open(t, X) = Open(s, X) /\ Hand(t) = Hand(s)
    BY <1>1, <2>1 DEF Open, Hand
  <2>3. Once(t, L, X) /\ Parents(t, L, X) /\ Served(t, L, X)
    BY <1>1, <2>1, <2>2 DEF Dealt, Reckoned, Once, Parents, Served, Like
  <2>4. Due(t, L) /\ Resolved(t)
    BY <1>3, <2>1 DEF Dealt, Due, Resolved, Like, Plain
  <2>5. Alone(t)
    BY <1>3, <2>1 DEF Dealt, Alone, Like, SameOp, Plain
  <2> QED  BY <2>3, <2>4, <2>5 DEF Dealt, Reckoned
<1> QED  BY <1>2, <1>3 DEF Like

LEMMA PublishLike ==
    ASSUME NEW s, HasParts(s), NEW L, NEW type, NEW op, NEW what, NEW k, NEW arg,
           k \notin {"approval", "approve", "turn"}, type # "tool_completed",
           type = "model_admitted" \/ (type = "finished" /\ what = "completed") => AllAnswered(L)
    PROVE  Like(s, Publish(s, type, op, what, Then(k, arg)), L)
<1> DEFINE r == [seq |-> s.seq + 1, type |-> type, op |-> op, what |-> what]
           p == [k |-> "append", committed |-> FALSE, next |-> Then(k, arg), rec |-> r]
           t == [s EXCEPT !.pending = p]
<1>1. Plain(p, L)
  <2>1. p # None
    BY DEF None
  <2>2. p.next.k = k /\ p.rec = r /\ ~p.committed /\ r.type = type /\ r.what = what
    BY DEF Then
  <2> HIDE DEF p, r
  <2> QED  BY <2>1, <2>2 DEF Plain, Asks
<1>2. Publish(s, type, op, what, Then(k, arg)) = t
  BY DEF Publish
<1> HIDE DEF p
<1>3. Like(s, t, L)
  BY <1>1 DEF Like, HasParts, SameOp
<1> QED  BY <1>2, <1>3

\* The operation changes, but neither its kind nor its call.
LEMMA OpLike ==
    ASSUME NEW s, HasParts(s), s.op # None, NEW L, NEW q \in Ops, q.kind = s.op.kind, q.call = s.op.call
    PROVE  Like(s, [s EXCEPT !.op = q], L)
<1>1. q # None
  BY NoneApart
<1> HIDE DEF Ops
<1> QED  BY <1>1 DEF Like, HasParts, SameOp

\* The functions that write, or work on the operation, and touch no call.
LEMMA WritersLike ==
    ASSUME NEW s, HasParts(s), NEW L
    PROVE  /\ Like(s, Hold(s), L) /\ Like(s, Settle(s), L) /\ Like(s, CancelOperation(s), L)
           /\ s.op # None => Like(s, Release(s), L)
           /\ \A status : (status = "completed" => AllAnswered(L)) => Like(s, Finish(s, status), L)
<1>0. Like(s, s, L)
  BY DEF Like, HasParts, SameOp
<1>1. Like(s, Hold(s), L)
  BY <1>0, PublishLike DEF Hold
<1>2. Like(s, Settle(s), L)
  BY PublishLike DEF Settle
<1>3. Like(s, CancelOperation(s), L)
  <2>1. CASE s.op = None \/ ~s.op.task
    BY <1>0, <2>1 DEF CancelOperation
  <2>2. CASE s.op # None /\ s.op.task
    <3> DEFINE m == IF s.op.kind = "tool" /\ s.op.call.kind = "command" THEN "cancel" ELSE "kill"
               q == [s.op EXCEPT !.sent = @ \cup {m}]
    <3>1. s.op \in Ops
      BY <2>2 DEF HasParts
    <3>2. m \in {"cancel", "kill"}
      OBVIOUS
    <3>3. CancelOperation(s) = [s EXCEPT !.op = q]
      BY <2>2, <3>1 DEF CancelOperation, HasParts, Ops
    <3> HIDE DEF m
    <3>4. q \in Ops /\ q.kind = s.op.kind /\ q.call = s.op.call
      <4> HIDE DEF Calls, Answers
      <4> QED  BY <3>1, <3>2 DEF Ops
    <3> HIDE DEF q
    <3> QED  BY <2>2, <3>3, <3>4, OpLike
  <2> QED  BY <2>1, <2>2
<1>4. s.op # None => Like(s, Release(s), L)
  <2> SUFFICES ASSUME s.op # None PROVE Like(s, Release(s), L)
    OBVIOUS
  <2> DEFINE q == [s.op EXCEPT !.effect = "none", !.timer = TRUE, !.sent = @ \cup {"run"}]
  <2>1. s.op \in Ops
    BY DEF HasParts
  <2>2. Release(s) = [s EXCEPT !.op = q]
    BY <2>1 DEF Release, HasParts, Ops
  <2>3. q \in Ops /\ q.kind = s.op.kind /\ q.call = s.op.call
    <3> HIDE DEF Calls, Answers
    <3> QED  BY <2>1 DEF Ops
  <2> HIDE DEF q
  <2> QED  BY <2>2, <2>3, OpLike
<1>5. ASSUME NEW status, status = "completed" => AllAnswered(L) PROVE Like(s, Finish(s, status), L)
  <2> DEFINE t == [s EXCEPT !.finishing = TRUE]
             final == IF s.timedOut THEN "failed" ELSE status
  <2>1. HasParts(t) /\ Like(s, t, L)
    BY DEF Like, HasParts, SameOp
  <2> HIDE DEF t
  <2>2. final = "completed" => AllAnswered(L)
    BY <1>5
  <2>3. Finish(s, status) = Publish(t, "finished", 0, final, Then("finish", final))
    BY DEF Finish, t
  <2> HIDE DEF final
  <2>4. Like(t, Publish(t, "finished", 0, final, Then("finish", final)), L)
    BY <2>1, <2>2, PublishLike
  <2> QED  BY <2>1, <2>3, <2>4, LikeTrans
<1>6. \A status : (status = "completed" => AllAnswered(L)) => Like(s, Finish(s, status), L)
  BY <1>5
<1> QED  BY <1>1, <1>2, <1>3, <1>4, <1>6

-----------------------------------------------------------------------------
(* What moves a call.                                                      *)

\* The calls that are open in t were open in s, whoever has them.
LEMMA Moved ==
    ASSUME NEW s, NEW t, NEW L, NEW X, NEW Y, Reckoned(s, L, X),
           s.ops \in Nat, t.ops \in Nat, s.ops <= t.ops,
           Open(t, Y) \subseteq Open(s, X),
           \A m, n \in DOMAIN t.calls : CallId(t.calls[m]) = CallId(t.calls[n]) => m = n,
           Queue(t) \cap (Hand(t) \cup Y) = {},
           Modelling(t) \/ Expanding(t) => Modelling(s) \/ s.ops < t.ops,
           ~t.stopping /\ ~t.finishing =>
               ~s.stopping /\ ~s.finishing /\ ~Expanding(s) /\ Open(t, Y) = Open(s, X)
    PROVE  Reckoned(t, L, Y)
<1>1. Once(t, L, Y)
  BY DEF Reckoned, Once
<1>2. Parents(t, L, Y)
  <2>1. Open(t, Y) \cup Answered(L) \subseteq [parent : 0 .. s.ops, index : Nat]
    BY DEF Reckoned, Parents
  <2>2. [parent : 0 .. s.ops, index : Nat] \subseteq [parent : 0 .. t.ops, index : Nat]
    <3>1. 0 .. s.ops \subseteq 0 .. t.ops
      OBVIOUS
    <3> QED  BY <3>1
  <2>3. Modelling(t) \/ Expanding(t) => Answered(L) \subseteq [parent : 0 .. (t.ops - 1), index : Nat]
    <3>1. CASE s.ops < t.ops
      <4>1. 0 .. s.ops \subseteq 0 .. (t.ops - 1)
        BY <3>1
      <4>2. [parent : 0 .. s.ops, index : Nat] \subseteq [parent : 0 .. (t.ops - 1), index : Nat]
        BY <4>1
      <4> QED  BY <2>1, <4>2
    <3>2. CASE Modelling(s)
      <4>1. Answered(L) \subseteq [parent : 0 .. (s.ops - 1), index : Nat]
        BY <3>2 DEF Reckoned, Parents
      <4>2. 0 .. (s.ops - 1) \subseteq 0 .. (t.ops - 1)
        OBVIOUS
      <4>3. [parent : 0 .. (s.ops - 1), index : Nat] \subseteq [parent : 0 .. (t.ops - 1), index : Nat]
        BY <4>2
      <4> QED  BY <4>1, <4>3
    <3> QED  BY <3>1, <3>2
  <2> QED  BY <2>1, <2>2, <2>3 DEF Parents
<1>3. Served(t, L, Y)
  BY DEF Reckoned, Served
<1> QED  BY <1>1, <1>2, <1>3 DEF Reckoned

\* With nothing open every call of the turns is answered.
LEMMA NoneOpen ==
    ASSUME NEW s, NEW L, Dealt(s, L, {}), ~s.stopping, ~s.finishing, s.pending = None,
           s.op = None, s.approval = None, s.calls = <<>>
    PROVE  AllAnswered(L)
<1>1. Open(s, {}) = {} /\ ~Expanding(s)
  BY DEF Open, Hand, InOp, InRequest, InRecord, Queue, Expanding
<1> QED  BY <1>1 DEF Dealt, Reckoned, Served, AllAnswered

\* The result of a call that the function holds is on its way.
LEMMA ToolResultDealt ==
    ASSUME NEW s, HasParts(s), NEW L, NEW c, Dealt(s, L, {CallId(c)}), s.ops \in Nat,
           s.pending = None, s.op = None, s.approval = None, NEW o
    PROVE  Dealt(ToolResult(s, o, c), L, {})
<1> DEFINE id == CallId(c)
           r == [seq |-> s.seq + 1, type |-> "tool_completed", op |-> o, what |-> id]
           p == [k |-> "append", committed |-> FALSE, next |-> Then("advance", None), rec |-> r]
           t == [s EXCEPT !.pending = p]
<1>1. ToolResult(s, o, c) = t
  BY DEF ToolResult, Publish
<1>2. p # None /\ p.next.k = "advance" /\ ~p.committed /\ p.rec.type = "tool_completed" /\ p.rec.what = id
  BY DEF Then, None
<1> HIDE DEF p, id
<1>3. /\ t.calls = s.calls /\ t.op = None /\ t.ops = s.ops /\ t.approval = None /\ t.pending = p
      /\ t.controls = s.controls /\ t.stopping = s.stopping /\ t.finishing = s.finishing
  BY DEF HasParts
<1> HIDE DEF t
<1>4. /\ InOp(t) = {} /\ InRequest(t) = {} /\ InRecord(t) = {id} /\ Queue(t) = Queue(s)
      /\ InOp(s) = {} /\ InRequest(s) = {} /\ InRecord(s) = {}
      /\ ~Modelling(t) /\ ~Expanding(t) /\ ~Expanding(s) /\ ~Deciding(t)
  BY <1>2, <1>3 DEF InOp, InRequest, InRecord, Queue, Modelling, Expanding, Deciding
<1>5. Open(t, {}) = Open(s, {id}) /\ Hand(t) = {id} /\ Hand(s) = {}
  BY <1>4 DEF Open, Hand
<1>6. Reckoned(t, L, {})
  <2>1. Reckoned(s, L, {id}) /\ Queue(t) \cap (Hand(t) \cup {}) = {}
    BY <1>4, <1>5 DEF Dealt, Reckoned, Once, id
  <2>2. \A m, n \in DOMAIN t.calls : CallId(t.calls[m]) = CallId(t.calls[n]) => m = n
    BY <1>3, <2>1 DEF Reckoned, Once
  <2> QED  BY <1>3, <1>4, <1>5, <2>1, <2>2, Moved
<1>7. Due(t, L) /\ Alone(t)
  BY <1>2, <1>3, <1>4 DEF Due, Asks, Alone
<1>8. Resolved(t)
  BY <1>3, <1>4 DEF Dealt, Resolved
<1> QED  BY <1>1, <1>6, <1>7, <1>8 DEF Dealt

\* The function takes the next call from the queue.
LEMMA HeadDealt ==
    ASSUME NEW s, HasParts(s), NEW L, Dealt(s, L, {}), s.ops \in Nat, s.calls \in Seq(Calls), s.calls # <<>>,
           s.pending = None, s.op = None
    PROVE  LET t == [s EXCEPT !.calls = Tail(@)]
           IN  HasParts(t) /\ Dealt(t, L, {CallId(Head(s.calls))})
<1> DEFINE cs == Tail(s.calls)
           c == Head(s.calls)
           t == [s EXCEPT !.calls = cs]
<1>1. /\ t.calls = cs /\ t.op = None /\ t.ops = s.ops /\ t.approval = s.approval /\ t.pending = None
      /\ t.controls = s.controls /\ t.stopping = s.stopping /\ t.finishing = s.finishing
      /\ HasParts(t)
  BY DEF HasParts
<1>2. /\ c = s.calls[1] /\ 1 \in DOMAIN s.calls
      /\ DOMAIN cs = 1 .. (Len(s.calls) - 1) /\ DOMAIN s.calls = 1 .. Len(s.calls) /\ Len(s.calls) \in Nat
      /\ \A i \in DOMAIN cs : i + 1 \in DOMAIN s.calls /\ cs[i] = s.calls[i + 1]
  <2> HIDE DEF Calls
  <2> QED  OBVIOUS
<1> HIDE DEF t, cs, c
<1>3. Once(s, L, {})
  BY DEF Dealt, Reckoned
<1>4. \A m, n \in DOMAIN cs : CallId(cs[m]) = CallId(cs[n]) => m = n
  <2> SUFFICES ASSUME NEW m \in DOMAIN cs, NEW n \in DOMAIN cs, CallId(cs[m]) = CallId(cs[n]) PROVE m = n
    OBVIOUS
  <2>1. m + 1 = n + 1
    BY <1>2, <1>3 DEF Once
  <2> QED  BY <1>2, <2>1
<1>5. CallId(c) \notin Queue(t)
  <2> SUFFICES ASSUME NEW n \in DOMAIN cs, CallId(cs[n]) = CallId(c) PROVE FALSE
    BY <1>1 DEF Queue
  <2>1. n + 1 = 1
    BY <1>2, <1>3 DEF Once
  <2> QED  BY <1>2, <2>1
<1>6. Queue(s) = Queue(t) \cup {CallId(c)}
  <2>1. Queue(t) \cup {CallId(c)} \subseteq Queue(s)
    BY <1>1, <1>2 DEF Queue
  <2>2. ASSUME NEW n \in DOMAIN s.calls PROVE CallId(s.calls[n]) \in Queue(t) \cup {CallId(c)}
    <3>1. CASE n = 1
      BY <1>2, <3>1
    <3>2. CASE n # 1
      <4>1. n - 1 \in DOMAIN cs /\ (n - 1) + 1 = n
        BY <1>2, <3>2
      <4> QED  BY <1>1, <1>2, <4>1 DEF Queue
    <3> QED  BY <3>1, <3>2
  <2> QED  BY <2>1, <2>2 DEF Queue
<1>7. /\ Hand(t) = Hand(s) /\ ~Modelling(t) /\ ~Expanding(t) /\ ~Expanding(s) /\ ~Deciding(t) /\ ~Deciding(s)
  BY <1>1 DEF Hand, InOp, InRequest, InRecord, Modelling, Expanding, Deciding
<1>8. Open(t, {CallId(c)}) = Open(s, {})
  BY <1>6, <1>7 DEF Open
<1>9. Queue(t) \cap (Hand(t) \cup {CallId(c)}) = {}
  BY <1>3, <1>5, <1>6, <1>7 DEF Once
<1>10. Reckoned(t, L, {CallId(c)})
  BY <1>1, <1>4, <1>7, <1>8, <1>9, Moved DEF Dealt
<1>11. Due(t, L) /\ Alone(t) /\ Resolved(t)
  BY <1>1, <1>7 DEF Dealt, Due, Alone, Resolved
<1> QED  BY <1>1, <1>10, <1>11 DEF Dealt, t, cs, c

\* An operation that works on the call is admitted.
LEMMA LaunchToolDealt ==
    ASSUME NEW s, HasParts(s), NEW L, NEW c \in Calls, Dealt(s, L, {CallId(c)}), s.ops \in Nat,
           s.pending = None, s.op = None, s.approval = None
    PROVE  Dealt(LaunchTool(s, c), L, {})
<1> DEFINE id == CallId(c)
           q == NewOp(s.ops + 1, "tool", c, <<>>)
           t == [s EXCEPT !.ops = @ + 1, !.op = q]
<1>1. q \in Ops /\ q.kind = "tool" /\ q.call = c /\ c # None
  <2>1. c # None
    BY CallTypes
  <2> HIDE DEF Calls, Answers
  <2> QED  BY <2>1 DEF NewOp, Ops, Downs
<1>2. q # None
  BY <1>1, NoneApart
<1>3. LaunchTool(s, c) = Publish(t, "tool_admitted", s.ops + 1, id, Then("effect", "start"))
  BY DEF LaunchTool
<1> HIDE DEF q, Ops, Calls, id
<1>4. /\ t.calls = s.calls /\ t.op = q /\ t.ops = s.ops + 1 /\ t.approval = None /\ t.pending = None
      /\ t.controls = s.controls /\ t.stopping = s.stopping /\ t.finishing = s.finishing /\ HasParts(t)
  BY <1>1 DEF HasParts
<1> HIDE DEF t
<1>5. /\ InOp(t) = {id} /\ InRequest(t) = {} /\ InRecord(t) = {} /\ Queue(t) = Queue(s)
      /\ InOp(s) = {} /\ InRequest(s) = {} /\ InRecord(s) = {}
      /\ ~Modelling(t) /\ ~Expanding(t) /\ ~Expanding(s) /\ ~Deciding(t) /\ ~Deciding(s)
  BY <1>1, <1>2, <1>4 DEF InOp, CallOf, InRequest, InRecord, Queue, Modelling, Expanding, Deciding, id
<1>6. Open(t, {}) = Open(s, {id}) /\ Hand(t) = {id} /\ Hand(s) = {}
  BY <1>5 DEF Open, Hand
<1>7. Reckoned(t, L, {})
  <2>1. Reckoned(s, L, {id}) /\ Queue(t) \cap (Hand(t) \cup {}) = {}
    BY <1>5, <1>6 DEF Dealt, Reckoned, Once, id
  <2>2. \A m, n \in DOMAIN t.calls : CallId(t.calls[m]) = CallId(t.calls[n]) => m = n
    BY <1>4, <2>1 DEF Reckoned, Once
  <2>3. t.ops \in Nat /\ s.ops <= t.ops
    BY <1>4
  <2> QED  BY <1>4, <1>5, <1>6, <2>1, <2>2, <2>3, Moved
<1>8. Due(t, L) /\ Alone(t)
  BY <1>1, <1>4, <1>5 DEF Due, Alone
<1>9. Resolved(t)
  BY <1>4, <1>5 DEF Dealt, Resolved
<1>10. Dealt(t, L, {})
  BY <1>7, <1>8, <1>9 DEF Dealt
<1>11. Like(t, Publish(t, "tool_admitted", s.ops + 1, id, Then("effect", "start")), L)
  BY <1>4, PublishLike
<1> QED  BY <1>3, <1>4, <1>10, <1>11, LikeDealt

\* The model is asked: every call of the turns before was answered.
LEMMA LaunchModelDealt ==
    ASSUME NEW s \in Runs, NEW L, Dealt(s, L, {}), ~s.stopping, ~s.finishing,
           s.pending = None, s.op = None, s.approval = None, s.calls = <<>>
    PROVE  Dealt(LaunchModel(s), L, {})
<1> DEFINE q == NewOp(s.ops + 1, "model", None, s.steer)
           t == [s EXCEPT !.ops = @ + 1, !.op = q]
<1>0. s.ops \in Nat /\ s.steer \in Seq(Nat) /\ HasParts(s)
  BY RunParts DEF Runs
<1>1. q \in Ops /\ q.kind = "model" /\ q.call = None
  <2> HIDE DEF Calls, Answers
  <2> QED  BY <1>0 DEF NewOp, Ops, Downs
<1>2. q # None /\ AllAnswered(L)
  BY <1>1, NoneApart, NoneOpen
<1>3. LaunchModel(s) = Publish(t, "model_admitted", s.ops + 1, s.steer, Then("effect", "start"))
  BY DEF LaunchModel
<1> HIDE DEF q, Ops
<1>4. /\ t.calls = s.calls /\ t.op = q /\ t.ops = s.ops + 1 /\ t.approval = None /\ t.pending = None
      /\ t.controls = s.controls /\ t.stopping = s.stopping /\ t.finishing = s.finishing /\ HasParts(t)
  BY <1>0, <1>1 DEF HasParts
<1> HIDE DEF t
<1>5. /\ InOp(t) = {} /\ InRequest(t) = {} /\ InRecord(t) = {} /\ Queue(t) = {} /\ Queue(s) = {}
      /\ InOp(s) = {} /\ InRequest(s) = {} /\ InRecord(s) = {}
      /\ ~Expanding(t) /\ ~Expanding(s) /\ ~Deciding(t) /\ ~Deciding(s)
  BY <1>1, <1>2, <1>4 DEF InOp, CallOf, InRequest, InRecord, Queue, Expanding, Deciding
<1>6. Open(t, {}) = {} /\ Open(s, {}) = {}
  BY <1>5 DEF Open, Hand
<1>7. Reckoned(t, L, {})
  <2>1. Reckoned(s, L, {}) /\ Queue(t) \cap (Hand(t) \cup {}) = {}
    BY <1>5 DEF Dealt
  <2>2. \A m, n \in DOMAIN t.calls : CallId(t.calls[m]) = CallId(t.calls[n]) => m = n
    BY <1>4, <2>1 DEF Reckoned, Once
  <2>3. t.ops \in Nat /\ s.ops < t.ops /\ s.ops <= t.ops
    BY <1>0, <1>4
  <2> QED  BY <1>0, <1>4, <1>5, <1>6, <2>1, <2>2, <2>3, Moved
<1>8. Due(t, L) /\ Alone(t)
  BY <1>1, <1>4, <1>5 DEF Due, Alone
<1>9. Resolved(t)
  BY <1>4, <1>5 DEF Dealt, Resolved
<1>10. Dealt(t, L, {})
  BY <1>7, <1>8, <1>9 DEF Dealt
<1>11. Like(t, Publish(t, "model_admitted", s.ops + 1, s.steer, Then("effect", "start")), L)
  BY <1>2, <1>4, PublishLike
<1> QED  BY <1>3, <1>4, <1>10, <1>11, LikeDealt

\* A person is asked about the call.
LEMMA RequestDealt ==
    ASSUME NEW s, HasParts(s), NEW L, NEW c, Dealt(s, L, {CallId(c)}), s.ops \in Nat,
           s.pending = None, s.op = None, s.approval = None
    PROVE  Dealt(Publish(s, "approval_required", 0, CallId(c), Then("approval", c)), L, {})
<1> DEFINE id == CallId(c)
           r == [seq |-> s.seq + 1, type |-> "approval_required", op |-> 0, what |-> id]
           p == [k |-> "append", committed |-> FALSE, next |-> Then("approval", c), rec |-> r]
           t == [s EXCEPT !.pending = p]
<1>1. Publish(s, "approval_required", 0, id, Then("approval", c)) = t
  BY DEF Publish
<1>2. p # None /\ p.next.k = "approval" /\ p.next.arg = c /\ ~p.committed /\ p.rec.type = "approval_required"
  BY DEF Then, None
<1> HIDE DEF p
<1>3. /\ t.calls = s.calls /\ t.op = None /\ t.ops = s.ops /\ t.approval = None /\ t.pending = p
      /\ t.controls = s.controls /\ t.stopping = s.stopping /\ t.finishing = s.finishing
  BY DEF HasParts
<1>4. /\ InOp(t) = {} /\ InRequest(t) = {} /\ InRecord(t) = {id} /\ Queue(t) = Queue(s)
      /\ InOp(s) = {} /\ InRequest(s) = {} /\ InRecord(s) = {}
      /\ ~Modelling(t) /\ ~Expanding(t) /\ ~Expanding(s) /\ ~Deciding(t)
  BY <1>2, <1>3 DEF InOp, InRequest, InRecord, Queue, Modelling, Expanding, Deciding
<1> HIDE DEF t, id
<1>5. Open(t, {}) = Open(s, {id}) /\ Hand(t) = {id} /\ Hand(s) = {}
  BY <1>4 DEF Open, Hand
<1>6. Reckoned(t, L, {})
  <2>1. Reckoned(s, L, {id}) /\ Queue(t) \cap (Hand(t) \cup {}) = {}
    BY <1>4, <1>5 DEF Dealt, Reckoned, Once, id
  <2>2. \A m, n \in DOMAIN t.calls : CallId(t.calls[m]) = CallId(t.calls[n]) => m = n
    BY <1>3, <2>1 DEF Reckoned, Once
  <2> QED  BY <1>3, <1>4, <1>5, <2>1, <2>2, Moved
<1>7. Due(t, L) /\ Alone(t)
  BY <1>2, <1>3, <1>4 DEF Due, Asks, Alone
<1>8. Resolved(t)
  BY <1>3, <1>4 DEF Dealt, Resolved
<1>9. Dealt(t, L, {})
  BY <1>6, <1>7, <1>8 DEF Dealt
<1> QED  BY <1>1, <1>9 DEF id

-----------------------------------------------------------------------------
(* advance/1 and drive/1.                                                  *)

LEMMA StartTaskLike ==
    ASSUME NEW s, HasParts(s), s.op # None, NEW spawned \in BOOLEAN, NEW L PROVE Like(s, StartTask(s, spawned), L)
<1> DEFINE m == [s EXCEPT !.steps = @ + 1, !.status = "running",
                          !.steer = SubSeq(@, Len(s.op.steers) + 1, Len(@))]
           t == IF s.op.kind = "tool" THEN s ELSE m
           started == IF s.op.kind = "tool" THEN "tool_started" ELSE "model_started"
           p == [s.op EXCEPT !.effect = "none", !.task = TRUE]
           q == [s.op EXCEPT !.effect = "none", !.down = "launch_failed"]
           u == [t EXCEPT !.op.effect = "none", !.op.task = TRUE]
           v == [t EXCEPT !.op.effect = "none", !.op.down = "launch_failed"]
<1>1. StartTask(s, spawned) = IF spawned THEN Publish(u, started, s.op.id, None, Then("effect", "release"))
                              ELSE Settle(v)
  BY DEF StartTask
<1>2. Like(s, m, L) /\ Like(s, s, L) /\ m.op = s.op
  BY DEF Like, HasParts, SameOp
<1> HIDE DEF m
<1>3. Like(s, t, L) /\ t.op = s.op /\ HasParts(t)
  BY <1>2 DEF Like
<1> HIDE DEF t
<1>4. /\ p \in Ops /\ p.kind = s.op.kind /\ p.call = s.op.call
      /\ q \in Ops /\ q.kind = s.op.kind /\ q.call = s.op.call
  <2>1. s.op \in Ops
    BY DEF HasParts
  <2> HIDE DEF Calls, Answers
  <2> QED  BY <2>1 DEF Ops, Downs
<1>5. u = [t EXCEPT !.op = p] /\ v = [t EXCEPT !.op = q]
  BY <1>3 DEF HasParts, Ops
<1> HIDE DEF u, v, p, q
<1>6. Like(t, u, L) /\ Like(t, v, L)
  BY <1>3, <1>4, <1>5, OpLike
<1>7. started \notin {"tool_completed", "model_admitted", "finished"}
  OBVIOUS
<1> HIDE DEF started
<1>8. Like(u, Publish(u, started, s.op.id, None, Then("effect", "release")), L)
  BY <1>6, <1>7, PublishLike DEF Like
<1>9. Like(v, Settle(v), L)
  BY <1>6, WritersLike DEF Like
<1>10. Like(s, u, L) /\ Like(s, v, L)
  BY <1>3, <1>6, LikeTrans
<1> QED  BY <1>1, <1>8, <1>9, <1>10, LikeTrans

LEMMA EffectLike ==
    ASSUME NEW s, HasParts(s), s.op # None, NEW spawned \in BOOLEAN, NEW L PROVE Like(s, Effect(s, spawned), L)
<1> DEFINE q == [s.op EXCEPT !.effect = "none", !.down = "not_started"]
           v == [s EXCEPT !.op.effect = "none", !.op.down = "not_started"]
<1>1. q \in Ops /\ q.kind = s.op.kind /\ q.call = s.op.call
  <2>1. s.op \in Ops
    BY DEF HasParts
  <2> HIDE DEF Calls, Answers
  <2> QED  BY <2>1 DEF Ops, Downs
<1>2. v = [s EXCEPT !.op = q]
  BY DEF HasParts, Ops
<1> HIDE DEF v, q
<1>3. Like(s, v, L)
  BY <1>1, <1>2, OpLike
<1>4. Like(v, Settle(v), L)
  BY <1>3, WritersLike DEF Like
<1>5. Like(s, Settle(v), L)
  BY <1>3, <1>4, LikeTrans
<1>6. Like(s, RunEffect(s, spawned), L)
  BY StartTaskLike, WritersLike DEF RunEffect
<1> QED  BY <1>5, <1>6, WritersLike DEF Effect, v

LEMMA AdmitToolDealt ==
    ASSUME NEW s \in Runs, NEW L, Dealt(s, L, {}), s.pending = None, s.op = None, s.approval = None, s.calls # <<>>
    PROVE  Dealt(AdmitTool(s), L, {})
<1> DEFINE c == Head(s.calls)
           t == [s EXCEPT !.calls = Tail(@)]
<1>1. HasParts(s) /\ s.ops \in Nat /\ s.calls \in Seq(Calls)
  BY RunParts DEF Runs
<1>2. c \in Calls
  BY <1>1, FirstCall
<1>3. LET x == [s EXCEPT !.calls = Tail(@)] IN HasParts(x) /\ Dealt(x, L, {CallId(Head(s.calls))})
  <2> HIDE DEF Calls
  <2> QED  BY <1>1, HeadDealt, Zenon
<1>4. HasParts(t) /\ Dealt(t, L, {CallId(c)})
  BY <1>3
<1>5. t.ops \in Nat /\ t.pending = None /\ t.op = None /\ t.approval = None
  BY <1>1 DEF HasParts
<1>6. AdmitTool(s) \in {ToolResult(t, 0, c), LaunchTool(t, c),
                        Publish(t, "approval_required", 0, CallId(c), Then("approval", c))}
  BY DEF AdmitTool
<1> HIDE DEF t, c, Calls
<1>7. Dealt(ToolResult(t, 0, c), L, {})
  BY <1>4, <1>5, ToolResultDealt
<1>8. Dealt(LaunchTool(t, c), L, {})
  BY <1>2, <1>4, <1>5, LaunchToolDealt
<1>9. Dealt(Publish(t, "approval_required", 0, CallId(c), Then("approval", c)), L, {})
  BY <1>4, <1>5, RequestDealt
<1> QED  BY <1>6, <1>7, <1>8, <1>9

LEMMA AdvanceDealt ==
    ASSUME NEW s \in Runs, NEW L, Dealt(s, L, {}), s.pending = None, NEW spawned \in BOOLEAN
    PROVE  Dealt(Advance(s, spawned), L, {})
<1>1. HasParts(s) /\ Like(s, s, L)
  BY RunParts
<1>2. ASSUME NEW x, Like(s, x, L) PROVE Dealt(x, L, {})
  BY <1>2, LikeDealt
<1>3. CASE s.status \in Terminal \/ s.finishing
  BY <1>3 DEF Advance
<1>4. CASE ~(s.status \in Terminal \/ s.finishing) /\ s.op # None
  <2>1. Advance(s, spawned) \in {Settle(s), Effect(s, spawned), s}
    BY <1>4 DEF Advance
  <2> QED  BY <1>1, <1>2, <1>4, <2>1, WritersLike, EffectLike
<1>5. CASE ~(s.status \in Terminal \/ s.finishing) /\ s.op = None
  <2>1. CASE s.stopping
    <3>1. Advance(s, spawned) = Finish(s, "cancelled")
      BY <1>5, <2>1 DEF Advance
    <3> QED  BY <1>1, <1>2, <3>1, WritersLike
  <2>2. CASE ~s.stopping /\ s.paused
    <3>1. Advance(s, spawned) = Hold(s)
      BY <1>5, <2>2 DEF Advance
    <3> QED  BY <1>1, <1>2, <3>1, WritersLike
  <2>3. CASE ~s.stopping /\ ~s.paused /\ s.approval # None
    <3>1. Advance(s, spawned) = s
      BY <1>5, <2>3 DEF Advance
    <3> QED  BY <3>1
  <2>4. CASE ~s.stopping /\ ~s.paused /\ s.approval = None /\ s.calls # <<>>
    <3>1. Advance(s, spawned) = AdmitTool(s)
      BY <1>5, <2>4 DEF Advance
    <3> QED  BY <1>5, <2>4, <3>1, AdmitToolDealt
  <2>5. CASE ~s.stopping /\ ~s.paused /\ s.approval = None /\ s.calls = <<>>
    <3>1. Advance(s, spawned) \in {Finish(s, "failed"), LaunchModel(s)}
      BY <1>5, <2>5 DEF Advance, NextTurn
    <3>2. Dealt(LaunchModel(s), L, {})
      BY <1>5, <2>5, LaunchModelDealt
    <3>3. Dealt(Finish(s, "failed"), L, {})
      BY <1>1, <1>2, WritersLike
    <3> QED  BY <3>1, <3>2, <3>3
  <2> QED  BY <2>1, <2>2, <2>3, <2>4, <2>5
<1> QED  BY <1>3, <1>4, <1>5

\* Controls leave the queue at its head, and come to its ends.
LEMMA OneBehind ==
    ASSUME NEW cs \in Seq(Controls), OneDecision(cs), NEW n \in Nat, n + 1 \in DOMAIN cs
    PROVE  LET ds == SubSeq(cs, n + 2, Len(cs))
           IN  /\ OneDecision(ds)
               /\ \A i \in DOMAIN ds : \E j \in DOMAIN cs : ds[i] = cs[j]
               /\ cs[n + 1].k = "approval" => \A i \in DOMAIN ds : ds[i].k # "approval"
<1> DEFINE ds == SubSeq(cs, n + 2, Len(cs))
<1> HIDE DEF Controls
<1>1. \A i \in DOMAIN ds : i \in Nat /\ i > 0 /\ n + 1 + i \in DOMAIN cs /\ ds[i] = cs[n + 1 + i]
  OBVIOUS
<1> HIDE DEF ds
<1>2. OneDecision(ds)
  <2> SUFFICES ASSUME NEW i \in DOMAIN ds, NEW j \in DOMAIN ds, ds[i].k = "approval", ds[j].k = "approval"
               PROVE  i = j
    BY DEF OneDecision
  <2>1. n + 1 + i = n + 1 + j
    BY <1>1 DEF OneDecision
  <2> QED  BY <1>1, <2>1
<1>3. ASSUME cs[n + 1].k = "approval", NEW i \in DOMAIN ds, ds[i].k = "approval" PROVE FALSE
  <2>1. n + 1 = n + 1 + i
    BY <1>1, <1>3 DEF OneDecision
  <2> QED  BY <1>1, <2>1
<1> QED  BY <1>1, <1>2, <1>3 DEF ds

\* A control at either end of the queue.
Joined(cs, c, ds) == ds = Append(cs, c) \/ ds = <<c>> \o cs

LEMMA OneMore ==
    ASSUME NEW cs \in Seq(Controls), OneDecision(cs), NEW c \in Controls,
           c.k = "approval" => \A i \in DOMAIN cs : cs[i].k # "approval",
           NEW ds, Joined(cs, c, ds)
    PROVE  OneDecision(ds) /\ \A i \in DOMAIN ds : ds[i] = c \/ \E j \in DOMAIN cs : ds[i] = cs[j]
<1> HIDE DEF Controls
<1> USE DEF Joined
<1>1. Len(cs) \in Nat /\ DOMAIN cs = 1 .. Len(cs)
  OBVIOUS
<1>2. PICK at \in {1, Len(cs) + 1}, by \in {0, 1} :
        /\ DOMAIN ds = 1 .. (Len(cs) + 1) /\ ds[at] = c
        /\ \A i \in DOMAIN ds : i # at => i - by \in DOMAIN cs /\ ds[i] = cs[i - by]
  <2>1. CASE ds = Append(cs, c)
    <3>1. DOMAIN ds = 1 .. (Len(cs) + 1) /\ ds[Len(cs) + 1] = c
      BY <2>1
    <3>2. \A i \in DOMAIN ds : i # Len(cs) + 1 => i - 0 \in DOMAIN cs /\ ds[i] = cs[i - 0]
      BY <1>1, <2>1, <3>1
    <3> QED  BY <3>1, <3>2
  <2>2. CASE ds = <<c>> \o cs
    <3>1. DOMAIN ds = 1 .. (Len(cs) + 1) /\ ds[1] = c
      BY <2>2
    <3>2. \A i \in DOMAIN ds : i # 1 => i - 1 \in DOMAIN cs /\ ds[i] = cs[i - 1]
      BY <1>1, <2>2, <3>1
    <3> QED  BY <3>1, <3>2
  <2> QED  BY <2>1, <2>2
<1>3. OneDecision(ds)
  <2> SUFFICES ASSUME NEW i \in DOMAIN ds, NEW j \in DOMAIN ds, ds[i].k = "approval", ds[j].k = "approval"
               PROVE  i = j
    BY DEF OneDecision
  <2>1. CASE i # at /\ j # at
    <3>1. i - by = j - by
      BY <1>2, <2>1 DEF OneDecision
    <3> QED  BY <1>1, <1>2, <3>1
  <2>2. CASE i = at /\ j # at
    BY <1>2, <2>2
  <2>3. CASE i # at /\ j = at
    BY <1>2, <2>3
  <2> QED  BY <2>1, <2>2, <2>3
<1>4. ASSUME NEW i \in DOMAIN ds PROVE ds[i] = c \/ \E j \in DOMAIN cs : ds[i] = cs[j]
  BY <1>2
<1> QED  BY <1>3, <1>4

\* Only the queue of controls changes.
Requeued(s, t, cs) ==
    /\ t.calls = s.calls /\ t.op = s.op /\ t.ops = s.ops /\ t.approval = s.approval /\ t.pending = s.pending
    /\ t.stopping = s.stopping /\ t.finishing = s.finishing /\ t.controls = cs

LEMMA RequeuedDealt ==
    ASSUME NEW s, NEW L, NEW X, Dealt(s, L, X), NEW t, NEW cs, Requeued(s, t, cs),
           ~s.finishing => OneDecision(cs),
           \A i \in DOMAIN cs : cs[i].k = "approval" => \E j \in DOMAIN s.controls : cs[i] = s.controls[j]
    PROVE  Dealt(t, L, X)
<1>1. /\ Open(t, X) = Open(s, X) /\ Hand(t) = Hand(s) /\ Queue(t) = Queue(s)
      /\ (Modelling(t) <=> Modelling(s)) /\ (Expanding(t) <=> Expanding(s)) /\ (Deciding(t) <=> Deciding(s))
  BY DEF Requeued, Open, Hand, Queue, InOp, InRequest, InRecord, Modelling, Expanding, Deciding
<1>2. Once(t, L, X) /\ Parents(t, L, X) /\ Served(t, L, X)
  BY <1>1 DEF Dealt, Reckoned, Once, Parents, Served, Requeued
<1>3. Due(t, L) /\ Alone(t)
  BY <1>1 DEF Dealt, Due, Alone, Requeued
<1>4. Resolved(t)
  BY <1>1 DEF Dealt, Resolved, Requeued
<1> QED  BY <1>2, <1>3, <1>4 DEF Dealt, Reckoned

\* The decision leaves the queue for the record.
LEMMA DecisionDealt ==
    ASSUME NEW s, HasParts(s), NEW L, Dealt(s, L, {}), s.pending = None,
           NEW c, c.k = "approval", s.approval # None, s.approval.resolving, c.call = s.approval.call,
           \A i \in DOMAIN s.controls : s.controls[i].k # "approval", NEW what
    PROVE  Dealt(Publish(s, "approval_resolved", 0, what, Then("approve", c)), L, {})
<1> DEFINE r == [seq |-> s.seq + 1, type |-> "approval_resolved", op |-> 0, what |-> what]
           p == [k |-> "append", committed |-> FALSE, next |-> Then("approve", c), rec |-> r]
           t == [s EXCEPT !.pending = p]
<1>1. Publish(s, "approval_resolved", 0, what, Then("approve", c)) = t
  BY DEF Publish
<1>2. p # None /\ p.next.k = "approve" /\ p.next.arg = c /\ ~p.committed /\ p.rec.type = "approval_resolved"
  BY DEF Then, None
<1> HIDE DEF p
<1>3. /\ t.calls = s.calls /\ t.op = s.op /\ t.ops = s.ops /\ t.approval = s.approval /\ t.pending = p
      /\ t.controls = s.controls /\ t.stopping = s.stopping /\ t.finishing = s.finishing
  BY DEF HasParts
<1> HIDE DEF t
<1>4. /\ InRecord(t) = {} /\ InRecord(s) = {} /\ Queue(t) = Queue(s)
      /\ (Modelling(t) <=> Modelling(s)) /\ ~Expanding(t) /\ ~Expanding(s)
      /\ InOp(t) = InOp(s) /\ InRequest(t) = InRequest(s)
  BY <1>2, <1>3 DEF InOp, InRequest, InRecord, Queue, Modelling, Expanding
<1>5. Open(t, {}) = Open(s, {}) /\ Hand(t) = Hand(s)
  BY <1>4 DEF Open, Hand
<1>6. Once(t, L, {}) /\ Parents(t, L, {}) /\ Served(t, L, {})
  BY <1>3, <1>4, <1>5 DEF Dealt, Reckoned, Once, Parents, Served
<1>7. Due(t, L) /\ Alone(t) /\ Resolved(t)
  BY <1>2, <1>3, <1>4 DEF Dealt, Due, Asks, Alone, Resolved, Deciding
<1>8. Dealt(t, L, {})
  BY <1>6, <1>7 DEF Dealt, Reckoned
<1> QED  BY <1>1, <1>8

\* What any control publishes.
LEMMA ControlDealt ==
    ASSUME NEW s \in Runs, NEW L, Dealt(s, L, {}), s.pending = None, NEW c \in Controls,
           c.k = "approval" => /\ s.approval # None /\ s.approval.resolving /\ c.call = s.approval.call
                               /\ \A i \in DOMAIN s.controls : s.controls[i].k # "approval"
    PROVE  Dealt(RunControl(s, c), L, {})
<1>1. HasParts(s)
  BY RunParts
<1>2. CASE c.k = "approval"
  <2>1. RunControl(s, c) = Publish(s, "approval_resolved", 0, [call |-> CallId(c.call), decision |-> c.decision],
                                   Then("approve", c))
    BY <1>2 DEF RunControl
  <2> QED  BY <1>1, <1>2, <2>1, DecisionDealt
<1>3. CASE c.k # "approval"
  <2>1. c.k \in {"stop", "timeout", "event", "pause", "continue", "steer"}
    BY <1>3 DEF Controls, Pauses, Continues, Steers, Resolutions
  <2>2. \E type \in {"stop_requested", "operation_timeout", "event", "pause_requested", "continued", "steer_admitted"},
           k \in {"advance", "event", "pause", "continue", "steer"} : \E op, what, arg :
             RunControl(s, c) = Publish(s, type, op, what, Then(k, arg))
    BY <2>1 DEF RunControl
  <2>3. Like(s, RunControl(s, c), L)
    BY <1>1, <2>2, PublishLike
  <2> QED  BY <2>3, LikeDealt
<1> QED  BY <1>2, <1>3

LEMMA DriveDealt ==
    ASSUME NEW s \in Runs, NEW L, Dealt(s, L, {}), NEW spawned \in BOOLEAN
    PROVE  Dealt(Drive(s, spawned), L, {})
<1> DEFINE live == {i \in DOMAIN s.controls : ~Rejecting(s) \/ ~Guarded(s.controls[i])}
           first == CHOOSE i \in live : \A j \in live : i <= j
           n == IF live = {} THEN Len(s.controls) ELSE first - 1
           cs == SubSeq(s.controls, n + 2, Len(s.controls))
           asked == s.asked \ Callers(SubSeq(s.controls, 1, n))
           t == [s EXCEPT !.asked = asked, !.controls = cs]
<1>0. s.controls \in Seq(Controls) /\ asked \in SUBSET Clients
  BY DEF Runs
<1>1. CASE s.pending # None
  <2>1. Drive(s, spawned) = s
    BY <1>1 DEF Drive
  <2> QED  BY <2>1
<1>2. CASE s.pending = None
  <2>1. Drive(s, spawned) = IF live = {} THEN Advance(t, spawned) ELSE RunControl(t, s.controls[first])
    BY <1>2 DEF Drive
  <2>2. live # {} => first \in live /\ first \in DOMAIN s.controls
    <3>1. live \subseteq Nat \ {0}
      <4> HIDE DEF Controls
      <4> QED  BY <1>0
    <3> QED  BY <3>1, FirstLive
  <2>3. n \in 0 .. Len(s.controls)
    <3> HIDE DEF first, Controls
    <3>1. DOMAIN s.controls = 1 .. Len(s.controls) /\ Len(s.controls) \in Nat
      BY <1>0
    <3>2. live # {} => first \in 1 .. Len(s.controls)
      BY <2>2, <3>1
    <3> HIDE DEF live
    <3> QED  BY <3>1, <3>2
  <2> HIDE DEF n
  <2>4. /\ cs \in Seq(Controls) /\ (n = Len(s.controls) => cs = <<>>)
        /\ \A i \in DOMAIN cs : \E j \in DOMAIN s.controls : cs[i] = s.controls[j]
    BY <1>0, <2>3, ControlsBehind
  <2> HIDE DEF cs, asked
  <2>5. t \in Runs /\ Requeued(s, t, cs) /\ t.pending = None
    <3> HIDE DEF Controls
    <3> QED  BY <1>0, <1>2, <2>4 DEF Runs, Requeued
  <2> HIDE DEF t
  <2>6. CASE live = {}
    <3>1. cs = <<>>
      BY <2>4, <2>6 DEF n
    <3>2. Dealt(t, L, {})
      <4>1. OneDecision(cs) /\ DOMAIN cs = {}
        BY <3>1 DEF OneDecision
      <4> HIDE DEF live
      <4> QED  BY <2>5, <4>1, RequeuedDealt
    <3> QED  BY <2>1, <2>5, <2>6, <3>2, AdvanceDealt
  <2>7. CASE live # {}
    <3> DEFINE c == s.controls[first]
    <3>1. first \in DOMAIN s.controls /\ n = first - 1 /\ n \in Nat /\ first \in live
      BY <2>2, <2>3, <2>7 DEF n
    <3>2. n + 1 = first
      <4>1. first \in Nat
        <5> HIDE DEF Controls
        <5> QED  BY <1>0, <3>1
      <4> HIDE DEF first, live
      <4> QED  BY <3>1, <4>1
    <3>3. c \in Controls
      <4> HIDE DEF Controls, first, live
      <4> QED  BY <1>0, <3>1
    <3>4. ~s.finishing =>
            /\ OneDecision(cs)
            /\ c.k = "approval" => \A i \in DOMAIN cs : cs[i].k # "approval"
      <4>1. ~s.finishing => OneDecision(s.controls)
        BY DEF Dealt, Resolved
      <4> HIDE DEF first, n, Controls, live
      <4> QED  BY <1>0, <3>1, <3>2, <4>1, OneBehind DEF cs
    <3>5. Dealt(t, L, {})
      <4> HIDE DEF live, first
      <4> QED  BY <2>4, <2>5, <3>4, RequeuedDealt
    <3>6. c.k = "approval" => ~s.finishing
      BY <3>1 DEF Rejecting, Guarded
    <3>7. c.k = "approval" => s.approval # None /\ s.approval.resolving /\ c.call = s.approval.call
      BY <3>1, <3>6 DEF Dealt, Resolved
    <3> HIDE DEF c
    <3>8. Dealt(RunControl(t, c), L, {})
      <4> HIDE DEF live, first, Controls, Runs
      <4> QED  BY <2>5, <3>3, <3>4, <3>5, <3>6, <3>7, ControlDealt DEF Requeued
    <3> QED  BY <2>1, <2>7, <3>8 DEF c
  <2> QED  BY <2>6, <2>7
<1> QED  BY <1>1, <1>2

-----------------------------------------------------------------------------
(* What follows an acknowledged record.                                    *)

\* What the continuation holds when it begins.
Held(next, rec) ==
    IF next.k = "approval" THEN {CallId(next.arg)}
    ELSE IF next.k = "turn" /\ next.arg.k = "turn" THEN CallsOf(rec) ELSE {}

LEMMA AckDealt ==
    ASSUME NEW s, NEW w, NEW L \in Seq(Recs), Good(s, w, L), Dealt(s, L, {}), s.pending # None, s.pending.committed,
           NEW u, Acked(s, u)
    PROVE  Dealt(u, L, Held(s.pending.next, s.pending.rec))
<1> DEFINE next == s.pending.next
           rec == s.pending.rec
           X == Held(next, rec)
<1>1. /\ u.calls = s.calls /\ u.op = s.op /\ u.ops = s.ops /\ u.approval = s.approval /\ u.pending = None
      /\ u.controls = s.controls /\ u.stopping = s.stopping /\ u.finishing = s.finishing
  BY DEF Acked
<1>2. s.ops \in Nat /\ s \in Runs /\ next \in Nexts
  BY PendingTypes DEF Good, Runs
<1>3. /\ InOp(u) = InOp(s) /\ InRequest(u) = InRequest(s) /\ InRecord(u) = {} /\ Queue(u) = Queue(s)
      /\ (Modelling(u) <=> Modelling(s)) /\ ~Expanding(u) /\ ~Deciding(u)
  BY <1>1 DEF InOp, InRequest, InRecord, Queue, Modelling, Expanding, Deciding
<1>4. Due(u, L) /\ Alone(u) /\ Resolved(u)
  BY <1>1, <1>3 DEF Dealt, Due, Alone, Resolved
<1>5. \A m, n \in DOMAIN u.calls : CallId(u.calls[m]) = CallId(u.calls[n]) => m = n
  BY <1>1 DEF Dealt, Reckoned, Once
<1>6. CASE next.k # "turn"
  <2>1. InRecord(s) = X /\ ~Expanding(s)
    BY <1>6 DEF InRecord, Expanding, Held
  <2> HIDE DEF X, next, rec
  <2>2. Open(u, X) = Open(s, {}) /\ Hand(u) \cup X = Hand(s)
    BY <1>3, <2>1 DEF Open, Hand
  <2>3. Queue(u) \cap (Hand(u) \cup X) = {} /\ Reckoned(s, L, {})
    BY <1>3, <2>2 DEF Dealt, Reckoned, Once
  <2>4. Reckoned(u, L, X)
    BY <1>1, <1>2, <1>3, <1>5, <2>1, <2>2, <2>3, Moved
  <2> QED  BY <1>4, <2>4 DEF Dealt, X, next, rec
<1>7. CASE next.k = "turn"
  <2>1. /\ rec.type = "model_completed" /\ rec.what = next.arg /\ L[Len(L)] = rec /\ Len(L) \in Nat
        /\ Len(L) = s.seq + 1 /\ s.seq \in Nat
    BY <1>2, <1>7 DEF Good, Sound, Written, Fits, Runs
  <2>2. Expanding(s) /\ s.calls = <<>> /\ s.approval = None /\ rec.op = s.ops /\ InRecord(s) = {}
    BY <1>7 DEF Expanding, Dealt, Alone, InRecord
  <2>3. s.op = None
    BY <2>1 DEF Good, Sound, Phase, At, PendingType, Stages, Completion, Idle
  <2>4. Open(s, {}) = {} /\ Open(u, X) = X /\ Queue(u) = {} /\ ~Modelling(u)
    BY <1>3, <2>2, <2>3 DEF Open, Hand, InOp, InRequest, Queue, Modelling
  <2>5. next.arg \in Turned
    BY <1>2, <1>7 DEF Nexts, Turned
  <2>6. X \subseteq [parent : {s.ops}, index : Nat]
    <3>1. CASE next.arg.k = "turn"
      <4>1. X = CallsOf(rec)
        BY <1>7, <3>1 DEF Held
      <4>2. rec.what.calls \in Seq(CallKinds)
        BY <2>1, <2>5, <3>1, RunAssumption DEF Turned
      <4>3. DOMAIN rec.what.calls \subseteq Nat
        <5> HIDE DEF CallKinds, rec
        <5> QED  BY <4>2
      <4> HIDE DEF rec, X
      <4> QED  BY <2>2, <4>1, <4>3 DEF CallsOf
    <3>2. CASE next.arg.k # "turn"
      BY <1>7, <3>2 DEF Held
    <3> QED  BY <3>1, <3>2
  <2> HIDE DEF X
  <2>8. Answered(L) \subseteq [parent : 0 .. (s.ops - 1), index : Nat]
    BY <2>2 DEF Dealt, Reckoned, Parents
  <2>9. X \cap Answered(L) = {}
    <3> SUFFICES ASSUME NEW id, id \in X, id \in Answered(L) PROVE FALSE
      OBVIOUS
    <3>1. id.parent = s.ops /\ id.parent \in 0 .. (s.ops - 1)
      BY <2>6, <2>8
    <3> QED  BY <1>2, <3>1
  <2>10. Once(u, L, X)
    BY <1>1, <1>3, <1>5, <2>4, <2>9 DEF Once, Dealt, Reckoned
  <2>11. Parents(u, L, X)
    <3>1. {s.ops} \subseteq 0 .. s.ops
      BY <1>2
    <3>2. X \subseteq [parent : 0 .. s.ops, index : Nat]
      BY <2>6, <3>1
    <3> QED  BY <1>1, <1>3, <2>4, <3>2 DEF Parents, Dealt, Reckoned
  <2>12. Served(u, L, X)
    <3> SUFFICES ASSUME ~u.stopping, ~u.finishing, NEW i \in TurnsOf(L)
                 PROVE  CallsOf(L[i]) \subseteq Answered(L) \cup X
      BY <2>4 DEF Served
    <3>1. CASE i = Len(L)
      <4>1. L[i] = rec /\ rec.what.k = "turn"
        BY <2>1, <3>1 DEF TurnsOf
      <4>2. X = CallsOf(rec)
        BY <1>7, <2>1, <4>1 DEF X, Held
      <4> QED  BY <4>1, <4>2
    <3>2. CASE i # Len(L)
      BY <1>1, <2>4, <3>2 DEF Dealt, Reckoned, Served
    <3> QED  BY <3>1, <3>2
  <2>13. Reckoned(u, L, X)
    BY <2>10, <2>11, <2>12 DEF Reckoned
  <2> QED  BY <1>4, <2>13 DEF Dealt, X
<1> QED  BY <1>6, <1>7

\* A run that ends, or was told to, may lose the calls that it holds.
LEMMA LostDealt ==
    ASSUME NEW s, NEW L, NEW X, Dealt(s, L, X), s.ops \in Nat, s.pending = None, s.stopping \/ s.finishing
    PROVE  Dealt(s, L, {})
<1>1. Open(s, {}) \subseteq Open(s, X) /\ ~Expanding(s)
  BY DEF Open, Expanding
<1>2. /\ \A m, n \in DOMAIN s.calls : CallId(s.calls[m]) = CallId(s.calls[n]) => m = n
      /\ Queue(s) \cap (Hand(s) \cup {}) = {} /\ Reckoned(s, L, X)
  BY DEF Dealt, Reckoned, Once
<1>3. Reckoned(s, L, {})
  BY <1>1, <1>2, Moved
<1> QED  BY <1>3 DEF Dealt

\* The calls of the turn are queued, or the run ends.
LEMMA AfterTurnDealt ==
    ASSUME NEW s \in Runs, NEW L, NEW rec, NEW result \in Turned, rec.what = result, rec.op \in Nat,
           s.pending = None, s.op = None, s.approval = None, s.calls = <<>>, ~s.finishing,
           Dealt(s, L, IF result.k = "turn" THEN CallsOf(rec) ELSE {})
    PROVE  Dealt(AfterTurn(s, rec.op, result), L, {})
<1> DEFINE X == IF result.k = "turn" THEN CallsOf(rec) ELSE {}
           o == rec.op
           cs == [i \in 1 .. Len(result.calls) |->
                   [parent |-> o, index |-> i, kind |-> result.calls[i], approved |-> FALSE]]
           t == [s EXCEPT !.calls = cs]
<1>1. HasParts(s) /\ s.ops \in Nat /\ Like(s, s, L)
  BY RunParts DEF Runs
<1>2. CASE s.stopping
  <2>1. AfterTurn(s, o, result) = s
    BY <1>2 DEF AfterTurn
  <2> HIDE DEF X
  <2>2. Dealt(s, L, X)
    BY DEF X
  <2> QED  BY <1>1, <1>2, <2>1, <2>2, LostDealt
<1>3. CASE ~s.stopping /\ result.k = "cut"
  <2>1. AfterTurn(s, o, result) = Finish(s, "failed")
    BY <1>3 DEF AfterTurn
  <2>2. Dealt(s, L, {})
    BY <1>3
  <2>3. Like(s, Finish(s, "failed"), L)
    BY <1>1, WritersLike
  <2>4. Dealt(Finish(s, "failed"), L, {})
    BY <2>2, <2>3, LikeDealt
  <2> QED  BY <2>1, <2>4
<1>4. CASE ~s.stopping /\ result.k # "cut"
  <2>1. result.k = "turn" /\ result.calls \in Seq(CallKinds)
    BY <1>4, RunAssumption DEF Turned
  <2>2. Len(result.calls) \in Nat /\ DOMAIN result.calls = 1 .. Len(result.calls)
    <3> HIDE DEF CallKinds
    <3> QED  BY <2>1
  <2>3. X = {CallId(cs[i]) : i \in DOMAIN cs} /\ DOMAIN cs = 1 .. Len(result.calls)
    BY <2>1, <2>2 DEF CallsOf, CallId
  <2>4. Dealt(s, L, X)
    OBVIOUS
  <2>5. AfterTurn(s, o, result) \in {Finish(s, "completed"), t}
        /\ (AfterTurn(s, o, result) # t => cs = <<>>)
    BY <1>4 DEF AfterTurn
  <2>6. \A m, n \in DOMAIN cs : CallId(cs[m]) = CallId(cs[n]) => m = n
    BY DEF CallId
  <2> HIDE DEF cs, X
  <2>7. CASE AfterTurn(s, o, result) # t
    <3>1. X = {} /\ AfterTurn(s, o, result) = Finish(s, "completed")
      BY <2>3, <2>5, <2>7
    <3>2. Dealt(s, L, {})
      BY <2>4, <3>1
    <3>3. AllAnswered(L)
      BY <1>4, <3>2, NoneOpen
    <3>4. Like(s, Finish(s, "completed"), L)
      BY <1>1, <3>3, WritersLike
    <3> QED  BY <3>1, <3>2, <3>4, LikeDealt
  <2>8. CASE AfterTurn(s, o, result) = t
    <3>1. /\ t.calls = cs /\ t.op = None /\ t.ops = s.ops /\ t.approval = None /\ t.pending = None
          /\ t.controls = s.controls /\ t.stopping = s.stopping /\ t.finishing = s.finishing
      BY <1>1 DEF HasParts
    <3> HIDE DEF t
    <3>2. /\ Queue(t) = X /\ Hand(t) = {} /\ Hand(s) = {} /\ Queue(s) = {}
          /\ ~Modelling(t) /\ ~Expanding(t) /\ ~Expanding(s) /\ ~Deciding(t) /\ ~Deciding(s)
      BY <2>3, <3>1 DEF Queue, Hand, InOp, InRequest, InRecord, Modelling, Expanding, Deciding
    <3>3. Open(t, {}) = Open(s, X) /\ Queue(t) \cap (Hand(t) \cup {}) = {} /\ Reckoned(s, L, X)
      BY <2>4, <3>2 DEF Open, Dealt
    <3>4. Reckoned(t, L, {})
      BY <1>1, <1>4, <2>6, <3>1, <3>2, <3>3, Moved
    <3>5. Due(t, L) /\ Alone(t) /\ Resolved(t)
      BY <2>4, <3>1, <3>2 DEF Dealt, Due, Alone, Resolved
    <3> QED  BY <2>8, <3>4, <3>5 DEF Dealt
  <2> QED  BY <2>7, <2>8
<1>5. result.k \in {"turn", "cut"}
  BY DEF Turned
<1> QED  BY <1>2, <1>3, <1>4

\* The decision is carried out: the request lets the call go.
LEMMA DecideDealt ==
    ASSUME NEW s, HasParts(s), NEW L, NEW c \in Calls, Dealt(s, L, {CallId(c)}), s.ops \in Nat,
           s.pending = None, s.op = None, s.approval = None, s.calls \in Seq(Calls), NEW decision
    PROVE  Dealt(Decide(s, c, decision), L, {})
<1> DEFINE d == [c EXCEPT !.approved = TRUE]
           cs == <<d>> \o s.calls
           t == [s EXCEPT !.calls = cs]
<1>1. Decide(s, c, decision) \in {ToolResult(s, 0, c), t}
  BY DEF Decide
<1>2. Dealt(ToolResult(s, 0, c), L, {})
  BY ToolResultDealt
<1>3. CallId(d) = CallId(c)
  BY DEF CallId, Calls
<1> HIDE DEF d
<1>4. /\ cs[1] = d /\ 1 \in DOMAIN cs
      /\ \A i \in DOMAIN s.calls : i \in Nat /\ i + 1 \in DOMAIN cs /\ cs[i + 1] = s.calls[i]
      /\ \A i \in DOMAIN cs : i \in Nat /\ (i # 1 => i - 1 \in DOMAIN s.calls /\ cs[i] = s.calls[i - 1])
  <2> HIDE DEF Calls
  <2> QED  OBVIOUS
<1> HIDE DEF cs
<1>5. /\ t.calls = cs /\ t.op = None /\ t.ops = s.ops /\ t.approval = None /\ t.pending = None
      /\ t.controls = s.controls /\ t.stopping = s.stopping /\ t.finishing = s.finishing
  BY DEF HasParts
<1> HIDE DEF t, Calls
<1>6. Queue(t) = Queue(s) \cup {CallId(c)}
  <2>1. ASSUME NEW i \in DOMAIN cs PROVE CallId(cs[i]) \in Queue(s) \cup {CallId(c)}
    BY <1>3, <1>4 DEF Queue
  <2>2. ASSUME NEW i \in DOMAIN s.calls PROVE CallId(s.calls[i]) \in Queue(t)
    BY <1>4, <1>5 DEF Queue
  <2>3. CallId(c) \in Queue(t)
    BY <1>3, <1>4, <1>5 DEF Queue
  <2> QED  BY <1>5, <2>1, <2>2, <2>3 DEF Queue
<1>7. Once(s, L, {CallId(c)})
  BY DEF Dealt, Reckoned
<1>8. \A m, n \in DOMAIN cs : CallId(cs[m]) = CallId(cs[n]) => m = n
  <2> SUFFICES ASSUME NEW m \in DOMAIN cs, NEW n \in DOMAIN cs, CallId(cs[m]) = CallId(cs[n]) PROVE m = n
    OBVIOUS
  <2>1. \A i \in DOMAIN s.calls : CallId(s.calls[i]) # CallId(c)
    BY <1>7 DEF Once, Queue
  <2>2. CASE m # 1 /\ n # 1
    <3>1. m - 1 = n - 1
      BY <1>4, <1>7, <2>2 DEF Once
    <3> QED  BY <1>4, <3>1
  <2>3. CASE m = 1 /\ n # 1
    BY <1>3, <1>4, <2>1, <2>3
  <2>4. CASE m # 1 /\ n = 1
    BY <1>3, <1>4, <2>1, <2>4
  <2> QED  BY <2>2, <2>3, <2>4
<1>9. /\ Hand(t) = {} /\ Hand(s) = {} /\ ~Modelling(t) /\ ~Expanding(t) /\ ~Expanding(s)
      /\ ~Deciding(t) /\ ~Deciding(s)
  BY <1>5 DEF Hand, InOp, InRequest, InRecord, Modelling, Expanding, Deciding
<1>10. /\ Open(t, {}) = Open(s, {CallId(c)}) /\ Queue(t) \cap (Hand(t) \cup {}) = {}
       /\ Reckoned(s, L, {CallId(c)})
  BY <1>6, <1>9 DEF Open, Dealt
<1>11. Reckoned(t, L, {})
  BY <1>5, <1>8, <1>9, <1>10, Moved
<1>12. Due(t, L) /\ Alone(t) /\ Resolved(t)
  BY <1>5, <1>9 DEF Dealt, Due, Alone, Resolved
<1> QED  BY <1>1, <1>2, <1>11, <1>12 DEF Dealt

\* The result of the model, or of the tool, follows the settlement.
LEMMA SettledDealt ==
    ASSUME NEW s, NEW w, NEW L, Good(s, w, L), Dealt(s, L, {}), s.pending # None, s.pending.next.k = "settled",
           NEW u, Acked(s, u), Dealt(u, L, {})
    PROVE  LET t == [u EXCEPT !.op = None]
           IN  Dealt(IF u.op.kind = "model" THEN ModelResult(t, u.op.id, s.pending.next.arg)
                     ELSE ToolResult(t, u.op.id, u.op.call), L, {})
<1> DEFINE t == [u EXCEPT !.op = None]
           q == s.op
           result == s.pending.next.arg
           goal == Dealt(IF u.op.kind = "model" THEN ModelResult(t, u.op.id, result)
                         ELSE ToolResult(t, u.op.id, u.op.call), L, {})
<1> SUFFICES goal
  OBVIOUS
<1>1. s \in Runs /\ u \in Runs /\ u.op = q /\ u.pending = None /\ u.ops = s.ops /\ s.ops \in Nat
  BY DEF Good, Acked, Runs
<1>2. At(s, L).type = "operation_settled"
  BY DEF Good, Sound, Written, Fits, At, PendingType, Stages
<1>3. q # None /\ q.id = s.ops /\ q \in Ops
  <2>1. q # None /\ q.id = s.ops
    BY <1>2 DEF Good, Sound, Phase, Idle, Completion
  <2> QED  BY <1>1, <2>1 DEF Runs
<1>4. q.kind \in {"model", "tool"} /\ (q.kind = "tool" => q.call # None)
  BY <1>1, <1>3 DEF Good, TypedOp, Ops
<1>5. u.approval = None
  BY <1>3 DEF Good, Sound, Queued, Acked
<1> HIDE DEF q
<1>6. /\ t.calls = u.calls /\ t.op = None /\ t.ops = u.ops /\ t.approval = None /\ t.pending = None
      /\ t.controls = u.controls /\ t.stopping = u.stopping /\ t.finishing = u.finishing /\ HasParts(t)
  BY <1>1, <1>5 DEF Runs, HasParts
<1> HIDE DEF t
<1>7. /\ Queue(t) = Queue(u) /\ Hand(t) = {} /\ Hand(u) = CallOf(q)
      /\ ~Modelling(t) /\ ~Expanding(t) /\ ~Expanding(u) /\ ~Deciding(t) /\ ~Deciding(u)
  BY <1>1, <1>3, <1>5, <1>6 DEF Queue, Hand, InOp, InRequest, InRecord, Modelling, Expanding, Deciding
<1>8. Dealt(t, L, CallOf(q))
  <2>1. Open(t, CallOf(q)) = Open(u, {})
    BY <1>7 DEF Open
  <2>2. /\ \A m, n \in DOMAIN t.calls : CallId(t.calls[m]) = CallId(t.calls[n]) => m = n
        /\ Queue(t) \cap (Hand(t) \cup CallOf(q)) = {} /\ Reckoned(u, L, {})
    BY <1>6, <1>7 DEF Dealt, Reckoned, Once
  <2>3. Reckoned(t, L, CallOf(q))
    BY <1>1, <1>6, <1>7, <2>1, <2>2, Moved
  <2>4. Due(t, L) /\ Alone(t) /\ Resolved(t)
    BY <1>5, <1>6, <1>7 DEF Dealt, Due, Alone, Resolved
  <2> QED  BY <2>3, <2>4 DEF Dealt
<1>9. CASE q.kind = "tool"
  <2>1. Dealt(t, L, {CallId(q.call)})
    BY <1>4, <1>8, <1>9 DEF CallOf
  <2>2. Dealt(ToolResult(t, q.id, q.call), L, {})
    BY <1>1, <1>6, <2>1, ToolResultDealt
  <2>3. goal <=> Dealt(ToolResult(t, q.id, q.call), L, {})
    BY <1>1, <1>9
  <2> HIDE DEF goal
  <2> QED  BY <2>2, <2>3
<1>10. CASE q.kind = "model"
  <2> DEFINE x == ModelResult(t, q.id, result)
  <2>1. q.call = None /\ u.calls = <<>> /\ Modelling(u)
    BY <1>1, <1>3, <1>10 DEF Dealt, Alone, Modelling
  <2>2. Dealt(t, L, {})
    BY <1>8, <2>1 DEF CallOf
  <2>3. goal <=> Dealt(x, L, {})
    BY <1>1, <1>10
  <2> HIDE DEF goal
  <2>4. CASE result.k \notin {"turn", "cut"}
    <3>1. x = Publish(t, "model_failed", q.id, None, Then("model_failed", None))
      BY <2>4 DEF ModelResult
    <3>2. Like(t, x, L)
      BY <1>6, <3>1, PublishLike
    <3>3. Dealt(x, L, {})
      BY <1>6, <2>2, <3>2, LikeDealt
    <3> QED  BY <2>3, <3>3
  <2>5. CASE result.k \in {"turn", "cut"}
    <3> DEFINE r == [seq |-> t.seq + 1, type |-> "model_completed", op |-> q.id, what |-> result]
               p == [k |-> "append", committed |-> FALSE, next |-> Then("turn", result), rec |-> r]
               y == [t EXCEPT !.pending = p]
    <3>1. x = y
      BY <2>5 DEF ModelResult, Publish
    <3>2. p # None /\ p.next.k = "turn" /\ ~p.committed /\ p.rec.type = "model_completed" /\ p.rec.op = q.id
      BY DEF Then, None
    <3> HIDE DEF p, x
    <3>3. /\ y.calls = <<>> /\ y.op = None /\ y.ops = s.ops /\ y.approval = None /\ y.pending = p
          /\ y.controls = t.controls /\ y.stopping = t.stopping /\ y.finishing = t.finishing
      BY <1>1, <1>6, <2>1 DEF HasParts
    <3> HIDE DEF y
    <3>4. /\ Queue(y) = {} /\ Hand(y) = {} /\ Queue(u) = {} /\ Hand(u) = {}
          /\ ~Modelling(y) /\ ~Deciding(y)
      <4>1. Queue(y) = {} /\ Queue(u) = {} /\ InOp(y) = {} /\ InRequest(y) = {}
        BY <2>1, <3>3 DEF Queue, InOp, InRequest
      <4>2. InRecord(y) = {} /\ ~Modelling(y) /\ ~Deciding(y)
        BY <3>2, <3>3 DEF InRecord, Modelling, Deciding
      <4>3. Hand(u) = {}
        BY <1>7, <2>1 DEF CallOf
      <4> QED  BY <4>1, <4>2, <4>3 DEF Hand
    <3>5. Open(y, {}) = Open(u, {}) /\ Queue(y) \cap (Hand(y) \cup {}) = {} /\ Reckoned(u, L, {})
      BY <3>4 DEF Open, Dealt
    <3>6. \A m, n \in DOMAIN y.calls : CallId(y.calls[m]) = CallId(y.calls[n]) => m = n
      BY <3>3
    <3>7. Reckoned(y, L, {})
      BY <1>1, <1>6, <1>7, <2>1, <3>3, <3>5, <3>6, Moved
    <3>8. Due(y, L) /\ Alone(y)
      BY <1>3, <3>2, <3>3 DEF Due, Asks, Alone
    <3>9. Resolved(y)
      BY <1>6, <1>7, <2>2, <3>3, <3>4 DEF Dealt, Resolved
    <3>10. Dealt(y, L, {})
      BY <3>7, <3>8, <3>9 DEF Dealt
    <3> QED  BY <2>3, <3>1, <3>10
  <2> QED  BY <2>4, <2>5
<1> QED  BY <1>4, <1>9, <1>10

\* The run is over.
LEMMA FinishedDealt ==
    ASSUME NEW s, NEW L, Dealt(s, L, {}), NEW t, s.finishing, t.finishing, s.pending = None, t.pending = None,
           t.op = s.op, t.ops = s.ops, s.ops \in Nat, t.approval = None, t.calls = <<>>
    PROVE  Dealt(t, L, {})
<1>1. /\ InOp(t) = InOp(s) /\ InRequest(t) = {} /\ InRecord(t) = {} /\ InRecord(s) = {} /\ Queue(t) = {}
      /\ (Modelling(t) <=> Modelling(s)) /\ ~Expanding(t) /\ ~Expanding(s)
  BY DEF InOp, InRequest, InRecord, Queue, Modelling, Expanding
<1>2. Open(t, {}) \subseteq Open(s, {}) /\ Queue(t) \cap (Hand(t) \cup {}) = {} /\ Reckoned(s, L, {})
  BY <1>1 DEF Open, Hand, Dealt
<1>3. Reckoned(t, L, {})
  BY <1>1, <1>2, Moved
<1>4. Due(t, L) /\ Alone(t) /\ Resolved(t)
  BY <1>1 DEF Dealt, Due, Alone, Resolved
<1> QED  BY <1>3, <1>4 DEF Dealt

\* The request is shown to a person.
LEMMA RequestedDealt ==
    ASSUME NEW s, HasParts(s), NEW L, NEW c, Dealt(s, L, {CallId(c)}), s.ops \in Nat,
           s.pending = None, s.approval = None, NEW t, NEW q, q # None, q.call = c,
           t.calls = s.calls, t.op = s.op, t.ops = s.ops, t.pending = None, t.controls = s.controls,
           t.stopping = s.stopping, t.finishing = s.finishing, t.approval = q
    PROVE  Dealt(t, L, {})
<1>1. /\ InOp(t) = InOp(s) /\ InRequest(t) = {CallId(c)} /\ InRequest(s) = {}
      /\ InRecord(t) = {} /\ InRecord(s) = {} /\ Queue(t) = Queue(s)
      /\ (Modelling(t) <=> Modelling(s)) /\ ~Expanding(t) /\ ~Expanding(s) /\ ~Deciding(t) /\ ~Deciding(s)
  BY DEF InOp, InRequest, InRecord, Queue, Modelling, Expanding, Deciding
<1>2. /\ Open(t, {}) = Open(s, {CallId(c)}) /\ Hand(t) = Hand(s) \cup {CallId(c)}
      /\ Reckoned(s, L, {CallId(c)})
  BY <1>1 DEF Open, Hand, Dealt
<1>3. /\ \A m, n \in DOMAIN t.calls : CallId(t.calls[m]) = CallId(t.calls[n]) => m = n
      /\ Queue(t) \cap (Hand(t) \cup {}) = {}
  BY <1>1, <1>2 DEF Reckoned, Once
<1>4. Reckoned(t, L, {})
  BY <1>1, <1>2, <1>3, Moved
<1>5. Due(t, L) /\ Alone(t) /\ Resolved(t)
  BY <1>1 DEF Dealt, Due, Alone, Resolved
<1> QED  BY <1>4, <1>5 DEF Dealt

\* The continuation of any record.
LEMMA ResumeDealt ==
    ASSUME NEW s, NEW w \in Tasks, NEW L \in Seq(Recs), Good(s, w, L), Dealt(s, L, {}),
           s.pending # None, s.pending.committed
    PROVE  Dealt(Resume([s EXCEPT !.pending = None, !.seq = s.pending.rec.seq], s.pending.rec, s.pending.next), L, {})
<1> DEFINE u == [s EXCEPT !.pending = None, !.seq = s.pending.rec.seq]
           rec == s.pending.rec
           next == s.pending.next
           b == Resume(u, rec, next)
<1> SUFFICES Dealt(b, L, {})
  BY DEF b, u, rec, next
<1>1. s \in Runs /\ s.ops \in Nat
  BY DEF Good, Runs
<1>2. next \in Nexts /\ Acked(s, u) /\ rec.op \in Nat
  BY <1>1, AckFields, PendingTypes
<1>3. /\ u \in Runs /\ u.pending = None /\ u.op = s.op /\ u.ops = s.ops /\ u.calls = s.calls
      /\ u.approval = s.approval /\ u.controls = s.controls /\ u.finishing = s.finishing
      /\ HasParts(u) /\ Like(u, u, L) /\ u.calls \in Seq(Calls)
  BY <1>2, RunParts DEF Acked, Runs
<1>4. Dealt(u, L, Held(next, rec))
  BY <1>2, AckDealt DEF rec, next
<1> HIDE DEF u
<1>5. next.k \notin {"approval", "turn"} => Dealt(u, L, {})
  BY <1>4 DEF Held
<1>6. next.k \notin {"effect", "settled", "finish"} => ~u.finishing
  BY <1>2, AckKeeps DEF next
<1>7. CASE next.k \in {"advance", "pause", "continue", "steer", "paused"}
  <2> DEFINE v == Answer(u, next.arg.from)
  <2>1. HasParts(v) /\ Like(u, v, L)
    BY <1>3, SMTT(60) DEF Like, Answer, HasParts, SameOp
  <2>2. b \in {u, [v EXCEPT !.paused = TRUE], [v EXCEPT !.paused = FALSE, !.status = next.arg.status],
               [v EXCEPT !.steer = Append(@, next.arg.id)], [u EXCEPT !.status = "paused"]}
    BY <1>7 DEF Resume, v
  <2> HIDE DEF v
  <2>3. /\ Like(v, [v EXCEPT !.paused = TRUE], L)
        /\ Like(v, [v EXCEPT !.paused = FALSE, !.status = next.arg.status], L)
        /\ Like(v, [v EXCEPT !.steer = Append(@, next.arg.id)], L)
        /\ Like(u, [u EXCEPT !.status = "paused"], L)
    BY <1>3, <2>1 DEF Like, HasParts, SameOp
  <2>4. Like(u, b, L)
    BY <1>3, <2>1, <2>2, <2>3, LikeTrans
  <2> QED  BY <1>3, <1>5, <1>7, <2>4, LikeDealt
<1>8. CASE next.k \in {"event", "effect"}
  <2>1. CASE u.op = None
    <3>1. next.k = "event"
      <4>1. next.k = "effect" => rec.type \in Admission \cup Start
        BY <1>2 DEF Good, Sound, Written, Fits, rec, next
      <4>2. rec.type \in Admission \cup Start => s.op # None
        BY DEF Good, Sound, Phase, At, PendingType, Stages, Idle, Completion, Admission, Start, rec
      <4> QED  BY <1>3, <1>8, <2>1, <4>1, <4>2
    <3>2. b = u
      BY <2>1, <3>1 DEF Resume
    <3> QED  BY <1>5, <3>1, <3>2
  <2>2. CASE u.op # None
    <3> DEFINE p == [u.op EXCEPT !.credits = @ + 1]
               q == [u.op EXCEPT !.effect = next.arg]
    <3>1. u.op \in Ops
      BY <1>3, <2>2 DEF HasParts
    <3>2. p \in Ops /\ p.kind = u.op.kind /\ p.call = u.op.call
      <4> HIDE DEF Calls, Answers
      <4> QED  BY <3>1, SMTT(60) DEF Ops
    <3>3. next.k = "effect" => q \in Ops /\ q.kind = u.op.kind /\ q.call = u.op.call
      <4>1. next.k = "effect" => next.arg \in {"start", "release"}
        BY <1>2 DEF Nexts
      <4> HIDE DEF Calls, Answers, next
      <4> QED  BY <3>1, <4>1 DEF Ops
    <3>4. next.k = "event" => b = [u EXCEPT !.op = p]
      BY <1>3, <2>2, <3>1 DEF Resume, HasParts, Ops
    <3>5. next.k = "effect" => b = [u EXCEPT !.op = q]
      BY <1>3, <2>2, <3>1 DEF Resume, HasParts, Ops
    <3> HIDE DEF p, q, b
    <3>6. Like(u, b, L)
      BY <1>3, <1>8, <2>2, <3>2, <3>3, <3>4, <3>5, OpLike
    <3> QED  BY <1>3, <1>5, <1>8, <3>6, LikeDealt
  <2> QED  BY <2>1, <2>2
<1>9. CASE next.k = "approve"
  <2> DEFINE c == next.arg.call
             v == Answer(u, next.arg.from)
             x == [v EXCEPT !.approval = None, !.status = "running"]
  <2>1. b = Decide(x, c, next.arg.decision)
    BY <1>9 DEF Resume, v
  <2>2. c \in Calls /\ s.op = None
    <3>1. next.arg \in Resolutions
      BY <1>2, <1>9 DEF Nexts
    <3>2. s.op = None
      BY <1>9 DEF Good, Sound, Queued, next
    <3> QED  BY <3>1, <3>2 DEF Resolutions
  <2>3. s.approval # None /\ c = s.approval.call /\ (\A i \in DOMAIN s.controls : s.controls[i].k # "approval")
    BY <1>3, <1>6, <1>9 DEF Dealt, Resolved, Deciding, next
  <2>4. /\ x.calls = u.calls /\ x.op = None /\ x.ops = u.ops /\ x.approval = None /\ x.pending = None
        /\ x.controls = u.controls /\ x.stopping = u.stopping /\ x.finishing = u.finishing /\ HasParts(x)
    BY <1>3, <2>2 DEF HasParts, Answer
  <2> HIDE DEF x, v, c, b, Calls
  <2>5. /\ InOp(x) = {} /\ InRequest(x) = {} /\ InRecord(x) = {} /\ Queue(x) = Queue(u)
        /\ InOp(u) = {} /\ InRequest(u) = {CallId(c)} /\ InRecord(u) = {}
        /\ ~Modelling(x) /\ ~Expanding(x) /\ ~Expanding(u) /\ ~Deciding(x)
    BY <1>3, <2>2, <2>3, <2>4 DEF InOp, InRequest, InRecord, Queue, Modelling, Expanding, Deciding
  <2>6. Dealt(u, L, {})
    BY <1>5, <1>9
  <2>7. Open(x, {CallId(c)}) = Open(u, {}) /\ Hand(u) = {CallId(c)} /\ Hand(x) = {} /\ Reckoned(u, L, {})
    BY <2>5, <2>6 DEF Open, Hand, Dealt
  <2>8. /\ \A m, n \in DOMAIN x.calls : CallId(x.calls[m]) = CallId(x.calls[n]) => m = n
        /\ Queue(x) \cap (Hand(x) \cup {CallId(c)}) = {}
    BY <2>4, <2>5, <2>7 DEF Reckoned, Once
  <2>9. Reckoned(x, L, {CallId(c)})
    BY <1>1, <1>3, <2>4, <2>5, <2>7, <2>8, Moved
  <2>10. Due(x, L) /\ Alone(x)
    BY <2>4, <2>5 DEF Due, Alone
  <2>11. Resolved(x)
    BY <1>3, <2>3, <2>4, <2>5, <2>6 DEF Dealt, Resolved
  <2>12. Dealt(x, L, {CallId(c)})
    BY <2>9, <2>10, <2>11 DEF Dealt
  <2> QED  BY <1>1, <1>3, <2>1, <2>2, <2>4, <2>12, DecideDealt
<1>10. CASE next.k = "approval"
  <2> DEFINE c == next.arg
             q == [k |-> "approval", call |-> c, resolving |-> FALSE]
             x == [u EXCEPT !.status = "waiting_approval", !.approval = q]
  <2>1. b = x
    BY <1>10 DEF Resume
  <2>2. Dealt(u, L, {CallId(c)})
    BY <1>4, <1>10 DEF Held
  <2>3. s.approval = None
    BY <1>10 DEF Dealt, Alone, next
  <2>4. q # None /\ q.call = c
    BY DEF None
  <2> HIDE DEF q, c, b
  <2>5. /\ x.calls = u.calls /\ x.op = u.op /\ x.ops = u.ops /\ x.approval = q /\ x.pending = None
        /\ x.controls = u.controls /\ x.stopping = u.stopping /\ x.finishing = u.finishing
    BY <1>3 DEF HasParts
  <2> HIDE DEF x
  <2>6. u.ops \in Nat /\ u.approval = None
    BY <1>1, <1>3, <2>3
  <2>7. Dealt(x, L, {})
    BY <1>3, <2>2, <2>4, <2>5, <2>6, RequestedDealt
  <2> QED  BY <2>1, <2>7
<1>11. CASE next.k = "settled"
  <2>1. LET t == [u EXCEPT !.op = None]
        IN  Dealt(IF u.op.kind = "model" THEN ModelResult(t, u.op.id, s.pending.next.arg)
                  ELSE ToolResult(t, u.op.id, u.op.call), L, {})
    BY <1>2, <1>5, <1>11, SettledDealt, Zenon DEF next
  <2>2. b = LET t == [u EXCEPT !.op = None]
            IN  IF u.op.kind = "model" THEN ModelResult(t, u.op.id, s.pending.next.arg)
                ELSE ToolResult(t, u.op.id, u.op.call)
    BY <1>11 DEF Resume
  <2> HIDE DEF b
  <2> QED  BY <2>1, <2>2
<1>12. CASE next.k = "turn"
  <2>1. next.arg \in Turned /\ rec.what = next.arg
    BY <1>2, <1>12 DEF Nexts, Turned, Good, Sound, Written, Fits, rec, next
  <2>2. s.calls = <<>> /\ s.approval = None
    BY <1>12 DEF Dealt, Alone, Expanding, next
  <2>3. s.op = None
    <3>1. rec.type = "model_completed"
      BY <1>12 DEF Good, Sound, Written, Fits, rec, next
    <3> QED  BY <3>1 DEF Good, Sound, Phase, At, PendingType, Stages, Completion, Idle, rec
  <2>4. Dealt(u, L, IF next.arg.k = "turn" THEN CallsOf(rec) ELSE {})
    BY <1>4, <1>12 DEF Held
  <2>5. b = AfterTurn(u, rec.op, next.arg)
    BY <1>12 DEF Resume
  <2> HIDE DEF b, rec, next
  <2>6. Dealt(AfterTurn(u, rec.op, next.arg), L, {})
    BY <1>2, <1>3, <1>6, <1>12, <2>1, <2>2, <2>3, <2>4, AfterTurnDealt
  <2> QED  BY <2>5, <2>6
<1>13. CASE next.k = "model_failed"
  <2>1. b \in {u, Finish(u, "failed")}
    BY <1>13 DEF Resume
  <2>2. Like(u, Finish(u, "failed"), L)
    BY <1>3, WritersLike
  <2> QED  BY <1>3, <1>5, <1>13, <2>1, <2>2, LikeDealt
<1>14. CASE next.k = "finish"
  <2>1. b = [u EXCEPT !.status = next.arg, !.approval = None, !.calls = <<>>,
                      !.steer = <<>>, !.asked = @ \ u.waiters, !.waiters = {}]
    BY <1>14 DEF Resume
  <2>2. s.finishing
    <3>1. rec.type = "finished"
      BY <1>14 DEF Good, Sound, Written, Fits, rec, next
    <3> QED  BY <3>1 DEF Good, Sound, Ending, At, PendingType, Stages, rec
  <2>3. /\ b.finishing = u.finishing /\ b.pending = None /\ b.op = u.op /\ b.ops = u.ops
        /\ b.approval = None /\ b.calls = <<>>
    BY <1>3, <2>1 DEF HasParts
  <2> HIDE DEF b
  <2> QED  BY <1>1, <1>3, <1>5, <1>14, <2>2, <2>3, FinishedDealt
<1>15. next.k \in {"advance", "paused", "event", "model_failed", "pause", "continue", "steer", "approve",
                   "approval", "effect", "settled", "turn", "finish"}
  BY <1>2 DEF Nexts
<1> QED  BY <1>7, <1>8, <1>9, <1>10, <1>11, <1>12, <1>13, <1>14, <1>15

-----------------------------------------------------------------------------
(* The sink stores a record.                                               *)

\* What the log tells of calls, with one record more.
LEMMA ToldByMore ==
    ASSUME NEW L \in Seq(Recs), NEW r \in Recs
    PROVE  LET M == Append(L, r)
               n == Len(L) + 1
           IN  /\ n \in DOMAIN M /\ M[n] = r /\ Len(M) = n /\ DOMAIN L \subseteq DOMAIN M
               /\ \A i \in DOMAIN L : i \in Nat /\ i < n /\ M[i] = L[i]
               /\ \A i \in DOMAIN M : i \in DOMAIN L \/ i = n
               /\ ResultsOf(M) = ResultsOf(L) \cup (IF r.type = "tool_completed" THEN {n} ELSE {})
               /\ Answered(M) = Answered(L) \cup (IF r.type = "tool_completed" THEN {r.what} ELSE {})
               /\ TurnsOf(M) = TurnsOf(L) \cup (IF r.type = "model_completed" /\ r.what.k = "turn" THEN {n} ELSE {})
<1> DEFINE M == Append(L, r)
           n == Len(L) + 1
<1> HIDE DEF Recs
<1>1. /\ n \in Nat /\ DOMAIN L = 1 .. Len(L) /\ DOMAIN M = 1 .. n /\ M[n] = r /\ Len(M) = n
      /\ \A i \in DOMAIN L : M[i] = L[i]
      /\ Len(L) \in Nat
  OBVIOUS
<1> HIDE DEF M
<1>2. /\ n \in DOMAIN M /\ DOMAIN L \subseteq DOMAIN M /\ n \notin DOMAIN L
      /\ \A i \in DOMAIN L : i \in Nat /\ i < n
      /\ \A i \in DOMAIN M : i \in DOMAIN L \/ i = n
  BY <1>1
<1> HIDE DEF n
<1>3. ResultsOf(M) = ResultsOf(L) \cup (IF r.type = "tool_completed" THEN {n} ELSE {})
  BY <1>1, <1>2 DEF ResultsOf
<1>4. Answered(M) = Answered(L) \cup (IF r.type = "tool_completed" THEN {r.what} ELSE {})
  <2>1. \A j \in ResultsOf(L) : M[j].what = L[j].what
    BY <1>1 DEF ResultsOf
  <2> QED  BY <1>1, <1>3, <2>1 DEF Answered
<1>5. TurnsOf(M) = TurnsOf(L) \cup (IF r.type = "model_completed" /\ r.what.k = "turn" THEN {n} ELSE {})
  BY <1>1, <1>2 DEF TurnsOf
<1> QED  BY <1>1, <1>2, <1>3, <1>4, <1>5 DEF M, n

LEMMA StoredDealt ==
    ASSUME NEW s, NEW w, NEW L \in Seq(Recs), Good(s, w, L), Dealt(s, L, {}), Past(L),
           s.pending # None, ~s.pending.committed,
           NEW t, t = [s EXCEPT !.pending.committed = TRUE]
    PROVE  Dealt(t, Append(L, s.pending.rec), {}) /\ Past(Append(L, s.pending.rec))
<1> DEFINE p == [s.pending EXCEPT !.committed = TRUE]
           r == s.pending.rec
           M == Append(L, r)
           n == Len(L) + 1
<1>1. s \in Runs /\ s.pending \in Appends /\ r \in Recs /\ s.ops \in Nat /\ s.pending.next \in Nexts
  <2>1. s \in Runs
    BY DEF Good
  <2> QED  BY <2>1, PendingTypes DEF Runs
<1>2. p # None /\ p.next = s.pending.next /\ p.rec = r /\ p.committed
  BY <1>1 DEF Appends, None
<1>3. /\ t.calls = s.calls /\ t.op = s.op /\ t.ops = s.ops /\ t.approval = s.approval /\ t.pending = p
      /\ t.controls = s.controls /\ t.stopping = s.stopping /\ t.finishing = s.finishing
  BY <1>1 DEF Runs
<1> HIDE DEF p
<1>4. /\ n \in DOMAIN M /\ M[n] = r /\ Len(M) = n /\ DOMAIN L \subseteq DOMAIN M
      /\ \A i \in DOMAIN L : i \in Nat /\ i < n /\ M[i] = L[i]
      /\ \A i \in DOMAIN M : i \in DOMAIN L \/ i = n
      /\ ResultsOf(M) = ResultsOf(L) \cup (IF r.type = "tool_completed" THEN {n} ELSE {})
      /\ Answered(M) = Answered(L) \cup (IF r.type = "tool_completed" THEN {r.what} ELSE {})
      /\ TurnsOf(M) = TurnsOf(L) \cup (IF r.type = "model_completed" /\ r.what.k = "turn" THEN {n} ELSE {})
  BY <1>1, ToldByMore
<1>5. n \in Nat
  <2> HIDE DEF Recs
  <2> QED  OBVIOUS
<1>6. r.type = "model_completed" <=> s.pending.next.k = "turn"
  <2>1. Fits(s.pending.next, r.type, r.what)
    BY DEF Good, Sound, Written
  <2>2. s.pending.next.k \in {"advance", "paused", "event", "model_failed", "pause", "continue", "steer", "approve",
                              "approval", "effect", "settled", "turn", "finish"}
    BY <1>1 DEF Nexts
  <2> HIDE DEF r
  <2> QED  BY <2>1, <2>2 DEF Fits, Admission, Start
<1>7. r.type = "tool_completed" => s.pending.next.k # "approval" /\ s.op = None /\ s.approval = None
  <2>1. Fits(s.pending.next, r.type, r.what)
    BY DEF Good, Sound, Written
  <2>2. r.type = "tool_completed" => s.op = None
    BY DEF Good, Sound, Phase, At, PendingType, Stages, Completion, Idle
  <2> QED  BY <2>1, <2>2 DEF Fits, Dealt, Alone
<1> HIDE DEF M, n, r
<1>8. /\ InOp(t) = InOp(s) /\ InRequest(t) = InRequest(s) /\ Queue(t) = Queue(s)
      /\ (Modelling(t) <=> Modelling(s)) /\ (Expanding(t) <=> Expanding(s)) /\ (Deciding(t) <=> Deciding(s))
  <2>1. InOp(t) = InOp(s) /\ InRequest(t) = InRequest(s) /\ Queue(t) = Queue(s) /\ (Modelling(t) <=> Modelling(s))
    BY <1>3 DEF InOp, InRequest, Queue, Modelling
  <2>2. (Expanding(t) <=> Expanding(s)) /\ (Deciding(t) <=> Deciding(s))
    BY <1>2, <1>3 DEF Expanding, Deciding
  <2> QED  BY <2>1, <2>2
<1>9. IF r.type = "tool_completed"
      THEN InRecord(s) = {r.what} /\ InRecord(t) = {} /\ InOp(s) = {} /\ InRequest(s) = {}
           /\ ~Modelling(s) /\ ~Expanding(s)
      ELSE InRecord(t) = InRecord(s)
  BY <1>2, <1>3, <1>6, <1>7 DEF InRecord, InOp, InRequest, Modelling, Expanding, r
<1>10. Open(s, {}) \cap Answered(L) = {} /\ Queue(s) \cap Hand(s) = {}
  BY DEF Dealt, Reckoned, Once
<1>11. IF r.type = "tool_completed"
       THEN Open(s, {}) = Open(t, {}) \cup {r.what} /\ r.what \notin Open(t, {}) /\ Hand(t) = {}
       ELSE Open(s, {}) = Open(t, {}) /\ Hand(t) = Hand(s)
  BY <1>8, <1>9, <1>10 DEF Open, Hand
<1>12. Once(t, M, {})
  <2>1. Open(t, {}) \cap Answered(M) = {}
    BY <1>4, <1>10, <1>11
  <2>2. \A i, j \in DOMAIN t.calls : CallId(t.calls[i]) = CallId(t.calls[j]) => i = j
    BY <1>3 DEF Dealt, Reckoned, Once
  <2>3. \A j, k \in ResultsOf(M) : M[j].what = M[k].what => j = k
    <3>1. \A j \in ResultsOf(L) : M[j] = L[j] /\ L[j].what \in Answered(L)
      BY <1>4 DEF ResultsOf, Answered
    <3>2. \A j, k \in ResultsOf(L) : L[j].what = L[k].what => j = k
      BY DEF Dealt, Reckoned, Once
    <3>3. r.type = "tool_completed" => r.what \notin Answered(L)
      BY <1>10, <1>11
    <3> QED  BY <1>4, <3>1, <3>2, <3>3
  <2>4. Queue(t) \cap (Hand(t) \cup {}) = {}
    BY <1>8, <1>10, <1>11
  <2> QED  BY <2>1, <2>2, <2>3, <2>4 DEF Once
<1>13. Parents(t, M, {})
  <2>1. Open(t, {}) \cup Answered(M) = Open(s, {}) \cup Answered(L)
    BY <1>4, <1>11
  <2>2. Modelling(t) \/ Expanding(t) => Answered(M) = Answered(L)
    BY <1>4, <1>8, <1>9
  <2> QED  BY <1>3, <1>8, <2>1, <2>2 DEF Dealt, Reckoned, Parents
<1>14. Served(t, M, {})
  <2> SUFFICES ASSUME ~t.stopping, ~t.finishing, NEW i \in TurnsOf(M)
               PROVE  \/ CallsOf(M[i]) \subseteq Answered(M) \cup Open(t, {})
                      \/ i = Len(M) /\ Expanding(t) /\ t.pending.committed
    BY DEF Served
  <2>1. CASE i \in TurnsOf(L)
    <3>1. CallsOf(L[i]) \subseteq Answered(L) \cup Open(s, {})
      BY <1>3, <2>1 DEF Dealt, Reckoned, Served
    <3>2. M[i] = L[i]
      BY <1>4, <2>1 DEF TurnsOf
    <3> QED  BY <1>4, <1>11, <3>1, <3>2
  <2>2. CASE i \notin TurnsOf(L)
    <3>1. i = n /\ r.type = "model_completed"
      BY <1>4, <2>2
    <3>2. Expanding(t) /\ t.pending.committed
      BY <1>2, <1>3, <1>6, <3>1 DEF Expanding
    <3> QED  BY <1>4, <3>1, <3>2
  <2> QED  BY <2>1, <2>2
<1>15. Due(t, M) /\ Alone(t) /\ Resolved(t)
  BY <1>2, <1>3, <1>8 DEF Dealt, Due, Alone, Resolved, Expanding, Deciding, r
<1>16. Past(M)
  <2> SUFFICES ASSUME NEW i \in TurnsOf(M), NEW j \in DOMAIN M, i < j, Asks(M[j]), NEW id \in CallsOf(M[i])
               PROVE  \E m \in ResultsOf(M) : m < j /\ M[m].what = id
    BY DEF Past
  <2>1. \A m \in DOMAIN M : m \in Nat /\ m <= n
    BY <1>4, <1>5
  <2>2. i \in DOMAIN M /\ i # n
    BY <1>4, <2>1 DEF TurnsOf
  <2>3. i \in TurnsOf(L) /\ M[i] = L[i]
    BY <1>4, <2>2 DEF TurnsOf
  <2>4. \A m \in ResultsOf(L) : m \in ResultsOf(M) /\ M[m] = L[m] /\ m < n
    BY <1>4 DEF ResultsOf
  <2>5. CASE j = n
    <3>1. AllAnswered(L)
      BY <1>4, <2>5 DEF Dealt, Due, r
    <3>2. id \in Answered(L)
      BY <2>3, <3>1 DEF AllAnswered
    <3>3. PICK m \in ResultsOf(L) : L[m].what = id
      BY <3>2 DEF Answered
    <3> QED  BY <2>4, <2>5, <3>3
  <2>6. CASE j # n
    <3>1. j \in DOMAIN L /\ M[j] = L[j]
      BY <1>4, <2>6
    <3>2. PICK m \in ResultsOf(L) : m < j /\ L[m].what = id
      BY <2>3, <3>1 DEF Past
    <3> QED  BY <2>4, <3>2
  <2> QED  BY <2>5, <2>6
<1> QED  BY <1>12, <1>13, <1>14, <1>15, <1>16 DEF Dealt, Reckoned, M, r

-----------------------------------------------------------------------------
(* Each step.                                                              *)

CallsKept == Dealt(run', log, {}) /\ log' = log

\* drive/1 at the end of a handler that left the run as b.
LEMMA GoDealt ==
    ASSUME NEW b \in Runs, Dealt(b, log, {}), Go(b), log' = log PROVE CallsKept
<1>1. PICK spawned \in BOOLEAN : run' = Drive(b, spawned)
  BY DEF Go, Become
<1> QED  BY <1>1, DriveDealt DEF CallsKept

\* A control is put at one end of the queue.
LEMMA QueuedDealt ==
    ASSUME NEW s \in Runs, NEW L, Dealt(s, L, {}), NEW c \in Controls, c.k # "approval",
           NEW cs, Joined(s.controls, c, cs),
           NEW b, b.controls = cs, b.calls = s.calls, b.op = s.op, b.ops = s.ops, b.approval = s.approval,
           b.pending = s.pending, b.stopping = s.stopping, b.finishing = s.finishing
    PROVE  Dealt(b, L, {})
<1>1. s.controls \in Seq(Controls)
  BY DEF Runs
<1>2. ~s.finishing => OneDecision(s.controls)
  BY DEF Dealt, Resolved
<1>3. ASSUME OneDecision(s.controls)
      PROVE  OneDecision(cs) /\ \A i \in DOMAIN cs : cs[i] = c \/ \E j \in DOMAIN s.controls : cs[i] = s.controls[j]
  <2> HIDE DEF Controls
  <2>1. c.k = "approval" => \A i \in DOMAIN s.controls : s.controls[i].k # "approval"
    OBVIOUS
  <2> QED  BY <1>1, <1>3, <2>1, OneMore
<1>4. Requeued(s, b, cs)
  BY DEF Requeued
<1>5. CASE ~s.finishing
  BY <1>2, <1>3, <1>4, <1>5, RequeuedDealt
<1>6. CASE s.finishing
  <2>1. Like(s, s, L) /\ InOp(b) = InOp(s) /\ InRequest(b) = InRequest(s) /\ InRecord(b) = InRecord(s)
    BY RunParts DEF InOp, InRequest, InRecord
  <2>2. /\ Open(b, {}) = Open(s, {}) /\ Hand(b) = Hand(s) /\ Queue(b) = Queue(s)
        /\ (Modelling(b) <=> Modelling(s)) /\ (Expanding(b) <=> Expanding(s))
    BY <2>1 DEF Open, Hand, Queue, Modelling, Expanding
  <2>3. Once(b, L, {}) /\ Parents(b, L, {}) /\ Served(b, L, {})
    BY <2>2 DEF Dealt, Reckoned, Once, Parents, Served
  <2>4. Due(b, L) /\ Alone(b) /\ Resolved(b)
    BY <1>6, <2>2 DEF Dealt, Due, Alone, Resolved
  <2> QED  BY <2>3, <2>4 DEF Dealt, Reckoned
<1> QED  BY <1>5, <1>6

\* A command is queued for its turn.
LEMMA CommandDealt ==
    ASSUME NEW s \in Runs, Dealt(s, log, {}), NEW c \in Controls, c.k # "approval", c.from \in Clients,
           Enqueue(s, c), log' = log
    PROVE  CallsKept
<1> DEFINE cs == Append(s.controls, c)
           b == [s EXCEPT !.asked = @ \cup {c.from}, !.controls = cs]
<1>1. s.controls \in Seq(Controls) /\ cs \in Seq(Controls)
  <2>1. s.controls \in Seq(Controls)
    BY DEF Runs
  <2> HIDE DEF Controls
  <2> QED  BY <2>1
<1>2. Go(b)
  BY DEF Enqueue
<1>3. Joined(s.controls, c, cs)
  BY DEF Joined
<1> HIDE DEF cs
<1>4. /\ b \in Runs /\ b.controls = cs /\ b.calls = s.calls /\ b.op = s.op /\ b.ops = s.ops
      /\ b.approval = s.approval /\ b.pending = s.pending /\ b.stopping = s.stopping
      /\ b.finishing = s.finishing
  <2> HIDE DEF Controls
  <2> QED  BY <1>1 DEF Runs
<1> HIDE DEF b
<1>5. Dealt(b, log, {})
  <2> HIDE DEF Controls, Runs
  <2> QED  BY <1>3, <1>4, QueuedDealt
<1> QED  BY <1>2, <1>4, <1>5, GoDealt

LEMMA CommandsDealt ==
    ASSUME run \in Runs, Dealt(run, log, {}), issued \in Nat, NEW c \in Clients, Pause(c) \/ Continue(c) \/ Steer(c)
    PROVE  CallsKept
<1>0. log' = log
  BY DEF Pause, Continue, Steer
<1>1. ASSUME Pause(c) PROVE CallsKept
  <2> DEFINE d == [k |-> "pause", from |-> c]
  <2>1. d \in Controls /\ d.k = "pause" /\ d.from = c
    BY DEF Controls, Pauses
  <2>2. Enqueue(run, d)
    BY <1>1 DEF Pause
  <2> HIDE DEF d
  <2> QED  BY <1>0, <2>1, <2>2, CommandDealt
<1>2. ASSUME Continue(c) PROVE CallsKept
  <2> DEFINE d == [k |-> "continue", from |-> c]
  <2>1. d \in Controls /\ d.k = "continue" /\ d.from = c
    BY DEF Controls, Continues
  <2>2. Enqueue(run, d)
    BY <1>2 DEF Continue
  <2> HIDE DEF d
  <2> QED  BY <1>0, <2>1, <2>2, CommandDealt
<1>3. ASSUME Steer(c) PROVE CallsKept
  <2> DEFINE d == [k |-> "steer", from |-> c, id |-> issued + 1]
  <2>0. issued + 1 \in Nat
    OBVIOUS
  <2>1. d \in Controls /\ d.k = "steer" /\ d.from = c
    BY <2>0 DEF Controls, Steers
  <2>2. Enqueue(run, d)
    BY <1>3 DEF Steer
  <2> HIDE DEF d
  <2> QED  BY <1>0, <2>1, <2>2, CommandDealt
<1> QED  BY <1>1, <1>2, <1>3

\* The first decision on a request is the only one.
LEMMA ApproveDealt ==
    ASSUME run \in Runs, Dealt(run, log, {}), NEW c \in Clients, NEW decision \in Decisions, Approve(c, decision)
    PROVE  CallsKept
<1> DEFINE q == [run.approval EXCEPT !.resolving = TRUE]
           d == [k |-> "approval", from |-> c, call |-> run.approval.call, decision |-> decision]
           cs == Append(run.controls, d)
           s == [run EXCEPT !.approval.resolving = TRUE]
           b == [s EXCEPT !.asked = @ \cup {c}, !.controls = Append(@, d)]
<1>1. run.approval # None /\ ~run.approval.resolving /\ Go(b) /\ log' = log
  BY DEF Approve, Enqueue
<1>2. run.approval \in Requests
  BY <1>1 DEF Runs
<1>3. /\ run.approval.call \in Calls /\ q \in Requests /\ q.resolving /\ q.call = run.approval.call
  <2> HIDE DEF Calls
  <2> QED  BY <1>2 DEF Requests
<1>4. s = [run EXCEPT !.approval = q]
  BY <1>2 DEF Runs, Requests
<1>5. d \in Controls /\ d.k = "approval" /\ d.call = run.approval.call
  <2> HIDE DEF Calls
  <2> QED  BY <1>3 DEF Controls, Resolutions
<1>6. q # None
  BY <1>3, NoneApart
<1>7. run.controls \in Seq(Controls) /\ cs \in Seq(Controls)
  <2>1. run.controls \in Seq(Controls)
    BY DEF Runs
  <2> HIDE DEF Controls, d
  <2> QED  BY <1>5, <2>1
<1>8. Joined(run.controls, d, cs)
  BY DEF Joined
<1>9. b = [s EXCEPT !.asked = @ \cup {c}, !.controls = cs] /\ s.controls = run.controls
  BY <1>4 DEF Runs
<1> HIDE DEF q, s, d, cs, b
<1>10. /\ b \in Runs /\ b.controls = cs /\ b.calls = run.calls /\ b.op = run.op /\ b.ops = run.ops
       /\ b.approval = q /\ b.pending = run.pending /\ b.stopping = run.stopping
       /\ b.finishing = run.finishing
  <2> HIDE DEF Controls, Requests
  <2> QED  BY <1>3, <1>4, <1>7, <1>9 DEF Runs
<1>11. InOp(b) = InOp(run) /\ InRequest(b) = InRequest(run) /\ InRecord(b) = InRecord(run)
  BY <1>1, <1>3, <1>6, <1>10 DEF InOp, InRequest, InRecord
<1>12. /\ Open(b, {}) = Open(run, {}) /\ Hand(b) = Hand(run) /\ Queue(b) = Queue(run)
       /\ (Modelling(b) <=> Modelling(run)) /\ (Expanding(b) <=> Expanding(run))
       /\ (Deciding(b) <=> Deciding(run))
  BY <1>10, <1>11 DEF Open, Hand, Queue, Modelling, Expanding, Deciding
<1>13. Once(b, log, {}) /\ Parents(b, log, {}) /\ Served(b, log, {})
  BY <1>10, <1>12 DEF Dealt, Reckoned, Once, Parents, Served
<1>14. Due(b, log) /\ Alone(b)
  BY <1>1, <1>6, <1>10, <1>12 DEF Dealt, Due, Alone
<1>15. Resolved(b)
  <2> SUFFICES ASSUME ~run.finishing PROVE Resolved(b)
    BY <1>10 DEF Resolved
  <2>1. OneDecision(run.controls) /\ (\A i \in DOMAIN run.controls : run.controls[i].k # "approval") /\ ~Deciding(run)
    BY <1>1 DEF Dealt, Resolved
  <2>2. OneDecision(cs) /\ \A i \in DOMAIN cs : cs[i] = d \/ \E j \in DOMAIN run.controls : cs[i] = run.controls[j]
    <3> HIDE DEF Controls
    <3>1. d.k = "approval" => \A i \in DOMAIN run.controls : run.controls[i].k # "approval"
      BY <2>1
    <3> QED  BY <1>5, <1>7, <1>8, <2>1, <3>1, OneMore
  <2>3. \A i \in DOMAIN cs : cs[i].k = "approval" => cs[i] = d
    BY <2>1, <2>2
  <2> QED  BY <1>3, <1>5, <1>6, <1>10, <1>12, <2>1, <2>2, <2>3 DEF Resolved
<1>16. Dealt(b, log, {})
  BY <1>13, <1>14, <1>15 DEF Dealt, Reckoned
<1> QED  BY <1>1, <1>10, <1>16, GoDealt

\* A stop and a timeout set flags, cancel the task and note it.
LEMMA StopDealt ==
    ASSUME run \in Runs, Dealt(run, log, {}), (\E c \in Clients : Stop(c)) \/ OperationTimeout
    PROVE  CallsKept
<1>1. PICK t \in Runs, d \in [k : {"stop", "timeout"}] :
        Like(run, t, log) /\ t.pending = run.pending /\ Go([CancelOperation(t) EXCEPT !.controls = <<d>> \o @])
  <2>1. ASSUME NEW c \in Clients, Stop(c)
        PROVE  \E t \in Runs, d \in [k : {"stop", "timeout"}] :
                 /\ Like(run, t, log) /\ t.pending = run.pending
                 /\ Go([CancelOperation(t) EXCEPT !.controls = <<d>> \o @])
    <3> DEFINE t == [run EXCEPT !.stopping = TRUE]
    <3>1. t \in Runs /\ Like(run, t, log) /\ t.pending = run.pending
      BY DEF Like, Runs, HasParts, SameOp
    <3>2. [k |-> "stop"] \in [k : {"stop", "timeout"}]
      OBVIOUS
    <3>3. Go([CancelOperation(t) EXCEPT !.controls = <<[k |-> "stop"]>> \o @])
      BY <2>1 DEF Stop
    <3> HIDE DEF t
    <3> QED  BY <3>1, <3>2, <3>3
  <2>2. ASSUME OperationTimeout
        PROVE  \E t \in Runs, d \in [k : {"stop", "timeout"}] :
                 /\ Like(run, t, log) /\ t.pending = run.pending
                 /\ Go([CancelOperation(t) EXCEPT !.controls = <<d>> \o @])
    <3> DEFINE q == [run.op EXCEPT !.timer = FALSE]
               t == [run EXCEPT !.timedOut = TRUE, !.stopping = TRUE, !.op.timer = FALSE]
    <3>1. run.op # None /\ Go([CancelOperation(t) EXCEPT !.controls = <<[k |-> "timeout"]>> \o @])
      BY <2>2 DEF OperationTimeout
    <3>2. run.op \in Ops
      BY <3>1 DEF Runs
    <3>3. q \in Ops /\ q.kind = run.op.kind /\ q.call = run.op.call
      <4> HIDE DEF Calls, Answers
      <4> QED  BY <3>2 DEF Ops
    <3>4. q # None
      BY <3>3, NoneApart
    <3>5. t = [run EXCEPT !.timedOut = TRUE, !.stopping = TRUE, !.op = q]
      BY <3>2 DEF Runs, Ops
    <3> HIDE DEF q, t, Ops
    <3>6. t \in Runs /\ Like(run, t, log) /\ t.pending = run.pending
      BY <3>1, <3>3, <3>4, <3>5 DEF Like, Runs, HasParts, SameOp
    <3>7. [k |-> "timeout"] \in [k : {"stop", "timeout"}]
      OBVIOUS
    <3> QED  BY <3>1, <3>6, <3>7
  <2> QED  BY <2>1, <2>2
<1> DEFINE u == CancelOperation(t)
           cs == <<d>> \o u.controls
           b == [u EXCEPT !.controls = cs]
<1>2. Dealt(t, log, {})
  BY <1>1, LikeDealt
<1>3. u \in Runs /\ Like(t, u, log) /\ u.pending = t.pending
  <2>1. HasParts(t)
    BY RunParts
  <2>2. CancelOperation(t) = t \/ (t.op # None /\ t.op.task)
    BY DEF CancelOperation
  <2>3. CASE t.op # None /\ t.op.task
    <3> DEFINE m == IF t.op.kind = "tool" /\ t.op.call.kind = "command" THEN "cancel" ELSE "kill"
               q == [t.op EXCEPT !.sent = @ \cup {m}]
    <3>1. t.op \in Ops /\ m \in {"cancel", "kill"}
      BY <2>3 DEF Runs
    <3>2. u = [t EXCEPT !.op = q]
      BY <2>3, <3>1 DEF CancelOperation, Runs, Ops
    <3> HIDE DEF m
    <3>3. q \in Ops
      <4> HIDE DEF Calls, Answers
      <4> QED  BY <3>1 DEF Ops
    <3> HIDE DEF q, u, Ops
    <3>4. u \in Runs /\ u.pending = t.pending
      BY <3>2, <3>3 DEF Runs
    <3> QED  BY <2>1, <3>4, WritersLike DEF u
  <2> QED  BY <2>1, <2>2, <2>3, WritersLike, RunParts
<1>4. Dealt(u, log, {}) /\ Go(b)
  BY <1>1, <1>2, <1>3, LikeDealt
<1>5. d \in Controls /\ d.k # "approval"
  BY DEF Controls
<1>6. cs \in Seq(Controls)
  <2>1. u.controls \in Seq(Controls)
    BY <1>3 DEF Runs
  <2> HIDE DEF Controls, u
  <2>2. <<d>> \in Seq(Controls)
    BY <1>5
  <2> QED  BY <2>1, <2>2, ConcatProperties
<1>7. Joined(u.controls, d, cs)
  BY DEF Joined
<1> HIDE DEF u, cs
<1>8. /\ b \in Runs /\ b.controls = cs /\ b.calls = u.calls /\ b.op = u.op /\ b.ops = u.ops
      /\ b.approval = u.approval /\ b.pending = u.pending /\ b.stopping = u.stopping
      /\ b.finishing = u.finishing
  <2> HIDE DEF Controls
  <2> QED  BY <1>3, <1>6 DEF Runs
<1> HIDE DEF b
<1>9. Dealt(b, log, {})
  <2> HIDE DEF Controls, Runs
  <2> QED  BY <1>3, <1>4, <1>5, <1>7, <1>8, QueuedDealt
<1>10. log' = log
  BY DEF Stop, OperationTimeout
<1> QED  BY <1>4, <1>8, <1>9, <1>10, GoDealt

\* A message of the task: its progress is a control for the run, its answer is
\* kept with the operation, its end lets the run go on.
LEMMA MessageDealt ==
    ASSUME Ready, Dealt(run, log, {}), OperationEvent \/ OperationResult \/ OperationDown
    PROVE  CallsKept
<1>0. run \in Runs /\ run.op # None /\ worker \in Tasks /\ worker.out # <<>> /\ HasParts(run)
  BY RunParts DEF Ready, Whole, Good, OperationEvent, OperationResult, OperationDown, Message
<1>1. log' = log
  BY DEF OperationEvent, OperationResult, OperationDown
<1>2. run.op \in Ops
  BY <1>0 DEF Runs
<1>3. CASE OperationEvent
  <2> DEFINE d == [k |-> "event"]
             cs == Append(run.controls, d)
             b == [run EXCEPT !.controls = cs]
  <2>1. run' = Drive(b, TRUE)
    BY <1>3 DEF OperationEvent
  <2>2. d \in Controls /\ d.k # "approval"
    BY DEF Controls
  <2>3. run.controls \in Seq(Controls) /\ cs \in Seq(Controls)
    <3>1. run.controls \in Seq(Controls)
      BY <1>0 DEF Runs
    <3> HIDE DEF Controls, d
    <3> QED  BY <2>2, <3>1
  <2>4. Joined(run.controls, d, cs)
    BY DEF Joined
  <2> HIDE DEF d, cs
  <2>5. /\ b \in Runs /\ b.controls = cs /\ b.calls = run.calls /\ b.op = run.op /\ b.ops = run.ops
        /\ b.approval = run.approval /\ b.pending = run.pending /\ b.stopping = run.stopping
        /\ b.finishing = run.finishing
    <3> HIDE DEF Controls
    <3> QED  BY <1>0, <2>3 DEF Runs
  <2> HIDE DEF b
  <2>6. Dealt(b, log, {})
    <3> HIDE DEF Controls, Runs
    <3> QED  BY <1>0, <2>2, <2>4, <2>5, QueuedDealt
  <2> QED  BY <1>1, <2>1, <2>5, <2>6, DriveDealt DEF CallsKept
<1>4. ASSUME NEW o \in Ops, o.kind = run.op.kind, o.call = run.op.call, NEW b, b = [run EXCEPT !.op = o]
      PROVE  b \in Runs /\ Dealt(b, log, {})
  <2>1. b \in Runs /\ b.pending = run.pending
    <3> HIDE DEF Ops
    <3> QED  BY <1>0, <1>4 DEF Runs
  <2>2. Like(run, b, log)
    <3> HIDE DEF Ops
    <3> QED  BY <1>0, <1>4, OpLike
  <2> QED  BY <2>1, <2>2, LikeDealt
<1>5. CASE OperationResult
  <2> DEFINE o == [run.op EXCEPT !.result = Head(worker.out)]
  <2>1. run' = [run EXCEPT !.op = o]
    BY <1>0, <1>2, <1>5 DEF OperationResult, Runs, Ops
  <2>2. o \in Ops /\ o.kind = run.op.kind /\ o.call = run.op.call
    <3>1. Head(worker.out) \in Messages /\ Head(worker.out).k \in {"turn", "cut", "error", "text"}
      <4>1. worker.out \in Seq(Messages)
        BY <1>0 DEF Tasks
      <4> HIDE DEF Messages
      <4> QED  BY <1>0, <1>5, <4>1 DEF OperationResult, Message
    <3>2. Head(worker.out) \in Answers
      BY <3>1 DEF Messages
    <3> HIDE DEF Answers, Calls
    <3> QED  BY <1>2, <3>2 DEF Ops
  <2> HIDE DEF o
  <2> QED  BY <1>1, <1>4, <2>1, <2>2 DEF CallsKept
<1>6. CASE OperationDown
  <2> DEFINE o == [run.op EXCEPT !.timer = FALSE, !.down = "exit"]
             b == [run EXCEPT !.op = o]
  <2>1. run' = Drive(b, TRUE)
    <3>1. [run EXCEPT !.op.timer = FALSE, !.op.down = "exit"] = b
      BY <1>0, <1>2 DEF Runs, Ops
    <3> QED  BY <1>6, <3>1 DEF OperationDown
  <2>2. o \in Ops /\ o.kind = run.op.kind /\ o.call = run.op.call
    <3> HIDE DEF Answers, Calls
    <3> QED  BY <1>2 DEF Ops, Downs
  <2> HIDE DEF o
  <2>3. b \in Runs /\ Dealt(b, log, {})
    BY <1>4, <2>2
  <2> QED  BY <1>1, <2>1, <2>3, DriveDealt DEF CallsKept
<1> QED  BY <1>3, <1>5, <1>6

LEMMA AckKept ==
    ASSUME Ready, Dealt(run, log, {}), CommitAck PROVE CallsKept
<1> DEFINE b == Resume([run EXCEPT !.pending = None, !.seq = run.pending.rec.seq], run.pending.rec, run.pending.next)
<1>0. /\ worker \in Tasks /\ log \in Seq(Recs) /\ Good(run, worker, log)
      /\ run.pending # None /\ run.pending.committed /\ Go(b) /\ log' = log
  BY DEF Ready, Whole, CommitAck
<1>1. LET x == Resume([run EXCEPT !.pending = None, !.seq = run.pending.rec.seq], run.pending.rec, run.pending.next)
      IN  Good(x, worker, log) /\ Quiet(run, x)
  BY <1>0, ResumeKeeps, Zenon
<1>2. Dealt(b, log, {})
  BY <1>0, ResumeDealt, Zenon
<1>3. b \in Runs
  BY <1>1 DEF Good
<1> HIDE DEF b
<1> QED  BY <1>0, <1>2, <1>3, GoDealt

\* A client that waits for the end, and the end of the process, change no call.
LEMMA AsideDealt ==
    ASSUME run \in Runs, Dealt(run, log, {}), Fence \/ \E c \in Clients : Await(c)
    PROVE  CallsKept
<1>1. log' = log
  BY DEF Fence, Await
<1>2. /\ run'.controls = run.controls /\ run'.calls = run.calls /\ run'.op = run.op /\ run'.ops = run.ops
      /\ run'.approval = run.approval /\ run'.pending = run.pending /\ run'.stopping = run.stopping
      /\ run'.finishing = run.finishing /\ DOMAIN run' = DOMAIN run
  BY DEF Fence, Await, Runs
<1>3. Like(run, run', log)
  BY <1>2, RunParts DEF Like, HasParts, SameOp
<1>4. Dealt(run', log, {})
  BY <1>2, <1>3, LikeDealt
<1> QED  BY <1>1, <1>4 DEF CallsKept

-----------------------------------------------------------------------------
(* In every state.                                                         *)

LEMMA CallsStart == Init => CallsAnswered
<1> SUFFICES ASSUME Init PROVE CallsAnswered
  OBVIOUS
<1>1. /\ run.calls = <<>> /\ run.op = None /\ run.approval = None /\ run.controls = <<>> /\ log = <<>>
      /\ run.pending # None /\ run.pending.next.k = "advance" /\ run.pending.rec.type = "started"
      /\ ~run.pending.committed
  BY DEF Init, Then, None
<1>2. Hand(run) = {} /\ Queue(run) = {}
  BY <1>1 DEF Hand, InOp, InRequest, InRecord, Queue
<1>3. DOMAIN log = {} /\ ResultsOf(log) = {} /\ Answered(log) = {} /\ TurnsOf(log) = {}
  BY <1>1 DEF ResultsOf, Answered, TurnsOf
<1>4. Reckoned(run, log, {}) /\ Past(log) /\ Due(run, log)
  BY <1>1, <1>2, <1>3 DEF Reckoned, Once, Parents, Served, Open, Past, Due, Asks
<1>5. Alone(run) /\ Resolved(run)
  BY <1>1 DEF Alone, Resolved, OneDecision, Deciding, Expanding
<1> QED  BY <1>4, <1>5 DEF CallsAnswered, Dealt

LEMMA CallsStep ==
    ASSUME RunInv, Accounts, CallsAnswered, [Next]_vars PROVE CallsAnswered'
<1>0. /\ run \in Runs /\ issued \in Nat /\ log \in Seq(Recs) /\ Good(run, worker, log)
      /\ Dealt(run, log, {}) /\ Past(log)
  BY DEF RunInv, Whole, Good, CallsAnswered
<1>1. CallsKept => CallsAnswered'
  BY <1>0 DEF CallsKept, CallsAnswered
<1>2. run.alive => Ready
  BY DEF Ready, RunInv, Accounts
<1>3. ASSUME Handle PROVE CallsAnswered'
  <2>1. run.alive
    BY <1>3 DEF Handle, CommitAck, OperationEvent, OperationResult, OperationDown, OperationTimeout, Message
  <2> QED  BY <1>0, <1>1, <1>2, <1>3, <2>1, AckKept, MessageDealt, StopDealt DEF Handle
<1>4. ASSUME NEW c \in Clients, Command(c) PROVE CallsAnswered'
  <2>1. ASSUME NEW decision \in {"allow", "deny"}, Approve(c, decision) PROVE CallsKept
    BY <1>0, <2>1, ApproveDealt DEF Decisions
  <2> QED  BY <1>0, <1>1, <1>4, <2>1, StopDealt, CommandsDealt, AsideDealt DEF Command
<1>5. CASE SinkCommit
  <2>1. run.pending # None /\ ~run.pending.committed
    BY <1>5 DEF SinkCommit
  <2>2. run' = [run EXCEPT !.pending.committed = TRUE] /\ log' = Append(log, run.pending.rec)
    BY <1>5 DEF SinkCommit
  <2>3. Dealt(run', log', {}) /\ Past(log')
    BY <1>0, <2>1, <2>2, StoredDealt
  <2> QED  BY <2>3 DEF CallsAnswered
<1>6. CASE WorkTask \/ UNCHANGED vars
  <2>1. ASSUME NEW ms, Ends(ms) PROVE run' = run /\ log' = log
    BY <2>1 DEF Ends
  <2>2. TaskRefused \/ TaskReturns \/ TaskDies => run' = run /\ log' = log
    BY <2>1 DEF TaskRefused, TaskReturns, TaskDies
  <2>3. run' = run /\ log' = log
    BY <1>6, <2>2 DEF WorkTask, TaskBegins, TaskReports, TaskGoesOn, vars
  <2> QED  BY <1>0, <2>3 DEF CallsAnswered
<1>7. CASE Fence
  BY <1>0, <1>1, <1>7, AsideDealt
<1> QED  BY <1>3, <1>4, <1>5, <1>6, <1>7 DEF Next

\* Every call of the model's answers is either stored with a result or in
\* exactly one place on its way to one, until the run stops; nothing that needs
\* the results is written before them (tool_result/4, advance/1, model_result/3).
THEOREM RunAnswersCalls == Spec => []CallsAnswered
<1>1. Init => CallsAnswered
  BY CallsStart
<1>2. CallsAnswered /\ (RunInv /\ Accounts) /\ [Next]_vars => CallsAnswered'
  BY CallsStep
<1> QED  BY <1>1, <1>2, RunAccounts, PTL DEF Spec

LEMMA AtMostOne ==
    ASSUME NEW S, \A j, k \in S : j = k PROVE Cardinality(S) <= 1
<1>1. CASE S = {}
  <2>1. Cardinality({}) = 0
    BY FS_EmptySet
  <2> QED  BY <1>1, <2>1
<1>2. CASE S # {}
  <2>1. PICK j : S = {j}
    BY <1>2
  <2>2. Cardinality({j}) = 1
    BY FS_Singleton
  <2> QED  BY <2>1, <2>2
<1> QED  BY <1>1, <1>2

\* Before the model is asked again, and before the run completes, each call of
\* its last answer has exactly one stored result (tool_result/4, advance/1).
THEOREM RunAnsweredBeforeNext == Spec => []AnsweredBeforeNext
<1>1. CallsAnswered => AnsweredBeforeNext
  <2> SUFFICES ASSUME CallsAnswered,
                      NEW i \in Records({"model_completed"}), log[i].what.k = "turn",
                      NEW x \in DOMAIN log[i].what.calls,
                      NEW answers, answers = {j \in Records({"tool_completed"}) :
                                                log[j].what = [parent |-> log[i].op, index |-> x]}
               PROVE  /\ Cardinality(answers) <= 1
                      /\ \A j \in Records({"model_admitted", "finished"}) :
                           i < j /\ (Is(j, {"finished"}) => log[j].what = "completed") =>
                             \E k \in answers : k < j
    BY DEF AnsweredBeforeNext
  <2> DEFINE id == [parent |-> log[i].op, index |-> x]
  <2>1. i \in TurnsOf(log) /\ id \in CallsOf(log[i])
    BY DEF Records, Is, TurnsOf, CallsOf
  <2>2. answers = {j \in ResultsOf(log) : log[j].what = id}
    BY DEF Records, Is, ResultsOf
  <2> HIDE DEF id
  <2>3. \A j, k \in answers : j = k
    BY <2>2 DEF CallsAnswered, Dealt, Reckoned, Once
  <2>4. Cardinality(answers) <= 1
    BY <2>3, AtMostOne
  <2>5. ASSUME NEW j \in Records({"model_admitted", "finished"}), i < j, Is(j, {"finished"}) => log[j].what = "completed"
        PROVE  \E k \in answers : k < j
    <3>1. j \in DOMAIN log /\ Asks(log[j])
      BY <2>5 DEF Records, Is, Asks
    <3>2. PICK k \in ResultsOf(log) : k < j /\ log[k].what = id
      BY <2>1, <2>5, <3>1 DEF CallsAnswered, Past
    <3> QED  BY <2>2, <3>2
  <2> QED  BY <2>4, <2>5
<1> QED  BY <1>1, RunAnswersCalls, PTL

\* The log makes sense to its readers, whatever met while it was written: it has
\* one end, its operations follow one another, no call is left without a result
\* and no timeout is reported as something else.
THEOREM RunLogInOrder == Spec => []LogInOrder
<1>1. NothingAfterFinished /\ SettledInTurn /\ AnsweredBeforeNext /\ TimeoutFails => LogInOrder
  BY DEF LogInOrder
<1> QED  BY <1>1, RunEndsOnce, RunSettlesInTurn, RunAnsweredBeforeNext, RunTimeoutFails, PTL

-----------------------------------------------------------------------------
(* The steers.                                                             *)

\* The members of a sequence, and that one leads another.
Items(q) == {q[i] : i \in DOMAIN q}
Leads(p, q) == Len(p) <= Len(q) /\ \A i \in DOMAIN p : p[i] = q[i]

\* What the log tells: the requests that were started, the steers they were
\* admitted with, and the steers that a client was told are taken.
StartedOps(L) == {L[k].op : k \in {j \in DOMAIN L : L[j].type = "model_started"}}
Hearers(L) == {j \in DOMAIN L : L[j].type = "model_admitted" /\ L[j].op \in StartedOps(L)}
Heard(L) == UNION {Items(L[j].what) : j \in Hearers(L)}
Taken(L) == {L[i].what : i \in {j \in DOMAIN L : L[j].type = "steer_admitted"}}
AllHeard(L) == Taken(L) \subseteq Heard(L)
Completes(r) == r.type = "finished" /\ r.what = "completed"

\* Where the run has a steer: in a control, in the record that admits it, with
\* those that wait for a request, in the record that starts a request.
SteerIds(cs) == {cs[i].id : i \in {j \in DOMAIN cs : cs[j].k = "steer"}}
Steering(s) == IF s.pending # None /\ s.pending.next.k = "steer" THEN {s.pending.next.arg.id} ELSE {}
Waits(s) == Items(s.steer)
Carry(s) ==
    IF s.pending # None /\ ~s.pending.committed /\ s.pending.rec.type = "model_started"
    THEN Items(s.op.steers) ELSE {}

\* No steer is in two places, or twice in one.
OneSteer(cs) == \A i, j \in DOMAIN cs : cs[i].k = "steer" /\ cs[j].k = "steer" /\ cs[i].id = cs[j].id => i = j
Apart(s, L, n) ==
    /\ \A i, j \in DOMAIN s.steer : s.steer[i] = s.steer[j] => i = j
    /\ OneSteer(s.controls)
    /\ Carry(s) \cap Heard(L) = {}
    /\ Waits(s) \cap (Carry(s) \cup Heard(L)) = {}
    /\ Steering(s) \cap (Waits(s) \cup Carry(s) \cup Heard(L)) = {}
    /\ SteerIds(s.controls) \cap (Steering(s) \cup Waits(s) \cup Carry(s) \cup Heard(L)) = {}
    /\ SteerIds(s.controls) \cup Steering(s) \cup Waits(s) \cup Carry(s) \cup Heard(L) \subseteq 1 .. n
Single(L) == \A j, k \in Hearers(L) : j = k \/ Items(L[j].what) \cap Items(L[k].what) = {}

\* The request in hand was admitted with the steers it carries; until it is
\* started they wait in front of the others.
Carried(s, L) ==
    Modelling(s) =>
      /\ \A j \in DOMAIN L : L[j].type \in Admission /\ L[j].op = s.op.id =>
           L[j].type = "model_admitted" /\ L[j].what = s.op.steers
      /\ ~s.op.task /\ s.op.down = "no" => Leads(s.op.steers, s.steer)
      /\ ~s.op.task \/ s.op.down = "launch_failed" => s.op.result = None

\* The record on its way, if it is about a steer, a request or the end.
Unlaunched(s) == Modelling(s) /\ s.op.down = "launch_failed"
Sending(s, L) ==
    s.pending # None =>
      /\ s.pending.rec.type \in Admission /\ Modelling(s) =>
           s.pending.rec.type = "model_admitted" /\ s.pending.rec.what = s.op.steers
      /\ s.pending.rec.type = "model_started" => Modelling(s)
      /\ s.pending.next.k = "steer" => s.pending.rec.what = s.pending.next.arg.id
      /\ s.pending.next.k = "settled" /\ Unlaunched(s) => s.pending.next.arg.k = "error"
      /\ ~s.pending.committed /\ Completes(s.pending.rec) => AllHeard(L)

\* A steer that was taken is in one of the places, unless the run is ending or
\* its request could not be launched, which ends it as well.
Failing(s) == Unlaunched(s) \/ (s.pending # None /\ s.pending.next.k = "model_failed")
Reached(s, L) ==
    s.stopping \/ s.finishing \/ Failing(s)
      \/ Taken(L) \subseteq Steering(s) \cup Waits(s) \cup Carry(s) \cup Heard(L)

Placed(s, L, n) == Apart(s, L, n) /\ Carried(s, L) /\ Sending(s, L) /\ Reached(s, L)
Concluded(L) == (\E j \in DOMAIN L : Completes(L[j])) => AllHeard(L)
SteersPlaced == Placed(run, log, issued) /\ Single(log) /\ Concluded(log)

-----------------------------------------------------------------------------
(* What moves no steer.                                                    *)

HasSteers(s) == HasParts(s) /\ "steer" \in DOMAIN s

\* The request in hand is the same, though its task may have ended since.
SameRequest(s, t) ==
    /\ Modelling(t) <=> Modelling(s)
    /\ Modelling(s) =>
         /\ t.op.id = s.op.id /\ t.op.steers = s.op.steers /\ t.op.task = s.op.task
         /\ t.op.down = s.op.down \/ (s.op.down # "launch_failed" /\ t.op.down \in {"exit", "not_started"})
         /\ t.op.result = s.op.result \/ (s.op.task /\ s.op.down # "launch_failed")

\* The record on its way neither admits a steer nor is about a request, and
\* ends the run well only when it may.
Bare(t, L) ==
    /\ t.pending # None /\ ~t.pending.committed
    /\ t.pending.next.k \notin {"steer", "model_failed"} /\ t.pending.rec.type # "model_started"
    /\ t.pending.rec.type \in Admission => ~Modelling(t)
    /\ t.pending.next.k = "settled" /\ Unlaunched(t) => t.pending.next.arg.k = "error"
    /\ Completes(t.pending.rec) => AllHeard(L)

\* t has the steers of s where s has them.
Steady(s, t, L) ==
    /\ HasSteers(t) /\ t.steer = s.steer /\ t.controls = s.controls /\ SameRequest(s, t)
    /\ s.stopping => t.stopping
    /\ s.finishing => t.finishing
    /\ t.pending = s.pending \/ Bare(t, L)

LEMMA RunSteers ==
    ASSUME NEW s \in Runs, NEW L PROVE HasSteers(s) /\ Steady(s, s, L)
<1>1. HasParts(s)
  BY RunParts
<1>2. "steer" \in DOMAIN s
  BY DEF Runs
<1> QED  BY <1>1, <1>2 DEF HasSteers, Steady, SameRequest

LEMMA SteadyTrans ==
    ASSUME NEW s, NEW t, NEW x, NEW L, Steady(s, t, L), Steady(t, x, L) PROVE Steady(s, x, L)
<1>1. SameRequest(s, x)
  BY DEF Steady, SameRequest
<1>2. Unlaunched(x) => Unlaunched(t)
  BY DEF Steady, SameRequest, Unlaunched
<1>3. CASE x.pending = t.pending
  <2>1. Bare(t, L) => Bare(x, L)
    BY <1>2, <1>3 DEF Bare, Steady, SameRequest
  <2> QED  BY <1>1, <1>3, <2>1 DEF Steady
<1>4. CASE Bare(x, L)
  BY <1>1, <1>4 DEF Steady
<1> QED  BY <1>3, <1>4 DEF Steady

LEMMA SteadyPlaced ==
    ASSUME NEW s, NEW t, NEW L, NEW n, Placed(s, L, n), Steady(s, t, L), t.pending = s.pending \/ s.pending = None
    PROVE  Placed(t, L, n)
<1>1. SteerIds(t.controls) = SteerIds(s.controls) /\ Waits(t) = Waits(s)
  BY DEF Steady, SteerIds, Waits
<1>2. Unlaunched(t) <=> Unlaunched(s)
  BY DEF Steady, SameRequest, Unlaunched
<1>3. Steering(t) = Steering(s)
  BY DEF Steady, Bare, Steering
<1>4. Carry(t) = Carry(s)
  <2>1. CASE t.pending = s.pending
    <3>1. CASE s.pending # None /\ s.pending.rec.type = "model_started"
      <4>1. Modelling(s)
        BY <3>1 DEF Placed, Sending
      <4> QED  BY <2>1, <4>1 DEF Steady, SameRequest, Carry
    <3>2. CASE ~(s.pending # None /\ s.pending.rec.type = "model_started")
      BY <2>1, <3>2 DEF Carry
    <3> QED  BY <3>1, <3>2
  <2>2. CASE s.pending = None /\ Bare(t, L)
    BY <2>2 DEF Carry, Bare
  <2> QED  BY <2>1, <2>2 DEF Steady
<1>5. Apart(t, L, n)
  BY <1>1, <1>3, <1>4 DEF Placed, Apart, Steady
<1>6. Carried(t, L)
  <2> SUFFICES ASSUME Modelling(t) PROVE Carried(t, L)
    BY DEF Carried
  <2>1. Modelling(s)
    BY DEF Steady, SameRequest
  <2>2. \A j \in DOMAIN L : L[j].type \in Admission /\ L[j].op = t.op.id =>
             L[j].type = "model_admitted" /\ L[j].what = t.op.steers
    BY <2>1 DEF Placed, Carried, Steady, SameRequest
  <2>3. ~t.op.task /\ t.op.down = "no" => Leads(t.op.steers, t.steer)
    BY <2>1 DEF Placed, Carried, Steady, SameRequest
  <2>4. ~t.op.task \/ t.op.down = "launch_failed" => t.op.result = None
    BY <2>1 DEF Placed, Carried, Steady, SameRequest
  <2> QED  BY <2>2, <2>3, <2>4 DEF Carried
<1>7. Sending(t, L)
  <2>1. CASE t.pending = s.pending
    BY <1>2, <2>1 DEF Placed, Sending, Steady, SameRequest, Unlaunched
  <2>2. CASE s.pending = None /\ Bare(t, L)
    BY <2>2 DEF Sending, Bare
  <2> QED  BY <2>1, <2>2 DEF Steady
<1>8. Reached(t, L)
  <2>1. Failing(s) => Failing(t)
    BY <1>2 DEF Failing
  <2> QED  BY <1>1, <1>3, <1>4, <2>1 DEF Placed, Reached, Steady
<1> QED  BY <1>5, <1>6, <1>7, <1>8 DEF Placed

LEMMA PublishSteady ==
    ASSUME NEW s, HasSteers(s), NEW L, NEW type, NEW op, NEW what, NEW k, NEW arg,
           k \notin {"steer", "model_failed"}, type # "model_started", type \in Admission => ~Modelling(s),
           k = "settled" /\ Unlaunched(s) => arg.k = "error",
           type = "finished" /\ what = "completed" => AllHeard(L)
    PROVE  Steady(s, Publish(s, type, op, what, Then(k, arg)), L)
<1> DEFINE r == [seq |-> s.seq + 1, type |-> type, op |-> op, what |-> what]
           p == [k |-> "append", committed |-> FALSE, next |-> Then(k, arg), rec |-> r]
           t == [s EXCEPT !.pending = p]
<1>1. p # None /\ p.next.k = k /\ p.next.arg = arg /\ ~p.committed /\ p.rec.type = type /\ p.rec.what = what
  BY DEF None, Then
<1>2. Publish(s, type, op, what, Then(k, arg)) = t
  BY DEF Publish
<1> HIDE DEF p
<1>3. /\ t.pending = p /\ t.op = s.op /\ t.steer = s.steer /\ t.controls = s.controls
      /\ t.stopping = s.stopping /\ t.finishing = s.finishing /\ HasSteers(t)
  BY DEF HasSteers, HasParts
<1> HIDE DEF t
<1>4. Bare(t, L)
  BY <1>1, <1>3 DEF Bare, Completes, Modelling, Unlaunched
<1>5. SameRequest(s, t)
  BY <1>3 DEF SameRequest, Modelling
<1>6. Steady(s, t, L)
  BY <1>3, <1>4, <1>5 DEF Steady
<1> QED  BY <1>2, <1>6

\* The operation changes, but its request does not.
LEMMA OpSteady ==
    ASSUME NEW s, HasSteers(s), s.op # None, NEW L, NEW q \in Ops,
           q.kind = s.op.kind, q.id = s.op.id, q.steers = s.op.steers, q.task = s.op.task,
           q.down = s.op.down \/ (s.op.down # "launch_failed" /\ q.down \in {"exit", "not_started"}),
           q.result = s.op.result \/ (s.op.task /\ s.op.down # "launch_failed")
    PROVE  Steady(s, [s EXCEPT !.op = q], L)
<1> DEFINE t == [s EXCEPT !.op = q]
<1>1. q # None
  BY NoneApart
<1> HIDE DEF Ops
<1>2. /\ t.pending = s.pending /\ t.op = q /\ t.steer = s.steer /\ t.controls = s.controls
      /\ t.stopping = s.stopping /\ t.finishing = s.finishing /\ HasSteers(t)
  BY DEF HasSteers, HasParts
<1> HIDE DEF t
<1>3. SameRequest(s, t)
  BY <1>1, <1>2 DEF SameRequest, Modelling
<1>4. Steady(s, t, L)
  BY <1>2, <1>3 DEF Steady
<1> QED  BY <1>4 DEF t

\* The functions that write, or work on the operation, and touch no steer.
LEMMA WritersSteady ==
    ASSUME NEW s, HasSteers(s), NEW L
    PROVE  /\ Steady(s, Hold(s), L)
           /\ (Unlaunched(s) => s.op.result = None) => Steady(s, Settle(s), L)
           /\ Steady(s, CancelOperation(s), L)
           /\ s.op # None => Steady(s, Release(s), L)
           /\ \A status : (status = "completed" => AllHeard(L)) => Steady(s, Finish(s, status), L)
           /\ \A o, c : Steady(s, ToolResult(s, o, c), L)
<1>0. Steady(s, s, L)
  BY DEF Steady, SameRequest
<1>1. Steady(s, Hold(s), L)
  <2>1. "paused" \notin Admission
    BY DEF Admission
  <2> QED  BY <1>0, <2>1, PublishSteady DEF Hold
<1>2. ASSUME Unlaunched(s) => s.op.result = None PROVE Steady(s, Settle(s), L)
  <2> DEFINE result == IF s.op.result = None THEN [k |-> "error"] ELSE s.op.result
  <2>1. Unlaunched(s) => result.k = "error"
    BY <1>2
  <2>2. "operation_settled" \notin Admission
    BY DEF Admission
  <2>3. Settle(s) = Publish(s, "operation_settled", s.op.id,
                            [launch |-> IF s.op.down = "exit" THEN "started" ELSE s.op.down], Then("settled", result))
    BY DEF Settle
  <2> HIDE DEF result
  <2> QED  BY <2>1, <2>2, <2>3, PublishSteady
<1>3. Steady(s, CancelOperation(s), L)
  <2>1. CASE s.op = None \/ ~s.op.task
    BY <1>0, <2>1 DEF CancelOperation
  <2>2. CASE s.op # None /\ s.op.task
    <3> DEFINE m == IF s.op.kind = "tool" /\ s.op.call.kind = "command" THEN "cancel" ELSE "kill"
               q == [s.op EXCEPT !.sent = @ \cup {m}]
    <3>1. s.op \in Ops
      BY <2>2 DEF HasSteers, HasParts
    <3>2. m \in {"cancel", "kill"}
      OBVIOUS
    <3>3. CancelOperation(s) = [s EXCEPT !.op = q]
      BY <2>2, <3>1 DEF CancelOperation, HasSteers, HasParts, Ops
    <3> HIDE DEF m
    <3>4. /\ q \in Ops /\ q.kind = s.op.kind /\ q.id = s.op.id /\ q.steers = s.op.steers
          /\ q.task = s.op.task /\ q.down = s.op.down /\ q.result = s.op.result
      <4> HIDE DEF Calls, Answers
      <4> QED  BY <3>1, <3>2 DEF Ops
    <3> HIDE DEF q
    <3> QED  BY <2>2, <3>3, <3>4, OpSteady
  <2> QED  BY <2>1, <2>2
<1>4. ASSUME s.op # None PROVE Steady(s, Release(s), L)
  <2> DEFINE q == [s.op EXCEPT !.effect = "none", !.timer = TRUE, !.sent = @ \cup {"run"}]
  <2>1. s.op \in Ops
    BY <1>4 DEF HasSteers, HasParts
  <2>2. Release(s) = [s EXCEPT !.op = q]
    BY <2>1 DEF Release, HasSteers, HasParts, Ops
  <2>3. /\ q \in Ops /\ q.kind = s.op.kind /\ q.id = s.op.id /\ q.steers = s.op.steers
        /\ q.task = s.op.task /\ q.down = s.op.down /\ q.result = s.op.result
    <3> HIDE DEF Calls, Answers
    <3> QED  BY <2>1 DEF Ops
  <2> HIDE DEF q
  <2> QED  BY <1>4, <2>2, <2>3, OpSteady
<1>5. ASSUME NEW status, status = "completed" => AllHeard(L) PROVE Steady(s, Finish(s, status), L)
  <2> DEFINE t == [s EXCEPT !.finishing = TRUE]
             final == IF s.timedOut THEN "failed" ELSE status
  <2>1. HasSteers(t) /\ Steady(s, t, L)
    BY DEF Steady, SameRequest, HasSteers, HasParts, Modelling
  <2> HIDE DEF t
  <2>2. final = "completed" => AllHeard(L)
    BY <1>5
  <2>3. Finish(s, status) = Publish(t, "finished", 0, final, Then("finish", final))
    BY DEF Finish, t
  <2>4. "finished" \notin Admission
    BY DEF Admission
  <2> HIDE DEF final
  <2>5. Steady(t, Publish(t, "finished", 0, final, Then("finish", final)), L)
    BY <2>1, <2>2, <2>4, PublishSteady
  <2> QED  BY <2>1, <2>3, <2>5, SteadyTrans
<1>6. ASSUME NEW o, NEW c PROVE Steady(s, ToolResult(s, o, c), L)
  <2>1. "tool_completed" \notin Admission
    BY DEF Admission
  <2> QED  BY <2>1, PublishSteady DEF ToolResult
<1>7. \A status : (status = "completed" => AllHeard(L)) => Steady(s, Finish(s, status), L)
  BY <1>5
<1>8. \A o, c : Steady(s, ToolResult(s, o, c), L)
  BY <1>6
<1> QED  BY <1>1, <1>2, <1>3, <1>4, <1>7, <1>8

\* A tool call is run, answered or asked about.
LEMMA AdmitToolSteady ==
    ASSUME NEW s \in Runs, NEW L, s.op = None, s.calls # <<>>
    PROVE  Steady(s, AdmitTool(s), L)
<1> DEFINE c == Head(s.calls)
           t == [s EXCEPT !.calls = Tail(@)]
           q == NewOp(t.ops + 1, "tool", c, <<>>)
           u == [t EXCEPT !.ops = @ + 1, !.op = q]
<1>1. c \in Calls /\ s.ops \in Nat
  <2>1. s.calls \in Seq(Calls) /\ s.ops \in Nat
    BY DEF Runs
  <2> HIDE DEF Calls
  <2> QED  BY <2>1
<1>2. t.op = None /\ t.ops = s.ops /\ HasSteers(t) /\ Steady(s, t, L)
  <2>1. HasSteers(s)
    BY RunSteers
  <2> QED  BY <2>1 DEF Steady, SameRequest, HasSteers, HasParts, Modelling, Runs
<1>3. /\ AdmitTool(s) \in {ToolResult(t, 0, c), LaunchTool(t, c),
                           Publish(t, "approval_required", 0, CallId(c), Then("approval", c))}
  BY DEF AdmitTool
<1>4. q \in Ops /\ q.kind = "tool"
  <2>1. t.ops + 1 \in Nat
    BY <1>1, <1>2
  <2> HIDE DEF Calls, Answers, c, t
  <2> QED  BY <1>1, <2>1 DEF NewOp, Ops, Downs
<1>5. LaunchTool(t, c) = Publish(u, "tool_admitted", t.ops + 1, CallId(c), Then("effect", "start"))
  BY DEF LaunchTool
<1> HIDE DEF t, q, Ops, c
<1>6. HasSteers(u) /\ Steady(t, u, L) /\ ~Modelling(u)
  <2>1. u.op = q /\ HasSteers(u) /\ u.steer = t.steer /\ u.controls = t.controls /\ u.pending = t.pending
        /\ u.stopping = t.stopping /\ u.finishing = t.finishing
    BY <1>2, <1>4 DEF HasSteers, HasParts
  <2>2. ~Modelling(u) /\ ~Modelling(t)
    BY <1>2, <1>4, <2>1 DEF Modelling
  <2> QED  BY <2>1, <2>2 DEF Steady, SameRequest
<1> HIDE DEF u
<1>7. Steady(u, LaunchTool(t, c), L)
  BY <1>5, <1>6, PublishSteady
<1>8. Steady(t, Publish(t, "approval_required", 0, CallId(c), Then("approval", c)), L)
  <2>1. "approval_required" \notin Admission
    BY DEF Admission
  <2> QED  BY <1>2, <2>1, PublishSteady
<1>9. Steady(t, ToolResult(t, 0, c), L) /\ Steady(t, LaunchTool(t, c), L)
  BY <1>2, <1>6, <1>7, WritersSteady, SteadyTrans
<1>10. Steady(t, AdmitTool(s), L)
  BY <1>3, <1>8, <1>9
<1> QED  BY <1>2, <1>10, SteadyTrans

-----------------------------------------------------------------------------
(* What moves a steer.                                                     *)

\* A request is admitted with every steer that waits.
LEMMA LaunchModelPlaced ==
    ASSUME NEW s \in Runs, NEW L, NEW n, Placed(s, L, n), Numbered(s, L), s.pending = None, s.op = None,
           \A j \in DOMAIN L : L[j].op \in Nat
    PROVE  Placed(LaunchModel(s), L, n)
<1> DEFINE q == NewOp(s.ops + 1, "model", None, s.steer)
           r == [seq |-> s.seq + 1, type |-> "model_admitted", op |-> s.ops + 1, what |-> s.steer]
           p == [k |-> "append", committed |-> FALSE, next |-> Then("effect", "start"), rec |-> r]
           t == [s EXCEPT !.ops = @ + 1, !.op = q, !.pending = p]
<1>0. s.ops \in Nat /\ s.steer \in Seq(Nat)
  BY DEF Runs
<1>1. /\ q # None /\ q.kind = "model" /\ q.id = s.ops + 1 /\ q.steers = s.steer /\ q.down = "no"
      /\ q.result = None /\ ~q.task
  BY DEF NewOp, None
<1>2. p # None /\ p.next.k = "effect" /\ ~p.committed /\ p.rec.type = "model_admitted" /\ p.rec.what = s.steer
  BY DEF Then, None
<1>3. LaunchModel(s) = t
  BY DEF LaunchModel, Publish, Runs
<1> HIDE DEF p, q
<1>4. /\ t.op = q /\ t.pending = p /\ t.steer = s.steer /\ t.controls = s.controls
      /\ t.stopping = s.stopping /\ t.finishing = s.finishing
  BY DEF Runs
<1> HIDE DEF t
<1>5. /\ Steering(t) = {} /\ Steering(s) = {} /\ Carry(t) = {} /\ Carry(s) = {} /\ Waits(t) = Waits(s)
      /\ SteerIds(t.controls) = SteerIds(s.controls)
  BY <1>2, <1>4 DEF Steering, Carry, Waits
<1>6. Apart(t, L, n)
  BY <1>4, <1>5 DEF Placed, Apart
<1>7. Carried(t, L)
  <2>1. \A j \in DOMAIN L : L[j].op # t.op.id
    BY <1>0, <1>1, <1>4 DEF Numbered
  <2>2. Leads(t.op.steers, t.steer)
    BY <1>0, <1>1, <1>4 DEF Leads
  <2> QED  BY <1>1, <1>4, <2>1, <2>2 DEF Carried
<1>8. Sending(t, L)
  BY <1>1, <1>2, <1>4 DEF Sending, Completes
<1>9. Reached(t, L)
  <2>1. ~Failing(s)
    BY DEF Failing, Unlaunched, Modelling
  <2> QED  BY <1>4, <1>5, <2>1 DEF Placed, Reached
<1> QED  BY <1>3, <1>6, <1>7, <1>8, <1>9 DEF Placed

\* The steers of a request and those behind them.
LEMMA Split ==
    ASSUME NEW p \in Seq(Nat), NEW q \in Seq(Nat), Leads(p, q), \A i, j \in DOMAIN q : q[i] = q[j] => i = j
    PROVE  LET r == SubSeq(q, Len(p) + 1, Len(q))
           IN  /\ r \in Seq(Nat)
               /\ Items(q) = Items(p) \cup Items(r) /\ Items(p) \cap Items(r) = {}
               /\ \A i, j \in DOMAIN r : r[i] = r[j] => i = j
<1> DEFINE m == Len(p)
           r == SubSeq(q, m + 1, Len(q))
<1>1. /\ m \in Nat /\ Len(q) \in Nat /\ m <= Len(q) /\ DOMAIN p = 1 .. m /\ DOMAIN q = 1 .. Len(q)
      /\ \A i \in DOMAIN p : p[i] = q[i]
  BY DEF Leads
<1>2. r \in Seq(Nat) /\ DOMAIN r = 1 .. (Len(q) - m) /\ \A i \in DOMAIN r : r[i] = q[m + i] /\ m + i \in DOMAIN q
  BY <1>1
<1> HIDE DEF r, m
<1>3. Items(q) \subseteq Items(p) \cup Items(r)
  <2> SUFFICES ASSUME NEW i \in DOMAIN q PROVE q[i] \in Items(p) \cup Items(r)
    BY DEF Items
  <2>1. CASE i <= m
    <3>1. i \in DOMAIN p /\ p[i] = q[i]
      BY <1>1, <2>1
    <3> QED  BY <3>1 DEF Items
  <2>2. CASE i > m
    <3>1. i - m \in DOMAIN r /\ m + (i - m) = i
      BY <1>1, <1>2, <2>2
    <3>2. r[i - m] = q[i]
      BY <1>2, <3>1
    <3> QED  BY <3>1, <3>2 DEF Items
  <2> QED  BY <1>1, <2>1, <2>2
<1>4. Items(p) \subseteq Items(q) /\ Items(r) \subseteq Items(q)
  <2>1. \A i \in DOMAIN p : i \in DOMAIN q
    BY <1>1
  <2> QED  BY <1>1, <1>2, <2>1 DEF Items
<1>5. Items(p) \cap Items(r) = {}
  <2> SUFFICES ASSUME NEW i \in DOMAIN p, NEW j \in DOMAIN r, p[i] = r[j] PROVE FALSE
    BY DEF Items
  <2>1. i \in DOMAIN q /\ m + j \in DOMAIN q /\ q[i] = q[m + j]
    BY <1>1, <1>2
  <2>2. i = m + j
    BY <2>1
  <2> QED  BY <1>1, <1>2, <2>2
<1>6. \A i, j \in DOMAIN r : r[i] = r[j] => i = j
  <2> SUFFICES ASSUME NEW i \in DOMAIN r, NEW j \in DOMAIN r, r[i] = r[j] PROVE i = j
    OBVIOUS
  <2>1. m + i = m + j
    BY <1>2
  <2> QED  BY <1>1, <1>2, <2>1
<1> QED  BY <1>2, <1>3, <1>4, <1>5, <1>6 DEF r, m

\* The request takes its steers when its task is spawned; without a task the
\* run is on its way to fail.
LEMMA StartTaskPlaced ==
    ASSUME NEW s \in Runs, NEW L, NEW n, Placed(s, L, n), s.pending = None, s.op # None,
           ~s.op.task, s.op.down = "no", NEW spawned \in BOOLEAN
    PROVE  Placed(StartTask(s, spawned), L, n)
<1> DEFINE steer == SubSeq(s.steer, Len(s.op.steers) + 1, Len(s.steer))
           m == [s EXCEPT !.steps = @ + 1, !.status = "running", !.steer = SubSeq(@, Len(s.op.steers) + 1, Len(@))]
           t == IF s.op.kind = "tool" THEN s ELSE m
           started == IF s.op.kind = "tool" THEN "tool_started" ELSE "model_started"
           p == [s.op EXCEPT !.effect = "none", !.task = TRUE]
           q == [s.op EXCEPT !.effect = "none", !.down = "launch_failed"]
           u == [t EXCEPT !.op.effect = "none", !.op.task = TRUE]
           v == [t EXCEPT !.op.effect = "none", !.op.down = "launch_failed"]
           r == [seq |-> u.seq + 1, type |-> started, op |-> s.op.id, what |-> None]
           a == [k |-> "append", committed |-> FALSE, next |-> Then("effect", "release"), rec |-> r]
           x == [u EXCEPT !.pending = a]
<1>0. s.op \in Ops /\ s.steer \in Seq(Nat) /\ HasSteers(s)
  BY RunSteers DEF Runs
<1>1. StartTask(s, spawned) = IF spawned THEN x ELSE Settle(v)
  BY DEF StartTask, Publish
<1>2. /\ a # None /\ a.next.k = "effect" /\ ~a.committed /\ a.rec.type = started /\ a.rec.what = None
      /\ started = IF s.op.kind = "tool" THEN "tool_started" ELSE "model_started"
  BY DEF Then, None
<1>3. /\ t.op = s.op /\ t.pending = None /\ t.steer = (IF s.op.kind = "tool" THEN s.steer ELSE steer)
      /\ t.controls = s.controls /\ t.stopping = s.stopping /\ t.finishing = s.finishing /\ HasSteers(t)
  BY <1>0 DEF HasSteers, HasParts, Runs
<1> HIDE DEF a, t, m
<1>4. /\ p \in Ops /\ p.kind = s.op.kind /\ p.id = s.op.id /\ p.steers = s.op.steers
      /\ p.task /\ p.down = "no" /\ p.result = s.op.result
  <2> HIDE DEF Calls, Answers
  <2> QED  BY <1>0 DEF Ops
<1>5. /\ q \in Ops /\ q.kind = s.op.kind /\ q.id = s.op.id /\ q.steers = s.op.steers
      /\ ~q.task /\ q.down = "launch_failed" /\ q.result = s.op.result
  <2> HIDE DEF Calls, Answers
  <2> QED  BY <1>0 DEF Ops, Downs
<1>6. u = [t EXCEPT !.op = p] /\ v = [t EXCEPT !.op = q]
  BY <1>0, <1>3 DEF HasSteers, HasParts, Ops
<1>7. p # None /\ q # None
  BY <1>4, <1>5, NoneApart
<1> HIDE DEF p, q, u, Ops
<1>8. /\ x.op = p /\ x.pending = a /\ x.steer = t.steer /\ x.controls = s.controls
      /\ x.stopping = s.stopping /\ x.finishing = s.finishing
  BY <1>3, <1>6 DEF HasSteers, HasParts
<1> HIDE DEF x, v
<1>9. /\ v.op = q /\ v.pending = None /\ v.steer = t.steer /\ v.controls = s.controls
      /\ v.stopping = s.stopping /\ v.finishing = s.finishing /\ HasSteers(v)
  BY <1>3, <1>5, <1>6 DEF HasSteers, HasParts
<1> HIDE DEF started
<1>10. /\ Steering(x) = {} /\ Steering(s) = {} /\ Steering(v) = {} /\ Carry(s) = {} /\ Carry(v) = {}
       /\ SteerIds(x.controls) = SteerIds(s.controls) /\ SteerIds(v.controls) = SteerIds(s.controls)
       /\ Waits(x) = Items(t.steer) /\ Waits(v) = Items(t.steer) /\ Waits(s) = Items(s.steer)
       /\ Carry(x) = IF s.op.kind = "tool" THEN {} ELSE Items(s.op.steers)
  BY <1>2, <1>4, <1>8, <1>9 DEF Steering, Carry, Waits
<1>11. s.op.kind \in {"model", "tool"} /\ (Modelling(s) <=> s.op.kind # "tool")
  BY <1>0 DEF Modelling, Ops
<1>12. /\ Waits(s) = Carry(x) \cup Waits(x) /\ Carry(x) \cap Waits(x) = {} /\ Waits(v) \subseteq Waits(s)
       /\ \A i, j \in DOMAIN t.steer : t.steer[i] = t.steer[j] => i = j
  <2>1. \A i, j \in DOMAIN s.steer : s.steer[i] = s.steer[j] => i = j
    BY DEF Placed, Apart
  <2>2. CASE s.op.kind = "tool"
    BY <1>3, <1>10, <2>1, <2>2
  <2>3. CASE s.op.kind # "tool"
    <3>1. Leads(s.op.steers, s.steer)
      BY <1>11, <2>3 DEF Placed, Carried
    <3>2. s.op.steers \in Seq(Nat)
      BY <1>0 DEF Ops
    <3>3. /\ Items(s.steer) = Items(s.op.steers) \cup Items(steer) /\ Items(s.op.steers) \cap Items(steer) = {}
          /\ \A i, j \in DOMAIN steer : steer[i] = steer[j] => i = j
      BY <1>0, <2>1, <3>1, <3>2, Split
    <3> HIDE DEF steer
    <3> QED  BY <1>3, <1>10, <2>3, <3>3
  <2> QED  BY <2>2, <2>3
<1> HIDE DEF steer
<1>13. Placed(x, L, n)
  <2>1. Apart(x, L, n)
    BY <1>8, <1>10, <1>12 DEF Placed, Apart
  <2>2. Carried(x, L)
    BY <1>4, <1>8, <1>11 DEF Placed, Carried, Modelling
  <2>3. Sending(x, L)
    BY <1>2, <1>4, <1>7, <1>8, <1>11 DEF Sending, Completes, Modelling, Admission
  <2>4. Reached(x, L)
    <3>1. ~Failing(s)
      BY DEF Failing, Unlaunched
    <3> QED  BY <1>8, <1>10, <1>12, <3>1 DEF Placed, Reached
  <2> QED  BY <2>1, <2>2, <2>3, <2>4 DEF Placed
<1>14. CASE s.op.kind # "tool"
  <2>1. Apart(v, L, n)
    BY <1>9, <1>10, <1>12 DEF Placed, Apart
  <2>2. Carried(v, L) /\ v.op.result = None
    BY <1>5, <1>9, <1>11, <1>14 DEF Placed, Carried, Modelling
  <2>3. Sending(v, L) /\ Reached(v, L)
    BY <1>5, <1>7, <1>9, <1>11, <1>14 DEF Sending, Reached, Failing, Unlaunched, Modelling
  <2>4. Placed(v, L, n)
    BY <2>1, <2>2, <2>3 DEF Placed
  <2>5. Steady(v, Settle(v), L)
    BY <1>9, <2>2, WritersSteady
  <2> QED  BY <1>1, <1>9, <1>13, <2>4, <2>5, SteadyPlaced
<1>15. CASE s.op.kind = "tool"
  <2>1. ~Modelling(s) /\ ~Modelling(v)
    BY <1>5, <1>9, <1>15 DEF Modelling
  <2>2. Steady(s, v, L)
    BY <1>3, <1>9, <1>15, <2>1 DEF Steady, SameRequest
  <2>3. Steady(v, Settle(v), L)
    BY <1>9, <2>1, WritersSteady DEF Unlaunched
  <2>4. Steady(s, Settle(v), L)
    BY <2>2, <2>3, SteadyTrans
  <2> QED  BY <1>1, <1>13, <2>4, SteadyPlaced
<1> QED  BY <1>14, <1>15

LEMMA EffectPlaced ==
    ASSUME NEW s \in Runs, NEW w \in Tasks, NEW L \in Seq(Recs), NEW n, Good(s, w, L), Placed(s, L, n),
           s.pending = None, s.op # None, s.op.down = "no", NEW spawned \in BOOLEAN
    PROVE  Placed(Effect(s, spawned), L, n)
<1> DEFINE q == [s.op EXCEPT !.effect = "none", !.down = "not_started"]
           v == [s EXCEPT !.op.effect = "none", !.op.down = "not_started"]
<1>0. HasSteers(s) /\ s.op \in Ops
  BY RunSteers DEF Runs
<1>1. ASSUME NEW x, Steady(s, x, L) PROVE Placed(x, L, n)
  BY <1>1, SteadyPlaced
<1>2. Placed(RunEffect(s, spawned), L, n)
  <2>1. CASE s.op.effect = "start"
    <3>1. ~s.op.task
      <4>1. StageOf(L).type \in Admission <=> s.op.effect = "start"
        BY InHand
      <4>2. StageOf(L).type \in Admission <=> ~s.op.task
        BY InHand
      <4> QED  BY <2>1, <4>1, <4>2
    <3> QED  BY <2>1, <3>1, StartTaskPlaced DEF RunEffect
  <2>2. CASE s.op.effect # "start"
    BY <1>0, <1>1, <2>2, WritersSteady DEF RunEffect
  <2> QED  BY <2>1, <2>2
<1>3. /\ q \in Ops /\ q.kind = s.op.kind /\ q.id = s.op.id /\ q.steers = s.op.steers
      /\ q.task = s.op.task /\ q.down = "not_started" /\ q.result = s.op.result
  <2> HIDE DEF Calls, Answers
  <2> QED  BY <1>0 DEF Ops, Downs
<1>4. v = [s EXCEPT !.op = q]
  BY <1>0 DEF HasSteers, HasParts, Ops
<1>5. Steady(s, v, L) /\ v.op = q
  <2> HIDE DEF q, v
  <2>1. Steady(s, v, L)
    BY <1>0, <1>3, <1>4, OpSteady
  <2>2. v.op = q
    BY <1>0, <1>4 DEF HasSteers, HasParts
  <2> QED  BY <2>1, <2>2
<1> HIDE DEF v, q
<1>6. Steady(v, Settle(v), L)
  <2>1. ~Unlaunched(v) /\ HasSteers(v)
    BY <1>3, <1>5 DEF Unlaunched, Steady
  <2> QED  BY <2>1, WritersSteady
<1>7. Placed(Settle(v), L, n)
  BY <1>1, <1>5, <1>6, SteadyTrans
<1>8. Placed(CancelOperation(s), L, n) /\ Placed(Hold(s), L, n)
  BY <1>0, <1>1, WritersSteady
<1> QED  BY <1>2, <1>7, <1>8 DEF Effect, v

LEMMA AdvancePlaced ==
    ASSUME NEW s \in Runs, NEW w \in Tasks, NEW L \in Seq(Recs), NEW n, Good(s, w, L), Placed(s, L, n),
           s.pending = None, NEW spawned \in BOOLEAN
    PROVE  Placed(Advance(s, spawned), L, n)
<1>1. HasSteers(s) /\ Steady(s, s, L)
  BY RunSteers
<1>2. ASSUME NEW x, Steady(s, x, L) PROVE Placed(x, L, n)
  BY <1>2, SteadyPlaced
<1>3. Placed(Hold(s), L, n) /\ Placed(Finish(s, "cancelled"), L, n) /\ Placed(Finish(s, "failed"), L, n)
  BY <1>1, <1>2, WritersSteady
<1>4. CASE s.status \in Terminal \/ s.finishing
  BY <1>4 DEF Advance
<1>5. CASE ~(s.status \in Terminal \/ s.finishing) /\ s.op # None
  <2>1. CASE s.op.down # "no"
    <3>1. Advance(s, spawned) = Settle(s)
      BY <1>5, <2>1 DEF Advance
    <3>2. Unlaunched(s) => s.op.result = None
      BY DEF Placed, Carried, Unlaunched
    <3> QED  BY <1>1, <1>2, <3>1, <3>2, WritersSteady
  <2>2. CASE s.op.down = "no"
    <3>1. Advance(s, spawned) \in {Effect(s, spawned), s}
      BY <1>5, <2>2 DEF Advance
    <3>2. Placed(Effect(s, spawned), L, n)
      BY <1>5, <2>2, EffectPlaced
    <3> QED  BY <3>1, <3>2
  <2> QED  BY <2>1, <2>2
<1>6. CASE ~(s.status \in Terminal \/ s.finishing) /\ s.op = None
  <2>1. Advance(s, spawned) \in {Finish(s, "cancelled"), Hold(s), s, Finish(s, "failed"), LaunchModel(s)}
        \/ (s.calls # <<>> /\ Advance(s, spawned) = AdmitTool(s))
    BY <1>6 DEF Advance, NextTurn
  <2>2. Placed(LaunchModel(s), L, n)
    <3>1. \A j \in DOMAIN L : L[j].op \in Nat
      BY RecordTypes
    <3>2. Numbered(s, L)
      BY DEF Good, Sound
    <3> QED  BY <1>6, <3>1, <3>2, LaunchModelPlaced
  <2>3. s.calls # <<>> => Placed(AdmitTool(s), L, n)
    BY <1>2, <1>6, AdmitToolSteady
  <2> QED  BY <1>3, <2>1, <2>2, <2>3
<1> QED  BY <1>4, <1>5, <1>6

-----------------------------------------------------------------------------
(* The queue of controls.                                                  *)

LEMMA SteersBehind ==
    ASSUME NEW cs \in Seq(Controls), OneSteer(cs), NEW n \in Nat, n + 1 \in DOMAIN cs
    PROVE  LET ds == SubSeq(cs, n + 2, Len(cs))
           IN  /\ OneSteer(ds) /\ SteerIds(ds) \subseteq SteerIds(cs)
               /\ cs[n + 1].k = "steer" => cs[n + 1].id \in SteerIds(cs) /\ cs[n + 1].id \notin SteerIds(ds)
<1> DEFINE ds == SubSeq(cs, n + 2, Len(cs))
<1> HIDE DEF Controls
<1>0. Len(cs) \in Nat /\ DOMAIN cs = 1 .. Len(cs) /\ n + 1 <= Len(cs)
  OBVIOUS
<1>1. \A i \in DOMAIN ds : i \in Nat /\ i > 0 /\ n + 1 + i \in DOMAIN cs /\ ds[i] = cs[n + 1 + i]
  BY <1>0
<1> HIDE DEF ds
<1>2. OneSteer(ds)
  <2> SUFFICES ASSUME NEW i \in DOMAIN ds, NEW j \in DOMAIN ds, ds[i].k = "steer", ds[j].k = "steer", ds[i].id = ds[j].id
               PROVE  i = j
    BY DEF OneSteer
  <2>1. n + 1 + i = n + 1 + j
    BY <1>1 DEF OneSteer
  <2> QED  BY <1>1, <2>1
<1>3. SteerIds(ds) \subseteq SteerIds(cs)
  BY <1>1 DEF SteerIds
<1>4. ASSUME cs[n + 1].k = "steer", cs[n + 1].id \in SteerIds(ds) PROVE FALSE
  <2>1. PICK i \in DOMAIN ds : ds[i].k = "steer" /\ ds[i].id = cs[n + 1].id
    BY <1>4 DEF SteerIds
  <2>2. n + 1 = n + 1 + i
    BY <1>1, <1>4, <2>1 DEF OneSteer
  <2> QED  BY <1>1, <2>2
<1>5. cs[n + 1].k = "steer" => cs[n + 1].id \in SteerIds(cs)
  BY DEF SteerIds
<1> QED  BY <1>2, <1>3, <1>4, <1>5 DEF ds

\* The steers of a control.
SteerOf(c) == IF c.k = "steer" THEN {c.id} ELSE {}

LEMMA SteersMore ==
    ASSUME NEW cs \in Seq(Controls), OneSteer(cs), NEW c \in Controls, SteerOf(c) \cap SteerIds(cs) = {},
           NEW ds, Joined(cs, c, ds)
    PROVE  OneSteer(ds) /\ SteerIds(ds) \subseteq SteerIds(cs) \cup SteerOf(c)
<1> HIDE DEF Controls
<1> USE DEF Joined
<1>1. Len(cs) \in Nat /\ DOMAIN cs = 1 .. Len(cs)
  OBVIOUS
<1>2. PICK at \in {1, Len(cs) + 1}, by \in {0, 1} :
        /\ DOMAIN ds = 1 .. (Len(cs) + 1) /\ ds[at] = c
        /\ \A i \in DOMAIN ds : i # at => i - by \in DOMAIN cs /\ ds[i] = cs[i - by]
  <2>1. CASE ds = Append(cs, c)
    <3>1. DOMAIN ds = 1 .. (Len(cs) + 1) /\ ds[Len(cs) + 1] = c
      BY <2>1
    <3>2. \A i \in DOMAIN ds : i # Len(cs) + 1 => i - 0 \in DOMAIN cs /\ ds[i] = cs[i - 0]
      BY <1>1, <2>1, <3>1
    <3> QED  BY <3>1, <3>2
  <2>2. CASE ds = <<c>> \o cs
    <3>1. DOMAIN ds = 1 .. (Len(cs) + 1) /\ ds[1] = c
      BY <2>2
    <3>2. \A i \in DOMAIN ds : i # 1 => i - 1 \in DOMAIN cs /\ ds[i] = cs[i - 1]
      BY <1>1, <2>2, <3>1
    <3> QED  BY <3>1, <3>2
  <2> QED  BY <2>1, <2>2
<1>3. \A i \in DOMAIN ds : i # at /\ ds[i].k = "steer" => ds[i].id \in SteerIds(cs)
  BY <1>2 DEF SteerIds
<1>4. c.k = "steer" => c.id \notin SteerIds(cs)
  BY DEF SteerOf
<1>5. OneSteer(ds)
  <2> SUFFICES ASSUME NEW i \in DOMAIN ds, NEW j \in DOMAIN ds, ds[i].k = "steer", ds[j].k = "steer", ds[i].id = ds[j].id
               PROVE  i = j
    BY DEF OneSteer
  <2>1. CASE i # at /\ j # at
    <3>1. i - by = j - by
      BY <1>2, <2>1 DEF OneSteer
    <3> QED  BY <1>1, <1>2, <3>1
  <2>2. CASE i = at /\ j # at
    BY <1>2, <1>3, <1>4, <2>2
  <2>3. CASE i # at /\ j = at
    BY <1>2, <1>3, <1>4, <2>3
  <2> QED  BY <2>1, <2>2, <2>3
<1>6. SteerIds(ds) \subseteq SteerIds(cs) \cup SteerOf(c)
  <2> SUFFICES ASSUME NEW i \in DOMAIN ds, ds[i].k = "steer" PROVE ds[i].id \in SteerIds(cs) \cup SteerOf(c)
    BY DEF SteerIds
  <2>1. CASE i = at
    BY <1>2, <2>1 DEF SteerOf
  <2>2. CASE i # at
    BY <1>3, <2>2
  <2> QED  BY <2>1, <2>2
<1> QED  BY <1>5, <1>6

\* Only the queue of controls changes.
Lined(s, t, cs) ==
    /\ t.op = s.op /\ t.pending = s.pending /\ t.steer = s.steer /\ t.controls = cs
    /\ t.stopping = s.stopping /\ t.finishing = s.finishing

\* Steers may leave the queue, and new ones join it.
LEMMA LinedPlaced ==
    ASSUME NEW s, NEW t, NEW L, NEW m, NEW n, 1 .. m \subseteq 1 .. n, Placed(s, L, m), NEW cs, Lined(s, t, cs),
           OneSteer(cs), NEW X \in SUBSET ((1 .. n) \ (1 .. m)), SteerIds(cs) \subseteq SteerIds(s.controls) \cup X
    PROVE  Placed(t, L, n)
<1>1. /\ Waits(t) = Waits(s) /\ Steering(t) = Steering(s) /\ Carry(t) = Carry(s)
      /\ (Modelling(t) <=> Modelling(s)) /\ (Unlaunched(t) <=> Unlaunched(s))
  BY DEF Lined, Waits, Steering, Carry, Modelling, Unlaunched
<1>2. (Failing(t) <=> Failing(s)) /\ SteerIds(t.controls) = SteerIds(cs)
  BY <1>1 DEF Lined, Failing
<1>3. Apart(t, L, n)
  <2>1. X \cap (Steering(s) \cup Waits(s) \cup Carry(s) \cup Heard(L)) = {}
    BY DEF Placed, Apart
  <2>2. SteerIds(cs) \cap (Steering(s) \cup Waits(s) \cup Carry(s) \cup Heard(L)) = {}
    BY <2>1 DEF Placed, Apart
  <2>3. SteerIds(cs) \cup Steering(s) \cup Waits(s) \cup Carry(s) \cup Heard(L) \subseteq 1 .. n
    BY DEF Placed, Apart
  <2> QED  BY <1>1, <1>2, <2>2, <2>3 DEF Placed, Apart, Lined
<1>4. Carried(t, L) /\ Sending(t, L)
  BY <1>1 DEF Placed, Carried, Sending, Lined
<1>5. Reached(t, L)
  BY <1>1, <1>2 DEF Placed, Reached, Lined
<1> QED  BY <1>3, <1>4, <1>5 DEF Placed

\* What any control publishes: a steer leaves the queue for its record.
LEMMA SteerPlaced ==
    ASSUME NEW s, HasSteers(s), NEW L, NEW n, Placed(s, L, n), s.pending = None, NEW c, c.k = "steer",
           c.id \in 1 .. n, c.id \notin SteerIds(s.controls) \cup Waits(s) \cup Heard(L)
    PROVE  Placed(Publish(s, "steer_admitted", 0, c.id, Then("steer", c)), L, n)
<1> DEFINE r == [seq |-> s.seq + 1, type |-> "steer_admitted", op |-> 0, what |-> c.id]
           p == [k |-> "append", committed |-> FALSE, next |-> Then("steer", c), rec |-> r]
           t == [s EXCEPT !.pending = p]
<1>1. /\ p # None /\ p.next.k = "steer" /\ p.next.arg = c /\ ~p.committed
      /\ p.rec.type = "steer_admitted" /\ p.rec.what = c.id
  BY DEF Then, None
<1>2. Publish(s, "steer_admitted", 0, c.id, Then("steer", c)) = t
  BY DEF Publish
<1> HIDE DEF p
<1>3. /\ t.op = s.op /\ t.pending = p /\ t.steer = s.steer /\ t.controls = s.controls
      /\ t.stopping = s.stopping /\ t.finishing = s.finishing
  BY DEF HasSteers, HasParts
<1> HIDE DEF t
<1>4. /\ Steering(t) = {c.id} /\ Steering(s) = {} /\ Carry(t) = {} /\ Carry(s) = {} /\ Waits(t) = Waits(s)
      /\ SteerIds(t.controls) = SteerIds(s.controls)
      /\ (Modelling(t) <=> Modelling(s)) /\ (Unlaunched(t) <=> Unlaunched(s))
  BY <1>1, <1>3 DEF Steering, Carry, Waits, Modelling, Unlaunched
<1>5. Apart(t, L, n)
  BY <1>3, <1>4 DEF Placed, Apart
<1>6. Carried(t, L)
  BY <1>3, <1>4 DEF Placed, Carried
<1>7. Sending(t, L)
  BY <1>1, <1>3 DEF Sending, Completes, Admission
<1>8. Reached(t, L)
  <2>1. Failing(s) => Failing(t)
    BY <1>4 DEF Failing
  <2> QED  BY <1>3, <1>4, <2>1 DEF Placed, Reached
<1> QED  BY <1>2, <1>5, <1>6, <1>7, <1>8 DEF Placed

LEMMA ControlPlaced ==
    ASSUME NEW s \in Runs, NEW L, NEW n, Placed(s, L, n), s.pending = None, NEW c \in Controls,
           c.k = "steer" => c.id \in 1 .. n /\ c.id \notin SteerIds(s.controls) \cup Waits(s) \cup Heard(L)
    PROVE  Placed(RunControl(s, c), L, n)
<1>1. HasSteers(s)
  BY RunSteers
<1>2. CASE c.k = "steer"
  <2>1. RunControl(s, c) = Publish(s, "steer_admitted", 0, c.id, Then("steer", c))
    BY <1>2 DEF RunControl
  <2> HIDE DEF Controls
  <2> QED  BY <1>1, <1>2, <2>1, SteerPlaced
<1>3. CASE c.k # "steer"
  <2>1. c.k \in {"stop", "timeout", "event", "pause", "continue", "approval"}
    BY <1>3 DEF Controls, Pauses, Continues, Steers, Resolutions
  <2>2. \E type \in {"stop_requested", "operation_timeout", "event", "pause_requested", "continued", "approval_resolved"},
           k \in {"advance", "event", "pause", "continue", "approve"} : \E op, what, arg :
             RunControl(s, c) = Publish(s, type, op, what, Then(k, arg))
    BY <2>1 DEF RunControl
  <2>3. Steady(s, RunControl(s, c), L)
    BY <1>1, <2>2, PublishSteady DEF Admission
  <2> QED  BY <2>3, SteadyPlaced
<1> QED  BY <1>2, <1>3

LEMMA DrivePlaced ==
    ASSUME NEW s, NEW w \in Tasks, NEW L \in Seq(Recs), NEW m, Good(s, w, L), Placed(s, L, m), NEW spawned \in BOOLEAN
    PROVE  Placed(Drive(s, spawned), L, m)
<1> DEFINE live == {i \in DOMAIN s.controls : ~Rejecting(s) \/ ~Guarded(s.controls[i])}
           first == CHOOSE i \in live : \A j \in live : i <= j
           n == IF live = {} THEN Len(s.controls) ELSE first - 1
           cs == SubSeq(s.controls, n + 2, Len(s.controls))
           asked == s.asked \ Callers(SubSeq(s.controls, 1, n))
           t == [s EXCEPT !.asked = asked, !.controls = cs]
<1>0. s \in Runs /\ s.controls \in Seq(Controls) /\ asked \in SUBSET Clients
  BY DEF Runs, Good
<1>1. CASE s.pending # None
  <2>1. Drive(s, spawned) = s
    BY <1>1 DEF Drive
  <2> QED  BY <2>1
<1>2. CASE s.pending = None
  <2>1. Drive(s, spawned) = IF live = {} THEN Advance(t, spawned) ELSE RunControl(t, s.controls[first])
    BY <1>2 DEF Drive
  <2>2. live # {} => first \in live /\ first \in DOMAIN s.controls
    <3>1. live \subseteq Nat \ {0}
      <4> HIDE DEF Controls
      <4> QED  BY <1>0
    <3> QED  BY <3>1, FirstLive
  <2>3. n \in 0 .. Len(s.controls)
    <3> HIDE DEF first, Controls
    <3>1. DOMAIN s.controls = 1 .. Len(s.controls) /\ Len(s.controls) \in Nat
      BY <1>0
    <3>2. live # {} => first \in 1 .. Len(s.controls)
      BY <2>2, <3>1
    <3> HIDE DEF live
    <3> QED  BY <3>1, <3>2
  <2> HIDE DEF n
  <2>4. cs \in Seq(Controls) /\ (n = Len(s.controls) => cs = <<>>)
    BY <1>0, <2>3, ControlsBehind
  <2>5. \A j \in DOMAIN cs : Sensible(s, L, cs[j])
    <3>1. \A j \in DOMAIN cs : \E i \in DOMAIN s.controls : cs[j] = s.controls[i]
      BY <1>0, <2>3, ControlsBehind
    <3> QED  BY <3>1, AreSensible
  <2> HIDE DEF cs, asked
  <2>6. t \in Runs /\ Requeue(s, t, cs) /\ Lined(s, t, cs) /\ t.pending = None
    <3> HIDE DEF Controls
    <3> QED  BY <1>0, <1>2, <2>4 DEF Runs, Requeue, Lined
  <2> HIDE DEF t
  <2>7. Good(t, w, L)
    BY <2>5, <2>6, ControlsKeep
  <2>8. ASSUME OneSteer(cs), SteerIds(cs) \subseteq SteerIds(s.controls) PROVE Placed(t, L, m)
    <3>1. SteerIds(cs) \subseteq SteerIds(s.controls) \cup {} /\ {} \in SUBSET ((1 .. m) \ (1 .. m))
      BY <2>8
    <3> HIDE DEF live, first
    <3> QED  BY <2>6, <2>8, <3>1, LinedPlaced
  <2>9. CASE live = {}
    <3>1. cs = <<>>
      BY <2>4, <2>9 DEF n
    <3>2. OneSteer(cs) /\ SteerIds(cs) = {}
      BY <3>1 DEF OneSteer, SteerIds
    <3>3. Placed(t, L, m)
      BY <2>8, <3>2
    <3> QED  BY <2>1, <2>6, <2>7, <2>9, <3>3, AdvancePlaced
  <2>10. CASE live # {}
    <3> DEFINE c == s.controls[first]
    <3>1. first \in DOMAIN s.controls /\ n = first - 1 /\ n \in Nat
      BY <2>2, <2>3, <2>10 DEF n
    <3>2. n + 1 = first
      <4>1. first \in Nat
        <5> HIDE DEF Controls
        <5> QED  BY <1>0, <3>1
      <4> HIDE DEF first, live
      <4> QED  BY <3>1, <4>1
    <3>3. c \in Controls
      <4> HIDE DEF Controls, first, live
      <4> QED  BY <1>0, <3>1
    <3>4. OneSteer(s.controls)
      BY DEF Placed, Apart
    <3>5. /\ OneSteer(cs) /\ SteerIds(cs) \subseteq SteerIds(s.controls)
          /\ c.k = "steer" => c.id \in SteerIds(s.controls) /\ c.id \notin SteerIds(cs)
      <4> HIDE DEF first, n, Controls, live
      <4> QED  BY <1>0, <3>1, <3>2, <3>4, SteersBehind DEF cs
    <3>6. Placed(t, L, m)
      BY <2>8, <3>5
    <3> HIDE DEF c
    <3>7. c.k = "steer" => c.id \in 1 .. m /\ c.id \notin SteerIds(t.controls) \cup Waits(t) \cup Heard(L)
      <4>1. t.controls = cs /\ Waits(t) = Waits(s)
        BY <2>6 DEF Lined, Waits
      <4> QED  BY <3>5, <4>1 DEF Placed, Apart
    <3>8. Placed(RunControl(t, c), L, m)
      <4> HIDE DEF live, first, Controls, Runs
      <4> QED  BY <2>6, <3>3, <3>6, <3>7, ControlPlaced
    <3> QED  BY <2>1, <2>10, <3>8 DEF c
  <2> QED  BY <2>9, <2>10
<1> QED  BY <1>1, <1>2

-----------------------------------------------------------------------------
(* What follows an acknowledged record.                                    *)

LEMMA LinedSteady ==
    ASSUME NEW s, NEW t, HasSteers(t), Lined(s, t, s.controls), NEW L PROVE Steady(s, t, L)
BY DEF Lined, Steady, SameRequest, Modelling

\* Any record but that of a steer leaves the steers where they are; that of a
\* failed request leaves a run that ends.
LEMMA LeftPlaced ==
    ASSUME NEW s, NEW L, NEW n, Placed(s, L, n), s.pending # None, s.pending.committed, s.pending.next.k # "steer",
           NEW t, t.op = s.op, t.steer = s.steer, t.controls = s.controls, t.pending = None,
           t.stopping \/ t.finishing
             \/ (t.stopping = s.stopping /\ t.finishing = s.finishing /\ s.pending.next.k # "model_failed")
    PROVE  Placed(t, L, n)
<1>1. /\ Waits(t) = Waits(s) /\ Steering(t) = {} /\ Steering(s) = {} /\ Carry(t) = {} /\ Carry(s) = {}
      /\ (Modelling(t) <=> Modelling(s)) /\ (Unlaunched(t) <=> Unlaunched(s))
      /\ SteerIds(t.controls) = SteerIds(s.controls)
  BY DEF Waits, Steering, Carry, Modelling, Unlaunched
<1>2. Apart(t, L, n)
  BY <1>1 DEF Placed, Apart
<1>3. Carried(t, L)
  BY <1>1 DEF Placed, Carried
<1>4. Sending(t, L)
  BY DEF Sending
<1>5. Reached(t, L)
  BY <1>1 DEF Placed, Reached, Failing
<1> QED  BY <1>2, <1>3, <1>4, <1>5 DEF Placed

LEMMA OneItemMore ==
    ASSUME NEW q \in Seq(Nat), NEW x \in Nat, x \notin Items(q), \A i, j \in DOMAIN q : q[i] = q[j] => i = j,
           NEW r, r = Append(q, x)
    PROVE  /\ Items(r) = Items(q) \cup {x}
           /\ \A i, j \in DOMAIN r : r[i] = r[j] => i = j
           /\ \A p \in Seq(Nat) : Leads(p, q) => Leads(p, r)
<1> DEFINE m == Len(q) + 1
<1>1. /\ m \in Nat /\ Len(q) \in Nat /\ DOMAIN q = 1 .. Len(q) /\ DOMAIN r = 1 .. m /\ r[m] = x /\ Len(r) = m
      /\ \A i \in DOMAIN q : r[i] = q[i]
  OBVIOUS
<1>2. DOMAIN r = DOMAIN q \cup {m} /\ m \notin DOMAIN q
  BY <1>1
<1>3. \A p \in Seq(Nat) : Leads(p, q) => Leads(p, r)
  <2> SUFFICES ASSUME NEW p \in Seq(Nat), Leads(p, q) PROVE Leads(p, r)
    OBVIOUS
  <2>1. Len(p) \in Nat /\ DOMAIN p = 1 .. Len(p)
    OBVIOUS
  <2>2. Len(p) <= Len(q) /\ \A i \in DOMAIN p : p[i] = q[i]
    BY DEF Leads
  <2>3. \A i \in DOMAIN p : i \in DOMAIN q
    BY <1>1, <2>1, <2>2
  <2>4. Len(p) <= Len(r)
    BY <1>1, <2>1, <2>2
  <2> QED  BY <1>1, <2>2, <2>3, <2>4 DEF Leads
<1> HIDE DEF m
<1>4. Items(r) = Items(q) \cup {x}
  <2>1. \A i \in DOMAIN r : r[i] \in Items(q) \cup {x}
    BY <1>1, <1>2 DEF Items
  <2>2. \A i \in DOMAIN q : i \in DOMAIN r /\ r[i] = q[i]
    BY <1>1, <1>2
  <2>3. x \in Items(r)
    BY <1>1, <1>2 DEF Items
  <2> QED  BY <2>1, <2>2, <2>3 DEF Items
<1>5. \A i, j \in DOMAIN r : r[i] = r[j] => i = j
  BY <1>1, <1>2 DEF Items
<1> QED  BY <1>3, <1>4, <1>5

\* The steer waits for the next request.
LEMMA SteeredPlaced ==
    ASSUME NEW s \in Runs, NEW L, NEW n, Placed(s, L, n), s.pending # None, s.pending.committed,
           s.pending.next.k = "steer", NEW t, t.op = s.op, t.steer = Append(s.steer, s.pending.next.arg.id),
           t.controls = s.controls, t.pending = None, t.stopping = s.stopping, t.finishing = s.finishing
    PROVE  Placed(t, L, n)
<1> DEFINE x == s.pending.next.arg.id
<1>1. x \in Nat
  <2>1. s.pending.next \in Nexts
    BY PendingTypes
  <2>2. s.pending.next.arg \in Steers
    BY <2>1 DEF Nexts
  <2> QED  BY <2>2 DEF Steers
<1>2. /\ Steering(s) = {x} /\ Steering(t) = {} /\ Carry(t) = {} /\ Carry(s) = {}
      /\ (Modelling(t) <=> Modelling(s)) /\ (Unlaunched(t) <=> Unlaunched(s))
      /\ SteerIds(t.controls) = SteerIds(s.controls)
  BY DEF Steering, Carry, Modelling, Unlaunched
<1>3. s.steer \in Seq(Nat) /\ s.op \in Ops \cup {None}
  BY DEF Runs
<1> HIDE DEF x
<1>4. x \notin Items(s.steer) /\ t.steer = Append(s.steer, x)
  BY <1>2 DEF Placed, Apart, Waits, x
<1>5. /\ Items(t.steer) = Items(s.steer) \cup {x}
      /\ \A i, j \in DOMAIN t.steer : t.steer[i] = t.steer[j] => i = j
      /\ \A p \in Seq(Nat) : Leads(p, s.steer) => Leads(p, t.steer)
  <2>1. \A i, j \in DOMAIN s.steer : s.steer[i] = s.steer[j] => i = j
    BY DEF Placed, Apart
  <2> QED  BY <1>1, <1>3, <1>4, <2>1, OneItemMore
<1>6. Waits(t) = Waits(s) \cup {x}
  BY <1>5 DEF Waits
<1>7. Apart(t, L, n)
  BY <1>2, <1>5, <1>6 DEF Placed, Apart
<1>8. Carried(t, L)
  <2>1. Modelling(s) => s.op.steers \in Seq(Nat)
    BY <1>3 DEF Modelling, Ops
  <2> QED  BY <1>2, <1>5, <2>1 DEF Placed, Carried
<1>9. Sending(t, L)
  BY DEF Sending
<1>10. Reached(t, L)
  <2>1. Failing(s) => Failing(t)
    BY <1>2 DEF Failing
  <2> QED  BY <1>2, <1>6, <2>1 DEF Placed, Reached
<1> QED  BY <1>7, <1>8, <1>9, <1>10 DEF Placed

\* The operation is done with.
LEMMA SettledPlaced ==
    ASSUME NEW s \in Runs, NEW L, NEW n, Placed(s, L, n), s.pending = None, s.op # None, NEW result,
           Unlaunched(s) => result.k = "error"
    PROVE  LET t == [s EXCEPT !.op = None]
           IN  Placed(IF s.op.kind = "model" THEN ModelResult(t, s.op.id, result)
                      ELSE ToolResult(t, s.op.id, s.op.call), L, n)
<1> DEFINE t == [s EXCEPT !.op = None]
           o == s.op
           r == [seq |-> t.seq + 1, type |-> "model_failed", op |-> o.id, what |-> None]
           p == [k |-> "append", committed |-> FALSE, next |-> Then("model_failed", None), rec |-> r]
           y == [t EXCEPT !.pending = p]
           b == IF o.kind = "model" THEN ModelResult(t, o.id, result) ELSE ToolResult(t, o.id, o.call)
<1> SUFFICES Placed(b, L, n)
  BY DEF b, o, t
<1>1. /\ p # None /\ p.next.k = "model_failed" /\ ~p.committed /\ p.rec.type = "model_failed"
  BY DEF Then, None
<1>2. b = y \/ b = Publish(t, "model_completed", o.id, result, Then("turn", result)) \/ b = ToolResult(t, o.id, o.call)
  BY DEF ModelResult, Publish
<1>3. o.kind = "model" /\ result.k \notin {"turn", "cut"} => b = y
  BY DEF ModelResult, Publish
<1>4. o.kind = "model" /\ result.k \in {"turn", "cut"} => b = Publish(t, "model_completed", o.id, result, Then("turn", result))
  BY DEF ModelResult
<1>5. o.kind # "model" => b = ToolResult(t, o.id, o.call)
  OBVIOUS
<1>6. /\ t.op = None /\ t.pending = None /\ t.steer = s.steer /\ t.controls = s.controls
      /\ t.stopping = s.stopping /\ t.finishing = s.finishing /\ HasSteers(t)
  BY RunSteers DEF HasSteers, HasParts, Runs
<1> HIDE DEF p, b, t
<1>7. /\ y.op = None /\ y.pending = p /\ y.steer = s.steer /\ y.controls = s.controls
      /\ y.stopping = s.stopping /\ y.finishing = s.finishing
  BY <1>6 DEF HasSteers, HasParts
<1> HIDE DEF y, o
<1>8. /\ Waits(t) = Waits(s) /\ Waits(y) = Waits(s) /\ SteerIds(t.controls) = SteerIds(s.controls)
      /\ SteerIds(y.controls) = SteerIds(s.controls)
      /\ Steering(s) = {} /\ Steering(t) = {} /\ Carry(s) = {} /\ Carry(t) = {} /\ ~Modelling(t) /\ ~Modelling(y)
      /\ Steering(y) = {} /\ Carry(y) = {}
  BY <1>1, <1>6, <1>7 DEF Waits, Steering, Carry, Modelling
<1>9. Apart(t, L, n) /\ Carried(t, L) /\ Sending(t, L)
  BY <1>6, <1>8 DEF Placed, Apart, Carried, Sending
<1>10. Placed(y, L, n)
  <2>1. Apart(y, L, n) /\ Carried(y, L)
    BY <1>7, <1>8 DEF Placed, Apart, Carried
  <2>2. Sending(y, L) /\ Reached(y, L)
    BY <1>1, <1>7, <1>8 DEF Sending, Completes, Admission, Reached, Failing, Unlaunched
  <2> QED  BY <2>1, <2>2 DEF Placed
<1>11. ASSUME ~Unlaunched(s) PROVE Placed(t, L, n)
  <2>1. Reached(t, L)
    BY <1>6, <1>8, <1>11 DEF Placed, Reached, Failing
  <2> QED  BY <1>9, <2>1 DEF Placed
<1>12. CASE o.kind # "model"
  <2>1. ~Unlaunched(s)
    BY <1>12 DEF Unlaunched, Modelling, o
  <2>2. Steady(t, b, L)
    BY <1>5, <1>6, <1>12, WritersSteady
  <2> QED  BY <1>6, <1>11, <2>1, <2>2, SteadyPlaced
<1>13. CASE o.kind = "model" /\ result.k \in {"turn", "cut"}
  <2>1. ~Unlaunched(s)
    BY <1>13
  <2>2. Steady(t, b, L)
    <3>1. "model_completed" \notin Admission
      BY DEF Admission
    <3> QED  BY <1>4, <1>6, <1>8, <1>13, <3>1, PublishSteady DEF Unlaunched
  <2> QED  BY <1>6, <1>11, <2>1, <2>2, SteadyPlaced
<1> QED  BY <1>3, <1>10, <1>12, <1>13

\* A run only completes when every steer that it took was heard.
LEMMA AfterTurnPlaced ==
    ASSUME NEW s \in Runs, NEW L, NEW n, Placed(s, L, n), s.pending = None, s.op = None, ~s.finishing,
           NEW o, NEW result
    PROVE  Placed(AfterTurn(s, o, result), L, n)
<1> DEFINE cs == [i \in 1 .. Len(result.calls) |->
                   [parent |-> o, index |-> i, kind |-> result.calls[i], approved |-> FALSE]]
           t == [s EXCEPT !.calls = cs]
<1>1. HasSteers(s) /\ Steady(s, s, L)
  BY RunSteers
<1>2. Steady(s, t, L)
  <2> HIDE DEF cs
  <2>1. HasSteers(t) /\ Lined(s, t, s.controls)
    BY <1>1 DEF HasSteers, HasParts, Lined
  <2> QED  BY <2>1, LinedSteady
<1>3. /\ AfterTurn(s, o, result) \in {s, Finish(s, "failed"), Finish(s, "completed"), t}
      /\ (AfterTurn(s, o, result) \notin {s, Finish(s, "failed"), t} => s.steer = <<>> /\ ~s.stopping)
  BY DEF AfterTurn
<1> HIDE DEF t
<1>4. Steady(s, Finish(s, "failed"), L)
  BY <1>1, WritersSteady
<1>5. ASSUME s.steer = <<>>, ~s.stopping PROVE Steady(s, Finish(s, "completed"), L)
  <2>1. Waits(s) = {} /\ Steering(s) = {} /\ Carry(s) = {} /\ ~Failing(s)
    BY <1>5 DEF Waits, Items, Steering, Carry, Failing, Unlaunched, Modelling
  <2>2. AllHeard(L)
    BY <1>5, <2>1 DEF Placed, Reached, AllHeard
  <2> QED  BY <1>1, <2>2, WritersSteady
<1>6. Steady(s, AfterTurn(s, o, result), L)
  BY <1>1, <1>2, <1>3, <1>4, <1>5
<1> QED  BY <1>6, SteadyPlaced

LEMMA ResumePlaced ==
    ASSUME NEW s, NEW w \in Tasks, NEW L \in Seq(Recs), NEW n, Good(s, w, L), Placed(s, L, n),
           s.pending # None, s.pending.committed
    PROVE  Placed(Resume([s EXCEPT !.pending = None, !.seq = s.pending.rec.seq], s.pending.rec, s.pending.next), L, n)
<1> DEFINE u == [s EXCEPT !.pending = None, !.seq = s.pending.rec.seq]
           rec == s.pending.rec
           next == s.pending.next
           b == Resume(u, rec, next)
<1> SUFFICES Placed(b, L, n)
  BY DEF b, u, rec, next
<1>1. s \in Runs
  BY DEF Good
<1>2. next \in Nexts /\ Acked(s, u)
  <2>1. next \in Nexts
    BY <1>1, PendingTypes
  <2>2. Acked(s, u)
    BY <1>1, AckFields, Zenon
  <2> QED  BY <2>1, <2>2
<1>3. /\ u \in Runs /\ u.pending = None /\ u.op = s.op /\ u.steer = s.steer /\ u.controls = s.controls
      /\ u.stopping = s.stopping /\ u.finishing = s.finishing /\ HasSteers(u) /\ Steady(u, u, L)
  BY <1>2, RunSteers DEF Acked
<1> HIDE DEF u
<1>4. next.k \notin {"steer", "model_failed"} => Placed(u, L, n)
  BY <1>3, LeftPlaced DEF next
<1>5. next.k \notin {"effect", "settled", "finish"} => ~u.finishing
  BY <1>2, AckKeeps DEF next
<1>6. ASSUME next.k \notin {"steer", "model_failed"}, Steady(u, b, L) PROVE Placed(b, L, n)
  <2> HIDE DEF b, next
  <2> QED  BY <1>3, <1>4, <1>6, SteadyPlaced
<1>7. CASE next.k \in {"advance", "pause", "continue", "paused"}
  <2> DEFINE v == Answer(u, next.arg.from)
  <2>1. HasSteers(v) /\ Lined(u, v, u.controls)
    BY <1>3 DEF Lined, Answer, HasSteers, HasParts
  <2>2. b \in {u, [v EXCEPT !.paused = TRUE], [v EXCEPT !.paused = FALSE, !.status = next.arg.status],
               [u EXCEPT !.status = "paused"]}
    <3>1. next.k = "advance" => b = u
      BY DEF Resume
    <3>2. next.k = "pause" => b = [v EXCEPT !.paused = TRUE]
      BY DEF Resume
    <3>3. next.k = "continue" => b = [v EXCEPT !.paused = FALSE, !.status = next.arg.status]
      BY DEF Resume
    <3>4. next.k = "paused" => b = [u EXCEPT !.status = "paused"]
      BY DEF Resume
    <3> HIDE DEF b, v, next
    <3> QED  BY <1>7, <3>1, <3>2, <3>3, <3>4
  <2> HIDE DEF v, b
  <2>3. HasSteers(b) /\ Lined(u, b, u.controls)
    BY <1>3, <2>1, <2>2 DEF Lined, HasSteers, HasParts
  <2>4. Steady(u, b, L)
    BY <2>3, LinedSteady
  <2> QED  BY <1>6, <1>7, <2>4
<1>16. CASE next.k = "approval"
  <2> DEFINE q == [k |-> "approval", call |-> next.arg, resolving |-> FALSE]
  <2>1. b = [u EXCEPT !.status = "waiting_approval", !.approval = q]
    BY <1>16 DEF Resume
  <2> HIDE DEF q, b
  <2>2. HasSteers(b) /\ Lined(u, b, u.controls)
    BY <1>3, <2>1 DEF Lined, HasSteers, HasParts
  <2>3. Steady(u, b, L)
    BY <2>2, LinedSteady
  <2> QED  BY <1>6, <1>16, <2>3
<1>8. CASE next.k \in {"event", "effect"}
  <2>1. CASE u.op = None
    <3>1. next.k = "event"
      <4>1. next.k = "effect" => rec.type \in Admission \cup Start
        BY <1>2 DEF Good, Sound, Written, Fits, rec, next
      <4>2. rec.type \in Admission \cup Start => s.op # None
        BY DEF Good, Sound, Phase, At, PendingType, Stages, Idle, Completion, Admission, Start, rec
      <4> QED  BY <1>3, <1>8, <2>1, <4>1, <4>2
    <3>2. b = u
      BY <2>1, <3>1 DEF Resume
    <3> QED  BY <1>4, <3>1, <3>2
  <2>2. CASE u.op # None
    <3> DEFINE p == [u.op EXCEPT !.credits = @ + 1]
               q == [u.op EXCEPT !.effect = next.arg]
    <3>1. u.op \in Ops
      BY <1>3, <2>2 DEF HasSteers, HasParts
    <3>2. p \in Ops /\ p.kind = u.op.kind /\ p.id = u.op.id /\ p.steers = u.op.steers
          /\ p.task = u.op.task /\ p.down = u.op.down /\ p.result = u.op.result
      <4> HIDE DEF Calls, Answers
      <4> QED  BY <3>1, SMTT(60) DEF Ops
    <3>3. next.k = "effect" => q \in Ops /\ q.kind = u.op.kind /\ q.id = u.op.id /\ q.steers = u.op.steers
                               /\ q.task = u.op.task /\ q.down = u.op.down /\ q.result = u.op.result
      <4>1. next.k = "effect" => next.arg \in {"start", "release"}
        BY <1>2 DEF Nexts
      <4> HIDE DEF Calls, Answers, next
      <4> QED  BY <3>1, <4>1 DEF Ops
    <3>4. next.k = "event" => b = [u EXCEPT !.op = p]
      BY <1>3, <2>2, <3>1 DEF Resume, HasSteers, HasParts, Ops
    <3>5. next.k = "effect" => b = [u EXCEPT !.op = q]
      BY <1>3, <2>2, <3>1 DEF Resume, HasSteers, HasParts, Ops
    <3> HIDE DEF p, q, b
    <3>6. Steady(u, b, L)
      BY <1>3, <1>8, <2>2, <3>2, <3>3, <3>4, <3>5, OpSteady
    <3> QED  BY <1>6, <1>8, <3>6
  <2> QED  BY <2>1, <2>2
<1>9. CASE next.k = "approve"
  <2> DEFINE c == next.arg.call
             v == Answer(u, next.arg.from)
             x == [v EXCEPT !.approval = None, !.status = "running"]
             d == [c EXCEPT !.approved = TRUE]
             y == [x EXCEPT !.calls = <<d>> \o @]
  <2>1. b \in {ToolResult(x, 0, c), y}
    BY <1>9 DEF Resume, v, Decide
  <2>2. HasSteers(x) /\ Lined(u, x, u.controls)
    BY <1>3 DEF Lined, Answer, HasSteers, HasParts
  <2> HIDE DEF x, b, d
  <2>3. HasSteers(y) /\ Lined(x, y, x.controls)
    BY <2>2 DEF Lined, HasSteers, HasParts
  <2> HIDE DEF y
  <2>4. Steady(u, x, L) /\ Steady(x, y, L) /\ Steady(x, ToolResult(x, 0, c), L)
    BY <2>2, <2>3, LinedSteady, WritersSteady
  <2>5. Steady(u, b, L)
    BY <2>1, <2>4, SteadyTrans
  <2> QED  BY <1>6, <1>9, <2>5
<1>10. CASE next.k = "settled"
  <2>1. u.op # None
    <3>1. At(s, L).type = "operation_settled"
      BY <1>10 DEF Good, Sound, Written, Fits, At, PendingType, Stages, next
    <3> QED  BY <1>3, <3>1 DEF Good, Sound, Phase, Idle, Completion
  <2>2. Unlaunched(u) => next.arg.k = "error"
    <3>1. Unlaunched(u) <=> Unlaunched(s)
      BY <1>3 DEF Unlaunched, Modelling
    <3> QED  BY <1>10, <3>1 DEF Placed, Sending, next
  <2>3. LET t == [u EXCEPT !.op = None]
        IN  Placed(IF u.op.kind = "model" THEN ModelResult(t, u.op.id, next.arg)
                   ELSE ToolResult(t, u.op.id, u.op.call), L, n)
    <3> HIDE DEF next
    <3> QED  BY <1>3, <1>4, <1>10, <2>1, <2>2, SettledPlaced, Zenon
  <2>4. b = LET t == [u EXCEPT !.op = None]
            IN  IF u.op.kind = "model" THEN ModelResult(t, u.op.id, next.arg)
                ELSE ToolResult(t, u.op.id, u.op.call)
    BY <1>10 DEF Resume
  <2> HIDE DEF b, next
  <2> QED  BY <2>3, <2>4
<1>11. CASE next.k = "turn"
  <2>1. s.op = None
    <3>1. rec.type = "model_completed"
      BY <1>11 DEF Good, Sound, Written, Fits, rec, next
    <3> QED  BY <3>1 DEF Good, Sound, Phase, At, PendingType, Stages, Completion, Idle, rec
  <2>2. b = AfterTurn(u, rec.op, next.arg)
    BY <1>11 DEF Resume
  <2>3. Placed(AfterTurn(u, rec.op, next.arg), L, n)
    <3> HIDE DEF next, rec, b
    <3> QED  BY <1>3, <1>4, <1>5, <1>11, <2>1, AfterTurnPlaced
  <2> QED  BY <2>2, <2>3
<1>12. CASE next.k = "model_failed"
  <2> DEFINE v == [u EXCEPT !.finishing = TRUE]
  <2>1. b = IF u.stopping THEN u ELSE Finish(u, "failed")
    BY <1>12 DEF Resume
  <2>2. ASSUME u.stopping PROVE Placed(u, L, n)
    BY <1>3, <1>12, <2>2, LeftPlaced DEF next
  <2>3. /\ v.op = s.op /\ v.steer = s.steer /\ v.controls = s.controls /\ v.pending = None /\ v.finishing /\ HasSteers(v)
    BY <1>3 DEF HasSteers, HasParts
  <2>4. Finish(u, "failed") = Publish(v, "finished", 0, "failed", Then("finish", "failed"))
    BY DEF Finish
  <2> HIDE DEF v
  <2>5. Placed(v, L, n)
    BY <1>12, <2>3, LeftPlaced DEF next
  <2>6. Steady(v, Publish(v, "finished", 0, "failed", Then("finish", "failed")), L)
    <3>1. "finished" \notin Admission
      BY DEF Admission
    <3> QED  BY <2>3, <3>1, PublishSteady
  <2>7. Placed(Finish(u, "failed"), L, n)
    BY <2>3, <2>4, <2>5, <2>6, SteadyPlaced
  <2> QED  BY <2>1, <2>2, <2>7
<1>13. CASE next.k = "steer"
  <2> DEFINE v == Answer(u, next.arg.from)
             q == Append(u.steer, next.arg.id)
  <2>1. b = [v EXCEPT !.steer = Append(@, next.arg.id)]
    BY <1>13 DEF Resume
  <2>2. HasSteers(v) /\ Lined(u, v, u.controls)
    BY <1>3 DEF Lined, Answer, HasSteers, HasParts
  <2> HIDE DEF v
  <2>3. b = [v EXCEPT !.steer = q]
    BY <2>1, <2>2 DEF Lined
  <2> HIDE DEF b, q
  <2>4. /\ b.op = s.op /\ b.steer = q /\ b.controls = s.controls /\ b.pending = None
        /\ b.stopping = s.stopping /\ b.finishing = s.finishing
    BY <1>3, <2>2, <2>3 DEF Lined, HasSteers, HasParts
  <2>5. q = Append(s.steer, s.pending.next.arg.id)
    BY <1>3 DEF q, next
  <2> QED  BY <1>1, <1>13, <2>4, <2>5, SteeredPlaced DEF next
<1>14. CASE next.k = "finish"
  <2>1. b = [u EXCEPT !.status = next.arg, !.approval = None, !.calls = <<>>,
                      !.steer = <<>>, !.asked = @ \ u.waiters, !.waiters = {}]
    BY <1>14 DEF Resume
  <2>2. s.finishing /\ s.op = None
    <3>1. rec.type = "finished"
      BY <1>14 DEF Good, Sound, Written, Fits, rec, next
    <3>2. At(s, L).type = "finished"
      BY <3>1 DEF At, PendingType, Stages, rec
    <3> QED  BY <3>2 DEF Good, Sound, Ending, Phase
  <2>3. /\ b.finishing /\ b.pending = None /\ b.op = None /\ b.controls = u.controls /\ b.steer = <<>>
    BY <1>3, <2>1, <2>2 DEF HasSteers, HasParts
  <2> HIDE DEF b
  <2>4. Placed(u, L, n)
    BY <1>4, <1>14
  <2>5. /\ Waits(b) = {} /\ Steering(b) = {} /\ Carry(b) = {} /\ SteerIds(b.controls) = SteerIds(u.controls) /\ ~Modelling(b)
        /\ DOMAIN b.steer = {}
    BY <2>3 DEF Waits, Items, Steering, Carry, Modelling
  <2>6. Apart(b, L, n)
    BY <2>3, <2>4, <2>5 DEF Placed, Apart
  <2>7. Carried(b, L) /\ Sending(b, L) /\ Reached(b, L)
    BY <2>3, <2>5 DEF Carried, Sending, Reached
  <2> QED  BY <2>6, <2>7 DEF Placed
<1>15. next.k \in {"advance", "paused", "event", "model_failed", "pause", "continue", "steer", "approve",
                   "approval", "effect", "settled", "turn", "finish"}
  BY <1>2 DEF Nexts
<1> QED  BY <1>7, <1>8, <1>9, <1>10, <1>11, <1>12, <1>13, <1>14, <1>15, <1>16

-----------------------------------------------------------------------------
(* The sink stores a record.                                               *)

\* The log has an end, and then nothing follows.
LEMMA NotOver ==
    ASSUME NEW L \in Seq(Recs), Ended(L), NEW r \in Recs, Follows(StageOf(L), r)
    PROVE  \A j \in DOMAIN L : L[j].type # "finished"
<1> SUFFICES ASSUME NEW j \in DOMAIN L, L[j].type = "finished" PROVE FALSE
  OBVIOUS
<1>1. StageOf(L).type = "finished"
  BY DEF Ended
<1> QED  BY <1>1, TypesApart DEF Follows, Idle

\* The operation that a start follows was admitted once.
LEMMA AdmittedOnce ==
    ASSUME NEW L \in Seq(Recs), LogInv(L), StageOf(L).type \in Admission
    PROVE  \E i \in DOMAIN L : /\ L[i].type \in Admission /\ L[i].op = StageOf(L).op
                               /\ \A j \in DOMAIN L : L[j].type \in Admission /\ L[j].op = StageOf(L).op => j = i
<1> DEFINE o == StageOf(L).op
<1>1. PICK i \in DOMAIN L : L[i].type \in Admission /\ L[i].op = o
  <2>1. StageOf(L) # [type |-> "idle", op |-> 0]
    BY DEF Admission
  <2>2. PICK i \in DOMAIN L : StageOf(L) = [type |-> L[i].type, op |-> L[i].op]
    BY <2>1, StageFrom
  <2>3. L[i].type = StageOf(L).type /\ L[i].op = StageOf(L).op
    BY <2>2
  <2> QED  BY <2>3
<1>2. \A k \in DOMAIN L : ~SettledAs(L[k], o)
  BY DEF LogInv, SettledOnce
<1> HIDE DEF o
<1>3. ASSUME NEW j \in DOMAIN L, NEW k \in DOMAIN L, j < k, L[j].type \in Admission, L[k].type \in Admission, L[j].op = o
      PROVE  FALSE
  <2>1. \E m \in DOMAIN L : SettledAs(L[m], L[j].op)
    BY <1>3 DEF LogInv, SettledFirst
  <2> QED  BY <1>2, <1>3, <2>1
<1>4. \A j \in DOMAIN L : j \in Nat
  <2> HIDE DEF Recs
  <2> QED  OBVIOUS
<1>5. ASSUME NEW j \in DOMAIN L, L[j].type \in Admission, L[j].op = o PROVE j = i
  <2>1. j \in Nat /\ i \in Nat
    BY <1>4
  <2>2. ~(j < i) /\ ~(i < j)
    BY <1>1, <1>3, <1>5
  <2> QED  BY <2>1, <2>2
<1> QED  BY <1>1, <1>5 DEF o

\* What the log tells of steers, with one record more.
Longer(M, L, r) == M = Append(L, r)
Tells(M, L, r) ==
  /\ Taken(M) = Taken(L) \cup (IF r.type = "steer_admitted" THEN {r.what} ELSE {})
  /\ r.type # "model_started" => Hearers(M) = Hearers(L)
  /\ r.type = "model_started" =>
       Hearers(M) = Hearers(L) \cup {j \in DOMAIN L : L[j].type = "model_admitted" /\ L[j].op = r.op}
  /\ \A j \in DOMAIN L : M[j] = L[j]
TellsRequest(M, s, L) ==
  \/ s.pending.rec.type # "model_started" /\ Carry(s) = {} /\ Hearers(M) = Hearers(L)
  \/ \E i \in DOMAIN L : Hearers(M) = Hearers(L) \cup {i} /\ Carry(s) = Items(L[i].what)
LEMMA SteersTold ==
    ASSUME NEW L \in Seq(Recs), NEW r \in Recs, NEW M, Longer(M, L, r),
           r.type = "model_admitted" => r.op \notin StartedOps(L)
    PROVE  Tells(M, L, r)
<1> DEFINE n == Len(L) + 1
<1>1. /\ n \in DOMAIN M /\ M[n] = r /\ DOMAIN M = DOMAIN L \cup {n} /\ n \notin DOMAIN L
      /\ \A i \in DOMAIN L : M[i] = L[i]
  BY Appended DEF Longer
<1> HIDE DEF n, Recs
<1>2. Taken(M) = Taken(L) \cup (IF r.type = "steer_admitted" THEN {r.what} ELSE {})
  <2> DEFINE A == {j \in DOMAIN L : L[j].type = "steer_admitted"}
             B == {j \in DOMAIN M : M[j].type = "steer_admitted"}
  <2>1. B = A \cup (IF r.type = "steer_admitted" THEN {n} ELSE {}) /\ \A j \in A : M[j] = L[j]
    BY <1>1
  <2>2. Taken(M) = {M[j].what : j \in B} /\ Taken(L) = {L[j].what : j \in A}
    BY DEF Taken
  <2> HIDE DEF A, B
  <2>3. \A j \in B : M[j].what \in Taken(L) \cup (IF r.type = "steer_admitted" THEN {r.what} ELSE {})
    BY <1>1, <2>1, <2>2
  <2>4. \A j \in A : L[j].what \in Taken(M)
    BY <2>1, <2>2
  <2>5. r.type = "steer_admitted" => r.what \in Taken(M)
    BY <1>1, <2>1, <2>2
  <2>6. \A x \in Taken(M) : \E j \in B : x = M[j].what
    BY <2>2
  <2>7. \A x \in Taken(L) : \E j \in A : x = L[j].what
    BY <2>2
  <2>8. Taken(M) \subseteq Taken(L) \cup (IF r.type = "steer_admitted" THEN {r.what} ELSE {})
    BY <2>3, <2>6
  <2>9. Taken(L) \subseteq Taken(M)
    BY <2>4, <2>7
  <2> QED  BY <2>5, <2>8, <2>9
<1>3. StartedOps(M) = StartedOps(L) \cup (IF r.type = "model_started" THEN {r.op} ELSE {})
  <2> DEFINE A == {j \in DOMAIN L : L[j].type = "model_started"}
             B == {j \in DOMAIN M : M[j].type = "model_started"}
  <2>1. B = A \cup (IF r.type = "model_started" THEN {n} ELSE {}) /\ \A j \in A : M[j] = L[j]
    BY <1>1
  <2>2. StartedOps(M) = {M[j].op : j \in B} /\ StartedOps(L) = {L[j].op : j \in A}
    BY DEF StartedOps
  <2> HIDE DEF A, B
  <2>3. \A j \in B : M[j].op \in StartedOps(L) \cup (IF r.type = "model_started" THEN {r.op} ELSE {})
    BY <1>1, <2>1, <2>2
  <2>4. \A j \in A : L[j].op \in StartedOps(M)
    BY <2>1, <2>2
  <2>5. r.type = "model_started" => r.op \in StartedOps(M)
    BY <1>1, <2>1, <2>2
  <2>6. \A x \in StartedOps(M) : \E j \in B : x = M[j].op
    BY <2>2
  <2>7. \A x \in StartedOps(L) : \E j \in A : x = L[j].op
    BY <2>2
  <2>8. StartedOps(M) \subseteq StartedOps(L) \cup (IF r.type = "model_started" THEN {r.op} ELSE {})
    BY <2>3, <2>6
  <2>9. StartedOps(L) \subseteq StartedOps(M)
    BY <2>4, <2>7
  <2> QED  BY <2>5, <2>8, <2>9
<1>4. r.type # "model_started" => Hearers(M) = Hearers(L)
  BY <1>1, <1>3 DEF Hearers
<1>5. r.type = "model_started" =>
        Hearers(M) = Hearers(L) \cup {j \in DOMAIN L : L[j].type = "model_admitted" /\ L[j].op = r.op}
  BY <1>1, <1>3 DEF Hearers
<1> QED  BY <1>1, <1>2, <1>4, <1>5 DEF Tells

\* A start tells of one request more, with the steers that the record carries.
LEMMA HeardMore ==
    ASSUME NEW s, NEW w \in Tasks, NEW L \in Seq(Recs), NEW n, Good(s, w, L), LogInv(L), Placed(s, L, n),
           s.pending # None, ~s.pending.committed, NEW M, Longer(M, L, s.pending.rec)
    PROVE  TellsRequest(M, s, L)
<1> USE DEF TellsRequest
<1> DEFINE r == s.pending.rec
<1>0. s \in Runs /\ r \in Recs /\ r.op \in Nat /\ PendingType(s) = r.type
  <2>1. s \in Runs
    BY DEF Good
  <2> QED  BY <2>1, PendingTypes
<1>1. Follows(StageOf(L), r) /\ (r.type \in Admission => \A j \in DOMAIN L : L[j].op < r.op)
  BY DEF Good, Sound, Written
<1>2. r.type = "model_admitted" => r.op \notin StartedOps(L)
  <2> SUFFICES ASSUME r.type = "model_admitted", r.op \in StartedOps(L) PROVE FALSE
    OBVIOUS
  <2>1. PICK j \in DOMAIN L : L[j].op = r.op
    BY DEF StartedOps
  <2>2. L[j].op < r.op
    BY <1>1 DEF Admission
  <2> HIDE DEF r
  <2> QED  BY <1>0, <2>1, <2>2
<1>a. Tells(M, L, r)
  <2>1. Longer(M, L, r)
    OBVIOUS
  <2> HIDE DEF r
  <2> QED  BY <1>0, <1>2, <2>1, SteersTold, Zenon
<1>3. CASE r.type # "model_started"
  <2>1. Hearers(M) = Hearers(L)
    BY <1>3, <1>a DEF Tells
  <2>2. Carry(s) = {}
    BY <1>3 DEF Carry
  <2> QED  BY <1>3, <2>1, <2>2
<1>4. CASE r.type = "model_started"
  <2>1. StageOf(L).type \in Admission /\ r.op = StageOf(L).op
    BY <1>1, <1>4, TypesApart DEF Follows, Admission, Start, Completion, Stages
  <2>2. PICK i \in DOMAIN L : /\ L[i].type \in Admission /\ L[i].op = r.op
                              /\ \A j \in DOMAIN L : L[j].type \in Admission /\ L[j].op = r.op => j = i
    BY <2>1, AdmittedOnce
  <2>3. Modelling(s)
    BY <1>4 DEF Placed, Sending
  <2>4. s.op.id = r.op
    <3>1. At(s, L) = [type |-> r.type, op |-> r.op]
      BY <1>0, <1>4 DEF At, Stages, Start
    <3>2. At(s, L).op = r.op
      BY <3>1
    <3>3. s.op # None
      BY <2>3 DEF Modelling
    <3> QED  BY <3>2, <3>3 DEF Good, Sound, Phase
  <2>5. L[i].type = "model_admitted" /\ L[i].what = s.op.steers
    BY <2>2, <2>3, <2>4 DEF Placed, Carried
  <2>6. Carry(s) = Items(L[i].what)
    BY <1>4, <2>5 DEF Carry
  <2>7. {j \in DOMAIN L : L[j].type = "model_admitted" /\ L[j].op = r.op} = {i}
    BY <2>2, <2>5 DEF Admission
  <2>8. Hearers(M) = Hearers(L) \cup {j \in DOMAIN L : L[j].type = "model_admitted" /\ L[j].op = r.op}
    BY <1>4, <1>a DEF Tells
  <2> QED  BY <2>6, <2>7, <2>8
<1> QED  BY <1>3, <1>4

LEMMA StoredPlaced ==
    ASSUME NEW s, NEW w \in Tasks, NEW L \in Seq(Recs), NEW n, Good(s, w, L), LogInv(L), Placed(s, L, n),
           Single(L), Concluded(L), s.pending # None, ~s.pending.committed,
           NEW t, t = [s EXCEPT !.pending.committed = TRUE], NEW M, M = Append(L, s.pending.rec)
    PROVE  Placed(t, M, n) /\ Single(M) /\ Concluded(M)
<1>0. TellsRequest(M, s, L)
  <2>1. Longer(M, L, s.pending.rec)
    BY DEF Longer
  <2> QED  BY <2>1, HeardMore, Zenon
<1> DEFINE p == [s.pending EXCEPT !.committed = TRUE]
           r == s.pending.rec
           z == Len(L) + 1
<1>1. s \in Runs /\ s.pending \in Appends /\ r \in Recs /\ s.pending.next \in Nexts /\ r.op \in Nat
  <2>1. s \in Runs
    BY DEF Good
  <2> QED  BY <2>1, PendingTypes DEF Runs
<1>2. p # None /\ p.next = s.pending.next /\ p.rec = r /\ p.committed
  BY <1>1 DEF Appends, None
<1>3. /\ t.op = s.op /\ t.pending = p /\ t.steer = s.steer /\ t.controls = s.controls
      /\ t.stopping = s.stopping /\ t.finishing = s.finishing
  BY <1>1 DEF Runs
<1> HIDE DEF p
<1>4. z \in DOMAIN M /\ M[z] = r /\ DOMAIN M = DOMAIN L \cup {z} /\ \A j \in DOMAIN L : M[j] = L[j]
  BY <1>1, Appended
<1>5. r.type = "steer_admitted" => s.pending.next.k = "steer"
  <2>1. Fits(s.pending.next, r.type, r.what)
    BY DEF Good, Sound, Written
  <2>2. s.pending.next.k \in {"advance", "paused", "event", "model_failed", "pause", "continue", "steer", "approve",
                              "approval", "effect", "settled", "turn", "finish"}
    BY <1>1 DEF Nexts
  <2> HIDE DEF r
  <2> QED  BY <2>1, <2>2 DEF Fits, Admission, Start
<1>6. Follows(StageOf(L), r) /\ (r.type \in Admission => \A j \in DOMAIN L : L[j].op < r.op)
  BY DEF Good, Sound, Written
<1>7. Taken(M) = Taken(L) \cup (IF r.type = "steer_admitted" THEN {r.what} ELSE {})
  <2>1. r.type = "model_admitted" => r.op \notin StartedOps(L)
    <3> SUFFICES ASSUME r.type = "model_admitted", r.op \in StartedOps(L) PROVE FALSE
      OBVIOUS
    <3>1. PICK j \in DOMAIN L : L[j].op = r.op
      BY DEF StartedOps
    <3>2. L[j].op < r.op
      BY <1>6 DEF Admission
    <3> HIDE DEF r
    <3> QED  BY <1>1, <3>1, <3>2
  <2>2. Longer(M, L, r)
    BY DEF Longer
  <2> HIDE DEF r
  <2>3. Tells(M, L, r)
    BY <1>1, <2>1, <2>2, SteersTold, Zenon
  <2> QED  BY <2>3 DEF Tells
<1>8. Heard(M) = Heard(L) \cup Carry(s) /\ Single(M)
  <2>0. \/ s.pending.rec.type # "model_started" /\ Carry(s) = {} /\ Hearers(M) = Hearers(L)
        \/ \E i \in DOMAIN L : Hearers(M) = Hearers(L) \cup {i} /\ Carry(s) = Items(L[i].what)
    BY <1>0 DEF TellsRequest
  <2>1. Hearers(L) \subseteq DOMAIN L
    BY DEF Hearers
  <2>2. CASE Carry(s) = {} /\ Hearers(M) = Hearers(L)
    <3>1. Heard(M) = Heard(L)
      BY <1>4, <2>1, <2>2 DEF Heard
    <3>2. Single(M)
      BY <1>4, <2>1, <2>2 DEF Single
    <3> QED  BY <2>2, <3>1, <3>2
  <2>3. CASE \E i \in DOMAIN L : Hearers(M) = Hearers(L) \cup {i} /\ Carry(s) = Items(L[i].what)
    <3>1. PICK i \in DOMAIN L : Hearers(M) = Hearers(L) \cup {i} /\ Carry(s) = Items(L[i].what)
      BY <2>3
    <3>2. M[i] = L[i] /\ \A j \in Hearers(L) : M[j] = L[j]
      BY <1>4, <2>1
    <3>3. Heard(M) = Heard(L) \cup Carry(s)
      <4>1. \A j \in Hearers(M) : Items(M[j].what) \subseteq Heard(L) \cup Carry(s)
        BY <3>1, <3>2 DEF Heard
      <4>2. \A j \in Hearers(L) : Items(L[j].what) \subseteq Heard(M)
        BY <3>1, <3>2 DEF Heard
      <4>3. Carry(s) \subseteq Heard(M)
        BY <3>1, <3>2 DEF Heard
      <4>4. Heard(M) \subseteq Heard(L) \cup Carry(s)
        BY <4>1 DEF Heard
      <4>5. Heard(L) \subseteq Heard(M)
        BY <4>2 DEF Heard
      <4> QED  BY <4>3, <4>4, <4>5
    <3>4. \A j \in Hearers(L) : Items(L[j].what) \cap Items(L[i].what) = {}
      <4>1. \A j \in Hearers(L) : Items(L[j].what) \subseteq Heard(L)
        BY DEF Heard
      <4>2. Carry(s) \cap Heard(L) = {}
        BY DEF Placed, Apart
      <4> QED  BY <3>1, <4>1, <4>2
    <3>5. Single(M)
      BY <3>1, <3>2, <3>4 DEF Single
    <3> QED  BY <3>3, <3>5
  <2> QED  BY <2>0, <2>2, <2>3
<1> HIDE DEF r, z
<1>9. /\ Waits(t) = Waits(s) /\ Steering(t) = Steering(s) /\ Carry(t) = {}
      /\ SteerIds(t.controls) = SteerIds(s.controls)
      /\ (Modelling(t) <=> Modelling(s)) /\ (Unlaunched(t) <=> Unlaunched(s))
  <2>1. Steering(t) = Steering(s) /\ Carry(t) = {} /\ Waits(t) = Waits(s)
    BY <1>2, <1>3 DEF Steering, Carry, Waits
  <2>2. (Modelling(t) <=> Modelling(s)) /\ (Unlaunched(t) <=> Unlaunched(s))
    BY <1>3 DEF Modelling, Unlaunched
  <2> QED  BY <1>3, <2>1, <2>2
<1>10. Failing(t) <=> Failing(s)
  BY <1>2, <1>3, <1>9 DEF Failing
<1>11. Apart(t, M, n)
  <2>1. /\ \A i, j \in DOMAIN s.steer : s.steer[i] = s.steer[j] => i = j
        /\ OneSteer(s.controls)
    BY DEF Placed, Apart
  <2>2. Waits(s) \cap (Carry(s) \cup Heard(L)) = {}
    BY DEF Placed, Apart
  <2>3. Steering(s) \cap (Waits(s) \cup Carry(s) \cup Heard(L)) = {}
    BY DEF Placed, Apart
  <2>4. SteerIds(s.controls) \cap (Steering(s) \cup Waits(s) \cup Carry(s) \cup Heard(L)) = {}
    BY DEF Placed, Apart
  <2>5. SteerIds(s.controls) \cup Steering(s) \cup Waits(s) \cup Carry(s) \cup Heard(L) \subseteq 1 .. n
    BY DEF Placed, Apart
  <2>6. Carry(t) \cup Heard(M) = Carry(s) \cup Heard(L)
    BY <1>8, <1>9
  <2>7. /\ \A i, j \in DOMAIN t.steer : t.steer[i] = t.steer[j] => i = j
        /\ OneSteer(t.controls)
    BY <1>3, <2>1
  <2>8. Carry(t) \cap Heard(M) = {}
    BY <1>9
  <2>9. Waits(t) \cap (Carry(t) \cup Heard(M)) = {}
    BY <1>9, <2>2, <2>6
  <2>10. Steering(t) \cap (Waits(t) \cup Carry(t) \cup Heard(M)) = {}
    BY <1>9, <2>3, <2>6
  <2>11. SteerIds(t.controls) \cap (Steering(t) \cup Waits(t) \cup Carry(t) \cup Heard(M)) = {}
    BY <1>9, <2>4, <2>6
  <2>12. SteerIds(t.controls) \cup Steering(t) \cup Waits(t) \cup Carry(t) \cup Heard(M) \subseteq 1 .. n
    BY <1>9, <2>5, <2>6
  <2> QED  BY <2>7, <2>8, <2>9, <2>10, <2>11, <2>12 DEF Apart
<1>12. Carried(t, M)
  <2> SUFFICES ASSUME Modelling(s) PROVE Carried(t, M)
    BY <1>9 DEF Carried
  <2>1. ASSUME NEW j \in DOMAIN M, M[j].type \in Admission, M[j].op = s.op.id
        PROVE  M[j].type = "model_admitted" /\ M[j].what = s.op.steers
    <3>1. CASE j \in DOMAIN L
      BY <1>4, <2>1, <3>1 DEF Placed, Carried
    <3>2. CASE j = z
      BY <1>4, <2>1, <3>2 DEF Placed, Sending, r
    <3> QED  BY <1>4, <3>1, <3>2
  <2> QED  BY <1>3, <2>1 DEF Placed, Carried
<1>13. Sending(t, M)
  BY <1>2, <1>3, <1>9 DEF Placed, Sending, r
<1>14. Reached(t, M)
  <2>1. Taken(M) \subseteq Taken(L) \cup Steering(s)
    <3>1. r.type = "steer_admitted" => r.what \in Steering(s)
      BY <1>5 DEF Placed, Sending, Steering, r
    <3> QED  BY <1>7, <3>1
  <2> QED  BY <1>3, <1>8, <1>9, <1>10, <2>1 DEF Placed, Reached
<1>15. Concluded(M)
  <2> SUFFICES ASSUME NEW j \in DOMAIN M, Completes(M[j]) PROVE AllHeard(M)
    BY DEF Concluded
  <2>1. \A k \in DOMAIN L : L[k].type # "finished"
    BY <1>1, <1>6, NotOver DEF LogInv
  <2>2. j = z
    BY <1>4, <2>1 DEF Completes
  <2>3. Completes(r) /\ r.type # "steer_admitted"
    BY <1>4, <2>2 DEF Completes
  <2>4. AllHeard(L)
    BY <2>3 DEF Placed, Sending, r
  <2> QED  BY <1>7, <1>8, <2>3, <2>4 DEF AllHeard
<1> QED  BY <1>8, <1>11, <1>12, <1>13, <1>14, <1>15 DEF Placed

-----------------------------------------------------------------------------
(* The handlers.                                                           *)

\* drive/1 at the end of a handler that left the run as b.
LEMMA GoPlaced ==
    ASSUME worker \in Tasks, log \in Seq(Recs), NEW b, Good(b, worker, log), NEW n, Placed(b, log, n), Go(b)
    PROVE  Placed(run', log, n)
<1>1. PICK spawned \in BOOLEAN : run' = Drive(b, spawned)
  BY DEF Go, Become
<1>2. Placed(Drive(b, spawned), log, n)
  BY DrivePlaced
<1> QED  BY <1>1, <1>2

\* A control joins the queue, with a steer of a new name if any.
LEMMA QueuedPlaced ==
    ASSUME NEW s, NEW w \in Tasks, NEW L \in Seq(Recs), Good(s, w, L), NEW c \in Controls, Sensible(s, L, c),
           NEW ds, Joined(s.controls, c, ds), NEW b, Requeue(s, b, ds),
           NEW m \in Nat, NEW n \in Nat, m <= n, SteerOf(c) \subseteq (1 .. n) \ (1 .. m), Placed(s, L, m)
    PROVE  Good(b, w, L) /\ Placed(b, L, n)
<1>1. s.controls \in Seq(Controls)
  BY DEF Good, Runs
<1> HIDE DEF Controls
<1>2. Good(b, w, L)
  BY EnqueueKeeps DEF Joined
<1>3. OneSteer(s.controls) /\ SteerIds(s.controls) \subseteq 1 .. m
  BY DEF Placed, Apart
<1>4. SteerOf(c) \cap SteerIds(s.controls) = {}
  BY <1>3
<1>5. OneSteer(ds) /\ SteerIds(ds) \subseteq SteerIds(s.controls) \cup SteerOf(c)
  BY <1>1, <1>3, <1>4, SteersMore
<1>6. Lined(s, b, ds)
  BY DEF Lined, Requeue
<1>7. SteerOf(c) \in SUBSET ((1 .. n) \ (1 .. m)) /\ 1 .. m \subseteq 1 .. n
  OBVIOUS
<1> HIDE DEF SteerOf
<1>8. Placed(b, L, n)
  BY <1>5, <1>6, <1>7, LinedPlaced
<1> QED  BY <1>2, <1>8

\* A command's control is put behind those that wait.
LEMMA EnqueuePlaced ==
    ASSUME worker \in Tasks, log \in Seq(Recs), NEW s, Good(s, worker, log), NEW c \in Controls,
           Sensible(s, log, c), c.from \in Clients, Enqueue(s, c),
           NEW m \in Nat, NEW n \in Nat, m <= n, SteerOf(c) \subseteq (1 .. n) \ (1 .. m), Placed(s, log, m)
    PROVE  Placed(run', log, n)
<1> DEFINE b == [s EXCEPT !.asked = @ \cup {c.from}, !.controls = Append(@, c)]
           ds == Append(s.controls, c)
<1>1. Go(b)
  BY DEF Enqueue
<1>2. s \in Runs /\ s.controls \in Seq(Controls)
  BY DEF Good, Runs
<1>3. ds \in Seq(Controls) /\ Joined(s.controls, c, ds)
  <2> HIDE DEF Controls
  <2> QED  BY <1>2 DEF Joined
<1>4. Requeue(s, b, ds)
  <2> HIDE DEF Controls
  <2> QED  BY <1>2, <1>3 DEF Runs, Requeue
<1> HIDE DEF b, ds, Controls, SteerOf
<1>5. Good(b, worker, log) /\ Placed(b, log, n)
  BY <1>3, <1>4, QueuedPlaced
<1> QED  BY <1>1, <1>5, GoPlaced

SteersKept == Placed(run', log', issued')

LEMMA CommandsPlaced ==
    ASSUME Whole(run, worker, log), issued \in Nat, Placed(run, log, issued), NEW c \in Clients,
           Pause(c) \/ Continue(c) \/ Steer(c)
    PROVE  SteersKept
<1>0. Good(run, worker, log) /\ worker \in Tasks /\ log \in Seq(Recs)
  BY DEF Whole
<1>1. log' = log /\ issued' = issued + 1 /\ issued' \in Nat /\ issued <= issued'
  <2>1. log' = log
    BY DEF Pause, Continue, Steer
  <2>2. issued' = issued + 1
    BY DEF Pause, Continue, Steer, Sends
  <2> QED  BY <2>1, <2>2
<1>2. ASSUME NEW d \in Controls, Sensible(run, log, d), d.from \in Clients, Enqueue(run, d),
             SteerOf(d) \subseteq (1 .. issued') \ (1 .. issued)
      PROVE  SteersKept
  <2> HIDE DEF Controls, SteerOf
  <2> QED  BY <1>0, <1>1, <1>2, EnqueuePlaced DEF SteersKept
<1>3. ASSUME Pause(c) PROVE SteersKept
  <2> DEFINE d == [k |-> "pause", from |-> c]
  <2>1. d \in Controls /\ Sensible(run, log, d) /\ d.from \in Clients /\ SteerOf(d) = {}
    BY DEF Controls, Pauses, Sensible, Guarded, SteerOf
  <2>2. Enqueue(run, d)
    BY <1>3 DEF Pause
  <2> HIDE DEF d
  <2> QED  BY <1>2, <2>1, <2>2
<1>4. ASSUME Continue(c) PROVE SteersKept
  <2> DEFINE d == [k |-> "continue", from |-> c]
  <2>1. d \in Controls /\ Sensible(run, log, d) /\ d.from \in Clients /\ SteerOf(d) = {}
    BY DEF Controls, Continues, Sensible, Guarded, SteerOf
  <2>2. Enqueue(run, d)
    BY <1>4 DEF Continue
  <2> HIDE DEF d
  <2> QED  BY <1>2, <2>1, <2>2
<1>5. ASSUME Steer(c) PROVE SteersKept
  <2> DEFINE d == [k |-> "steer", from |-> c, id |-> issued + 1]
  <2>0. issued + 1 \in Nat /\ issued + 1 \in (1 .. issued') \ (1 .. issued)
    BY <1>1
  <2>1. d \in Controls /\ Sensible(run, log, d) /\ d.from \in Clients /\ SteerOf(d) = {issued + 1}
    BY <2>0 DEF Controls, Steers, Sensible, Guarded, SteerOf
  <2>2. Enqueue(run, d)
    BY <1>5 DEF Steer
  <2> HIDE DEF d
  <2> QED  BY <1>2, <2>0, <2>1, <2>2
<1> QED  BY <1>3, <1>4, <1>5

LEMMA ApprovePlaced ==
    ASSUME Whole(run, worker, log), issued \in Nat, Placed(run, log, issued), NEW c \in Clients,
           NEW decision \in Decisions, Approve(c, decision)
    PROVE  SteersKept
<1> DEFINE q == [run.approval EXCEPT !.resolving = TRUE]
           s == [run EXCEPT !.approval.resolving = TRUE]
           d == [k |-> "approval", from |-> c, call |-> run.approval.call, decision |-> decision]
<1>0. Good(run, worker, log) /\ run \in Runs /\ worker \in Tasks /\ log \in Seq(Recs)
  BY DEF Whole, Good
<1>1. /\ run.approval # None /\ Enqueue(s, d) /\ log' = log
      /\ issued' = issued + 1 /\ issued' \in Nat /\ issued <= issued'
  BY DEF Approve, Sends
<1>2. run.approval \in Requests
  BY <1>0, <1>1 DEF Runs
<1>3. run.approval.call \in Calls /\ q \in Requests
  <2> HIDE DEF Calls
  <2> QED  BY <1>2 DEF Requests
<1>4. s = [run EXCEPT !.approval = q]
  BY <1>0, <1>2 DEF Runs, Requests
<1>5. run.op = None /\ run.policy = "ask"
  BY <1>0, <1>1 DEF Good, Sound, Queued
<1>6. d \in Controls /\ d.from \in Clients /\ d.k = "approval" /\ SteerOf(d) = {}
  <2> HIDE DEF Calls
  <2> QED  BY <1>3 DEF Controls, Resolutions, SteerOf
<1> HIDE DEF q
<1>7. Reset(run, s) /\ s.status = run.status /\ Lined(run, s, run.controls) /\ HasSteers(s)
  <2>1. Reset(run, s) /\ s.status = run.status /\ Lined(run, s, run.controls)
    <3> HIDE DEF Requests, s
    <3> QED  BY <1>0, <1>3, <1>4 DEF Runs, Reset, Lined
  <2>2. HasSteers(s)
    BY <2>1, RunSteers DEF Reset
  <2> QED  BY <2>1, <2>2
<1> HIDE DEF s, d
<1>8. Good(s, worker, log) /\ Quiet(run, s)
  BY <1>0, <1>5, <1>7, ResetKeeps
<1>9. Sensible(s, log, d)
  BY <1>5, <1>6, <1>7 DEF Sensible, Guarded, Reset
<1>10. Placed(s, log, issued)
  <2>1. Steady(run, s, log)
    BY <1>7, LinedSteady
  <2>2. s.pending = run.pending
    BY <1>7 DEF Lined
  <2> QED  BY <2>1, <2>2, SteadyPlaced
<1>11. SteerOf(d) \subseteq (1 .. issued') \ (1 .. issued)
  BY <1>6
<1> HIDE DEF Controls, SteerOf
<1>12. Placed(run', log, issued')
  BY <1>0, <1>1, <1>6, <1>8, <1>9, <1>10, <1>11, EnqueuePlaced
<1> QED  BY <1>1, <1>12 DEF SteersKept

\* A stop, by a client or by the timer: the operation is cancelled and the
\* control goes first.
LEMMA HaltPlaced ==
    ASSUME Whole(run, worker, log), NEW s, Good(s, worker, log), ~s.finishing, NEW t, Halted(s, t),
           NEW c \in [k : {"stop", "timeout"}], c.k = "timeout" => t.timedOut,
           NEW b, Requeue(CancelOperation(t), b, <<c>> \o CancelOperation(t).controls), Go(b),
           NEW m \in Nat, NEW n \in Nat, m <= n, Placed(s, log, m)
    PROVE  Placed(run', log, n)
<1> DEFINE u == CancelOperation(t)
<1>0. worker \in Tasks /\ log \in Seq(Recs) /\ Ended(log)
  BY DEF Whole, LogInv
<1>1. Good(t, worker, log) /\ t \in Runs
  BY <1>0, HaltKeeps DEF Halted
<1>2. HasSteers(t)
  BY <1>1, RunSteers
<1>3. Steady(s, t, log) /\ t.pending = s.pending
  BY <1>2 DEF Steady, SameRequest, Modelling, Halted
<1>4. Placed(t, log, m)
  BY <1>3, SteadyPlaced
<1>5. /\ Good(u, worker, log) /\ (t.op = None => u = t) /\ (t.op # None => Reop(t, u, u.op))
  BY <1>0, <1>1, CancelKeeps
<1>6. Steady(t, u, log)
  BY <1>2, WritersSteady
<1> HIDE DEF u
<1>7. u.pending = t.pending /\ u.stopping = t.stopping /\ u.timedOut = t.timedOut /\ u.finishing = t.finishing
  BY <1>5 DEF Reop
<1>8. Placed(u, log, m)
  BY <1>4, <1>6, <1>7, SteadyPlaced
<1>9. c \in Controls /\ Sensible(u, log, c) /\ SteerOf(c) = {}
  <2>1. u.stopping /\ ~u.finishing /\ (c.k = "timeout" => u.timedOut)
    BY <1>7 DEF Halted
  <2> QED  BY <2>1 DEF Controls, Sensible, SteerOf
<1> DEFINE ds == <<c>> \o u.controls
<1>10. Joined(u.controls, c, ds) /\ Requeue(u, b, ds)
  BY DEF Joined, u
<1> HIDE DEF ds, Controls
<1>11. SteerOf(c) \subseteq (1 .. n) \ (1 .. m)
  BY <1>9
<1> HIDE DEF SteerOf
<1>12. Good(b, worker, log) /\ Placed(b, log, n)
  BY <1>0, <1>5, <1>8, <1>9, <1>10, <1>11, QueuedPlaced
<1> QED  BY <1>0, <1>12, GoPlaced

LEMMA StopsPlaced ==
    ASSUME Whole(run, worker, log), issued \in Nat, Placed(run, log, issued),
           OperationTimeout \/ \E c \in Clients : Stop(c)
    PROVE  SteersKept
<1>0. /\ Good(run, worker, log) /\ run \in Runs /\ HasSteers(run) /\ worker \in Tasks /\ log \in Seq(Recs)
      /\ Ended(log)
  BY RunSteers DEF Whole, Good, LogInv
<1>1. ASSUME NEW u, u \in Runs, NEW c \in [k : {"stop", "timeout"}], NEW b, b = [u EXCEPT !.controls = <<c>> \o @]
      PROVE  Requeue(u, b, <<c>> \o u.controls)
  <2>1. u.controls \in Seq(Controls) /\ c \in Controls
    BY <1>1 DEF Runs, Controls
  <2>2. <<c>> \o u.controls \in Seq(Controls)
    <3> HIDE DEF Controls
    <3> QED  BY <2>1
  <2> HIDE DEF Controls
  <2> QED  BY <1>1, <2>2 DEF Runs, Requeue
<1>2. ASSUME NEW c \in Clients, Stop(c) PROVE SteersKept
  <2> DEFINE t == [run EXCEPT !.stopping = TRUE]
             u == CancelOperation(t)
             d == [k |-> "stop"]
             b == [u EXCEPT !.controls = <<d>> \o @]
  <2>1. ~run.finishing /\ Go(b) /\ log' = log
    BY <1>2 DEF Stop, Live
  <2>2. issued' = issued + 1
    BY <1>2 DEF Stop, Sends
  <2>3. issued' \in Nat /\ issued <= issued'
    BY <2>2
  <2>4. Halted(run, t)
    BY <1>0 DEF Runs, Halted
  <2> HIDE DEF t
  <2>5. Good(t, worker, log)
    BY <1>0, <2>1, <2>4, HaltKeeps
  <2>6. u \in Runs
    BY <1>0, <2>5, CancelKeeps DEF Good
  <2>7. d \in [k : {"stop", "timeout"}] /\ (d.k = "timeout" => t.timedOut)
    OBVIOUS
  <2> HIDE DEF u, d
  <2>8. Requeue(u, b, <<d>> \o u.controls)
    BY <1>1, <2>6, <2>7
  <2> HIDE DEF b
  <2>9. Placed(run', log, issued')
    BY <1>0, <2>1, <2>3, <2>4, <2>7, <2>8, HaltPlaced DEF u
  <2> QED  BY <2>1, <2>9 DEF SteersKept
<1>3. ASSUME OperationTimeout PROVE SteersKept
  <2> DEFINE q == [run.op EXCEPT !.timer = FALSE]
             s == [run EXCEPT !.op = q]
             t == [run EXCEPT !.timedOut = TRUE, !.stopping = TRUE, !.op.timer = FALSE]
             u == CancelOperation(t)
             d == [k |-> "timeout"]
             b == [u EXCEPT !.controls = <<d>> \o @]
  <2>1. run.op # None /\ Go(b) /\ log' = log /\ issued' = issued
    BY <1>3 DEF OperationTimeout
  <2>2. run.op \in Ops /\ ~run.finishing
    <3>1. run.op \in Ops
      BY <1>0, <2>1 DEF Runs
    <3>2. At(run, log).type = "finished" => run.op = None
      BY <1>0 DEF Good, Sound, Phase
    <3> QED  BY <1>0, <2>1, <3>1, <3>2 DEF Good, Sound, Ending
  <2>3. /\ q \in Ops /\ q.id = run.op.id /\ q.kind = run.op.kind /\ q.call = run.op.call
        /\ q.effect = run.op.effect /\ q.task = run.op.task /\ q.down = run.op.down /\ q.sent = run.op.sent
        /\ q.steers = run.op.steers /\ q.result = run.op.result
    <3> HIDE DEF Calls, Answers
    <3> QED  BY <2>2 DEF Ops
  <2>4. t = [s EXCEPT !.timedOut = TRUE, !.stopping = TRUE]
    BY <1>0, <2>2 DEF Runs, Ops
  <2> HIDE DEF q
  <2>5. Good(s, worker, log) /\ Reop(run, s, q)
    BY <1>0, <2>1, <2>3, OpKeeps
  <2>6. Steady(run, s, log)
    BY <1>0, <2>1, <2>3, OpSteady
  <2> HIDE DEF s, t
  <2>7. s \in Runs /\ ~s.finishing /\ s.pending = run.pending
    BY <2>2, <2>5 DEF Reop
  <2>8. Placed(s, log, issued)
    BY <2>6, <2>7, SteadyPlaced
  <2>9. Halted(s, t) /\ t.timedOut = TRUE
    BY <2>4, <2>7 DEF Runs, Halted
  <2>10. d \in [k : {"stop", "timeout"}] /\ (d.k = "timeout" => t.timedOut)
    BY <2>9
  <2>11. u \in Runs
    <3>1. Good(t, worker, log)
      BY <1>0, <2>5, <2>7, <2>9, HaltKeeps
    <3> QED  BY <1>0, <3>1, CancelKeeps DEF Good
  <2> HIDE DEF u, d
  <2>12. Requeue(u, b, <<d>> \o u.controls)
    BY <1>1, <2>10, <2>11
  <2> HIDE DEF b
  <2>13. issued \in Nat /\ issued <= issued
    OBVIOUS
  <2>14. Placed(run', log, issued)
    BY <1>0, <2>1, <2>5, <2>7, <2>8, <2>9, <2>10, <2>12, <2>13, HaltPlaced DEF u
  <2> QED  BY <2>1, <2>14 DEF SteersKept
<1> QED  BY <1>2, <1>3

\* A message of the task: its progress is a control for the run, its answer is
\* kept with the operation, its end lets the run go on.
LEMMA MessagePlaced ==
    ASSUME Whole(run, worker, log), issued \in Nat, Placed(run, log, issued),
           OperationEvent \/ OperationResult \/ OperationDown
    PROVE  SteersKept
<1>0. /\ Good(run, worker, log) /\ run \in Runs /\ HasSteers(run) /\ worker \in Tasks /\ log \in Seq(Recs)
      /\ DownLast(worker) /\ worker.out # <<>> /\ run.op # None
  BY RunSteers DEF Whole, Good, OperationEvent, OperationResult, OperationDown, Message
<1>1. log' = log /\ issued' = issued
  BY DEF OperationEvent, OperationResult, OperationDown
<1>2. Active(worker) /\ run.op \in Ops /\ run.op.task /\ run.op.down = "no" /\ Head(worker.out) \in Messages
  <2>1. Active(worker)
    BY <1>0 DEF Active
  <2>2. run.op \in Ops /\ run.op.task /\ run.op.down = "no"
    BY <1>0, <2>1 DEF Runs, Good, Sound, Tasked
  <2>3. Head(worker.out) \in Messages
    <3>1. worker.out \in Seq(Messages)
      BY <1>0 DEF Tasks
    <3> HIDE DEF Messages
    <3> QED  BY <1>0, <3>1
  <2> QED  BY <2>1, <2>2, <2>3
<1>3. CASE OperationEvent
  <2> DEFINE c == [k |-> "event"]
             ds == Append(run.controls, c)
             b == [run EXCEPT !.controls = Append(@, c)]
  <2>1. run' = Drive(b, TRUE)
    BY <1>3 DEF OperationEvent
  <2>2. c \in Controls /\ c.k = "event" /\ SteerOf(c) = {}
    BY DEF Controls, SteerOf
  <2>3. Sensible(run, log, c)
    <3>1. At(run, log).type = "operation_settled" => run.op.down # "no"
      BY <1>0 DEF Good, Sound, Phase
    <3>2. ~run.finishing
      BY <1>0 DEF Good, Sound, Phase, Ending
    <3> QED  BY <1>0, <1>2, <2>2, <3>1, <3>2 DEF Sensible
  <2> HIDE DEF c
  <2>4. Joined(run.controls, c, ds) /\ Requeue(run, b, ds)
    <3>1. run.controls \in Seq(Controls)
      BY <1>0 DEF Runs
    <3>2. ds \in Seq(Controls)
      <4> HIDE DEF Controls
      <4> QED  BY <2>2, <3>1
    <3> HIDE DEF Controls
    <3> QED  BY <1>0, <3>2 DEF Runs, Requeue, Joined
  <2> HIDE DEF b, ds, Controls
  <2>5. issued <= issued /\ SteerOf(c) \subseteq (1 .. issued) \ (1 .. issued)
    BY <2>2
  <2> HIDE DEF SteerOf
  <2>6. Good(b, worker, log) /\ Placed(b, log, issued)
    BY <1>0, <2>2, <2>3, <2>4, <2>5, QueuedPlaced
  <2>7. Placed(Drive(b, TRUE), log, issued)
    BY <1>0, <2>6, DrivePlaced
  <2> QED  BY <1>1, <2>1, <2>7 DEF SteersKept
<1>4. CASE OperationResult
  <2> DEFINE m == Head(worker.out)
             q == [run.op EXCEPT !.result = m]
             t == [run EXCEPT !.op = q]
  <2>1. run' = [run EXCEPT !.op.result = m] /\ m.k \in {"turn", "cut", "error", "text"}
    BY <1>4 DEF OperationResult, Message
  <2>2. run' = t
    BY <1>0, <1>2, <2>1 DEF Runs, Ops
  <2>3. m \in Answers
    <3> HIDE DEF Answers, m
    <3> QED  BY <1>2, <2>1 DEF Messages, m
  <2> HIDE DEF m
  <2>4. /\ q \in Ops /\ q.id = run.op.id /\ q.kind = run.op.kind /\ q.steers = run.op.steers
        /\ q.task = run.op.task /\ q.down = run.op.down
    <3> HIDE DEF Calls, Answers
    <3> QED  BY <1>2, <2>3 DEF Ops
  <2> HIDE DEF q
  <2>5. Steady(run, t, log)
    BY <1>0, <1>2, <2>4, OpSteady
  <2>6. t.pending = run.pending
    BY <1>0 DEF Runs
  <2> HIDE DEF t
  <2>7. Placed(t, log, issued)
    BY <2>5, <2>6, SteadyPlaced
  <2> QED  BY <1>1, <2>2, <2>7 DEF SteersKept
<1>5. CASE OperationDown
  <2>1. PICK q, b, v : Heeded(q, b, v)
    BY <1>5, DownHeard
  <2>2. /\ Good(b, v, log) /\ v \in Tasks /\ run' = Drive(b, TRUE) /\ b.pending = run.pending
        /\ b = [run EXCEPT !.op = q] /\ q \in Ops
    BY <2>1 DEF Heeded, Reop
  <2>3. /\ q.kind = run.op.kind /\ q.id = run.op.id /\ q.steers = run.op.steers /\ q.task = run.op.task
        /\ q.down = "exit" /\ q.result = run.op.result
    BY <2>1 DEF Heeded
  <2>4. Steady(run, b, log)
    BY <1>0, <1>2, <2>2, <2>3, OpSteady
  <2>5. Placed(b, log, issued)
    BY <2>2, <2>4, SteadyPlaced
  <2>6. Placed(Drive(b, TRUE), log, issued)
    BY <1>0, <2>2, <2>5, DrivePlaced
  <2> QED  BY <1>1, <2>2, <2>6 DEF SteersKept
<1> QED  BY <1>3, <1>4, <1>5

\* The sink has stored the record: what follows it, and drive/1.
LEMMA AckPlaced ==
    ASSUME Whole(run, worker, log), issued \in Nat, Placed(run, log, issued), CommitAck
    PROVE  SteersKept
<1> DEFINE b == Resume([run EXCEPT !.pending = None, !.seq = run.pending.rec.seq], run.pending.rec, run.pending.next)
<1>1. run.pending # None /\ run.pending.committed /\ Go(b) /\ log' = log /\ issued' = issued
  BY DEF CommitAck
<1>2. worker \in Tasks /\ log \in Seq(Recs) /\ Good(run, worker, log)
  BY DEF Whole
<1>3. Good(b, worker, log)
  <2>1. run.pending # None /\ run.pending.committed
    BY <1>1
  <2>2. LET x == Resume([run EXCEPT !.pending = None, !.seq = run.pending.rec.seq], run.pending.rec, run.pending.next)
        IN  Good(x, worker, log) /\ Quiet(run, x)
    BY <1>2, <2>1, ResumeKeeps, Zenon
  <2> QED  BY <2>2
<1>4. Placed(b, log, issued)
  <2>1. run.pending # None /\ run.pending.committed
    BY <1>1
  <2>2. Placed(Resume([run EXCEPT !.pending = None, !.seq = run.pending.rec.seq], run.pending.rec, run.pending.next), log, issued)
    BY <1>2, <2>1, ResumePlaced, Zenon
  <2> QED  BY <2>2
<1> HIDE DEF b
<1>5. Placed(run', log, issued)
  BY <1>1, <1>2, <1>3, <1>4, GoPlaced
<1> QED  BY <1>1, <1>5 DEF SteersKept

\* A client that waits for the end, and the end of the process, move no steer.
LEMMA AsidePlaced ==
    ASSUME run \in Runs, issued \in Nat, Placed(run, log, issued), NEW c, Fence \/ Await(c)
    PROVE  SteersKept
<1>1. log' = log /\ issued' \in Nat /\ issued <= issued'
  <2>1. ASSUME Fence PROVE issued' = issued /\ log' = log
    BY <2>1 DEF Fence
  <2>2. ASSUME Await(c) PROVE issued' = issued + 1 /\ log' = log
    <3>1. Sends(c, "await") /\ log' = log
      BY <2>2 DEF Await
    <3> QED  BY <3>1 DEF Sends
  <2>3. log' = log /\ (issued' = issued \/ issued' = issued + 1)
    BY <2>1, <2>2
  <2> QED  BY <2>3
<1>2. Lined(run, run', run.controls)
  <2>1. ASSUME Fence PROVE Lined(run, run', run.controls)
    BY <2>1 DEF Fence, Runs, Lined
  <2>2. ASSUME Await(c) PROVE Lined(run, run', run.controls)
    <3>1. run' = [run EXCEPT !.waiters = @ \cup {c}, !.asked = @ \cup {c}]
      BY <2>2 DEF Await
    <3> QED  BY <3>1 DEF Runs, Lined
  <2> QED  BY <2>1, <2>2
<1>3. OneSteer(run.controls) /\ SteerIds(run.controls) \subseteq SteerIds(run.controls) \cup {}
  BY DEF Placed, Apart
<1>4. {} \in SUBSET ((1 .. issued') \ (1 .. issued)) /\ 1 .. issued \subseteq 1 .. issued'
  BY <1>1
<1>5. Placed(run', log, issued')
  BY <1>2, <1>3, <1>4, LinedPlaced
<1> QED  BY <1>1, <1>5 DEF SteersKept

-----------------------------------------------------------------------------
(* In every state.                                                         *)

LEMMA SteersStart == Init => SteersPlaced
<1> SUFFICES ASSUME Init PROVE SteersPlaced
  OBVIOUS
<1>1. /\ run.op = None /\ run.controls = <<>> /\ run.steer = <<>> /\ log = <<>> /\ issued = 0
      /\ run.pending # None /\ run.pending.next.k = "advance" /\ run.pending.rec.type = "started"
      /\ ~run.pending.committed
  BY DEF Init, Then, None
<1>2. DOMAIN log = {}
  BY <1>1
<1>3. Taken(log) = {} /\ Hearers(log) = {} /\ Heard(log) = {}
  BY <1>2 DEF Taken, Hearers, Heard
<1>4. Waits(run) = {} /\ Steering(run) = {} /\ Carry(run) = {} /\ SteerIds(run.controls) = {} /\ ~Modelling(run)
  BY <1>1 DEF Waits, Items, Steering, Carry, SteerIds, Modelling
<1>5. Apart(run, log, issued)
  BY <1>1, <1>3, <1>4 DEF Apart, OneSteer
<1>6. Carried(run, log) /\ Sending(run, log) /\ Reached(run, log)
  BY <1>1, <1>3, <1>4 DEF Carried, Sending, Reached, Completes, Admission
<1>7. Single(log) /\ Concluded(log)
  BY <1>2, <1>3 DEF Single, Concluded
<1> QED  BY <1>5, <1>6, <1>7 DEF SteersPlaced, Placed

LEMMA SteersStep ==
    ASSUME RunInv, SteersPlaced, [Next]_vars PROVE SteersPlaced'
<1>0. /\ run \in Runs /\ issued \in Nat /\ worker \in Tasks /\ log \in Seq(Recs) /\ LogInv(log)
      /\ Whole(run, worker, log) /\ Good(run, worker, log)
      /\ Placed(run, log, issued) /\ Single(log) /\ Concluded(log)
  BY DEF RunInv, Whole, Good, SteersPlaced
<1>1. SteersKept /\ log' = log => SteersPlaced'
  BY <1>0 DEF SteersKept, SteersPlaced
<1>2. CASE Handle
  <2>1. SteersKept
    BY <1>0, <1>2, AckPlaced, MessagePlaced, StopsPlaced DEF Handle
  <2>2. log' = log
    BY <1>2 DEF Handle, CommitAck, OperationEvent, OperationResult, OperationDown, OperationTimeout
  <2> QED  BY <1>1, <2>1, <2>2
<1>3. ASSUME NEW c \in Clients, Command(c) PROVE SteersPlaced'
  <2>1. ASSUME NEW decision \in {"allow", "deny"}, Approve(c, decision) PROVE SteersKept
    BY <1>0, <2>1, ApprovePlaced DEF Decisions
  <2>2. SteersKept
    BY <1>0, <1>3, <2>1, StopsPlaced, CommandsPlaced, AsidePlaced DEF Command
  <2>3. log' = log
    BY <1>3 DEF Command, Stop, Pause, Continue, Steer, Await, Approve
  <2> QED  BY <1>1, <2>2, <2>3
<1>4. CASE SinkCommit
  <2>1. run.pending # None /\ ~run.pending.committed /\ issued' = issued
    BY <1>4 DEF SinkCommit
  <2>2. run' = [run EXCEPT !.pending.committed = TRUE] /\ log' = Append(log, run.pending.rec)
    BY <1>4 DEF SinkCommit
  <2>3. Placed(run', log', issued) /\ Single(log') /\ Concluded(log')
    BY <1>0, <2>1, <2>2, StoredPlaced, Zenon
  <2> QED  BY <2>1, <2>3 DEF SteersPlaced
<1>5. CASE WorkTask \/ UNCHANGED vars
  <2>1. ASSUME NEW ms, Ends(ms) PROVE run' = run /\ log' = log /\ issued' = issued
    BY <2>1 DEF Ends
  <2>2. TaskRefused \/ TaskReturns \/ TaskDies => run' = run /\ log' = log /\ issued' = issued
    BY <2>1 DEF TaskRefused, TaskReturns, TaskDies
  <2>3. run' = run /\ log' = log /\ issued' = issued
    BY <1>5, <2>2 DEF WorkTask, TaskBegins, TaskReports, TaskGoesOn, vars
  <2> QED  BY <1>0, <2>3 DEF SteersPlaced
<1>6. CASE Fence
  <2>1. SteersKept
    BY <1>0, <1>6, AsidePlaced
  <2>2. log' = log
    BY <1>6 DEF Fence
  <2> QED  BY <1>1, <2>1, <2>2
<1> QED  BY <1>2, <1>3, <1>4, <1>5, <1>6 DEF Next

\* A steer that the run took is in exactly one place on its way to the model: in
\* the record that admits it, waiting for a request, or in one request that was
\* started; unless the run is stopping, ending, or could not start a request
\* (launch_model/2, model_result/3, finish/3).
THEOREM RunPlacesSteers == Spec => []SteersPlaced
<1>1. Init => SteersPlaced
  BY SteersStart
<1>2. SteersPlaced /\ RunInv /\ [Next]_vars => SteersPlaced'
  BY SteersStep
<1> QED  BY <1>1, <1>2, RunInvariant, PTL DEF Spec

\* A steer the client was told is taken is in exactly one started request when
\* the run completes, and never in two (launch_model/2, model_result/3).
THEOREM RunSteersReachModel == Spec => []SteersReachModel
<1>1. SteersPlaced => SteersReachModel
  <2> SUFFICES ASSUME SteersPlaced, NEW i \in Records({"steer_admitted"}),
                      NEW heard, heard = {j \in Records({"model_admitted"}) :
                                /\ \E x \in DOMAIN log[j].what : log[j].what[x] = log[i].what
                                /\ \E k \in Records({"model_started"}) : log[k].op = log[j].op}
               PROVE  /\ Cardinality(heard) <= 1
                      /\ (\E j \in Records({"finished"}) : log[j].what = "completed") => heard # {}
    BY DEF SteersReachModel
  <2>1. heard = {j \in Hearers(log) : log[i].what \in Items(log[j].what)}
    BY DEF Records, Is, Hearers, StartedOps, Items
  <2>2. \A j, k \in heard : j = k
    BY <2>1 DEF SteersPlaced, Single
  <2>3. Cardinality(heard) <= 1
    BY <2>2, AtMostOne
  <2>4. ASSUME NEW j \in Records({"finished"}), log[j].what = "completed" PROVE heard # {}
    <3>1. AllHeard(log)
      BY <2>4 DEF SteersPlaced, Concluded, Completes, Records, Is
    <3>2. log[i].what \in Taken(log)
      BY DEF Taken, Records, Is
    <3>3. PICK k \in Hearers(log) : log[i].what \in Items(log[k].what)
      BY <3>1, <3>2 DEF AllHeard, Heard
    <3> QED  BY <2>1, <3>3
  <2> QED  BY <2>3, <2>4
<1> QED  BY <1>1, RunPlacesSteers, PTL
=============================================================================
