------------------------- MODULE TerminalGuardProofs -------------------------
(***************************************************************************)
(* For every scenario: the guard and the writer never write to the         *)
(* terminal at the same time.  The argument is the discipline of their     *)
(* socket (guard.rs:164, guard.rs:200): the writer waits from the byte it  *)
(* sends until it has read the answer, so a request, a byte being served   *)
(* and an answer exclude one another, and any of them means that the       *)
(* writer waits; the final restoration begins only when it is reaped.      *)
(* Only a dead writer may leave a byte behind.                             *)
(***************************************************************************)
EXTENDS TerminalGuard, SequenceTheorems, TLAPS

Modes == Flags \cup {"raw", "nonblock", "nowrap", "altscroll", "kitty", "title", "drawn"}
Ops == [by : {"write", "fcntl", "termios"}, on : SUBSET Modes, off : SUBSET Modes]
Cells == {"none", "tstp", "cont"}
Codes == {"none", "ok", "err", "killed"}
Commands ==
    [kind : {"init"}, flags : SUBSET Flags] \cup [kind : {"mouse"}, on : BOOLEAN]
    \cup [kind : {"draw", "title", "suspend", "resume", "shutdown"}]
Phases == {"starting", "running", "suspending", "suspended", "resuming", "closing", "restored", "over"}

WriterType ==
    [at : {"top", "poll", "dead"}, plan : Seq(Steps), waiting : BOOLEAN, stopped : BOOLEAN, active : BOOLEAN,
     ext : BOOLEAN, await : BOOLEAN, flags : SUBSET Flags, probe : BOOLEAN, probed : BOOLEAN, enhanced : BOOLEAN,
     title : BOOLEAN, saved : BOOLEAN, cell : Cells, term : BOOLEAN, ending : BOOLEAN, result : {"ok", "err"},
     code : Codes]
GuardType ==
    [at : {"top", "poll", "serving", "exited"}, job : Asks \cup {"none", "final"}, script : Seq(Ops),
     failed : BOOLEAN, active : BOOLEAN, flags : SUBSET Flags, kitty : BOOLEAN, stopping : {"no", "young", "old"},
     term : BOOLEAN, cell : Cells, gone : BOOLEAN, code : Codes]
OwnerType == [phase : Phases, pipe : Seq(Commands), closed : BOOLEAN]
OutsideType ==
    [commands : Nat, stops : Nat, hiccups : Nat, outsiders : SUBSET Outsiders, last : Cells, terminated : BOOLEAN]

TypeInv ==
    /\ modes \subseteq Modes
    /\ terminal \in {"reads", "stuck", "gone"}
    /\ guard \in GuardType
    /\ writer \in WriterType
    /\ request \in Asks \cup {"none"}
    /\ answer \in {"none", "ok", "failed"}
    /\ owner \in OwnerType
    /\ records \in Seq(Tells \cup {"failure"})
    /\ outside \in OutsideType

\* A byte of the writer is being served.
Serves == guard.at = "serving" /\ guard.job # "final"

Handshake ==
    /\ guard.at = "serving" /\ guard.job = "final" => writer.at = "dead"
    /\ writer.at # "dead" =>
        /\ request # "none" => writer.waiting /\ answer = "none" /\ ~Serves
        /\ Serves => writer.waiting /\ answer = "none"
        /\ answer # "none" => writer.waiting

\* It waits with the step it asked for still in its plan.
Waits == writer.waiting => writer.plan # <<>>

Inv == TypeInv /\ Handshake /\ Waits

-----------------------------------------------------------------------------
(* Scripts and plans are sequences of their steps.                         *)

\* A script that is left out is an empty one.
LEMMA IfSeq ==
    ASSUME NEW S, NEW c \in BOOLEAN, NEW s \in Seq(S) PROVE If(c, s) \in Seq(S)
BY EmptySeq DEF If

\* One operation of tty.rs, and scripts of one.
LEMMA OneOp ==
    /\ \A on, off \in SUBSET Modes, by \in {"write", "fcntl", "termios"} :
            Op(by, on, off) \in Ops /\ <<Op(by, on, off)>> \in Seq(Ops)
    /\ \A mode \in Modes : On(mode) \in Seq(Ops)
    /\ \A set \in SUBSET Modes : Off(set) \in Seq(Ops)
<1>1. ASSUME NEW on \in SUBSET Modes, NEW off \in SUBSET Modes, NEW by \in {"write", "fcntl", "termios"}
      PROVE Op(by, on, off) \in Ops /\ <<Op(by, on, off)>> \in Seq(Ops)
  <2>1. Op(by, on, off) \in Ops
    BY DEF Op, Ops
  <2> QED  BY <2>1
<1>2. \A mode \in Modes : {mode} \in SUBSET Modes /\ {} \in SUBSET Modes
  OBVIOUS
<1> QED  BY <1>1, <1>2 DEF On, Off

LEMMA ActivateOps == ASSUME NEW flags \in SUBSET Flags PROVE ActivateScript(flags) \in Seq(Ops)
<1>1. <<Op("fcntl", {"nonblock"}, {}), Op("termios", {"raw"}, {})>> \in Seq(Ops)
  <2>1. Op("fcntl", {"nonblock"}, {}) \in Ops /\ Op("termios", {"raw"}, {}) \in Ops
    BY OneOp DEF Modes
  <2> QED  BY <2>1
<1>2. Off(Reports) \in Seq(Ops)
  BY OneOp DEF Modes, Flags, Reports
<1>3. On("alt") \in Seq(Ops) /\ On("nowrap") \in Seq(Ops) /\ On("focus") \in Seq(Ops)
      /\ On("paste") \in Seq(Ops) /\ On("mouse") \in Seq(Ops) /\ On("altscroll") \in Seq(Ops)
  BY OneOp DEF Modes, Flags
<1>4. <<>> \in Seq(Ops)
  BY EmptySeq
<1>5. (IF "mouse" \in flags THEN On("mouse") ELSE If("alt" \in flags, On("altscroll"))) \in Seq(Ops)
  BY <1>3, <1>4 DEF If
<1>6. \A s, t \in Seq(Ops) : s \o t \in Seq(Ops)
  BY ConcatProperties
<1>7. If("alt" \in flags, On("alt")) \in Seq(Ops) /\ If("focus" \in flags, On("focus")) \in Seq(Ops)
      /\ If("paste" \in flags, On("paste")) \in Seq(Ops)
  BY <1>3, <1>4 DEF If
<1> HIDE DEF Ops
<1> QED  BY <1>1, <1>2, <1>3, <1>5, <1>6, <1>7 DEF ActivateScript

LEMMA MouseOps == ASSUME NEW on \in BOOLEAN, NEW flags \in SUBSET Flags PROVE MouseScript(on, flags) \in Seq(Ops)
<1>1. <<Op("write", {"mouse"}, {"altscroll"})>> \in Seq(Ops)
  BY OneOp DEF Modes, Flags
<1>2. Off({"mouse"}) \in Seq(Ops) /\ On("altscroll") \in Seq(Ops)
  BY OneOp DEF Modes, Flags
<1>3. Off({"mouse"}) \o If("alt" \in flags, On("altscroll")) \in Seq(Ops)
  <2>1. If("alt" \in flags, On("altscroll")) \in Seq(Ops)
    BY <1>2, EmptySeq DEF If
  <2> QED  BY <1>2, <2>1, ConcatProperties
<1> QED  BY <1>1, <1>3 DEF MouseScript

LEMMA RestoreCallOps == RestoreCalls \in Seq(Ops)
<1>1. Op("termios", {}, {"raw"}) \in Ops /\ Op("fcntl", {}, {"nonblock"}) \in Ops
  BY OneOp DEF Modes
<1> QED  BY <1>1 DEF RestoreCalls

LEMMA RestoreOps ==
    ASSUME NEW kitty \in BOOLEAN, NEW flags \in SUBSET Flags PROVE RestoreScript(kitty, flags) \in Seq(Ops)
<1>1. <<Op("fcntl", {"nonblock"}, {})>> \in Seq(Ops)
  BY OneOp DEF Modes
<1>2. Off({"kitty"}) \in Seq(Ops) /\ Off(Reports) \in Seq(Ops) /\ Off({"altscroll"}) \in Seq(Ops)
      /\ Off({"alt"}) \in Seq(Ops) /\ Off({"nowrap", "drawn"}) \in Seq(Ops)
  BY OneOp DEF Modes, Flags, Reports
<1>3. If(kitty, Off({"kitty"})) \in Seq(Ops) /\ If("alt" \in flags, Off({"alt"})) \in Seq(Ops)
  BY <1>2, EmptySeq DEF If
<1>4. \A s, t \in Seq(Ops) : s \o t \in Seq(Ops)
  BY ConcatProperties
<1>5. RestoreWrites(kitty, flags) \in Seq(Ops)
  BY <1>2, <1>3, <1>4 DEF RestoreWrites
<1> QED  BY <1>1, <1>4, <1>5, RestoreCallOps DEF RestoreScript

LEMMA AfterFailureOps == \A op, job : AfterFailure(op, job) \in Seq(Ops)
BY RestoreCallOps, EmptySeq DEF AfterFailure

\* The plans: every one is made of a few steps.
LEMMA PlanSteps ==
    /\ \A s \in Steps : <<s>> \in Seq(Steps)
    /\ \A s, t \in Steps : <<s, t>> \in Seq(Steps)
    /\ \A p, q \in Seq(Steps) : p \o q \in Seq(Steps)
    /\ \A c \in BOOLEAN, p \in Seq(Steps) : If(c, p) \in Seq(Steps)
    /\ <<>> \in Seq(Steps)
BY ConcatProperties, IfSeq, EmptySeq

LEMMA StepNames ==
    /\ Asks \subseteq Steps /\ Writes \subseteq Steps /\ Tells \subseteq Steps
    /\ {"stop", "finish", "exit", "untitle", "title", "frame", "probe", "ready", "painted", "restored",
        "resume_needed", "restore", "activate", "kitty", "kitty_maybe", "mouse_on", "mouse_off"} \subseteq Steps
BY DEF Steps, Asks, Writes, Tells

-----------------------------------------------------------------------------
(* What the writer does to itself: but for dying, it stays where it is and *)
(* waits if it waited.                                                     *)

Kept(w, v) == v \in WriterType /\ v.at = w.at /\ v.waiting = w.waiting

LEMMA Suspends ==
    ASSUME NEW w \in WriterType, NEW then \in Seq(Steps) PROVE Kept(w, Suspend(w, then))
<1>1. Suspension(w) \o then \in Seq(Steps)
  <2>1. w.saved \in BOOLEAN
    BY DEF WriterType
  <2>2. <<"untitle">> \in Seq(Steps) /\ <<"restore">> \in Seq(Steps)
    BY PlanSteps, StepNames
  <2> QED  BY <2>1, <2>2, PlanSteps DEF Suspension
<1> HIDE DEF Steps
<1> QED  BY <1>1 DEF Suspend, Kept, WriterType

LEMMA EndsSession ==
    ASSUME NEW w \in WriterType, NEW result \in {"ok", "err"} PROVE Kept(w, Epilogue(w, result))
<1>1. Suspension(w) \o <<"exit">> \in Seq(Steps)
  <2>1. w.saved \in BOOLEAN
    BY DEF WriterType
  <2>2. <<"untitle">> \in Seq(Steps) /\ <<"restore">> \in Seq(Steps) /\ <<"exit">> \in Seq(Steps)
    BY PlanSteps, StepNames
  <2> QED  BY <2>1, <2>2, PlanSteps DEF Suspension
<1> QED  BY <1>1 DEF Epilogue, Kept, WriterType

LEMMA GoesOn ==
    ASSUME NEW w \in WriterType, w.plan # <<>> PROVE Kept(w, Next1(w))
<1>1. Tail(w.plan) \in Seq(Steps)
  BY HeadTailProperties DEF WriterType
<1> QED  BY <1>1 DEF Next1, Kept, WriterType

LEMMA FailsStep ==
    ASSUME NEW w \in WriterType, w.plan # <<>> PROVE Kept(w, Failing(w))
<1>1. Kept(w, Next1(w)) /\ Kept(w, Epilogue(w, "err"))
  BY GoesOn, EndsSession
<1>2. Kept(w, [Next1(w) EXCEPT !.result = "err"])
  BY <1>1 DEF Kept, WriterType
<1> QED  BY <1>1, <1>2 DEF Failing

LEMMA Activates == ASSUME NEW w \in WriterType PROVE Kept(w, Activation(w))
<1> DEFINE plan == <<"activate">> \o If(w.enhanced, <<"kitty">>) \o If(w.title, <<"title">>)
                       \o <<IF ~w.probed /\ "alt" \in w.flags THEN "probe" ELSE "ready">>
<1>1. plan \in Seq(Steps)
  <2>1. w.enhanced \in BOOLEAN /\ w.title \in BOOLEAN
    BY DEF WriterType
  <2>2. <<"activate">> \in Seq(Steps) /\ <<"kitty">> \in Seq(Steps) /\ <<"title">> \in Seq(Steps)
        /\ <<IF ~w.probed /\ "alt" \in w.flags THEN "probe" ELSE "ready">> \in Seq(Steps)
    BY PlanSteps, StepNames
  <2>3. If(w.enhanced, <<"kitty">>) \in Seq(Steps) /\ If(w.title, <<"title">>) \in Seq(Steps)
    BY <2>1, <2>2, PlanSteps
  <2> QED  BY <2>2, <2>3, PlanSteps
<1>2. Activation(w) = [w EXCEPT !.await = FALSE, !.plan = plan]
  BY DEF Activation
<1> HIDE DEF plan
<1> QED  BY <1>1, <1>2 DEF Kept, WriterType

LEMMA Obeys == ASSUME NEW w \in WriterType, NEW command \in Commands PROVE Kept(w, Obeyed(w, command))
<1>1. CASE command.kind = "init"
  <2>1. command.flags \in SUBSET Flags
    BY <1>1 DEF Commands
  <2>2. Kept(w, [w EXCEPT !.flags = command.flags])
    BY <2>1 DEF Kept, WriterType
  <2>3. Kept([w EXCEPT !.flags = command.flags], Activation([w EXCEPT !.flags = command.flags]))
    BY <2>2, Activates DEF Kept
  <2> QED  BY <1>1, <2>2, <2>3 DEF Obeyed, Kept
<1>2. CASE command.kind = "draw"
  <2>1. <<"frame", "painted">> \in Seq(Steps)
    BY PlanSteps, StepNames
  <2>2. Kept(w, [w EXCEPT !.plan = <<"frame", "painted">>])
    BY <2>1 DEF Kept, WriterType
  <2>3. Kept(w, Epilogue(w, "err")) /\ Kept(w, w)
    BY EndsSession DEF Kept
  <2> QED  BY <1>2, <2>2, <2>3 DEF Obeyed
<1>3. CASE command.kind = "title"
  <2>1. If(w.active /\ ~w.await /\ ~w.probe, <<"title">>) \in Seq(Steps)
    BY PlanSteps, StepNames DEF If
  <2>2. Kept(w, [w EXCEPT !.title = TRUE, !.plan = If(w.active /\ ~w.await /\ ~w.probe, <<"title">>)])
    BY <2>1 DEF Kept, WriterType
  <2> QED  BY <1>3, <2>2 DEF Obeyed
<1>4. CASE command.kind = "mouse"
  <2> DEFINE flags == IF command.on THEN w.flags \cup {"mouse"} ELSE w.flags \ {"mouse"}
             plan == If((command.on # ("mouse" \in w.flags)) /\ w.active /\ ~w.await,
                        <<IF command.on THEN "mouse_on" ELSE "mouse_off">>)
  <2>1. flags \in SUBSET Flags
    BY DEF WriterType, Flags
  <2>2. plan \in Seq(Steps)
    BY PlanSteps, StepNames DEF If
  <2>3. Obeyed(w, command) = [w EXCEPT !.flags = flags, !.plan = plan]
    BY <1>4 DEF Obeyed
  <2> HIDE DEF flags, plan
  <2> QED  BY <2>1, <2>2, <2>3 DEF Kept, WriterType
<1>5. CASE command.kind = "suspend"
  <2>1. <<"restored">> \in Seq(Steps)
    BY PlanSteps, StepNames
  <2>2. Kept(w, Suspend(w, <<"restored">>)) /\ Kept(w, Epilogue(w, "err"))
    BY <2>1, Suspends, EndsSession
  <2> QED  BY <1>5, <2>2 DEF Obeyed
<1>6. CASE command.kind = "resume"
  BY <1>6, EndsSession, Activates DEF Obeyed
<1>7. CASE command.kind = "shutdown"
  <2>1. <<"restored", "finish">> \in Seq(Steps)
    BY PlanSteps, StepNames
  <2> QED  BY <1>7, <2>1, Suspends DEF Obeyed
<1>8. command.kind \in {"init", "draw", "title", "mouse", "suspend", "resume", "shutdown"}
  BY DEF Commands
<1> QED  BY <1>1, <1>2, <1>3, <1>4, <1>5, <1>6, <1>7, <1>8

LEMMA TakesAnswer ==
    ASSUME NEW w \in WriterType, NEW step, w.plan # <<>> PROVE Kept(w, Answered(w, step))
<1>1. Kept(w, Next1(w)) /\ Kept(w, Failing(w))
  BY GoesOn, FailsStep
<1>2. Kept(w, [w EXCEPT !.active = TRUE])
  BY DEF Kept, WriterType
<1>3. Kept(w, Epilogue([w EXCEPT !.active = TRUE], "err"))
  BY <1>2, EndsSession DEF Kept
<1>4. ASSUME NEW v \in WriterType, NEW b \in BOOLEAN
      PROVE  Kept(v, [v EXCEPT !.active = b]) /\ Kept(v, [v EXCEPT !.enhanced = b])
  BY DEF Kept, WriterType
<1>5. Kept(w, [Next1(w) EXCEPT !.active = TRUE]) /\ Kept(w, [Next1(w) EXCEPT !.active = FALSE])
      /\ Kept(w, [Next1(w) EXCEPT !.enhanced = TRUE])
  BY <1>1, <1>4 DEF Kept
<1> QED  BY <1>1, <1>3, <1>5 DEF Answered

\* A signal neither moves the writer nor ends its wait; a death ends both.
LEMMA Signals ==
    ASSUME NEW w \in WriterType
    PROVE  /\ Kept(w, Terminated(w)) /\ Kept(w, Continued(w))
           /\ \A sig \in Cells : Kept(w, Signalled(w, sig))
           /\ \A code \in Codes : /\ Dead(w, code) \in WriterType
                                   /\ Dead(w, code).at = "dead" /\ ~Dead(w, code).waiting
<1>1. Kept(w, Terminated(w)) /\ Kept(w, Continued(w))
  <2>1. Kept(w, [w EXCEPT !.term = TRUE])
    BY DEF Kept, WriterType
  <2>2. Kept(w, [w EXCEPT !.stopped = FALSE, !.cell = "cont"])
    BY DEF Kept, WriterType, Cells
  <2>3. Kept(w, w)
    BY DEF Kept
  <2> QED  BY <2>1, <2>2, <2>3 DEF Terminated, Continued
<1>2. Kept(w, [w EXCEPT !.cell = "tstp"]) /\ Kept(w, w)
  BY DEF Kept, WriterType, Cells
<1>3. \A code \in Codes : /\ Dead(w, code) \in WriterType
                         /\ Dead(w, code).at = "dead" /\ ~Dead(w, code).waiting
  BY EmptySeq DEF Dead, WriterType
<1> QED  BY <1>1, <1>2, <1>3 DEF Signalled

LEMMA SignalsKeepPlan ==
    ASSUME NEW w \in WriterType
    PROVE  /\ Terminated(w).plan = w.plan /\ Continued(w).plan = w.plan
           /\ \A sig \in Cells : Signalled(w, sig).plan = w.plan
<1>1. Terminated(w).plan = w.plan
  BY DEF Terminated, WriterType
<1>2. Continued(w).plan = w.plan
  BY DEF Continued, WriterType
<1>3. [w EXCEPT !.cell = "tstp"].plan = w.plan
  BY DEF WriterType
<1> QED  BY <1>1, <1>2, <1>3 DEF Signalled

-----------------------------------------------------------------------------
(* What the guard does to itself.                                          *)

LEMMA Restores ==
    ASSUME NEW g \in GuardType, NEW job \in {"restore", "final"}
    PROVE  Restoring(g, job) \in GuardType /\ Restoring(g, job).at = "serving" /\ Restoring(g, job).job = job
<1>1. If(g.active, RestoreScript(g.kitty, g.flags)) \in Seq(Ops)
  <2>1. g.kitty \in BOOLEAN /\ g.flags \in SUBSET Flags
    BY DEF GuardType
  <2> QED  BY <2>1, RestoreOps, EmptySeq DEF If
<1>2. job \in Asks \cup {"none", "final"}
  BY DEF Asks
<1> QED  BY <1>1, <1>2 DEF Restoring, GuardType

LEMMA ServesByte ==
    ASSUME TypeInv, NEW g \in GuardType, NEW job \in Asks
    PROVE  Serving(g, job) \in GuardType /\ Serving(g, job).at = "serving" /\ Serving(g, job).job = job
<1>1. CASE job = "restore"
  BY <1>1, Restores DEF Serving
<1>2. CASE job = "activate"
  <2>1. writer.flags \in SUBSET Flags
    BY DEF TypeInv, WriterType
  <2>2. ActivateScript(writer.flags) \in Seq(Ops)
    BY <2>1, ActivateOps
  <2> QED  BY <1>2, <2>1, <2>2 DEF Serving, GuardType
<1>3. CASE job \notin {"restore", "activate"}
  <2> DEFINE script == If(g.active, IF job \in {"kitty", "kitty_maybe"} THEN On("kitty")
                                    ELSE MouseScript(job = "mouse_on", g.flags))
  <2>1. script \in Seq(Ops)
    <3>1. On("kitty") \in Seq(Ops)
      BY OneOp DEF Modes
    <3>2. g.flags \in SUBSET Flags
      BY DEF GuardType
    <3>3. MouseScript(TRUE, g.flags) \in Seq(Ops) /\ MouseScript(FALSE, g.flags) \in Seq(Ops)
      BY <3>2, MouseOps
    <3>4. MouseScript(job = "mouse_on", g.flags) \in Seq(Ops)
      BY <3>3
    <3> QED  BY <3>1, <3>4, EmptySeq DEF If
  <2>2. Serving(g, job) = [g EXCEPT !.at = "serving", !.job = job, !.failed = ~g.active, !.script = script]
    BY <1>3 DEF Serving
  <2> HIDE DEF script
  <2> QED  BY <2>1, <2>2 DEF GuardType
<1> QED  BY <1>1, <1>2, <1>3

LEMMA Settles ==
    ASSUME NEW g \in GuardType
    PROVE  Settled(g) \in GuardType
<1> DEFINE active == IF g.job \in {"restore", "final"} THEN g.failed ELSE g.active
           flags == CASE g.job = "mouse_on" /\ ~g.failed -> g.flags \cup {"mouse"}
                      [] g.job = "mouse_off" /\ ~g.failed -> g.flags \ {"mouse"}
                      [] OTHER -> g.flags
<1>1. active \in BOOLEAN /\ flags \in SUBSET Flags
  BY DEF GuardType, Flags
<1>2. Settled(g) = [g EXCEPT !.active = active, !.flags = flags]
  BY DEF Settled
<1> HIDE DEF active, flags
<1> QED  BY <1>1, <1>2 DEF GuardType

LEMMA StoppingType == \A since \in {"no", "young", "old"} : Stopping(since) \in {"no", "young", "old"}
BY DEF Stopping

-----------------------------------------------------------------------------
(* What the owner does.                                                    *)

LEMMA SendsCommand ==
    ASSUME NEW o \in OwnerType, NEW command \in Commands PROVE Commanding(o, command) \in OwnerType
<1>1. Append(o.pipe, command) \in Seq(Commands)
  BY AppendProperties DEF OwnerType
<1> QED  BY <1>1 DEF Commanding, OwnerType

LEMMA Hears == ASSUME NEW o \in OwnerType, NEW record PROVE Heard(o, record) \in OwnerType
<1>1. [kind |-> "resume"] \in Commands
  BY DEF Commands
<1>2. Commanding(o, [kind |-> "resume"]) \in OwnerType
  BY <1>1, SendsCommand
<1>3. \A p \in Phases : [o EXCEPT !.phase = p] \in OwnerType
                        /\ [Commanding(o, [kind |-> "resume"]) EXCEPT !.phase = p] \in OwnerType
                        /\ [o EXCEPT !.closed = TRUE, !.phase = p] \in OwnerType
  BY <1>2 DEF OwnerType
<1>4. {"running", "suspended", "restored", "resuming", "over"} \subseteq Phases
  BY DEF Phases
<1> QED  BY <1>3, <1>4 DEF Heard

-----------------------------------------------------------------------------
(* The invariant is inductive: a lemma for each kind of step.              *)

LEMMA InitInv == Init => Inv
<1> SUFFICES ASSUME Init PROVE Inv
  OBVIOUS
<1>1. PICK s \in Scenarios :
        /\ owner = [phase |-> "starting", pipe |-> <<[kind |-> "init", flags |-> s.flags]>>, closed |-> FALSE]
        /\ outside = [commands |-> s.commands, stops |-> s.stops, hiccups |-> s.hiccups, outsiders |-> s.outsiders,
                       last |-> "none", terminated |-> FALSE]
  BY DEF Init
<1>2. s \in [flags : SUBSET Flags, commands : Nat, stops : Nat, hiccups : Nat, outsiders : SUBSET Outsiders]
  BY GuardAssumption
<1>3. owner \in OwnerType
  <2>1. [kind |-> "init", flags |-> s.flags] \in Commands
    BY <1>2 DEF Commands
  <2> QED  BY <1>1, <2>1 DEF OwnerType, Phases
<1>4. outside \in OutsideType
  BY <1>1, <1>2 DEF OutsideType, Cells
<1>5. guard \in GuardType /\ writer \in WriterType
  BY EmptySeq DEF Init, GuardType, WriterType, Cells, Codes
<1>6. modes \subseteq Modes /\ terminal \in {"reads", "stuck", "gone"} /\ request \in Asks \cup {"none"}
      /\ answer \in {"none", "ok", "failed"} /\ records \in Seq(Tells \cup {"failure"})
  BY EmptySeq DEF Init
<1> QED  BY <1>3, <1>4, <1>5, <1>6 DEF Init, Inv, TypeInv, Handshake, Waits, Serves

\* While the socket and what the guard serves stay as they are, the writer may
\* do anything but stop waiting, and die.
LEMMA QuietSocket ==
    ASSUME Handshake, request' = request, answer' = answer, guard'.at = guard.at, guard'.job = guard.job,
           writer'.at = "dead" \/ (writer.at # "dead" /\ (writer.waiting => writer'.waiting))
    PROVE  Handshake'
BY DEF Handshake, Serves

LEMMA WriterTopInv == ASSUME Inv, WriterTop PROVE Inv'
<1> USE DEF Inv, TypeInv
<1> DEFINE quiet == [writer EXCEPT !.cell = "none", !.at = "poll"]
<1>1. Idle("top") /\ writer.at = "top" /\ writer.plan = <<>>
  BY DEF WriterTop, Idle
<1>2. quiet \in WriterType /\ quiet.at = "poll" /\ quiet.waiting = writer.waiting
  BY DEF WriterType, Cells
<1>3. writer' \in WriterType /\ writer'.at # "dead" /\ writer'.waiting = writer.waiting
  <2>1. PICK over \in BOOLEAN, kitty \in BOOLEAN : writer' =
            CASE writer.term -> Epilogue(writer, "ok")
              [] ~writer.term /\ writer.cell = "tstp" /\ writer.active ->
                    Suspend([writer EXCEPT !.cell = "none"], <<"stop">>)
              [] ~writer.term /\ writer.cell = "cont" /\ writer.ext ->
                    [quiet EXCEPT !.ext = FALSE, !.await = TRUE, !.plan = <<"resume_needed">>]
              [] OTHER ->
                    IF writer.probe /\ over
                    THEN [quiet EXCEPT !.probe = FALSE, !.plan = If(kitty, <<"kitty_maybe">>) \o <<"ready">>]
                    ELSE quiet
    BY DEF WriterTop
  <2>2. Kept(writer, Epilogue(writer, "ok"))
    BY EndsSession
  <2>3. Kept(writer, Suspend([writer EXCEPT !.cell = "none"], <<"stop">>))
    <3>1. Kept(writer, [writer EXCEPT !.cell = "none"])
      BY DEF Kept, WriterType, Cells
    <3>2. <<"stop">> \in Seq(Steps)
      BY PlanSteps, StepNames
    <3> QED  BY <3>1, <3>2, Suspends DEF Kept
  <2>4. Kept(quiet, [quiet EXCEPT !.ext = FALSE, !.await = TRUE, !.plan = <<"resume_needed">>])
    <3>1. <<"resume_needed">> \in Seq(Steps)
      BY PlanSteps, StepNames
    <3> HIDE DEF quiet
    <3> QED  BY <1>2, <3>1 DEF Kept, WriterType
  <2>5. Kept(quiet, [quiet EXCEPT !.probe = FALSE, !.plan = If(kitty, <<"kitty_maybe">>) \o <<"ready">>])
    <3>1. If(kitty, <<"kitty_maybe">>) \o <<"ready">> \in Seq(Steps)
      BY PlanSteps, StepNames
    <3> HIDE DEF quiet
    <3> QED  BY <1>2, <3>1 DEF Kept, WriterType
  <2> HIDE DEF quiet
  <2> QED  BY <1>1, <1>2, <2>1, <2>2, <2>3, <2>4, <2>5 DEF Kept
<1>4. Handshake'
  BY <1>1, <1>3, QuietSocket DEF WriterTop
<1>5. Waits'
  BY <1>1, <1>3 DEF Waits
<1> QED  BY <1>3, <1>4, <1>5 DEF WriterTop

LEMMA WriterPollInv == ASSUME Inv, WriterPoll PROVE Inv'
<1> USE DEF Inv, TypeInv
<1>1. writer.at = "poll" /\ ~writer.waiting
  BY DEF WriterPoll, Idle, Waits, WriterType
<1>2. [writer EXCEPT !.at = "top"] \in WriterType /\ [writer EXCEPT !.at = "top"].at = "top"
      /\ [writer EXCEPT !.at = "top"].waiting = writer.waiting
  BY DEF WriterType
<1>3. CASE owner.pipe # <<>>
  <2>1. Head(owner.pipe) \in Commands /\ Tail(owner.pipe) \in Seq(Commands)
    BY <1>3, HeadTailProperties DEF OwnerType
  <2>2. Kept([writer EXCEPT !.at = "top"], Obeyed([writer EXCEPT !.at = "top"], Head(owner.pipe)))
    BY <1>2, <2>1, Obeys
  <2>3. writer' = Obeyed([writer EXCEPT !.at = "top"], Head(owner.pipe)) /\ owner' = [owner EXCEPT !.pipe = Tail(@)]
    BY <1>3 DEF WriterPoll
  <2>4. owner' \in OwnerType
    BY <2>1, <2>3 DEF OwnerType
  <2>5. writer' \in WriterType /\ writer'.at = "top" /\ writer'.waiting = writer.waiting
    BY <1>2, <2>2, <2>3 DEF Kept
  <2>6. Handshake'
    BY <1>1, <2>5, QuietSocket DEF WriterPoll
  <2>7. Waits'
    BY <1>1, <2>5 DEF Waits
  <2> QED  BY <2>4, <2>5, <2>6, <2>7 DEF WriterPoll
<1>4. CASE owner.pipe = <<>>
  <2>1. Kept(writer, Epilogue(writer, "ok"))
    BY EndsSession
  <2>2. writer' \in WriterType /\ writer'.at # "dead" /\ writer'.waiting = writer.waiting /\ owner' = owner
    BY <1>1, <1>2, <1>4, <2>1 DEF WriterPoll, Kept
  <2>3. Handshake'
    BY <1>1, <2>2, QuietSocket DEF WriterPoll
  <2>4. Waits'
    BY <1>1, <2>2 DEF Waits
  <2> QED  BY <2>2, <2>3, <2>4 DEF WriterPoll
<1> QED  BY <1>3, <1>4

LEMMA WriterAsksInv == ASSUME Inv, WriterAsks PROVE Inv'
<1> USE DEF Inv, TypeInv
<1>1. request' \in Asks /\ writer.at # "dead" /\ ~writer.waiting
  BY DEF WriterAsks, Does, Runs
<1>2. writer' \in WriterType /\ writer'.at = writer.at /\ writer'.waiting
  BY DEF WriterAsks, WriterType
<1>4. Waits'
  BY DEF WriterAsks, Does, Waits, WriterType
<1>3. Handshake'
  BY <1>1, <1>2 DEF WriterAsks, Handshake, Serves
<1> QED  BY <1>1, <1>2, <1>3, <1>4 DEF WriterAsks

LEMMA WriterAnsweredInv == ASSUME Inv, WriterAnswered PROVE Inv'
<1> USE DEF Inv, TypeInv
<1> DEFINE w == [writer EXCEPT !.waiting = FALSE]
<1>1. writer.at # "dead" /\ writer.waiting /\ answer # "none" /\ writer.plan # <<>>
  BY DEF WriterAnswered, Runs, Waits
<1>2. w \in WriterType /\ w.at = writer.at /\ ~w.waiting /\ w.plan # <<>>
  BY <1>1 DEF WriterType
<1>3. Kept(w, Answered(w, Head(writer.plan)))
  <2> HIDE DEF w
  <2> QED  BY <1>2, TakesAnswer
<1>4. writer' \in WriterType /\ writer'.at = writer.at /\ ~writer'.waiting
  <2>1. writer' = Answered(w, Head(writer.plan))
    BY DEF WriterAnswered
  <2> HIDE DEF w
  <2> QED  BY <1>2, <1>3, <2>1 DEF Kept
<1>5. Handshake'
  BY <1>1, <1>4 DEF WriterAnswered, Handshake, Serves
<1> QED  BY <1>4, <1>5 DEF WriterAnswered, Waits

\* A step of the plan that is not a question: the writer does not wait.
LEMMA OwnStep ==
    ASSUME Inv, UNCHANGED <<request, answer, guard>>, ~writer.waiting, writer.at # "dead",
           writer'.at = "dead" \/ Kept(writer, writer'), writer' \in WriterType, ~writer'.waiting
    PROVE  Handshake' /\ Waits' /\ writer' \in WriterType
BY QuietSocket DEF Inv, Waits, Kept

LEMMA WriterWritesInv == ASSUME Inv, WriterWrites \/ WriterWritesPart PROVE Inv'
<1> USE DEF Inv, TypeInv
<1>1. CASE WriterWrites
  <2>1. PICK step \in Writes :
            /\ Does(step)
            /\ modes' = CASE step = "frame" -> modes \cup {"drawn"}
                          [] step = "title" -> modes \cup {"title"}
                          [] step = "untitle" -> modes \ {"title"}
                          [] step = "probe" -> modes
            /\ writer' = [Next1(writer) EXCEPT !.saved = step = "title" \/ (@ /\ step # "untitle"),
                                              !.probe = @ \/ step = "probe", !.probed = @ \/ step = "probe"]
    BY <1>1 DEF WriterWrites
  <2>2. modes' \subseteq Modes
    BY <2>1 DEF Writes, Modes
  <2>3. Kept(writer, Next1(writer)) /\ ~writer.waiting /\ writer.at # "dead"
    BY <2>1, GoesOn DEF Does, Runs
  <2>4. ASSUME NEW v \in WriterType, NEW a \in BOOLEAN, NEW b \in BOOLEAN, NEW c \in BOOLEAN
        PROVE  Kept(v, [v EXCEPT !.saved = a, !.probe = b, !.probed = c])
    <3>1. [v EXCEPT !.saved = a] \in WriterType
      BY DEF WriterType
    <3>2. [v EXCEPT !.saved = a, !.probe = b] \in WriterType
      BY <3>1 DEF WriterType
    <3>3. [v EXCEPT !.saved = a, !.probe = b, !.probed = c] \in WriterType
      BY <3>2 DEF WriterType
    <3>4. [v EXCEPT !.saved = a, !.probe = b, !.probed = c].at = v.at
          /\ [v EXCEPT !.saved = a, !.probe = b, !.probed = c].waiting = v.waiting
      BY DEF WriterType
    <3> QED  BY <3>3, <3>4 DEF Kept
  <2>5. Kept(Next1(writer), writer')
    <3> DEFINE v == Next1(writer)
               a == step = "title" \/ (v.saved /\ step # "untitle")
               b == v.probe \/ step = "probe"
               c == v.probed \/ step = "probe"
    <3>1. v \in WriterType
      BY <2>3 DEF Kept
    <3>2. a \in BOOLEAN /\ b \in BOOLEAN /\ c \in BOOLEAN
      OBVIOUS
    <3>3. writer' = [v EXCEPT !.saved = a, !.probe = b, !.probed = c]
      BY <2>1
    <3> HIDE DEF v, a, b, c
    <3>4. Kept(v, writer')
      BY <2>4, <3>1, <3>2, <3>3
    <3> QED  BY <3>4 DEF v
  <2>6. Kept(writer, writer')
    BY <2>3, <2>5 DEF Kept
  <2> QED  BY <1>1, <2>2, <2>3, <2>6, OwnStep DEF WriterWrites, Kept
<1>2. CASE WriterWritesPart
  <2>1. modes' \subseteq Modes
    BY <1>2 DEF WriterWritesPart, Modes
  <2> QED  BY <1>2, <2>1 DEF WriterWritesPart, Handshake, Serves, Waits
<1> QED  BY <1>1, <1>2

LEMMA WriterCannotWriteInv == ASSUME Inv, WriterCannotWrite PROVE Inv'
<1> USE DEF Inv, TypeInv
<1>1. PICK step \in Writes :
        /\ Does(step)
        /\ writer' = CASE step = "frame" -> Epilogue(writer, "err")
                       [] step = "title" -> Next1(writer)
                       [] step = "untitle" -> [Next1(writer) EXCEPT !.saved = FALSE]
                       [] step = "probe" -> [writer EXCEPT !.probed = TRUE, !.plan = <<"ready">>]
  BY DEF WriterCannotWrite
<1>2. ~writer.waiting /\ writer.at # "dead" /\ Kept(writer, Next1(writer)) /\ Kept(writer, Epilogue(writer, "err"))
  BY <1>1, GoesOn, EndsSession DEF Does, Runs
<1>3. Kept(writer, [Next1(writer) EXCEPT !.saved = FALSE])
  <2>1. ASSUME NEW v \in WriterType PROVE Kept(v, [v EXCEPT !.saved = FALSE])
    BY DEF Kept, WriterType
  <2> QED  BY <1>2, <2>1 DEF Kept
<1>4. Kept(writer, [writer EXCEPT !.probed = TRUE, !.plan = <<"ready">>])
  <2>1. <<"ready">> \in Seq(Steps)
    BY PlanSteps, StepNames
  <2> QED  BY <2>1 DEF Kept, WriterType
<1>5. Kept(writer, writer')
  BY <1>1, <1>2, <1>3, <1>4 DEF Writes
<1> QED  BY <1>2, <1>5, OwnStep DEF WriterCannotWrite, Kept

LEMMA WriterTellsInv == ASSUME Inv, WriterTells PROVE Inv'
<1> USE DEF Inv, TypeInv
<1>1. PICK step \in Tells :
        /\ Does(step)
        /\ writer' = IF ~writer.term /\ ~owner.closed THEN Next1(writer) ELSE Failing(writer)
        /\ records' = IF (~writer.term /\ ~owner.closed) /\ step # "painted" THEN Append(records, step) ELSE records
  BY DEF WriterTells
<1>2. ~writer.waiting /\ writer.at # "dead" /\ Kept(writer, Next1(writer)) /\ Kept(writer, Failing(writer))
  BY <1>1, GoesOn, FailsStep DEF Does, Runs
<1>3. Append(records, step) \in Seq(Tells \cup {"failure"})
  BY AppendProperties
<1> QED  BY <1>1, <1>2, <1>3, OwnStep DEF WriterTells, Kept

LEMMA WriterEndsInv == ASSUME Inv, WriterStops \/ WriterFinishes \/ WriterExits PROVE Inv'
<1> USE DEF Inv, TypeInv
<1>1. ~writer.waiting /\ writer.at # "dead" /\ writer.plan # <<>>
  BY DEF WriterStops, WriterFinishes, WriterExits, Does, Runs
<1>2. CASE WriterStops
  <2>1. ASSUME NEW v \in WriterType PROVE Kept(v, [v EXCEPT !.ext = TRUE, !.stopped = TRUE])
    BY DEF Kept, WriterType
  <2>2. Kept(writer, Next1(writer))
    BY <1>1, GoesOn
  <2>3. Kept(writer, writer')
    BY <1>2, <2>1, <2>2 DEF WriterStops, Kept
  <2> QED  BY <1>1, <1>2, <2>3, OwnStep DEF WriterStops, Kept
<1>3. CASE WriterFinishes
  <2>1. Kept(writer, writer')
    BY <1>3, EndsSession DEF WriterFinishes
  <2> QED  BY <1>1, <1>3, <2>1, OwnStep DEF WriterFinishes, Kept
<1>4. CASE WriterExits
  <2>1. writer' \in WriterType /\ writer'.at = "dead" /\ ~writer'.waiting
    <3>1. writer.result \in Codes
      BY DEF WriterType, Codes
    <3> QED  BY <1>4, <3>1, Signals DEF WriterExits
  <2>2. records' \in Seq(Tells \cup {"failure"})
    BY <1>4, AppendProperties DEF WriterExits
  <2> QED  BY <1>1, <1>4, <2>1, <2>2, OwnStep DEF WriterExits
<1> QED  BY <1>2, <1>3, <1>4

\* A signal that reaches the writer, or its death.
LEMMA TellWriter ==
    ASSUME Inv, writer' \in WriterType,
           \/ writer'.at = "dead" /\ ~writer'.waiting
           \/ writer'.at = writer.at /\ writer'.waiting = writer.waiting /\ writer'.plan = writer.plan
    PROVE  Waits' /\ (writer.at = "dead" => writer'.at = "dead")
                  /\ (writer'.at # "dead" => writer.at # "dead" /\ (writer.waiting => writer'.waiting))
BY DEF Inv, Waits

LEMMA GuardTopInv == ASSUME Inv, GuardTop PROVE Inv'
<1> USE DEF Inv, TypeInv
<1>1. guard.at = "top"
  BY DEF GuardTop
<1>2. CASE Reapable(writer, guard.stopping)
  <2>1. writer.at = "dead" /\ writer' = writer /\ guard' = Restoring(guard, "final")
    BY <1>2 DEF GuardTop, Reapable
  <2>2. guard' \in GuardType /\ guard'.at = "serving" /\ guard'.job = "final"
    BY <2>1, Restores
  <2> QED  BY <2>1, <2>2 DEF GuardTop, Handshake, Waits
<1>3. CASE ~Reapable(writer, guard.stopping)
  <2> DEFINE called == IF guard.term THEN Continued(Terminated(writer)) ELSE writer
             told == Signalled(called, guard.cell)
  <2>1. guard' \in GuardType /\ guard'.at = "poll"
    <3> DEFINE since == IF guard.term THEN Stopping(guard.stopping) ELSE guard.stopping
    <3>1. since \in {"no", "young", "old"}
      BY StoppingType DEF GuardType
    <3>2. guard' = [guard EXCEPT !.term = FALSE, !.cell = "none", !.at = "poll", !.stopping = since]
      BY <1>3 DEF GuardTop
    <3> HIDE DEF since
    <3> QED  BY <3>1, <3>2 DEF GuardType, Cells
  <2>2. guard.cell \in Cells
    BY DEF GuardType
  <2>3. called \in WriterType /\ called.at = writer.at /\ called.waiting = writer.waiting /\ called.plan = writer.plan
    BY Signals, SignalsKeepPlan DEF Kept
  <2>4. told \in WriterType /\ told.at = writer.at /\ told.waiting = writer.waiting /\ told.plan = writer.plan
    <3> HIDE DEF called
    <3> QED  BY <2>2, <2>3, Signals, SignalsKeepPlan DEF Kept
  <2>5. writer' = IF guard.stopping = "old" THEN Dead(told, "killed") ELSE told
    BY <1>3 DEF GuardTop
  <2>6. /\ writer' \in WriterType
        /\ \/ writer'.at = "dead" /\ ~writer'.waiting
           \/ writer'.at = writer.at /\ writer'.waiting = writer.waiting /\ writer'.plan = writer.plan
    <3>1. "killed" \in Codes
      BY DEF Codes
    <3> HIDE DEF told
    <3> QED  BY <2>4, <2>5, <3>1, Signals
  <2>7. Waits' /\ (writer'.at # "dead" => writer.at # "dead" /\ (writer.waiting => writer'.waiting))
    BY <2>6, TellWriter
  <2>8. Handshake'
    BY <1>1, <2>1, <2>7 DEF GuardTop, Handshake, Serves
  <2> QED  BY <2>1, <2>6, <2>7, <2>8 DEF GuardTop
<1> QED  BY <1>2, <1>3

LEMMA GuardPollInv == ASSUME Inv, GuardPoll PROVE Inv'
<1> USE DEF Inv, TypeInv
<1> DEFINE gone == owner.closed /\ ~guard.gone
           told == IF gone THEN Continued(Terminated(writer)) ELSE writer
           since == IF gone THEN Stopping(guard.stopping) ELSE guard.stopping
           seen == [guard EXCEPT !.gone = owner.closed, !.stopping = since]
<1>1. guard.at = "poll"
  BY DEF GuardPoll
<1>2. writer' \in WriterType /\ writer'.at = writer.at /\ writer'.waiting = writer.waiting /\ writer'.plan = writer.plan
  <2>1. writer' = told
    BY DEF GuardPoll
  <2> QED  BY <2>1, Signals, SignalsKeepPlan DEF Kept
<1>3. Waits' /\ (writer'.at # "dead" => writer.at # "dead" /\ (writer.waiting => writer'.waiting))
  BY <1>2, TellWriter
<1>4. seen \in GuardType
  <2>1. since \in {"no", "young", "old"} /\ owner.closed \in BOOLEAN
    BY StoppingType DEF GuardType, OwnerType
  <2> HIDE DEF since
  <2> QED  BY <2>1 DEF GuardType
<1>5. CASE request # "none"
  <2>1. guard' = Serving(seen, request)
    BY <1>5 DEF GuardPoll
  <2>2. request \in Asks /\ request # "final"
    BY <1>5 DEF Asks
  <2>3. guard' \in GuardType /\ guard'.job # "final"
    <3> HIDE DEF seen
    <3> QED  BY <1>4, <2>1, <2>2, ServesByte
  <2>4. Handshake'
    BY <1>1, <1>3, <1>5, <2>3 DEF GuardPoll, Handshake, Serves
  <2> QED  BY <1>2, <1>3, <2>3, <2>4 DEF GuardPoll
<1>6. CASE request = "none"
  <2> DEFINE later == IF writer.at = "dead" THEN Stopping(since) ELSE since
  <2>1. later \in {"no", "young", "old"}
    BY StoppingType DEF GuardType
  <2>2. guard' = [guard EXCEPT !.gone = owner.closed, !.at = "top", !.stopping = later]
    <3>1. guard' = [seen EXCEPT !.at = "top", !.stopping = IF writer.at = "dead" THEN Stopping(seen.stopping) ELSE seen.stopping]
      BY <1>6 DEF GuardPoll
    <3>2. seen.stopping = since
      BY DEF GuardType
    <3> HIDE DEF since
    <3> QED  BY <3>1, <3>2 DEF GuardType
  <2>3. guard' \in GuardType /\ guard'.at = "top"
    <3> HIDE DEF later
    <3>1. owner.closed \in BOOLEAN
      BY DEF OwnerType
    <3> QED  BY <2>1, <2>2, <3>1 DEF GuardType
  <2>4. Handshake'
    BY <1>1, <1>3, <1>6, <2>3 DEF GuardPoll, Handshake, Serves
  <2> QED  BY <1>2, <1>3, <2>3, <2>4 DEF GuardPoll
<1> QED  BY <1>5, <1>6

LEMMA GuardOperatesInv == ASSUME Inv, GuardOperates PROVE Inv'
<1> USE DEF Inv, TypeInv
<1> DEFINE op == Head(guard.script)
<1>1. guard.at = "serving" /\ guard.script # <<>>
  BY DEF GuardOperates
<1>2. op \in Ops /\ Tail(guard.script) \in Seq(Ops)
  BY <1>1, HeadTailProperties DEF GuardType
<1>3. CASE Fails(op)
  <2>1. guard' = [guard EXCEPT !.failed = TRUE, !.script = AfterFailure(op, guard.job)] /\ modes' = modes
    BY <1>3 DEF GuardOperates
  <2>2. guard' \in GuardType /\ guard'.at = guard.at /\ guard'.job = guard.job
    <3>1. AfterFailure(op, guard.job) \in Seq(Ops)
      BY AfterFailureOps
    <3> HIDE DEF op
    <3> QED  BY <2>1, <3>1 DEF GuardType
  <2> QED  BY <2>1, <2>2 DEF GuardOperates, Handshake, Serves, Waits
<1>4. CASE ~Fails(op)
  <2>1. guard' = [guard EXCEPT !.script = Tail(@), !.kitty = @ \/ guard.job \in {"kitty", "kitty_maybe"}]
        /\ modes' = (modes \cup op.on) \ op.off
    BY <1>4 DEF GuardOperates
  <2>2. guard' \in GuardType /\ guard'.at = guard.at /\ guard'.job = guard.job
    <3> HIDE DEF op
    <3> DEFINE kitty == guard.kitty \/ guard.job \in {"kitty", "kitty_maybe"}
    <3>1. kitty \in BOOLEAN
      OBVIOUS
    <3>2. guard' = [guard EXCEPT !.script = Tail(guard.script), !.kitty = kitty]
      BY <2>1
    <3> HIDE DEF kitty
    <3> QED  BY <1>2, <3>1, <3>2 DEF GuardType
  <2>3. modes' \subseteq Modes
    <3> HIDE DEF op
    <3> QED  BY <1>2, <2>1 DEF Ops
  <2> QED  BY <2>2, <2>3 DEF GuardOperates, Handshake, Serves, Waits
<1> QED  BY <1>3, <1>4

LEMMA GuardEndsServing == ASSUME Inv, GuardAnswers \/ GuardExits PROVE Inv'
<1> USE DEF Inv, TypeInv
<1>1. Settled(guard) \in GuardType
  BY Settles
<1>2. CASE GuardAnswers
  <2> DEFINE s == Settled(guard)
             since == IF guard.failed THEN Stopping(s.stopping) ELSE s.stopping
  <2>1. since \in {"no", "young", "old"}
    BY <1>1, StoppingType DEF GuardType
  <2>2. guard' = [s EXCEPT !.at = "top", !.stopping = since]
    BY <1>2 DEF GuardAnswers
  <2>3. guard' \in GuardType /\ guard'.at = "top"
    <3> HIDE DEF s, since
    <3>1. s \in GuardType
      BY <1>1 DEF s
    <3> QED  BY <2>1, <2>2, <3>1 DEF GuardType
  <2>4. answer' \in {"none", "ok", "failed"} /\ writer' = writer /\ request' = request
    BY <1>2 DEF GuardAnswers, AnswerOf
  <2>5. Serves
    BY <1>2 DEF GuardAnswers, Serves
  <2>6. Handshake'
    BY <2>3, <2>4, <2>5 DEF Handshake, Serves
  <2> QED  BY <1>2, <2>3, <2>4, <2>6 DEF GuardAnswers, Waits
<1>3. CASE GuardExits
  <2> DEFINE s == Settled(guard)
             code == IF ~guard.failed /\ writer.code = "ok" THEN "ok" ELSE "err"
  <2>1. code \in Codes
    BY DEF Codes
  <2>2. guard' = [s EXCEPT !.at = "exited", !.code = code]
    BY <1>3 DEF GuardExits
  <2>3. guard' \in GuardType /\ guard'.at = "exited"
    <3> HIDE DEF s, code
    <3>1. s \in GuardType
      BY <1>1 DEF s
    <3> QED  BY <2>1, <2>2, <3>1 DEF GuardType
  <2>4. Handshake'
    BY <1>3, <2>3 DEF GuardExits, Handshake, Serves
  <2> QED  BY <1>3, <2>3, <2>4 DEF GuardExits, Waits
<1> QED  BY <1>2, <1>3

LEMMA GuardTimerInv == ASSUME Inv, GuardTimer PROVE Inv'
<1> USE DEF Inv, TypeInv
<1>1. guard' \in GuardType /\ guard'.at = guard.at /\ guard'.job = guard.job
  BY DEF GuardTimer, GuardType
<1> QED  BY <1>1 DEF GuardTimer, Handshake, Serves, Waits

LEMMA OwnerInv == ASSUME Inv, OwnerSends \/ OwnerHears \/ OwnerCloses PROVE Inv'
<1> USE DEF Inv, TypeInv
<1>1. CASE OwnerSends
  <2>1. \A c \in {[kind |-> "draw"], [kind |-> "title"], [kind |-> "mouse", on |-> TRUE], [kind |-> "mouse", on |-> FALSE],
                  [kind |-> "suspend"], [kind |-> "resume"], [kind |-> "shutdown"]} :
            Commanding(owner, c) \in OwnerType
    <3>1. /\ [kind |-> "draw"] \in Commands /\ [kind |-> "title"] \in Commands
          /\ [kind |-> "mouse", on |-> TRUE] \in Commands /\ [kind |-> "mouse", on |-> FALSE] \in Commands
          /\ [kind |-> "suspend"] \in Commands /\ [kind |-> "resume"] \in Commands /\ [kind |-> "shutdown"] \in Commands
      BY DEF Commands
    <3> HIDE DEF OwnerType, Commands
    <3> QED  BY <3>1, SendsCommand
  <2>2. \A o \in OwnerType, p \in Phases : [o EXCEPT !.phase = p] \in OwnerType
    BY DEF OwnerType
  <2>3. {"suspending", "resuming", "closing"} \subseteq Phases
    BY DEF Phases
  <2>4. owner' \in OwnerType
    BY <1>1, <2>1, <2>2, <2>3 DEF OwnerSends
  <2>5. outside' \in OutsideType
    <3>1. outside' = outside \/ (outside.commands > 0 /\ outside' = [outside EXCEPT !.commands = @ - 1])
      BY <1>1 DEF OwnerSends
    <3> QED  BY <3>1 DEF OutsideType
  <2> QED  BY <1>1, <2>4, <2>5 DEF OwnerSends, Handshake, Serves, Waits
<1>2. CASE OwnerHears
  <2>1. owner' \in OwnerType
    BY <1>2, Hears DEF OwnerHears
  <2>2. records' \in Seq(Tells \cup {"failure"})
    BY <1>2, HeadTailProperties DEF OwnerHears
  <2> QED  BY <1>2, <2>1, <2>2 DEF OwnerHears, Handshake, Serves, Waits
<1>3. CASE OwnerCloses
  <2>1. owner' \in OwnerType
    BY <1>3 DEF OwnerCloses, OwnerType, Phases
  <2> QED  BY <1>3, <2>1 DEF OwnerCloses, Handshake, Serves, Waits
<1> QED  BY <1>1, <1>2, <1>3

LEMMA ShellInv == ASSUME Inv, ShellStops \/ ShellContinues \/ Terminate PROVE Inv'
<1> USE DEF Inv, TypeInv
<1>1. outside' \in OutsideType
  <2>1. CASE ShellStops
    <3>1. outside' = [outside EXCEPT !.stops = outside.stops - 1, !.last = "tstp"] /\ outside.stops > 0
      BY <2>1 DEF ShellStops
    <3>2. outside.stops - 1 \in Nat
      BY <3>1 DEF OutsideType
    <3> QED  BY <3>1, <3>2 DEF OutsideType, Cells
  <2>2. CASE ShellContinues
    BY <2>2 DEF ShellContinues, OutsideType, Cells
  <2>3. CASE Terminate
    BY <2>3 DEF Terminate, OutsideType
  <2> QED  BY <2>1, <2>2, <2>3
<1>2. guard' \in GuardType /\ guard'.at = guard.at /\ guard'.job = guard.job
  <2>1. \A c \in Cells : LET g == [guard EXCEPT !.cell = c] IN
            g \in GuardType /\ g.at = guard.at /\ g.job = guard.job
    BY DEF GuardType
  <2>2. LET g == [guard EXCEPT !.term = TRUE] IN g \in GuardType /\ g.at = guard.at /\ g.job = guard.job
    BY DEF GuardType
  <2>3. "tstp" \in Cells /\ "cont" \in Cells
    BY DEF Cells
  <2> QED  BY <2>1, <2>2, <2>3 DEF ShellStops, ShellContinues, Terminate
<1>3. /\ writer' \in WriterType /\ writer'.at = writer.at
      /\ writer'.waiting = writer.waiting /\ writer'.plan = writer.plan
  <2>1. writer' \in {writer, Signalled(writer, "tstp"), Continued(writer), Terminated(writer)}
    BY DEF ShellStops, ShellContinues, Terminate
  <2>2. "tstp" \in Cells
    BY DEF Cells
  <2>3. ASSUME NEW w \in {writer, Signalled(writer, "tstp"), Continued(writer), Terminated(writer)}
        PROVE  Kept(writer, w) /\ w.plan = writer.plan
    <3>1. Kept(writer, writer)
      BY DEF Kept
    <3> QED  BY <2>2, <3>1, Signals, SignalsKeepPlan
  <2> QED  BY <2>1, <2>3 DEF Kept
<1>4. Waits' /\ (writer'.at # "dead" => writer.at # "dead" /\ (writer.waiting => writer'.waiting))
  BY <1>3, TellWriter
<1>5. request' = request /\ answer' = answer
  BY DEF ShellStops, ShellContinues, Terminate
<1>6. Handshake'
  BY <1>2, <1>4, <1>5, QuietSocket
<1> QED  BY <1>1, <1>2, <1>3, <1>4, <1>5, <1>6 DEF ShellStops, ShellContinues, Terminate

LEMMA TerminalInv == ASSUME Inv, TerminalChanges PROVE Inv'
<1> USE DEF Inv, TypeInv
<1>1. terminal' \in {"reads", "stuck", "gone"}
  BY DEF TerminalChanges
<1>2. outside' \in OutsideType
  <2>1. \/ outside' = [outside EXCEPT !.hiccups = outside.hiccups - 1] /\ outside.hiccups > 0
        \/ outside' = [outside EXCEPT !.hiccups = outside.hiccups]
    BY DEF TerminalChanges
  <2> QED  BY <2>1 DEF OutsideType
<1> QED  BY <1>1, <1>2 DEF TerminalChanges, Handshake, Serves, Waits

LEMMA WriterDiesInv == ASSUME Inv, WriterDies PROVE Inv'
<1> USE DEF Inv, TypeInv
<1>1. writer' \in WriterType /\ writer'.at = "dead" /\ ~writer'.waiting
  BY Signals DEF WriterDies, Codes
<1>2. Waits'
  BY <1>1 DEF Waits
<1>3. Handshake'
  BY <1>1, QuietSocket DEF WriterDies
<1> QED  BY <1>1, <1>2, <1>3 DEF WriterDies

-----------------------------------------------------------------------------
(* The theorems.                                                           *)

LEMMA InvStep == ASSUME Inv, [Next]_vars PROVE Inv'
<1>1. CASE Writer
  BY <1>1, WriterTopInv, WriterPollInv, WriterAsksInv, WriterAnsweredInv, WriterWritesInv, WriterCannotWriteInv,
     WriterTellsInv, WriterEndsInv DEF Writer
<1>2. CASE Guard \/ GuardTimer
  BY <1>2, GuardTopInv, GuardPollInv, GuardOperatesInv, GuardEndsServing, GuardTimerInv DEF Guard
<1>3. CASE UNCHANGED vars
  BY <1>3 DEF vars, Inv, TypeInv, Handshake, Serves, Waits
<1>4. CASE Outside
  <2>1. Ended => UNCHANGED vars
    BY DEF Ended
  <2> QED  BY <1>3, <1>4, <2>1, OwnerInv, ShellInv, TerminalInv, WriterDiesInv DEF Outside
<1> QED  BY <1>1, <1>2, <1>3, <1>4 DEF Next

\* Inv is inductive: it holds in every reachable state, whatever the owner, the
\* shell and the terminal do to the two processes.
THEOREM GuardInvariant == Spec => []Inv
<1>1. Inv /\ [Next]_vars => Inv'
  BY InvStep
<1> QED  BY <1>1, InitInv, PTL DEF Spec

\* The guard, the writer, the owner's pipe and what is between them keep their shape.
THEOREM GuardTypes == Spec => []TypeInv
BY GuardInvariant, PTL DEF Inv

\* The socket carries one byte at a time: a request, its service and its answer
\* never meet, and each of them means that the writer waits or is dead
\* (guard.rs:164).
THEOREM GuardHandshake == Spec => []Handshake
BY GuardInvariant, PTL DEF Inv

\* The guard changes the modes of the terminal only while the writer waits for
\* it or is dead, so the two never write at the same time (guard.rs:1).
THEOREM GuardOneWriter == Spec => []OneWriter
<1>1. Inv => OneWriter
  BY DEF Inv, Handshake, Serves, OneWriter
<1> QED  BY <1>1, GuardInvariant, PTL
==============================================================================
