---------------------------- MODULE TerminalPort ----------------------------
(***************************************************************************)
(* The full-screen terminal of a session: the session runtime that asks    *)
(* for frames and runs external editors (cli/ui/session_runtime.ex), the   *)
(* owner of the port (renderer/ratatui_port/owner.ex) and the native       *)
(* helper that holds the terminal in raw mode                              *)
(* (native/terminal_port/src/session.rs, behind its guard.rs).  They talk  *)
(* over FIFO channels: `rt.out` and `owner.told` are Erlang messages,      *)
(* `owner.wire` and `native.out` are the two directions of the port.       *)
(*                                                                         *)
(* A call of the owner into the runtime is one step, taken when the        *)
(* runtime has read what the owner sent before.  `busy` ports, soft and    *)
(* hard deadlines, SIGTSTP and SIGCONT may happen whenever the code lets   *)
(* them.  The contents of frames and events are left out, and so are       *)
(* clipboard copies, notifications and resizes.                            *)
(***************************************************************************)
EXTENDS Integers, Sequences, FiniteSets, SequencesExt

CONSTANTS
  Scenarios     \* bound: what may happen in a session: one of these

\* What the person, the shell and the machine may do, and how often together;
\* the frames the runtime asks for, the input events of the terminal and the
\* commands a busy port refuses; and whether the helper may be slower than a
\* hard deadline.
Stimuli == {"settings_edit", "composer_edit", "stop", "mouse", "redraw", "dies"}

ASSUME TerminalAssumption ==
  Scenarios \subseteq [may : SUBSET Stimuli, stimuli : Nat, draws : Nat, inputs : Nat, busy : Nat, late : BOOLEAN]

VARIABLES
  rt,      \* the session runtime
  owner,   \* the terminal owner
  native,  \* the native helper and the terminal
  world    \* how often each bounded thing has happened

vars == <<rt, owner, native, world>>

None == [k |-> "none"]

Init ==
  /\ rt = [phase |-> "binding", life |-> "running", gen |-> 1, asked |-> 0, draw |-> 0,
           final |-> FALSE, shut |-> FALSE, edit |-> "none", end |-> "no", out |-> <<>>]
  /\ owner = [alive |-> TRUE, fail |-> "no", phase |-> "initializing", slot |-> FALSE, gen |-> 1,
              counter |-> 0, seq |-> 0, pending |-> None, replied |-> FALSE, queued |-> 0,
              credit |-> 0, control |-> None, outbox |-> <<>>, retry |-> FALSE,
              timer |-> "init", input |-> FALSE, mouse |-> FALSE, down |-> FALSE,
              wire |-> <<[k |-> "init", n |-> 0]>>, told |-> <<>>]
  /\ native = [st |-> "new", token |-> 0, seq |-> 0, credit |-> 0, mouse |-> FALSE, out |-> <<>>]
  /\ \E scenario \in Scenarios :
     world = [scenario |-> scenario, stimuli |-> 0, inputs |-> 0, busy |-> 0]

Raw == {"probing", "active"}   \* the states of the helper in which the terminal is raw

-----------------------------------------------------------------------------
(* The owner: what it sends.                                               *)

\* stale/2: the runtime is asked to draw again later.
Reply(o, draw) == [o EXCEPT !.told = Append(@, [k |-> "draw_result", draw |-> draw])]
DropQueued(o) == IF o.queued = 0 THEN o ELSE [Reply(o, o.queued) EXCEPT !.queued = 0]

\* A command takes its token when the port takes the command.
Send(o, command) ==
  [o EXCEPT !.counter = @ + 1, !.wire = Append(@, [k |-> command, n |-> o.counter + 1])]

\* Mutant: a credit is granted while a paint is not confirmed yet.
GrantEarly(o, free) ==
  IF o.phase # "running" \/ ~o.input \/ o.outbox # <<>> THEN o
  ELSE IF free THEN [Send(o, "credit") EXCEPT !.credit = o.counter + 1]
  ELSE [o EXCEPT !.retry = TRUE]

\* grant/1
Grant(o, free) ==
  IF o.phase # "running" \/ o.credit # 0 \/ o.pending # None \/ ~o.input \/ o.outbox # <<>> THEN o
  ELSE IF free THEN [Send(o, "credit") EXCEPT !.credit = o.counter + 1]
  ELSE [o EXCEPT !.retry = TRUE]

\* sent/3, for the n operations the port takes: each gets the next token, and
\* so does the control that is awaited; a mouse mode is noted.  No more than one
\* control that is awaited and one mouse mode ever wait.
SendControls(o, n) ==
  LET sent == SubSeq(o.outbox, 1, n)
      awaited == {i \in 1 .. n : o.control = [k |-> sent[i], n |-> 0]}
  IN  [o EXCEPT !.counter = @ + n,
                !.wire = @ \o [i \in 1 .. n |-> [k |-> sent[i], n |-> o.counter + i]],
                !.control = IF awaited = {} THEN @ ELSE [@ EXCEPT !.n = o.counter + (CHOOSE i \in awaited : TRUE)],
                !.mouse = IF Contains(sent, "mouse") THEN ~@ ELSE @]

\* flush/1: the port takes the first n operations and is busy for the rest.
Flush(o, n) ==
  LET rest == SubSeq(o.outbox, n + 1, Len(o.outbox))
  IN  [SendControls(o, n) EXCEPT !.outbox = rest, !.retry = @ \/ rest # <<>>]

\* enqueue/2: a shutdown replaces what waits; one operation of each kind.
Enqueue(o, operation) ==
  [o EXCEPT !.outbox = IF operation = "shutdown" THEN <<operation>>
                       ELSE IF Contains(@, operation) THEN @ ELSE Append(@, operation)]

\* What a busy port costs of the bound.
Busy(refused) == IF refused THEN world.busy < world.scenario.busy /\ world' = [world EXCEPT !.busy = @ + 1]
                 ELSE UNCHANGED world

\* control/2
Control(o, operation) ==
  LET q == Enqueue(o, operation)
  IN  \E n \in 0 .. Len(q.outbox) : owner' = Flush(q, n) /\ Busy(n < Len(q.outbox))

Granting(o) == \E free \in BOOLEAN : owner' = Grant(o, free) /\ Busy(~free /\ Grant(o, FALSE) # o)

\* paint/4: the port takes the frame, or the runtime is asked to draw again:
\* controls wait, the scene is a newer one, or the port is busy.
Painting(o, draw) ==
  LET again == [Reply(o, draw) EXCEPT !.input = TRUE]
  IN  IF o.outbox # <<>> THEN owner' = again /\ UNCHANGED world
      ELSE \/ /\ owner' = [o EXCEPT !.seq = @ + 1, !.replied = FALSE, !.timer = "draw", !.input = TRUE,
                                    !.pending = [k |-> "draw", n |-> o.seq + 1, draw |-> draw],
                                    !.wire = Append(@, [k |-> "draw", n |-> o.seq + 1])]
              /\ UNCHANGED world
           \/ Granting(again)

-----------------------------------------------------------------------------
(* The runtime: what it sends and what the owner's calls do in it.         *)

Tell(r, k, n) == [r EXCEPT !.out = Append(@, [k |-> k, n |-> n])]

\* draw/1
Draw(r) == [Tell(r, "draw", r.asked + 1) EXCEPT !.asked = @ + 1, !.draw = r.asked + 1]

\* final_paint/2, when no frame is in flight and when one is.
FinalPaint(r) ==
  IF r.draw # 0 THEN [r EXCEPT !.phase = "closing", !.final = TRUE]
  ELSE [Draw(r) EXCEPT !.phase = "closing", !.final = FALSE]

\* begin_shutdown/2
BeginShutdown(r) ==
  IF r.shut THEN r
  ELSE [Tell(r, "shutdown", 0) EXCEPT !.phase = "closing", !.shut = TRUE, !.draw = 0]

\* settle_draw/4; a new generation has already forgotten the draw.
SettleDraw(r, draw) ==
  LET next == [r EXCEPT !.draw = 0]
  IN  IF r.draw # draw THEN r
      ELSE IF r.final THEN FinalPaint(next)
      ELSE IF r.phase = "closing" THEN BeginShutdown(next) ELSE next

\* {:terminal_lifecycle, :suspended, …}: the editor that waits for it starts.
Suspended(r, gen) ==
  IF r.phase # "running" \/ r.gen # gen THEN r
  ELSE [r EXCEPT !.life = "suspended", !.edit = IF @ = "asked" THEN "editing" ELSE @]

\* {:terminal_capabilities, …} and {:terminal_lifecycle, :resumed, …}: a new
\* generation forgets the draw in flight, and the resume goes back as an echo.
Resumed(r, gen) ==
  IF r.phase # "running" \/ gen <= r.gen THEN r
  ELSE [Tell(r, "resume", gen) EXCEPT !.gen = gen, !.life = "running", !.draw = 0]

-----------------------------------------------------------------------------
(* The owner: messages of the runtime.                                     *)

FromRuntime(k) ==
  /\ owner.alive /\ rt.out # <<>> /\ Head(rt.out).k = k
  /\ rt' = [rt EXCEPT !.out = Tail(@)]
  /\ UNCHANGED native

Ignore == UNCHANGED <<owner, world>>
Asked == Head(rt.out).n

OwnerDraw ==
  /\ FromRuntime("draw")
  /\ \/ owner.phase = "running" /\ owner.pending = None /\ Painting(owner, Asked)
     \/ owner.phase = "running" /\ owner.pending # None
        /\ owner' = [DropQueued(owner) EXCEPT !.queued = Asked] /\ UNCHANGED world
     \/ owner.phase # "running" /\ Ignore

OwnerShutdown ==
  /\ FromRuntime("shutdown")
  /\ Control([DropQueued(owner) EXCEPT !.phase = "closing", !.timer = "shutdown",
                                       !.control = [k |-> "shutdown", n |-> 0]], "shutdown")

\* Mutant: a request to step aside forgets the frame that waits to be painted.
OwnerSuspendDrops ==
  /\ FromRuntime("suspend")
  /\ IF owner.phase = "running" /\ owner.gen = Asked
     THEN Control([owner EXCEPT !.phase = "suspending", !.timer = "suspend", !.queued = 0,
                                !.control = [k |-> "suspend", n |-> 0]], "suspend")
     ELSE Ignore

OwnerSuspend ==
  /\ FromRuntime("suspend")
  /\ IF owner.phase = "running" /\ owner.gen = Asked
     THEN Control([DropQueued(owner) EXCEPT !.phase = "suspending", !.timer = "suspend",
                                            !.control = [k |-> "suspend", n |-> 0]], "suspend")
     ELSE Ignore

OwnerResume ==
  /\ FromRuntime("resume")
  /\ IF owner.phase = "suspended"
     THEN Control([owner EXCEPT !.phase = "resuming", !.timer = "resume",
                                !.control = [k |-> "resume", n |-> 0]], "resume")
     ELSE Ignore

OwnerRedraw ==
  /\ FromRuntime("redraw")
  /\ IF owner.phase = "running" /\ owner.gen = Asked THEN Control(owner, "redraw") ELSE Ignore

\* set_mouse/2: the wheel reports are asked for the other way than they will
\* be; a change that still waits is replaced, here by nothing.
OwnerMouse ==
  /\ FromRuntime("mouse")
  /\ IF owner.phase = "left" THEN Ignore
     ELSE IF Contains(owner.outbox, "mouse")
     THEN owner' = [owner EXCEPT !.outbox = RemoveAt(@, CHOOSE i \in DOMAIN @ : @[i] = "mouse")]
          /\ UNCHANGED world
     ELSE Control(owner, "mouse")

\* {:DOWN, monitor, …}: the runtime is gone.
OwnerOrphan ==
  /\ owner.alive /\ rt.phase = "over" /\ rt.out = <<>> /\ ~owner.down
  /\ owner' = IF owner.phase = "restored" THEN [owner EXCEPT !.down = TRUE]
              ELSE [owner EXCEPT !.alive = FALSE, !.fail = IF owner.slot THEN "no" ELSE "initialization"]
  /\ UNCHANGED <<rt, native, world>>

-----------------------------------------------------------------------------
(* The owner: records of the helper.                                       *)

Record(k) ==
  /\ owner.alive /\ native.out # <<>> /\ Head(native.out).k = k
  /\ native' = [native EXCEPT !.out = Tail(@)]

Token == Head(native.out).n

\* A call into the runtime: it has read what came before, or it is gone.
Calls == owner.told = <<>> \/ rt.phase = "over"
Stops(why) == owner' = [owner EXCEPT !.alive = FALSE, !.fail = why] /\ UNCHANGED <<rt, world>>

\* Mutant: a paint that was given up is answered again when it is confirmed.
OwnerPaintedAgain ==
  /\ Record("painted")
  /\ owner.pending.k = "draw" /\ owner.pending.n = Token
  /\ LET told == Reply(owner, owner.pending.draw)
         done == [told EXCEPT !.pending = None, !.replied = FALSE,
                              !.timer = IF owner.phase = "running" THEN "none" ELSE @]
     IN  IF done.phase = "running" /\ done.queued # 0
         THEN Painting([done EXCEPT !.queued = 0], done.queued)
         ELSE Granting(done)
  /\ UNCHANGED rt

\* {:painted, …}; a skipped frame only asks the runtime to draw again.
OwnerPainted ==
  /\ Record("painted")
  /\ owner.pending.k = "draw" /\ owner.pending.n = Token
  /\ LET told == IF owner.replied THEN owner ELSE Reply(owner, owner.pending.draw)
         done == [told EXCEPT !.pending = None, !.replied = FALSE,
                              !.timer = IF owner.phase = "running" THEN "none" ELSE @]
     IN  IF done.phase = "running" /\ done.queued # 0
         THEN Painting([done EXCEPT !.queued = 0], done.queued)
         ELSE Granting(done)
  /\ UNCHANGED rt

OwnerInput ==
  /\ Record("input")
  /\ owner.credit = Token
  /\ \/ owner.phase = "running" /\ Calls
        /\ IF rt.phase = "over" THEN Stops("call")
           ELSE Granting([owner EXCEPT !.credit = 0]) /\ UNCHANGED rt
     \/ owner.phase \in {"closing", "suspending"}
        /\ owner' = [owner EXCEPT !.credit = 0] /\ UNCHANGED <<rt, world>>

OwnerRestored ==
  /\ Record("restored")
  /\ owner.control = [k |-> "shutdown", n |-> Token]
  /\ owner' = [owner EXCEPT !.told = Append(@, [k |-> "terminal_shutdown", draw |-> 0]),
                            !.phase = "restored", !.control = None, !.pending = None,
                            !.credit = 0, !.timer = "exit"]
  /\ UNCHANGED <<rt, world>>

OwnerSuspended ==
  /\ Record("suspended") /\ Calls
  /\ owner.control = [k |-> "suspend", n |-> Token]
  /\ IF rt.phase = "over" THEN Stops("call")
     ELSE /\ rt' = Suspended(rt, owner.gen)
          /\ owner' = [owner EXCEPT !.phase = "suspended", !.control = None, !.pending = None,
                                    !.replied = FALSE, !.credit = 0, !.timer = "none"]
          /\ UNCHANGED world

\* {:ready, …}: the first one registers the terminal.
OwnerReady ==
  /\ Record("ready") /\ Calls
  /\ owner.phase \in {"initializing", "resuming"} /\ Head(native.out).mouse = owner.mouse
  /\ IF rt.phase = "over" THEN Stops("call")
     ELSE LET gen == IF owner.slot THEN owner.gen + 1 ELSE 1
          IN  /\ rt' = IF owner.slot THEN Resumed(rt, gen) ELSE [rt EXCEPT !.phase = "running"]
              /\ owner' = [owner EXCEPT !.slot = TRUE, !.gen = gen, !.phase = "running",
                                        !.pending = None, !.credit = 0, !.control = None,
                                        !.input = FALSE, !.timer = "none"]
              /\ UNCHANGED world

OwnerResumeNeeded ==
  /\ Record("resume_needed") /\ owner.phase = "running"
  /\ LET told == IF owner.pending # None /\ ~owner.replied THEN Reply(owner, owner.pending.draw)
                 ELSE owner
     IN  Control([DropQueued(told) EXCEPT !.phase = "resuming", !.pending = None, !.replied = FALSE,
                    !.credit = 0, !.input = FALSE, !.timer = "resume",
                    !.control = [k |-> "resume", n |-> 0]], "resume")
  /\ UNCHANGED rt

\* The clauses of record/2 that raise: the record is not one the owner awaits.
Awaited ==
  LET record == Head(native.out)
  IN  \/ record.k = "resume_needed" /\ owner.phase = "running"
      \/ record.k = "ready" /\ owner.phase \in {"initializing", "resuming"} /\ record.mouse = owner.mouse
      \/ record.k = "painted" /\ owner.pending.k = "draw" /\ owner.pending.n = record.n
      \/ record.k = "input" /\ owner.credit = record.n
         /\ owner.phase \in {"running", "closing", "suspending"}
      \/ record.k = "restored" /\ owner.control = [k |-> "shutdown", n |-> record.n]
      \/ record.k = "suspended" /\ owner.control = [k |-> "suspend", n |-> record.n]

OwnerRefuses ==
  /\ owner.alive /\ native.out # <<>> /\ ~Awaited
  /\ native' = [native EXCEPT !.out = Tail(@)]
  /\ Stops(IF Head(native.out).k = "error" THEN "error" ELSE "protocol")

\* Mutant: the owner waits for a runtime that is gone already.
OwnerPortExitWaits ==
  /\ owner.alive /\ native.st = "exited" /\ native.out = <<>> /\ owner.phase # "left"
  /\ IF owner.phase = "restored"
     THEN owner' = [owner EXCEPT !.phase = "left", !.timer = "none"] /\ UNCHANGED <<rt, world>>
     ELSE Stops("unavailable")
  /\ UNCHANGED native

\* {:exit_status, _}
OwnerPortExit ==
  /\ owner.alive /\ native.st = "exited" /\ native.out = <<>> /\ owner.phase # "left"
  /\ IF owner.phase = "restored"
     THEN owner' = [owner EXCEPT !.phase = "left", !.timer = "none", !.alive = ~owner.down]
          /\ UNCHANGED <<rt, world>>
     ELSE Stops("unavailable")
  /\ UNCHANGED native

-----------------------------------------------------------------------------
(* The owner: its timers.                                                  *)

\* A paint that takes long is answered as stale: the runtime draws later.
SoftDeadline ==
  /\ owner.alive /\ owner.timer = "draw" /\ owner.pending # None
  /\ owner' = [(IF owner.replied THEN owner ELSE Reply(owner, owner.pending.draw))
                 EXCEPT !.replied = TRUE, !.timer = "draw_hard"]
  /\ UNCHANGED <<rt, native, world>>

\* A deadline of the phase passes: the helper is stopped, or slower than that.
HardDeadline ==
  /\ owner.alive /\ owner.timer \notin {"none", "draw"}
  /\ world.scenario.late \/ native.st = "stopped"
  /\ Stops("timeout") /\ UNCHANGED native

QueuedDeadline ==
  /\ owner.alive /\ owner.queued # 0
  /\ owner' = DropQueued(owner)
  /\ UNCHANGED <<rt, native, world>>

\* :busy_retry: the controls that wait go first, then a credit.
BusyRetry ==
  /\ owner.alive /\ owner.retry
  /\ LET o == [owner EXCEPT !.retry = FALSE]
     IN  IF o.outbox = <<>> THEN Granting(o)
         ELSE \E n \in 0 .. Len(o.outbox) :
                /\ owner' = Grant(Flush(o, n), TRUE)
                /\ Busy(n < Len(o.outbox))
  /\ UNCHANGED <<rt, native>>

-----------------------------------------------------------------------------
(* The native helper.  "probing" is active with the Ready record held back *)
(* until the terminal has answered; "stopped" is stopped by the shell, and *)
(* "barrier" continued but not resumed by the owner yet.                   *)

Report(h, k, n) == [h EXCEPT !.out = Append(@, [k |-> k, n |-> n])]
Activate(h, state) ==
  IF state = "probing" THEN [h EXCEPT !.st = state]
  ELSE [h EXCEPT !.st = state, !.out = Append(@, [k |-> "ready", n |-> 0, mouse |-> h.mouse])]

\* Restored, and the reason if there is one; the process ends.
Errs(h) == [Report(h, "error", 0) EXCEPT !.st = "exited"]

Credit(h, token) ==
  IF h.st = "barrier" THEN h
  ELSE IF h.st \notin Raw \/ h.credit # 0 THEN Errs(h) ELSE [h EXCEPT !.credit = token]

Paint(h, sequence) ==
  LET taken == [h EXCEPT !.seq = sequence]
  IN  IF sequence <= h.seq THEN Errs(h)
      ELSE IF h.st = "barrier" THEN taken
      ELSE IF h.st \notin Raw THEN Errs(h) ELSE Report(taken, "painted", sequence)

\* Mutant: the shutdown is confirmed and the terminal restored by nobody.
ShutdownOnly(h, token) == Report(h, "restored", token)

Shutdown(h, token) == [Report(h, "restored", token) EXCEPT !.st = "exited"]

\* Mutant: a suspend is confirmed before the terminal is restored.
SuspendEarly(h, token) ==
  IF h.st \notin Raw THEN Errs(h) ELSE Report(h, "suspended", token)

Suspend(h, token) ==
  IF h.st \notin Raw THEN Errs(h)
  ELSE [Report(h, "suspended", token) EXCEPT !.st = "suspended", !.credit = 0]

\* command/1
Perform(h, command, probe) ==
  CASE command.k = "init"     -> Activate(h, IF probe THEN "probing" ELSE "active")
    [] command.k = "credit"   -> Credit(h, command.n)
    [] command.k = "draw"     -> Paint(h, command.n)
    [] command.k = "shutdown" -> Shutdown(h, command.n)
    [] command.k = "suspend"  -> Suspend(h, command.n)
    [] command.k = "resume"   -> IF h.st \in Raw THEN Errs(h) ELSE Activate(h, "active")
    [] command.k = "mouse"    -> [h EXCEPT !.mouse = ~@]
    [] command.k = "redraw"   -> h

\* The token of a command is larger than the last; a frame has none.
NativeCommand ==
  /\ native.st \notin {"stopped", "exited"} /\ owner.wire # <<>>
  /\ LET command == Head(owner.wire)
         taken == [native EXCEPT !.token = IF command.k \in {"init", "draw"} THEN @ ELSE command.n]
     IN  \E probe \in BOOLEAN :
           native' = IF command.k \notin {"init", "draw"} /\ command.n <= native.token
                     THEN Errs(native) ELSE Perform(taken, command, probe)
  /\ owner' = [owner EXCEPT !.wire = Tail(@)]
  /\ UNCHANGED <<rt, world>>

\* probe_step/1 ends: the answers are there or took too long.
NativeProbed ==
  /\ native.st = "probing"
  /\ native' = Activate(native, "active")
  /\ UNCHANGED <<rt, owner, world>>

\* input/0 under a credit.
NativeInput ==
  /\ native.st = "active" /\ native.credit # 0 /\ world.inputs < world.scenario.inputs
  /\ native' = [Report(native, "input", native.credit) EXCEPT !.credit = 0]
  /\ world' = [world EXCEPT !.inputs = @ + 1]
  /\ UNCHANGED <<rt, owner>>

Stimulus(kind) ==
  /\ kind \in world.scenario.may /\ world.stimuli < world.scenario.stimuli
  /\ world' = [world EXCEPT !.stimuli = @ + 1]

\* SIGTSTP: the terminal is restored before the process stops.
NativeStop ==
  /\ Stimulus("stop") /\ native.st \in Raw
  /\ native' = [native EXCEPT !.st = "stopped", !.credit = 0]
  /\ UNCHANGED <<rt, owner>>

\* SIGCONT: a barrier before any command that waits.
NativeContinue ==
  /\ native.st = "stopped" /\ owner.alive
  /\ native' = [Report(native, "resume_needed", 0) EXCEPT !.st = "barrier"]
  /\ UNCHANGED <<rt, owner, world>>

\* The helper dies, and its guard restores the terminal.
NativeDies ==
  /\ Stimulus("dies") /\ native.st # "exited"
  /\ native' = [native EXCEPT !.st = "exited"]
  /\ UNCHANGED <<rt, owner>>

\* terminate/2: no helper outlives its owner.
NativeReaped ==
  /\ ~owner.alive /\ native.st # "exited"
  /\ native' = [native EXCEPT !.st = "exited"]
  /\ UNCHANGED <<rt, owner, world>>

-----------------------------------------------------------------------------
(* The runtime's own steps.                                                *)

Over(r, how) == [r EXCEPT !.phase = "over", !.end = how, !.edit = "none", !.draw = 0]

\* The timer of the next frame; none runs while the terminal is away.
Frame ==
  /\ rt.phase = "running" /\ rt.life = "running" /\ rt.draw = 0 /\ rt.asked < world.scenario.draws
  /\ rt' = Draw(rt)
  /\ UNCHANGED <<owner, native, world>>

\* A result of the owner, or its answer to the shutdown.
Read ==
  /\ owner.told # <<>> /\ rt.phase # "over"
  /\ LET told == Head(owner.told)
     IN  rt' = IF told.k = "draw_result" THEN SettleDraw(rt, told.draw)
               ELSE IF rt.phase = "closing" /\ rt.shut THEN Over(rt, "restored") ELSE rt
  /\ owner' = [owner EXCEPT !.told = Tail(@)]
  /\ UNCHANGED <<native, world>>

\* The person leaves the full screen view.
Quit ==
  /\ rt.phase = "running"
  /\ rt' = FinalPaint(rt)
  /\ UNCHANGED <<owner, native, world>>

\* Where the answer to a draw still comes from, or the new generation of the
\* terminal that forgets it.
Tracked(d) ==
  \/ owner.phase = "resuming"
  \/ \E i \in DOMAIN rt.out : rt.out[i] = [k |-> "draw", n |-> d]
  \/ \E i \in DOMAIN owner.told : owner.told[i] = [k |-> "draw_result", draw |-> d]
  \/ owner.queued = d
  \/ owner.pending.k = "draw" /\ owner.pending.draw = d /\ ~owner.replied

\* The deadline of a draw is far longer than the owner's soft one: it passes
\* for a draw that nobody is to answer.
DrawTimeout ==
  /\ rt.draw # 0 /\ rt.phase # "over" /\ ~Tracked(rt.draw)
  /\ rt' = IF rt.final THEN FinalPaint([rt EXCEPT !.draw = 0]) ELSE BeginShutdown(rt)
  /\ UNCHANGED <<owner, native, world>>

\* The helper takes longer to close than the runtime waits.
ShutdownTimeout ==
  /\ rt.phase = "closing" /\ rt.shut /\ (world.scenario.late \/ native.st = "stopped")
  /\ rt' = Over(rt, "timeout")
  /\ UNCHANGED <<owner, native, world>>

\* {:DOWN, …} of the owner, whose terminate/2 ends the helper first.
TerminalDown ==
  /\ ~owner.alive /\ native.st = "exited" /\ owner.told = <<>> /\ owner.slot /\ rt.phase # "over"
  /\ rt' = Over(rt, "down")
  /\ UNCHANGED <<owner, native, world>>

\* No terminal was registered in time.
BindingTimeout ==
  /\ rt.phase = "binding"
  /\ rt' = Over(rt, "binding")
  /\ UNCHANGED <<owner, native, world>>

\* {:settings_external_edit, …}: the frames go on until the terminal is away.
SettingsEdit ==
  /\ Stimulus("settings_edit")
  /\ rt.phase = "running" /\ rt.life = "running" /\ rt.edit = "none"
  /\ rt' = [Tell(rt, "suspend", rt.gen) EXCEPT !.edit = "asked"]
  /\ UNCHANGED <<owner, native>>

\* {:external_editor, …} and {:edit_externally, …}: no frame is asked for.
ComposerEdit ==
  /\ Stimulus("composer_edit")
  /\ rt.phase = "running" /\ rt.life = "running" /\ rt.edit = "none"
  /\ rt' = [Tell(rt, "suspend", rt.gen) EXCEPT !.edit = "asked", !.life = "suspend_requested"]
  /\ UNCHANGED <<owner, native>>

\* finish_edit/2
EditorEnds ==
  /\ rt.edit = "editing"
  /\ rt' = [Tell(rt, "resume", rt.gen) EXCEPT !.edit = "none"]
  /\ UNCHANGED <<owner, native, world>>

\* Mutant: the timer is for an editor that runs, not for one that waits to.
EditTimeoutLate ==
  /\ rt.edit = "editing" /\ owner.alive
  /\ rt' = [Tell(rt, "resume", rt.gen) EXCEPT !.edit = "none"]
  /\ UNCHANGED <<owner, native, world>>

\* The owner did not step aside: it was busy with a resume.
EditTimeout ==
  /\ rt.edit = "asked" /\ owner.alive /\ owner.phase # "suspending"
  /\ \A i \in DOMAIN rt.out : rt.out[i].k # "suspend"
  /\ rt' = [Tell(rt, "resume", rt.gen)
              EXCEPT !.edit = "none",
                     !.life = IF @ = "suspend_requested" THEN "running" ELSE @]
  /\ UNCHANGED <<owner, native, world>>

\* Wheel reports go on or off; Ctrl-L.
Preference ==
  \E kind \in {"mouse", "redraw"} :
    /\ Stimulus(kind)
    /\ rt.phase = "running"
    /\ rt' = Tell(rt, kind, rt.gen)
    /\ UNCHANGED <<owner, native>>

\* The session is over; what must still happen is a liveness property.
Done == rt.phase = "over" /\ UNCHANGED vars

OwnerStep ==
  \/ OwnerDraw \/ OwnerShutdown \/ OwnerSuspend \/ OwnerResume \/ OwnerRedraw \/ OwnerMouse
  \/ OwnerOrphan \/ OwnerPainted \/ OwnerInput \/ OwnerRestored \/ OwnerSuspended \/ OwnerReady
  \/ OwnerResumeNeeded \/ OwnerRefuses \/ OwnerPortExit
OwnerTimer == SoftDeadline \/ HardDeadline \/ QueuedDeadline \/ BusyRetry
NativeStep == NativeCommand \/ NativeProbed \/ NativeReaped
Person == NativeInput \/ NativeStop \/ NativeContinue \/ NativeDies \/ Quit \/ SettingsEdit
          \/ ComposerEdit \/ EditorEnds \/ Preference
RuntimeTimer == DrawTimeout \/ ShutdownTimeout \/ EditTimeout
RuntimeStep == Read \/ TerminalDown

Next ==
  \/ OwnerStep \/ OwnerTimer \/ NativeStep \/ Person \/ RuntimeTimer \/ RuntimeStep
  \/ Frame \/ BindingTimeout \/ Done

Spec == Init /\ [][Next]_vars

\* The processes run, and their timers fire.
FairSpec ==
  Spec /\ WF_vars(OwnerStep) /\ WF_vars(OwnerTimer) /\ WF_vars(NativeStep)
       /\ WF_vars(RuntimeTimer) /\ WF_vars(RuntimeStep)

-----------------------------------------------------------------------------
(* Properties.                                                             *)

\* An external editor has the terminal to itself: while one runs, the helper
\* does not hold the terminal in raw mode and reads no key of it.
EditorAlone == rt.edit = "editing" => native.st \notin Raw

\* A session that ended because the terminal was restored, or because its owner
\* ended, leaves a terminal that is not raw.
ClosedCooked == rt.end \in {"restored", "down"} => native.st \notin Raw

\* While the runtime runs - it has not begun to close the session - the owner and
\* the helper stay in step: no record is one that the owner does not await and no
\* command is one that the helper refuses, whatever waits in the channels.  (An edit that crosses
\* a stop by the shell is the exception.)
InStep ==
  rt.phase = "running" /\ ~({"composer_edit", "stop"} \subseteq world.scenario.may)
    => owner.fail \notin {"protocol", "error"}

\* While the session runs, a draw that the runtime waits for is on its way, is
\* painted, is answered, or is forgotten by a terminal that comes back: the
\* deadline of a draw, which ends the session, never passes because a request
\* got lost.
DrawTracked == rt.phase = "running" /\ rt.draw # 0 /\ owner.alive => Tracked(rt.draw)

\* The runtime is told the result of the draw that it waits for, and once:
\* nothing answers a draw that was settled, given up or painted before.  (After
\* a stop by the shell, an answer to a forgotten draw may still come.)
AnswersAwaited ==
  rt.phase = "running" =>
    \A i \in DOMAIN owner.told : owner.told[i].k = "draw_result" =>
      /\ \/ owner.told[i].draw = rt.draw
         \/ "stop" \in world.scenario.may /\ (rt.draw = 0 \/ owner.told[i].draw < rt.draw)
      /\ \A j \in DOMAIN owner.told : owner.told[j] = owner.told[i] => j = i

\* An edit that was asked for gets the terminal or is given up; and then, once
\* the editor has ended, the screen comes back or the session ends.
ScreenReturns ==
  /\ rt.edit = "asked" ~> rt.edit # "asked"
  /\ (rt.edit = "none" /\ rt.life # "running" /\ rt.phase = "running")
       ~> (rt.life = "running" \/ rt.phase # "running")

\* A session that closes ends, and its owner and its helper with it, however
\* the helper behaves: stopped, slow, dead, or with a busy port.
SessionEnds ==
  rt.phase \in {"closing", "over"} ~> (rt.phase = "over" /\ ~owner.alive /\ native.st = "exited")
=============================================================================
