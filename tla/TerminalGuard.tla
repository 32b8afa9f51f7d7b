---------------------------- MODULE TerminalGuard ----------------------------
(***************************************************************************)
(* The two processes of the native helper and the modes of the terminal:   *)
(* the guard (guard.rs, tty.rs) sets and restores them, one byte at a time *)
(* on a socket, for the writer (session.rs), which alone talks to the owner*)
(* and paints.  Either may be signalled at any time, the terminal may stop *)
(* reading or vanish, the owner may close its pipe, the writer may die.    *)
(*                                                                         *)
(* Restoring takes several writes, each of which may time out, and calls   *)
(* that may not; so every one of them is a step of its own.                *)
(***************************************************************************)
EXTENDS Integers, SequencesExt

CONSTANTS
    Scenarios       \* what the owner, the shell and the terminal may do

\* The flags of Init; how many commands the owner sends, SIGTSTPs come and
\* times the terminal stops reading; and which of the rest may happen.
Flags == {"alt", "focus", "paste", "mouse"}
Outsiders == {"terminate", "die", "vanish", "close"}

ASSUME GuardAssumption ==
    Scenarios \subseteq [flags : SUBSET Flags, commands : Nat, stops : Nat, hiccups : Nat, outsiders : SUBSET Outsiders]

VARIABLES
    modes,      \* what the terminal has that it had not when the helper started
    terminal,   \* reads, stuck (its output is full), gone
    guard,
    writer,
    request,    \* the byte the writer sent to the guard, and ...
    answer,     \* ... the acknowledgement, each until it is read
    owner,      \* [phase, pipe, closed]: what the owner expects, its commands
    records,    \* the records of the writer the owner has not read
    outside     \* the scenario: what may still happen, and the shell's last signal

vars == <<modes, terminal, guard, writer, request, answer, owner, records, outside>>

-----------------------------------------------------------------------------
(* What tty.rs does to the terminal: scripts of operations.  A write fails *)
(* if the terminal is stuck for 500 ms or gone, termios if it is gone.     *)

Reports == {"mouse", "focus", "paste"}
Op(by, on, off) == [by |-> by, on |-> on, off |-> off]
On(mode) == <<Op("write", {mode}, {})>>
Off(set) == <<Op("write", {}, set)>>
If(condition, script) == IF condition THEN script ELSE <<>>

\* activate: raw first, so that every partial set of modes is one to restore.
ActivateScript(flags) ==
    <<Op("fcntl", {"nonblock"}, {}), Op("termios", {"raw"}, {})>> \o Off(Reports)
    \o If("alt" \in flags, On("alt")) \o On("nowrap")
    \o If("focus" \in flags, On("focus")) \o If("paste" \in flags, On("paste"))
    \o (IF "mouse" \in flags THEN On("mouse") ELSE If("alt" \in flags, On("altscroll")))

\* mouse: the reports instead of the alternate scroll, or back.
MouseScript(on, flags) ==
    IF on THEN <<Op("write", {"mouse"}, {"altscroll"})>>
    ELSE Off({"mouse"}) \o If("alt" \in flags, On("altscroll"))

\* restore: the writes, then termios and the status flags whatever became of them.
RestoreWrites(kitty, flags) ==
    If(kitty, Off({"kitty"})) \o Off(Reports) \o Off({"altscroll"})
    \o If("alt" \in flags, Off({"alt"})) \o Off({"nowrap", "drawn"})
RestoreCalls == <<Op("termios", {}, {"raw"}), Op("fcntl", {}, {"nonblock"})>>
RestoreScript(kitty, flags) == <<Op("fcntl", {"nonblock"}, {})>> \o RestoreWrites(kitty, flags) \o RestoreCalls

Fails(op) == (op.by = "write" /\ terminal # "reads") \/ (op.by = "termios" /\ terminal = "gone")

\* Mutant: a restoration gives up at its first write that fails.
AfterFailureGivesUp(op, job) == <<>>

\* What is left to do when an operation failed: of a restoration, the calls.
AfterFailure(op, job) == IF op.by = "write" /\ job \in {"restore", "final"} THEN RestoreCalls ELSE <<>>

-----------------------------------------------------------------------------
(* Signals of a process.  The handlers keep the last TSTP or CONT, and a   *)
(* termination for good.  CONT resumes a stopped writer; TSTP is dropped by*)
(* the CONT that resumes one that was stopped when it came.                *)

Terminated(w) == IF w.at = "dead" THEN w ELSE [w EXCEPT !.term = TRUE]
Continued(w) == IF w.at = "dead" THEN w ELSE [w EXCEPT !.stopped = FALSE, !.cell = "cont"]
Signalled(w, sig) ==
    CASE sig = "cont" -> Continued(w)
      [] sig = "tstp" /\ w.at # "dead" /\ ~w.stopped -> [w EXCEPT !.cell = "tstp"]
      [] OTHER -> w
Dead(w, code) == [w EXCEPT !.at = "dead", !.code = code, !.plan = <<>>, !.waiting = FALSE, !.stopped = FALSE]

\* Mutant: the clock of the escalation never starts.
StoppingNever(since) == since

\* The clock of the escalation starts once.
Stopping(since) == IF since = "no" THEN "young" ELSE since

-----------------------------------------------------------------------------
(* The writer.  A plan is what it does before it comes back to its loop.   *)

Asks == {"activate", "kitty", "kitty_maybe", "restore", "mouse_on", "mouse_off"}
Writes == {"frame", "title", "untitle", "probe"}
Tells == {"ready", "painted", "resume_needed", "restored"}
Steps == Asks \cup Writes \cup Tells \cup {"stop", "finish", "exit"}

Runs == writer.at # "dead" /\ ~writer.stopped
Does(step) == Runs /\ ~writer.waiting /\ writer.plan # <<>> /\ Head(writer.plan) = step
Idle(at) == Runs /\ writer.plan = <<>> /\ writer.at = at

\* suspend, without the answer: the title as it was, then the modes.
Suspension(w) == If(w.saved, <<"untitle">>) \o <<"restore">>
Suspend(w, then) == [w EXCEPT !.probe = FALSE, !.plan = Suspension(w) \o then]

\* The end of run: restoration once more, whatever the session ended with.
Epilogue(w, result) == [w EXCEPT !.ending = TRUE, !.result = result, !.plan = Suspension(w) \o <<"exit">>]
Next1(w) == [w EXCEPT !.plan = Tail(@)]
Failing(w) == IF w.ending THEN [Next1(w) EXCEPT !.result = "err"] ELSE Epilogue(w, "err")

Activation(w) ==
    [w EXCEPT !.await = FALSE,
              !.plan = <<"activate">> \o If(w.enhanced, <<"kitty">>) \o If(w.title, <<"title">>)
                       \o <<IF ~w.probed /\ "alt" \in w.flags THEN "probe" ELSE "ready">>]

\* The head of the loop: termination, signals, the end of the probe.
WriterTop ==
    /\ Idle("top")
    /\ \E over, kitty \in BOOLEAN :
        LET quiet == [writer EXCEPT !.cell = "none", !.at = "poll"] IN
        writer' =
            CASE writer.term -> Epilogue(writer, "ok")
              [] ~writer.term /\ writer.cell = "tstp" /\ writer.active ->
                    Suspend([writer EXCEPT !.cell = "none"], <<"stop">>)
              [] ~writer.term /\ writer.cell = "cont" /\ writer.ext ->
                    [quiet EXCEPT !.ext = FALSE, !.await = TRUE, !.plan = <<"resume_needed">>]
              [] OTHER ->
                    IF writer.probe /\ over
                    THEN [quiet EXCEPT !.probe = FALSE, !.plan = If(kitty, <<"kitty_maybe">>) \o <<"ready">>]
                    ELSE quiet
    /\ UNCHANGED <<modes, terminal, guard, request, answer, owner, records, outside>>

\* A command of the owner; Resume and Init activate, and the rest is refused
\* or dropped as the state has it.
Obeyed(w, command) ==
    CASE command.kind = "init" -> Activation([w EXCEPT !.flags = command.flags])
      [] command.kind = "draw" ->
            IF w.await THEN w ELSE IF ~w.active THEN Epilogue(w, "err") ELSE [w EXCEPT !.plan = <<"frame", "painted">>]
      [] command.kind = "title" ->
            [w EXCEPT !.title = TRUE, !.plan = If(w.active /\ ~w.await /\ ~w.probe, <<"title">>)]
      [] command.kind = "mouse" ->
            [w EXCEPT !.flags = IF command.on THEN @ \cup {"mouse"} ELSE @ \ {"mouse"},
                      !.plan = If((command.on # ("mouse" \in w.flags)) /\ w.active /\ ~w.await,
                                  <<IF command.on THEN "mouse_on" ELSE "mouse_off">>)]
      [] command.kind = "suspend" -> IF w.active THEN Suspend(w, <<"restored">>) ELSE Epilogue(w, "err")
      [] command.kind = "resume" -> IF w.active \/ w.ext THEN Epilogue(w, "err") ELSE Activation(w)
      [] command.kind = "shutdown" -> Suspend(w, <<"restored", "finish">>)

WriterPoll ==
    /\ Idle("poll")
    /\ writer' = IF owner.pipe # <<>> THEN Obeyed([writer EXCEPT !.at = "top"], Head(owner.pipe))
                 ELSE IF owner.closed THEN Epilogue(writer, "ok")
                 ELSE [writer EXCEPT !.at = "top"]
    /\ owner' = IF owner.pipe # <<>> THEN [owner EXCEPT !.pipe = Tail(@)] ELSE owner
    /\ UNCHANGED <<modes, terminal, guard, request, answer, records, outside>>

\* A mode transaction: the byte goes out and the writer waits for the answer.
WriterAsks ==
    /\ \E step \in Asks :
        /\ Does(step)
        /\ request' = step
    /\ writer' = [writer EXCEPT !.waiting = TRUE]
    /\ UNCHANGED <<modes, terminal, guard, answer, owner, records, outside>>

\* Only the kitty mode after the probe may be refused; the size of a terminal
\* that is gone cannot be read.
Answered(w, step) ==
    CASE answer = "failed" -> IF step = "kitty_maybe" THEN Next1(w) ELSE Failing(w)
      [] answer = "ok" /\ step = "activate" ->
            IF terminal = "gone" THEN Epilogue([w EXCEPT !.active = TRUE], "err") ELSE [Next1(w) EXCEPT !.active = TRUE]
      [] answer = "ok" /\ step = "restore" -> [Next1(w) EXCEPT !.active = FALSE]
      [] answer = "ok" /\ step = "kitty_maybe" -> [Next1(w) EXCEPT !.enhanced = TRUE]
      [] OTHER -> Next1(w)

WriterAnswered ==
    /\ Runs /\ writer.waiting /\ answer # "none"
    /\ writer' = Answered([writer EXCEPT !.waiting = FALSE], Head(writer.plan))
    /\ answer' = "none"
    /\ UNCHANGED <<modes, terminal, guard, request, owner, records, outside>>

\* A part of a frame may be all the terminal ever gets of it.
WriterWritesPart ==
    /\ Does("frame") /\ terminal = "reads" /\ ~writer.term
    /\ "drawn" \notin modes
    /\ modes' = modes \cup {"drawn"}
    /\ UNCHANGED <<terminal, guard, writer, request, answer, owner, records, outside>>

WriterWrites ==
    /\ \E step \in Writes :
        /\ Does(step) /\ terminal = "reads" /\ ~writer.term
        /\ modes' = CASE step = "frame" -> modes \cup {"drawn"}
                      [] step = "title" -> modes \cup {"title"}
                      [] step = "untitle" -> modes \ {"title"}
                      [] step = "probe" -> modes
        /\ writer' = [Next1(writer) EXCEPT !.saved = step = "title" \/ (@ /\ step # "untitle"),
                                          !.probe = @ \/ step = "probe", !.probed = @ \/ step = "probe"]
    /\ UNCHANGED <<terminal, guard, request, answer, owner, records, outside>>

\* A write fails at a terminal that is gone and once the writer terminates;
\* only the one of restore_title is not patient with a stuck terminal.
WriterCannotWrite ==
    /\ \E step \in Writes :
        /\ Does(step)
        /\ terminal = "gone" \/ writer.term \/ (terminal = "stuck" /\ step = "untitle")
        /\ writer' = CASE step = "frame" -> Epilogue(writer, "err")
                       [] step = "title" -> Next1(writer)
                       [] step = "untitle" -> [Next1(writer) EXCEPT !.saved = FALSE]
                       [] step = "probe" -> [writer EXCEPT !.probed = TRUE, !.plan = <<"ready">>]
    /\ UNCHANGED <<modes, terminal, guard, request, answer, owner, records, outside>>

\* A record for the owner fails like a write.
WriterTells ==
    /\ \E step \in Tells :
        /\ Does(step)
        /\ LET sent == ~writer.term /\ ~owner.closed IN
            /\ writer' = IF sent THEN Next1(writer) ELSE Failing(writer)
            /\ records' = IF sent /\ step # "painted" THEN Append(records, step) ELSE records
    /\ UNCHANGED <<modes, terminal, guard, request, answer, owner, outside>>

\* raise(SIGSTOP), when the terminal is the shell's.
WriterStops ==
    /\ Does("stop")
    /\ writer' = [Next1(writer) EXCEPT !.ext = TRUE, !.stopped = TRUE]
    /\ UNCHANGED <<modes, terminal, guard, request, answer, owner, records, outside>>

WriterFinishes ==
    /\ Does("finish")
    /\ writer' = Epilogue(writer, "ok")
    /\ UNCHANGED <<modes, terminal, guard, request, answer, owner, records, outside>>

WriterExits ==
    /\ Does("exit")
    /\ writer' = Dead(writer, writer.result)
    /\ records' = IF writer.result = "err" /\ ~writer.term /\ ~owner.closed THEN Append(records, "failure") ELSE records
    /\ UNCHANGED <<modes, terminal, guard, request, answer, owner, outside>>

-----------------------------------------------------------------------------
(* The guard.                                                              *)

\* Mutant: a writer that was given its second is taken for dead.
ReapableAssumed(w, since) == w.at = "dead" \/ since = "old"

Reapable(w, since) == w.at = "dead"

\* Tty::restore begins: it takes the kitty flag and does nothing twice.
Restoring(g, job) ==
    [g EXCEPT !.at = "serving", !.job = job, !.failed = FALSE, !.kitty = FALSE,
              !.script = If(g.active, RestoreScript(g.kitty, g.flags))]

\* The head of the loop: reap the writer, or pass on the signals; SIGKILL
\* after a second of stopping.
GuardTop ==
    /\ guard.at = "top"
    /\ IF Reapable(writer, guard.stopping)
       THEN /\ guard' = Restoring(guard, "final")
            /\ writer' = writer
       ELSE /\ guard' = [guard EXCEPT !.term = FALSE, !.cell = "none", !.at = "poll",
                                     !.stopping = IF guard.term THEN Stopping(@) ELSE @]
            /\ LET told == Signalled(IF guard.term THEN Continued(Terminated(writer)) ELSE writer, guard.cell) IN
               writer' = IF guard.stopping = "old" THEN Dead(told, "killed") ELSE told
    /\ UNCHANGED <<modes, terminal, request, answer, owner, records, outside>>

\* Serving a byte: which operations, and what the tty remembers first.
Serving(g, job) ==
    CASE job = "restore" -> Restoring(g, "restore")
      [] job = "activate" ->
            [g EXCEPT !.at = "serving", !.job = job, !.failed = FALSE, !.active = TRUE, !.flags = writer.flags,
                      !.script = ActivateScript(writer.flags)]
      [] OTHER ->
            [g EXCEPT !.at = "serving", !.job = job, !.failed = ~g.active,
                      !.script = If(g.active, IF job \in {"kitty", "kitty_maybe"} THEN On("kitty")
                                              ELSE MouseScript(job = "mouse_on", g.flags))]

\* The rest of the loop: the owner's pipe, then a byte of the writer, or its
\* end of the socket.
GuardPoll ==
    /\ guard.at = "poll"
    /\ LET gone == owner.closed /\ ~guard.gone
           told == IF gone THEN Continued(Terminated(writer)) ELSE writer
           seen == [guard EXCEPT !.gone = owner.closed, !.stopping = IF gone THEN Stopping(@) ELSE @]
       IN /\ writer' = told
          /\ guard' = IF request # "none" THEN Serving(seen, request)
                      ELSE [seen EXCEPT !.at = "top", !.stopping = IF writer.at = "dead" THEN Stopping(@) ELSE @]
    /\ request' = "none"
    /\ UNCHANGED <<modes, terminal, answer, owner, records, outside>>

\* One operation.  The kitty flag is set as soon as its push was written.
GuardOperates ==
    /\ guard.at = "serving" /\ guard.script # <<>>
    /\ LET op == Head(guard.script) IN
        IF Fails(op)
        THEN /\ guard' = [guard EXCEPT !.failed = TRUE, !.script = AfterFailure(op, guard.job)]
             /\ modes' = modes
        ELSE /\ guard' = [guard EXCEPT !.script = Tail(@), !.kitty = @ \/ guard.job \in {"kitty", "kitty_maybe"}]
             /\ modes' = (modes \cup op.on) \ op.off
    /\ UNCHANGED <<terminal, writer, request, answer, owner, records, outside>>

\* The tty stays active unless a restoration succeeded; a mouse switch is remembered.
Settled(g) ==
    [g EXCEPT !.active = IF g.job \in {"restore", "final"} THEN g.failed ELSE @,
              !.flags = CASE g.job = "mouse_on" /\ ~g.failed -> @ \cup {"mouse"}
                          [] g.job = "mouse_off" /\ ~g.failed -> @ \ {"mouse"}
                          [] OTHER -> @]

\* Mutant: the answer says that the byte was served, not that it succeeded.
AnswerServed(failed) == "ok"

AnswerOf(failed) == IF failed THEN "failed" ELSE "ok"

GuardAnswers ==
    /\ guard.at = "serving" /\ guard.script = <<>> /\ guard.job # "final"
    /\ guard' = [Settled(guard) EXCEPT !.at = "top", !.stopping = IF guard.failed THEN Stopping(@) ELSE @]
    /\ answer' = IF writer.at = "dead" THEN answer ELSE AnswerOf(guard.failed)
    /\ UNCHANGED <<modes, terminal, writer, request, owner, records, outside>>

GuardExits ==
    /\ guard.at = "serving" /\ guard.script = <<>> /\ guard.job = "final"
    /\ guard' = [Settled(guard) EXCEPT !.at = "exited",
                                       !.code = IF ~guard.failed /\ writer.code = "ok" THEN "ok" ELSE "err"]
    /\ UNCHANGED <<modes, terminal, writer, request, answer, owner, records, outside>>

\* A second of stopping is over.
GuardTimer ==
    /\ guard.stopping = "young" /\ guard.at # "exited"
    /\ guard' = [guard EXCEPT !.stopping = "old"]
    /\ UNCHANGED <<modes, terminal, writer, request, answer, owner, records, outside>>

-----------------------------------------------------------------------------
(* The owner, as far as it decides who has the terminal (TerminalPort has  *)
(* the rest of it): while it is "suspended", an editor does.               *)

Commanding(o, command) == [o EXCEPT !.pipe = Append(@, command)]

OwnerSends ==
    /\ ~owner.closed
    /\ \/ /\ owner.phase = "running" /\ outside.commands > 0
          /\ \E command \in {[kind |-> "draw"], [kind |-> "title"], [kind |-> "mouse", on |-> TRUE], [kind |-> "mouse", on |-> FALSE]} :
                owner' = Commanding(owner, command)
          /\ outside' = [outside EXCEPT !.commands = @ - 1]
       \/ /\ owner.phase = "running" /\ outside.commands > 0
          /\ owner' = [Commanding(owner, [kind |-> "suspend"]) EXCEPT !.phase = "suspending"]
          /\ outside' = [outside EXCEPT !.commands = @ - 1]
       \/ /\ owner.phase = "suspended"
          /\ owner' = [Commanding(owner, [kind |-> "resume"]) EXCEPT !.phase = "resuming"]
          /\ outside' = outside
       \/ /\ owner.phase \in {"running", "suspending", "suspended", "resuming"}
          /\ owner' = [Commanding(owner, [kind |-> "shutdown"]) EXCEPT !.phase = "closing"]
          /\ outside' = outside
    /\ UNCHANGED <<modes, terminal, guard, writer, request, answer, records>>

\* A record: what does not fit its phase ends the session, as a failure does.
Heard(o, record) ==
    CASE record = "ready" /\ o.phase \in {"starting", "resuming"} -> [o EXCEPT !.phase = "running"]
      [] record = "restored" /\ o.phase = "suspending" -> [o EXCEPT !.phase = "suspended"]
      [] record = "restored" /\ o.phase = "closing" -> [o EXCEPT !.phase = "restored"]
      [] record = "resume_needed" /\ o.phase = "running" ->
            [Commanding(o, [kind |-> "resume"]) EXCEPT !.phase = "resuming"]
      [] OTHER -> [o EXCEPT !.closed = TRUE, !.phase = "over"]

OwnerHears ==
    /\ records # <<>> /\ ~owner.closed
    /\ owner' = Heard(owner, Head(records))
    /\ records' = Tail(records)
    /\ UNCHANGED <<modes, terminal, guard, writer, request, answer, outside>>

-----------------------------------------------------------------------------
(* The outside: the shell's signals, to the guard or to both processes, the*)
(* terminal, and the deaths of the owner and of the writer.                *)

ShellStops ==
    /\ outside.stops > 0
    /\ \E both \in BOOLEAN :
        /\ guard' = [guard EXCEPT !.cell = "tstp"]
        /\ writer' = IF both THEN Signalled(writer, "tstp") ELSE writer
    /\ outside' = [outside EXCEPT !.stops = @ - 1, !.last = "tstp"]
    /\ UNCHANGED <<modes, terminal, request, answer, owner, records>>

ShellContinues ==
    /\ outside.last = "tstp"
    /\ \E both \in BOOLEAN :
        /\ guard' = [guard EXCEPT !.cell = "cont"]
        /\ writer' = IF both THEN Continued(writer) ELSE writer
    /\ outside' = [outside EXCEPT !.last = "cont"]
    /\ UNCHANGED <<modes, terminal, request, answer, owner, records>>

Terminate ==
    /\ "terminate" \in outside.outsiders /\ guard.at # "exited"
    /\ \E both \in BOOLEAN :
        /\ guard' = [guard EXCEPT !.term = TRUE]
        /\ writer' = IF both THEN Terminated(writer) ELSE writer
    /\ outside' = [outside EXCEPT !.outsiders = @ \ {"terminate"}, !.terminated = TRUE]
    /\ UNCHANGED <<modes, terminal, request, answer, owner, records>>

TerminalChanges ==
    /\ \/ terminal = "reads" /\ outside.hiccups > 0 /\ terminal' = "stuck"
       \/ terminal = "stuck" /\ terminal' = "reads"
       \/ terminal # "gone" /\ "vanish" \in outside.outsiders /\ terminal' = "gone"
    /\ outside' = [outside EXCEPT !.hiccups = IF terminal' = "stuck" THEN @ - 1 ELSE @]
    /\ UNCHANGED <<modes, guard, writer, request, answer, owner, records>>

OwnerCloses ==
    /\ "close" \in outside.outsiders /\ ~owner.closed
    /\ owner' = [owner EXCEPT !.closed = TRUE, !.phase = "over"]
    /\ UNCHANGED <<modes, terminal, guard, writer, request, answer, records, outside>>

WriterDies ==
    /\ "die" \in outside.outsiders /\ writer.at # "dead"
    /\ writer' = Dead(writer, "killed")
    /\ UNCHANGED <<modes, terminal, guard, request, answer, owner, records, outside>>

Ended ==
    /\ guard.at = "exited"
    /\ UNCHANGED vars

-----------------------------------------------------------------------------
Init ==
    /\ modes = {} /\ terminal = "reads"
    /\ guard = [at |-> "top", job |-> "none", script |-> <<>>, failed |-> FALSE, active |-> FALSE, flags |-> {},
                kitty |-> FALSE, stopping |-> "no", term |-> FALSE, cell |-> "none", gone |-> FALSE, code |-> "none"]
    /\ writer = [at |-> "top", plan |-> <<>>, waiting |-> FALSE, stopped |-> FALSE, active |-> FALSE,
                 ext |-> FALSE, await |-> FALSE, flags |-> {}, probe |-> FALSE, probed |-> FALSE, enhanced |-> FALSE,
                 title |-> FALSE, saved |-> FALSE, cell |-> "none", term |-> FALSE, ending |-> FALSE, result |-> "ok",
                 code |-> "none"]
    /\ request = "none" /\ answer = "none"
    /\ \E s \in Scenarios :
        /\ owner = [phase |-> "starting", pipe |-> <<[kind |-> "init", flags |-> s.flags]>>, closed |-> FALSE]
        /\ outside = [commands |-> s.commands, stops |-> s.stops, hiccups |-> s.hiccups, outsiders |-> s.outsiders,
                       last |-> "none", terminated |-> FALSE]
    /\ records = <<>>

Writer ==
    \/ WriterTop \/ WriterPoll \/ WriterAsks \/ WriterAnswered \/ WriterWritesPart \/ WriterWrites
    \/ WriterCannotWrite \/ WriterTells \/ WriterStops \/ WriterFinishes \/ WriterExits
Guard == GuardTop \/ GuardPoll \/ GuardOperates \/ GuardAnswers \/ GuardExits
Outside ==
    \/ OwnerSends \/ OwnerHears \/ ShellStops \/ ShellContinues \/ Terminate
    \/ TerminalChanges \/ OwnerCloses \/ WriterDies \/ Ended

Next == Writer \/ Guard \/ GuardTimer \/ Outside

Spec == Init /\ [][Next]_vars

\* Both processes are scheduled and the clock runs; nobody else has to do anything.
FairSpec == Spec /\ WF_vars(Writer) /\ WF_vars(Guard) /\ WF_vars(GuardTimer)

-----------------------------------------------------------------------------
(* Properties.                                                             *)

\* The guard and the writer never write to the terminal at the same time: a
\* mode is only touched while the writer waits for it or is dead and reaped
\* (guard.rs:1).
OneWriter ==
    guard.at = "serving" /\ guard.script # <<>> => writer.at = "dead" \/ writer.waiting

\* While somebody else has the terminal, because the owner was told Restored
\* or the shell stopped the helper, nothing of the helper is left in it but
\* perhaps its title, and nothing is being changed, until the owner resumes
\* (session.rs:242, session.rs:457).
HandedBack ==
    (owner.phase \in {"suspended", "restored"} \/ "restored" \in ToSet(records) \/ writer.ext \/ writer.await)
        => modes \subseteq {"title"}

\* A helper that exits with success left the terminal as it found it, but for
\* its title; and one that exits at all left it cooked, unless the terminal is
\* gone (guard.rs:193, tty.rs:200).
ExitAsFound ==
    guard.at = "exited" => /\ guard.code = "ok" => modes \subseteq {"title"}
                           /\ terminal # "gone" => {"raw", "nonblock"} \cap modes = {}

\* The helper ends after its owner is gone, after a termination and after the
\* death of its writer, however stuck the terminal is and stopped the writer
\* (guard.rs:108).
HelperEnds == (owner.closed \/ outside.terminated \/ writer.at = "dead") ~> guard.at = "exited"

\* A writer that the shell continued is not left stopped.
ContinueHeard == <>[](outside.last = "cont" => ~writer.stopped)
=============================================================================
