-------------------------- MODULE TerminalSession --------------------------
(***************************************************************************)
(* The session of the native helper with one terminal: session.rs between  *)
(* activation and the end, with the parser of InputParser, the records of  *)
(* PortWire and the painter of FramePainter.  A person types gestures, the *)
(* terminal sends their bytes a few at a time, answers the start-up probe  *)
(* and may be resized or hang up; the owner grants one credit per input and*)
(* sends frames and the commands that write between them.                  *)
(*                                                                         *)
(* Suspension, shutdown and the guard are modelled in TerminalPort and     *)
(* TerminalGuard.                                                          *)
(***************************************************************************)
EXTENDS PortWire, FramePainter

CONSTANTS
    Scenarios,      \* what the person, the terminal and the owner may do: see Init
    BufferSize      \* session.rs: the 4096 bytes of the input buffer

ASSUME SessionAssumption == BufferSize \in Nat \ {0}

VARIABLES
    person,     \* [typing, sending]: the gestures to come, the unsent bytes of the one under way
    terminal,   \* [queue, mode, replies, size, sizes, screen, hungUp]
    turn,       \* where the helper's loop is: start, top, polled
    helper,     \* the fields of Session that matter here
    commands,   \* the pipe from the owner to the helper
    owner,      \* [granted, drawing, told, dirty, shown, draws, extras, frames]
    meant,      \* the events of everything typed so far
    heard       \* the events the owner received

vars == <<person, terminal, turn, helper, commands, owner, meant, heard>>

-----------------------------------------------------------------------------
(* A step of the helper works on a world: itself, the terminal and the     *)
(* records it sends to the owner.                                          *)

World == [h |-> helper, t |-> terminal, out |-> <<>>]

Send(w, record) == [w EXCEPT !.out = Append(@, record)]
End(w, reason) == [w EXCEPT !.h.ended = reason]
Ready(w) == Send(w, [kind |-> "ready", size |-> w.h.dimensions])

\* An input record uses up the credit; an event that cannot be encoded is a protocol error.
SendPayload(w, payload) ==
    IF payload = None THEN End(w, "protocol")
    ELSE Send([w EXCEPT !.h.credit = FALSE], [kind |-> "input", payload |-> payload[1]])
SendEvent(w, event) == SendPayload(w, Encode(event))

\* read_fd of at most `room` bytes; none left after a hang-up is the end of the file.
Take(w, room) == SubSeq(w.t.queue, 1, IF Len(w.t.queue) < room THEN Len(w.t.queue) ELSE room)
Taken(w, room) == [w EXCEPT !.t.queue = SubSeq(@, Len(Take(w, room)) + 1, Len(@))]
AtEof(w) == w.t.queue = <<>> /\ w.t.hungUp

\* Mutant: a new size is remembered and not told.
NoticedSilently(w, size) == [w EXCEPT !.h.dimensions = size]

Noticed(w, size) ==
    IF size = w.h.dimensions THEN w
    ELSE [w EXCEPT !.h.dimensions = size, !.h.resize = <<size>>]

\* activate: what is queued now was typed before the terminal was raw; then
\* the probe, unless it cannot be written.
Activated(w, probes) ==
    LET active == [w EXCEPT !.h.cooked = Len(w.t.queue), !.h.dimensions = w.t.size, !.h.previous = <<>>]
    IN IF probes THEN [active EXCEPT !.h.probe = "waiting", !.t.replies = w.t.answers] ELSE Ready(active)

\* probe_step: typeahead is kept in order, the answers are taken out of it.
Probed(w, read, found, full) ==
    LET seen == w.h.kittySeen \/ found.kitty
        over == found.attributes \/ w.h.probe = "late" \/ full \/ AtEof(w)
        next == [w EXCEPT !.t.queue = SubSeq(@, Len(read) + 1, Len(@)), !.h.buffer = found.bytes,
                          !.h.cooked = StillCooked(read, @), !.h.kittySeen = seen]
    IN IF over THEN Ready([next EXCEPT !.h.probe = "no", !.t.mode = IF seen THEN "kitty" ELSE @]) ELSE next
ProbeRead(w, read) ==
    Probed(w, read, TakeProbeReplies(w.h.buffer \o TypeaheadEnter(read, w.h.cooked)), Len(w.h.buffer) = BufferSize)
ProbeStep(w) == ProbeRead(w, Take(w, BufferSize - Len(w.h.buffer)))

\* Mutant: arrows are taken for the wheel in the middle of a paste as well.
AdmitInputAnywhere(w, read) ==
    LET bytes == TypeaheadEnter(read, w.h.cooked)
        burst == IF w.h.mouse THEN None ELSE ArrowBurst(bytes)
    IN [w EXCEPT !.h.cooked = StillCooked(read, @), !.h.buffer = IF burst = None THEN bytes ELSE <<>>, !.h.scroll = burst]

\* admit_input: the bytes of one read, a burst of arrows taken for the wheel.
AdmitInput(w, read) ==
    LET bytes == TypeaheadEnter(read, w.h.cooked)
        burst == IF IsGround(w.h.parser) /\ ~w.h.mouse THEN ArrowBurst(bytes) ELSE None
        next == [w EXCEPT !.h.cooked = StillCooked(read, @)]
    IN IF burst = None THEN [next EXCEPT !.h.buffer = bytes]
       ELSE [next EXCEPT !.h.buffer = <<>>, !.h.scroll = burst]

\* input: with a credit, the resize first, then the wheel, then what the parser finds.
Consumed(w, step) ==
    [w EXCEPT !.h.parser = step.parser, !.h.buffer = SubSeq(@, step.consumed + 1, Len(@)),
              !.h.escape = IF PendingEscape(step.parser) THEN "young" ELSE "none"]
Parsed(w, step) ==
    IF step.event = None THEN Consumed(w, step) ELSE SendEvent(Consumed(w, step), step.event[1])
Input(w) ==
    IF ~w.h.credit THEN w
    ELSE IF w.h.resize # <<>>
    THEN Send([w EXCEPT !.h.resize = <<>>, !.h.credit = FALSE], [kind |-> "resize", size |-> w.h.resize[1]])
    ELSE IF w.h.scroll # None THEN SendEvent([w EXCEPT !.h.scroll = None], w.h.scroll[1])
    ELSE IF w.h.buffer = <<>> THEN w
    ELSE Parsed(w, Advance(w.h.parser, w.h.buffer))

\* command Draw: a frame of another size than the terminal's is skipped, and
\* the new size is told with the next credit.
Drawn(w, frame) ==
    LET current == Noticed(w, w.t.size)
    IN IF ~Decodes(frame) THEN End(w, "protocol")
       ELSE IF <<frame.columns, frame.rows>> # w.t.size
       THEN Send([current EXCEPT !.h.resize = <<w.t.size>>, !.h.previous = <<>>], [kind |-> "skipped"])
       ELSE Send([current EXCEPT !.t.screen = After(@, Paint(w.h.previous, frame)), !.h.previous = <<frame>>],
                 [kind |-> "painted"])

\* command: a redraw and a notification or copy whose write failed both forget the screen.
Commanded(w, command) ==
    CASE command.kind = "credit" -> IF w.h.credit THEN End(w, "protocol") ELSE [w EXCEPT !.h.credit = TRUE]
      [] command.kind = "draw" -> Drawn(w, command.frame)
      [] command.kind \in {"redraw", "failed_write"} -> [w EXCEPT !.h.previous = <<>>]

\* What the input buffer is given of the terminal's queue.
Admitted(w) == AdmitInput(Taken(w, BufferSize), Take(w, BufferSize))
CanRead(w) == w.h.ended = "no" /\ w.h.credit /\ w.h.buffer = <<>>

\* Mutant: a hang-up ends the session before what came with it is read.
ReadTerminalHungUp(w) ==
    IF ~CanRead(w) \/ "terminal" \notin w.h.seen THEN w
    ELSE IF w.t.hungUp THEN End(w, "closed")
    ELSE Admitted(w)

\* The read of the terminal that poll announced.
ReadTerminal(w) ==
    IF ~CanRead(w) \/ "terminal" \notin w.h.seen THEN w
    ELSE IF AtEof(w)
    THEN End(IF Finish(w.h.parser) = None THEN w ELSE SendEvent(w, Finish(w.h.parser)[1]), "closed")
    ELSE IF w.t.queue = <<>> THEN w
    ELSE Admitted(w)

\* An Escape is old enough: it is one only if nothing is there to follow it.
Expired(w, expired) == SendEvent([w EXCEPT !.h.parser = expired.parser, !.h.escape = "none"], expired.event[1])

EscapeTimeout(w) ==
    IF ~CanRead(w) \/ ~w.h.reads \/ w.h.escape # "old" THEN w
    ELSE IF AtEof(w) THEN End(w, "closed")
    ELSE IF w.t.queue # <<>> THEN Admitted(w)
    ELSE Expired(w, ExpireEscape(w.h.parser))

-----------------------------------------------------------------------------
(* What the owner makes of a record (external to the helper: owner.ex and  *)
(* the runtime, as far as the helper can tell).                            *)

Hear(o, record) ==
    CASE record.kind = "ready" -> [o EXCEPT !.told = <<record.size>>, !.dirty = TRUE]
      [] record.kind = "input" -> [o EXCEPT !.granted = FALSE]
      [] record.kind = "resize" -> [o EXCEPT !.granted = FALSE, !.dirty = @ \/ o.told # <<record.size>>, !.told = <<record.size>>]
      [] record.kind = "skipped" -> [o EXCEPT !.drawing = <<>>, !.dirty = TRUE]
      [] record.kind = "painted" -> [o EXCEPT !.drawing = <<>>, !.shown = o.drawing]

\* What an input record says to the runtime: nothing, if it is refused.
Said(record) == IF record.kind = "input" THEN Decode(record.payload) ELSE <<>>

\* The helper's loop: activation, then its two halves in turn.
NextTurn == IF turn = "top" THEN "polled" ELSE "top"

\* The world after a step of the helper becomes the state.
Become(w) ==
    /\ helper' = w.h
    /\ terminal' = w.t
    /\ owner' = FoldLeft(Hear, owner, w.out)
    /\ heard' = FoldLeft(LAMBDA said, record : said \o Said(record), heard, w.out)
    /\ turn' = NextTurn
    /\ UNCHANGED <<person, meant>>

-----------------------------------------------------------------------------
(* The helper's loop.                                                      *)

Init ==
    \E s \in Scenarios :
        /\ person = [typing |-> s.typed, sending |-> <<>>, ahead |-> s.ahead]
        /\ terminal = [queue |-> <<>>, mode |-> "legacy", answers |-> s.answers, replies |-> <<>>, size |-> s.sizes[1],
                       sizes |-> Tail(s.sizes), screen |-> UnknownScreen(s.sizes[1][1], s.sizes[1][2]),
                       hungUp |-> FALSE, closes |-> s.closes]
        /\ helper = [parser |-> NewParser, buffer |-> <<>>, cooked |-> 0, escape |-> "none",
                     scroll |-> None, resize |-> <<>>, dimensions |-> <<0, 0>>, probe |-> "no", kittySeen |-> FALSE,
                     credit |-> FALSE, previous |-> <<>>, mouse |-> s.mouse, sizeDue |-> FALSE, reads |-> FALSE, seen |-> {}, ended |-> "no"]
        /\ turn = "start"
        /\ commands = <<>>
        /\ owner = [granted |-> FALSE, drawing |-> <<>>, told |-> <<>>, dirty |-> FALSE, shown |-> <<>>,
                    draws |-> s.draws, extras |-> s.extras, frames |-> s.frames]
        /\ meant = <<>>
        /\ heard = <<>>

Running == helper.ended = "no"

\* The owner's Init made the guard set the modes.
Activate ==
    /\ turn = "start"
    /\ person.ahead = 0
    /\ \E probes \in BOOLEAN : Become(Activated(World, probes))
    /\ UNCHANGED commands

\* The upper half of the loop: the size every 100 ms, the probe or the input,
\* and poll, which looks at the terminal only if there is a credit to use.
Sized(w) == IF w.h.sizeDue THEN [Noticed(w, w.t.size) EXCEPT !.h.sizeDue = FALSE] ELSE w
Upper(w) == IF w.h.probe # "no" THEN ProbeStep(w) ELSE Input(w)
Polled(w) ==
    LET reads == w.h.credit /\ w.h.buffer = <<>>
    IN [w EXCEPT !.h.reads = reads,
                 !.h.seen = {side \in {"command", "terminal"} :
                                IF side = "command" THEN commands # <<>> ELSE reads /\ (w.t.queue # <<>> \/ w.t.hungUp)}]

Top ==
    /\ Running /\ turn = "top"
    /\ Become(Polled(Upper(Sized(World))))
    /\ UNCHANGED commands

\* The lower half: a command of the owner first, then what the terminal sent,
\* then an Escape that is old enough.
Obeyed(w) == IF "command" \in w.h.seen THEN Commanded(w, Head(commands)) ELSE w

Serve ==
    /\ Running /\ turn = "polled"
    /\ Become([EscapeTimeout(ReadTerminal(Obeyed(World))) EXCEPT !.h.reads = FALSE, !.h.seen = {}])
    /\ commands' = IF "command" \in helper.seen THEN Tail(commands) ELSE commands

\* 40 ms pass, and no byte of a gesture is held up for so long; 500 ms do.
Age ==
    /\ Running /\ helper.escape = "young" /\ person.sending = <<>>
    /\ helper' = [helper EXCEPT !.escape = "old"]
    /\ UNCHANGED <<turn, person, terminal, commands, owner, meant, heard>>

ProbeWait ==
    /\ Running /\ helper.probe = "waiting"
    /\ helper' = [helper EXCEPT !.probe = "late"]
    /\ UNCHANGED <<turn, person, terminal, commands, owner, meant, heard>>

\* Every 100 ms the size is looked at; that matters only when it changed.
SizeTimer ==
    /\ Running /\ turn # "start" /\ terminal.size # helper.dimensions /\ ~helper.sizeDue
    /\ helper' = [helper EXCEPT !.sizeDue = TRUE]
    /\ UNCHANGED <<turn, person, terminal, commands, owner, meant, heard>>

-----------------------------------------------------------------------------
(* The person and the terminal (external).                                 *)

\* Before the helper took over, the line discipline turned CR into LF.
TypeAhead ==
    /\ person.ahead > 0
    /\ LET gesture == Head(person.typing) IN
        /\ terminal' = [terminal EXCEPT !.queue = @ \o [i \in DOMAIN gesture.legacy |->
                            IF gesture.legacy[i] = 13 THEN 10 ELSE gesture.legacy[i]]]
        /\ meant' = meant \o gesture.means
    /\ person' = [person EXCEPT !.typing = Tail(@), !.ahead = @ - 1]
    /\ UNCHANGED <<turn, helper, commands, owner, heard>>

Type ==
    /\ person.ahead = 0 /\ turn # "start"
    /\ person.typing # <<>> /\ person.sending = <<>>
    /\ LET gesture == Head(person.typing) IN
        /\ person' = [person EXCEPT !.typing = Tail(@), !.sending = IF terminal.mode = "kitty" THEN gesture.kitty ELSE gesture.legacy]
        /\ meant' = meant \o gesture.means
    /\ UNCHANGED <<turn, terminal, helper, commands, owner, heard>>

\* An answer to the probe never splits a gesture.
Answer ==
    /\ terminal.replies # <<>> /\ person.sending = <<>> /\ ~terminal.hungUp
    /\ person' = [person EXCEPT !.sending = Head(terminal.replies)]
    /\ terminal' = [terminal EXCEPT !.replies = Tail(@)]
    /\ UNCHANGED <<turn, helper, commands, owner, meant, heard>>

Arrive ==
    /\ person.sending # <<>>
    /\ terminal' = [terminal EXCEPT !.queue = Append(@, Head(person.sending))]
    /\ person' = [person EXCEPT !.sending = Tail(@)]
    /\ UNCHANGED <<turn, helper, commands, owner, meant, heard>>

Resize ==
    /\ terminal.sizes # <<>>
    /\ LET size == Head(terminal.sizes) IN
        terminal' = [terminal EXCEPT !.size = size, !.sizes = Tail(@), !.screen = UnknownScreen(size[1], size[2])]
    /\ UNCHANGED <<turn, person, helper, commands, owner, meant, heard>>

HangUp ==
    /\ terminal.closes /\ ~terminal.hungUp /\ turn # "start"
    /\ person.typing = <<>> /\ person.sending = <<>> /\ terminal.replies = <<>>
    /\ terminal' = [terminal EXCEPT !.hungUp = TRUE]
    /\ UNCHANGED <<turn, person, helper, commands, owner, meant, heard>>

-----------------------------------------------------------------------------
(* The owner (external: TerminalPort models it in full).                   *)

Command1(command) == commands' = Append(commands, command)

Grant ==
    /\ Running /\ owner.told # <<>> /\ ~owner.granted
    /\ Command1([kind |-> "credit"])
    /\ owner' = [owner EXCEPT !.granted = TRUE]
    /\ UNCHANGED <<turn, person, terminal, helper, meant, heard>>

\* A frame for the size it was told, because it is due or because something changed.
Draw ==
    /\ Running /\ owner.told # <<>> /\ owner.drawing = <<>>
    /\ owner.dirty \/ owner.draws > 0
    /\ \E frame \in owner.frames :
        /\ <<frame.columns, frame.rows>> = owner.told[1]
        /\ Command1([kind |-> "draw", frame |-> frame])
        /\ owner' = [owner EXCEPT !.drawing = <<frame>>, !.dirty = FALSE, !.draws = IF owner.dirty THEN @ ELSE @ - 1]
    /\ UNCHANGED <<turn, person, terminal, helper, meant, heard>>

\* Ctrl-L, followed by a frame, and a notification or copy that cannot be written whole.
Extra ==
    /\ Running /\ owner.told # <<>> /\ owner.extras # {}
    /\ \E kind \in owner.extras :
        /\ Command1([kind |-> kind])
        /\ owner' = [owner EXCEPT !.extras = @ \ {kind}, !.dirty = @ \/ kind = "redraw"]
    /\ UNCHANGED <<turn, person, terminal, helper, meant, heard>>

Done ==
    /\ ~Running
    /\ UNCHANGED vars

Next ==
    \/ Activate \/ Top \/ Serve \/ Age \/ ProbeWait \/ SizeTimer
    \/ TypeAhead \/ Type \/ Answer \/ Arrive \/ Resize \/ HangUp
    \/ Grant \/ Draw \/ Extra \/ Done

Spec == Init /\ [][Next]_vars

\* A turn of the helper's loop: Activate, Top or Serve, which all change it.
Turn == Running /\ (turn = "start" => person.ahead = 0) /\ turn' = NextTurn

\* The helper's loop never blocks for long, timers fire, the terminal passes
\* on what it has, and the owner grants a credit and draws what is due.
Fairness ==
    /\ WF_turn(Turn)
    /\ WF_vars(Age \/ ProbeWait \/ SizeTimer)
    /\ WF_vars(TypeAhead \/ Type \/ Arrive)
    /\ WF_vars(Grant) /\ WF_vars(Draw /\ owner.dirty)

FairSpec == Spec /\ Fairness

-----------------------------------------------------------------------------
(* Properties.                                                             *)

\* The same meaning in one form: a scroll is that many arrows, and a key with
\* Alt is an Escape followed by the key, as the terminal sends them.
Arrow(up) == Press(IF up THEN "up" ELSE "down")
Normal(event) ==
    CASE event.kind = "scroll" -> [i \in 1..event.count |-> Arrow(event.up)]
      [] event.kind \in {"key", "text"} ->
            IF "alt" \in event.mods THEN <<Press("escape"), [event EXCEPT !.mods = @ \ {"alt"}]>> ELSE <<event>>
      [] OTHER -> <<event>>
NormalForm(events) == FoldLeft(LAMBDA n, e : n \o Normal(e), <<>>, events)

\* The same events as runs: one entry for each, but one for a row of one arrow.
Extended(runs, event) ==
    IF event \in {Arrow(TRUE), Arrow(FALSE)} /\ runs # <<>> /\ Last(runs).event = event
    THEN Front(runs) \o <<[event |-> event, count |-> Last(runs).count + 1]>>
    ELSE Append(runs, [event |-> event, count |-> 1])
Runs(events) == FoldLeft(Extended, <<>>, NormalForm(events))

\* What is heard of a run: all of it, but of more than MaxScroll arrows at
\* least that many, for a read of nothing else counts no more (input.rs:751).
Passed(heardRun, run) == heardRun.count <= run.count /\ heardRun.count >= IF run.count < MaxScroll THEN run.count ELSE MaxScroll

\* However the bytes of a gesture are split over reads, credits and the
\* Escape timer, and whatever the probe's answers, a resize or a burst of
\* arrows put between them (session.rs:420, input.rs:235): the owner hears
\* what was typed, in order, nothing twice and nothing else.  Only a run of
\* more than MaxScroll equal arrows may be shortened, and no further.
HeardAsTyped ==
    LET said == Runs(heard)
        typed == Runs(meant)
    IN  /\ Len(said) <= Len(typed)
        /\ \A i \in DOMAIN said :
              /\ said[i].event = typed[i].event /\ said[i].count <= typed[i].count
              /\ i < Len(said) => Passed(said[i], typed[i])

\* ... and all of it, in the end: no byte is left in the terminal, the input
\* buffer or the parser while the owner grants credits; nor when the terminal
\* hangs up, but for an Escape that was still waiting for its timer
\* (session.rs:449, session.rs:526).  The exception for a long run of arrows
\* is that of HeardAsTyped, and the helper ends with a protocol error only
\* when the owner sends a frame that it must refuse.
Heard(typed) == Len(Runs(heard)) = Len(typed) /\ \A i \in DOMAIN typed : Passed(Runs(heard)[i], typed[i])
EverythingHeard ==
    <>[](CASE helper.ended = "no" -> Heard(Runs(meant))
           [] helper.ended = "closed" ->
                \/ Heard(Runs(meant))
                \/ Last(NormalForm(meant)) = Press("escape") /\ Heard(Runs(Front(NormalForm(meant))))
           [] helper.ended = "protocol" -> \E frame \in owner.frames : ~Decodes(frame))

\* The helper keeps a bounded part of what is typed, whatever is pasted
\* (input.rs:1): a paste up to its limit with a begun terminator, or one
\* sequence up to its limit.
RetentionBounded ==
    RetainedBytes(helper.parser) <= IF helper.parser.state.at = "paste" THEN MaxPaste + 5 ELSE MaxSequence

\* When the frame that the painter takes for the one on the screen has the
\* terminal's size, the screen shows exactly that frame, although only its
\* differences to the frames before were written (output.rs:185).
ScreenShowsFrame ==
    helper.previous # <<>> =>
        LET frame == helper.previous[1] IN
        <<frame.columns, frame.rows>> = terminal.size => Shows(terminal.screen, frame)

\* After any resize the owner learns the size and the screen ends up showing
\* the last frame the owner drew (session.rs:289, session.rs:478).
ScreenCatchesUp ==
    <>[](~Running \/ owner.frames = {} \/ (owner.shown # <<>> /\ Shows(terminal.screen, owner.shown[1])))
=============================================================================
