# Verification of ncode (swarm-code-cli) in TLA+

This directory models the parts of ncode whose correctness depends on the order
in which processes, messages, timers and failures meet, and the algorithms of its
native helper whose result depends on how their input is cut up. The program is an Elixir
umbrella - a daemon that owns the database and the runs, a command-line program
that draws and sends commands, and a core library they share - with one native
Rust helper that holds the terminal in raw mode. Each component module below is
translated from its source; TLC checks it on small instances, and TLAPS proves
the invariants listed under "What is proved" for every value of the constants.

Contents: the inventory of the system, the modules, the runs, the findings, the
proofs, what is left out, the plan.

Paths are short: `run.ex` stands for
`src/apps/swarm_code_daemon/lib/swarm_code/daemon/runtime/run.ex`, and so on;
`PROJECT.json` ("map") gives the file and the lines of every definition.

## 1. Inventory of the system

### Parts, state, operations

| Part | Source | State it keeps | Operations |
|---|---|---|---|
| Live run | `daemon/runtime/run.ex` (+ `operation`, `tool` tasks) | status, pause/stop/finish flags, the model's open calls, steers, the current operation and its effect, the approval waited for, queued controls, the record being written (`pending`), waiters | `start`, `pause`, `continue`, `stop`, `steer`, `approve`, `await`, snapshot and acknowledge; task messages (event, result, `DOWN`), the op timer, the append task's answer |
| LLM gate | `domain/llm/gate.ex`, used by `domain/llm.ex` | per provider key: holders, queue, `waiting`; refs and monitors; an ETS cooldown table | `acquire`, `release`, `DOWN`, `cool_down`, restart by the supervisor |
| Terminal hand-over | `cli/ui/session_runtime.ex`, `ui/renderer/ratatui_port/owner.ex`, `native/terminal_port/src/session.rs` | runtime: phase, lifecycle, draw in flight, editor; owner: phase, pending and queued draw, credit, outbox, timer; helper: raw or not, last token, last frame, credit | draw, suspend, resume, redraw, mouse, shutdown; painted, input, ready, suspended, resume needed, restored, error; SIGTSTP and SIGCONT; soft and hard deadlines; a busy port |
| Native helper: input | `native/terminal_port/src/input.rs`, `protocol.rs`, `session.rs`, `ui/renderer/ratatui_port/wire.ex` | parser state and the paste it collects, input buffer, credit, age of an Escape, pending wheel and resize, probe and typeahead | read, parse, expire an Escape, finish; probe, take its replies, map cooked typeahead; encode and decode a record |
| Native helper: painter | `frame.rs`, `output.rs` | the frame on the screen, pen and cursor while painting | check and decode a frame, project, paint the differences, forget the screen |
| Native helper: two processes | `guard.rs`, `tty.rs`, `session.rs` | guard: active flags, kitty, escalation clock, last signal; writer: its plan, probe, title, signals; the terminal's modes | activate, mouse, kitty, restore, reap, escalate to SIGKILL; draw, suspend, resume, shut down; TSTP, CONT, TERM; a terminal that is stuck or gone |
| Prompt queue | `daemon/service/persisted_backend.ex`, `queue_state.ex`, `queue_recovery.ex`, `domain/conversations.ex` | the `queue` column of the conversation, per conversation an entry (generation, monitors, retries, timer, held prompt), the pause, the recovery journal | enqueue, drain (check, store held, pop, start, put back), stop, resume, edit, switch, take by another window, terminate and hand over, start and recover |
| Command ledger | `daemon/service/command_ledger.ex`, `command_dispatcher.ex` | one row per client command: request hash, processing or completed, response | admit, complete, replay, refuse as conflicting or unknown, prune |
| Service connection | `daemon/service/connection.ex`, `daemon/service.ex`, `live_backend.ex` | socket, watches, credits, requests in flight with deadlines | request, watch, unwatch, credit, reply, event, close |
| Rest of the persisted backend | `persisted_backend.ex`, `home_overview.ex`, `agent_status.ex`, `settings.ex` | jobs, watches, refresh timers, projections of rows | execute, job results, refresh, presence |
| Desktop run server | `domain/engine/run_server.ex`, `agent_server.ex`, `operation.ex`, `pending_interactions.ex`, `consensus.ex` | agents (live and queued), pauses, approvals and questions, run rows | start, spawn agent, pause, resume, stop, approve, answer, finish |
| Desktop queue drain | `domain/engine/queue_drain.ex` | a claim per conversation | request, drain, offer, hold - inert here: nothing sets `:engine_queue_drain` |
| Workflows | `domain/workflows/runner.ex`, `runner/watchdog.ex`, `host.ex` | steps, parked workflows, resume attempts | run step, park, resume, stop, supervise |
| Scheduler | `domain/scheduler.ex`, `scheduled.ex` | scheduled rows, claims, timers | tick, catch-up at boot, claim, fire, reconcile |
| Ownership of the database | `daemon/cross_app_lease.ex`, `foundation_gate.ex`, `boot.ex`, `shutdown.ex`, `service/desktop_watch.ex`, `repo_launcher.ex` | lease file and binding, open repository slots, gate phase | acquire, renew, release, open, close, take over, shut down |
| Backups and storage | `daemon/backup/gate.ex`, `domain/storage.ex`, `files/atomic_replace.ex` | snapshots, temporary files | back up, replace, restore |
| Commands and background processes | `run_command.ex`, `background_procs.ex`, `os_process.ex`, `hooks.ex`, `external_command.ex` | ports, output credits, process groups | start, read, time out, kill |
| Directory broker | `daemon/platform/directory_broker.ex`, `directory_helper.ex` | a helper process with open directories | open, read, rename through descriptors |
| Protocol clients | `domain/mcp/client.ex`, `domain/lsp/client.ex`, `domain/research/server.ex`, `domain/llm/http.ex` | requests in flight, server state | call, answer, restart, time out |
| Wire protocol core | `swarm_code_core` `protocol/*` | buffers of partial chunks and frames | encode, feed, reassemble |
| Client data source and reducers | `ui/data_source/daemon.ex`, `ui/reducer.ex`, `ui/effect_runner.ex` | requests in flight, watches, view model | request, reply, resync, reduce |
| Companion, release and plain sessions | `companion/*`, `release/*`, `plain/*` | launch and detach handshakes, exit paths | launch, attach, detach, one shot |

### How they interact

A person types into a session. The **session runtime** reduces the key to a
command and sends it through the **data source** over the **service connection**
to the daemon, where the **ledger** admits it once and the **persisted backend**
executes it. A prompt starts a turn (a **live run** or, for desktop databases, a
**run server**) or waits in the **prompt queue** behind a running one. The run
asks the model through the **LLM gate**, runs tools as tasks, and stores each
step with a canonical sink before it acts on it. What the daemon publishes goes
back as watched events; the runtime draws frames through the **owner** of the
port, which speaks a framed protocol with the **native helper**: a *guard*, which
keeps the terminal's modes and forks, and a *writer*, its child, which reads the
terminal, paints, and asks the guard over a socket for every change of modes.
Several windows
and an older desktop app may share one database: the **lease** decides who owns
it, and other windows edit the queue rows directly.

Calls are `GenServer.call` (the caller waits) or casts and plain messages;
shared state is the database, the ETS cooldown table and files; callbacks are
monitors (`DOWN`), timers, port messages and POSIX signals.

### What is hard, and what makes each part correct

| Part | Hard behaviour | Correct when |
|---|---|---|
| Live run | commands arrive while a record is being written; the op task, its timer and the sink finish in any order; the sink dies after it stored | nothing is acted on before it is stored; operations settle one after another, once; every call of the model gets one answer; every caller and every steer is accounted for; it never sits idle; a stop ends it |
| LLM gate | callers die at any point; grants, releases and `DOWN`s cross; the gate restarts under its callers; two writers race on a cooldown | the books agree; the limit holds; no slot is wasted or leaked; first come, first served; a queued caller is served or told; a cooldown is never shortened |
| Terminal hand-over | three processes with one lock-step protocol; a stale credit, draw or barrier in a channel; a busy port; a helper that stops, dies or is slow; an editor that wants the terminal | the editor has the terminal alone; the terminal is cooked at the end; nobody gets a message it does not expect; each draw is answered once; the screen comes back |
| Native helper: input | a gesture arrives split anywhere, in the middle of the probe's answers, with one credit per event and a timer that makes an Escape a key | the owner hears what was typed, in order, all of it; memory is bounded |
| Native helper: painter | only differences are written, and a glyph may be narrower or wider than assumed; writes fail, sizes change | the screen shows the frame the helper believes it shows |
| Native helper: two processes | either is signalled, stopped or killed at any step; a restoration is ten writes, each of which may time out | one of them writes at a time; who gets the terminal gets it clean; it is cooked at the end and the exit code says so; the helper ends |
| Prompt queue | the prompt is in memory while its start is tried; each transaction may find a busy database; other windows take and add; stops, kills, handlers that raise and stale timers | nothing is lost or started twice; order is kept; something always wakes the queue |
| Command ledger | lost answers and retries, a kill between effect and completion | a command takes effect at most once, and its answer is replayed |
| Connection, data source | late answers, reconnects, credits | one answer per request, no watch forgotten |
| Run server, workflows, scheduler | limits across pauses; a parked workflow resumed and stopped at once; due rows seen by two windows | the count of agents is right; no resume after a stop; a due row fires once |
| Ownership | the coordinator dies while connections are open | never two owners; the lease outlives every open slot |

`PROJECT.json` lists each of these dangers under "hazards" at the line where it
bites, with the properties that would catch it; those without a property say
which planned module is to cover them.

## 2. The modules

### LLMGate (with LLMGateProofs) and LLMCooldown

`keys`, `refs` are the gate's state map; `inbox` its mailbox; per caller `pc`,
`cref` (the ref it knows) and `mail`. `HandleAcquire` is `handle_call`,
`HandleLeave` both `release` and `DOWN`, `Drop`/`Admit` the functions of that
name. `Receive` is the client half (`do_acquire`, `await`), `EndStream` the
`after` clause of `LLM.gated`, `Die` a kill of the op task (its `DOWN`s are
delivered in any order), `GateRestart` a crash of the gate: its callers get
`DOWN`, the new process knows nothing. Refs are numbers in the order in which
they are made. `LLMCooldown` has the two ETS steps (`Lookup`, `Write`) of a
writer as separate actions, since the callers write the table themselves; a
`Write` is the one atomic compare-and-set the code relies on.

### RunLoop (with RunLoopProofs and RunLoopCallsProofs), RunJournal, MCRunLoop

`run` is the GenServer's state; each action is one whole handler followed by
`drive/1`, which goes on until a record waits for the sink or nothing can be
done. The closures that the code keeps in `pending.next` and in `controls` are
records that name the closure and carry what it captured. `worker` is the op
task with its outgoing messages, `log` what the sink committed. `SinkCommit` and
the answer that tells the run of it are separate, so that the run can be fenced
between them. Steers and calls are numbered; texts are left out.

`RunJournal` is the abstract specification: what a reader of the log may rely on
- operations follow one another as admitted, started, settled, completed, and
the world is touched (`doing`) only between start and settlement. RunLoop
implements it with `journal` the types and operations of the log and `doing` the
operation of the working task; the property `WritesAhead` is that refinement.

### TerminalPort (with TerminalPortProofs), MCTerminalPort

`rt`, `owner` and `native` are the three processes, each with its outgoing FIFO
channel (`rt.out`, `owner.wire`, `native.out`, `owner.told`). Every control, draw
and record of the owner is an action; a busy port may refuse any command, and
what it refuses goes to the outbox of the code. A scenario (`Scenarios`) is a
record: which stimuli may come and how many, how many draws, inputs and refusals,
and whether the helper may be later than a hard deadline (a stopped helper
always is). Modelling choices: a call of the owner into the runtime is one step
taken when the runtime has read what came before; `painted` and `skipped` are one
record; `DrawTimeout` is enabled only for a draw that nobody is going to answer,
because the runtime's deadline is far longer than the owner's soft one
(owner.ex:15); `native.token` stands for the helper's check that tokens grow;
`Done` is the end of the session. The helper is one process here; what is inside
it follows.

### InputParser, PortWire

InputParser is `input.rs`: `Advance(parser, bytes)` consumes bytes up to the next
event, one `ReadByte` at a time, with the states of the code (ground, escape,
sequence, control string, paste, UTF-8) as records; the tables of keys, the
decoding of legacy, CSI-u and mouse sequences, the typeahead and the replies to
the probe are operators of the code's names. A byte is a number, the text of a
scalar its code point. PortWire is the input half of `protocol.rs` and `wire.ex`,
each with the tables it has of its own, so that a key whose two numbers disagree
would be heard as another one. Both are pure; TerminalSession runs them.

### FramePainter

`Decodes` is the checks of `frame.rs`, `Project` and `Paint` the code of
`output.rs`, with the commands it would write as values. A frame is a sequence of
glyphs; a symbol is ASCII (a known width) or a cluster. The other half is a model
of a terminal (`Obey`): what printing a cluster over part of a wide glyph, an
erase, a move or a pen does to cells - and a cluster may take fewer columns than
the helper assumes, which is what `lead_width`, `exact` and `span` are for. The
terminal never draws a cluster wider than the frame declares it: no frame of the
run does, and a glyph that did would spoil its neighbours until the next redraw.

### TerminalSession, MCTerminalSession

The loop of `session.rs` between activation and the end: each action is one turn
of it up to its next `poll` (`Top` and `Serve`), built from `ProbeStep`, `Input`,
`AdmitInput`, `ReadTerminal`, `EscapeTimeout` and `Commanded`, which pass on a
*world* (helper, terminal, records sent). A person types *gestures* - the bytes
they send with legacy or kitty keys and what they mean - the terminal delivers
any number of the bytes at a time, answers the probe, is resized or hangs up. The
owner grants a credit for each input, and draws. `meant` and `heard` are history,
compared as *runs*: a row of one arrow is one entry with a count. `arrow_burst`
counts at most `MAX_SCROLL_COUNT` (32) arrows of one read and `admit_input` drops the
rest of that read (input.rs:771, the test at session.rs:786 asserts it), so a run of
more than `MaxScroll` arrows may be heard shortened, never below `MaxScroll`;
everything else is heard exactly.
Assumed: the guard sets kitty's mode when asked; an alternate screen, so that
arrows may be the wheel; an Escape ages only when no byte of its gesture is still
to come (a terminal sends a sequence at once); a notification or copy whose write
fails leaves the cells as they were (what it loses is the helper's memory of them);
a resize leads to a size not seen before; an Escape right before bytes that are not UTF-8 is left out, since Alt
then belongs to what is rejected; bytes typed between raw mode and the count of
the typeahead are left out.

### TerminalGuard (with TerminalGuardProofs and TerminalModesProofs), MCTerminalGuard

The two processes and the modes of the terminal. `guard.script` is what is left
of the operation of `tty.rs` being done, one write or termios call per step, each
of which fails as the terminal is stuck or gone; `writer.plan` is what the writer
does before it comes back to its loop; `request` and `answer` are the socket.
`Signalled`, `Continued` and `Terminated` are the signal handlers and what the
kernel does to a stopped process; `stopping` is the clock after which the guard
kills the writer. The owner is reduced to the phases that say who has the
terminal. A scenario is a record: the flags, how many commands, stops and
hiccups, and which of termination, death of the writer, loss of the terminal and
closing of the pipe may happen. A mode's write is atomic, a frame is not
(`WriterWritesPart`); a signal to the group reaches both processes at once, a
single `kill` only the guard.

### PromptQueue (with PromptQueueProofs)

`stored` is the queue column, `journal` the recovery file, `deleted` the row's
end. `at` names the next step of the backend's handler: each transaction and
each file write is a step of its own, so that other windows, the turn and a kill
come in between. `hand` is the popped prompt, `todo` what is being stored again,
`again` the held prompts that the present handler has stored already, `entry` the entry of QueueState, `inbox` the backend's messages (generation and
turn numbers tell stale ones apart). `starts`, `settled` and `forgotten` are
history: how often a prompt was started, whether a person or another window
removed it or a toast refused it, and whether it was only in the memory of a
backend that ended. `lifted` marks a pause that was lifted without waking the queue
(finding 3). The backend ends in three ways. `Terminate` is `terminate/2` between
two handlers: it hands over what is held now. `Raise` is a handler in which a query
or a write raises (a `get!` of `refresh_queue`, a driver error that is not
`busy`): OTP runs `terminate/2` with the state *before* the handler, so what was
held then is handed over, even if it was stored again and started since, and a
prompt that was popped since is not known to it; `safe_start` rescues what a start
raises, so `start` is no such step. `Kill` is an exit without `terminate/2`, and may
or may not take the turn with it (`TurnEnds` may follow). `repeated` collects the
prompts that a kill in the middle of a hand-over, or a handler that raised, hands
over although the database has or had them again.

## 3. The runs

| Run | Instance | What it asks and shows |
|---|---|---|
| gate | 3 callers, 2 keys, limit 1, 3 refs, 1 restart | the books agree, the slots are all used and none more, no slot or ref leaks, first come first served, and under fairness a queued caller is served |
| cooldown | 3 writers, 3 times, 1 loss of the table | no cooldown is shortened, none that returned is forgotten, every writer finishes |
| run_loop | 2 clients, 3 approval options, turns of 0-2 calls that read, write or are malformed, 2 steps, 2 commands of every kind | the run is right under every command at every point |
| run_loop_events | 1 event, timeouts, stop/pause/continue, a sink that fails, fair | the log has no gap, RunJournal is implemented, a stop ends the run and every command is answered |
| terminal_port | 11 scenarios: an edit, a stop by the shell or a mouse preference, with redraws, death of the helper, 2 refusals and all deadlines; an edit that crosses a stop; fair | hand-over, lock-step, draws tracked and answered once, the screen returns, a closing session ends |
| terminal_port_settings | an edit of a setting, 2 draws | finding 1 |
| terminal_port_mouse | an edit and a mouse preference | finding 2 |
| session | 62 pairs of short gestures, 7 with pastes, long sequences or the wheel, 4 with more arrows than a burst counts, 9 with the probe, 2 hang-ups, frames of 4x1 and 3x2 cells, resizes; buffer of 16, paste limit 6, sequence limit 8, 4 arrows in a burst | what is typed is what is heard and all of it, but for arrows beyond the cap of a burst; what is drawn is what is shown; memory is bounded |
| guard | 12 scenarios that combine two or three of commands, stops, hiccups, terminate, die, vanish, close | one process writes, a clean hand-back, an exit code that tells the truth, the helper ends |
| guard_continue | one stop and its continue, fair | finding 4 |
| queue | 2 prompts (one a command), 1 retry, 3 faults, 1 direct send, 1 compaction, 2 ends of the backend (a stop, a kill, a handler that raises) | nothing lost, order kept, none twice, with the exceptions `InLine` and `NothingLost` name; the queue always armed |
| queue_turn_end | 1 prompt, 2 sends | finding 3 |

Why these bounds are enough to meet the interesting cases. Gate: with one slot
and three callers somebody waits behind a waiter, which overtaking, leaks and
the hand-over of a slot need; a third ref lets a caller come back. Cooldown: two
writers race, the third raises the row between them. Run loop: two commands meet
in every order before, during and after any record; two calls in a turn let one
fail while the other is open; the second step is where steers and results must
arrive. Terminal: two stimuli cross (an edit with a death, a stop with a redraw);
two refusals block first a control and then what follows it. Session: two
gestures suffice for one to be taken for part of the other, since the parser
returns to its ground state between them, and the limits are small so that a
paste, a sequence and a burst of arrows exceed them (a read of 16 bytes holds five
arrows, a burst counts four); frames share rows in which a wide, a narrow and
an ASCII glyph overlap in every way that a row of four cells admits. Guard: each
script is met by a failure at each of its writes, each step of the writer by a
signal, and pairs of outside events cover the retry of a failed restoration.
Queue: three faults are the longest chain the code distinguishes (start,
put-back, store of the held prompt), and two ends allow a kill during the
recovery from the first, or of the hand-over that a handler that raised began. Bounds on counters (`MaxRefs`, `MaxCrashes`, `MaxUntil`,
`MaxRestarts`, `MaxEvents`, `MaxCommands`, `MaxSends`, `MaxChains`, `MaxFaults`,
`MaxStops`, `MaxInbox` and the numbers in the scenarios) limit how often the
environment acts, never what a handler does; `MaxControls`, `MaxWaiters`,
`MaxSteps`, `MaxRetries`, `MaxPaste`, `MaxSequence`, `MaxScroll`, `MaxColumns`,
`MaxRows` and `BufferSize` are the code's own limits, most with small values.
Deadlock is not checked where the system may rest: all callers idle, a run over,
a queue empty; elsewhere (terminal_port, session, guard) it is.

Fairness. The BEAM schedules every process that has messages and fires every
timer: the handlers, the op task's answers to `cancel` and exit signals, the
sink's commit (it answers within its deadline or the run is fenced) and the
client halves are weakly fair. A person, the shell, a death, a fault, a restart
of the gate and a command are never fair. A provider stream ends since it has a
call clock. In TerminalPort the helper is fair unless it is stopped, and nothing
assumes that SIGCONT comes. In TerminalSession the loop, its timers, the
terminal's delivery of what was typed and the owner's credits are fair: the owner
grants the next credit when it has handed the input on. In TerminalGuard both
processes and the guard's clock are fair; a stopped writer takes no step.

Each property has a mutant in `PROJECT.json`: an operator of the same module,
marked `Mutant:`, that changes one handler the way a plausible slip would, and
with which TLC finds that property violated. Mutants are not part of any
specification.

## 4. Findings

1. **A draw can get lost when a setting is edited externally** (`DrawTracked`).
   reducer/settings/ops.ex:144 asks for the editor without setting the
   lifecycle to `:suspend_requested`, as reducer.ex:1137 does for the draft. A
   frame sent while the owner is `:suspending` is dropped (owner.ex:180) and
   never answered; the runtime's draw deadline then closes the session.
   owner.ex:15 says every request is still answered.
2. **A mouse mode that changes during a resume ends the session** (`InStep`).
   owner.ex:300 says the flags change only when the port took the command, so
   that the `ready` of a later resume agrees. The `ready` of an earlier resume
   that is still to come carries the old flags, and `true = bits == expected`
   fails (415).
3. **A turn that ends does not always drain the queue** (`TurnEndDrains`).
   The contract says "a turn that ends by itself (done, failed) still drains"
   (00_contract.md:753) and that a user-started turn lifts the pause
   (notes/C.md:61). A stop pauses the queue and drops its monitor; the next
   direct send lifts the pause (persisted_backend.ex:1950) but activates
   nothing: when that turn ends the queued prompt waits, unpaused, until the
   next enqueue, resume or switch.
4. **A continue that comes early is lost** (`ContinueHeard`). The writer takes
   the SIGTSTP, restores the terminal and then stops itself with
   `raise(SIGSTOP)` (session.rs:461). A SIGCONT that the guard passes on in
   between resumes a process that runs anyway; the writer then stops and nothing
   resumes it. terminal-port-wire-v1.md:131 says that on CONT it sends
   `ResumeNeeded`.

Observations, which no run states:

- A pause or continue that is queued behind the last record of a run that would
  complete keeps the run going: `advance/1` asks the model once more with
  nothing new to say.
- A SIGTSTP that crosses a suspend of the owner ends the session: the helper
  refuses the suspend that waits behind the barrier, or its `resume_needed`
  finds the owner in `:suspending` (owner.ex:380 and 529, session.rs:324).
  terminal-port-wire-v1.md:130-135 describes the barrier for an owner that
  draws and says nothing of one that suspends. The run terminal_port has an
  editor and a stop together in one scenario of `OneAtATime`, where the session
  may end but its helper must be gone.
- A restarted gate forgets running streams: `init/1` (gate.ex:117) starts empty
  while op tasks outlive the gate under a `one_for_one` supervisor, so the new
  process lets in as many again. gate.ex:3 bounds the streams in flight and says
  nothing of a restart; what holds is the limit per gate process
  (`StreamsBounded`).
- `restore` takes the `kitty` flag before its first write (tty.rs:179), so the
  retry of a restoration whose first write timed out does not pop kitty's keys
  although tty.rs:141 says that every restoration does. The exit code is a failure
  then, as `ExitAsFound` asks.
- The push of kitty's keys at the probe may fail without ending the session, but
  the guard counts it as a failure and starts its second (guard.rs:178): the
  writer is killed. The guard run has it among its scenarios with two hiccups.
- The title is not restored after a termination: the writer's own writes fail at
  once when it terminates. `HandedBack` and `ExitAsFound` except the title.
- `suspend` keeps the parser's state and a pending wheel; a resume may complete a
  sequence begun before. Alt+], Alt+P, Alt+X, Alt+_ and Alt+^ start a control
  string, which has no timer. An Escape read again at its timeout together with
  the end of the file is dropped (session.rs:552; `EverythingHeard` excepts it).
- A size that changes there and back between two frames goes unnoticed, and what
  the terminal reflowed stays until the next redraw. A frame cut off by a
  termination leaves the synchronized update open.
- A probe that a SIGTSTP suspends is not repeated. A TSTP that follows a CONT
  before either is taken replaces it, as the handlers keep only the last.
- A stop pauses only if prompts are stored: a held one starts as soon as the
  stopped turn is gone (persisted_backend.ex:2397). An edit that empties the
  queue lifts the pause without waking a held prompt. The pause does not outlive
  the backend. A leftover journal is handed over only at the next start.
- A prompt that only a killed backend had in memory is forgotten, and a kill
  inside a hand-over repeats a prompt; both are inherent in the design (write
  ahead at `terminate`, not before) and the properties name them.
- A handler that raises may start a held prompt twice. `put_back_held` stores it
  (persisted_backend.ex:2234), the drain pops and starts it (2252, 2253), then
  `refresh_queue` raises in `Conversations.get!` (2256, 4462; nothing rescues a
  database that is busy or fails there): `terminate/2` (979-981) gets
  the state from before the handler, which still holds the prompt, journals it and
  stores it again; the next start drains it once more. `repeated` names these
  prompts, and the model shows that no other prompt starts twice.
- A put-back that raises loses the popped prompt: `requeue_head` (2260) turns a busy
  database into an error, but not every failure, and the state that `terminate/2`
  sees does not have it. The comment above it says "A prompt is never lost"
  (2258). `forgotten` names it.

## 5. What is proved

TLAPS checks these for any number of callers, keys, writers, clients, commands,
calls, prompts, faults and restarts, and any scenario of the guard and of the
terminal. They rest on the ASSUMEs of the modules alone (constants are naturals, a
limit is positive, commands are prompts, a scenario has its fields), which TLC
evaluates on every run.

| Theorem | Says |
|---|---|
| `GateInvariant` | types, books, limit and work conservation are inductive together |
| `GateTypes`, `GateBookkeeping`, `GateSlotsUsed` | the run's invariants of those names, always |
| `GateConversation` | what the callers and the gate have said to each other agrees with what each of them knows |
| `GateFirstServed` | `NoOvertaking`: no step grants a slot past somebody who waits longer |
| `GateStreamsBounded`, `GateNoLeak` | no more streams than the limit per gate process; no slot or ref of a caller that is gone without a message on its way that frees it |
| `CooldownSticks`, `CooldownNeverShortened` | a cooldown that returned holds; no step shortens one in a table |
| `RunInvariant` | the run, its task and the log agree: the stage of the newest operation, what may be waiting, what is stored |
| `RunLogMatches`, `RunWriteAhead`, `RunNeverIdle` | the invariants of those names: the log has no gap and the run knows what is stored; a task works only between its stored start and its settlement, with the approval it needs; no missed `drive/1` leaves the run idle |
| `RunReleaseGate` | `ReleaseGate`: no step lets a task go or admits an operation while the run stops, finishes or is paused |
| `RunRefinesJournal` | RunLoop implements RunJournal (the property `WritesAhead`) |
| `RunAccounts`, `RunAccountsForCalls` | `EveryCallAccounted`: a caller that waits is held in exactly one place, and nobody waits when the run is over |
| `RunAnswersCalls` | a call of the model has its result or is in exactly one place on its way to one, until the run stops |
| `RunEndsOnce`, `RunSettlesInTurn`, `RunAnsweredBeforeNext`, `RunTimeoutFails`, `RunLogInOrder` | the four parts of `LogInOrder`, and the whole: the log has one end, its operations follow one another, each call is answered before the model is asked again, a timeout is reported as failed |
| `RunPlacesSteers`, `RunSteersReachModel` | `SteersReachModel`: a steer that was taken is in one place on its way to the model, and in exactly one started request when the run completes |
| `QueueTypes` | TypeOK of the queue: at most one prompt is held, and one is in hand in no other step than its start and its put-back |
| `QueueLosesNothing` | `NothingLost`: an accepted prompt waits, was started, was taken or refused, or was forgotten by a kill or by a put-back that raised |
| `QueueOrder`, `QueueInLine` | `InLine`: prompts that wait are started in the order in which they were accepted, each at most once, except those handed over again by a killed hand-over or a handler that raised |
| `QueueNeverStranded` | `NeverStranded`: a queue that is looked after always has something that wakes it |
| `GuardTypes` | scripts, plans, commands and records keep their shape, whatever fails |
| `GuardHandshake` | the socket carries one byte at a time: a request, its service and its answer exclude one another |
| `GuardOneWriter` | `OneWriter`: guard and writer never write to the terminal at the same time |
| `ModesInvariant` | what the terminal has set, what the guard remembers and what writer and owner believe agree in every step |
| `TerminalHandedBack`, `TerminalExitAsFound` | `HandedBack` and `ExitAsFound`: who gets the terminal gets it clean, and the exit code tells the truth |
| `PortInvariant` | runtime, owner and helper agree over what is on its way between them |
| `PortEditorAlone`, `PortClosedCooked` | `EditorAlone` and `ClosedCooked`: an editor has the terminal to itself, and a session that closes leaves it cooked |
| `PortDraws`, `PortAnswersAwaited` | `AnswersAwaited`: an answer to a draw on its way to the runtime is the one it waits for, and no draw is answered twice |
| `PortTracks`, `PortDrawTracked` | `DrawTracked` in every scenario in which no setting is edited externally: the draw the runtime waits for is never lost |

**The gate.** None of the three properties is inductive alone. A ref that leaves
is looked up in the entry of its key, so books are needed to type `Drop`;
admitting stays within the limit only because holders and queue are disjoint
and the queue repeats nothing; `waiting` stays a natural because it counts the
queue. `Inv` is their conjunction with `KnowsRef` (a caller that waits or streams
knows a ref). The proof has one lemma per function (`Remove`, `Admit`, `Drop`)
and one step per action. `SlotsUsed` is its limit and work conservation in one.
What the callers may rely on needs the mail between them. `Talk` says what may be
in the mailbox of a caller in each of its states (`Orderly`), that a ref of the
running gate is a holder exactly if its caller is let in or will be when it reads
its mail, that each message of the inbox comes from a caller in the state to send
it, and that the books keep a ref only while its caller has it or a message that
gives it back is on its way (`RefOK`, which is `NoLeak`'s reason). For
`StreamsBounded` the streams map one to one into the holders of the gate, and
those of an earlier gate process were bounded when it ended (`EarlierBounded`).

**The cooldown.** `Promise` says that a writer only goes on to write above what
it saw; with it a successful compare-and-set never lowers the row.

**The run loop.** A handler is a few assignments and then `drive/1`, which writes
at most one record. So the invariant is stated of a run, a task and a log (`Good`)
and not of the variables: it also holds between the two halves, and each function
is shown to keep it. Its heart is the stage that the newest operation has reached
(`At`: the last record that tells one, or the record being written), which the run
knows by its fields (`Phase`) and the log by its last record (`StageOf`, `Follows`);
around it, what a continuation was published with (`Fits`), what a queued control
says of the run (`Queued`), which calls were allowed (`Cleared`), that a timeout is
known (`Late`) and that only the task of the operation in hand is active
(`Tasked`). `Rest` is what a run that is done driving may wait for: it is
`NeverIdle`, and holds of the variables only. `drive/1` takes the first
control it does not reject, which exists because a set of numbers has a least
element (`LeastOf`). The refinement of RunJournal follows step by
step: the commit of the sink appends the record of the stage, every other step
leaves the journal's variables alone or moves the task.

**The callers and the calls.** `Account` keeps a caller in one of three disjoint
places - a control in the queue, the record being written, the waiters for the
end - with `asked` as their union; a handler moves a caller from one to the next or
answers it, and so does drive. For the calls of the model's answer `Open` collects
the places a call may be in (the operation, the request for approval, the record,
the queue, and the set X of calls that a function holds between two places, empty
between two steps): no call is in two of them or answered as well (`Once`), none is
of a turn to come (`Parents`), none is lost while the run goes on (`Served`), and a
record that needs every earlier call to be answered is only written when they are
(`Due`; `Past` for those in the log). `Alone` and `Resolved` say that a decision
under way is the only one and is about the request that is pending.

**The steers.** `SteersReachModel` speaks of the log, so its invariant (`Placed`)
follows a steer from its caller to the log: a control of the queue, the record that
admits it, the list of those that wait, the record that starts the request with it,
and the started requests. `Apart` says that these places are disjoint and name no
steer twice, `Carried` that the request in hand was admitted with the steers it
carries and that they lead the list until it is started, `Sending` what a record
about a steer says. `Reached` is the claim itself: a steer that was taken is in one
of the places. It excepts a run that stops or finishes and one whose request could
not be launched (`Failing`): the code has taken that request's steers off the list
(run.ex, the effect of the admission) and no request was started with them, which
is harmless only because such a run cannot complete - its settlement is an error,
`model_failed` follows, and then the end. That exception is why the invariant must
know what a settlement of such a request answers, and that no result can have come.

**The queue.** Where a prompt is depends on the handler's step. `TypeInv` adds
the phases to the types: which step may have a prompt in hand, held, or on its
way back. `Kept` is the heart: while prompts are stored again (`store`, `stow`,
`settle`), every prompt held or journalled is still to be stored, is stored, or
was taken by somebody since - so that the copy in memory or in the journal may
be dropped at the end of the step. `NothingLost` follows step by step: every
action moves `Waiting` into itself, `settled`, `forgotten` or the started ones
(`Keeps`). For the order,
prompts are numbered as accepted: `Order` says that the stored and the journalled
prompts rise, that the backend's own copies go before what is stored (`InPlace`),
which is why putting back in front is right, and that a prompt starts once. All of
this leaves out the prompts that were `repeated`, as `InLine` does, and only them:
the rest keep their order also after a prompt was repeated. What a handler that
raises hands over is still with the backend or is added to `repeated` (`RaiseOrder`);
`Recalled` says that it was accepted. `NeverStranded` counts
every message of the mailbox, also those that the entry no longer answers to, so
it is not inductive: `Alert` counts only a timer, a drain of the entry's own
generation, a turn it monitors that lives, or the word of its end (`Woken`), and
that a retry that is due has its message (`Told`). A handler that leaves the queue
idle with an entry either sent such a message or set such a timer; one that throws
messages away has replaced the entry. TLC checked each invariant on the instance of
the run before it was proved.

**The guard.** `OneWriter` is not inductive: that the writer waits while the
guard works must be known from the moment the byte is sent. `Handshake` says so
for each of the three places the exchange may be in - on the way there
(`request`), being served (`Serves`), on the way back (`answer`) - and that they
exclude one another as long as the writer lives; a final restoration begins only
when it is dead. Only a dead writer may leave a byte behind. `Waits` (the step
that was asked for is still in the plan) and the types are needed for the answer
to be one. The proof has a lemma for each function on the writer and the guard
(`Kept`: a signal, a failure or an epilogue neither moves the writer nor ends its
wait) and one for each kind of step.

**The modes of the terminal.** A restoration takes several operations, each of
which may fail, so its *script* carries the argument: `Undone` and `Done` are what
the rest of a script undoes and sets, and only its first operation may set
something that a later one undoes (`Reverts`). `CookedInv`, `KnownInv` and `ExitInv`
then say of the terminal's side that whatever is set is undone by what is left of
the script, or remembered by a tty that is active; and `ActiveInv` that the writer
knows whether it is, but for the answer on its way. The owner's side (`PipeInv`,
`QuietInv`) keeps the commands that begin and end the writer's use of the terminal
and the record of its restoration apart, so that whoever was told has a terminal
with nothing of the helper in it and nothing under way: `HandedBack`.

**The terminal of a session.** The three processes learn of each other by messages
only, so `PortInv` is about what is on its way: `Due`, the commands the owner sent
or is to send (a flush does not change it), and `Heard`, the records the helper
sent. `Exchange` says that at most one exchange brings the terminal up (`init` or
`resume`, answered by `ready`) and at most one takes it down (`suspend`, answered by
`suspended`), that each is in one place - on its way there, being probed, on its
way back - and that the owner's phase tells which. `Requests` is the runtime's
side: one suspend at a time, and a resume of the owner's generation is read before
it. `Edits` then says of an editor that runs that no such request, command, probe
or record is anywhere and that the terminal is not raw: that is `EditorAlone` made
inductive. `Ended` is the same for `ClosedCooked`: the word that the terminal is
restored comes from a helper that has exited, and none starts again. A lemma for
each way a channel may grow or shrink (`Grows`, `Part`) keeps the proofs of the 36
actions short.

`DrawsInv` follows a draw from the request to its answer: it waits to be read by the
owner (`Wants`), is queued or painted without an answer (`Open`), or has an answer
that the runtime did not hear yet (`Told`). `Neat` says that it is in one of these
places and in none twice, and what waits is newer than what the owner holds
(`Rising`, `Drawn`): so a confirmation that comes late, after the draw was answered as
stale, answers nothing again. This holds of every scenario. Unless the shell may
stop the program (`NoStop`), no other draw is under way at all than the one the
runtime waits for (`Waited`), since the runtime asks for one at a time and the
terminal is taken down and brought up again only between requests of its own
(`Awake`); after a stop an answer may still be the one to a forgotten draw, as
`AnswersAwaited` says.

`TrackInv` is the converse: what the runtime waits for is somewhere. A draw leaves the
places above without an answer only when an owner that is not `running` reads the
request, or when the phase is left with a frame not answered: for `resuming` the new
generation forgets the draw, so what remains is stepping aside. `Stepping` says that the
runtime asks for no frame from its suspend until the terminal is back: the draws that
wait to be read are ahead of the suspend, so an owner that is `suspending` or
`suspended` has none to drop. `Coming` is about the frame the owner has painted: it is
ahead of the suspend on the wire (`Ahead`), its confirmation or a `resume_needed` is
heard (`Shown`) and before any `suspended` (`Before`), or the helper does not hold the
terminal and refuses to step aside. So an owner that reads `suspended` has no
frame without an answer. An external edit of a setting is excluded because it breaks
`Stepping`: there frames go on while the suspend is on its way, which is finding 1 and
the run `terminal_port_settings`. `Unclosed` keeps the closing of the session, in which
the deadline is meant to pass, apart.

**Only model-checked.** Liveness (`QueuedIsServed`, `WritersFinish`, `StopEnds`,
`CommandsAnswered`, `ScreenReturns`, `SessionEnds`, `EverythingHeard`,
`ScreenCatchesUp`, `HelperEnds`), since the prover does not reason about fairness
and ENABLED. `InStep`, which finding 2 refutes in some scenarios and which rests on
the tokens and mouse flags of every command and record, and `DrawTracked` with an
external edit of a setting (finding 1 refutes it in general): both are checked for the
scenarios that exclude those findings. TerminalSession with the parser and
the painter, whose results are folds over sequences: what a fold computes over a
sequence of any length is not proved, since induction over data needs theorems
with operator parameters, which no installed backend instantiates. The modules
with proofs declare no RECURSIVE operator (the prover loses its arithmetic with
one).

## 6. What is not modelled, and why

- Of the modelled parts: contents of prompts, records, frames and errors; the
  number and wording of toasts; what a run shows its subscriber (`present/2`,
  snapshot, acknowledge, `in_flight`) - the run is therefore listed as partly
  modelled; the texts of titles, copies and notifications; the field codecs of the
  owner's commands and of the records other than inputs; the opening of the
  terminal and the hand-over of the BEAM's tty before the two processes meet; a
  death of the guard, after which nobody restores the terminal; a failure to write
  the recovery journal (the operating system's, logged and given up by the code).
- Whole parts: the desktop's queue drain, which nothing switches on; the
  directory broker, the reducers and the projections, which are about data and
  paths, not about order; HTTP and the codecs, pure functions. The other parts of
  section 1 without a module are planned below.

## 7. Plan

In order of how much of the system rests on it.

| Step | Module | Composition and abstract specification | Properties | Proof |
|---|---|---|---|---|
| done | RunJournal, RunLoop | RunLoop implements RunJournal | section 3 | done |
| done | LLMGate, LLMCooldown | - | section 3 | done |
| done | TerminalPort | three processes in one module | section 3 | `EditorAlone`, `ClosedCooked`, `AnswersAwaited`, `DrawTracked` done; `InStep` next |
| done | InputParser, PortWire, FramePainter, TerminalSession | the session runs parser, wire and painter | section 3 | - |
| done | TerminalGuard | the two processes of the helper | section 3 | done |
| done | PromptQueue | - | section 3 | done |
| 1 | CommandLedger | implements AtMostOnce: a command takes effect once and one answer is given for ever | replay, conflict, a kill between effect and completion, prune of what may still be retried | the effect count and the row's phase, inductive |
| 2 | CrossAppLease with FoundationGate and Shutdown | implements a mutual exclusion of owners | never two owners, the lease outlives open slots, shutdown ends | ownership |
| 3 | RunServer | composes with PromptQueue's turn (who may start, who is told) | agent limit across pauses, approvals answered once | count of live agents |
| 4 | WorkflowRunner with its watchdog, Scheduler | - | no resume after a stop; a due row fires once | claims |
| 5 | Connection and DataSource | a client and a daemon over a channel that closes | one answer per request, watches survive a resync | request correlation |
| 6 | ChunkBuffer | an algorithm against a reference definition | reassembly of any split | bounds of the buffer |
| 7 | ProcessOutput (`run_command`), MCPClient, AtomicReplace | - | credits, kill of the group, late answers, crash between write and rename | credits |

Runs are to stay few and short (the whole suite takes minutes): each new module
gets one run, in exchange for a shallower property or a merged run, that mixes its interesting cases, with bounds of two or three
actors and one or two faults, and its liveness in the same run where the state
space allows; shallow properties of the present runs give way to deeper ones.
Modules are written to be proved about: constants with named assumptions, one
action per handler, invariants as conjunctions of named parts, recursion only as
recursive functions or folds.
