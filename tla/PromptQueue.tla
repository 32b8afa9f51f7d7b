---------------------------- MODULE PromptQueue ----------------------------
(* The prompts that wait behind a running turn of one conversation          *)
(* (daemon/service/persisted_backend.ex, queue_state.ex, queue_recovery.ex, *)
(* domain/conversations.ex).  The queue is a column of the conversation's   *)
(* row, so other windows append to it and take from it; the backend of a    *)
(* session takes the head when no turn runs, starts it, and puts it back    *)
(* when the start fails.  A prompt whose put-back fails is held in memory,  *)
(* and a stopping backend journals what it holds.  Every transaction and    *)
(* file write of a handler is a step of its own: other windows, the turn    *)
(* and a kill come in between, and a read or a write may raise, which stops *)
(* the backend with the state it had before that handler.                   *)
EXTENDS Naturals, Sequences, FiniteSets, SequencesExt

CONSTANTS
  MaxPrompts,   \* prompts are 1 .. MaxPrompts, in the order they are accepted
  Commands,     \* the prompts that are slash commands
  MaxRetries,   \* quick retries of a start (8 in the code)
  MaxFaults,    \* how often the database is busy or a start fails
  MaxSends,     \* turns the user starts directly
  MaxChains,    \* compactions that hand over to their chat turn
  MaxStops,     \* how often the backend stops, is killed or has a handler that raises
  MaxInbox      \* the user waits while this many messages are unread

ASSUME PromptBounds ==
  /\ {MaxPrompts, MaxRetries, MaxFaults, MaxSends, MaxChains, MaxStops, MaxInbox} \subseteq Nat
  /\ Commands \subseteq 1 .. MaxPrompts

VARIABLES
  stored,    \* the queue in the database
  journal,   \* the queue-recovery journal of the conversation
  deleted,   \* the conversation is gone
  turn,      \* the newest turn: its number, and whether it runs, has ended or is unregistered
  life,      \* the backend: "up", "stopping", "starting" or "down"
  at,        \* the next step of its handler ("idle": none)
  here,      \* whether the session shows this conversation
  paused,    \* a stop paused the queue
  entry,     \* the entry of QueueState, or NoEntry
  inbox,     \* the backend's unread messages
  hand,      \* the popped prompt whose start is being tried
  todo,      \* the prompts that are being stored again
  again,     \* the held prompts that this handler has stored again
  issued,    \* how many prompts were accepted
  starts,    \* how often each prompt was started
  settled,   \* prompts taken or removed by somebody, or refused with a toast
  forgotten, \* prompts that only the memory of a killed or raising backend had
  repeated,  \* prompts handed over although they were stored already
  lifted,    \* the pause was lifted and nothing has woken the queue since
  spent      \* how much of each bound is used

disk == <<stored, journal, deleted>>
memory == <<here, paused, entry, inbox>>
work == <<hand, todo, again>>
history == <<starts, settled, forgotten, repeated>>
vars == <<disk, memory, work, history, turn, life, at, issued, lifted, spent>>

Prompts == 1 .. MaxPrompts
NoEntry == [gen |-> 0, watching |-> {}, retries |-> 0, timer |-> "none", held |-> <<>>]
NoTurn == [no |-> 0, run |-> "none"]

Init ==
  /\ stored = <<>> /\ journal = <<>> /\ deleted = FALSE
  /\ turn = NoTurn /\ life = "up" /\ at = "idle" /\ here = TRUE /\ paused = FALSE
  /\ entry = NoEntry /\ inbox = <<[kind |-> "open"]>> /\ hand = <<>> /\ todo = <<>> /\ again = <<>>
  /\ issued = 0 /\ starts = [p \in Prompts |-> 0] /\ settled = {} /\ forgotten = {}
  /\ repeated = {} /\ lifted = FALSE
  /\ spent = [faults |-> 0, sends |-> 0, chains |-> 0, stops |-> 0, gens |-> 0]

Spend(what, bound) == spent[what] < bound /\ spent' = [spent EXCEPT ![what] = @ + 1]

\* A start that fails, or a transaction that stays busy through its retries.
Fault == Spend("faults", MaxFaults)

Live == turn.run = "running"
Registered == turn.run # "none"
Idle == life = "up" /\ at = "idle"
At(step) ==
  at = step /\ UNCHANGED <<turn, life, here, paused, issued, lifted, forgotten, repeated>>

\* What a handler has stored again matters until it ends.
Remembers == again' = IF at' = "idle" THEN <<>> ELSE again

-----------------------------------------------------------------------------
(* Entries, monitors and retries.                                           *)

\* A live turn is monitored; without one the backend writes itself a message.
Watched(e) ==
  IF Live
  THEN entry' = [e EXCEPT !.watching = @ \cup {turn.no}] /\ UNCHANGED inbox
  ELSE entry' = e /\ inbox' = Append(inbox, [kind |-> "drain", gen |-> e.gen])

\* The elements of s at the positions K, in their order.
Restricted(s, K) ==
  [j \in 1 .. Cardinality(K) |-> s[CHOOSE i \in K : Cardinality({k \in K : k <= i}) = j]]

\* Removing the entry demonitors its turns and flushes what they sent.
Removed ==
  /\ entry' = NoEntry
  /\ inbox' = Restricted(inbox, {i \in DOMAIN inbox :
                 inbox[i].kind # "down" \/ inbox[i].turn \notin entry.watching})

\* Mutant: one retry too many.
RetriedOnceMore(e) ==
  /\ e.retries <= MaxRetries
  /\ entry' = [e EXCEPT !.retries = @ + 1, !.timer = "armed"] /\ UNCHANGED inbox

\* A failed attempt: retried soon, then given up, unless a prompt is held.
Retried(e) ==
  \/ /\ e.retries < MaxRetries
     /\ entry' = [e EXCEPT !.retries = @ + 1, !.timer = "armed"] /\ UNCHANGED inbox
  \/ /\ e.retries >= MaxRetries /\ e.held # <<>>
     /\ entry' = [e EXCEPT !.timer = "armed"] /\ UNCHANGED inbox
  \/ /\ e.retries >= MaxRetries /\ e.held = <<>> /\ Removed

Reset(e) == [e EXCEPT !.retries = 0, !.timer = "none"]

\* Mutant: the prompt goes to the end.
RequeuedLast(p) == ~deleted /\ stored' = Append(stored, p) /\ UNCHANGED <<journal, deleted>>

\* requeue_head
Requeued(p) == ~deleted /\ stored' = <<p>> \o stored /\ UNCHANGED <<journal, deleted>>

\* Mutant: a queue that has an entry is taken to be awake.
ActivateNew ==
  /\ at = "activate" /\ at' = "idle" /\ lifted' = FALSE
  /\ LET gen == spent.gens + 1
     IN  IF entry = NoEntry /\ ~deleted /\ stored # <<>>
         THEN Watched([NoEntry EXCEPT !.gen = gen]) /\ spent' = [spent EXCEPT !.gens = gen]
         ELSE UNCHANGED <<entry, inbox, spent>>
  /\ UNCHANGED <<disk, work, history, turn, life, here, paused, issued>>

\* activate_queue: the second transaction of a handler that wakes the queue.
Activate ==
  /\ at = "activate" /\ at' = "idle" /\ lifted' = FALSE
  /\ \/ /\ ~deleted /\ entry.held \o stored # <<>>
        /\ IF entry # NoEntry
           THEN Watched(entry) /\ UNCHANGED spent
           ELSE LET gen == spent.gens + 1
                IN  Watched([NoEntry EXCEPT !.gen = gen]) /\ spent' = [spent EXCEPT !.gens = gen]
     \/ /\ deleted \/ entry.held \o stored = <<>>
        /\ Removed /\ UNCHANGED spent
  /\ UNCHANGED <<disk, work, history, turn, life, here, paused, issued>>

-----------------------------------------------------------------------------
(* drain_queue/3 and what it calls.                                         *)

Check ==
  /\ At("check")
  /\ \/ /\ deleted \/ paused
        /\ at' = "idle" /\ UNCHANGED <<entry, inbox, todo>>
     \/ /\ ~deleted /\ ~paused /\ Live
        /\ at' = "idle" /\ Watched(entry) /\ UNCHANGED todo
     \/ /\ ~deleted /\ ~paused /\ ~Live
        /\ at' = IF entry.held = <<>> THEN "pop" ELSE "store"
        /\ todo' = entry.held /\ UNCHANGED <<entry, inbox>>
  /\ Remembers /\ UNCHANGED <<disk, hand, starts, settled, spent>>

\* put_back_held, last first: nothing is popped while one is still held.
StoreHeld ==
  /\ At("store")
  /\ \/ /\ Requeued(Last(todo)) \/ (deleted /\ UNCHANGED disk)
        /\ todo' = IF deleted THEN <<>> ELSE Front(todo)
        /\ IF todo' = <<>>
           THEN at' = "pop" /\ entry' = Reset([entry EXCEPT !.held = <<>>]) /\ again' = entry.held
           ELSE UNCHANGED <<at, entry, again>>
        /\ UNCHANGED <<inbox, spent>>
     \/ /\ Fault /\ Retried([entry EXCEPT !.held = todo])
        /\ todo' = <<>> /\ at' = "idle" /\ UNCHANGED <<disk, again>>
  /\ UNCHANGED <<hand, starts, settled>>

Pop ==
  /\ At("pop")
  /\ \/ /\ ~deleted /\ stored # <<>>
        /\ hand' = <<Head(stored)>> /\ stored' = Tail(stored) /\ at' = "start"
        /\ UNCHANGED <<entry, inbox, spent>>
     \/ /\ deleted \/ stored = <<>>
        /\ Removed /\ at' = "idle" /\ UNCHANGED <<stored, hand, spent>>
     \/ /\ Fault /\ Retried(entry) /\ at' = "idle" /\ UNCHANGED <<stored, hand>>
  /\ Remembers /\ UNCHANGED <<journal, deleted, todo, starts, settled>>

Begins == turn' = [no |-> turn.no + 1, run |-> "running"]

\* start_queued: a prompt starts a turn, a command may run none or be refused,
\* and any failure leads to the put-back.
Start ==
  /\ at = "start"
  /\ LET p == Head(hand)
     IN  \/ /\ ~deleted /\ (Begins \/ (p \in Commands /\ UNCHANGED turn))
            /\ starts' = [starts EXCEPT ![p] = @ + 1]
            /\ hand' = <<>> /\ entry' = Reset(entry) /\ at' = "check"
            /\ UNCHANGED <<settled, spent>>
         \/ /\ p \in Commands /\ settled' = settled \cup {p}
            /\ hand' = <<>> /\ at' = "check" /\ UNCHANGED <<turn, starts, entry, spent>>
         \/ /\ Fault \/ (deleted /\ UNCHANGED spent)
            /\ at' = "putback" /\ UNCHANGED <<turn, starts, settled, hand, entry>>
  /\ Remembers
  /\ UNCHANGED <<disk, here, paused, inbox, todo, forgotten, repeated, life, issued, lifted>>

\* Mutant: a put-back that meets a busy database is forgotten.
PutBackOrDrop ==
  /\ At("putback") /\ at' = "idle" /\ hand' = <<>> /\ again' = <<>>
  /\ \/ Requeued(Head(hand)) /\ Retried(entry) /\ UNCHANGED spent
     \/ deleted /\ Removed /\ UNCHANGED <<disk, spent>>
     \/ Fault /\ Retried(entry) /\ UNCHANGED disk
  /\ UNCHANGED <<todo, starts, settled>>

PutBack ==
  /\ At("putback") /\ at' = "idle" /\ hand' = <<>> /\ again' = <<>>
  /\ \/ Requeued(Head(hand)) /\ Retried(entry) /\ UNCHANGED spent
     \/ deleted /\ Removed /\ UNCHANGED <<disk, spent>>
     \/ Fault /\ Retried([entry EXCEPT !.held = @ \o hand]) /\ UNCHANGED disk
  /\ UNCHANGED <<todo, starts, settled>>

-----------------------------------------------------------------------------
(* Messages.                                                                *)

\* drain_queue/3 goes on only for the entry it was sent for, and not while a
\* retry is armed.
Due(gen) == entry # NoEntry /\ entry.gen = gen /\ entry.timer = "none"

Receive ==
  /\ Idle /\ inbox # <<>> /\ inbox' = Tail(inbox)
  /\ LET m == Head(inbox)
     IN  \/ /\ m.kind = "open"
            /\ UNCHANGED entry /\ at' = IF here THEN "activate" ELSE "idle"
         \/ /\ m.kind = "drain"
            /\ UNCHANGED entry /\ at' = IF Due(m.gen) THEN "check" ELSE "idle"
         \/ /\ m.kind = "timeout"
            /\ IF entry # NoEntry /\ entry.gen = m.gen /\ entry.timer = "due"
               THEN at' = "check" /\ entry' = [entry EXCEPT !.timer = "none"]
               ELSE UNCHANGED <<at, entry>>
         \/ /\ m.kind = "down"
            /\ IF m.turn \in entry.watching
               THEN /\ entry' = [entry EXCEPT !.watching = @ \ {m.turn}]
                    /\ at' = IF entry.timer = "none" THEN "check" ELSE "idle"
               ELSE UNCHANGED <<at, entry>>
  /\ UNCHANGED <<disk, work, history, here, paused, turn, life, issued, lifted, spent>>

TimerFires ==
  /\ life = "up" /\ entry.timer = "armed"
  /\ entry' = [entry EXCEPT !.timer = "due"]
  /\ inbox' = Append(inbox, [kind |-> "timeout", gen |-> entry.gen])
  /\ UNCHANGED <<disk, work, history, here, paused, turn, life, at, issued, lifted, spent>>

\* The turn's process is gone: who monitors it is told.
Tells == inbox' = IF turn.no \in entry.watching /\ life = "up"
                  THEN Append(inbox, [kind |-> "down", turn |-> turn.no]) ELSE inbox

\* A turn ends by itself or after a stop; the registry forgets it later.
TurnEnds ==
  /\ Live /\ turn' = [turn EXCEPT !.run = "ended"] /\ Tells
  /\ UNCHANGED <<disk, work, history, here, paused, entry, life, at, issued, lifted, spent>>

\* A compaction ends and the turn that waited for its summary begins.
ChainGoesOn ==
  /\ Live /\ Begins /\ Tells /\ Spend("chains", MaxChains)
  /\ UNCHANGED <<disk, work, history, here, paused, entry, life, at, issued, lifted>>

TurnUnregistered ==
  /\ turn.run = "ended" /\ turn' = [turn EXCEPT !.run = "none"]
  /\ UNCHANGED <<disk, memory, work, history, life, at, issued, lifted, spent>>

-----------------------------------------------------------------------------
(* What the user of the session and of another window does.                 *)

\* A command is answered by a handler that then takes the step at'.
Command == Idle /\ here /\ Len(inbox) < MaxInbox /\ UNCHANGED <<work, history, life, here>>

Accept ==
  /\ ~deleted /\ issued < MaxPrompts
  /\ issued' = issued + 1 /\ stored' = Append(stored, issued + 1)
  /\ UNCHANGED <<journal, deleted>>

\* A prompt sent while a turn is registered and cannot take it as a steer.  A
\* busy database refuses it, which changes nothing.
Enqueue ==
  /\ Command /\ Registered /\ Accept /\ at' = "activate"
  /\ UNCHANGED <<turn, paused, entry, inbox, lifted, spent>>

\* A prompt sent while none is: it starts its own turn and lifts the pause.
Send ==
  /\ Command /\ ~Registered /\ ~deleted /\ Spend("sends", MaxSends) /\ Begins
  /\ paused' = FALSE /\ lifted' = (lifted \/ paused)
  /\ UNCHANGED <<disk, at, entry, inbox, issued>>

StopTurn ==
  /\ Command /\ Live /\ paused' = (paused \/ stored # <<>>)
  /\ UNCHANGED <<disk, at, turn, entry, inbox, issued, lifted, spent>>

ResumeQueue ==
  /\ Command /\ paused' = FALSE /\ at' = "activate"
  /\ UNCHANGED <<disk, turn, entry, inbox, issued, lifted, spent>>

Without(i) == stored' = RemoveAt(stored, i) /\ settled' = settled \cup {stored[i]}

\* /queue drop N and, for the only prompt, /queue clear, which lifts the pause.
EditQueue ==
  /\ Idle /\ here /\ ~deleted /\ \E i \in DOMAIN stored : Without(i)
  /\ paused' = (paused /\ stored' # <<>>) /\ lifted' = (lifted \/ (paused /\ ~paused'))
  /\ UNCHANGED <<journal, deleted, work, starts, forgotten, repeated, turn, life, at, here, entry,
                 inbox, issued, spent>>

\* The session shows another conversation, or this one again.
Switch ==
  /\ Idle /\ here' = ~here
  /\ IF here THEN UNCHANGED inbox
     ELSE Len(inbox) < MaxInbox /\ inbox' = Append(inbox, [kind |-> "open"])
  /\ UNCHANGED <<disk, work, history, turn, life, at, paused, entry, issued, lifted, spent>>

\* Another window appends, takes or removes a prompt, or deletes the conversation.
OtherWindow ==
  /\ \/ Accept /\ UNCHANGED settled
     \/ /\ ~deleted /\ \E i \in DOMAIN stored : Without(i)
        /\ UNCHANGED <<journal, deleted, issued>>
     \/ deleted' = TRUE /\ UNCHANGED <<stored, journal, settled, issued>>
  /\ UNCHANGED <<memory, work, starts, forgotten, repeated, turn, life, at, lifted, spent>>

-----------------------------------------------------------------------------
(* Stopping, being killed, and starting again.                              *)

Comes(next) ==
  /\ life' = next /\ at' = "idle" /\ hand' = <<>> /\ todo' = <<>> /\ again' = <<>>
  /\ paused' = FALSE /\ lifted' = FALSE
  /\ entry' = NoEntry /\ inbox' = IF next = "up" THEN <<[kind |-> "open"]>> ELSE <<>>

\* The prompts the backend has, in their order: on the way back, or in hand and held.
Own == IF at \in {"store", "stow", "settle"} THEN todo ELSE hand \o entry.held
Memory == ToSet(hand) \cup ToSet(entry.held) \cup ToSet(todo)

\* A backend that stops hands over what it holds, and forgets the rest of its memory.
HandsOver(held) ==
  /\ Spend("stops", MaxStops)
  /\ IF held = <<>> THEN Comes("down")
     ELSE /\ life' = "stopping" /\ at' = "journal" /\ inbox' = <<>>
          /\ entry' = [entry EXCEPT !.held = held] /\ hand' = <<>> /\ todo' = <<>> /\ again' = <<>>
          /\ UNCHANGED <<paused, lifted>>
  /\ UNCHANGED <<disk, here, turn, starts, settled, issued>>

Forgets(kept) ==
  forgotten' = forgotten \cup (Memory \ (ToSet(stored) \cup ToSet(journal) \cup kept))

\* terminate between two handlers: what is held is handed over to the journal.
Terminate == Idle /\ HandsOver(entry.held) /\ UNCHANGED <<forgotten, repeated>>

\* A query or a write that raises ends the handler, and terminate has the state
\* from before it: what was held then is handed over, stored again or started
\* meanwhile or not, and a prompt that was popped since is not known to it.
\* (start_queued rescues what a start raises.)
Raise ==
  /\ life = "up" /\ at \in {"activate", "check", "store", "pop", "putback"}
  /\ LET held == again \o entry.held
     IN  /\ HandsOver(held) /\ Forgets(ToSet(held))
         /\ repeated' = repeated \cup (ToSet(held) \ ToSet(Own))

\* hand_over writes ahead: the journal first, then the queue, then the journal.
Journal ==
  /\ At("journal") /\ journal' = journal \o entry.held /\ todo' = journal'
  /\ at' = "stow"
  /\ UNCHANGED <<stored, deleted, entry, inbox, hand, again, starts, settled, spent>>

Stow ==
  /\ At("stow")
  /\ \/ /\ Requeued(Last(todo)) /\ todo' = Front(todo)
        /\ at' = (IF todo' = <<>> THEN "settle" ELSE "stow") /\ UNCHANGED spent
     \/ deleted /\ todo' = <<>> /\ at' = "settle" /\ UNCHANGED <<disk, spent>>
     \/ Fault /\ at' = "settle" /\ UNCHANGED <<disk, todo>>
  /\ UNCHANGED <<hand, again, entry, inbox, starts, settled>>

Settle ==
  /\ at = "settle" /\ journal' = todo
  /\ Comes(IF life = "stopping" THEN "down" ELSE "up")
  /\ UNCHANGED <<stored, deleted, history, turn, here, issued, spent>>

\* The backend dies between any two steps (with the turn, when that ends next).
Kill ==
  /\ life # "down" /\ Spend("stops", MaxStops) /\ Comes("down") /\ Forgets({})
  /\ repeated' = repeated \cup
        (IF at \in {"stow", "settle"} THEN ToSet(journal) \ ToSet(todo) ELSE {})
  /\ UNCHANGED <<disk, here, turn, starts, settled, issued>>

\* init: journalled prompts first, then the message that opens the queue.  (A
\* session on another conversation starts like one that switches away at once.)
Restart ==
  /\ life = "down" /\ here' = TRUE
  /\ IF journal = <<>> THEN Comes("up")
     ELSE life' = "starting" /\ at' = "journal" /\ UNCHANGED <<paused, entry, inbox, work, lifted>>
  /\ UNCHANGED <<disk, history, turn, issued, spent>>

Backend == Activate \/ Check \/ StoreHeld \/ Pop \/ Start \/ PutBack \/ Journal \/ Stow \/ Settle
User == Enqueue \/ Send \/ StopTurn \/ ResumeQueue \/ EditQueue \/ Switch
Turn == TurnEnds \/ ChainGoesOn \/ TurnUnregistered
Next ==
  \/ Backend \/ Receive \/ TimerFires \/ Turn
  \/ User \/ OtherWindow \/ Terminate \/ Raise \/ Kill \/ Restart

Spec == Init /\ [][Next]_vars

-----------------------------------------------------------------------------
\* Every variable keeps its shape, at most one prompt is held, and a handler
\* holds a prompt exactly in the steps between its pop and its fate.
TypeOK ==
  /\ {stored, journal, todo, again} \subseteq Seq(Prompts) /\ {deleted, here, paused} \subseteq BOOLEAN
  /\ turn \in [no : Nat, run : {"none", "running", "ended"}]
  /\ life \in {"up", "stopping", "starting", "down"}
  /\ at \in {"idle", "activate", "check", "store", "pop", "start", "putback",
             "journal", "stow", "settle"}
  /\ entry \in [gen : Nat, watching : SUBSET (1 .. turn.no), retries : 0 .. MaxRetries,
                timer : {"none", "armed", "due"}, held : Seq(Prompts)]
  /\ Len(entry.held) <= 1 /\ (entry.timer # "none" => at \in {"idle", "activate", "journal", "stow", "settle"})
  /\ hand # <<>> <=> at \in {"start", "putback"}
  /\ issued \in 0 .. MaxPrompts /\ starts \in [Prompts -> Nat]
  /\ settled \cup forgotten \cup repeated \subseteq Prompts /\ lifted \in BOOLEAN

Waiting == ToSet(stored) \cup ToSet(journal) \cup Memory

\* A prompt that was accepted is never lost: it waits somewhere, was started,
\* or was taken, removed or refused; only a kill may forget one that was in
\* memory alone, and a put-back that raises the prompt it was to store.
NothingLost ==
  ~deleted => \A p \in 1 .. issued : starts[p] > 0 \/ p \in Waiting \cup settled \cup forgotten

\* The prompts the backend has, before those in the database.
Line == Own \o stored

\* Prompts keep the order in which they were accepted and none is started twice
\* or waits after it was started, however often starts and put-backs fail.
\* Only two ends of the backend repeat a prompt, and only one that the database
\* already had: a kill in the middle of a hand-over, and a handler that raises
\* after it stored a held prompt again (terminate hands it over once more).
InLine ==
  /\ \A i, j \in DOMAIN Line :
       i < j => Line[i] < Line[j] \/ Line[i] \in repeated \/ Line[j] \in repeated
  /\ \A p \in Prompts \ repeated : starts[p] <= 1 /\ (starts[p] = 1 => p \notin Waiting)

Active == life = "up" /\ entry # NoEntry /\ stored # <<>> /\ ~paused /\ ~deleted

\* What will wake the queue: a message, a retry, or the end of a monitored turn.
Armed == inbox # <<>> \/ entry.timer # "none" \/ (Live /\ turn.no \in entry.watching)

\* A queue the backend looks after is never left with nothing that wakes it,
\* whichever attempt failed and whoever else takes or adds prompts, unless it
\* is paused, or its pause was lifted without waking it.
NeverStranded == Idle /\ Active /\ ~lifted => Armed

\* "a turn that ends by itself (done, failed) still drains": with no turn left,
\* an unpaused queue has something that wakes it.
TurnEndDrains == Idle /\ Active /\ ~Registered => Armed
=============================================================================
