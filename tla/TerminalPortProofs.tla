------------------------- MODULE TerminalPortProofs -------------------------
(***************************************************************************)
(* For every scenario: an external editor has the terminal to itself       *)
(* (EditorAlone), a session that closes leaves it cooked (ClosedCooked),   *)
(* the runtime is told the result of the draw that it waits for, and once  *)
(* (AnswersAwaited), and unless a setting is edited externally the draw    *)
(* that it waits for is not lost (DrawTracked).                            *)
(*                                                                         *)
(* The runtime, the owner and the helper learn of each other by messages   *)
(* only, so the argument is about what is on its way: D, the commands the  *)
(* owner has sent or is to send, and R, the records the helper has sent.   *)
(* An exchange brings the terminal up (a command of Ups, answered by       *)
(* "ready") or down ("suspend", answered by "suspended"); there is at most *)
(* one of each, which one is the owner's phase, and it is in one place.    *)
(* An editor starts when the exchange down has ended, and every resume     *)
(* that could bring the terminal back has been read before that.           *)
(*                                                                         *)
(* A draw waits to be read, is held by the owner or is answered, and is in *)
(* one of these places; the numbers of those not read are above all        *)
(* others.  If the shell stops nothing there is only the one that the      *)
(* runtime waits for.  An owner that has stepped aside drops what it reads,*)
(* and cannot be waiting for a frame to be confirmed: the runtime asks for *)
(* no frame from when it asks for the terminal, and the helper, which      *)
(* reads in order, speaks of the frame before it says that it has left.    *)
(***************************************************************************)
EXTENDS TerminalPort, SequenceTheorems, TLAPS

-----------------------------------------------------------------------------
(* Sequences.                                                              *)

\* s and then t, as the parts they are.
LEMMA JoinParts ==
    ASSUME NEW S, NEW s \in Seq(S), NEW t \in Seq(S)
    PROVE  /\ s \o t \in Seq(S) /\ Len(s \o t) = Len(s) + Len(t)
           /\ \A i \in 1 .. Len(s) : i \in DOMAIN (s \o t) /\ (s \o t)[i] = s[i]
           /\ \A i \in 1 .. Len(t) : Len(s) + i \in DOMAIN (s \o t) /\ (s \o t)[Len(s) + i] = t[i]
<1>1. s \o t \in Seq(S) /\ Len(s \o t) = Len(s) + Len(t)
  BY ConcatProperties
<1> QED  BY <1>1

LEMMA JoinFirst ==
    ASSUME NEW S, NEW s \in Seq(S), NEW t \in Seq(S), NEW i \in 1 .. Len(s)
    PROVE  (s \o t)[i] = s[i]
BY JoinParts

LEMMA JoinSecond ==
    ASSUME NEW S, NEW s \in Seq(S), NEW t \in Seq(S), NEW i \in 1 .. Len(t)
    PROVE  (s \o t)[Len(s) + i] = t[i]
BY JoinParts

\* The border between two parts may lie anywhere in the second.
LEMMA BorderMoves ==
    ASSUME NEW S, NEW s \in Seq(S), NEW t \in Seq(S), NEW n \in 0 .. Len(t), NEW u \in Seq(S), NEW v \in Seq(S),
           Len(u) = Len(s) + n, \A i \in 1 .. Len(s) : u[i] = s[i], \A i \in 1 .. n : u[Len(s) + i] = t[i],
           Len(v) = Len(t) - n, \A i \in 1 .. Len(v) : v[i] = t[n + i]
    PROVE  u \o v = s \o t
<1> DEFINE x == s \o t
           y == u \o v
<1>1. x \in Seq(S) /\ Len(x) = Len(s) + Len(t)
  BY ConcatProperties
<1>2. y \in Seq(S) /\ Len(y) = Len(u) + Len(v)
  BY ConcatProperties
<1>3. \A i \in 1 .. Len(s) : x[i] = s[i]
  BY JoinParts
<1>4. \A i \in 1 .. Len(t) : x[Len(s) + i] = t[i]
  BY JoinParts
<1>5. \A i \in 1 .. Len(u) : y[i] = u[i]
  BY JoinParts
<1>6. \A i \in 1 .. Len(v) : y[Len(u) + i] = v[i]
  <2>1. ASSUME NEW i \in 1 .. Len(v) PROVE (u \o v)[Len(u) + i] = v[i]
    BY JoinSecond
  <2> QED  BY <2>1
<1>7. Len(s) \in Nat /\ Len(t) \in Nat /\ Len(u) \in Nat /\ Len(v) \in Nat /\ n \in Nat /\ n <= Len(t)
  OBVIOUS
<1> HIDE DEF x, y
<1>8. Len(x) = Len(y)
  BY <1>1, <1>2, <1>7
<1>9. ASSUME NEW i \in 1 .. Len(x) PROVE x[i] = y[i]
  <2>1. CASE i <= Len(s)
    BY <1>3, <1>5, <1>7, <2>1
  <2>2. CASE i > Len(s) /\ i <= Len(s) + n
    <3> DEFINE j == i - Len(s)
    <3>1. j \in 1 .. n /\ i = Len(s) + j /\ j \in 1 .. Len(t) /\ i \in 1 .. Len(u)
      BY <1>7, <2>2
    <3> HIDE DEF j
    <3>2. x[i] = t[j]
      BY <1>4, <3>1
    <3>3. y[i] = u[i] /\ u[i] = t[j]
      BY <1>5, <3>1
    <3> QED  BY <3>2, <3>3
  <2>3. CASE i > Len(s) + n
    <3> DEFINE j == i - Len(u)
    <3>1. j \in 1 .. Len(v) /\ i = Len(u) + j /\ n + j \in 1 .. Len(t) /\ i = Len(s) + (n + j)
      BY <1>1, <1>7, <2>3
    <3> HIDE DEF j
    <3>2. x[i] = t[n + j]
      BY <1>4, <3>1
    <3>3. y[i] = v[j] /\ v[j] = t[n + j]
      BY <1>6, <3>1
    <3> QED  BY <3>2, <3>3
  <2> QED  BY <1>1, <1>7, <2>1, <2>2, <2>3
<1>10. x = y
  BY <1>1, <1>2, <1>8, <1>9, SeqEqual
<1> QED  BY <1>10 DEF x, y

LEMMA AppendParts ==
    ASSUME NEW S, NEW s \in Seq(S), NEW x \in S, NEW t, t = Append(s, x)
    PROVE  /\ t \in Seq(S) /\ DOMAIN s = 1 .. Len(s) /\ DOMAIN t = 1 .. Len(s) + 1 /\ Len(s) \in Nat
           /\ t[Len(s) + 1] = x /\ \A i \in DOMAIN s : t[i] = s[i]
OBVIOUS

-----------------------------------------------------------------------------
(* Types.                                                                  *)

Wishes == [k : {"draw", "shutdown", "suspend", "resume", "redraw", "mouse"}, n : Nat]
Runtimes ==
    [phase : {"binding", "running", "closing", "over"}, life : {"running", "suspend_requested", "suspended"},
     gen : Nat, asked : Nat, draw : Nat, final : BOOLEAN, shut : BOOLEAN, edit : {"none", "asked", "editing"},
     end : {"no", "restored", "down", "timeout", "binding"}, out : Seq(Wishes)]

Operations == {"shutdown", "suspend", "resume", "redraw", "mouse"}
Commands == [k : Operations \cup {"init", "credit", "draw"}, n : Nat]
Results == [k : {"draw_result", "terminal_shutdown"}, draw : Nat]
Paints == [k : {"draw"}, n : Nat, draw : Nat]
Awaiting == [k : {"shutdown", "suspend", "resume"}, n : Nat]
Owners ==
    [alive : BOOLEAN,
     fail : {"no", "initialization", "call", "error", "protocol", "unavailable", "timeout"},
     phase : {"initializing", "running", "suspending", "suspended", "resuming", "closing", "restored", "left"},
     slot : BOOLEAN, gen : Nat, counter : Nat, seq : Nat, pending : Paints \cup {None}, replied : BOOLEAN,
     queued : Nat, credit : Nat, control : Awaiting \cup {None}, outbox : Seq(Operations), retry : BOOLEAN,
     timer : {"none", "init", "draw", "draw_hard", "suspend", "resume", "shutdown", "exit"},
     input : BOOLEAN, mouse : BOOLEAN, down : BOOLEAN, wire : Seq(Commands), told : Seq(Results)]

Notes == [k : {"error", "painted", "restored", "suspended", "input", "resume_needed"}, n : Nat]
         \cup [k : {"ready"}, n : Nat, mouse : BOOLEAN]
Helpers ==
    [st : {"new", "probing", "active", "stopped", "barrier", "suspended", "exited"},
     token : Nat, seq : Nat, credit : Nat, mouse : BOOLEAN, out : Seq(Notes)]

Worlds == [scenario : Scenarios, stimuli : Nat, inputs : Nat, busy : Nat]

Types == rt \in Runtimes /\ owner \in Owners /\ native \in Helpers /\ world \in Worlds

LEMMA NoneApart == None \notin Paints /\ None \notin Awaiting /\ None.k = "none"
BY DEF None, Paints, Awaiting

-----------------------------------------------------------------------------
(* What is on its way to the helper: the commands the port took, then those  *)
(* that wait for it.  A flush does not change it.                          *)

Due(o) == [i \in DOMAIN o.wire |-> o.wire[i].k] \o o.outbox

\* p has the parts of o that say where the owner is in its talks with the
\* runtime and the helper, and the draws.
SamePhase(o, p) ==
    /\ p.alive = o.alive /\ p.phase = o.phase /\ p.slot = o.slot /\ p.gen = o.gen /\ p.fail = o.fail
    /\ p.control.k = o.control.k /\ p.down = o.down
SameDraws(o, p) ==
    p.told = o.told /\ p.queued = o.queued /\ p.pending = o.pending /\ p.replied = o.replied
Longer(s, t) == \A i \in DOMAIN s : i \in DOMAIN t /\ t[i] = s[i]

Kinds == Operations \cup {"init", "credit", "draw"}

\* The kinds of a sequence of commands.
LEMMA KindsOf ==
    ASSUME NEW w \in Seq(Commands)
    PROVE  [i \in DOMAIN w |-> w[i].k] \in Seq(Kinds) /\ Len([i \in DOMAIN w |-> w[i].k]) = Len(w)
<1>1. \A i \in DOMAIN w : w[i] \in Commands
  <2> HIDE DEF Commands
  <2> QED  OBVIOUS
<1>2. \A i \in DOMAIN w : w[i].k \in Kinds
  BY <1>1 DEF Commands, Kinds
<1> HIDE DEF Commands, Kinds
<1> QED  BY <1>2

LEMMA DueType ==
    ASSUME NEW o \in Owners
    PROVE  /\ Due(o) \in Seq(Kinds) /\ Len(Due(o)) = Len(o.wire) + Len(o.outbox)
           /\ \A i \in DOMAIN o.wire : i \in DOMAIN Due(o) /\ Due(o)[i] = o.wire[i].k
           /\ \A i \in DOMAIN o.outbox : Len(o.wire) + i \in DOMAIN Due(o) /\ Due(o)[Len(o.wire) + i] = o.outbox[i]
<1> DEFINE ks == [i \in DOMAIN o.wire |-> o.wire[i].k]
<1>1. o.wire \in Seq(Commands) /\ o.outbox \in Seq(Operations)
  BY DEF Owners
<1>2. \A i \in DOMAIN o.wire : o.wire[i] \in Commands
  <2> HIDE DEF Commands
  <2> QED  BY <1>1
<1>3. \A i \in DOMAIN o.wire : o.wire[i].k \in Kinds
  BY <1>2 DEF Commands, Kinds
<1>4. ks \in Seq(Kinds) /\ Len(ks) = Len(o.wire) /\ DOMAIN ks = DOMAIN o.wire
  <2> HIDE DEF Commands, Kinds
  <2> QED  BY <1>1, <1>3
<1>5. o.outbox \in Seq(Kinds)
  BY <1>1 DEF Kinds
<1>6. \A i \in DOMAIN o.wire : ks[i] = o.wire[i].k
  OBVIOUS
<1>7. DOMAIN o.outbox = 1 .. Len(o.outbox) /\ DOMAIN ks = 1 .. Len(ks) /\ Len(ks) \in Nat /\ Len(o.outbox) \in Nat
  BY <1>4, <1>5
<1> HIDE DEF ks, Kinds
<1>8. ks \o o.outbox \in Seq(Kinds) /\ Len(ks \o o.outbox) = Len(ks) + Len(o.outbox)
  BY <1>4, <1>5, ConcatProperties
<1>9. /\ \A i \in DOMAIN ks : i \in DOMAIN (ks \o o.outbox) /\ (ks \o o.outbox)[i] = ks[i]
      /\ \A i \in DOMAIN o.outbox : Len(ks) + i \in DOMAIN (ks \o o.outbox) /\ (ks \o o.outbox)[Len(ks) + i] = o.outbox[i]
  BY <1>4, <1>5, <1>7
<1> QED  BY <1>4, <1>6, <1>8, <1>9 DEF Due, ks

\* A reply to the runtime changes nothing else.
LEMMA ReplyOwner ==
    ASSUME NEW o \in Owners, NEW d \in Nat, NEW p, p = Reply(o, d)
    PROVE  /\ p \in Owners /\ SamePhase(o, p) /\ p.wire = o.wire /\ p.outbox = o.outbox
           /\ p.told = Append(o.told, [k |-> "draw_result", draw |-> d])
           /\ p.queued = o.queued /\ p.pending = o.pending /\ p.replied = o.replied /\ p.seq = o.seq
<1> DEFINE x == [k |-> "draw_result", draw |-> d]
<1>1. x \in Results
  BY DEF Results
<1>2. p = [o EXCEPT !.told = Append(@, x)]
  BY DEF Reply
<1> HIDE DEF x
<1>3. Append(o.told, x) \in Seq(Results)
  <2> HIDE DEF Results
  <2> QED  BY <1>1 DEF Owners
<1>4. p \in Owners
  <2> HIDE DEF Results
  <2> QED  BY <1>2, <1>3 DEF Owners
<1>5. /\ SamePhase(o, p) /\ p.wire = o.wire /\ p.outbox = o.outbox
      /\ p.told = Append(o.told, x) /\ p.seq = o.seq
      /\ p.queued = o.queued /\ p.pending = o.pending /\ p.replied = o.replied
  BY <1>2 DEF Owners, SamePhase
<1> QED  BY <1>4, <1>5 DEF x

LEMMA Unqueued ==
    ASSUME NEW o \in Owners, NEW p, p = [o EXCEPT !.queued = 0]
    PROVE  /\ p \in Owners /\ SamePhase(o, p) /\ p.wire = o.wire /\ p.outbox = o.outbox /\ p.queued = 0
           /\ p.told = o.told /\ p.pending = o.pending /\ p.replied = o.replied /\ p.seq = o.seq
<1>1. p \in Owners
  BY DEF Owners
<1> QED  BY <1>1 DEF Owners, SamePhase

LEMMA DropOwner ==
    ASSUME NEW o \in Owners, NEW p, p = DropQueued(o)
    PROVE  /\ p \in Owners /\ SamePhase(o, p) /\ p.wire = o.wire /\ p.outbox = o.outbox
           /\ p.told = IF o.queued = 0 THEN o.told ELSE Append(o.told, [k |-> "draw_result", draw |-> o.queued])
           /\ p.queued = 0 /\ p.pending = o.pending /\ p.replied = o.replied /\ p.seq = o.seq
<1>1. CASE o.queued = 0
  BY <1>1 DEF DropQueued, SamePhase
<1>2. CASE o.queued # 0
  <2> DEFINE q == Reply(o, o.queued)
  <2>1. o.queued \in Nat
    BY DEF Owners
  <2>2. /\ q \in Owners /\ SamePhase(o, q) /\ q.wire = o.wire /\ q.outbox = o.outbox
        /\ q.told = Append(o.told, [k |-> "draw_result", draw |-> o.queued])
        /\ q.queued = o.queued /\ q.pending = o.pending /\ q.replied = o.replied /\ q.seq = o.seq
    <3> HIDE DEF Owners
    <3> QED  BY <2>1, ReplyOwner
  <2>3. p = [q EXCEPT !.queued = 0]
    BY <1>2 DEF DropQueued
  <2> HIDE DEF q, Owners
  <2>4. p \in Owners /\ p.queued = 0 /\ SamePhase(q, p) /\ p.wire = q.wire /\ p.outbox = q.outbox
        /\ p.told = q.told /\ p.pending = q.pending /\ p.replied = q.replied /\ p.seq = q.seq
    BY <2>2, <2>3, Unqueued
  <2> QED  BY <1>2, <2>2, <2>4 DEF SamePhase
<1> QED  BY <1>1, <1>2

\* One command more on the wire, behind an outbox that is empty.
LEMMA WireMore ==
    ASSUME NEW o \in Owners, o.outbox = <<>>, NEW c \in Commands,
           NEW p, p.wire = Append(o.wire, c), p.outbox = o.outbox, p \in Owners
    PROVE  Due(p) = Append(Due(o), c.k) /\ Longer(o.wire, p.wire)
           /\ p.wire[Len(o.wire) + 1] = c /\ Len(o.wire) + 1 \in DOMAIN p.wire
<1>1. o.wire \in Seq(Commands)
  BY DEF Owners
<1>2. /\ Len(p.wire) = Len(o.wire) + 1 /\ p.wire[Len(o.wire) + 1] = c /\ Len(o.wire) \in Nat
      /\ DOMAIN o.wire = 1 .. Len(o.wire) /\ DOMAIN p.wire = 1 .. Len(p.wire)
      /\ \A i \in DOMAIN o.wire : p.wire[i] = o.wire[i]
  <2> HIDE DEF Commands
  <2> QED  BY <1>1
<1>3. Due(o) \in Seq(Kinds) /\ Due(p) \in Seq(Kinds) /\ c.k \in Kinds
  <2>1. c.k \in Kinds
    BY DEF Commands, Kinds
  <2> QED  BY <2>1, DueType
<1>4. /\ Len(Due(o)) = Len(o.wire) /\ Len(Due(p)) = Len(p.wire)
      /\ \A i \in DOMAIN o.wire : Due(o)[i] = o.wire[i].k
      /\ \A i \in DOMAIN p.wire : Due(p)[i] = p.wire[i].k
  <2>1. Len(o.outbox) = 0 /\ Len(p.outbox) = 0
    OBVIOUS
  <2> HIDE DEF Owners
  <2>2. Len(Due(o)) = Len(o.wire) /\ \A i \in DOMAIN o.wire : Due(o)[i] = o.wire[i].k
    <3>1. Len(Due(o)) = Len(o.wire) + Len(o.outbox)
      BY DueType
    <3>2. \A i \in DOMAIN o.wire : Due(o)[i] = o.wire[i].k
      BY DueType
    <3> QED  BY <1>2, <2>1, <3>1, <3>2
  <2>3. Len(Due(p)) = Len(p.wire) /\ \A i \in DOMAIN p.wire : Due(p)[i] = p.wire[i].k
    <3>1. Len(Due(p)) = Len(p.wire) + Len(p.outbox)
      BY DueType
    <3>2. \A i \in DOMAIN p.wire : Due(p)[i] = p.wire[i].k
      BY DueType
    <3> QED  BY <1>2, <2>1, <3>1, <3>2
  <2> QED  BY <2>2, <2>3
<1> DEFINE s == Due(o)
           t == Due(p)
           u == Append(s, c.k)
<1>5. /\ u \in Seq(Kinds) /\ Len(u) = Len(s) + 1 /\ u[Len(s) + 1] = c.k
      /\ \A i \in 1 .. Len(s) : u[i] = s[i]
  <2> HIDE DEF s, Kinds
  <2> QED  BY <1>3 DEF s
<1>6. Len(t) = Len(u) /\ \A i \in 1 .. Len(t) : t[i] = u[i]
  <2> HIDE DEF u
  <2> QED  BY <1>2, <1>4, <1>5
<1>7. t = u
  <2> HIDE DEF t, u, Kinds
  <2> QED  BY <1>3, <1>5, <1>6, SeqEqual DEF t
<1> QED  BY <1>2, <1>7 DEF Longer

\* The flags of an owner may be either.
LEMMA FlaggedOwner ==
    ASSUME NEW o \in Owners, NEW m, m = TRUE \/ m = FALSE, NEW r, r = TRUE \/ r = FALSE,
           NEW p, p = [o EXCEPT !.mouse = m, !.retry = r]
    PROVE  p \in Owners
<1> HIDE DEF Operations, Commands, Awaiting, None, Paints, Results
<1>1. CASE m = TRUE /\ r = TRUE
  BY <1>1 DEF Owners
<1>2. CASE m = TRUE /\ r = FALSE
  BY <1>2, ZenonT(60) DEF Owners
<1>3. CASE m = FALSE /\ r = TRUE
  BY <1>3, ZenonT(60) DEF Owners
<1>4. CASE m = FALSE /\ r = FALSE
  BY <1>4, ZenonT(60) DEF Owners
<1> QED  BY <1>1, <1>2, <1>3, <1>4

\* flush/1 only moves the border between the wire and the outbox.
LEMMA FlushOwner ==
    ASSUME NEW o \in Owners, NEW n \in 0 .. Len(o.outbox), NEW p, p = Flush(o, n)
    PROVE  p \in Owners /\ SamePhase(o, p) /\ SameDraws(o, p) /\ Longer(o.wire, p.wire) /\ Due(p) = Due(o)
<1> DEFINE sent == SubSeq(o.outbox, 1, n)
           rest == SubSeq(o.outbox, n + 1, Len(o.outbox))
           awaited == {i \in 1 .. n : o.control = [k |-> sent[i], n |-> 0]}
           more == [i \in 1 .. n |-> [k |-> sent[i], n |-> o.counter + i]]
           wire == o.wire \o more
           control == IF awaited = {} THEN o.control
                      ELSE [o.control EXCEPT !.n = o.counter + (CHOOSE i \in awaited : TRUE)]
           mouse == IF Contains(sent, "mouse") THEN ~o.mouse ELSE o.mouse
           retry == o.retry \/ rest # <<>>
<1>1. /\ o.outbox \in Seq(Operations) /\ o.wire \in Seq(Commands) /\ o.counter \in Nat
      /\ o.control \in Awaiting \cup {None}
  BY DEF Owners
<1>0. n \in Nat /\ Len(o.outbox) \in Nat /\ n <= Len(o.outbox)
  BY <1>1
<1>2. /\ sent \in Seq(Operations) /\ Len(sent) = n /\ \A i \in 1 .. n : sent[i] = o.outbox[i] /\ sent[i] \in Operations
      /\ rest \in Seq(Operations) /\ Len(rest) = Len(o.outbox) - n
      /\ \A i \in 1 .. Len(rest) : rest[i] = o.outbox[n + i]
  <2> HIDE DEF Operations
  <2>1. sent \in Seq(Operations) /\ Len(sent) = n /\ \A i \in 1 .. n : sent[i] = o.outbox[i]
    BY <1>0, <1>1
  <2>2. \A i \in 1 .. n : o.outbox[i] \in Operations
    BY <1>0, <1>1
  <2>3. /\ rest \in Seq(Operations) /\ Len(rest) = Len(o.outbox) - n
        /\ \A i \in 1 .. Len(rest) : rest[i] = o.outbox[n + i]
    BY <1>0, <1>1
  <2> QED  BY <2>1, <2>2, <2>3
<1>7. p = [o EXCEPT !.counter = o.counter + n, !.wire = wire, !.control = control, !.mouse = mouse,
                    !.outbox = rest, !.retry = retry]
  BY DEF Flush, SendControls, Owners
<1> HIDE DEF sent, rest
<1>3. more \in Seq(Commands) /\ Len(more) = n /\ \A i \in 1 .. n : more[i].k = o.outbox[i]
  <2>1. \A i \in 1 .. n : [k |-> sent[i], n |-> o.counter + i] \in Commands
    BY <1>1, <1>2, <1>0 DEF Commands
  <2> HIDE DEF Commands
  <2> QED  BY <1>0, <1>2, <2>1
<1> HIDE DEF more
<1>4. /\ wire \in Seq(Commands) /\ Len(wire) = Len(o.wire) + n
      /\ \A i \in 1 .. Len(o.wire) : wire[i] = o.wire[i]
      /\ \A i \in 1 .. n : wire[Len(o.wire) + i] = more[i]
  <2> HIDE DEF Commands
  <2>1. wire \in Seq(Commands) /\ Len(wire) = Len(o.wire) + n
    BY <1>1, <1>3, ConcatProperties
  <2>2. \A i \in 1 .. Len(o.wire) : wire[i] = o.wire[i]
    BY <1>1, <1>3, JoinParts
  <2>3. \A i \in 1 .. n : wire[Len(o.wire) + i] = more[i]
    BY <1>1, <1>3, JoinParts
  <2> QED  BY <2>1, <2>2, <2>3
<1>5. control \in Awaiting \cup {None} /\ control.k = o.control.k
  <2>1. CASE awaited = {}
    BY <1>1, <2>1
  <2>2. CASE awaited # {}
    <3> DEFINE j == CHOOSE i \in awaited : TRUE
    <3>1. j \in awaited
      BY <2>2
    <3>2. j \in Nat /\ o.control = [k |-> sent[j], n |-> 0]
      BY <1>0, <3>1
    <3>3. control = [o.control EXCEPT !.n = o.counter + j]
      BY <2>2
    <3> HIDE DEF j, control, awaited
    <3>4. o.control # None
      <4>1. DOMAIN o.control = {"k", "n"} /\ DOMAIN None = {"k"}
        BY <3>2 DEF None
      <4>2. "n" \in DOMAIN o.control /\ "n" \notin DOMAIN None
        BY <4>1
      <4> QED  BY <4>2
    <3>5. o.control \in Awaiting
      BY <1>1, <3>4
    <3>6. o.counter + j \in Nat
      BY <1>1, <3>2
    <3> QED  BY <3>3, <3>5, <3>6 DEF Awaiting
  <2> QED  BY <2>1, <2>2
<1>6. mouse \in BOOLEAN /\ retry \in BOOLEAN /\ o.counter + n \in Nat
  <2>1. o.mouse \in BOOLEAN /\ o.retry \in BOOLEAN
    BY DEF Owners
  <2>2. o.counter + n \in Nat
    BY <1>0, <1>1
  <2>3. mouse \in BOOLEAN
    BY <2>1, Zenon
  <2>4. retry \in BOOLEAN
    BY <2>1, Zenon
  <2> QED  BY <2>2, <2>3, <2>4
<1> HIDE DEF awaited, wire, control, mouse, retry
<1>8. p \in Owners
  <2>1. rest \in Seq(Operations) /\ wire \in Seq(Commands) /\ control \in Awaiting \cup {None}
    BY <1>2, <1>4, <1>5
  <2> DEFINE q == [o EXCEPT !.counter = o.counter + n, !.wire = wire, !.control = control, !.outbox = rest]
  <2>2. q \in Owners
    <3> HIDE DEF Operations, Commands, Awaiting, None, Paints, Results
    <3> QED  BY <1>6, <2>1 DEF Owners
  <2>3. p = [q EXCEPT !.mouse = mouse, !.retry = retry]
    BY <1>7 DEF Owners
  <2>4. (mouse = TRUE \/ mouse = FALSE) /\ (retry = TRUE \/ retry = FALSE)
    BY <1>6
  <2> HIDE DEF q, Owners
  <2> QED  BY <2>2, <2>3, <2>4, FlaggedOwner, Zenon
<1>9. p.wire = wire /\ p.outbox = rest /\ p.control = control
  BY <1>7 DEF Owners
<1>12. SamePhase(o, p) /\ SameDraws(o, p)
  BY <1>5, <1>7 DEF Owners, SamePhase, SameDraws
<1>10. Longer(o.wire, p.wire)
  <2>1. DOMAIN o.wire = 1 .. Len(o.wire) /\ DOMAIN wire = 1 .. Len(wire) /\ Len(o.wire) \in Nat
    <3> HIDE DEF Commands
    <3> QED  BY <1>1, <1>4
  <2> QED  BY <1>0, <1>4, <1>9, <2>1 DEF Longer
<1>11. Due(p) = Due(o)
  <2> DEFINE s == [i \in DOMAIN o.wire |-> o.wire[i].k]
             u == [i \in DOMAIN wire |-> wire[i].k]
  <2>1. /\ s \in Seq(Kinds) /\ Len(s) = Len(o.wire) /\ u \in Seq(Kinds) /\ Len(u) = Len(wire)
        /\ o.outbox \in Seq(Kinds) /\ rest \in Seq(Kinds)
    <3>1. s \in Seq(Kinds) /\ Len(s) = Len(o.wire)
      BY <1>1, KindsOf
    <3>2. u \in Seq(Kinds) /\ Len(u) = Len(wire)
      BY <1>4, KindsOf
    <3>3. o.outbox \in Seq(Kinds) /\ rest \in Seq(Kinds)
      BY <1>1, <1>2 DEF Kinds
    <3> QED  BY <3>1, <3>2, <3>3
  <2>2. \A i \in 1 .. Len(s) : u[i] = s[i]
    <3>1. DOMAIN o.wire = 1 .. Len(o.wire) /\ DOMAIN wire = 1 .. Len(wire) /\ Len(o.wire) \in Nat
      <4> HIDE DEF Commands
      <4> QED  BY <1>1, <1>4
    <3>2. ASSUME NEW i \in 1 .. Len(s) PROVE u[i] = s[i]
      <4>1. i \in DOMAIN o.wire /\ i \in DOMAIN wire
        BY <1>0, <1>4, <2>1, <3>1
      <4>2. wire[i] = o.wire[i]
        BY <1>4, <3>1, <4>1
      <4> QED  BY <4>1, <4>2
    <3> QED  BY <3>2
  <2>3. \A i \in 1 .. n : u[Len(s) + i] = o.outbox[i]
    <3>1. DOMAIN wire = 1 .. Len(wire) /\ Len(o.wire) \in Nat
      <4> HIDE DEF Commands
      <4> QED  BY <1>1, <1>4
    <3>2. \A i \in 1 .. n : Len(s) + i \in DOMAIN wire
      BY <1>0, <1>4, <2>1, <3>1
    <3> QED  BY <1>3, <1>4, <2>1, <3>2
  <2>4. Due(o) = s \o o.outbox /\ Due(p) = u \o rest
    BY <1>9 DEF Due
  <2>5. Len(u) = Len(s) + n /\ Len(rest) = Len(o.outbox) - n /\ \A i \in 1 .. Len(rest) : rest[i] = o.outbox[n + i]
    BY <1>2, <1>4, <2>1
  <2> HIDE DEF s, u, Kinds
  <2>6. u \o rest = s \o o.outbox
    <3>1. n \in 0 .. Len(o.outbox)
      OBVIOUS
    <3> QED  BY <2>1, <2>2, <2>3, <2>5, <3>1, BorderMoves, Zenon
  <2> QED  BY <2>4, <2>6
<1> QED  BY <1>8, <1>10, <1>11, <1>12

-----------------------------------------------------------------------------
(* What a sequence has, and has once; and parts of a sequence.             *)

Lacks(s, K) == \A i \in DOMAIN s : s[i] \notin K
Once(s, K) == \A i, j \in DOMAIN s : s[i] \in K /\ s[j] \in K => i = j

\* t is s without some of its elements.
Part(t, s) ==
    \E f \in [DOMAIN t -> DOMAIN s] :
       /\ \A i \in DOMAIN t : t[i] = s[f[i]]
       /\ \A i, j \in DOMAIN t : i < j => f[i] < f[j]

LEMMA PartKeeps ==
    ASSUME NEW S, NEW s \in Seq(S), NEW t \in Seq(S), Part(t, s), NEW K
    PROVE  (Lacks(s, K) => Lacks(t, K)) /\ (Once(s, K) => Once(t, K))
<1>1. PICK f \in [DOMAIN t -> DOMAIN s] :
         /\ \A i \in DOMAIN t : t[i] = s[f[i]]
         /\ \A i, j \in DOMAIN t : i < j => f[i] < f[j]
  BY DEF Part
<1>2. \A i, j \in DOMAIN t : f[i] = f[j] => i = j
  <2>1. \A i \in DOMAIN t : f[i] \in DOMAIN s
    BY <1>1
  <2>2. DOMAIN t \subseteq Nat /\ DOMAIN s \subseteq Nat
    OBVIOUS
  <2>3. ASSUME NEW i \in DOMAIN t, NEW j \in DOMAIN t, f[i] = f[j] PROVE i = j
    <3>1. ~(i < j) /\ ~(j < i)
      BY <1>1, <2>1, <2>2, <2>3
    <3> QED  BY <2>2, <3>1
  <2> QED  BY <2>3
<1>3. ASSUME Lacks(s, K) PROVE Lacks(t, K)
  BY <1>1, <1>3 DEF Lacks
<1>4. ASSUME Once(s, K) PROVE Once(t, K)
  <2>1. ASSUME NEW i \in DOMAIN t, NEW j \in DOMAIN t, t[i] \in K, t[j] \in K PROVE i = j
    <3>1. f[i] \in DOMAIN s /\ f[j] \in DOMAIN s /\ s[f[i]] \in K /\ s[f[j]] \in K
      BY <1>1, <2>1
    <3>2. f[i] = f[j]
      BY <1>4, <3>1 DEF Once
    <3> QED  BY <1>2, <3>2
  <2> QED  BY <2>1 DEF Once
<1> QED  BY <1>3, <1>4

LEMMA PartOfItself ==
    ASSUME NEW S, NEW s \in Seq(S)
    PROVE  Part(s, s)
<1> DEFINE f == [i \in DOMAIN s |-> i]
<1>1. f \in [DOMAIN s -> DOMAIN s]
  OBVIOUS
<1>2. \A i \in DOMAIN s : s[i] = s[f[i]]
  OBVIOUS
<1>3. \A i, j \in DOMAIN s : i < j => f[i] < f[j]
  OBVIOUS
<1> HIDE DEF f
<1> QED  BY <1>1, <1>2, <1>3 DEF Part

LEMMA TailPart ==
    ASSUME NEW S, NEW s \in Seq(S), s # <<>>
    PROVE  Tail(s) \in Seq(S) /\ Part(Tail(s), s)
<1> DEFINE t == Tail(s)
           f == [i \in DOMAIN t |-> i + 1]
<1>1. t \in Seq(S) /\ DOMAIN t = 1 .. (Len(s) - 1) /\ DOMAIN s = 1 .. Len(s) /\ Len(s) \in Nat
      /\ \A i \in DOMAIN t : t[i] = s[i + 1]
  OBVIOUS
<1> HIDE DEF t
<1>2. f \in [DOMAIN t -> DOMAIN s] /\ \A i \in DOMAIN t : f[i] = i + 1
  BY <1>1
<1> HIDE DEF f
<1>3. \A i \in DOMAIN t : t[i] = s[f[i]]
  BY <1>1, <1>2
<1>4. \A i, j \in DOMAIN t : i < j => f[i] < f[j]
  BY <1>1, <1>2
<1>5. Part(t, s)
  BY <1>2, <1>3, <1>4 DEF Part
<1> QED  BY <1>1, <1>5 DEF t

\* The first part of a sequence of two.
LEMMA FirstPart ==
    ASSUME NEW S, NEW s \in Seq(S), NEW t \in Seq(S)
    PROVE  Part(s, s \o t)
<1> DEFINE u == s \o t
           f == [i \in DOMAIN s |-> i]
<1>1. \A i \in 1 .. Len(s) : i \in DOMAIN u /\ u[i] = s[i]
  BY JoinParts
<1>2. DOMAIN s = 1 .. Len(s) /\ Len(s) \in Nat
  OBVIOUS
<1> HIDE DEF u
<1>3. f \in [DOMAIN s -> DOMAIN u] /\ \A i \in DOMAIN s : f[i] = i
  BY <1>1, <1>2
<1> HIDE DEF f
<1>4. \A i \in DOMAIN s : s[i] = u[f[i]]
  BY <1>1, <1>2, <1>3
<1>5. \A i, j \in DOMAIN s : i < j => f[i] < f[j]
  BY <1>2, <1>3
<1>6. Part(s, u)
  BY <1>3, <1>4, <1>5 DEF Part
<1> QED  BY <1>6 DEF u

\* A sequence without one element of its second part.
LEMMA RemovalPart ==
    ASSUME NEW S, NEW s \in Seq(S), NEW t \in Seq(S), NEW i \in DOMAIN t
    PROVE  RemoveAt(t, i) \in Seq(S) /\ Part(s \o RemoveAt(t, i), s \o t)
<1> DEFINE r == RemoveAt(t, i)
           a == SubSeq(t, 1, i - 1)
           b == SubSeq(t, i + 1, Len(t))
<1>1. i \in Nat /\ 1 <= i /\ i <= Len(t) /\ Len(t) \in Nat /\ Len(s) \in Nat
  OBVIOUS
<1>2. a \in Seq(S) /\ Len(a) = i - 1 /\ \A j \in 1 .. i - 1 : a[j] = t[j]
  BY <1>1
<1>3. b \in Seq(S) /\ Len(b) = Len(t) - i /\ \A j \in 1 .. Len(t) - i : b[j] = t[i + j]
  BY <1>1
<1>4. r = a \o b
  BY DEF RemoveAt
<1> HIDE DEF r, a, b
<1>5. r \in Seq(S) /\ Len(r) = Len(t) - 1
  <2>1. r \in Seq(S) /\ Len(r) = Len(a) + Len(b)
    BY <1>2, <1>3, <1>4, ConcatProperties
  <2> QED  BY <1>1, <1>2, <1>3, <2>1
<1>6. \A j \in 1 .. i - 1 : r[j] = t[j]
  <2>1. \A j \in 1 .. Len(a) : r[j] = a[j]
    BY <1>2, <1>3, <1>4, JoinParts
  <2> QED  BY <1>1, <1>2, <2>1
<1>7. \A j \in i .. Len(r) : r[j] = t[j + 1]
  <2>1. \A j \in 1 .. Len(b) : r[Len(a) + j] = b[j]
    <3>1. ASSUME NEW j \in 1 .. Len(b) PROVE (a \o b)[Len(a) + j] = b[j]
      <4>1. a \in Seq(S) /\ b \in Seq(S)
        BY <1>2, <1>3
      <4> QED  BY <4>1, JoinSecond
    <3> QED  BY <1>4, <3>1
  <2>2. ASSUME NEW j \in i .. Len(r) PROVE r[j] = t[j + 1]
    <3> DEFINE x == j - (i - 1)
    <3>0. j \in Nat /\ i <= j /\ j <= Len(t) - 1
      BY <1>1, <1>5
    <3>2. Len(a) = i - 1 /\ Len(b) = Len(t) - i
      BY <1>2, <1>3
    <3>1. x \in 1 .. Len(t) - i /\ j = (i - 1) + x /\ i + x = j + 1
      BY <1>1, <3>0
    <3> HIDE DEF x
    <3>3. x \in 1 .. Len(b) /\ j = Len(a) + x
      BY <3>1, <3>2
    <3> QED  BY <1>3, <2>1, <3>1, <3>3
  <2> QED  BY <2>2
<1> DEFINE u == s \o r
           v == s \o t
           f == [j \in DOMAIN u |-> IF j < Len(s) + i THEN j ELSE j + 1]
<1>8. DOMAIN u = 1 .. Len(s) + Len(r) /\ DOMAIN v = 1 .. Len(s) + Len(t)
  <2>1. u \in Seq(S) /\ Len(u) = Len(s) + Len(r)
    BY <1>5, ConcatProperties
  <2>2. v \in Seq(S) /\ Len(v) = Len(s) + Len(t)
    BY ConcatProperties
  <2> HIDE DEF u, v
  <2>3. DOMAIN u = 1 .. Len(u) /\ DOMAIN v = 1 .. Len(v)
    BY <2>1, <2>2
  <2> QED  BY <2>1, <2>2, <2>3
<1>9. \A j \in 1 .. Len(s) : u[j] = s[j] /\ v[j] = s[j]
  <2>1. \A j \in 1 .. Len(s) : u[j] = s[j]
    BY <1>5, JoinParts
  <2>2. \A j \in 1 .. Len(s) : v[j] = s[j]
    BY JoinParts
  <2> QED  BY <2>1, <2>2
<1>10. \A j \in 1 .. Len(r) : u[Len(s) + j] = r[j]
  BY <1>5, JoinParts
<1>11. \A j \in 1 .. Len(t) : v[Len(s) + j] = t[j]
  BY JoinParts
<1> HIDE DEF u, v
<1>12. f \in [DOMAIN u -> DOMAIN v] /\ \A j \in DOMAIN u : f[j] = IF j < Len(s) + i THEN j ELSE j + 1
  BY <1>1, <1>5, <1>8
<1> HIDE DEF f
<1>13. ASSUME NEW j \in DOMAIN u PROVE u[j] = v[f[j]]
  <2>0. j \in Nat /\ 1 <= j /\ j <= Len(s) + Len(r)
    BY <1>1, <1>5, <1>8
  <2>1. CASE j <= Len(s)
    <3>1. f[j] = j
      BY <1>1, <1>12, <2>0, <2>1
    <3> QED  BY <1>1, <1>9, <2>0, <2>1, <3>1
  <2>2. CASE j > Len(s)
    <3> DEFINE x == j - Len(s)
    <3>0. Len(r) = Len(t) - 1
      BY <1>5
    <3>1. x \in 1 .. Len(r) /\ j = Len(s) + x /\ x \in 1 .. Len(t) /\ x + 1 \in 1 .. Len(t)
      BY <1>1, <2>0, <2>2, <3>0, SMTT(40)
    <3> HIDE DEF x
    <3>2. u[j] = r[x]
      BY <1>10, <3>1
    <3>3. CASE x < i
      <4>1. f[j] = j /\ x \in 1 .. i - 1
        BY <1>1, <1>12, <2>0, <3>1, <3>3
      <4>2. v[j] = t[x]
        BY <1>11, <3>1
      <4> QED  BY <1>6, <3>2, <4>1, <4>2
    <3>4. CASE x >= i
      <4>1. f[j] = Len(s) + (x + 1) /\ x \in i .. Len(r)
        BY <1>1, <1>5, <1>12, <2>0, <3>1, <3>4
      <4>2. v[Len(s) + (x + 1)] = t[x + 1]
        BY <1>11, <3>1
      <4> QED  BY <1>7, <3>2, <4>1, <4>2
    <3> QED  BY <1>1, <3>1, <3>3, <3>4
  <2> QED  BY <1>1, <2>0, <2>1, <2>2
<1>14. \A j, k \in DOMAIN u : j < k => f[j] < f[k]
  BY <1>1, <1>5, <1>8, <1>12
<1>15. Part(u, v)
  BY <1>12, <1>13, <1>14 DEF Part
<1> QED  BY <1>5, <1>15 DEF u, v, r

\* t is a part of s, with one element of K more at the end perhaps.
Grows(S, s, t, K) ==
    \E u \in Seq(S) : Part(u, s) /\ (t = u \/ \E k \in K : t = Append(u, k))

LEMMA GrowsKeeps ==
    ASSUME NEW S, NEW s \in Seq(S), NEW t \in Seq(S), NEW K, Grows(S, s, t, K), NEW L
    PROVE  /\ K \cap L = {} /\ Lacks(s, L) => Lacks(t, L)
           /\ K \cap L = {} /\ Once(s, L) => Once(t, L)
           /\ Lacks(s, L) => Once(t, L)
<1>1. PICK u \in Seq(S) : Part(u, s) /\ (t = u \/ \E k \in K : t = Append(u, k))
  BY DEF Grows
<1>2. (Lacks(s, L) => Lacks(u, L)) /\ (Once(s, L) => Once(u, L))
  BY <1>1, PartKeeps
<1>3. Lacks(u, L) => Once(u, L)
  BY DEF Lacks, Once
<1>4. CASE t = u
  BY <1>2, <1>3, <1>4
<1>5. ASSUME NEW k \in K, t = Append(u, k)
      PROVE  /\ K \cap L = {} /\ Lacks(u, L) => Lacks(t, L)
             /\ K \cap L = {} /\ Once(u, L) => Once(t, L)
             /\ Lacks(u, L) => Once(t, L)
  <2>1. DOMAIN t = 1 .. Len(u) + 1 /\ DOMAIN u = 1 .. Len(u) /\ Len(u) \in Nat /\ t[Len(u) + 1] = k
        /\ \A i \in DOMAIN u : t[i] = u[i]
    BY <1>5
  <2>2. \A i \in DOMAIN t : i \in DOMAIN u \/ i = Len(u) + 1
    BY <2>1
  <2>3. K \cap L = {} => k \notin L
    OBVIOUS
  <2>4. K \cap L = {} /\ Lacks(u, L) => Lacks(t, L)
    BY <2>1, <2>2, <2>3 DEF Lacks
  <2>5. K \cap L = {} /\ Once(u, L) => Once(t, L)
    BY <2>1, <2>2, <2>3 DEF Once
  <2>6. Lacks(u, L) => Once(t, L)
    BY <2>1, <2>2 DEF Lacks, Once
  <2> QED  BY <2>4, <2>5, <2>6
<1> QED  BY <1>1, <1>2, <1>4, <1>5

\* What a sequence has once and has first, its rest does not have.
LEMMA OnceFirst ==
    ASSUME NEW S, NEW s \in Seq(S), s # <<>>, NEW K, Once(s, K), s[1] \in K
    PROVE  Lacks(Tail(s), K) /\ ~Lacks(s, K)
<1> DEFINE t == Tail(s)
<1>1. \A i \in DOMAIN t : i \in Nat /\ i > 0 /\ i + 1 \in DOMAIN s /\ t[i] = s[i + 1]
  OBVIOUS
<1>2. 1 \in DOMAIN s
  OBVIOUS
<1>3. ASSUME NEW i \in DOMAIN t, t[i] \in K PROVE FALSE
  <2>1. i + 1 \in DOMAIN s /\ s[i + 1] \in K /\ i \in Nat /\ i > 0
    BY <1>1, <1>3
  <2>2. i + 1 = 1
    BY <1>2, <2>1 DEF Once
  <2> QED  BY <2>1, <2>2
<1> QED  BY <1>2, <1>3 DEF Lacks

-----------------------------------------------------------------------------
(* What the owner may do in one step of its port: part of what was under     *)
(* way stays under way, and one command of K may follow.                   *)

Talks(o, p, K) ==
    p \in Owners /\ SamePhase(o, p) /\ Longer(o.wire, p.wire) /\ Grows(Kinds, Due(o), Due(p), K)

LEMMA GrowsAsBefore ==
    ASSUME NEW S, NEW s \in Seq(S), NEW K
    PROVE  Grows(S, s, s, K)
BY PartOfItself DEF Grows

LEMMA GrowsByOne ==
    ASSUME NEW S, NEW s \in Seq(S), NEW k, NEW K, k \in K
    PROVE  Grows(S, s, Append(s, k), K)
BY PartOfItself DEF Grows

LEMMA TalksAsBefore ==
    ASSUME NEW o \in Owners, NEW p \in Owners, SamePhase(o, p), Longer(o.wire, p.wire), Due(p) = Due(o), NEW K
    PROVE  Talks(o, p, K)
<1>1. Due(o) \in Seq(Kinds)
  BY DueType
<1> HIDE DEF Owners, Kinds
<1>2. Grows(Kinds, Due(o), Due(p), K)
  BY <1>1, GrowsAsBefore
<1> QED  BY <1>2 DEF Talks

LEMMA TalksMore ==
    ASSUME NEW o \in Owners, NEW p \in Owners, SamePhase(o, p), Longer(o.wire, p.wire),
           NEW k, NEW K, k \in K, Due(p) = Append(Due(o), k)
    PROVE  Talks(o, p, K)
<1>1. Due(o) \in Seq(Kinds)
  BY DueType
<1> HIDE DEF Owners, Kinds
<1>2. Grows(Kinds, Due(o), Append(Due(o), k), K)
  BY <1>1, GrowsByOne
<1> QED  BY <1>2 DEF Talks

\* enqueue/2
LEMMA EnqueueOwner ==
    ASSUME NEW o \in Owners, NEW op \in Operations, NEW p, p = Enqueue(o, op)
    PROVE  Talks(o, p, {op}) /\ SameDraws(o, p)
<1> DEFINE b == IF op = "shutdown" THEN <<op>>
                ELSE IF Contains(o.outbox, op) THEN o.outbox ELSE Append(o.outbox, op)
           ks == [i \in DOMAIN o.wire |-> o.wire[i].k]
<1>1. p = [o EXCEPT !.outbox = b]
  BY DEF Enqueue
<1>2. o.outbox \in Seq(Operations) /\ o.wire \in Seq(Commands)
  BY DEF Owners
<1>3. b \in Seq(Operations)
  <2> HIDE DEF Operations
  <2> QED  BY <1>2
<1>4. b = <<op>> \/ b = o.outbox \/ b = Append(o.outbox, op)
  OBVIOUS
<1> HIDE DEF b
<1>5. /\ p \in Owners /\ SamePhase(o, p) /\ SameDraws(o, p)
      /\ p.wire = o.wire /\ p.outbox = b
  <2>1. p \in Owners
    <3> HIDE DEF Operations, Commands, Awaiting, None, Paints, Results
    <3> QED  BY <1>1, <1>3 DEF Owners
  <2> QED  BY <1>1, <2>1 DEF Owners, SamePhase, SameDraws
<1>6. Longer(o.wire, p.wire)
  BY <1>5 DEF Longer
<1>7. ks \in Seq(Kinds) /\ o.outbox \in Seq(Kinds) /\ op \in Kinds
  <2>1. ks \in Seq(Kinds)
    BY <1>2, KindsOf
  <2>2. o.outbox \in Seq(Kinds) /\ op \in Kinds
    BY <1>2 DEF Kinds
  <2> QED  BY <2>1, <2>2
<1>8. Due(o) = ks \o o.outbox /\ Due(p) = ks \o b
  BY <1>5 DEF Due
<1> HIDE DEF ks
<1>9. Grows(Kinds, Due(o), Due(p), {op})
  <2> HIDE DEF Kinds
  <2>1. CASE b = <<op>>
    <3>1. Part(ks, ks \o o.outbox)
      BY <1>7, FirstPart
    <3>2. ks \o <<op>> = Append(ks, op)
      BY <1>7
    <3> QED  BY <1>7, <1>8, <2>1, <3>1, <3>2 DEF Grows
  <2>2. CASE b = o.outbox
    <3>1. Due(o) \in Seq(Kinds) /\ Due(p) = Due(o)
      BY <1>8, <2>2, DueType
    <3> QED  BY <3>1, GrowsAsBefore
  <2>3. CASE b = Append(o.outbox, op)
    <3>1. Due(o) \in Seq(Kinds)
      BY DueType
    <3>2. ks \o Append(o.outbox, op) = Append(ks \o o.outbox, op)
      BY <1>7
    <3>3. Due(p) = Append(Due(o), op)
      BY <1>8, <2>3, <3>2
    <3> QED  BY <3>1, <3>3, GrowsByOne
  <2> QED  BY <1>4, <2>1, <2>2, <2>3
<1> QED  BY <1>5, <1>6, <1>9 DEF Talks

\* grant/1
LEMMA GrantOwner ==
    ASSUME NEW o \in Owners, NEW free \in BOOLEAN, NEW p, p = Grant(o, free)
    PROVE  Talks(o, p, {"credit"}) /\ SameDraws(o, p)
<1> DEFINE c == [k |-> "credit", n |-> o.counter + 1]
           v == [o EXCEPT !.counter = @ + 1, !.wire = Append(@, c), !.credit = o.counter + 1]
<1>1. p = o \/ p = [o EXCEPT !.retry = TRUE] \/ (o.outbox = <<>> /\ p = v)
  <2>1. [Send(o, "credit") EXCEPT !.credit = o.counter + 1] = v
    BY DEF Send, Owners
  <2> QED  BY <2>1 DEF Grant
<1>2. CASE p = o
  <2>1. Due(p) = Due(o) /\ SamePhase(o, p) /\ SameDraws(o, p) /\ Longer(o.wire, p.wire)
    BY <1>2 DEF SamePhase, SameDraws, Longer
  <2> QED  BY <1>2, <2>1, TalksAsBefore
<1>3. CASE p = [o EXCEPT !.retry = TRUE]
  <2>1. p \in Owners /\ SamePhase(o, p) /\ SameDraws(o, p) /\ p.wire = o.wire /\ p.outbox = o.outbox
    BY <1>3 DEF Owners, SamePhase, SameDraws
  <2>2. Due(p) = Due(o) /\ Longer(o.wire, p.wire)
    BY <2>1 DEF Longer, Due
  <2> QED  BY <2>1, <2>2, TalksAsBefore
<1>4. CASE o.outbox = <<>> /\ p = v
  <2>1. c \in Commands /\ c.k = "credit" /\ o.counter + 1 \in Nat
    BY DEF Commands, Owners
  <2>2. Append(o.wire, c) \in Seq(Commands)
    <3> HIDE DEF Commands, c
    <3> QED  BY <2>1 DEF Owners
  <2> HIDE DEF c
  <2>3. p \in Owners
    <3> HIDE DEF Commands
    <3> QED  BY <1>4, <2>1, <2>2, ZenonT(60) DEF Owners
  <2>4. SamePhase(o, p) /\ SameDraws(o, p) /\ p.wire = Append(o.wire, c) /\ p.outbox = o.outbox
    BY <1>4 DEF Owners, SamePhase, SameDraws
  <2>5. Due(p) = Append(Due(o), "credit") /\ Longer(o.wire, p.wire)
    <3> HIDE DEF Owners
    <3>1. o.outbox = <<>> /\ c \in Commands /\ p \in Owners /\ p.wire = Append(o.wire, c) /\ p.outbox = o.outbox
      BY <1>4, <2>1, <2>3, <2>4
    <3>2. Due(p) = Append(Due(o), c.k) /\ Longer(o.wire, p.wire)
      BY <3>1, WireMore, Zenon
    <3> QED  BY <2>1, <3>2
  <2> QED  BY <2>3, <2>4, <2>5, TalksMore
<1> QED  BY <1>1, <1>2, <1>3, <1>4

\* set_mouse/2, when a change still waits.
LEMMA UnmouseOwner ==
    ASSUME NEW o \in Owners, NEW i \in DOMAIN o.outbox, NEW p, p = [o EXCEPT !.outbox = RemoveAt(@, i)]
    PROVE  Talks(o, p, {"mouse"}) /\ SameDraws(o, p)
<1> DEFINE b == RemoveAt(o.outbox, i)
           ks == [j \in DOMAIN o.wire |-> o.wire[j].k]
<1>1. o.outbox \in Seq(Operations) /\ o.wire \in Seq(Commands)
  BY DEF Owners
<1>2. b \in Seq(Operations)
  <2> HIDE DEF Operations
  <2> QED  BY <1>1, RemovalPart
<1>3. ks \in Seq(Kinds) /\ o.outbox \in Seq(Kinds)
  <2>1. ks \in Seq(Kinds)
    BY <1>1, KindsOf
  <2>2. o.outbox \in Seq(Kinds)
    BY <1>1 DEF Kinds
  <2> QED  BY <2>1, <2>2
<1>4. p = [o EXCEPT !.outbox = b]
  OBVIOUS
<1> HIDE DEF b
<1>5. /\ p \in Owners /\ SamePhase(o, p) /\ SameDraws(o, p)
      /\ p.wire = o.wire /\ p.outbox = b
  <2>1. p \in Owners
    <3> HIDE DEF Operations, Commands, Awaiting, None, Paints, Results
    <3> QED  BY <1>2, <1>4 DEF Owners
  <2> QED  BY <1>4, <2>1 DEF Owners, SamePhase, SameDraws
<1>6. Longer(o.wire, p.wire)
  BY <1>5 DEF Longer
<1>7. Due(o) = ks \o o.outbox /\ Due(p) = ks \o b
  BY <1>5 DEF Due
<1> HIDE DEF ks
<1>8. Part(ks \o b, ks \o o.outbox)
  <2> HIDE DEF Kinds
  <2> QED  BY <1>3, RemovalPart DEF b
<1>9. Due(p) \in Seq(Kinds)
  BY <1>5, DueType
<1>10. Grows(Kinds, Due(o), Due(p), {"mouse"})
  <2> HIDE DEF Kinds
  <2> QED  BY <1>7, <1>8, <1>9 DEF Grows
<1> QED  BY <1>5, <1>6, <1>10 DEF Talks

\* control/2, without the port's busy signal.
LEMMA ControlOwner ==
    ASSUME NEW o \in Owners, NEW op \in Operations, NEW n \in 0 .. Len(Enqueue(o, op).outbox),
           NEW p, p = Flush(Enqueue(o, op), n)
    PROVE  Talks(o, p, {op}) /\ SameDraws(o, p)
<1> DEFINE q == Enqueue(o, op)
<1>1. Talks(o, q, {op}) /\ SameDraws(o, q)
  BY EnqueueOwner
<1>2. q \in Owners
  BY <1>1 DEF Talks
<1> HIDE DEF q
<1>3. n \in 0 .. Len(q.outbox) /\ p = Flush(q, n)
  BY DEF q
<1> HIDE DEF Owners
<1>4. p \in Owners /\ SamePhase(q, p) /\ SameDraws(q, p) /\ Longer(q.wire, p.wire) /\ Due(p) = Due(q)
  BY <1>2, <1>3, FlushOwner
<1>5. SamePhase(o, p) /\ SameDraws(o, p)
  BY <1>1, <1>4 DEF Talks, SamePhase, SameDraws
<1>6. Longer(o.wire, p.wire)
  BY <1>1, <1>4 DEF Talks, Longer
<1> QED  BY <1>1, <1>4, <1>5, <1>6 DEF Talks

\* :busy_retry with controls: what is flushed and granted.
LEMMA RetryOwner ==
    ASSUME NEW o \in Owners, NEW n \in 0 .. Len(o.outbox), NEW p, p = Grant(Flush(o, n), TRUE)
    PROVE  Talks(o, p, {"credit"}) /\ SameDraws(o, p)
<1> DEFINE q == Flush(o, n)
<1>1. q \in Owners /\ SamePhase(o, q) /\ SameDraws(o, q) /\ Longer(o.wire, q.wire) /\ Due(q) = Due(o)
  BY FlushOwner
<1> HIDE DEF q, Owners
<1>2. Talks(q, p, {"credit"}) /\ SameDraws(q, p)
  <2>1. p = Grant(q, TRUE) /\ TRUE \in BOOLEAN
    BY DEF q
  <2> QED  BY <1>1, <2>1, GrantOwner
<1>3. SamePhase(o, p) /\ SameDraws(o, p)
  BY <1>1, <1>2 DEF Talks, SamePhase, SameDraws
<1>4. Longer(o.wire, p.wire)
  BY <1>1, <1>2 DEF Talks, Longer
<1> QED  BY <1>1, <1>2, <1>3, <1>4 DEF Talks

\* The owner asks the runtime to draw later, and asks for input again.
Again(o, draw) == [Reply(o, draw) EXCEPT !.input = TRUE]

LEMMA AgainOwner ==
    ASSUME NEW o \in Owners, NEW d \in Nat, NEW p, p = Again(o, d)
    PROVE  /\ p \in Owners /\ SamePhase(o, p) /\ p.wire = o.wire /\ p.outbox = o.outbox
           /\ p.told = Append(o.told, [k |-> "draw_result", draw |-> d])
           /\ p.queued = o.queued /\ p.pending = o.pending /\ p.replied = o.replied /\ p.seq = o.seq
<1> DEFINE q == Reply(o, d)
<1>1. /\ q \in Owners /\ SamePhase(o, q) /\ q.wire = o.wire /\ q.outbox = o.outbox
      /\ q.told = Append(o.told, [k |-> "draw_result", draw |-> d])
      /\ q.queued = o.queued /\ q.pending = o.pending /\ q.replied = o.replied /\ q.seq = o.seq
  <2> HIDE DEF Owners
  <2> QED  BY ReplyOwner
<1>2. p = [q EXCEPT !.input = TRUE]
  BY DEF Again
<1> HIDE DEF q
<1>3. p \in Owners
  <2> HIDE DEF Operations, Commands, Awaiting, None, Paints, Results
  <2> QED  BY <1>1, <1>2 DEF Owners
<1>4. SamePhase(q, p) /\ p.wire = q.wire /\ p.outbox = q.outbox /\ p.told = q.told
      /\ p.queued = q.queued /\ p.pending = q.pending /\ p.replied = q.replied /\ p.seq = q.seq
  BY <1>1, <1>2 DEF Owners, SamePhase
<1> QED  BY <1>1, <1>3, <1>4 DEF SamePhase

\* paint/4: the draw is answered, or is what the owner waits for now.
Turned(o, p, draw) ==
    \/ /\ p.told = Append(o.told, [k |-> "draw_result", draw |-> draw])
       /\ p.pending = o.pending /\ p.replied = o.replied
    \/ /\ p.told = o.told /\ ~p.replied
       /\ p.pending = [k |-> "draw", n |-> o.seq + 1, draw |-> draw]
       /\ p.wire = Append(o.wire, [k |-> "draw", n |-> o.seq + 1])

LEMMA DrawingOwner ==
    ASSUME NEW o \in Owners, NEW p, p = [o EXCEPT !.replied = FALSE, !.timer = "draw", !.input = TRUE]
    PROVE  p \in Owners
BY DEF Owners

LEMMA PaintOwner ==
    ASSUME NEW o \in Owners, NEW d \in Nat, o.outbox = <<>>,
           NEW p, p = [o EXCEPT !.seq = @ + 1, !.replied = FALSE, !.timer = "draw", !.input = TRUE,
                                !.pending = [k |-> "draw", n |-> o.seq + 1, draw |-> d],
                                !.wire = Append(@, [k |-> "draw", n |-> o.seq + 1])]
    PROVE  Talks(o, p, {"draw", "credit"}) /\ p.queued = o.queued /\ Turned(o, p, d)
<1> DEFINE c == [k |-> "draw", n |-> o.seq + 1]
           x == [k |-> "draw", n |-> o.seq + 1, draw |-> d]
           w == Append(o.wire, c)
<1>1. c \in Commands /\ c.k = "draw" /\ x \in Paints /\ o.seq + 1 \in Nat
  BY DEF Commands, Paints, Owners
<1>2. w \in Seq(Commands)
  <2> HIDE DEF Commands, c
  <2> QED  BY <1>1 DEF Owners
<1>3. p = [o EXCEPT !.seq = o.seq + 1, !.replied = FALSE, !.timer = "draw", !.input = TRUE,
                    !.pending = x, !.wire = w]
  BY DEF Owners
<1>4. p.told = o.told /\ p.replied = FALSE /\ p.pending = x /\ p.wire = w /\ p.queued = o.queued
      /\ p.outbox = o.outbox /\ SamePhase(o, p)
  BY <1>3 DEF Owners, SamePhase
<1>5. Turned(o, p, d)
  BY <1>4 DEF Turned
<1> HIDE DEF x, w
<1>6. p \in Owners
  <2> DEFINE q == [o EXCEPT !.seq = o.seq + 1, !.wire = w]
             r == [q EXCEPT !.pending = x]
  <2>1. q \in Owners
    <3> HIDE DEF Operations, Commands, Awaiting, None, Paints, Results, c
    <3> QED  BY <1>1, <1>2 DEF Owners
  <2>2. r = [o EXCEPT !.seq = o.seq + 1, !.wire = w, !.pending = x]
    BY DEF Owners
  <2> HIDE DEF q
  <2>3. r \in Owners
    <3> HIDE DEF Operations, Commands, Awaiting, None, Paints, Results, c
    <3> QED  BY <1>1, <2>1 DEF Owners
  <2>4. p = [r EXCEPT !.replied = FALSE, !.timer = "draw", !.input = TRUE]
    BY <1>3, <2>2, ZenonT(60) DEF Owners
  <2> HIDE DEF r
  <2> HIDE DEF Owners
  <2> QED  BY <2>3, <2>4, DrawingOwner, Zenon
<1> HIDE DEF c, Owners
<1>7. Due(p) = Append(Due(o), "draw") /\ Longer(o.wire, p.wire)
  <2>1. o.outbox = <<>> /\ c \in Commands /\ p \in Owners /\ p.wire = Append(o.wire, c) /\ p.outbox = o.outbox
    BY <1>1, <1>4, <1>6 DEF w
  <2>2. Due(p) = Append(Due(o), c.k) /\ Longer(o.wire, p.wire)
    BY <2>1, WireMore, Zenon
  <2> QED  BY <1>1, <2>2
<1>8. Talks(o, p, {"draw", "credit"})
  BY <1>4, <1>6, <1>7, TalksMore
<1> QED  BY <1>4, <1>5, <1>8

LEMMA GrowsMore ==
    ASSUME NEW S, NEW s, NEW t, NEW K, NEW L, Grows(S, s, t, K), K \subseteq L
    PROVE  Grows(S, s, t, L)
BY DEF Grows

LEMMA PaintingOwner ==
    ASSUME NEW o \in Owners, NEW d \in Nat, NEW p,
           \/ p = Again(o, d)
           \/ o.outbox = <<>> /\ p = [o EXCEPT !.seq = @ + 1, !.replied = FALSE, !.timer = "draw", !.input = TRUE,
                                               !.pending = [k |-> "draw", n |-> o.seq + 1, draw |-> d],
                                               !.wire = Append(@, [k |-> "draw", n |-> o.seq + 1])]
           \/ \E free \in BOOLEAN : p = Grant(Again(o, d), free)
    PROVE  Talks(o, p, {"draw", "credit"}) /\ p.queued = o.queued /\ Turned(o, p, d)
<1> DEFINE q == Again(o, d)
<1>1. /\ q \in Owners /\ SamePhase(o, q) /\ q.wire = o.wire /\ q.outbox = o.outbox
      /\ q.told = Append(o.told, [k |-> "draw_result", draw |-> d])
      /\ q.queued = o.queued /\ q.pending = o.pending /\ q.replied = o.replied
  <2> HIDE DEF Owners
  <2> QED  BY AgainOwner
<1>2. Due(q) = Due(o)
  BY <1>1 DEF Due
<1>3. CASE o.outbox = <<>> /\ p = [o EXCEPT !.seq = @ + 1, !.replied = FALSE, !.timer = "draw", !.input = TRUE,
                                             !.pending = [k |-> "draw", n |-> o.seq + 1, draw |-> d],
                                             !.wire = Append(@, [k |-> "draw", n |-> o.seq + 1])]
  <2> HIDE DEF Owners
  <2> QED  BY <1>3, PaintOwner, Zenon
<1> HIDE DEF q
<1>4. CASE p = q
  <2> HIDE DEF Owners
  <2>1. Longer(o.wire, p.wire)
    BY <1>1, <1>4 DEF Longer
  <2>2. Talks(o, p, {"draw", "credit"})
    BY <1>1, <1>2, <1>4, <2>1, TalksAsBefore
  <2> QED  BY <1>1, <1>4, <2>2 DEF Turned
<1>5. ASSUME NEW free \in BOOLEAN, p = Grant(q, free)
      PROVE  Talks(o, p, {"draw", "credit"}) /\ p.queued = o.queued /\ Turned(o, p, d)
  <2> HIDE DEF Owners
  <2>1. Talks(q, p, {"credit"}) /\ SameDraws(q, p)
    BY <1>1, <1>5, GrantOwner
  <2>2. Grows(Kinds, Due(o), Due(p), {"draw", "credit"})
    <3>1. Grows(Kinds, Due(o), Due(p), {"credit"})
      BY <1>2, <2>1 DEF Talks
    <3> QED  BY <3>1, GrowsMore
  <2>3. SamePhase(o, p) /\ Longer(o.wire, p.wire) /\ p \in Owners
    BY <1>1, <2>1 DEF Talks, SamePhase
  <2>4. Turned(o, p, d) /\ p.queued = o.queued
    BY <1>1, <2>1 DEF SameDraws, Turned
  <2> QED  BY <2>2, <2>3, <2>4 DEF Talks
<1> QED  BY <1>3, <1>4, <1>5 DEF q

-----------------------------------------------------------------------------
(* The helper: what it has said, and how it answers a command.             *)

NoteKinds == {"error", "painted", "restored", "suspended", "input", "resume_needed", "ready"}
Heard(h) == [i \in DOMAIN h.out |-> h.out[i].k]
Ups == {"init", "resume"}

LEMMA HeardType ==
    ASSUME NEW h \in Helpers
    PROVE  /\ h.out \in Seq(Notes) /\ Heard(h) \in Seq(NoteKinds) /\ Len(Heard(h)) = Len(h.out)
           /\ \A i \in DOMAIN h.out : i \in DOMAIN Heard(h) /\ Heard(h)[i] = h.out[i].k
<1>1. h.out \in Seq(Notes)
  BY DEF Helpers
<1>2. \A i \in DOMAIN h.out : h.out[i] \in Notes
  <2> HIDE DEF Notes
  <2> QED  BY <1>1
<1>3. \A i \in DOMAIN h.out : h.out[i].k \in NoteKinds
  BY <1>2 DEF Notes, NoteKinds
<1> HIDE DEF Notes, NoteKinds, Helpers
<1>4. Heard(h) \in Seq(NoteKinds) /\ Len(Heard(h)) = Len(h.out) /\ DOMAIN Heard(h) = DOMAIN h.out
  BY <1>1, <1>3 DEF Heard
<1>5. \A i \in DOMAIN h.out : Heard(h)[i] = h.out[i].k
  BY DEF Heard
<1> QED  BY <1>1, <1>4, <1>5

\* The kinds of the rest of a sequence, and of one that has an element more.
LEMMA KindsRest ==
    ASSUME NEW S, NEW s \in Seq(S), s # <<>>
    PROVE  [i \in DOMAIN Tail(s) |-> Tail(s)[i].k] = Tail([i \in DOMAIN s |-> s[i].k])
<1> DEFINE K == {s[i].k : i \in DOMAIN s}
           ks == [i \in DOMAIN s |-> s[i].k]
           t == Tail(s)
           a == [i \in DOMAIN t |-> t[i].k]
           b == Tail(ks)
<1>1. Len(s) \in Nat /\ Len(s) >= 1 /\ DOMAIN s = 1 .. Len(s)
  OBVIOUS
<1>2. t \in Seq(S) /\ Len(t) = Len(s) - 1 /\ DOMAIN t = 1 .. Len(s) - 1 /\ \A i \in DOMAIN t : t[i] = s[i + 1]
  BY <1>1
<1>3. ks \in Seq(K) /\ Len(ks) = Len(s) /\ \A i \in DOMAIN s : ks[i] = s[i].k
  <2> HIDE DEF K
  <2>1. \A i \in DOMAIN s : s[i].k \in K
    BY DEF K
  <2> QED  BY <1>1, <2>1
<1> HIDE DEF K, ks, t
<1>4. b \in Seq(K) /\ Len(b) = Len(s) - 1 /\ \A i \in 1 .. Len(s) - 1 : b[i] = ks[i + 1]
  BY <1>1, <1>3
<1>5. DOMAIN a = 1 .. Len(s) - 1 /\ DOMAIN b = 1 .. Len(s) - 1
  BY <1>1, <1>2, <1>4
<1>6. ASSUME NEW i \in 1 .. Len(s) - 1 PROVE a[i] = b[i]
  <2>1. i \in DOMAIN t /\ i + 1 \in DOMAIN s
    BY <1>1, <1>2
  <2> QED  BY <1>2, <1>3, <1>4, <2>1
<1>7. a = [i \in DOMAIN a |-> a[i]]
  OBVIOUS
<1> HIDE DEF a, b
<1>9. b = [i \in DOMAIN b |-> b[i]]
  BY <1>4
<1>8. a = b
  BY <1>5, <1>6, <1>7, <1>9
<1> QED  BY <1>8 DEF a, b, ks, t

LEMMA KindsMore ==
    ASSUME NEW S, NEW s \in Seq(S), NEW x \in S
    PROVE  [i \in DOMAIN Append(s, x) |-> Append(s, x)[i].k] = Append([i \in DOMAIN s |-> s[i].k], x.k)
<1> DEFINE K == {s[i].k : i \in DOMAIN s} \cup {x.k}
           ks == [i \in DOMAIN s |-> s[i].k]
           t == Append(s, x)
           a == [i \in DOMAIN t |-> t[i].k]
           b == Append(ks, x.k)
<1>1. Len(s) \in Nat /\ DOMAIN s = 1 .. Len(s)
  OBVIOUS
<1>2. t \in Seq(S) /\ DOMAIN t = 1 .. Len(s) + 1 /\ t[Len(s) + 1] = x /\ \A i \in DOMAIN s : t[i] = s[i]
  BY <1>1
<1>3. ks \in Seq(K) /\ Len(ks) = Len(s) /\ x.k \in K /\ \A i \in DOMAIN s : ks[i] = s[i].k
  <2> HIDE DEF K
  <2>1. \A i \in DOMAIN s : s[i].k \in K
    BY DEF K
  <2>2. x.k \in K
    BY DEF K
  <2> QED  BY <1>1, <2>1, <2>2
<1> HIDE DEF K, ks, t
<1>4. b \in Seq(K) /\ Len(b) = Len(s) + 1 /\ b[Len(s) + 1] = x.k /\ \A i \in 1 .. Len(s) : b[i] = ks[i]
  BY <1>1, <1>3
<1>5. DOMAIN a = 1 .. Len(s) + 1 /\ DOMAIN b = 1 .. Len(s) + 1
  BY <1>1, <1>2, <1>4
<1>6. ASSUME NEW i \in 1 .. Len(s) + 1 PROVE a[i] = b[i]
  <2>1. CASE i = Len(s) + 1
    BY <1>2, <1>4, <2>1
  <2>2. CASE i # Len(s) + 1
    <3>1. i \in DOMAIN s /\ i \in DOMAIN t
      BY <1>1, <1>2, <2>2
    <3> QED  BY <1>1, <1>2, <1>3, <1>4, <3>1
  <2> QED  BY <2>1, <2>2
<1>7. a = [i \in DOMAIN a |-> a[i]]
  OBVIOUS
<1> HIDE DEF a, b
<1>9. b = [i \in DOMAIN b |-> b[i]]
  BY <1>4
<1>8. a = b
  BY <1>5, <1>6, <1>7, <1>9
<1> QED  BY <1>8 DEF a, b, ks, t

\* A record that is read.
LEMMA HeardRest ==
    ASSUME NEW h \in Helpers, h.out # <<>>, NEW g, g = [h EXCEPT !.out = Tail(@)]
    PROVE  /\ g \in Helpers /\ g.st = h.st /\ Heard(g) = Tail(Heard(h)) /\ g.out = Tail(h.out)
           /\ Heard(h) # <<>> /\ Heard(h)[1] = Head(h.out).k
<1>1. h.out \in Seq(Notes)
  BY DEF Helpers
<1>2. Tail(h.out) \in Seq(Notes)
  <2> HIDE DEF Notes
  <2> QED  BY <1>1
<1>3. g.out = Tail(h.out) /\ g.st = h.st
  BY DEF Helpers
<1>4. g \in Helpers
  <2> HIDE DEF Notes
  <2> QED  BY <1>2 DEF Helpers
<1>5. Heard(g) = Tail(Heard(h))
  <2> HIDE DEF Notes
  <2>1. [i \in DOMAIN Tail(h.out) |-> Tail(h.out)[i].k] = Tail([i \in DOMAIN h.out |-> h.out[i].k])
    BY <1>1, KindsRest
  <2> QED  BY <1>3, <2>1 DEF Heard
<1>6. 1 \in DOMAIN h.out /\ Head(h.out) = h.out[1]
  <2> HIDE DEF Notes
  <2> QED  BY <1>1
<1>7. 1 \in DOMAIN Heard(h) /\ Heard(h)[1] = h.out[1].k
  BY <1>6, HeardType
<1> HIDE DEF Helpers
<1>8. Heard(h) # <<>>
  BY <1>7
<1> QED  BY <1>3, <1>4, <1>5, <1>6, <1>7, <1>8

\* A record more.
LEMMA HeardMore ==
    ASSUME NEW h \in Helpers, NEW x \in Notes, NEW g, g = [h EXCEPT !.out = Append(@, x)]
    PROVE  g \in Helpers /\ g.st = h.st /\ Heard(g) = Append(Heard(h), x.k) /\ g.out = Append(h.out, x)
<1>1. h.out \in Seq(Notes)
  BY DEF Helpers
<1> HIDE DEF Notes
<1>2. Append(h.out, x) \in Seq(Notes)
  BY <1>1
<1>3. g.out = Append(h.out, x) /\ g.st = h.st
  BY DEF Helpers
<1>4. g \in Helpers
  BY <1>2 DEF Helpers
<1>5. Heard(g) = Append(Heard(h), x.k)
  <2>1. [i \in DOMAIN Append(h.out, x) |-> Append(h.out, x)[i].k] = Append([i \in DOMAIN h.out |-> h.out[i].k], x.k)
    BY <1>1, KindsMore
  <2> QED  BY <1>3, <2>1 DEF Heard
<1> QED  BY <1>3, <1>4, <1>5

\* The helper takes the first command that is on its way.
LEMMA DueRest ==
    ASSUME NEW o \in Owners, o.wire # <<>>, NEW p, p = [o EXCEPT !.wire = Tail(@)]
    PROVE  /\ p \in Owners /\ SamePhase(o, p) /\ SameDraws(o, p) /\ Due(p) = Tail(Due(o))
           /\ Due(o) # <<>> /\ 1 \in DOMAIN Due(o) /\ Due(o)[1] = Head(o.wire).k /\ Head(o.wire) \in Commands
           /\ p.wire = Tail(o.wire)
<1> DEFINE ks == [i \in DOMAIN o.wire |-> o.wire[i].k]
           w == Tail(o.wire)
           js == [i \in DOMAIN w |-> w[i].k]
<1>1. o.wire \in Seq(Commands) /\ o.outbox \in Seq(Operations)
  BY DEF Owners
<1>2. w \in Seq(Commands) /\ Head(o.wire) \in Commands /\ 1 \in DOMAIN o.wire /\ Head(o.wire) = o.wire[1]
  <2> HIDE DEF Commands
  <2> QED  BY <1>1
<1>3. p.wire = w /\ p.outbox = o.outbox /\ SamePhase(o, p) /\ SameDraws(o, p)
  BY DEF Owners, SamePhase, SameDraws
<1>4. p \in Owners
  <2> HIDE DEF Operations, Commands, Awaiting, None, Paints, Results, w
  <2>1. p = [o EXCEPT !.wire = w]
    BY DEF w
  <2> QED  BY <1>2, <2>1 DEF Owners
<1>5. js = Tail(ks)
  <2> HIDE DEF Commands
  <2> QED  BY <1>1, KindsRest
<1>6. ks \in Seq(Kinds) /\ o.outbox \in Seq(Kinds)
  <2>1. ks \in Seq(Kinds)
    BY <1>1, KindsOf
  <2>2. o.outbox \in Seq(Kinds)
    BY <1>1 DEF Kinds
  <2> QED  BY <2>1, <2>2
<1>7. ks # <<>>
  BY <1>2
<1>8. Due(o) = ks \o o.outbox /\ Due(p) = js \o o.outbox
  <2>1. Due(o) = ks \o o.outbox
    BY DEF Due
  <2> HIDE DEF w, Owners
  <2>2. Due(p) = js \o o.outbox
    <3>1. p.wire = w /\ p.outbox = o.outbox
      BY <1>3
    <3>2. [i \in DOMAIN p.wire |-> p.wire[i].k] = [i \in DOMAIN w |-> w[i].k]
      BY <3>1
    <3> QED  BY <3>1, <3>2, Zenon DEF Due
  <2> QED  BY <2>1, <2>2
<1>9. 1 \in DOMAIN Due(o) /\ Due(o)[1] = Head(o.wire).k
  <2>1. 1 \in DOMAIN Due(o) /\ Due(o)[1] = o.wire[1].k
    BY <1>2, DueType
  <2> QED  BY <1>2, <2>1
<1> HIDE DEF ks, js, Kinds
<1>10. Due(p) = Tail(Due(o))
  <2> DEFINE x == Due(o)
             y == Due(p)
  <2>1. Len(ks) \in Nat /\ Len(ks) >= 1 /\ Len(o.outbox) \in Nat /\ Len(js) = Len(ks) - 1 /\ js \in Seq(Kinds)
        /\ \A i \in 1 .. Len(js) : js[i] = ks[i + 1]
    BY <1>5, <1>6, <1>7
  <2>2. x \in Seq(Kinds) /\ Len(x) = Len(ks) + Len(o.outbox)
    BY <1>6, <1>8, ConcatProperties
  <2>0. js \in Seq(Kinds) /\ o.outbox \in Seq(Kinds)
    BY <1>6, <2>1
  <2>3. y \in Seq(Kinds) /\ Len(y) = Len(js) + Len(o.outbox)
    BY <1>8, <2>0, ConcatProperties
  <2>4. \A i \in 1 .. Len(ks) : x[i] = ks[i]
    BY <1>6, <1>8, JoinParts
  <2>5. ASSUME NEW i \in 1 .. Len(js) PROVE y[i] = js[i]
    <3>1. (js \o o.outbox)[i] = js[i]
      BY <2>0, JoinFirst
    <3> QED  BY <1>8, <3>1
  <2>6. ASSUME NEW i \in 1 .. Len(o.outbox) PROVE x[Len(ks) + i] = o.outbox[i] /\ y[Len(js) + i] = o.outbox[i]
    <3>1. (ks \o o.outbox)[Len(ks) + i] = o.outbox[i]
      BY <1>6, JoinSecond
    <3>2. (js \o o.outbox)[Len(js) + i] = o.outbox[i]
      BY <1>6, <2>1, JoinSecond
    <3> QED  BY <1>8, <3>1, <3>2
  <2> HIDE DEF x, y
  <2>7. Tail(x) \in Seq(Kinds) /\ Len(Tail(x)) = Len(y) /\ \A i \in 1 .. Len(y) : Tail(x)[i] = x[i + 1]
    BY <2>1, <2>2, <2>3
  <2>8. ASSUME NEW i \in 1 .. Len(y) PROVE y[i] = x[i + 1]
    <3>1. CASE i <= Len(js)
      BY <2>1, <2>4, <2>5, <3>1
    <3>2. CASE i > Len(js)
      <4> DEFINE j == i - Len(js)
      <4>0. Len(js) \in Nat /\ Len(y) = Len(js) + Len(o.outbox) /\ Len(ks) = Len(js) + 1
        BY <2>1, <2>3
      <4>1. j \in 1 .. Len(o.outbox) /\ i = Len(js) + j /\ i + 1 = Len(ks) + j
        BY <2>1, <3>2, <4>0
      <4> HIDE DEF j
      <4> QED  BY <2>6, <4>1
    <3> QED  BY <2>1, <3>1, <3>2
  <2>9. y = Tail(x)
    BY <2>3, <2>7, <2>8, SeqEqual
  <2> QED  BY <2>9 DEF x, y
<1>11. Due(o) # <<>>
  BY <1>9
<1> QED  BY <1>2, <1>3, <1>4, <1>9, <1>10, <1>11

\* What a command makes of what the helper is and has said.
Answered(k, h, g) ==
    \/ g.st = h.st /\ Heard(g) = Heard(h)
    \/ g.st = h.st /\ Heard(g) = Append(Heard(h), "painted")
    \/ g.st = "exited" /\ Heard(g) = Append(Heard(h), "error")
    \/ k = "shutdown" /\ g.st = "exited" /\ Heard(g) = Append(Heard(h), "restored")
    \/ k = "suspend" /\ g.st = "suspended" /\ Heard(g) = Append(Heard(h), "suspended")
    \/ k \in Ups /\ g.st = "probing" /\ Heard(g) = Heard(h)
    \/ k \in Ups /\ g.st = "active" /\ Heard(g) = Append(Heard(h), "ready")

\* Report, and what the process is then.
LEMMA ReportHelper ==
    ASSUME NEW h \in Helpers, NEW k \in NoteKinds, k # "ready", NEW n \in Nat, NEW g, g = Report(h, k, n)
    PROVE  g \in Helpers /\ g.st = h.st /\ Heard(g) = Append(Heard(h), k)
<1> DEFINE x == [k |-> k, n |-> n]
<1>1. x \in Notes /\ x.k = k
  BY DEF Notes, NoteKinds
<1>2. g = [h EXCEPT !.out = Append(@, x)]
  BY DEF Report
<1> HIDE DEF x, Helpers, Notes
<1>3. g \in Helpers /\ g.st = h.st /\ Heard(g) = Append(Heard(h), x.k)
  BY <1>1, <1>2, HeardMore
<1> QED  BY <1>1, <1>3 DEF x

\* The fields of the helper that no record is about.
LEMMA SetHelper ==
    ASSUME NEW h \in Helpers,
           NEW st \in {"new", "probing", "active", "stopped", "barrier", "suspended", "exited"},
           NEW g, g = [h EXCEPT !.st = st]
    PROVE  g \in Helpers /\ g.st = st /\ Heard(g) = Heard(h) /\ g.out = h.out
<1>1. g \in Helpers /\ g.st = st /\ g.out = h.out
  <2> HIDE DEF Notes
  <2> QED  BY DEF Helpers
<1> QED  BY <1>1 DEF Heard

LEMMA NoteHelper ==
    ASSUME NEW h \in Helpers, NEW n \in Nat,
           NEW g, \/ g = [h EXCEPT !.token = n] \/ g = [h EXCEPT !.seq = n] \/ g = [h EXCEPT !.credit = n]
                  \/ g = [h EXCEPT !.mouse = ~@]
    PROVE  g \in Helpers /\ g.st = h.st /\ Heard(g) = Heard(h) /\ g.out = h.out
<1>1. g \in Helpers /\ g.st = h.st /\ g.out = h.out
  <2> HIDE DEF Notes
  <2>1. CASE g = [h EXCEPT !.mouse = ~@]
    <3>1. h.mouse = TRUE \/ h.mouse = FALSE
      BY DEF Helpers
    <3>2. CASE h.mouse = TRUE
      <4>1. g = [h EXCEPT !.mouse = FALSE]
        BY <2>1, <3>2
      <4> QED  BY <4>1 DEF Helpers
    <3>3. CASE h.mouse = FALSE
      <4>1. g = [h EXCEPT !.mouse = TRUE]
        BY <2>1, <3>3
      <4> QED  BY <4>1 DEF Helpers
    <3> QED  BY <3>1, <3>2, <3>3
  <2>2. CASE g # [h EXCEPT !.mouse = ~@]
    BY <2>2 DEF Helpers
  <2> QED  BY <2>1, <2>2
<1> QED  BY <1>1 DEF Heard

LEMMA ErrsHelper ==
    ASSUME NEW h \in Helpers, NEW g, g = Errs(h)
    PROVE  g \in Helpers /\ g.st = "exited" /\ Heard(g) = Append(Heard(h), "error")
<1> HIDE DEF Helpers
<1>1. "error" \in NoteKinds
  BY DEF NoteKinds
<1>2. \A q : q = Report(h, "error", 0) => q \in Helpers /\ Heard(q) = Append(Heard(h), "error")
  BY <1>1, ReportHelper
<1>3. PICK q : q = Report(h, "error", 0)
  OBVIOUS
<1>4. q \in Helpers /\ Heard(q) = Append(Heard(h), "error")
  BY <1>2, <1>3
<1>5. g = [q EXCEPT !.st = "exited"]
  BY <1>3 DEF Errs
<1> QED  BY <1>4, <1>5, SetHelper

LEMMA ActivateHelper ==
    ASSUME NEW h \in Helpers, NEW st \in {"probing", "active"}, NEW g, g = Activate(h, st)
    PROVE  /\ g \in Helpers /\ g.st = st
           /\ Heard(g) = IF st = "probing" THEN Heard(h) ELSE Append(Heard(h), "ready")
<1>1. CASE st = "probing"
  <2>1. g = [h EXCEPT !.st = st]
    BY <1>1 DEF Activate
  <2> HIDE DEF Helpers
  <2> QED  BY <1>1, <2>1, SetHelper
<1>2. CASE st # "probing"
  <2> DEFINE x == [k |-> "ready", n |-> 0, mouse |-> h.mouse]
             q == [h EXCEPT !.out = Append(@, x)]
  <2>1. x \in Notes /\ x.k = "ready"
    <3>1. h.mouse \in BOOLEAN
      BY DEF Helpers
    <3> QED  BY <3>1 DEF Notes
  <2>2. g = [h EXCEPT !.st = st, !.out = Append(@, x)]
    BY <1>2 DEF Activate
  <2> HIDE DEF x, Notes
  <2>3. q \in Helpers /\ Heard(q) = Append(Heard(h), x.k)
    <3> HIDE DEF Helpers
    <3> QED  BY <2>1, HeardMore
  <2>4. g = [q EXCEPT !.st = st]
    BY <2>2 DEF Helpers
  <2> HIDE DEF q, Helpers
  <2> QED  BY <1>2, <2>1, <2>3, <2>4, SetHelper
<1> QED  BY <1>1, <1>2

LEMMA PaintHelper ==
    ASSUME NEW h \in Helpers, NEW n \in Nat, NEW g, g = Paint(h, n)
    PROVE  g \in Helpers /\ Answered("draw", h, g)
<1> DEFINE t == [h EXCEPT !.seq = n]
<1>1. t \in Helpers /\ t.st = h.st /\ Heard(t) = Heard(h)
  <2> HIDE DEF Helpers
  <2> QED  BY NoteHelper
<1>2. g = Errs(h) \/ g = t \/ g = Report(t, "painted", n)
  BY DEF Paint
<1> HIDE DEF t, Helpers
<1>3. CASE g = Errs(h)
  BY <1>3, ErrsHelper DEF Answered
<1>4. CASE g = t
  BY <1>1, <1>4 DEF Answered
<1>5. CASE g = Report(t, "painted", n)
  <2>1. "painted" \in NoteKinds /\ "painted" # "ready"
    BY DEF NoteKinds
  <2>2. g \in Helpers /\ g.st = t.st /\ Heard(g) = Append(Heard(t), "painted")
    <3>1. PICK k \in NoteKinds : k = "painted"
      BY <2>1
    <3>2. PICK q \in Helpers : q = t
      BY <1>1
    <3>3. g = Report(q, k, n) /\ k # "ready"
      BY <1>5, <2>1, <3>1, <3>2
    <3>4. g \in Helpers /\ g.st = q.st /\ Heard(g) = Append(Heard(q), k)
      BY <3>3, ReportHelper, Zenon
    <3> QED  BY <3>1, <3>2, <3>4
  <2> QED  BY <1>1, <2>2 DEF Answered
<1> QED  BY <1>2, <1>3, <1>4, <1>5

LEMMA CreditHelper ==
    ASSUME NEW h \in Helpers, NEW n \in Nat, NEW g, g = Credit(h, n)
    PROVE  g \in Helpers /\ Answered("credit", h, g)
<1>1. g = Errs(h) \/ g = h \/ g = [h EXCEPT !.credit = n]
  BY DEF Credit
<1> HIDE DEF Helpers
<1>2. CASE g = Errs(h)
  BY <1>2, ErrsHelper DEF Answered
<1>3. CASE g = h
  BY <1>3 DEF Answered
<1>4. CASE g = [h EXCEPT !.credit = n]
  BY <1>4, NoteHelper DEF Answered
<1> QED  BY <1>1, <1>2, <1>3, <1>4

LEMMA ShutdownHelper ==
    ASSUME NEW h \in Helpers, NEW n \in Nat, NEW g, g = Shutdown(h, n)
    PROVE  g \in Helpers /\ Answered("shutdown", h, g)
<1> HIDE DEF Helpers
<1>1. PICK q : q = Report(h, "restored", n)
  OBVIOUS
<1>2. q \in Helpers /\ q.st = h.st /\ Heard(q) = Append(Heard(h), "restored")
  <2>1. "restored" \in NoteKinds
    BY DEF NoteKinds
  <2> QED  BY <1>1, <2>1, ReportHelper
<1>3. g = [q EXCEPT !.st = "exited"]
  BY <1>1 DEF Shutdown
<1>4. g \in Helpers /\ g.st = "exited" /\ Heard(g) = Heard(q)
  BY <1>2, <1>3, SetHelper
<1> QED  BY <1>2, <1>4 DEF Answered

LEMMA SuspendHelper ==
    ASSUME NEW h \in Helpers, NEW n \in Nat, NEW g, g = Suspend(h, n)
    PROVE  g \in Helpers /\ Answered("suspend", h, g)
<1>1. CASE h.st \notin Raw
  <2> HIDE DEF Helpers
  <2>1. g = Errs(h)
    BY <1>1 DEF Suspend
  <2> QED  BY <2>1, ErrsHelper DEF Answered
<1>2. CASE h.st \in Raw
  <2>1. PICK q : q = Report(h, "suspended", n)
    OBVIOUS
  <2>2. q \in Helpers /\ q.st = h.st /\ Heard(q) = Append(Heard(h), "suspended")
    <3>1. "suspended" \in NoteKinds
      BY DEF NoteKinds
    <3> HIDE DEF Helpers
    <3> QED  BY <2>1, <3>1, ReportHelper
  <2>3. PICK t : t = [q EXCEPT !.st = "suspended"]
    OBVIOUS
  <2>4. t \in Helpers /\ t.st = "suspended" /\ Heard(t) = Heard(q)
    <3> HIDE DEF Helpers
    <3> QED  BY <2>2, <2>3, SetHelper
  <2>5. g = [t EXCEPT !.credit = 0]
    BY <1>2, <2>1, <2>2, <2>3 DEF Suspend, Helpers
  <2> HIDE DEF Helpers
  <2>6. g \in Helpers /\ g.st = t.st /\ Heard(g) = Heard(t)
    BY <2>4, <2>5, NoteHelper
  <2> QED  BY <2>2, <2>4, <2>6 DEF Answered
<1> QED  BY <1>1, <1>2

\* command/1
LEMMA PerformHelper ==
    ASSUME NEW h \in Helpers, NEW c \in Commands, NEW probe \in BOOLEAN, NEW g, g = Perform(h, c, probe)
    PROVE  g \in Helpers /\ Answered(c.k, h, g)
<1>1. c.n \in Nat /\ c.k \in {"init", "credit", "draw", "shutdown", "suspend", "resume", "mouse", "redraw"}
  BY DEF Commands, Operations
<1> HIDE DEF Helpers, Commands
<1>2. CASE c.k = "init"
  <2>1. PICK st \in {"probing", "active"} : g = Activate(h, st)
    BY <1>2 DEF Perform
  <2>2. g \in Helpers /\ g.st = st /\ Heard(g) = IF st = "probing" THEN Heard(h) ELSE Append(Heard(h), "ready")
    BY <2>1, ActivateHelper
  <2> QED  BY <1>2, <2>2 DEF Answered, Ups
<1>3. CASE c.k = "credit"
  <2>1. g = Credit(h, c.n)
    BY <1>3 DEF Perform
  <2> QED  BY <1>1, <1>3, <2>1, CreditHelper
<1>4. CASE c.k = "draw"
  <2>1. g = Paint(h, c.n)
    BY <1>4 DEF Perform
  <2> QED  BY <1>1, <1>4, <2>1, PaintHelper
<1>5. CASE c.k = "shutdown"
  <2>1. g = Shutdown(h, c.n)
    BY <1>5 DEF Perform
  <2> QED  BY <1>1, <1>5, <2>1, ShutdownHelper
<1>6. CASE c.k = "suspend"
  <2>1. g = Suspend(h, c.n)
    BY <1>6 DEF Perform
  <2> QED  BY <1>1, <1>6, <2>1, SuspendHelper
<1>7. CASE c.k = "resume"
  <2>1. g = Errs(h) \/ g = Activate(h, "active")
    BY <1>7 DEF Perform
  <2>2. CASE g = Errs(h)
    BY <2>2, ErrsHelper DEF Answered
  <2>3. CASE g = Activate(h, "active")
    <3>1. g \in Helpers /\ g.st = "active" /\ Heard(g) = Append(Heard(h), "ready")
      BY <2>3, ActivateHelper
    <3> QED  BY <1>7, <3>1 DEF Answered, Ups
  <2> QED  BY <2>1, <2>2, <2>3
<1>8. CASE c.k = "mouse"
  <2>1. g = [h EXCEPT !.mouse = ~@]
    BY <1>8 DEF Perform
  <2> QED  BY <2>1, NoteHelper DEF Answered
<1>9. CASE c.k = "redraw"
  <2>1. g = h
    BY <1>9 DEF Perform
  <2> QED  BY <2>1 DEF Answered
<1> QED  BY <1>1, <1>2, <1>3, <1>4, <1>5, <1>6, <1>7, <1>8, <1>9

-----------------------------------------------------------------------------
(* The invariant.  Going up (init or resume, a probe, ready) and going down  *)
(* (suspend, suspended) are exchanges of the owner and the helper: at most  *)
(* one of each is under way, and only in the phases that await its answer.  *)

NoUp(D, R, st) == Lacks(D, Ups) /\ Lacks(R, {"ready"}) /\ st # "probing"
OneUp(D, R, st) ==
    /\ Once(D, Ups) /\ Once(R, {"ready"})
    /\ Lacks(D, Ups) \/ (Lacks(R, {"ready"}) /\ st # "probing")
    /\ st = "probing" => Lacks(R, {"ready"})
NoDown(D, R) == Lacks(D, {"suspend"}) /\ Lacks(R, {"suspended"})
OneDown(D, R) ==
    /\ Once(D, {"suspend"}) /\ Once(R, {"suspended"})
    /\ Lacks(D, {"suspend"}) \/ Lacks(R, {"suspended"})

Talk(phase, D, R, st) ==
    /\ phase \in {"initializing", "resuming"} => OneUp(D, R, st) /\ NoDown(D, R)
    /\ phase = "running" => NoUp(D, R, st) /\ NoDown(D, R)
    /\ phase = "suspending" => /\ NoUp(D, R, st) /\ OneDown(D, R)
                               /\ Lacks(R, {"suspended"}) \/ st \notin Raw
    /\ phase = "suspended" => NoUp(D, R, st) /\ NoDown(D, R) /\ st \notin Raw
Exchange(o, h) == Talk(o.phase, Due(o), Heard(h), h.st)

\* What the runtime asks for: one suspend at a time, behind every resume that
\* could take it back.
Asks(r, k) == {i \in DOMAIN r.out : r.out[i].k = k}
Requests(r, phase, gen) ==
    /\ r.gen <= gen
    /\ \A i \in Asks(r, "suspend") : r.out[i].n <= r.gen
    /\ Asks(r, "suspend") # {} => r.edit = "asked" \/ r.phase = "over"
    /\ \A i, j \in Asks(r, "suspend") : i = j
    /\ \A i \in Asks(r, "suspend"), j \in Asks(r, "resume") : r.out[i].n = gen => j < i
    /\ phase = "suspending" => /\ r.edit = "asked" \/ r.phase = "over"
                               /\ Asks(r, "suspend") = {} /\ Asks(r, "resume") = {}

\* An editor runs only while the helper is away and nothing brings it back.
Gone == {"closing", "restored", "left"}
Edits(r, phase, D, R, st) ==
    r.edit = "editing" =>
       /\ Asks(r, "suspend") = {} /\ Asks(r, "resume") = {}
       /\ phase \in Gone \cup {"suspended"} /\ NoUp(D, R, st) /\ st \notin Raw

\* Who says that the terminal is restored says it of a helper that exited.
Closed(o) == \E i \in DOMAIN o.told : o.told[i].k = "terminal_shutdown"
Ended(r, closed, R, st) ==
    ~Lacks(R, {"restored"}) \/ closed \/ r.end \in {"restored", "down"} => st = "exited"

\* The runtime before the terminal is registered, and what the owner awaits.
Binding(r, slot, gen) ==
    /\ ~slot => gen = 1 /\ r.phase \in {"binding", "over"}
    /\ r.phase = "binding" => r.out = <<>> /\ r.edit = "none" /\ r.draw = 0 /\ ~r.final
Awaits(control, phase) ==
    /\ control.k = "suspend" => phase = "suspending"
    /\ control.k = "shutdown" => phase = "closing"

Core(r, o, h) ==
    /\ Exchange(o, h)
    /\ Requests(r, o.phase, o.gen)
    /\ Edits(r, o.phase, Due(o), Heard(h), h.st)
    /\ Ended(r, Closed(o), Heard(h), h.st)
    /\ Binding(r, o.slot, o.gen)
    /\ Awaits(o.control, o.phase)

PortInv == Types /\ Core(rt, owner, native)

-----------------------------------------------------------------------------
(* Steps that bring nothing up or down.                                    *)

Small == {"draw", "credit", "mouse", "redraw", "shutdown"}

LEMMA TalkKeeps ==
    ASSUME NEW D \in Seq(Kinds), NEW E \in Seq(Kinds), NEW R \in Seq(NoteKinds), NEW Q \in Seq(NoteKinds),
           NEW st, Grows(Kinds, D, E, Small), Part(Q, R)
    PROVE  /\ NoUp(D, R, st) => NoUp(E, Q, st)
           /\ OneUp(D, R, st) => OneUp(E, Q, st)
           /\ NoDown(D, R) => NoDown(E, Q)
           /\ OneDown(D, R) => OneDown(E, Q)
           /\ \A L : Lacks(R, L) => Lacks(Q, L)
<1>1. Small \cap Ups = {} /\ Small \cap {"suspend"} = {}
  BY DEF Small, Ups
<1>2. \A L : (Lacks(R, L) => Lacks(Q, L)) /\ (Once(R, L) => Once(Q, L))
  BY PartKeeps
<1>3. (Lacks(D, Ups) => Lacks(E, Ups)) /\ (Once(D, Ups) => Once(E, Ups))
  BY <1>1, GrowsKeeps
<1>4. (Lacks(D, {"suspend"}) => Lacks(E, {"suspend"})) /\ (Once(D, {"suspend"}) => Once(E, {"suspend"}))
  BY <1>1, GrowsKeeps
<1>5. NoUp(D, R, st) => NoUp(E, Q, st)
  BY <1>2, <1>3 DEF NoUp
<1>6. OneUp(D, R, st) => OneUp(E, Q, st)
  BY <1>2, <1>3 DEF OneUp
<1>7. NoDown(D, R) => NoDown(E, Q)
  BY <1>2, <1>4 DEF NoDown
<1>8. OneDown(D, R) => OneDown(E, Q)
  BY <1>2, <1>4 DEF OneDown
<1> QED  BY <1>2, <1>5, <1>6, <1>7, <1>8

\* The rest of what the runtime said, or all of it.
Listened(r, s) ==
    /\ s \in Runtimes /\ s.phase = r.phase /\ s.gen = r.gen /\ s.edit = r.edit /\ s.end = r.end
    /\ s.draw = r.draw /\ s.final = r.final
    /\ s.out = r.out \/ (r.out # <<>> /\ s.out = Tail(r.out))

\* Where a request of a shorter list was in the longer one.
LEMMA AsksRest ==
    ASSUME NEW r \in Runtimes, r.out # <<>>, NEW s, s.out = Tail(r.out), NEW k
    PROVE  /\ \A i \in Asks(s, k) : i \in Nat /\ i + 1 \in Asks(r, k) /\ s.out[i] = r.out[i + 1]
           /\ Asks(r, k) = {} => Asks(s, k) = {}
<1>1. r.out \in Seq(Wishes)
  BY DEF Runtimes
<1>2. \A i \in DOMAIN s.out : i \in Nat /\ i + 1 \in DOMAIN r.out /\ s.out[i] = r.out[i + 1]
  <2> HIDE DEF Wishes
  <2> QED  BY <1>1
<1> QED  BY <1>2 DEF Asks

LEMMA RequestsRest ==
    ASSUME NEW r \in Runtimes, NEW s, Listened(r, s), NEW phase, NEW gen, Requests(r, phase, gen)
    PROVE  Requests(s, phase, gen)
<1>1. CASE s.out = r.out
  BY <1>1 DEF Requests, Asks, Listened
<1>2. CASE r.out # <<>> /\ s.out = Tail(r.out)
  <2>1. \A k : \A i \in Asks(s, k) : i \in Nat /\ i + 1 \in Asks(r, k) /\ s.out[i] = r.out[i + 1]
    BY <1>2, AsksRest
  <2>2. \A k : Asks(r, k) = {} => Asks(s, k) = {}
    BY <1>2, AsksRest
  <2> HIDE DEF Runtimes
  <2>3. s.gen = r.gen /\ s.edit = r.edit /\ s.phase = r.phase
    BY DEF Listened
  <2>4. \A i \in Asks(s, "suspend") : s.out[i].n <= s.gen
    BY <2>1, <2>3 DEF Requests
  <2>5. \A i, j \in Asks(s, "suspend") : i = j
    <3>1. ASSUME NEW i \in Asks(s, "suspend"), NEW j \in Asks(s, "suspend") PROVE i = j
      <4>1. i \in Nat /\ j \in Nat /\ i + 1 = j + 1
        BY <2>1 DEF Requests
      <4> QED  BY <4>1
    <3> QED  BY <3>1
  <2>6. \A i \in Asks(s, "suspend"), j \in Asks(s, "resume") : s.out[i].n = gen => j < i
    <3>1. ASSUME NEW i \in Asks(s, "suspend"), NEW j \in Asks(s, "resume"), s.out[i].n = gen PROVE j < i
      <4>1. i \in Nat /\ j \in Nat /\ i + 1 \in Asks(r, "suspend") /\ j + 1 \in Asks(r, "resume")
            /\ r.out[i + 1].n = gen
        BY <2>1, <3>1
      <4>2. j + 1 < i + 1
        BY <4>1 DEF Requests
      <4> QED  BY <4>1, <4>2
    <3> QED  BY <3>1
  <2> QED  BY <2>2, <2>3, <2>4, <2>5, <2>6 DEF Requests
<1> QED  BY <1>1, <1>2 DEF Listened

\* A step of the owner that stays in its phase, whatever it reads.
LEMMA QuietOwner ==
    ASSUME NEW r \in Runtimes, NEW o \in Owners, NEW h \in Helpers, Core(r, o, h),
           NEW s, Listened(r, s),
           NEW p \in Owners, p.phase = o.phase, p.slot = o.slot, p.gen = o.gen, p.control.k = o.control.k,
           Grows(Kinds, Due(o), Due(p), Small), Closed(p) => Closed(o),
           NEW g \in Helpers, g.st = h.st, Part(Heard(g), Heard(h))
    PROVE  Core(s, p, g)
<1>1. /\ Due(o) \in Seq(Kinds) /\ Due(p) \in Seq(Kinds) /\ Heard(h) \in Seq(NoteKinds) /\ Heard(g) \in Seq(NoteKinds)
  <2>1. Due(o) \in Seq(Kinds)
    BY DueType
  <2>2. Due(p) \in Seq(Kinds)
    BY DueType
  <2>3. Heard(h) \in Seq(NoteKinds)
    BY HeardType
  <2>4. Heard(g) \in Seq(NoteKinds)
    BY HeardType
  <2> QED  BY <2>1, <2>2, <2>3, <2>4
<1> HIDE DEF Owners, Helpers, Runtimes
<1>2. /\ NoUp(Due(o), Heard(h), h.st) => NoUp(Due(p), Heard(g), g.st)
      /\ OneUp(Due(o), Heard(h), h.st) => OneUp(Due(p), Heard(g), g.st)
      /\ NoDown(Due(o), Heard(h)) => NoDown(Due(p), Heard(g))
      /\ OneDown(Due(o), Heard(h)) => OneDown(Due(p), Heard(g))
      /\ \A L : Lacks(Heard(h), L) => Lacks(Heard(g), L)
  BY <1>1, TalkKeeps
<1>3. Exchange(p, g)
  BY <1>2 DEF Core, Exchange, Talk
<1>4. Requests(s, p.phase, p.gen)
  BY RequestsRest DEF Core
<1>5. Edits(s, p.phase, Due(p), Heard(g), g.st)
  <2>1. \A k : Asks(r, k) = {} => Asks(s, k) = {}
    <3>1. CASE s.out = r.out
      BY <3>1 DEF Asks
    <3>2. CASE r.out # <<>> /\ s.out = Tail(r.out)
      BY <3>2, AsksRest
    <3> QED  BY <3>1, <3>2 DEF Listened
  <2> QED  BY <1>2, <2>1 DEF Core, Edits, Listened
<1>6. Ended(s, Closed(p), Heard(g), g.st)
  BY <1>2 DEF Core, Ended, Listened
<1>7. Binding(s, p.slot, p.gen)
  <2>1. r.out = <<>> => s.out = <<>>
    BY DEF Listened
  <2> QED  BY <2>1 DEF Core, Binding, Listened
<1>8. Awaits(p.control, p.phase)
  BY DEF Core, Awaits
<1> QED  BY <1>3, <1>4, <1>5, <1>6, <1>7, <1>8 DEF Core

\* The owner's phase closes, and stays so.
LEMMA GoneOwner ==
    ASSUME NEW r \in Runtimes, NEW o \in Owners, NEW h \in Helpers, Core(r, o, h),
           NEW s, Listened(r, s),
           NEW p \in Owners, p.phase \in Gone, p.slot = o.slot, p.gen = o.gen, Awaits(p.control, p.phase),
           Grows(Kinds, Due(o), Due(p), Small), Closed(p) => Closed(o) \/ h.st = "exited",
           NEW g \in Helpers, g.st = h.st, Part(Heard(g), Heard(h))
    PROVE  Core(s, p, g)
<1>1. /\ Due(o) \in Seq(Kinds) /\ Due(p) \in Seq(Kinds) /\ Heard(h) \in Seq(NoteKinds) /\ Heard(g) \in Seq(NoteKinds)
  <2>1. Due(o) \in Seq(Kinds)
    BY DueType
  <2>2. Due(p) \in Seq(Kinds)
    BY DueType
  <2>3. Heard(h) \in Seq(NoteKinds)
    BY HeardType
  <2>4. Heard(g) \in Seq(NoteKinds)
    BY HeardType
  <2> QED  BY <2>1, <2>2, <2>3, <2>4
<1> HIDE DEF Owners, Helpers, Runtimes
<1>2. /\ NoUp(Due(o), Heard(h), h.st) => NoUp(Due(p), Heard(g), g.st)
      /\ \A L : Lacks(Heard(h), L) => Lacks(Heard(g), L)
  BY <1>1, TalkKeeps
<1>3. Exchange(p, g)
  BY DEF Exchange, Talk, Gone
<1>4. Requests(s, p.phase, p.gen)
  <2>1. Requests(s, o.phase, o.gen)
    BY RequestsRest DEF Core
  <2> QED  BY <2>1 DEF Requests, Gone
<1>5. Edits(s, p.phase, Due(p), Heard(g), g.st)
  <2>1. \A k : Asks(r, k) = {} => Asks(s, k) = {}
    <3>1. CASE s.out = r.out
      BY <3>1 DEF Asks
    <3>2. CASE r.out # <<>> /\ s.out = Tail(r.out)
      BY <3>2, AsksRest
    <3> QED  BY <3>1, <3>2 DEF Listened
  <2> QED  BY <1>2, <2>1 DEF Core, Edits, Listened
<1>6. Ended(s, Closed(p), Heard(g), g.st)
  BY <1>2 DEF Core, Ended, Listened
<1>7. Binding(s, p.slot, p.gen)
  <2>1. r.out = <<>> => s.out = <<>>
    BY DEF Listened
  <2> QED  BY <2>1 DEF Core, Binding, Listened
<1> QED  BY <1>3, <1>4, <1>5, <1>6, <1>7 DEF Core

\* What stays when nothing is read and nothing is said.
LEMMA StillHere ==
    ASSUME NEW r \in Runtimes
    PROVE  Listened(r, r)
BY DEF Listened

\* suspend/1: the runtime asks to step aside, and the owner passes it on.
LEMMA SuspendingOwner ==
    ASSUME NEW r \in Runtimes, NEW o \in Owners, NEW h \in Helpers, Core(r, o, h), o.phase = "running",
           r.out # <<>>, Head(r.out).k = "suspend", Head(r.out).n = o.gen,
           NEW s, Listened(r, s), s.out = Tail(r.out),
           NEW p \in Owners, p.phase = "suspending", p.slot = o.slot, p.gen = o.gen, p.control.k = "suspend",
           Grows(Kinds, Due(o), Due(p), {"suspend"}), Closed(p) => Closed(o)
    PROVE  Core(s, p, h)
<1>1. /\ Due(o) \in Seq(Kinds) /\ Due(p) \in Seq(Kinds)
  <2>1. Due(o) \in Seq(Kinds)
    BY DueType
  <2>2. Due(p) \in Seq(Kinds)
    BY DueType
  <2> QED  BY <2>1, <2>2
<1>2. 1 \in Asks(r, "suspend") /\ r.out[1].n = o.gen
  <2>1. r.out \in Seq(Wishes)
    BY DEF Runtimes
  <2>2. 1 \in DOMAIN r.out /\ Head(r.out) = r.out[1]
    <3> HIDE DEF Wishes
    <3> QED  BY <2>1
  <2> QED  BY <2>2 DEF Asks
<1>3. /\ Requests(r, "running", o.gen) /\ Requests(s, "running", o.gen)
      /\ r.edit = "asked" \/ r.phase = "over"
  <2>1. Requests(r, "running", o.gen)
    BY DEF Core
  <2>2. Requests(s, "running", o.gen)
    BY <2>1, RequestsRest
  <2>3. r.edit = "asked" \/ r.phase = "over"
    BY <1>2, <2>1 DEF Requests
  <2> QED  BY <2>1, <2>2, <2>3
<1>4. Asks(s, "suspend") = {} /\ Asks(s, "resume") = {}
  <2>1. \A k : \A i \in Asks(s, k) : i \in Nat /\ i + 1 \in Asks(r, k)
    BY AsksRest
  <2>2. \A i \in Asks(s, "suspend") : i + 1 = 1 /\ i \in DOMAIN s.out
    BY <1>2, <1>3, <2>1 DEF Requests, Asks
  <2>3. \A i \in Asks(s, "resume") : i + 1 < 1
    BY <1>2, <1>3, <2>1 DEF Requests
  <2>4. \A i \in DOMAIN s.out : i > 0
    <3>1. s.out \in Seq(Wishes)
      BY DEF Listened, Runtimes
    <3> HIDE DEF Wishes
    <3> QED  BY <3>1
  <2>5. \A k : \A i \in Asks(s, k) : i \in Nat /\ i > 0
    BY <2>1, <2>4 DEF Asks
  <2>6. Asks(s, "suspend") = {}
    BY <2>2, <2>5
  <2>7. Asks(s, "resume") = {}
    BY <2>3, <2>5
  <2> QED  BY <2>6, <2>7
<1> HIDE DEF Owners, Helpers, Runtimes
<1>5. NoUp(Due(o), Heard(h), h.st) /\ NoDown(Due(o), Heard(h))
  BY DEF Core, Exchange, Talk
<1>6. Exchange(p, h)
  <2>1. {"suspend"} \cap Ups = {}
    BY DEF Ups
  <2>2. Lacks(Due(p), Ups)
    BY <1>1, <1>5, <2>1, GrowsKeeps DEF NoUp
  <2>3. Once(Due(p), {"suspend"})
    BY <1>1, <1>5, GrowsKeeps DEF NoDown
  <2>4. OneDown(Due(p), Heard(h))
    BY <1>5, <2>3 DEF OneDown, NoDown, Lacks, Once
  <2> QED  BY <1>5, <2>2, <2>4 DEF Exchange, Talk, NoUp, NoDown
<1>7. Requests(s, p.phase, p.gen)
  BY <1>3, <1>4 DEF Requests, Listened
<1>8. Edits(s, p.phase, Due(p), Heard(h), h.st)
  BY <1>3 DEF Edits, Listened, Core, Gone
<1>9. Ended(s, Closed(p), Heard(h), h.st)
  BY DEF Core, Ended, Listened
<1>10. Binding(s, p.slot, p.gen)
  BY DEF Core, Binding, Listened
<1>11. Awaits(p.control, p.phase)
  BY DEF Awaits
<1> QED  BY <1>6, <1>7, <1>8, <1>9, <1>10, <1>11 DEF Core

\* resume/1, and a helper that asks for it.
LEMMA ResumingOwner ==
    ASSUME NEW r \in Runtimes, NEW o \in Owners, NEW h \in Helpers, Core(r, o, h),
           o.phase \in {"running", "suspended"}, r.edit # "editing",
           NEW s, Listened(r, s),
           NEW p \in Owners, p.phase = "resuming", p.slot = o.slot, p.gen = o.gen, p.control.k = "resume",
           Grows(Kinds, Due(o), Due(p), {"resume"}), Closed(p) => Closed(o),
           NEW g \in Helpers, g.st = h.st, Part(Heard(g), Heard(h))
    PROVE  Core(s, p, g)
<1>1. /\ Due(o) \in Seq(Kinds) /\ Due(p) \in Seq(Kinds) /\ Heard(h) \in Seq(NoteKinds) /\ Heard(g) \in Seq(NoteKinds)
  <2>1. Due(o) \in Seq(Kinds)
    BY DueType
  <2>2. Due(p) \in Seq(Kinds)
    BY DueType
  <2>3. Heard(h) \in Seq(NoteKinds)
    BY HeardType
  <2>4. Heard(g) \in Seq(NoteKinds)
    BY HeardType
  <2> QED  BY <2>1, <2>2, <2>3, <2>4
<1> HIDE DEF Owners, Helpers, Runtimes
<1>2. NoUp(Due(o), Heard(h), h.st) /\ NoDown(Due(o), Heard(h))
  BY DEF Core, Exchange, Talk
<1>3. \A L : Lacks(Heard(h), L) => Lacks(Heard(g), L)
  BY <1>1, PartKeeps
<1>4. Exchange(p, g)
  <2>1. Once(Due(p), Ups)
    BY <1>1, <1>2, GrowsKeeps DEF NoUp
  <2>2. {"resume"} \cap {"suspend"} = {}
    OBVIOUS
  <2>3. Lacks(Due(p), {"suspend"})
    BY <1>1, <1>2, <2>2, GrowsKeeps DEF NoDown
  <2>4. Lacks(Heard(g), {"ready"}) /\ Lacks(Heard(g), {"suspended"}) /\ g.st # "probing"
    BY <1>2, <1>3 DEF NoUp, NoDown
  <2>5. OneUp(Due(p), Heard(g), g.st)
    BY <2>1, <2>4 DEF OneUp, Lacks, Once
  <2> QED  BY <2>3, <2>4, <2>5 DEF Exchange, Talk, NoDown
<1>5. Requests(s, p.phase, p.gen)
  <2>1. Requests(s, o.phase, o.gen)
    BY RequestsRest DEF Core
  <2> QED  BY <2>1 DEF Requests
<1>6. Edits(s, p.phase, Due(p), Heard(g), g.st)
  BY DEF Edits, Listened
<1>7. Ended(s, Closed(p), Heard(g), g.st)
  BY <1>3 DEF Core, Ended, Listened
<1>8. Binding(s, p.slot, p.gen)
  <2>1. r.out = <<>> => s.out = <<>>
    BY DEF Listened
  <2> QED  BY <2>1 DEF Core, Binding, Listened
<1>9. Awaits(p.control, p.phase)
  BY DEF Awaits
<1> QED  BY <1>4, <1>5, <1>6, <1>7, <1>8, <1>9 DEF Core

\* {:suspended, ...}: the terminal is away, and the editor that waits starts.
LEMMA SuspendedOwner ==
    ASSUME NEW r \in Runtimes, NEW o \in Owners, NEW h \in Helpers, Core(r, o, h),
           o.control.k = "suspend", h.out # <<>>, Head(h.out).k = "suspended",
           NEW g, g = [h EXCEPT !.out = Tail(@)],
           NEW s, s = Suspended(r, o.gen),
           NEW p \in Owners, p.phase = "suspended", p.slot = o.slot, p.gen = o.gen, p.control = None,
           Due(p) = Due(o), Closed(p) => Closed(o)
    PROVE  s \in Runtimes /\ Core(s, p, g)
<1>1. /\ g \in Helpers /\ g.st = h.st /\ Heard(g) = Tail(Heard(h)) /\ Heard(h) # <<>> /\ Heard(h)[1] = "suspended"
  BY HeardRest
<1>2. Heard(h) \in Seq(NoteKinds) /\ Heard(g) \in Seq(NoteKinds)
  <2>1. Heard(h) \in Seq(NoteKinds)
    BY HeardType
  <2>2. Heard(g) \in Seq(NoteKinds)
    BY <1>1, HeardType
  <2> QED  BY <2>1, <2>2
<1>3. Part(Heard(g), Heard(h))
  BY <1>1, <1>2, TailPart
<1>4. /\ s \in Runtimes /\ s.phase = r.phase /\ s.gen = r.gen /\ s.end = r.end /\ s.out = r.out
      /\ s.draw = r.draw /\ s.final = r.final
      /\ s.edit = r.edit \/ (r.edit = "asked" /\ s.edit = "editing" /\ r.phase = "running")
  <2> HIDE DEF Wishes
  <2> QED  BY DEF Suspended, Runtimes
<1> HIDE DEF Owners, Helpers, Runtimes
<1>5. o.phase = "suspending"
  BY DEF Core, Awaits
<1>6. /\ NoUp(Due(o), Heard(h), h.st) /\ OneDown(Due(o), Heard(h))
      /\ Lacks(Heard(h), {"suspended"}) \/ h.st \notin Raw
  BY <1>5 DEF Core, Exchange, Talk
<1>7. ~Lacks(Heard(h), {"suspended"}) /\ Lacks(Heard(g), {"suspended"})
  <2>1. Once(Heard(h), {"suspended"}) /\ Heard(h)[1] \in {"suspended"}
    BY <1>1, <1>6 DEF OneDown
  <2> QED  BY <1>1, <1>2, <2>1, OnceFirst
<1>9. \A L : Lacks(Heard(h), L) => Lacks(Heard(g), L)
  BY <1>2, <1>3, PartKeeps
<1>10. NoUp(Due(p), Heard(g), g.st) /\ NoDown(Due(p), Heard(g)) /\ g.st \notin Raw
  BY <1>1, <1>6, <1>7, <1>9 DEF NoUp, NoDown, OneDown
<1>11. Exchange(p, g)
  BY <1>10 DEF Exchange, Talk
<1>12. Requests(r, "suspending", o.gen) /\ Asks(r, "suspend") = {} /\ Asks(r, "resume") = {}
  BY <1>5 DEF Core, Requests
<1>13. \A k : Asks(s, k) = Asks(r, k)
  BY <1>4 DEF Asks
<1>14. Requests(s, p.phase, p.gen)
  BY <1>4, <1>12, <1>13 DEF Requests
<1>15. Edits(s, p.phase, Due(p), Heard(g), g.st)
  BY <1>10, <1>12, <1>13 DEF Edits
<1>16. Ended(s, Closed(p), Heard(g), g.st)
  BY <1>1, <1>4, <1>9 DEF Core, Ended
<1>17. Binding(s, p.slot, p.gen)
  BY <1>4 DEF Core, Binding
<1>18. Awaits(p.control, p.phase)
  BY NoneApart DEF Awaits
<1> QED  BY <1>4, <1>11, <1>14, <1>15, <1>16, <1>17, <1>18 DEF Core

\* A terminal that is back: the runtime forgets the draw in flight.
LEMMA ResumedRuntime ==
    ASSUME NEW r \in Runtimes, NEW n \in Nat, NEW s, s = Resumed(r, n)
    PROVE  \/ s = r
           \/ /\ s \in Runtimes /\ r.phase = "running" /\ s.phase = "running" /\ s.end = r.end /\ s.edit = r.edit
              /\ s.gen = n /\ s.final = r.final /\ s.draw = 0 /\ s.asked = r.asked /\ s.life = "running"
              /\ s.out = Append(r.out, [k |-> "resume", n |-> n])
<1> DEFINE x == [k |-> "resume", n |-> n]
<1>1. x \in Wishes
  BY DEF Wishes
<1>2. PICK q : q = Append(r.out, x)
  OBVIOUS
<1>3. q \in Seq(Wishes)
  <2> HIDE DEF Wishes, x
  <2> QED  BY <1>1, <1>2 DEF Runtimes
<1>6. PICK t : t = [r EXCEPT !.gen = n, !.life = "running", !.draw = 0, !.out = q]
  OBVIOUS
<1>7. t \in Runtimes
  <2> HIDE DEF Wishes
  <2> QED  BY <1>3, <1>6 DEF Runtimes
<1>5. CASE r.phase # "running" \/ n <= r.gen
  BY <1>5 DEF Resumed
<1>4. CASE ~(r.phase # "running" \/ n <= r.gen)
  <2>1. r.phase = "running"
    BY <1>4
  <2>2. s = [r EXCEPT !.gen = n, !.life = "running", !.draw = 0, !.out = q]
    BY <1>2, <1>4 DEF Resumed, Tell, Runtimes
  <2> HIDE DEF x, Wishes
  <2>3. s \in Runtimes
    BY <1>6, <1>7, <2>2
  <2>4. /\ s.phase = r.phase /\ s.end = r.end /\ s.edit = r.edit /\ s.gen = n /\ s.final = r.final /\ s.draw = 0
        /\ s.asked = r.asked /\ s.life = "running" /\ s.out = q
    BY <2>2 DEF Runtimes
  <2> QED  BY <1>2, <2>1, <2>3, <2>4 DEF x
<1> QED  BY <1>4, <1>5

Registered(r, o, n) == IF o.slot THEN Resumed(r, n) ELSE [r EXCEPT !.phase = "running"]

\* {:ready, ...}: the terminal is registered, or is back; the generation is
\* one that no request of the runtime was made for.
LEMMA ReadyOwner ==
    ASSUME NEW r \in Runtimes, NEW o \in Owners, NEW h \in Helpers, Core(r, o, h), r.phase # "over",
           o.phase \in {"initializing", "resuming"}, h.out # <<>>, Head(h.out).k = "ready",
           NEW g, g = [h EXCEPT !.out = Tail(@)],
           NEW n \in Nat, n = IF o.slot THEN o.gen + 1 ELSE 1,
           NEW s, s = Registered(r, o, n),
           NEW p \in Owners, p.phase = "running", p.slot, p.gen = n, p.control = None,
           Due(p) = Due(o), Closed(p) => Closed(o)
    PROVE  s \in Runtimes /\ Core(s, p, g)
<1>1. /\ g \in Helpers /\ g.st = h.st /\ Heard(g) = Tail(Heard(h)) /\ Heard(h) # <<>> /\ Heard(h)[1] = "ready"
  BY HeardRest
<1>2. Heard(h) \in Seq(NoteKinds) /\ Heard(g) \in Seq(NoteKinds)
  <2>1. Heard(h) \in Seq(NoteKinds)
    BY HeardType
  <2>2. Heard(g) \in Seq(NoteKinds)
    BY <1>1, HeardType
  <2> QED  BY <2>1, <2>2
<1>3. Part(Heard(g), Heard(h))
  BY <1>1, <1>2, TailPart
<1>4. o.gen \in Nat /\ r.gen \in Nat
  BY DEF Owners, Runtimes
<1> DEFINE x == [k |-> "resume", n |-> n]
<1>5. /\ s \in Runtimes /\ s.end = r.end /\ s.edit = r.edit
      /\ s.phase # "binding" \/ s = r
      /\ s.gen = r.gen \/ s.gen = n
      /\ s.out = r.out \/ s.out = Append(r.out, x)
      /\ s.phase = r.phase \/ (~o.slot /\ s.phase = "running")
  <2>1. CASE ~o.slot
    <3>1. s = [r EXCEPT !.phase = "running"]
      BY <2>1 DEF Registered
    <3> HIDE DEF Wishes
    <3> QED  BY <2>1, <3>1 DEF Runtimes
  <2>2. CASE o.slot /\ s = r
    BY <2>2
  <2>3. CASE o.slot /\ s # r
    <3>1. s = Resumed(r, n)
      BY <2>3 DEF Registered
    <3> HIDE DEF Runtimes, x
    <3> QED  BY <2>3, <3>1, ResumedRuntime DEF x
  <2> QED  BY <2>1, <2>2, <2>3
<1>6. r.out \in Seq(Wishes)
  BY DEF Runtimes
<1> HIDE DEF Owners, Helpers, Runtimes
<1>7. OneUp(Due(o), Heard(h), h.st) /\ NoDown(Due(o), Heard(h))
  BY DEF Core, Exchange, Talk
<1>8. ~Lacks(Heard(h), {"ready"}) /\ Lacks(Heard(g), {"ready"})
  <2>1. Once(Heard(h), {"ready"}) /\ Heard(h)[1] \in {"ready"}
    BY <1>1, <1>7 DEF OneUp
  <2> QED  BY <1>1, <1>2, <2>1, OnceFirst
<1>10. \A L : Lacks(Heard(h), L) => Lacks(Heard(g), L)
  BY <1>2, <1>3, PartKeeps
<1>11. NoUp(Due(p), Heard(g), g.st) /\ NoDown(Due(p), Heard(g))
  BY <1>1, <1>7, <1>8, <1>10 DEF NoUp, NoDown, OneUp
<1>12. Exchange(p, g)
  BY <1>11 DEF Exchange, Talk
<1>13. Requests(r, o.phase, o.gen) /\ (~o.slot => o.gen = 1 /\ r.phase = "binding" /\ r.out = <<>> /\ r.edit = "none")
  BY DEF Core, Binding
<1>14. \A k : Asks(r, k) \subseteq DOMAIN r.out
  BY DEF Asks
<1>15. /\ Asks(s, "suspend") = Asks(r, "suspend") /\ \A i \in Asks(r, "suspend") : s.out[i] = r.out[i]
  <2>1. CASE s.out = r.out
    BY <2>1 DEF Asks
  <2>2. CASE s.out = Append(r.out, x)
    <3>1. DOMAIN s.out = 1 .. Len(r.out) + 1 /\ DOMAIN r.out = 1 .. Len(r.out) /\ Len(r.out) \in Nat
          /\ s.out[Len(r.out) + 1] = x /\ \A i \in DOMAIN r.out : s.out[i] = r.out[i]
      <4>1. s.out = Append(r.out, x) /\ r.out \in Seq(Wishes)
        BY <1>6, <2>2
      <4>2. x \in Wishes
        BY DEF Wishes
      <4> HIDE DEF x, Wishes
      <4> QED  BY <4>1, <4>2, AppendParts, SMTT(40)
    <3>2. \A i \in DOMAIN s.out : i \in DOMAIN r.out \/ s.out[i].k = "resume"
      BY <3>1
    <3> QED  BY <3>1, <3>2 DEF Asks
  <2> QED  BY <1>5, <2>1, <2>2
<1>16. Requests(s, p.phase, p.gen)
  <2>1. s.gen <= n /\ r.gen <= s.gen /\ r.gen <= o.gen
    BY <1>4, <1>5, <1>13 DEF Requests
  <2>2. \A i \in Asks(r, "suspend") : s.out[i] = r.out[i] /\ r.out[i].n \in Nat /\ r.out[i].n <= r.gen
    <3>1. \A i \in DOMAIN r.out : r.out[i].n \in Nat
      <4>1. \A i \in DOMAIN r.out : r.out[i] \in Wishes
        <5> HIDE DEF Wishes
        <5> QED  BY <1>6
      <4> QED  BY <4>1 DEF Wishes
    <3> QED  BY <1>13, <1>14, <1>15, <3>1 DEF Requests
  <2>3. s.gen \in Nat
    BY <1>4, <1>5
  <2>4. \A i \in Asks(s, "suspend") : s.out[i].n <= s.gen
    BY <1>4, <1>15, <2>1, <2>2, <2>3
  <2>5. \A i \in Asks(s, "suspend") : s.out[i].n # n
    <3>1. CASE o.slot
      <4>1. n = o.gen + 1
        BY <3>1
      <4> QED  BY <1>4, <1>15, <2>1, <2>2, <4>1
    <3>2. CASE ~o.slot
      <4>1. Asks(r, "suspend") = {}
        BY <1>13, <3>2 DEF Asks
      <4> QED  BY <1>15, <4>1
    <3> QED  BY <3>1, <3>2
  <2>6. Asks(s, "suspend") # {} => s.edit = "asked" \/ s.phase = "over"
    BY <1>5, <1>13, <1>15 DEF Requests
  <2>7. \A i, j \in Asks(s, "suspend") : i = j
    BY <1>13, <1>15 DEF Requests
  <2> QED  BY <2>1, <2>4, <2>5, <2>6, <2>7 DEF Requests
<1>17. Edits(s, p.phase, Due(p), Heard(g), g.st)
  BY <1>5 DEF Edits, Core, Gone
<1>18. Ended(s, Closed(p), Heard(g), g.st)
  BY <1>1, <1>5, <1>10 DEF Core, Ended
<1>19. Binding(s, p.slot, p.gen)
  BY <1>5, <1>13 DEF Core, Binding
<1>20. Awaits(p.control, p.phase)
  BY NoneApart DEF Awaits
<1> QED  BY <1>5, <1>12, <1>16, <1>17, <1>18, <1>19, <1>20 DEF Core

-----------------------------------------------------------------------------
(* Steps of the helper.                                                    *)

Chatter == {"error", "painted", "input", "resume_needed"}

\* The helper says nothing that brings it up or down, and is raw no more than before.
LEMMA QuietHelper ==
    ASSUME NEW r \in Runtimes, NEW o \in Owners, NEW h \in Helpers, Core(r, o, h),
           NEW p \in Owners, SamePhase(o, p), SameDraws(o, p), p.control = o.control, Part(Due(p), Due(o)),
           NEW g \in Helpers, g.st = h.st \/ (h.st # "exited" /\ g.st \notin Raw) \/ g.st = "exited",
           Grows(NoteKinds, Heard(h), Heard(g), Chatter)
    PROVE  Core(r, p, g)
<1>1. /\ Due(o) \in Seq(Kinds) /\ Due(p) \in Seq(Kinds) /\ Heard(h) \in Seq(NoteKinds) /\ Heard(g) \in Seq(NoteKinds)
  <2>1. Due(o) \in Seq(Kinds)
    BY DueType
  <2>2. Due(p) \in Seq(Kinds)
    BY DueType
  <2>3. Heard(h) \in Seq(NoteKinds)
    BY HeardType
  <2>4. Heard(g) \in Seq(NoteKinds)
    BY HeardType
  <2> QED  BY <2>1, <2>2, <2>3, <2>4
<1> HIDE DEF Owners, Helpers, Runtimes
<1>2. \A L : (Lacks(Due(o), L) => Lacks(Due(p), L)) /\ (Once(Due(o), L) => Once(Due(p), L))
  BY <1>1, PartKeeps
<1>3. \A L : Chatter \cap L = {} =>
        (Lacks(Heard(h), L) => Lacks(Heard(g), L)) /\ (Once(Heard(h), L) => Once(Heard(g), L))
  BY <1>1, GrowsKeeps
<1>4. Chatter \cap {"ready"} = {} /\ Chatter \cap {"suspended"} = {} /\ Chatter \cap {"restored"} = {}
  BY DEF Chatter
<1>5. (h.st # "probing" => g.st # "probing") /\ (h.st \notin Raw => g.st \notin Raw)
  BY DEF Raw
<1>6. g.st = "probing" => h.st = "probing"
  BY <1>5
<1>7. NoUp(Due(o), Heard(h), h.st) => NoUp(Due(p), Heard(g), g.st)
  BY <1>2, <1>3, <1>4, <1>5 DEF NoUp
<1>8. OneUp(Due(o), Heard(h), h.st) => OneUp(Due(p), Heard(g), g.st)
  BY <1>2, <1>3, <1>4, <1>5, <1>6 DEF OneUp
<1>9. NoDown(Due(o), Heard(h)) => NoDown(Due(p), Heard(g))
  BY <1>2, <1>3, <1>4 DEF NoDown
<1>10. OneDown(Due(o), Heard(h)) => OneDown(Due(p), Heard(g))
  BY <1>2, <1>3, <1>4 DEF OneDown
<1>11. Exchange(p, g)
  BY <1>3, <1>4, <1>5, <1>7, <1>8, <1>9, <1>10 DEF Core, Exchange, Talk, SamePhase
<1>12. Edits(r, p.phase, Due(p), Heard(g), g.st)
  BY <1>5, <1>7 DEF Core, Edits, SamePhase
<1>13. Ended(r, Closed(p), Heard(g), g.st)
  BY <1>3, <1>4 DEF Core, Ended, Closed, SameDraws
<1> QED  BY <1>11, <1>12, <1>13 DEF Core, SamePhase

\* What a helper that comes up needs to be alone in doing so.
LEMMA UpHelper ==
    ASSUME NEW r \in Runtimes, NEW o \in Owners, NEW h \in Helpers, Core(r, o, h), h.st # "exited",
           NEW p \in Owners, SamePhase(o, p), SameDraws(o, p), p.control = o.control,
           NEW g \in Helpers,
           \/ /\ Due(o) # <<>> /\ Due(o)[1] \in Ups /\ Due(p) = Tail(Due(o))
              /\ \/ g.st = "probing" /\ Heard(g) = Heard(h)
                 \/ g.st = "active" /\ Heard(g) = Append(Heard(h), "ready")
           \/ /\ h.st = "probing" /\ Due(p) = Due(o)
              /\ g.st = "active" /\ Heard(g) = Append(Heard(h), "ready")
    PROVE  Core(r, p, g)
<1>1. Due(o) \in Seq(Kinds) /\ Heard(h) \in Seq(NoteKinds)
  <2>1. Due(o) \in Seq(Kinds)
    BY DueType
  <2>2. Heard(h) \in Seq(NoteKinds)
    BY HeardType
  <2> QED  BY <2>1, <2>2
<1>2. Due(p) \in Seq(Kinds)
  BY DueType
<1> HIDE DEF Owners, Helpers, Runtimes
<1>3. ~NoUp(Due(o), Heard(h), h.st)
  <2>1. CASE Due(o) # <<>> /\ Due(o)[1] \in Ups
    <3>1. 1 \in DOMAIN Due(o)
      <4> HIDE DEF Kinds
      <4> QED  BY <1>1, <2>1
    <3> QED  BY <2>1, <3>1 DEF NoUp, Lacks
  <2>2. CASE h.st = "probing"
    BY <2>2 DEF NoUp
  <2> QED  BY <2>1, <2>2
<1>4. o.phase \in {"initializing", "resuming"} => OneUp(Due(p), Heard(g), g.st) /\ NoDown(Due(p), Heard(g))
  <2> SUFFICES ASSUME o.phase \in {"initializing", "resuming"}
               PROVE  OneUp(Due(p), Heard(g), g.st) /\ NoDown(Due(p), Heard(g))
    OBVIOUS
  <2>1. OneUp(Due(o), Heard(h), h.st) /\ NoDown(Due(o), Heard(h))
    BY DEF Core, Exchange, Talk
  <2>2. Lacks(Due(p), Ups) /\ Lacks(Heard(h), {"ready"}) /\ Lacks(Due(p), {"suspend"})
    <3>1. CASE Due(o) # <<>> /\ Due(o)[1] \in Ups /\ Due(p) = Tail(Due(o))
      <4>1. Lacks(Due(p), Ups) /\ ~Lacks(Due(o), Ups)
        BY <1>1, <2>1, <3>1, OnceFirst DEF OneUp
      <4>2. Part(Due(p), Due(o))
        BY <1>1, <3>1, TailPart
      <4>3. Lacks(Due(p), {"suspend"})
        BY <1>1, <1>2, <2>1, <4>2, PartKeeps DEF NoDown
      <4> QED  BY <2>1, <4>1, <4>3 DEF OneUp
    <3>2. CASE h.st = "probing" /\ Due(p) = Due(o)
      BY <2>1, <3>2 DEF OneUp, NoDown
    <3> QED  BY <3>1, <3>2
  <2>3. CASE g.st = "probing" /\ Heard(g) = Heard(h)
    BY <2>1, <2>2, <2>3 DEF OneUp, NoDown, Lacks, Once
  <2>4. CASE g.st = "active" /\ Heard(g) = Append(Heard(h), "ready")
    <3>1. Grows(NoteKinds, Heard(h), Append(Heard(h), "ready"), {"ready"})
      BY <1>1, GrowsByOne
    <3>2. Append(Heard(h), "ready") \in Seq(NoteKinds)
      <4>1. "ready" \in NoteKinds
        BY DEF NoteKinds
      <4> HIDE DEF NoteKinds
      <4> QED  BY <1>1, <4>1
    <3>3. Once(Heard(g), {"ready"})
      BY <1>1, <2>2, <2>4, <3>1, <3>2, GrowsKeeps
    <3>4. {"ready"} \cap {"suspended"} = {}
      OBVIOUS
    <3>5. Lacks(Heard(g), {"suspended"})
      BY <1>1, <2>1, <2>4, <3>1, <3>2, <3>4, GrowsKeeps DEF NoDown
    <3>6. Once(Due(p), Ups)
      BY <2>2 DEF Lacks, Once
    <3> QED  BY <2>2, <2>4, <3>3, <3>5, <3>6 DEF OneUp, NoDown
  <2> QED  BY <2>3, <2>4
<1>5. Exchange(p, g)
  <2>1. p.phase = o.phase
    BY DEF SamePhase
  <2>2. o.phase \notin {"running", "suspending", "suspended"}
    BY <1>3 DEF Core, Exchange, Talk
  <2> QED  BY <1>4, <2>1, <2>2 DEF Exchange, Talk
<1>6. Edits(r, p.phase, Due(p), Heard(g), g.st)
  BY <1>3 DEF Core, Edits
<1>7. Ended(r, Closed(p), Heard(g), g.st)
  <2>1. Lacks(Heard(h), {"restored"}) /\ ~Closed(o) /\ r.end \notin {"restored", "down"}
    BY DEF Core, Ended
  <2>2. ~Closed(p)
    BY <2>1 DEF Closed, SameDraws
  <2>3. Lacks(Heard(g), {"restored"})
    <3>1. CASE Heard(g) = Heard(h)
      BY <2>1, <3>1
    <3>2. CASE Heard(g) = Append(Heard(h), "ready")
      <4>1. Grows(NoteKinds, Heard(h), Append(Heard(h), "ready"), {"ready"})
        BY <1>1, GrowsByOne
      <4>2. Append(Heard(h), "ready") \in Seq(NoteKinds)
        <5>1. "ready" \in NoteKinds
          BY DEF NoteKinds
        <5> HIDE DEF NoteKinds
        <5> QED  BY <1>1, <5>1
      <4>3. {"ready"} \cap {"restored"} = {}
        OBVIOUS
      <4> QED  BY <1>1, <2>1, <3>2, <4>1, <4>2, <4>3, GrowsKeeps
    <3> QED  BY <3>1, <3>2
  <2> QED  BY <2>1, <2>2, <2>3 DEF Ended
<1> QED  BY <1>5, <1>6, <1>7 DEF Core, SamePhase

\* A helper that confirms a suspend, or a shutdown.
LEMMA DownHelper ==
    ASSUME NEW r \in Runtimes, NEW o \in Owners, NEW h \in Helpers, Core(r, o, h), h.st # "exited",
           NEW p \in Owners, SamePhase(o, p), SameDraws(o, p), p.control = o.control,
           Due(o) # <<>>, Due(p) = Tail(Due(o)),
           NEW g \in Helpers,
           \/ Due(o)[1] = "suspend" /\ g.st = "suspended" /\ Heard(g) = Append(Heard(h), "suspended")
           \/ Due(o)[1] = "shutdown" /\ g.st = "exited" /\ Heard(g) = Append(Heard(h), "restored")
    PROVE  Core(r, p, g)
<1>1. Due(o) \in Seq(Kinds) /\ Heard(h) \in Seq(NoteKinds)
  <2>1. Due(o) \in Seq(Kinds)
    BY DueType
  <2>2. Heard(h) \in Seq(NoteKinds)
    BY HeardType
  <2> QED  BY <2>1, <2>2
<1>2. Due(p) \in Seq(Kinds) /\ Heard(g) \in Seq(NoteKinds)
  <2>1. Due(p) \in Seq(Kinds)
    BY DueType
  <2>2. Heard(g) \in Seq(NoteKinds)
    BY HeardType
  <2> QED  BY <2>1, <2>2
<1> HIDE DEF Owners, Helpers, Runtimes
<1>3. \A L : (Lacks(Due(o), L) => Lacks(Due(p), L)) /\ (Once(Due(o), L) => Once(Due(p), L))
  BY <1>1, <1>2, TailPart, PartKeeps
<1>4. \A x \in {"suspended", "restored"} : Heard(g) = Append(Heard(h), x) =>
        \A L : /\ {x} \cap L = {} => /\ Lacks(Heard(h), L) => Lacks(Heard(g), L)
                                     /\ Once(Heard(h), L) => Once(Heard(g), L)
               /\ Lacks(Heard(h), L) => Once(Heard(g), L)
  <2>1. ASSUME NEW x \in {"suspended", "restored"}, Heard(g) = Append(Heard(h), x)
        PROVE  Grows(NoteKinds, Heard(h), Heard(g), {x})
    BY <1>1, <2>1, GrowsByOne
  <2> QED  BY <1>1, <1>2, <2>1, GrowsKeeps
<1>5. g.st # "probing" /\ g.st \notin Raw
  BY DEF Raw
<1>6. Lacks(Heard(h), {"ready"}) => Lacks(Heard(g), {"ready"})
  BY <1>4
<1>7. Once(Heard(h), {"ready"}) => Once(Heard(g), {"ready"})
  BY <1>4
<1>8. NoUp(Due(o), Heard(h), h.st) => NoUp(Due(p), Heard(g), g.st)
  BY <1>3, <1>5, <1>6 DEF NoUp
<1>9. OneUp(Due(o), Heard(h), h.st) => OneUp(Due(p), Heard(g), g.st)
  BY <1>3, <1>5, <1>6, <1>7 DEF OneUp
<1>10. Exchange(p, g) /\ Edits(r, p.phase, Due(p), Heard(g), g.st)
  <2>1. CASE Due(o)[1] = "suspend" /\ Heard(g) = Append(Heard(h), "suspended")
    <3>1. 1 \in DOMAIN Due(o)
      <4> HIDE DEF Kinds
      <4> QED  BY <1>1
    <3>2. ~NoDown(Due(o), Heard(h))
      BY <2>1, <3>1 DEF NoDown, Lacks
    <3>3. OneDown(Due(o), Heard(h)) => OneDown(Due(p), Heard(g))
      <4>1. ASSUME OneDown(Due(o), Heard(h)) PROVE OneDown(Due(p), Heard(g))
        <5>1. Lacks(Due(p), {"suspend"}) /\ ~Lacks(Due(o), {"suspend"})
          BY <1>1, <2>1, <4>1, OnceFirst DEF OneDown
        <5>2. Lacks(Heard(h), {"suspended"})
          BY <4>1, <5>1 DEF OneDown
        <5>3. Once(Heard(g), {"suspended"})
          BY <1>4, <2>1, <5>2
        <5> QED  BY <1>3, <4>1, <5>1, <5>3 DEF OneDown
      <4> QED  BY <4>1
    <3>4. p.phase = o.phase
      BY DEF SamePhase
    <3>5. o.phase \notin {"initializing", "resuming", "running", "suspended"}
      BY <3>2 DEF Core, Exchange, Talk
    <3>6. Exchange(p, g)
      BY <1>5, <1>8, <3>3, <3>4, <3>5 DEF Core, Exchange, Talk
    <3>7. Edits(r, p.phase, Due(p), Heard(g), g.st)
      BY <1>5, <1>8, <3>4 DEF Core, Edits
    <3> QED  BY <3>6, <3>7
  <2>2. CASE g.st = "exited" /\ Heard(g) = Append(Heard(h), "restored")
    <3>1. NoDown(Due(o), Heard(h)) => NoDown(Due(p), Heard(g))
      BY <1>3, <1>4, <2>2 DEF NoDown
    <3>2. OneDown(Due(o), Heard(h)) => OneDown(Due(p), Heard(g))
      <4>1. Lacks(Heard(h), {"suspended"}) => Lacks(Heard(g), {"suspended"})
        BY <1>4, <2>2
      <4>2. Once(Heard(h), {"suspended"}) => Once(Heard(g), {"suspended"})
        BY <1>4, <2>2
      <4> QED  BY <1>3, <4>1, <4>2 DEF OneDown
    <3>3. p.phase = o.phase
      BY DEF SamePhase
    <3>4. Exchange(p, g)
      BY <1>5, <1>8, <1>9, <3>1, <3>2, <3>3 DEF Core, Exchange, Talk
    <3>5. Edits(r, p.phase, Due(p), Heard(g), g.st)
      BY <1>5, <1>8, <3>3 DEF Core, Edits
    <3> QED  BY <3>4, <3>5
  <2> QED  BY <2>1, <2>2
<1>11. Ended(r, Closed(p), Heard(g), g.st)
  <2>1. CASE g.st = "exited"
    BY <2>1 DEF Ended
  <2>2. CASE Heard(g) = Append(Heard(h), "suspended")
    <3>1. Lacks(Heard(h), {"restored"}) /\ ~Closed(o) /\ r.end \notin {"restored", "down"}
      BY DEF Core, Ended
    <3>2. ~Closed(p)
      BY <3>1 DEF Closed, SameDraws
    <3>3. Lacks(Heard(g), {"restored"})
      BY <1>4, <2>2, <3>1
    <3> QED  BY <3>1, <3>2, <3>3 DEF Ended
  <2> QED  BY <2>1, <2>2
<1> QED  BY <1>10, <1>11 DEF Core, SamePhase

-----------------------------------------------------------------------------
(* Steps of the runtime.                                                   *)

\* What the runtime says that asks the owner for nothing.
Said(r, t) ==
    t.out = r.out \/ \E x \in Wishes : x.k \notin {"suspend", "resume"} /\ t.out = Append(r.out, x)

\* The runtime draws, closes or ends.
Goes(r, t) ==
    /\ t \in Runtimes /\ t.gen = r.gen /\ Said(r, t)
    /\ t.edit = r.edit \/ (t.edit = "none" /\ t.phase = "over")
    /\ t.phase = r.phase \/ t.phase = "over" \/ (t.phase = "closing" /\ r.phase # "over")
    /\ r.phase = "binding" => t = r \/ (t.phase = "over" /\ t.out = r.out)

LEMMA SaidAsks ==
    ASSUME NEW r \in Runtimes, NEW t, Said(r, t)
    PROVE  /\ Asks(t, "suspend") = Asks(r, "suspend") /\ Asks(t, "resume") = Asks(r, "resume")
           /\ \A i \in Asks(r, "suspend") : t.out[i] = r.out[i]
<1>1. CASE t.out = r.out
  BY <1>1 DEF Asks
<1>2. CASE \E x \in Wishes : x.k \notin {"suspend", "resume"} /\ t.out = Append(r.out, x)
  <2>1. PICK x \in Wishes : x.k \notin {"suspend", "resume"} /\ t.out = Append(r.out, x)
    BY <1>2
  <2>2. r.out \in Seq(Wishes)
    BY DEF Runtimes
  <2> HIDE DEF Wishes, Runtimes
  <2>3. DOMAIN t.out = 1 .. Len(r.out) + 1 /\ DOMAIN r.out = 1 .. Len(r.out) /\ Len(r.out) \in Nat
        /\ t.out[Len(r.out) + 1] = x /\ \A i \in DOMAIN r.out : t.out[i] = r.out[i]
    BY <2>1, <2>2, AppendParts
  <2>4. \A i \in DOMAIN t.out : i \in DOMAIN r.out \/ i = Len(r.out) + 1
    BY <2>3
  <2>5. \A i \in DOMAIN r.out : i \in DOMAIN t.out
    BY <2>3
  <2> QED  BY <2>1, <2>3, <2>4, <2>5 DEF Asks
<1> QED  BY <1>1, <1>2 DEF Said

LEMMA QuietRuntime ==
    ASSUME NEW r \in Runtimes, NEW o \in Owners, NEW h \in Helpers, Core(r, o, h),
           NEW p \in Owners, p.phase = o.phase, p.slot = o.slot, p.gen = o.gen, p.control = o.control,
           Due(p) = Due(o), Closed(p) => Closed(o),
           NEW t, Goes(r, t), t.end = r.end \/ t.end \notin {"restored", "down"} \/ h.st = "exited"
    PROVE  Core(t, p, h)
<1> HIDE DEF Owners, Helpers
<1>1. /\ Asks(t, "suspend") = Asks(r, "suspend") /\ Asks(t, "resume") = Asks(r, "resume")
      /\ \A i \in Asks(r, "suspend") : t.out[i] = r.out[i]
  BY SaidAsks DEF Goes
<1> HIDE DEF Runtimes
<1>2. t.gen = r.gen /\ (t.edit = r.edit \/ (t.edit = "none" /\ t.phase = "over")) /\ (r.phase = "over" => t.phase = "over")
  BY DEF Goes
<1>3. Exchange(p, h)
  BY DEF Core, Exchange
<1>4. Requests(t, p.phase, p.gen)
  <2>1. Requests(r, o.phase, o.gen)
    BY DEF Core
  <2> QED  BY <1>1, <1>2, <2>1 DEF Requests
<1>5. Edits(t, p.phase, Due(p), Heard(h), h.st)
  BY <1>1, <1>2 DEF Core, Edits
<1>6. Ended(t, Closed(p), Heard(h), h.st)
  BY DEF Core, Ended
<1>7. Binding(t, p.slot, p.gen)
  <2>1. Binding(r, o.slot, o.gen)
    BY DEF Core
  <2>2. r.phase \in {"binding", "over"} => t.phase \in {"binding", "over"}
    BY DEF Goes
  <2>3. t.phase = "binding" => t = r
    BY DEF Goes
  <2> QED  BY <2>1, <2>2, <2>3 DEF Binding
<1>8. Awaits(p.control, p.phase)
  BY DEF Core
<1> QED  BY <1>3, <1>4, <1>5, <1>6, <1>7, <1>8 DEF Core

\* The runtime asks the owner to step aside.
LEMMA AskingSuspend ==
    ASSUME NEW r \in Runtimes, NEW o \in Owners, NEW h \in Helpers, Core(r, o, h),
           r.phase = "running", r.edit = "none",
           NEW t \in Runtimes, t.phase = r.phase, t.gen = r.gen, t.edit = "asked", t.end = r.end,
           t.out = Append(r.out, [k |-> "suspend", n |-> r.gen])
    PROVE  Core(t, o, h)
<1> DEFINE x == [k |-> "suspend", n |-> r.gen]
<1>1. r.out \in Seq(Wishes) /\ x \in Wishes /\ r.gen \in Nat
  BY DEF Runtimes, Wishes
<1>2. t.out = Append(r.out, x)
  OBVIOUS
<1> HIDE DEF Wishes, x
<1>3. DOMAIN t.out = 1 .. Len(r.out) + 1 /\ DOMAIN r.out = 1 .. Len(r.out) /\ Len(r.out) \in Nat
      /\ t.out[Len(r.out) + 1] = x /\ \A i \in DOMAIN r.out : t.out[i] = r.out[i]
  BY <1>1, <1>2, AppendParts
<1> DEFINE m == Len(r.out) + 1
<1>4. \A i \in DOMAIN t.out : i \in DOMAIN r.out \/ i = m
  BY <1>3
<1>5. \A i \in DOMAIN r.out : i < m
  BY <1>3
<1> HIDE DEF Runtimes, Owners, Helpers, m
<1>6. x.k = "suspend" /\ x.n = r.gen
  BY DEF x
<1>7. Requests(r, o.phase, o.gen) /\ Asks(r, "suspend") = {} /\ o.phase # "suspending"
  BY DEF Core, Requests
<1>8. Asks(t, "suspend") \subseteq {m} /\ t.out[m] = x
  BY <1>3, <1>4, <1>7 DEF Asks, m
<1>9. Asks(t, "resume") \subseteq DOMAIN r.out
  BY <1>3, <1>4, <1>6, <1>8 DEF Asks
<1>10. Requests(t, o.phase, o.gen)
  <2>1. \A i \in Asks(t, "suspend") : t.out[i].n <= t.gen
    <3>1. \A i \in Asks(t, "suspend") : t.out[i] = x
      BY <1>8
    <3>2. x.n <= t.gen
      <4>1. x.n = t.gen /\ t.gen \in Nat
        BY <1>1, <1>6
      <4> HIDE DEF x
      <4> QED  BY <4>1
    <3> QED  BY <3>1, <3>2, Zenon
  <2>2. \A i, j \in Asks(t, "suspend") : i = j
    BY <1>8
  <2>3. \A i \in Asks(t, "suspend"), j \in Asks(t, "resume") : j < i
    BY <1>5, <1>8, <1>9
  <2> QED  BY <1>7, <2>1, <2>2, <2>3 DEF Requests
<1>11. Edits(t, o.phase, Due(o), Heard(h), h.st)
  BY DEF Edits
<1>12. Ended(t, Closed(o), Heard(h), h.st)
  BY DEF Core, Ended
<1>13. Binding(t, o.slot, o.gen)
  BY DEF Core, Binding
<1> QED  BY <1>10, <1>11, <1>12, <1>13 DEF Core

\* The runtime asks the owner to come back: no request to step aside waits.
LEMMA AskingResume ==
    ASSUME NEW r \in Runtimes, NEW o \in Owners, NEW h \in Helpers, Core(r, o, h),
           r.edit # "none", Asks(r, "suspend") = {}, o.phase # "suspending",
           NEW t \in Runtimes, t.phase = r.phase, t.gen = r.gen, t.edit = "none", t.end = r.end,
           t.out = Append(r.out, [k |-> "resume", n |-> r.gen])
    PROVE  Core(t, o, h)
<1> DEFINE x == [k |-> "resume", n |-> r.gen]
<1>1. r.out \in Seq(Wishes) /\ x \in Wishes
  BY DEF Runtimes, Wishes
<1>2. t.out = Append(r.out, x)
  OBVIOUS
<1> HIDE DEF Wishes, x
<1>3. DOMAIN t.out = 1 .. Len(r.out) + 1 /\ DOMAIN r.out = 1 .. Len(r.out) /\ Len(r.out) \in Nat
      /\ t.out[Len(r.out) + 1] = x /\ \A i \in DOMAIN r.out : t.out[i] = r.out[i]
  BY <1>1, <1>2, AppendParts
<1>4. \A i \in DOMAIN t.out : i \in DOMAIN r.out \/ i = Len(r.out) + 1
  BY <1>3
<1> HIDE DEF Runtimes, Owners, Helpers
<1>5. x.k = "resume"
  BY DEF x
<1>6. Asks(t, "suspend") = {}
  BY <1>3, <1>4, <1>5 DEF Asks
<1>7. Requests(t, o.phase, o.gen)
  <2>1. Requests(r, o.phase, o.gen)
    BY DEF Core
  <2> QED  BY <1>6, <2>1 DEF Requests
<1>8. Edits(t, o.phase, Due(o), Heard(h), h.st)
  BY DEF Edits
<1>9. Ended(t, Closed(o), Heard(h), h.st)
  BY DEF Core, Ended
<1>10. Binding(t, o.slot, o.gen)
  BY DEF Core, Binding
<1> QED  BY <1>7, <1>8, <1>9, <1>10 DEF Core

-----------------------------------------------------------------------------
(* What the runtime's operators do to it.                                  *)

LEMMA TellRuntime ==
    ASSUME NEW r \in Runtimes, NEW k \in {"draw", "shutdown", "suspend", "resume", "redraw", "mouse"}, NEW n \in Nat,
           NEW t, t = Tell(r, k, n)
    PROVE  /\ t \in Runtimes /\ t.phase = r.phase /\ t.life = r.life /\ t.gen = r.gen /\ t.asked = r.asked
           /\ t.draw = r.draw /\ t.final = r.final /\ t.shut = r.shut /\ t.edit = r.edit /\ t.end = r.end
           /\ t.out = Append(r.out, [k |-> k, n |-> n]) /\ [k |-> k, n |-> n] \in Wishes
<1> DEFINE x == [k |-> k, n |-> n]
<1>1. x \in Wishes
  BY DEF Wishes
<1>2. t = [r EXCEPT !.out = Append(@, x)]
  BY DEF Tell
<1> HIDE DEF Wishes, x
<1>3. Append(r.out, x) \in Seq(Wishes)
  BY <1>1 DEF Runtimes
<1>4. t \in Runtimes
  BY <1>2, <1>3 DEF Runtimes
<1>5. /\ t.phase = r.phase /\ t.life = r.life /\ t.gen = r.gen /\ t.asked = r.asked
      /\ t.draw = r.draw /\ t.final = r.final /\ t.shut = r.shut /\ t.edit = r.edit /\ t.end = r.end
      /\ t.out = Append(r.out, x)
  BY <1>2 DEF Runtimes
<1> QED  BY <1>1, <1>4, <1>5 DEF x

LEMMA TellSaid ==
    ASSUME NEW r \in Runtimes, NEW k \in {"draw", "shutdown", "redraw", "mouse"}, NEW n \in Nat,
           NEW t, t.out = Append(r.out, [k |-> k, n |-> n])
    PROVE  Said(r, t)
<1>1. [k |-> k, n |-> n] \in Wishes /\ [k |-> k, n |-> n].k \notin {"suspend", "resume"}
  BY DEF Wishes
<1> HIDE DEF Wishes
<1> QED  BY <1>1 DEF Said

LEMMA DrawRuntime ==
    ASSUME NEW r \in Runtimes, NEW t, t = Draw(r)
    PROVE  /\ t \in Runtimes /\ t.phase = r.phase /\ t.life = r.life /\ t.gen = r.gen /\ t.asked = r.asked + 1
           /\ t.draw = r.asked + 1 /\ t.final = r.final /\ t.shut = r.shut /\ t.edit = r.edit /\ t.end = r.end
           /\ t.out = Append(r.out, [k |-> "draw", n |-> r.asked + 1])
<1> DEFINE q == Tell(r, "draw", r.asked + 1)
           x == [k |-> "draw", n |-> r.asked + 1]
<1>1. r.asked + 1 \in Nat
  BY DEF Runtimes
<1>2. /\ q \in Runtimes /\ q.phase = r.phase /\ q.life = r.life /\ q.gen = r.gen /\ q.asked = r.asked
      /\ q.draw = r.draw /\ q.final = r.final /\ q.shut = r.shut /\ q.edit = r.edit /\ q.end = r.end
      /\ q.out = Append(r.out, x)
  <2> HIDE DEF Runtimes
  <2> QED  BY <1>1, TellRuntime
<1>3. t = [q EXCEPT !.asked = @ + 1, !.draw = r.asked + 1]
  BY DEF Draw
<1> HIDE DEF q, x
<1>4. t = [q EXCEPT !.asked = r.asked + 1, !.draw = r.asked + 1]
  BY <1>2, <1>3 DEF Runtimes
<1>5. t \in Runtimes
  <2> HIDE DEF Wishes
  <2> QED  BY <1>1, <1>2, <1>4 DEF Runtimes
<1>6. /\ t.phase = r.phase /\ t.life = r.life /\ t.gen = r.gen /\ t.asked = r.asked + 1
      /\ t.draw = r.asked + 1 /\ t.final = r.final /\ t.shut = r.shut /\ t.edit = r.edit /\ t.end = r.end
      /\ t.out = Append(r.out, x)
  BY <1>2, <1>4 DEF Runtimes
<1> QED  BY <1>5, <1>6 DEF x

LEMMA UndrawnRuntime ==
    ASSUME NEW r \in Runtimes, NEW t, t = [r EXCEPT !.draw = 0]
    PROVE  /\ t \in Runtimes /\ t.phase = r.phase /\ t.gen = r.gen /\ t.edit = r.edit /\ t.end = r.end
           /\ t.out = r.out /\ t.final = r.final /\ t.draw = 0 /\ t.asked = r.asked /\ t.life = r.life /\ t.shut = r.shut
<1>1. t \in Runtimes
  <2> HIDE DEF Wishes
  <2> QED  BY DEF Runtimes
<1> QED  BY <1>1 DEF Runtimes

LEMMA DrawGoes ==
    ASSUME NEW r \in Runtimes, r.phase \notin {"binding"}, NEW t, t = Draw(r)
    PROVE  Goes(r, t) /\ t.end = r.end
<1>1. /\ t \in Runtimes /\ t.phase = r.phase /\ t.gen = r.gen /\ t.edit = r.edit /\ t.end = r.end
      /\ t.out = Append(r.out, [k |-> "draw", n |-> r.asked + 1])
  BY DrawRuntime
<1>2. r.asked + 1 \in Nat
  BY DEF Runtimes
<1>3. Said(r, t)
  BY <1>1, <1>2, TellSaid
<1> QED  BY <1>1, <1>3 DEF Goes

\* final_paint/2
LEMMA FinalGoes ==
    ASSUME NEW r \in Runtimes, r.phase \notin {"binding", "over"}, NEW t, t = FinalPaint(r)
    PROVE  Goes(r, t) /\ t.end = r.end /\ t.phase = "closing"
<1>1. CASE r.draw # 0
  <2>1. t = [r EXCEPT !.phase = "closing", !.final = TRUE]
    BY <1>1 DEF FinalPaint
  <2>2. t \in Runtimes /\ t.gen = r.gen /\ t.edit = r.edit /\ t.end = r.end /\ t.phase = "closing" /\ t.out = r.out
    <3> HIDE DEF Wishes
    <3> QED  BY <2>1 DEF Runtimes
  <2> QED  BY <2>2 DEF Goes, Said
<1>2. CASE r.draw = 0
  <2> DEFINE q == Draw(r)
  <2>1. q \in Runtimes /\ Said(r, q) /\ q.end = r.end /\ q.edit = r.edit /\ q.gen = r.gen
    BY DrawGoes, DrawRuntime DEF Goes
  <2>2. t = [q EXCEPT !.phase = "closing", !.final = FALSE]
    BY <1>2 DEF FinalPaint
  <2> HIDE DEF q
  <2>3. t \in Runtimes /\ t.gen = q.gen /\ t.edit = q.edit /\ t.end = q.end /\ t.phase = "closing" /\ t.out = q.out
    <3> HIDE DEF Wishes
    <3> QED  BY <2>1, <2>2 DEF Runtimes
  <2> QED  BY <2>1, <2>3 DEF Goes, Said
<1> QED  BY <1>1, <1>2

\* begin_shutdown/2
LEMMA ShutGoes ==
    ASSUME NEW r \in Runtimes, r.phase \notin {"binding", "over"}, NEW t, t = BeginShutdown(r)
    PROVE  Goes(r, t) /\ t.end = r.end
<1>1. CASE r.shut
  <2>1. t = r
    BY <1>1 DEF BeginShutdown
  <2> QED  BY <2>1 DEF Goes, Said
<1>2. CASE ~r.shut
  <2> DEFINE q == Tell(r, "shutdown", 0)
  <2>1. /\ q \in Runtimes /\ q.phase = r.phase /\ q.gen = r.gen /\ q.edit = r.edit /\ q.end = r.end
        /\ q.out = Append(r.out, [k |-> "shutdown", n |-> 0])
    <3> HIDE DEF Runtimes
    <3> QED  BY TellRuntime
  <2>2. Said(r, q)
    BY <2>1, TellSaid
  <2>3. t = [q EXCEPT !.phase = "closing", !.shut = TRUE, !.draw = 0]
    BY <1>2 DEF BeginShutdown
  <2> DEFINE u == [q EXCEPT !.phase = "closing", !.shut = TRUE]
  <2> HIDE DEF q
  <2>5. u \in Runtimes /\ u.gen = q.gen /\ u.edit = q.edit /\ u.end = q.end /\ u.phase = "closing" /\ u.out = q.out
    <3> HIDE DEF Wishes
    <3> QED  BY <2>1 DEF Runtimes
  <2>6. t = [u EXCEPT !.draw = 0]
    BY <2>1, <2>3 DEF Runtimes
  <2> HIDE DEF u
  <2>4. t \in Runtimes /\ t.gen = q.gen /\ t.edit = q.edit /\ t.end = q.end /\ t.phase = "closing" /\ t.out = q.out
    <3> HIDE DEF Runtimes
    <3> QED  BY <2>5, <2>6, UndrawnRuntime
  <2> QED  BY <2>1, <2>2, <2>4 DEF Goes, Said
<1> QED  BY <1>1, <1>2

\* settle_draw/4
LEMMA SettleGoes ==
    ASSUME NEW r \in Runtimes, r.phase # "over", r.phase = "binding" => r.draw = 0 /\ ~r.final,
           NEW d, NEW t, t = SettleDraw(r, d)
    PROVE  Goes(r, t) /\ t.end = r.end
<1> DEFINE q == [r EXCEPT !.draw = 0]
<1>1. q \in Runtimes /\ q.phase = r.phase /\ q.gen = r.gen /\ q.edit = r.edit /\ q.end = r.end /\ q.out = r.out
      /\ q.final = r.final
  BY UndrawnRuntime
<1>2. t \in {r, q, FinalPaint(q), BeginShutdown(q)}
  BY DEF SettleDraw
<1>3. r.phase = "binding" => t = r
  <2> SUFFICES ASSUME r.phase = "binding" PROVE t = r
    OBVIOUS
  <2>1. q = r
    BY DEF Runtimes
  <2> QED  BY <2>1 DEF SettleDraw
<1> HIDE DEF q
<1>4. CASE t = r
  BY <1>4 DEF Goes, Said
<1>5. CASE t = q /\ r.phase # "binding"
  BY <1>1, <1>5 DEF Goes, Said
<1>6. CASE t = FinalPaint(q) /\ r.phase # "binding"
  <2>1. Goes(q, t) /\ t.end = q.end
    BY <1>1, <1>6, FinalGoes
  <2> QED  BY <1>1, <1>6, <2>1 DEF Goes, Said
<1>7. CASE t = BeginShutdown(q) /\ r.phase # "binding"
  <2>1. Goes(q, t) /\ t.end = q.end
    BY <1>1, <1>7, ShutGoes
  <2> QED  BY <1>1, <1>7, <2>1 DEF Goes, Said
<1> QED  BY <1>2, <1>3, <1>4, <1>5, <1>6, <1>7

LEMMA OverGoes ==
    ASSUME NEW r \in Runtimes, NEW how \in {"restored", "down", "timeout", "binding"}, NEW t, t = Over(r, how)
    PROVE  Goes(r, t) /\ t.end = how /\ t.phase = "over" /\ t.draw = 0
<1>1. t = [r EXCEPT !.phase = "over", !.end = how, !.edit = "none", !.draw = 0]
  BY DEF Over
<1>2. t \in Runtimes
  <2> DEFINE q == [r EXCEPT !.phase = "over", !.end = how]
  <2>1. q \in Runtimes
    <3> HIDE DEF Wishes
    <3> QED  BY DEF Runtimes
  <2> DEFINE u == [q EXCEPT !.edit = "none"]
  <2>2. t = [u EXCEPT !.draw = 0]
    BY <1>1 DEF Runtimes
  <2> HIDE DEF q
  <2>3. u \in Runtimes
    <3> HIDE DEF Wishes
    <3> QED  BY <2>1 DEF Runtimes
  <2> HIDE DEF u, Runtimes
  <2> QED  BY <2>2, <2>3, UndrawnRuntime
<1>3. t.gen = r.gen /\ t.edit = "none" /\ t.phase = "over" /\ t.out = r.out /\ t.end = how /\ t.draw = 0
  BY <1>1 DEF Runtimes
<1> QED  BY <1>2, <1>3 DEF Goes, Said

-----------------------------------------------------------------------------
(* What the steps have in common.                                          *)

LEMMA BusyWorld ==
    ASSUME Types, NEW refused, Busy(refused)
    PROVE  world' \in Worlds
<1>1. world \in Worlds
  BY DEF Types
<1>2. CASE world' = [world EXCEPT !.busy = @ + 1]
  BY <1>1, <1>2 DEF Worlds
<1>3. CASE world' = world
  BY <1>1, <1>3
<1> QED  BY <1>2, <1>3 DEF Busy

LEMMA StimulusWorld ==
    ASSUME Types, NEW kind, Stimulus(kind)
    PROVE  world' \in Worlds
BY DEF Types, Worlds, Stimulus

\* What the owner takes from the runtime.
LEMMA ListenedTail ==
    ASSUME NEW r \in Runtimes, r.out # <<>>, NEW s, s = [r EXCEPT !.out = Tail(@)]
    PROVE  Listened(r, s) /\ s.out = Tail(r.out) /\ Head(r.out) \in Wishes
           /\ s.life = r.life /\ s.asked = r.asked /\ s.shut = r.shut
<1>1. r.out \in Seq(Wishes)
  BY DEF Runtimes
<1>2. Tail(r.out) \in Seq(Wishes) /\ Head(r.out) \in Wishes
  <2> HIDE DEF Wishes
  <2> QED  BY <1>1
<1>3. s \in Runtimes
  <2> HIDE DEF Wishes
  <2> QED  BY <1>2 DEF Runtimes
<1>4. /\ s.phase = r.phase /\ s.gen = r.gen /\ s.edit = r.edit /\ s.end = r.end /\ s.draw = r.draw /\ s.final = r.final
      /\ s.life = r.life /\ s.asked = r.asked /\ s.shut = r.shut
  BY DEF Runtimes
<1> QED  BY <1>2, <1>3, <1>4 DEF Listened

LEMMA ListenedRuntime ==
    ASSUME Types, NEW k, FromRuntime(k)
    PROVE  /\ Listened(rt, rt') /\ rt'.out = Tail(rt.out) /\ rt.out # <<>> /\ Head(rt.out).k = k
           /\ Head(rt.out).n \in Nat /\ rt' \in Runtimes /\ native' = native /\ 1 \in Asks(rt, k)
<1>1. rt \in Runtimes /\ rt.out # <<>> /\ rt' = [rt EXCEPT !.out = Tail(@)] /\ Head(rt.out).k = k
  BY DEF Types, FromRuntime
<1>2. Listened(rt, rt') /\ rt'.out = Tail(rt.out) /\ Head(rt.out) \in Wishes
  <2> HIDE DEF Runtimes
  <2> QED  BY <1>1, ListenedTail
<1>3. Head(rt.out).n \in Nat
  BY <1>2 DEF Wishes
<1>4. 1 \in Asks(rt, k)
  <2>1. rt.out \in Seq(Wishes)
    BY <1>1 DEF Runtimes
  <2>2. 1 \in DOMAIN rt.out /\ Head(rt.out) = rt.out[1]
    <3> HIDE DEF Wishes
    <3> QED  BY <1>1, <2>1
  <2> QED  BY <1>1, <2>2 DEF Asks
<1> QED  BY <1>1, <1>2, <1>3, <1>4 DEF Listened, FromRuntime

\* What the owner takes from the helper.
LEMMA RecordHelper ==
    ASSUME Types, native.out # <<>>, native' = [native EXCEPT !.out = Tail(@)]
    PROVE  /\ native' \in Helpers /\ native'.st = native.st /\ Heard(native') = Tail(Heard(native))
           /\ Part(Heard(native'), Heard(native)) /\ Heard(native) # <<>> /\ Heard(native)[1] = Head(native.out).k
<1>1. native \in Helpers
  BY DEF Types
<1>2. /\ native' \in Helpers /\ native'.st = native.st /\ Heard(native') = Tail(Heard(native))
      /\ Heard(native) # <<>> /\ Heard(native)[1] = Head(native.out).k
  <2> HIDE DEF Helpers
  <2> QED  BY <1>1, HeardRest
<1>3. Heard(native) \in Seq(NoteKinds)
  BY <1>1, HeardType
<1>4. Part(Tail(Heard(native)), Heard(native))
  BY <1>2, <1>3, TailPart
<1> QED  BY <1>2, <1>4

LEMMA SameHeard ==
    ASSUME NEW h \in Helpers
    PROVE  Part(Heard(h), Heard(h))
BY HeardType, PartOfItself

\* A result that is told, or read, does not say that the terminal is restored.
LEMMA ClosedMore ==
    ASSUME NEW o \in Owners, NEW d \in Nat,
           NEW p, p.told = o.told \/ p.told = Append(o.told, [k |-> "draw_result", draw |-> d])
    PROVE  Closed(p) => Closed(o)
<1> DEFINE x == [k |-> "draw_result", draw |-> d]
<1>1. CASE p.told = o.told
  BY <1>1 DEF Closed
<1>2. CASE p.told = Append(o.told, x)
  <2>1. o.told \in Seq(Results) /\ x \in Results /\ x.k # "terminal_shutdown"
    BY DEF Owners, Results
  <2> HIDE DEF x, Results
  <2>2. DOMAIN p.told = 1 .. Len(o.told) + 1 /\ DOMAIN o.told = 1 .. Len(o.told) /\ Len(o.told) \in Nat
        /\ p.told[Len(o.told) + 1] = x /\ \A i \in DOMAIN o.told : p.told[i] = o.told[i]
    BY <1>2, <2>1, AppendParts
  <2>3. \A i \in DOMAIN p.told : i \in DOMAIN o.told \/ i = Len(o.told) + 1
    BY <2>2
  <2> QED  BY <2>1, <2>2, <2>3 DEF Closed
<1> QED  BY <1>1, <1>2

LEMMA ClosedRest ==
    ASSUME NEW o \in Owners, o.told # <<>>, NEW p, p.told = Tail(o.told)
    PROVE  /\ Closed(p) => Closed(o)
           /\ Head(o.told) \in Results /\ (Head(o.told).k = "terminal_shutdown" => Closed(o))
<1>1. o.told \in Seq(Results)
  BY DEF Owners
<1>2. /\ \A i \in DOMAIN p.told : i + 1 \in DOMAIN o.told /\ p.told[i] = o.told[i + 1]
      /\ 1 \in DOMAIN o.told /\ Head(o.told) = o.told[1] /\ Head(o.told) \in Results
  <2> HIDE DEF Results
  <2> QED  BY <1>1
<1> QED  BY <1>2 DEF Closed

-----------------------------------------------------------------------------
(* The owner's operations, as steps.                                       *)

LEMMA ControlStep ==
    ASSUME Types, NEW q \in Owners, NEW op \in Operations, Control(q, op)
    PROVE  Talks(q, owner', {op}) /\ SameDraws(q, owner') /\ world' \in Worlds
<1>1. PICK n \in 0 .. Len(Enqueue(q, op).outbox) :
         owner' = Flush(Enqueue(q, op), n) /\ Busy(n < Len(Enqueue(q, op).outbox))
  BY DEF Control
<1>2. world' \in Worlds
  BY <1>1, BusyWorld
<1> HIDE DEF Owners, Operations
<1>3. Talks(q, owner', {op}) /\ SameDraws(q, owner')
  BY <1>1, ControlOwner
<1> QED  BY <1>2, <1>3

LEMMA GrantingStep ==
    ASSUME Types, NEW q \in Owners, Granting(q)
    PROVE  Talks(q, owner', {"credit"}) /\ SameDraws(q, owner') /\ world' \in Worlds
<1>1. PICK free \in BOOLEAN : owner' = Grant(q, free) /\ Busy(~free /\ Grant(q, FALSE) # q)
  BY DEF Granting
<1>2. world' \in Worlds
  BY <1>1, BusyWorld
<1> HIDE DEF Owners
<1>3. Talks(q, owner', {"credit"}) /\ SameDraws(q, owner')
  BY <1>1, GrantOwner
<1> QED  BY <1>2, <1>3

LEMMA PaintingStep ==
    ASSUME Types, NEW q \in Owners, NEW d \in Nat, Painting(q, d)
    PROVE  Talks(q, owner', {"draw", "credit"}) /\ owner'.queued = q.queued /\ Turned(q, owner', d) /\ world' \in Worlds
<1>1. /\ \/ owner' = Again(q, d)
         \/ q.outbox = <<>> /\ owner' = [q EXCEPT !.seq = @ + 1, !.replied = FALSE, !.timer = "draw", !.input = TRUE,
                                                  !.pending = [k |-> "draw", n |-> q.seq + 1, draw |-> d],
                                                  !.wire = Append(@, [k |-> "draw", n |-> q.seq + 1])]
         \/ \E free \in BOOLEAN : owner' = Grant(Again(q, d), free)
      /\ world' = world \/ \E free \in BOOLEAN : Busy(~free /\ Grant(Again(q, d), FALSE) # Again(q, d))
  BY DEF Painting, Again, Granting
<1>2. world' \in Worlds
  <2>1. world \in Worlds
    BY DEF Types
  <2> QED  BY <1>1, <2>1, BusyWorld
<1> HIDE DEF Owners
<1>3. Talks(q, owner', {"draw", "credit"}) /\ owner'.queued = q.queued /\ Turned(q, owner', d)
  <2> DEFINE p == owner'
  <2>1. PICK x : x = owner'
    OBVIOUS
  <2>2. \/ x = Again(q, d)
        \/ q.outbox = <<>> /\ x = [q EXCEPT !.seq = @ + 1, !.replied = FALSE, !.timer = "draw", !.input = TRUE,
                                            !.pending = [k |-> "draw", n |-> q.seq + 1, draw |-> d],
                                            !.wire = Append(@, [k |-> "draw", n |-> q.seq + 1])]
        \/ \E free \in BOOLEAN : x = Grant(Again(q, d), free)
    BY <1>1, <2>1
  <2>3. Talks(q, x, {"draw", "credit"}) /\ x.queued = q.queued /\ Turned(q, x, d)
    BY <2>2, PaintingOwner, Zenon
  <2> QED  BY <2>1, <2>3
<1> QED  BY <1>2, <1>3

\* A step of the owner in its phase: it changes its notes first, and then what
\* is on its way.
LEMMA QuietTalks ==
    ASSUME NEW r \in Runtimes, NEW o \in Owners, NEW h \in Helpers, Core(r, o, h),
           NEW s, Listened(r, s),
           NEW q \in Owners, SamePhase(o, q), Due(q) = Due(o),
           NEW p, NEW K, Talks(q, p, K), K \subseteq Small, Closed(p) => Closed(o),
           NEW g \in Helpers, g.st = h.st, Part(Heard(g), Heard(h))
    PROVE  p \in Owners /\ Core(s, p, g)
<1> HIDE DEF Owners, Helpers, Runtimes, Kinds
<1>1. p \in Owners /\ p.phase = o.phase /\ p.slot = o.slot /\ p.gen = o.gen /\ p.control.k = o.control.k
  BY DEF Talks, SamePhase
<1>2. Grows(Kinds, Due(o), Due(p), K)
  BY DEF Talks
<1>3. Grows(Kinds, Due(o), Due(p), Small)
  BY <1>2, GrowsMore
<1> QED  BY <1>1, <1>3, QuietOwner

-----------------------------------------------------------------------------
(* The owner's messages from the runtime.                                  *)

\* What the owner does with a message it ignores.
LEMMA IgnoreStep ==
    ASSUME PortInv, NEW k, FromRuntime(k), Ignore
    PROVE  PortInv'
<1>1. rt \in Runtimes /\ owner \in Owners /\ native \in Helpers /\ world \in Worlds /\ Core(rt, owner, native)
  BY DEF PortInv, Types
<1>2. Listened(rt, rt') /\ rt' \in Runtimes /\ native' = native
  BY ListenedRuntime DEF PortInv
<1>3. owner' = owner /\ world' = world
  BY DEF Ignore
<1>4. Due(owner) \in Seq(Kinds) /\ Part(Heard(native), Heard(native))
  BY <1>1, DueType, SameHeard
<1> HIDE DEF Owners, Helpers, Runtimes
<1>5. Grows(Kinds, Due(owner), Due(owner), Small)
  BY <1>4, GrowsAsBefore
<1>6. Core(rt', owner, native)
  BY <1>1, <1>2, <1>4, <1>5, QuietOwner
<1> QED  BY <1>1, <1>2, <1>3, <1>6 DEF PortInv, Types

\* A step in which the owner only sends what is small.
LEMMA TalksStep ==
    ASSUME PortInv, Listened(rt, rt'),
           NEW q \in Owners, SamePhase(owner, q), Due(q) = Due(owner),
           NEW K, Talks(q, owner', K), K \subseteq Small, Closed(owner') => Closed(owner), world' \in Worlds,
           native' = native \/ (native.out # <<>> /\ native' = [native EXCEPT !.out = Tail(@)])
    PROVE  PortInv'
<1>1. rt \in Runtimes /\ owner \in Owners /\ native \in Helpers /\ Core(rt, owner, native) /\ Types
  BY DEF PortInv, Types
<1>2. rt' \in Runtimes
  BY DEF Listened
<1>3. native' \in Helpers /\ native'.st = native.st /\ Part(Heard(native'), Heard(native))
  <2>1. CASE native' = native
    BY <1>1, <2>1, SameHeard
  <2>2. CASE native.out # <<>> /\ native' = [native EXCEPT !.out = Tail(@)]
    BY <1>1, <2>2, RecordHelper
  <2> QED  BY <2>1, <2>2
<1> HIDE DEF Owners, Helpers, Runtimes
<1>4. owner' \in Owners /\ Core(rt', owner', native')
  BY <1>1, <1>3, QuietTalks
<1> QED  BY <1>2, <1>3, <1>4 DEF PortInv, Types

\* The same for a step that sends nothing.
LEMMA StillStep ==
    ASSUME PortInv, Listened(rt, rt'),
           owner' \in Owners, owner'.phase = owner.phase, owner'.slot = owner.slot, owner'.gen = owner.gen,
           owner'.control = owner.control, owner'.wire = owner.wire, owner'.outbox = owner.outbox,
           Closed(owner') => Closed(owner), world' \in Worlds,
           native' = native \/ (native.out # <<>> /\ native' = [native EXCEPT !.out = Tail(@)])
    PROVE  PortInv'
<1>1. rt \in Runtimes /\ owner \in Owners /\ native \in Helpers /\ Core(rt, owner, native) /\ Types
  BY DEF PortInv, Types
<1>2. rt' \in Runtimes
  BY DEF Listened
<1>3. native' \in Helpers /\ native'.st = native.st /\ Part(Heard(native'), Heard(native))
  <2>1. CASE native' = native
    BY <1>1, <2>1, SameHeard
  <2>2. CASE native.out # <<>> /\ native' = [native EXCEPT !.out = Tail(@)]
    BY <1>1, <2>2, RecordHelper
  <2> QED  BY <2>1, <2>2
<1>4. Due(owner') = Due(owner)
  BY DEF Due
<1>5. Due(owner) \in Seq(Kinds)
  BY <1>1, DueType
<1> HIDE DEF Owners, Helpers, Runtimes
<1>6. Grows(Kinds, Due(owner), Due(owner'), Small)
  BY <1>4, <1>5, GrowsAsBefore
<1>7. Core(rt', owner', native')
  BY <1>1, <1>3, <1>6, QuietOwner
<1> QED  BY <1>2, <1>3, <1>7 DEF PortInv, Types

\* A draw that is put in the place of the one that waits.
Queued(o, d) == [DropQueued(o) EXCEPT !.queued = d]

LEMMA QueuedOwner ==
    ASSUME NEW o \in Owners, NEW d \in Nat, NEW p, p = Queued(o, d)
    PROVE  /\ p \in Owners /\ SamePhase(o, p) /\ p.wire = o.wire /\ p.outbox = o.outbox /\ p.control = o.control
           /\ p.told = IF o.queued = 0 THEN o.told ELSE Append(o.told, [k |-> "draw_result", draw |-> o.queued])
           /\ p.queued = d /\ p.pending = o.pending /\ p.replied = o.replied /\ p.seq = o.seq
<1> DEFINE q == DropQueued(o)
<1>1. /\ q \in Owners /\ SamePhase(o, q) /\ q.wire = o.wire /\ q.outbox = o.outbox
      /\ q.told = IF o.queued = 0 THEN o.told ELSE Append(o.told, [k |-> "draw_result", draw |-> o.queued])
      /\ q.pending = o.pending /\ q.replied = o.replied /\ q.seq = o.seq
  <2> HIDE DEF Owners
  <2> QED  BY DropOwner
<1>2. q.control = o.control
  BY DEF DropQueued, Reply, Owners
<1>3. p = [q EXCEPT !.queued = d]
  BY DEF Queued
<1> HIDE DEF q
<1>4. p \in Owners
  <2> HIDE DEF Operations, Commands, Awaiting, None, Paints, Results
  <2> QED  BY <1>1, <1>3, ZenonT(60) DEF Owners
<1>5. /\ SamePhase(q, p) /\ p.wire = q.wire /\ p.outbox = q.outbox /\ p.control = q.control /\ p.told = q.told
      /\ p.queued = d /\ p.pending = q.pending /\ p.replied = q.replied /\ p.seq = q.seq
  BY <1>1, <1>3 DEF Owners, SamePhase
<1> QED  BY <1>1, <1>2, <1>4, <1>5 DEF SamePhase

LEMMA TalksNothing ==
    ASSUME NEW o \in Owners
    PROVE  SamePhase(o, o) /\ Due(o) = Due(o)
BY DEF SamePhase

LEMMA OwnerDrawStep ==
    ASSUME PortInv, OwnerDraw
    PROVE  PortInv'
<1>1. rt \in Runtimes /\ owner \in Owners /\ native \in Helpers /\ world \in Worlds /\ Types
  BY DEF PortInv, Types
<1>2. Listened(rt, rt') /\ Asked \in Nat /\ native' = native /\ FromRuntime("draw")
  BY <1>1, ListenedRuntime DEF OwnerDraw, Asked
<1>3. CASE Painting(owner, Asked)
  <2> HIDE DEF Owners, Helpers, Runtimes, PortInv, Types
  <2>1. Talks(owner, owner', {"draw", "credit"}) /\ Turned(owner, owner', Asked) /\ world' \in Worlds
    BY <1>1, <1>2, <1>3, PaintingStep
  <2>2. Closed(owner') => Closed(owner)
    BY <1>1, <1>2, <2>1, ClosedMore DEF Turned
  <2>3. {"draw", "credit"} \subseteq Small
    BY DEF Small
  <2>4. SamePhase(owner, owner)
    BY <1>1, TalksNothing
  <2> QED  BY <1>1, <1>2, <2>1, <2>2, <2>3, <2>4, TalksStep
<1>4. CASE owner' = [DropQueued(owner) EXCEPT !.queued = Asked] /\ UNCHANGED world
  <2> HIDE DEF Owners, Helpers, Runtimes, PortInv, Types, Asked
  <2>1. /\ owner' \in Owners /\ SamePhase(owner, owner') /\ owner'.wire = owner.wire /\ owner'.outbox = owner.outbox
        /\ owner'.control = owner.control
        /\ owner'.told = IF owner.queued = 0 THEN owner.told
                         ELSE Append(owner.told, [k |-> "draw_result", draw |-> owner.queued])
    <3>1. PICK p : p = owner'
      OBVIOUS
    <3>2. p = Queued(owner, Asked)
      BY <1>4, <3>1 DEF Queued
    <3>3. /\ p \in Owners /\ SamePhase(owner, p) /\ p.wire = owner.wire /\ p.outbox = owner.outbox
          /\ p.control = owner.control
          /\ p.told = IF owner.queued = 0 THEN owner.told
                      ELSE Append(owner.told, [k |-> "draw_result", draw |-> owner.queued])
      BY <1>1, <1>2, <3>2, QueuedOwner
    <3> QED  BY <3>1, <3>3
  <2>2. owner.queued \in Nat
    BY <1>1 DEF Owners
  <2>3. Closed(owner') => Closed(owner)
    BY <1>1, <2>1, <2>2, ClosedMore
  <2> QED  BY <1>1, <1>2, <1>4, <2>1, <2>3, StillStep DEF SamePhase
<1>5. CASE Ignore
  BY <1>2, <1>5, IgnoreStep
<1> QED  BY <1>3, <1>4, <1>5 DEF OwnerDraw

-----------------------------------------------------------------------------
(* The phases of the owner.                                                *)

Phased(o, phase, timer, k) == [o EXCEPT !.phase = phase, !.timer = timer, !.control = [k |-> k, n |-> 0]]

LEMMA TimedOwner ==
    ASSUME NEW o \in Owners, NEW t \in {"none", "init", "draw", "draw_hard", "suspend", "resume", "shutdown", "exit"},
           NEW p, p = [o EXCEPT !.timer = t]
    PROVE  p \in Owners
BY ZenonT(60) DEF Owners

LEMMA PhasedOwner ==
    ASSUME NEW o \in Owners, NEW phase \in {"suspending", "resuming", "closing"},
           NEW timer \in {"suspend", "resume", "shutdown"}, NEW k \in {"shutdown", "suspend", "resume"},
           NEW p, p = Phased(o, phase, timer, k)
    PROVE  /\ p \in Owners /\ p.phase = phase /\ p.slot = o.slot /\ p.gen = o.gen /\ p.control.k = k
           /\ p.wire = o.wire /\ p.outbox = o.outbox /\ p.told = o.told /\ p.queued = o.queued
           /\ p.pending = o.pending /\ p.replied = o.replied /\ p.alive = o.alive
<1> DEFINE c == [k |-> k, n |-> 0]
<1>1. c \in Awaiting /\ c.k = k
  BY DEF Awaiting
<1>2. p = [o EXCEPT !.phase = phase, !.timer = timer, !.control = c]
  BY DEF Phased
<1> HIDE DEF c
<1>3. p \in Owners
  <2> DEFINE u == [o EXCEPT !.phase = phase]
             v == [u EXCEPT !.timer = timer]
  <2>1. u \in Owners
    <3> HIDE DEF Operations, Commands, Awaiting, None, Paints, Results
    <3> QED  BY DEF Owners
  <2> HIDE DEF u
  <2>2. v \in Owners
    BY <2>1, TimedOwner
  <2>3. p = [v EXCEPT !.control = c]
    BY <1>2 DEF Owners, u
  <2> HIDE DEF v
  <2> QED  BY <1>1, <2>2, <2>3 DEF Owners
<1>4. /\ p.phase = phase /\ p.slot = o.slot /\ p.gen = o.gen /\ p.control = c
      /\ p.wire = o.wire /\ p.outbox = o.outbox /\ p.told = o.told /\ p.queued = o.queued
      /\ p.pending = o.pending /\ p.replied = o.replied /\ p.alive = o.alive
  BY <1>2 DEF Owners
<1> QED  BY <1>1, <1>3, <1>4

\* The same behind a queued draw that is answered.
LEMMA DropPhased ==
    ASSUME NEW o \in Owners, NEW phase \in {"suspending", "resuming", "closing"},
           NEW timer \in {"suspend", "resume", "shutdown"}, NEW k \in {"shutdown", "suspend", "resume"},
           NEW p, p = Phased(DropQueued(o), phase, timer, k)
    PROVE  /\ p \in Owners /\ p.phase = phase /\ p.slot = o.slot /\ p.gen = o.gen /\ p.control.k = k
           /\ Due(p) = Due(o) /\ (Closed(p) => Closed(o))
<1> DEFINE q == DropQueued(o)
<1>1. /\ q \in Owners /\ SamePhase(o, q) /\ q.wire = o.wire /\ q.outbox = o.outbox
      /\ q.told = IF o.queued = 0 THEN o.told ELSE Append(o.told, [k |-> "draw_result", draw |-> o.queued])
  <2> HIDE DEF Owners
  <2> QED  BY DropOwner
<1>2. o.queued \in Nat
  BY DEF Owners
<1> HIDE DEF Owners, q
<1>3. /\ p \in Owners /\ p.phase = phase /\ p.slot = q.slot /\ p.gen = q.gen /\ p.control.k = k
      /\ p.wire = q.wire /\ p.outbox = q.outbox /\ p.told = q.told
  BY <1>1, PhasedOwner DEF q
<1>4. Closed(p) => Closed(o)
  BY <1>1, <1>2, <1>3, ClosedMore
<1>5. Due(p) = Due(o)
  BY <1>1, <1>3 DEF Due
<1> QED  BY <1>1, <1>3, <1>4, <1>5 DEF SamePhase

LEMMA OwnerShutdownStep ==
    ASSUME PortInv, OwnerShutdown
    PROVE  PortInv'
<1>1. rt \in Runtimes /\ owner \in Owners /\ native \in Helpers /\ Core(rt, owner, native) /\ Types
  BY DEF PortInv, Types
<1>2. Listened(rt, rt') /\ native' = native /\ FromRuntime("shutdown")
  BY <1>1, ListenedRuntime DEF OwnerShutdown
<1> DEFINE q == Phased(DropQueued(owner), "closing", "shutdown", "shutdown")
<1>3. /\ q \in Owners /\ q.phase = "closing" /\ q.slot = owner.slot /\ q.gen = owner.gen /\ q.control.k = "shutdown"
      /\ Due(q) = Due(owner) /\ (Closed(q) => Closed(owner))
  BY <1>1, DropPhased
<1>4. Control(q, "shutdown")
  BY DEF OwnerShutdown, Phased
<1> HIDE DEF q
<1>5. Talks(q, owner', {"shutdown"}) /\ SameDraws(q, owner') /\ world' \in Worlds
  <2>1. "shutdown" \in Operations
    BY DEF Operations
  <2> HIDE DEF Operations, Types
  <2> QED  BY <1>1, <1>3, <1>4, <2>1, ControlStep
<1>6. /\ owner' \in Owners /\ owner'.phase \in Gone /\ owner'.slot = owner.slot /\ owner'.gen = owner.gen
      /\ Awaits(owner'.control, owner'.phase)
  BY <1>3, <1>5 DEF Talks, SamePhase, Awaits, Gone
<1>10. Closed(owner') => Closed(owner)
  <2>1. Closed(owner') => Closed(q)
    BY <1>5 DEF SameDraws, Closed
  <2> QED  BY <1>3, <2>1
<1>7. Grows(Kinds, Due(owner), Due(owner'), Small)
  <2>1. Grows(Kinds, Due(owner), Due(owner'), {"shutdown"})
    <3>1. Grows(Kinds, Due(q), Due(owner'), {"shutdown"})
      BY <1>5 DEF Talks
    <3> QED  BY <1>3, <3>1, Zenon
  <2>2. {"shutdown"} \subseteq Small
    BY DEF Small
  <2> QED  BY <2>1, <2>2, GrowsMore
<1>8. Part(Heard(native), Heard(native))
  BY <1>1, SameHeard
<1>9. Core(rt', owner', native)
  BY <1>1, <1>2, <1>6, <1>7, <1>8, <1>10, GoneOwner
<1> QED  BY <1>1, <1>2, <1>5, <1>6, <1>9 DEF PortInv, Types, Listened

LEMMA OwnerSuspendStep ==
    ASSUME PortInv, OwnerSuspend
    PROVE  PortInv'
<1>1. rt \in Runtimes /\ owner \in Owners /\ native \in Helpers /\ Core(rt, owner, native) /\ Types
  BY DEF PortInv, Types
<1>2. Listened(rt, rt') /\ rt'.out = Tail(rt.out) /\ rt.out # <<>> /\ Head(rt.out).k = "suspend" /\ native' = native
      /\ FromRuntime("suspend")
  BY <1>1, ListenedRuntime DEF OwnerSuspend
<1> DEFINE q == Phased(DropQueued(owner), "suspending", "suspend", "suspend")
<1>3. CASE owner.phase = "running" /\ owner.gen = Asked
  <2>1. /\ q \in Owners /\ q.phase = "suspending" /\ q.slot = owner.slot /\ q.gen = owner.gen /\ q.control.k = "suspend"
        /\ Due(q) = Due(owner) /\ (Closed(q) => Closed(owner))
    BY <1>1, DropPhased
  <2>2. Control(q, "suspend")
    BY <1>3 DEF OwnerSuspend, Phased
  <2> HIDE DEF q
  <2>3. Talks(q, owner', {"suspend"}) /\ SameDraws(q, owner') /\ world' \in Worlds
    <3>1. "suspend" \in Operations
      BY DEF Operations
    <3> HIDE DEF Operations, Types
    <3> QED  BY <1>1, <2>1, <2>2, <3>1, ControlStep
  <2>4. /\ owner' \in Owners /\ owner'.phase = "suspending" /\ owner'.slot = owner.slot /\ owner'.gen = owner.gen
        /\ owner'.control.k = "suspend"
    BY <2>1, <2>3 DEF Talks, SamePhase
  <2>7. Closed(owner') => Closed(owner)
    <3>1. Closed(owner') => Closed(q)
      BY <2>3 DEF SameDraws, Closed
    <3> QED  BY <2>1, <3>1
  <2>8. Grows(Kinds, Due(owner), Due(owner'), {"suspend"})
    <3>1. Grows(Kinds, Due(q), Due(owner'), {"suspend"})
      BY <2>3 DEF Talks
    <3> QED  BY <2>1, <3>1, Zenon
  <2>5. owner.phase = "running" /\ Head(rt.out).n = owner.gen
    BY <1>3 DEF Asked
  <2>6. Core(rt', owner', native)
    BY <1>1, <1>2, <2>4, <2>5, <2>7, <2>8, SuspendingOwner
  <2> QED  BY <1>1, <1>2, <2>3, <2>4, <2>6 DEF PortInv, Types, Listened
<1>4. CASE Ignore
  BY <1>2, <1>4, IgnoreStep
<1> QED  BY <1>3, <1>4 DEF OwnerSuspend

LEMMA OwnerResumeStep ==
    ASSUME PortInv, OwnerResume
    PROVE  PortInv'
<1>1. rt \in Runtimes /\ owner \in Owners /\ native \in Helpers /\ Core(rt, owner, native) /\ Types
  BY DEF PortInv, Types
<1>2. Listened(rt, rt') /\ native' = native /\ 1 \in Asks(rt, "resume") /\ FromRuntime("resume")
  BY <1>1, ListenedRuntime DEF OwnerResume
<1> DEFINE q == Phased(owner, "resuming", "resume", "resume")
<1>3. CASE owner.phase = "suspended"
  <2>1. /\ q \in Owners /\ q.phase = "resuming" /\ q.slot = owner.slot /\ q.gen = owner.gen /\ q.control.k = "resume"
        /\ q.wire = owner.wire /\ q.outbox = owner.outbox /\ q.told = owner.told
    BY <1>1, PhasedOwner
  <2>2. Control(q, "resume")
    BY <1>3 DEF OwnerResume, Phased
  <2> HIDE DEF q
  <2>3. Talks(q, owner', {"resume"}) /\ SameDraws(q, owner') /\ world' \in Worlds
    <3>1. "resume" \in Operations
      BY DEF Operations
    <3> HIDE DEF Operations, Types
    <3> QED  BY <1>1, <2>1, <2>2, <3>1, ControlStep
  <2>4. Due(q) = Due(owner)
    BY <2>1 DEF Due
  <2>5. /\ owner' \in Owners /\ owner'.phase = "resuming" /\ owner'.slot = owner.slot /\ owner'.gen = owner.gen
        /\ owner'.control.k = "resume"
    BY <2>1, <2>3 DEF Talks, SamePhase
  <2>9. Closed(owner') => Closed(owner)
    BY <2>1, <2>3 DEF SameDraws, Closed
  <2>10. Grows(Kinds, Due(owner), Due(owner'), {"resume"})
    BY <2>3, <2>4 DEF Talks
  <2>6. rt.edit # "editing" /\ owner.phase \in {"running", "suspended"}
    BY <1>1, <1>2, <1>3 DEF Core, Edits
  <2>7. Part(Heard(native), Heard(native))
    BY <1>1, SameHeard
  <2>8. Core(rt', owner', native)
    BY <1>1, <1>2, <2>5, <2>6, <2>7, <2>9, <2>10, ResumingOwner
  <2> QED  BY <1>1, <1>2, <2>3, <2>5, <2>8 DEF PortInv, Types, Listened
<1>4. CASE Ignore
  BY <1>2, <1>4, IgnoreStep
<1> QED  BY <1>3, <1>4 DEF OwnerResume

LEMMA OwnerRedrawStep ==
    ASSUME PortInv, OwnerRedraw
    PROVE  PortInv'
<1>1. owner \in Owners /\ Types
  BY DEF PortInv, Types
<1>2. Listened(rt, rt') /\ native' = native /\ FromRuntime("redraw")
  BY <1>1, ListenedRuntime DEF OwnerRedraw
<1>3. CASE Control(owner, "redraw")
  <2>1. "redraw" \in Operations /\ {"redraw"} \subseteq Small
    BY DEF Operations, Small
  <2> HIDE DEF Operations, Types
  <2>2. Talks(owner, owner', {"redraw"}) /\ SameDraws(owner, owner') /\ world' \in Worlds
    BY <1>1, <1>3, <2>1, ControlStep
  <2>3. Closed(owner') => Closed(owner)
    BY <2>2 DEF SameDraws, Closed
  <2>4. SamePhase(owner, owner)
    BY <1>1, TalksNothing
  <2> QED  BY <1>1, <1>2, <2>1, <2>2, <2>3, <2>4, TalksStep
<1>4. CASE Ignore
  BY <1>2, <1>4, IgnoreStep
<1> QED  BY <1>3, <1>4 DEF OwnerRedraw

LEMMA OwnerMouseStep ==
    ASSUME PortInv, OwnerMouse
    PROVE  PortInv'
<1>1. owner \in Owners /\ Types /\ world \in Worlds
  BY DEF PortInv, Types
<1>2. Listened(rt, rt') /\ native' = native /\ FromRuntime("mouse")
  BY <1>1, ListenedRuntime DEF OwnerMouse
<1>3. SamePhase(owner, owner)
  BY <1>1, TalksNothing
<1>4. {"mouse"} \subseteq Small /\ "mouse" \in Operations
  BY DEF Operations, Small
<1>5. CASE Ignore
  BY <1>2, <1>5, IgnoreStep
<1>6. CASE Control(owner, "mouse")
  <2> HIDE DEF Operations, Types
  <2>2. Talks(owner, owner', {"mouse"}) /\ SameDraws(owner, owner') /\ world' \in Worlds
    BY <1>1, <1>4, <1>6, ControlStep
  <2>3. Closed(owner') => Closed(owner)
    BY <2>2 DEF SameDraws, Closed
  <2> QED  BY <1>1, <1>2, <1>3, <1>4, <2>2, <2>3, TalksStep
<1>7. CASE Contains(owner.outbox, "mouse") /\ UNCHANGED world
           /\ owner' = [owner EXCEPT !.outbox = RemoveAt(@, CHOOSE i \in DOMAIN @ : @[i] = "mouse")]
  <2>1. PICK j \in DOMAIN owner.outbox : owner' = [owner EXCEPT !.outbox = RemoveAt(@, j)]
    <3>1. owner.outbox \in Seq(Operations)
      BY <1>1 DEF Owners
    <3>2. \E i \in DOMAIN owner.outbox : owner.outbox[i] = "mouse"
      <4> HIDE DEF Operations
      <4> QED  BY <1>7, <3>1 DEF Contains
    <3> QED  BY <1>7, <3>2
  <2>2. Talks(owner, owner', {"mouse"}) /\ SameDraws(owner, owner')
    BY <1>1, <2>1, UnmouseOwner
  <2>3. Closed(owner') => Closed(owner)
    BY <2>2 DEF SameDraws, Closed
  <2> QED  BY <1>1, <1>2, <1>3, <1>4, <1>7, <2>2, <2>3, TalksStep
<1> QED  BY <1>5, <1>6, <1>7 DEF OwnerMouse

-----------------------------------------------------------------------------
(* The owner's records from the helper.                                    *)

Stopped(o, why) == [o EXCEPT !.alive = FALSE, !.fail = why]

LEMMA StoppedOwner ==
    ASSUME NEW o \in Owners, NEW why \in {"no", "initialization", "call", "error", "protocol", "unavailable", "timeout"},
           NEW p, p = Stopped(o, why)
    PROVE  /\ p \in Owners /\ p.phase = o.phase /\ p.slot = o.slot /\ p.gen = o.gen /\ p.control = o.control
           /\ p.wire = o.wire /\ p.outbox = o.outbox /\ p.told = o.told
<1>1. p \in Owners
  BY ZenonT(60) DEF Owners, Stopped
<1> QED  BY <1>1 DEF Owners, Stopped

LEMMA StopsStep ==
    ASSUME PortInv,
           NEW why \in {"no", "initialization", "call", "error", "protocol", "unavailable", "timeout"}, Stops(why),
           native' = native \/ (native.out # <<>> /\ native' = [native EXCEPT !.out = Tail(@)])
    PROVE  PortInv'
<1>1. owner \in Owners /\ rt \in Runtimes /\ world \in Worlds /\ rt' = rt /\ world' = world
  BY DEF PortInv, Types, Stops
<1>2. Listened(rt, rt')
  BY <1>1, StillHere
<1>3. /\ owner' \in Owners /\ owner'.phase = owner.phase /\ owner'.slot = owner.slot /\ owner'.gen = owner.gen
      /\ owner'.control = owner.control /\ owner'.wire = owner.wire /\ owner'.outbox = owner.outbox
      /\ owner'.told = owner.told
  <2>1. PICK p : p = owner'
    OBVIOUS
  <2>2. p = Stopped(owner, why)
    BY <2>1 DEF Stops, Stopped
  <2>3. /\ p \in Owners /\ p.phase = owner.phase /\ p.slot = owner.slot /\ p.gen = owner.gen
        /\ p.control = owner.control /\ p.wire = owner.wire /\ p.outbox = owner.outbox /\ p.told = owner.told
    BY <1>1, <2>2, StoppedOwner
  <2> QED  BY <2>1, <2>3
<1>4. Closed(owner') => Closed(owner)
  BY <1>3 DEF Closed
<1> QED  BY <1>1, <1>2, <1>3, <1>4, StillStep

LEMMA OwnerOrphanStep ==
    ASSUME PortInv, OwnerOrphan
    PROVE  PortInv'
<1>1. owner \in Owners /\ rt \in Runtimes /\ world \in Worlds /\ rt' = rt /\ world' = world /\ native' = native
  BY DEF PortInv, Types, OwnerOrphan
<1>2. Listened(rt, rt')
  BY <1>1, StillHere
<1>3. CASE owner' = [owner EXCEPT !.down = TRUE]
  <2>1. owner' \in Owners
    BY <1>1, <1>3, ZenonT(60) DEF Owners
  <2>2. /\ owner'.phase = owner.phase /\ owner'.slot = owner.slot /\ owner'.gen = owner.gen
        /\ owner'.control = owner.control /\ owner'.wire = owner.wire /\ owner'.outbox = owner.outbox
        /\ owner'.told = owner.told
    BY <1>1, <1>3 DEF Owners
  <2>3. Closed(owner') => Closed(owner)
    BY <2>2 DEF Closed
  <2> QED  BY <1>1, <1>2, <2>1, <2>2, <2>3, StillStep
<1>4. CASE \E why \in {"no", "initialization"} : owner' = [owner EXCEPT !.alive = FALSE, !.fail = why]
  BY <1>1, <1>4, StopsStep DEF Stops
<1> QED  BY <1>3, <1>4 DEF OwnerOrphan

\* The frame that waits is answered, unless it was.
Answer(o) == IF o.replied THEN o ELSE Reply(o, o.pending.draw)

LEMMA AnswerOwner ==
    ASSUME NEW o \in Owners, o.pending.k = "draw", NEW p, p = Answer(o)
    PROVE  /\ p \in Owners /\ SamePhase(o, p) /\ p.wire = o.wire /\ p.outbox = o.outbox
           /\ p.told = IF o.replied THEN o.told ELSE Append(o.told, [k |-> "draw_result", draw |-> o.pending.draw])
           /\ p.queued = o.queued /\ p.pending = o.pending /\ p.replied = o.replied /\ p.seq = o.seq
           /\ o.pending.draw \in Nat /\ (Closed(p) => Closed(o))
<1>1. o.pending \in Paints \cup {None}
  BY DEF Owners
<1>2. o.pending \in Paints
  BY <1>1, NoneApart
<1>3. o.pending.draw \in Nat
  BY <1>2 DEF Paints
<1> DEFINE q == Reply(o, o.pending.draw)
<1>4. /\ q \in Owners /\ SamePhase(o, q) /\ q.wire = o.wire /\ q.outbox = o.outbox
      /\ q.told = Append(o.told, [k |-> "draw_result", draw |-> o.pending.draw])
      /\ q.queued = o.queued /\ q.pending = o.pending /\ q.replied = o.replied /\ q.seq = o.seq
  BY <1>3, ReplyOwner
<1>5. p = IF o.replied THEN o ELSE q
  BY DEF Answer
<1> HIDE DEF q
<1>6. /\ p \in Owners /\ SamePhase(o, p) /\ p.wire = o.wire /\ p.outbox = o.outbox
      /\ p.told = IF o.replied THEN o.told ELSE Append(o.told, [k |-> "draw_result", draw |-> o.pending.draw])
      /\ p.queued = o.queued /\ p.pending = o.pending /\ p.replied = o.replied /\ p.seq = o.seq
  BY <1>4, <1>5 DEF SamePhase
<1>7. Closed(p) => Closed(o)
  BY <1>3, <1>6, ClosedMore
<1> QED  BY <1>3, <1>6, <1>7

Painted(o) ==
    [Answer(o) EXCEPT !.pending = None, !.replied = FALSE, !.timer = IF o.phase = "running" THEN "none" ELSE @]

LEMMA PaintedOwner ==
    ASSUME NEW o \in Owners, o.pending.k = "draw", NEW p, p = Painted(o)
    PROVE  /\ p \in Owners /\ SamePhase(o, p) /\ Due(p) = Due(o) /\ p.wire = o.wire /\ p.outbox = o.outbox
           /\ p.told = Answer(o).told /\ p.queued = o.queued /\ p.pending = None /\ p.replied = FALSE /\ p.seq = o.seq
           /\ Closed(p) => Closed(o)
<1> DEFINE q == Answer(o)
           timer == IF o.phase = "running" THEN "none" ELSE q.timer
           u == [q EXCEPT !.pending = None, !.replied = FALSE]
<1>1. /\ q \in Owners /\ SamePhase(o, q) /\ q.wire = o.wire /\ q.outbox = o.outbox
      /\ q.queued = o.queued /\ q.seq = o.seq /\ (Closed(q) => Closed(o))
  BY AnswerOwner
<1>2. p = [q EXCEPT !.pending = None, !.replied = FALSE, !.timer = timer]
  BY <1>1 DEF Painted, Owners
<1>3. timer \in {"none", "init", "draw", "draw_hard", "suspend", "resume", "shutdown", "exit"}
  BY <1>1 DEF Owners
<1> HIDE DEF q, timer
<1>4. u \in Owners
  BY <1>1, ZenonT(60) DEF Owners
<1>5. p = [u EXCEPT !.timer = timer]
  BY <1>1, <1>2 DEF Owners
<1>6. p \in Owners
  <2> HIDE DEF u
  <2> QED  BY <1>3, <1>4, <1>5, TimedOwner
<1>7. /\ SamePhase(q, p) /\ p.wire = q.wire /\ p.outbox = q.outbox /\ p.told = q.told /\ p.queued = q.queued
      /\ p.pending = None /\ p.replied = FALSE /\ p.seq = q.seq
  BY <1>1, <1>2 DEF Owners, SamePhase
<1>8. SamePhase(o, p) /\ Due(p) = Due(o)
  BY <1>1, <1>7 DEF SamePhase, Due
<1>9. Closed(p) => Closed(o)
  BY <1>1, <1>7 DEF Closed
<1> QED  BY <1>1, <1>6, <1>7, <1>8, <1>9 DEF q

LEMMA OwnerPaintedStep ==
    ASSUME PortInv, OwnerPainted
    PROVE  PortInv'
<1>1. owner \in Owners /\ rt \in Runtimes /\ Types /\ rt' = rt
  BY DEF PortInv, Types, OwnerPainted
<1>2. Listened(rt, rt')
  BY <1>1, StillHere
<1>3. native.out # <<>> /\ native' = [native EXCEPT !.out = Tail(@)] /\ owner.pending.k = "draw"
  BY DEF OwnerPainted, Record
<1> DEFINE q == Painted(owner)
           e == [q EXCEPT !.queued = 0]
<1>4. /\ q \in Owners /\ SamePhase(owner, q) /\ Due(q) = Due(owner) /\ (Closed(q) => Closed(owner))
      /\ q.queued \in Nat
  <2>1. q \in Owners /\ SamePhase(owner, q) /\ Due(q) = Due(owner)
    BY <1>1, <1>3, PaintedOwner
  <2>2. Closed(q) => Closed(owner)
    BY <1>1, <1>3, PaintedOwner
  <2>3. q.queued \in Nat
    BY <2>1 DEF Owners
  <2> QED  BY <2>1, <2>2, <2>3
<1>5. Painting(e, q.queued) \/ Granting(q)
  BY DEF OwnerPainted, Painted, Answer
<1> HIDE DEF q
<1>6. CASE Painting(e, q.queued)
  <2>1. e \in Owners /\ SamePhase(q, e) /\ e.wire = q.wire /\ e.outbox = q.outbox /\ e.told = q.told
    BY <1>4, Unqueued
  <2> HIDE DEF e
  <2>2. Talks(e, owner', {"draw", "credit"}) /\ Turned(e, owner', q.queued) /\ world' \in Worlds
    BY <1>1, <1>4, <1>6, <2>1, PaintingStep
  <2>3. SamePhase(owner, e) /\ Due(e) = Due(owner)
    BY <1>4, <2>1 DEF SamePhase, Due
  <2>4. Closed(owner') => Closed(owner)
    <3>1. Closed(owner') => Closed(e)
      BY <1>4, <2>1, <2>2, ClosedMore DEF Turned
    <3>2. Closed(e) => Closed(q)
      BY <2>1 DEF Closed
    <3> QED  BY <1>4, <3>1, <3>2
  <2>5. {"draw", "credit"} \subseteq Small
    BY DEF Small
  <2> QED  BY <1>2, <1>3, <2>1, <2>2, <2>3, <2>4, <2>5, TalksStep
<1>7. CASE Granting(q)
  <2>1. Talks(q, owner', {"credit"}) /\ SameDraws(q, owner') /\ world' \in Worlds
    BY <1>1, <1>4, <1>7, GrantingStep
  <2>2. Closed(owner') => Closed(owner)
    <3>1. Closed(owner') => Closed(q)
      BY <2>1 DEF SameDraws, Closed
    <3> QED  BY <1>4, <3>1
  <2>3. {"credit"} \subseteq Small
    BY DEF Small
  <2> QED  BY <1>2, <1>3, <1>4, <2>1, <2>2, <2>3, TalksStep
<1> QED  BY <1>5, <1>6, <1>7

LEMMA OwnerInputStep ==
    ASSUME PortInv, OwnerInput
    PROVE  PortInv'
<1>1. owner \in Owners /\ rt \in Runtimes /\ world \in Worlds /\ Types /\ rt' = rt
  BY DEF PortInv, Types, OwnerInput, Stops
<1>2. Listened(rt, rt')
  BY <1>1, StillHere
<1>3. native.out # <<>> /\ native' = [native EXCEPT !.out = Tail(@)]
  BY DEF OwnerInput, Record
<1> DEFINE q == [owner EXCEPT !.credit = 0]
<1>4. q \in Owners
  BY <1>1, ZenonT(60) DEF Owners
<1>5. /\ SamePhase(owner, q) /\ q.wire = owner.wire /\ q.outbox = owner.outbox /\ q.told = owner.told
      /\ q.control = owner.control
  BY <1>1 DEF Owners, SamePhase
<1>6. Due(q) = Due(owner) /\ (Closed(q) => Closed(owner))
  BY <1>5 DEF Due, Closed
<1> HIDE DEF q
<1>7. CASE Stops("call")
  BY <1>3, <1>7, StopsStep
<1>8. CASE Granting(q)
  <2>1. Talks(q, owner', {"credit"}) /\ SameDraws(q, owner') /\ world' \in Worlds
    BY <1>1, <1>4, <1>8, GrantingStep
  <2>2. Closed(owner') => Closed(owner)
    <3>1. Closed(owner') => Closed(q)
      BY <2>1 DEF SameDraws, Closed
    <3> QED  BY <1>6, <3>1
  <2>3. {"credit"} \subseteq Small
    BY DEF Small
  <2> QED  BY <1>2, <1>3, <1>4, <1>5, <1>6, <2>1, <2>2, <2>3, TalksStep
<1>9. CASE owner' = q /\ world' = world
  BY <1>1, <1>2, <1>3, <1>4, <1>5, <1>6, <1>9, StillStep DEF SamePhase
<1> QED  BY <1>7, <1>8, <1>9 DEF OwnerInput, q

\* What the owner forgets when the terminal leaves it.
Forget(o) == [o EXCEPT !.control = None, !.pending = None, !.credit = 0]

LEMMA ForgetOwner ==
    ASSUME NEW o \in Owners, NEW p, p = Forget(o)
    PROVE  /\ p \in Owners /\ p.phase = o.phase /\ p.slot = o.slot /\ p.gen = o.gen /\ p.control = None
           /\ p.wire = o.wire /\ p.outbox = o.outbox /\ p.told = o.told /\ p.pending = None
<1>1. p \in Owners
  BY ZenonT(60) DEF Owners, Forget
<1> QED  BY <1>1 DEF Owners, Forget

LEMMA OwnerRestoredStep ==
    ASSUME PortInv, OwnerRestored
    PROVE  PortInv'
<1>1. owner \in Owners /\ rt \in Runtimes /\ native \in Helpers /\ world \in Worlds /\ Types /\ rt' = rt /\ world' = world
      /\ Core(rt, owner, native)
  BY DEF PortInv, Types, OwnerRestored
<1>2. Listened(rt, rt')
  BY <1>1, StillHere
<1>3. native.out # <<>> /\ native' = [native EXCEPT !.out = Tail(@)] /\ Head(native.out).k = "restored"
  BY DEF OwnerRestored, Record
<1>4. /\ native' \in Helpers /\ native'.st = native.st /\ Part(Heard(native'), Heard(native))
      /\ Heard(native) # <<>> /\ Heard(native)[1] = "restored"
  BY <1>1, <1>3, RecordHelper
<1>5. native.st = "exited"
  <2>1. Heard(native) \in Seq(NoteKinds)
    BY <1>1, HeardType
  <2>2. 1 \in DOMAIN Heard(native)
    <3> HIDE DEF NoteKinds
    <3> QED  BY <1>4, <2>1
  <2>3. ~Lacks(Heard(native), {"restored"})
    BY <1>4, <2>2 DEF Lacks
  <2> QED  BY <1>1, <2>3 DEF Core, Ended
<1> DEFINE x == [k |-> "terminal_shutdown", draw |-> 0]
           q == Forget(owner)
           u == [q EXCEPT !.told = Append(@, x)]
           v == [u EXCEPT !.phase = "restored", !.timer = "exit"]
<1>6. /\ q \in Owners /\ q.phase = owner.phase /\ q.slot = owner.slot /\ q.gen = owner.gen /\ q.control = None
      /\ q.wire = owner.wire /\ q.outbox = owner.outbox /\ q.told = owner.told /\ q.pending = None
  BY <1>1, ForgetOwner
<1>7. owner' = v
  BY <1>1 DEF OwnerRestored, Forget, Owners
<1>8. v \in Owners
  <2>1. x \in Results
    BY DEF Results
  <2> HIDE DEF q, x
  <2>2. Append(q.told, x) \in Seq(Results)
    <3> HIDE DEF Results
    <3> QED  BY <1>6, <2>1 DEF Owners
  <2>3. u \in Owners
    <3> HIDE DEF Results
    <3> QED  BY <1>6, <2>2, ZenonT(60) DEF Owners
  <2> HIDE DEF u
  <2> QED  BY <2>3, ZenonT(60) DEF Owners
<1>9. v.phase = "restored" /\ v.slot = owner.slot /\ v.gen = owner.gen /\ v.control = None /\ v.wire = owner.wire
      /\ v.outbox = owner.outbox
  <2> HIDE DEF q, x
  <2> QED  BY <1>6 DEF Owners
<1> HIDE DEF v
<1>10. Due(v) = Due(owner)
  BY <1>9 DEF Due
<1>11. Grows(Kinds, Due(owner), Due(v), Small)
  <2>1. Due(owner) \in Seq(Kinds)
    BY <1>1, DueType
  <2> QED  BY <1>10, <2>1, GrowsAsBefore
<1>12. v.phase \in Gone /\ Awaits(v.control, v.phase)
  BY <1>9, NoneApart DEF Gone, Awaits
<1>13. Core(rt', v, native')
  BY <1>1, <1>2, <1>4, <1>5, <1>8, <1>9, <1>11, <1>12, GoneOwner
<1> QED  BY <1>1, <1>4, <1>7, <1>8, <1>13 DEF PortInv, Types

LEMMA OwnerSuspendedStep ==
    ASSUME PortInv, OwnerSuspended
    PROVE  PortInv'
<1>1. owner \in Owners /\ rt \in Runtimes /\ native \in Helpers /\ world \in Worlds /\ Types /\ Core(rt, owner, native)
  BY DEF PortInv, Types
<1>2. native.out # <<>> /\ native' = [native EXCEPT !.out = Tail(@)] /\ Head(native.out).k = "suspended"
      /\ owner.control.k = "suspend"
  BY DEF OwnerSuspended, Record
<1>3. native' \in Helpers
  BY <1>1, <1>2, RecordHelper
<1>4. CASE Stops("call")
  BY <1>2, <1>4, StopsStep
<1>5. CASE /\ rt' = Suspended(rt, owner.gen) /\ UNCHANGED world
           /\ owner' = [owner EXCEPT !.phase = "suspended", !.control = None, !.pending = None,
                                     !.replied = FALSE, !.credit = 0, !.timer = "none"]
  <2> DEFINE q == Forget(owner)
             v == [q EXCEPT !.phase = "suspended", !.replied = FALSE, !.timer = "none"]
  <2>1. /\ q \in Owners /\ q.phase = owner.phase /\ q.slot = owner.slot /\ q.gen = owner.gen /\ q.control = None
        /\ q.wire = owner.wire /\ q.outbox = owner.outbox /\ q.told = owner.told /\ q.pending = None
    BY <1>1, ForgetOwner
  <2>2. owner' = v
    BY <1>1, <1>5 DEF Forget, Owners
  <2> HIDE DEF q
  <2>3. v \in Owners
    BY <2>1, ZenonT(60) DEF Owners
  <2>4. v.phase = "suspended" /\ v.slot = owner.slot /\ v.gen = owner.gen /\ v.control = None /\ v.wire = owner.wire
        /\ v.outbox = owner.outbox /\ v.told = owner.told
    BY <2>1 DEF Owners
  <2> HIDE DEF v
  <2>5. Due(v) = Due(owner) /\ (Closed(v) => Closed(owner))
    BY <2>4 DEF Due, Closed
  <2>6. rt' \in Runtimes /\ Core(rt', v, native')
    BY <1>1, <1>2, <1>5, <2>3, <2>4, <2>5, SuspendedOwner
  <2> QED  BY <1>1, <1>3, <1>5, <2>2, <2>3, <2>6 DEF PortInv, Types
<1> QED  BY <1>4, <1>5 DEF OwnerSuspended

LEMMA OwnerReadyStep ==
    ASSUME PortInv, OwnerReady
    PROVE  PortInv'
<1>1. owner \in Owners /\ rt \in Runtimes /\ native \in Helpers /\ world \in Worlds /\ Types /\ Core(rt, owner, native)
  BY DEF PortInv, Types
<1>2. native.out # <<>> /\ native' = [native EXCEPT !.out = Tail(@)] /\ Head(native.out).k = "ready"
      /\ owner.phase \in {"initializing", "resuming"}
  BY DEF OwnerReady, Record
<1>3. native' \in Helpers
  BY <1>1, <1>2, RecordHelper
<1>4. CASE Stops("call")
  BY <1>2, <1>4, StopsStep
<1> DEFINE gen == IF owner.slot THEN owner.gen + 1 ELSE 1
<1>5. CASE /\ rt' = (IF owner.slot THEN Resumed(rt, gen) ELSE [rt EXCEPT !.phase = "running"]) /\ UNCHANGED world
           /\ owner' = [owner EXCEPT !.slot = TRUE, !.gen = gen, !.phase = "running",
                                     !.pending = None, !.credit = 0, !.control = None,
                                     !.input = FALSE, !.timer = "none"]
           /\ rt.phase # "over"
  <2> DEFINE q == Forget(owner)
             u == [q EXCEPT !.gen = gen]
             v == [u EXCEPT !.slot = TRUE, !.phase = "running", !.input = FALSE, !.timer = "none"]
  <2>1. /\ q \in Owners /\ q.phase = owner.phase /\ q.slot = owner.slot /\ q.gen = owner.gen /\ q.control = None
        /\ q.wire = owner.wire /\ q.outbox = owner.outbox /\ q.told = owner.told /\ q.pending = None
    BY <1>1, ForgetOwner
  <2>2. owner' = v
    <3> HIDE DEF gen
    <3> QED  BY <1>1, <1>5 DEF Forget, Owners
  <2>3. gen \in Nat
    BY <1>1 DEF Owners
  <2> HIDE DEF q, gen
  <2>4. u \in Owners
    BY <2>1, <2>3, ZenonT(60) DEF Owners
  <2>5. v \in Owners
    <3> HIDE DEF u
    <3> QED  BY <2>4, ZenonT(60) DEF Owners
  <2>6. v.phase = "running" /\ v.slot = TRUE /\ v.gen = gen /\ v.control = None /\ v.wire = owner.wire
        /\ v.outbox = owner.outbox /\ v.told = owner.told
    BY <2>1 DEF Owners
  <2> HIDE DEF v, u
  <2>7. Due(v) = Due(owner) /\ (Closed(v) => Closed(owner))
    BY <2>6 DEF Due, Closed
  <2>8. gen = IF owner.slot THEN owner.gen + 1 ELSE 1
    BY DEF gen
  <2>9. rt' = Registered(rt, owner, gen)
    BY <1>5 DEF Registered
  <2>11. rt.phase # "over"
    BY <1>5
  <2>10. rt' \in Runtimes /\ Core(rt', v, native')
    <3>1. v.slot
      BY <2>6
    <3>2. v.phase = "running" /\ v.gen = gen /\ v.control = None
      BY <2>6
    <3>3. PICK s : s = rt'
      OBVIOUS
    <3>4. PICK g : g = native'
      OBVIOUS
    <3>5. s = Registered(rt, owner, gen) /\ g = [native EXCEPT !.out = Tail(@)]
      BY <1>2, <2>9, <3>3, <3>4
    <3>6. s \in Runtimes /\ Core(s, v, g)
      BY <1>1, <1>2, <2>3, <2>5, <2>7, <2>8, <2>11, <3>1, <3>2, <3>5, ReadyOwner
    <3> QED  BY <3>3, <3>4, <3>6
  <2> QED  BY <1>1, <1>3, <1>5, <2>2, <2>5, <2>10 DEF PortInv, Types
<1> QED  BY <1>4, <1>5 DEF OwnerReady

\* A helper that was stopped comes back: the frame that waits is answered.
Waiting(o) == IF o.pending # None /\ ~o.replied THEN Reply(o, o.pending.draw) ELSE o
Recalled(o) == [DropQueued(Waiting(o)) EXCEPT !.pending = None, !.replied = FALSE, !.credit = 0, !.input = FALSE]

Silent(o) == [o EXCEPT !.credit = 0, !.input = FALSE]

LEMMA SilentOwner ==
    ASSUME NEW o \in Owners, NEW p, p = Silent(o)
    PROVE  p \in Owners
BY ZenonT(60) DEF Owners, Silent

LEMMA WaitingOwner ==
    ASSUME NEW o \in Owners, NEW p, p = Waiting(o)
    PROVE  /\ p \in Owners /\ SamePhase(o, p) /\ p.wire = o.wire /\ p.outbox = o.outbox
           /\ p.told = o.told \/ (\E d \in Nat : p.told = Append(o.told, [k |-> "draw_result", draw |-> d]))
<1>1. CASE o.pending # None /\ ~o.replied
  <2>1. o.pending \in Paints \cup {None}
    BY DEF Owners
  <2>2. o.pending \in Paints
    BY <1>1, <2>1
  <2>3. o.pending.draw \in Nat
    BY <2>2 DEF Paints
  <2>4. p = Reply(o, o.pending.draw)
    BY <1>1 DEF Waiting
  <2>5. /\ p \in Owners /\ SamePhase(o, p) /\ p.wire = o.wire /\ p.outbox = o.outbox
        /\ p.told = Append(o.told, [k |-> "draw_result", draw |-> o.pending.draw])
    BY <2>3, <2>4, ReplyOwner
  <2> QED  BY <2>3, <2>5
<1>2. CASE ~(o.pending # None /\ ~o.replied)
  <2>1. p = o
    BY <1>2 DEF Waiting
  <2> QED  BY <2>1 DEF SamePhase
<1> QED  BY <1>1, <1>2

LEMMA RecalledOwner ==
    ASSUME NEW o \in Owners, NEW p, p = Recalled(o)
    PROVE  /\ p \in Owners /\ p.slot = o.slot /\ p.gen = o.gen /\ p.wire = o.wire /\ p.outbox = o.outbox
           /\ Closed(p) => Closed(o)
<1> DEFINE w == Waiting(o)
           q == DropQueued(w)
<1>1. /\ w \in Owners /\ SamePhase(o, w) /\ w.wire = o.wire /\ w.outbox = o.outbox
      /\ w.told = o.told \/ (\E d \in Nat : w.told = Append(o.told, [k |-> "draw_result", draw |-> d]))
  BY WaitingOwner
<1> HIDE DEF w
<1>2. Closed(w) => Closed(o)
  <2>1. CASE w.told = o.told
    BY <2>1 DEF Closed
  <2>2. CASE \E d \in Nat : w.told = Append(o.told, [k |-> "draw_result", draw |-> d])
    <3>1. PICK d \in Nat : w.told = Append(o.told, [k |-> "draw_result", draw |-> d])
      BY <2>2
    <3> QED  BY <1>1, <3>1, ClosedMore
  <2> QED  BY <1>1, <2>1, <2>2
<1>3. /\ q \in Owners /\ SamePhase(w, q) /\ q.wire = w.wire /\ q.outbox = w.outbox
      /\ q.told = IF w.queued = 0 THEN w.told ELSE Append(w.told, [k |-> "draw_result", draw |-> w.queued])
  BY <1>1, DropOwner
<1>4. w.queued \in Nat
  BY <1>1 DEF Owners
<1>5. Closed(q) => Closed(w)
  BY <1>1, <1>3, <1>4, ClosedMore
<1>6. p = [q EXCEPT !.pending = None, !.replied = FALSE, !.credit = 0, !.input = FALSE]
  BY DEF Recalled, w
<1> HIDE DEF q
<1>7. p \in Owners
  <2> DEFINE u == [q EXCEPT !.pending = None, !.replied = FALSE]
  <2>1. u \in Owners
    BY <1>3, ZenonT(60) DEF Owners
  <2>2. p = Silent(u)
    BY <1>3, <1>6 DEF Owners, Silent
  <2> HIDE DEF u
  <2> QED  BY <2>1, <2>2, SilentOwner
<1>8. p.slot = q.slot /\ p.gen = q.gen /\ p.wire = q.wire /\ p.outbox = q.outbox /\ p.told = q.told
  BY <1>3, <1>6 DEF Owners
<1>9. Closed(p) => Closed(q)
  BY <1>8 DEF Closed
<1> QED  BY <1>1, <1>2, <1>3, <1>5, <1>7, <1>8, <1>9 DEF SamePhase

LEMMA OwnerResumeNeededStep ==
    ASSUME PortInv, OwnerResumeNeeded
    PROVE  PortInv'
<1>1. owner \in Owners /\ rt \in Runtimes /\ native \in Helpers /\ Types /\ Core(rt, owner, native) /\ rt' = rt
  BY DEF PortInv, Types, OwnerResumeNeeded
<1>2. native.out # <<>> /\ native' = [native EXCEPT !.out = Tail(@)] /\ owner.phase = "running"
  BY DEF OwnerResumeNeeded, Record
<1>3. native' \in Helpers /\ native'.st = native.st /\ Part(Heard(native'), Heard(native))
  BY <1>1, <1>2, RecordHelper
<1>4. Listened(rt, rt')
  BY <1>1, StillHere
<1> DEFINE w == Recalled(owner)
           q == Phased(w, "resuming", "resume", "resume")
<1>5. /\ w \in Owners /\ w.slot = owner.slot /\ w.gen = owner.gen /\ w.wire = owner.wire /\ w.outbox = owner.outbox
      /\ (Closed(w) => Closed(owner))
  BY <1>1, RecalledOwner
<1>6. Control(q, "resume")
  <2> DEFINE x == DropQueued(Waiting(owner))
             v == [x EXCEPT !.phase = "resuming", !.pending = None, !.replied = FALSE, !.credit = 0, !.input = FALSE,
                            !.timer = "resume", !.control = [k |-> "resume", n |-> 0]]
  <2>1. Control(v, "resume")
    BY DEF OwnerResumeNeeded, Waiting
  <2>2. x \in Owners
    <3>1. PICK y : y = Waiting(owner)
      OBVIOUS
    <3>2. y \in Owners
      BY <1>1, <3>1, WaitingOwner
    <3> QED  BY <3>1, <3>2, DropOwner
  <2>3. q = [[x EXCEPT !.pending = None, !.replied = FALSE, !.credit = 0, !.input = FALSE]
               EXCEPT !.phase = "resuming", !.timer = "resume", !.control = [k |-> "resume", n |-> 0]]
    BY DEF Phased, Recalled
  <2> HIDE DEF x, q
  <2>4. q = v
    BY <2>2, <2>3 DEF Owners
  <2> QED  BY <2>1, <2>4
<1> HIDE DEF w
<1>7. /\ q \in Owners /\ q.phase = "resuming" /\ q.slot = owner.slot /\ q.gen = owner.gen /\ q.control.k = "resume"
      /\ q.wire = owner.wire /\ q.outbox = owner.outbox /\ q.told = w.told
  BY <1>5, PhasedOwner
<1> HIDE DEF q
<1>8. Due(q) = Due(owner)
  BY <1>7 DEF Due
<1>9. Talks(q, owner', {"resume"}) /\ SameDraws(q, owner') /\ world' \in Worlds
  <2>1. "resume" \in Operations
    BY DEF Operations
  <2> HIDE DEF Operations, Types
  <2> QED  BY <1>1, <1>6, <1>7, <2>1, ControlStep
<1>10. /\ owner' \in Owners /\ owner'.phase = "resuming" /\ owner'.slot = owner.slot /\ owner'.gen = owner.gen
       /\ owner'.control.k = "resume"
  BY <1>7, <1>9 DEF Talks, SamePhase
<1>11. Closed(owner') => Closed(owner)
  <2>1. Closed(owner') => Closed(w)
    BY <1>7, <1>9 DEF SameDraws, Closed
  <2> QED  BY <1>5, <2>1
<1>12. Grows(Kinds, Due(owner), Due(owner'), {"resume"})
  BY <1>8, <1>9 DEF Talks
<1>13. rt.edit # "editing"
  BY <1>1, <1>2 DEF Core, Edits, Gone
<1>14. Core(rt', owner', native')
  BY <1>1, <1>2, <1>3, <1>4, <1>10, <1>11, <1>12, <1>13, ResumingOwner
<1> QED  BY <1>1, <1>3, <1>9, <1>10, <1>14 DEF PortInv, Types

LEMMA OwnerRefusesStep ==
    ASSUME PortInv, OwnerRefuses
    PROVE  PortInv'
<1>1. native.out # <<>> /\ native' = [native EXCEPT !.out = Tail(@)] /\ (Stops("error") \/ Stops("protocol"))
  BY DEF OwnerRefuses
<1> QED  BY <1>1, StopsStep

LEMMA OwnerPortExitStep ==
    ASSUME PortInv, OwnerPortExit
    PROVE  PortInv'
<1>1. owner \in Owners /\ rt \in Runtimes /\ native \in Helpers /\ world \in Worlds /\ Core(rt, owner, native)
      /\ native' = native
  BY DEF PortInv, Types, OwnerPortExit
<1>2. CASE Stops("unavailable")
  BY <1>1, <1>2, StopsStep
<1>3. CASE /\ owner.phase = "restored" /\ UNCHANGED <<rt, world>>
           /\ owner' = [owner EXCEPT !.phase = "left", !.timer = "none", !.alive = ~owner.down]
  <2>1. owner' \in Owners
    <3>1. owner.down \in BOOLEAN
      BY <1>1 DEF Owners
    <3>2. CASE owner.down = TRUE
      <4>1. owner' = [owner EXCEPT !.phase = "left", !.timer = "none", !.alive = FALSE]
        BY <1>3, <3>2
      <4> QED  BY <1>1, <4>1, ZenonT(60) DEF Owners
    <3>3. CASE owner.down = FALSE
      <4>1. owner' = [owner EXCEPT !.phase = "left", !.timer = "none", !.alive = TRUE]
        BY <1>3, <3>3
      <4> QED  BY <1>1, <4>1, ZenonT(60) DEF Owners
    <3> QED  BY <3>1, <3>2, <3>3
  <2>2. /\ owner'.phase = "left" /\ owner'.slot = owner.slot /\ owner'.gen = owner.gen
        /\ owner'.control = owner.control /\ owner'.wire = owner.wire /\ owner'.outbox = owner.outbox
        /\ owner'.told = owner.told
    BY <1>1, <1>3 DEF Owners
  <2>3. Due(owner') = Due(owner) /\ (Closed(owner') => Closed(owner))
    BY <2>2 DEF Due, Closed
  <2>4. Grows(Kinds, Due(owner), Due(owner'), Small)
    <3>1. Due(owner) \in Seq(Kinds)
      BY <1>1, DueType
    <3> QED  BY <2>3, <3>1, GrowsAsBefore
  <2>5. owner'.phase \in Gone /\ Awaits(owner'.control, owner'.phase)
    <3>1. Awaits(owner.control, owner.phase)
      BY <1>1 DEF Core
    <3> QED  BY <1>3, <2>2, <3>1 DEF Gone, Awaits
  <2>6. Part(Heard(native), Heard(native)) /\ Listened(rt, rt)
    BY <1>1, SameHeard, StillHere
  <2>7. Core(rt, owner', native)
    BY <1>1, <2>1, <2>2, <2>3, <2>4, <2>5, <2>6, GoneOwner
  <2> QED  BY <1>1, <1>3, <2>1, <2>7 DEF PortInv, Types
<1> QED  BY <1>2, <1>3 DEF OwnerPortExit

-----------------------------------------------------------------------------
(* The owner's timers.                                                     *)

LEMMA SoftDeadlineStep ==
    ASSUME PortInv, SoftDeadline
    PROVE  PortInv'
<1>1. owner \in Owners /\ rt \in Runtimes /\ world \in Worlds /\ rt' = rt /\ world' = world /\ native' = native
  BY DEF PortInv, Types, SoftDeadline
<1>2. Listened(rt, rt')
  BY <1>1, StillHere
<1> DEFINE q == Answer(owner)
<1>3. owner.pending.k = "draw"
  <2>1. owner.pending \in Paints \cup {None} /\ owner.pending # None
    BY <1>1 DEF Owners, SoftDeadline
  <2>2. owner.pending \in Paints
    BY <2>1
  <2> QED  BY <2>2 DEF Paints
<1>4. q \in Owners /\ SamePhase(owner, q) /\ q.wire = owner.wire /\ q.outbox = owner.outbox
      /\ (Closed(q) => Closed(owner))
  BY <1>1, <1>3, AnswerOwner
<1>5. owner' = [q EXCEPT !.replied = TRUE, !.timer = "draw_hard"]
  BY DEF SoftDeadline, Answer
<1>6. q.control = owner.control
  BY <1>1 DEF Answer, Reply, Owners
<1> HIDE DEF q
<1>7. owner' \in Owners
  BY <1>4, <1>5, ZenonT(60) DEF Owners
<1>8. /\ owner'.phase = q.phase /\ owner'.slot = q.slot /\ owner'.gen = q.gen
      /\ owner'.control = q.control /\ owner'.wire = q.wire /\ owner'.outbox = q.outbox /\ owner'.told = q.told
  BY <1>4, <1>5 DEF Owners
<1>9. Closed(owner') => Closed(owner)
  <2>1. Closed(owner') => Closed(q)
    BY <1>8 DEF Closed
  <2> QED  BY <1>4, <2>1
<1> QED  BY <1>1, <1>2, <1>4, <1>6, <1>7, <1>8, <1>9, StillStep DEF SamePhase

LEMMA HardDeadlineStep ==
    ASSUME PortInv, HardDeadline
    PROVE  PortInv'
BY StopsStep DEF HardDeadline

LEMMA QueuedDeadlineStep ==
    ASSUME PortInv, QueuedDeadline
    PROVE  PortInv'
<1>1. owner \in Owners /\ rt \in Runtimes /\ world \in Worlds /\ rt' = rt /\ world' = world /\ native' = native
  BY DEF PortInv, Types, QueuedDeadline
<1>2. Listened(rt, rt')
  BY <1>1, StillHere
<1>3. PICK p : p = owner' /\ p = DropQueued(owner)
  BY DEF QueuedDeadline
<1>4. /\ p \in Owners /\ SamePhase(owner, p) /\ p.wire = owner.wire /\ p.outbox = owner.outbox
      /\ p.told = IF owner.queued = 0 THEN owner.told
                  ELSE Append(owner.told, [k |-> "draw_result", draw |-> owner.queued])
  BY <1>1, <1>3, DropOwner
<1>5. p.control = owner.control
  BY <1>1, <1>3 DEF DropQueued, Reply, Owners
<1>6. owner.queued \in Nat
  BY <1>1 DEF Owners
<1>7. Closed(p) => Closed(owner)
  BY <1>1, <1>4, <1>6, ClosedMore
<1> QED  BY <1>1, <1>2, <1>3, <1>4, <1>5, <1>7, StillStep DEF SamePhase

LEMMA BusyRetryStep ==
    ASSUME PortInv, BusyRetry
    PROVE  PortInv'
<1>1. owner \in Owners /\ rt \in Runtimes /\ Types /\ rt' = rt /\ native' = native
  BY DEF PortInv, Types, BusyRetry
<1>2. Listened(rt, rt')
  BY <1>1, StillHere
<1> DEFINE q == [owner EXCEPT !.retry = FALSE]
<1>3. q \in Owners
  BY <1>1, ZenonT(60) DEF Owners
<1>4. SamePhase(owner, q) /\ q.wire = owner.wire /\ q.outbox = owner.outbox /\ q.told = owner.told
  BY <1>1 DEF Owners, SamePhase
<1>5. Due(q) = Due(owner) /\ (Closed(q) => Closed(owner))
  BY <1>4 DEF Due, Closed
<1> HIDE DEF q
<1>6. Talks(q, owner', {"credit"}) /\ SameDraws(q, owner') /\ world' \in Worlds
  <2>1. CASE Granting(q)
    BY <1>1, <1>3, <2>1, GrantingStep
  <2>2. CASE \E n \in 0 .. Len(q.outbox) : owner' = Grant(Flush(q, n), TRUE) /\ Busy(n < Len(q.outbox))
    <3>1. PICK n \in 0 .. Len(q.outbox) : owner' = Grant(Flush(q, n), TRUE) /\ Busy(n < Len(q.outbox))
      BY <2>2
    <3>2. world' \in Worlds
      BY <1>1, <3>1, BusyWorld
    <3>3. Talks(q, owner', {"credit"}) /\ SameDraws(q, owner')
      BY <1>3, <3>1, RetryOwner
    <3> QED  BY <3>2, <3>3
  <2> QED  BY <2>1, <2>2 DEF BusyRetry, q
<1>7. Closed(owner') => Closed(owner)
  <2>1. Closed(owner') => Closed(q)
    BY <1>6 DEF SameDraws, Closed
  <2> QED  BY <1>5, <2>1
<1>8. {"credit"} \subseteq Small
  BY DEF Small
<1> QED  BY <1>1, <1>2, <1>3, <1>4, <1>5, <1>6, <1>7, <1>8, TalksStep

-----------------------------------------------------------------------------
(* The helper's steps.                                                     *)

LEMMA SameDue ==
    ASSUME NEW o \in Owners
    PROVE  SamePhase(o, o) /\ SameDraws(o, o) /\ Part(Due(o), Due(o)) /\ Due(o) \in Seq(Kinds)
<1>1. Due(o) \in Seq(Kinds)
  BY DueType
<1> HIDE DEF Kinds, Owners
<1>2. Part(Due(o), Due(o))
  BY <1>1, PartOfItself
<1> QED  BY <1>1, <1>2 DEF SamePhase, SameDraws

\* A step of the helper that takes no command.
LEMMA QuietNative ==
    ASSUME PortInv, UNCHANGED <<rt, owner>>, world' \in Worlds,
           native' \in Helpers, native'.st = native.st \/ (native.st # "exited" /\ native'.st \notin Raw) \/ native'.st = "exited",
           \/ Heard(native') = Heard(native)
           \/ \E k \in Chatter : Heard(native') = Append(Heard(native), k)
    PROVE  PortInv'
<1>1. owner \in Owners /\ rt \in Runtimes /\ native \in Helpers /\ Core(rt, owner, native)
  BY DEF PortInv, Types
<1>2. SamePhase(owner, owner) /\ SameDraws(owner, owner) /\ Part(Due(owner), Due(owner))
  BY <1>1, SameDue
<1>3. Heard(native) \in Seq(NoteKinds)
  BY <1>1, HeardType
<1>4. Grows(NoteKinds, Heard(native), Heard(native'), Chatter)
  <2> HIDE DEF NoteKinds, Chatter
  <2>1. CASE Heard(native') = Heard(native)
    BY <1>3, <2>1, GrowsAsBefore
  <2>2. CASE \E k \in Chatter : Heard(native') = Append(Heard(native), k)
    BY <1>3, <2>2, GrowsByOne
  <2> QED  BY <2>1, <2>2
<1> HIDE DEF Owners, Runtimes, Helpers
<1>5. Core(rt, owner, native')
  BY <1>1, <1>2, <1>4, QuietHelper
<1> QED  BY <1>1, <1>5 DEF PortInv, Types

\* The helper takes a command, or ends at one that it refuses.
LEMMA CommandAnswered ==
    ASSUME Types, NativeCommand
    PROVE  native' \in Helpers /\ Answered(Head(owner.wire).k, native, native')
<1>1. owner \in Owners /\ native \in Helpers
  BY DEF Types
<1> DEFINE c == Head(owner.wire)
           k == c.k
           token == IF k \in {"init", "draw"} THEN native.token ELSE c.n
           t == [native EXCEPT !.token = token]
<1>2. /\ owner.wire # <<>> /\ owner' = [owner EXCEPT !.wire = Tail(@)]
      /\ native' = Errs(native) \/ \E probe \in BOOLEAN : native' = Perform(t, c, probe)
  <2>1. t = [native EXCEPT !.token = IF k \in {"init", "draw"} THEN @ ELSE c.n]
    BY <1>1 DEF Helpers
  <2> QED  BY <2>1 DEF NativeCommand
<1>3. c \in Commands
  BY <1>1, <1>2, DueRest
<1>4. t \in Helpers /\ t.st = native.st /\ Heard(t) = Heard(native)
  <2>1. token \in Nat
    BY <1>1, <1>3 DEF Helpers, Commands
  <2> HIDE DEF token
  <2> QED  BY <1>1, <2>1, NoteHelper
<1> HIDE DEF t, token, c
<1>5. CASE native' = Errs(native)
  <2>1. native' \in Helpers /\ native'.st = "exited" /\ Heard(native') = Append(Heard(native), "error")
    BY <1>1, <1>5, ErrsHelper
  <2> QED  BY <2>1 DEF Answered
<1>6. CASE \E probe \in BOOLEAN : native' = Perform(t, c, probe)
  <2>1. PICK probe \in BOOLEAN : native' = Perform(t, c, probe)
    BY <1>6
  <2>2. native' \in Helpers /\ Answered(k, t, native')
    BY <1>3, <1>4, <2>1, PerformHelper
  <2>3. Answered(k, native, native')
    BY <1>4, <2>2 DEF Answered
  <2> QED  BY <2>2, <2>3 DEF c
<1> QED  BY <1>2, <1>5, <1>6

LEMMA NativeCommandStep ==
    ASSUME PortInv, NativeCommand
    PROVE  PortInv'
<1>1. owner \in Owners /\ rt \in Runtimes /\ native \in Helpers /\ world \in Worlds /\ Core(rt, owner, native)
      /\ rt' = rt /\ world' = world /\ Types
  BY DEF PortInv, Types, NativeCommand
<1> DEFINE c == Head(owner.wire)
           k == c.k
<1>2. owner.wire # <<>> /\ native.st # "exited" /\ owner' = [owner EXCEPT !.wire = Tail(@)]
  BY DEF NativeCommand
<1>3. /\ owner' \in Owners /\ SamePhase(owner, owner') /\ SameDraws(owner, owner') /\ Due(owner') = Tail(Due(owner))
      /\ Due(owner) # <<>> /\ Due(owner)[1] = k /\ c \in Commands
  BY <1>1, <1>2, DueRest
<1>4. owner'.control = owner.control
  BY <1>1, <1>2 DEF Owners
<1>7. native' \in Helpers /\ Answered(k, native, native')
  BY <1>1, CommandAnswered
<1> HIDE DEF k, c
<1>8. Due(owner) \in Seq(Kinds) /\ Heard(native) \in Seq(NoteKinds)
  <2>1. Due(owner) \in Seq(Kinds)
    BY <1>1, DueType
  <2>2. Heard(native) \in Seq(NoteKinds)
    BY <1>1, HeardType
  <2> QED  BY <2>1, <2>2
<1>9. Part(Due(owner'), Due(owner))
  BY <1>3, <1>8, TailPart
<1>10. Core(rt, owner', native')
  <2>1. CASE \/ native'.st = native.st /\ Heard(native') = Heard(native)
             \/ native'.st = native.st /\ Heard(native') = Append(Heard(native), "painted")
             \/ native'.st = "exited" /\ Heard(native') = Append(Heard(native), "error")
    <3>1. "painted" \in Chatter /\ "error" \in Chatter
      BY DEF Chatter
    <3>2. Grows(NoteKinds, Heard(native), Heard(native'), Chatter)
      <4> HIDE DEF NoteKinds, Chatter
      <4>1. CASE Heard(native') = Heard(native)
        BY <1>8, <4>1, GrowsAsBefore
      <4>2. CASE Heard(native') = Append(Heard(native), "painted")
        BY <1>8, <3>1, <4>2, GrowsByOne
      <4>3. CASE Heard(native') = Append(Heard(native), "error")
        BY <1>8, <3>1, <4>3, GrowsByOne
      <4> QED  BY <2>1, <4>1, <4>2, <4>3
    <3>3. native'.st = native.st \/ native'.st = "exited"
      BY <2>1
    <3> QED  BY <1>1, <1>3, <1>4, <1>7, <1>9, <3>2, <3>3, QuietHelper
  <2>2. CASE \/ k = "shutdown" /\ native'.st = "exited" /\ Heard(native') = Append(Heard(native), "restored")
             \/ k = "suspend" /\ native'.st = "suspended" /\ Heard(native') = Append(Heard(native), "suspended")
    <3>1. \/ Due(owner)[1] = "suspend" /\ native'.st = "suspended" /\ Heard(native') = Append(Heard(native), "suspended")
          \/ Due(owner)[1] = "shutdown" /\ native'.st = "exited" /\ Heard(native') = Append(Heard(native), "restored")
      BY <1>3, <2>2
    <3> QED  BY <1>1, <1>2, <1>3, <1>4, <1>7, <3>1, DownHelper
  <2>3. CASE /\ k \in Ups
             /\ \/ native'.st = "probing" /\ Heard(native') = Heard(native)
                \/ native'.st = "active" /\ Heard(native') = Append(Heard(native), "ready")
    <3>1. Due(owner)[1] \in Ups
      BY <1>3, <2>3
    <3> QED  BY <1>1, <1>2, <1>3, <1>4, <1>7, <2>3, <3>1, UpHelper
  <2> QED  BY <1>7, <2>1, <2>2, <2>3 DEF Answered
<1> QED  BY <1>1, <1>3, <1>7, <1>10 DEF PortInv, Types

LEMMA NativeProbedStep ==
    ASSUME PortInv, NativeProbed
    PROVE  PortInv'
<1>1. owner \in Owners /\ rt \in Runtimes /\ native \in Helpers /\ world \in Worlds /\ Core(rt, owner, native)
      /\ rt' = rt /\ world' = world /\ owner' = owner /\ native.st = "probing"
  BY DEF PortInv, Types, NativeProbed
<1>2. native' \in Helpers /\ native'.st = "active" /\ Heard(native') = Append(Heard(native), "ready")
  BY <1>1, ActivateHelper DEF NativeProbed
<1>3. SamePhase(owner, owner) /\ SameDraws(owner, owner)
  BY <1>1, SameDue
<1>4. Core(rt, owner, native')
  BY <1>1, <1>2, <1>3, UpHelper
<1> QED  BY <1>1, <1>2, <1>4 DEF PortInv, Types

\* What is said, and the state or the credit that goes with it.
LEMMA CreditlessHelper ==
    ASSUME NEW h \in Helpers, NEW g, g = [h EXCEPT !.credit = 0]
    PROVE  g \in Helpers /\ g.st = h.st /\ Heard(g) = Heard(h)
<1>1. 0 \in Nat
  OBVIOUS
<1> QED  BY <1>1, NoteHelper

LEMMA NativeInputStep ==
    ASSUME PortInv, NativeInput
    PROVE  PortInv'
<1>1. native \in Helpers /\ world \in Worlds /\ UNCHANGED <<rt, owner>>
  BY DEF PortInv, Types, NativeInput
<1>2. native.credit \in Nat /\ "input" \in NoteKinds /\ "input" \in Chatter
  BY <1>1 DEF Helpers, NoteKinds, Chatter
<1> DEFINE q == Report(native, "input", native.credit)
<1>3. q \in Helpers /\ q.st = native.st /\ Heard(q) = Append(Heard(native), "input")
  BY <1>1, <1>2, ReportHelper
<1>4. native' = [q EXCEPT !.credit = 0]
  BY DEF NativeInput
<1> HIDE DEF q
<1>5. native' \in Helpers /\ native'.st = q.st /\ Heard(native') = Heard(q)
  BY <1>3, <1>4, CreditlessHelper
<1>6. world' \in Worlds
  BY <1>1 DEF Worlds, NativeInput
<1> QED  BY <1>1, <1>2, <1>3, <1>5, <1>6, QuietNative

LEMMA NativeStopStep ==
    ASSUME PortInv, NativeStop
    PROVE  PortInv'
<1>1. native \in Helpers /\ UNCHANGED <<rt, owner>> /\ world' \in Worlds /\ native.st # "exited"
  BY StimulusWorld DEF PortInv, Types, NativeStop, Raw
<1> DEFINE q == [native EXCEPT !.st = "stopped"]
<1>2. q \in Helpers /\ q.st = "stopped" /\ Heard(q) = Heard(native)
  BY <1>1, SetHelper
<1>3. native' = [q EXCEPT !.credit = 0]
  BY DEF NativeStop
<1> HIDE DEF q
<1>4. native' \in Helpers /\ native'.st = "stopped" /\ Heard(native') = Heard(native)
  BY <1>2, <1>3, CreditlessHelper
<1> QED  BY <1>1, <1>4, QuietNative DEF Raw

LEMMA NativeContinueStep ==
    ASSUME PortInv, NativeContinue
    PROVE  PortInv'
<1>1. native \in Helpers /\ UNCHANGED <<rt, owner>> /\ world' \in Worlds /\ native.st # "exited"
  BY DEF PortInv, Types, NativeContinue
<1> DEFINE q == Report(native, "resume_needed", 0)
<1>2. "resume_needed" \in NoteKinds /\ "resume_needed" \in Chatter
  BY DEF NoteKinds, Chatter
<1>3. q \in Helpers /\ q.st = native.st /\ Heard(q) = Append(Heard(native), "resume_needed")
  BY <1>1, <1>2, ReportHelper
<1>4. native' = [q EXCEPT !.st = "barrier"]
  BY DEF NativeContinue
<1> HIDE DEF q
<1>5. native' \in Helpers /\ native'.st = "barrier" /\ Heard(native') = Heard(q)
  BY <1>3, <1>4, SetHelper
<1> QED  BY <1>1, <1>2, <1>3, <1>5, QuietNative DEF Raw

LEMMA NativeEndsStep ==
    ASSUME PortInv, NativeDies \/ NativeReaped
    PROVE  PortInv'
<1>1. native \in Helpers /\ UNCHANGED <<rt, owner>> /\ world' \in Worlds
  BY StimulusWorld DEF PortInv, Types, NativeDies, NativeReaped
<1>2. native' = [native EXCEPT !.st = "exited"]
  BY DEF NativeDies, NativeReaped
<1>3. native' \in Helpers /\ native'.st = "exited" /\ Heard(native') = Heard(native)
  BY <1>1, <1>2, SetHelper
<1> QED  BY <1>1, <1>3, QuietNative

-----------------------------------------------------------------------------
(* The runtime's steps.                                                    *)

LEMMA GoesStep ==
    ASSUME PortInv, Goes(rt, rt'), world' \in Worlds, native' = native,
           rt'.end = rt.end \/ rt'.end \notin {"restored", "down"} \/ native.st = "exited",
           owner' = owner \/ (owner.told # <<>> /\ owner' = [owner EXCEPT !.told = Tail(@)])
    PROVE  PortInv'
<1>1. owner \in Owners /\ rt \in Runtimes /\ native \in Helpers /\ Core(rt, owner, native)
  BY DEF PortInv, Types
<1>2. /\ owner' \in Owners /\ owner'.phase = owner.phase /\ owner'.slot = owner.slot /\ owner'.gen = owner.gen
      /\ owner'.control = owner.control /\ Due(owner') = Due(owner) /\ (Closed(owner') => Closed(owner))
  <2>1. CASE owner' = owner
    BY <1>1, <2>1 DEF Due
  <2>2. CASE owner.told # <<>> /\ owner' = [owner EXCEPT !.told = Tail(@)]
    <3>1. Tail(owner.told) \in Seq(Results)
      <4>1. owner.told \in Seq(Results)
        BY <1>1 DEF Owners
      <4> HIDE DEF Results
      <4> QED  BY <2>2, <4>1
    <3>2. owner' \in Owners
      BY <1>1, <2>2, <3>1, ZenonT(60) DEF Owners
    <3>3. /\ owner'.phase = owner.phase /\ owner'.slot = owner.slot /\ owner'.gen = owner.gen
          /\ owner'.control = owner.control /\ owner'.wire = owner.wire /\ owner'.outbox = owner.outbox
          /\ owner'.told = Tail(owner.told)
      BY <1>1, <2>2 DEF Owners
    <3>4. Closed(owner') => Closed(owner)
      BY <1>1, <2>2, <3>3, ClosedRest
    <3> QED  BY <3>2, <3>3, <3>4 DEF Due
  <2> QED  BY <2>1, <2>2
<1> HIDE DEF Owners, Runtimes, Helpers
<1>3. Core(rt', owner', native)
  BY <1>1, <1>2, QuietRuntime
<1> QED  BY <1>1, <1>2, <1>3 DEF PortInv, Types, Goes

LEMMA FrameStep ==
    ASSUME PortInv, Frame
    PROVE  PortInv'
<1>1. rt \in Runtimes /\ world' \in Worlds /\ owner' = owner /\ native' = native /\ rt.phase \notin {"binding"}
      /\ rt' = Draw(rt)
  BY DEF PortInv, Types, Frame
<1>2. Goes(rt, rt') /\ rt'.end = rt.end
  BY <1>1, DrawGoes
<1> QED  BY <1>1, <1>2, GoesStep

LEMMA ReadStep ==
    ASSUME PortInv, Read
    PROVE  PortInv'
<1>1. rt \in Runtimes /\ owner \in Owners /\ native \in Helpers /\ world' \in Worlds /\ native' = native
      /\ rt.phase # "over" /\ owner.told # <<>> /\ owner' = [owner EXCEPT !.told = Tail(@)] /\ Core(rt, owner, native)
  BY DEF PortInv, Types, Read
<1> DEFINE told == Head(owner.told)
<1>2. told \in Results /\ (told.k = "terminal_shutdown" => Closed(owner))
  <2>1. PICK p \in Owners \cup {owner'} : p = owner'
    OBVIOUS
  <2>2. owner'.told = Tail(owner.told)
    BY <1>1 DEF Owners
  <2> QED  BY <1>1, <2>2, ClosedRest
<1>3. CASE rt' = SettleDraw(rt, told.draw)
  <2>1. rt.phase = "binding" => rt.draw = 0 /\ ~rt.final
    BY <1>1 DEF Core, Binding
  <2>2. Goes(rt, rt') /\ rt'.end = rt.end
    BY <1>1, <1>3, <2>1, SettleGoes
  <2> QED  BY <1>1, <2>2, GoesStep
<1>4. CASE told.k # "draw_result" /\ rt' = Over(rt, "restored")
  <2>1. Goes(rt, rt')
    BY <1>1, <1>4, OverGoes
  <2>2. native.st = "exited"
    <3>1. Closed(owner)
      BY <1>2, <1>4 DEF Results
    <3> QED  BY <1>1, <3>1 DEF Core, Ended
  <2> QED  BY <1>1, <2>1, <2>2, GoesStep
<1>5. CASE rt' = rt
  <2>1. Goes(rt, rt') /\ rt'.end = rt.end
    BY <1>1, <1>5 DEF Goes, Said
  <2> QED  BY <1>1, <2>1, GoesStep
<1> QED  BY <1>3, <1>4, <1>5 DEF Read

LEMMA QuitStep ==
    ASSUME PortInv, Quit
    PROVE  PortInv'
<1>1. rt \in Runtimes /\ world' \in Worlds /\ owner' = owner /\ native' = native /\ rt.phase \notin {"binding", "over"}
      /\ rt' = FinalPaint(rt)
  BY DEF PortInv, Types, Quit
<1>2. Goes(rt, rt') /\ rt'.end = rt.end
  BY <1>1, FinalGoes
<1> QED  BY <1>1, <1>2, GoesStep

LEMMA DrawTimeoutStep ==
    ASSUME PortInv, DrawTimeout
    PROVE  PortInv'
<1>1. rt \in Runtimes /\ world' \in Worlds /\ owner' = owner /\ native' = native /\ rt.phase \notin {"binding", "over"}
  <2>1. Binding(rt, owner.slot, owner.gen)
    BY DEF PortInv, Core
  <2> QED  BY <2>1 DEF PortInv, Types, DrawTimeout, Binding
<1>2. Goes(rt, rt') /\ rt'.end = rt.end
  <2> DEFINE q == [rt EXCEPT !.draw = 0]
  <2>1. CASE rt' = FinalPaint(q)
    <3>1. q \in Runtimes /\ q.phase = rt.phase /\ q.gen = rt.gen /\ q.edit = rt.edit /\ q.end = rt.end /\ q.out = rt.out
      BY <1>1, UndrawnRuntime
    <3> HIDE DEF q
    <3>2. Goes(q, rt') /\ rt'.end = q.end
      BY <1>1, <2>1, <3>1, FinalGoes
    <3> QED  BY <1>1, <3>1, <3>2 DEF Goes, Said
  <2>2. CASE rt' = BeginShutdown(rt)
    BY <1>1, <2>2, ShutGoes
  <2> QED  BY <2>1, <2>2 DEF DrawTimeout
<1> QED  BY <1>1, <1>2, GoesStep

LEMMA EndsStep ==
    ASSUME PortInv, ShutdownTimeout \/ TerminalDown \/ BindingTimeout
    PROVE  PortInv'
<1>1. rt \in Runtimes /\ world' \in Worlds /\ owner' = owner /\ native' = native
  BY DEF PortInv, Types, ShutdownTimeout, TerminalDown, BindingTimeout
<1>2. CASE rt' = Over(rt, "timeout") \/ rt' = Over(rt, "binding")
  <2>1. Goes(rt, rt') /\ rt'.end \in {"timeout", "binding"}
    BY <1>1, <1>2, OverGoes
  <2> QED  BY <1>1, <2>1, GoesStep
<1>3. CASE rt' = Over(rt, "down") /\ native.st = "exited"
  <2>1. Goes(rt, rt')
    BY <1>1, <1>3, OverGoes
  <2> QED  BY <1>1, <1>3, <2>1, GoesStep
<1> QED  BY <1>2, <1>3 DEF ShutdownTimeout, TerminalDown, BindingTimeout

LEMMA PreferenceStep ==
    ASSUME PortInv, Preference
    PROVE  PortInv'
<1>1. PICK kind \in {"mouse", "redraw"} :
        Stimulus(kind) /\ rt.phase = "running" /\ rt' = Tell(rt, kind, rt.gen) /\ UNCHANGED <<owner, native>>
  BY DEF Preference
<1>2. rt \in Runtimes /\ world' \in Worlds
  BY <1>1, StimulusWorld DEF PortInv, Types
<1>3. rt.gen \in Nat
  BY <1>2 DEF Runtimes
<1>4. /\ rt' \in Runtimes /\ rt'.phase = rt.phase /\ rt'.gen = rt.gen /\ rt'.edit = rt.edit /\ rt'.end = rt.end
      /\ rt'.out = Append(rt.out, [k |-> kind, n |-> rt.gen])
  BY <1>1, <1>2, <1>3, TellRuntime, SMTT(40)
<1>5. Said(rt, rt')
  BY <1>2, <1>3, <1>4, TellSaid
<1>6. Goes(rt, rt')
  BY <1>1, <1>4, <1>5 DEF Goes
<1> QED  BY <1>1, <1>2, <1>4, <1>6, GoesStep

LEMMA AskingStep ==
    ASSUME PortInv, SettingsEdit \/ ComposerEdit
    PROVE  PortInv'
<1>1. rt \in Runtimes /\ owner \in Owners /\ native \in Helpers /\ Core(rt, owner, native) /\ world' \in Worlds
      /\ owner' = owner /\ native' = native /\ rt.phase = "running" /\ rt.edit = "none"
  BY StimulusWorld DEF PortInv, Types, SettingsEdit, ComposerEdit
<1> DEFINE q == Tell(rt, "suspend", rt.gen)
<1>2. /\ q \in Runtimes /\ q.phase = rt.phase /\ q.gen = rt.gen /\ q.end = rt.end
      /\ q.out = Append(rt.out, [k |-> "suspend", n |-> rt.gen])
  <2>1. rt.gen \in Nat
    BY <1>1 DEF Runtimes
  <2> QED  BY <1>1, <2>1, TellRuntime, SMTT(40)
<1>3. rt' = [q EXCEPT !.edit = "asked"] \/ rt' = [q EXCEPT !.edit = "asked", !.life = "suspend_requested"]
  BY DEF SettingsEdit, ComposerEdit
<1> HIDE DEF q
<1>4. rt' \in Runtimes /\ rt'.phase = q.phase /\ rt'.gen = q.gen /\ rt'.end = q.end /\ rt'.out = q.out
      /\ rt'.edit = "asked"
  <2>1. CASE rt' = [q EXCEPT !.edit = "asked"]
    BY <1>2, <2>1 DEF Runtimes
  <2>2. CASE rt' = [q EXCEPT !.edit = "asked", !.life = "suspend_requested"]
    BY <1>2, <2>2 DEF Runtimes
  <2> QED  BY <1>3, <2>1, <2>2
<1>5. Core(rt', owner, native)
  BY <1>1, <1>2, <1>4, AskingSuspend
<1> QED  BY <1>1, <1>4, <1>5 DEF PortInv, Types

LEMMA ReturningStep ==
    ASSUME PortInv, EditorEnds \/ EditTimeout
    PROVE  PortInv'
<1>1. rt \in Runtimes /\ owner \in Owners /\ native \in Helpers /\ world \in Worlds /\ Core(rt, owner, native)
      /\ world' = world /\ owner' = owner /\ native' = native
  BY DEF PortInv, Types, EditorEnds, EditTimeout
<1>2. rt.edit # "none" /\ Asks(rt, "suspend") = {} /\ owner.phase # "suspending"
  <2>1. CASE EditorEnds
    BY <1>1, <2>1 DEF EditorEnds, Core, Edits, Gone
  <2>2. CASE EditTimeout
    BY <2>2 DEF EditTimeout, Asks
  <2> QED  BY <2>1, <2>2
<1> DEFINE q == Tell(rt, "resume", rt.gen)
           u == [q EXCEPT !.edit = "none"]
           life == IF u.life = "suspend_requested" THEN "running" ELSE u.life
<1>3. /\ q \in Runtimes /\ q.phase = rt.phase /\ q.gen = rt.gen /\ q.end = rt.end /\ q.life = rt.life
      /\ q.out = Append(rt.out, [k |-> "resume", n |-> rt.gen])
  <2>1. rt.gen \in Nat
    BY <1>1 DEF Runtimes
  <2> QED  BY <1>1, <2>1, TellRuntime, SMTT(40)
<1>4. rt' = u \/ rt' = [q EXCEPT !.edit = "none", !.life = IF @ = "suspend_requested" THEN "running" ELSE @]
  BY DEF EditorEnds, EditTimeout
<1> HIDE DEF q
<1>5. u \in Runtimes /\ u.phase = q.phase /\ u.gen = q.gen /\ u.end = q.end /\ u.out = q.out
      /\ u.edit = "none" /\ u.life = q.life
  BY <1>3 DEF Runtimes
<1>6. rt' = u \/ rt' = [u EXCEPT !.life = life]
  BY <1>3, <1>4, <1>5 DEF Runtimes
<1>7. life \in {"running", "suspend_requested", "suspended"}
  BY <1>5 DEF Runtimes
<1> HIDE DEF u, life
<1>8. rt' \in Runtimes /\ rt'.phase = q.phase /\ rt'.gen = q.gen /\ rt'.end = q.end /\ rt'.out = q.out
      /\ rt'.edit = "none"
  <2>1. CASE rt' = u
    BY <1>5, <2>1
  <2>2. CASE rt' = [u EXCEPT !.life = life]
    BY <1>5, <1>7, <2>2 DEF Runtimes
  <2> QED  BY <1>6, <2>1, <2>2
<1>9. Core(rt', owner, native)
  BY <1>1, <1>2, <1>3, <1>8, AskingResume
<1> QED  BY <1>1, <1>8, <1>9 DEF PortInv, Types

-----------------------------------------------------------------------------
(* The theorems.                                                           *)

\* The owner has sent the init that opens its first exchange.
LEMMA InitPort ==
    ASSUME Init
    PROVE  PortInv
<1>1. rt \in Runtimes
  BY DEF Init, Runtimes
<1>2. native \in Helpers
  BY DEF Init, Helpers
<1>3. owner \in Owners
  <2> DEFINE c == [k |-> "init", n |-> 0]
  <2>1. owner.wire \in Seq(Commands) /\ owner.told \in Seq(Results) /\ owner.outbox \in Seq(Operations)
    <3>1. c \in Commands
      BY DEF Commands
    <3> HIDE DEF Commands, Results, Operations
    <3> QED  BY <3>1 DEF Init
  <2>2. owner.pending \in Paints \cup {None} /\ owner.control \in Awaiting \cup {None}
    BY DEF Init
  <2> QED  BY <2>1, <2>2, ZenonT(60) DEF Init, Owners
<1>4. world \in Worlds
  BY DEF Init, Worlds
<1>5. Due(owner) = <<"init">>
  <2> DEFINE s == [i \in DOMAIN owner.wire |-> owner.wire[i].k]
  <2>1. owner.wire = <<[k |-> "init", n |-> 0]>> /\ owner.outbox = <<>>
    BY DEF Init
  <2>2. DOMAIN s = {1} /\ s[1] = "init"
    BY <2>1
  <2>3. s = <<"init">>
    BY <2>1
  <2> HIDE DEF s
  <2>4. s \o <<>> = <<"init">>
    BY <2>3
  <2> QED  BY <2>1, <2>4 DEF Due, s
<1>6. Heard(native) = <<>>
  BY DEF Init, Heard
<1>7. /\ owner.phase = "initializing" /\ owner.control.k = "none" /\ owner.gen = 1 /\ ~owner.slot
      /\ native.st = "new"
      /\ rt.phase = "binding" /\ rt.end = "no" /\ rt.edit = "none" /\ rt.gen = 1 /\ rt.out = <<>>
      /\ rt.draw = 0 /\ ~rt.final
  BY DEF Init, None
<1>8. ~Closed(owner)
  BY DEF Init, Closed
<1> HIDE DEF Owners, Helpers, Runtimes
<1>9. Exchange(owner, native)
  <2>1. OneUp(Due(owner), Heard(native), native.st) /\ NoDown(Due(owner), Heard(native))
    BY <1>5, <1>6, <1>7 DEF OneUp, NoDown, Lacks, Once
  <2> QED  BY <1>7, <2>1 DEF Exchange, Talk
<1>10. Requests(rt, owner.phase, owner.gen) /\ Edits(rt, owner.phase, Due(owner), Heard(native), native.st)
  BY <1>7 DEF Requests, Edits, Asks
<1>11. Ended(rt, Closed(owner), Heard(native), native.st)
  BY <1>6, <1>7, <1>8 DEF Ended, Lacks
<1>12. Binding(rt, owner.slot, owner.gen) /\ Awaits(owner.control, owner.phase)
  BY <1>7 DEF Binding, Awaits
<1> QED  BY <1>1, <1>2, <1>3, <1>4, <1>9, <1>10, <1>11, <1>12 DEF PortInv, Types, Core

LEMMA SamePort ==
    ASSUME PortInv, UNCHANGED vars
    PROVE  PortInv'
<1>1. rt' = rt /\ owner' = owner /\ native' = native /\ world' = world
  BY DEF vars
<1> QED  BY <1>1 DEF PortInv, Types

LEMMA PortSteps ==
    ASSUME PortInv, [Next]_vars
    PROVE  PortInv'
<1>1. CASE OwnerStep
  <2>1. CASE OwnerDraw
    BY <2>1, OwnerDrawStep
  <2>2. CASE OwnerShutdown
    BY <2>2, OwnerShutdownStep
  <2>3. CASE OwnerSuspend
    BY <2>3, OwnerSuspendStep
  <2>4. CASE OwnerResume
    BY <2>4, OwnerResumeStep
  <2>5. CASE OwnerRedraw
    BY <2>5, OwnerRedrawStep
  <2>6. CASE OwnerMouse
    BY <2>6, OwnerMouseStep
  <2>7. CASE OwnerOrphan
    BY <2>7, OwnerOrphanStep
  <2>8. CASE OwnerPainted
    BY <2>8, OwnerPaintedStep
  <2>9. CASE OwnerInput
    BY <2>9, OwnerInputStep
  <2>10. CASE OwnerRestored
    BY <2>10, OwnerRestoredStep
  <2>11. CASE OwnerSuspended
    BY <2>11, OwnerSuspendedStep
  <2>12. CASE OwnerReady
    BY <2>12, OwnerReadyStep
  <2>13. CASE OwnerResumeNeeded
    BY <2>13, OwnerResumeNeededStep
  <2>14. CASE OwnerRefuses
    BY <2>14, OwnerRefusesStep
  <2>15. CASE OwnerPortExit
    BY <2>15, OwnerPortExitStep
  <2> QED  BY <1>1, <2>1, <2>2, <2>3, <2>4, <2>5, <2>6, <2>7, <2>8, <2>9, <2>10, <2>11, <2>12, <2>13, <2>14, <2>15
              DEF OwnerStep
<1>2. CASE OwnerTimer
  <2>1. CASE SoftDeadline
    BY <2>1, SoftDeadlineStep
  <2>2. CASE HardDeadline
    BY <2>2, HardDeadlineStep
  <2>3. CASE QueuedDeadline
    BY <2>3, QueuedDeadlineStep
  <2>4. CASE BusyRetry
    BY <2>4, BusyRetryStep
  <2> QED  BY <1>2, <2>1, <2>2, <2>3, <2>4 DEF OwnerTimer
<1>3. CASE NativeStep \/ NativeDies
  <2>1. CASE NativeCommand
    BY <2>1, NativeCommandStep
  <2>2. CASE NativeProbed
    BY <2>2, NativeProbedStep
  <2>3. CASE NativeDies \/ NativeReaped
    BY <2>3, NativeEndsStep
  <2> QED  BY <1>3, <2>1, <2>2, <2>3 DEF NativeStep
<1>4. CASE Person
  <2>1. CASE NativeInput
    BY <2>1, NativeInputStep
  <2>2. CASE NativeStop
    BY <2>2, NativeStopStep
  <2>3. CASE NativeContinue
    BY <2>3, NativeContinueStep
  <2>4. CASE Quit
    BY <2>4, QuitStep
  <2>5. CASE SettingsEdit \/ ComposerEdit
    BY <2>5, AskingStep
  <2>6. CASE EditorEnds
    BY <2>6, ReturningStep
  <2>7. CASE Preference
    BY <2>7, PreferenceStep
  <2> QED  BY <1>3, <1>4, <2>1, <2>2, <2>3, <2>4, <2>5, <2>6, <2>7 DEF Person
<1>5. CASE RuntimeTimer
  <2>1. CASE DrawTimeout
    BY <2>1, DrawTimeoutStep
  <2>2. CASE ShutdownTimeout
    BY <2>2, EndsStep
  <2>3. CASE EditTimeout
    BY <2>3, ReturningStep
  <2> QED  BY <1>5, <2>1, <2>2, <2>3 DEF RuntimeTimer
<1>6. CASE RuntimeStep
  <2>1. CASE Read
    BY <2>1, ReadStep
  <2>2. CASE TerminalDown
    BY <2>2, EndsStep
  <2> QED  BY <1>6, <2>1, <2>2 DEF RuntimeStep
<1>7. CASE Frame
  BY <1>7, FrameStep
<1>8. CASE BindingTimeout
  BY <1>8, EndsStep
<1>9. CASE Done \/ UNCHANGED vars
  BY <1>9, SamePort DEF Done
<1> QED  BY <1>1, <1>2, <1>3, <1>4, <1>5, <1>6, <1>7, <1>8, <1>9 DEF Next

\* The agreement of the runtime, the owner and the helper over what is on its way
\* between them: owner.ex, session_runtime.ex and session.rs keep it together.
THEOREM PortInvariant == Spec => []PortInv
<1>1. Init => PortInv
  BY InitPort
<1>2. PortInv /\ [Next]_vars => PortInv'
  BY PortSteps
<1> QED  BY <1>1, <1>2, PTL DEF Spec

\* While an external editor runs, the helper does not hold the terminal in raw
\* mode and reads no key of it (session_runtime.ex:508): the editor starts when
\* the helper is away, and nothing that could bring the helper back is on its way
\* to the owner, on the wire or already answered.
THEOREM PortEditorAlone == Spec => []EditorAlone
<1>1. PortInv => EditorAlone
  BY DEF PortInv, Core, Edits, EditorAlone
<1> QED  BY <1>1, PortInvariant, PTL

\* A session that ended because the terminal was restored, or because its owner
\* ended, leaves a terminal that is not raw (owner.ex:495): the word of it comes
\* from a helper that has exited, and none starts again.
THEOREM PortClosedCooked == Spec => []ClosedCooked
<1>1. PortInv => ClosedCooked
  BY DEF PortInv, Core, Ended, ClosedCooked, Raw
<1> QED  BY <1>1, PortInvariant, PTL

-----------------------------------------------------------------------------
(* The draws.  A draw that was asked for waits for the owner, is held by it  *)
(* (queued, or painted and not answered), or has an answer: in one of these  *)
(* places, and in none twice.                                                *)

Answers(o) == {i \in DOMAIN o.told : o.told[i].k = "draw_result"}
Told(o) == {o.told[i].draw : i \in Answers(o)}
Unanswered(o) == o.pending.k = "draw" /\ ~o.replied
Open(o) == {d \in Nat : (d # 0 /\ d = o.queued) \/ (Unanswered(o) /\ d = o.pending.draw)}
Holds(o) == Told(o) \cup Open(o)

ToldOnce(o) == \A i, j \in Answers(o) : o.told[i].draw = o.told[j].draw => i = j
Apart(o) == Unanswered(o) /\ o.queued # 0 => o.pending.draw # o.queued
Neat(o) == ToldOnce(o) /\ Told(o) \cap Open(o) = {} /\ Apart(o)

\* The owner answers or drops draws that it holds, or takes draw d too.
Settles(o, p) == Neat(o) => Neat(p) /\ Holds(p) \subseteq Holds(o)
Takes(o, p, d) == Neat(o) /\ d \notin Holds(o) => Neat(p) /\ Holds(p) \subseteq Holds(o) \cup {d}

\* The draws that the owner has not read, in the order they were asked for.
Wants(r) == {r.out[i].n : i \in Asks(r, "draw")}
Rising(r) == \A i, j \in Asks(r, "draw") : i < j => r.out[i].n < r.out[j].n

\* What the owner holds in its phases.
Idle(o) ==
    /\ o.phase # "running" => o.queued = 0
    /\ o.phase \in {"initializing", "suspended", "resuming"} => o.pending = None
    /\ o.phase = "initializing" => ~o.slot

Drawn(r, o) ==
    /\ Neat(o) /\ Rising(r) /\ Idle(o)
    /\ r.draw \in {0, r.asked}
    /\ Wants(r) \cup Holds(o) \subseteq 1 .. r.asked
    /\ \A w \in Wants(r), h \in Holds(o) : h < w
    /\ r.phase = "binding" => r.asked = 0 /\ ~o.slot
    /\ r.phase \in {"binding", "running"} => r.gen = o.gen /\ ~r.final

\* Without a stop by the shell, no other draw is under way than the one that
\* the runtime waits for.
Waited(r, o) ==
    r.phase = "running" =>
       /\ Wants(r) \cup Holds(o) \subseteq {r.draw}
       /\ o.phase \in {"suspended", "resuming"} => r.life = "suspended"
       /\ o.phase = "suspended" => \A i \in Asks(r, "draw"), j \in Asks(r, "resume") : i < j
       /\ o.phase = "resuming" => Asks(r, "draw") = {}
Awake(h) == h.st \notin {"stopped", "barrier"} /\ Lacks(Heard(h), {"resume_needed"})
NoStop == "stop" \notin world.scenario.may

DrawsInv == Drawn(rt, owner) /\ (NoStop => Waited(rt, owner) /\ Awake(native))

LEMMA SameTold ==
    ASSUME NEW o, NEW p, p.told = o.told
    PROVE  Told(p) = Told(o) /\ (ToldOnce(o) => ToldOnce(p))
BY DEF Told, Answers, ToldOnce

LEMMA MoreTold ==
    ASSUME NEW o \in Owners, NEW d \in Nat, NEW p, p.told = Append(o.told, [k |-> "draw_result", draw |-> d])
    PROVE  Told(p) = Told(o) \cup {d} /\ (ToldOnce(o) /\ d \notin Told(o) => ToldOnce(p))
<1> DEFINE x == [k |-> "draw_result", draw |-> d]
           n == Len(o.told) + 1
<1>1. o.told \in Seq(Results) /\ x \in Results /\ x.k = "draw_result" /\ x.draw = d
  BY DEF Owners, Results
<1> HIDE DEF x, Results, Owners
<1>2. DOMAIN p.told = 1 .. n /\ DOMAIN o.told = 1 .. Len(o.told) /\ Len(o.told) \in Nat
      /\ p.told[n] = x /\ \A i \in DOMAIN o.told : p.told[i] = o.told[i]
  BY <1>1, AppendParts DEF x
<1>3. \A i : i \in DOMAIN p.told <=> i \in DOMAIN o.told \/ i = n
  BY <1>2
<1>4. n \notin DOMAIN o.told
  BY <1>2
<1> HIDE DEF n
<1>5. \A i : i \in Answers(p) <=> i \in Answers(o) \/ i = n
  BY <1>1, <1>2, <1>3, <1>4 DEF Answers
<1>6. (\A i \in Answers(o) : p.told[i].draw = o.told[i].draw) /\ p.told[n].draw = d
  BY <1>1, <1>2 DEF Answers
<1>7. Told(p) = Told(o) \cup {d}
  BY <1>5, <1>6 DEF Told
<1>8. ASSUME ToldOnce(o), d \notin Told(o) PROVE ToldOnce(p)
  <2>1. \A i \in Answers(o) : o.told[i].draw # d
    BY <1>8 DEF Told
  <2> QED  BY <1>5, <1>6, <1>8, <2>1 DEF ToldOnce
<1> QED  BY <1>7, <1>8

LEMMA LessTold ==
    ASSUME NEW o \in Owners, o.told # <<>>, NEW p, p.told = Tail(o.told)
    PROVE  /\ Told(p) \subseteq Told(o) /\ (ToldOnce(o) => ToldOnce(p))
           /\ Head(o.told).k = "draw_result" =>
                Head(o.told).draw \in Told(o) /\ (ToldOnce(o) => Head(o.told).draw \notin Told(p))
<1>1. o.told \in Seq(Results)
  BY DEF Owners
<1>2. /\ \A i \in DOMAIN p.told : i \in Nat /\ i # 0 /\ i + 1 \in DOMAIN o.told /\ p.told[i] = o.told[i + 1]
      /\ 1 \in DOMAIN o.told /\ Head(o.told) = o.told[1]
  <2> HIDE DEF Results
  <2> QED  BY <1>1
<1> HIDE DEF Owners
<1>3. \A i \in Answers(p) : i \in Nat /\ i # 0 /\ i + 1 \in Answers(o) /\ p.told[i] = o.told[i + 1]
  BY <1>2 DEF Answers
<1>4. Told(p) \subseteq Told(o)
  BY <1>3 DEF Told
<1>5. ASSUME ToldOnce(o) PROVE ToldOnce(p)
  <2>1. ASSUME NEW i \in Answers(p), NEW j \in Answers(p), p.told[i].draw = p.told[j].draw PROVE i = j
    <3>1. i + 1 = j + 1
      <4>1. PICK a \in Answers(o), b \in Answers(o) : a = i + 1 /\ b = j + 1
        BY <1>3
      <4>2. o.told[a].draw = o.told[b].draw
        BY <1>3, <2>1, <4>1
      <4>3. a = b
        BY <1>5, <4>2 DEF ToldOnce
      <4> QED  BY <4>1, <4>3
    <3> QED  BY <1>3, <3>1
  <2> QED  BY <2>1 DEF ToldOnce
<1>6. ASSUME Head(o.told).k = "draw_result"
      PROVE  Head(o.told).draw \in Told(o) /\ (ToldOnce(o) => Head(o.told).draw \notin Told(p))
  <2>1. 1 \in Answers(o)
    BY <1>2, <1>6 DEF Answers
  <2>2. Head(o.told).draw \in Told(o)
    BY <1>2, <2>1 DEF Told
  <2>3. ASSUME ToldOnce(o), NEW i \in Answers(p), Head(o.told).draw = p.told[i].draw PROVE FALSE
    <3>1. i + 1 = 1
      BY <1>2, <1>3, <2>1, <2>3 DEF ToldOnce
    <3> QED  BY <1>3, <3>1
  <2> QED  BY <2>2, <2>3 DEF Told
<1> QED  BY <1>4, <1>5, <1>6

\* A draw that the owner held open is answered.
LEMMA Moved ==
    ASSUME NEW o \in Owners, NEW d \in Open(o), NEW p, p.told = Append(o.told, [k |-> "draw_result", draw |-> d]),
           Neat(o) => Open(p) \subseteq Open(o) \ {d}, Neat(o) => Apart(p)
    PROVE  Settles(o, p)
<1> SUFFICES ASSUME Neat(o) PROVE Neat(p) /\ Holds(p) \subseteq Holds(o)
  BY DEF Settles
<1>1. d \in Nat
  BY DEF Open
<1>2. Told(p) = Told(o) \cup {d} /\ (ToldOnce(o) /\ d \notin Told(o) => ToldOnce(p))
  BY <1>1, MoreTold
<1>3. d \notin Told(o) /\ ToldOnce(o) /\ Told(o) \cap Open(o) = {}
  BY DEF Neat
<1>4. Neat(p)
  BY <1>2, <1>3 DEF Neat
<1> QED  BY <1>2, <1>4 DEF Holds

\* The owner forgets draws that it held open, or none.
LEMMA Shrunk ==
    ASSUME NEW o, NEW p, p.told = o.told, Open(p) \subseteq Open(o), Neat(o) => Apart(p)
    PROVE  Settles(o, p)
<1>1. Told(p) = Told(o) /\ (ToldOnce(o) => ToldOnce(p))
  BY SameTold
<1> QED  BY <1>1 DEF Settles, Neat, Holds

LEMMA SameSettles ==
    ASSUME NEW o, NEW p, SameDraws(o, p)
    PROVE  Settles(o, p) /\ Open(p) = Open(o) /\ (Unanswered(p) <=> Unanswered(o)) /\ Holds(p) = Holds(o)
<1>1. Open(p) = Open(o) /\ (Unanswered(p) <=> Unanswered(o)) /\ (Apart(o) => Apart(p)) /\ p.told = o.told
  BY DEF SameDraws, Open, Unanswered, Apart
<1>2. Settles(o, p)
  BY <1>1, Shrunk DEF Neat
<1>3. Told(p) = Told(o)
  BY <1>1, SameTold
<1> QED  BY <1>1, <1>2, <1>3 DEF Holds

LEMMA SettlesThen ==
    ASSUME NEW o, NEW q, NEW p, Settles(o, q), Settles(q, p)
    PROVE  Settles(o, p)
BY DEF Settles

LEMMA SettlesTakes ==
    ASSUME NEW o, NEW q, NEW p, NEW d, Settles(o, q), Takes(q, p, d)
    PROVE  Takes(o, p, d)
BY DEF Settles, Takes

\* A draw more is open, or answered at once.
LEMMA Opened ==
    ASSUME NEW o, NEW d, NEW p, p.told = o.told, Open(p) \subseteq Open(o) \cup {d},
           Neat(o) /\ d \notin Holds(o) => Apart(p)
    PROVE  Takes(o, p, d)
<1> SUFFICES ASSUME Neat(o), d \notin Holds(o) PROVE Neat(p) /\ Holds(p) \subseteq Holds(o) \cup {d}
  BY DEF Takes
<1>1. Told(p) = Told(o) /\ (ToldOnce(o) => ToldOnce(p))
  BY SameTold
<1>2. d \notin Told(o)
  BY DEF Holds
<1>3. Neat(p)
  BY <1>1, <1>2 DEF Neat
<1> QED  BY <1>1, <1>3 DEF Holds

LEMMA Returned ==
    ASSUME NEW o \in Owners, NEW d \in Nat, NEW p, p.told = Append(o.told, [k |-> "draw_result", draw |-> d]),
           Open(p) = Open(o), Apart(o) => Apart(p)
    PROVE  Takes(o, p, d)
<1> SUFFICES ASSUME Neat(o), d \notin Holds(o) PROVE Neat(p) /\ Holds(p) \subseteq Holds(o) \cup {d}
  BY DEF Takes
<1>2. Told(p) = Told(o) \cup {d} /\ (ToldOnce(o) /\ d \notin Told(o) => ToldOnce(p))
  BY MoreTold
<1>3. d \notin Told(o) /\ d \notin Open(o)
  BY DEF Holds
<1>4. Neat(p)
  BY <1>2, <1>3 DEF Neat
<1> QED  BY <1>2, <1>4 DEF Holds

-----------------------------------------------------------------------------
(* What the owner's operations do to the draws.                            *)

LEMMA DropSettles ==
    ASSUME NEW o \in Owners, NEW p, p.pending = o.pending, p.replied = o.replied, p.queued = 0,
           p.told = IF o.queued = 0 THEN o.told ELSE Append(o.told, [k |-> "draw_result", draw |-> o.queued])
    PROVE  Settles(o, p)
<1>1. Unanswered(p) <=> Unanswered(o)
  BY DEF Unanswered
<1>2. o.queued \in Nat
  BY DEF Owners
<1> HIDE DEF Owners
<1>3. CASE o.queued = 0
  <2>1. Open(p) \subseteq Open(o) /\ (Apart(o) => Apart(p))
    BY <1>1, <1>3 DEF Open, Apart
  <2> QED  BY <1>3, <2>1, Shrunk DEF Neat
<1>4. CASE o.queued # 0
  <2>1. o.queued \in Open(o)
    BY <1>2, <1>4 DEF Open
  <2>2. Told(o) \cap Open(o) = {} /\ Apart(o) => Open(p) \subseteq Open(o) \ {o.queued}
    BY <1>1, <1>4 DEF Open, Apart
  <2>3. Neat(o) => Open(p) \subseteq Open(o) \ {o.queued}
    BY <2>2 DEF Neat
  <2>4. Apart(p)
    BY DEF Apart
  <2> QED  BY <1>4, <2>1, <2>3, <2>4, Moved
<1> QED  BY <1>3, <1>4

\* draw/1 behind a frame that is not confirmed: the draw takes the queue.
LEMMA QueuedTakes ==
    ASSUME NEW o \in Owners, NEW d \in Nat, NEW p, p = Queued(o, d)
    PROVE  Takes(o, p, d)
<1> DEFINE q == DropQueued(o)
<1>1. /\ q \in Owners /\ q.queued = 0 /\ q.pending = o.pending /\ q.replied = o.replied
      /\ q.told = IF o.queued = 0 THEN o.told ELSE Append(o.told, [k |-> "draw_result", draw |-> o.queued])
  <2> HIDE DEF Owners
  <2> QED  BY DropOwner
<1>2. p.told = q.told /\ p.queued = d /\ p.pending = q.pending /\ p.replied = q.replied
  <2> HIDE DEF Owners
  <2> QED  BY <1>1, QueuedOwner
<1> HIDE DEF q, Owners
<1>3. Settles(o, q)
  BY <1>1, DropSettles
<1>4. Unanswered(p) <=> Unanswered(q)
  BY <1>2 DEF Unanswered
<1>5. Open(p) \subseteq Open(q) \cup {d}
  BY <1>2, <1>4 DEF Open
<1>6. d \notin Holds(q) => Apart(p)
  <2>0. q.pending.draw \in Nat \/ ~Unanswered(q)
    <3>1. q.pending \in Paints \cup {None}
      BY <1>1 DEF Owners
    <3> QED  BY <3>1, NoneApart DEF Unanswered, Paints
  <2>1. Unanswered(q) => q.pending.draw \in Open(q)
    BY <2>0 DEF Open
  <2> QED  BY <1>2, <1>4, <2>1 DEF Holds, Apart
<1>7. Takes(q, p, d)
  BY <1>2, <1>5, <1>6, Opened
<1> QED  BY <1>3, <1>7, SettlesTakes

\* paint/4: the draw is painted, or answered at once.
LEMMA TurnedTakes ==
    ASSUME NEW o \in Owners, NEW d \in Nat, d # 0, ~Unanswered(o), NEW p, p.queued = o.queued, Turned(o, p, d)
    PROVE  Takes(o, p, d)
<1>1. CASE /\ p.told = Append(o.told, [k |-> "draw_result", draw |-> d])
           /\ p.pending = o.pending /\ p.replied = o.replied
  <2>1. Open(p) = Open(o) /\ (Apart(o) => Apart(p))
    BY <1>1 DEF Open, Apart, Unanswered
  <2> QED  BY <1>1, <2>1, Returned
<1>2. CASE /\ p.told = o.told /\ ~p.replied
           /\ p.pending = [k |-> "draw", n |-> o.seq + 1, draw |-> d]
  <2>1. Unanswered(p) /\ p.pending.draw = d
    BY <1>2 DEF Unanswered
  <2>2. o.queued \in Nat
    BY DEF Owners
  <2> HIDE DEF Owners
  <2>3. Open(p) \subseteq Open(o) \cup {d}
    BY <2>1 DEF Open
  <2>4. d \notin Holds(o) => Apart(p)
    BY <2>1, <2>2 DEF Holds, Apart, Open
  <2> QED  BY <1>2, <2>3, <2>4, Opened
<1> QED  BY <1>1, <1>2 DEF Turned

\* The frame that was painted or given up is answered, unless it was.
LEMMA AnswerSettles ==
    ASSUME NEW o \in Owners, o.pending.k = "draw", NEW p, ~Unanswered(p), p.queued = o.queued,
           p.told = Answer(o).told
    PROVE  Settles(o, p)
<1>1. /\ o.pending.draw \in Nat
      /\ p.told = IF o.replied THEN o.told ELSE Append(o.told, [k |-> "draw_result", draw |-> o.pending.draw])
  <2>1. PICK q : q = Answer(o)
    OBVIOUS
  <2> HIDE DEF Owners
  <2> QED  BY <2>1, AnswerOwner
<1>2. Apart(p) /\ Open(p) \subseteq Open(o)
  BY DEF Apart, Open
<1> HIDE DEF Owners
<1>3. CASE o.replied
  BY <1>1, <1>2, <1>3, Shrunk
<1>4. CASE ~o.replied
  <2>1. Unanswered(o)
    BY <1>4 DEF Unanswered
  <2>2. o.pending.draw \in Open(o)
    BY <1>1, <2>1 DEF Open
  <2>3. Apart(o) => Open(p) \subseteq Open(o) \ {o.pending.draw}
    BY <2>1 DEF Open, Apart
  <2>4. Neat(o) => Open(p) \subseteq Open(o) \ {o.pending.draw}
    BY <2>3 DEF Neat
  <2> QED  BY <1>1, <1>2, <1>4, <2>2, <2>4, Moved
<1> QED  BY <1>3, <1>4

\* The frames that wait are answered when the helper comes back.
LEMMA RecalledSettles ==
    ASSUME NEW o \in Owners, NEW p, p = Recalled(o)
    PROVE  Settles(o, p) /\ p.pending = None /\ p.queued = 0
<1> DEFINE w == Waiting(o)
           e == [w EXCEPT !.pending = None]
           q == DropQueued(w)
<1>1. w \in Owners /\ (o.pending # None => o.pending.k = "draw" /\ o.pending.draw \in Nat)
  <2>1. w \in Owners
    <3>1. PICK y : y = w
      OBVIOUS
    <3> HIDE DEF Owners
    <3> QED  BY <3>1, WaitingOwner
  <2>2. o.pending \in Paints \cup {None}
    BY DEF Owners
  <2> QED  BY <2>1, <2>2 DEF Paints
<1>2. /\ w.queued = o.queued /\ w.pending = o.pending /\ w.replied = o.replied
      /\ o.pending = None => w.told = o.told
      /\ o.pending # None => w.told = Answer(o).told
  <2>1. CASE o.pending # None /\ ~o.replied
    <3>1. w = Reply(o, o.pending.draw) /\ Answer(o) = Reply(o, o.pending.draw)
      BY <2>1 DEF Waiting, Answer
    <3>2. o.pending.draw \in Nat
      BY <1>1, <2>1
    <3> HIDE DEF w, Owners
    <3>3. /\ w.told = Append(o.told, [k |-> "draw_result", draw |-> o.pending.draw])
          /\ w.queued = o.queued /\ w.pending = o.pending /\ w.replied = o.replied
      BY <3>1, <3>2, ReplyOwner
    <3>4. w = Answer(o)
      BY <3>1
    <3> QED  BY <2>1, <3>3, <3>4
  <2>2. CASE ~(o.pending # None /\ ~o.replied)
    <3>1. w = o
      BY <2>2 DEF Waiting
    <3> QED  BY <2>2, <3>1 DEF Answer
  <2> QED  BY <2>1, <2>2
<1> HIDE DEF w
<1>3. e \in Owners /\ e.queued = w.queued /\ e.pending = None /\ e.told = w.told /\ e.replied = w.replied
  BY <1>1, ZenonT(60) DEF Owners
<1>4. /\ q \in Owners /\ q.queued = 0 /\ q.replied = w.replied
      /\ q.told = IF w.queued = 0 THEN w.told ELSE Append(w.told, [k |-> "draw_result", draw |-> w.queued])
  <2> HIDE DEF Owners
  <2> QED  BY <1>1, DropOwner
<1>5. p = [q EXCEPT !.pending = None, !.replied = FALSE, !.credit = 0, !.input = FALSE]
  BY DEF Recalled, w
<1> HIDE DEF q, e
<1>6. p.told = q.told /\ p.queued = 0 /\ p.pending = None
  BY <1>4, <1>5 DEF Owners
<1>7. ~Unanswered(e) /\ ~Unanswered(p)
  BY <1>3, <1>6, NoneApart DEF Unanswered
<1> HIDE DEF Owners
<1>8. Settles(o, e)
  <2>1. CASE o.pending = None
    <3>1. Open(e) \subseteq Open(o) /\ Apart(e)
      BY <1>2, <1>3, <1>7 DEF Open, Apart
    <3> QED  BY <1>2, <1>3, <2>1, <3>1, Shrunk
  <2>2. CASE o.pending # None
    BY <1>1, <1>2, <1>3, <1>7, <2>2, AnswerSettles
  <2> QED  BY <2>1, <2>2
<1>9. Settles(e, p)
  <2> DEFINE f == [e EXCEPT !.told = p.told, !.queued = 0]
  <2>1. CASE e.queued = 0
    <3>1. Open(p) \subseteq Open(e) /\ Apart(p) /\ p.told = e.told
      BY <1>3, <1>4, <1>6, <1>7, <2>1 DEF Open, Apart
    <3> QED  BY <3>1, Shrunk
  <2>2. CASE e.queued # 0
    <3>1. e.queued \in Open(e)
      <4>1. e.queued \in Nat
        BY <1>3 DEF Owners
      <4> QED  BY <2>2, <4>1 DEF Open
    <3>2. Open(p) = {} /\ Apart(p) /\ p.told = Append(e.told, [k |-> "draw_result", draw |-> e.queued])
      BY <1>3, <1>4, <1>6, <1>7, <2>2 DEF Open, Apart
    <3> QED  BY <1>3, <3>1, <3>2, Moved
  <2> QED  BY <2>1, <2>2
<1> QED  BY <1>6, <1>8, <1>9, SettlesThen

-----------------------------------------------------------------------------
(* What the runtime asks for.                                              *)

\* The owner has read a message of the runtime, or none.
Reads(r, s) == Listened(r, s) /\ s.life = r.life /\ s.asked = r.asked

\* What is told of a list that is there whole, or without its first message.
LEMMA ReadsWants ==
    ASSUME NEW r \in Runtimes, NEW s, s.out = r.out \/ (r.out # <<>> /\ s.out = Tail(r.out))
    PROVE  /\ Wants(s) \subseteq Wants(r) /\ (Rising(r) => Rising(s)) /\ (Asks(r, "draw") = {} => Asks(s, "draw") = {})
           /\ (\A i \in Asks(r, "draw"), j \in Asks(r, "resume") : i < j)
                => (\A i \in Asks(s, "draw"), j \in Asks(s, "resume") : i < j)
<1>1. CASE s.out = r.out
  <2>1. \A k : Asks(s, k) = Asks(r, k)
    BY <1>1 DEF Asks
  <2> QED  BY <1>1, <2>1 DEF Wants, Rising
<1>2. CASE r.out # <<>> /\ s.out = Tail(r.out)
  <2>1. \A k : \A i \in Asks(s, k) : i \in Nat /\ i + 1 \in Asks(r, k) /\ s.out[i] = r.out[i + 1]
    BY <1>2, AsksRest
  <2> HIDE DEF Runtimes
  <2>2. Wants(s) \subseteq Wants(r)
    BY <2>1 DEF Wants
  <2>3. ASSUME Rising(r) PROVE Rising(s)
    <3>1. ASSUME NEW i \in Asks(s, "draw"), NEW j \in Asks(s, "draw"), i < j PROVE s.out[i].n < s.out[j].n
      <4>1. PICK a \in Asks(r, "draw"), b \in Asks(r, "draw") : a = i + 1 /\ b = j + 1
        BY <2>1
      <4>3. i \in Nat /\ j \in Nat /\ s.out[i] = r.out[a] /\ s.out[j] = r.out[b]
        BY <2>1, <4>1
      <4>2. a < b /\ s.out[i] = r.out[a] /\ s.out[j] = r.out[b]
        BY <3>1, <4>1, <4>3
      <4> QED  BY <2>3, <4>2 DEF Rising
    <3> QED  BY <3>1 DEF Rising
  <2>4. ASSUME \A i \in Asks(r, "draw"), j \in Asks(r, "resume") : i < j,
               NEW i \in Asks(s, "draw"), NEW j \in Asks(s, "resume")
        PROVE  i < j
    <3>1. PICK a \in Asks(r, "draw"), b \in Asks(r, "resume") : a = i + 1 /\ b = j + 1
      BY <2>1
    <3>2. a < b /\ i \in Nat /\ j \in Nat
      BY <2>1, <2>4
    <3> QED  BY <3>1, <3>2
  <2> QED  BY <2>1, <2>2, <2>3, <2>4
<1> QED  BY <1>1, <1>2

\* The first draw is the lowest.
LEMMA FirstWanted ==
    ASSUME NEW r \in Runtimes, r.out # <<>>, Head(r.out).k = "draw", NEW s, s.out = Tail(r.out), Rising(r)
    PROVE  Head(r.out).n \in Wants(r) /\ \A w \in Wants(s) : Head(r.out).n < w
<1>1. r.out \in Seq(Wishes)
  BY DEF Runtimes
<1>2. 1 \in DOMAIN r.out /\ Head(r.out) = r.out[1] /\ \A i \in DOMAIN s.out : i \in Nat /\ i # 0
  <2> HIDE DEF Wishes
  <2> QED  BY <1>1
<1>3. 1 \in Asks(r, "draw")
  BY <1>2 DEF Asks
<1>4. \A i \in Asks(s, "draw") : i \in Nat /\ i + 1 \in Asks(r, "draw") /\ s.out[i] = r.out[i + 1]
  BY AsksRest
<1>5. ASSUME NEW i \in Asks(s, "draw") PROVE r.out[1].n < s.out[i].n
  <2>1. PICK a \in Asks(r, "draw") : a = i + 1
    BY <1>4
  <2>2. 1 < a /\ s.out[i] = r.out[a]
    BY <1>2, <1>4, <2>1 DEF Asks
  <2> QED  BY <1>3, <2>2 DEF Rising
<1> QED  BY <1>2, <1>3, <1>5 DEF Wants

\* One message more.
LEMMA MoreWants ==
    ASSUME NEW r \in Runtimes, NEW x \in Wishes, NEW t, t.out = Append(r.out, x)
    PROVE  /\ x.k # "draw" => Asks(t, "draw") = Asks(r, "draw") /\ Wants(t) = Wants(r) /\ (Rising(r) => Rising(t))
           /\ x.k # "draw" /\ (\A i \in Asks(r, "draw"), j \in Asks(r, "resume") : i < j)
                => (\A i \in Asks(t, "draw"), j \in Asks(t, "resume") : i < j)
           /\ x.k = "draw" => /\ Wants(t) = Wants(r) \cup {x.n}
                              /\ Rising(r) /\ (\A w \in Wants(r) : w < x.n) => Rising(t)
<1> DEFINE n == Len(r.out) + 1
<1>1. r.out \in Seq(Wishes)
  BY DEF Runtimes
<1>2. DOMAIN t.out = 1 .. n /\ DOMAIN r.out = 1 .. Len(r.out) /\ Len(r.out) \in Nat
      /\ t.out[n] = x /\ \A i \in DOMAIN r.out : t.out[i] = r.out[i]
  <2> HIDE DEF Wishes
  <2> QED  BY <1>1, AppendParts
<1>3. \A i : i \in DOMAIN t.out <=> i \in DOMAIN r.out \/ i = n
  BY <1>2
<1>4. n \notin DOMAIN r.out /\ \A i \in DOMAIN r.out : i < n /\ ~(n < i)
  BY <1>2
<1> HIDE DEF n, Runtimes, Wishes
<1>5. \A k, i : i \in Asks(t, k) <=> i \in Asks(r, k) \/ (i = n /\ x.k = k)
  BY <1>2, <1>3, <1>4 DEF Asks
<1>6. \A k : \A i \in Asks(r, k) : t.out[i] = r.out[i] /\ i < n /\ ~(n < i)
  BY <1>2, <1>4 DEF Asks
<1>7. CASE x.k # "draw"
  <2>1. Asks(t, "draw") = Asks(r, "draw")
    <3>1. \A i : i \in Asks(t, "draw") <=> i \in Asks(r, "draw")
      BY <1>5, <1>7
    <3> HIDE DEF Asks
    <3> QED  BY <3>1, Zenon
  <2>2. Wants(t) = Wants(r)
    BY <1>6, <2>1 DEF Wants
  <2>3. Rising(r) => Rising(t)
    BY <1>6, <2>1 DEF Rising
  <2>4. (\A i \in Asks(r, "draw"), j \in Asks(r, "resume") : i < j)
          => (\A i \in Asks(t, "draw"), j \in Asks(t, "resume") : i < j)
    BY <1>5, <1>6, <2>1
  <2> QED  BY <1>7, <2>1, <2>2, <2>3, <2>4
<1>8. CASE x.k = "draw"
  <2>1. \A i : i \in Asks(t, "draw") <=> i \in Asks(r, "draw") \/ i = n
    BY <1>5, <1>8
  <2>2. Wants(t) = Wants(r) \cup {x.n}
    BY <1>2, <1>6, <2>1 DEF Wants
  <2>3. ASSUME Rising(r), \A w \in Wants(r) : w < x.n PROVE Rising(t)
    <3>1. \A i \in Asks(r, "draw") : r.out[i].n < x.n
      BY <2>3 DEF Wants
    <3>2. ASSUME NEW i \in Asks(t, "draw"), NEW j \in Asks(t, "draw"), i < j PROVE t.out[i].n < t.out[j].n
      <4>1. i \in Asks(r, "draw")
        <5>1. CASE i = n /\ j = n
          BY <1>2, <3>2, <5>1 DEF n
        <5>2. CASE i = n /\ j \in Asks(r, "draw")
          BY <1>6, <3>2, <5>2
        <5> QED  BY <2>1, <5>1, <5>2
      <4>2. CASE j = n
        BY <1>2, <1>6, <3>1, <4>1, <4>2
      <4>3. CASE j \in Asks(r, "draw")
        BY <1>6, <2>3, <3>2, <4>1, <4>3 DEF Rising
      <4> QED  BY <2>1, <4>2, <4>3
    <3> QED  BY <3>2 DEF Rising
  <2> QED  BY <1>8, <2>2, <2>3
<1> QED  BY <1>7, <1>8

-----------------------------------------------------------------------------
(* Steps that keep the draws in order.                                     *)

\* The owner settles draws that it holds, and reads at most one message.
LEMMA QuietDraws ==
    ASSUME NEW r \in Runtimes, NEW o, Drawn(r, o), NEW s, Reads(r, s),
           NEW p, Settles(o, p), Idle(p), p.gen = o.gen, p.slot = o.slot
    PROVE  /\ Drawn(s, p)
           /\ Waited(r, o) /\ (p.phase = o.phase \/ p.phase \notin {"suspended", "resuming"}) => Waited(s, p)
<1>1. /\ s.phase = r.phase /\ s.gen = r.gen /\ s.draw = r.draw /\ s.final = r.final /\ s.life = r.life /\ s.asked = r.asked
      /\ s.out = r.out \/ (r.out # <<>> /\ s.out = Tail(r.out))
  BY DEF Reads, Listened
<1>2. /\ Wants(s) \subseteq Wants(r) /\ (Rising(r) => Rising(s)) /\ (Asks(r, "draw") = {} => Asks(s, "draw") = {})
      /\ (\A i \in Asks(r, "draw"), j \in Asks(r, "resume") : i < j)
           => (\A i \in Asks(s, "draw"), j \in Asks(s, "resume") : i < j)
  BY <1>1, ReadsWants
<1> HIDE DEF Runtimes
<1>3. Neat(p) /\ Holds(p) \subseteq Holds(o)
  BY DEF Drawn, Settles
<1>4. Drawn(s, p)
  BY <1>1, <1>2, <1>3 DEF Drawn
<1>5. ASSUME Waited(r, o), p.phase = o.phase \/ p.phase \notin {"suspended", "resuming"} PROVE Waited(s, p)
  BY <1>1, <1>2, <1>3, <1>5 DEF Waited
<1> QED  BY <1>4, <1>5

\* The owner takes the first draw that was asked for.
LEMMA TakenDraws ==
    ASSUME NEW r \in Runtimes, NEW o, Drawn(r, o), NEW s, Reads(r, s),
           r.out # <<>>, s.out = Tail(r.out), Head(r.out).k = "draw",
           NEW p, Takes(o, p, Head(r.out).n), Idle(p), p.gen = o.gen, p.slot = o.slot, p.phase = o.phase
    PROVE  Drawn(s, p) /\ (Waited(r, o) => Waited(s, p))
<1> DEFINE d == Head(r.out).n
<1>1. /\ s.phase = r.phase /\ s.gen = r.gen /\ s.draw = r.draw /\ s.final = r.final /\ s.life = r.life /\ s.asked = r.asked
  BY DEF Reads, Listened
<1>2. /\ Wants(s) \subseteq Wants(r) /\ (Rising(r) => Rising(s)) /\ (Asks(r, "draw") = {} => Asks(s, "draw") = {})
      /\ (\A i \in Asks(r, "draw"), j \in Asks(r, "resume") : i < j)
           => (\A i \in Asks(s, "draw"), j \in Asks(s, "resume") : i < j)
  BY ReadsWants
<1>0. Rising(r)
  BY DEF Drawn
<1>3. d \in Wants(r) /\ \A w \in Wants(s) : d < w
  BY <1>0, FirstWanted
<1>4. r.asked \in Nat
  BY DEF Runtimes
<1> HIDE DEF Runtimes, d
<1>5. \A h \in Holds(o) : h < d /\ h \in 1 .. r.asked
  BY <1>3 DEF Drawn
<1>6. d \notin Holds(o)
  BY <1>4, <1>5
<1>7. Neat(p) /\ Holds(p) \subseteq Holds(o) \cup {d}
  BY <1>6 DEF Drawn, Takes, d
<1>8. \A w \in Wants(s), h \in Holds(p) : h < w
  BY <1>2, <1>3, <1>7 DEF Drawn
<1>9. Wants(s) \cup Holds(p) \subseteq Wants(r) \cup Holds(o)
  BY <1>2, <1>3, <1>7
<1>10. Drawn(s, p)
  BY <1>0, <1>1, <1>2, <1>7, <1>8, <1>9 DEF Drawn
<1>11. Waited(r, o) => Waited(s, p)
  BY <1>1, <1>2, <1>9 DEF Waited
<1> QED  BY <1>10, <1>11

\* The runtime asks for no draw.
Plain(r, t) ==
    /\ t \in Runtimes /\ t.asked = r.asked /\ t.draw \in {r.draw, 0}
    /\ t.out = r.out \/ \E x \in Wishes : x.k # "draw" /\ t.out = Append(r.out, x)
    /\ t.phase \in {"binding", "running"} => t.phase = r.phase /\ t.gen = r.gen /\ t.final = r.final

LEMMA PlainDraws ==
    ASSUME NEW r \in Runtimes, NEW o, Drawn(r, o), NEW t, Plain(r, t),
           NEW p, Settles(o, p), Idle(p), p.gen = o.gen, p.slot = o.slot
    PROVE  /\ Drawn(t, p)
           /\ /\ Waited(r, o) /\ p.phase = o.phase /\ (r.life = "suspended" => t.life = "suspended")
              /\ t.phase = "running" => t.draw = r.draw \/ Wants(r) \cup Holds(p) \subseteq {t.draw}
              => Waited(t, p)
<1>1. /\ Wants(t) = Wants(r) /\ (Rising(r) => Rising(t)) /\ (Asks(r, "draw") = {} => Asks(t, "draw") = {})
      /\ (\A i \in Asks(r, "draw"), j \in Asks(r, "resume") : i < j)
           => (\A i \in Asks(t, "draw"), j \in Asks(t, "resume") : i < j)
  <2>1. CASE t.out = r.out
    <3>1. \A k : Asks(t, k) = Asks(r, k)
      BY <2>1 DEF Asks
    <3> QED  BY <2>1, <3>1 DEF Wants, Rising
  <2>2. CASE \E x \in Wishes : x.k # "draw" /\ t.out = Append(r.out, x)
    BY <2>2, MoreWants
  <2> QED  BY <2>1, <2>2 DEF Plain
<1> HIDE DEF Runtimes
<1>2. Neat(p) /\ Holds(p) \subseteq Holds(o)
  BY DEF Drawn, Settles
<1>3. Drawn(t, p)
  BY <1>1, <1>2 DEF Drawn, Plain
<1>4. ASSUME Waited(r, o), p.phase = o.phase, r.life = "suspended" => t.life = "suspended",
             t.phase = "running" => t.draw = r.draw \/ Wants(r) \cup Holds(p) \subseteq {t.draw}
      PROVE  Waited(t, p)
  <2> SUFFICES ASSUME t.phase = "running" PROVE Waited(t, p)
    BY DEF Waited
  <2>1. r.phase = "running"
    BY DEF Plain
  <2>2. Wants(t) \cup Holds(p) \subseteq {t.draw}
    BY <1>1, <1>2, <1>4, <2>1 DEF Waited
  <2> QED  BY <1>1, <1>4, <2>1, <2>2 DEF Waited
<1> QED  BY <1>3, <1>4

\* The runtime asks for the next draw.
Drew(r, t) ==
    /\ t \in Runtimes /\ t.asked = r.asked + 1 /\ t.draw = r.asked + 1
    /\ t.out = Append(r.out, [k |-> "draw", n |-> r.asked + 1])
    /\ t.phase # "binding"
    /\ t.phase = "running" => t.phase = r.phase /\ t.gen = r.gen /\ t.final = r.final

LEMMA DrewDraws ==
    ASSUME NEW r \in Runtimes, NEW o, Drawn(r, o), NEW t, Drew(r, t)
    PROVE  /\ Drawn(t, o)
           /\ Waited(r, o) /\ r.draw = 0 /\ o.phase \notin {"suspended", "resuming"} => Waited(t, o)
<1> DEFINE n == r.asked + 1
           x == [k |-> "draw", n |-> n]
<1>1. r.asked \in Nat /\ n \in Nat /\ x \in Wishes /\ x.k = "draw" /\ x.n = n
  BY DEF Runtimes, Wishes
<1>2. Wants(t) = Wants(r) \cup {n} /\ (Rising(r) /\ (\A w \in Wants(r) : w < n) => Rising(t))
  <2> HIDE DEF n, x
  <2>1. t.out = Append(r.out, x)
    BY DEF Drew, x, n
  <2> QED  BY <1>1, <2>1, MoreWants
<1> HIDE DEF Runtimes, Wishes
<1>3. Wants(r) \cup Holds(o) \subseteq 1 .. r.asked /\ Rising(r)
  BY DEF Drawn
<1>4. \A w \in Wants(r) \cup Holds(o) : w \in Nat /\ w < n /\ w \in 1 .. n /\ w # 0
  BY <1>1, <1>3
<1>5. Rising(t) /\ Wants(t) \cup Holds(o) \subseteq 1 .. n
  BY <1>1, <1>2, <1>3, <1>4
<1>6. \A w \in Wants(t), h \in Holds(o) : h < w
  BY <1>2, <1>4 DEF Drawn
<1>7. Drawn(t, o)
  BY <1>5, <1>6 DEF Drawn, Drew
<1>8. ASSUME Waited(r, o), r.draw = 0, o.phase \notin {"suspended", "resuming"}, t.phase = "running" PROVE Waited(t, o)
  <2>1. Wants(r) \cup Holds(o) \subseteq {0}
    BY <1>8 DEF Waited, Drew
  <2>2. Wants(t) \cup Holds(o) \subseteq {t.draw}
    BY <1>2, <1>4, <2>1 DEF Drew
  <2> QED  BY <1>8, <2>2 DEF Waited
<1> QED  BY <1>7, <1>8 DEF Waited

-----------------------------------------------------------------------------
(* The owner's steps.                                                      *)

Follows ==
    Drawn(rt', owner') /\ (Waited(rt, owner) /\ Awake(native) => Waited(rt', owner'))

LEMMA AskedReads ==
    ASSUME Types, NEW k, FromRuntime(k)
    PROVE  Reads(rt, rt')
<1>1. rt \in Runtimes /\ rt.out # <<>> /\ rt' = [rt EXCEPT !.out = Tail(@)]
  BY DEF Types, FromRuntime
<1>2. PICK s : s = rt'
  OBVIOUS
<1> HIDE DEF Runtimes
<1>3. Listened(rt, s) /\ s.life = rt.life /\ s.asked = rt.asked
  BY <1>1, <1>2, ListenedTail
<1> QED  BY <1>2, <1>3 DEF Reads

LEMMA StillReads ==
    ASSUME Types, rt' = rt
    PROVE  Reads(rt, rt')
<1>1. Listened(rt, rt')
  BY StillHere DEF Types
<1> QED  BY <1>1 DEF Reads

LEMMA SettledFollows ==
    ASSUME Types, Drawn(rt, owner), Reads(rt, rt'), Settles(owner, owner'), Idle(owner'),
           owner'.gen = owner.gen, owner'.slot = owner.slot,
           owner'.phase = owner.phase \/ owner'.phase \notin {"suspended", "resuming"}
    PROVE  Follows
<1>1. rt \in Runtimes
  BY DEF Types
<1> HIDE DEF Runtimes
<1>2. /\ Drawn(rt', owner')
      /\ Waited(rt, owner) /\ (owner'.phase = owner.phase \/ owner'.phase \notin {"suspended", "resuming"})
           => Waited(rt', owner')
  BY <1>1, QuietDraws
<1> QED  BY <1>2 DEF Follows

\* The same for a step that leaves the draws alone.
LEMMA SameFollows ==
    ASSUME Types, Drawn(rt, owner), Reads(rt, rt'), SameDraws(owner, owner'),
           owner'.gen = owner.gen, owner'.slot = owner.slot, owner'.phase = owner.phase
    PROVE  Follows
<1>1. Settles(owner, owner')
  BY SameSettles
<1>2. Idle(owner')
  BY DEF Drawn, Idle, SameDraws
<1> QED  BY <1>1, <1>2, SettledFollows

\* Or settles some first.
LEMMA TalkFollows ==
    ASSUME Types, Drawn(rt, owner), Reads(rt, rt'), NEW q, Settles(owner, q), Idle(q),
           q.gen = owner.gen, q.slot = owner.slot,
           q.phase = owner.phase \/ q.phase \notin {"suspended", "resuming"},
           NEW K, Talks(q, owner', K), SameDraws(q, owner')
    PROVE  Follows
<1>1. Settles(q, owner')
  BY SameSettles
<1>2. Settles(owner, owner')
  BY <1>1, SettlesThen
<1>3. owner'.gen = q.gen /\ owner'.slot = q.slot /\ owner'.phase = q.phase
  BY DEF Talks, SamePhase
<1>4. Idle(owner')
  BY <1>3 DEF Idle, SameDraws
<1> QED  BY <1>2, <1>3, <1>4, SettledFollows

LEMMA IgnoreFollows ==
    ASSUME Types, Drawn(rt, owner), NEW k, FromRuntime(k), Ignore
    PROVE  Follows
<1>1. Reads(rt, rt')
  BY AskedReads
<1> QED  BY <1>1, SameFollows DEF Ignore, SameDraws

LEMMA OwnerDrawFollows ==
    ASSUME Types, Drawn(rt, owner), OwnerDraw
    PROVE  Follows
<1>1. rt \in Runtimes /\ owner \in Owners
  BY DEF Types
<1>2. Reads(rt, rt') /\ FromRuntime("draw")
  BY AskedReads DEF OwnerDraw
<1>3. rt'.out = Tail(rt.out) /\ rt.out # <<>> /\ Head(rt.out).k = "draw" /\ Asked \in Nat /\ Asked = Head(rt.out).n
  BY <1>2, ListenedRuntime DEF Asked
<1>4. Asked # 0
  <2>1. PICK s : s = rt'
    OBVIOUS
  <2>2. Rising(rt)
    BY DEF Drawn
  <2> HIDE DEF Runtimes
  <2>3. Head(rt.out).n \in Wants(rt)
    BY <1>1, <1>3, <2>1, <2>2, FirstWanted
  <2>4. Head(rt.out).n \in 1 .. rt.asked
    BY <2>3 DEF Drawn
  <2>5. 0 \notin 1 .. rt.asked
    <3>1. rt.asked \in Nat
      BY <1>1 DEF Runtimes
    <3> QED  BY <3>1
  <2> QED  BY <1>3, <2>4, <2>5
<1> HIDE DEF Owners, Runtimes, Asked
<1>5. ASSUME owner.phase = "running", Takes(owner, owner', Asked), SamePhase(owner, owner') PROVE Follows
  <2>1. Idle(owner') /\ owner'.gen = owner.gen /\ owner'.slot = owner.slot /\ owner'.phase = owner.phase
    BY <1>5 DEF SamePhase, Idle
  <2>2. Takes(owner, owner', Head(rt.out).n)
    BY <1>3, <1>5
  <2>3. Drawn(rt', owner') /\ (Waited(rt, owner) => Waited(rt', owner'))
    BY <1>1, <1>2, <1>3, <2>1, <2>2, TakenDraws
  <2> QED  BY <2>3 DEF Follows
<1>6. CASE owner.phase = "running" /\ owner.pending = None /\ Painting(owner, Asked)
  <2>1. Talks(owner, owner', {"draw", "credit"}) /\ owner'.queued = owner.queued /\ Turned(owner, owner', Asked)
    BY <1>1, <1>3, <1>6, PaintingStep
  <2>2. ~Unanswered(owner)
    BY <1>6, NoneApart DEF Unanswered
  <2>3. Takes(owner, owner', Asked)
    BY <1>1, <1>3, <1>4, <2>1, <2>2, TurnedTakes
  <2> QED  BY <1>5, <1>6, <2>1, <2>3 DEF Talks
<1>7. CASE owner.phase = "running" /\ owner' = [DropQueued(owner) EXCEPT !.queued = Asked]
  <2>1. PICK p : p = owner'
    OBVIOUS
  <2>2. p = Queued(owner, Asked)
    BY <1>7, <2>1 DEF Queued
  <2>3. Takes(owner, p, Asked)
    BY <1>1, <1>3, <2>2, QueuedTakes
  <2>4. SamePhase(owner, p)
    BY <1>1, <1>3, <2>2, QueuedOwner
  <2> QED  BY <1>5, <1>7, <2>1, <2>3, <2>4
<1>8. CASE Ignore
  BY <1>2, <1>8, IgnoreFollows
<1> QED  BY <1>6, <1>7, <1>8 DEF OwnerDraw

LEMMA DropPhasedSettles ==
    ASSUME NEW o \in Owners, NEW phase \in {"suspending", "closing"},
           NEW timer \in {"suspend", "resume", "shutdown"}, NEW k \in {"shutdown", "suspend", "resume"},
           NEW p, p = Phased(DropQueued(o), phase, timer, k)
    PROVE  /\ p \in Owners /\ p.phase = phase /\ p.slot = o.slot /\ p.gen = o.gen
           /\ Settles(o, p) /\ Idle(p)
<1> DEFINE q == DropQueued(o)
<1>1. /\ q \in Owners /\ SamePhase(o, q) /\ q.queued = 0 /\ q.pending = o.pending /\ q.replied = o.replied
      /\ q.told = IF o.queued = 0 THEN o.told ELSE Append(o.told, [k |-> "draw_result", draw |-> o.queued])
  <2> HIDE DEF Owners
  <2> QED  BY DropOwner
<1> HIDE DEF Owners, q
<1>2. /\ p \in Owners /\ p.phase = phase /\ p.slot = q.slot /\ p.gen = q.gen
      /\ p.told = q.told /\ p.queued = q.queued /\ p.pending = q.pending /\ p.replied = q.replied
  BY <1>1, PhasedOwner DEF q
<1>3. Settles(o, p)
  BY <1>1, <1>2, DropSettles
<1>4. Idle(p)
  BY <1>1, <1>2 DEF Idle
<1> QED  BY <1>1, <1>2, <1>3, <1>4 DEF SamePhase

LEMMA OwnerShutdownFollows ==
    ASSUME Types, Drawn(rt, owner), OwnerShutdown
    PROVE  Follows
<1>1. owner \in Owners
  BY DEF Types
<1>2. Reads(rt, rt')
  BY AskedReads DEF OwnerShutdown
<1> DEFINE q == Phased(DropQueued(owner), "closing", "shutdown", "shutdown")
<1>3. /\ q \in Owners /\ q.phase = "closing" /\ q.slot = owner.slot /\ q.gen = owner.gen
      /\ Settles(owner, q) /\ Idle(q)
  BY <1>1, DropPhasedSettles
<1>4. Control(q, "shutdown")
  BY DEF OwnerShutdown, Phased
<1> HIDE DEF q
<1>5. Talks(q, owner', {"shutdown"}) /\ SameDraws(q, owner')
  <2>1. "shutdown" \in Operations
    BY DEF Operations
  <2> HIDE DEF Operations, Types
  <2> QED  BY <1>3, <1>4, <2>1, ControlStep
<1> QED  BY <1>2, <1>3, <1>5, TalkFollows

LEMMA OwnerSuspendFollows ==
    ASSUME Types, Drawn(rt, owner), OwnerSuspend
    PROVE  Follows
<1>1. owner \in Owners
  BY DEF Types
<1>2. Reads(rt, rt') /\ FromRuntime("suspend")
  BY AskedReads DEF OwnerSuspend
<1> DEFINE q == Phased(DropQueued(owner), "suspending", "suspend", "suspend")
<1>3. /\ q \in Owners /\ q.phase = "suspending" /\ q.slot = owner.slot /\ q.gen = owner.gen
      /\ Settles(owner, q) /\ Idle(q)
  BY <1>1, DropPhasedSettles
<1>4. Control(q, "suspend") \/ Ignore
  BY DEF OwnerSuspend, Phased
<1> HIDE DEF q
<1>5. CASE Control(q, "suspend")
  <2>1. "suspend" \in Operations
    BY DEF Operations
  <2> HIDE DEF Operations, Types
  <2>2. Talks(q, owner', {"suspend"}) /\ SameDraws(q, owner')
    BY <1>3, <1>5, <2>1, ControlStep
  <2> QED  BY <1>2, <1>3, <2>2, TalkFollows
<1> QED  BY <1>2, <1>4, <1>5, IgnoreFollows

LEMMA OwnerResumeFollows ==
    ASSUME Types, Drawn(rt, owner), OwnerResume
    PROVE  Follows
<1>1. owner \in Owners /\ rt \in Runtimes
  BY DEF Types
<1>2. Reads(rt, rt') /\ FromRuntime("resume")
  BY AskedReads DEF OwnerResume
<1>3. rt'.out = Tail(rt.out) /\ rt.out # <<>> /\ 1 \in Asks(rt, "resume")
  BY <1>2, ListenedRuntime
<1>4. CASE owner.phase = "suspended"
  <2> DEFINE q == Phased(owner, "resuming", "resume", "resume")
  <2>1. /\ q \in Owners /\ q.phase = "resuming" /\ q.slot = owner.slot /\ q.gen = owner.gen
        /\ q.told = owner.told /\ q.queued = owner.queued /\ q.pending = owner.pending /\ q.replied = owner.replied
    BY <1>1, PhasedOwner
  <2>2. Control(q, "resume")
    BY <1>4 DEF OwnerResume, Phased
  <2> HIDE DEF q
  <2>3. Talks(q, owner', {"resume"}) /\ SameDraws(q, owner')
    <3>1. "resume" \in Operations
      BY DEF Operations
    <3> HIDE DEF Operations, Types
    <3> QED  BY <2>1, <2>2, <3>1, ControlStep
  <2>4. SameDraws(owner, owner') /\ owner'.phase = "resuming" /\ owner'.slot = owner.slot /\ owner'.gen = owner.gen
    BY <2>1, <2>3 DEF SameDraws, Talks, SamePhase
  <2>5. Settles(owner, owner') /\ Holds(owner') = Holds(owner)
    BY <2>4, SameSettles
  <2>6. Idle(owner')
    BY <1>4, <2>4 DEF Drawn, Idle, SameDraws
  <2> HIDE DEF Runtimes, Owners
  <2>7. Drawn(rt', owner')
    BY <1>1, <1>2, <2>4, <2>5, <2>6, QuietDraws
  <2>8. ASSUME Waited(rt, owner), rt'.phase = "running" PROVE Waited(rt', owner')
    <3>1. rt.phase = "running" /\ rt'.draw = rt.draw /\ rt'.life = rt.life
      BY <1>2, <2>8 DEF Reads, Listened
    <3>2. Asks(rt, "draw") = {}
      <4>1. \A i \in Asks(rt, "draw") : i < 1
        BY <1>3, <1>4, <2>8, <3>1 DEF Waited
      <4>2. \A i \in Asks(rt, "draw") : i \in Nat /\ i # 0
        <5>1. rt.out \in Seq(Wishes)
          BY <1>1 DEF Runtimes
        <5> HIDE DEF Wishes
        <5> QED  BY <5>1 DEF Asks
      <4>3. \A i \in Asks(rt, "draw") : FALSE
        BY <4>1, <4>2
      <4> QED  BY <4>3
    <3>3. Wants(rt') \subseteq Wants(rt) /\ Asks(rt', "draw") = {}
      BY <1>1, <1>3, <3>2, ReadsWants
    <3> QED  BY <1>4, <2>4, <2>5, <2>8, <3>1, <3>3 DEF Waited
  <2> QED  BY <2>7, <2>8 DEF Follows, Waited
<1> QED  BY <1>2, <1>4, IgnoreFollows DEF OwnerResume

LEMMA OwnerRedrawFollows ==
    ASSUME Types, Drawn(rt, owner), OwnerRedraw
    PROVE  Follows
<1>1. owner \in Owners
  BY DEF Types
<1>2. Reads(rt, rt') /\ FromRuntime("redraw")
  BY AskedReads DEF OwnerRedraw
<1>3. CASE Control(owner, "redraw")
  <2>1. "redraw" \in Operations
    BY DEF Operations
  <2> HIDE DEF Operations, Types
  <2>2. Talks(owner, owner', {"redraw"}) /\ SameDraws(owner, owner')
    BY <1>1, <1>3, <2>1, ControlStep
  <2> QED  BY <1>2, <2>2, SameFollows DEF Talks, SamePhase
<1> QED  BY <1>2, <1>3, IgnoreFollows DEF OwnerRedraw

LEMMA OwnerMouseFollows ==
    ASSUME Types, Drawn(rt, owner), OwnerMouse
    PROVE  Follows
<1>1. owner \in Owners
  BY DEF Types
<1>2. Reads(rt, rt') /\ FromRuntime("mouse")
  BY AskedReads DEF OwnerMouse
<1>3. CASE Control(owner, "mouse")
  <2>1. "mouse" \in Operations
    BY DEF Operations
  <2> HIDE DEF Operations, Types
  <2>2. Talks(owner, owner', {"mouse"}) /\ SameDraws(owner, owner')
    BY <1>1, <1>3, <2>1, ControlStep
  <2> QED  BY <1>2, <2>2, SameFollows DEF Talks, SamePhase
<1>4. CASE \E b : owner' = [owner EXCEPT !.outbox = b]
  <2>1. SameDraws(owner, owner') /\ owner'.phase = owner.phase /\ owner'.gen = owner.gen /\ owner'.slot = owner.slot
    BY <1>1, <1>4 DEF Owners, SameDraws
  <2> QED  BY <1>2, <2>1, SameFollows
<1>5. CASE owner' = [owner EXCEPT !.outbox = RemoveAt(@, CHOOSE i \in DOMAIN @ : @[i] = "mouse")]
  BY <1>4, <1>5
<1> QED  BY <1>2, <1>3, <1>5, IgnoreFollows DEF OwnerMouse

LEMMA EndedSame ==
    ASSUME NEW o \in Owners, NEW why \in {"no", "initialization", "call", "error", "protocol", "unavailable", "timeout"},
           NEW p, p = Stopped(o, why) \/ p = [o EXCEPT !.down = TRUE]
    PROVE  SameDraws(o, p) /\ p.phase = o.phase /\ p.gen = o.gen /\ p.slot = o.slot
BY DEF Owners, Stopped, SameDraws

LEMMA StopsFollows ==
    ASSUME Types, Drawn(rt, owner),
           NEW why \in {"no", "initialization", "call", "error", "protocol", "unavailable", "timeout"}, Stops(why)
    PROVE  Follows
<1>1. owner \in Owners /\ owner' = Stopped(owner, why) /\ rt' = rt
  BY DEF Types, Stops, Stopped
<1>2. Reads(rt, rt')
  BY <1>1, StillReads
<1>3. PICK p : p = owner'
  OBVIOUS
<1> HIDE DEF Owners
<1>4. SameDraws(owner, p) /\ p.phase = owner.phase /\ p.gen = owner.gen /\ p.slot = owner.slot
  BY <1>1, <1>3, EndedSame
<1> QED  BY <1>2, <1>3, <1>4, SameFollows

LEMMA OwnerOrphanFollows ==
    ASSUME Types, Drawn(rt, owner), OwnerOrphan
    PROVE  Follows
<1>1. owner \in Owners /\ rt' = rt
  BY DEF Types, OwnerOrphan
<1>2. PICK p : p = owner'
  OBVIOUS
<1>3. PICK why \in {"no", "initialization"} : p = Stopped(owner, why) \/ p = [owner EXCEPT !.down = TRUE]
  BY <1>2 DEF OwnerOrphan, Stopped
<1>4. Reads(rt, rt')
  BY <1>1, StillReads
<1> HIDE DEF Owners
<1>5. SameDraws(owner, p) /\ p.phase = owner.phase /\ p.gen = owner.gen /\ p.slot = owner.slot
  BY <1>1, <1>3, EndedSame
<1> QED  BY <1>2, <1>4, <1>5, SameFollows

LEMMA OwnerPaintedFollows ==
    ASSUME Types, Drawn(rt, owner), OwnerPainted
    PROVE  Follows
<1>1. owner \in Owners /\ rt' = rt /\ owner.pending.k = "draw"
  BY DEF Types, OwnerPainted
<1>2. Reads(rt, rt')
  BY <1>1, StillReads
<1> DEFINE q == Painted(owner)
           e == [q EXCEPT !.queued = 0]
<1>3. /\ q \in Owners /\ SamePhase(owner, q) /\ q.told = Answer(owner).told /\ q.queued = owner.queued
      /\ q.pending = None /\ q.queued \in Nat
  <2>1. q \in Owners /\ SamePhase(owner, q)
    BY <1>1, PaintedOwner
  <2>2. q.told = Answer(owner).told /\ q.queued = owner.queued /\ q.pending = None
    BY <1>1, PaintedOwner
  <2>3. q.queued \in Nat
    BY <2>1 DEF Owners
  <2> QED  BY <2>1, <2>2, <2>3
<1>4. (q.phase = "running" /\ q.queued # 0 /\ Painting(e, q.queued)) \/ Granting(q)
  BY DEF OwnerPainted, Painted, Answer
<1> HIDE DEF q
<1>5. ~Unanswered(q)
  BY <1>3, NoneApart DEF Unanswered
<1>6. Settles(owner, q)
  BY <1>1, <1>3, <1>5, AnswerSettles
<1>7. Idle(q) /\ q.gen = owner.gen /\ q.slot = owner.slot /\ q.phase = owner.phase
  BY <1>3 DEF Idle, Drawn, SamePhase
<1>8. CASE Granting(q)
  <2>1. Talks(q, owner', {"credit"}) /\ SameDraws(q, owner')
    BY <1>3, <1>8, GrantingStep
  <2> QED  BY <1>2, <1>6, <1>7, <2>1, TalkFollows
<1>9. CASE q.phase = "running" /\ q.queued # 0 /\ Painting(e, q.queued)
  <2>1. e \in Owners /\ SamePhase(q, e) /\ e.told = q.told /\ e.queued = 0 /\ e.pending = q.pending /\ e.replied = q.replied
    BY <1>3, Unqueued
  <2> HIDE DEF e, Owners
  <2>2. Talks(e, owner', {"draw", "credit"}) /\ owner'.queued = e.queued /\ Turned(e, owner', q.queued)
    BY <1>3, <1>9, <2>1, PaintingStep
  <2>3. ~Unanswered(e)
    BY <1>5, <2>1 DEF Unanswered
  <2>4. Takes(e, owner', q.queued)
    BY <1>3, <1>9, <2>1, <2>2, <2>3, TurnedTakes
  <2>5. Settles(q, e) /\ q.queued \in Open(q) /\ Open(e) = {}
    <3>1. Open(e) = {} /\ Apart(e) /\ q.queued \in Open(q)
      BY <1>3, <1>9, <2>1, <2>3 DEF Open, Apart
    <3> QED  BY <2>1, <3>1, Shrunk
  <2>6. Told(e) = Told(q)
    BY <2>1, SameTold
  <2>7. Settles(q, owner')
    <3> SUFFICES ASSUME Neat(q) PROVE Neat(owner') /\ Holds(owner') \subseteq Holds(q)
      BY DEF Settles
    <3>1. Neat(e) /\ Holds(e) \subseteq Holds(q)
      BY <2>5 DEF Settles
    <3>2. q.queued \notin Holds(e) /\ q.queued \in Holds(q)
      BY <2>5, <2>6 DEF Neat, Holds
    <3> QED  BY <2>4, <3>1, <3>2 DEF Takes
  <2>8. Settles(owner, owner')
    BY <1>6, <2>7, SettlesThen
  <2>9. owner'.phase = "running" /\ owner'.gen = owner.gen /\ owner'.slot = owner.slot
    BY <1>7, <1>9, <2>1, <2>2 DEF Talks, SamePhase
  <2>10. Idle(owner')
    BY <2>9 DEF Idle
  <2> QED  BY <1>2, <2>8, <2>9, <2>10, SettledFollows
<1> QED  BY <1>4, <1>8, <1>9

LEMMA OwnerInputFollows ==
    ASSUME Types, Drawn(rt, owner), OwnerInput
    PROVE  Follows
<1>1. owner \in Owners /\ rt' = rt
  BY DEF Types, OwnerInput, Stops
<1>2. Reads(rt, rt')
  BY <1>1, StillReads
<1> DEFINE q == [owner EXCEPT !.credit = 0]
<1>3. q \in Owners
  BY <1>1, ZenonT(60) DEF Owners
<1>4. SameDraws(owner, q) /\ q.phase = owner.phase /\ q.gen = owner.gen /\ q.slot = owner.slot
  BY <1>1 DEF Owners, SameDraws
<1> HIDE DEF q
<1>5. CASE Stops("call")
  BY <1>5, StopsFollows
<1>6. CASE Granting(q)
  <2>1. Talks(q, owner', {"credit"}) /\ SameDraws(q, owner')
    BY <1>3, <1>6, GrantingStep
  <2> QED  BY <1>2, <1>4, <2>1, SameFollows DEF Talks, SamePhase, SameDraws
<1>7. CASE owner' = q
  BY <1>2, <1>4, <1>7, SameFollows
<1> QED  BY <1>5, <1>6, <1>7 DEF OwnerInput, q

\* A word that is no result leaves the answers alone.
LEMMA OtherTold ==
    ASSUME NEW o \in Owners, NEW p, p.told = Append(o.told, [k |-> "terminal_shutdown", draw |-> 0])
    PROVE  Told(p) = Told(o) /\ (ToldOnce(o) => ToldOnce(p))
<1> DEFINE x == [k |-> "terminal_shutdown", draw |-> 0]
           n == Len(o.told) + 1
<1>1. o.told \in Seq(Results) /\ x \in Results /\ x.k # "draw_result"
  BY DEF Owners, Results
<1> HIDE DEF x, Results, Owners
<1>2. DOMAIN p.told = 1 .. n /\ DOMAIN o.told = 1 .. Len(o.told) /\ Len(o.told) \in Nat
      /\ p.told[n] = x /\ \A i \in DOMAIN o.told : p.told[i] = o.told[i]
  BY <1>1, AppendParts DEF x
<1>3. \A i : i \in DOMAIN p.told <=> i \in DOMAIN o.told \/ i = n
  BY <1>2
<1>4. n \notin DOMAIN o.told
  BY <1>2
<1> HIDE DEF n
<1>5. \A i : i \in Answers(p) <=> i \in Answers(o)
  BY <1>1, <1>2, <1>3, <1>4 DEF Answers
<1>6. \A i \in Answers(o) : p.told[i].draw = o.told[i].draw
  BY <1>2 DEF Answers
<1> QED  BY <1>5, <1>6 DEF Told, ToldOnce

LEMMA OwnerRestoredFollows ==
    ASSUME PortInv, Drawn(rt, owner), OwnerRestored
    PROVE  Follows
<1>1. owner \in Owners /\ Types /\ rt' = rt /\ Awaits(owner.control, owner.phase) /\ owner.control.k = "shutdown"
  BY DEF PortInv, Types, Core, OwnerRestored
<1>2. Reads(rt, rt')
  BY <1>1, StillReads
<1>3. owner.phase = "closing" /\ owner.queued = 0
  BY <1>1 DEF Awaits, Drawn, Idle
<1> DEFINE x == [k |-> "terminal_shutdown", draw |-> 0]
<1>4. owner' = [owner EXCEPT !.told = Append(@, x), !.phase = "restored", !.control = None, !.pending = None,
                             !.credit = 0, !.timer = "exit"]
  BY DEF OwnerRestored
<1> HIDE DEF x
<1>5. /\ owner'.told = Append(owner.told, x) /\ owner'.phase = "restored" /\ owner'.pending = None
      /\ owner'.queued = owner.queued /\ owner'.gen = owner.gen /\ owner'.slot = owner.slot
  BY <1>1, <1>4 DEF Owners
<1> HIDE DEF Owners
<1>6. Open(owner') = {} /\ Apart(owner') /\ Idle(owner')
  <2>1. ~Unanswered(owner')
    BY <1>5, NoneApart DEF Unanswered
  <2> QED  BY <1>3, <1>5, <2>1 DEF Open, Apart, Idle
<1>7. Told(owner') = Told(owner) /\ (ToldOnce(owner) => ToldOnce(owner'))
  <2>1. PICK p : p = owner'
    OBVIOUS
  <2> QED  BY <1>1, <1>5, <2>1, OtherTold DEF x
<1>8. Settles(owner, owner')
  BY <1>6, <1>7 DEF Settles, Neat, Holds
<1> QED  BY <1>1, <1>2, <1>5, <1>6, <1>8, SettledFollows

LEMMA SuspendedRuntime ==
    ASSUME NEW r \in Runtimes, NEW n, NEW s, s = Suspended(r, n)
    PROVE  /\ Plain(r, s) /\ s.out = r.out /\ s.draw = r.draw /\ s.phase = r.phase
           /\ r.phase = "running" /\ r.gen = n => s.life = "suspended"
<1>1. CASE s = r
  <2>1. r.phase = "running" /\ r.gen = n => s.life = "suspended"
    BY DEF Suspended, Runtimes
  <2> QED  BY <1>1, <2>1 DEF Plain
<1>2. CASE s # r
  <2> DEFINE e == IF r.edit = "asked" THEN "editing" ELSE r.edit
  <2>1. s = [r EXCEPT !.life = "suspended", !.edit = e]
    BY <1>2 DEF Suspended, Runtimes
  <2>2. e \in {"none", "asked", "editing"}
    BY DEF Runtimes
  <2> HIDE DEF e
  <2>3. s \in Runtimes
    <3> HIDE DEF Wishes
    <3> QED  BY <2>1, <2>2 DEF Runtimes
  <2>4. /\ s.phase = r.phase /\ s.asked = r.asked /\ s.draw = r.draw /\ s.out = r.out /\ s.gen = r.gen
        /\ s.final = r.final /\ s.life = "suspended"
    BY <2>1 DEF Runtimes
  <2> QED  BY <2>3, <2>4 DEF Plain
<1> QED  BY <1>1, <1>2

LEMMA OwnerSuspendedFollows ==
    ASSUME PortInv, Drawn(rt, owner), OwnerSuspended
    PROVE  Follows
<1>1. /\ owner \in Owners /\ rt \in Runtimes /\ Types /\ Awaits(owner.control, owner.phase)
      /\ Requests(rt, owner.phase, owner.gen) /\ owner.control.k = "suspend"
  BY DEF PortInv, Types, Core, OwnerSuspended
<1>2. owner.phase = "suspending" /\ owner.queued = 0 /\ Asks(rt, "resume") = {}
  BY <1>1 DEF Awaits, Drawn, Idle, Requests
<1>3. CASE Stops("call")
  BY <1>1, <1>3, StopsFollows
<1>4. CASE /\ rt' = Suspended(rt, owner.gen)
           /\ owner' = [owner EXCEPT !.phase = "suspended", !.control = None, !.pending = None,
                                     !.replied = FALSE, !.credit = 0, !.timer = "none"]
  <2>1. /\ owner'.told = owner.told /\ owner'.phase = "suspended" /\ owner'.pending = None
        /\ owner'.queued = owner.queued /\ owner'.gen = owner.gen /\ owner'.slot = owner.slot
    BY <1>1, <1>4 DEF Owners
  <2>2. Open(owner') = {} /\ Apart(owner') /\ Idle(owner')
    <3>1. ~Unanswered(owner')
      BY <2>1, NoneApart DEF Unanswered
    <3> QED  BY <1>2, <2>1, <3>1 DEF Open, Apart, Idle
  <2>3. Settles(owner, owner')
    BY <2>1, <2>2, Shrunk
  <2>4. PICK s : s = rt'
    OBVIOUS
  <2>5. /\ Plain(rt, s) /\ s.out = rt.out /\ s.draw = rt.draw /\ s.phase = rt.phase
        /\ rt.phase = "running" /\ rt.gen = owner.gen => s.life = "suspended"
    BY <1>1, <1>4, <2>4, SuspendedRuntime
  <2> HIDE DEF Runtimes, Owners
  <2>6. Drawn(s, owner')
    BY <1>1, <2>1, <2>2, <2>3, <2>5, PlainDraws
  <2>7. ASSUME Waited(rt, owner), s.phase = "running" PROVE Waited(s, owner')
    <3>1. rt.phase = "running" /\ rt.gen = owner.gen
      BY <2>5, <2>7 DEF Drawn
    <3>2. \A k : Asks(s, k) = Asks(rt, k)
      BY <2>5 DEF Asks
    <3>3. Wants(s) = Wants(rt)
      BY <2>5, <3>2 DEF Wants
    <3>4. Holds(owner') \subseteq Holds(owner)
      BY <2>3 DEF Drawn, Settles
    <3> QED  BY <1>2, <2>1, <2>5, <2>7, <3>1, <3>2, <3>3, <3>4 DEF Waited
  <2> QED  BY <2>4, <2>6, <2>7 DEF Follows, Waited
<1> QED  BY <1>3, <1>4 DEF OwnerSuspended

LEMMA NoDraws ==
    ASSUME NEW r, r.asked = 0, NEW o, Drawn(r, o)
    PROVE  Wants(r) = {} /\ Holds(o) = {}
<1>1. 1 .. 0 = {}
  OBVIOUS
<1> QED  BY <1>1 DEF Drawn

\* {:ready, ...}: a runtime that waited for the terminal to come back has
\* nothing under way, and forgets its draw.
LEMMA ReadyDraws ==
    ASSUME NEW r \in Runtimes, NEW o \in Owners, Drawn(r, o), Binding(r, o.slot, o.gen),
           r.phase # "over", o.phase \in {"initializing", "resuming"}, o.told = <<>>,
           NEW n, n = IF o.slot THEN o.gen + 1 ELSE 1, NEW s, s = Registered(r, o, n),
           NEW p, p.told = o.told, p.phase = "running", p.pending = None, p.queued = o.queued, p.gen = n, p.slot = TRUE
    PROVE  Drawn(s, p) /\ (Waited(r, o) => Waited(s, p))
<1>1. o.gen \in Nat /\ r.gen \in Nat /\ r.asked \in Nat /\ n \in Nat
  BY DEF Owners, Runtimes
<1> HIDE DEF Owners
<1>2. o.queued = 0 /\ o.pending = None /\ (o.phase = "initializing" => ~o.slot)
  BY DEF Drawn, Idle
<1>3. Holds(p) = {} /\ Neat(p) /\ Idle(p)
  <2>1. ~Unanswered(p)
    BY NoneApart DEF Unanswered
  <2>2. Open(p) = {} /\ Told(p) = {} /\ ToldOnce(p) /\ Apart(p)
    BY <1>2, <2>1 DEF Open, Told, Answers, ToldOnce, Apart
  <2> QED  BY <2>2 DEF Holds, Neat, Idle
<1>4. CASE ~o.slot
  <2>1. r.phase = "binding" /\ r.asked = 0 /\ o.gen = 1 /\ n = 1
    BY <1>4 DEF Binding, Drawn
  <2>2. Wants(r) = {}
    BY <2>1, NoDraws
  <2>3. s = [r EXCEPT !.phase = "running"]
    BY <1>4 DEF Registered
  <2>4. s.out = r.out /\ s.asked = r.asked /\ s.draw = r.draw /\ s.gen = r.gen /\ s.final = r.final /\ s.phase = "running"
    BY <2>3 DEF Runtimes
  <2> HIDE DEF Runtimes
  <2>5. Wants(s) = {} /\ (Rising(r) => Rising(s))
    <3>1. \A k : Asks(s, k) = Asks(r, k)
      BY <2>4 DEF Asks
    <3>2. Wants(s) = Wants(r)
      BY <2>4, <3>1 DEF Wants
    <3>3. Rising(r) => Rising(s)
      BY <2>4, <3>1 DEF Rising
    <3> QED  BY <2>2, <3>2, <3>3
  <2>6. Drawn(s, p)
    BY <1>3, <2>1, <2>4, <2>5 DEF Drawn
  <2>7. Waited(s, p)
    BY <1>3, <2>5 DEF Waited
  <2> QED  BY <2>6, <2>7
<1>5. CASE o.slot /\ r.phase # "running"
  <2>1. r.phase \notin {"binding", "running"} /\ s = r
    BY <1>5 DEF Drawn, Registered, Resumed
  <2>2. Drawn(s, p)
    BY <1>3, <2>1 DEF Drawn
  <2> QED  BY <2>1, <2>2 DEF Waited
<1>6. CASE o.slot /\ r.phase = "running"
  <2>1. r.gen = o.gen /\ n = o.gen + 1 /\ ~r.final /\ ~(n <= r.gen)
    BY <1>1, <1>6 DEF Drawn
  <2>2. s = Resumed(r, n)
    BY <1>6 DEF Registered
  <2>3. s # r
    <3>1. s = [Tell(r, "resume", n) EXCEPT !.gen = n, !.life = "running", !.draw = 0]
      BY <1>6, <2>1, <2>2 DEF Resumed
    <3>2. s.gen = n
      BY <3>1 DEF Tell, Runtimes
    <3> QED  BY <1>1, <2>1, <3>2
  <2>4. /\ s \in Runtimes /\ s.phase = "running"
        /\ s.gen = n /\ s.final = r.final /\ s.draw = 0 /\ s.asked = r.asked
        /\ s.out = Append(r.out, [k |-> "resume", n |-> n])
    <3> HIDE DEF Runtimes
    <3> QED  BY <1>1, <2>2, <2>3, ResumedRuntime
  <2> DEFINE x == [k |-> "resume", n |-> n]
  <2>5. x \in Wishes /\ x.k # "draw"
    BY <1>1 DEF Wishes
  <2>6. Asks(s, "draw") = Asks(r, "draw") /\ Wants(s) = Wants(r) /\ (Rising(r) => Rising(s))
    <3>1. s.out = Append(r.out, x)
      BY <2>4
    <3> HIDE DEF x, Runtimes, Wishes
    <3> QED  BY <2>5, <3>1, MoreWants
  <2> HIDE DEF Runtimes
  <2>7. Drawn(s, p)
    BY <1>3, <2>1, <2>4, <2>6 DEF Drawn
  <2>8. ASSUME Waited(r, o) PROVE Waited(s, p)
    <3>1. Asks(r, "draw") = {}
      BY <1>2, <1>6, <2>8 DEF Waited
    <3>2. Wants(s) = {}
      BY <2>6, <3>1 DEF Wants
    <3> QED  BY <1>3, <3>2 DEF Waited
  <2> QED  BY <2>7, <2>8
<1> QED  BY <1>4, <1>5, <1>6

LEMMA OwnerReadyFollows ==
    ASSUME PortInv, Drawn(rt, owner), OwnerReady
    PROVE  Follows
<1>1. owner \in Owners /\ rt \in Runtimes /\ Types /\ Binding(rt, owner.slot, owner.gen)
  BY DEF PortInv, Types, Core
<1>2. CASE Stops("call")
  BY <1>1, <1>2, StopsFollows
<1> DEFINE gen == IF owner.slot THEN owner.gen + 1 ELSE 1
<1>3. CASE /\ rt' = (IF owner.slot THEN Resumed(rt, gen) ELSE [rt EXCEPT !.phase = "running"])
           /\ owner' = [owner EXCEPT !.slot = TRUE, !.gen = gen, !.phase = "running",
                                     !.pending = None, !.credit = 0, !.control = None,
                                     !.input = FALSE, !.timer = "none"]
           /\ rt.phase # "over"
  <2>1. owner.told = <<>> /\ owner.phase \in {"initializing", "resuming"} /\ rt.phase # "over"
    BY <1>3 DEF OwnerReady, Calls
  <2>2. PICK s : s = rt'
    OBVIOUS
  <2>3. PICK p : p = owner'
    OBVIOUS
  <2>4. PICK n : n = gen
    OBVIOUS
  <2>5. s = Registered(rt, owner, n)
    BY <1>3, <2>2, <2>4 DEF Registered
  <2>6. /\ p.told = owner.told /\ p.phase = "running" /\ p.pending = None /\ p.queued = owner.queued
        /\ p.gen = n /\ p.slot = TRUE
    <3> HIDE DEF gen
    <3> QED  BY <1>1, <1>3, <2>3, <2>4 DEF Owners
  <2>7. Drawn(s, p) /\ (Waited(rt, owner) => Waited(s, p))
    <3> HIDE DEF Owners, Runtimes
    <3> QED  BY <1>1, <2>1, <2>4, <2>5, <2>6, ReadyDraws
  <2> QED  BY <2>2, <2>3, <2>7 DEF Follows
<1> QED  BY <1>2, <1>3 DEF OwnerReady

LEMMA OwnerResumeNeededFollows ==
    ASSUME Types, Drawn(rt, owner), OwnerResumeNeeded
    PROVE  Follows
<1>1. owner \in Owners /\ rt \in Runtimes /\ native \in Helpers /\ rt' = rt
  BY DEF Types, OwnerResumeNeeded
<1>2. Reads(rt, rt')
  BY <1>1, StillReads
<1>3. native.out # <<>> /\ Head(native.out).k = "resume_needed" /\ native' = [native EXCEPT !.out = Tail(@)]
  BY DEF OwnerResumeNeeded, Record
<1>4. ~Awake(native)
  <2>1. Heard(native) # <<>> /\ Heard(native)[1] = "resume_needed"
    BY <1>3, RecordHelper
  <2>2. Heard(native) \in Seq(NoteKinds)
    BY <1>1, HeardType
  <2>3. 1 \in DOMAIN Heard(native)
    <3> HIDE DEF NoteKinds
    <3> QED  BY <2>1, <2>2
  <2> QED  BY <2>1, <2>3 DEF Awake, Lacks
<1> DEFINE w == Recalled(owner)
           q == Phased(w, "resuming", "resume", "resume")
<1>5. w \in Owners /\ w.slot = owner.slot /\ w.gen = owner.gen
  BY <1>1, RecalledOwner
<1>6. Settles(owner, w) /\ w.pending = None /\ w.queued = 0
  BY <1>1, RecalledSettles
<1>7. Control(q, "resume")
  <2> DEFINE x == DropQueued(Waiting(owner))
             v == [x EXCEPT !.phase = "resuming", !.pending = None, !.replied = FALSE, !.credit = 0, !.input = FALSE,
                            !.timer = "resume", !.control = [k |-> "resume", n |-> 0]]
  <2>1. Control(v, "resume")
    BY DEF OwnerResumeNeeded, Waiting
  <2>2. x \in Owners
    <3>1. PICK y : y = Waiting(owner)
      OBVIOUS
    <3>2. y \in Owners
      BY <1>1, <3>1, WaitingOwner
    <3> QED  BY <3>1, <3>2, DropOwner
  <2>3. q = [[x EXCEPT !.pending = None, !.replied = FALSE, !.credit = 0, !.input = FALSE]
               EXCEPT !.phase = "resuming", !.timer = "resume", !.control = [k |-> "resume", n |-> 0]]
    BY DEF Phased, Recalled
  <2> HIDE DEF x, q
  <2>4. q = v
    BY <2>2, <2>3 DEF Owners
  <2> QED  BY <2>1, <2>4
<1> HIDE DEF w
<1>8. /\ q \in Owners /\ q.phase = "resuming" /\ q.slot = w.slot /\ q.gen = w.gen
      /\ q.told = w.told /\ q.queued = w.queued /\ q.pending = w.pending /\ q.replied = w.replied
  BY <1>5, PhasedOwner
<1> HIDE DEF q
<1>9. Talks(q, owner', {"resume"}) /\ SameDraws(q, owner')
  <2>1. "resume" \in Operations
    BY DEF Operations
  <2> HIDE DEF Operations, Types
  <2> QED  BY <1>7, <1>8, <2>1, ControlStep
<1> HIDE DEF Owners, Runtimes
<1>10. SameDraws(w, owner') /\ owner'.phase = "resuming" /\ owner'.gen = owner.gen /\ owner'.slot = owner.slot
  BY <1>5, <1>8, <1>9 DEF Talks, SamePhase, SameDraws
<1>11. Settles(owner, owner')
  <2>1. Settles(w, owner')
    BY <1>10, SameSettles
  <2> QED  BY <1>6, <2>1, SettlesThen
<1>12. Idle(owner')
  BY <1>6, <1>10 DEF Idle, SameDraws
<1>13. Drawn(rt', owner')
  BY <1>1, <1>2, <1>10, <1>11, <1>12, QuietDraws
<1> QED  BY <1>4, <1>13 DEF Follows

LEMMA OwnerRefusesFollows ==
    ASSUME Types, Drawn(rt, owner), OwnerRefuses
    PROVE  Follows
<1>1. Stops("error") \/ Stops("protocol")
  BY DEF OwnerRefuses
<1> QED  BY <1>1, StopsFollows

LEMMA OwnerPortExitFollows ==
    ASSUME Types, Drawn(rt, owner), OwnerPortExit
    PROVE  Follows
<1>1. owner \in Owners
  BY DEF Types
<1>2. CASE Stops("unavailable")
  BY <1>2, StopsFollows
<1>3. CASE /\ owner.phase = "restored" /\ rt' = rt
           /\ owner' = [owner EXCEPT !.phase = "left", !.timer = "none", !.alive = ~owner.down]
  <2>1. SameDraws(owner, owner') /\ owner'.phase = "left" /\ owner'.gen = owner.gen /\ owner'.slot = owner.slot
    BY <1>1, <1>3 DEF Owners, SameDraws
  <2>2. Settles(owner, owner')
    BY <2>1, SameSettles
  <2>3. Idle(owner')
    BY <1>3, <2>1 DEF Drawn, Idle, SameDraws
  <2>4. Reads(rt, rt')
    BY <1>3, StillReads
  <2> QED  BY <2>1, <2>2, <2>3, <2>4, SettledFollows
<1> QED  BY <1>2, <1>3 DEF OwnerPortExit

LEMMA SoftDeadlineFollows ==
    ASSUME Types, Drawn(rt, owner), SoftDeadline
    PROVE  Follows
<1>1. owner \in Owners /\ rt' = rt /\ owner.pending # None
  BY DEF Types, SoftDeadline
<1>2. Reads(rt, rt')
  BY <1>1, StillReads
<1> DEFINE q == Answer(owner)
<1>3. owner.pending.k = "draw"
  <2>1. owner.pending \in Paints \cup {None}
    BY <1>1 DEF Owners
  <2>2. owner.pending \in Paints
    BY <1>1, <2>1
  <2> QED  BY <2>2 DEF Paints
<1>4. q \in Owners /\ SamePhase(owner, q) /\ q.queued = owner.queued /\ q.pending = owner.pending
  BY <1>1, <1>3, AnswerOwner
<1>5. owner' = [q EXCEPT !.replied = TRUE, !.timer = "draw_hard"]
  BY DEF SoftDeadline, Answer
<1> HIDE DEF q
<1>6. /\ owner'.phase = q.phase /\ owner'.slot = q.slot /\ owner'.gen = q.gen /\ owner'.told = q.told
      /\ owner'.queued = q.queued /\ owner'.pending = q.pending /\ owner'.replied
  BY <1>4, <1>5 DEF Owners
<1>7. Settles(owner, owner')
  <2>1. ~Unanswered(owner')
    BY <1>6 DEF Unanswered
  <2>2. owner'.told = Answer(owner).told /\ owner'.queued = owner.queued
    BY <1>4, <1>6 DEF q
  <2> QED  BY <1>1, <1>3, <2>1, <2>2, AnswerSettles
<1>8. owner'.phase = owner.phase /\ owner'.slot = owner.slot /\ owner'.gen = owner.gen
  BY <1>4, <1>6 DEF SamePhase
<1>9. Idle(owner')
  BY <1>4, <1>6, <1>8 DEF Drawn, Idle
<1> QED  BY <1>2, <1>7, <1>8, <1>9, SettledFollows

LEMMA HardDeadlineFollows ==
    ASSUME Types, Drawn(rt, owner), HardDeadline
    PROVE  Follows
BY StopsFollows DEF HardDeadline

LEMMA QueuedDeadlineFollows ==
    ASSUME Types, Drawn(rt, owner), QueuedDeadline
    PROVE  Follows
<1>1. owner \in Owners /\ rt' = rt
  BY DEF Types, QueuedDeadline
<1>2. Reads(rt, rt')
  BY <1>1, StillReads
<1>3. PICK p : p = owner' /\ p = DropQueued(owner)
  BY DEF QueuedDeadline
<1> HIDE DEF Owners
<1>4. /\ p \in Owners /\ SamePhase(owner, p) /\ p.queued = 0 /\ p.pending = owner.pending /\ p.replied = owner.replied
      /\ p.told = IF owner.queued = 0 THEN owner.told
                  ELSE Append(owner.told, [k |-> "draw_result", draw |-> owner.queued])
  BY <1>1, <1>3, DropOwner
<1>5. Settles(owner, p)
  BY <1>1, <1>4, DropSettles
<1>6. p.phase = owner.phase /\ p.slot = owner.slot /\ p.gen = owner.gen
  BY <1>4 DEF SamePhase
<1>7. Idle(p)
  BY <1>4, <1>6 DEF Drawn, Idle
<1> QED  BY <1>2, <1>3, <1>5, <1>6, <1>7, SettledFollows

LEMMA BusyRetryFollows ==
    ASSUME Types, Drawn(rt, owner), BusyRetry
    PROVE  Follows
<1>1. owner \in Owners /\ rt' = rt
  BY DEF Types, BusyRetry
<1>2. Reads(rt, rt')
  BY <1>1, StillReads
<1> DEFINE q == [owner EXCEPT !.retry = FALSE]
<1>3. q \in Owners
  BY <1>1, ZenonT(60) DEF Owners
<1>4. SameDraws(owner, q) /\ q.phase = owner.phase /\ q.gen = owner.gen /\ q.slot = owner.slot
  BY <1>1 DEF Owners, SameDraws
<1> HIDE DEF q
<1>5. Talks(q, owner', {"credit"}) /\ SameDraws(q, owner')
  <2>1. CASE Granting(q)
    BY <1>3, <2>1, GrantingStep
  <2>2. CASE \E n \in 0 .. Len(q.outbox) : owner' = Grant(Flush(q, n), TRUE) /\ Busy(n < Len(q.outbox))
    <3>1. PICK n \in 0 .. Len(q.outbox) : owner' = Grant(Flush(q, n), TRUE)
      BY <2>2
    <3> QED  BY <1>3, <3>1, RetryOwner
  <2> QED  BY <2>1, <2>2 DEF BusyRetry, q
<1> QED  BY <1>2, <1>4, <1>5, SameFollows DEF Talks, SamePhase, SameDraws

-----------------------------------------------------------------------------
(* The helper's steps.                                                     *)

LEMMA NativeFollows ==
    ASSUME Types, Drawn(rt, owner),
           NativeCommand \/ NativeProbed \/ NativeReaped \/ NativeDies \/ NativeInput \/ NativeStop \/ NativeContinue
    PROVE  Follows
<1>1. owner \in Owners /\ rt' = rt
  BY DEF Types, NativeCommand, NativeProbed, NativeReaped, NativeDies, NativeInput, NativeStop, NativeContinue
<1>2. Reads(rt, rt')
  BY <1>1, StillReads
<1>3. CASE owner' = owner
  BY <1>2, <1>3, SameFollows DEF SameDraws
<1>4. CASE owner.wire # <<>> /\ owner' = [owner EXCEPT !.wire = Tail(@)]
  <2>1. SamePhase(owner, owner') /\ SameDraws(owner, owner')
    BY <1>1, <1>4, DueRest
  <2> QED  BY <1>2, <2>1, SameFollows DEF SamePhase
<1> QED  BY <1>3, <1>4 DEF NativeCommand, NativeProbed, NativeReaped, NativeDies, NativeInput, NativeStop, NativeContinue

-----------------------------------------------------------------------------
(* The runtime's steps.                                                    *)

LEMMA SettlesItself ==
    ASSUME NEW o
    PROVE  Settles(o, o)
BY DEF Settles

LEMMA PlainFollows ==
    ASSUME Types, Drawn(rt, owner), Plain(rt, rt'), owner' = owner, rt.life = "suspended" => rt'.life = "suspended",
           rt'.phase = "running" => rt'.draw = rt.draw
    PROVE  Follows
<1>1. rt \in Runtimes /\ Settles(owner, owner) /\ Idle(owner)
  BY SettlesItself DEF Types, Drawn
<1>2. PICK t : t = rt'
  OBVIOUS
<1> HIDE DEF Runtimes
<1>3. CASE t.phase = "running"
  <2>1. Drawn(t, owner) /\ (Waited(rt, owner) => Waited(t, owner))
    BY <1>1, <1>2, <1>3, PlainDraws
  <2> QED  BY <1>2, <2>1 DEF Follows
<1>4. CASE t.phase # "running"
  <2>1. Drawn(t, owner)
    BY <1>1, <1>2, PlainDraws
  <2> QED  BY <1>2, <1>4, <2>1 DEF Follows, Waited
<1> QED  BY <1>3, <1>4

LEMMA DrawDrew ==
    ASSUME NEW r \in Runtimes, r.phase # "binding", NEW t, t = Draw(r)
    PROVE  Drew(r, t) /\ t.phase = r.phase /\ t.life = r.life
<1> DEFINE n == r.asked + 1
           q == Tell(r, "draw", n)
<1>1. n \in Nat
  BY DEF Runtimes
<1>2. /\ q \in Runtimes /\ q.phase = r.phase /\ q.life = r.life /\ q.gen = r.gen /\ q.asked = r.asked
      /\ q.final = r.final /\ q.out = Append(r.out, [k |-> "draw", n |-> n])
  <2> HIDE DEF n
  <2> QED  BY <1>1, TellRuntime
<1>3. t = [q EXCEPT !.asked = q.asked + 1, !.draw = n]
  BY <1>2 DEF Draw, Runtimes
<1> HIDE DEF q, n
<1>4. q.asked + 1 = n
  BY <1>2 DEF n
<1>5. t \in Runtimes
  BY <1>1, <1>2, <1>3, <1>4 DEF Runtimes
<1>6. /\ t.phase = q.phase /\ t.life = q.life /\ t.gen = q.gen /\ t.asked = n /\ t.draw = n /\ t.final = q.final /\ t.out = q.out
  BY <1>2, <1>3, <1>4 DEF Runtimes
<1> QED  BY <1>2, <1>5, <1>6 DEF Drew, n

LEMMA FinalDraws ==
    ASSUME NEW r \in Runtimes, NEW o, Drawn(r, o), r.phase # "binding", NEW t, t = FinalPaint(r)
    PROVE  Drawn(t, o) /\ t.phase = "closing"
<1>1. CASE r.draw # 0
  <2>1. t = [r EXCEPT !.phase = "closing", !.final = TRUE]
    BY <1>1 DEF FinalPaint
  <2>2. t \in Runtimes /\ t.phase = "closing" /\ t.asked = r.asked /\ t.draw = r.draw /\ t.out = r.out
    BY <2>1 DEF Runtimes
  <2>3. Plain(r, t)
    BY <2>2 DEF Plain
  <2> HIDE DEF Runtimes
  <2>4. Settles(o, o) /\ Idle(o)
    BY SettlesItself DEF Drawn
  <2> QED  BY <2>2, <2>3, <2>4, PlainDraws
<1>2. CASE r.draw = 0
  <2> DEFINE q == Draw(r)
  <2>1. Drew(r, q)
    BY DrawDrew
  <2>2. t = [q EXCEPT !.phase = "closing", !.final = FALSE]
    BY <1>2 DEF FinalPaint
  <2> HIDE DEF q
  <2>3. q \in Runtimes
    BY <2>1 DEF Drew
  <2>4. t \in Runtimes /\ t.phase = "closing" /\ t.asked = q.asked /\ t.draw = q.draw /\ t.out = q.out
    BY <2>2, <2>3 DEF Runtimes
  <2>5. Drew(r, t)
    BY <2>1, <2>4 DEF Drew
  <2> HIDE DEF Runtimes
  <2> QED  BY <2>4, <2>5, DrewDraws
<1> QED  BY <1>1, <1>2

LEMMA ShutPlain ==
    ASSUME NEW r \in Runtimes, NEW t, t = BeginShutdown(r)
    PROVE  Plain(r, t) /\ (t = r \/ t.phase = "closing")
<1>1. CASE r.shut
  BY <1>1 DEF BeginShutdown, Plain
<1>2. CASE ~r.shut
  <2> DEFINE q == Tell(r, "shutdown", 0)
             x == [k |-> "shutdown", n |-> 0]
  <2>1. q \in Runtimes /\ q.asked = r.asked /\ q.out = Append(r.out, x) /\ x \in Wishes
    BY TellRuntime
  <2>2. t = [q EXCEPT !.phase = "closing", !.shut = TRUE, !.draw = 0]
    BY <1>2 DEF BeginShutdown
  <2> DEFINE u == [q EXCEPT !.phase = "closing", !.shut = TRUE]
  <2> HIDE DEF q, x
  <2>5. u \in Runtimes /\ u.phase = "closing" /\ u.asked = q.asked /\ u.out = q.out
    <3> HIDE DEF Wishes
    <3> QED  BY <2>1 DEF Runtimes
  <2>6. t = [u EXCEPT !.draw = 0]
    BY <2>1, <2>2 DEF Runtimes
  <2> HIDE DEF u
  <2>3. t \in Runtimes /\ t.phase = "closing" /\ t.asked = q.asked /\ t.draw = 0 /\ t.out = q.out
    <3> HIDE DEF Runtimes
    <3> QED  BY <2>5, <2>6, UndrawnRuntime
  <2>4. x.k # "draw"
    BY DEF x
  <2> HIDE DEF Wishes
  <2> QED  BY <2>1, <2>3, <2>4 DEF Plain
<1> QED  BY <1>1, <1>2

LEMMA OverPlain ==
    ASSUME NEW r \in Runtimes, NEW how \in {"restored", "down", "timeout", "binding"}, NEW t, t = Over(r, how)
    PROVE  Plain(r, t) /\ t.phase = "over"
<1>1. t \in Runtimes /\ t.phase = "over" /\ t.asked = r.asked /\ t.draw = 0 /\ t.out = r.out
  BY DEF Over, Runtimes
<1> QED  BY <1>1 DEF Plain

LEMMA FrameFollows ==
    ASSUME Types, Drawn(rt, owner), Frame
    PROVE  Follows
<1>1. rt \in Runtimes /\ owner' = owner /\ rt.phase = "running" /\ rt.life = "running" /\ rt.draw = 0 /\ rt' = Draw(rt)
  BY DEF Types, Frame
<1>2. PICK t : t = rt'
  OBVIOUS
<1> HIDE DEF Runtimes
<1>3. Drew(rt, t)
  BY <1>1, <1>2, DrawDrew
<1>4. Drawn(t, owner) /\ (Waited(rt, owner) /\ owner.phase \notin {"suspended", "resuming"} => Waited(t, owner))
  BY <1>1, <1>3, DrewDraws
<1>5. Waited(rt, owner) => owner.phase \notin {"suspended", "resuming"}
  BY <1>1 DEF Waited
<1> QED  BY <1>1, <1>2, <1>4, <1>5 DEF Follows

\* A result that was read is on its way no more.
LEMMA ReadOpen ==
    ASSUME NEW o \in Owners, Neat(o), Idle(o), o.told # <<>>, NEW p, p = [o EXCEPT !.told = Tail(@)]
    PROVE  /\ Settles(o, p) /\ Idle(p) /\ p.phase = o.phase /\ p.gen = o.gen /\ p.slot = o.slot
           /\ Head(o.told).k = "draw_result" =>
                Head(o.told).draw \in Holds(o) /\ Head(o.told).draw \notin Holds(p)
<1>1. /\ p.told = Tail(o.told) /\ p.phase = o.phase /\ p.gen = o.gen /\ p.slot = o.slot
      /\ p.queued = o.queued /\ p.pending = o.pending /\ p.replied = o.replied
  BY DEF Owners
<1> HIDE DEF Owners
<1>2. /\ Told(p) \subseteq Told(o) /\ (ToldOnce(o) => ToldOnce(p))
      /\ Head(o.told).k = "draw_result" =>
           Head(o.told).draw \in Told(o) /\ (ToldOnce(o) => Head(o.told).draw \notin Told(p))
  BY <1>1, LessTold
<1>3. Open(p) = Open(o) /\ (Unanswered(p) <=> Unanswered(o))
  BY <1>1 DEF Open, Unanswered
<1>4. Idle(p)
  BY <1>1 DEF Idle
<1>5. Settles(o, p)
  BY <1>1, <1>2, <1>3 DEF Settles, Neat, Holds, Apart
<1>6. ASSUME Head(o.told).k = "draw_result"
      PROVE  Head(o.told).draw \in Holds(o) /\ Head(o.told).draw \notin Holds(p)
  <2>1. Head(o.told).draw \in Told(o) /\ Head(o.told).draw \notin Told(p)
    BY <1>2, <1>6 DEF Neat
  <2> QED  BY <1>3, <2>1 DEF Neat, Holds
<1> QED  BY <1>1, <1>4, <1>5, <1>6

LEMMA ReadFollows ==
    ASSUME Types, Drawn(rt, owner), Read
    PROVE  Follows
<1>1. rt \in Runtimes /\ owner \in Owners /\ owner.told # <<>> /\ owner' = [owner EXCEPT !.told = Tail(@)]
      /\ Neat(owner) /\ Idle(owner)
  BY DEF Types, Read, Drawn
<1> DEFINE d == Head(owner.told).draw
           kind == Head(owner.told).k
<1>2. PICK p : p = owner'
  OBVIOUS
<1>3. PICK t : t = rt'
  OBVIOUS
<1>4. /\ Settles(owner, p) /\ Idle(p) /\ p.phase = owner.phase /\ p.gen = owner.gen /\ p.slot = owner.slot
      /\ kind = "draw_result" => d \in Holds(owner) /\ d \notin Holds(p)
  BY <1>1, <1>2, ReadOpen
<1>5. \/ kind = "draw_result" /\ t = SettleDraw(rt, d)
      \/ t = Over(rt, "restored") \/ t = rt
  BY <1>3 DEF Read
<1> HIDE DEF d, kind, Owners
<1>6. ASSUME Plain(rt, t), t.phase = "running" => t = rt PROVE Follows
  <2> HIDE DEF Runtimes
  <2>1. CASE t = rt
    <3>1. Drawn(t, p) /\ (Waited(rt, owner) => Waited(t, p))
      BY <1>1, <1>4, <1>6, <2>1, PlainDraws
    <3> QED  BY <1>2, <1>3, <3>1 DEF Follows
  <2>2. CASE t.phase # "running"
    <3>1. Drawn(t, p)
      BY <1>1, <1>4, <1>6, PlainDraws
    <3> QED  BY <1>2, <1>3, <2>2, <3>1 DEF Follows, Waited
  <2> QED  BY <1>6, <2>1, <2>2
<1>7. CASE t = Over(rt, "restored")
  <2>1. Plain(rt, t) /\ t.phase = "over"
    BY <1>1, <1>7, OverPlain
  <2> QED  BY <1>6, <2>1
<1>8. CASE t = rt
  BY <1>1, <1>6, <1>8 DEF Plain
<1>9. CASE kind = "draw_result" /\ t = SettleDraw(rt, d) /\ rt.draw = d
  <2> DEFINE next == [rt EXCEPT !.draw = 0]
  <2>1. /\ next \in Runtimes /\ next.phase = rt.phase /\ next.gen = rt.gen /\ next.out = rt.out
        /\ next.final = rt.final /\ next.draw = 0 /\ next.asked = rt.asked /\ next.life = rt.life
    BY <1>1, UndrawnRuntime
  <2>2. t = IF rt.final THEN FinalPaint(next) ELSE IF rt.phase = "closing" THEN BeginShutdown(next) ELSE next
    BY <1>9 DEF SettleDraw
  <2> HIDE DEF next
  <2>3. Plain(rt, next)
    BY <2>1 DEF Plain
  <2>4. CASE rt.final
    <3>1. rt.phase \notin {"binding", "running"}
      BY <2>4 DEF Drawn
    <3> HIDE DEF Runtimes
    <3>2. Drawn(next, p)
      BY <1>1, <1>4, <2>3, PlainDraws
    <3>3. Drawn(t, p) /\ t.phase = "closing"
      BY <2>1, <2>2, <2>4, <3>1, <3>2, FinalDraws
    <3> QED  BY <1>2, <1>3, <3>3 DEF Follows, Waited
  <2>5. CASE ~rt.final /\ rt.phase = "closing"
    <3>1. Plain(next, t) /\ (t = next \/ t.phase = "closing")
      BY <2>1, <2>2, <2>5, ShutPlain
    <3> HIDE DEF Runtimes
    <3>2. Drawn(next, p)
      BY <1>1, <1>4, <2>3, PlainDraws
    <3>3. Drawn(t, p)
      BY <1>4, <2>1, <3>1, <3>2, SettlesItself, PlainDraws
    <3>4. t.phase = "closing"
      BY <2>1, <2>5, <3>1
    <3> QED  BY <1>2, <1>3, <3>3, <3>4 DEF Follows, Waited
  <2>6. CASE ~rt.final /\ rt.phase # "closing"
    <3> HIDE DEF Runtimes
    <3>1. t = next
      BY <2>2, <2>6
    <3>2. ASSUME Waited(rt, owner), rt.phase = "running" PROVE Wants(rt) \cup Holds(p) \subseteq {0}
      <4>1. Wants(rt) \cup Holds(owner) \subseteq {d} /\ Holds(p) \subseteq Holds(owner)
        BY <1>1, <1>4, <1>9, <3>2 DEF Waited, Settles
      <4>2. Holds(p) = {}
        BY <1>4, <1>9, <4>1
      <4>3. d \in 1 .. rt.asked /\ \A w \in Wants(rt) : d < w
        BY <1>4, <1>9 DEF Drawn
      <4>4. rt.asked \in Nat
        BY <1>1 DEF Runtimes
      <4>5. ~(d < d)
        BY <4>3, <4>4
      <4>6. Wants(rt) = {}
        BY <4>1, <4>3, <4>5
      <4> QED  BY <4>2, <4>6
    <3>3. Drawn(next, p)
      BY <1>1, <1>4, <2>3, PlainDraws
    <3>4. ASSUME Waited(rt, owner), rt.phase = "running" PROVE Waited(next, p)
      <4>1. Wants(rt) \cup Holds(p) \subseteq {next.draw}
        BY <2>1, <3>2, <3>4
      <4> QED  BY <1>1, <1>4, <2>1, <2>3, <3>4, <4>1, PlainDraws
    <3>5. rt.phase # "running" => Waited(next, p)
      BY <2>1 DEF Waited
    <3> QED  BY <1>2, <1>3, <3>1, <3>3, <3>4, <3>5 DEF Follows
  <2> QED  BY <2>4, <2>5, <2>6
<1>10. CASE kind = "draw_result" /\ t = SettleDraw(rt, d) /\ rt.draw # d
  <2>1. t = rt
    BY <1>10 DEF SettleDraw
  <2> QED  BY <1>8, <2>1
<1> QED  BY <1>5, <1>7, <1>8, <1>9, <1>10

LEMMA QuitFollows ==
    ASSUME Types, Drawn(rt, owner), Quit
    PROVE  Follows
<1>1. rt \in Runtimes /\ owner' = owner /\ rt.phase = "running" /\ rt' = FinalPaint(rt)
  BY DEF Types, Quit
<1>2. PICK t : t = rt'
  OBVIOUS
<1> HIDE DEF Runtimes
<1>3. Drawn(t, owner) /\ t.phase = "closing"
  BY <1>1, <1>2, FinalDraws
<1> QED  BY <1>1, <1>2, <1>3 DEF Follows, Waited

LEMMA DrawTimeoutFollows ==
    ASSUME Types, Drawn(rt, owner), DrawTimeout
    PROVE  Follows
<1>1. rt \in Runtimes /\ owner' = owner /\ rt.draw # 0
  BY DEF Types, DrawTimeout
<1>2. rt.phase # "binding"
  BY <1>1 DEF Drawn
<1>3. PICK t : t = rt'
  OBVIOUS
<1>4. CASE t = BeginShutdown(rt)
  <2>1. Plain(rt, t) /\ (t = rt \/ t.phase = "closing")
    BY <1>1, <1>4, ShutPlain
  <2> HIDE DEF Runtimes
  <2>2. CASE t = rt
    BY <1>1, <1>3, <2>1, <2>2, PlainFollows
  <2>3. CASE t.phase = "closing"
    <3>1. Drawn(t, owner)
      BY <1>1, <2>1, SettlesItself, PlainDraws DEF Drawn
    <3> QED  BY <1>1, <1>3, <2>3, <3>1 DEF Follows, Waited
  <2> QED  BY <2>1, <2>2, <2>3
<1>5. CASE t = FinalPaint([rt EXCEPT !.draw = 0])
  <2> DEFINE next == [rt EXCEPT !.draw = 0]
  <2>1. /\ next \in Runtimes /\ next.phase = rt.phase /\ next.gen = rt.gen /\ next.out = rt.out
        /\ next.final = rt.final /\ next.draw = 0 /\ next.asked = rt.asked
    BY <1>1, UndrawnRuntime
  <2>2. t = FinalPaint(next)
    BY <1>5
  <2> HIDE DEF next
  <2>3. Plain(rt, next)
    BY <2>1 DEF Plain
  <2> HIDE DEF Runtimes
  <2>4. Idle(owner)
    BY DEF Drawn
  <2>5. Drawn(next, owner)
    BY <1>1, <2>3, <2>4, SettlesItself, PlainDraws
  <2>6. Drawn(t, owner) /\ t.phase = "closing"
    BY <1>2, <2>1, <2>2, <2>5, FinalDraws
  <2> QED  BY <1>1, <1>3, <2>6 DEF Follows, Waited
<1> QED  BY <1>3, <1>4, <1>5 DEF DrawTimeout

LEMMA EndsFollows ==
    ASSUME Types, Drawn(rt, owner), ShutdownTimeout \/ TerminalDown \/ BindingTimeout
    PROVE  Follows
<1>1. rt \in Runtimes /\ owner' = owner
  BY DEF Types, ShutdownTimeout, TerminalDown, BindingTimeout
<1>2. PICK t : t = rt'
  OBVIOUS
<1>3. PICK how \in {"down", "timeout", "binding"} : t = Over(rt, how)
  BY <1>2 DEF ShutdownTimeout, TerminalDown, BindingTimeout
<1>4. Plain(rt, t) /\ t.phase = "over"
  BY <1>1, <1>3, OverPlain
<1> HIDE DEF Runtimes
<1>5. Drawn(t, owner)
  BY <1>1, <1>4, SettlesItself, PlainDraws DEF Drawn
<1> QED  BY <1>1, <1>2, <1>4, <1>5 DEF Follows, Waited

\* The runtime asks for something else than a draw.
Wish(r, k, n, edit, life) == [Tell(r, k, n) EXCEPT !.edit = edit, !.life = life]

LEMMA WishPlain ==
    ASSUME NEW r \in Runtimes, NEW k \in {"suspend", "resume", "redraw", "mouse"}, NEW n \in Nat,
           NEW edit \in {"none", "asked", "editing"}, NEW life \in {"running", "suspend_requested", "suspended"},
           NEW t, t = Wish(r, k, n, edit, life)
    PROVE  Plain(r, t) /\ t.life = life /\ t.draw = r.draw
<1> DEFINE x == [k |-> k, n |-> n]
           q == Tell(r, k, n)
<1>1. /\ q \in Runtimes /\ q.phase = r.phase /\ q.gen = r.gen /\ q.asked = r.asked
      /\ q.draw = r.draw /\ q.final = r.final /\ q.out = Append(r.out, x) /\ x \in Wishes
  <2> HIDE DEF Runtimes
  <2> QED  BY TellRuntime, SMTT(40)
<1>5. t = [q EXCEPT !.edit = edit, !.life = life]
  BY DEF Wish
<1> HIDE DEF q
<1>2. t \in Runtimes
  <2> DEFINE u == [q EXCEPT !.edit = edit]
  <2>1. u \in Runtimes
    <3> HIDE DEF Wishes
    <3> QED  BY <1>1 DEF Runtimes
  <2>2. t = [u EXCEPT !.life = life]
    BY <1>1, <1>5 DEF Runtimes
  <2> HIDE DEF u, Wishes
  <2> QED  BY <2>1, <2>2 DEF Runtimes
<1>3. /\ t.phase = q.phase /\ t.gen = q.gen /\ t.asked = q.asked /\ t.draw = q.draw /\ t.final = q.final
      /\ t.out = q.out /\ t.life = life
  BY <1>1, <1>5 DEF Runtimes
<1>4. x.k # "draw"
  OBVIOUS
<1> HIDE DEF x, Wishes, Runtimes
<1> QED  BY <1>1, <1>2, <1>3, <1>4 DEF Plain

LEMMA WishFollows ==
    ASSUME Types, Drawn(rt, owner), Preference \/ SettingsEdit \/ ComposerEdit \/ EditorEnds \/ EditTimeout
    PROVE  Follows
<1>1. rt \in Runtimes /\ owner' = owner
  BY DEF Types, Preference, SettingsEdit, ComposerEdit, EditorEnds, EditTimeout
<1>2. rt.gen \in Nat /\ rt.edit \in {"none", "asked", "editing"} /\ rt.life \in {"running", "suspend_requested", "suspended"}
  BY <1>1 DEF Runtimes
<1>3. ASSUME NEW k \in {"suspend", "resume", "redraw", "mouse"}, NEW edit \in {"none", "asked", "editing"},
             NEW life \in {"running", "suspend_requested", "suspended"}, rt.life = "suspended" => life = "suspended",
             rt' = [Tell(rt, k, rt.gen) EXCEPT !.edit = edit, !.life = life]
      PROVE  Follows
  <2>2. PICK t : t = rt'
    OBVIOUS
  <2>1. t = Wish(rt, k, rt.gen, edit, life)
    BY <1>3, <2>2 DEF Wish
  <2>3. Plain(rt, t) /\ t.life = life /\ t.draw = rt.draw
    <3> HIDE DEF Runtimes
    <3> QED  BY <1>1, <1>2, <1>3, <2>1, WishPlain
  <2> QED  BY <1>1, <1>3, <2>2, <2>3, PlainFollows
<1>5. CASE Preference
  <2>1. PICK k \in {"mouse", "redraw"} : rt' = Tell(rt, k, rt.gen)
    BY <1>5 DEF Preference
  <2>2. rt' = [Tell(rt, k, rt.gen) EXCEPT !.edit = rt.edit, !.life = rt.life]
    BY <1>1, <2>1 DEF Tell, Runtimes
  <2> QED  BY <1>2, <1>3, <2>2
<1>6. CASE SettingsEdit
  <2>1. rt' = [Tell(rt, "suspend", rt.gen) EXCEPT !.edit = "asked"]
    BY <1>6 DEF SettingsEdit
  <2>2. rt' = [Tell(rt, "suspend", rt.gen) EXCEPT !.edit = "asked", !.life = rt.life]
    BY <1>1, <2>1 DEF Tell, Runtimes
  <2> QED  BY <1>2, <1>3, <2>2
<1>7. CASE ComposerEdit
  <2>1. rt' = [Tell(rt, "suspend", rt.gen) EXCEPT !.edit = "asked", !.life = "suspend_requested"] /\ rt.life = "running"
    BY <1>7 DEF ComposerEdit
  <2> QED  BY <1>3, <2>1
<1>8. CASE EditorEnds
  <2>1. rt' = [Tell(rt, "resume", rt.gen) EXCEPT !.edit = "none"]
    BY <1>8 DEF EditorEnds
  <2>2. rt' = [Tell(rt, "resume", rt.gen) EXCEPT !.edit = "none", !.life = rt.life]
    BY <1>1, <2>1 DEF Tell, Runtimes
  <2> QED  BY <1>2, <1>3, <2>2
<1>9. CASE EditTimeout
  <2> DEFINE life == IF rt.life = "suspend_requested" THEN "running" ELSE rt.life
  <2>1. rt' = [Tell(rt, "resume", rt.gen) EXCEPT !.edit = "none", !.life = IF @ = "suspend_requested" THEN "running" ELSE @]
    BY <1>9 DEF EditTimeout
  <2>2. rt' = [Tell(rt, "resume", rt.gen) EXCEPT !.edit = "none", !.life = life]
    BY <1>1, <2>1 DEF Tell, Runtimes
  <2>3. life \in {"running", "suspend_requested", "suspended"} /\ (rt.life = "suspended" => life = "suspended")
    BY <1>2
  <2> HIDE DEF life
  <2> QED  BY <1>3, <2>2, <2>3
<1> QED  BY <1>5, <1>6, <1>7, <1>8, <1>9

-----------------------------------------------------------------------------
(* A helper that the shell does not stop.                                  *)

LEMMA AwakeMore ==
    ASSUME NEW h \in Helpers, Awake(h), NEW g, g.st \notin {"stopped", "barrier"},
           \/ Heard(g) = Heard(h)
           \/ \E k \in {"error", "painted", "restored", "suspended", "input", "ready"} : Heard(g) = Append(Heard(h), k)
    PROVE  Awake(g)
<1>1. Heard(h) \in Seq(NoteKinds) /\ Lacks(Heard(h), {"resume_needed"})
  BY HeardType DEF Awake
<1>2. CASE Heard(g) = Heard(h)
  BY <1>1, <1>2 DEF Awake
<1>3. CASE \E k \in {"error", "painted", "restored", "suspended", "input", "ready"} : Heard(g) = Append(Heard(h), k)
  <2>1. PICK k \in {"error", "painted", "restored", "suspended", "input", "ready"} : Heard(g) = Append(Heard(h), k)
    BY <1>3
  <2>2. k \in NoteKinds /\ k # "resume_needed"
    BY DEF NoteKinds
  <2> DEFINE s == Heard(h)
             t == Heard(g)
  <2> HIDE DEF NoteKinds, s, t
  <2>3. s \in Seq(NoteKinds) /\ t = Append(s, k) /\ Lacks(s, {"resume_needed"})
    BY <1>1, <2>1 DEF s, t
  <2>4. /\ DOMAIN s = 1 .. Len(s) /\ DOMAIN t = 1 .. Len(s) + 1 /\ Len(s) \in Nat
        /\ t[Len(s) + 1] = k /\ \A i \in DOMAIN s : t[i] = s[i]
    BY <2>2, <2>3, AppendParts
  <2>5. \A i \in DOMAIN t : i \in DOMAIN s \/ i = Len(s) + 1
    BY <2>4
  <2>6. Lacks(t, {"resume_needed"})
    BY <2>2, <2>3, <2>4, <2>5 DEF Lacks
  <2> QED  BY <2>6 DEF Awake, t
<1> QED  BY <1>2, <1>3

LEMMA AwakeRecord ==
    ASSUME Types, Awake(native), native.out # <<>>, native' = [native EXCEPT !.out = Tail(@)]
    PROVE  Awake(native')
<1>1. native \in Helpers
  BY DEF Types
<1>2. native' \in Helpers /\ native'.st = native.st /\ Part(Heard(native'), Heard(native))
  BY RecordHelper
<1>3. Heard(native) \in Seq(NoteKinds) /\ Heard(native') \in Seq(NoteKinds)
  BY <1>1, <1>2, HeardType
<1>4. Lacks(Heard(native'), {"resume_needed"})
  <2> HIDE DEF NoteKinds
  <2> QED  BY <1>2, <1>3, PartKeeps DEF Awake
<1> QED  BY <1>2, <1>4 DEF Awake

LEMMA AwakeSteps ==
    ASSUME Types, [Next]_vars, NoStop, Awake(native)
    PROVE  Awake(native')
<1>1. native \in Helpers
  BY DEF Types
<1>2. CASE native' = native
  BY <1>2
<1>3. CASE native.out # <<>> /\ native' = [native EXCEPT !.out = Tail(@)]
  BY <1>3, AwakeRecord
<1>4. CASE NativeCommand
  <2>1. PICK k : Answered(k, native, native')
    BY <1>4, CommandAnswered
  <2> QED  BY <1>1, <2>1, AwakeMore DEF Answered, Awake
<1>5. CASE NativeProbed
  <2>1. native'.st = "active" /\ Heard(native') = Append(Heard(native), "ready")
    BY <1>1, <1>5, ActivateHelper DEF NativeProbed
  <2> QED  BY <1>1, <2>1, AwakeMore
<1>6. CASE NativeReaped \/ NativeDies
  <2>1. native' = [native EXCEPT !.st = "exited"]
    BY <1>6 DEF NativeReaped, NativeDies
  <2>2. native'.st = "exited" /\ Heard(native') = Heard(native)
    BY <1>1, <2>1, SetHelper
  <2> QED  BY <1>1, <2>2, AwakeMore
<1>7. CASE NativeInput
  <2> DEFINE q == Report(native, "input", native.credit)
  <2>1. native.credit \in Nat /\ "input" \in NoteKinds
    BY <1>1 DEF Helpers, NoteKinds
  <2>2. q \in Helpers /\ q.st = native.st /\ Heard(q) = Append(Heard(native), "input")
    BY <1>1, <2>1, ReportHelper
  <2>3. native' = [q EXCEPT !.credit = 0]
    BY <1>7 DEF NativeInput
  <2> HIDE DEF q
  <2>4. native'.st = native.st /\ Heard(native') = Append(Heard(native), "input")
    BY <2>2, <2>3, CreditlessHelper
  <2> QED  BY <1>1, <2>4, AwakeMore DEF Awake
<1>8. CASE NativeStop
  BY <1>8 DEF NativeStop, Stimulus, NoStop
<1>9. CASE NativeContinue
  BY <1>9 DEF NativeContinue, Awake
<1>10. CASE OwnerStep
  BY <1>2, <1>3, <1>10
     DEF OwnerStep, OwnerDraw, OwnerShutdown, OwnerSuspend, OwnerResume, OwnerRedraw, OwnerMouse, FromRuntime,
         OwnerOrphan, OwnerPainted, OwnerInput, OwnerRestored, OwnerSuspended, OwnerReady, OwnerResumeNeeded, Record,
         OwnerRefuses, OwnerPortExit
<1>11. CASE OwnerTimer
  BY <1>2, <1>11 DEF OwnerTimer, SoftDeadline, HardDeadline, QueuedDeadline, BusyRetry
<1>12. CASE Quit \/ SettingsEdit \/ ComposerEdit \/ EditorEnds \/ Preference
  BY <1>2, <1>12 DEF Quit, SettingsEdit, ComposerEdit, EditorEnds, Preference
<1>13. CASE RuntimeTimer \/ RuntimeStep \/ Frame \/ BindingTimeout \/ Done \/ UNCHANGED vars
  BY <1>2, <1>13
     DEF RuntimeTimer, DrawTimeout, ShutdownTimeout, EditTimeout, RuntimeStep, Read, TerminalDown, Frame, BindingTimeout,
         Done, vars
<1> QED  BY <1>4, <1>5, <1>6, <1>7, <1>8, <1>9, <1>10, <1>11, <1>12, <1>13 DEF Next, NativeStep, Person

-----------------------------------------------------------------------------
(* What may happen in a session is settled when it starts.                 *)

Stays == world'.scenario = world.scenario

LEMMA BusyStays ==
    ASSUME Types, NEW refused, Busy(refused)
    PROVE  Stays
BY DEF Types, Worlds, Busy, Stays

LEMMA ControlStays ==
    ASSUME Types, NEW o, NEW k, Control(o, k)
    PROVE  Stays
BY BusyStays DEF Control

LEMMA GrantingStays ==
    ASSUME Types, NEW o, Granting(o)
    PROVE  Stays
BY BusyStays DEF Granting

LEMMA PaintingStays ==
    ASSUME Types, NEW o, NEW d, Painting(o, d)
    PROVE  Stays
BY GrantingStays DEF Painting, Stays

LEMMA ScenarioStays ==
    ASSUME Types, [Next]_vars
    PROVE  Stays
<1>1. CASE UNCHANGED world
  BY <1>1 DEF Stays
<1>2. ASSUME NEW kind, Stimulus(kind) PROVE Stays
  BY <1>2 DEF Types, Worlds, Stimulus, Stays
<1>3. CASE NativeInput
  BY <1>3 DEF Types, Worlds, NativeInput, Stays
<1>4. CASE OwnerDraw \/ OwnerPainted
  BY <1>1, <1>4, PaintingStays, GrantingStays DEF OwnerDraw, OwnerPainted, Ignore
<1>5. CASE OwnerShutdown \/ OwnerSuspend \/ OwnerResume \/ OwnerRedraw \/ OwnerMouse
  BY <1>1, <1>5, ControlStays DEF OwnerShutdown, OwnerSuspend, OwnerResume, OwnerRedraw, OwnerMouse, Ignore
<1>6. CASE OwnerInput
  BY <1>1, <1>6, GrantingStays DEF OwnerInput, Stops
<1>7. CASE OwnerResumeNeeded
  BY <1>7, ControlStays DEF OwnerResumeNeeded
<1>8. CASE BusyRetry
  BY <1>8, GrantingStays, BusyStays DEF BusyRetry
<1>9. CASE OwnerOrphan \/ OwnerRestored \/ OwnerSuspended \/ OwnerReady \/ OwnerRefuses \/ OwnerPortExit
  BY <1>1, <1>9 DEF OwnerOrphan, OwnerRestored, OwnerSuspended, OwnerReady, OwnerRefuses, OwnerPortExit, Stops
<1>10. CASE SoftDeadline \/ HardDeadline \/ QueuedDeadline \/ NativeStep
  BY <1>1, <1>10
     DEF SoftDeadline, HardDeadline, QueuedDeadline, Stops, NativeStep, NativeCommand, NativeProbed, NativeReaped
<1>11. CASE Person
  BY <1>1, <1>2, <1>3, <1>11
     DEF Person, NativeStop, NativeContinue, NativeDies, Quit, SettingsEdit, ComposerEdit, EditorEnds, Preference
<1>12. CASE RuntimeTimer \/ RuntimeStep \/ Frame \/ BindingTimeout \/ Done \/ UNCHANGED vars
  BY <1>1, <1>12
     DEF RuntimeTimer, DrawTimeout, ShutdownTimeout, EditTimeout, RuntimeStep, Read, TerminalDown, Frame, BindingTimeout,
         Done, vars
<1> QED  BY <1>4, <1>5, <1>6, <1>7, <1>8, <1>9, <1>10, <1>11, <1>12 DEF Next, OwnerStep, OwnerTimer

LEMMA InitDraws ==
    ASSUME Init
    PROVE  DrawsInv
<1>1. /\ rt.out = <<>> /\ rt.draw = 0 /\ rt.asked = 0 /\ rt.phase = "binding" /\ rt.gen = 1 /\ ~rt.final
      /\ owner.told = <<>> /\ owner.queued = 0 /\ owner.pending = None /\ owner.phase = "initializing"
      /\ ~owner.slot /\ owner.gen = 1 /\ native.st = "new" /\ native.out = <<>>
  BY DEF Init
<1>2. ~Unanswered(owner)
  BY <1>1, NoneApart DEF Unanswered
<1>3. Open(owner) = {} /\ Told(owner) = {} /\ ToldOnce(owner) /\ Apart(owner)
  BY <1>1, <1>2 DEF Open, Told, Answers, ToldOnce, Apart
<1>4. Wants(rt) = {} /\ Rising(rt)
  BY <1>1 DEF Wants, Rising, Asks
<1>5. Drawn(rt, owner)
  BY <1>1, <1>3, <1>4 DEF Drawn, Neat, Holds, Idle
<1>6. Waited(rt, owner)
  BY <1>1 DEF Waited
<1>7. Awake(native)
  BY <1>1 DEF Awake, Lacks, Heard
<1> QED  BY <1>5, <1>6, <1>7 DEF DrawsInv

LEMMA FollowsSteps ==
    ASSUME PortInv, Drawn(rt, owner), [Next]_vars
    PROVE  Follows
<1>0. Types
  BY DEF PortInv
<1>1. CASE OwnerStep
  <2>1. CASE OwnerDraw
    BY <1>0, <2>1, OwnerDrawFollows
  <2>2. CASE OwnerShutdown
    BY <1>0, <2>2, OwnerShutdownFollows
  <2>3. CASE OwnerSuspend
    BY <1>0, <2>3, OwnerSuspendFollows
  <2>4. CASE OwnerResume
    BY <1>0, <2>4, OwnerResumeFollows
  <2>5. CASE OwnerRedraw
    BY <1>0, <2>5, OwnerRedrawFollows
  <2>6. CASE OwnerMouse
    BY <1>0, <2>6, OwnerMouseFollows
  <2>7. CASE OwnerOrphan
    BY <1>0, <2>7, OwnerOrphanFollows
  <2>8. CASE OwnerPainted
    BY <1>0, <2>8, OwnerPaintedFollows
  <2>9. CASE OwnerInput
    BY <1>0, <2>9, OwnerInputFollows
  <2>10. CASE OwnerRestored
    BY <2>10, OwnerRestoredFollows
  <2>11. CASE OwnerSuspended
    BY <2>11, OwnerSuspendedFollows
  <2>12. CASE OwnerReady
    BY <2>12, OwnerReadyFollows
  <2>13. CASE OwnerResumeNeeded
    BY <1>0, <2>13, OwnerResumeNeededFollows
  <2>14. CASE OwnerRefuses
    BY <1>0, <2>14, OwnerRefusesFollows
  <2>15. CASE OwnerPortExit
    BY <1>0, <2>15, OwnerPortExitFollows
  <2> QED  BY <1>1, <2>1, <2>2, <2>3, <2>4, <2>5, <2>6, <2>7, <2>8, <2>9, <2>10, <2>11, <2>12, <2>13, <2>14, <2>15
              DEF OwnerStep
<1>2. CASE OwnerTimer
  BY <1>0, <1>2, SoftDeadlineFollows, HardDeadlineFollows, QueuedDeadlineFollows, BusyRetryFollows DEF OwnerTimer
<1>3. CASE NativeStep \/ NativeDies \/ NativeInput \/ NativeStop \/ NativeContinue
  BY <1>0, <1>3, NativeFollows DEF NativeStep
<1>4. CASE Quit
  BY <1>0, <1>4, QuitFollows
<1>5. CASE Preference \/ SettingsEdit \/ ComposerEdit \/ EditorEnds \/ EditTimeout
  BY <1>0, <1>5, WishFollows
<1>6. CASE DrawTimeout
  BY <1>0, <1>6, DrawTimeoutFollows
<1>7. CASE ShutdownTimeout \/ TerminalDown \/ BindingTimeout
  BY <1>0, <1>7, EndsFollows
<1>8. CASE Read
  BY <1>0, <1>8, ReadFollows
<1>9. CASE Frame
  BY <1>0, <1>9, FrameFollows
<1>10. CASE Done \/ UNCHANGED vars
  <2>1. rt' = rt /\ owner' = owner
    BY <1>10 DEF Done, vars
  <2> QED  BY <2>1 DEF Follows
<1> QED  BY <1>1, <1>2, <1>3, <1>4, <1>5, <1>6, <1>7, <1>8, <1>9, <1>10 DEF Next, Person, RuntimeTimer, RuntimeStep

LEMMA DrawsSteps ==
    ASSUME PortInv, DrawsInv, [Next]_vars
    PROVE  DrawsInv'
<1>1. Types /\ Drawn(rt, owner)
  BY DEF PortInv, DrawsInv
<1>2. Follows
  BY <1>1, FollowsSteps
<1>3. NoStop' => NoStop
  BY <1>1, ScenarioStays DEF Stays, NoStop
<1>4. ASSUME NoStop' PROVE Waited(rt', owner') /\ Awake(native')
  <2>1. NoStop /\ Waited(rt, owner) /\ Awake(native)
    BY <1>3, <1>4 DEF DrawsInv
  <2>2. Awake(native')
    BY <1>1, <2>1, AwakeSteps
  <2> QED  BY <1>2, <2>1, <2>2 DEF Follows
<1> QED  BY <1>2, <1>4 DEF DrawsInv, Follows

LEMMA DrawsAwaited ==
    ASSUME PortInv, DrawsInv
    PROVE  AnswersAwaited
<1>1. rt \in Runtimes /\ Drawn(rt, owner)
  BY DEF PortInv, Types, DrawsInv
<1> SUFFICES ASSUME rt.phase = "running", NEW i \in DOMAIN owner.told, owner.told[i].k = "draw_result"
             PROVE  /\ \/ owner.told[i].draw = rt.draw
                       \/ "stop" \in world.scenario.may /\ (rt.draw = 0 \/ owner.told[i].draw < rt.draw)
                    /\ \A j \in DOMAIN owner.told : owner.told[j] = owner.told[i] => j = i
  BY DEF AnswersAwaited
<1>2. i \in Answers(owner) /\ owner.told[i].draw \in Holds(owner)
  BY DEF Answers, Told, Holds
<1>3. NoStop => owner.told[i].draw = rt.draw
  BY <1>2 DEF DrawsInv, Waited
<1>4. owner.told[i].draw = rt.draw \/ rt.draw = 0 \/ owner.told[i].draw < rt.draw
  <2>1. owner.told[i].draw \in 1 .. rt.asked /\ rt.asked \in Nat /\ rt.draw \in {0, rt.asked}
    BY <1>1, <1>2 DEF Drawn, Runtimes
  <2> QED  BY <2>1
<1>5. ASSUME NEW j \in DOMAIN owner.told, owner.told[j] = owner.told[i] PROVE j = i
  <2>1. j \in Answers(owner) /\ owner.told[j].draw = owner.told[i].draw
    BY <1>5 DEF Answers
  <2> QED  BY <1>1, <1>2, <2>1 DEF Drawn, Neat, ToldOnce
<1>6. \A j \in DOMAIN owner.told : owner.told[j] = owner.told[i] => j = i
  BY <1>5
<1>7. \/ owner.told[i].draw = rt.draw
      \/ "stop" \in world.scenario.may /\ (rt.draw = 0 \/ owner.told[i].draw < rt.draw)
  BY <1>3, <1>4 DEF NoStop
<1> QED  BY <1>6, <1>7

\* A draw that the runtime asked for is in one place: asked for and not read,
\* queued or painted by the owner, or answered; the draws are in order, and if
\* the shell stops nothing there is no other than the one the runtime waits for.
THEOREM PortDraws == Spec => []DrawsInv
<1>1. Init => DrawsInv
  BY InitDraws
<1>2. PortInv /\ DrawsInv /\ [Next]_vars => DrawsInv'
  BY DrawsSteps
<1> QED  BY <1>1, <1>2, PortInvariant, PTL DEF Spec

\* The runtime is told the result of the draw that it waits for, and once
\* (session_runtime.ex:494, owner.ex:299): a draw that was settled, given up or
\* replaced is not answered again when its paint is confirmed.
THEOREM PortAnswersAwaited == Spec => []AnswersAwaited
<1>1. PortInv /\ DrawsInv => AnswersAwaited
  BY DrawsAwaited
<1> QED  BY <1>1, PortInvariant, PortDraws, PTL

-----------------------------------------------------------------------------
(* No draw gets lost.  If no setting is edited externally, a draw that the *)
(* runtime waits for is asked for and not read, held by the owner, or      *)
(* forgotten by a terminal that comes back.                                *)

NoSettings == "settings_edit" \notin world.scenario.may

\* Until the session closes the owner is not told to close.
Unclosed(r, o) == r.phase \in {"binding", "running"} => Asks(r, "shutdown") = {} /\ o.phase \notin Gone

\* A runtime that has asked the owner to step aside asks for no frame until
\* the terminal is back.
Stepping(r, o) ==
    r.phase = "running" =>
       /\ \A i \in Asks(r, "suspend") : r.out[i].n = o.gen =>
            r.life = "suspend_requested" /\ \A j \in Asks(r, "draw") : j < i
       /\ o.phase = "suspending" => r.life = "suspend_requested" /\ Asks(r, "draw") = {}
       /\ o.phase = "suspended" => r.life = "suspended" /\ Asks(r, "draw") = {}

Kept(r, o) ==
    r.phase = "running" /\ r.draw # 0 /\ o.alive => o.phase = "resuming" \/ r.draw \in Wants(r) \cup Holds(o)

\* A frame that was painted and not answered is confirmed, or the owner told
\* to bring the terminal back, before the helper steps aside.
Shows == {"painted", "resume_needed"}
Ahead(o) ==
    \E i \in DOMAIN o.wire : o.wire[i].k = "draw" /\ \A j \in DOMAIN o.wire : o.wire[j].k = "suspend" => i < j
Shown(h) == \E i \in DOMAIN Heard(h) : Heard(h)[i] \in Shows
Before(h) ==
    \A i \in DOMAIN Heard(h) : Heard(h)[i] = "suspended" => \E j \in DOMAIN Heard(h) : j < i /\ Heard(h)[j] \in Shows
Pictured(o, h) == (Ahead(o) \/ Shown(h) \/ h.st \notin Raw) /\ Before(h)
Coming(o, h) == o.alive /\ o.phase \in {"running", "suspending"} /\ Unanswered(o) => Pictured(o, h)

TrackInv ==
    /\ Unclosed(rt, owner) /\ Coming(owner, native)
    /\ NoSettings => Stepping(rt, owner) /\ Kept(rt, owner)

LEMMA TailAt ==
    ASSUME NEW S, NEW s \in Seq(S), s # <<>>, NEW t, t = Tail(s)
    PROVE  /\ t \in Seq(S) /\ Head(s) = s[1] /\ 1 \in DOMAIN s
           /\ \A i \in DOMAIN s : i \in Nat /\ (i = 1 \/ (i - 1 \in DOMAIN t /\ t[i - 1] = s[i]))
           /\ \A i \in DOMAIN t : i \in Nat /\ i + 1 \in DOMAIN s /\ t[i] = s[i + 1]
OBVIOUS

\* The owner loses no draw that it holds.
Keeps(o, p) == Holds(o) \subseteq Holds(p)

LEMMA DropKeeps ==
    ASSUME NEW o \in Owners, NEW p, p.pending = o.pending, p.replied = o.replied, p.queued = 0,
           p.told = IF o.queued = 0 THEN o.told ELSE Append(o.told, [k |-> "draw_result", draw |-> o.queued])
    PROVE  Keeps(o, p)
<1>1. Unanswered(p) <=> Unanswered(o)
  BY DEF Unanswered
<1>2. o.queued \in Nat
  BY DEF Owners
<1> HIDE DEF Owners
<1>3. \A d \in Open(o) : d \in Open(p) \/ (d = o.queued /\ o.queued # 0)
  BY <1>1 DEF Open
<1>4. CASE o.queued = 0
  <2>1. Told(p) = Told(o)
    BY <1>4, SameTold
  <2> QED  BY <1>3, <1>4, <2>1 DEF Keeps, Holds
<1>5. CASE o.queued # 0
  <2>1. Told(p) = Told(o) \cup {o.queued}
    BY <1>2, <1>5, MoreTold
  <2> QED  BY <1>3, <2>1 DEF Keeps, Holds
<1> QED  BY <1>4, <1>5

LEMMA QueuedKeeps ==
    ASSUME NEW o \in Owners, NEW d \in Nat, d # 0, NEW p, p = Queued(o, d)
    PROVE  /\ Keeps(o, p) /\ d \in Holds(p)
           /\ p \in Owners /\ SamePhase(o, p) /\ Longer(o.wire, p.wire) /\ (Unanswered(p) => Unanswered(o))
<1> DEFINE q == DropQueued(o)
<1>1. /\ q \in Owners /\ q.queued = 0 /\ q.pending = o.pending /\ q.replied = o.replied
      /\ q.told = IF o.queued = 0 THEN o.told ELSE Append(o.told, [k |-> "draw_result", draw |-> o.queued])
  <2> HIDE DEF Owners
  <2> QED  BY DropOwner
<1>2. p.told = q.told /\ p.queued = d /\ p.pending = q.pending /\ p.replied = q.replied
  <2> HIDE DEF Owners
  <2> QED  BY <1>1, QueuedOwner
<1> HIDE DEF q, Owners
<1>3. Keeps(o, q)
  BY <1>1, DropKeeps
<1>4. Told(p) = Told(q)
  BY <1>2, SameTold
<1>5. Open(q) \subseteq Open(p) /\ d \in Open(p)
  BY <1>1, <1>2 DEF Open, Unanswered
<1>6. p \in Owners /\ SamePhase(o, p) /\ p.wire = o.wire /\ p.pending = o.pending /\ p.replied = o.replied
  <2>1. p \in Owners /\ SamePhase(o, p)
    BY QueuedOwner
  <2>2. p = [q EXCEPT !.queued = d]
    BY DEF Queued, q
  <2>3. p.wire = q.wire /\ p.pending = q.pending /\ p.replied = q.replied
    BY <1>1, <2>2 DEF Owners
  <2>4. q.wire = o.wire
    BY DropOwner DEF q
  <2> QED  BY <1>1, <2>1, <2>3, <2>4
<1>7. Longer(o.wire, p.wire) /\ (Unanswered(p) => Unanswered(o))
  BY <1>6 DEF Longer, Unanswered
<1>8. Keeps(o, p) /\ d \in Holds(p)
  BY <1>3, <1>4, <1>5 DEF Keeps, Holds
<1> QED  BY <1>6, <1>7, <1>8

LEMMA TurnedKeeps ==
    ASSUME NEW o \in Owners, NEW d \in Nat, d # 0, ~Unanswered(o), NEW p, p.queued = o.queued, Turned(o, p, d)
    PROVE  Keeps(o, p) /\ d \in Holds(p)
<1>1. CASE /\ p.told = Append(o.told, [k |-> "draw_result", draw |-> d])
           /\ p.pending = o.pending /\ p.replied = o.replied
  <2>1. Open(p) = Open(o)
    BY <1>1 DEF Open, Unanswered
  <2>2. Told(p) = Told(o) \cup {d}
    BY <1>1, MoreTold
  <2> QED  BY <2>1, <2>2 DEF Keeps, Holds
<1>2. CASE /\ p.told = o.told /\ ~p.replied
           /\ p.pending = [k |-> "draw", n |-> o.seq + 1, draw |-> d]
  <2>1. Unanswered(p) /\ p.pending.draw = d
    BY <1>2 DEF Unanswered
  <2>2. Told(p) = Told(o)
    BY <1>2, SameTold
  <2>3. Open(o) \subseteq Open(p) /\ d \in Open(p)
    BY <2>1 DEF Open
  <2> QED  BY <2>2, <2>3 DEF Keeps, Holds
<1> QED  BY <1>1, <1>2 DEF Turned

LEMMA AnswerKeeps ==
    ASSUME NEW o \in Owners, o.pending.k = "draw", NEW p, p.queued = o.queued, p.told = Answer(o).told
    PROVE  Keeps(o, p)
<1>1. /\ o.pending.draw \in Nat
      /\ p.told = IF o.replied THEN o.told ELSE Append(o.told, [k |-> "draw_result", draw |-> o.pending.draw])
  <2>1. PICK q : q = Answer(o)
    OBVIOUS
  <2> HIDE DEF Owners
  <2> QED  BY <2>1, AnswerOwner
<1>2. CASE o.replied
  <2>1. Told(p) = Told(o)
    BY <1>1, <1>2, SameTold
  <2>2. Open(o) \subseteq Open(p)
    BY <1>2 DEF Open, Unanswered
  <2> QED  BY <2>1, <2>2 DEF Keeps, Holds
<1>3. CASE ~o.replied
  <2>1. Told(p) = Told(o) \cup {o.pending.draw}
    BY <1>1, <1>3, MoreTold
  <2>2. \A d \in Open(o) : d \in Open(p) \/ d = o.pending.draw
    BY DEF Open
  <2> QED  BY <2>1, <2>2 DEF Keeps, Holds
<1> QED  BY <1>2, <1>3

\* A result that the runtime reads is the only one that the owner holds no more.
LEMMA ReadKeeps ==
    ASSUME NEW o \in Owners, o.told # <<>>, NEW p, p = [o EXCEPT !.told = Tail(@)]
    PROVE  /\ \A d \in Holds(o) : d \in Holds(p) \/ (Head(o.told).k = "draw_result" /\ d = Head(o.told).draw)
           /\ p.phase = o.phase /\ p.gen = o.gen /\ p.alive = o.alive /\ p.wire = o.wire /\ (Unanswered(p) => Unanswered(o))
<1>1. /\ p.told = Tail(o.told) /\ p.phase = o.phase /\ p.gen = o.gen /\ p.slot = o.slot /\ p.alive = o.alive
      /\ p.queued = o.queued /\ p.pending = o.pending /\ p.replied = o.replied /\ p.wire = o.wire
  BY DEF Owners
<1>2. o.told \in Seq(Results)
  BY DEF Owners
<1>3. /\ \A i \in DOMAIN o.told : i = 1 \/ (i - 1 \in DOMAIN p.told /\ p.told[i - 1] = o.told[i])
      /\ Head(o.told) = o.told[1]
  <2> HIDE DEF Results, Owners
  <2> QED  BY <1>1, <1>2
<1> HIDE DEF Owners
<1>4. \A i \in Answers(o) : i = 1 \/ (i - 1 \in Answers(p) /\ p.told[i - 1] = o.told[i])
  BY <1>3 DEF Answers
<1>5. ASSUME NEW d \in Told(o) PROVE d \in Told(p) \/ (Head(o.told).k = "draw_result" /\ d = Head(o.told).draw)
  <2>1. PICK i \in Answers(o) : o.told[i].draw = d
    BY DEF Told
  <2>2. CASE i = 1
    BY <1>3, <2>1, <2>2 DEF Answers
  <2>3. CASE i # 1
    <3>1. PICK j \in Answers(p) : p.told[j] = o.told[i]
      BY <1>4, <2>3
    <3> QED  BY <2>1, <3>1 DEF Told
  <2> QED  BY <2>2, <2>3
<1>6. Open(p) = Open(o) /\ (Unanswered(p) <=> Unanswered(o))
  BY <1>1 DEF Open, Unanswered
<1> QED  BY <1>1, <1>5, <1>6 DEF Holds

\* The owner reads the first draw, or none.
LEMMA RestWants ==
    ASSUME NEW r \in Runtimes, NEW s, s.out = r.out \/ (r.out # <<>> /\ s.out = Tail(r.out))
    PROVE  \A w \in Wants(r) : w \in Wants(s) \/ (s.out # r.out /\ Head(r.out).k = "draw" /\ w = Head(r.out).n)
<1>1. CASE s.out = r.out
  <2>1. \A k : Asks(s, k) = Asks(r, k)
    BY <1>1 DEF Asks
  <2> QED  BY <1>1, <2>1 DEF Wants
<1>2. CASE s.out # r.out
  <2>1. r.out \in Seq(Wishes)
    BY DEF Runtimes
  <2>2. /\ \A i \in DOMAIN r.out : i = 1 \/ (i - 1 \in DOMAIN s.out /\ s.out[i - 1] = r.out[i])
        /\ Head(r.out) = r.out[1]
    <3>1. r.out # <<>> /\ s.out = Tail(r.out)
      BY <1>2
    <3> HIDE DEF Wishes, Runtimes
    <3> QED  BY <2>1, <3>1, TailAt
  <2> HIDE DEF Runtimes
  <2>3. \A i \in Asks(r, "draw") : i = 1 \/ (i - 1 \in Asks(s, "draw") /\ s.out[i - 1] = r.out[i])
    BY <2>2 DEF Asks
  <2>4. ASSUME NEW w \in Wants(r) PROVE w \in Wants(s) \/ (Head(r.out).k = "draw" /\ w = Head(r.out).n)
    <3>1. PICK i \in Asks(r, "draw") : r.out[i].n = w
      BY DEF Wants
    <3>2. CASE i = 1
      BY <2>2, <3>1, <3>2 DEF Asks
    <3>3. CASE i # 1
      <4>1. PICK j \in Asks(s, "draw") : s.out[j] = r.out[i]
        BY <2>3, <3>3
      <4> QED  BY <3>1, <4>1 DEF Wants
    <3> QED  BY <3>2, <3>3
  <2> QED  BY <1>2, <2>4
<1> QED  BY <1>1, <1>2

\* A frame that is on its way stays there when more is sent, and is the first to
\* be read, or still on its way, when one command is read.
LEMMA AheadLonger ==
    ASSUME NEW o \in Owners, NEW p \in Owners, Longer(o.wire, p.wire), Ahead(o)
    PROVE  Ahead(p)
<1>1. o.wire \in Seq(Commands) /\ p.wire \in Seq(Commands)
  BY DEF Owners
<1>2. PICK i \in DOMAIN o.wire : o.wire[i].k = "draw" /\ \A j \in DOMAIN o.wire : o.wire[j].k = "suspend" => i < j
  BY DEF Ahead
<1> HIDE DEF Owners
<1>3. i \in DOMAIN p.wire /\ p.wire[i].k = "draw"
  BY <1>2 DEF Longer
<1>4. ASSUME NEW j \in DOMAIN p.wire, p.wire[j].k = "suspend" PROVE i < j
  <2>1. CASE j \in DOMAIN o.wire
    BY <1>2, <1>4, <2>1 DEF Longer
  <2>2. CASE j \notin DOMAIN o.wire
    BY <1>1, <1>2, <2>2
  <2> QED  BY <2>1, <2>2
<1> QED  BY <1>3, <1>4 DEF Ahead

LEMMA AheadRest ==
    ASSUME NEW o \in Owners, o.wire # <<>>, NEW p, p.wire = Tail(o.wire), Ahead(o)
    PROVE  Head(o.wire).k # "suspend" /\ (Head(o.wire).k = "draw" \/ Ahead(p))
<1>1. o.wire \in Seq(Commands)
  BY DEF Owners
<1>2. /\ Head(o.wire) = o.wire[1] /\ 1 \in DOMAIN o.wire
      /\ \A i \in DOMAIN o.wire : i \in Nat /\ (i = 1 \/ (i - 1 \in DOMAIN p.wire /\ p.wire[i - 1] = o.wire[i]))
      /\ \A i \in DOMAIN p.wire : i \in Nat /\ i + 1 \in DOMAIN o.wire /\ p.wire[i] = o.wire[i + 1]
  <2> HIDE DEF Owners
  <2> QED  BY <1>1, TailAt
<1> HIDE DEF Owners
<1>3. PICK i \in DOMAIN o.wire : o.wire[i].k = "draw" /\ \A j \in DOMAIN o.wire : o.wire[j].k = "suspend" => i < j
  BY DEF Ahead
<1>4. i \in Nat /\ i # 0
  BY <1>1, <1>3
<1>5. Head(o.wire).k # "suspend"
  BY <1>2, <1>3, <1>4
<1>6. CASE i = 1
  BY <1>2, <1>3, <1>5, <1>6
<1>7. CASE i # 1
  <2>1. PICK a \in DOMAIN p.wire : a = i - 1 /\ p.wire[a].k = "draw"
    BY <1>2, <1>3, <1>7
  <2>2. \A j \in DOMAIN p.wire : p.wire[j].k = "suspend" => a < j
    BY <1>2, <1>3, <1>4, <2>1
  <2> QED  BY <1>5, <2>1, <2>2 DEF Ahead
<1> QED  BY <1>6, <1>7

\* Of the records: what is heard after, and what is heard before.
LEMMA HeardAfter ==
    ASSUME NEW h \in Helpers, NEW k \in NoteKinds, NEW g, Heard(g) = Append(Heard(h), k)
    PROVE  /\ Shown(h) \/ k \in Shows => Shown(g)
           /\ Before(h) /\ (k # "suspended" \/ Shown(h)) => Before(g)
<1>1. Heard(h) \in Seq(NoteKinds)
  BY HeardType
<1>2. /\ DOMAIN Heard(h) = 1 .. Len(Heard(h)) /\ DOMAIN Heard(g) = 1 .. Len(Heard(h)) + 1 /\ Len(Heard(h)) \in Nat
      /\ Heard(g)[Len(Heard(h)) + 1] = k /\ \A i \in DOMAIN Heard(h) : Heard(g)[i] = Heard(h)[i]
  BY <1>1, AppendParts
<1> HIDE DEF Helpers, NoteKinds
<1>3. Shown(h) \/ k \in Shows => Shown(g)
  <2>1. CASE Shown(h)
    BY <1>2, <2>1 DEF Shown
  <2>2. CASE k \in Shows
    BY <1>2, <2>2 DEF Shown
  <2> QED  BY <2>1, <2>2
<1>4. ASSUME Before(h), k # "suspended" \/ Shown(h), NEW i \in DOMAIN Heard(g), Heard(g)[i] = "suspended"
      PROVE  \E j \in DOMAIN Heard(g) : j < i /\ Heard(g)[j] \in Shows
  <2>1. CASE i \in DOMAIN Heard(h)
    <3>1. PICK j \in DOMAIN Heard(h) : j < i /\ Heard(h)[j] \in Shows
      BY <1>2, <1>4, <2>1 DEF Before
    <3> QED  BY <1>2, <3>1
  <2>2. CASE i \notin DOMAIN Heard(h)
    <3>1. i = Len(Heard(h)) + 1
      BY <1>2, <2>2
    <3>2. PICK j \in DOMAIN Heard(h) : Heard(h)[j] \in Shows
      BY <1>2, <1>4, <3>1 DEF Shown
    <3>3. j < i /\ j \in DOMAIN Heard(g) /\ Heard(g)[j] \in Shows
      BY <1>2, <3>1, <3>2
    <3> QED  BY <3>3
  <2> QED  BY <2>1, <2>2
<1> QED  BY <1>3, <1>4 DEF Before

LEMMA HeardNext ==
    ASSUME NEW h \in Helpers, Heard(h) # <<>>, NEW g, Heard(g) = Tail(Heard(h)), Heard(h)[1] \notin Shows
    PROVE  /\ Shown(h) => Shown(g)
           /\ Before(h) => Before(g) /\ Heard(h)[1] # "suspended"
<1>1. Heard(h) \in Seq(NoteKinds)
  BY HeardType
<1>2. /\ 1 \in DOMAIN Heard(h)
      /\ \A i \in DOMAIN Heard(h) : i \in Nat /\ (i = 1 \/ (i - 1 \in DOMAIN Heard(g) /\ Heard(g)[i - 1] = Heard(h)[i]))
      /\ \A i \in DOMAIN Heard(g) : i \in Nat /\ i + 1 \in DOMAIN Heard(h) /\ Heard(g)[i] = Heard(h)[i + 1]
  BY <1>1, TailAt
<1> HIDE DEF Helpers, NoteKinds
<1>3. Shown(h) => Shown(g)
  BY <1>2 DEF Shown
<1>4. ASSUME Before(h) PROVE Heard(h)[1] # "suspended"
  <2>1. \A j \in DOMAIN Heard(h) : ~(j < 1)
    BY <1>1
  <2> QED  BY <1>2, <1>4, <2>1 DEF Before
<1>5. ASSUME Before(h), NEW i \in DOMAIN Heard(g), Heard(g)[i] = "suspended"
      PROVE  \E j \in DOMAIN Heard(g) : j < i /\ Heard(g)[j] \in Shows
  <2>1. i \in Nat /\ i + 1 \in DOMAIN Heard(h) /\ Heard(h)[i + 1] = "suspended"
    BY <1>2, <1>5
  <2>2. PICK j \in DOMAIN Heard(h) : j < i + 1 /\ Heard(h)[j] \in Shows
    BY <1>5, <2>1 DEF Before
  <2>3. j # 1
    BY <2>2
  <2>4. PICK a \in DOMAIN Heard(g) : a = j - 1 /\ Heard(g)[a] = Heard(h)[j]
    BY <1>2, <2>2, <2>3
  <2>5. a < i
    BY <1>2, <2>1, <2>2, <2>4
  <2> QED  BY <2>2, <2>4, <2>5
<1> QED  BY <1>3, <1>4, <1>5 DEF Before

\* What the helper makes of a frame, and of a request to step aside when it
\* does not hold the terminal.
LEMMA FrameReplied ==
    ASSUME NEW h \in Helpers, NEW n \in Nat, NEW g, g = Paint(h, n)
    PROVE  /\ g.st \notin Raw \/ Heard(g) = Append(Heard(h), "painted")
           /\ \/ Heard(g) = Heard(h) \/ Heard(g) = Append(Heard(h), "painted")
              \/ Heard(g) = Append(Heard(h), "error")
<1> DEFINE t == [h EXCEPT !.seq = n]
<1>1. t \in Helpers /\ t.st = h.st /\ Heard(t) = Heard(h)
  <2> HIDE DEF Helpers
  <2> QED  BY NoteHelper
<1>2. g = Errs(h) \/ (g = t /\ h.st = "barrier") \/ g = Report(t, "painted", n)
  BY DEF Paint
<1> HIDE DEF t, Helpers
<1>3. CASE g = Errs(h)
  <2>1. g.st = "exited" /\ Heard(g) = Append(Heard(h), "error")
    BY <1>3, ErrsHelper
  <2> QED  BY <2>1 DEF Raw
<1>4. CASE g = t /\ h.st = "barrier"
  BY <1>1, <1>4 DEF Raw
<1>5. CASE g = Report(t, "painted", n)
  <2>1. PICK k \in NoteKinds : k = "painted"
    BY DEF NoteKinds
  <2>2. PICK q \in Helpers : q = t
    BY <1>1
  <2>3. g = Report(q, k, n) /\ k # "ready"
    BY <1>5, <2>1, <2>2
  <2>4. Heard(g) = Append(Heard(q), k)
    BY <2>3, ReportHelper, Zenon
  <2> QED  BY <1>1, <2>1, <2>2, <2>4
<1> QED  BY <1>2, <1>3, <1>4, <1>5

LEMMA CommandReplied ==
    ASSUME Types, NativeCommand
    PROVE  /\ Head(owner.wire).k = "draw" =>
                /\ native'.st \notin Raw \/ Heard(native') = Append(Heard(native), "painted")
                /\ \/ Heard(native') = Heard(native) \/ Heard(native') = Append(Heard(native), "painted")
                   \/ Heard(native') = Append(Heard(native), "error")
           /\ Head(owner.wire).k = "suspend" /\ native.st \notin Raw =>
                native'.st \notin Raw /\ Heard(native') = Append(Heard(native), "error")
<1>1. owner \in Owners /\ native \in Helpers
  BY DEF Types
<1> DEFINE c == Head(owner.wire)
           k == c.k
           token == IF k \in {"init", "draw"} THEN native.token ELSE c.n
           t == [native EXCEPT !.token = token]
<1>2. /\ owner.wire # <<>>
      /\ \/ native' = Errs(native) /\ k \notin {"init", "draw"}
         \/ \E probe \in BOOLEAN : native' = Perform(t, c, probe)
  <2>1. t = [native EXCEPT !.token = IF k \in {"init", "draw"} THEN @ ELSE c.n]
    BY <1>1 DEF Helpers
  <2> QED  BY <2>1 DEF NativeCommand
<1>3. c \in Commands
  <2>1. PICK p : p = [owner EXCEPT !.wire = Tail(@)]
    OBVIOUS
  <2> QED  BY <1>1, <1>2, <2>1, DueRest
<1>4. t \in Helpers /\ t.st = native.st /\ Heard(t) = Heard(native) /\ c.n \in Nat
  <2>1. token \in Nat /\ c.n \in Nat
    BY <1>1, <1>3 DEF Helpers, Commands
  <2> HIDE DEF token
  <2> QED  BY <1>1, <2>1, NoteHelper
<1> HIDE DEF t, token, c
<1>5. CASE native' = Errs(native) /\ k \notin {"init", "draw"}
  <2>1. native'.st = "exited" /\ Heard(native') = Append(Heard(native), "error")
    BY <1>1, <1>5, ErrsHelper
  <2> QED  BY <1>5, <2>1 DEF Raw, c
<1>6. CASE \E probe \in BOOLEAN : native' = Perform(t, c, probe)
  <2>1. PICK probe \in BOOLEAN : native' = Perform(t, c, probe)
    BY <1>6
  <2>2. ASSUME k = "draw"
        PROVE  /\ native'.st \notin Raw \/ Heard(native') = Append(Heard(native), "painted")
               /\ \/ Heard(native') = Heard(native) \/ Heard(native') = Append(Heard(native), "painted")
                  \/ Heard(native') = Append(Heard(native), "error")
    <3>1. native' = Paint(t, c.n)
      BY <2>1, <2>2 DEF Perform
    <3>2. PICK n \in Nat : n = c.n
      BY <1>4
    <3>3. PICK g : g = native'
      OBVIOUS
    <3>4. /\ g.st \notin Raw \/ Heard(g) = Append(Heard(t), "painted")
          /\ \/ Heard(g) = Heard(t) \/ Heard(g) = Append(Heard(t), "painted")
             \/ Heard(g) = Append(Heard(t), "error")
      BY <1>4, <3>1, <3>2, <3>3, FrameReplied
    <3> QED  BY <1>4, <3>3, <3>4
  <2>3. ASSUME k = "suspend", native.st \notin Raw
        PROVE  native'.st \notin Raw /\ Heard(native') = Append(Heard(native), "error")
    <3>1. native' = Errs(t)
      BY <1>4, <2>1, <2>3 DEF Perform, Suspend
    <3>2. native'.st = "exited" /\ Heard(native') = Append(Heard(t), "error")
      BY <1>4, <3>1, ErrsHelper
    <3> QED  BY <1>4, <3>2 DEF Raw
  <2> QED  BY <2>2, <2>3 DEF c
<1> QED  BY <1>2, <1>5, <1>6

\* What every step keeps.
Tracks ==
    /\ Unclosed(rt', owner') /\ Coming(owner', native')
    /\ Stepping(rt, owner) /\ Kept(rt, owner) /\ NoSettings => Stepping(rt', owner') /\ Kept(rt', owner')

Asking(o) == o.alive /\ o.phase \in {"running", "suspending"} /\ Unanswered(o)

LEMMA ComingTalk ==
    ASSUME NEW o \in Owners, NEW p \in Owners, NEW h, Coming(o, h), Longer(o.wire, p.wire), Asking(p) => Asking(o)
    PROVE  Coming(p, h)
<1> HIDE DEF Owners
<1>1. Ahead(o) => Ahead(p)
  BY AheadLonger
<1> QED  BY <1>1 DEF Coming, Pictured, Asking

LEMMA ComingRecord ==
    ASSUME NEW o \in Owners, NEW p \in Owners, NEW h \in Helpers, Coming(o, h), Longer(o.wire, p.wire),
           Asking(p) => Asking(o),
           NEW g, g.st = h.st, Heard(h) # <<>>, Heard(g) = Tail(Heard(h)), Heard(h)[1] \notin Shows
    PROVE  Coming(p, g)
<1> HIDE DEF Owners, Helpers
<1>1. Ahead(o) => Ahead(p)
  BY AheadLonger
<1>2. (Shown(h) => Shown(g)) /\ (Before(h) => Before(g))
  BY HeardNext
<1> QED  BY <1>1, <1>2 DEF Coming, Pictured, Asking

\* A frame painted now, by an owner that runs.
LEMMA ComingFresh ==
    ASSUME NEW p \in Owners, NEW h \in Helpers, Exchange(p, h), p.phase = "running",
           NEW w \in Seq(Commands), NEW n \in Nat, p.wire = Append(w, [k |-> "draw", n |-> n])
    PROVE  Coming(p, h)
<1>1. NoDown(Due(p), Heard(h))
  BY DEF Exchange, Talk
<1>2. \A i \in DOMAIN p.wire : p.wire[i].k # "suspend"
  <2>1. \A i \in DOMAIN p.wire : i \in DOMAIN Due(p) /\ Due(p)[i] = p.wire[i].k
    BY DueType
  <2> QED  BY <1>1, <2>1 DEF NoDown, Lacks
<1>3. Before(h)
  BY <1>1 DEF NoDown, Lacks, Before
<1>4. \E i \in DOMAIN p.wire : p.wire[i].k = "draw"
  <2>1. [k |-> "draw", n |-> n] \in Commands
    BY DEF Commands
  <2> HIDE DEF Owners, Commands
  <2>2. p.wire[Len(w) + 1] = [k |-> "draw", n |-> n] /\ Len(w) + 1 \in DOMAIN p.wire
    BY <2>1, AppendParts
  <2> QED  BY <2>2
<1>5. Ahead(p)
  BY <1>2, <1>4 DEF Ahead
<1> QED  BY <1>3, <1>5 DEF Coming, Pictured

LEMMA ClosedTracks ==
    ASSUME rt'.phase \notin {"binding", "running"}, Coming(owner', native')
    PROVE  Tracks
BY DEF Tracks, Unclosed, Stepping, Kept

\* The owner reads, and keeps what it held.
LEMMA ReadsTracks ==
    ASSUME NEW r \in Runtimes, NEW o, Unclosed(r, o), NEW s, Reads(r, s),
           NEW p, p.gen = o.gen, p.phase = o.phase \/ p.phase = "resuming", p.alive => o.alive
    PROVE  /\ Unclosed(s, p) /\ (Stepping(r, o) => Stepping(s, p))
           /\ /\ r.phase = "running" /\ p.alive /\ p.phase # "resuming" =>
                    Wants(r) \cup Holds(o) \subseteq Wants(s) \cup Holds(p)
              /\ Kept(r, o)
              => Kept(s, p)
<1>1. /\ s.phase = r.phase /\ s.draw = r.draw /\ s.gen = r.gen /\ s.life = r.life
      /\ s.out = r.out \/ (r.out # <<>> /\ s.out = Tail(r.out))
  BY DEF Reads, Listened
<1> HIDE DEF Runtimes
<1>2. /\ r.phase = "running" /\ p.alive /\ p.phase # "resuming" =>
            Wants(r) \cup Holds(o) \subseteq Wants(s) \cup Holds(p)
      /\ Kept(r, o)
      => Kept(s, p)
  BY <1>1 DEF Kept
<1>3. CASE s.out = r.out
  <2>1. \A k : Asks(s, k) = Asks(r, k)
    BY <1>3 DEF Asks
  <2>2. Unclosed(s, p)
    BY <1>1, <2>1 DEF Unclosed, Gone
  <2>3. Stepping(r, o) => Stepping(s, p)
    BY <1>1, <1>3, <2>1 DEF Stepping
  <2> QED  BY <1>2, <2>2, <2>3
<1>4. CASE r.out # <<>> /\ s.out = Tail(r.out)
  <2>1. \A k : /\ \A i \in Asks(s, k) : i \in Nat /\ i + 1 \in Asks(r, k) /\ s.out[i] = r.out[i + 1]
               /\ Asks(r, k) = {} => Asks(s, k) = {}
    BY <1>4, AsksRest
  <2>2. Unclosed(s, p)
    BY <1>1, <2>1 DEF Unclosed, Gone
  <2>3. ASSUME Stepping(r, o), s.phase = "running", NEW i \in Asks(s, "suspend"), s.out[i].n = p.gen
        PROVE  s.life = "suspend_requested" /\ \A j \in Asks(s, "draw") : j < i
    <3>1. i \in Nat /\ i + 1 \in Asks(r, "suspend") /\ r.out[i + 1].n = o.gen
      BY <2>1, <2>3
    <3>2. r.life = "suspend_requested" /\ \A j \in Asks(r, "draw") : j < i + 1
      BY <1>1, <2>3, <3>1 DEF Stepping
    <3>3. \A j \in Asks(s, "draw") : j \in Nat /\ j + 1 < i + 1
      BY <2>1, <3>2
    <3>4. \A j \in Asks(s, "draw") : j < i
      BY <3>1, <3>3
    <3> QED  BY <1>1, <3>2, <3>4
  <2>4. ASSUME Stepping(r, o), s.phase = "running"
        PROVE  /\ p.phase = "suspending" => s.life = "suspend_requested" /\ Asks(s, "draw") = {}
               /\ p.phase = "suspended" => s.life = "suspended" /\ Asks(s, "draw") = {}
    BY <1>1, <2>1, <2>4 DEF Stepping
  <2> QED  BY <1>2, <2>2, <2>3, <2>4 DEF Stepping
<1> QED  BY <1>1, <1>3, <1>4

\* The owner's step when its phase and its draws are as before.
LEMMA QuietTracks ==
    ASSUME Types, TrackInv, Reads(rt, rt'), owner'.gen = owner.gen,
           owner'.phase = owner.phase \/ owner'.phase = "resuming", owner'.alive => owner.alive,
           NoSettings /\ rt.phase = "running" /\ owner'.alive /\ owner'.phase # "resuming" =>
              Wants(rt) \cup Holds(owner) \subseteq Wants(rt') \cup Holds(owner'),
           Coming(owner', native')
    PROVE  Tracks
<1>1. PICK s : s = rt'
  OBVIOUS
<1>2. PICK p : p = owner'
  OBVIOUS
<1>3. rt \in Runtimes /\ Unclosed(rt, owner)
  BY DEF Types, TrackInv
<1> HIDE DEF Runtimes
<1>4. /\ Unclosed(s, p) /\ (Stepping(rt, owner) => Stepping(s, p))
      /\ /\ rt.phase = "running" /\ p.alive /\ p.phase # "resuming" =>
               Wants(rt) \cup Holds(owner) \subseteq Wants(s) \cup Holds(p)
         /\ Kept(rt, owner)
         => Kept(s, p)
  BY <1>1, <1>2, <1>3, ReadsTracks
<1> QED  BY <1>1, <1>2, <1>4 DEF Tracks

\* What was asked for stands where it stood.
Stand(r, t, k) == \A i \in Asks(r, k) : i \in Asks(t, k) /\ t.out[i] = r.out[i]

\* Of what a runtime asks when it asks for one thing more.
LEMMA OtherAsks ==
    ASSUME NEW r \in Runtimes, NEW x \in Wishes, NEW t, t.out = Append(r.out, x), NEW k
    PROVE  /\ x.k # k => Asks(t, k) = Asks(r, k)
           /\ Stand(r, t, k)
           /\ \A i \in Asks(t, k) : i \in Asks(r, k) \/ (i = Len(r.out) + 1 /\ t.out[i] = x)
           /\ \A i \in Asks(r, k) : i < Len(r.out) + 1
<1>1. r.out \in Seq(Wishes)
  BY DEF Runtimes
<1>2. /\ DOMAIN r.out = 1 .. Len(r.out) /\ DOMAIN t.out = 1 .. Len(r.out) + 1 /\ Len(r.out) \in Nat
      /\ t.out[Len(r.out) + 1] = x /\ \A i \in DOMAIN r.out : t.out[i] = r.out[i]
  <2>1. PICK u : u = t.out
    OBVIOUS
  <2> HIDE DEF Wishes, Runtimes
  <2>2. u = Append(r.out, x)
    BY <2>1
  <2> QED  BY <1>1, <2>1, <2>2, AppendParts
<1> HIDE DEF Wishes, Runtimes
<1>3. \A i \in Asks(r, k) : i \in Asks(t, k) /\ t.out[i] = r.out[i] /\ i < Len(r.out) + 1
  BY <1>2 DEF Asks
<1>4. \A i \in Asks(t, k) : i \in Asks(r, k) \/ (i = Len(r.out) + 1 /\ t.out[i] = x /\ x.k = k)
  BY <1>2 DEF Asks
<1> QED  BY <1>3, <1>4 DEF Stand

\* A frame is turned to: answered at once, or painted.
LEMMA PaintComing ==
    ASSUME Types, PortInv', NEW q \in Owners, ~Unanswered(q), q.phase = "running", NEW d \in Nat, Painting(q, d)
    PROVE  /\ Coming(owner', native')
           /\ owner'.phase = q.phase /\ owner'.gen = q.gen /\ owner'.alive = q.alive
           /\ d # 0 => Keeps(q, owner') /\ d \in Holds(owner')
<1>1. PICK p : p = owner'
  OBVIOUS
<1>2. PICK h : h = native'
  OBVIOUS
<1>3. p \in Owners /\ h \in Helpers /\ Exchange(p, h)
  BY <1>1, <1>2 DEF PortInv, Types, Core
<1> HIDE DEF Owners, Helpers
<1>4. Talks(q, p, {"draw", "credit"}) /\ p.queued = q.queued /\ Turned(q, p, d)
  BY <1>1, PaintingStep
<1>5. p.phase = q.phase /\ p.gen = q.gen /\ p.alive = q.alive
  BY <1>4 DEF Talks, SamePhase
<1>6. d # 0 => Keeps(q, p) /\ d \in Holds(p)
  BY <1>4, TurnedKeeps
<1>7. Coming(p, h)
  <2>1. CASE p.pending = q.pending /\ p.replied = q.replied
    BY <2>1 DEF Coming, Unanswered
  <2>2. CASE p.wire = Append(q.wire, [k |-> "draw", n |-> q.seq + 1])
    <3>1. q.wire \in Seq(Commands) /\ q.seq + 1 \in Nat
      BY DEF Owners
    <3>2. PICK w \in Seq(Commands) : w = q.wire
      BY <3>1
    <3>3. PICK n \in Nat : n = q.seq + 1
      BY <3>1
    <3> HIDE DEF Commands
    <3>4. p.wire = Append(w, [k |-> "draw", n |-> n]) /\ p.phase = "running"
      BY <1>5, <2>2, <3>2, <3>3
    <3> QED  BY <1>3, <3>4, ComingFresh
  <2> QED  BY <1>4, <2>1, <2>2 DEF Turned
<1> QED  BY <1>1, <1>2, <1>5, <1>6, <1>7

LEMMA WantsRest ==
    ASSUME Types, Drawn(rt, owner), NEW k, FromRuntime(k)
    PROVE  /\ \A w \in Wants(rt) : w \in Wants(rt') \/ (k = "draw" /\ w = Asked)
           /\ k = "draw" => Asked \in Nat /\ Asked # 0
<1>1. rt \in Runtimes
  BY DEF Types
<1>2. rt.out # <<>> /\ Head(rt.out).k = k /\ rt'.out = Tail(rt.out) /\ Reads(rt, rt')
  BY ListenedRuntime, AskedReads
<1>3. PICK s : s = rt'
  OBVIOUS
<1> HIDE DEF Runtimes
<1>4. \A w \in Wants(rt) : w \in Wants(s) \/ (s.out # rt.out /\ Head(rt.out).k = "draw" /\ w = Head(rt.out).n)
  BY <1>1, <1>2, <1>3, RestWants
<1>5. ASSUME k = "draw" PROVE Asked \in Nat /\ Asked # 0
  <2>1. Rising(rt) /\ Wants(rt) \subseteq 1 .. rt.asked
    BY DEF Drawn
  <2>2. Head(rt.out).n \in Wants(rt)
    BY <1>1, <1>2, <1>3, <1>5, <2>1, FirstWanted
  <2>3. rt.asked \in Nat
    BY <1>1 DEF Runtimes
  <2> QED  BY <2>1, <2>2, <2>3 DEF Asked
<1> QED  BY <1>2, <1>3, <1>4, <1>5 DEF Asked

LEMMA OwnerDrawTracks ==
    ASSUME PortInv, PortInv', Drawn(rt, owner), TrackInv, OwnerDraw
    PROVE  Tracks
<1>1. /\ Types /\ owner \in Owners /\ rt \in Runtimes /\ FromRuntime("draw") /\ native' = native
      /\ Coming(owner, native) /\ Unclosed(rt, owner) /\ (NoSettings => Stepping(rt, owner)) /\ Binding(rt, owner.slot, owner.gen)
  BY DEF PortInv, Types, OwnerDraw, FromRuntime, TrackInv, Core
<1>2. Reads(rt, rt')
  BY <1>1, AskedReads
<1>3. /\ \A w \in Wants(rt) : w \in Wants(rt') \/ w = Asked
      /\ Asked \in Nat /\ Asked # 0
  BY <1>1, WantsRest
<1>4. 1 \in Asks(rt, "draw")
  BY <1>1, ListenedRuntime
<1> HIDE DEF Types
<1>5. CASE owner.phase = "running" /\ owner.pending = None /\ Painting(owner, Asked)
  <2>1. ~Unanswered(owner)
    BY <1>5 DEF Unanswered, None
  <2>2. PICK d \in Nat : d = Asked
    BY <1>3
  <2> HIDE DEF Owners, Asked
  <2>3. /\ Coming(owner', native') /\ owner'.phase = owner.phase /\ owner'.gen = owner.gen /\ owner'.alive = owner.alive
        /\ Keeps(owner, owner') /\ d \in Holds(owner')
    BY <1>1, <1>3, <1>5, <2>1, <2>2, PaintComing
  <2>4. Wants(rt) \cup Holds(owner) \subseteq Wants(rt') \cup Holds(owner')
    BY <1>3, <2>2, <2>3 DEF Keeps
  <2> QED  BY <1>1, <1>2, <2>3, <2>4, QuietTracks
<1>6. CASE owner.phase = "running" /\ owner.pending # None
           /\ owner' = [DropQueued(owner) EXCEPT !.queued = Asked]
  <2>1. PICK d \in Nat : d = Asked
    BY <1>3
  <2>2. PICK p : p = owner'
    OBVIOUS
  <2> HIDE DEF Owners, Asked
  <2>3. p = Queued(owner, d)
    BY <1>6, <2>1, <2>2 DEF Queued
  <2>4. /\ Keeps(owner, p) /\ d \in Holds(p)
        /\ p \in Owners /\ SamePhase(owner, p) /\ Longer(owner.wire, p.wire) /\ (Unanswered(p) => Unanswered(owner))
    BY <1>1, <1>3, <2>1, <2>3, QueuedKeeps
  <2>5. p.gen = owner.gen /\ p.phase = owner.phase /\ p.alive = owner.alive
    BY <2>4 DEF SamePhase
  <2>6. Coming(p, native)
    <3>1. Asking(p) => Asking(owner)
      BY <2>4, <2>5 DEF Asking
    <3> QED  BY <1>1, <2>4, <3>1, ComingTalk
  <2>7. Wants(rt) \cup Holds(owner) \subseteq Wants(rt') \cup Holds(owner')
    BY <1>3, <2>1, <2>2, <2>4 DEF Keeps
  <2>8. Coming(owner', native') /\ owner'.gen = owner.gen /\ owner'.phase = owner.phase /\ owner'.alive = owner.alive
    BY <1>1, <2>2, <2>5, <2>6
  <2> QED  BY <1>1, <1>2, <2>7, <2>8, QuietTracks
<1>7. CASE owner.phase # "running" /\ Ignore
  <2>1. owner' = owner
    BY <1>7 DEF Ignore
  <2>2. Coming(owner', native')
    BY <1>1, <2>1
  <2>3. ASSUME NoSettings, rt.phase = "running" PROVE owner.phase = "resuming"
    <3>1. owner.phase \notin {"suspending", "suspended"}
      BY <1>1, <1>4, <2>3 DEF Stepping
    <3>2. owner.phase \notin Gone
      BY <1>1, <2>3 DEF Unclosed
    <3>3. owner.phase # "initializing"
      BY <1>1, <2>3 DEF Drawn, Idle, Binding
    <3>4. owner.phase \in {"initializing", "running", "suspending", "suspended", "resuming", "closing", "restored", "left"}
      BY <1>1 DEF Owners
    <3> QED  BY <1>7, <3>1, <3>2, <3>3, <3>4 DEF Gone
  <2> QED  BY <1>1, <1>2, <2>1, <2>2, <2>3, QuietTracks
<1> QED  BY <1>5, <1>6, <1>7 DEF OwnerDraw

Heeded == native' = native \/ (native.out # <<>> /\ native' = [native EXCEPT !.out = Tail(@)] /\ Head(native.out).k \notin Shows)

LEMMA ComingStep ==
    ASSUME Types, TrackInv, owner' \in Owners, Longer(owner.wire, owner'.wire), Asking(owner') => Asking(owner), Heeded
    PROVE  Coming(owner', native')
<1>1. PICK p \in Owners : p = owner'
  OBVIOUS
<1>2. owner \in Owners /\ native \in Helpers /\ Coming(owner, native)
  BY DEF Types, TrackInv
<1>3. Longer(owner.wire, p.wire) /\ (Asking(p) => Asking(owner))
  BY <1>1
<1> HIDE DEF Owners, Helpers
<1>4. CASE native' = native
  BY <1>1, <1>2, <1>3, <1>4, ComingTalk
<1>5. CASE native.out # <<>> /\ native' = [native EXCEPT !.out = Tail(@)] /\ Head(native.out).k \notin Shows
  <2>1. PICK g : g = native'
    OBVIOUS
  <2>2. g.st = native.st /\ Heard(g) = Tail(Heard(native)) /\ Heard(native) # <<>> /\ Heard(native)[1] = Head(native.out).k
    BY <1>5, <2>1, RecordHelper
  <2>3. Heard(native)[1] \notin Shows
    BY <1>5, <2>2
  <2> QED  BY <1>1, <1>2, <1>3, <2>1, <2>2, <2>3, ComingRecord
<1> QED  BY <1>4, <1>5 DEF Heeded

\* The owner goes on in its phase, holds what it held, and sends.
LEMMA TalkTracks ==
    ASSUME Types, TrackInv, Reads(rt, rt'), Wants(rt) \subseteq Wants(rt'), Heeded,
           NEW q \in Owners, SamePhase(owner, q), q.wire = owner.wire, Keeps(owner, q),
           Unanswered(q) => Unanswered(owner), NEW K, Talks(q, owner', K), SameDraws(q, owner')
    PROVE  Tracks
<1>1. /\ owner' \in Owners /\ Longer(owner.wire, owner'.wire)
      /\ owner'.phase = owner.phase /\ owner'.gen = owner.gen /\ owner'.alive = owner.alive
  BY DEF Talks, SamePhase
<1>2. (Unanswered(owner') <=> Unanswered(q)) /\ Holds(owner') = Holds(q)
  BY SameSettles
<1>3. Asking(owner') => Asking(owner)
  BY <1>1, <1>2 DEF Asking
<1> HIDE DEF Types
<1>4. Coming(owner', native')
  BY <1>1, <1>3, ComingStep
<1> QED  BY <1>1, <1>2, <1>4, QuietTracks DEF Keeps

\* The owner changes neither its wire nor its phase.
LEMMA StillTracks ==
    ASSUME Types, TrackInv, Reads(rt, rt'), Wants(rt) \subseteq Wants(rt'), Heeded,
           NEW q \in Owners, owner' = q, q.phase = owner.phase, q.gen = owner.gen, q.alive => owner.alive,
           q.wire = owner.wire, q.alive => Keeps(owner, q), Unanswered(q) => Unanswered(owner)
    PROVE  Tracks
<1>1. Longer(owner.wire, owner'.wire)
  BY DEF Longer
<1>2. Asking(owner') => Asking(owner)
  BY DEF Asking
<1> HIDE DEF Types
<1>3. Coming(owner', native')
  BY <1>1, <1>2, ComingStep
<1> QED  BY <1>3, QuietTracks DEF Keeps

LEMMA KeepsItself ==
    ASSUME NEW o, NEW p, SameDraws(o, p)
    PROVE  Keeps(o, p) /\ (Unanswered(p) => Unanswered(o))
BY SameSettles DEF Keeps

LEMMA IgnoreTracks ==
    ASSUME PortInv, Drawn(rt, owner), TrackInv, NEW k, k # "draw", FromRuntime(k), Ignore
    PROVE  Tracks
<1>1. Types /\ owner \in Owners /\ owner' = owner /\ native' = native
  BY DEF PortInv, Types, Ignore, FromRuntime
<1>2. Reads(rt, rt') /\ Wants(rt) \subseteq Wants(rt')
  BY <1>1, AskedReads, WantsRest
<1>3. Keeps(owner, owner)
  BY DEF Keeps
<1> HIDE DEF Types, Owners
<1> QED  BY <1>1, <1>2, <1>3, StillTracks DEF Heeded

LEMMA OwnerShutdownTracks ==
    ASSUME PortInv, Drawn(rt, owner), TrackInv, OwnerShutdown
    PROVE  Tracks
<1>1. Types /\ owner \in Owners /\ FromRuntime("shutdown") /\ Unclosed(rt, owner)
  BY DEF PortInv, Types, OwnerShutdown, TrackInv
<1>2. 1 \in Asks(rt, "shutdown") /\ rt'.phase = rt.phase
  BY <1>1, ListenedRuntime DEF Listened
<1>3. rt'.phase \notin {"binding", "running"}
  BY <1>1, <1>2 DEF Unclosed
<1> DEFINE q == Phased(DropQueued(owner), "closing", "shutdown", "shutdown")
<1>4. q \in Owners /\ q.phase = "closing"
  BY <1>1, DropPhased
<1>5. Control(q, "shutdown")
  BY DEF OwnerShutdown, Phased
<1> HIDE DEF q, Types
<1>6. owner'.phase = "closing"
  <2>1. "shutdown" \in Operations
    BY DEF Operations
  <2> HIDE DEF Operations
  <2>2. Talks(q, owner', {"shutdown"})
    BY <1>1, <1>4, <1>5, <2>1, ControlStep
  <2> QED  BY <1>4, <2>2 DEF Talks, SamePhase
<1> QED  BY <1>3, <1>6, ClosedTracks DEF Coming

LEMMA DropPhasedKeeps ==
    ASSUME NEW o \in Owners, NEW phase \in {"suspending", "resuming", "closing"},
           NEW timer \in {"suspend", "resume", "shutdown"}, NEW k \in {"shutdown", "suspend", "resume"},
           NEW p, p = Phased(DropQueued(o), phase, timer, k)
    PROVE  /\ p \in Owners /\ p.phase = phase /\ p.gen = o.gen /\ p.alive = o.alive /\ p.wire = o.wire
           /\ Keeps(o, p) /\ (Unanswered(p) <=> Unanswered(o))
<1> DEFINE q == DropQueued(o)
<1>1. /\ q \in Owners /\ SamePhase(o, q) /\ q.wire = o.wire
      /\ q.told = IF o.queued = 0 THEN o.told ELSE Append(o.told, [k |-> "draw_result", draw |-> o.queued])
      /\ q.queued = 0 /\ q.pending = o.pending /\ q.replied = o.replied
  <2> HIDE DEF Owners
  <2> QED  BY DropOwner
<1> HIDE DEF Owners, q
<1>2. /\ p \in Owners /\ p.phase = phase /\ p.gen = q.gen /\ p.wire = q.wire /\ p.alive = q.alive
      /\ p.told = q.told /\ p.queued = q.queued /\ p.pending = q.pending /\ p.replied = q.replied
  BY <1>1, PhasedOwner DEF q
<1>3. Keeps(o, q)
  BY <1>1, DropKeeps
<1>4. Holds(p) = Holds(q) /\ (Unanswered(p) <=> Unanswered(q))
  BY <1>2, SameSettles DEF SameDraws
<1>5. Unanswered(q) <=> Unanswered(o)
  BY <1>1 DEF Unanswered
<1> QED  BY <1>1, <1>2, <1>3, <1>4, <1>5 DEF Keeps, SamePhase

LEMMA OwnerSuspendTracks ==
    ASSUME PortInv, Drawn(rt, owner), TrackInv, OwnerSuspend
    PROVE  Tracks
<1>1. /\ Types /\ owner \in Owners /\ rt \in Runtimes /\ FromRuntime("suspend") /\ native' = native
      /\ Unclosed(rt, owner) /\ Requests(rt, owner.phase, owner.gen) /\ (NoSettings => Stepping(rt, owner))
  BY DEF PortInv, Types, OwnerSuspend, TrackInv, Core, FromRuntime
<1>2. Reads(rt, rt') /\ Wants(rt) \subseteq Wants(rt')
  BY <1>1, AskedReads, WantsRest
<1>3. CASE Ignore
  BY <1>1, <1>3, IgnoreTracks
<1>4. CASE owner.phase = "running" /\ owner.gen = Asked
           /\ Control([DropQueued(owner) EXCEPT !.phase = "suspending", !.timer = "suspend",
                                                !.control = [k |-> "suspend", n |-> 0]], "suspend")
  <2> DEFINE q == Phased(DropQueued(owner), "suspending", "suspend", "suspend")
  <2>1. /\ q \in Owners /\ q.phase = "suspending" /\ q.gen = owner.gen /\ q.alive = owner.alive /\ q.wire = owner.wire
        /\ Keeps(owner, q) /\ (Unanswered(q) <=> Unanswered(owner))
    BY <1>1, DropPhasedKeeps
  <2>2. Control(q, "suspend")
    BY <1>4 DEF Phased
  <2> HIDE DEF q, Types
  <2>3. Talks(q, owner', {"suspend"}) /\ SameDraws(q, owner')
    <3>1. "suspend" \in Operations
      BY DEF Operations
    <3> HIDE DEF Operations
    <3> QED  BY <1>1, <2>1, <2>2, <3>1, ControlStep
  <2>4. /\ owner' \in Owners /\ Longer(owner.wire, owner'.wire)
        /\ owner'.phase = "suspending" /\ owner'.gen = owner.gen /\ owner'.alive = owner.alive
    BY <2>1, <2>3 DEF Talks, SamePhase
  <2>5. (Unanswered(owner') <=> Unanswered(q)) /\ Holds(owner') = Holds(q)
    BY <2>3, SameSettles
  <2>6. Coming(owner', native')
    <3>1. Asking(owner') => Asking(owner)
      BY <1>4, <2>1, <2>4, <2>5 DEF Asking
    <3> QED  BY <1>1, <2>4, <3>1, ComingStep DEF Heeded
  <2>7. /\ rt'.phase = rt.phase /\ rt'.draw = rt.draw /\ rt'.life = rt.life
        /\ rt'.out = Tail(rt.out) /\ rt.out # <<>> /\ 1 \in Asks(rt, "suspend") /\ rt.out[1].n = Asked
    <3>1. rt'.out = Tail(rt.out) /\ rt.out # <<>> /\ 1 \in Asks(rt, "suspend")
      BY <1>1, ListenedRuntime
    <3>2. rt.out[1] = Head(rt.out)
      <4>1. rt.out \in Seq(Wishes)
        BY <1>1 DEF Runtimes
      <4> HIDE DEF Wishes
      <4> QED  BY <3>1, <4>1
    <3> QED  BY <1>2, <3>1, <3>2 DEF Reads, Listened, Asked
  <2>8. \A k : /\ \A i \in Asks(rt', k) : i \in Nat /\ i + 1 \in Asks(rt, k)
               /\ Asks(rt, k) = {} => Asks(rt', k) = {}
    <3>1. PICK s : s = rt'
      OBVIOUS
    <3> HIDE DEF Runtimes
    <3>2. \A k : /\ \A i \in Asks(s, k) : i \in Nat /\ i + 1 \in Asks(rt, k)
                 /\ Asks(rt, k) = {} => Asks(s, k) = {}
      BY <1>1, <2>7, <3>1, AsksRest
    <3> QED  BY <3>1, <3>2
  <2> HIDE DEF Runtimes, Owners
  <2>9. Unclosed(rt', owner')
    BY <1>1, <2>4, <2>7, <2>8 DEF Unclosed, Gone
  <2>10. ASSUME Kept(rt, owner) PROVE Kept(rt', owner')
    BY <1>2, <1>4, <2>1, <2>4, <2>5, <2>7, <2>10 DEF Kept, Keeps
  <2>11. ASSUME NoSettings, rt.phase = "running" PROVE rt.life = "suspend_requested" /\ Asks(rt, "draw") = {}
    <3>1. rt.life = "suspend_requested" /\ \A j \in Asks(rt, "draw") : j < 1
      BY <1>1, <1>4, <2>7, <2>11 DEF Stepping
    <3>2. \A j \in Asks(rt, "draw") : j \in Nat /\ j # 0
      <4>1. rt.out \in Seq(Wishes)
        BY <1>1 DEF Runtimes
      <4> HIDE DEF Wishes
      <4> QED  BY <4>1 DEF Asks
    <3>3. \A j \in Asks(rt, "draw") : FALSE
      BY <3>1, <3>2
    <3> QED  BY <3>1, <3>3
  <2>12. Asks(rt', "suspend") = {}
    <3>1. \A i \in Asks(rt', "suspend") : i \in Nat /\ i + 1 \in Asks(rt, "suspend")
      BY <2>8
    <3>2. \A i \in Asks(rt, "suspend") : i = 1
      BY <1>1, <2>7 DEF Requests
    <3>3. \A i \in Asks(rt', "suspend") : FALSE /\ i \in Nat
      <4>1. ASSUME NEW i \in Asks(rt', "suspend") PROVE FALSE
        <5>1. i \in Nat /\ i + 1 = 1
          BY <3>1, <3>2
        <5>2. 0 \in Asks(rt', "suspend")
          BY <5>1
        <5>3. rt' \in Runtimes
          BY <1>1, ListenedRuntime
        <5>4. rt'.out \in Seq(Wishes)
          BY <5>3 DEF Runtimes
        <5>5. 0 \notin DOMAIN rt'.out
          <6> HIDE DEF Wishes
          <6> QED  BY <5>4
        <5> QED  BY <5>2, <5>5 DEF Asks
      <4> QED  BY <4>1
    <3> QED  BY <3>3
  <2>13. ASSUME NoSettings PROVE Stepping(rt', owner')
    BY <2>4, <2>7, <2>8, <2>11, <2>12, <2>13 DEF Stepping
  <2> QED  BY <2>6, <2>9, <2>10, <2>13 DEF Tracks
<1> QED  BY <1>1, <1>3, <1>4 DEF OwnerSuspend

LEMMA OwnerResumeTracks ==
    ASSUME PortInv, Drawn(rt, owner), TrackInv, OwnerResume
    PROVE  Tracks
<1>1. Types /\ owner \in Owners /\ FromRuntime("resume") /\ native' = native
  BY DEF PortInv, Types, OwnerResume, FromRuntime
<1>2. Reads(rt, rt')
  BY <1>1, AskedReads
<1>3. CASE Ignore
  BY <1>1, <1>3, IgnoreTracks
<1>4. CASE owner.phase = "suspended"
  <2> DEFINE q == Phased(owner, "resuming", "resume", "resume")
  <2>1. q \in Owners /\ q.phase = "resuming" /\ q.gen = owner.gen /\ q.alive = owner.alive
    BY <1>1, PhasedOwner
  <2>2. Control(q, "resume")
    BY <1>4 DEF OwnerResume, Phased
  <2> HIDE DEF q, Types
  <2>3. Talks(q, owner', {"resume"})
    <3>1. "resume" \in Operations
      BY DEF Operations
    <3> HIDE DEF Operations
    <3> QED  BY <1>1, <2>1, <2>2, <3>1, ControlStep
  <2>4. owner'.phase = "resuming" /\ owner'.gen = owner.gen /\ owner'.alive = owner.alive
    BY <2>1, <2>3 DEF Talks, SamePhase
  <2>5. Coming(owner', native')
    BY <2>4 DEF Coming
  <2> QED  BY <1>1, <1>2, <2>4, <2>5, QuietTracks
<1> QED  BY <1>3, <1>4 DEF OwnerResume

LEMMA OwnerRedrawTracks ==
    ASSUME PortInv, Drawn(rt, owner), TrackInv, OwnerRedraw
    PROVE  Tracks
<1>1. Types /\ owner \in Owners /\ FromRuntime("redraw") /\ native' = native
  BY DEF PortInv, Types, OwnerRedraw, FromRuntime
<1>2. Reads(rt, rt') /\ Wants(rt) \subseteq Wants(rt') /\ Heeded
  BY <1>1, AskedReads, WantsRest DEF Heeded
<1>3. CASE Control(owner, "redraw")
  <2>1. "redraw" \in Operations
    BY DEF Operations
  <2> HIDE DEF Operations, Types, Owners
  <2>2. Talks(owner, owner', {"redraw"}) /\ SameDraws(owner, owner')
    BY <1>1, <1>3, <2>1, ControlStep
  <2>3. SamePhase(owner, owner) /\ Keeps(owner, owner)
    BY <1>1, TalksNothing DEF Keeps
  <2> QED  BY <1>1, <1>2, <2>2, <2>3, TalkTracks
<1> QED  BY <1>1, <1>3, IgnoreTracks DEF OwnerRedraw

LEMMA OwnerMouseTracks ==
    ASSUME PortInv, PortInv', Drawn(rt, owner), TrackInv, OwnerMouse
    PROVE  Tracks
<1>1. Types /\ owner \in Owners /\ FromRuntime("mouse") /\ native' = native /\ owner' \in Owners
  BY DEF PortInv, Types, OwnerMouse, FromRuntime
<1>2. Reads(rt, rt') /\ Wants(rt) \subseteq Wants(rt') /\ Heeded
  BY <1>1, AskedReads, WantsRest DEF Heeded
<1>3. CASE Control(owner, "mouse")
  <2>1. "mouse" \in Operations
    BY DEF Operations
  <2> HIDE DEF Operations, Types, Owners
  <2>2. Talks(owner, owner', {"mouse"}) /\ SameDraws(owner, owner')
    BY <1>1, <1>3, <2>1, ControlStep
  <2>3. SamePhase(owner, owner) /\ Keeps(owner, owner)
    BY <1>1, TalksNothing DEF Keeps
  <2> QED  BY <1>1, <1>2, <2>2, <2>3, TalkTracks
<1>4. CASE \E b : owner' = [owner EXCEPT !.outbox = b]
  <2>1. PICK q \in Owners : q = owner'
    BY <1>1
  <2>2. /\ SameDraws(owner, q) /\ q.phase = owner.phase /\ q.gen = owner.gen /\ q.alive = owner.alive
        /\ q.wire = owner.wire
    BY <1>1, <1>4, <2>1 DEF Owners, SameDraws
  <2> HIDE DEF Types, Owners
  <2>3. Keeps(owner, q) /\ (Unanswered(q) => Unanswered(owner))
    BY <2>2, KeepsItself
  <2> QED  BY <1>1, <1>2, <2>1, <2>2, <2>3, StillTracks
<1>5. CASE owner' = [owner EXCEPT !.outbox = RemoveAt(@, CHOOSE i \in DOMAIN @ : @[i] = "mouse")]
  BY <1>4, <1>5
<1> QED  BY <1>1, <1>3, <1>5, IgnoreTracks DEF OwnerMouse

-----------------------------------------------------------------------------
(* The records of the helper and the timers.                               *)

LEMMA EndTracks ==
    ASSUME Types, TrackInv, rt' = rt, ~owner'.alive, owner'.phase = owner.phase, owner'.gen = owner.gen,
           owner.alive
    PROVE  Tracks
<1>1. Reads(rt, rt')
  BY StillReads
<1>2. Coming(owner', native')
  BY DEF Coming
<1> QED  BY <1>1, <1>2, QuietTracks

LEMMA StopsTracks ==
    ASSUME Types, TrackInv, owner.alive,
           NEW why \in {"no", "initialization", "call", "error", "protocol", "unavailable", "timeout"}, Stops(why)
    PROVE  Tracks
<1>1. owner \in Owners /\ rt' = rt /\ owner' = [owner EXCEPT !.alive = FALSE, !.fail = why]
  BY DEF Types, Stops
<1>2. ~owner'.alive /\ owner'.phase = owner.phase /\ owner'.gen = owner.gen
  BY <1>1 DEF Owners
<1> QED  BY <1>1, <1>2, EndTracks

LEMMA OwnerOrphanTracks ==
    ASSUME Types, TrackInv, OwnerOrphan
    PROVE  Tracks
<1>1. owner \in Owners /\ rt' = rt /\ rt.phase = "over"
  BY DEF Types, OwnerOrphan
<1>2. Coming(owner', native')
  <2>1. CASE owner.phase = "restored" /\ owner' = [owner EXCEPT !.down = TRUE]
    <3>1. owner'.phase = "restored"
      BY <1>1, <2>1 DEF Owners
    <3> QED  BY <3>1 DEF Coming
  <2>2. CASE owner' = [owner EXCEPT !.alive = FALSE, !.fail = IF owner.slot THEN "no" ELSE "initialization"]
    <3>1. ~owner'.alive
      BY <1>1, <2>2 DEF Owners
    <3> QED  BY <3>1 DEF Coming
  <2> QED  BY <2>1, <2>2 DEF OwnerOrphan
<1> QED  BY <1>1, <1>2, ClosedTracks

LEMMA OwnerPaintedTracks ==
    ASSUME PortInv, PortInv', TrackInv, OwnerPainted
    PROVE  Tracks
<1>1. Types /\ owner \in Owners /\ rt' = rt /\ owner.pending.k = "draw"
  BY DEF PortInv, Types, OwnerPainted
<1>2. Reads(rt, rt') /\ Wants(rt') = Wants(rt)
  BY <1>1, StillReads
<1> DEFINE q == Painted(owner)
           e == [q EXCEPT !.queued = 0]
<1>3. /\ q \in Owners /\ SamePhase(owner, q) /\ q.told = Answer(owner).told /\ q.queued = owner.queued
      /\ q.pending = None /\ q.queued \in Nat
  <2>1. q \in Owners /\ SamePhase(owner, q)
    BY <1>1, PaintedOwner
  <2>2. q.told = Answer(owner).told /\ q.queued = owner.queued /\ q.pending = None
    BY <1>1, PaintedOwner
  <2>3. q.queued \in Nat
    BY <2>1 DEF Owners
  <2> QED  BY <2>1, <2>2, <2>3
<1>4. (q.phase = "running" /\ q.queued # 0 /\ Painting(e, q.queued)) \/ Granting(q)
  BY DEF OwnerPainted, Painted, Answer
<1> HIDE DEF q, Types
<1>5. ~Unanswered(q)
  BY <1>3, NoneApart DEF Unanswered
<1>6. Keeps(owner, q)
  BY <1>1, <1>3, AnswerKeeps
<1>7. q.gen = owner.gen /\ q.phase = owner.phase /\ q.alive = owner.alive
  BY <1>3 DEF SamePhase
<1>8. CASE Granting(q)
  <2>1. Talks(q, owner', {"credit"}) /\ SameDraws(q, owner')
    BY <1>1, <1>3, <1>8, GrantingStep
  <2>2. ~Unanswered(owner') /\ Holds(owner') = Holds(q)
    BY <1>5, <2>1, SameSettles
  <2>3. Coming(owner', native')
    BY <2>2 DEF Coming
  <2>4. owner'.gen = owner.gen /\ owner'.phase = owner.phase /\ owner'.alive = owner.alive
    BY <1>7, <2>1 DEF Talks, SamePhase
  <2> QED  BY <1>1, <1>2, <1>6, <2>2, <2>3, <2>4, QuietTracks DEF Keeps
<1>9. CASE q.phase = "running" /\ q.queued # 0 /\ Painting(e, q.queued)
  <2>1. e \in Owners /\ SamePhase(q, e) /\ e.told = q.told /\ e.queued = 0 /\ e.pending = q.pending /\ e.replied = q.replied
    BY <1>3, Unqueued
  <2>2. PICK d \in Nat : d = q.queued
    BY <1>3
  <2> HIDE DEF e, Owners
  <2>3. ~Unanswered(e) /\ e.phase = "running" /\ e.gen = q.gen /\ e.alive = q.alive
    BY <1>5, <1>9, <2>1 DEF Unanswered, SamePhase
  <2>4. Painting(e, d) /\ d # 0
    BY <1>9, <2>2
  <2>5. /\ Coming(owner', native')
        /\ owner'.phase = e.phase /\ owner'.gen = e.gen /\ owner'.alive = e.alive
        /\ Keeps(e, owner') /\ d \in Holds(owner')
    BY <1>1, <2>1, <2>3, <2>4, PaintComing
  <2>6. \A w \in Holds(q) : w \in Holds(e) \/ w = d
    <3>1. Told(e) = Told(q)
      BY <2>1, SameTold
    <3>2. \A w \in Open(q) : w = d
      BY <1>5, <2>2 DEF Open
    <3> QED  BY <3>1, <3>2 DEF Holds
  <2>7. Holds(owner) \subseteq Holds(owner')
    BY <1>6, <2>5, <2>6 DEF Keeps
  <2>8. owner'.gen = owner.gen /\ owner'.phase = owner.phase /\ owner'.alive = owner.alive
    BY <1>7, <1>9, <2>3, <2>5
  <2> QED  BY <1>1, <1>2, <2>5, <2>7, <2>8, QuietTracks
<1> QED  BY <1>4, <1>8, <1>9

LEMMA OwnerInputTracks ==
    ASSUME Types, TrackInv, OwnerInput
    PROVE  Tracks
<1>1. owner \in Owners /\ rt' = rt /\ owner.alive
  BY DEF Types, OwnerInput, Stops, Record
<1>2. Reads(rt, rt') /\ Wants(rt) \subseteq Wants(rt')
  BY <1>1, StillReads
<1>3. Heeded
  BY DEF OwnerInput, Record, Heeded, Shows
<1> DEFINE q == [owner EXCEPT !.credit = 0]
<1>4. q \in Owners
  BY <1>1, ZenonT(60) DEF Owners
<1>5. /\ SameDraws(owner, q) /\ SamePhase(owner, q) /\ q.wire = owner.wire
      /\ q.phase = owner.phase /\ q.gen = owner.gen /\ q.alive = owner.alive
  BY <1>1 DEF Owners, SameDraws, SamePhase
<1>6. Keeps(owner, q) /\ (Unanswered(q) => Unanswered(owner))
  BY <1>5, KeepsItself
<1> HIDE DEF q, Owners, Types
<1>7. CASE Stops("call")
  BY <1>1, <1>7, StopsTracks
<1>8. CASE Granting(q)
  <2>1. Talks(q, owner', {"credit"}) /\ SameDraws(q, owner')
    BY <1>4, <1>8, GrantingStep
  <2> QED  BY <1>2, <1>3, <1>4, <1>5, <1>6, <2>1, TalkTracks
<1>9. CASE owner' = q
  BY <1>2, <1>3, <1>4, <1>5, <1>6, <1>9, StillTracks
<1> QED  BY <1>7, <1>8, <1>9 DEF OwnerInput, q

LEMMA OwnerRestoredTracks ==
    ASSUME PortInv, TrackInv, OwnerRestored
    PROVE  Tracks
<1>1. /\ owner \in Owners /\ rt' = rt /\ Awaits(owner.control, owner.phase) /\ owner.control.k = "shutdown"
      /\ Unclosed(rt, owner)
  BY DEF PortInv, Types, Core, OwnerRestored, TrackInv
<1>2. rt'.phase \notin {"binding", "running"}
  BY <1>1 DEF Awaits, Unclosed, Gone
<1>3. owner'.phase = "restored"
  BY <1>1 DEF OwnerRestored, Owners
<1> QED  BY <1>2, <1>3, ClosedTracks DEF Coming

LEMMA OwnerSuspendedTracks ==
    ASSUME PortInv, Drawn(rt, owner), TrackInv, OwnerSuspended
    PROVE  Tracks
<1>1. /\ owner \in Owners /\ rt \in Runtimes /\ native \in Helpers /\ Types /\ owner.alive
      /\ Awaits(owner.control, owner.phase) /\ Requests(rt, owner.phase, owner.gen) /\ owner.control.k = "suspend"
      /\ Unclosed(rt, owner) /\ Coming(owner, native) /\ (NoSettings => Stepping(rt, owner))
  BY DEF PortInv, Types, Core, OwnerSuspended, TrackInv, Record
<1>2. owner.phase = "suspending" /\ Asks(rt, "suspend") = {}
  BY <1>1 DEF Awaits, Requests
<1>3. ~Unanswered(owner)
  <2>1. Heard(native) # <<>> /\ Heard(native)[1] = "suspended"
    BY <1>1, RecordHelper DEF OwnerSuspended, Record
  <2>2. PICK g : Heard(g) = Tail(Heard(native))
    <3>1. native.out # <<>> /\ native' = [native EXCEPT !.out = Tail(@)]
      BY DEF OwnerSuspended, Record
    <3> QED  BY <1>1, <3>1, RecordHelper
  <2> HIDE DEF Helpers
  <2>3. ~Before(native)
    BY <1>1, <2>1, <2>2, HeardNext DEF Shows
  <2> QED  BY <1>1, <1>2, <2>3 DEF Coming, Pictured
<1>4. CASE Stops("call")
  BY <1>1, <1>4, StopsTracks
<1>5. CASE /\ rt' = Suspended(rt, owner.gen)
           /\ owner' = [owner EXCEPT !.phase = "suspended", !.control = None, !.pending = None,
                                     !.replied = FALSE, !.credit = 0, !.timer = "none"]
  <2>1. /\ owner'.told = owner.told /\ owner'.phase = "suspended" /\ owner'.pending = None
        /\ owner'.queued = owner.queued /\ owner'.gen = owner.gen /\ owner'.alive = owner.alive
    BY <1>1, <1>5 DEF Owners
  <2>2. PICK s : s = rt'
    OBVIOUS
  <2>3. /\ s.out = rt.out /\ s.draw = rt.draw /\ s.phase = rt.phase
        /\ rt.phase = "running" /\ rt.gen = owner.gen => s.life = "suspended"
    BY <1>1, <1>5, <2>2, SuspendedRuntime
  <2> HIDE DEF Runtimes, Owners
  <2>4. Open(owner) \subseteq Open(owner') /\ Told(owner') = Told(owner)
    <3>1. Told(owner') = Told(owner)
      BY <2>1, SameTold
    <3>2. Open(owner) \subseteq Open(owner')
      BY <1>3, <2>1 DEF Open
    <3> QED  BY <3>1, <3>2
  <2>5. \A k : Asks(s, k) = Asks(rt, k)
    BY <2>3 DEF Asks
  <2>6. Wants(s) = Wants(rt)
    BY <2>3, <2>5 DEF Wants
  <2>7. Unclosed(s, owner')
    BY <1>1, <2>1, <2>3, <2>5 DEF Unclosed, Gone
  <2>8. Kept(rt, owner) => Kept(s, owner')
    BY <1>2, <2>1, <2>3, <2>4, <2>6 DEF Kept, Holds
  <2>9. ASSUME NoSettings PROVE Stepping(s, owner')
    <3>1. rt.phase = "running" => rt.gen = owner.gen
      BY DEF Drawn
    <3> QED  BY <1>1, <1>2, <2>1, <2>3, <2>5, <2>9, <3>1 DEF Stepping
  <2>10. Coming(owner', native')
    BY <2>1 DEF Coming
  <2> QED  BY <2>2, <2>7, <2>8, <2>9, <2>10 DEF Tracks
<1> QED  BY <1>4, <1>5 DEF OwnerSuspended

LEMMA OwnerReadyTracks ==
    ASSUME PortInv, Drawn(rt, owner), TrackInv, OwnerReady
    PROVE  Tracks
<1>1. /\ owner \in Owners /\ rt \in Runtimes /\ Types /\ owner.alive /\ Binding(rt, owner.slot, owner.gen)
      /\ Requests(rt, owner.phase, owner.gen) /\ Unclosed(rt, owner)
  BY DEF PortInv, Types, Core, TrackInv, OwnerReady, Record
<1>2. CASE Stops("call")
  BY <1>1, <1>2, StopsTracks
<1> DEFINE gen == IF owner.slot THEN owner.gen + 1 ELSE 1
<1>3. CASE /\ rt' = (IF owner.slot THEN Resumed(rt, gen) ELSE [rt EXCEPT !.phase = "running"])
           /\ owner' = [owner EXCEPT !.slot = TRUE, !.gen = gen, !.phase = "running",
                                     !.pending = None, !.credit = 0, !.control = None,
                                     !.input = FALSE, !.timer = "none"]
           /\ rt.phase # "over"
  <2>1. owner'.phase = "running" /\ owner'.pending = None /\ owner'.gen = gen
    <3> HIDE DEF gen
    <3> QED  BY <1>1, <1>3 DEF Owners
  <2>2. Coming(owner', native')
    BY <2>1 DEF Coming, Unanswered, None
  <2>3. CASE ~owner.slot
    <3>1. rt.phase = "binding" /\ rt.out = <<>> /\ rt.draw = 0
      BY <1>1, <1>3, <2>3 DEF Binding
    <3>2. rt'.out = <<>> /\ rt'.draw = 0
      BY <1>1, <1>3, <2>3, <3>1 DEF Runtimes
    <3>3. \A k : Asks(rt', k) = {}
      BY <3>2 DEF Asks
    <3>4. Unclosed(rt', owner') /\ Stepping(rt', owner') /\ Kept(rt', owner')
      BY <2>1, <3>2, <3>3 DEF Unclosed, Stepping, Kept, Gone
    <3> QED  BY <2>2, <3>4 DEF Tracks
  <2>4. CASE owner.slot
    <3>1. PICK n \in Nat : n = gen /\ n = owner.gen + 1
      BY <1>1, <2>4 DEF Owners
    <3>2. rt' = Resumed(rt, n) /\ owner'.gen = n
      BY <1>3, <2>1, <2>4, <3>1
    <3>3. rt.phase \in {"binding", "running"} => rt.phase = "running" /\ n > rt.gen /\ rt.gen \in Nat
      BY <1>1, <2>4, <3>1 DEF Drawn, Owners
    <3> HIDE DEF gen
    <3>4. CASE rt.phase = "running"
      <4>1. PICK s : s = rt'
        OBVIOUS
      <4>2. s # rt
        <5>1. rt'.gen = n
          BY <1>1, <3>2, <3>3, <3>4 DEF Resumed, Tell, Runtimes
        <5> QED  BY <3>3, <3>4, <4>1, <5>1
      <4>3. /\ s.phase = "running" /\ s.draw = 0 /\ s.life = "running"
            /\ s.out = Append(rt.out, [k |-> "resume", n |-> n])
        BY <1>1, <3>1, <3>2, <4>1, <4>2, ResumedRuntime
      <4>4. PICK x \in Wishes : x = [k |-> "resume", n |-> n]
        BY <3>1 DEF Wishes
      <4> HIDE DEF Runtimes, Wishes
      <4>5. ASSUME NEW k
            PROVE  /\ k # "resume" => Asks(s, k) = Asks(rt, k)
                   /\ \A i \in Asks(rt, k) : s.out[i] = rt.out[i]
        <5>1. s.out = Append(rt.out, x) /\ x.k = "resume"
          BY <4>3, <4>4
        <5>2. x.k # k => Asks(s, k) = Asks(rt, k)
          BY <1>1, <4>4, <5>1, OtherAsks
        <5>3. Stand(rt, s, k)
          BY <1>1, <4>4, <5>1, OtherAsks
        <5> QED  BY <5>1, <5>2, <5>3 DEF Stand
      <4>6. Unclosed(s, owner')
        BY <1>1, <2>1, <3>4, <4>3, <4>5 DEF Unclosed, Gone
      <4>7. \A i \in Asks(s, "suspend") : s.out[i].n # owner'.gen
        <5>1. \A i \in Asks(s, "suspend") : s.out[i].n <= rt.gen
          BY <1>1, <4>5 DEF Requests
        <5>2. \A m \in Nat : m <= rt.gen => m # n
          BY <3>1, <3>3, <3>4
        <5>3. \A i \in Asks(s, "suspend") : s.out[i].n \in Nat
          <6>1. \A i \in Asks(rt, "suspend") : rt.out[i].n \in Nat
            <7>1. rt.out \in Seq(Wishes)
              BY <1>1 DEF Runtimes
            <7>2. \A i \in DOMAIN rt.out : rt.out[i] \in Wishes
              BY <7>1
            <7> QED  BY <7>2 DEF Wishes, Asks
          <6> QED  BY <4>5, <6>1
        <5> QED  BY <3>2, <5>1, <5>2, <5>3
      <4>8. Stepping(s, owner') /\ Kept(s, owner')
        BY <2>1, <4>3, <4>7 DEF Stepping, Kept
      <4> QED  BY <2>2, <4>1, <4>6, <4>8 DEF Tracks
    <3>5. CASE rt.phase # "running"
      <4>1. rt' = rt
        BY <3>2, <3>5 DEF Resumed
      <4>2. rt'.phase \notin {"binding", "running"}
        BY <3>3, <3>5, <4>1
      <4> QED  BY <2>2, <4>2, ClosedTracks
    <3> QED  BY <3>4, <3>5
  <2> QED  BY <2>3, <2>4
<1> QED  BY <1>2, <1>3 DEF OwnerReady

LEMMA OwnerResumeNeededTracks ==
    ASSUME Types, TrackInv, OwnerResumeNeeded
    PROVE  Tracks
<1>1. owner \in Owners /\ rt' = rt /\ owner.alive
  BY DEF Types, OwnerResumeNeeded, Record
<1>2. Reads(rt, rt')
  BY <1>1, StillReads
<1> DEFINE x == DropQueued(Waiting(owner))
           v == [x EXCEPT !.phase = "resuming", !.pending = None, !.replied = FALSE, !.credit = 0, !.input = FALSE,
                          !.timer = "resume", !.control = [k |-> "resume", n |-> 0]]
           w == Recalled(owner)
           q == Phased(w, "resuming", "resume", "resume")
<1>3. Control(v, "resume")
  BY DEF OwnerResumeNeeded, Waiting
<1>4. x \in Owners
  <2>1. PICK y : y = Waiting(owner)
    OBVIOUS
  <2>2. y \in Owners
    BY <1>1, <2>1, WaitingOwner
  <2> QED  BY <2>1, <2>2, DropOwner
<1>5. q = [[x EXCEPT !.pending = None, !.replied = FALSE, !.credit = 0, !.input = FALSE]
             EXCEPT !.phase = "resuming", !.timer = "resume", !.control = [k |-> "resume", n |-> 0]]
  BY DEF Phased, Recalled
<1> HIDE DEF x, q
<1>6. q = v
  BY <1>4, <1>5 DEF Owners
<1> HIDE DEF v
<1>7. w \in Owners /\ w.gen = owner.gen
  BY <1>1, RecalledOwner
<1> HIDE DEF w
<1>8. q \in Owners /\ q.phase = "resuming" /\ q.gen = w.gen
  BY <1>7, PhasedOwner DEF q
<1>9. Talks(q, owner', {"resume"})
  <2>1. "resume" \in Operations
    BY DEF Operations
  <2> HIDE DEF Operations, Types
  <2> QED  BY <1>3, <1>6, <1>8, <2>1, ControlStep
<1> HIDE DEF Owners, Types
<1>10. owner'.phase = "resuming" /\ owner'.gen = owner.gen
  BY <1>7, <1>8, <1>9 DEF Talks, SamePhase
<1>11. Coming(owner', native')
  BY <1>10 DEF Coming
<1> QED  BY <1>1, <1>2, <1>10, <1>11, QuietTracks

LEMMA OwnerRefusesTracks ==
    ASSUME Types, TrackInv, OwnerRefuses
    PROVE  Tracks
<1>1. (Stops("error") \/ Stops("protocol")) /\ owner.alive
  BY DEF OwnerRefuses
<1> QED  BY <1>1, StopsTracks

LEMMA OwnerPortExitTracks ==
    ASSUME Types, TrackInv, OwnerPortExit
    PROVE  Tracks
<1>1. owner \in Owners /\ owner.alive /\ Unclosed(rt, owner)
  BY DEF Types, TrackInv, OwnerPortExit
<1>2. CASE Stops("unavailable")
  BY <1>1, <1>2, StopsTracks
<1>3. CASE /\ owner.phase = "restored" /\ rt' = rt
           /\ owner' = [owner EXCEPT !.phase = "left", !.timer = "none", !.alive = ~owner.down]
  <2>1. rt'.phase \notin {"binding", "running"}
    BY <1>1, <1>3 DEF Unclosed, Gone
  <2>2. owner'.phase = "left"
    BY <1>1, <1>3 DEF Owners
  <2> QED  BY <2>1, <2>2, ClosedTracks DEF Coming
<1> QED  BY <1>2, <1>3 DEF OwnerPortExit

LEMMA SoftDeadlineTracks ==
    ASSUME Types, TrackInv, SoftDeadline
    PROVE  Tracks
<1>1. owner \in Owners /\ rt' = rt /\ owner.pending # None /\ native' = native
  BY DEF Types, SoftDeadline
<1>2. Reads(rt, rt') /\ Wants(rt') = Wants(rt)
  BY <1>1, StillReads
<1> DEFINE q == Answer(owner)
<1>3. owner.pending.k = "draw"
  <2>1. owner.pending \in Paints \cup {None}
    BY <1>1 DEF Owners
  <2>2. owner.pending \in Paints
    BY <1>1, <2>1
  <2> QED  BY <2>2 DEF Paints
<1>4. q \in Owners /\ SamePhase(owner, q) /\ q.queued = owner.queued
  BY <1>1, <1>3, AnswerOwner
<1>5. owner' = [q EXCEPT !.replied = TRUE, !.timer = "draw_hard"]
  BY DEF SoftDeadline, Answer
<1> HIDE DEF q
<1>6. /\ owner'.phase = q.phase /\ owner'.gen = q.gen /\ owner'.alive = q.alive /\ owner'.told = q.told
      /\ owner'.queued = q.queued /\ owner'.replied
  BY <1>4, <1>5 DEF Owners
<1>7. Keeps(owner, owner')
  <2>1. owner'.told = Answer(owner).told /\ owner'.queued = owner.queued
    BY <1>4, <1>6 DEF q
  <2> QED  BY <1>1, <1>3, <2>1, AnswerKeeps
<1>8. owner'.phase = owner.phase /\ owner'.gen = owner.gen /\ owner'.alive = owner.alive
  BY <1>4, <1>6 DEF SamePhase
<1>9. Coming(owner', native')
  BY <1>6 DEF Coming, Unanswered
<1> QED  BY <1>2, <1>7, <1>8, <1>9, QuietTracks DEF Keeps

LEMMA HardDeadlineTracks ==
    ASSUME Types, TrackInv, HardDeadline
    PROVE  Tracks
BY StopsTracks DEF HardDeadline

LEMMA QueuedDeadlineTracks ==
    ASSUME Types, TrackInv, QueuedDeadline
    PROVE  Tracks
<1>1. owner \in Owners /\ rt' = rt /\ native' = native
  BY DEF Types, QueuedDeadline
<1>2. Reads(rt, rt') /\ Wants(rt) \subseteq Wants(rt')
  BY <1>1, StillReads
<1>3. PICK p : p = owner' /\ p = DropQueued(owner)
  BY DEF QueuedDeadline
<1> HIDE DEF Owners, Types
<1>4. /\ p \in Owners /\ SamePhase(owner, p) /\ p.wire = owner.wire
      /\ p.queued = 0 /\ p.pending = owner.pending /\ p.replied = owner.replied
      /\ p.told = IF owner.queued = 0 THEN owner.told
                  ELSE Append(owner.told, [k |-> "draw_result", draw |-> owner.queued])
  BY <1>1, <1>3, DropOwner
<1>5. Keeps(owner, p)
  BY <1>1, <1>4, DropKeeps
<1>6. /\ p.phase = owner.phase /\ p.gen = owner.gen /\ p.alive = owner.alive
      /\ (Unanswered(p) => Unanswered(owner))
  BY <1>4 DEF SamePhase, Unanswered
<1> QED  BY <1>1, <1>2, <1>3, <1>4, <1>5, <1>6, StillTracks DEF Heeded

LEMMA BusyRetryTracks ==
    ASSUME Types, TrackInv, BusyRetry
    PROVE  Tracks
<1>1. owner \in Owners /\ rt' = rt /\ native' = native
  BY DEF Types, BusyRetry
<1>2. Reads(rt, rt') /\ Wants(rt) \subseteq Wants(rt') /\ Heeded
  BY <1>1, StillReads DEF Heeded
<1> DEFINE q == [owner EXCEPT !.retry = FALSE]
<1>3. q \in Owners
  BY <1>1, ZenonT(60) DEF Owners
<1>4. SameDraws(owner, q) /\ SamePhase(owner, q) /\ q.wire = owner.wire
  BY <1>1 DEF Owners, SameDraws, SamePhase
<1> HIDE DEF q
<1>5. Talks(q, owner', {"credit"}) /\ SameDraws(q, owner')
  <2>1. CASE Granting(q)
    BY <1>3, <2>1, GrantingStep
  <2>2. CASE \E n \in 0 .. Len(q.outbox) : owner' = Grant(Flush(q, n), TRUE) /\ Busy(n < Len(q.outbox))
    <3>1. PICK n \in 0 .. Len(q.outbox) : owner' = Grant(Flush(q, n), TRUE)
      BY <2>2
    <3> QED  BY <1>3, <3>1, RetryOwner
  <2> QED  BY <2>1, <2>2 DEF BusyRetry, q
<1>6. Keeps(owner, q) /\ (Unanswered(q) => Unanswered(owner))
  BY <1>4, KeepsItself
<1> HIDE DEF Owners, Types
<1> QED  BY <1>2, <1>3, <1>4, <1>5, <1>6, TalkTracks

-----------------------------------------------------------------------------
(* The helper's steps: what it says of a frame comes before it steps aside. *)

LEMMA CommandComing ==
    ASSUME PortInv, TrackInv, NativeCommand
    PROVE  Coming(owner', native')
<1> SUFFICES ASSUME Asking(owner') PROVE Pictured(owner', native')
  BY DEF Coming, Asking
<1>1. owner \in Owners /\ native \in Helpers /\ Exchange(owner, native) /\ Types /\ Coming(owner, native)
  BY DEF PortInv, Types, Core, TrackInv
<1> DEFINE k == Head(owner.wire).k
<1>2. owner.wire # <<>> /\ owner' = [owner EXCEPT !.wire = Tail(@)]
  BY DEF NativeCommand
<1>3. /\ SamePhase(owner, owner') /\ SameDraws(owner, owner') /\ owner'.wire = Tail(owner.wire)
      /\ Due(owner)[1] = k /\ 1 \in DOMAIN Due(owner)
  BY <1>1, <1>2, DueRest
<1>4. Asking(owner)
  BY <1>3 DEF Asking, SamePhase, SameDraws, Unanswered
<1>5. Pictured(owner, native)
  BY <1>1, <1>4 DEF Coming, Asking
<1>6. k \notin Ups
  <2>1. Lacks(Due(owner), Ups)
    BY <1>1, <1>4 DEF Exchange, Talk, Asking, NoUp
  <2> QED  BY <1>3, <2>1 DEF Lacks
<1>7. native' \in Helpers /\ Answered(k, native, native')
  BY <1>1, CommandAnswered
<1>8. Ahead(owner) => k # "suspend" /\ (k = "draw" \/ Ahead(owner'))
  <2>1. PICK p : p = owner'
    OBVIOUS
  <2> HIDE DEF Owners
  <2> QED  BY <1>1, <1>2, <1>3, <2>1, AheadRest
<1>9. /\ k = "draw" =>
           /\ native'.st \notin Raw \/ Heard(native') = Append(Heard(native), "painted")
           /\ \/ Heard(native') = Heard(native) \/ Heard(native') = Append(Heard(native), "painted")
              \/ Heard(native') = Append(Heard(native), "error")
      /\ k = "suspend" /\ native.st \notin Raw =>
           native'.st \notin Raw /\ Heard(native') = Append(Heard(native), "error")
  BY <1>1, CommandReplied
<1>10. ASSUME NEW n \in NoteKinds, Heard(native') = Append(Heard(native), n)
       PROVE  /\ Shown(native) \/ n \in Shows => Shown(native')
              /\ Before(native) /\ (n # "suspended" \/ Shown(native)) => Before(native')
  <2>1. PICK g : g = native'
    OBVIOUS
  <2> HIDE DEF Helpers, NoteKinds
  <2> QED  BY <1>1, <1>10, <2>1, HeardAfter
<1>11. Heard(native') = Heard(native) => (Shown(native) => Shown(native')) /\ (Before(native) => Before(native'))
  BY DEF Shown, Before
<1>12. {"painted", "error", "restored", "suspended"} \subseteq NoteKinds /\ "painted" \in Shows
  BY DEF NoteKinds, Shows
<1> HIDE DEF k, Owners, Helpers, NoteKinds
<1>13. CASE k = "draw"
  <2>1. Before(native') /\ (Shown(native) => Shown(native'))
    BY <1>5, <1>9, <1>10, <1>11, <1>12, <1>13 DEF Pictured
  <2>2. native'.st \notin Raw \/ Shown(native')
    BY <1>9, <1>10, <1>12, <1>13
  <2> QED  BY <2>1, <2>2 DEF Pictured
<1>14. CASE k = "suspend"
  <2>1. CASE native.st \notin Raw
    <3>1. native'.st \notin Raw /\ Before(native')
      BY <1>5, <1>9, <1>10, <1>12, <1>14, <2>1 DEF Pictured
    <3> QED  BY <3>1 DEF Pictured
  <2>2. CASE native.st \in Raw
    <3>1. Shown(native)
      BY <1>5, <1>8, <1>14, <2>2 DEF Pictured
    <3>2. \/ Heard(native') = Heard(native)
          \/ \E n \in {"painted", "error", "restored", "suspended"} : Heard(native') = Append(Heard(native), n)
      BY <1>6, <1>7 DEF Answered
    <3>3. Shown(native') /\ Before(native')
      BY <1>5, <1>10, <1>11, <1>12, <3>1, <3>2 DEF Pictured
    <3> QED  BY <3>3 DEF Pictured
  <2> QED  BY <2>1, <2>2
<1>15. CASE k # "draw" /\ k # "suspend"
  <2>1. \/ Heard(native') = Heard(native)
        \/ \E n \in {"painted", "error", "restored"} : Heard(native') = Append(Heard(native), n)
    BY <1>6, <1>7, <1>15 DEF Answered
  <2>2. Before(native') /\ (Shown(native) => Shown(native'))
    BY <1>5, <1>10, <1>11, <1>12, <2>1 DEF Pictured
  <2>3. native.st \notin Raw => native'.st \notin Raw
    BY <1>6, <1>7, <1>15 DEF Answered, Raw
  <2> QED  BY <1>5, <1>8, <1>15, <2>2, <2>3 DEF Pictured
<1> QED  BY <1>13, <1>14, <1>15

LEMMA SaysComing ==
    ASSUME Types, TrackInv, owner' = owner, native.st \notin Raw => native'.st \notin Raw,
           \/ Heard(native') = Heard(native)
           \/ \E k \in Chatter : Heard(native') = Append(Heard(native), k)
    PROVE  Coming(owner', native')
<1> SUFFICES ASSUME Asking(owner) PROVE Pictured(owner, native')
  BY DEF Coming, Asking
<1>1. native \in Helpers /\ Pictured(owner, native)
  BY DEF Types, TrackInv, Coming, Asking
<1>2. (Shown(native) => Shown(native')) /\ (Before(native) => Before(native'))
  <2>1. CASE Heard(native') = Heard(native)
    BY <2>1 DEF Shown, Before
  <2>2. CASE \E k \in Chatter : Heard(native') = Append(Heard(native), k)
    <3>1. PICK k \in Chatter : Heard(native') = Append(Heard(native), k)
      BY <2>2
    <3>2. k \in NoteKinds /\ k # "suspended"
      BY <3>1 DEF Chatter, NoteKinds
    <3>3. PICK g : g = native'
      OBVIOUS
    <3> HIDE DEF Helpers, NoteKinds
    <3> QED  BY <1>1, <3>1, <3>2, <3>3, HeardAfter
  <2> QED  BY <2>1, <2>2
<1> QED  BY <1>1, <1>2 DEF Pictured

LEMMA NativeComing ==
    ASSUME PortInv, TrackInv,
           NativeCommand \/ NativeProbed \/ NativeReaped \/ NativeDies \/ NativeInput \/ NativeStop \/ NativeContinue
    PROVE  Coming(owner', native')
<1>1. owner \in Owners /\ native \in Helpers /\ Exchange(owner, native) /\ Types
  BY DEF PortInv, Types, Core
<1>2. CASE NativeCommand
  BY <1>2, CommandComing
<1>3. CASE NativeProbed
  <2>1. native.st = "probing" /\ owner' = owner
    BY <1>3 DEF NativeProbed
  <2>2. ~Asking(owner)
    BY <1>1, <2>1 DEF Exchange, Talk, Asking, NoUp
  <2> QED  BY <2>1, <2>2 DEF Coming, Asking
<1>4. CASE NativeReaped \/ NativeDies
  <2>1. native' = [native EXCEPT !.st = "exited"] /\ owner' = owner
    BY <1>4 DEF NativeReaped, NativeDies
  <2>2. native'.st = "exited" /\ Heard(native') = Heard(native)
    BY <1>1, <2>1, SetHelper
  <2> QED  BY <1>1, <2>1, <2>2, SaysComing DEF Raw
<1>5. CASE NativeInput
  <2> DEFINE q == Report(native, "input", native.credit)
  <2>1. native.credit \in Nat /\ "input" \in NoteKinds /\ "input" \in Chatter
    BY <1>1 DEF Helpers, NoteKinds, Chatter
  <2>2. q \in Helpers /\ q.st = native.st /\ Heard(q) = Append(Heard(native), "input")
    BY <1>1, <2>1, ReportHelper
  <2>3. native' = [q EXCEPT !.credit = 0] /\ owner' = owner
    BY <1>5 DEF NativeInput
  <2> HIDE DEF q
  <2>4. native'.st = native.st /\ Heard(native') = Append(Heard(native), "input")
    BY <2>2, <2>3, CreditlessHelper
  <2> QED  BY <1>1, <2>1, <2>3, <2>4, SaysComing
<1>6. CASE NativeStop
  <2> DEFINE q == [native EXCEPT !.st = "stopped"]
  <2>1. q \in Helpers /\ q.st = "stopped" /\ Heard(q) = Heard(native)
    BY <1>1, SetHelper
  <2>2. native' = [q EXCEPT !.credit = 0] /\ owner' = owner
    BY <1>6 DEF NativeStop
  <2> HIDE DEF q
  <2>3. native'.st = "stopped" /\ Heard(native') = Heard(native)
    BY <2>1, <2>2, CreditlessHelper
  <2> QED  BY <1>1, <2>2, <2>3, SaysComing DEF Raw
<1>7. CASE NativeContinue
  <2> DEFINE q == Report(native, "resume_needed", 0)
  <2>1. "resume_needed" \in NoteKinds /\ "resume_needed" \in Chatter
    BY DEF NoteKinds, Chatter
  <2>2. q \in Helpers /\ q.st = native.st /\ Heard(q) = Append(Heard(native), "resume_needed")
    BY <1>1, <2>1, ReportHelper
  <2>3. native' = [q EXCEPT !.st = "barrier"] /\ owner' = owner
    BY <1>7 DEF NativeContinue
  <2> HIDE DEF q
  <2>4. native'.st = "barrier" /\ Heard(native') = Heard(q)
    BY <2>2, <2>3, SetHelper
  <2> QED  BY <1>1, <2>1, <2>2, <2>3, <2>4, SaysComing DEF Raw
<1> QED  BY <1>2, <1>3, <1>4, <1>5, <1>6, <1>7

LEMMA NativeTracks ==
    ASSUME PortInv, TrackInv,
           NativeCommand \/ NativeProbed \/ NativeReaped \/ NativeDies \/ NativeInput \/ NativeStop \/ NativeContinue
    PROVE  Tracks
<1>1. owner \in Owners /\ rt \in Runtimes /\ rt' = rt /\ Types
  BY DEF PortInv, Types, NativeCommand, NativeProbed, NativeReaped, NativeDies, NativeInput, NativeStop, NativeContinue
<1>2. Reads(rt, rt') /\ Wants(rt') = Wants(rt)
  BY <1>1, StillReads
<1>3. Coming(owner', native')
  BY NativeComing
<1>4. SamePhase(owner, owner') /\ SameDraws(owner, owner')
  <2>1. CASE owner' = owner
    BY <2>1 DEF SamePhase, SameDraws
  <2>2. CASE owner.wire # <<>> /\ owner' = [owner EXCEPT !.wire = Tail(@)]
    BY <1>1, <2>2, DueRest
  <2> QED  BY <2>1, <2>2 DEF NativeCommand, NativeProbed, NativeReaped, NativeDies, NativeInput, NativeStop, NativeContinue
<1>5. Holds(owner') = Holds(owner)
  BY <1>4, SameSettles
<1> HIDE DEF Types
<1> QED  BY <1>1, <1>2, <1>3, <1>4, <1>5, QuietTracks DEF SamePhase

-----------------------------------------------------------------------------
(* The runtime's steps: it asks for a frame when it waits for none, and for  *)
(* the terminal when it waits for no frame or for one that is ahead.       *)

\* The runtime asks for one thing more, which is neither a frame nor a suspend.
LEMMA StandSteps ==
    ASSUME NEW r \in Runtimes, NEW o, Stepping(r, o), NEW x \in Wishes, x.k \notin {"suspend", "draw"},
           NEW t, t.out = Append(r.out, x), t.phase = r.phase,
           t.life = r.life \/ (Asks(r, "suspend") = {} /\ o.phase # "suspending" /\ r.life # "suspended")
    PROVE  Stepping(t, o)
<1>1. Asks(t, "suspend") = Asks(r, "suspend") /\ Asks(t, "draw") = Asks(r, "draw") /\ Stand(r, t, "suspend")
  <2> HIDE DEF Runtimes, Wishes
  <2>1. x.k # "suspend" => Asks(t, "suspend") = Asks(r, "suspend")
    BY OtherAsks
  <2>2. x.k # "draw" => Asks(t, "draw") = Asks(r, "draw")
    BY OtherAsks
  <2>3. Stand(r, t, "suspend")
    BY OtherAsks
  <2> QED  BY <2>1, <2>2, <2>3
<1> HIDE DEF Runtimes, Wishes
<1>2. \A i \in Asks(t, "suspend") : i \in Asks(r, "suspend") /\ t.out[i] = r.out[i]
  BY <1>1 DEF Stand
<1>3. r.phase = "running" =>
        /\ \A i \in Asks(r, "suspend") : r.out[i].n = o.gen =>
             r.life = "suspend_requested" /\ \A j \in Asks(r, "draw") : j < i
        /\ o.phase = "suspending" => r.life = "suspend_requested" /\ Asks(r, "draw") = {}
        /\ o.phase = "suspended" => r.life = "suspended" /\ Asks(r, "draw") = {}
  BY DEF Stepping
<1>4. ASSUME t.phase = "running", NEW i \in Asks(t, "suspend"), t.out[i].n = o.gen
      PROVE  t.life = "suspend_requested" /\ \A j \in Asks(t, "draw") : j < i
  BY <1>1, <1>2, <1>3, <1>4
<1>5. ASSUME t.phase = "running"
      PROVE  /\ o.phase = "suspending" => t.life = "suspend_requested" /\ Asks(t, "draw") = {}
             /\ o.phase = "suspended" => t.life = "suspended" /\ Asks(t, "draw") = {}
  BY <1>1, <1>3, <1>5
<1> QED  BY <1>4, <1>5 DEF Stepping

\* The runtime asks for the terminal, and for no frame from then on.
LEMMA AwaySteps ==
    ASSUME NEW r \in Runtimes, NEW o, Stepping(r, o), r.phase = "running", r.life = "running",
           NEW x \in Wishes, x.k = "suspend", NEW t, t.out = Append(r.out, x), t.life = "suspend_requested"
    PROVE  Stepping(t, o)
<1>1. Asks(t, "draw") = Asks(r, "draw") /\ \A i \in Asks(r, "draw") : i < Len(r.out) + 1
  <2> HIDE DEF Runtimes, Wishes
  <2>1. x.k # "draw" => Asks(t, "draw") = Asks(r, "draw")
    BY OtherAsks
  <2>2. \A i \in Asks(r, "draw") : i < Len(r.out) + 1
    BY OtherAsks
  <2> QED  BY <2>1, <2>2
<1>2. /\ \A i \in Asks(t, "suspend") : i \in Asks(r, "suspend") \/ (i = Len(r.out) + 1 /\ t.out[i] = x)
      /\ Stand(r, t, "suspend")
  <2> HIDE DEF Runtimes, Wishes
  <2> QED  BY OtherAsks
<1> HIDE DEF Runtimes, Wishes
<1>3. /\ \A i \in Asks(r, "suspend") : r.out[i].n # o.gen
      /\ o.phase \notin {"suspending", "suspended"}
  BY DEF Stepping
<1>4. ASSUME NEW i \in Asks(t, "suspend"), t.out[i].n = o.gen
      PROVE  \A j \in Asks(t, "draw") : j < i
  <2>1. i \notin Asks(r, "suspend")
    BY <1>2, <1>3, <1>4 DEF Stand
  <2> QED  BY <1>1, <1>2, <2>1
<1> QED  BY <1>3, <1>4 DEF Stepping

\* The runtime asks for a frame.
LEMMA FrameSteps ==
    ASSUME NEW r \in Runtimes, NEW o, Stepping(r, o), r.phase = "running", r.life = "running",
           NEW x \in Wishes, x.k = "draw", NEW t, t.out = Append(r.out, x), t.life = "running"
    PROVE  Stepping(t, o)
<1>1. Asks(t, "suspend") = Asks(r, "suspend") /\ Stand(r, t, "suspend")
  <2> HIDE DEF Runtimes, Wishes
  <2>1. x.k # "suspend" => Asks(t, "suspend") = Asks(r, "suspend")
    BY OtherAsks
  <2>2. Stand(r, t, "suspend")
    BY OtherAsks
  <2> QED  BY <2>1, <2>2
<1> HIDE DEF Runtimes, Wishes
<1>2. /\ \A i \in Asks(r, "suspend") : r.out[i].n # o.gen
      /\ o.phase \notin {"suspending", "suspended"}
  BY DEF Stepping
<1>3. \A i \in Asks(t, "suspend") : t.out[i].n # o.gen
  BY <1>1, <1>2 DEF Stand
<1> QED  BY <1>2, <1>3 DEF Stepping

\* The runtime asks for something and the owner has not heard of it yet.
LEMMA AskTracks ==
    ASSUME Types, TrackInv, owner' = owner, native' = native, NEW x \in Wishes, x.k # "shutdown",
           rt'.phase = rt.phase, rt'.out = Append(rt.out, x),
           NoSettings /\ Stepping(rt, owner) => Stepping(rt', owner),
           NoSettings /\ Kept(rt, owner) => Kept(rt', owner)
    PROVE  Tracks
<1>1. rt \in Runtimes /\ Unclosed(rt, owner) /\ Coming(owner, native)
  BY DEF Types, TrackInv
<1>2. Asks(rt', "shutdown") = Asks(rt, "shutdown")
  <2>1. PICK t : t = rt'
    OBVIOUS
  <2> HIDE DEF Runtimes, Wishes
  <2>2. x.k # "shutdown" => Asks(t, "shutdown") = Asks(rt, "shutdown")
    BY <1>1, <2>1, OtherAsks
  <2> QED  BY <2>1, <2>2
<1> QED  BY <1>1, <1>2 DEF Tracks, Unclosed

LEMMA FrameTracks ==
    ASSUME Types, TrackInv, Frame
    PROVE  Tracks
<1>1. /\ rt \in Runtimes /\ owner' = owner /\ native' = native
      /\ rt.phase = "running" /\ rt.life = "running" /\ rt' = Draw(rt)
  BY DEF Types, Frame
<1>2. PICK t : t = rt'
  OBVIOUS
<1> DEFINE n == rt.asked + 1
           x == [k |-> "draw", n |-> n]
<1>3. /\ t.out = Append(rt.out, x) /\ t.phase = "running" /\ t.life = "running" /\ t.draw = n
  <2>1. Drew(rt, t) /\ t.phase = rt.phase /\ t.life = rt.life
    <3> HIDE DEF Runtimes
    <3> QED  BY <1>1, <1>2, DrawDrew
  <2> QED  BY <1>1, <2>1 DEF Drew
<1>4. x \in Wishes /\ x.k = "draw" /\ x.n = n
  BY <1>1 DEF Runtimes, Wishes
<1> HIDE DEF x, n, Runtimes, Wishes
<1>5. n \in Wants(t)
  BY <1>1, <1>3, <1>4, MoreWants
<1>6. Kept(t, owner)
  BY <1>3, <1>5 DEF Kept
<1>7. Stepping(rt, owner) => Stepping(t, owner)
  BY <1>1, <1>3, <1>4, FrameSteps
<1> QED  BY <1>1, <1>2, <1>3, <1>4, <1>6, <1>7, AskTracks

LEMMA WishParts ==
    ASSUME NEW r \in Runtimes, NEW k \in {"suspend", "resume", "redraw", "mouse"}, NEW n \in Nat, NEW edit, NEW life,
           NEW t, t = Wish(r, k, n, edit, life), NEW x, x = [k |-> k, n |-> n]
    PROVE  /\ t.phase = r.phase /\ t.draw = r.draw /\ t.out = Append(r.out, x) /\ t.life = life
           /\ x \in Wishes /\ x.k = k
<1> DEFINE q == Tell(r, k, n)
<1>1. /\ q \in Runtimes /\ q.phase = r.phase /\ q.draw = r.draw /\ q.out = Append(r.out, x) /\ x \in Wishes
  <2>1. k \in {"draw", "shutdown", "suspend", "resume", "redraw", "mouse"} /\ q = Tell(r, k, n)
    OBVIOUS
  <2> HIDE DEF q, Runtimes, Wishes
  <2> QED  BY <2>1, TellRuntime, SMTT(60)
<1>2. t = [q EXCEPT !.edit = edit, !.life = life]
  BY DEF Wish
<1> HIDE DEF q
<1>3. t.phase = q.phase /\ t.draw = q.draw /\ t.out = q.out /\ t.life = life
  BY <1>1, <1>2 DEF Runtimes
<1> QED  BY <1>1, <1>3

\* The other things that the runtime asks for.
LEMMA WishTracks ==
    ASSUME Types, TrackInv, owner' = owner, native' = native,
           NEW k \in {"suspend", "resume", "redraw", "mouse"}, NEW n \in Nat,
           NEW edit \in {"none", "asked", "editing"}, NEW life \in {"running", "suspend_requested", "suspended"},
           rt' = Wish(rt, k, n, edit, life),
           NoSettings => \/ k # "suspend" /\ life = rt.life
                         \/ /\ k # "suspend" /\ Asks(rt, "suspend") = {}
                            /\ owner.phase # "suspending" /\ rt.life # "suspended"
                         \/ k = "suspend" /\ rt.phase = "running" /\ rt.life = "running" /\ life = "suspend_requested"
    PROVE  Tracks
<1>1. rt \in Runtimes
  BY DEF Types
<1>2. PICK t : t = rt'
  OBVIOUS
<1>4. PICK x : x = [k |-> k, n |-> n]
  OBVIOUS
<1> HIDE DEF Runtimes, Wishes
<1>5. /\ t.phase = rt.phase /\ t.draw = rt.draw /\ t.out = Append(rt.out, x) /\ t.life = life
      /\ x \in Wishes /\ x.k = k
  <2>1. t = Wish(rt, k, n, edit, life)
    BY <1>2
  <2> QED  BY <1>1, <1>4, <2>1, WishParts
<1>3. x \in Wishes
  BY <1>5
<1>6. x.k = k
  BY <1>5
<1>7. Wants(t) = Wants(rt)
  <2>1. x.k # "draw"
    BY <1>6
  <2> QED  BY <1>1, <1>3, <1>5, <2>1, MoreWants
<1>8. Kept(rt, owner) => Kept(t, owner)
  BY <1>5, <1>7 DEF Kept
<1>9. ASSUME NoSettings, Stepping(rt, owner) PROVE Stepping(t, owner)
  <2>1. CASE k # "suspend"
    <3>1. x.k \notin {"suspend", "draw"}
      BY <1>6, <2>1
    <3>2. t.life = rt.life \/ (Asks(rt, "suspend") = {} /\ owner.phase # "suspending" /\ rt.life # "suspended")
      BY <1>5, <1>9, <2>1
    <3> QED  BY <1>1, <1>3, <1>5, <1>9, <3>1, <3>2, StandSteps
  <2>2. CASE k = "suspend"
    <3>1. rt.phase = "running" /\ rt.life = "running" /\ t.life = "suspend_requested" /\ x.k = "suspend"
      BY <1>5, <1>6, <1>9, <2>2
    <3> QED  BY <1>1, <1>3, <1>5, <1>9, <3>1, AwaySteps
  <2> QED  BY <2>1, <2>2
<1>10. x.k # "shutdown"
  BY <1>6
<1> HIDE DEF Types
<1> QED  BY <1>2, <1>3, <1>5, <1>8, <1>9, <1>10, AskTracks

LEMMA WishesTrack ==
    ASSUME Types, TrackInv, Preference \/ SettingsEdit \/ ComposerEdit \/ EditorEnds \/ EditTimeout
    PROVE  Tracks
<1>1. rt \in Runtimes /\ owner' = owner /\ native' = native
  BY DEF Types, Preference, SettingsEdit, ComposerEdit, EditorEnds, EditTimeout
<1>2. rt.gen \in Nat /\ rt.edit \in {"none", "asked", "editing"} /\ rt.life \in {"running", "suspend_requested", "suspended"}
  BY <1>1 DEF Runtimes
<1>3. CASE Preference
  <2>1. PICK k \in {"mouse", "redraw"} : rt' = Tell(rt, k, rt.gen)
    BY <1>3 DEF Preference
  <2>2. rt' = Wish(rt, k, rt.gen, rt.edit, rt.life)
    BY <1>1, <2>1 DEF Wish, Tell, Runtimes
  <2>3. k \in {"suspend", "resume", "redraw", "mouse"} /\ k # "suspend"
    OBVIOUS
  <2> HIDE DEF Types
  <2> QED  BY <1>1, <1>2, <2>2, <2>3, WishTracks
<1>4. CASE SettingsEdit
  <2>1. rt' = [Tell(rt, "suspend", rt.gen) EXCEPT !.edit = "asked"] /\ ~NoSettings
    BY <1>4 DEF SettingsEdit, Stimulus, NoSettings
  <2>2. rt' = Wish(rt, "suspend", rt.gen, "asked", rt.life)
    BY <1>1, <2>1 DEF Wish, Tell, Runtimes
  <2> HIDE DEF Types
  <2> QED  BY <1>1, <1>2, <2>1, <2>2, WishTracks
<1>5. CASE ComposerEdit
  <2>1. rt' = Wish(rt, "suspend", rt.gen, "asked", "suspend_requested") /\ rt.life = "running" /\ rt.phase = "running"
    BY <1>5 DEF ComposerEdit, Wish
  <2> HIDE DEF Types
  <2> QED  BY <1>1, <1>2, <2>1, WishTracks
<1>6. CASE EditorEnds
  <2>1. rt' = [Tell(rt, "resume", rt.gen) EXCEPT !.edit = "none"]
    BY <1>6 DEF EditorEnds
  <2>2. rt' = Wish(rt, "resume", rt.gen, "none", rt.life)
    BY <1>1, <2>1 DEF Wish, Tell, Runtimes
  <2> HIDE DEF Types
  <2> QED  BY <1>1, <1>2, <2>2, WishTracks
<1>7. CASE EditTimeout
  <2> DEFINE life == IF rt.life = "suspend_requested" THEN "running" ELSE rt.life
  <2>1. /\ rt' = [Tell(rt, "resume", rt.gen) EXCEPT !.edit = "none", !.life = IF @ = "suspend_requested" THEN "running" ELSE @]
        /\ Asks(rt, "suspend") = {} /\ owner.phase # "suspending"
    BY <1>7 DEF EditTimeout, Asks
  <2>2. rt' = Wish(rt, "resume", rt.gen, "none", life)
    BY <1>1, <2>1 DEF Wish, Tell, Runtimes
  <2>3. life \in {"running", "suspend_requested", "suspended"} /\ (life = rt.life \/ rt.life # "suspended")
    BY <1>2
  <2> HIDE DEF life, Types
  <2> QED  BY <1>1, <1>2, <2>1, <2>2, <2>3, WishTracks
<1> QED  BY <1>3, <1>4, <1>5, <1>6, <1>7

\* The runtime reads an answer: what it waits for is settled, or still held.
LEMMA ReadTracks ==
    ASSUME PortInv, PortInv', Drawn(rt, owner), TrackInv, Read
    PROVE  Tracks
<1>1. /\ rt \in Runtimes /\ owner \in Owners /\ owner' \in Owners /\ native' = native /\ rt.phase # "over"
      /\ owner.told # <<>> /\ owner' = [owner EXCEPT !.told = Tail(@)] /\ Binding(rt, owner.slot, owner.gen)
  BY DEF PortInv, Types, Read, Core
<1> DEFINE d == Head(owner.told).draw
           kind == Head(owner.told).k
<1>2. PICK p : p = owner'
  OBVIOUS
<1>3. PICK t : t = rt'
  OBVIOUS
<1>4. /\ \A w \in Holds(owner) : w \in Holds(p) \/ (kind = "draw_result" /\ w = d)
      /\ p.phase = owner.phase /\ p.gen = owner.gen /\ p.alive = owner.alive /\ p.wire = owner.wire
      /\ Unanswered(p) => Unanswered(owner)
  BY <1>1, <1>2, ReadKeeps
<1>5. \/ kind = "draw_result" /\ t = SettleDraw(rt, d)
      \/ kind # "draw_result" /\ t = Over(rt, "restored") /\ rt.phase = "closing"
      \/ kind # "draw_result" /\ t = rt
  BY <1>3 DEF Read
<1> HIDE DEF d, kind, Owners
<1>6. Coming(p, native)
  <2>1. Longer(owner.wire, p.wire)
    BY <1>4 DEF Longer
  <2>2. Asking(p) => Asking(owner)
    BY <1>4 DEF Asking
  <2> QED  BY <1>1, <1>2, <2>1, <2>2, ComingTalk DEF TrackInv
<1>7. CASE rt.phase \notin {"binding", "running"}
  <2>1. t.phase \notin {"binding", "running"}
    <3>1. CASE t = SettleDraw(rt, d)
      <4>1. Goes(rt, t)
        <5> HIDE DEF Runtimes
        <5> QED  BY <1>1, <1>7, <3>1, SettleGoes
      <4> QED  BY <1>7, <4>1 DEF Goes
    <3>2. CASE t = Over(rt, "restored")
      BY <1>1, <3>2, OverPlain
    <3> QED  BY <1>5, <1>7, <3>1, <3>2
  <2> QED  BY <1>1, <1>2, <1>3, <1>6, <2>1, ClosedTracks
<1>8. CASE rt.phase \in {"binding", "running"}
  <2> DEFINE next == [rt EXCEPT !.draw = 0]
  <2>1. /\ next.phase = rt.phase /\ next.gen = rt.gen /\ next.out = rt.out /\ next.draw = 0 /\ next.life = rt.life
    BY <1>1, UndrawnRuntime
  <2>2. t = next \/ (t = rt /\ ~(kind = "draw_result" /\ rt.draw = d))
    BY <1>5, <1>8 DEF Drawn, SettleDraw
  <2> HIDE DEF next, Runtimes
  <2>3. t.out = rt.out /\ t.phase = rt.phase /\ t.life = rt.life
    BY <2>1, <2>2
  <2>4. \A k : Asks(t, k) = Asks(rt, k)
    BY <2>3 DEF Asks
  <2>5. Unclosed(t, p)
    BY <1>4, <2>3, <2>4 DEF Unclosed, TrackInv
  <2>6. Stepping(rt, owner) => Stepping(t, p)
    BY <1>4, <2>3, <2>4 DEF Stepping
  <2>7. Kept(rt, owner) => Kept(t, p)
    <3>1. CASE t = next
      BY <2>1, <3>1 DEF Kept
    <3>2. CASE t = rt /\ ~(kind = "draw_result" /\ rt.draw = d)
      BY <1>4, <3>2 DEF Kept
    <3> QED  BY <2>2, <3>1, <3>2
  <2> QED  BY <1>1, <1>2, <1>3, <1>6, <2>5, <2>6, <2>7 DEF Tracks
<1> QED  BY <1>7, <1>8

LEMMA StutterTracks ==
    ASSUME TrackInv, UNCHANGED <<rt, owner, native>>
    PROVE  Tracks
BY DEF TrackInv, Tracks

LEMMA QuitTracks ==
    ASSUME Types, Drawn(rt, owner), TrackInv, Quit
    PROVE  Tracks
<1>1. rt \in Runtimes /\ owner' = owner /\ native' = native /\ rt.phase = "running" /\ rt' = FinalPaint(rt)
  BY DEF Types, Quit
<1>2. rt'.phase = "closing"
  <2>1. PICK t : t = rt'
    OBVIOUS
  <2> HIDE DEF Runtimes
  <2> QED  BY <1>1, <2>1, FinalGoes
<1> QED  BY <1>1, <1>2, ClosedTracks DEF TrackInv

LEMMA DrawTimeoutTracks ==
    ASSUME Types, Drawn(rt, owner), TrackInv, DrawTimeout
    PROVE  Tracks
<1>1. rt \in Runtimes /\ owner' = owner /\ native' = native /\ rt.draw # 0 /\ rt.phase # "over"
  BY DEF Types, DrawTimeout
<1>2. PICK t : t = rt'
  OBVIOUS
<1>3. Coming(owner, native)
  BY DEF TrackInv
<1>4. CASE t = BeginShutdown(rt)
  <2>1. t = rt \/ t.phase = "closing"
    BY <1>1, <1>4, ShutPlain
  <2> HIDE DEF Runtimes
  <2>2. CASE t = rt
    BY <1>1, <1>2, <2>2, StutterTracks
  <2>3. CASE t.phase = "closing"
    BY <1>1, <1>2, <1>3, <2>3, ClosedTracks
  <2> QED  BY <2>1, <2>2, <2>3
<1>5. CASE t = FinalPaint([rt EXCEPT !.draw = 0])
  <2> DEFINE next == [rt EXCEPT !.draw = 0]
  <2>1. next \in Runtimes /\ next.phase = rt.phase
    BY <1>1, UndrawnRuntime
  <2>2. t = FinalPaint(next)
    BY <1>5
  <2>3. next.phase \notin {"binding", "over"}
    BY <1>1, <2>1 DEF Drawn
  <2> HIDE DEF next, Runtimes
  <2>4. t.phase = "closing"
    BY <2>1, <2>2, <2>3, FinalGoes
  <2> QED  BY <1>1, <1>2, <1>3, <2>4, ClosedTracks
<1> QED  BY <1>2, <1>4, <1>5 DEF DrawTimeout

LEMMA EndsTracks ==
    ASSUME Types, TrackInv, ShutdownTimeout \/ TerminalDown \/ BindingTimeout
    PROVE  Tracks
<1>1. rt \in Runtimes /\ owner' = owner /\ native' = native
  BY DEF Types, ShutdownTimeout, TerminalDown, BindingTimeout
<1>2. PICK t : t = rt'
  OBVIOUS
<1>3. PICK how \in {"down", "timeout", "binding"} : t = Over(rt, how)
  BY <1>2 DEF ShutdownTimeout, TerminalDown, BindingTimeout
<1>4. t.phase = "over"
  BY <1>1, <1>3, OverPlain
<1> QED  BY <1>1, <1>2, <1>4, ClosedTracks DEF TrackInv

-----------------------------------------------------------------------------

LEMMA InitTracks ==
    ASSUME Init
    PROVE  TrackInv
<1>1. /\ rt.out = <<>> /\ rt.draw = 0 /\ rt.phase = "binding"
      /\ owner.pending = None /\ owner.phase = "initializing"
  BY DEF Init
<1>2. Unclosed(rt, owner)
  BY <1>1 DEF Unclosed, Asks, Gone
<1> QED  BY <1>1, <1>2 DEF TrackInv, Stepping, Kept, Coming

LEMMA TracksSteps ==
    ASSUME PortInv, PortInv', Drawn(rt, owner), TrackInv, [Next]_vars
    PROVE  Tracks
<1>0. Types
  BY DEF PortInv
<1> HIDE DEF Types
<1>1. CASE OwnerStep
  <2>1. CASE OwnerDraw
    BY <2>1, OwnerDrawTracks
  <2>2. CASE OwnerShutdown
    BY <2>2, OwnerShutdownTracks
  <2>3. CASE OwnerSuspend
    BY <2>3, OwnerSuspendTracks
  <2>4. CASE OwnerResume
    BY <2>4, OwnerResumeTracks
  <2>5. CASE OwnerRedraw
    BY <2>5, OwnerRedrawTracks
  <2>6. CASE OwnerMouse
    BY <2>6, OwnerMouseTracks
  <2>7. CASE OwnerOrphan
    BY <1>0, <2>7, OwnerOrphanTracks
  <2>8. CASE OwnerPainted
    BY <2>8, OwnerPaintedTracks
  <2>9. CASE OwnerInput
    BY <1>0, <2>9, OwnerInputTracks
  <2>10. CASE OwnerRestored
    BY <2>10, OwnerRestoredTracks
  <2>11. CASE OwnerSuspended
    BY <2>11, OwnerSuspendedTracks
  <2>12. CASE OwnerReady
    BY <2>12, OwnerReadyTracks
  <2>13. CASE OwnerResumeNeeded
    BY <1>0, <2>13, OwnerResumeNeededTracks
  <2>14. CASE OwnerRefuses
    BY <1>0, <2>14, OwnerRefusesTracks
  <2>15. CASE OwnerPortExit
    BY <1>0, <2>15, OwnerPortExitTracks
  <2> QED  BY <1>1, <2>1, <2>2, <2>3, <2>4, <2>5, <2>6, <2>7, <2>8, <2>9, <2>10, <2>11, <2>12, <2>13, <2>14, <2>15
              DEF OwnerStep
<1>2. CASE OwnerTimer
  BY <1>0, <1>2, SoftDeadlineTracks, HardDeadlineTracks, QueuedDeadlineTracks, BusyRetryTracks DEF OwnerTimer
<1>3. CASE NativeStep \/ NativeDies \/ NativeInput \/ NativeStop \/ NativeContinue
  BY <1>3, NativeTracks DEF NativeStep
<1>4. CASE Quit
  BY <1>0, <1>4, QuitTracks
<1>5. CASE Preference \/ SettingsEdit \/ ComposerEdit \/ EditorEnds \/ EditTimeout
  BY <1>0, <1>5, WishesTrack
<1>6. CASE DrawTimeout
  BY <1>0, <1>6, DrawTimeoutTracks
<1>7. CASE ShutdownTimeout \/ TerminalDown \/ BindingTimeout
  BY <1>0, <1>7, EndsTracks
<1>8. CASE Read
  BY <1>8, ReadTracks
<1>9. CASE Frame
  BY <1>0, <1>9, FrameTracks
<1>10. CASE Done \/ UNCHANGED vars
  BY <1>10, StutterTracks DEF Done, vars
<1> QED  BY <1>1, <1>2, <1>3, <1>4, <1>5, <1>6, <1>7, <1>8, <1>9, <1>10 DEF Next, Person, RuntimeTimer, RuntimeStep

LEMMA TrackSteps ==
    ASSUME PortInv, DrawsInv, TrackInv, [Next]_vars
    PROVE  TrackInv'
<1>1. Types /\ Drawn(rt, owner)
  BY DEF PortInv, DrawsInv
<1>2. PortInv'
  BY PortSteps
<1>3. Tracks
  BY <1>1, <1>2, TracksSteps
<1>4. NoSettings' => NoSettings
  BY <1>1, ScenarioStays DEF Stays, NoSettings
<1> QED  BY <1>3, <1>4 DEF Tracks, TrackInv

LEMMA TrackedDraws ==
    ASSUME PortInv, TrackInv
    PROVE  NoSettings => DrawTracked
<1> SUFFICES ASSUME NoSettings, rt.phase = "running", rt.draw # 0, owner.alive PROVE Tracked(rt.draw)
  BY DEF DrawTracked
<1>1. rt.out \in Seq(Wishes) /\ owner.told \in Seq(Results)
  BY DEF PortInv, Types, Runtimes, Owners
<1>2. owner.phase = "resuming" \/ rt.draw \in Wants(rt) \cup Holds(owner)
  BY DEF TrackInv, Kept
<1>3. CASE owner.phase = "resuming"
  BY <1>3 DEF Tracked
<1>4. CASE rt.draw \in Wants(rt)
  <2>1. PICK i \in Asks(rt, "draw") : rt.out[i].n = rt.draw
    BY <1>4 DEF Wants
  <2>2. i \in DOMAIN rt.out /\ rt.out[i] \in Wishes /\ rt.out[i].k = "draw"
    <3> HIDE DEF Wishes
    <3> QED  BY <1>1, <2>1 DEF Asks
  <2>3. rt.out[i] = [k |-> "draw", n |-> rt.draw]
    BY <2>1, <2>2 DEF Wishes
  <2> QED  BY <2>2, <2>3 DEF Tracked
<1>5. CASE rt.draw \in Told(owner)
  <2>1. PICK i \in Answers(owner) : owner.told[i].draw = rt.draw
    BY <1>5 DEF Told
  <2>2. i \in DOMAIN owner.told /\ owner.told[i] \in Results /\ owner.told[i].k = "draw_result"
    <3> HIDE DEF Results
    <3> QED  BY <1>1, <2>1 DEF Answers
  <2>3. owner.told[i] = [k |-> "draw_result", draw |-> rt.draw]
    BY <2>1, <2>2 DEF Results
  <2> QED  BY <2>2, <2>3 DEF Tracked
<1>6. CASE rt.draw \in Open(owner)
  BY <1>6 DEF Open, Unanswered, Tracked
<1> QED  BY <1>2, <1>3, <1>4, <1>5, <1>6 DEF Holds

\* A draw that the runtime waits for is asked for and not read, held by the
\* owner or forgotten by a terminal that comes back, and a frame that was
\* painted is confirmed before the helper steps aside.
THEOREM PortTracks == Spec => []TrackInv
<1>1. Init => TrackInv
  BY InitTracks
<1>2. PortInv /\ DrawsInv /\ TrackInv /\ [Next]_vars => TrackInv'
  BY TrackSteps
<1> QED  BY <1>1, <1>2, PortInvariant, PortDraws, PTL DEF Spec

\* The deadline of a draw, which ends the session (session_runtime.ex:311),
\* never passes because a request was lost: as long as no setting is edited
\* externally, the draw that the runtime waits for is on its way, queued,
\* painted or answered, or the terminal that forgets it is coming back.
THEOREM PortDrawTracked == Spec => [](NoSettings => DrawTracked)
<1>1. PortInv /\ TrackInv => (NoSettings => DrawTracked)
  BY TrackedDraws
<1> QED  BY <1>1, PortInvariant, PortTracks, PTL
=============================================================================
