------------------------- MODULE TerminalModesProofs -------------------------
(***************************************************************************)
(* For every scenario: nothing of the helper is left in the terminal while *)
(* somebody else has it (HandedBack), and a helper that exits left it as   *)
(* it found it, or cooked at the least (ExitAsFound).                      *)
(*                                                                         *)
(* Three things have to agree over the socket for that: what the terminal  *)
(* has, what the tty of the guard remembers of it, and what the writer and *)
(* the owner believe.  A restoration takes several operations, so its      *)
(* script carries the argument: whatever is set is undone by what is left  *)
(* of it.                                                                  *)
(***************************************************************************)
EXTENDS TerminalGuardProofs

-----------------------------------------------------------------------------
(* Scripts: what they set and what they undo.                              *)

Undone(script) == UNION {script[i].off : i \in DOMAIN script}
Done(script) == UNION {script[i].on : i \in DOMAIN script}

\* A script that leaves nothing of its own: only its first operation sets a
\* mode, and a later one undoes it.
Reverts(script) ==
    script # <<>> => Done(Tail(script)) = {} /\ Head(script).on \subseteq Undone(Tail(script))

\* Scripts of no, of one and of several operations.
LEMMA ScriptParts ==
    /\ Undone(<<>>) = {} /\ Done(<<>>) = {}
    /\ \A op : Undone(<<op>>) = op.off /\ Done(<<op>>) = op.on
    /\ \A s, t \in Seq(Ops) : Undone(s \o t) = Undone(s) \cup Undone(t) /\ Done(s \o t) = Done(s) \cup Done(t)
<1>1. \A op : Undone(<<op>>) = op.off /\ Done(<<op>>) = op.on
  BY DEF Undone, Done
<1>2. Undone(<<>>) = {} /\ Done(<<>>) = {}
  BY DEF Undone, Done
<1>3. ASSUME NEW s \in Seq(Ops), NEW t \in Seq(Ops)
      PROVE  Undone(s \o t) = Undone(s) \cup Undone(t) /\ Done(s \o t) = Done(s) \cup Done(t)
  <2> HIDE DEF Ops
  <2> DEFINE c == s \o t
  <2>1. Len(c) = Len(s) + Len(t) /\ DOMAIN c = 1..Len(c) /\ DOMAIN s = 1..Len(s) /\ DOMAIN t = 1..Len(t)
        /\ Len(s) \in Nat /\ Len(t) \in Nat
    BY ConcatProperties, LenProperties
  <2>2. \A i \in DOMAIN s : i \in DOMAIN c /\ c[i] = s[i]
    BY <2>1, ConcatProperties
  <2>3. \A j \in DOMAIN t : Len(s) + j \in DOMAIN c /\ c[Len(s) + j] = t[j]
    BY <2>1, ConcatProperties
  <2>4. \A i \in DOMAIN c : (i \in DOMAIN s /\ c[i] = s[i])
                            \/ (i - Len(s) \in DOMAIN t /\ c[i] = t[i - Len(s)])
    BY <2>1, ConcatProperties
  <2> HIDE DEF c
  <2>5. \A x : x \in Undone(c) <=> x \in Undone(s) \/ x \in Undone(t)
    BY <2>2, <2>3, <2>4 DEF Undone
  <2>6. \A x : x \in Done(c) <=> x \in Done(s) \/ x \in Done(t)
    BY <2>2, <2>3, <2>4 DEF Done
  <2>7. Undone(c) = Undone(s) \cup Undone(t) /\ Done(c) = Done(s) \cup Done(t)
    BY <2>5, <2>6
  <2> QED  BY <2>7 DEF c
<1> QED  BY <1>1, <1>2, <1>3

\* The first operation of a script, and the rest of it.
LEMMA FirstOp ==
    ASSUME NEW script \in Seq(Ops), script # <<>>
    PROVE  /\ Head(script) \in Ops /\ Tail(script) \in Seq(Ops)
           /\ Undone(script) = Head(script).off \cup Undone(Tail(script))
           /\ Done(script) = Head(script).on \cup Done(Tail(script))
<1> HIDE DEF Ops
<1>1. Head(script) \in Ops /\ Tail(script) \in Seq(Ops) /\ <<Head(script)>> \in Seq(Ops)
  BY HeadTailProperties
<1>2. script = <<Head(script)>> \o Tail(script)
  BY HeadTailProperties, ConcatProperties
<1>3. Undone(<<Head(script)>> \o Tail(script)) = Undone(<<Head(script)>>) \cup Undone(Tail(script))
      /\ Done(<<Head(script)>> \o Tail(script)) = Done(<<Head(script)>>) \cup Done(Tail(script))
  BY <1>1, ScriptParts
<1>4. Undone(<<Head(script)>>) = Head(script).off /\ Done(<<Head(script)>>) = Head(script).on
  BY ScriptParts
<1> QED  BY <1>1, <1>2, <1>3, <1>4

\* An operation of a script that reverts leaves one that does, and what was to
\* be undone is undone or still to be.
LEMMA OperationReverts ==
    ASSUME NEW script \in Seq(Ops), script # <<>>, Reverts(script), NEW some, some \subseteq Undone(script)
    PROVE  /\ Reverts(Tail(script))
           /\ (some \cup Head(script).on) \ Head(script).off \subseteq Undone(Tail(script))
<1> DEFINE rest == Tail(script)
<1>1. rest \in Seq(Ops) /\ Undone(script) = Head(script).off \cup Undone(rest)
  BY FirstOp
<1>2. Done(rest) = {} /\ Head(script).on \subseteq Undone(rest)
  BY DEF Reverts
<1>3. rest # <<>> => Done(rest) = Head(rest).on \cup Done(Tail(rest))
  <2> HIDE DEF rest
  <2> QED  BY <1>1, FirstOp
<1>4. Reverts(rest)
  <2> HIDE DEF rest
  <2> QED  BY <1>2, <1>3 DEF Reverts
<1> QED  BY <1>1, <1>2, <1>4

Cooking == {"raw", "nonblock"}

\* The calls at the end of a restoration make the terminal cooked again.
LEMMA CallsRevert == RestoreCalls \in Seq(Ops) /\ Reverts(RestoreCalls) /\ Undone(RestoreCalls) = Cooking /\ Done(RestoreCalls) = {}
<1> DEFINE a == Op("termios", {}, {"raw"})
           b == Op("fcntl", {}, {"nonblock"})
<1>1. RestoreCalls = <<a, b>> /\ Tail(<<a, b>>) = <<b>> /\ Head(<<a, b>>) = a /\ <<a, b>> # <<>>
  BY DEF RestoreCalls
<1>2. a.on = {} /\ b.on = {} /\ a.off = {"raw"} /\ b.off = {"nonblock"}
  BY DEF Op
<1> HIDE DEF a, b
<1>3. Done(<<b>>) = {} /\ Undone(<<b>>) = {"nonblock"}
  BY <1>2, ScriptParts
<1>4. RestoreCalls \in Seq(Ops)
  BY RestoreCallOps
<1>5. Undone(RestoreCalls) = Cooking /\ Done(RestoreCalls) = {}
  BY <1>1, <1>2, <1>3, <1>4, FirstOp DEF Cooking
<1>6. Reverts(RestoreCalls)
  BY <1>1, <1>2, <1>3 DEF Reverts
<1> QED  BY <1>4, <1>5, <1>6

\* What the switches of a mode do.
LEMMA SwitchParts ==
    /\ \A mode \in Modes : On(mode) \in Seq(Ops) /\ Done(On(mode)) = {mode} /\ Undone(On(mode)) = {}
    /\ \A set \in SUBSET Modes : Off(set) \in Seq(Ops) /\ Done(Off(set)) = {} /\ Undone(Off(set)) = set
<1>1. \A mode \in Modes : Done(On(mode)) = {mode} /\ Undone(On(mode)) = {}
  BY ScriptParts DEF On, Op
<1>2. \A set \in SUBSET Modes : Done(Off(set)) = {} /\ Undone(Off(set)) = set
  BY ScriptParts DEF Off, Op
<1> QED  BY <1>1, <1>2, OneOp

\* What a restoration writes: it undoes all that the tty remembers.
Remembered(kitty, flags) ==
    Reports \cup {"altscroll", "nowrap", "drawn"} \cup (IF kitty THEN {"kitty"} ELSE {})
    \cup (IF "alt" \in flags THEN {"alt"} ELSE {})

\* A script that sets nothing and undoes these modes.
Erases(script, some) == script \in Seq(Ops) /\ Done(script) = {} /\ Undone(script) = some

LEMMA ErasesBoth ==
    ASSUME NEW s, NEW t, NEW a, NEW b, Erases(s, a), Erases(t, b) PROVE Erases(s \o t, a \cup b)
<1>1. s \o t \in Seq(Ops) /\ Done(s \o t) = Done(s) \cup Done(t) /\ Undone(s \o t) = Undone(s) \cup Undone(t)
  <2>1. s \in Seq(Ops) /\ t \in Seq(Ops)
    BY DEF Erases
  <2> HIDE DEF Ops
  <2> QED  BY <2>1, ScriptParts, ConcatProperties
<1> QED  BY <1>1 DEF Erases

LEMMA WritesUndo ==
    ASSUME NEW kitty \in BOOLEAN, NEW flags \in SUBSET Flags
    PROVE  \E some : Erases(RestoreWrites(kitty, flags), some) /\ Remembered(kitty, flags) \subseteq some
<1> DEFINE k == If(kitty, Off({"kitty"}))
           a == If("alt" \in flags, Off({"alt"}))
           r == Off(Reports)
           s == Off({"altscroll"})
           n == Off({"nowrap", "drawn"})
           uk == IF kitty THEN {"kitty"} ELSE {}
           ua == IF "alt" \in flags THEN {"alt"} ELSE {}
<1>1. Erases(r, Reports) /\ Erases(s, {"altscroll"}) /\ Erases(n, {"nowrap", "drawn"})
  BY SwitchParts DEF Modes, Flags, Reports, Erases
<1>2. Erases(k, uk)
  BY SwitchParts, ScriptParts, EmptySeq DEF Modes, If, Erases
<1>3. Erases(a, ua)
  BY SwitchParts, ScriptParts, EmptySeq DEF Modes, Flags, If, Erases
<1>4. RestoreWrites(kitty, flags) = k \o r \o s \o a \o n
  BY DEF RestoreWrites
<1>5. Remembered(kitty, flags) = Reports \cup {"altscroll", "nowrap", "drawn"} \cup uk \cup ua
  BY DEF Remembered
<1> HIDE DEF k, a, r, s, n, uk, ua
<1>6. Erases(k \o r, uk \cup Reports)
  BY <1>1, <1>2, ErasesBoth
<1>7. Erases((k \o r) \o s, (uk \cup Reports) \cup {"altscroll"})
  BY <1>1, <1>6, ErasesBoth
<1>8. Erases(((k \o r) \o s) \o a, ((uk \cup Reports) \cup {"altscroll"}) \cup ua)
  BY <1>3, <1>7, ErasesBoth
<1>9. Erases((((k \o r) \o s) \o a) \o n, (((uk \cup Reports) \cup {"altscroll"}) \cup ua) \cup {"nowrap", "drawn"})
  BY <1>1, <1>8, ErasesBoth
<1> QED  BY <1>4, <1>5, <1>9

\* A restoration reverts, and undoes what the tty remembers and the raw mode.
LEMMA RestoreReverts ==
    ASSUME NEW kitty \in BOOLEAN, NEW flags \in SUBSET Flags
    PROVE  /\ RestoreScript(kitty, flags) \in Seq(Ops) /\ Reverts(RestoreScript(kitty, flags))
           /\ Cooking \cup Remembered(kitty, flags) \subseteq Undone(RestoreScript(kitty, flags))
<1> DEFINE h == Op("fcntl", {"nonblock"}, {})
           w == RestoreWrites(kitty, flags)
           rest == w \o RestoreCalls
           script == <<h>> \o rest
<1>1. h \in Ops /\ h.on = {"nonblock"} /\ h.off = {}
  BY OneOp DEF Modes, Op
<1>2. w \in Seq(Ops) /\ Done(w) = {} /\ Remembered(kitty, flags) \subseteq Undone(w)
  BY WritesUndo DEF Erases
<1> HIDE DEF h, w, Ops
<1>3. rest \in Seq(Ops) /\ Done(rest) = {} /\ Cooking \cup Remembered(kitty, flags) \subseteq Undone(rest)
  BY <1>2, CallsRevert, ScriptParts, ConcatProperties
<1>4. RestoreScript(kitty, flags) = script
  <2>1. RestoreScript(kitty, flags) = <<h>> \o w \o RestoreCalls
    BY DEF RestoreScript, h, w
  <2>2. <<h>> \in Seq(Ops) /\ RestoreCalls \in Seq(Ops)
    BY <1>1, CallsRevert
  <2>3. (<<h>> \o w) \o RestoreCalls = <<h>> \o (w \o RestoreCalls)
    BY <1>2, <2>2, ConcatAssociative
  <2> QED  BY <2>1, <2>3
<1> HIDE DEF rest
<1>5. script \in Seq(Ops) /\ script # <<>> /\ Head(script) = h /\ Tail(script) = rest
  BY <1>1, <1>3, HeadTailProperties, ConcatProperties
<1>6. Reverts(script) /\ Cooking \cup Remembered(kitty, flags) \subseteq Undone(script)
  <2> HIDE DEF script
  <2> QED  BY <1>1, <1>3, <1>5, FirstOp DEF Reverts, Cooking
<1> QED  BY <1>4, <1>5, <1>6

\* A script that sets no mode but these.
Sets(script, some) == script \in Seq(Ops) /\ Done(script) \subseteq some

LEMMA SetsBoth ==
    ASSUME NEW s, NEW t, NEW some, Sets(s, some), Sets(t, some) PROVE Sets(s \o t, some)
<1>1. s \o t \in Seq(Ops) /\ Done(s \o t) = Done(s) \cup Done(t)
  <2>1. s \in Seq(Ops) /\ t \in Seq(Ops)
    BY DEF Sets
  <2> HIDE DEF Ops
  <2> QED  BY <2>1, ScriptParts, ConcatProperties
<1> QED  BY <1>1 DEF Sets

\* An activation and a mouse switch take nothing of the kitty mode, nor of the
\* alternate screen unless the flags have it.
LEMMA ActivateSets ==
    ASSUME NEW flags \in SUBSET Flags
    PROVE  Sets(ActivateScript(flags), {"raw", "nonblock", "nowrap", "altscroll", "focus", "paste", "mouse"} \cup flags)
<1> DEFINE some == {"raw", "nonblock", "nowrap", "altscroll", "focus", "paste", "mouse"} \cup flags
           c == <<Op("fcntl", {"nonblock"}, {}), Op("termios", {"raw"}, {})>>
           r == Off(Reports)
           a == If("alt" \in flags, On("alt"))
           n == On("nowrap")
           f == If("focus" \in flags, On("focus"))
           p == If("paste" \in flags, On("paste"))
           m == IF "mouse" \in flags THEN On("mouse") ELSE If("alt" \in flags, On("altscroll"))
<1>1. Sets(c, some)
  <2>1. c \in Seq(Ops)
    <3>1. Op("fcntl", {"nonblock"}, {}) \in Ops /\ Op("termios", {"raw"}, {}) \in Ops
      BY OneOp DEF Modes
    <3> QED  BY <3>1
  <2>2. Done(c) \subseteq some
    BY DEF Done, Op
  <2> QED  BY <2>1, <2>2 DEF Sets
<1>2. Sets(r, some) /\ Sets(n, some)
  <2>1. Reports \in SUBSET Modes /\ "nowrap" \in Modes
    BY DEF Modes, Flags, Reports
  <2>2. r \in Seq(Ops) /\ Done(r) = {} /\ n \in Seq(Ops) /\ Done(n) = {"nowrap"}
    BY <2>1, SwitchParts
  <2> HIDE DEF r, n
  <2> QED  BY <2>2 DEF Sets
<1>3. Sets(a, some) /\ Sets(f, some) /\ Sets(p, some)
  BY SwitchParts, ScriptParts, EmptySeq DEF Modes, Flags, If, Sets
<1>4. Sets(m, some)
  BY SwitchParts, ScriptParts, EmptySeq DEF Modes, Flags, If, Sets
<1>5. ActivateScript(flags) = (((((c \o r) \o a) \o n) \o f) \o p) \o m
  BY DEF ActivateScript
<1> HIDE DEF some, c, r, a, n, f, p, m
<1>6. Sets(((c \o r) \o a) \o n, some)
  BY <1>1, <1>2, <1>3, SetsBoth
<1>7. Sets(((((c \o r) \o a) \o n) \o f) \o p, some)
  BY <1>3, <1>6, SetsBoth
<1>8. Sets(ActivateScript(flags), some)
  BY <1>4, <1>5, <1>7, SetsBoth
<1> QED  BY <1>8 DEF some

LEMMA MouseSets ==
    ASSUME NEW on \in BOOLEAN, NEW flags \in SUBSET Flags PROVE Sets(MouseScript(on, flags), {"mouse", "altscroll"})
<1> DEFINE some == {"mouse", "altscroll"}
           m == Off({"mouse"})
           a == If("alt" \in flags, On("altscroll"))
           x == <<Op("write", {"mouse"}, {"altscroll"})>>
<1>1. Sets(x, some)
  <2>1. x \in Seq(Ops)
    BY OneOp DEF Modes, Flags
  <2> QED  BY <2>1, ScriptParts DEF Sets, Op
<1>2. Sets(m, some) /\ Sets(a, some)
  BY SwitchParts, ScriptParts, EmptySeq DEF Modes, Flags, If, Sets
<1>3. MouseScript(on, flags) = IF on THEN x ELSE m \o a
  BY DEF MouseScript
<1> HIDE DEF some, m, a, x
<1>4. Sets(m \o a, some)
  BY <1>2, SetsBoth
<1>5. Sets(MouseScript(on, flags), some)
  BY <1>1, <1>3, <1>4
<1> QED  BY <1>5 DEF some

-----------------------------------------------------------------------------
(* Plans: what the writer does before and after it has restored.           *)

Once(x, s) == \A i, j \in DOMAIN s : s[i] = x /\ s[j] = x => i = j

\* These steps come only first, and these only after a restoration.
Firsts == {"activate", "frame", "resume_needed"}
AfterRestore == {"restored", "stop", "exit"}

\* The last step of a session that ends is its exit.
PlanShape(plan, ending) ==
    /\ \A i \in DOMAIN plan :
        /\ plan[i] \in Firsts => i = 1
        /\ i > 1 /\ plan[i] \in AfterRestore => plan[i - 1] = "restore"
        /\ i > 1 /\ plan[i] = "finish" => plan[i - 1] = "restored"
        /\ ending => plan[i] \in {"untitle", "restore", "exit"}
        /\ plan[i] = "exit" => ending
    /\ Once("restored", plan)
    /\ ending => plan # <<>> /\ plan[Len(plan)] = "exit"

\* A writer that is away, stopped or awaiting the owner, is not active, nor
\* is one that is about to say that it restored or to activate.
HeadFits(plan, active, away) ==
    /\ away => ~active
    /\ plan # <<>> =>
        /\ Head(plan) \in {"restored", "stop", "resume_needed", "finish"} => ~active
        /\ Head(plan) = "frame" => active
        /\ Head(plan) = "activate" => ~active /\ ~away

Away(w) == w.ext \/ w.await
Fits(w) == PlanShape(w.plan, w.ending) /\ HeadFits(w.plan, w.active, Away(w))
Has(w, step) == \E i \in DOMAIN w.plan : w.plan[i] = step

\* What a writer does of its own accord keeps these of it.
Same(w, v) ==
    /\ v.plan = w.plan /\ v.ending = w.ending /\ v.active = w.active /\ v.ext = w.ext /\ v.await = w.await
    /\ v.result = w.result /\ v.code = w.code /\ v.at = w.at /\ v.waiting = w.waiting

\* The plans of one, two and three steps the writer makes.
LEMMA ShortPlans ==
    /\ PlanShape(<<>>, FALSE)
    /\ \A s \in Steps \ {"exit"} : PlanShape(<<s>>, FALSE)
    /\ PlanShape(<<"restore", "stop">>, FALSE) /\ PlanShape(<<"untitle", "restore", "stop">>, FALSE)
    /\ PlanShape(<<"restore", "restored">>, FALSE) /\ PlanShape(<<"untitle", "restore", "restored">>, FALSE)
    /\ PlanShape(<<"restore", "restored", "finish">>, FALSE)
    /\ PlanShape(<<"untitle", "restore", "restored", "finish">>, FALSE)
    /\ PlanShape(<<"restore", "exit">>, TRUE) /\ PlanShape(<<"untitle", "restore", "exit">>, TRUE)
    /\ PlanShape(<<"frame", "painted">>, FALSE) /\ PlanShape(<<"kitty_maybe", "ready">>, FALSE)
<1> USE DEF PlanShape, Firsts, AfterRestore, Once
<1>1. PlanShape(<<>>, FALSE) /\ \A s \in Steps \ {"exit"} : PlanShape(<<s>>, FALSE)
  OBVIOUS
<1>2. PlanShape(<<"restore", "stop">>, FALSE) /\ PlanShape(<<"restore", "restored">>, FALSE)
  OBVIOUS
<1>3. PlanShape(<<"frame", "painted">>, FALSE) /\ PlanShape(<<"kitty_maybe", "ready">>, FALSE)
  OBVIOUS
<1>4. PlanShape(<<"restore", "exit">>, TRUE)
  OBVIOUS
<1>5. PlanShape(<<"untitle", "restore", "stop">>, FALSE)
  OBVIOUS
<1>6. PlanShape(<<"untitle", "restore", "restored">>, FALSE)
  OBVIOUS
<1>7. PlanShape(<<"restore", "restored", "finish">>, FALSE)
  OBVIOUS
<1>8. PlanShape(<<"untitle", "restore", "restored", "finish">>, FALSE)
  OBVIOUS
<1>9. PlanShape(<<"untitle", "restore", "exit">>, TRUE)
  OBVIOUS
<1> QED  BY <1>1, <1>2, <1>3, <1>4, <1>5, <1>6, <1>7, <1>8, <1>9

\* Going on past a step that has nothing to do with a restoration.
LEMMA ShapeTail ==
    ASSUME NEW plan \in Seq(Steps), plan # <<>>, NEW ending, PlanShape(plan, ending), Head(plan) # "exit"
    PROVE  /\ Tail(plan) \in Seq(Steps)
           /\ PlanShape(Tail(plan), ending)
           /\ Tail(plan) # <<>> =>
                /\ Head(Tail(plan)) \notin Firsts
                /\ Head(Tail(plan)) \in AfterRestore => Head(plan) = "restore"
                /\ Head(Tail(plan)) = "finish" => Head(plan) = "restored"
                /\ ending => Head(Tail(plan)) \in {"untitle", "restore", "exit"}
<1> DEFINE t == Tail(plan)
<1>1. /\ t \in Seq(Steps) /\ Len(t) = Len(plan) - 1 /\ DOMAIN t = 1..Len(t) /\ DOMAIN plan = 1..Len(plan)
      /\ \A i \in DOMAIN t : i + 1 \in DOMAIN plan /\ t[i] = plan[i + 1] /\ i \in Nat /\ i > 0
      /\ Len(plan) \in Nat /\ Len(plan) > 0 /\ Head(plan) = plan[1]
  BY HeadTailProperties, LenProperties
<1>2. t # <<>> => Head(t) = plan[2] /\ 2 \in DOMAIN plan /\ Len(t) > 0
  BY <1>1, HeadTailProperties, LenProperties
<1> HIDE DEF t, Steps
<1>3. \A i \in DOMAIN t :
        /\ t[i] \notin Firsts
        /\ i > 1 /\ t[i] \in AfterRestore => t[i - 1] = "restore"
        /\ i > 1 /\ t[i] = "finish" => t[i - 1] = "restored"
        /\ ending => t[i] \in {"untitle", "restore", "exit"}
        /\ t[i] = "exit" => ending
  <2> SUFFICES ASSUME NEW i \in DOMAIN t
               PROVE  /\ t[i] \notin Firsts
                      /\ i > 1 /\ t[i] \in AfterRestore => t[i - 1] = "restore"
                      /\ i > 1 /\ t[i] = "finish" => t[i - 1] = "restored"
                      /\ ending => t[i] \in {"untitle", "restore", "exit"}
                      /\ t[i] = "exit" => ending
    OBVIOUS
  <2>1. i + 1 \in DOMAIN plan /\ t[i] = plan[i + 1] /\ i \in Nat /\ i > 0 /\ i + 1 > 1 /\ i + 1 # 1
    BY <1>1
  <2>2. i > 1 => i - 1 \in DOMAIN t /\ t[i - 1] = plan[i] /\ (i + 1) - 1 = i
    BY <1>1, <2>1
  <2> QED  BY <2>1, <2>2 DEF PlanShape
<1>4. Once("restored", t)
  <2>1. \A i, j \in DOMAIN t : i + 1 = j + 1 => i = j
    BY <1>1
  <2> QED  BY <1>1, <2>1 DEF PlanShape, Once
<1>5. ending => t # <<>> /\ t[Len(t)] = "exit"
  <2> SUFFICES ASSUME ending PROVE t # <<>> /\ t[Len(t)] = "exit"
    OBVIOUS
  <2>1. plan[Len(plan)] = "exit"
    BY DEF PlanShape
  <2>2. Len(plan) # 1
    BY <1>1, <2>1
  <2>3. Len(t) \in DOMAIN t /\ t # <<>>
    BY <1>1, <2>2
  <2> QED  BY <1>1, <2>1, <2>3
<1>6. PlanShape(t, ending)
  BY <1>3, <1>4, <1>5 DEF PlanShape
<1>7. t # <<>> =>
        /\ Head(t) \notin Firsts
        /\ Head(t) \in AfterRestore => Head(plan) = "restore"
        /\ Head(t) = "finish" => Head(plan) = "restored"
        /\ ending => Head(t) \in {"untitle", "restore", "exit"}
  <2> SUFFICES ASSUME t # <<>>
               PROVE  /\ Head(t) \notin Firsts
                      /\ Head(t) \in AfterRestore => Head(plan) = "restore"
                      /\ Head(t) = "finish" => Head(plan) = "restored"
                      /\ ending => Head(t) \in {"untitle", "restore", "exit"}
    OBVIOUS
  <2>1. Head(t) = plan[2] /\ 2 \in DOMAIN plan /\ 2 > 1 /\ 2 - 1 = 1 /\ 2 # 1
    BY <1>2
  <2> QED  BY <1>1, <2>1 DEF PlanShape
<1> QED  BY <1>1, <1>6, <1>7 DEF t

LEMMA FitsTail ==
    ASSUME NEW plan \in Seq(Steps), plan # <<>>, NEW ending, PlanShape(plan, ending), NEW active, NEW away,
           Head(plan) # "exit", Head(plan) = "restore" => ~active \/ ending, away => ~active,
           HeadFits(plan, active, away) \/ Head(plan) \in {"restore", "activate"}
    PROVE  PlanShape(Tail(plan), ending) /\ HeadFits(Tail(plan), active, away)
<1> DEFINE t == Tail(plan)
<1>1. /\ PlanShape(t, ending)
      /\ t # <<>> =>
            /\ Head(t) \notin Firsts
            /\ Head(t) \in AfterRestore => Head(plan) = "restore"
            /\ Head(t) = "finish" => Head(plan) = "restored"
            /\ ending => Head(t) \in {"untitle", "restore", "exit"}
  BY ShapeTail
<1> HIDE DEF t
<1>2. HeadFits(t, active, away)
  BY <1>1 DEF HeadFits, Firsts, AfterRestore
<1> QED  BY <1>1, <1>2 DEF t

-----------------------------------------------------------------------------
(* What the writer does to itself, apart from the answers to its questions *)
(* and its death.                                                          *)

\* The session has failed: its writer will not exit with success.
Failed(w) == w.ending /\ w.result = "err"

\* It stays as active as it was, ends no ending, forgets no failure, and is not
\* about to exit.
Turns(w, v) ==
    /\ v \in WriterType /\ Fits(v)
    /\ v.at # "dead" /\ ~v.waiting /\ v.active = w.active /\ v.code = w.code
    /\ w.ending => v.ending
    /\ Failed(w) => Failed(v)
    /\ v.plan # <<>> => Head(v.plan) # "exit"

\* The steps of a plan of a few steps.
LEMMA HasShort ==
    \A w, s : \A a, b, c, d :
        /\ w.plan = <<>> => ~Has(w, s)
        /\ w.plan = <<a>> => (Has(w, s) <=> s = a)
        /\ w.plan = <<a, b>> => (Has(w, s) <=> s \in {a, b})
        /\ w.plan = <<a, b, c>> => (Has(w, s) <=> s \in {a, b, c})
        /\ w.plan = <<a, b, c, d>> => (Has(w, s) <=> s \in {a, b, c, d})
BY DEF Has

\* Sequences of two, three and four elements, and what puts them together.
LEMMA Tuples ==
    ASSUME NEW S, NEW s \in Seq(S)
    PROVE  /\ Len(s) = 2 => s = <<s[1], s[2]>>
           /\ Len(s) = 3 => s = <<s[1], s[2], s[3]>>
           /\ Len(s) = 4 => s = <<s[1], s[2], s[3], s[4]>>
<1>1. Len(s) = 2 => s = <<s[1], s[2]>>
  <2> SUFFICES ASSUME Len(s) = 2 PROVE s = <<s[1], s[2]>>
    OBVIOUS
  <2>1. s[1] \in S /\ s[2] \in S
    <3>1. 1 \in 1..Len(s) /\ 2 \in 1..Len(s)
      OBVIOUS
    <3> QED  BY <3>1, ElementOfSeq
  <2>2. <<s[1], s[2]>> \in Seq(S) /\ Len(<<s[1], s[2]>>) = 2
    BY <2>1
  <2>3. \A i \in 1..Len(s) : s[i] = <<s[1], s[2]>>[i]
    OBVIOUS
  <2> QED  BY <2>2, <2>3, SeqEqual
<1>2. Len(s) = 3 => s = <<s[1], s[2], s[3]>>
  <2> SUFFICES ASSUME Len(s) = 3 PROVE s = <<s[1], s[2], s[3]>>
    OBVIOUS
  <2>1. s[1] \in S /\ s[2] \in S /\ s[3] \in S
    <3>1. 1 \in 1..Len(s) /\ 2 \in 1..Len(s) /\ 3 \in 1..Len(s)
      OBVIOUS
    <3> QED  BY <3>1, ElementOfSeq
  <2>2. <<s[1], s[2], s[3]>> \in Seq(S) /\ Len(<<s[1], s[2], s[3]>>) = 3
    BY <2>1
  <2>3. \A i \in 1..Len(s) : s[i] = <<s[1], s[2], s[3]>>[i]
    OBVIOUS
  <2> QED  BY <2>2, <2>3, SeqEqual
<1>3. Len(s) = 4 => s = <<s[1], s[2], s[3], s[4]>>
  <2> SUFFICES ASSUME Len(s) = 4 PROVE s = <<s[1], s[2], s[3], s[4]>>
    OBVIOUS
  <2>1. s[1] \in S /\ s[2] \in S /\ s[3] \in S /\ s[4] \in S
    <3>1. 1 \in 1..Len(s) /\ 2 \in 1..Len(s) /\ 3 \in 1..Len(s) /\ 4 \in 1..Len(s)
      OBVIOUS
    <3> QED  BY <3>1, ElementOfSeq
  <2>2. <<s[1], s[2], s[3], s[4]>> \in Seq(S) /\ Len(<<s[1], s[2], s[3], s[4]>>) = 4
    BY <2>1
  <2>3. \A i \in 1..Len(s) : s[i] = <<s[1], s[2], s[3], s[4]>>[i]
    OBVIOUS
  <2> QED  BY <2>2, <2>3, SeqEqual
<1> QED  BY <1>1, <1>2, <1>3

LEMMA JoinTwo == ASSUME NEW S, NEW a \in S, NEW b \in S PROVE <<a>> \o <<b>> = <<a, b>>
<1> DEFINE s == <<a>> \o <<b>>
<1>1. <<a>> \in Seq(S) /\ <<b>> \in Seq(S)
  OBVIOUS
<1>2. s \in Seq(S) /\ Len(s) = 2 /\ s[1] = a /\ s[2] = b
  BY <1>1, ConcatProperties
<1> HIDE DEF s
<1>3. s = <<a, b>>
  BY <1>2, Tuples
<1> QED  BY <1>3 DEF s

LEMMA JoinThree ==
    ASSUME NEW S, NEW a \in S, NEW b \in S, NEW c \in S
    PROVE  <<a, b>> \o <<c>> = <<a, b, c>> /\ <<a>> \o <<b, c>> = <<a, b, c>>
<1> DEFINE s == <<a, b>> \o <<c>>
           t == <<a>> \o <<b, c>>
<1>1. <<a>> \in Seq(S) /\ <<a, b>> \in Seq(S) /\ <<c>> \in Seq(S) /\ <<b, c>> \in Seq(S)
  OBVIOUS
<1>2. s \in Seq(S) /\ Len(s) = 3 /\ s[1] = a /\ s[2] = b /\ s[3] = c
  BY <1>1, ConcatProperties
<1>3. t \in Seq(S) /\ Len(t) = 3 /\ t[1] = a /\ t[2] = b /\ t[3] = c
  BY <1>1, ConcatProperties
<1> HIDE DEF s, t
<1>4. s = <<a, b, c>> /\ t = <<a, b, c>>
  BY <1>2, <1>3, Tuples
<1> QED  BY <1>4 DEF s, t

LEMMA JoinFour ==
    ASSUME NEW S, NEW a \in S, NEW b \in S, NEW c \in S, NEW d \in S
    PROVE  <<a, b>> \o <<c, d>> = <<a, b, c, d>>
<1> DEFINE s == <<a, b>> \o <<c, d>>
<1>1. <<a, b>> \in Seq(S) /\ <<c, d>> \in Seq(S)
  OBVIOUS
<1>2. s \in Seq(S) /\ Len(s) = 4 /\ s[1] = a /\ s[2] = b /\ s[3] = c /\ s[4] = d
  BY <1>1, ConcatProperties
<1> HIDE DEF s
<1>3. s = <<a, b, c, d>>
  BY <1>2, Tuples
<1> QED  BY <1>3 DEF s

\* The plan of a suspension, which puts the title back if it was changed.
LEMMA SuspensionPlan ==
    ASSUME NEW w \in WriterType
    PROVE  LET p == Suspension(w) IN
           /\ p = <<"restore">> \/ p = <<"untitle", "restore">>
           /\ \A s \in Steps : p \o <<s>> = <<"restore", s>> \/ p \o <<s>> = <<"untitle", "restore", s>>
           /\ \A s, t \in Steps : \/ p \o <<s, t>> = <<"restore", s, t>>
                                  \/ p \o <<s, t>> = <<"untitle", "restore", s, t>>
<1> DEFINE p == Suspension(w)
<1>1. "restore" \in Steps /\ "untitle" \in Steps
  BY StepNames
<1>2. p = <<"restore">> \/ p = <<"untitle", "restore">>
  <2>1. CASE w.saved
    BY <1>1, <2>1, JoinTwo DEF Suspension, If
  <2>2. CASE ~w.saved
    <3>1. p = <<>> \o <<"restore">>
      BY <2>2 DEF Suspension, If
    <3>2. <<>> \o <<"restore">> = <<"restore">>
      OBVIOUS
    <3> QED  BY <3>1, <3>2
  <2> QED  BY <2>1, <2>2
<1> HIDE DEF p, Steps
<1>3. \A s \in Steps : p \o <<s>> = <<"restore", s>> \/ p \o <<s>> = <<"untitle", "restore", s>>
  BY <1>1, <1>2, JoinTwo, JoinThree
<1>4. \A s, t \in Steps : \/ p \o <<s, t>> = <<"restore", s, t>>
                         \/ p \o <<s, t>> = <<"untitle", "restore", s, t>>
  <2> TAKE s, t \in Steps
  <2>1. <<"restore">> \o <<s, t>> = <<"restore", s, t>>
    BY <1>1, JoinThree
  <2>2. <<"untitle", "restore">> \o <<s, t>> = <<"untitle", "restore", s, t>>
    BY <1>1, JoinFour
  <2> QED  BY <1>2, <2>1, <2>2
<1> QED  BY <1>2, <1>3, <1>4 DEF p

\* The end of run, whatever the session ended with.
LEMMA EpilogueTurns ==
    ASSUME NEW w \in WriterType, NEW result \in {"ok", "err"}, Away(w) => ~w.active
    PROVE  LET v == Epilogue(w, result) IN
           /\ v \in WriterType /\ Fits(v) /\ v.at = w.at /\ v.waiting = w.waiting
           /\ v.active = w.active /\ v.code = w.code /\ v.ext = w.ext /\ v.await = w.await
           /\ v.ending /\ v.result = result
           /\ v.plan # <<>> /\ Head(v.plan) # "exit"
           /\ ~Has(v, "activate") /\ ~Has(v, "stop") /\ ~Has(v, "restored")
<1> DEFINE v == Epilogue(w, result)
           plan == Suspension(w) \o <<"exit">>
<1>1. v \in WriterType /\ v.at = w.at /\ v.waiting = w.waiting
  BY EndsSession DEF Kept
<1>2. plan \in {<<"restore", "exit">>, <<"untitle", "restore", "exit">>}
  BY SuspensionPlan, StepNames
<1>3. /\ v.plan = plan /\ v.ending = TRUE /\ v.result = result
      /\ v.active = w.active /\ v.code = w.code /\ v.ext = w.ext /\ v.await = w.await
  BY DEF Epilogue, WriterType
<1> HIDE DEF v, plan
<1>4. plan # <<>> /\ Head(plan) \in {"untitle", "restore"}
  BY <1>2
<1>5. PlanShape(plan, TRUE)
  BY <1>2, ShortPlans
<1>6. HeadFits(v.plan, v.active, Away(v))
  BY <1>3, <1>4 DEF HeadFits, Away
<1>7. Fits(v)
  BY <1>3, <1>5, <1>6 DEF Fits
<1>8. ~Has(v, "activate") /\ ~Has(v, "stop") /\ ~Has(v, "restored")
  BY <1>2, <1>3, HasShort
<1> QED  BY <1>1, <1>3, <1>4, <1>7, <1>8 DEF v

\* A suspension: the restoration, and then what the writer suspended for.
LEMMA SuspendTurns ==
    ASSUME NEW w \in WriterType, ~w.ending, Away(w) => ~w.active,
           NEW then \in {<<"stop">>, <<"restored">>, <<"restored", "finish">>}
    PROVE  LET v == Suspend(w, then) IN
           /\ v \in WriterType /\ Fits(v) /\ v.at = w.at /\ v.waiting = w.waiting
           /\ v.active = w.active /\ v.code = w.code /\ v.ext = w.ext /\ v.await = w.await
           /\ ~v.ending /\ v.result = w.result
           /\ v.plan # <<>> /\ Head(v.plan) # "exit"
           /\ ~Has(v, "activate") /\ (Has(v, "stop") => then = <<"stop">>) /\ (Has(v, "restored") => then # <<"stop">>)
<1> DEFINE v == Suspend(w, then)
           plan == Suspension(w) \o then
<1>1. v \in WriterType /\ v.at = w.at /\ v.waiting = w.waiting
  <2>1. then \in Seq(Steps)
    BY PlanSteps, StepNames
  <2> QED  BY <2>1, Suspends DEF Kept
<1>2. /\ then = <<"stop">> => plan \in {<<"restore", "stop">>, <<"untitle", "restore", "stop">>}
      /\ then = <<"restored">> => plan \in {<<"restore", "restored">>, <<"untitle", "restore", "restored">>}
      /\ then = <<"restored", "finish">> =>
            plan \in {<<"restore", "restored", "finish">>, <<"untitle", "restore", "restored", "finish">>}
  <2>1. "stop" \in Steps /\ "restored" \in Steps /\ "finish" \in Steps
    BY StepNames
  <2>2. CASE then = <<"stop">>
    BY <2>1, <2>2, SuspensionPlan
  <2>3. CASE then = <<"restored">>
    BY <2>1, <2>3, SuspensionPlan
  <2>4. CASE then = <<"restored", "finish">>
    BY <2>1, <2>4, SuspensionPlan
  <2> QED  BY <2>2, <2>3, <2>4
<1>3. /\ v.plan = plan /\ v.ending = w.ending /\ v.result = w.result
      /\ v.active = w.active /\ v.code = w.code /\ v.ext = w.ext /\ v.await = w.await
  BY DEF Suspend, WriterType
<1> HIDE DEF v, plan
<1>4. plan # <<>> /\ Head(plan) \in {"untitle", "restore"}
  BY <1>2
<1>5. PlanShape(plan, FALSE)
  BY <1>2, ShortPlans
<1>6. HeadFits(v.plan, v.active, Away(v))
  BY <1>3, <1>4 DEF HeadFits, Away
<1>7. w.ending = FALSE
  BY DEF WriterType
<1>8. Fits(v)
  BY <1>3, <1>5, <1>6, <1>7 DEF Fits
<1>9. ~Has(v, "activate") /\ (Has(v, "stop") => then = <<"stop">>) /\ (Has(v, "restored") => then # <<"stop">>)
  BY <1>2, <1>3, HasShort
<1> QED  BY <1>1, <1>3, <1>4, <1>8, <1>9 DEF v

\* An activation comes first, and then nothing that restores.
Plain == {"kitty", "title", "probe", "ready"}
Begun(p) == p \in Seq(Steps) /\ p # <<>> /\ p[1] = "activate" /\ \A i \in DOMAIN p : i > 1 => p[i] \in Plain

LEMMA BegunGoesOn == ASSUME NEW p, NEW q \in Seq(Plain), Begun(p) PROVE Begun(p \o q)
<1> DEFINE c == p \o q
<1>1. p \in Seq(Steps) /\ q \in Seq(Steps)
  <2>1. Plain \subseteq Steps
    BY DEF Plain, Steps, Writes, Tells, Asks
  <2> QED  BY <2>1, SeqMonotonic DEF Begun
<1>2. /\ c \in Seq(Steps) /\ DOMAIN c = 1..(Len(p) + Len(q)) /\ DOMAIN p = 1..Len(p) /\ DOMAIN q = 1..Len(q)
      /\ Len(c) = Len(p) + Len(q) /\ Len(p) \in Nat \ {0} /\ Len(q) \in Nat
      /\ \A i \in DOMAIN c : c[i] = IF i <= Len(p) THEN p[i] ELSE q[i - Len(p)]
  <2> HIDE DEF Steps, Plain
  <2> QED  BY <1>1, ConcatProperties, LenProperties, EmptySeq DEF Begun
<1> HIDE DEF c
<1>3. c # <<>> /\ c[1] = "activate"
  <2>1. 1 \in DOMAIN c /\ 1 <= Len(p)
    BY <1>2
  <2> QED  BY <1>2, <2>1 DEF Begun
<1>4. ASSUME NEW i \in DOMAIN c, i > 1 PROVE c[i] \in Plain
  <2>1. CASE i <= Len(p)
    BY <1>2, <1>4, <2>1 DEF Begun
  <2>2. CASE ~(i <= Len(p))
    <3>1. i - Len(p) \in DOMAIN q /\ c[i] = q[i - Len(p)]
      BY <1>2, <2>2
    <3>2. i - Len(p) \in 1..Len(q)
      BY <1>2, <3>1
    <3> HIDE DEF Plain
    <3> QED  BY <3>1, <3>2, ElementOfSeq
  <2> QED  BY <2>1, <2>2
<1>5. Begun(c)
  BY <1>2, <1>3, <1>4 DEF Begun
<1> QED  BY <1>5 DEF c

LEMMA ActivationTurns ==
    ASSUME NEW w \in WriterType, ~w.active, ~w.ext, ~w.ending
    PROVE  LET v == Activation(w) IN
           /\ v \in WriterType /\ Fits(v) /\ v.at = w.at /\ v.waiting = w.waiting
           /\ v.active = w.active /\ v.code = w.code /\ v.ext = w.ext /\ ~v.await
           /\ ~v.ending /\ v.result = w.result
           /\ v.plan # <<>> /\ Head(v.plan) # "exit"
           /\ ~Has(v, "stop") /\ ~Has(v, "restored")
<1> DEFINE v == Activation(w)
           k == If(w.enhanced, <<"kitty">>)
           t == If(w.title, <<"title">>)
           x == <<IF ~w.probed /\ "alt" \in w.flags THEN "probe" ELSE "ready">>
           plan == ((<<"activate">> \o k) \o t) \o x
<1>1. v \in WriterType /\ v.at = w.at /\ v.waiting = w.waiting
  BY Activates DEF Kept
<1>2. Begun(plan)
  <2>1. k \in Seq(Plain) /\ t \in Seq(Plain) /\ x \in Seq(Plain)
    <3>1. <<>> \in Seq(Plain)
      BY EmptySeq
    <3>2. <<"kitty">> \in Seq(Plain) /\ <<"title">> \in Seq(Plain) /\ <<"probe">> \in Seq(Plain) /\ <<"ready">> \in Seq(Plain)
      BY DEF Plain
    <3> HIDE DEF Plain
    <3> QED  BY <3>1, <3>2 DEF If
  <2>2. Begun(<<"activate">>)
    <3>1. <<"activate">> \in Seq(Steps)
      BY PlanSteps, StepNames
    <3> QED  BY <3>1 DEF Begun
  <2> HIDE DEF k, t, x
  <2>3. Begun(<<"activate">> \o k)
    BY <2>1, <2>2, BegunGoesOn
  <2>4. Begun((<<"activate">> \o k) \o t)
    BY <2>1, <2>3, BegunGoesOn
  <2> QED  BY <2>1, <2>4, BegunGoesOn
<1>3. /\ v.plan = plan /\ v.ending = w.ending /\ v.result = w.result
      /\ v.active = w.active /\ v.code = w.code /\ v.ext = w.ext /\ v.await = FALSE
  <2>1. Activation(w) = [w EXCEPT !.await = FALSE, !.plan = plan]
    BY DEF Activation
  <2> HIDE DEF plan
  <2> QED  BY <2>1 DEF WriterType
<1> HIDE DEF v, plan
<1>4. plan # <<>> /\ Head(plan) = "activate" /\ DOMAIN plan \subseteq Nat
      /\ \A i \in DOMAIN plan : i = 1 \/ (i > 1 /\ plan[i] \in Plain)
  <2>1. DOMAIN plan = 1..Len(plan) /\ Len(plan) \in Nat /\ Head(plan) = plan[1]
    BY <1>2, LenProperties DEF Begun
  <2> QED  BY <1>2, <2>1 DEF Begun
<1>5. PlanShape(plan, FALSE)
  <2>1. plan[1] = "activate"
    BY <1>2 DEF Begun
  <2>2. \A i \in DOMAIN plan : i # 1 =>
            /\ plan[i] \notin Firsts \cup AfterRestore \cup {"finish"}
            /\ plan[i] # "exit" /\ plan[i] # "restored"
    BY <1>4 DEF Plain, Firsts, AfterRestore
  <2> QED  BY <1>4, <2>1, <2>2 DEF PlanShape, Once, Firsts
<1>6. HeadFits(v.plan, v.active, Away(v))
  BY <1>3, <1>4 DEF HeadFits, Away
<1>7. w.ending = FALSE
  BY DEF WriterType
<1>8. Fits(v)
  BY <1>3, <1>5, <1>6, <1>7 DEF Fits
<1>9. ~Has(v, "stop") /\ ~Has(v, "restored")
  <2>1. plan[1] = "activate"
    BY <1>2 DEF Begun
  <2> QED  BY <1>3, <1>4, <2>1 DEF Has, Plain
<1> QED  BY <1>1, <1>3, <1>4, <1>8, <1>9 DEF v

LEMMA NextFields ==
    ASSUME NEW w \in WriterType, w.plan # <<>>
    PROVE  LET v == Next1(w) IN
           /\ v \in WriterType /\ v.plan = Tail(w.plan)
           /\ v.at = w.at /\ v.waiting = w.waiting /\ v.active = w.active /\ v.code = w.code
           /\ v.ext = w.ext /\ v.await = w.await /\ v.ending = w.ending /\ v.result = w.result
           /\ \A s : Has(v, s) => Has(w, s)
<1> DEFINE v == Next1(w)
<1>1. v \in WriterType
  BY GoesOn DEF Kept
<1>2. /\ v.plan = Tail(w.plan)
      /\ v.at = w.at /\ v.waiting = w.waiting /\ v.active = w.active /\ v.code = w.code
      /\ v.ext = w.ext /\ v.await = w.await /\ v.ending = w.ending /\ v.result = w.result
  BY DEF Next1, WriterType
<1>3. ASSUME NEW s, Has(v, s) PROVE Has(w, s)
  <2>1. w.plan \in Seq(Steps)
    BY DEF WriterType
  <2> HIDE DEF v, Steps
  <2>2. \A i \in DOMAIN Tail(w.plan) : i + 1 \in DOMAIN w.plan /\ Tail(w.plan)[i] = w.plan[i + 1]
    BY <2>1, HeadTailProperties, LenProperties
  <2> QED  BY <1>2, <1>3, <2>2 DEF Has
<1> QED  BY <1>1, <1>2, <1>3

\* Going on in the plan, past a step that is not a question.
LEMMA NextTurns ==
    ASSUME NEW w \in WriterType, w.plan # <<>>, Fits(w), w.at # "dead", ~w.waiting, Head(w.plan) \notin Asks \cup {"exit"}
    PROVE  Turns(w, Next1(w))
<1> DEFINE v == Next1(w)
<1>1. /\ v \in WriterType /\ v.plan = Tail(w.plan)
      /\ v.at = w.at /\ v.waiting = w.waiting /\ v.active = w.active /\ v.code = w.code
      /\ v.ext = w.ext /\ v.await = w.await /\ v.ending = w.ending /\ v.result = w.result
  BY NextFields
<1> HIDE DEF v
<1>2. w.plan \in Seq(Steps) /\ "restore" \in Asks /\ "activate" \in Asks
  BY DEF WriterType, Asks
<1>3. /\ PlanShape(v.plan, w.ending) /\ HeadFits(v.plan, w.active, Away(w))
      /\ v.plan # <<>> => Head(v.plan) # "exit"
  <2>1. PlanShape(w.plan, w.ending) /\ HeadFits(w.plan, w.active, Away(w)) /\ (Away(w) => ~w.active)
    BY DEF Fits, HeadFits
  <2>2. PlanShape(v.plan, w.ending) /\ HeadFits(v.plan, w.active, Away(w))
    BY <1>1, <1>2, <2>1, FitsTail
  <2>3. v.plan # <<>> => Head(v.plan) # "exit"
    BY <1>1, <1>2, <2>1, ShapeTail DEF AfterRestore
  <2> QED  BY <2>2, <2>3
<1>4. Away(v) = Away(w)
  BY <1>1 DEF Away
<1>5. Turns(w, v)
  BY <1>1, <1>3, <1>4 DEF Turns, Fits, Failed
<1> QED  BY <1>5 DEF v

\* A step that failed ends the session, or is remembered by one that ends.
LEMMA FailingFits ==
    ASSUME NEW w \in WriterType, w.plan # <<>>, Fits(w), Head(w.plan) # "exit"
    PROVE  LET v == Failing(w) IN
           /\ v \in WriterType /\ Fits(v) /\ v.at = w.at /\ v.waiting = w.waiting
           /\ v.active = w.active /\ v.code = w.code /\ v.ext = w.ext /\ v.await = w.await
           /\ Failed(v)
           /\ v.plan # <<>> /\ Head(v.plan) = "exit" => Head(w.plan) = "restore"
           /\ \A s \in {"activate", "stop", "restored"} : ~Has(v, s)
<1>1. PlanShape(w.plan, w.ending) /\ HeadFits(w.plan, w.active, Away(w)) /\ (Away(w) => ~w.active)
  BY DEF Fits, HeadFits
<1>2. CASE w.ending
  <2> DEFINE n == Next1(w)
             v == [n EXCEPT !.result = "err"]
  <2>1. /\ n \in WriterType /\ n.plan = Tail(w.plan)
        /\ n.at = w.at /\ n.waiting = w.waiting /\ n.active = w.active /\ n.code = w.code
        /\ n.ext = w.ext /\ n.await = w.await /\ n.ending = w.ending
        /\ \A s : Has(n, s) => Has(w, s)
    BY NextFields
  <2> HIDE DEF n
  <2>2. /\ v \in WriterType /\ v.result = "err" /\ v.plan = n.plan
        /\ v.at = w.at /\ v.waiting = w.waiting /\ v.active = w.active /\ v.code = w.code
        /\ v.ext = w.ext /\ v.await = w.await /\ v.ending = w.ending
    BY <2>1 DEF WriterType
  <2> HIDE DEF v
  <2>3. w.plan \in Seq(Steps)
    BY DEF WriterType
  <2>4. Head(w.plan) \in {"untitle", "restore"}
    <3>1. 1 \in DOMAIN w.plan /\ Head(w.plan) = w.plan[1]
      BY <2>3, LenProperties, EmptySeq
    <3> QED  BY <1>1, <1>2, <3>1 DEF PlanShape
  <2>5. /\ PlanShape(v.plan, w.ending) /\ HeadFits(v.plan, w.active, Away(w))
        /\ v.plan # <<>> /\ Head(v.plan) = "exit" => Head(w.plan) = "restore"
    <3>1. PlanShape(Tail(w.plan), w.ending) /\ HeadFits(Tail(w.plan), w.active, Away(w))
      <4> DEFINE active == w.active
                 away == Away(w)
                 plan == w.plan
      <4>1. w.ending = TRUE
        BY <1>2 DEF WriterType
      <4>2. PlanShape(plan, TRUE) /\ plan \in Seq(Steps) /\ plan # <<>> /\ Head(plan) # "exit"
            /\ (away => ~active) /\ HeadFits(plan, active, away)
        BY <1>1, <2>3, <4>1
      <4> HIDE DEF plan, active, away
      <4>3. PlanShape(Tail(plan), TRUE) /\ HeadFits(Tail(plan), active, away)
        BY <4>2, FitsTail
      <4> QED  BY <4>1, <4>3 DEF plan, active, away
    <3>2. Tail(w.plan) # <<>> /\ Head(Tail(w.plan)) = "exit" => Head(w.plan) = "restore"
      BY <1>1, <2>3, <2>4, ShapeTail DEF AfterRestore
    <3> QED  BY <2>1, <2>2, <3>1, <3>2
  <2>6. Fits(v)
    <3>1. Away(v) = Away(w)
      BY <2>2 DEF Away
    <3> QED  BY <2>2, <2>5, <3>1 DEF Fits
  <2>7. \A s \in {"activate", "stop", "restored"} : ~Has(v, s)
    <3>1. \A s : Has(v, s) => Has(w, s)
      BY <2>1, <2>2 DEF Has
    <3> QED  BY <1>1, <1>2, <3>1 DEF PlanShape, Has
  <2>8. Failing(w) = v
    BY <1>2 DEF Failing, v, n
  <2> QED  BY <1>2, <2>2, <2>5, <2>6, <2>7, <2>8 DEF Failed
<1>3. CASE ~w.ending
  <2>1. Failing(w) = Epilogue(w, "err")
    BY <1>3 DEF Failing
  <2> QED  BY <1>1, <2>1, EpilogueTurns DEF Failed
<1> QED  BY <1>2, <1>3

\* A command of the owner.  Only two of them activate, only two restore.
Ends == {"suspend", "shutdown"}
Begins == {"init", "resume"}

LEMMA ObeyedTurns ==
    ASSUME NEW w \in WriterType, NEW command \in Commands, w.plan = <<>>, ~w.ending, w.at # "dead", ~w.waiting,
           Away(w) => ~w.active, command.kind = "init" => ~w.active /\ ~w.ext
    PROVE  LET v == Obeyed(w, command) IN
           /\ Turns(w, v)
           /\ v.ext = w.ext
           /\ v.await = w.await \/ (~v.await /\ command.kind \in Begins)
           /\ Has(v, "activate") => command.kind \in Begins /\ ~v.ext /\ ~v.await
           /\ ~Has(v, "stop")
           /\ Has(v, "restored") => command.kind \in Ends
<1> DEFINE v == Obeyed(w, command)
           Result == /\ Turns(w, v)
                     /\ v.ext = w.ext
                     /\ v.await = w.await \/ (~v.await /\ command.kind \in Begins)
                     /\ Has(v, "activate") => command.kind \in Begins /\ ~v.ext /\ ~v.await
                     /\ ~Has(v, "stop")
                     /\ Has(v, "restored") => command.kind \in Ends
<1> SUFFICES Result
  OBVIOUS
<1>0. ~Failed(w)
  BY DEF Failed
<1>1. ASSUME v = Epilogue(w, "ok") \/ v = Epilogue(w, "err") PROVE Result
  <2> HIDE DEF v
  <2> QED  BY <1>0, <1>1, EpilogueTurns DEF Turns
<1>2. ASSUME NEW then \in {<<"restored">>, <<"restored", "finish">>}, v = Suspend(w, then), command.kind \in Ends PROVE Result
  <2> HIDE DEF v
  <2> QED  BY <1>0, <1>2, SuspendTurns DEF Turns
<1>3. ASSUME NEW u \in WriterType, Same(w, u), ~w.active, ~w.ext, v = Activation(u), command.kind \in Begins PROVE Result
  <2> HIDE DEF v
  <2>1. ~u.active /\ ~u.ext /\ ~u.ending
    BY <1>3 DEF Same
  <2> QED  BY <1>0, <1>3, <2>1, ActivationTurns DEF Turns, Same
\* A plan of one step, or none, that keeps the rest.
<1>4. ASSUME v \in WriterType, v.ending = w.ending, v.active = w.active, v.ext = w.ext, v.await = w.await,
             v.code = w.code, v.at = w.at, v.waiting = w.waiting,
             \/ v.plan = <<>>
             \/ v.plan = <<"frame", "painted">> /\ w.active
             \/ \E s \in {"title", "mouse_on", "mouse_off"} : v.plan = <<s>>
      PROVE  Result
  <2> HIDE DEF v
  <2>1. {"title", "mouse_on", "mouse_off"} \subseteq Steps \ {"exit"}
    BY StepNames
  <2>2. w.ending = FALSE
    BY DEF WriterType
  <2>3. PlanShape(v.plan, v.ending)
    BY <1>4, <2>1, <2>2, ShortPlans
  <2>4. HeadFits(v.plan, v.active, Away(v))
    <3>1. v.plan # <<>> => Head(v.plan) \in {"title", "mouse_on", "mouse_off"} \/ (Head(v.plan) = "frame" /\ w.active)
      BY <1>4
    <3> QED  BY <1>4, <3>1 DEF HeadFits, Away
  <2>5. v.plan # <<>> => Head(v.plan) # "exit"
    BY <1>4
  <2>6. ~Has(v, "activate") /\ ~Has(v, "stop") /\ ~Has(v, "restored")
    BY <1>4, HasShort
  <2> QED  BY <1>0, <1>4, <2>2, <2>3, <2>4, <2>5, <2>6 DEF Turns, Fits
<1>5. v \in WriterType
  BY Obeys DEF Kept
<1>6. CASE command.kind = "init"
  <2> DEFINE u == [w EXCEPT !.flags = command.flags]
  <2>1. command.flags \in SUBSET Flags
    BY <1>6 DEF Commands
  <2>2. u \in WriterType /\ Same(w, u)
    BY <2>1 DEF WriterType, Same
  <2>3. v = Activation(u)
    BY <1>6 DEF Obeyed
  <2> HIDE DEF u
  <2> QED  BY <1>3, <1>6, <2>2, <2>3 DEF Begins
<1>7. CASE command.kind = "draw"
  <2>1. v = IF w.await THEN w ELSE IF ~w.active THEN Epilogue(w, "err") ELSE [w EXCEPT !.plan = <<"frame", "painted">>]
    BY <1>7 DEF Obeyed
  <2>2. CASE w.await
    BY <1>4, <2>1, <2>2
  <2>3. CASE ~w.await /\ ~w.active
    BY <1>1, <2>1, <2>3
  <2>4. CASE ~w.await /\ w.active
    <3>1. v = [w EXCEPT !.plan = <<"frame", "painted">>]
      BY <2>1, <2>4
    <3>2. /\ v.ending = w.ending /\ v.active = w.active /\ v.ext = w.ext /\ v.await = w.await
          /\ v.code = w.code /\ v.at = w.at /\ v.waiting = w.waiting /\ v.plan = <<"frame", "painted">>
      BY <3>1 DEF WriterType
    <3> QED  BY <1>4, <1>5, <2>4, <3>2
  <2> QED  BY <2>2, <2>3, <2>4
<1>8. CASE command.kind = "title"
  <2> DEFINE plan == If(w.active /\ ~w.await /\ ~w.probe, <<"title">>)
  <2>1. v = [w EXCEPT !.title = TRUE, !.plan = plan]
    BY <1>8 DEF Obeyed
  <2>2. plan = <<>> \/ plan = <<"title">>
    BY DEF If
  <2> HIDE DEF plan
  <2>3. /\ v.ending = w.ending /\ v.active = w.active /\ v.ext = w.ext /\ v.await = w.await
        /\ v.code = w.code /\ v.at = w.at /\ v.waiting = w.waiting /\ v.plan = plan
    BY <2>1 DEF WriterType
  <2> QED  BY <1>4, <1>5, <2>2, <2>3
<1>9. CASE command.kind = "mouse"
  <2> DEFINE flags == IF command.on THEN w.flags \cup {"mouse"} ELSE w.flags \ {"mouse"}
             plan == If((command.on # ("mouse" \in w.flags)) /\ w.active /\ ~w.await,
                        <<IF command.on THEN "mouse_on" ELSE "mouse_off">>)
  <2>1. v = [w EXCEPT !.flags = flags, !.plan = plan]
    BY <1>9 DEF Obeyed
  <2>2. plan = <<>> \/ plan = <<"mouse_on">> \/ plan = <<"mouse_off">>
    BY DEF If
  <2> HIDE DEF plan, flags
  <2>3. /\ v.ending = w.ending /\ v.active = w.active /\ v.ext = w.ext /\ v.await = w.await
        /\ v.code = w.code /\ v.at = w.at /\ v.waiting = w.waiting /\ v.plan = plan
    BY <2>1 DEF WriterType
  <2> QED  BY <1>4, <1>5, <2>2, <2>3
<1>10. CASE command.kind = "suspend"
  <2>1. v = IF w.active THEN Suspend(w, <<"restored">>) ELSE Epilogue(w, "err")
    BY <1>10 DEF Obeyed
  <2> HIDE DEF v, Result
  <2> QED  BY <1>1, <1>2, <1>10, <2>1 DEF Ends
<1>11. CASE command.kind = "resume"
  <2>1. v = IF w.active \/ w.ext THEN Epilogue(w, "err") ELSE Activation(w)
    BY <1>11 DEF Obeyed
  <2>2. Same(w, w)
    BY DEF Same
  <2> HIDE DEF v, Result
  <2> QED  BY <1>1, <1>3, <1>11, <2>1, <2>2 DEF Begins
<1>12. CASE command.kind = "shutdown"
  <2>1. v = Suspend(w, <<"restored", "finish">>)
    BY <1>12 DEF Obeyed
  <2> HIDE DEF v, Result
  <2> QED  BY <1>2, <1>12, <2>1 DEF Ends
<1>13. command.kind \in {"init", "draw", "title", "mouse", "suspend", "resume", "shutdown"}
  BY DEF Commands
<1> HIDE DEF v, Result
<1> QED  BY <1>6, <1>7, <1>8, <1>9, <1>10, <1>11, <1>12, <1>13

\* An answer: the writer goes on, more active or less, or fails.
LEMMA AnsweredFits ==
    ASSUME NEW w \in WriterType, w.plan # <<>>, Fits(w), Head(w.plan) \in Asks, answer \in {"ok", "failed"}
    PROVE  LET v == Answered(w, Head(w.plan)) IN
           /\ v \in WriterType /\ Fits(v) /\ v.at = w.at /\ v.waiting = w.waiting
           /\ v.code = w.code /\ v.ext = w.ext /\ v.await = w.await
           /\ w.ending => v.ending
           /\ Failed(w) => Failed(v)
           /\ v.active = (IF answer = "ok" /\ Head(w.plan) = "activate" THEN TRUE
                          ELSE IF answer = "ok" /\ Head(w.plan) = "restore" THEN FALSE ELSE w.active)
           /\ answer = "failed" /\ Head(w.plan) # "kitty_maybe" => Failed(v)
           /\ v.plan # <<>> /\ Head(v.plan) = "exit" => Head(w.plan) = "restore"
           /\ \A s \in {"activate", "stop", "restored"} : Has(v, s) => Has(w, s)
<1> DEFINE step == Head(w.plan)
           v == Answered(w, step)
           n == Next1(w)
           Result == /\ v \in WriterType /\ Fits(v) /\ v.at = w.at /\ v.waiting = w.waiting
                     /\ v.code = w.code /\ v.ext = w.ext /\ v.await = w.await
                     /\ w.ending => v.ending
                     /\ Failed(w) => Failed(v)
                     /\ v.active = (IF answer = "ok" /\ step = "activate" THEN TRUE
                                    ELSE IF answer = "ok" /\ step = "restore" THEN FALSE ELSE w.active)
                     /\ answer = "failed" /\ step # "kitty_maybe" => Failed(v)
                     /\ v.plan # <<>> /\ Head(v.plan) = "exit" => step = "restore"
                     /\ \A s \in {"activate", "stop", "restored"} : Has(v, s) => Has(w, s)
<1> SUFFICES Result
  OBVIOUS
<1>1. /\ n \in WriterType /\ n.plan = Tail(w.plan)
      /\ n.at = w.at /\ n.waiting = w.waiting /\ n.active = w.active /\ n.code = w.code
      /\ n.ext = w.ext /\ n.await = w.await /\ n.ending = w.ending /\ n.result = w.result
      /\ \A s : Has(n, s) => Has(w, s)
  BY NextFields
<1>2. PlanShape(w.plan, w.ending) /\ HeadFits(w.plan, w.active, Away(w)) /\ (Away(w) => ~w.active) /\ w.plan \in Seq(Steps)
  BY DEF Fits, HeadFits, WriterType
<1>3. step # "exit" /\ step \in Asks
  BY DEF Asks
<1>4. step = "activate" => ~w.active /\ ~Away(w)
  BY <1>2 DEF HeadFits
<1>5. /\ PlanShape(n.plan, w.ending)
      /\ n.plan # <<>> /\ Head(n.plan) = "exit" => step = "restore"
  BY <1>1, <1>2, <1>3, ShapeTail DEF AfterRestore
<1> HIDE DEF n
\* Going on, as active as the answer makes it.
<1>6. ASSUME NEW b \in BOOLEAN, v \in WriterType, v.plan = n.plan, v.active = b,
             v.at = w.at, v.waiting = w.waiting, v.code = w.code, v.ext = w.ext, v.await = w.await,
             v.ending = w.ending, v.result = w.result,
             step = "restore" => ~b, Away(w) => ~b, step # "activate" /\ step # "restore" => b = w.active
      PROVE  /\ v \in WriterType /\ Fits(v)
             /\ w.ending => v.ending
             /\ Failed(w) => Failed(v)
             /\ v.plan # <<>> /\ Head(v.plan) = "exit" => step = "restore"
             /\ \A s \in {"activate", "stop", "restored"} : Has(v, s) => Has(w, s)
  <2> HIDE DEF v
  <2>1. HeadFits(n.plan, b, Away(w))
    <3>1. HeadFits(w.plan, b, Away(w)) \/ step \in {"restore", "activate"}
      <4>1. CASE step # "activate" /\ step # "restore"
        BY <1>2, <1>6, <4>1
      <4> QED  BY <4>1
    <3>2. PlanShape(Tail(w.plan), w.ending) /\ HeadFits(Tail(w.plan), b, Away(w))
      BY <1>2, <1>3, <1>6, <3>1, FitsTail
    <3> QED  BY <1>1, <3>2
  <2>2. Away(v) = Away(w)
    BY <1>6 DEF Away
  <2>3. Fits(v)
    BY <1>5, <1>6, <2>1, <2>2 DEF Fits
  <2>4. (w.ending => v.ending) /\ (Failed(w) => Failed(v))
    BY <1>6 DEF Failed
  <2>5. v.plan # <<>> /\ Head(v.plan) = "exit" => step = "restore"
    BY <1>5, <1>6
  <2>6. \A s : Has(v, s) => Has(w, s)
    BY <1>1, <1>6, ZenonT(60) DEF Has
  <2> QED  BY <1>6, <2>3, <2>4, <2>5, <2>6
<1>7. w.active \in BOOLEAN
  BY DEF WriterType
<1>8. CASE answer = "failed" /\ step # "kitty_maybe"
  <2>1. v = Failing(w)
    BY <1>8 DEF Answered
  <2> HIDE DEF v
  <2> QED  BY <1>3, <1>8, <2>1, FailingFits DEF Failed
<1>9. CASE answer = "failed" /\ step = "kitty_maybe"
  <2>1. v = n
    BY <1>9 DEF Answered, n
  <2> HIDE DEF v
  <2>2. step # "restore" /\ step # "activate"
    BY <1>9
  <2> QED  BY <1>1, <1>2, <1>6, <1>7, <1>9, <2>1, <2>2
<1>10. CASE answer = "ok" /\ step = "activate"
  <2> DEFINE u == [w EXCEPT !.active = TRUE]
  <2>1. v = IF terminal = "gone" THEN Epilogue(u, "err") ELSE [n EXCEPT !.active = TRUE]
    BY <1>10 DEF Answered, n
  <2>2. CASE terminal = "gone"
    <3>1. u \in WriterType /\ u.at = w.at /\ u.waiting = w.waiting /\ u.active = TRUE /\ u.code = w.code
          /\ u.ext = w.ext /\ u.await = w.await
      BY DEF WriterType
    <3> HIDE DEF u, v
    <3>2. Away(u) => ~u.active
      BY <1>4, <1>10, <3>1 DEF Away
    <3> QED  BY <1>10, <2>1, <2>2, <3>1, <3>2, EpilogueTurns DEF Failed
  <2>3. CASE terminal # "gone"
    <3>1. v = [n EXCEPT !.active = TRUE]
      BY <2>1, <2>3
    <3> HIDE DEF v, u
    <3>2. /\ v \in WriterType /\ v.plan = n.plan /\ v.active = TRUE
          /\ v.at = w.at /\ v.waiting = w.waiting /\ v.code = w.code /\ v.ext = w.ext /\ v.await = w.await
          /\ v.ending = w.ending /\ v.result = w.result
      BY <1>1, <3>1 DEF WriterType
    <3>3. step # "restore" /\ (Away(w) => ~TRUE)
      BY <1>4, <1>10
    <3> QED  BY <1>6, <1>10, <3>2, <3>3
  <2> QED  BY <2>2, <2>3
<1>11. CASE answer = "ok" /\ step = "restore"
  <2>1. v = [n EXCEPT !.active = FALSE]
    BY <1>11 DEF Answered, n
  <2> HIDE DEF v
  <2>2. /\ v \in WriterType /\ v.plan = n.plan /\ v.active = FALSE
        /\ v.at = w.at /\ v.waiting = w.waiting /\ v.code = w.code /\ v.ext = w.ext /\ v.await = w.await
        /\ v.ending = w.ending /\ v.result = w.result
    BY <1>1, <2>1 DEF WriterType
  <2> QED  BY <1>6, <1>11, <2>2
<1>12. CASE answer = "ok" /\ step \notin {"activate", "restore"}
  <2>1. v = n \/ v = [n EXCEPT !.enhanced = TRUE]
    BY <1>12 DEF Answered, n
  <2> HIDE DEF v
  <2>2. /\ v \in WriterType /\ v.plan = n.plan /\ v.active = w.active
        /\ v.at = w.at /\ v.waiting = w.waiting /\ v.code = w.code /\ v.ext = w.ext /\ v.await = w.await
        /\ v.ending = w.ending /\ v.result = w.result
    <3>1. ASSUME v = [n EXCEPT !.enhanced = TRUE]
          PROVE  /\ v \in WriterType /\ v.plan = n.plan /\ v.active = n.active
                 /\ v.at = n.at /\ v.waiting = n.waiting /\ v.code = n.code /\ v.ext = n.ext /\ v.await = n.await
                 /\ v.ending = n.ending /\ v.result = n.result
      <4>1. n \in WriterType
        BY <1>1
      <4> QED  BY <3>1, <4>1 DEF WriterType
    <3> QED  BY <1>1, <2>1, <3>1
  <2> QED  BY <1>2, <1>6, <1>7, <1>12, <2>2
<1> QED  BY <1>8, <1>9, <1>10, <1>11, <1>12

\* A signal keeps all that the plan depends on; a death ends the plan.
LEMMA SignalsSame ==
    ASSUME NEW w \in WriterType
    PROVE  /\ Same(w, w) /\ Same(w, Terminated(w)) /\ Same(w, Continued(w))
           /\ \A sig \in Cells : Same(w, Signalled(w, sig))
           /\ \A code \in Codes :
                LET v == Dead(w, code) IN
                /\ v.at = "dead" /\ v.plan = <<>> /\ v.code = code /\ ~v.waiting
                /\ v.active = w.active /\ v.ext = w.ext /\ v.await = w.await
<1>1. Same(w, w)
  BY DEF Same
<1>2. Same(w, [w EXCEPT !.term = TRUE]) /\ Same(w, [w EXCEPT !.stopped = FALSE, !.cell = "cont"])
      /\ Same(w, [w EXCEPT !.cell = "tstp"])
  BY DEF Same, WriterType
<1>3. \A code \in Codes :
            LET v == Dead(w, code) IN
            /\ v.at = "dead" /\ v.plan = <<>> /\ v.code = code /\ ~v.waiting
            /\ v.active = w.active /\ v.ext = w.ext /\ v.await = w.await
  BY DEF Dead, WriterType
<1> QED  BY <1>1, <1>2, <1>3 DEF Terminated, Continued, Signalled

-----------------------------------------------------------------------------
(* The invariant.                                                          *)

Alive == writer.at # "dead"
Good == Alive /\ ~Failed(writer)
Clean == modes \subseteq {"title"}
Restorations == {"restore", "final"}

PlanInv == IF Alive THEN Fits(writer) ELSE writer.plan = <<>>

\* The guard serves what the plan of the writer asks for.
AskedInv ==
    Alive => /\ request # "none" => request = Head(writer.plan)
             /\ Serves => guard.job = Head(writer.plan)
             /\ writer.waiting => Head(writer.plan) \in Asks

\* A tty that is not active is left alone; scripts other than those of a
\* restoration set nothing that the tty would not remember.
ScriptInv ==
    guard.at = "serving" =>
        /\ ~guard.active => guard.script = <<>> /\ (guard.job \in Restorations => ~guard.failed)
        /\ guard.job = "activate" => guard.active
        /\ guard.job \notin Restorations =>
            /\ "kitty" \in Done(guard.script) => guard.job \in {"kitty", "kitty_maybe"}
            /\ "alt" \in Done(guard.script) => "alt" \in guard.flags

\* A terminal that is there is cooked but for an active tty, and the script of
\* a restoration, however it fares, makes it so.
CookedInv ==
    terminal # "gone" =>
        /\ ~guard.active \/ guard.at = "exited" => Cooking \cap modes = {}
        /\ guard.at = "serving" /\ guard.job \in Restorations =>
            Cooking \cap modes \subseteq Undone(guard.script) /\ Reverts(guard.script)

\* The writer knows whether the tty is active, but for what is on its way.
Activating ==
    \/ Serves /\ guard.job = "activate"
    \/ answer # "none" /\ Head(writer.plan) = "activate"

ActiveInv ==
    Alive =>
        /\ ~writer.active /\ ~writer.ending /\ ~Activating => ~guard.active
        /\ writer.active /\ ~guard.active => answer = "ok" /\ Head(writer.plan) = "restore"
        /\ answer = "ok" /\ Head(writer.plan) = "restore" => ~guard.active
        /\ answer = "ok" /\ Head(writer.plan) = "activate" => guard.active
        /\ writer.plan # <<>> /\ Head(writer.plan) = "exit" /\ writer.result = "ok" => ~guard.active

\* Until something failed, an inactive tty has left nothing in the terminal, an
\* active one remembers all that it has to undo, and a restoration undoes it.
KnownInv ==
    Good =>
        /\ ~guard.active => Clean
        /\ guard.active /\ ~(Serves /\ guard.job = "restore") /\ ~(answer = "failed" /\ Head(writer.plan) = "restore") =>
            /\ "kitty" \in modes => guard.kitty
            /\ "alt" \in modes => "alt" \in guard.flags
        /\ Serves /\ guard.job = "restore" /\ ~guard.failed =>
            modes \ {"title"} \subseteq Undone(guard.script) /\ Reverts(guard.script)

ExitInv ==
    /\ guard.at = "exited" => ~Alive
    /\ Alive => writer.code = "none"
    /\ guard.code = "ok" => writer.code = "ok"

TerminalSide == PlanInv /\ AskedInv /\ ScriptInv /\ CookedInv /\ ActiveInv /\ KnownInv /\ ExitInv

\* What the owner knows: commands that end or begin the writer's use of the
\* terminal, and the record that it was restored, are never confused.
Sends(kinds) == \E i \in DOMAIN owner.pipe : owner.pipe[i].kind \in kinds
Saying == Has(writer, "restored")
Said == "restored" \in ToSet(records)
Told == owner.phase \in {"suspended", "restored"} \/ Said

PipeInv ==
    /\ \A i \in DOMAIN owner.pipe :
        /\ owner.pipe[i].kind = "init" => i = 1
        /\ \A j \in DOMAIN owner.pipe : i < j /\ owner.pipe[i].kind \in Ends => owner.pipe[j].kind \notin Begins
    /\ owner.phase \in {"starting", "running", "suspended", "resuming"} => ~Sends(Ends) /\ ~Saying /\ ~Said
    /\ owner.phase = "suspending" =>
        /\ ~(Sends(Ends) /\ Saying) /\ ~(Sends(Ends) /\ Said) /\ ~(Saying /\ Said)
        /\ \A i, j \in DOMAIN owner.pipe : owner.pipe[i].kind \in Ends /\ owner.pipe[j].kind \in Ends => i = j
        /\ Once("restored", records)
    /\ Told \/ Saying => ~Sends(Begins)
    /\ Sends({"init"}) => ~writer.active /\ ~writer.ext /\ ~Has(writer, "activate") /\ ~Has(writer, "stop")

\* Nothing of the helper is in the terminal, and nothing is about to be.
Quiet == Clean /\ ~guard.active /\ ~writer.active /\ request # "activate" /\ ~Has(writer, "activate")

QuietInv == Told \/ Away(writer) \/ writer.code = "ok" => Quiet

OwnerSide == PipeInv /\ QuietInv

ModesInv == Inv /\ TerminalSide /\ OwnerSide

-----------------------------------------------------------------------------
(* The steps, on the side of the terminal.                                 *)

\* A guard that is not serving, or goes on serving as it did.
SameGuard(g, h) ==
    /\ h.job = g.job /\ h.script = g.script /\ h.failed = g.failed /\ h.active = g.active
    /\ h.flags = g.flags /\ h.kitty = g.kitty /\ h.code = g.code
    /\ h.at = g.at \/ {g.at, h.at} \subseteq {"top", "poll"}

\* Signals, deaths, the terminal and the owner leave all of it as it is.
LEMMA SignalStep ==
    ASSUME ModesInv, SameGuard(guard, guard'), UNCHANGED <<modes, request, answer>>,
           terminal' # "gone" => terminal # "gone",
           \/ Same(writer, writer')
           \/ writer'.at = "dead" /\ writer'.plan = <<>> /\ (writer.at = "dead" => writer'.code = writer.code)
    PROVE  TerminalSide'
<1> USE DEF ModesInv, TerminalSide
<1>1. /\ guard'.at = "serving" <=> guard.at = "serving"
      /\ guard'.at = "exited" <=> guard.at = "exited"
      /\ Serves' <=> Serves
  BY DEF SameGuard, Serves
<1>2. writer'.at # "dead" => Alive /\ Same(writer, writer')
  BY DEF Same, Alive
<1>3. PlanInv'
  BY <1>2 DEF PlanInv, Alive, Same, Fits, Away
<1>4. AskedInv'
  BY <1>1, <1>2 DEF AskedInv, Alive, Same, SameGuard
<1>5. ScriptInv'
  BY <1>1 DEF ScriptInv, SameGuard
<1>6. CookedInv'
  BY <1>1 DEF CookedInv, SameGuard
<1>7. ActiveInv'
  BY <1>1, <1>2 DEF ActiveInv, Activating, Alive, Same, SameGuard
<1>8. KnownInv'
  BY <1>1, <1>2 DEF KnownInv, Good, Failed, Clean, Alive, Same, SameGuard
<1>9. ExitInv'
  BY <1>1, <1>2 DEF ExitInv, Alive, Same, SameGuard
<1> QED  BY <1>3, <1>4, <1>5, <1>6, <1>7, <1>8, <1>9

\* A step of the writer's own, which touches nothing in the terminal but the
\* title, or draws while the writer is active.
LEMMA OwnTurn ==
    ASSUME ModesInv, Alive, ~writer.waiting, Turns(writer, writer'),
           UNCHANGED <<guard, request, answer, terminal>>,
           \/ modes' \in {modes, modes \cup {"title"}, modes \ {"title"}}
           \/ modes' = modes \cup {"drawn"} /\ writer.active
    PROVE  TerminalSide'
<1> USE DEF ModesInv, TerminalSide
<1>1. request = "none" /\ answer = "none" /\ guard.at # "serving" /\ ~Serves
  BY DEF Inv, Handshake, Serves, Alive, TypeInv
<1>2. writer.active => guard.active
  BY <1>1 DEF ActiveInv
<1>3. PlanInv'
  BY DEF PlanInv, Alive, Turns
<1>4. AskedInv'
  BY <1>1 DEF AskedInv, Serves, Turns
<1>5. ScriptInv'
  BY <1>1 DEF ScriptInv
<1>6. CookedInv'
  BY <1>1 DEF CookedInv, Cooking
<1>7. ActiveInv'
  BY <1>1, <1>2 DEF ActiveInv, Activating, Serves, Turns, Alive
<1>8. KnownInv'
  BY <1>1, <1>2 DEF KnownInv, Good, Turns, Alive, Clean, Serves
<1>9. ExitInv'
  BY <1>1 DEF ExitInv, Turns, Alive
<1> QED  BY <1>3, <1>4, <1>5, <1>6, <1>7, <1>8, <1>9

LEMMA TurnsSame ==
    ASSUME NEW w, NEW v, NEW u \in WriterType, Turns(w, v), Same(v, u) PROVE Turns(w, u)
BY DEF Turns, Same, Fits, Away, Failed

\* A writer that is idle, or does a step, has the plan for it.
LEMMA IdleFits ==
    ASSUME ModesInv, NEW at, Idle(at)
    PROVE  Alive /\ ~writer.waiting /\ writer.plan = <<>> /\ ~writer.ending /\ (Away(writer) => ~writer.active)
BY DEF ModesInv, Inv, TypeInv, Waits, TerminalSide, PlanInv, Fits, PlanShape, HeadFits, Idle, Runs, Alive

LEMMA DoesFits ==
    ASSUME ModesInv, NEW step, Does(step)
    PROVE  /\ Alive /\ ~writer.waiting /\ writer.plan # <<>> /\ Head(writer.plan) = step /\ writer \in WriterType
           /\ Fits(writer) /\ (Away(writer) => ~writer.active)
BY DEF ModesInv, Inv, TypeInv, TerminalSide, PlanInv, Fits, HeadFits, Does, Runs, Alive

LEMMA TopTurns ==
    ASSUME ModesInv, WriterTop
    PROVE  /\ Turns(writer, writer') /\ Alive
           /\ writer'.ext => writer.ext
           /\ writer'.await => writer.await \/ writer.ext
           /\ ~Has(writer', "activate") /\ ~Has(writer', "restored")
           /\ Has(writer', "stop") => writer.active
<1> USE DEF ModesInv, Inv, TypeInv
<1> DEFINE Result == /\ Turns(writer, writer')
                     /\ writer'.ext => writer.ext
                     /\ writer'.await => writer.await \/ writer.ext
                     /\ ~Has(writer', "activate") /\ ~Has(writer', "restored")
                     /\ Has(writer', "stop") => writer.active
           quiet == [writer EXCEPT !.cell = "none", !.at = "poll"]
           cleared == [writer EXCEPT !.cell = "none"]
<1>1. Alive /\ ~writer.waiting /\ writer.plan = <<>> /\ ~writer.ending /\ (Away(writer) => ~writer.active)
  BY IdleFits DEF WriterTop
<1> SUFFICES Result
  BY <1>1
<1>2. PICK over \in BOOLEAN, kitty \in BOOLEAN : writer' =
          CASE writer.term -> Epilogue(writer, "ok")
            [] ~writer.term /\ writer.cell = "tstp" /\ writer.active -> Suspend(cleared, <<"stop">>)
            [] ~writer.term /\ writer.cell = "cont" /\ writer.ext ->
                  [quiet EXCEPT !.ext = FALSE, !.await = TRUE, !.plan = <<"resume_needed">>]
            [] OTHER ->
                  IF writer.probe /\ over
                  THEN [quiet EXCEPT !.probe = FALSE, !.plan = If(kitty, <<"kitty_maybe">>) \o <<"ready">>]
                  ELSE quiet
  BY DEF WriterTop
<1>3. writer' \in WriterType
  BY WriterTopInv
<1>4. ~Failed(writer) /\ writer.ending = FALSE
  BY <1>1 DEF Failed, WriterType
<1>5. /\ quiet.at = "poll" /\ quiet.plan = <<>> /\ quiet.ending = FALSE /\ quiet.active = writer.active
      /\ quiet.ext = writer.ext /\ quiet.await = writer.await /\ quiet.code = writer.code /\ ~quiet.waiting
      /\ quiet \in WriterType
  BY <1>1, <1>4 DEF WriterType, Cells
<1>6. CASE writer' = Epilogue(writer, "ok")
  BY <1>1, <1>4, <1>6, EpilogueTurns DEF Turns, Alive
<1>7. CASE writer' = Suspend(cleared, <<"stop">>) /\ writer.active
  <2>1. cleared \in WriterType /\ Same(writer, cleared)
    BY DEF WriterType, Cells, Same
  <2> HIDE DEF cleared, Result
  <2>2. ~cleared.ending /\ (Away(cleared) => ~cleared.active)
    BY <1>1, <2>1 DEF Same, Away
  <2>3. LET v == writer' IN
        /\ v \in WriterType /\ Fits(v) /\ v.at = cleared.at /\ v.waiting = cleared.waiting
        /\ v.active = cleared.active /\ v.code = cleared.code /\ v.ext = cleared.ext /\ v.await = cleared.await
        /\ v.plan # <<>> /\ Head(v.plan) # "exit"
        /\ ~Has(v, "activate") /\ ~Has(v, "restored")
    BY <1>7, <2>1, <2>2, SuspendTurns
  <2> QED  BY <1>1, <1>4, <1>7, <2>1, <2>3 DEF Result, Turns, Same, Alive
<1>8. CASE writer.ext /\ writer' = [quiet EXCEPT !.ext = FALSE, !.await = TRUE, !.plan = <<"resume_needed">>]
  <2> HIDE DEF quiet
  <2>1. /\ writer'.at = "poll" /\ writer'.plan = <<"resume_needed">> /\ writer'.ending = FALSE
        /\ writer'.active = writer.active /\ writer'.ext = FALSE /\ writer'.await = TRUE
        /\ writer'.code = writer.code /\ ~writer'.waiting
    BY <1>5, <1>8 DEF WriterType
  <2>2. ~writer.active
    BY <1>1, <1>8 DEF Away
  <2>3. "resume_needed" \in Steps \ {"exit"}
    BY StepNames
  <2>4. PlanShape(<<"resume_needed">>, FALSE)
    BY <2>3, ShortPlans
  <2>5. Fits(writer')
    <3>1. PlanShape(writer'.plan, writer'.ending) /\ ~writer'.active
      BY <2>1, <2>2, <2>4
    <3>2. Head(writer'.plan) = "resume_needed"
      BY <2>1
    <3>3. HeadFits(writer'.plan, writer'.active, Away(writer'))
      BY <3>1, <3>2 DEF HeadFits
    <3> QED  BY <3>1, <3>3 DEF Fits
  <2>6. ~Has(writer', "activate") /\ ~Has(writer', "restored") /\ ~Has(writer', "stop")
    BY <2>1, HasShort
  <2> QED  BY <1>3, <1>4, <1>8, <2>1, <2>5, <2>6 DEF Turns
<1>9. CASE writer' = [quiet EXCEPT !.probe = FALSE, !.plan = If(kitty, <<"kitty_maybe">>) \o <<"ready">>]
  <2> DEFINE plan == If(kitty, <<"kitty_maybe">>) \o <<"ready">>
  <2>1. "kitty_maybe" \in Steps /\ "ready" \in Steps \ {"exit"}
    BY StepNames
  <2>2. plan = <<"ready">> \/ plan = <<"kitty_maybe", "ready">>
    <3>1. <<>> \o <<"ready">> = <<"ready">>
      OBVIOUS
    <3> QED  BY <2>1, <3>1, JoinTwo DEF If
  <2> HIDE DEF plan, quiet
  <2>3. /\ writer'.at = "poll" /\ writer'.plan = plan /\ writer'.ending = FALSE
        /\ writer'.active = writer.active /\ writer'.ext = writer.ext /\ writer'.await = writer.await
        /\ writer'.code = writer.code /\ ~writer'.waiting
    BY <1>5, <1>9 DEF WriterType, plan
  <2>4. PlanShape(plan, FALSE)
    BY <2>1, <2>2, ShortPlans
  <2>5. plan # <<>> /\ Head(plan) \in {"ready", "kitty_maybe"}
    <3>1. <<"ready">> # <<>> /\ Head(<<"ready">>) = "ready"
          /\ <<"kitty_maybe", "ready">> # <<>> /\ Head(<<"kitty_maybe", "ready">>) = "kitty_maybe"
      OBVIOUS
    <3> QED  BY <2>2, <3>1
  <2>6. Fits(writer')
    BY <1>1, <2>3, <2>4, <2>5 DEF Fits, HeadFits, Away
  <2>7. ~Has(writer', "activate") /\ ~Has(writer', "restored") /\ ~Has(writer', "stop")
    BY <2>2, <2>3, HasShort
  <2> QED  BY <1>3, <1>4, <2>3, <2>5, <2>6, <2>7 DEF Turns
<1>10. CASE writer' = quiet
  <2> HIDE DEF quiet
  <2>1. Fits(writer')
    BY <1>1, <1>5, <1>10, ShortPlans DEF Fits, HeadFits, Away
  <2>2. ~Has(writer', "activate") /\ ~Has(writer', "restored") /\ ~Has(writer', "stop")
    BY <1>5, <1>10, HasShort
  <2> QED  BY <1>4, <1>5, <1>10, <2>1, <2>2 DEF Turns
<1> HIDE DEF Result, quiet, cleared
<1> QED  BY <1>2, <1>6, <1>7, <1>8, <1>9, <1>10

\* The first command of the pipe, and the rest of it.
LEMMA FirstCommand ==
    ASSUME TypeInv, owner.pipe # <<>>
    PROVE  /\ Head(owner.pipe) \in Commands /\ Head(owner.pipe) = owner.pipe[1] /\ 1 \in DOMAIN owner.pipe
           /\ \A i \in DOMAIN Tail(owner.pipe) :
                i \in Nat \ {0} /\ i + 1 \in DOMAIN owner.pipe /\ Tail(owner.pipe)[i] = owner.pipe[i + 1]
           /\ \A kinds : Head(owner.pipe).kind \in kinds => Sends(kinds)
<1>1. owner.pipe \in Seq(Commands)
  BY DEF TypeInv, OwnerType
<1>2. Head(owner.pipe) \in Commands /\ Head(owner.pipe) = owner.pipe[1] /\ 1 \in DOMAIN owner.pipe
  BY <1>1, HeadTailProperties, LenProperties, EmptySeq
<1>3. \A i \in DOMAIN Tail(owner.pipe) :
          i \in Nat \ {0} /\ i + 1 \in DOMAIN owner.pipe /\ Tail(owner.pipe)[i] = owner.pipe[i + 1]
  BY <1>1, HeadTailProperties, LenProperties
<1> QED  BY <1>2, <1>3 DEF Sends

LEMMA PollTurns ==
    ASSUME ModesInv, WriterPoll
    PROVE  /\ Turns(writer, writer') /\ Alive
           /\ writer'.ext = writer.ext
           /\ writer'.await = writer.await \/ (~writer'.await /\ owner.pipe # <<>> /\ Head(owner.pipe).kind \in Begins)
           /\ Has(writer', "activate") =>
                owner.pipe # <<>> /\ Head(owner.pipe).kind \in Begins /\ ~writer'.ext /\ ~writer'.await
           /\ ~Has(writer', "stop")
           /\ Has(writer', "restored") => owner.pipe # <<>> /\ Head(owner.pipe).kind \in Ends
<1> USE DEF ModesInv, Inv, TypeInv
<1> DEFINE top == [writer EXCEPT !.at = "top"]
<1>1. Alive /\ ~writer.waiting /\ writer.plan = <<>> /\ ~writer.ending /\ (Away(writer) => ~writer.active)
  BY IdleFits DEF WriterPoll
<1>2. ~Failed(writer) /\ writer.ending = FALSE
  BY <1>1 DEF Failed, WriterType
<1>3. /\ top \in WriterType /\ top.at = "top" /\ top.plan = <<>> /\ top.ending = FALSE /\ top.active = writer.active
      /\ top.ext = writer.ext /\ top.await = writer.await /\ top.code = writer.code /\ ~top.waiting
      /\ top.result = writer.result
  BY <1>1, <1>2 DEF WriterType
<1>4. CASE owner.pipe # <<>>
  <2> DEFINE command == Head(owner.pipe)
  <2>1. command \in Commands /\ \A kinds : command.kind \in kinds => Sends(kinds)
    BY <1>4, FirstCommand
  <2>2. writer' = Obeyed(top, command)
    BY <1>4 DEF WriterPoll
  <2>3. command.kind = "init" => ~writer.active /\ ~writer.ext
    <3>1. command.kind = "init" => Sends({"init"})
      BY <2>1
    <3> QED  BY <3>1 DEF OwnerSide, PipeInv
  <2>4. (Away(top) => ~top.active) /\ (command.kind = "init" => ~top.active /\ ~top.ext)
    BY <1>1, <1>3, <2>3 DEF Away
  <2> HIDE DEF top, command
  <2>5. /\ Turns(top, writer')
        /\ writer'.ext = top.ext
        /\ writer'.await = top.await \/ (~writer'.await /\ command.kind \in Begins)
        /\ Has(writer', "activate") => command.kind \in Begins /\ ~writer'.ext /\ ~writer'.await
        /\ ~Has(writer', "stop")
        /\ Has(writer', "restored") => command.kind \in Ends
    <3>1. top.at # "dead"
      BY <1>3
    <3> QED  BY <1>3, <2>1, <2>2, <2>4, <3>1, ObeyedTurns
  <2>6. Turns(writer, writer')
    BY <1>2, <1>3, <2>5 DEF Turns
  <2> QED  BY <1>1, <1>3, <1>4, <2>5, <2>6 DEF command
<1>5. CASE owner.pipe = <<>> /\ owner.closed
  <2>1. writer' = Epilogue(writer, "ok")
    BY <1>5 DEF WriterPoll
  <2> QED  BY <1>1, <1>2, <2>1, EpilogueTurns DEF Turns, Alive
<1>6. CASE owner.pipe = <<>> /\ ~owner.closed
  <2>1. writer' = top
    BY <1>6 DEF WriterPoll
  <2> HIDE DEF top
  <2>2. Fits(writer')
    BY <1>1, <1>3, <2>1, ShortPlans DEF Fits, HeadFits, Away
  <2>3. ~Has(writer', "activate") /\ ~Has(writer', "restored") /\ ~Has(writer', "stop")
    BY <1>3, <2>1, HasShort
  <2> QED  BY <1>1, <1>2, <1>3, <2>1, <2>2, <2>3 DEF Turns
<1> QED  BY <1>4, <1>5, <1>6

\* Writing, or failing to.
LEMMA WriteTurns ==
    ASSUME ModesInv, WriterWrites \/ WriterWritesPart \/ WriterCannotWrite
    PROVE  /\ Turns(writer, writer') /\ Alive /\ ~writer.waiting
           /\ writer'.ext = writer.ext /\ writer'.await = writer.await
           /\ \A s \in {"activate", "stop", "restored"} : Has(writer', s) => Has(writer, s)
           /\ \/ modes' \in {modes, modes \cup {"title"}, modes \ {"title"}}
              \/ modes' = modes \cup {"drawn"} /\ writer.active
<1> USE DEF ModesInv, Inv, TypeInv
<1>1. PICK step \in Writes : Does(step)
  BY DEF WriterWrites, WriterWritesPart, WriterCannotWrite, Writes
<1>2. /\ Alive /\ ~writer.waiting /\ writer.plan # <<>> /\ Head(writer.plan) = step
      /\ Fits(writer) /\ (Away(writer) => ~writer.active)
  BY <1>1, DoesFits
<1>3. step = "frame" => writer.active
  BY <1>2 DEF Fits, HeadFits
<1>4. writer' \in WriterType
  BY WriterWritesInv, WriterCannotWriteInv
<1>5. /\ Turns(writer, Next1(writer))
      /\ Next1(writer).ext = writer.ext /\ Next1(writer).await = writer.await
      /\ \A s : Has(Next1(writer), s) => Has(writer, s)
  BY <1>2, NextTurns, NextFields DEF Alive, Writes, Asks
<1>6. ASSUME Same(Next1(writer), writer')
      PROVE  /\ Turns(writer, writer')
             /\ writer'.ext = writer.ext /\ writer'.await = writer.await
             /\ \A s \in {"activate", "stop", "restored"} : Has(writer', s) => Has(writer, s)
  BY <1>4, <1>5, <1>6, TurnsSame DEF Same, Has
<1>7. \A v \in WriterType : Same(v, v) /\ \A a : Same(v, [v EXCEPT !.saved = a])
                            /\ \A d, b, c : Same(v, [v EXCEPT !.saved = d, !.probe = b, !.probed = c])
  BY DEF Same, WriterType
<1>8. Next1(writer) \in WriterType
  BY <1>2, NextFields
<1>9. CASE WriterWrites
  <2>1. PICK this \in Writes :
          /\ Does(this)
          /\ modes' = CASE this = "frame" -> modes \cup {"drawn"}
                        [] this = "title" -> modes \cup {"title"}
                        [] this = "untitle" -> modes \ {"title"}
                        [] this = "probe" -> modes
          /\ writer' = [Next1(writer) EXCEPT !.saved = this = "title" \/ (@ /\ this # "untitle"),
                                            !.probe = @ \/ this = "probe", !.probed = @ \/ this = "probe"]
    BY <1>9 DEF WriterWrites
  <2>2. this = step
    BY <1>2, <2>1 DEF Does
  <2>3. \/ modes' \in {modes, modes \cup {"title"}, modes \ {"title"}}
        \/ modes' = modes \cup {"drawn"} /\ writer.active
    BY <1>3, <2>1, <2>2 DEF Writes
  <2>4. Same(Next1(writer), writer')
    BY <1>7, <1>8, <2>1
  <2> QED  BY <1>2, <1>6, <2>3, <2>4
<1>10. CASE WriterWritesPart
  <2>1. writer' = writer /\ modes' = modes \cup {"drawn"} /\ step = "frame"
    BY <1>2, <1>10 DEF WriterWritesPart, Does
  <2>2. Turns(writer, writer')
    BY <1>2, <2>1 DEF Turns, Alive
  <2> QED  BY <1>2, <1>3, <2>1, <2>2
<1>11. CASE WriterCannotWrite
  <2>1. PICK this \in Writes :
          /\ Does(this)
          /\ writer' = CASE this = "frame" -> Epilogue(writer, "err")
                         [] this = "title" -> Next1(writer)
                         [] this = "untitle" -> [Next1(writer) EXCEPT !.saved = FALSE]
                         [] this = "probe" -> [writer EXCEPT !.probed = TRUE, !.plan = <<"ready">>]
    BY <1>11 DEF WriterCannotWrite
  <2>2. this = step /\ modes' = modes
    BY <1>2, <1>11, <2>1 DEF Does, WriterCannotWrite
  <2>3. CASE step = "frame"
    BY <1>2, <2>1, <2>2, <2>3, EpilogueTurns DEF Turns, Alive, Failed
  <2>4. CASE step = "title" \/ step = "untitle"
    BY <1>2, <1>6, <1>7, <1>8, <2>1, <2>2, <2>4
  <2>5. CASE step = "probe"
    <3>1. writer' = [writer EXCEPT !.probed = TRUE, !.plan = <<"ready">>]
      BY <2>1, <2>2, <2>5
    <3>2. /\ writer'.at = writer.at /\ writer'.plan = <<"ready">> /\ writer'.ending = writer.ending
          /\ writer'.active = writer.active /\ writer'.ext = writer.ext /\ writer'.await = writer.await
          /\ writer'.code = writer.code /\ writer'.waiting = writer.waiting /\ writer'.result = writer.result
      BY <3>1 DEF WriterType
    <3>3. writer.ending = FALSE
      <4>1. ~writer.ending
        <5>1. 1 \in DOMAIN writer.plan /\ writer.plan[1] = "probe"
          BY <1>2, <2>5, HeadTailProperties, LenProperties, EmptySeq DEF WriterType
        <5> QED  BY <1>2, <5>1 DEF Fits, PlanShape
      <4> QED  BY <4>1 DEF WriterType
    <3>4. "ready" \in Steps \ {"exit"}
      BY StepNames
    <3>5. PlanShape(<<"ready">>, FALSE)
      BY <3>4, ShortPlans
    <3>6. <<"ready">> # <<>> /\ Head(<<"ready">>) = "ready"
      OBVIOUS
    <3>7. Fits(writer')
      BY <1>2, <3>2, <3>3, <3>5, <3>6 DEF Fits, HeadFits, Away
    <3>8. ~Has(writer', "activate") /\ ~Has(writer', "restored") /\ ~Has(writer', "stop")
      BY <3>2, HasShort
    <3> QED  BY <1>2, <1>4, <2>2, <3>2, <3>3, <3>6, <3>7, <3>8 DEF Turns, Failed, Alive
  <2> QED  BY <2>3, <2>4, <2>5 DEF Writes
<1> QED  BY <1>9, <1>10, <1>11

\* Telling the owner, or failing to; stopping; finishing.
LEMMA TellTurns ==
    ASSUME ModesInv, WriterTells \/ WriterStops \/ WriterFinishes
    PROVE  /\ Turns(writer, writer') /\ Alive /\ ~writer.waiting
           /\ writer'.await = writer.await
           /\ writer'.ext # writer.ext => WriterStops
           /\ \A s \in {"activate", "stop", "restored"} : Has(writer', s) => Has(writer, s)
<1> USE DEF ModesInv, Inv, TypeInv
<1>1. PICK step \in Tells \cup {"stop", "finish"} : Does(step)
  BY DEF WriterTells, WriterStops, WriterFinishes, Tells
<1>2. /\ Alive /\ ~writer.waiting /\ writer.plan # <<>> /\ Head(writer.plan) = step
      /\ Fits(writer) /\ (Away(writer) => ~writer.active)
  BY <1>1, DoesFits
<1>3. step \notin Asks \cup {"exit"}
  BY DEF Tells, Asks
<1>4. /\ Turns(writer, Next1(writer)) /\ Next1(writer) \in WriterType
      /\ Next1(writer).ext = writer.ext /\ Next1(writer).await = writer.await
      /\ \A s : Has(Next1(writer), s) => Has(writer, s)
  BY <1>2, <1>3, NextTurns, NextFields DEF Alive
<1>5. CASE WriterTells
  <2>1. writer' = Next1(writer) \/ writer' = Failing(writer)
    BY <1>5 DEF WriterTells
  <2>2. CASE writer' = Next1(writer)
    BY <1>2, <1>4, <2>2
  <2>3. CASE writer' = Failing(writer)
    <3>1. step # "restore" /\ step # "exit"
      BY <1>3 DEF Asks
    <3> QED  BY <1>2, <2>3, <3>1, FailingFits DEF Turns, Alive, Failed
  <2> QED  BY <2>1, <2>2, <2>3
<1>6. CASE WriterStops
  <2> DEFINE n == Next1(writer)
  <2>1. writer' = [n EXCEPT !.ext = TRUE, !.stopped = TRUE]
    BY <1>6 DEF WriterStops
  <2>2. step = "stop"
    BY <1>2, <1>6 DEF WriterStops, Does
  <2>3. ~writer.active
    BY <1>2, <2>2 DEF Fits, HeadFits
  <2>4. n \in WriterType /\ Turns(writer, n) /\ n.await = writer.await /\ \A s : Has(n, s) => Has(writer, s)
    BY <1>4
  <2>5. n.plan # <<>> => Head(n.plan) \notin {"activate", "frame"}
    <3>1. n.plan = Tail(writer.plan)
      BY <1>2, NextFields
    <3>2. writer.plan \in Seq(Steps) /\ PlanShape(writer.plan, writer.ending) /\ Head(writer.plan) # "exit"
      BY <1>2, <2>2 DEF Fits, WriterType
    <3>3. Tail(writer.plan) # <<>> => Head(Tail(writer.plan)) \notin Firsts
      BY <1>2, <3>2, ShapeTail
    <3> QED  BY <3>1, <3>3 DEF Firsts
  <2> HIDE DEF n
  <2>6. /\ writer' \in WriterType /\ writer'.plan = n.plan /\ writer'.ending = n.ending /\ writer'.active = n.active
        /\ writer'.await = n.await /\ writer'.code = n.code /\ writer'.at = n.at /\ writer'.waiting = n.waiting
        /\ writer'.result = n.result /\ writer'.ext = TRUE
    BY <2>1, <2>4 DEF WriterType
  <2>7. Fits(writer')
    BY <2>3, <2>4, <2>5, <2>6 DEF Turns, Fits, HeadFits
  <2>8. Turns(writer, writer')
    BY <2>4, <2>6, <2>7 DEF Turns, Failed
  <2> QED  BY <1>2, <1>6, <2>4, <2>6, <2>8 DEF Has
<1>7. CASE WriterFinishes
  <2>1. writer' = Epilogue(writer, "ok")
    BY <1>7 DEF WriterFinishes
  <2>2. ~writer.ending
    <3>1. step = "finish"
      BY <1>2, <1>7 DEF WriterFinishes, Does
    <3>2. 1 \in DOMAIN writer.plan /\ writer.plan[1] = "finish"
      BY <1>2, <3>1, HeadTailProperties, LenProperties, EmptySeq DEF WriterType
    <3> QED  BY <1>2, <3>2 DEF Fits, PlanShape
  <2> QED  BY <1>2, <2>1, <2>2, EpilogueTurns DEF Turns, Alive, Failed
<1> QED  BY <1>5, <1>6, <1>7

\* Every step of the writer but its questions, their answers and its exit.
LEMMA WriterTurnsSide ==
    ASSUME ModesInv,
           \/ WriterTop \/ WriterPoll \/ WriterWrites \/ WriterWritesPart \/ WriterCannotWrite
           \/ WriterTells \/ WriterStops \/ WriterFinishes
    PROVE  TerminalSide'
<1>1. CASE WriterTop
  <2>1. Turns(writer, writer') /\ Alive /\ ~writer.waiting
    BY <1>1, TopTurns, IdleFits DEF WriterTop
  <2>2. UNCHANGED <<guard, request, answer, terminal, modes>>
    BY <1>1 DEF WriterTop
  <2> QED  BY <2>1, <2>2, OwnTurn
<1>2. CASE WriterPoll
  <2>1. Turns(writer, writer') /\ Alive /\ ~writer.waiting
    BY <1>2, PollTurns, IdleFits DEF WriterPoll
  <2>2. UNCHANGED <<guard, request, answer, terminal, modes>>
    BY <1>2 DEF WriterPoll
  <2> QED  BY <2>1, <2>2, OwnTurn
<1>3. CASE WriterWrites \/ WriterWritesPart \/ WriterCannotWrite
  <2>1. UNCHANGED <<guard, request, answer, terminal>>
    BY <1>3 DEF WriterWrites, WriterWritesPart, WriterCannotWrite
  <2> QED  BY <1>3, <2>1, WriteTurns, OwnTurn
<1>4. CASE WriterTells \/ WriterStops \/ WriterFinishes
  <2>1. UNCHANGED <<guard, request, answer, terminal, modes>>
    BY <1>4 DEF WriterTells, WriterStops, WriterFinishes
  <2> QED  BY <1>4, <2>1, TellTurns, OwnTurn
<1> QED  BY <1>1, <1>2, <1>3, <1>4

\* The writer exits with what it ended with.
LEMMA WriterExitsSide == ASSUME ModesInv, WriterExits PROVE TerminalSide'
<1> USE DEF ModesInv, Inv, TypeInv
<1>1. Alive
  BY DEF WriterExits, Does, Runs, Alive
<1>2. writer'.at = "dead" /\ writer'.plan = <<>>
  <2>1. writer.result \in Codes
    BY DEF WriterType, Codes
  <2> QED  BY <2>1, SignalsSame DEF WriterExits
<1>3. SameGuard(guard, guard') /\ UNCHANGED <<modes, request, answer, terminal>>
  BY DEF WriterExits, SameGuard
<1> QED  BY <1>1, <1>2, <1>3, SignalStep DEF Alive

\* A question: nothing is asked while another is served.
LEMMA WriterAsksSide == ASSUME ModesInv, WriterAsks PROVE TerminalSide'
<1> USE DEF ModesInv, TerminalSide
<1>1. PICK step \in Asks : Does(step) /\ request' = step
  BY DEF WriterAsks
<1>2. Alive /\ ~writer.waiting /\ writer.plan # <<>> /\ Head(writer.plan) = step /\ writer \in WriterType
  BY <1>1, DoesFits
<1>3. request = "none" /\ answer = "none" /\ ~Serves /\ guard.at # "serving"
  BY <1>2 DEF Inv, Handshake, Serves, Alive, TypeInv
<1>4. /\ writer'.at = writer.at /\ writer'.plan = writer.plan /\ writer'.ending = writer.ending
      /\ writer'.active = writer.active /\ writer'.ext = writer.ext /\ writer'.await = writer.await
      /\ writer'.code = writer.code /\ writer'.result = writer.result
  BY <1>2 DEF WriterAsks, WriterType
<1>5. UNCHANGED <<modes, terminal, guard, answer>>
  BY DEF WriterAsks
<1>6. PlanInv'
  BY <1>2, <1>4 DEF PlanInv, Alive, Fits, Away
<1>7. AskedInv'
  BY <1>1, <1>2, <1>3, <1>4, <1>5 DEF AskedInv, Serves
<1>8. ScriptInv' /\ CookedInv'
  BY <1>5 DEF ScriptInv, CookedInv
<1>9. ActiveInv'
  BY <1>2, <1>3, <1>4, <1>5 DEF ActiveInv, Activating, Serves, Alive
<1>10. KnownInv'
  BY <1>3, <1>4, <1>5 DEF KnownInv, Good, Failed, Alive, Clean, Serves
<1>11. ExitInv'
  BY <1>4, <1>5 DEF ExitInv, Alive
<1> QED  BY <1>6, <1>7, <1>8, <1>9, <1>10, <1>11

\* What an answer says is so.
LEMMA AnswerFits ==
    ASSUME ModesInv, WriterAnswered
    PROVE  LET step == Head(writer.plan) IN
           /\ Alive /\ step \in Asks /\ request = "none" /\ ~Serves /\ guard.at # "serving"
           /\ answer \in {"ok", "failed"} /\ answer' = "none"
           /\ UNCHANGED <<modes, terminal, guard, request>>
           /\ writer' \in WriterType /\ Fits(writer') /\ writer'.at # "dead" /\ ~writer'.waiting
           /\ writer'.code = writer.code /\ writer'.ext = writer.ext /\ writer'.await = writer.await
           /\ writer.ending => writer'.ending
           /\ Failed(writer) => Failed(writer')
           /\ writer'.active = (IF answer = "ok" /\ step = "activate" THEN TRUE
                                ELSE IF answer = "ok" /\ step = "restore" THEN FALSE ELSE writer.active)
           /\ answer = "failed" /\ step # "kitty_maybe" => Failed(writer')
           /\ writer'.plan # <<>> /\ Head(writer'.plan) = "exit" => step = "restore"
           /\ \A s \in {"activate", "stop", "restored"} : Has(writer', s) => Has(writer, s)
<1> USE DEF ModesInv, TerminalSide, Inv, TypeInv
<1> DEFINE w == [writer EXCEPT !.waiting = FALSE]
           step == Head(writer.plan)
<1>1. Alive /\ writer.waiting /\ answer \in {"ok", "failed"} /\ writer.plan # <<>>
  BY DEF WriterAnswered, Runs, Alive, Waits
<1>2. step \in Asks /\ request = "none" /\ ~Serves /\ guard.at # "serving"
  BY <1>1 DEF AskedInv, Alive, Handshake, Serves
<1>3. /\ w \in WriterType /\ w.plan = writer.plan /\ w.ending = writer.ending /\ w.active = writer.active
      /\ w.ext = writer.ext /\ w.await = writer.await /\ w.code = writer.code /\ w.result = writer.result
      /\ w.at = writer.at /\ ~w.waiting
  BY DEF WriterType
<1>4. writer' = Answered(w, step) /\ answer' = "none" /\ UNCHANGED <<modes, terminal, guard, request>>
  BY DEF WriterAnswered
<1> HIDE DEF w
<1>5. Fits(w)
  BY <1>1, <1>3 DEF PlanInv, Fits, Away
<1>6. LET v == writer' IN
      /\ v \in WriterType /\ Fits(v) /\ v.at = w.at /\ v.waiting = w.waiting
      /\ v.code = w.code /\ v.ext = w.ext /\ v.await = w.await
      /\ w.ending => v.ending
      /\ Failed(w) => Failed(v)
      /\ v.active = (IF answer = "ok" /\ step = "activate" THEN TRUE
                     ELSE IF answer = "ok" /\ step = "restore" THEN FALSE ELSE w.active)
      /\ answer = "failed" /\ step # "kitty_maybe" => Failed(v)
      /\ v.plan # <<>> /\ Head(v.plan) = "exit" => step = "restore"
      /\ \A s \in {"activate", "stop", "restored"} : Has(v, s) => Has(w, s)
  <2>1. w.plan # <<>> /\ Head(w.plan) \in Asks /\ Head(w.plan) = step
    BY <1>1, <1>2, <1>3
  <2>2. writer' = Answered(w, Head(w.plan))
    BY <1>4, <2>1
  <2>3. LET v == writer' IN
        /\ v \in WriterType /\ Fits(v) /\ v.at = w.at /\ v.waiting = w.waiting
        /\ v.code = w.code /\ v.ext = w.ext /\ v.await = w.await
        /\ w.ending => v.ending
        /\ Failed(w) => Failed(v)
        /\ v.active = (IF answer = "ok" /\ Head(w.plan) = "activate" THEN TRUE
                       ELSE IF answer = "ok" /\ Head(w.plan) = "restore" THEN FALSE ELSE w.active)
        /\ answer = "failed" /\ Head(w.plan) # "kitty_maybe" => Failed(v)
        /\ v.plan # <<>> /\ Head(v.plan) = "exit" => Head(w.plan) = "restore"
        /\ \A s \in {"activate", "stop", "restored"} : Has(v, s) => Has(w, s)
    BY <1>1, <1>3, <1>5, <2>1, <2>2, AnsweredFits
  <2> HIDE DEF step
  <2> QED  BY <2>1, <2>3
<1>7. (Failed(writer) => Failed(w)) /\ \A s : Has(w, s) => Has(writer, s)
  BY <1>3 DEF Failed, Has
<1> QED  BY <1>1, <1>2, <1>3, <1>4, <1>6, <1>7 DEF Alive

LEMMA WriterAnsweredSide == ASSUME ModesInv, WriterAnswered PROVE TerminalSide'
<1> USE DEF ModesInv, TerminalSide
<1> DEFINE step == Head(writer.plan)
<1>1. /\ Alive /\ step \in Asks /\ request = "none" /\ ~Serves /\ guard.at # "serving"
      /\ answer \in {"ok", "failed"} /\ answer' = "none"
      /\ UNCHANGED <<modes, terminal, guard, request>>
      /\ Fits(writer') /\ writer'.at # "dead" /\ ~writer'.waiting /\ writer'.code = writer.code
      /\ writer.ending => writer'.ending
      /\ Failed(writer) => Failed(writer')
      /\ writer'.active = (IF answer = "ok" /\ step = "activate" THEN TRUE
                           ELSE IF answer = "ok" /\ step = "restore" THEN FALSE ELSE writer.active)
      /\ answer = "failed" /\ step # "kitty_maybe" => Failed(writer')
      /\ writer'.plan # <<>> /\ Head(writer'.plan) = "exit" => step = "restore"
  BY AnswerFits
<1> HIDE DEF step
<1>2. PlanInv'
  BY <1>1 DEF PlanInv, Alive
<1>3. AskedInv'
  BY <1>1 DEF AskedInv, Serves
<1>4. ScriptInv' /\ CookedInv'
  BY <1>1 DEF ScriptInv, CookedInv
<1>5. /\ answer = "ok" /\ step = "restore" => ~guard.active
      /\ answer = "ok" /\ step = "activate" => guard.active
      /\ writer.active /\ ~guard.active => answer = "ok" /\ step = "restore"
      /\ ~writer.active /\ ~writer.ending /\ step # "activate" => ~guard.active
  BY <1>1 DEF ActiveInv, Alive, Activating, step
<1>6. ActiveInv'
  <2>1. ~writer'.active /\ ~writer'.ending => ~guard.active
    <3> SUFFICES ASSUME ~writer'.active, ~writer'.ending, guard.active PROVE FALSE
      OBVIOUS
    <3>1. ~writer.ending /\ ~Failed(writer')
      BY <1>1 DEF Failed
    <3>2. CASE step = "activate"
      BY <1>1, <3>1, <3>2
    <3>3. CASE step = "restore"
      BY <1>1, <1>5, <3>1, <3>3
    <3>4. CASE step \notin {"activate", "restore"}
      BY <1>1, <1>5, <3>1, <3>4
    <3> QED  BY <3>2, <3>3, <3>4
  <2>2. writer'.active => guard.active
    BY <1>1, <1>5
  <2>3. writer'.plan # <<>> /\ Head(writer'.plan) = "exit" /\ writer'.result = "ok" => ~guard.active
    <3>1. writer'.result = "ok" => ~Failed(writer')
      BY DEF Failed
    <3> QED  BY <1>1, <1>5, <3>1
  <2> QED  BY <1>1, <2>1, <2>2, <2>3 DEF ActiveInv, Activating, Serves
<1>7. KnownInv'
  <2>1. Good' => Good /\ ~(answer = "failed" /\ step = "restore")
    BY <1>1 DEF Good, Alive
  <2> QED  BY <1>1, <2>1 DEF KnownInv, Clean, Serves, step
<1>8. ExitInv'
  BY <1>1 DEF ExitInv, Alive
<1> QED  BY <1>2, <1>3, <1>4, <1>6, <1>7, <1>8

\* A restoration begins: its script undoes all that the tty remembers.
LEMMA RestoringScript ==
    ASSUME NEW g \in GuardType, NEW job \in Restorations
    PROVE  LET h == Restoring(g, job) IN
           /\ h \in GuardType /\ h.at = "serving" /\ h.job = job /\ ~h.failed
           /\ h.active = g.active /\ h.flags = g.flags /\ h.code = g.code
           /\ Reverts(h.script)
           /\ ~g.active => h.script = <<>>
           /\ g.active => Cooking \cup Remembered(g.kitty, g.flags) \subseteq Undone(h.script)
<1> DEFINE h == Restoring(g, job)
           script == If(g.active, RestoreScript(g.kitty, g.flags))
<1>1. h \in GuardType /\ h.at = "serving" /\ h.job = job
  BY Restores DEF Restorations
<1>2. h.script = script /\ h.active = g.active /\ h.flags = g.flags /\ h.code = g.code /\ h.failed = FALSE
  <2>1. h = [g EXCEPT !.at = "serving", !.job = job, !.failed = FALSE, !.kitty = FALSE, !.script = script]
    BY DEF Restoring
  <2> HIDE DEF script, h
  <2> QED  BY <2>1 DEF GuardType
<1> HIDE DEF h
<1>3. /\ Reverts(script)
      /\ ~g.active => script = <<>>
      /\ g.active => Cooking \cup Remembered(g.kitty, g.flags) \subseteq Undone(script)
  <2>1. g.kitty \in BOOLEAN /\ g.flags \in SUBSET Flags
    BY DEF GuardType
  <2>2. CASE g.active
    <3>1. script = RestoreScript(g.kitty, g.flags)
      BY <2>2 DEF If
    <3> HIDE DEF script
    <3> QED  BY <2>1, <2>2, <3>1, RestoreReverts
  <2>3. CASE ~g.active
    BY <2>3 DEF If, Reverts
  <2> QED  BY <2>2, <2>3
<1> HIDE DEF script
<1> QED  BY <1>1, <1>2, <1>3 DEF h

LEMMA GuardTopSide == ASSUME ModesInv, GuardTop PROVE TerminalSide'
<1> USE DEF ModesInv, TerminalSide, Inv, TypeInv
<1>1. CASE Reapable(writer, guard.stopping)
  <2>1. writer.at = "dead" /\ writer' = writer /\ guard' = Restoring(guard, "final") /\ guard.at = "top"
        /\ UNCHANGED <<modes, terminal, request, answer>>
    BY <1>1 DEF GuardTop, Reapable
  <2>2. /\ guard'.at = "serving" /\ guard'.job = "final" /\ ~guard'.failed
        /\ guard'.active = guard.active /\ guard'.flags = guard.flags /\ guard'.code = guard.code
        /\ Reverts(guard'.script)
        /\ ~guard.active => guard'.script = <<>>
        /\ guard.active => Cooking \cup Remembered(guard.kitty, guard.flags) \subseteq Undone(guard'.script)
    BY <2>1, RestoringScript DEF Restorations
  <2>3. ~Alive'
    BY <2>1 DEF Alive
  <2>4. PlanInv' /\ AskedInv' /\ ActiveInv' /\ KnownInv'
    BY <2>1, <2>3 DEF PlanInv, AskedInv, ActiveInv, KnownInv, Good, Alive
  <2>5. ScriptInv'
    BY <2>2 DEF ScriptInv, Restorations
  <2>6. CookedInv'
    BY <2>1, <2>2 DEF CookedInv, Restorations
  <2>7. ExitInv'
    BY <2>1, <2>2, <2>3 DEF ExitInv
  <2> QED  BY <2>4, <2>5, <2>6, <2>7
<1>2. CASE ~Reapable(writer, guard.stopping)
  <2> DEFINE called == IF guard.term THEN Continued(Terminated(writer)) ELSE writer
             told == Signalled(called, guard.cell)
             since == IF guard.term THEN Stopping(guard.stopping) ELSE guard.stopping
  <2>1. guard.at = "top" /\ guard' = [guard EXCEPT !.term = FALSE, !.cell = "none", !.at = "poll", !.stopping = since]
        /\ writer' = (IF guard.stopping = "old" THEN Dead(told, "killed") ELSE told)
        /\ UNCHANGED <<modes, terminal, request, answer>> /\ writer.at # "dead"
    BY <1>2 DEF GuardTop, Reapable
  <2>2. SameGuard(guard, guard')
    <3> HIDE DEF since
    <3> QED  BY <2>1 DEF SameGuard, GuardType
  <2>3. guard.cell \in Cells /\ "killed" \in Codes
    BY DEF GuardType, Codes
  <2>4. called \in WriterType /\ Same(writer, called)
    <3>1. Terminated(writer) \in WriterType /\ Continued(Terminated(writer)) \in WriterType
      BY Signals DEF Kept
    <3>2. Same(writer, writer) /\ Same(writer, Terminated(writer)) /\ Same(Terminated(writer), Continued(Terminated(writer)))
      BY <3>1, SignalsSame
    <3> QED  BY <3>1, <3>2 DEF Same
  <2>5. told \in WriterType /\ Same(writer, told)
    <3> HIDE DEF called
    <3>1. told \in WriterType /\ Same(called, told)
      BY <2>3, <2>4, Signals, SignalsSame DEF Kept
    <3> QED  BY <2>4, <3>1 DEF Same
  <2>6. Same(writer, writer') \/ (writer'.at = "dead" /\ writer'.plan = <<>>)
    <3> HIDE DEF told
    <3> QED  BY <2>1, <2>3, <2>5, SignalsSame
  <2> QED  BY <2>1, <2>2, <2>6, SignalStep
<1> QED  BY <1>1, <1>2

\* A step that serves a byte of the writer: which script, and what the tty
\* remembers of it.
LEMMA ServingScript ==
    ASSUME TypeInv, NEW g \in GuardType, NEW job \in Asks \ Restorations
    PROVE  LET h == Serving(g, job) IN
           /\ h.at = "serving" /\ h.job = job /\ h.kitty = g.kitty /\ h.code = g.code
           /\ job = "activate" => h.active /\ h.flags = writer.flags
           /\ job # "activate" => h.active = g.active /\ h.flags = g.flags
           /\ ~h.active => h.script = <<>>
           /\ "kitty" \in Done(h.script) => job \in {"kitty", "kitty_maybe"}
           /\ "alt" \in Done(h.script) => "alt" \in h.flags
<1> DEFINE h == Serving(g, job)
<1>1. CASE job = "activate"
  <2> DEFINE script == ActivateScript(writer.flags)
  <2>1. h = [g EXCEPT !.at = "serving", !.job = job, !.failed = FALSE, !.active = TRUE, !.flags = writer.flags,
                      !.script = script]
    BY <1>1 DEF Serving
  <2>2. writer.flags \in SUBSET Flags
    BY DEF TypeInv, WriterType
  <2>3. Done(script) \subseteq {"raw", "nonblock", "nowrap", "altscroll", "focus", "paste", "mouse"} \cup writer.flags
    BY <2>2, ActivateSets DEF Sets
  <2>4. "kitty" \notin Done(script) /\ ("alt" \in Done(script) => "alt" \in writer.flags)
    BY <2>2, <2>3 DEF Flags
  <2> HIDE DEF script, h
  <2>5. h.at = "serving" /\ h.job = job /\ h.kitty = g.kitty /\ h.code = g.code /\ h.active = TRUE
        /\ h.flags = writer.flags /\ h.script = script
    BY <2>1 DEF GuardType
  <2> QED  BY <1>1, <2>4, <2>5 DEF h
<1>2. CASE job # "activate"
  <2> DEFINE full == IF job \in {"kitty", "kitty_maybe"} THEN On("kitty") ELSE MouseScript(job = "mouse_on", g.flags)
             script == If(g.active, full)
  <2>1. h = [g EXCEPT !.at = "serving", !.job = job, !.failed = ~g.active, !.script = script]
    BY <1>2 DEF Serving, Restorations
  <2>2. Done(full) \subseteq IF job \in {"kitty", "kitty_maybe"} THEN {"kitty"} ELSE {"mouse", "altscroll"}
    <3>1. Done(On("kitty")) = {"kitty"}
      BY SwitchParts DEF Modes
    <3>2. g.flags \in SUBSET Flags
      BY DEF GuardType
    <3>3. Done(MouseScript(TRUE, g.flags)) \subseteq {"mouse", "altscroll"}
          /\ Done(MouseScript(FALSE, g.flags)) \subseteq {"mouse", "altscroll"}
      BY <3>2, MouseSets DEF Sets
    <3>4. Done(MouseScript(job = "mouse_on", g.flags)) \subseteq {"mouse", "altscroll"}
      BY <3>3
    <3> QED  BY <3>1, <3>4
  <2> HIDE DEF full
  <2>3. (~g.active => script = <<>>) /\ Done(script) \subseteq Done(full)
    BY ScriptParts DEF If
  <2> HIDE DEF script, h
  <2>4. h.at = "serving" /\ h.job = job /\ h.kitty = g.kitty /\ h.code = g.code /\ h.active = g.active
        /\ h.flags = g.flags /\ h.script = script
    BY <2>1 DEF GuardType
  <2> QED  BY <1>2, <2>2, <2>3, <2>4 DEF h
<1> QED  BY <1>1, <1>2

\* The guard serves a byte: an activation finds a clean terminal, a restoration
\* undoes what the terminal has.
LEMMA GuardPollSide == ASSUME ModesInv, GuardPoll PROVE TerminalSide'
<1> USE DEF ModesInv, TerminalSide, Inv, TypeInv
<1> DEFINE gone == owner.closed /\ ~guard.gone
           told == IF gone THEN Continued(Terminated(writer)) ELSE writer
           since == IF gone THEN Stopping(guard.stopping) ELSE guard.stopping
           seen == [guard EXCEPT !.gone = owner.closed, !.stopping = since]
<1>1. guard.at = "poll" /\ writer' = told /\ request' = "none" /\ UNCHANGED <<modes, terminal, answer>>
  BY DEF GuardPoll
<1>2. Same(writer, writer')
  <2>1. Terminated(writer) \in WriterType
    BY Signals DEF Kept
  <2>2. Same(writer, writer) /\ Same(writer, Terminated(writer)) /\ Same(Terminated(writer), Continued(Terminated(writer)))
    BY <2>1, SignalsSame
  <2> QED  BY <1>1, <2>2 DEF Same
<1>3. seen \in GuardType /\ SameGuard(guard, seen) /\ seen.at = "poll"
  <2>1. since \in {"no", "young", "old"} /\ owner.closed \in BOOLEAN
    BY StoppingType DEF GuardType, OwnerType
  <2> HIDE DEF since
  <2> QED  BY <1>1, <2>1 DEF GuardType, SameGuard
<1>4. guard' = IF request # "none" THEN Serving(seen, request)
               ELSE [seen EXCEPT !.at = "top", !.stopping = IF writer.at = "dead" THEN Stopping(@) ELSE @]
  BY DEF GuardPoll
<1> HIDE DEF told, seen, since
<1>5. CASE request = "none"
  <2>1. SameGuard(guard, guard')
    BY <1>1, <1>3, <1>4, <1>5 DEF SameGuard, GuardType
  <2> QED  BY <1>1, <1>2, <1>5, <2>1, SignalStep
\* What holds of the asker while its byte waits.
<1>6. ASSUME request # "none"
      PROVE  /\ request \in Asks /\ guard' = Serving(seen, request) /\ ~Serves
             /\ Alive => request = Head(writer.plan) /\ writer.plan # <<>> /\ answer = "none"
             /\ Alive' <=> Alive
             /\ Good' <=> Good
             /\ PlanInv' /\ (guard'.code = guard.code /\ guard'.at = "serving" => ExitInv')
             /\ guard'.job = request => AskedInv'
  <2>1. request \in Asks /\ guard' = Serving(seen, request)
    BY <1>4, <1>6
  <2>2. (Alive' <=> Alive) /\ (Good' <=> Good)
    BY <1>2 DEF Alive, Good, Failed, Same
  <2>3. Alive => request = Head(writer.plan) /\ writer.plan # <<>> /\ answer = "none" /\ writer.waiting
    BY <1>6 DEF AskedInv, Handshake, Alive, Waits
  <2>4. PlanInv'
    BY <1>2, <2>2 DEF PlanInv, Same, Fits, Away
  <2>5. guard'.code = guard.code /\ guard'.at = "serving" => ExitInv'
    BY <1>1, <1>2, <2>2 DEF ExitInv, Same
  <2>6. guard'.job = request => AskedInv'
    BY <1>1, <1>2, <1>6, <2>1, <2>2, <2>3 DEF AskedInv, Same, Serves
  <2>7. ~Serves
    BY <1>1 DEF Serves
  <2> QED  BY <2>1, <2>2, <2>3, <2>4, <2>5, <2>6, <2>7
<1>7. CASE request = "restore"
  <2>1. guard' = Restoring(seen, "restore")
    BY <1>6, <1>7 DEF Serving
  <2>2. /\ guard'.at = "serving" /\ guard'.job = "restore" /\ ~guard'.failed
        /\ guard'.active = guard.active /\ guard'.flags = guard.flags /\ guard'.code = guard.code
        /\ Reverts(guard'.script)
        /\ ~guard.active => guard'.script = <<>>
        /\ guard.active => Cooking \cup Remembered(guard.kitty, guard.flags) \subseteq Undone(guard'.script)
    BY <1>3, <2>1, RestoringScript DEF Restorations, SameGuard
  <2>3. ScriptInv'
    BY <2>2 DEF ScriptInv, Restorations
  <2>4. CookedInv'
    BY <1>1, <2>2 DEF CookedInv, Restorations
  <2>5. ActiveInv'
    BY <1>1, <1>2, <1>6, <1>7, <2>2 DEF ActiveInv, Activating, Serves, Same
  <2>6. KnownInv'
    <3> SUFFICES ASSUME Good' PROVE /\ ~guard.active => Clean
                                    /\ modes \ {"title"} \subseteq Undone(guard'.script)
      BY <1>1, <2>2 DEF KnownInv, Clean, Serves
    <3>1. Good /\ Alive /\ answer = "none" /\ ~Serves
      BY <1>6, <1>7 DEF Good
    <3>2. CASE guard.active
      <4>1. ("kitty" \in modes => guard.kitty) /\ ("alt" \in modes => "alt" \in guard.flags)
        BY <3>1, <3>2 DEF KnownInv
      <4>2. modes \ {"title"} \subseteq Cooking \cup Remembered(guard.kitty, guard.flags)
        BY <4>1 DEF Modes, Flags, Cooking, Remembered, Reports
      <4> QED  BY <2>2, <3>2, <4>2
    <3>3. CASE ~guard.active
      BY <3>1, <3>3 DEF KnownInv, Clean
    <3> QED  BY <3>2, <3>3
  <2> QED  BY <1>6, <1>7, <2>2, <2>3, <2>4, <2>5, <2>6
<1>8. CASE request = "activate"
  <2>1. /\ guard'.at = "serving" /\ guard'.job = request /\ guard'.code = guard.code /\ guard'.active
        /\ "kitty" \in Done(guard'.script) => request \in {"kitty", "kitty_maybe"}
        /\ "alt" \in Done(guard'.script) => "alt" \in guard'.flags
    BY <1>3, <1>6, <1>8, ServingScript DEF Restorations, SameGuard
  <2>2. ScriptInv'
    BY <1>8, <2>1 DEF ScriptInv, Restorations
  <2>3. CookedInv'
    BY <1>8, <2>1 DEF CookedInv, Restorations
  <2>4. ActiveInv'
    BY <1>1, <1>2, <1>6, <1>8, <2>1 DEF ActiveInv, Activating, Serves, Same
  <2>5. KnownInv'
    <3> SUFFICES ASSUME Good' PROVE Clean
      BY <1>1, <1>8, <2>1 DEF KnownInv, Clean, Serves
    <3>1. Good /\ Alive /\ Head(writer.plan) = "activate" /\ writer.plan # <<>> /\ answer = "none" /\ ~Serves
      BY <1>6, <1>8 DEF Good
    <3>2. ~writer.active
      BY <3>1 DEF PlanInv, Fits, HeadFits
    <3>3. ~writer.ending
      <4>1. 1 \in DOMAIN writer.plan /\ writer.plan[1] = "activate"
        BY <3>1, HeadTailProperties, LenProperties, EmptySeq DEF WriterType
      <4> QED  BY <3>1, <4>1 DEF PlanInv, Fits, PlanShape
    <3>4. ~guard.active
      BY <3>1, <3>2, <3>3 DEF ActiveInv, Activating
    <3> QED  BY <3>1, <3>4 DEF KnownInv
  <2> QED  BY <1>6, <1>8, <2>1, <2>2, <2>3, <2>4, <2>5
<1>9. CASE request \notin {"none", "restore", "activate"}
  <2>1. /\ guard'.at = "serving" /\ guard'.job = request /\ guard'.code = guard.code /\ guard'.kitty = guard.kitty
        /\ guard'.active = guard.active /\ guard'.flags = guard.flags
        /\ ~guard.active => guard'.script = <<>>
        /\ "kitty" \in Done(guard'.script) => request \in {"kitty", "kitty_maybe"}
        /\ "alt" \in Done(guard'.script) => "alt" \in guard.flags
    <3>1. request \in Asks \ Restorations
      BY <1>6, <1>9 DEF Restorations, Asks
    <3> QED  BY <1>3, <1>6, <1>9, <3>1, ServingScript DEF SameGuard
  <2>2. request \notin Restorations
    BY <1>6, <1>9 DEF Restorations, Asks
  <2>3. ScriptInv'
    BY <1>9, <2>1, <2>2 DEF ScriptInv
  <2>4. CookedInv'
    BY <1>1, <2>1, <2>2 DEF CookedInv
  <2>5. ActiveInv'
    BY <1>1, <1>2, <1>6, <1>9, <2>1 DEF ActiveInv, Activating, Serves, Same
  <2>6. KnownInv'
    BY <1>1, <1>6, <1>9, <2>1 DEF KnownInv, Clean, Serves, Good
  <2> QED  BY <1>6, <1>9, <2>1, <2>3, <2>4, <2>5, <2>6
<1> QED  BY <1>5, <1>7, <1>8, <1>9

\* One operation of the script.
LEMMA GuardOperatesSide == ASSUME ModesInv, GuardOperates PROVE TerminalSide'
<1> USE DEF ModesInv, TerminalSide, Inv, TypeInv
<1> DEFINE op == Head(guard.script)
<1>1. guard.at = "serving" /\ guard.script # <<>> /\ guard.script \in Seq(Ops)
      /\ UNCHANGED <<terminal, writer, request, answer>>
  BY DEF GuardOperates, GuardType
<1>2. guard.active
  BY <1>1 DEF ScriptInv
<1>3. op \in Ops /\ Undone(guard.script) = op.off \cup Undone(Tail(guard.script))
      /\ Done(guard.script) = op.on \cup Done(Tail(guard.script))
  BY <1>1, FirstOp
<1>4. Alive => guard.job # "final"
  BY <1>1 DEF Handshake, Alive
\* What a change of the script, the kitty flag and the failure leaves alone.
<1>5. ASSUME guard'.at = guard.at, guard'.job = guard.job, guard'.active = guard.active, guard'.flags = guard.flags,
             guard'.code = guard.code
      PROVE  PlanInv' /\ AskedInv' /\ ActiveInv' /\ ExitInv'
  <2>1. PlanInv' /\ ExitInv'
    BY <1>1, <1>5 DEF PlanInv, Alive, Fits, Away, ExitInv
  <2>2. AskedInv' /\ ActiveInv'
    BY <1>1, <1>5 DEF AskedInv, ActiveInv, Activating, Alive, Serves
  <2> QED  BY <2>1, <2>2
<1>6. CASE Fails(op)
  <2> DEFINE rest == AfterFailure(op, guard.job)
  <2>1. guard' = [guard EXCEPT !.failed = TRUE, !.script = rest] /\ modes' = modes
    BY <1>6 DEF GuardOperates
  <2>2. /\ guard.job \notin Restorations => Done(rest) = {}
        /\ guard.job \in Restorations /\ terminal # "gone" =>
              Cooking \cap modes \subseteq Undone(rest) /\ Reverts(rest)
    <3>1. terminal # "gone" => op.by = "write"
      BY <1>6 DEF Fails
    <3>2. rest = <<>> \/ (rest = RestoreCalls /\ guard.job \in Restorations)
      BY DEF AfterFailure, Restorations
    <3>3. terminal # "gone" /\ guard.job \in Restorations => rest = RestoreCalls
      BY <3>1 DEF AfterFailure, Restorations
    <3> HIDE DEF rest, op
    <3> QED  BY <3>2, <3>3, ScriptParts, CallsRevert
  <2> HIDE DEF rest, op
  <2>3. /\ guard'.at = guard.at /\ guard'.job = guard.job /\ guard'.active = guard.active /\ guard'.flags = guard.flags
        /\ guard'.code = guard.code /\ guard'.kitty = guard.kitty /\ guard'.failed = TRUE /\ guard'.script = rest
    BY <2>1 DEF GuardType
  <2>4. ScriptInv'
    BY <1>1, <1>2, <2>2, <2>3 DEF ScriptInv
  <2>5. CookedInv'
    BY <1>1, <1>2, <2>1, <2>2, <2>3 DEF CookedInv
  <2>6. KnownInv'
    BY <1>1, <1>2, <2>1, <2>3 DEF KnownInv, Good, Failed, Alive, Clean, Serves
  <2> QED  BY <1>5, <2>3, <2>4, <2>5, <2>6
<1>7. CASE ~Fails(op)
  <2> DEFINE rest == Tail(guard.script)
             kitty == guard.kitty \/ guard.job \in {"kitty", "kitty_maybe"}
  <2>1. guard' = [guard EXCEPT !.script = rest, !.kitty = kitty] /\ modes' = (modes \cup op.on) \ op.off
    BY <1>7 DEF GuardOperates
  <2>2. ASSUME NEW some, some \subseteq Undone(guard.script), Reverts(guard.script)
        PROVE  Reverts(rest) /\ (some \cup op.on) \ op.off \subseteq Undone(rest)
    BY <1>1, <2>2, OperationReverts
  <2> HIDE DEF rest, op, kitty
  <2>3. /\ guard'.at = guard.at /\ guard'.job = guard.job /\ guard'.active = guard.active /\ guard'.flags = guard.flags
        /\ guard'.code = guard.code /\ guard'.kitty = kitty /\ guard'.failed = guard.failed /\ guard'.script = rest
    BY <2>1 DEF GuardType
  <2>4. ScriptInv'
    BY <1>1, <1>2, <1>3, <2>3 DEF ScriptInv, rest
  <2>5. CookedInv'
    <3> SUFFICES ASSUME terminal # "gone", guard.job \in Restorations
                 PROVE  Cooking \cap modes' \subseteq Undone(rest) /\ Reverts(rest)
      BY <1>1, <1>2, <2>3 DEF CookedInv
    <3>1. Cooking \cap modes \subseteq Undone(guard.script) /\ Reverts(guard.script)
      BY <1>1 DEF CookedInv
    <3>2. Reverts(rest) /\ ((Cooking \cap modes) \cup op.on) \ op.off \subseteq Undone(rest)
      BY <2>2, <3>1
    <3> QED  BY <2>1, <3>2
  <2>6. KnownInv'
    <3> SUFFICES ASSUME Good
                 PROVE  /\ guard.job # "restore" /\ ~(answer = "failed" /\ Head(writer.plan) = "restore") =>
                            /\ "kitty" \in modes' => kitty
                            /\ "alt" \in modes' => "alt" \in guard.flags
                        /\ guard.job = "restore" /\ ~guard.failed =>
                            modes' \ {"title"} \subseteq Undone(rest) /\ Reverts(rest)
      BY <1>1, <1>2, <1>4, <2>3 DEF KnownInv, Good, Failed, Alive, Serves
    <3>1. Serves
      BY <1>1, <1>4 DEF Serves, Good
    <3>2. ASSUME guard.job # "restore", ~(answer = "failed" /\ Head(writer.plan) = "restore")
          PROVE  ("kitty" \in modes' => kitty) /\ ("alt" \in modes' => "alt" \in guard.flags)
      <4>1. ("kitty" \in modes => guard.kitty) /\ ("alt" \in modes => "alt" \in guard.flags)
        BY <1>2, <3>2 DEF KnownInv
      <4>2. guard.job \notin Restorations
        BY <1>4, <3>2 DEF Restorations, Good
      <4>3. ("kitty" \in op.on => kitty) /\ ("alt" \in op.on => "alt" \in guard.flags)
        BY <1>1, <1>3, <4>2 DEF ScriptInv, kitty
      <4> QED  BY <2>1, <4>1, <4>3 DEF kitty
    <3>3. ASSUME guard.job = "restore", ~guard.failed
          PROVE  modes' \ {"title"} \subseteq Undone(rest) /\ Reverts(rest)
      <4>1. modes \ {"title"} \subseteq Undone(guard.script) /\ Reverts(guard.script)
        BY <3>1, <3>3 DEF KnownInv
      <4>2. Reverts(rest) /\ ((modes \ {"title"}) \cup op.on) \ op.off \subseteq Undone(rest)
        BY <2>2, <4>1
      <4> QED  BY <2>1, <4>2
    <3> QED  BY <3>2, <3>3
  <2> QED  BY <1>5, <2>3, <2>4, <2>5, <2>6
<1> QED  BY <1>6, <1>7

LEMMA SettledFields ==
    ASSUME NEW g \in GuardType
    PROVE  LET h == Settled(g) IN
           /\ h \in GuardType /\ h.job = g.job /\ h.script = g.script /\ h.failed = g.failed
           /\ h.kitty = g.kitty /\ h.code = g.code /\ h.stopping = g.stopping
           /\ h.active = (IF g.job \in Restorations THEN g.failed ELSE g.active)
           /\ "alt" \in h.flags <=> "alt" \in g.flags
<1> DEFINE h == Settled(g)
           active == IF g.job \in Restorations THEN g.failed ELSE g.active
           flags == CASE g.job = "mouse_on" /\ ~g.failed -> g.flags \cup {"mouse"}
                      [] g.job = "mouse_off" /\ ~g.failed -> g.flags \ {"mouse"}
                      [] OTHER -> g.flags
<1>1. h = [g EXCEPT !.active = active, !.flags = flags]
  BY DEF Settled, Restorations
<1>2. "alt" \in flags <=> "alt" \in g.flags
  OBVIOUS
<1>3. h \in GuardType
  BY Settles
<1> HIDE DEF h, active, flags
<1>4. h.job = g.job /\ h.script = g.script /\ h.failed = g.failed /\ h.kitty = g.kitty /\ h.code = g.code
      /\ h.stopping = g.stopping /\ h.active = active /\ h.flags = flags
  BY <1>1 DEF GuardType
<1> QED  BY <1>2, <1>3, <1>4 DEF h, active

\* The answer: what it says of the tty is so.
LEMMA GuardAnswersSide == ASSUME ModesInv, GuardAnswers PROVE TerminalSide'
<1> USE DEF ModesInv, TerminalSide, Inv, TypeInv
<1> DEFINE s == Settled(guard)
           since == IF guard.failed THEN Stopping(s.stopping) ELSE s.stopping
<1>1. /\ guard.at = "serving" /\ guard.script = <<>> /\ guard.job # "final" /\ Serves
      /\ UNCHANGED <<modes, terminal, writer, request>>
      /\ answer' = IF writer.at = "dead" THEN answer ELSE AnswerOf(guard.failed)
  BY DEF GuardAnswers, Serves
<1>2. /\ guard'.at = "top" /\ guard'.kitty = guard.kitty /\ guard'.code = guard.code
      /\ guard'.active = (IF guard.job \in Restorations THEN guard.failed ELSE guard.active)
      /\ "alt" \in guard'.flags <=> "alt" \in guard.flags
  <2>1. guard' = [s EXCEPT !.at = "top", !.stopping = since]
    BY DEF GuardAnswers
  <2>2. s \in GuardType /\ s.kitty = guard.kitty /\ s.code = guard.code
        /\ s.active = (IF guard.job \in Restorations THEN guard.failed ELSE guard.active)
        /\ ("alt" \in s.flags <=> "alt" \in guard.flags)
    BY SettledFields
  <2> HIDE DEF s, since
  <2>3. guard'.at = "top" /\ guard'.kitty = s.kitty /\ guard'.code = s.code /\ guard'.active = s.active
        /\ guard'.flags = s.flags
    BY <2>1, <2>2 DEF GuardType
  <2> QED  BY <2>2, <2>3
<1>3. Alive => guard.job = Head(writer.plan) /\ guard.job \in Asks /\ answer = "none"
  BY <1>1 DEF AskedInv, Handshake, Alive
<1>4. ~Serves' /\ ~(guard'.at = "serving") /\ Undone(guard.script) = {}
      /\ (guard.job \in Restorations <=> guard.job = "restore")
  BY <1>1, <1>2, ScriptParts DEF Serves, Restorations
<1>5. Alive => answer' = IF guard.failed THEN "failed" ELSE "ok"
  BY <1>1 DEF Alive, AnswerOf
<1>6. PlanInv' /\ ExitInv' /\ ScriptInv' /\ AskedInv'
  BY <1>1, <1>2, <1>4 DEF PlanInv, ExitInv, ScriptInv, AskedInv, Alive, Fits, Away
<1>7. CookedInv'
  <2> SUFFICES ASSUME terminal # "gone", ~guard'.active PROVE Cooking \cap modes = {}
    BY <1>1, <1>2 DEF CookedInv
  <2>1. CASE guard.job \in Restorations
    BY <1>1, <1>4, <2>1 DEF CookedInv
  <2>2. CASE guard.job \notin Restorations
    BY <1>2, <2>2 DEF CookedInv
  <2> QED  BY <2>1, <2>2
<1>8. Alive /\ guard.job = "restore" /\ ~guard.active => ~guard.failed
  BY <1>1, <1>4 DEF ScriptInv
<1>9. ActiveInv'
  <2> SUFFICES ASSUME Alive
               PROVE  /\ ~writer.active /\ ~writer.ending /\ guard.job # "activate" => ~guard'.active
                      /\ writer.active /\ ~guard'.active => answer' = "ok" /\ guard.job = "restore"
                      /\ answer' = "ok" /\ guard.job = "restore" => ~guard'.active
                      /\ answer' = "ok" /\ guard.job = "activate" => guard'.active
    <3>1. Alive => answer' # "none"
      BY <1>5
    <3> QED  BY <1>1, <1>3, <1>4, <3>1 DEF ActiveInv, Activating, Alive, Asks
  <2>1. guard.job = "activate" => guard.active
    BY <1>1 DEF ScriptInv
  <2>2. ~writer.active /\ ~writer.ending /\ guard.job # "activate" => ~guard.active
    BY <1>3 DEF ActiveInv, Activating
  <2>3. writer.active => guard.active
    BY <1>3 DEF ActiveInv
  <2>4. CASE guard.job = "restore"
    BY <1>2, <1>4, <1>5, <1>8, <2>2, <2>3, <2>4
  <2>5. CASE guard.job # "restore"
    BY <1>2, <1>4, <1>5, <2>1, <2>2, <2>3, <2>5
  <2> QED  BY <2>4, <2>5
<1>10. KnownInv'
  <2> SUFFICES ASSUME Good
               PROVE  /\ ~guard'.active => Clean
                      /\ guard'.active /\ ~(answer' = "failed" /\ guard.job = "restore") =>
                            /\ "kitty" \in modes => guard.kitty
                            /\ "alt" \in modes => "alt" \in guard.flags
    BY <1>1, <1>2, <1>3, <1>4 DEF KnownInv, Good, Failed, Alive, Clean
  <2>1. answer = "none" /\ guard.job = Head(writer.plan) /\ (answer' = IF guard.failed THEN "failed" ELSE "ok")
    BY <1>3, <1>5 DEF Good
  <2>2. CASE guard.job = "restore"
    <3>1. ~guard.failed => modes \ {"title"} \subseteq {}
      BY <1>1, <1>4, <2>2 DEF KnownInv
    <3>2. ~guard.failed => Clean
      BY <3>1 DEF Clean
    <3> QED  BY <1>2, <1>4, <2>1, <2>2, <3>2
  <2>3. CASE guard.job # "restore"
    BY <1>2, <1>4, <2>1, <2>3 DEF KnownInv
  <2> QED  BY <2>2, <2>3
<1> QED  BY <1>6, <1>7, <1>9, <1>10

LEMMA GuardExitsSide == ASSUME ModesInv, GuardExits PROVE TerminalSide'
<1> USE DEF ModesInv, TerminalSide, Inv, TypeInv
<1> DEFINE s == Settled(guard)
           code == IF ~guard.failed /\ writer.code = "ok" THEN "ok" ELSE "err"
<1>1. /\ guard.at = "serving" /\ guard.script = <<>> /\ guard.job = "final" /\ writer.at = "dead"
      /\ UNCHANGED <<modes, terminal, writer, request, answer>>
  BY DEF GuardExits, Handshake
<1>2. guard'.at = "exited" /\ guard'.active = guard.failed /\ guard'.code = code
  <2>1. guard' = [s EXCEPT !.at = "exited", !.code = code]
    BY DEF GuardExits
  <2>2. s \in GuardType /\ s.active = guard.failed
    BY <1>1, SettledFields DEF Restorations
  <2> HIDE DEF s, code
  <2> QED  BY <2>1, <2>2 DEF GuardType
<1>3. ~Alive /\ ~Alive'
  BY <1>1 DEF Alive
<1>4. PlanInv' /\ AskedInv' /\ ActiveInv' /\ KnownInv' /\ ScriptInv'
  BY <1>1, <1>2, <1>3 DEF PlanInv, AskedInv, ActiveInv, KnownInv, Good, ScriptInv
<1>5. CookedInv'
  BY <1>1, <1>2, ScriptParts DEF CookedInv, Restorations
<1>6. ExitInv'
  BY <1>1, <1>2, <1>3 DEF ExitInv
<1> QED  BY <1>4, <1>5, <1>6

\* The clock, the owner, the shell, the terminal and the death of the writer.
LEMMA OutsideSide ==
    ASSUME ModesInv,
           \/ GuardTimer \/ OwnerSends \/ OwnerHears \/ ShellStops \/ ShellContinues \/ Terminate
           \/ TerminalChanges \/ OwnerCloses \/ WriterDies \/ UNCHANGED vars
    PROVE  TerminalSide'
<1> USE DEF ModesInv, Inv, TypeInv
<1>1. /\ SameGuard(guard, guard) /\ SameGuard(guard, [guard EXCEPT !.stopping = "old"])
      /\ SameGuard(guard, [guard EXCEPT !.term = TRUE])
      /\ SameGuard(guard, [guard EXCEPT !.cell = "tstp"]) /\ SameGuard(guard, [guard EXCEPT !.cell = "cont"])
  BY DEF SameGuard, GuardType
<1>2. Same(writer, writer) /\ Same(writer, Terminated(writer)) /\ Same(writer, Continued(writer))
      /\ Same(writer, Signalled(writer, "tstp"))
  BY SignalsSame DEF Cells
<1>3. CASE GuardTimer
  BY <1>1, <1>2, <1>3, SignalStep DEF GuardTimer
<1>4. CASE OwnerSends \/ OwnerHears \/ OwnerCloses
  <2>1. UNCHANGED <<modes, terminal, guard, writer, request, answer>>
    BY <1>4 DEF OwnerSends, OwnerHears, OwnerCloses
  <2> QED  BY <1>1, <1>2, <2>1, SignalStep
<1>5. CASE ShellStops
  BY <1>1, <1>2, <1>5, SignalStep DEF ShellStops
<1>6. CASE ShellContinues
  BY <1>1, <1>2, <1>6, SignalStep DEF ShellContinues
<1>7. CASE Terminate
  BY <1>1, <1>2, <1>7, SignalStep DEF Terminate
<1>8. CASE TerminalChanges
  <2>1. (terminal' # "gone" => terminal # "gone") /\ UNCHANGED <<modes, guard, writer, request, answer>>
    BY <1>8 DEF TerminalChanges
  <2> QED  BY <1>1, <1>2, <2>1, SignalStep
<1>9. CASE WriterDies
  <2>1. writer' = Dead(writer, "killed") /\ writer.at # "dead" /\ UNCHANGED <<modes, terminal, guard, request, answer>>
    BY <1>9 DEF WriterDies
  <2>2. writer'.at = "dead" /\ writer'.plan = <<>>
    <3>1. "killed" \in Codes
      BY DEF Codes
    <3> QED  BY <2>1, <3>1, SignalsSame
  <2> QED  BY <1>1, <2>1, <2>2, SignalStep
<1>10. CASE UNCHANGED vars
  BY <1>1, <1>2, <1>10, SignalStep DEF vars
<1> QED  BY <1>3, <1>4, <1>5, <1>6, <1>7, <1>8, <1>9, <1>10

LEMMA TerminalSideStep == ASSUME ModesInv, [Next]_vars PROVE TerminalSide'
<1>1. CASE Writer
  BY <1>1, WriterTurnsSide, WriterExitsSide, WriterAsksSide, WriterAnsweredSide DEF Writer
<1>2. CASE Guard
  BY <1>2, GuardTopSide, GuardPollSide, GuardOperatesSide, GuardAnswersSide, GuardExitsSide DEF Guard
<1>3. CASE GuardTimer \/ Outside \/ UNCHANGED vars
  BY <1>3, OutsideSide DEF Outside, Ended
<1> QED  BY <1>1, <1>2, <1>3 DEF Next

-----------------------------------------------------------------------------
(* The steps, on the side of the owner.                                    *)

\* A sequence and its last element, its first element and the rest.
LEMMA AppendParts ==
    ASSUME NEW S, NEW s \in Seq(S), NEW e \in S
    PROVE  LET q == Append(s, e) IN
           /\ \A i \in DOMAIN s : i \in Nat /\ i < Len(s) + 1 /\ i \in DOMAIN q /\ q[i] = s[i]
           /\ Len(s) + 1 \in DOMAIN q /\ q[Len(s) + 1] = e
           /\ \A i \in DOMAIN q : i \in Nat /\ (i = Len(s) + 1 \/ i \in DOMAIN s)
BY AppendProperties, LenProperties

LEMMA TailParts ==
    ASSUME NEW S, NEW s \in Seq(S), s # <<>>
    PROVE  /\ 1 \in DOMAIN s /\ Head(s) = s[1]
           /\ \A i \in DOMAIN Tail(s) : i \in Nat \ {0} /\ i + 1 \in DOMAIN s /\ Tail(s)[i] = s[i + 1]
           /\ \A i \in DOMAIN s : i = 1 \/ (i - 1 \in DOMAIN Tail(s) /\ Tail(s)[i - 1] = s[i])
BY HeadTailProperties, LenProperties, EmptySeq

\* The record that the owner waits for, among the others.
LEMMA AppendedRecord ==
    ASSUME NEW S, NEW s \in Seq(S), NEW e \in S, NEW x
    PROVE  /\ x \in ToSet(Append(s, e)) <=> x \in ToSet(s) \/ x = e
           /\ Once(x, s) /\ (x = e => x \notin ToSet(s)) => Once(x, Append(s, e))
<1> DEFINE q == Append(s, e)
<1>1. /\ \A i \in DOMAIN s : i \in Nat /\ i < Len(s) + 1 /\ i \in DOMAIN q /\ q[i] = s[i]
      /\ Len(s) + 1 \in DOMAIN q /\ q[Len(s) + 1] = e
      /\ \A i \in DOMAIN q : i \in Nat /\ (i = Len(s) + 1 \/ i \in DOMAIN s)
  BY AppendParts
<1> HIDE DEF q
<1>2. x \in ToSet(q) <=> x \in ToSet(s) \/ x = e
  BY <1>1 DEF ToSet
<1>3. ASSUME Once(x, s), x = e => x \notin ToSet(s) PROVE Once(x, q)
  BY <1>1, <1>3 DEF Once, ToSet
<1> QED  BY <1>2, <1>3 DEF q

LEMMA FirstRecord ==
    ASSUME NEW S, NEW s \in Seq(S), s # <<>>, NEW x
    PROVE  /\ Head(s) \in ToSet(s)
           /\ x \in ToSet(Tail(s)) => x \in ToSet(s)
           /\ Once(x, s) => Once(x, Tail(s)) /\ (Head(s) = x => x \notin ToSet(Tail(s)))
<1> DEFINE t == Tail(s)
<1>1. /\ 1 \in DOMAIN s /\ Head(s) = s[1]
      /\ \A i \in DOMAIN t : i \in Nat \ {0} /\ i + 1 \in DOMAIN s /\ t[i] = s[i + 1]
  BY TailParts
<1> HIDE DEF t
<1>2. Head(s) \in ToSet(s)
  BY <1>1 DEF ToSet
<1>3. x \in ToSet(t) => x \in ToSet(s)
  BY <1>1 DEF ToSet
<1>4. ASSUME Once(x, s) PROVE Once(x, t) /\ (Head(s) = x => x \notin ToSet(t))
  <2>1. \A i, j \in DOMAIN t : i + 1 = j + 1 => i = j
    BY <1>1
  <2>2. \A i \in DOMAIN t : i + 1 # 1
    BY <1>1
  <2> QED  BY <1>1, <1>4, <2>1, <2>2 DEF Once, ToSet
<1> QED  BY <1>2, <1>3, <1>4 DEF t

\* A writer that is about to say that it restored, or to stop, has left nothing
\* in the terminal.
LEMMA QuietWhen ==
    ASSUME ModesInv, NEW step \in {"restored", "stop"}, Does(step)
    PROVE  Quiet
<1> USE DEF ModesInv, TerminalSide, Inv, TypeInv
<1>1. Alive /\ ~writer.waiting /\ writer.plan # <<>> /\ Head(writer.plan) = step /\ Fits(writer)
  BY DoesFits
<1>2. request = "none" /\ answer = "none" /\ ~Serves
  BY <1>1 DEF Handshake, Serves, Alive
<1>3. ~writer.active
  BY <1>1 DEF Fits, HeadFits
<1>4. 1 \in DOMAIN writer.plan /\ writer.plan[1] = step
  BY <1>1, HeadTailProperties, LenProperties, EmptySeq DEF WriterType
<1>5. ~writer.ending
  BY <1>1, <1>4 DEF Fits, PlanShape
<1>6. ~Has(writer, "activate")
  BY <1>1, <1>4 DEF Fits, PlanShape, Firsts, Has
<1>7. ~guard.active
  BY <1>1, <1>2, <1>3, <1>5 DEF ActiveInv, Activating
<1>8. Clean
  BY <1>1, <1>5, <1>7 DEF KnownInv, Good, Failed
<1> QED  BY <1>2, <1>3, <1>6, <1>7, <1>8 DEF Quiet

\* What the owner knows stays true of a step that leaves it alone.
LEMMA OwnerFrame ==
    ASSUME ModesInv, UNCHANGED owner, Said' <=> Said, Once("restored", records) => Once("restored", records'),
           Saying' => Saying,
           Sends({"init"}) => ~writer'.active /\ ~writer'.ext /\ ~Has(writer', "activate") /\ ~Has(writer', "stop"),
           Away(writer') => Quiet \/ Away(writer), writer'.code = "ok" => Quiet \/ writer.code = "ok",
           Quiet => Quiet'
    PROVE  OwnerSide'
<1> USE DEF ModesInv, OwnerSide
<1>1. (Told' <=> Told) /\ \A kinds : Sends(kinds)' <=> Sends(kinds)
  BY DEF Told, Sends
<1>2. PipeInv'
  BY <1>1 DEF PipeInv
<1>3. QuietInv'
  BY <1>1 DEF QuietInv
<1> QED  BY <1>2, <1>3

\* What a turn of the writer does not bring about.
LEMMA TurnFrame ==
    ASSUME ModesInv, Alive, Turns(writer, writer'), UNCHANGED <<owner, records, guard, request>>,
           Quiet => Clean',
           ~Has(writer', "activate") \/ Has(writer, "activate"),
           ~Has(writer', "restored") \/ Has(writer, "restored"),
           ~Has(writer', "stop") \/ Has(writer, "stop") \/ writer.active,
           writer'.ext => writer.ext \/ Has(writer, "stop"),
           Away(writer') => Quiet \/ Away(writer)
    PROVE  OwnerSide'
<1> USE DEF ModesInv, TerminalSide
<1>1. (Said' <=> Said) /\ (Saying' => Saying) /\ (Once("restored", records) => Once("restored", records'))
  BY DEF Said, Saying
<1>2. Sends({"init"}) => ~writer'.active /\ ~writer'.ext /\ ~Has(writer', "activate") /\ ~Has(writer', "stop")
  BY DEF OwnerSide, PipeInv, Turns
<1>3. writer'.code # "ok"
  BY DEF Turns, ExitInv
<1>4. Quiet => Quiet'
  BY DEF Quiet, Turns
<1> QED  BY <1>1, <1>2, <1>3, <1>4, OwnerFrame

LEMMA TopAndWritesOwner ==
    ASSUME ModesInv, WriterTop \/ WriterWrites \/ WriterWritesPart \/ WriterCannotWrite
    PROVE  OwnerSide'
<1>1. CASE WriterTop
  <2>1. UNCHANGED <<owner, records, guard, request, modes>>
    BY <1>1 DEF WriterTop
  <2>2. Quiet => Clean'
    BY <2>1 DEF Quiet, Clean
  <2>3. Away(writer') => Away(writer)
    BY <1>1, TopTurns DEF Away
  <2> QED  BY <1>1, <2>1, <2>2, <2>3, TopTurns, TurnFrame
<1>2. CASE WriterWrites \/ WriterWritesPart \/ WriterCannotWrite
  <2>1. UNCHANGED <<owner, records, guard, request>>
    BY <1>2 DEF WriterWrites, WriterWritesPart, WriterCannotWrite
  <2>2. Quiet => Clean'
    BY <1>2, WriteTurns DEF Quiet, Clean
  <2>3. Away(writer') => Away(writer)
    BY <1>2, WriteTurns DEF Away
  <2> QED  BY <1>2, <2>1, <2>2, <2>3, WriteTurns, TurnFrame
<1> QED  BY <1>1, <1>2

\* The writer tells the owner, stops or finishes.
LEMMA TellsOwner == ASSUME ModesInv, WriterTells \/ WriterStops \/ WriterFinishes PROVE OwnerSide'
<1> USE DEF ModesInv, Inv, TypeInv
<1>1. /\ Turns(writer, writer') /\ Alive /\ ~writer.waiting
      /\ writer'.await = writer.await
      /\ writer'.ext # writer.ext => WriterStops
      /\ \A s \in {"activate", "stop", "restored"} : Has(writer', s) => Has(writer, s)
  BY TellTurns
<1>2. UNCHANGED <<owner, guard, request, modes>>
  BY DEF WriterTells, WriterStops, WriterFinishes
<1>3. WriterStops => Quiet /\ Has(writer, "stop")
  <2> SUFFICES ASSUME WriterStops PROVE Quiet /\ Has(writer, "stop")
    OBVIOUS
  <2>1. Does("stop")
    BY DEF WriterStops
  <2>2. writer.plan # <<>> /\ Head(writer.plan) = "stop" /\ writer.plan \in Seq(Steps)
    BY <2>1 DEF Does, WriterType
  <2>3. 1 \in DOMAIN writer.plan /\ writer.plan[1] = "stop"
    BY <2>2, TailParts
  <2> QED  BY <2>1, <2>3, QuietWhen DEF Has
<1>4. Quiet => Clean'
  BY <1>2 DEF Quiet, Clean
<1>5. Away(writer') => Quiet \/ Away(writer)
  BY <1>1, <1>3 DEF Away
<1>6. writer'.ext => writer.ext \/ Has(writer, "stop")
  BY <1>1, <1>3
<1>7. CASE records' = records
  BY <1>1, <1>2, <1>4, <1>5, <1>6, <1>7, TurnFrame
<1>8. CASE records' # records
  <2>1. PICK step \in Tells : Does(step) /\ writer' = Next1(writer) /\ records' = Append(records, step)
    <3>1. WriterTells
      BY <1>8 DEF WriterStops, WriterFinishes
    <3> QED  BY <1>8, <3>1 DEF WriterTells
  <2>2. /\ Said' <=> Said \/ step = "restored"
        /\ Once("restored", records) /\ (step = "restored" => ~Said) => Once("restored", records')
    BY <2>1, AppendedRecord DEF Said
  <2>3. writer'.code # "ok" /\ (Quiet => Quiet')
    BY <1>1, <1>2, <1>4 DEF TerminalSide, ExitInv, Turns, Quiet
  <2>4. CASE step # "restored"
    <3>1. (Said' <=> Said) /\ (Saying' => Saying) /\ (Once("restored", records) => Once("restored", records'))
      BY <1>1, <2>2, <2>4 DEF Saying
    <3>2. Sends({"init"}) => ~writer'.active /\ ~writer'.ext /\ ~Has(writer', "activate") /\ ~Has(writer', "stop")
      BY <1>1, <1>6 DEF OwnerSide, PipeInv, Turns
    <3> QED  BY <1>2, <1>5, <2>3, <3>1, <3>2, OwnerFrame
  <2>5. CASE step = "restored"
    <3>1. writer.plan # <<>> /\ Head(writer.plan) = "restored" /\ writer.plan \in Seq(Steps) /\ Fits(writer)
      BY <2>1, <2>5, DoesFits DEF WriterType
    <3>2. Quiet
      BY <2>1, <2>5, QuietWhen
    <3>3. Saying /\ ~Saying'
      <4>1. writer'.plan = Tail(writer.plan)
        BY <2>1, <3>1, NextFields
      <4>2. Once("restored", writer.plan)
        BY <3>1 DEF Fits, PlanShape
      <4>3. "restored" \in ToSet(writer.plan) /\ "restored" \notin ToSet(writer'.plan)
        BY <3>1, <4>1, <4>2, FirstRecord
      <4> QED  BY <4>3 DEF Saying, Has, ToSet
    <3>4. \A kinds : Sends(kinds)' <=> Sends(kinds)
      BY <1>2 DEF Sends
    <3>5. ~Sends(Begins)
      BY <3>3 DEF OwnerSide, PipeInv
    <3>6. ~Sends({"init"})
      BY <3>5 DEF Sends, Begins
    <3>7. owner.phase = "suspending" => ~Sends(Ends) /\ ~Said /\ Once("restored", records)
      BY <3>3 DEF OwnerSide, PipeInv
    <3>8. PipeInv'
      BY <1>2, <2>2, <2>5, <3>3, <3>4, <3>5, <3>6, <3>7 DEF OwnerSide, PipeInv
    <3>9. QuietInv'
      BY <2>3, <3>2 DEF QuietInv
    <3> QED  BY <3>8, <3>9 DEF OwnerSide
  <2> QED  BY <2>4, <2>5
<1> QED  BY <1>7, <1>8

\* A command is taken from the pipe into the plan.
LEMMA PollOwner == ASSUME ModesInv, WriterPoll PROVE OwnerSide'
<1> USE DEF ModesInv, Inv, TypeInv
<1>1. /\ Turns(writer, writer') /\ Alive
      /\ writer'.ext = writer.ext
      /\ writer'.await = writer.await \/ (~writer'.await /\ owner.pipe # <<>> /\ Head(owner.pipe).kind \in Begins)
      /\ Has(writer', "activate") =>
            owner.pipe # <<>> /\ Head(owner.pipe).kind \in Begins /\ ~writer'.ext /\ ~writer'.await
      /\ ~Has(writer', "stop")
      /\ Has(writer', "restored") => owner.pipe # <<>> /\ Head(owner.pipe).kind \in Ends
  BY PollTurns
<1>2. UNCHANGED <<records, guard, request, modes>>
  BY DEF WriterPoll
<1>3. Away(writer') => Away(writer)
  BY <1>1 DEF Away
<1>4. CASE owner.pipe = <<>>
  <2>1. UNCHANGED owner
    BY <1>4 DEF WriterPoll
  <2>2. Quiet => Clean'
    BY <1>2 DEF Quiet, Clean
  <2> QED  BY <1>1, <1>2, <1>3, <1>4, <2>1, <2>2, TurnFrame
<1>5. CASE owner.pipe # <<>>
  <2> DEFINE p == owner.pipe
             q == Tail(owner.pipe)
  <2>1. owner'.pipe = q /\ owner'.phase = owner.phase
    <3>1. owner' = [owner EXCEPT !.pipe = q]
      BY <1>5 DEF WriterPoll
    <3> HIDE DEF q
    <3> QED  BY <3>1 DEF OwnerType
  <2>2. /\ 1 \in DOMAIN p /\ Head(p) = p[1]
        /\ \A i \in DOMAIN q : i \in Nat \ {0} /\ i + 1 \in DOMAIN p /\ q[i] = p[i + 1]
    BY <1>5, TailParts DEF OwnerType
  <2>3. \A i, j \in DOMAIN q :
           /\ i + 1 # 1 /\ 1 < i + 1
           /\ i < j => i + 1 < j + 1
           /\ i + 1 = j + 1 => i = j
    BY <2>2
  <2> HIDE DEF q
  <2>4. \A kinds : Sends(kinds)' => Sends(kinds)
    BY <2>1, <2>2 DEF Sends
  <2>5. \A kinds : Head(p).kind \in kinds => Sends(kinds)
    BY <2>2 DEF Sends
  <2>6. \A i \in DOMAIN p : p[i].kind = "init" => i = 1
    BY DEF OwnerSide, PipeInv
  <2>7. ~Sends({"init"})'
    BY <2>1, <2>2, <2>3, <2>6 DEF Sends
  <2>8. \A i \in DOMAIN q : /\ q[i].kind = "init" => i = 1
                            /\ \A j \in DOMAIN q : i < j /\ q[i].kind \in Ends => q[j].kind \notin Begins
    BY <2>2, <2>3, <2>6 DEF OwnerSide, PipeInv
  <2>9. Saying' => Head(p).kind \in Ends
    BY <1>1 DEF Saying
  <2>10. Head(p).kind \in Ends => ~Sends(Begins)'
    BY <2>1, <2>2, <2>3 DEF OwnerSide, PipeInv, Sends
  <2>11. (Told' <=> Told) /\ (Said' <=> Said)
    BY <1>2, <2>1 DEF Told, Said
  <2>12. owner.phase \in {"starting", "running", "suspended", "resuming"} => ~Sends(Ends)' /\ ~Saying' /\ ~Said'
    BY <2>4, <2>5, <2>9, <2>11 DEF OwnerSide, PipeInv
  <2>13. owner.phase = "suspending" =>
            /\ ~(Sends(Ends)' /\ Saying') /\ ~(Sends(Ends)' /\ Said') /\ ~(Saying' /\ Said')
            /\ \A i, j \in DOMAIN q : q[i].kind \in Ends /\ q[j].kind \in Ends => i = j
            /\ Once("restored", records)
    <3> SUFFICES ASSUME owner.phase = "suspending"
                 PROVE  /\ ~(Sends(Ends)' /\ Saying') /\ ~(Sends(Ends)' /\ Said') /\ ~(Saying' /\ Said')
                        /\ \A i, j \in DOMAIN q : q[i].kind \in Ends /\ q[j].kind \in Ends => i = j
                        /\ Once("restored", records)
      OBVIOUS
    <3>1. /\ ~(Sends(Ends) /\ Said)
          /\ \A i, j \in DOMAIN p : p[i].kind \in Ends /\ p[j].kind \in Ends => i = j
          /\ Once("restored", records)
      BY DEF OwnerSide, PipeInv
    <3>2. ~(Sends(Ends)' /\ Saying')
      BY <2>1, <2>2, <2>3, <2>9, <3>1 DEF Sends
    <3>3. ~(Sends(Ends)' /\ Said') /\ ~(Saying' /\ Said')
      BY <2>4, <2>5, <2>9, <2>11, <3>1
    <3>4. \A i, j \in DOMAIN q : q[i].kind \in Ends /\ q[j].kind \in Ends => i = j
      BY <2>2, <2>3, <3>1
    <3> QED  BY <3>1, <3>2, <3>3, <3>4
  <2>14. Told' \/ Saying' => ~Sends(Begins)'
    BY <2>4, <2>9, <2>10, <2>11 DEF OwnerSide, PipeInv
  <2>15. PipeInv'
    BY <1>2, <2>1, <2>7, <2>8, <2>12, <2>13, <2>14 DEF PipeInv
  <2>16. QuietInv'
    <3> SUFFICES ASSUME Told \/ Away(writer') \/ writer'.code = "ok" PROVE Quiet'
      BY <2>11 DEF QuietInv
    <3>1. writer'.code # "ok"
      BY <1>1 DEF TerminalSide, ExitInv, Turns
    <3>2. Quiet
      BY <1>3, <3>1 DEF OwnerSide, QuietInv
    <3>3. ~Has(writer', "activate")
      <4>1. Told => Head(p).kind \notin Begins
        BY <2>5 DEF OwnerSide, PipeInv
      <4> QED  BY <1>1, <3>1, <4>1 DEF Away
    <3> QED  BY <1>1, <1>2, <3>2, <3>3 DEF Quiet, Clean, Turns
  <2> QED  BY <2>15, <2>16 DEF OwnerSide
<1> QED  BY <1>4, <1>5

\* A question, and what its answer makes of the writer.
LEMMA AsksOwner == ASSUME ModesInv, WriterAsks \/ WriterAnswered PROVE OwnerSide'
<1> USE DEF ModesInv, Inv, TypeInv
<1>1. UNCHANGED <<owner, records, guard, modes>>
  BY DEF WriterAsks, WriterAnswered
<1>2. (Said' <=> Said) /\ (Once("restored", records) => Once("restored", records')) /\ (Quiet => Clean')
  BY <1>1 DEF Said, Quiet, Clean
<1>3. ASSUME NEW x \in Steps, writer.plan # <<>>, Head(writer.plan) = x PROVE Has(writer, x)
  <2>1. 1 \in DOMAIN writer.plan /\ writer.plan[1] = x
    BY <1>3, TailParts DEF WriterType
  <2> QED  BY <2>1 DEF Has
<1>4. "activate" \in Steps
  BY StepNames
<1>5. CASE WriterAsks
  <2>1. PICK step \in Asks : Does(step) /\ request' = step
    BY <1>5 DEF WriterAsks
  <2>2. writer.plan # <<>> /\ Head(writer.plan) = step
    BY <2>1, DoesFits
  <2>3. /\ writer'.plan = writer.plan /\ writer'.active = writer.active /\ writer'.ext = writer.ext
        /\ writer'.await = writer.await /\ writer'.code = writer.code
    BY <1>5 DEF WriterAsks, WriterType
  <2>4. \A x : Has(writer', x) <=> Has(writer, x)
    BY <2>3 DEF Has
  <2>5. Quiet => Quiet'
    BY <1>1, <1>2, <1>3, <1>4, <2>1, <2>2, <2>3, <2>4 DEF Quiet
  <2>6. Sends({"init"}) => ~writer'.active /\ ~writer'.ext /\ ~Has(writer', "activate") /\ ~Has(writer', "stop")
    BY <2>3, <2>4 DEF OwnerSide, PipeInv
  <2>7. (Saying' => Saying) /\ (Away(writer') => Away(writer))
    BY <2>3, <2>4 DEF Saying, Away
  <2> QED  BY <1>1, <1>2, <2>3, <2>5, <2>6, <2>7, OwnerFrame
<1>6. CASE WriterAnswered
  <2> DEFINE step == Head(writer.plan)
  <2>1. /\ UNCHANGED request
        /\ writer'.code = writer.code /\ writer'.ext = writer.ext /\ writer'.await = writer.await
        /\ writer'.active = (IF answer = "ok" /\ step = "activate" THEN TRUE
                             ELSE IF answer = "ok" /\ step = "restore" THEN FALSE ELSE writer.active)
        /\ \A s \in {"activate", "stop", "restored"} : Has(writer', s) => Has(writer, s)
    BY <1>6, AnswerFits
  <2>2. writer.plan # <<>>
    BY <1>6 DEF WriterAnswered, Waits
  <2>3. writer'.active => writer.active \/ Has(writer, "activate")
    BY <1>3, <1>4, <2>1, <2>2
  <2> HIDE DEF step
  <2>4. Quiet => Quiet'
    BY <1>1, <1>2, <2>1, <2>3 DEF Quiet
  <2>5. Sends({"init"}) => ~writer'.active /\ ~writer'.ext /\ ~Has(writer', "activate") /\ ~Has(writer', "stop")
    BY <2>1, <2>3 DEF OwnerSide, PipeInv
  <2>6. (Saying' => Saying) /\ (Away(writer') => Away(writer))
    BY <2>1 DEF Saying, Away
  <2> QED  BY <1>1, <1>2, <2>1, <2>4, <2>5, <2>6, OwnerFrame
<1> QED  BY <1>5, <1>6

\* Signals and deaths, whatever the guard does to itself meanwhile.
LEMMA SignalOwner ==
    ASSUME ModesInv, UNCHANGED <<owner, records, modes>>, request' \in {request, "none"},
           guard'.active => ~Quiet \/ guard.active,
           \/ Same(writer, writer')
           \/ /\ writer'.plan = <<>> /\ writer'.code = "killed"
              /\ writer'.active = writer.active /\ writer'.ext = writer.ext /\ writer'.await = writer.await
    PROVE  OwnerSide'
<1>1. (Said' <=> Said) /\ (Once("restored", records) => Once("restored", records'))
  BY DEF Said
<1>2. \A x : Has(writer', x) => Has(writer, x)
  BY DEF Has, Same
<1>3. /\ writer'.active = writer.active /\ writer'.ext = writer.ext /\ writer'.await = writer.await
      /\ writer'.code = "ok" => writer.code = "ok"
  BY DEF Same
<1>4. Quiet => Quiet'
  BY <1>2, <1>3 DEF Quiet, Clean
<1>5. Sends({"init"}) => ~writer'.active /\ ~writer'.ext /\ ~Has(writer', "activate") /\ ~Has(writer', "stop")
  BY <1>2, <1>3 DEF ModesInv, OwnerSide, PipeInv
<1>6. (Saying' => Saying) /\ (Away(writer') => Away(writer))
  BY <1>2, <1>3 DEF Saying, Away
<1> QED  BY <1>1, <1>3, <1>4, <1>5, <1>6, OwnerFrame

\* The writer exits: with success only when it has restored.
LEMMA ExitsOwner == ASSUME ModesInv, WriterExits PROVE OwnerSide'
<1> USE DEF ModesInv, TerminalSide, Inv, TypeInv
<1>1. Does("exit") /\ writer' = Dead(writer, writer.result) /\ UNCHANGED <<owner, guard, request, modes>>
  BY DEF WriterExits
<1>2. Alive /\ ~writer.waiting /\ writer.plan # <<>> /\ Head(writer.plan) = "exit"
  BY <1>1, DoesFits
<1>3. /\ writer'.plan = <<>> /\ writer'.code = writer.result
      /\ writer'.active = writer.active /\ writer'.ext = writer.ext /\ writer'.await = writer.await
  <2>1. writer.result \in Codes
    BY DEF WriterType, Codes
  <2> QED  BY <1>1, <2>1, SignalsSame
<1>4. \A x : ~Has(writer', x)
  BY <1>3 DEF Has
<1>5. (Said' <=> Said) /\ (Once("restored", records) => Once("restored", records'))
  <2>1. records' = records \/ records' = Append(records, "failure")
    BY DEF WriterExits
  <2>2. records \in Seq(Tells \cup {"failure"}) /\ "failure" \in Tells \cup {"failure"}
    OBVIOUS
  <2>3. /\ "restored" \in ToSet(Append(records, "failure")) <=> "restored" \in ToSet(records)
        /\ Once("restored", records) => Once("restored", Append(records, "failure"))
    BY <2>2, AppendedRecord
  <2> QED  BY <2>1, <2>3 DEF Said
<1>6. writer.result = "ok" => Quiet
  <2> SUFFICES ASSUME writer.result = "ok" PROVE Quiet
    OBVIOUS
  <2>1. request = "none" /\ answer = "none" /\ ~Serves
    BY <1>2 DEF Handshake, Serves, Alive
  <2>2. ~guard.active /\ ~writer.active
    BY <1>2, <2>1 DEF ActiveInv
  <2>3. Clean
    BY <1>2, <2>2 DEF KnownInv, Good, Failed
  <2>4. ~Has(writer, "activate")
    <3>1. 1 \in DOMAIN writer.plan /\ writer.plan[1] = "exit"
      BY <1>2, TailParts DEF WriterType
    <3>2. Fits(writer)
      BY <1>2 DEF PlanInv
    <3> QED  BY <3>1, <3>2 DEF Fits, PlanShape, Has
  <2> QED  BY <2>1, <2>2, <2>3, <2>4 DEF Quiet
<1>7. Quiet => Quiet'
  BY <1>1, <1>3, <1>4 DEF Quiet, Clean
<1>8. Sends({"init"}) => ~writer'.active /\ ~writer'.ext /\ ~Has(writer', "activate") /\ ~Has(writer', "stop")
  BY <1>3, <1>4 DEF OwnerSide, PipeInv
<1>9. (Saying' => Saying) /\ (Away(writer') => Away(writer))
  BY <1>3, <1>4 DEF Saying, Away
<1> QED  BY <1>1, <1>3, <1>5, <1>6, <1>7, <1>8, <1>9, OwnerFrame

\* The guard touches an inactive tty for an activation alone.
LEMMA GuardOwner == ASSUME ModesInv, Guard PROVE OwnerSide'
<1> USE DEF ModesInv, TerminalSide, Inv, TypeInv
<1>1. Same(writer, writer) /\ Same(writer, Terminated(writer))
      /\ Terminated(writer) \in WriterType /\ Same(Terminated(writer), Continued(Terminated(writer)))
  <2>1. Terminated(writer) \in WriterType
    BY Signals DEF Kept
  <2> QED  BY <2>1, SignalsSame
<1>2. CASE GuardTop
  <2>1. CASE Reapable(writer, guard.stopping)
    <3>1. UNCHANGED <<owner, records, modes, request, writer>> /\ guard' = Restoring(guard, "final")
      BY <1>2, <2>1 DEF GuardTop
    <3>2. guard'.active = guard.active
      BY <3>1, RestoringScript DEF Restorations
    <3> QED  BY <1>1, <3>1, <3>2, SignalOwner
  <2>2. CASE ~Reapable(writer, guard.stopping)
    <3> DEFINE called == IF guard.term THEN Continued(Terminated(writer)) ELSE writer
               told == Signalled(called, guard.cell)
               since == IF guard.term THEN Stopping(guard.stopping) ELSE guard.stopping
    <3>1. /\ guard' = [guard EXCEPT !.term = FALSE, !.cell = "none", !.at = "poll", !.stopping = since]
          /\ writer' = (IF guard.stopping = "old" THEN Dead(told, "killed") ELSE told)
          /\ UNCHANGED <<owner, records, modes, request>>
      BY <1>2, <2>2 DEF GuardTop
    <3>2. guard'.active = guard.active
      <4> HIDE DEF since
      <4> QED  BY <3>1 DEF GuardType
    <3>3. guard.cell \in Cells /\ "killed" \in Codes
      BY DEF GuardType, Codes
    <3>4. called \in WriterType /\ Same(writer, called)
      <4>1. Continued(Terminated(writer)) \in WriterType
        BY <1>1, Signals DEF Kept
      <4> QED  BY <1>1, <4>1 DEF Same
    <3>5. told \in WriterType /\ Same(writer, told)
      <4> HIDE DEF called
      <4>1. told \in WriterType /\ Same(called, told)
        BY <3>3, <3>4, Signals, SignalsSame DEF Kept
      <4> QED  BY <3>4, <4>1 DEF Same
    <3>6. \/ Same(writer, writer')
          \/ /\ writer'.plan = <<>> /\ writer'.code = "killed"
             /\ writer'.active = writer.active /\ writer'.ext = writer.ext /\ writer'.await = writer.await
      <4> HIDE DEF told
      <4>1. LET v == Dead(told, "killed") IN
            /\ v.plan = <<>> /\ v.code = "killed"
            /\ v.active = told.active /\ v.ext = told.ext /\ v.await = told.await
        BY <3>3, <3>5, SignalsSame
      <4> QED  BY <3>1, <3>5, <4>1 DEF Same
    <3> QED  BY <3>1, <3>2, <3>6, SignalOwner
  <2> QED  BY <2>1, <2>2
<1>3. CASE GuardPoll
  <2> DEFINE gone == owner.closed /\ ~guard.gone
             told == IF gone THEN Continued(Terminated(writer)) ELSE writer
             since == IF gone THEN Stopping(guard.stopping) ELSE guard.stopping
             seen == [guard EXCEPT !.gone = owner.closed, !.stopping = since]
  <2>1. writer' = told /\ request' = "none" /\ UNCHANGED <<modes, owner, records>>
        /\ guard' = IF request # "none" THEN Serving(seen, request)
                    ELSE [seen EXCEPT !.at = "top", !.stopping = IF writer.at = "dead" THEN Stopping(@) ELSE @]
    BY <1>3 DEF GuardPoll
  <2>2. Same(writer, writer')
    BY <1>1, <2>1 DEF Same
  <2>3. seen \in GuardType /\ seen.active = guard.active
    <3>1. since \in {"no", "young", "old"} /\ owner.closed \in BOOLEAN
      BY StoppingType DEF GuardType, OwnerType
    <3> HIDE DEF since
    <3> QED  BY <3>1 DEF GuardType
  <2> HIDE DEF seen, told
  <2>4. request # "activate" => guard'.active = guard.active
    <3>1. CASE request = "none"
      BY <2>1, <2>3, <3>1 DEF GuardType
    <3>2. CASE request = "restore"
      BY <2>1, <2>3, <3>2, RestoringScript DEF Serving, Restorations
    <3>3. CASE request \notin {"none", "restore", "activate"}
      <4>1. request \in Asks \ Restorations
        BY <3>3 DEF Restorations, Asks
      <4> QED  BY <2>1, <2>3, <3>3, <4>1, ServingScript
    <3> QED  BY <3>1, <3>2, <3>3
  <2>5. Quiet => request # "activate"
    BY DEF Quiet
  <2> QED  BY <2>1, <2>2, <2>4, <2>5, SignalOwner
\* An inactive tty has no script, and no restoration of it fails.
<1>4. CASE GuardOperates
  <2>1. guard.active /\ UNCHANGED <<owner, records, request, writer>>
    BY <1>4 DEF GuardOperates, ScriptInv
  <2>2. ~Quiet
    BY <2>1 DEF Quiet
  <2>3. (Said' <=> Said) /\ (Once("restored", records) => Once("restored", records')) /\ (Saying' => Saying)
        /\ (Away(writer') => Away(writer))
    BY <2>1 DEF Said, Saying, Has, Away
  <2>4. Sends({"init"}) => ~writer'.active /\ ~writer'.ext /\ ~Has(writer', "activate") /\ ~Has(writer', "stop")
    BY <2>1 DEF OwnerSide, PipeInv, Has
  <2> QED  BY <2>1, <2>2, <2>3, <2>4, OwnerFrame
<1>5. CASE GuardAnswers \/ GuardExits
  <2>1. UNCHANGED <<owner, records, modes, request, writer>>
    BY <1>5 DEF GuardAnswers, GuardExits
  <2>2. guard'.active = Settled(guard).active
    <3>1. Settled(guard) \in GuardType
      BY Settles
    <3> DEFINE s == Settled(guard)
    <3>2. \/ \E since : guard' = [s EXCEPT !.at = "top", !.stopping = since]
          \/ \E code : guard' = [s EXCEPT !.at = "exited", !.code = code]
      BY <1>5 DEF GuardAnswers, GuardExits
    <3> HIDE DEF s
    <3>3. s \in GuardType
      BY <3>1 DEF s
    <3>4. guard'.active = s.active
      BY <3>2, <3>3 DEF GuardType
    <3> QED  BY <3>4 DEF s
  <2>3. ~guard.active => ~guard'.active
    <3>1. guard.at = "serving" /\ (~guard.active /\ guard.job \in Restorations => ~guard.failed)
      BY <1>5 DEF GuardAnswers, GuardExits, ScriptInv
    <3> QED  BY <2>2, <3>1, SettledFields
  <2> QED  BY <1>1, <2>1, <2>3, SignalOwner
<1> QED  BY <1>2, <1>3, <1>4, <1>5 DEF Guard

\* The clock, the shell, the terminal and the death of the writer.
LEMMA OutsideOwner ==
    ASSUME ModesInv,
           \/ GuardTimer \/ ShellStops \/ ShellContinues \/ Terminate \/ TerminalChanges \/ WriterDies
           \/ UNCHANGED vars
    PROVE  OwnerSide'
<1> USE DEF ModesInv, Inv, TypeInv
<1>1. UNCHANGED <<owner, records, modes, request>>
  BY DEF GuardTimer, ShellStops, ShellContinues, Terminate, TerminalChanges, WriterDies, vars
<1>2. guard'.active = guard.active
  <2>1. /\ [guard EXCEPT !.stopping = "old"].active = guard.active
        /\ [guard EXCEPT !.term = TRUE].active = guard.active
        /\ [guard EXCEPT !.cell = "tstp"].active = guard.active
        /\ [guard EXCEPT !.cell = "cont"].active = guard.active
    BY DEF GuardType
  <2>2. \/ guard' = guard
        \/ guard' = [guard EXCEPT !.stopping = "old"] \/ guard' = [guard EXCEPT !.term = TRUE]
        \/ guard' = [guard EXCEPT !.cell = "tstp"] \/ guard' = [guard EXCEPT !.cell = "cont"]
    BY DEF GuardTimer, ShellStops, ShellContinues, Terminate, TerminalChanges, WriterDies, vars
  <2> QED  BY <2>1, <2>2
<1>3. Same(writer, writer) /\ Same(writer, Terminated(writer)) /\ Same(writer, Continued(writer))
      /\ Same(writer, Signalled(writer, "tstp"))
  BY SignalsSame DEF Cells
<1>4. \/ Same(writer, writer')
      \/ /\ writer'.plan = <<>> /\ writer'.code = "killed"
         /\ writer'.active = writer.active /\ writer'.ext = writer.ext /\ writer'.await = writer.await
  <2>1. CASE WriterDies
    <3>1. "killed" \in Codes /\ writer' = Dead(writer, "killed")
      BY <2>1 DEF Codes, WriterDies
    <3> QED  BY <3>1, SignalsSame
  <2>2. CASE GuardTimer \/ ShellStops \/ ShellContinues \/ Terminate \/ TerminalChanges \/ UNCHANGED vars
    BY <1>3, <2>2 DEF GuardTimer, ShellStops, ShellContinues, Terminate, TerminalChanges, vars
  <2> QED  BY <2>1, <2>2
<1> QED  BY <1>1, <1>2, <1>4, SignalOwner

\* A step of the owner leaves the helper alone: it is told no more than before.
LEMMA OwnerActs ==
    ASSUME ModesInv, UNCHANGED <<modes, guard, writer, request>>, PipeInv', Told' => Told
    PROVE  OwnerSide'
<1>1. (Quiet' <=> Quiet) /\ (Away(writer') <=> Away(writer))
  BY DEF Quiet, Clean, Has, Away
<1>2. QuietInv'
  BY <1>1 DEF ModesInv, OwnerSide, QuietInv
<1> QED  BY <1>2 DEF OwnerSide

\* The owner sends a command: a suspension or the shutdown after nothing that
\* would begin, a resumption after nothing that was said.
LEMMA SendsOwner == ASSUME ModesInv, OwnerSends PROVE OwnerSide'
<1> USE DEF ModesInv, OwnerSide, Inv, TypeInv
<1> DEFINE p == owner.pipe
<1>1. UNCHANGED <<modes, guard, writer, request, records>>
  BY DEF OwnerSends
<1>2. (Said' <=> Said) /\ (Saying' <=> Saying) /\ (\A x : Has(writer', x) <=> Has(writer, x))
  BY <1>1 DEF Said, Saying, Has
<1>3. PICK command \in Commands, phase \in Phases :
        /\ owner'.pipe = Append(p, command) /\ owner'.phase = phase
        /\ \/ owner.phase = "running" /\ phase = "running" /\ command.kind \notin Ends \cup Begins
           \/ owner.phase = "running" /\ phase = "suspending" /\ command.kind = "suspend"
           \/ owner.phase = "suspended" /\ phase = "resuming" /\ command.kind = "resume"
           \/ phase = "closing" /\ command.kind = "shutdown"
  <2>1. ASSUME NEW command \in Commands
        PROVE  /\ Commanding(owner, command).pipe = Append(p, command) /\ Commanding(owner, command).phase = owner.phase
               /\ \A f \in Phases : /\ [Commanding(owner, command) EXCEPT !.phase = f].pipe = Append(p, command)
                                    /\ [Commanding(owner, command) EXCEPT !.phase = f].phase = f
    <3>1. Commanding(owner, command) \in OwnerType
      BY SendsCommand
    <3>2. Commanding(owner, command).pipe = Append(p, command) /\ Commanding(owner, command).phase = owner.phase
      BY DEF Commanding, OwnerType
    <3> QED  BY <3>1, <3>2 DEF OwnerType
  <2>2. {"running", "suspending", "resuming", "closing"} \subseteq Phases
    BY DEF Phases
  <2>3. CASE \E command \in {[kind |-> "draw"], [kind |-> "title"], [kind |-> "mouse", on |-> TRUE], [kind |-> "mouse", on |-> FALSE]} :
                owner.phase = "running" /\ owner' = Commanding(owner, command)
    <3>1. PICK command \in {[kind |-> "draw"], [kind |-> "title"], [kind |-> "mouse", on |-> TRUE], [kind |-> "mouse", on |-> FALSE]} :
                owner.phase = "running" /\ owner' = Commanding(owner, command)
      BY <2>3
    <3>2. command \in Commands /\ command.kind \notin Ends \cup Begins
      <4>1. /\ [kind |-> "draw"] \in Commands /\ [kind |-> "title"] \in Commands
            /\ [kind |-> "mouse", on |-> TRUE] \in Commands /\ [kind |-> "mouse", on |-> FALSE] \in Commands
        BY DEF Commands
      <4>2. command.kind \in {"draw", "title", "mouse"}
        OBVIOUS
      <4> QED  BY <4>1, <4>2 DEF Ends, Begins
    <3> QED  BY <2>1, <2>2, <3>1, <3>2
  <2>4. CASE owner.phase = "running" /\ owner' = [Commanding(owner, [kind |-> "suspend"]) EXCEPT !.phase = "suspending"]
    <3>1. [kind |-> "suspend"] \in Commands /\ [kind |-> "suspend"].kind = "suspend"
      BY DEF Commands
    <3> QED  BY <2>1, <2>2, <2>4, <3>1
  <2>5. CASE owner.phase = "suspended" /\ owner' = [Commanding(owner, [kind |-> "resume"]) EXCEPT !.phase = "resuming"]
    <3>1. [kind |-> "resume"] \in Commands /\ [kind |-> "resume"].kind = "resume"
      BY DEF Commands
    <3> QED  BY <2>1, <2>2, <2>5, <3>1
  <2>6. CASE owner' = [Commanding(owner, [kind |-> "shutdown"]) EXCEPT !.phase = "closing"]
    <3>1. [kind |-> "shutdown"] \in Commands /\ [kind |-> "shutdown"].kind = "shutdown"
      BY DEF Commands
    <3> QED  BY <2>1, <2>2, <2>6, <3>1
  <2> QED  BY <2>3, <2>4, <2>5, <2>6 DEF OwnerSends
<1> DEFINE q == Append(p, command)
<1>4. /\ \A i \in DOMAIN p : i \in Nat /\ i < Len(p) + 1 /\ i \in DOMAIN q /\ q[i] = p[i]
      /\ Len(p) + 1 \in DOMAIN q /\ q[Len(p) + 1] = command
      /\ \A i \in DOMAIN q : i \in Nat /\ (i = Len(p) + 1 \/ i \in DOMAIN p)
      /\ Len(p) \in Nat
  BY AppendParts, LenProperties DEF OwnerType
<1> HIDE DEF q
<1>5. owner'.pipe = q
  BY <1>3 DEF q
<1>6. \A kinds : Sends(kinds)' <=> Sends(kinds) \/ command.kind \in kinds
  BY <1>4, <1>5 DEF Sends
<1>7. Told' => Told
  BY <1>2, <1>3 DEF Told
<1>8. PipeInv'
  <2>1. command.kind # "init"
    BY <1>3 DEF Begins
  <2>2. \A i \in DOMAIN q : q[i].kind = "init" => i = 1
    BY <1>4, <2>1 DEF PipeInv
  <2>3. \A i, j \in DOMAIN q : i < j /\ q[i].kind \in Ends => q[j].kind \notin Begins
    <3> SUFFICES ASSUME NEW i \in DOMAIN q, NEW j \in DOMAIN q, i < j, q[i].kind \in Ends PROVE q[j].kind \notin Begins
      OBVIOUS
    <3>1. i \in DOMAIN p /\ q[i] = p[i]
      BY <1>4
    <3>2. CASE j \in DOMAIN p
      BY <1>4, <3>1, <3>2 DEF PipeInv
    <3>3. CASE j = Len(p) + 1
      <4>1. Sends(Ends)
        BY <3>1 DEF Sends
      <4>2. command.kind # "resume"
        BY <1>3, <4>1 DEF PipeInv
      <4> QED  BY <1>4, <2>1, <3>3, <4>2 DEF Begins
    <3> QED  BY <1>4, <3>2, <3>3
  <2>4. owner'.phase \in {"starting", "running", "suspended", "resuming"} => ~Sends(Ends)' /\ ~Saying' /\ ~Said'
    BY <1>2, <1>3, <1>6 DEF PipeInv, Ends
  <2>5. owner'.phase = "suspending" =>
            /\ ~(Sends(Ends)' /\ Saying') /\ ~(Sends(Ends)' /\ Said') /\ ~(Saying' /\ Said')
            /\ \A i, j \in DOMAIN q : q[i].kind \in Ends /\ q[j].kind \in Ends => i = j
            /\ Once("restored", records')
    <3> SUFFICES ASSUME owner'.phase = "suspending"
                 PROVE  /\ ~Saying /\ ~Said
                        /\ \A i, j \in DOMAIN q : q[i].kind \in Ends /\ q[j].kind \in Ends => i = j
                        /\ Once("restored", records)
      BY <1>1, <1>2
    <3>1. ~Sends(Ends) /\ ~Saying /\ ~Said
      BY <1>3 DEF PipeInv
    <3>2. \A i \in DOMAIN q : q[i].kind \in Ends => i = Len(p) + 1
      BY <1>4, <3>1 DEF Sends
    <3>3. Once("restored", records)
      BY <3>1 DEF Said, Once, ToSet
    <3> QED  BY <3>1, <3>2, <3>3
  <2>6. Told' \/ Saying' => ~Sends(Begins)'
    <3>1. command.kind \in Begins => ~Told' /\ ~Saying'
      BY <1>2, <1>3, <2>1 DEF Begins, Ends, PipeInv, Told
    <3> QED  BY <1>2, <1>6, <1>7, <3>1 DEF PipeInv
  <2>7. Sends({"init"})' => ~writer'.active /\ ~writer'.ext /\ ~Has(writer', "activate") /\ ~Has(writer', "stop")
    BY <1>1, <1>6, <2>1 DEF PipeInv
  <2> QED  BY <1>5, <2>2, <2>3, <2>4, <2>5, <2>6, <2>7 DEF PipeInv
<1> HIDE DEF ModesInv, OwnerSide
<1> QED  BY <1>1, <1>7, <1>8, OwnerActs

\* The owner hears a record, or closes.
LEMMA HearsOwner == ASSUME ModesInv, OwnerHears \/ OwnerCloses PROVE OwnerSide'
<1> USE DEF ModesInv, OwnerSide, Inv, TypeInv
<1> DEFINE p == owner.pipe
<1>1. UNCHANGED <<modes, guard, writer, request>>
  BY DEF OwnerHears, OwnerCloses
<1>2. (Saying' <=> Saying) /\ (\A x : Has(writer', x) <=> Has(writer, x))
  BY <1>1 DEF Saying, Has
<1>3. (Said' => Said) /\ (Once("restored", records) => Once("restored", records'))
  <2>1. records' = records \/ (records # <<>> /\ records' = Tail(records))
    BY DEF OwnerHears, OwnerCloses
  <2>2. records # <<>> => /\ "restored" \in ToSet(Tail(records)) => "restored" \in ToSet(records)
                          /\ Once("restored", records) => Once("restored", Tail(records))
    <3>1. records \in Seq(Tells \cup {"failure"})
      OBVIOUS
    <3> QED  BY <3>1, FirstRecord
  <2> QED  BY <2>1, <2>2 DEF Said
\* What it heard, and what becomes of the pipe.
<1>4. \/ owner'.pipe = p /\ owner'.phase = "over"
      \/ owner'.pipe = p /\ owner'.phase = "running" /\ owner.phase \in {"starting", "resuming"}
      \/ owner'.pipe = p /\ owner'.phase = "suspended" /\ owner.phase = "suspending" /\ Said /\ ~Said'
      \/ owner'.pipe = p /\ owner'.phase = "restored" /\ Said
      \/ owner'.pipe = Append(p, [kind |-> "resume"]) /\ owner'.phase = "resuming" /\ owner.phase = "running"
  <2>1. \A f \in Phases : [owner EXCEPT !.phase = f].pipe = p /\ [owner EXCEPT !.phase = f].phase = f
                          /\ [owner EXCEPT !.closed = TRUE, !.phase = f].pipe = p
                          /\ [owner EXCEPT !.closed = TRUE, !.phase = f].phase = f
    BY DEF OwnerType
  <2>2. {"running", "suspended", "restored", "resuming", "over"} \subseteq Phases
    BY DEF Phases
  <2>3. CASE OwnerCloses
    <3>1. owner' = [owner EXCEPT !.closed = TRUE, !.phase = "over"]
      BY <2>3 DEF OwnerCloses
    <3> QED  BY <2>1, <2>2, <3>1
  <2>4. CASE OwnerHears
    <3> DEFINE record == Head(records)
    <3>1. records # <<>> /\ owner' = Heard(owner, record) /\ records' = Tail(records)
      BY <2>4 DEF OwnerHears
    <3>2. /\ record \in ToSet(records)
          /\ Once("restored", records) /\ record = "restored" => "restored" \notin ToSet(Tail(records))
      <4>1. records \in Seq(Tells \cup {"failure"})
        OBVIOUS
      <4> QED  BY <3>1, <4>1, FirstRecord
    <3> HIDE DEF record
    <3>3. CASE record = "ready" /\ owner.phase \in {"starting", "resuming"}
      <4>1. owner' = [owner EXCEPT !.phase = "running"]
        BY <3>1, <3>3 DEF Heard
      <4> QED  BY <2>1, <2>2, <3>3, <4>1
    <3>4. CASE record = "restored" /\ owner.phase = "suspending"
      <4>1. owner' = [owner EXCEPT !.phase = "suspended"]
        BY <3>1, <3>4 DEF Heard
      <4>2. Once("restored", records)
        BY <3>4 DEF PipeInv
      <4>3. owner'.pipe = p /\ owner'.phase = "suspended"
        BY <2>1, <2>2, <4>1
      <4>4. Said /\ ~Said'
        BY <3>1, <3>2, <3>4, <4>2 DEF Said
      <4> QED  BY <3>4, <4>3, <4>4
    <3>5. CASE record = "restored" /\ owner.phase = "closing"
      <4>1. owner' = [owner EXCEPT !.phase = "restored"]
        BY <3>1, <3>5 DEF Heard
      <4> QED  BY <2>1, <2>2, <3>2, <3>5, <4>1 DEF Said
    <3>6. CASE record = "resume_needed" /\ owner.phase = "running"
      <4>1. owner' = [Commanding(owner, [kind |-> "resume"]) EXCEPT !.phase = "resuming"]
        BY <3>1, <3>6 DEF Heard
      <4>2. Commanding(owner, [kind |-> "resume"]) \in OwnerType
        <5>1. [kind |-> "resume"] \in Commands
          BY DEF Commands
        <5> QED  BY <5>1, SendsCommand
      <4>3. Commanding(owner, [kind |-> "resume"]).pipe = Append(p, [kind |-> "resume"])
        BY DEF Commanding, OwnerType
      <4>4. owner'.pipe = Commanding(owner, [kind |-> "resume"]).pipe /\ owner'.phase = "resuming"
        BY <4>1, <4>2 DEF OwnerType
      <4> QED  BY <3>6, <4>3, <4>4
    <3>7. CASE owner' = [owner EXCEPT !.closed = TRUE, !.phase = "over"]
      BY <2>1, <2>2, <3>7
    <3>8. \/ record = "ready" /\ owner.phase \in {"starting", "resuming"}
          \/ record = "restored" /\ owner.phase = "suspending"
          \/ record = "restored" /\ owner.phase = "closing"
          \/ record = "resume_needed" /\ owner.phase = "running"
          \/ owner' = [owner EXCEPT !.closed = TRUE, !.phase = "over"]
      BY <3>1 DEF Heard
    <3> QED  BY <3>3, <3>4, <3>5, <3>6, <3>7, <3>8
  <2> QED  BY <2>3, <2>4
<1>5. Told' => Told
  BY <1>3, <1>4 DEF Told
<1>6. CASE owner'.pipe = p
  <2>1. \A kinds : Sends(kinds)' <=> Sends(kinds)
    BY <1>6 DEF Sends
  <2>2. owner'.phase \in {"starting", "running", "suspended", "resuming"} => ~Sends(Ends) /\ ~Saying /\ ~Said'
    <3>1. CASE owner'.phase = "running" /\ owner.phase \in {"starting", "resuming"}
      BY <1>3, <3>1 DEF PipeInv
    <3>2. CASE owner'.phase = "suspended" /\ owner.phase = "suspending" /\ Said /\ ~Said'
      BY <3>2 DEF PipeInv
    <3>3. CASE owner'.phase = "resuming" /\ owner.phase = "running"
      BY <1>3, <3>3 DEF PipeInv
    <3> QED  BY <1>4, <3>1, <3>2, <3>3
  <2>3. owner'.phase # "suspending"
    BY <1>4
  <2>4. PipeInv'
    BY <1>1, <1>2, <1>5, <1>6, <2>1, <2>2, <2>3 DEF PipeInv
  <2> HIDE DEF ModesInv, OwnerSide
  <2> QED  BY <1>1, <1>5, <2>4, OwnerActs
<1>7. CASE owner'.pipe = Append(p, [kind |-> "resume"]) /\ owner'.phase = "resuming" /\ owner.phase = "running"
  <2> DEFINE command == [kind |-> "resume"]
             q == Append(p, command)
  <2>0. command \in Commands /\ command.kind = "resume"
    BY DEF Commands
  <2> HIDE DEF command
  <2>1. /\ \A i \in DOMAIN p : i \in Nat /\ i < Len(p) + 1 /\ i \in DOMAIN q /\ q[i] = p[i]
        /\ Len(p) + 1 \in DOMAIN q /\ q[Len(p) + 1] = command
        /\ \A i \in DOMAIN q : i \in Nat /\ (i = Len(p) + 1 \/ i \in DOMAIN p)
        /\ Len(p) \in Nat
    BY <2>0, AppendParts, LenProperties DEF OwnerType
  <2>2. owner'.pipe = q
    BY <1>7 DEF command
  <2> HIDE DEF q
  <2>3. ~Sends(Ends) /\ ~Saying /\ ~Said
    BY <1>7 DEF PipeInv
  <2>4. \A i \in DOMAIN q : q[i].kind \notin Ends /\ (q[i].kind = "init" => i = 1)
    BY <2>0, <2>1, <2>3 DEF Sends, PipeInv, Ends
  <2>5. ~Sends(Ends)' /\ (Sends({"init"})' => Sends({"init"}))
    BY <2>0, <2>1, <2>2, <2>4 DEF Sends
  <2>6. ~Told'
    BY <1>3, <1>7, <2>3 DEF Told
  <2>7. PipeInv'
    BY <1>1, <1>2, <1>3, <1>7, <2>2, <2>3, <2>4, <2>5, <2>6 DEF PipeInv
  <2> HIDE DEF ModesInv, OwnerSide
  <2> QED  BY <1>1, <1>5, <2>7, OwnerActs
<1> QED  BY <1>4, <1>6, <1>7

LEMMA OwnerSideStep == ASSUME ModesInv, [Next]_vars PROVE OwnerSide'
<1>1. CASE Writer
  BY <1>1, TopAndWritesOwner, TellsOwner, PollOwner, AsksOwner, ExitsOwner DEF Writer
<1>2. CASE Guard
  BY <1>2, GuardOwner
<1>3. CASE GuardTimer \/ Outside \/ UNCHANGED vars
  BY <1>3, OutsideOwner, SendsOwner, HearsOwner DEF Outside, Ended
<1> QED  BY <1>1, <1>2, <1>3 DEF Next

-----------------------------------------------------------------------------
(* The theorems.                                                           *)

LEMMA InitModes == Init => TerminalSide /\ OwnerSide
<1> SUFFICES ASSUME Init PROVE TerminalSide /\ OwnerSide
  OBVIOUS
<1>1. PICK s \in Scenarios :
        owner = [phase |-> "starting", pipe |-> <<[kind |-> "init", flags |-> s.flags]>>, closed |-> FALSE]
  BY DEF Init
<1>2. modes = {} /\ terminal = "reads" /\ request = "none" /\ answer = "none" /\ records = <<>>
  BY DEF Init
<1>3. guard.at = "top" /\ guard.job = "none" /\ guard.script = <<>> /\ guard.active = FALSE /\ guard.code = "none"
  BY DEF Init
<1>4. /\ writer.at = "top" /\ writer.plan = <<>> /\ writer.waiting = FALSE /\ writer.active = FALSE
      /\ writer.ext = FALSE /\ writer.await = FALSE /\ writer.ending = FALSE /\ writer.result = "ok"
      /\ writer.code = "none"
  BY DEF Init
<1>5. PlanInv
  BY <1>4, ShortPlans DEF PlanInv, Fits, HeadFits, Away
<1>6. AskedInv /\ ScriptInv /\ CookedInv /\ ExitInv
  BY <1>2, <1>3, <1>4 DEF AskedInv, ScriptInv, CookedInv, ExitInv, Alive, Serves
<1>7. ActiveInv /\ KnownInv
  BY <1>2, <1>3, <1>4 DEF ActiveInv, KnownInv, Alive, Serves, Clean
<1>8. \A x : ~Has(writer, x)
  BY <1>4 DEF Has
<1>9. ~Saying /\ ~Said /\ ~Told
  BY <1>1, <1>2, <1>8 DEF Saying, Said, Told, ToSet
<1>10. DOMAIN owner.pipe = {1} /\ owner.pipe[1].kind = "init"
  BY <1>1
<1>11. PipeInv
  <2>1. ~Sends(Ends)
    BY <1>10 DEF Sends, Ends
  <2> QED  BY <1>1, <1>4, <1>8, <1>9, <1>10, <2>1 DEF PipeInv
<1>12. QuietInv
  BY <1>4, <1>9 DEF QuietInv, Away
<1> QED  BY <1>5, <1>6, <1>7, <1>11, <1>12 DEF TerminalSide, OwnerSide

\* The agreement of the terminal, the guard, the writer and the owner.
THEOREM ModesInvariant == Spec => []ModesInv
<1>1. Init => ModesInv
  BY InitInv, InitModes DEF ModesInv
<1>2. ModesInv /\ [Next]_vars => ModesInv'
  <2> SUFFICES ASSUME ModesInv, [Next]_vars, Inv' PROVE ModesInv'
    BY InvStep DEF ModesInv
  <2> QED  BY TerminalSideStep, OwnerSideStep DEF ModesInv
<1> QED  BY <1>1, <1>2, PTL DEF Spec

\* While somebody else has the terminal, because the owner was told Restored or
\* the shell stopped the helper, nothing of the helper is left in it but its
\* title (session.rs:242, session.rs:457): Quiet, which QuietInv has of all those
\* states, says that nothing is under way there either.
THEOREM TerminalHandedBack == Spec => []HandedBack
<1>1. ModesInv => HandedBack
  BY DEF ModesInv, OwnerSide, QuietInv, Told, Said, Away, Quiet, Clean, HandedBack
<1> QED  BY <1>1, ModesInvariant, PTL

\* A helper that exits with success left the terminal as it found it, but for its
\* title; and one that exits at all left it cooked, unless the terminal is gone
\* (guard.rs:193, tty.rs:200).
THEOREM TerminalExitAsFound == Spec => []ExitAsFound
<1>1. ModesInv => ExitAsFound
  <2> SUFFICES ASSUME ModesInv, guard.at = "exited"
               PROVE  /\ guard.code = "ok" => modes \subseteq {"title"}
                      /\ terminal # "gone" => {"raw", "nonblock"} \cap modes = {}
    BY DEF ExitAsFound
  <2>1. guard.code = "ok" => modes \subseteq {"title"}
    BY DEF ModesInv, TerminalSide, ExitInv, OwnerSide, QuietInv, Quiet, Clean
  <2>2. terminal # "gone" => Cooking \cap modes = {}
    BY DEF ModesInv, TerminalSide, CookedInv
  <2> QED  BY <2>1, <2>2 DEF Cooking
<1> QED  BY <1>1, ModesInvariant, PTL
==============================================================================
