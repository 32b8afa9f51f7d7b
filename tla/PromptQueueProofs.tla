------------------------- MODULE PromptQueueProofs -------------------------
(***************************************************************************)
(* No accepted prompt is lost, for any number of prompts, retries, faults, *)
(* stops and kills.  Where a prompt is depends on the step the handler is  *)
(* in, so NothingLost is not inductive alone: Phase says which step may    *)
(* have a prompt in hand, held or on its way back, and Kept that what is   *)
(* being stored again was stored, taken or is still to be stored, so that  *)
(* the copy in memory or in the journal may be forgotten afterwards.       *)
(* That prompts start in the order in which they were accepted (InLine)    *)
(* rests on the order of everything that waits (Order), and, for handlers  *)
(* that raise, on what they have stored again (Recalled).                  *)
(* That the queue is never left asleep (NeverStranded) rests on the        *)
(* messages its entry still answers to (Awake).                            *)
(***************************************************************************)
EXTENDS PromptQueue, SequenceTheorems, FiniteSetTheorems, TLAPS

Counters == spent \in [{"faults", "sends", "chains", "stops", "gens"} -> Nat]

Storing == {"store", "stow", "settle"}

\* An entry as TypeOK describes it, when n turns have begun.
Entry(n) ==
  [gen : Nat, watching : SUBSET (1 .. n), retries : 0 .. MaxRetries,
   timer : {"none", "armed", "due"}, held : Seq(Prompts)]

Lists == {stored, journal, todo, hand, again} \subseteq Seq(Prompts)
Flags == {deleted, here, paused, lifted} \subseteq BOOLEAN
Turns == turn \in [no : Nat, run : {"none", "running", "ended"}] /\ (Live => turn.no > 0)
Entries == entry \in Entry(turn.no) /\ Len(entry.held) <= 1
History ==
  /\ issued \in 0 .. MaxPrompts /\ starts \in [Prompts -> Nat]
  /\ settled \subseteq Prompts /\ forgotten \subseteq Prompts /\ repeated \subseteq Prompts

Phase ==
  /\ life \in {"up", "stopping", "starting", "down"}
  /\ at \in {"idle", "activate", "check", "store", "pop", "start", "putback",
             "journal", "stow", "settle"}
  /\ hand # <<>> <=> at \in {"start", "putback"}
  /\ Len(hand) <= 1
  /\ at = "store" => todo # <<>> /\ Len(todo) <= 1
  /\ at = "stow" => todo # <<>>
  /\ at = "journal" => journal \o entry.held # <<>>
  /\ todo # <<>> => at \in Storing
  /\ entry.held # <<>> => at \in Storing \cup {"idle", "activate", "check", "journal"}
  /\ entry.timer # "none" => at \in {"idle", "activate", "journal", "stow", "settle"}
  /\ life = "down" => at = "idle" /\ entry.held = <<>>
  /\ Len(again) <= 1
  /\ again # <<>> => at \in {"check", "pop", "start", "putback"} /\ entry.held = <<>>

TypeInv == Lists /\ Flags /\ Turns /\ Entries /\ History /\ Counters /\ Phase

Owed == ToSet(entry.held) \cup (IF at = "store" THEN {} ELSE ToSet(journal))

Kept ==
  at \in Storing /\ ~deleted => Owed \subseteq ToSet(todo) \cup ToSet(stored) \cup settled

Inv == TypeInv /\ Kept /\ NothingLost

-----------------------------------------------------------------------------
(* The prompts of a sequence.                                              *)

LEMMA SetOfNone == ToSet(<<>>) = {}
BY DEF ToSet

LEMMA InSet ==
  ASSUME NEW S, NEW s \in Seq(S), NEW i \in 1 .. Len(s)
  PROVE  s[i] \in ToSet(s)
BY DEF ToSet

LEMMA SetOfOne ==
  ASSUME NEW S, NEW x \in S
  PROVE  <<x>> \in Seq(S) /\ Len(<<x>>) = 1 /\ ToSet(<<x>>) = {x}
BY DEF ToSet

\* The prompts of two sequences, one after the other.
LEMMA SetOfConcat ==
  ASSUME NEW S, NEW s \in Seq(S), NEW t \in Seq(S)
  PROVE  s \o t \in Seq(S) /\ ToSet(s \o t) = ToSet(s) \cup ToSet(t)
<1>1. /\ s \o t \in Seq(S) /\ Len(s \o t) = Len(s) + Len(t)
      /\ \A i \in 1 .. Len(s) + Len(t) :
           (s \o t)[i] = IF i <= Len(s) THEN s[i] ELSE t[i - Len(s)]
  BY ConcatProperties
<1>2. ToSet(s \o t) \subseteq ToSet(s) \cup ToSet(t)
  BY <1>1 DEF ToSet
<1>3. ToSet(s) \subseteq ToSet(s \o t)
  BY <1>1 DEF ToSet
<1>4. ToSet(t) \subseteq ToSet(s \o t)
  <2> SUFFICES ASSUME NEW j \in 1 .. Len(t)
               PROVE  t[j] \in ToSet(s \o t)
    BY DEF ToSet
  <2>1. Len(s) + j \in 1 .. Len(s \o t) /\ (s \o t)[Len(s) + j] = t[j]
    BY <1>1
  <2>2. (s \o t)[Len(s) + j] \in ToSet(s \o t)
    BY <2>1, <1>1, InSet
  <2> QED  BY <2>1, <2>2
<1> QED  BY <1>1, <1>2, <1>3, <1>4

LEMMA SetOfCons ==
  ASSUME NEW S, NEW s \in Seq(S), NEW x \in S
  PROVE  <<x>> \o s \in Seq(S) /\ ToSet(<<x>> \o s) = {x} \cup ToSet(s)
<1> DEFINE t == <<x>>
<1>1. t \in Seq(S) /\ ToSet(t) = {x}
  BY SetOfOne
<1> HIDE DEF t
<1>2. t \o s \in Seq(S) /\ ToSet(t \o s) = ToSet(t) \cup ToSet(s)
  BY <1>1, SetOfConcat
<1>3. t \o s \in Seq(S) /\ ToSet(t \o s) = {x} \cup ToSet(s)
  BY <1>1, <1>2
<1> QED  BY <1>3 DEF t

LEMMA SetOfAppend ==
  ASSUME NEW S, NEW s \in Seq(S), NEW x \in S
  PROVE  Append(s, x) \in Seq(S) /\ ToSet(Append(s, x)) = ToSet(s) \cup {x}
<1>1. Append(s, x) = s \o <<x>>
  BY AppendIsConcat
<1>2. <<x>> \in Seq(S) /\ ToSet(<<x>>) = {x}
  BY SetOfOne
<1> HIDE DEF ToSet
<1>3. s \o <<x>> \in Seq(S) /\ ToSet(s \o <<x>>) = ToSet(s) \cup ToSet(<<x>>)
  BY <1>2, SetOfConcat
<1> QED  BY <1>1, <1>2, <1>3

\* Taking the first prompt off leaves the others.
LEMMA SetOfHead ==
  ASSUME NEW S, NEW s \in Seq(S), s # <<>>
  PROVE  /\ Head(s) \in S /\ Tail(s) \in Seq(S)
         /\ ToSet(s) = {Head(s)} \cup ToSet(Tail(s))
<1>1. /\ Head(s) \in S /\ Tail(s) \in Seq(S) /\ Len(Tail(s)) = Len(s) - 1
      /\ \A i \in 1 .. Len(Tail(s)) : Tail(s)[i] = s[i + 1]
  BY HeadTailProperties
<1>2. Len(s) >= 1 /\ Head(s) = s[1]
  OBVIOUS
<1>3. ToSet(s) \subseteq {Head(s)} \cup ToSet(Tail(s))
  <2> SUFFICES ASSUME NEW j \in 1 .. Len(s), j # 1
               PROVE  s[j] \in ToSet(Tail(s))
    BY <1>2 DEF ToSet
  <2>1. j - 1 \in 1 .. Len(Tail(s)) /\ Tail(s)[j - 1] = s[j]
    BY <1>1
  <2>2. Tail(s)[j - 1] \in ToSet(Tail(s))
    BY <2>1, <1>1, InSet
  <2> QED  BY <2>1, <2>2
<1>4. ToSet(Tail(s)) \subseteq ToSet(s)
  BY <1>1 DEF ToSet
<1> QED  BY <1>1, <1>2, <1>3, <1>4 DEF ToSet

\* Taking the last prompt off leaves the others.
LEMMA SetOfLast ==
  ASSUME NEW S, NEW s \in Seq(S), s # <<>>
  PROVE  /\ Last(s) \in S /\ Front(s) \in Seq(S) /\ Len(Front(s)) = Len(s) - 1
         /\ ToSet(s) = {Last(s)} \cup ToSet(Front(s))
<1>1. Len(s) \in Nat \ {0} /\ Last(s) = s[Len(s)]
  BY DEF Last
<1>2. /\ Front(s) \in Seq(S) /\ Len(Front(s)) = Len(s) - 1
      /\ \A i \in 1 .. Len(s) - 1 : Front(s)[i] = s[i]
  <2>1. \A i \in 1 .. Len(s) - 1 : s[i] \in S
    BY <1>1, ElementOfSeq
  <2>2. Front(s) = SubSeq(s, 1, Len(s) - 1)
    BY DEF Front
  <2> DEFINE n == Len(s) - 1
  <2>3. n \in Int /\ 1 \in Int /\ \A i \in 1 .. n : s[i] \in S
    BY <1>1, <2>1
  <2> HIDE DEF n
  <2>4. /\ SubSeq(s, 1, n) \in Seq(S) /\ Len(SubSeq(s, 1, n)) = IF 1 <= n THEN n - 1 + 1 ELSE 0
        /\ \A i \in 1 .. n - 1 + 1 : SubSeq(s, 1, n)[i] = s[1 + i - 1]
    BY <2>3, SubSeqProperties
  <2>5. n >= 0
    BY <1>1 DEF n
  <2>6. n - 1 + 1 = n /\ \A i \in 1 .. n : 1 + i - 1 = i
    BY <2>3
  <2>7. /\ Front(s) \in Seq(S) /\ Len(Front(s)) = n
        /\ \A i \in 1 .. n : Front(s)[i] = s[i]
    <3>1. Len(SubSeq(s, 1, n)) = n
      BY <2>3, <2>4, <2>5, <2>6
    <3>2. \A i \in 1 .. n : SubSeq(s, 1, n)[i] = s[i]
      BY <2>3, <2>4, <2>6
    <3>3. Front(s) = SubSeq(s, 1, n)
      BY <2>2 DEF n
    <3> QED  BY <2>4, <3>1, <3>2, <3>3
  <2> QED  BY <2>7 DEF n
<1>3. ToSet(s) = {Last(s)} \cup ToSet(Front(s))
  BY <1>1, <1>2 DEF ToSet
<1> QED  BY <1>1, <1>2, <1>3

Upto(s, i) == SubSeq(s, 1, i - 1)
After(s, i) == SubSeq(s, i + 1, Len(s))

\* What taking an element out leaves: the elements before it and those after it.
LEMMA RemoveAtParts ==
  ASSUME NEW S, NEW s \in Seq(S), NEW i \in DOMAIN s
  PROVE  /\ Upto(s, i) \in Seq(S) /\ After(s, i) \in Seq(S)
         /\ RemoveAt(s, i) = Upto(s, i) \o After(s, i) /\ i \in 1 .. Len(s) /\ s[i] \in S
         /\ Len(Upto(s, i)) = i - 1 /\ \A j \in 1 .. i - 1 : Upto(s, i)[j] = s[j]
         /\ Len(After(s, i)) = Len(s) - i
         /\ \A j \in 1 .. Len(s) - i : After(s, i)[j] = s[i + j]
<1> DEFINE a == SubSeq(s, 1, i - 1)
           b == SubSeq(s, i + 1, Len(s))
<1>1. i \in 1 .. Len(s) /\ RemoveAt(s, i) = a \o b
  BY DEF RemoveAt
<1>2. a \in Seq(S) /\ Len(a) = i - 1 /\ \A j \in 1 .. i - 1 : a[j] = s[j]
  BY <1>1
<1>3. b \in Seq(S) /\ Len(b) = Len(s) - i /\ \A j \in 1 .. Len(s) - i : b[j] = s[i + j]
  <2>1. \A j \in i + 1 .. Len(s) : s[j] \in S
    BY <1>1, ElementOfSeq
  <2> DEFINE m == i + 1
             n == Len(s)
  <2>2. /\ m \in Int /\ n \in Int /\ i \in Int /\ m <= n + 1
        /\ n - m + 1 = n - i /\ \A j \in 1 .. n - i : m + j - 1 = i + j
    BY <1>1
  <2>3. \A j \in m .. n : s[j] \in S
    BY <2>1
  <2> HIDE DEF m, n
  <2>4. /\ SubSeq(s, m, n) \in Seq(S)
        /\ Len(SubSeq(s, m, n)) = IF m <= n THEN n - m + 1 ELSE 0
        /\ \A j \in 1 .. n - m + 1 : SubSeq(s, m, n)[j] = s[m + j - 1]
    BY <2>2, <2>3, SubSeqProperties
  <2>5. Len(SubSeq(s, m, n)) = n - i
    BY <2>2, <2>4
  <2>6. \A j \in 1 .. n - i : SubSeq(s, m, n)[j] = s[i + j]
    BY <2>2, <2>4
  <2>7. b = SubSeq(s, m, n) /\ n = Len(s)
    BY DEF m, n
  <2> QED  BY <2>4, <2>5, <2>6, <2>7
<1>4. s[i] \in S
  BY <1>1, ElementOfSeq
<1> QED  BY <1>1, <1>2, <1>3, <1>4 DEF Upto, After

\* Taking a prompt out leaves the others.
LEMMA SetOfRemoveAt ==
  ASSUME NEW S, NEW s \in Seq(S), NEW i \in DOMAIN s
  PROVE  /\ s[i] \in S /\ RemoveAt(s, i) \in Seq(S)
         /\ ToSet(s) \subseteq ToSet(RemoveAt(s, i)) \cup {s[i]}
<1> DEFINE a == Upto(s, i)
           b == After(s, i)
<1>0. /\ a \in Seq(S) /\ b \in Seq(S)
      /\ RemoveAt(s, i) = a \o b /\ i \in 1 .. Len(s) /\ s[i] \in S
      /\ Len(a) = i - 1 /\ \A j \in 1 .. i - 1 : a[j] = s[j]
      /\ Len(b) = Len(s) - i /\ \A j \in 1 .. Len(s) - i : b[j] = s[i + j]
  BY RemoveAtParts
<1> HIDE DEF a, b
<1>1. i \in 1 .. Len(s) /\ RemoveAt(s, i) = a \o b
  BY <1>0
<1>2. Len(a) = i - 1 /\ \A j \in 1 .. i - 1 : a[j] = s[j]
  BY <1>0
<1>3. Len(b) = Len(s) - i /\ \A j \in 1 .. Len(s) - i : b[j] = s[i + j]
  BY <1>0
<1>4. RemoveAt(s, i) \in Seq(S) /\ ToSet(RemoveAt(s, i)) = ToSet(a) \cup ToSet(b)
  BY <1>1, <1>0, SetOfConcat
<1>5. ASSUME NEW j \in 1 .. Len(s), j # i
      PROVE  s[j] \in ToSet(a) \cup ToSet(b)
  <2>1. CASE j < i
    <3>1. j \in 1 .. Len(a) /\ a[j] = s[j]
      BY <2>1, <1>1, <1>2
    <3>2. a[j] \in ToSet(a)
      BY <3>1, <1>0, InSet
    <3> QED  BY <3>1, <3>2
  <2>2. CASE j > i
    <3>0. j - i \in 1 .. Len(s) - i /\ i + (j - i) = j
      BY <2>2, <1>1
    <3>1. j - i \in 1 .. Len(b) /\ b[j - i] = s[j]
      BY <3>0, <1>3
    <3>2. b[j - i] \in ToSet(b)
      BY <3>1, <1>0, InSet
    <3> QED  BY <3>1, <3>2
  <2> QED  BY <2>1, <2>2, <1>5, <1>1
<1>6. ToSet(s) \subseteq ToSet(RemoveAt(s, i)) \cup {s[i]}
  <2>1. ASSUME NEW x \in ToSet(s)
        PROVE  \E j \in 1 .. Len(s) : x = s[j]
    BY DEF ToSet
  <2> QED  BY <2>1, <1>4, <1>5
<1> QED  BY <1>0, <1>4, <1>6

-----------------------------------------------------------------------------
(* Entries.                                                                *)

LEMMA NoEntryType == \A n \in Nat : NoEntry \in Entry(n)
<1>1. MaxRetries \in Nat
  BY PromptBounds
<1> QED  BY <1>1, EmptySeq DEF Entry, NoEntry

LEMMA NoEntryHeld == NoEntry.held = <<>> /\ NoEntry.timer = "none"
BY DEF NoEntry

With(e, r, t) == [e EXCEPT !.retries = r, !.timer = t]

LEMMA AnyEntry ==
  ASSUME NEW n \in Nat, NEW e \in Entry(n), NEW r \in 0 .. MaxRetries,
         NEW t \in {"none", "armed", "due"}
  PROVE  With(e, r, t) \in Entry(n) /\ With(e, r, t).held = e.held /\ With(e, r, t).timer = t
<1> DEFINE W == SUBSET (1 .. n)
           T == {"none", "armed", "due"}
           N == 0 .. MaxRetries
           H == Seq(Prompts)
<1>1. e \in [gen : Nat, watching : W, retries : N, timer : T, held : H]
  BY DEF Entry
<1>2. r \in N /\ t \in T
  OBVIOUS
<1>3. Entry(n) = [gen : Nat, watching : W, retries : N, timer : T, held : H]
  BY DEF Entry
<1> HIDE DEF W, T, N, H
<1>4. /\ [e EXCEPT !.retries = r, !.timer = t]
           \in [gen : Nat, watching : W, retries : N, timer : T, held : H]
      /\ [e EXCEPT !.retries = r, !.timer = t].held = e.held
      /\ [e EXCEPT !.retries = r, !.timer = t].timer = t
  BY <1>1, <1>2
<1> QED  BY <1>3, <1>4 DEF With

\* Later turns do not change what an entry may be.
LEMMA EntryGrows ==
  ASSUME NEW n \in Nat, NEW e \in Entry(n)
  PROVE  e \in Entry(n + 1)
BY DEF Entry

\* Looking after a turn, or sending the backend a message, keeps what is held.
LEMMA WatchedEntry ==
  ASSUME NEW n \in Nat, NEW e \in Entry(n), turn.no = n, Live => n > 0, Watched(e)
  PROVE  entry' \in Entry(n) /\ entry'.held = e.held /\ entry'.timer = e.timer
<1>1. CASE Live
  BY <1>1 DEF Watched, Entry
<1>2. CASE ~Live
  BY <1>2 DEF Watched
<1> QED  BY <1>1, <1>2

LEMMA RemovedEntry ==
  ASSUME NEW n \in Nat, Removed
  PROVE  entry' \in Entry(n) /\ entry'.held = <<>> /\ entry'.timer = "none"
BY NoEntryType, NoEntryHeld DEF Removed

\* A failed attempt keeps what is held: an entry that holds a prompt is not removed.
LEMMA RetriedEntry ==
  ASSUME NEW n \in Nat, NEW e \in Entry(n), Retried(e)
  PROVE  entry' \in Entry(n) /\ entry'.held = e.held
<1>0. MaxRetries \in Nat
  BY PromptBounds
<1>1. CASE e.retries < MaxRetries /\ entry' = [e EXCEPT !.retries = @ + 1, !.timer = "armed"]
  <2>1. e.retries + 1 \in 0 .. MaxRetries
    BY <1>0, <1>1 DEF Entry
  <2>2. "armed" \in {"none", "armed", "due"}
    OBVIOUS
  <2>3. entry' = With(e, e.retries + 1, "armed")
    BY <1>1 DEF With
  <2> QED  BY <2>1, <2>2, <2>3, AnyEntry
<1>2. CASE entry' = [e EXCEPT !.timer = "armed"]
  BY <1>2 DEF Entry
<1>3. CASE e.held = <<>> /\ Removed
  BY <1>3, RemovedEntry
<1> QED  BY <1>1, <1>2, <1>3 DEF Retried

LEMMA ResetEntry ==
  ASSUME NEW n \in Nat, NEW e \in Entry(n)
  PROVE  Reset(e) \in Entry(n) /\ Reset(e).held = e.held /\ Reset(e).timer = "none"
<1>1. 0 \in 0 .. MaxRetries
  BY PromptBounds
<1>2. Reset(e) = With(e, 0, "none")
  BY DEF Reset, With
<1>3. "none" \in {"none", "armed", "due"}
  OBVIOUS
<1> QED  BY <1>1, <1>2, <1>3, AnyEntry

Holding(e, h) == [e EXCEPT !.held = h]

\* What an entry holds may be replaced by prompts.
LEMMA HeldEntry ==
  ASSUME NEW n \in Nat, NEW e \in Entry(n), NEW h \in Seq(Prompts)
  PROVE  Holding(e, h) \in Entry(n) /\ Holding(e, h).held = h /\ Holding(e, h).timer = e.timer
BY DEF Entry, Holding

LEMMA SpendCounters ==
  ASSUME Counters, NEW w \in {"faults", "sends", "chains", "stops", "gens"}, NEW b, Spend(w, b)
  PROVE  Counters'
BY DEF Counters, Spend

-----------------------------------------------------------------------------
(* The types and the phases are inductive.                                 *)

LEMMA InitTypes == Init => TypeInv
<1> SUFFICES ASSUME Init PROVE TypeInv
  OBVIOUS
<1>1. Lists /\ Flags
  BY EmptySeq DEF Init, Lists, Flags
<1>2. Turns /\ Entries
  BY NoEntryType, NoEntryHeld DEF Init, Turns, Entries, NoTurn, Live
<1>3. History /\ Counters
  BY PromptBounds DEF Init, History, Counters
<1>4. Phase
  BY NoEntryHeld DEF Init, Phase
<1> QED  BY <1>1, <1>2, <1>3, <1>4 DEF TypeInv

LEMMA TypesImplyTypeOK == TypeInv => TypeOK
BY DEF TypeInv, Lists, Flags, Turns, Entries, History, Phase, TypeOK, Entry

\* What a backend that comes up or goes down has.
LEMMA ComesTypes ==
  ASSUME TypeInv, NEW next \in {"up", "down"}, Comes(next), turn' = turn
  PROVE  /\ Entries' /\ Phase' /\ todo' = <<>> /\ hand' = <<>> /\ again' = <<>>
         /\ entry'.held = <<>> /\ paused' = FALSE /\ lifted' = FALSE
<1>1. entry' \in Entry(turn.no)' /\ entry'.held = <<>> /\ entry'.timer = "none"
  BY NoEntryType, NoEntryHeld DEF Comes, TypeInv, Turns
<1>2. Entries'
  BY <1>1 DEF Entries
<1>3. Phase'
  BY <1>1 DEF Comes, Phase
<1> QED  BY <1>1, <1>2, <1>3 DEF Comes

LEMMA ActivateEntry ==
  ASSUME TypeInv, Activate
  PROVE  Entries' /\ Counters' /\ (entry'.held = entry.held \/ entry'.held = <<>>)
<1>1. turn.no \in Nat /\ entry \in Entry(turn.no) /\ (Live => turn.no > 0)
  BY DEF TypeInv, Turns, Entries
<1>2. CASE Watched(entry) /\ UNCHANGED spent
  BY <1>1, <1>2, WatchedEntry DEF Entries, TypeInv, Counters, Activate
<1>3. ASSUME NEW gen \in Nat, Watched([NoEntry EXCEPT !.gen = gen]),
             spent' = [spent EXCEPT !.gens = gen]
      PROVE  Entries' /\ Counters' /\ entry'.held = <<>>
  <2>1. [NoEntry EXCEPT !.gen = gen] \in Entry(turn.no) /\ [NoEntry EXCEPT !.gen = gen].held = <<>>
    BY <1>1, NoEntryType DEF Entry, NoEntry
  <2>2. entry' \in Entry(turn.no) /\ entry'.held = <<>>
    BY <1>1, <1>3, <2>1, WatchedEntry
  <2>3. Counters'
    BY <1>3 DEF TypeInv, Counters
  <2>4. turn' = turn
    BY DEF Activate
  <2>5. Len(entry'.held) <= 1
    BY <2>2
  <2> QED  BY <2>2, <2>3, <2>4, <2>5 DEF Entries
<1>4. CASE Removed /\ UNCHANGED spent
  BY <1>1, <1>4, RemovedEntry DEF Entries, TypeInv, Counters, Activate
<1>5. spent.gens + 1 \in Nat
  BY DEF TypeInv, Counters
<1> QED  BY <1>2, <1>3, <1>4, <1>5 DEF Activate

LEMMA ActivateTypes == TypeInv /\ Activate => TypeInv'
<1> SUFFICES ASSUME TypeInv, Activate PROVE TypeInv'
  OBVIOUS
<1>1. Entries' /\ Counters' /\ (entry'.held = entry.held \/ entry'.held = <<>>)
  BY ActivateEntry
<1>2. Lists' /\ Flags' /\ Turns' /\ History'
  BY DEF TypeInv, Lists, Flags, Turns, History, Activate, disk, work, history, Live
<1>3. Phase'
  BY <1>1 DEF TypeInv, Phase, Storing, Activate, disk, work, history
<1> QED  BY <1>1, <1>2, <1>3 DEF TypeInv

LEMMA RequeuedLists ==
  ASSUME NEW p \in Prompts, stored \in Seq(Prompts), Requeued(p)
  PROVE  /\ stored' \in Seq(Prompts) /\ ToSet(stored') = {p} \cup ToSet(stored)
         /\ journal' = journal /\ deleted' = deleted /\ ~deleted
BY SetOfCons DEF Requeued

\* What a handler has stored again is remembered until it ends.
LEMMA Remembered ==
  ASSUME TypeInv, Remembers
  PROVE  /\ again' \in Seq(Prompts) /\ Len(again') <= 1
         /\ again' # <<>> => again' = again /\ at' # "idle"
BY EmptySeq DEF TypeInv, Lists, Phase, Remembers

LEMMA CheckTypes == TypeInv /\ Check => TypeInv'
<1> SUFFICES ASSUME TypeInv, Check PROVE TypeInv'
  OBVIOUS
<1>1. Entries' /\ entry'.held = entry.held /\ entry'.timer = entry.timer
  BY WatchedEntry DEF TypeInv, Turns, Entries, Check, At
<1>0. /\ again' \in Seq(Prompts) /\ Len(again') <= 1
      /\ again' # <<>> => again' = again /\ at' # "idle"
  BY Remembered DEF Check
<1>2. Lists' /\ Flags' /\ Turns'
  BY <1>0 DEF TypeInv, Lists, Flags, Turns, Entries, Entry, Check, At, disk, Live
<1>3. History' /\ Counters'
  BY DEF TypeInv, History, Counters, Check, At
<1>4. Phase'
  BY <1>0, <1>1 DEF TypeInv, Entries, Phase, Storing, Check, At, disk
<1> QED  BY <1>1, <1>2, <1>3, <1>4 DEF TypeInv

LEMMA StoreHeldTypes == TypeInv /\ StoreHeld => TypeInv'
<1> SUFFICES ASSUME TypeInv, StoreHeld PROVE TypeInv'
  OBVIOUS
<1>1. /\ at = "store" /\ todo \in Seq(Prompts) /\ todo # <<>> /\ Len(todo) <= 1
      /\ stored \in Seq(Prompts) /\ journal \in Seq(Prompts)
      /\ entry \in Entry(turn.no) /\ turn.no \in Nat /\ turn' = turn
  BY DEF TypeInv, Phase, Lists, Entries, Turns, StoreHeld, At
<1>2. Last(todo) \in Prompts /\ Front(todo) \in Seq(Prompts) /\ Len(Front(todo)) = Len(todo) - 1
  BY <1>1, SetOfLast
<1>3. Flags' /\ Turns' /\ History'
  <2>1. (Requeued(Last(todo)) \/ UNCHANGED disk) => deleted' = deleted
    BY DEF Requeued, disk
  <2> QED  BY <2>1 DEF TypeInv, Flags, Turns, History, Live, StoreHeld, At
<1>4. CASE /\ Requeued(Last(todo)) \/ (deleted /\ UNCHANGED disk)
           /\ todo' = IF deleted THEN <<>> ELSE Front(todo)
           /\ IF todo' = <<>>
              THEN at' = "pop" /\ entry' = Reset([entry EXCEPT !.held = <<>>]) /\ again' = entry.held
              ELSE UNCHANGED <<at, entry, again>>
           /\ UNCHANGED <<inbox, spent>>
  <2>1. stored' \in Seq(Prompts) /\ journal' = journal
    BY <1>1, <1>2, <1>4, RequeuedLists DEF disk
  <2>2. todo' = <<>>
    BY <1>1, <1>2, <1>4, EmptySeq
  <2>3. entry' \in Entry(turn.no) /\ entry'.held = <<>> /\ entry'.timer = "none"
    <3>1. entry' = Reset(Holding(entry, <<>>))
      BY <1>4, <2>2 DEF Holding
    <3>2. Holding(entry, <<>>) \in Entry(turn.no) /\ Holding(entry, <<>>).held = <<>>
      <4>1. \A h \in Seq(Prompts) :
               Holding(entry, h) \in Entry(turn.no) /\ Holding(entry, h).held = h
        BY <1>1, HeldEntry
      <4> QED  BY <4>1, EmptySeq
    <3> QED  BY <1>1, <3>1, <3>2, ResetEntry
  <2>0. /\ spent' = spent /\ at' = "pop" /\ hand' = hand /\ again' = entry.held
        /\ entry.held \in Seq(Prompts) /\ Len(entry.held) <= 1
    BY <1>4, <2>2 DEF StoreHeld, TypeInv, Entries, Entry
  <2>4. Lists' /\ Entries' /\ Counters'
    BY <1>1, <2>0, <2>1, <2>2, <2>3, EmptySeq DEF TypeInv, Lists, Entries, Counters
  <2>5. Phase'
    BY <1>1, <2>0, <2>2, <2>3 DEF TypeInv, Phase, StoreHeld, At
  <2> QED  BY <1>3, <2>4, <2>5 DEF TypeInv
<1>5. CASE /\ Fault /\ Retried([entry EXCEPT !.held = todo])
           /\ todo' = <<>> /\ at' = "idle" /\ UNCHANGED <<disk, again>>
  <2>1. entry' \in Entry(turn.no) /\ entry'.held = todo
    <3>1. Retried(Holding(entry, todo))
      BY <1>5 DEF Holding
    <3>2. Holding(entry, todo) \in Entry(turn.no) /\ Holding(entry, todo).held = todo
      BY <1>1, HeldEntry
    <3>3. \A e \in Entry(turn.no) : Retried(e) => entry' \in Entry(turn.no) /\ entry'.held = e.held
      BY <1>1, RetriedEntry
    <3> QED  BY <3>1, <3>2, <3>3
  <2>2. Lists' /\ Entries'
    BY <1>1, <1>5, <2>1, EmptySeq DEF TypeInv, Lists, Entries, StoreHeld, disk
  <2>3. Counters'
    BY <1>5, SpendCounters DEF TypeInv, Fault
  <2>4. Phase'
    BY <1>1, <1>5, <2>1 DEF TypeInv, Phase, StoreHeld, At
  <2> QED  BY <1>3, <2>2, <2>3, <2>4 DEF TypeInv
<1> QED  BY <1>4, <1>5 DEF StoreHeld

LEMMA PopTypes == TypeInv /\ Pop => TypeInv'
<1> SUFFICES ASSUME TypeInv, Pop PROVE TypeInv'
  OBVIOUS
<1>1. /\ at = "pop" /\ stored \in Seq(Prompts) /\ entry.held = <<>>
      /\ entry \in Entry(turn.no) /\ turn.no \in Nat /\ turn' = turn
  BY DEF TypeInv, Phase, Storing, Lists, Entries, Turns, Pop, At
<1>2. Flags' /\ Turns' /\ History'
  BY DEF TypeInv, Flags, Turns, History, Live, Pop, At
<1>0. /\ again' \in Seq(Prompts) /\ Len(again') <= 1
      /\ again' # <<>> => again' = again /\ at' # "idle"
  BY Remembered DEF Pop
<1>3. CASE /\ ~deleted /\ stored # <<>>
           /\ hand' = <<Head(stored)>> /\ stored' = Tail(stored) /\ at' = "start"
           /\ UNCHANGED <<entry, inbox, spent>>
  <2>1. Head(stored) \in Prompts /\ stored' \in Seq(Prompts)
    BY <1>1, <1>3, SetOfHead
  <2>2. hand' \in Seq(Prompts) /\ Len(hand') = 1 /\ hand' # <<>>
    BY <2>1, <1>3, SetOfOne, EmptySeq
  <2>3. Lists' /\ Entries' /\ Counters'
    BY <1>0, <1>1, <1>3, <2>1, <2>2 DEF TypeInv, Lists, Entries, Counters, Pop
  <2>4. Phase'
    BY <1>0, <1>1, <1>3, <2>2 DEF TypeInv, Phase, Storing, Pop, At
  <2> QED  BY <1>2, <2>3, <2>4 DEF TypeInv
<1>4. CASE Removed /\ at' = "idle" /\ UNCHANGED <<stored, hand, spent>>
  <2>1. entry' \in Entry(turn.no) /\ entry'.held = <<>> /\ entry'.timer = "none"
    BY <1>1, <1>4, RemovedEntry
  <2>2. Lists' /\ Entries' /\ Counters'
    BY <1>0, <1>1, <1>4, <2>1 DEF TypeInv, Lists, Entries, Counters, Pop
  <2>3. Phase'
    BY <1>0, <1>1, <1>4, <2>1 DEF TypeInv, Phase, Storing, Pop, At
  <2> QED  BY <1>2, <2>2, <2>3 DEF TypeInv
<1>5. CASE Fault /\ Retried(entry) /\ at' = "idle" /\ UNCHANGED <<stored, hand>>
  <2>1. entry' \in Entry(turn.no) /\ entry'.held = <<>>
    BY <1>1, <1>5, RetriedEntry
  <2>2. Lists' /\ Entries'
    BY <1>0, <1>1, <1>5, <2>1 DEF TypeInv, Lists, Entries, Pop
  <2>3. Counters'
    BY <1>5, SpendCounters DEF TypeInv, Fault
  <2>4. Phase'
    BY <1>0, <1>1, <1>5, <2>1 DEF TypeInv, Phase, Storing, Pop, At
  <2> QED  BY <1>2, <2>2, <2>3, <2>4 DEF TypeInv
<1> QED  BY <1>3, <1>4, <1>5 DEF Pop

\* A turn begins: what the entry looks after is still a turn that has begun.
LEMMA BeginsTypes ==
  ASSUME Turns, NEW e \in Entry(turn.no), Begins
  PROVE  Turns' /\ e \in Entry(turn'.no)
<1>1. turn.no \in Nat /\ turn' = [no |-> turn.no + 1, run |-> "running"]
  BY DEF Turns, Begins
<1>2. turn'.no = turn.no + 1 /\ Turns'
  BY <1>1 DEF Turns, Live
<1>3. e \in Entry(turn.no + 1)
  BY <1>1, EntryGrows
<1> QED  BY <1>2, <1>3

LEMMA StartTypes == TypeInv /\ Start => TypeInv'
<1> SUFFICES ASSUME TypeInv, Start PROVE TypeInv'
  OBVIOUS
<1> DEFINE p == Head(hand)
<1>1. /\ at = "start" /\ hand \in Seq(Prompts) /\ hand # <<>> /\ entry.held = <<>>
      /\ entry.timer = "none" /\ entry \in Entry(turn.no) /\ turn.no \in Nat /\ Turns
      /\ life # "down"
  BY DEF TypeInv, Phase, Storing, Lists, Entries, Turns, Start
<1>2. p \in Prompts
  BY <1>1, SetOfHead
<1>3. Flags'
  BY DEF TypeInv, Flags, Start, disk
<1>0. /\ again' \in Seq(Prompts) /\ Len(again') <= 1
      /\ again' # <<>> => again' = again /\ at' # "idle"
  BY Remembered DEF Start
<1>4. CASE /\ Begins \/ UNCHANGED turn
           /\ starts' = [starts EXCEPT ![p] = @ + 1]
           /\ hand' = <<>> /\ entry' = Reset(entry) /\ at' = "check"
           /\ UNCHANGED <<settled, spent>>
  <2>1. Reset(entry) \in Entry(turn.no) /\ entry'.held = <<>> /\ entry'.timer = "none"
    BY <1>1, <1>4, ResetEntry
  <2>2. Turns' /\ entry' \in Entry(turn'.no)
    BY <1>1, <1>4, <2>1, BeginsTypes DEF Turns, Live
  <2>3. Lists' /\ Entries' /\ Counters'
    BY <1>0, <1>4, <2>1, <2>2, EmptySeq DEF TypeInv, Lists, Entries, Counters, Start, disk
  <2>4. History'
    BY <1>2, <1>4 DEF TypeInv, History, Start
  <2>5. Phase'
    BY <1>0, <1>1, <1>4, <2>1 DEF TypeInv, Phase, Storing, Start, disk
  <2> QED  BY <1>3, <2>2, <2>3, <2>4, <2>5 DEF TypeInv
<1>5. CASE /\ settled' = settled \cup {p}
           /\ hand' = <<>> /\ at' = "check" /\ UNCHANGED <<turn, starts, entry, spent>>
  <2>1. Lists' /\ Entries' /\ Counters' /\ Turns'
    BY <1>0, <1>1, <1>5, EmptySeq DEF TypeInv, Lists, Entries, Counters, Turns, Live, Start, disk
  <2>2. History'
    BY <1>2, <1>5 DEF TypeInv, History, Start
  <2>3. Phase'
    BY <1>0, <1>1, <1>5 DEF TypeInv, Phase, Storing, Start, disk
  <2> QED  BY <1>3, <2>1, <2>2, <2>3 DEF TypeInv
<1>6. CASE /\ Fault \/ UNCHANGED spent
           /\ at' = "putback" /\ UNCHANGED <<turn, starts, settled, hand, entry>>
  <2>1. Counters'
    BY <1>6, SpendCounters DEF TypeInv, Fault, Counters
  <2>2. Lists' /\ Entries' /\ Turns' /\ History'
    BY <1>0, <1>6 DEF TypeInv, Lists, Entries, Turns, Live, History, Start, disk
  <2>3. Phase'
    BY <1>0, <1>1, <1>6 DEF TypeInv, Phase, Storing, Start, disk
  <2> QED  BY <1>3, <2>1, <2>2, <2>3 DEF TypeInv
<1> QED  BY <1>4, <1>5, <1>6 DEF Start

LEMMA PutBackTypes == TypeInv /\ PutBack => TypeInv'
<1> SUFFICES ASSUME TypeInv, PutBack PROVE TypeInv'
  OBVIOUS
<1>1. /\ at = "putback" /\ hand \in Seq(Prompts) /\ hand # <<>> /\ Len(hand) <= 1
      /\ stored \in Seq(Prompts) /\ journal \in Seq(Prompts)
      /\ entry.held = <<>> /\ entry.timer = "none" /\ entry \in Entry(turn.no)
      /\ turn.no \in Nat /\ turn' = turn /\ at' = "idle" /\ hand' = <<>> /\ life # "down"
  BY DEF TypeInv, Phase, Storing, Lists, Entries, Turns, PutBack, At
<1>2. Head(hand) \in Prompts
  BY <1>1, SetOfHead
<1>3. \A e \in Entry(turn.no) : Retried(e) => entry' \in Entry(turn.no) /\ entry'.held = e.held
  BY <1>1, RetriedEntry
<1>4. /\ stored' \in Seq(Prompts) /\ journal' \in Seq(Prompts) /\ deleted' = deleted
      /\ entry' \in Entry(turn.no) /\ Len(entry'.held) <= 1 /\ Counters'
  <2>1. CASE Requeued(Head(hand)) /\ Retried(entry) /\ UNCHANGED spent
    <3>1. stored' \in Seq(Prompts) /\ journal' = journal /\ deleted' = deleted
      BY <1>1, <1>2, <2>1, RequeuedLists
    <3>2. entry' \in Entry(turn.no) /\ entry'.held = <<>>
      BY <1>1, <1>3, <2>1
    <3> QED  BY <1>1, <2>1, <3>1, <3>2 DEF TypeInv, Counters
  <2>2. CASE Removed /\ UNCHANGED <<disk, spent>>
    <3>1. entry' \in Entry(turn.no) /\ entry'.held = <<>>
      BY <1>1, <2>2, RemovedEntry
    <3> QED  BY <1>1, <2>2, <3>1 DEF TypeInv, Counters, disk
  <2>3. CASE Fault /\ Retried([entry EXCEPT !.held = @ \o hand]) /\ UNCHANGED disk
    <3>1. Retried(Holding(entry, entry.held \o hand))
      BY <2>3 DEF Holding
    <3>2. entry.held \o hand = hand
      BY <1>1, ConcatEmptySeq
    <3>3. Holding(entry, hand) \in Entry(turn.no) /\ Holding(entry, hand).held = hand
      BY <1>1, HeldEntry
    <3>4. entry' \in Entry(turn.no) /\ entry'.held = hand
      BY <1>3, <3>1, <3>2, <3>3
    <3>5. Counters'
      BY <2>3, SpendCounters DEF TypeInv, Fault
    <3> QED  BY <1>1, <2>3, <3>4, <3>5 DEF disk
  <2> QED  BY <2>1, <2>2, <2>3 DEF PutBack
<1>5. Lists' /\ Flags' /\ Entries'
  BY <1>1, <1>4, EmptySeq DEF TypeInv, Lists, Flags, Entries, PutBack, At
<1>6. Turns' /\ History'
  BY <1>1 DEF TypeInv, Turns, Live, History, PutBack, At
<1>7. Phase'
  BY <1>1 DEF TypeInv, Phase, Storing, PutBack, At
<1> QED  BY <1>4, <1>5, <1>6, <1>7 DEF TypeInv

LEMMA ReceiveTypes == TypeInv /\ Receive => TypeInv'
<1> SUFFICES ASSUME TypeInv, Receive PROVE TypeInv'
  OBVIOUS
<1> USE DEF TypeInv
<1>1. /\ at = "idle" /\ life = "up" /\ entry \in Entry(turn.no) /\ turn.no \in Nat
      /\ turn' = turn /\ todo' = todo /\ hand' = hand /\ life' = life /\ todo = <<>> /\ hand = <<>>
      /\ again = <<>> /\ again' = <<>>
      /\ Len(entry.held) <= 1
  BY DEF Receive, Idle, Phase, Storing, Entries, Turns, work
<1>2. /\ entry' \in Entry(turn.no) /\ entry'.held = entry.held
      /\ at' \in {"idle", "activate"} \/ (at' = "check" /\ entry'.timer = "none")
  <2> DEFINE m == Head(inbox)
             n == turn.no
  <2>0. n \in Nat /\ entry \in Entry(n)
    BY <1>1
  <2>1. CASE UNCHANGED entry /\ at' \in {"idle", "activate"}
    BY <1>1, <2>1
  <2>2. CASE UNCHANGED entry /\ Due(m.gen) /\ at' = "check"
    BY <1>1, <2>2 DEF Due
  <2>3. CASE at' = "check" /\ entry' = [entry EXCEPT !.timer = "none"]
    <3> HIDE DEF n
    <3>1. entry' \in Entry(n) /\ entry'.held = entry.held /\ entry'.timer = "none"
      BY <2>0, <2>3 DEF Entry
    <3> QED  BY <2>3, <3>1 DEF n
  <2>4. CASE /\ entry' = [entry EXCEPT !.watching = @ \ {m.turn}]
             /\ at' = IF entry.timer = "none" THEN "check" ELSE "idle"
    <3> HIDE DEF n
    <3>1. entry' \in Entry(n) /\ entry'.held = entry.held /\ entry'.timer = entry.timer
      BY <2>0, <2>4 DEF Entry
    <3> QED  BY <2>4, <3>1 DEF n
  <2> QED  BY <1>1, <2>1, <2>2, <2>3, <2>4 DEF Receive, Idle
<1>3. Entries'
  BY <1>1, <1>2 DEF Entries
<1>4. Lists' /\ Flags' /\ Turns' /\ History' /\ Counters'
  BY DEF Receive, Lists, Flags, Turns, Live, History, Counters, disk, work, history
<1>5. Phase'
  BY <1>1, <1>2 DEF Phase, Storing
<1> QED  BY <1>3, <1>4, <1>5

LEMMA TimerFiresTypes == TypeInv /\ TimerFires => TypeInv'
<1> SUFFICES ASSUME TypeInv, TimerFires PROVE TypeInv'
  OBVIOUS
<1> USE DEF TypeInv
<1>1. entry' \in Entry(turn.no) /\ entry'.held = entry.held /\ entry'.timer = "due"
  <2> DEFINE n == turn.no
  <2>1. entry \in Entry(n) /\ entry' = [entry EXCEPT !.timer = "due"]
    BY DEF Entries, TimerFires
  <2> HIDE DEF n
  <2>2. entry' \in Entry(n) /\ entry'.held = entry.held /\ entry'.timer = "due"
    BY <2>1 DEF Entry
  <2> QED  BY <2>2 DEF n
<1>2. Lists' /\ Flags' /\ Turns' /\ History' /\ Counters'
  BY DEF TimerFires, Lists, Flags, Turns, Live, History, Counters, disk, work, history
<1>3. Entries'
  BY <1>1 DEF Entries, TimerFires
<1>4. Phase'
  BY <1>1 DEF Phase, TimerFires, disk, work
<1> QED  BY <1>2, <1>3, <1>4

LEMMA TurnTypes == TypeInv /\ Turn => TypeInv'
<1> SUFFICES ASSUME TypeInv, Turn PROVE TypeInv'
  OBVIOUS
<1> USE DEF TypeInv
<1>1. CASE TurnEnds \/ TurnUnregistered
  <2>1. turn'.no = turn.no /\ entry' = entry /\ Turns'
    BY <1>1 DEF TurnEnds, TurnUnregistered, Turns, Live, memory
  <2>2. Lists' /\ Flags' /\ Entries' /\ History' /\ Counters' /\ Phase'
    BY <1>1, <2>1 DEF TurnEnds, TurnUnregistered, Lists, Flags, Entries, History, Counters,
                      Phase, disk, memory, work, history
  <2> QED  BY <2>1, <2>2
<1>2. CASE ChainGoesOn
  <2>1. entry' = entry /\ Turns' /\ entry' \in Entry(turn'.no)
    BY <1>2, BeginsTypes DEF ChainGoesOn, Entries
  <2>2. Counters'
    BY <1>2, SpendCounters DEF ChainGoesOn
  <2>3. Lists' /\ Flags' /\ Entries' /\ History' /\ Phase'
    BY <1>2, <2>1 DEF ChainGoesOn, Lists, Flags, Entries, History, Phase, disk, work, history
  <2> QED  BY <2>1, <2>2, <2>3
<1> QED  BY <1>1, <1>2 DEF Turn

LEMMA AcceptLists ==
  ASSUME TypeInv, Accept
  PROVE  /\ stored' \in Seq(Prompts) /\ ToSet(stored') = ToSet(stored) \cup {issued + 1}
         /\ journal' = journal /\ deleted' = deleted
         /\ issued' = issued + 1 /\ issued' \in 0 .. MaxPrompts /\ issued \in Nat
<1>1. /\ issued \in Nat /\ MaxPrompts \in Nat /\ issued < MaxPrompts /\ stored \in Seq(Prompts)
      /\ stored' = Append(stored, issued + 1)
  BY PromptBounds DEF TypeInv, History, Lists, Accept
<1>2. issued + 1 \in Prompts
  BY <1>1 DEF Prompts
<1>3. stored' \in Seq(Prompts) /\ ToSet(stored') = ToSet(stored) \cup {issued + 1}
  BY <1>1, <1>2, SetOfAppend
<1> QED  BY <1>1, <1>3 DEF Accept

LEMMA WithoutLists ==
  ASSUME TypeInv, NEW i \in DOMAIN stored, Without(i)
  PROVE  /\ stored' \in Seq(Prompts) /\ settled' \subseteq Prompts
         /\ settled \subseteq settled' /\ ToSet(stored) \subseteq ToSet(stored') \cup settled'
<1>1. stored \in Seq(Prompts) /\ settled \subseteq Prompts
  BY DEF TypeInv, Lists, History
<1>2. /\ stored[i] \in Prompts /\ RemoveAt(stored, i) \in Seq(Prompts)
      /\ ToSet(stored) \subseteq ToSet(RemoveAt(stored, i)) \cup {stored[i]}
  BY <1>1, SetOfRemoveAt
<1> QED  BY <1>1, <1>2 DEF Without

LEMMA UserTypes == TypeInv /\ User => TypeInv'
<1> SUFFICES ASSUME TypeInv, User PROVE TypeInv'
  OBVIOUS
<1> USE DEF TypeInv
<1>0. /\ at = "idle" /\ life = "up" /\ entry' = entry /\ life' = life /\ UNCHANGED work
      /\ at' \in {"idle", "activate"}
  BY DEF User, Enqueue, Send, StopTurn, ResumeQueue, EditQueue, Switch, Command, Idle
<1>1. /\ todo = <<>> /\ hand = <<>> /\ todo' = todo /\ hand' = hand
      /\ again = <<>> /\ again' = again
  BY <1>0 DEF Phase, Storing, work
<1>2. Phase'
  BY <1>0, <1>1 DEF Phase, Storing
<1>3. CASE Enqueue
  <2>1. Lists' /\ History'
    BY <1>3, <1>1, AcceptLists DEF Enqueue, Command, Lists, History, history
  <2>2. Flags' /\ Turns' /\ Entries' /\ Counters'
    BY <1>3, <1>0, AcceptLists
       DEF Enqueue, Command, Flags, Turns, Live, Entries, Counters, history
  <2> QED  BY <1>2, <2>1, <2>2
<1>4. CASE Send
  <2>1. Counters'
    BY <1>4, SpendCounters DEF Send
  <2>2. Turns' /\ Entries'
    BY <1>4, <1>0, BeginsTypes DEF Send, Entries
  <2>3. Lists' /\ Flags' /\ History'
    BY <1>4, <1>1 DEF Send, Command, Lists, Flags, History, disk, history
  <2> QED  BY <1>2, <2>1, <2>2, <2>3
<1>5. CASE StopTurn \/ ResumeQueue \/ Switch
  BY <1>5, <1>0, <1>1, <1>2
     DEF StopTurn, ResumeQueue, Switch, Command, Lists, Flags, Turns, Live, Entries, History,
         Counters, disk, history
<1>6. CASE EditQueue
  <2>1. Lists' /\ History'
    BY <1>6, <1>1, WithoutLists DEF EditQueue, Lists, History
  <2>2. Flags' /\ Turns' /\ Entries' /\ Counters'
    BY <1>6, <1>0 DEF EditQueue, Flags, Turns, Live, Entries, Counters
  <2> QED  BY <1>2, <2>1, <2>2
<1> QED  BY <1>3, <1>4, <1>5, <1>6 DEF User

LEMMA OtherWindowTypes == TypeInv /\ OtherWindow => TypeInv'
<1> SUFFICES ASSUME TypeInv, OtherWindow PROVE TypeInv'
  OBVIOUS
<1> USE DEF TypeInv
<1>1. /\ stored' \in Seq(Prompts) /\ journal' = journal /\ deleted' \in BOOLEAN
      /\ settled' \subseteq Prompts /\ issued' \in 0 .. MaxPrompts
  <2>1. CASE Accept /\ UNCHANGED settled
    BY <2>1, AcceptLists DEF Flags, History
  <2>2. CASE /\ \E i \in DOMAIN stored : Without(i)
             /\ UNCHANGED <<journal, deleted, issued>>
    BY <2>2, WithoutLists DEF Flags, History
  <2>3. CASE deleted' = TRUE /\ UNCHANGED <<stored, journal, settled, issued>>
    BY <2>3 DEF Lists, History
  <2> QED  BY <2>1, <2>2, <2>3 DEF OtherWindow
<1>2. Lists' /\ Flags' /\ Turns' /\ Entries' /\ History' /\ Counters'
  BY <1>1 DEF OtherWindow, Lists, Flags, Turns, Live, Entries, History, Counters, memory, work
<1>3. Phase'
  BY <1>1 DEF OtherWindow, Phase, memory, work
<1> QED  BY <1>2, <1>3

\* A backend that stops hands over what it held, or has nothing left.
LEMMA HandsOverTypes ==
  ASSUME TypeInv, NEW held \in Seq(Prompts), Len(held) <= 1, HandsOver(held)
  PROVE  /\ Lists' /\ Flags' /\ Turns' /\ Entries' /\ Counters' /\ Phase'
         /\ entry'.held = held /\ hand' = <<>> /\ todo' = <<>> /\ again' = <<>>
         /\ at' \in {"idle", "journal"} /\ life' # "up" /\ inbox' = <<>>
         /\ UNCHANGED <<stored, journal, deleted, starts, settled, issued>>
<1>1. Counters' /\ turn' = turn /\ UNCHANGED <<stored, journal, deleted, here, starts, settled, issued>>
  BY SpendCounters DEF HandsOver, TypeInv, disk
<1>2. Turns'
  BY <1>1 DEF TypeInv, Turns, Live
<1>3. CASE held = <<>> /\ Comes("down")
  <2>1. /\ Entries' /\ Phase' /\ todo' = <<>> /\ hand' = <<>> /\ again' = <<>>
        /\ entry'.held = <<>> /\ paused' = FALSE /\ lifted' = FALSE
    BY <1>1, <1>3, ComesTypes
  <2>2. Lists' /\ Flags'
    BY <1>1, <2>1, EmptySeq DEF TypeInv, Lists, Flags
  <2> QED  BY <1>1, <1>2, <1>3, <2>1, <2>2 DEF Comes
<1>4. CASE /\ held # <<>> /\ life' = "stopping" /\ at' = "journal" /\ inbox' = <<>>
           /\ entry' = [entry EXCEPT !.held = held] /\ hand' = <<>> /\ todo' = <<>> /\ again' = <<>>
           /\ UNCHANGED <<paused, lifted>>
  <2>1. entry' \in Entry(turn.no) /\ entry'.held = held
    <3>1. entry' = Holding(entry, held) /\ entry \in Entry(turn.no) /\ turn.no \in Nat
      BY <1>4 DEF Holding, TypeInv, Entries, Turns
    <3> QED  BY <3>1, HeldEntry
  <2>2. Entries'
    BY <1>1, <2>1 DEF Entries
  <2>3. Lists' /\ Flags'
    BY <1>1, <1>4, EmptySeq DEF TypeInv, Lists, Flags
  <2>4. (journal \o entry.held)' # <<>>
    <3>1. journal' \in Seq(Prompts) /\ journal' \o held # <<>>
      BY <1>1, <1>4, ConcatEqualIffEmpty DEF TypeInv, Lists
    <3> QED  BY <2>1, <3>1
  <2>5. Len(again') <= 1 /\ Len(hand') <= 1
    BY <1>4
  <2>6. Phase'
    BY <1>4, <2>1, <2>4, <2>5 DEF Phase, Storing
  <2> QED  BY <1>1, <1>2, <1>4, <2>1, <2>2, <2>3, <2>6
<1> QED  BY <1>3, <1>4 DEF HandsOver

LEMMA TerminateTypes == TypeInv /\ Terminate => TypeInv'
<1> SUFFICES ASSUME TypeInv, Terminate PROVE TypeInv'
  OBVIOUS
<1>1. entry.held \in Seq(Prompts) /\ Len(entry.held) <= 1
  BY DEF TypeInv, Entries, Entry
<1>2. /\ Lists' /\ Flags' /\ Turns' /\ Entries' /\ Counters' /\ Phase'
      /\ UNCHANGED <<starts, settled, issued>>
  BY <1>1, HandsOverTypes DEF Terminate
<1>3. History'
  BY <1>2 DEF TypeInv, History, Terminate
<1> QED  BY <1>2, <1>3 DEF TypeInv

LEMMA JournalTypes == TypeInv /\ Journal => TypeInv'
<1> SUFFICES ASSUME TypeInv, Journal PROVE TypeInv'
  OBVIOUS
<1>1. /\ journal \in Seq(Prompts) /\ entry.held \in Seq(Prompts) /\ at = "journal"
      /\ journal \o entry.held # <<>>
  BY DEF TypeInv, Lists, Entries, Entry, Phase, Journal, At
<1>2. journal' \in Seq(Prompts) /\ todo' = journal' /\ journal' # <<>>
  BY <1>1, ConcatProperties DEF Journal
<1>3. Lists' /\ Flags' /\ Turns' /\ Entries' /\ History' /\ Counters'
  BY <1>2 DEF TypeInv, Lists, Flags, Turns, Live, Entries, History, Counters, Journal, At
<1>4. Phase'
  BY <1>1, <1>2 DEF TypeInv, Phase, Storing, Journal, At
<1> QED  BY <1>3, <1>4 DEF TypeInv

LEMMA StowTypes == TypeInv /\ Stow => TypeInv'
<1> SUFFICES ASSUME TypeInv, Stow PROVE TypeInv'
  OBVIOUS
<1>1. /\ at = "stow" /\ todo \in Seq(Prompts) /\ todo # <<>> /\ stored \in Seq(Prompts)
      /\ journal \in Seq(Prompts) /\ life # "down" /\ hand = <<>>
  BY DEF TypeInv, Phase, Lists, Stow, At
<1>2. Last(todo) \in Prompts /\ Front(todo) \in Seq(Prompts)
  BY <1>1, SetOfLast
<1>3. /\ stored' \in Seq(Prompts) /\ todo' \in Seq(Prompts) /\ journal' = journal
      /\ deleted' = deleted /\ Counters'
      /\ at' = "settle" \/ (at' = "stow" /\ todo' # <<>>)
  <2>1. CASE /\ Requeued(Last(todo)) /\ todo' = Front(todo)
             /\ at' = (IF todo' = <<>> THEN "settle" ELSE "stow") /\ UNCHANGED spent
    BY <1>1, <1>2, <2>1, RequeuedLists DEF TypeInv, Counters
  <2>2. CASE todo' = <<>> /\ at' = "settle" /\ UNCHANGED <<disk, spent>>
    BY <1>1, <2>2, EmptySeq DEF TypeInv, Counters, disk
  <2>3. CASE Fault /\ at' = "settle" /\ UNCHANGED <<disk, todo>>
    BY <1>1, <2>3, SpendCounters DEF TypeInv, Fault, disk
  <2> QED  BY <2>1, <2>2, <2>3 DEF Stow
<1>4. Lists' /\ Flags' /\ Turns' /\ Entries' /\ History'
  BY <1>1, <1>3 DEF TypeInv, Lists, Flags, Turns, Live, Entries, History, Stow, At
<1>5. Phase'
  BY <1>1, <1>3 DEF TypeInv, Phase, Storing, Stow, At
<1> QED  BY <1>3, <1>4, <1>5 DEF TypeInv

LEMMA SettleTypes == TypeInv /\ Settle => TypeInv'
<1> SUFFICES ASSUME TypeInv, Settle PROVE TypeInv'
  OBVIOUS
<1> DEFINE next == IF life = "stopping" THEN "down" ELSE "up"
<1>1. /\ Entries' /\ Phase' /\ todo' = <<>> /\ hand' = <<>> /\ again' = <<>> /\ paused' = FALSE /\ lifted' = FALSE
  <2>1. next \in {"up", "down"} /\ Comes(next) /\ turn' = turn
    BY DEF Settle
  <2> HIDE DEF next
  <2> QED  BY <2>1, ComesTypes
<1>2. Lists' /\ Flags' /\ Turns' /\ History' /\ Counters'
  BY <1>1, EmptySeq, ZenonT(60)
     DEF TypeInv, Lists, Flags, Turns, Live, History, Counters, Settle, history
<1> QED  BY <1>1, <1>2 DEF TypeInv

LEMMA MemoryPrompts == TypeInv => Memory \subseteq Prompts
<1> SUFFICES ASSUME TypeInv PROVE Memory \subseteq Prompts
  OBVIOUS
<1>1. hand \in Seq(Prompts) /\ entry.held \in Seq(Prompts) /\ todo \in Seq(Prompts)
  BY DEF TypeInv, Lists, Entries, Entry
<1>2. \A s \in Seq(Prompts) : ToSet(s) \subseteq Prompts
  BY ElementOfSeq DEF ToSet
<1> QED  BY <1>1, <1>2 DEF Memory

LEMMA WaitingPrompts == TypeInv => Waiting \subseteq Prompts
<1> SUFFICES ASSUME TypeInv PROVE Waiting \subseteq Prompts
  OBVIOUS
<1>1. \A s \in Seq(Prompts) : ToSet(s) \subseteq Prompts
  BY DEF ToSet
<1> QED  BY <1>1, MemoryPrompts DEF Waiting, TypeInv, Lists

LEMMA KillTypes == TypeInv /\ Kill => TypeInv'
<1> SUFFICES ASSUME TypeInv, Kill PROVE TypeInv'
  OBVIOUS
<1>1. /\ Entries' /\ Phase' /\ todo' = <<>> /\ hand' = <<>> /\ again' = <<>> /\ paused' = FALSE /\ lifted' = FALSE
  BY ComesTypes DEF Kill
<1>2. Counters'
  BY SpendCounters DEF Kill, TypeInv
<1>3. Lists' /\ Turns' /\ Flags'
  BY <1>1, EmptySeq DEF TypeInv, Lists, Turns, Live, Flags, Kill, disk
<1>4. History'
  <2>1. \A s \in Seq(Prompts) : ToSet(s) \subseteq Prompts
    BY ElementOfSeq DEF ToSet
  <2>2. ToSet(journal) \subseteq Prompts
    BY <2>1 DEF TypeInv, Lists
  <2> QED  BY <2>2, MemoryPrompts DEF TypeInv, History, Kill, Forgets
<1> QED  BY <1>1, <1>2, <1>3, <1>4 DEF TypeInv

\* What a handler that raises hands over: what its backend held before it.
LEMMA HeldBefore ==
  ASSUME TypeInv
  PROVE  /\ again \o entry.held \in Seq(Prompts) /\ Len(again \o entry.held) <= 1
         /\ ToSet(again \o entry.held) = ToSet(again) \cup ToSet(entry.held)
         /\ ToSet(again \o entry.held) \subseteq Prompts
<1>1. /\ again \in Seq(Prompts) /\ entry.held \in Seq(Prompts)
      /\ Len(again) <= 1 /\ Len(entry.held) <= 1 /\ (again # <<>> => entry.held = <<>>)
  BY DEF TypeInv, Lists, Entries, Entry, Phase
<1>2. /\ again \o entry.held \in Seq(Prompts)
      /\ ToSet(again \o entry.held) = ToSet(again) \cup ToSet(entry.held)
  BY <1>1, SetOfConcat
<1>3. again \o entry.held = IF again = <<>> THEN entry.held ELSE again
  BY <1>1, ConcatEmptySeq
<1>4. \A s \in Seq(Prompts) : ToSet(s) \subseteq Prompts
  BY ElementOfSeq DEF ToSet
<1> QED  BY <1>1, <1>2, <1>3, <1>4

LEMMA RaiseTypes == TypeInv /\ Raise => TypeInv'
<1> SUFFICES ASSUME TypeInv, Raise PROVE TypeInv'
  OBVIOUS
<1> DEFINE held == again \o entry.held
<1>1. held \in Seq(Prompts) /\ Len(held) <= 1 /\ ToSet(held) \subseteq Prompts
  BY HeldBefore
<1>2. /\ HandsOver(held) /\ Forgets(ToSet(held))
      /\ repeated' = repeated \cup (ToSet(held) \ ToSet(Own))
  BY DEF Raise
<1> HIDE DEF held
<1>3. /\ Lists' /\ Flags' /\ Turns' /\ Entries' /\ Counters' /\ Phase'
      /\ UNCHANGED <<starts, settled, issued>>
  BY <1>1, <1>2, HandsOverTypes
<1>4. History'
  BY <1>1, <1>2, <1>3, MemoryPrompts DEF TypeInv, History, Forgets
<1> QED  BY <1>3, <1>4 DEF TypeInv

LEMMA RestartTypes == TypeInv /\ Restart => TypeInv'
<1> SUFFICES ASSUME TypeInv, Restart PROVE TypeInv'
  OBVIOUS
<1>1. Turns' /\ History' /\ Counters' /\ turn' = turn
  BY DEF TypeInv, Turns, Live, History, Counters, Restart, history
<1>2. CASE Comes("up")
  <2>1. /\ Entries' /\ Phase' /\ todo' = <<>> /\ hand' = <<>> /\ again' = <<>> /\ paused' = FALSE /\ lifted' = FALSE
    BY <1>1, <1>2, ComesTypes
  <2>2. Lists' /\ Flags'
    BY <2>1, EmptySeq DEF TypeInv, Lists, Flags, Restart, disk, history
  <2> QED  BY <1>1, <2>1, <2>2 DEF TypeInv
<1>3. CASE /\ journal # <<>> /\ life' = "starting" /\ at' = "journal"
           /\ UNCHANGED <<paused, entry, inbox, work, lifted>>
  <2>1. Lists' /\ Flags' /\ Entries'
    BY <1>1, <1>3 DEF TypeInv, Lists, Flags, Entries, Restart, disk, history, work
  <2>2. journal \in Seq(Prompts) /\ entry.held \in Seq(Prompts)
        /\ journal' = journal /\ entry' = entry
    BY <1>3 DEF TypeInv, Lists, Entries, Entry, Restart, disk
  <2>3. journal \o entry.held # <<>>
    BY <1>3, <2>2, ConcatEqualIffEmpty
  <2>4. Phase'
    BY <1>3, <2>2, <2>3 DEF TypeInv, Phase, Storing, Restart, work
  <2> QED  BY <1>1, <2>1, <2>4 DEF TypeInv
<1> QED  BY <1>2, <1>3 DEF Restart

LEMMA TypesStep == TypeInv /\ [Next]_vars => TypeInv'
<1> SUFFICES ASSUME TypeInv, [Next]_vars PROVE TypeInv'
  OBVIOUS
<1>1. CASE UNCHANGED vars
  BY <1>1 DEF TypeInv, Lists, Flags, Turns, Live, Entries, History, Counters, Phase,
              vars, disk, memory, work, history
<1>2. CASE Backend
  BY <1>2, ActivateTypes, CheckTypes, StoreHeldTypes, PopTypes, StartTypes, PutBackTypes,
     JournalTypes, StowTypes, SettleTypes DEF Backend
<1> QED  BY <1>1, <1>2, ReceiveTypes, TimerFiresTypes, TurnTypes, UserTypes, OtherWindowTypes,
            TerminateTypes, RaiseTypes, KillTypes, RestartTypes DEF Next

\* The types hold in every reachable state, whatever the bounds.
THEOREM QueueTypes == Spec => []TypeOK
<1>1. Spec => []TypeInv
  BY InitTypes, TypesStep, PTL DEF Spec
<1> QED  BY <1>1, TypesImplyTypeOK, PTL

-----------------------------------------------------------------------------
(* Nothing is lost.                                                        *)

\* A step loses no prompt when every prompt that waits still waits, has
\* started, or has been settled or forgotten.
LEMMA Keeps ==
  ASSUME NothingLost, issued' = issued, deleted => deleted',
         \A p \in 1 .. issued : starts[p] > 0 => starts'[p] > 0,
         settled \subseteq settled', forgotten \subseteq forgotten',
         ~deleted' => \A p \in Waiting :
                        starts'[p] > 0 \/ p \in Waiting' \cup settled' \cup forgotten'
  PROVE  NothingLost'
BY DEF NothingLost

\* A step outside the turn's start moves prompts without starting any.
LEMMA KeepsQuietly ==
  ASSUME NothingLost, issued' = issued, deleted => deleted', starts' = starts,
         settled \subseteq settled', forgotten \subseteq forgotten',
         ~deleted' => Waiting \subseteq Waiting' \cup settled' \cup forgotten'
  PROVE  NothingLost'
BY Keeps

LEMMA ActivateKeeps == Inv /\ Activate => Kept' /\ NothingLost'
<1> SUFFICES ASSUME Inv, Activate PROVE Kept' /\ NothingLost'
  OBVIOUS
<1>1. ~deleted => entry'.held = entry.held
  <2> SUFFICES ASSUME ~deleted PROVE entry'.held = entry.held
    OBVIOUS
  <2>1. /\ turn.no \in Nat /\ entry \in Entry(turn.no) /\ (Live => turn.no > 0)
        /\ stored \in Seq(Prompts) /\ entry.held \in Seq(Prompts)
    BY DEF Inv, TypeInv, Turns, Entries, Lists, Entry
  <2>2. CASE entry.held \o stored = <<>> /\ Removed
    <3>1. entry.held = <<>>
      BY <2>1, <2>2, ConcatEqualIffEmpty
    <3> QED  BY <2>1, <2>2, <3>1, RemovedEntry
  <2>3. CASE Watched(entry)
    BY <2>1, <2>3, WatchedEntry
  <2>4. ASSUME entry = NoEntry, NEW gen \in Nat, Watched([NoEntry EXCEPT !.gen = gen])
        PROVE  entry'.held = entry.held
    <3>1. [NoEntry EXCEPT !.gen = gen] \in Entry(turn.no) /\ [NoEntry EXCEPT !.gen = gen].held = <<>>
      BY <2>1, NoEntryType DEF Entry, NoEntry
    <3> QED  BY <2>1, <2>4, <3>1, WatchedEntry, NoEntryHeld
  <2>5. spent.gens + 1 \in Nat
    BY DEF Inv, TypeInv, Counters
  <2> QED  BY <2>2, <2>3, <2>4, <2>5 DEF Activate
<1>2. NothingLost'
  <2>1. ~deleted' => Waiting = Waiting'
    BY <1>1 DEF Activate, Waiting, Memory, disk, work
  <2> QED  BY <2>1, KeepsQuietly DEF Inv, Activate, disk, history
<1>3. Kept'
  BY DEF Kept, Activate, Storing
<1> QED  BY <1>2, <1>3

LEMMA CheckKeeps == Inv /\ Check => Kept' /\ NothingLost'
<1> SUFFICES ASSUME Inv, Check PROVE Kept' /\ NothingLost'
  OBVIOUS
<1>1. /\ entry'.held = entry.held /\ ToSet(todo) = {}
      /\ at' \notin Storing \/ (at' = "store" /\ todo' = entry.held)
  BY WatchedEntry, SetOfNone
     DEF Inv, TypeInv, Turns, Entries, Phase, Storing, Check, At
<1>2. NothingLost'
  <2>1. Waiting \subseteq Waiting'
    BY <1>1 DEF Check, Waiting, Memory, disk
  <2> QED  BY <2>1, KeepsQuietly DEF Inv, Check, At, disk
<1>3. Kept'
  BY <1>1 DEF Kept, Owed
<1> QED  BY <1>2, <1>3

LEMMA StoreHeldKeeps == Inv /\ StoreHeld => Kept' /\ NothingLost'
<1> SUFFICES ASSUME Inv, StoreHeld PROVE Kept' /\ NothingLost'
  OBVIOUS
<1>1. /\ at = "store" /\ todo \in Seq(Prompts) /\ todo # <<>> /\ Len(todo) <= 1
      /\ stored \in Seq(Prompts) /\ entry \in Entry(turn.no) /\ turn.no \in Nat
      /\ UNCHANGED <<issued, forgotten, starts, settled, hand>>
  BY DEF Inv, TypeInv, Phase, Lists, Entries, Turns, StoreHeld, At
<1>2. /\ Last(todo) \in Prompts /\ Front(todo) \in Seq(Prompts) /\ Len(Front(todo)) = Len(todo) - 1
      /\ ToSet(todo) = {Last(todo)} \cup ToSet(Front(todo))
  BY <1>1, SetOfLast
<1>3. Front(todo) = <<>>
  BY <1>1, <1>2
<1>4. ~deleted => ToSet(entry.held) \subseteq ToSet(todo) \cup ToSet(stored) \cup settled
  BY <1>1 DEF Inv, Kept, Storing, Owed
<1>5. CASE /\ Requeued(Last(todo)) \/ (deleted /\ UNCHANGED disk)
           /\ todo' = IF deleted THEN <<>> ELSE Front(todo)
           /\ IF todo' = <<>>
              THEN at' = "pop" /\ entry' = Reset([entry EXCEPT !.held = <<>>])
              ELSE UNCHANGED <<at, entry>>
  <2>1. at' = "pop"
    BY <1>3, <1>5
  <2>2. deleted' = deleted
    BY <1>5 DEF Requeued, disk
  <2>3. ~deleted' => Waiting \subseteq Waiting' \cup settled'
    <3> SUFFICES ASSUME ~deleted PROVE Waiting \subseteq Waiting' \cup settled'
      BY <2>2
    <3>1. /\ ToSet(stored') = {Last(todo)} \cup ToSet(stored) /\ journal' = journal
      BY <1>1, <1>2, <1>5, RequeuedLists
    <3>2. ToSet(todo) = {Last(todo)}
      BY <1>2, <1>3, SetOfNone
    <3> QED  BY <1>1, <1>4, <3>1, <3>2 DEF Waiting, Memory
  <2> QED  BY <1>1, <2>1, <2>2, <2>3, KeepsQuietly DEF Inv, Kept, Storing
<1>6. CASE /\ Retried([entry EXCEPT !.held = todo]) /\ at' = "idle" /\ UNCHANGED disk
  <2>1. entry'.held = todo
    <3>1. Retried(Holding(entry, todo))
      BY <1>6 DEF Holding
    <3>2. Holding(entry, todo) \in Entry(turn.no) /\ Holding(entry, todo).held = todo
      BY <1>1, HeldEntry
    <3>3. \A e \in Entry(turn.no) : Retried(e) => entry'.held = e.held
      BY <1>1, RetriedEntry
    <3> QED  BY <3>1, <3>2, <3>3
  <2>2. ~deleted' => Waiting \subseteq Waiting' \cup settled'
    BY <1>1, <1>4, <1>6, <2>1 DEF Waiting, Memory, disk
  <2> QED  BY <1>1, <1>6, <2>2, KeepsQuietly DEF Inv, Kept, Storing, disk
<1> QED  BY <1>5, <1>6 DEF StoreHeld

LEMMA PopKeeps == Inv /\ Pop => Kept' /\ NothingLost'
<1> SUFFICES ASSUME Inv, Pop PROVE Kept' /\ NothingLost'
  OBVIOUS
<1>1. /\ at = "pop" /\ stored \in Seq(Prompts) /\ ToSet(entry.held) = {} /\ hand = <<>>
      /\ entry \in Entry(turn.no) /\ turn.no \in Nat
      /\ UNCHANGED <<issued, forgotten, starts, settled, todo, journal, deleted>>
  BY SetOfNone DEF Inv, TypeInv, Phase, Storing, Lists, Entries, Turns, Pop, At
<1>2. at' \notin Storing
  BY DEF Pop, Storing
<1>3. Waiting \subseteq Waiting'
  <2>1. CASE stored # <<>> /\ hand' = <<Head(stored)>> /\ stored' = Tail(stored) /\ entry' = entry
    <3>1. Head(stored) \in Prompts /\ ToSet(stored) = {Head(stored)} \cup ToSet(stored')
      BY <1>1, <2>1, SetOfHead
    <3>2. ToSet(hand') = {Head(stored)}
      BY <3>1, <2>1, SetOfOne
    <3> QED  BY <1>1, <2>1, <3>1, <3>2, SetOfNone DEF Waiting, Memory
  <2>2. CASE stored' = stored /\ hand' = hand
    BY <1>1, <2>2 DEF Waiting, Memory
  <2> QED  BY <2>1, <2>2 DEF Pop
<1> QED  BY <1>1, <1>2, <1>3, KeepsQuietly DEF Inv, Kept

\* At most one prompt is in hand.
LEMMA InHand ==
  ASSUME TypeInv, hand # <<>>
  PROVE  Head(hand) \in Prompts /\ ToSet(hand) = {Head(hand)}
<1>1. hand \in Seq(Prompts) /\ Len(hand) <= 1
  BY DEF TypeInv, Lists, Phase
<1>2. Len(hand) = 1
  <2>1. \A s \in Seq(Prompts) : s # <<>> => Len(s) \in Nat \ {0}
    BY EmptySeq
  <2>2. Len(hand) \in Nat \ {0}
    BY <1>1, <2>1
  <2>3. \A n \in Nat \ {0} : n <= 1 => n = 1
    OBVIOUS
  <2> QED  BY <1>1, <2>2, <2>3
<1>3. /\ Head(hand) \in Prompts /\ Tail(hand) \in Seq(Prompts) /\ Len(Tail(hand)) = 0
      /\ ToSet(hand) = {Head(hand)} \cup ToSet(Tail(hand))
  BY <1>1, <1>2, SetOfHead, HeadTailProperties
<1>4. Tail(hand) = <<>>
  BY <1>3, EmptySeq
<1> QED  BY <1>3, <1>4, SetOfNone

LEMMA StartKeeps == Inv /\ Start => Kept' /\ NothingLost'
<1> SUFFICES ASSUME Inv, Start PROVE Kept' /\ NothingLost'
  OBVIOUS
<1> DEFINE p == Head(hand)
<1>1. /\ TypeInv /\ at = "start" /\ hand # <<>> /\ entry \in Entry(turn.no) /\ turn.no \in Nat
      /\ starts \in [Prompts -> Nat] /\ issued \in 0 .. MaxPrompts
      /\ UNCHANGED <<issued, forgotten, todo, stored, journal, deleted>>
  BY DEF Inv, TypeInv, Phase, Entries, Turns, History, Start, disk
<1>2. p \in Prompts /\ ToSet(hand) = {p}
  BY <1>1, InHand
<1>3. Kept'
  BY DEF Start, Kept, Storing
<1>4. CASE /\ starts' = [starts EXCEPT ![p] = @ + 1]
           /\ hand' = <<>> /\ entry' = Reset(entry) /\ UNCHANGED settled
  <2>1. entry'.held = entry.held
    BY <1>1, <1>4, ResetEntry
  <2>2. starts'[p] > 0 /\ \A q \in 1 .. issued : starts[q] > 0 => starts'[q] > 0
    BY <1>1, <1>2, <1>4 DEF Prompts
  <2>3. Waiting \subseteq Waiting' \cup {p}
    BY <1>1, <1>2, <2>1 DEF Waiting, Memory
  <2> QED  BY <1>1, <1>3, <1>4, <2>2, <2>3, Keeps DEF Inv
<1>5. CASE settled' = settled \cup {p} /\ hand' = <<>> /\ UNCHANGED <<starts, entry>>
  <2>1. Waiting \subseteq Waiting' \cup settled'
    BY <1>1, <1>2, <1>5 DEF Waiting, Memory
  <2> QED  BY <1>1, <1>3, <1>5, <2>1, KeepsQuietly DEF Inv
<1>6. CASE UNCHANGED <<starts, settled, hand, entry>>
  <2>1. Waiting = Waiting'
    BY <1>1, <1>6 DEF Waiting, Memory
  <2> QED  BY <1>1, <1>3, <1>6, <2>1, KeepsQuietly DEF Inv
<1> QED  BY <1>4, <1>5, <1>6 DEF Start

LEMMA PutBackKeeps == Inv /\ PutBack => Kept' /\ NothingLost'
<1> SUFFICES ASSUME Inv, PutBack PROVE Kept' /\ NothingLost'
  OBVIOUS
<1>1. /\ TypeInv /\ at = "putback" /\ hand # <<>> /\ hand \in Seq(Prompts)
      /\ stored \in Seq(Prompts) /\ entry.held = <<>>
      /\ entry \in Entry(turn.no) /\ turn.no \in Nat
      /\ UNCHANGED <<issued, forgotten, starts, settled, todo>>
  BY DEF Inv, TypeInv, Phase, Storing, Lists, Entries, Turns, PutBack, At
<1>2. Head(hand) \in Prompts /\ ToSet(hand) = {Head(hand)}
  BY <1>1, InHand
<1>3. Kept'
  BY DEF PutBack, Kept, Storing
<1>4. \A e \in Entry(turn.no) : Retried(e) => entry'.held = e.held
  BY <1>1, RetriedEntry
<1>5. CASE Requeued(Head(hand)) /\ Retried(entry)
  <2>1. /\ ToSet(stored') = {Head(hand)} \cup ToSet(stored)
        /\ journal' = journal /\ deleted' = deleted
    BY <1>1, <1>2, <1>5, RequeuedLists
  <2>2. entry'.held = entry.held
    BY <1>1, <1>4, <1>5
  <2>3. Waiting \subseteq Waiting'
    BY <1>1, <1>2, <2>1, <2>2 DEF Waiting, Memory
  <2> QED  BY <1>1, <1>3, <2>1, <2>3, KeepsQuietly DEF Inv
<1>6. CASE deleted /\ UNCHANGED disk
  BY <1>1, <1>3, <1>6, KeepsQuietly DEF Inv, disk
<1>7. CASE Retried([entry EXCEPT !.held = @ \o hand]) /\ UNCHANGED disk
  <2>1. Retried(Holding(entry, entry.held \o hand))
    BY <1>7 DEF Holding
  <2>2. entry.held \o hand = hand
    BY <1>1, ConcatEmptySeq
  <2>3. Holding(entry, hand) \in Entry(turn.no) /\ Holding(entry, hand).held = hand
    BY <1>1, HeldEntry
  <2>4. entry'.held = hand
    BY <1>4, <2>1, <2>2, <2>3
  <2>5. Waiting \subseteq Waiting'
    BY <1>1, <1>7, <2>4, SetOfNone DEF Waiting, Memory, disk
  <2> QED  BY <1>1, <1>3, <1>7, <2>5, KeepsQuietly DEF Inv, disk
<1> QED  BY <1>5, <1>6, <1>7 DEF PutBack

\* The journal takes what is held before anything is stored.
LEMMA JournalKeeps == Inv /\ Journal => Kept' /\ NothingLost'
<1> SUFFICES ASSUME Inv, Journal PROVE Kept' /\ NothingLost'
  OBVIOUS
<1>1. /\ journal \in Seq(Prompts) /\ entry.held \in Seq(Prompts) /\ at = "journal" /\ todo = <<>>
      /\ UNCHANGED <<issued, forgotten, starts, settled, stored, deleted, hand, entry>>
      /\ todo' = journal' /\ at' = "stow"
  BY DEF Inv, TypeInv, Lists, Entries, Entry, Phase, Storing, Journal, At
<1>2. ToSet(journal') = ToSet(journal) \cup ToSet(entry.held)
  BY <1>1, SetOfConcat DEF Journal
<1>3. Waiting \subseteq Waiting'
  BY <1>1, <1>2, SetOfNone DEF Waiting, Memory
<1>4. Kept'
  BY <1>1, <1>2 DEF Kept, Owed
<1> QED  BY <1>1, <1>3, <1>4, KeepsQuietly DEF Inv

LEMMA StowKeeps == Inv /\ Stow => Kept' /\ NothingLost'
<1> SUFFICES ASSUME Inv, Stow PROVE Kept' /\ NothingLost'
  OBVIOUS
<1>1. /\ at = "stow" /\ todo \in Seq(Prompts) /\ todo # <<>> /\ stored \in Seq(Prompts)
      /\ at' \in {"stow", "settle"}
      /\ UNCHANGED <<issued, forgotten, starts, settled, hand, entry>>
  BY DEF Inv, TypeInv, Phase, Lists, Stow, At
<1>2. Last(todo) \in Prompts /\ ToSet(todo) = {Last(todo)} \cup ToSet(Front(todo))
  BY <1>1, SetOfLast
<1>3. CASE Requeued(Last(todo)) /\ todo' = Front(todo)
  <2>1. /\ ToSet(stored') = {Last(todo)} \cup ToSet(stored)
        /\ journal' = journal /\ deleted' = deleted
    BY <1>1, <1>2, <1>3, RequeuedLists
  <2>2. ToSet(todo) \cup ToSet(stored) \subseteq ToSet(todo') \cup ToSet(stored')
    BY <1>2, <1>3, <2>1
  <2>3. Waiting \subseteq Waiting'
    BY <1>1, <2>1, <2>2 DEF Waiting, Memory
  <2>4. Kept'
    BY <1>1, <2>1, <2>2 DEF Inv, Kept, Owed, Storing
  <2> QED  BY <1>1, <2>1, <2>3, <2>4, KeepsQuietly DEF Inv
<1>4. CASE deleted /\ UNCHANGED disk
  BY <1>1, <1>4, KeepsQuietly DEF Inv, Kept, disk
<1>5. CASE UNCHANGED <<disk, todo>>
  <2>1. Waiting = Waiting'
    BY <1>1, <1>5 DEF Waiting, Memory, disk
  <2>2. Kept'
    BY <1>1, <1>5 DEF Inv, Kept, Owed, Storing, disk
  <2> QED  BY <1>1, <1>5, <2>1, <2>2, KeepsQuietly DEF Inv, disk
<1> QED  BY <1>3, <1>4, <1>5 DEF Stow

\* What the journal and the memory drop was stored, taken or is journalled.
LEMMA SettleKeeps == Inv /\ Settle => Kept' /\ NothingLost'
<1> SUFFICES ASSUME Inv, Settle PROVE Kept' /\ NothingLost'
  OBVIOUS
<1>1. /\ at = "settle" /\ hand = <<>> /\ journal' = todo /\ at' = "idle"
      /\ UNCHANGED <<issued, forgotten, starts, settled, stored, deleted>>
  BY DEF Inv, TypeInv, Phase, Settle, Comes, history
<1>2. ~deleted => Waiting \subseteq Waiting' \cup settled'
  BY <1>1, SetOfNone DEF Inv, Kept, Owed, Storing, Waiting, Memory
<1> QED  BY <1>1, <1>2, KeepsQuietly DEF Inv, Kept, Storing

\* Messages, timers and turns move no prompt.
LEMMA MessageKeeps == Inv /\ (Receive \/ TimerFires \/ Turn) => Kept' /\ NothingLost'
<1> SUFFICES ASSUME Inv, Receive \/ TimerFires \/ Turn PROVE Kept' /\ NothingLost'
  OBVIOUS
<1>1. /\ UNCHANGED <<issued, forgotten, starts, settled, stored, journal, deleted, hand, todo>>
      /\ at' = at \/ at' \notin Storing
  BY DEF Receive, TimerFires, Turn, TurnEnds, ChainGoesOn, TurnUnregistered, Idle, Storing,
         disk, work, history
<1>2. entry'.held = entry.held
  <2> DEFINE n == turn.no
  <2>1. entry \in Entry(n)
    BY DEF Inv, TypeInv, Entries
  <2> HIDE DEF n
  <2>2. CASE entry' = entry
    BY <2>2
  <2>3. ASSUME NEW t, entry' = [entry EXCEPT !.timer = t]
        PROVE  entry'.held = entry.held
    BY <2>1, <2>3 DEF Entry
  <2>4. ASSUME NEW w, entry' = [entry EXCEPT !.watching = @ \ {w}]
        PROVE  entry'.held = entry.held
    BY <2>1, <2>4 DEF Entry
  <2> QED  BY <2>2, <2>3, <2>4 DEF Receive, TimerFires, Turn, TurnEnds, ChainGoesOn,
              TurnUnregistered, memory
<1>3. Waiting = Waiting'
  BY <1>1, <1>2 DEF Waiting, Memory
<1>4. Kept'
  BY <1>1, <1>2 DEF Inv, Kept, Owed, Storing
<1> QED  BY <1>1, <1>3, <1>4, KeepsQuietly DEF Inv

\* A prompt that is accepted waits in the queue.
LEMMA AcceptKeeps ==
  ASSUME Inv, Accept, UNCHANGED <<forgotten, starts, settled, hand, entry, todo>>
  PROVE  NothingLost' /\ ToSet(stored) \subseteq ToSet(stored')
<1>1. /\ ToSet(stored') = ToSet(stored) \cup {issued + 1}
      /\ journal' = journal /\ deleted' = deleted
      /\ issued' = issued + 1 /\ issued \in Nat
  BY AcceptLists DEF Inv
<1>2. Waiting' = Waiting \cup {issued + 1}
  BY <1>1 DEF Waiting, Memory
<1>3. \A q \in 1 .. issued' : q \in 1 .. issued \/ q = issued + 1
  BY <1>1
<1> QED  BY <1>1, <1>2, <1>3 DEF Inv, NothingLost

\* A prompt that is taken out of the queue is settled.
LEMMA WithoutKeeps ==
  ASSUME Inv, NEW i \in DOMAIN stored, Without(i),
         UNCHANGED <<issued, forgotten, starts, hand, entry, todo, journal, deleted>>
  PROVE  NothingLost' /\ ToSet(stored) \cup settled \subseteq ToSet(stored') \cup settled'
<1>1. settled \subseteq settled' /\ ToSet(stored) \subseteq ToSet(stored') \cup settled'
  BY WithoutLists DEF Inv
<1>2. Waiting \subseteq Waiting' \cup settled'
  BY <1>1 DEF Waiting, Memory
<1> QED  BY <1>1, <1>2, KeepsQuietly DEF Inv

LEMMA UserKeeps == Inv /\ User => Kept' /\ NothingLost'
<1> SUFFICES ASSUME Inv, User PROVE Kept' /\ NothingLost'
  OBVIOUS
<1>1. /\ at' \notin Storing /\ UNCHANGED <<entry, hand, todo, starts, forgotten>>
  BY DEF User, Enqueue, Send, StopTurn, ResumeQueue, EditQueue, Switch, Command, Idle, Storing,
         work, history
<1>2. CASE Enqueue
  BY <1>1, <1>2, AcceptKeeps DEF Enqueue, Command, history, Kept
<1>3. CASE EditQueue
  BY <1>1, <1>3, WithoutKeeps DEF EditQueue, Kept
<1>4. CASE Send \/ StopTurn \/ ResumeQueue \/ Switch
  <2>1. UNCHANGED <<stored, journal, deleted, issued, settled>>
    BY <1>4 DEF Send, StopTurn, ResumeQueue, Switch, Command, disk, history
  <2>2. Waiting = Waiting'
    BY <1>1, <2>1 DEF Waiting, Memory
  <2> QED  BY <1>1, <2>1, <2>2, KeepsQuietly DEF Inv, Kept
<1> QED  BY <1>2, <1>3, <1>4 DEF User

LEMMA OtherWindowKeeps == Inv /\ OtherWindow => Kept' /\ NothingLost'
<1> SUFFICES ASSUME Inv, OtherWindow PROVE Kept' /\ NothingLost'
  OBVIOUS
<1>1. UNCHANGED <<entry, hand, todo, starts, forgotten, at>>
  BY DEF OtherWindow, memory, work
<1>2. CASE Accept /\ UNCHANGED settled
  <2>1. NothingLost' /\ ToSet(stored) \subseteq ToSet(stored')
    BY <1>1, <1>2, AcceptKeeps
  <2> QED  BY <1>1, <1>2, <2>1 DEF Inv, Kept, Owed, Accept
<1>3. CASE (\E i \in DOMAIN stored : Without(i)) /\ UNCHANGED <<journal, deleted, issued>>
  <2>1. NothingLost' /\ ToSet(stored) \cup settled \subseteq ToSet(stored') \cup settled'
    BY <1>1, <1>3, WithoutKeeps
  <2> QED  BY <1>1, <1>3, <2>1 DEF Inv, Kept, Owed
<1>4. CASE deleted' = TRUE
  BY <1>4 DEF Kept, NothingLost
<1> QED  BY <1>2, <1>3, <1>4 DEF OtherWindow

\* What only the memory of a backend had when it stopped or was killed.
LEMMA StopKeeps == Inv /\ (Terminate \/ Raise \/ Kill \/ Restart) => Kept' /\ NothingLost'
<1> SUFFICES ASSUME Inv, Terminate \/ Raise \/ Kill \/ Restart PROVE Kept' /\ NothingLost'
  OBVIOUS
<1>1. /\ UNCHANGED <<issued, starts, settled, stored, journal, deleted>>
      /\ forgotten \subseteq forgotten' /\ at' \notin Storing
  BY DEF Terminate, Raise, Kill, Restart, HandsOver, Forgets, Comes, Storing, disk, history
<1>2. Waiting \subseteq Waiting' \cup forgotten'
  <2>1. CASE Kill
    BY <1>1, <2>1 DEF Kill, Forgets, Waiting
  <2>2. CASE Memory \subseteq Memory'
    BY <1>1, <2>2 DEF Waiting
  <2>3. CASE Restart /\ Comes("up")
    <3>1. hand = <<>> /\ todo = <<>> /\ entry.held = <<>>
      BY <2>3 DEF Inv, TypeInv, Phase, Storing, Restart
    <3> QED  BY <2>2, <3>1, SetOfNone DEF Memory
  <2>4. CASE UNCHANGED <<entry, work>>
    BY <2>2, <2>4 DEF Memory, work
  <2>5. CASE Terminate
    <3>1. entry.held \in Seq(Prompts) /\ Len(entry.held) <= 1 /\ hand = <<>> /\ todo = <<>>
      BY <2>5 DEF Inv, TypeInv, Entries, Entry, Phase, Storing, Terminate, Idle
    <3>2. entry'.held = entry.held
      BY <2>5, <3>1, HandsOverTypes DEF Inv, Terminate
    <3> QED  BY <2>2, <3>1, <3>2, SetOfNone DEF Memory
  <2>6. CASE Raise
    <3> DEFINE held == again \o entry.held
    <3>1. /\ held \in Seq(Prompts) /\ Len(held) <= 1
          /\ ToSet(held) = ToSet(again) \cup ToSet(entry.held)
      BY HeldBefore DEF Inv
    <3>2. HandsOver(held) /\ Forgets(ToSet(held))
      BY <2>6 DEF Raise
    <3> HIDE DEF held
    <3>3. entry'.held = held
      BY <3>1, <3>2, HandsOverTypes DEF Inv
    <3>4. ToSet(held) \subseteq Memory'
      BY <3>3 DEF Memory
    <3> QED  BY <1>1, <3>2, <3>4 DEF Forgets, Waiting
  <2> QED  BY <2>1, <2>3, <2>4, <2>5, <2>6 DEF Restart
<1> QED  BY <1>1, <1>2, KeepsQuietly DEF Inv, Kept

LEMMA InitInv == Init => Inv
<1> SUFFICES ASSUME Init PROVE Inv
  OBVIOUS
<1>1. TypeInv
  BY InitTypes
<1>2. Kept /\ NothingLost
  BY DEF Init, Kept, Storing, NothingLost
<1> QED  BY <1>1, <1>2 DEF Inv

LEMMA InvStep == Inv /\ [Next]_vars => Inv'
<1> SUFFICES ASSUME Inv, [Next]_vars PROVE Inv'
  OBVIOUS
<1>1. TypeInv'
  BY TypesStep DEF Inv
<1>2. CASE UNCHANGED vars
  BY <1>1, <1>2 DEF Inv, Kept, Owed, NothingLost, Waiting, Memory,
                    vars, disk, memory, work, history
<1>3. CASE Backend
  BY <1>1, <1>3, ActivateKeeps, CheckKeeps, StoreHeldKeeps, PopKeeps, StartKeeps, PutBackKeeps,
     JournalKeeps, StowKeeps, SettleKeeps DEF Backend, Inv
<1> QED  BY <1>1, <1>2, <1>3, MessageKeeps, UserKeeps, OtherWindowKeeps, StopKeeps DEF Next, Inv

\* An accepted prompt is never lost, however often starts, put-backs and the
\* backend itself fail, and whatever other windows do meanwhile.
THEOREM QueueLosesNothing == Spec => []NothingLost
<1>1. Inv => NothingLost
  BY DEF Inv
<1> QED  BY <1>1, InitInv, InvStep, PTL DEF Spec


-----------------------------------------------------------------------------
(* Order.  InLine speaks of the prompts the backend has and of the queue;   *)
(* to be inductive it has to say where the journal belongs (before all of   *)
(* them, except while it is being handed over) and that new prompts are the *)
(* last ones (Numbered), those a handler has stored again included          *)
(* (Recalled), which it hands over once more when it raises.                *)

\* One prompt is before another, or one of the two was repeated.
Before(x, y, R) == x < y \/ x \in R \/ y \in R

Rising(s, R) == \A i, j \in 1 .. Len(s) : i < j => Before(s[i], s[j], R)
AllBefore(A, B, R) == \A x \in A : \A y \in B : Before(x, y, R)

Handing == {"stow", "settle"}

\* The prompts the backend itself has.
Mine == IF at \in Storing THEN ToSet(todo) ELSE ToSet(hand) \cup ToSet(entry.held)

InPlace(handing, j, d, mine, q, R) ==
  /\ Rising(q, R) /\ Rising(d, R) /\ Rising(j, R) /\ AllBefore(mine, ToSet(q), R)
  /\ ~handing => AllBefore(ToSet(j), mine \cup ToSet(q), R)

Placed == InPlace(at \in Handing, journal, todo, Mine, stored, repeated)

StartedOnce ==
  \A p \in Prompts \ repeated : starts[p] <= 1 /\ (starts[p] = 1 => p \notin Waiting)

Numbered ==
  /\ \A p \in Waiting : p <= issued
  /\ \A p \in Prompts : starts[p] > 0 => p <= issued

Recalled == \A p \in ToSet(again) : p <= issued

Order == Numbered /\ Placed /\ StartedOnce

(* Sequences that rise. *)

LEMMA RisingSmall ==
  ASSUME NEW R, NEW s \in Seq(Prompts), Len(s) <= 1
  PROVE  Rising(s, R)
BY DEF Rising

LEMMA RisingTail ==
  ASSUME NEW R, NEW s \in Seq(Prompts), s # <<>>, Rising(s, R)
  PROVE  Rising(Tail(s), R) /\ AllBefore({Head(s)}, ToSet(Tail(s)), R)
<1>1. /\ Tail(s) \in Seq(Prompts) /\ Len(Tail(s)) = Len(s) - 1
      /\ \A i \in 1 .. Len(Tail(s)) : Tail(s)[i] = s[i + 1]
  BY HeadTailProperties
<1>2. Head(s) = s[1] /\ Len(s) \in Nat \ {0}
  BY EmptySeq
<1>3. \A i \in 1 .. Len(Tail(s)) : Before(s[1], Tail(s)[i], R)
  BY <1>1, <1>2 DEF Rising
<1>4. Rising(Tail(s), R)
  <2> SUFFICES ASSUME NEW i \in 1 .. Len(Tail(s)), NEW j \in 1 .. Len(Tail(s)), i < j
               PROVE  Before(Tail(s)[i], Tail(s)[j], R)
    BY DEF Rising
  <2>1. i + 1 \in 1 .. Len(s) /\ j + 1 \in 1 .. Len(s) /\ i + 1 < j + 1
    BY <1>1, <1>2
  <2> QED  BY <1>1, <2>1 DEF Rising
<1>5. AllBefore({Head(s)}, ToSet(Tail(s)), R)
  BY <1>2, <1>3 DEF AllBefore, ToSet
<1> QED  BY <1>4, <1>5

\* Two rising sequences, the first before the second.
LEMMA RisingConcat ==
  ASSUME NEW R, NEW s \in Seq(Prompts), NEW t \in Seq(Prompts),
         Rising(s, R), Rising(t, R), AllBefore(ToSet(s), ToSet(t), R)
  PROVE  Rising(s \o t, R)
<1>1. /\ s \o t \in Seq(Prompts) /\ Len(s \o t) = Len(s) + Len(t)
      /\ \A i \in 1 .. Len(s) + Len(t) :
           (s \o t)[i] = IF i <= Len(s) THEN s[i] ELSE t[i - Len(s)]
  BY ConcatProperties
<1>2. Len(s) \in Nat /\ Len(t) \in Nat
  OBVIOUS
<1> SUFFICES ASSUME NEW i \in 1 .. Len(s) + Len(t), NEW j \in 1 .. Len(s) + Len(t), i < j
             PROVE  Before((s \o t)[i], (s \o t)[j], R)
  BY <1>1 DEF Rising
<1>3. CASE j <= Len(s)
  <2>1. i \in 1 .. Len(s) /\ j \in 1 .. Len(s)
    BY <1>2, <1>3
  <2>2. Before(s[i], s[j], R)
    BY <2>1 DEF Rising
  <2> QED  BY <1>1, <1>2, <2>1, <2>2
<1>4. CASE i > Len(s)
  <2>1. i - Len(s) \in 1 .. Len(t) /\ j - Len(s) \in 1 .. Len(t) /\ i - Len(s) < j - Len(s)
    BY <1>2, <1>4
  <2>2. Before(t[i - Len(s)], t[j - Len(s)], R)
    BY <2>1 DEF Rising
  <2>3. (s \o t)[i] = t[i - Len(s)] /\ (s \o t)[j] = t[j - Len(s)]
    BY <1>1, <1>2, <1>4
  <2> QED  BY <2>2, <2>3
<1>5. CASE i <= Len(s) /\ j > Len(s)
  <2>1. i \in 1 .. Len(s) /\ j - Len(s) \in 1 .. Len(t)
    BY <1>2, <1>5
  <2>2. s[i] \in ToSet(s) /\ t[j - Len(s)] \in ToSet(t)
    BY <2>1, InSet
  <2>3. Before(s[i], t[j - Len(s)], R)
    BY <2>2 DEF AllBefore
  <2>4. (s \o t)[i] = s[i] /\ (s \o t)[j] = t[j - Len(s)]
    BY <1>1, <1>2, <1>5
  <2> QED  BY <2>3, <2>4
<1> QED  BY <1>2, <1>3, <1>4, <1>5

\* A prompt put before a sequence it belongs before.
LEMMA RisingCons ==
  ASSUME NEW R, NEW s \in Seq(Prompts), NEW p \in Prompts, Rising(s, R), AllBefore({p}, ToSet(s), R)
  PROVE  Rising(<<p>> \o s, R)
<1> DEFINE t == <<p>>
<1>1. t \in Seq(Prompts) /\ Len(t) = 1 /\ ToSet(t) = {p}
  BY SetOfOne
<1> HIDE DEF t
<1>2. Rising(t, R)
  BY <1>1 DEF Rising
<1>3. Rising(t \o s, R)
  BY <1>1, <1>2, RisingConcat
<1> QED  BY <1>3 DEF t

\* A prompt later than all in a sequence, at its end.
LEMMA RisingAppend ==
  ASSUME NEW R, NEW s \in Seq(Prompts), NEW p \in Prompts, Rising(s, R), AllBefore(ToSet(s), {p}, R)
  PROVE  Rising(Append(s, p), R)
<1> DEFINE t == <<p>>
<1>1. t \in Seq(Prompts) /\ Len(t) = 1 /\ ToSet(t) = {p}
  BY SetOfOne
<1>2. Append(s, p) = s \o t
  BY AppendIsConcat
<1> HIDE DEF t
<1>3. Rising(t, R)
  BY <1>1 DEF Rising
<1>4. Rising(s \o t, R)
  BY <1>1, <1>3, RisingConcat
<1> QED  BY <1>2, <1>4

\* Without its last prompt, and that prompt after the others.
LEMMA RisingFront ==
  ASSUME NEW R, NEW s \in Seq(Prompts), s # <<>>, Rising(s, R)
  PROVE  Rising(Front(s), R) /\ AllBefore(ToSet(Front(s)), {Last(s)}, R)
<1>1. /\ Front(s) \in Seq(Prompts) /\ Len(Front(s)) = Len(s) - 1
      /\ Last(s) = s[Len(s)] /\ Len(s) \in Nat \ {0}
  BY SetOfLast, EmptySeq DEF Last
<1>2. \A i \in 1 .. Len(s) - 1 : Front(s)[i] = s[i]
  BY <1>1 DEF Front
<1>3. Rising(Front(s), R)
  <2> SUFFICES ASSUME NEW i \in 1 .. Len(s) - 1, NEW j \in 1 .. Len(s) - 1, i < j
               PROVE  Before(Front(s)[i], Front(s)[j], R)
    BY <1>1 DEF Rising
  <2>1. i \in 1 .. Len(s) /\ j \in 1 .. Len(s)
    BY <1>1
  <2>2. Before(s[i], s[j], R)
    BY <2>1 DEF Rising
  <2> QED  BY <1>2, <2>2
<1>4. ASSUME NEW x \in ToSet(Front(s)) PROVE Before(x, Last(s), R)
  <2>1. PICK i \in 1 .. Len(s) - 1 : x = s[i]
    BY <1>1, <1>2, <1>4 DEF ToSet
  <2>2. i \in 1 .. Len(s) /\ Len(s) \in 1 .. Len(s) /\ i < Len(s)
    BY <1>1
  <2>3. Before(s[i], s[Len(s)], R)
    BY <2>2 DEF Rising
  <2> QED  BY <1>1, <2>1, <2>3
<1> QED  BY <1>3, <1>4 DEF AllBefore

\* What is left when an element is taken out was there before.
LEMMA RemoveAtLess ==
  ASSUME NEW s \in Seq(Prompts), NEW i \in DOMAIN s
  PROVE  ToSet(RemoveAt(s, i)) \subseteq ToSet(s)
<1> DEFINE a == Upto(s, i)
           b == After(s, i)
<1>1. /\ a \in Seq(Prompts) /\ b \in Seq(Prompts)
      /\ RemoveAt(s, i) = a \o b /\ i \in 1 .. Len(s) /\ s[i] \in Prompts
      /\ Len(a) = i - 1 /\ \A j \in 1 .. i - 1 : a[j] = s[j]
      /\ Len(b) = Len(s) - i /\ \A j \in 1 .. Len(s) - i : b[j] = s[i + j]
  BY RemoveAtParts
<1> HIDE DEF a, b
<1>2. i \in 1 .. Len(s) /\ Len(s) \in Nat /\ Len(a) = i - 1 /\ Len(b) = Len(s) - i
  BY <1>1
<1>3. ASSUME NEW k \in 1 .. Len(a)
      PROVE  k \in 1 .. Len(s) /\ k < i /\ a[k] = s[k]
  <2>1. k \in 1 .. i - 1
    BY <1>2
  <2>2. a[k] = s[k]
    BY <1>1, <2>1
  <2> QED  BY <1>2, <2>1, <2>2
<1>4. ASSUME NEW k \in 1 .. Len(b)
      PROVE  i + k \in 1 .. Len(s) /\ i < i + k /\ b[k] = s[i + k]
  <2>1. k \in 1 .. Len(s) - i
    BY <1>2
  <2>2. b[k] = s[i + k]
    BY <1>1, <2>1
  <2>3. i + k \in 1 .. Len(s) /\ i < i + k
    <3>1. \A n \in Nat : \A m \in 1 .. n : \A l \in 1 .. n - m : m + l \in 1 .. n /\ m < m + l
      OBVIOUS
    <3> QED  BY <1>2, <2>1, <3>1
  <2> QED  BY <2>2, <2>3
<1>5. \A k \in 1 .. Len(s) : s[k] \in ToSet(s)
  BY InSet
<1>6. ToSet(a) \subseteq ToSet(s)
  <2>1. \A k \in 1 .. Len(a) : a[k] \in ToSet(s)
    BY <1>3, <1>5
  <2> QED  BY <1>1, <2>1 DEF ToSet
<1>7. ToSet(b) \subseteq ToSet(s)
  <2>1. \A k \in 1 .. Len(b) : b[k] \in ToSet(s)
    BY <1>4, <1>5
  <2> QED  BY <1>1, <2>1 DEF ToSet
<1>8. ToSet(a \o b) = ToSet(a) \cup ToSet(b)
  BY <1>1, SetOfConcat
<1> QED  BY <1>1, <1>6, <1>7, <1>8

\* Without one of its prompts.
LEMMA RisingRemoveAt ==
  ASSUME NEW R, NEW s \in Seq(Prompts), NEW i \in DOMAIN s, Rising(s, R)
  PROVE  /\ RemoveAt(s, i) \in Seq(Prompts) /\ Rising(RemoveAt(s, i), R)
<1> DEFINE a == Upto(s, i)
           b == After(s, i)
<1>1. /\ a \in Seq(Prompts) /\ b \in Seq(Prompts)
      /\ RemoveAt(s, i) = a \o b /\ i \in 1 .. Len(s) /\ s[i] \in Prompts
      /\ Len(a) = i - 1 /\ \A j \in 1 .. i - 1 : a[j] = s[j]
      /\ Len(b) = Len(s) - i /\ \A j \in 1 .. Len(s) - i : b[j] = s[i + j]
  BY RemoveAtParts
<1> HIDE DEF a, b
<1>2. i \in 1 .. Len(s) /\ Len(s) \in Nat /\ Len(a) = i - 1 /\ Len(b) = Len(s) - i
  BY <1>1
<1>3. ASSUME NEW k \in 1 .. Len(a)
      PROVE  k \in 1 .. Len(s) /\ k < i /\ a[k] = s[k]
  <2>1. k \in 1 .. i - 1
    BY <1>2
  <2>2. a[k] = s[k]
    BY <1>1, <2>1
  <2> QED  BY <1>2, <2>1, <2>2
<1>4. ASSUME NEW k \in 1 .. Len(b)
      PROVE  i + k \in 1 .. Len(s) /\ i < i + k /\ b[k] = s[i + k]
  <2>1. k \in 1 .. Len(s) - i
    BY <1>2
  <2>2. b[k] = s[i + k]
    BY <1>1, <2>1
  <2>3. i + k \in 1 .. Len(s) /\ i < i + k
    <3>1. \A n \in Nat : \A m \in 1 .. n : \A l \in 1 .. n - m : m + l \in 1 .. n /\ m < m + l
      OBVIOUS
    <3> QED  BY <1>2, <2>1, <3>1
  <2> QED  BY <2>2, <2>3
<1>5. ASSUME NEW k \in 1 .. Len(s), NEW l \in 1 .. Len(s), k < l
      PROVE  Before(s[k], s[l], R)
  BY <1>5 DEF Rising
<1>6. Rising(a, R)
  <2>1. ASSUME NEW k \in 1 .. Len(a), NEW l \in 1 .. Len(a), k < l
        PROVE  Before(a[k], a[l], R)
    BY <1>3, <1>5, <2>1
  <2> QED  BY <2>1 DEF Rising
<1>7. Rising(b, R)
  <2>1. ASSUME NEW k \in 1 .. Len(b), NEW l \in 1 .. Len(b), k < l
        PROVE  Before(b[k], b[l], R)
    <3>1. i + k < i + l
      BY <1>2, <2>1
    <3> QED  BY <1>4, <1>5, <3>1
  <2> QED  BY <2>1 DEF Rising
<1>8. ASSUME NEW k \in 1 .. Len(a), NEW l \in 1 .. Len(b)
      PROVE  Before(a[k], b[l], R)
  <2>1. k < i + l
    BY <1>2, <1>3
  <2> QED  BY <1>3, <1>4, <1>5, <2>1
<1>9. AllBefore(ToSet(a), ToSet(b), R)
  BY <1>1, <1>8 DEF AllBefore, ToSet
<1>10. a \o b \in Seq(Prompts) /\ ToSet(a \o b) = ToSet(a) \cup ToSet(b) /\ Rising(a \o b, R)
  BY <1>1, <1>6, <1>7, <1>9, SetOfConcat, RisingConcat
<1> QED  BY <1>1, <1>10

(* What a step does to the order. *)

\* The more prompts were repeated, the less is asked of the order.
LEMMA LessAsked ==
  ASSUME NEW R, NEW S, R \subseteq S
  PROVE  /\ \A x, y : Before(x, y, R) => Before(x, y, S)
         /\ \A s : Rising(s, R) => Rising(s, S)
         /\ \A A, B : AllBefore(A, B, R) => AllBefore(A, B, S)
<1>1. \A x, y : Before(x, y, R) => Before(x, y, S)
  BY DEF Before
<1> QED  BY <1>1 DEF Rising, AllBefore

\* No more prompts in the backend, or repeated ones, and elsewhere nothing moved.
LEMMA StillPlaced ==
  ASSUME Placed, at \notin Handing, at' \notin Handing, UNCHANGED <<stored, journal>>,
         repeated \subseteq repeated', Mine' \subseteq Mine \cup repeated', Rising(todo', repeated')
  PROVE  Placed'
<1> DEFINE R == repeated'
<1>1. /\ Rising(stored, repeated) /\ Rising(journal, repeated)
      /\ AllBefore(Mine, ToSet(stored), repeated)
      /\ AllBefore(ToSet(journal), Mine \cup ToSet(stored), repeated)
  BY DEF Placed, InPlace
<1>2. \A x, y : x \in R \/ y \in R => Before(x, y, R)
  BY DEF Before
<1>3. repeated \subseteq R /\ Mine' \subseteq Mine \cup R /\ Rising(todo', R)
  OBVIOUS
<1> HIDE DEF R
<1>4. /\ Rising(stored, R) /\ Rising(journal, R) /\ AllBefore(Mine, ToSet(stored), R)
      /\ AllBefore(ToSet(journal), Mine \cup ToSet(stored), R)
  BY <1>1, <1>3, LessAsked
<1>5. /\ AllBefore(Mine', ToSet(stored), R)
      /\ AllBefore(ToSet(journal), Mine' \cup ToSet(stored), R)
  BY <1>2, <1>3, <1>4 DEF AllBefore
<1>6. InPlace(at' \in Handing, journal, todo', Mine', stored, R)
  BY <1>3, <1>4, <1>5 DEF InPlace
<1>7. stored' = stored /\ journal' = journal /\ R = repeated'
  BY DEF R
<1> HIDE DEF Mine, Handing, InPlace
<1>8. Placed' = InPlace(at' \in Handing, journal', todo', Mine', stored', repeated')
  BY DEF Placed
<1> QED  BY <1>6, <1>7, <1>8

\* Prompts only leave, and none starts.
LEMMA StillOrdered ==
  ASSUME Order, repeated \subseteq repeated', UNCHANGED <<starts, issued>>,
         Waiting' \subseteq Waiting, Placed => Placed'
  PROVE  Order'
<1>1. Numbered'
  BY DEF Order, Numbered
<1>2. StartedOnce'
  BY DEF Order, StartedOnce
<1> QED  BY <1>1, <1>2 DEF Order

\* Steps that move no prompt in the database.
LEMMA QuietlyOrdered ==
  ASSUME Order, at \notin Handing, at' \notin Handing,
         UNCHANGED <<stored, journal, starts, issued, repeated>>,
         Memory' \subseteq Memory, Mine' \subseteq Mine, Rising(todo', repeated)
  PROVE  Order'
<1>1. Waiting' \subseteq Waiting
  BY DEF Waiting
<1>2. Placed => Placed'
  <2>1. repeated' = repeated
    OBVIOUS
  <2> QED  BY <2>1, StillPlaced
<1> QED  BY <1>1, <1>2, StillOrdered

LEMMA SmallTodo ==
  ASSUME TypeInv, NEW R
  PROVE  /\ todo = <<>> => Rising(todo, R)
         /\ Rising(<<>>, R)
         /\ entry.held \in Seq(Prompts) /\ Rising(entry.held, R)
<1>1. entry.held \in Seq(Prompts) /\ Len(entry.held) <= 1
  BY DEF TypeInv, Entries, Entry
<1>2. <<>> \in Seq(Prompts) /\ Len(<<>>) <= 1
  BY EmptySeq
<1> QED  BY <1>1, <1>2, RisingSmall

LEMMA ActivateOrder == Inv /\ Order /\ Activate => Order'
<1> SUFFICES ASSUME Inv, Order, Activate PROVE Order'
  OBVIOUS
<1>1. TypeInv /\ TypeInv' /\ todo = <<>> /\ todo' = <<>> /\ at \notin Storing /\ at' \notin Storing
  BY ActivateTypes DEF Inv, TypeInv, Phase, Activate, Storing, work
<1>2. entry'.held = entry.held \/ entry'.held = <<>>
  BY ActivateEntry DEF Inv
<1>3. Memory' \subseteq Memory /\ Mine' \subseteq Mine
  BY <1>1, <1>2, SetOfNone DEF Memory, Mine, Activate, work
<1> QED  BY <1>1, <1>3, SmallTodo, QuietlyOrdered DEF Activate, disk, history, Handing, Storing

LEMMA CheckOrder == Inv /\ Order /\ Check => Order'
<1> SUFFICES ASSUME Inv, Order, Check PROVE Order'
  OBVIOUS
<1>1. TypeInv /\ todo = <<>> /\ hand = <<>> /\ hand' = <<>> /\ at \notin Storing
  BY DEF Inv, TypeInv, Phase, Check, At, Storing
<1>2. entry'.held = entry.held
  BY WatchedEntry DEF Inv, TypeInv, Turns, Entries, Check, At
<1>3. todo' = <<>> \/ todo' = entry.held
  BY <1>1 DEF Check
<1>4. at' = "store" => todo' = entry.held
  BY DEF Check
<1>5. at' \notin Handing /\ (at' \in Storing => at' = "store")
  BY DEF Check, Handing, Storing
<1>6. Memory' \subseteq Memory
  BY <1>1, <1>2, <1>3, SetOfNone DEF Memory
<1>7. Mine' \subseteq Mine
  BY <1>1, <1>2, <1>4, <1>5, SetOfNone DEF Mine
<1>8. Rising(todo', repeated)
  BY <1>1, <1>3, SmallTodo
<1> QED  BY <1>1, <1>5, <1>6, <1>7, <1>8, QuietlyOrdered DEF Check, At, disk, Handing, Storing

\* A prompt that was before the whole queue is its head again.
LEMMA PutFirst ==
  ASSUME TypeInv, Order, NEW p \in Prompts, p \in Mine, p \in Memory,
         at \notin Handing, at' \notin Handing, Requeued(p),
         UNCHANGED <<starts, issued, repeated>>, Memory' = {}, Mine' = {}, todo' = <<>>
  PROVE  Order'
<1>1. stored \in Seq(Prompts) /\ journal' = journal /\ stored' = <<p>> \o stored
      /\ ToSet(stored') = {p} \cup ToSet(stored)
  BY RequeuedLists DEF TypeInv, Lists, Requeued
<1>2. Waiting' \subseteq Waiting
  BY <1>1 DEF Waiting
<1>3. ASSUME Placed PROVE Placed'
  <2>1. /\ Rising(stored, repeated) /\ Rising(journal, repeated) /\ AllBefore(Mine, ToSet(stored), repeated)
        /\ AllBefore(ToSet(journal), Mine \cup ToSet(stored), repeated)
    BY <1>3 DEF Placed, InPlace
  <2>2. AllBefore({p}, ToSet(stored), repeated)
    BY <2>1 DEF AllBefore
  <2>3. Rising(stored', repeated)
    BY <1>1, <2>1, <2>2, RisingCons
  <2>4. AllBefore(ToSet(journal), {} \cup ToSet(stored'), repeated) /\ AllBefore({}, ToSet(stored'), repeated)
    BY <1>1, <2>1 DEF AllBefore
  <2>5. Rising(todo', repeated)
    BY SmallTodo
  <2>6. InPlace(at' \in Handing, journal', todo', Mine', stored', repeated')
    BY <1>1, <2>1, <2>3, <2>4, <2>5 DEF InPlace
  <2> HIDE DEF Mine, Handing, InPlace
  <2> QED  BY <2>6 DEF Placed
<1> QED  BY <1>2, <1>3, StillOrdered

LEMMA StoreHeldOrder == Inv /\ Order /\ StoreHeld => Order'
<1> SUFFICES ASSUME Inv, Order, StoreHeld PROVE Order'
  OBVIOUS
<1>1. /\ TypeInv /\ at = "store" /\ todo \in Seq(Prompts) /\ todo # <<>> /\ Len(todo) <= 1
      /\ hand = <<>> /\ hand' = <<>> /\ entry \in Entry(turn.no) /\ turn.no \in Nat
      /\ UNCHANGED <<starts, issued, repeated>>
  BY DEF Inv, TypeInv, Phase, Lists, Entries, Turns, StoreHeld, At
<1>2. /\ Last(todo) \in Prompts /\ Front(todo) = <<>>
      /\ ToSet(todo) = {Last(todo)} \cup ToSet(Front(todo))
  <2>1. /\ Last(todo) \in Prompts /\ Front(todo) \in Seq(Prompts) /\ Len(Front(todo)) = Len(todo) - 1
        /\ ToSet(todo) = {Last(todo)} \cup ToSet(Front(todo)) /\ Len(todo) \in Nat
    BY <1>1, SetOfLast
  <2>2. ~(Len(Front(todo)) \in Nat \ {0})
    BY <1>1, <2>1
  <2> QED  BY <2>1, <2>2, EmptySeq
<1>3. Mine = {Last(todo)} /\ Last(todo) \in Memory
  BY <1>1, <1>2, SetOfNone DEF Mine, Memory, Storing
<1>4. CASE /\ Requeued(Last(todo)) \/ (deleted /\ UNCHANGED disk)
           /\ todo' = IF deleted THEN <<>> ELSE Front(todo)
           /\ IF todo' = <<>>
              THEN at' = "pop" /\ entry' = Reset([entry EXCEPT !.held = <<>>]) /\ again' = entry.held
              ELSE UNCHANGED <<at, entry, again>>
  <2>1. todo' = <<>> /\ at' = "pop" /\ entry' = Reset(Holding(entry, <<>>))
    BY <1>2, <1>4 DEF Holding
  <2>2. entry'.held = <<>>
    <3>1. \A h \in Seq(Prompts) : Holding(entry, h) \in Entry(turn.no) /\ Holding(entry, h).held = h
      BY <1>1, HeldEntry
    <3>2. Holding(entry, <<>>) \in Entry(turn.no) /\ Holding(entry, <<>>).held = <<>>
      BY <3>1, EmptySeq
    <3> QED  BY <1>1, <2>1, <3>2, ResetEntry
  <2>3. Memory' = {} /\ Mine' = {}
    BY <1>1, <2>1, <2>2, SetOfNone DEF Memory, Mine, Storing
  <2>4. at \notin Handing /\ at' \notin Handing
    BY <1>1, <2>1 DEF Handing
  <2>5. CASE Requeued(Last(todo))
    BY <1>1, <1>2, <1>3, <2>1, <2>3, <2>4, <2>5, PutFirst
  <2>6. CASE UNCHANGED disk
    <3>1. Rising(todo', repeated)
      BY <1>1, <2>1, SmallTodo
    <3> QED  BY <1>1, <2>3, <2>4, <2>6, <3>1, QuietlyOrdered DEF disk
  <2> QED  BY <1>4, <2>5, <2>6
<1>5. CASE /\ Retried([entry EXCEPT !.held = todo])
           /\ todo' = <<>> /\ at' = "idle" /\ UNCHANGED disk
  <2>1. entry'.held = todo
    <3>1. Retried(Holding(entry, todo))
      BY <1>5 DEF Holding
    <3>2. Holding(entry, todo) \in Entry(turn.no) /\ Holding(entry, todo).held = todo
      BY <1>1, HeldEntry
    <3>3. \A e \in Entry(turn.no) : Retried(e) => entry'.held = e.held
      BY <1>1, RetriedEntry
    <3> QED  BY <3>1, <3>2, <3>3
  <2>2. Mine' = {Last(todo)} /\ Memory' \subseteq Memory
    BY <1>1, <1>2, <1>5, <2>1, SetOfNone DEF Mine, Memory, Storing
  <2>3. Rising(todo', repeated)
    BY <1>1, <1>5, SmallTodo
  <2>4. at \notin Handing /\ at' \notin Handing
    BY <1>1, <1>5 DEF Handing
  <2> QED  BY <1>1, <1>3, <1>5, <2>2, <2>3, <2>4, QuietlyOrdered DEF disk
<1> QED  BY <1>4, <1>5 DEF StoreHeld

LEMMA PopOrder == Inv /\ Order /\ Pop => Order'
<1> SUFFICES ASSUME Inv, Order, Pop PROVE Order'
  OBVIOUS
<1>1. /\ TypeInv /\ at = "pop" /\ stored \in Seq(Prompts) /\ entry.held = <<>>
      /\ hand = <<>> /\ todo = <<>> /\ todo' = <<>>
      /\ entry \in Entry(turn.no) /\ turn.no \in Nat
      /\ UNCHANGED <<starts, issued, repeated, journal>>
  BY DEF Inv, TypeInv, Phase, Storing, Lists, Entries, Turns, Pop, At
<1>2. at \notin Handing /\ at' \notin Handing /\ at' \notin Storing /\ Rising(todo', repeated)
  BY <1>1, SmallTodo DEF Pop, Handing, Storing
<1>3. Mine = {} /\ Memory = {}
  BY <1>1, SetOfNone DEF Mine, Memory, Storing
<1>4. CASE /\ stored # <<>> /\ hand' = <<Head(stored)>> /\ stored' = Tail(stored) /\ UNCHANGED entry
  <2>1. /\ Head(stored) \in Prompts /\ Tail(stored) \in Seq(Prompts)
        /\ ToSet(stored) = {Head(stored)} \cup ToSet(stored')
    BY <1>1, <1>4, SetOfHead
  <2>2. ToSet(hand') = {Head(stored)}
    BY <1>4, <2>1, SetOfOne
  <2>3. Mine' = {Head(stored)} /\ Memory' = {Head(stored)}
    BY <1>1, <1>2, <1>4, <2>2, SetOfNone DEF Mine, Memory
  <2>4. Waiting' \subseteq Waiting
    BY <1>1, <2>1, <2>3 DEF Waiting
  <2>5. ASSUME Placed PROVE Placed'
    <3>1. /\ Rising(stored, repeated) /\ Rising(journal, repeated) /\ AllBefore(ToSet(journal), Mine \cup ToSet(stored), repeated)
      BY <1>2, <2>5 DEF Placed, InPlace
    <3>2. Rising(stored', repeated) /\ AllBefore({Head(stored)}, ToSet(stored'), repeated)
      BY <1>1, <1>4, <3>1, RisingTail
    <3>3. AllBefore(ToSet(journal), Mine' \cup ToSet(stored'), repeated)
      BY <2>1, <2>3, <3>1 DEF AllBefore
    <3>4. InPlace(at' \in Handing, journal', todo', Mine', stored', repeated')
      BY <1>1, <1>2, <2>3, <3>1, <3>2, <3>3 DEF InPlace
    <3> HIDE DEF Mine, Handing, InPlace
    <3> QED  BY <3>4 DEF Placed
  <2> QED  BY <1>1, <2>4, <2>5, StillOrdered
<1>5. ASSUME entry'.held = <<>>, UNCHANGED <<stored, hand>>
      PROVE  Order'
  <2>1. Mine' = {} /\ Memory' = {}
    BY <1>1, <1>2, <1>5, SetOfNone DEF Mine, Memory
  <2> QED  BY <1>1, <1>2, <1>5, <2>1, QuietlyOrdered
<1>6. CASE Removed /\ UNCHANGED <<stored, hand>>
  BY <1>1, <1>5, <1>6, RemovedEntry
<1>7. CASE Retried(entry) /\ UNCHANGED <<stored, hand>>
  <2>1. \A e \in Entry(turn.no) : Retried(e) => entry'.held = e.held
    BY <1>1, RetriedEntry
  <2> QED  BY <1>1, <1>5, <1>7, <2>1
<1> QED  BY <1>4, <1>6, <1>7 DEF Pop


LEMMA StartOrder == Inv /\ Order /\ Start => Order'
<1> SUFFICES ASSUME Inv, Order, Start PROVE Order'
  OBVIOUS
<1> DEFINE p == Head(hand)
<1>1. /\ TypeInv /\ at = "start" /\ hand # <<>> /\ entry \in Entry(turn.no) /\ turn.no \in Nat
      /\ starts \in [Prompts -> Nat] /\ issued \in Nat /\ entry.held = <<>>
      /\ todo = <<>> /\ todo' = <<>>
      /\ UNCHANGED <<issued, repeated, stored, journal>>
  BY DEF Inv, TypeInv, Phase, Storing, Entries, Turns, History, Start, disk
<1>2. p \in Prompts /\ ToSet(hand) = {p}
  BY <1>1, InHand
<1>3. at \notin Handing /\ at' \notin Handing /\ at' \notin Storing /\ Rising(todo', repeated)
  BY <1>1, SmallTodo DEF Start, Handing, Storing
<1>4. Mine = {p} /\ Memory = {p}
  BY <1>1, <1>2, SetOfNone DEF Mine, Memory, Storing
<1>5. CASE /\ starts' = [starts EXCEPT ![p] = @ + 1] /\ hand' = <<>> /\ entry' = Reset(entry)
  <2>1. entry'.held = <<>>
    BY <1>1, <1>5, ResetEntry
  <2>2. Mine' = {} /\ Memory' = {}
    BY <1>1, <1>3, <1>5, <2>1, SetOfNone DEF Mine, Memory
  <2>3. Waiting' = ToSet(stored) \cup ToSet(journal)
    BY <1>1, <2>2 DEF Waiting
  <2>4. Waiting' \subseteq Waiting /\ p \in Waiting
    BY <1>4, <2>3 DEF Waiting
  <2>5. /\ starts'[p] = starts[p] + 1 /\ starts[p] \in Nat
        /\ \A q \in Prompts : q # p => starts'[q] = starts[q]
    BY <1>1, <1>2, <1>5
  <2>6. p <= issued
    BY <2>4 DEF Order, Numbered
  <2>7. Numbered'
    <3>1. \A q \in Waiting' : q <= issued'
      BY <1>1, <2>4 DEF Order, Numbered
    <3>2. \A q \in Prompts : starts'[q] > 0 => q <= issued'
      BY <1>1, <2>5, <2>6 DEF Order, Numbered
    <3> QED  BY <3>1, <3>2 DEF Numbered
  <2>8. StartedOnce'
    <3>1. /\ AllBefore({p}, ToSet(stored), repeated)
          /\ AllBefore(ToSet(journal), {p} \cup ToSet(stored), repeated)
      BY <1>3, <1>4 DEF Order, Placed, InPlace
    <3>2. p \notin repeated => p \notin Waiting'
      <4>1. p \in Nat
        BY <1>2 DEF Prompts
      <4>2. ~(p < p)
        BY <4>1
      <4> QED  BY <2>3, <3>1, <4>2 DEF AllBefore, Before
    <3>3. p \notin repeated => starts'[p] <= 1
      <4>1. p \notin repeated => starts[p] <= 1 /\ starts[p] # 1
        BY <1>2, <2>4 DEF Order, StartedOnce
      <4> QED  BY <2>5, <4>1
    <3>4. \A q \in Prompts \ (repeated \cup {p}) :
            starts'[q] <= 1 /\ (starts'[q] = 1 => q \notin Waiting')
      BY <2>4, <2>5 DEF Order, StartedOnce
    <3>5. repeated' = repeated
      BY <1>1
    <3> QED  BY <3>2, <3>3, <3>4, <3>5 DEF StartedOnce
  <2>9. Placed => Placed'
    BY <1>1, <1>3, <1>4, <2>2, StillPlaced
  <2> QED  BY <1>1, <2>7, <2>8, <2>9 DEF Order
<1>6. ASSUME starts' = starts, entry' = entry, hand' = hand \/ hand' = <<>>
      PROVE  Order'
  <2>1. Mine' \subseteq Mine /\ Memory' \subseteq Memory
    BY <1>1, <1>3, <1>6, SetOfNone DEF Mine, Memory, Storing
  <2> QED  BY <1>1, <1>3, <1>6, <2>1, QuietlyOrdered
<1> QED  BY <1>5, <1>6 DEF Start

LEMMA PutBackOrder == Inv /\ Order /\ PutBack => Order'
<1> SUFFICES ASSUME Inv, Order, PutBack PROVE Order'
  OBVIOUS
<1>1. /\ TypeInv /\ at = "putback" /\ at' = "idle" /\ hand # <<>> /\ hand \in Seq(Prompts)
      /\ hand' = <<>> /\ entry.held = <<>> /\ todo = <<>> /\ todo' = <<>>
      /\ entry \in Entry(turn.no) /\ turn.no \in Nat
      /\ UNCHANGED <<issued, repeated, starts>>
  BY DEF Inv, TypeInv, Phase, Storing, Lists, Entries, Turns, PutBack, At
<1>2. Head(hand) \in Prompts /\ ToSet(hand) = {Head(hand)}
  BY <1>1, InHand
<1>3. at \notin Handing /\ at' \notin Handing /\ at' \notin Storing /\ Rising(todo', repeated)
  BY <1>1, SmallTodo DEF Handing, Storing
<1>4. Mine = {Head(hand)} /\ Memory = {Head(hand)}
  BY <1>1, <1>2, SetOfNone DEF Mine, Memory, Storing
<1>5. Mine' = ToSet(entry'.held) /\ Memory' = ToSet(entry'.held)
  BY <1>1, <1>3, SetOfNone DEF Mine, Memory
<1>6. \A e \in Entry(turn.no) : Retried(e) => entry'.held = e.held
  BY <1>1, RetriedEntry
<1>7. CASE Requeued(Head(hand)) /\ Retried(entry)
  <2>1. Mine' = {} /\ Memory' = {}
    BY <1>1, <1>5, <1>6, <1>7, SetOfNone
  <2>2. Head(hand) \in Mine /\ Head(hand) \in Memory
    BY <1>4
  <2> QED  BY <1>1, <1>2, <1>3, <1>7, <2>1, <2>2, PutFirst
<1>8. CASE Removed /\ UNCHANGED disk
  <2>1. Mine' = {} /\ Memory' = {}
    BY <1>1, <1>5, <1>8, RemovedEntry, SetOfNone
  <2> QED  BY <1>1, <1>3, <1>8, <2>1, QuietlyOrdered DEF disk
<1>9. CASE Retried([entry EXCEPT !.held = @ \o hand]) /\ UNCHANGED disk
  <2>1. Retried(Holding(entry, entry.held \o hand))
    BY <1>9 DEF Holding
  <2>2. entry.held \o hand = hand
    BY <1>1, ConcatEmptySeq
  <2>3. Holding(entry, hand) \in Entry(turn.no) /\ Holding(entry, hand).held = hand
    BY <1>1, HeldEntry
  <2>4. entry'.held = hand
    BY <1>6, <2>1, <2>2, <2>3
  <2>5. Mine' \subseteq Mine /\ Memory' \subseteq Memory
    BY <1>2, <1>4, <1>5, <2>4
  <2> QED  BY <1>1, <1>3, <1>9, <2>5, QuietlyOrdered DEF disk
<1> QED  BY <1>7, <1>8, <1>9 DEF PutBack

\* What is journalled is handed over in its order, before the queue.
LEMMA JournalOrder == Inv /\ Order /\ Journal => Order'
<1> SUFFICES ASSUME Inv, Order, Journal PROVE Order'
  OBVIOUS
<1>1. /\ TypeInv /\ journal \in Seq(Prompts) /\ entry.held \in Seq(Prompts)
      /\ at = "journal" /\ todo = <<>> /\ hand = <<>>
      /\ UNCHANGED <<issued, repeated, starts, stored, hand, entry>>
      /\ journal' = journal \o entry.held /\ todo' = journal' /\ at' = "stow"
  BY DEF Inv, TypeInv, Lists, Entries, Entry, Phase, Storing, Journal, At
<1>2. ToSet(journal') = ToSet(journal) \cup ToSet(entry.held)
  BY <1>1, SetOfConcat
<1>3. Waiting' \subseteq Waiting
  BY <1>1, <1>2 DEF Waiting, Memory
<1>4. ASSUME Placed PROVE Placed'
  <2>1. Mine = ToSet(entry.held) /\ Mine' = ToSet(journal')
    BY <1>1, SetOfNone DEF Mine, Storing
  <2>2. /\ Rising(stored, repeated) /\ Rising(journal, repeated) /\ AllBefore(ToSet(entry.held), ToSet(stored), repeated)
        /\ AllBefore(ToSet(journal), ToSet(entry.held) \cup ToSet(stored), repeated)
    BY <1>1, <1>4, <2>1 DEF Placed, InPlace, Handing
  <2>3. Rising(entry.held, repeated)
    BY <1>1, SmallTodo
  <2>4. AllBefore(ToSet(journal), ToSet(entry.held), repeated)
    BY <2>2 DEF AllBefore
  <2>5. Rising(journal', repeated)
    BY <1>1, <2>2, <2>3, <2>4, RisingConcat
  <2>6. AllBefore(ToSet(journal'), ToSet(stored), repeated)
    BY <1>2, <2>2 DEF AllBefore
  <2>7. at' \in Handing
    BY <1>1 DEF Handing
  <2>8. InPlace(at' \in Handing, journal', todo', Mine', stored', repeated')
    BY <1>1, <2>1, <2>2, <2>5, <2>6, <2>7 DEF InPlace
  <2> HIDE DEF Mine, Handing, InPlace
  <2> QED  BY <2>8 DEF Placed
<1> QED  BY <1>1, <1>3, <1>4, StillOrdered

\* Stored last first, the prompts keep their order before the queue.
LEMMA StowOrder == Inv /\ Order /\ Stow => Order'
<1> SUFFICES ASSUME Inv, Order, Stow PROVE Order'
  OBVIOUS
<1>1. /\ TypeInv /\ at = "stow" /\ todo \in Seq(Prompts) /\ todo # <<>> /\ stored \in Seq(Prompts)
      /\ at' \in Handing /\ at \in Handing /\ at \in Storing /\ at' \in Storing
      /\ UNCHANGED <<issued, repeated, starts, hand, entry>>
  BY DEF Inv, TypeInv, Phase, Lists, Stow, At, Handing, Storing
<1>2. /\ Last(todo) \in Prompts /\ Front(todo) \in Seq(Prompts)
      /\ ToSet(todo) = {Last(todo)} \cup ToSet(Front(todo))
  BY <1>1, SetOfLast
<1>3. Mine = ToSet(todo) /\ Mine' = ToSet(todo')
  BY <1>1 DEF Mine
<1>4. Placed => /\ Rising(todo, repeated) /\ Rising(stored, repeated) /\ Rising(journal, repeated)
                /\ AllBefore(ToSet(todo), ToSet(stored), repeated)
  BY <1>3 DEF Placed, InPlace
<1>5. CASE Requeued(Last(todo)) /\ todo' = Front(todo)
  <2>1. /\ ToSet(stored') = {Last(todo)} \cup ToSet(stored)
        /\ stored' = <<Last(todo)>> \o stored /\ journal' = journal
    BY <1>1, <1>2, <1>5, RequeuedLists DEF Requeued
  <2>2. Waiting' \subseteq Waiting
    BY <1>1, <1>2, <1>5, <2>1 DEF Waiting, Memory
  <2>3. ASSUME Placed PROVE Placed'
    <3>1. Rising(todo', repeated) /\ AllBefore(ToSet(todo'), {Last(todo)}, repeated)
      BY <1>1, <1>4, <1>5, <2>3, RisingFront
    <3>2. AllBefore({Last(todo)}, ToSet(stored), repeated)
      BY <1>2, <1>4, <2>3 DEF AllBefore
    <3>3. Rising(stored', repeated)
      BY <1>1, <1>2, <1>4, <2>1, <2>3, <3>2, RisingCons
    <3>4. AllBefore(ToSet(todo'), ToSet(stored'), repeated)
      BY <1>2, <1>4, <1>5, <2>1, <2>3, <3>1 DEF AllBefore
    <3>5. InPlace(at' \in Handing, journal', todo', Mine', stored', repeated')
      BY <1>1, <1>3, <1>4, <2>1, <2>3, <3>1, <3>3, <3>4 DEF InPlace
    <3> HIDE DEF Mine, Handing, InPlace
    <3> QED  BY <3>5 DEF Placed
  <2> QED  BY <1>1, <2>2, <2>3, StillOrdered
<1>6. ASSUME UNCHANGED disk, todo' = todo \/ todo' = <<>>
      PROVE  Order'
  <2>1. Waiting' \subseteq Waiting /\ ToSet(todo') \subseteq ToSet(todo)
    BY <1>1, <1>6, SetOfNone DEF Waiting, Memory, disk
  <2>2. ASSUME Placed PROVE Placed'
    <3>1. Rising(todo', repeated)
      BY <1>1, <1>4, <1>6, <2>2, SmallTodo
    <3>2. AllBefore(ToSet(todo'), ToSet(stored'), repeated)
      BY <1>4, <1>6, <2>1, <2>2 DEF AllBefore, disk
    <3>3. Rising(stored', repeated)
      BY <1>4, <1>6, <2>2 DEF disk
    <3>4. InPlace(at' \in Handing, journal', todo', Mine', stored', repeated')
      BY <1>1, <1>3, <1>4, <1>6, <2>2, <3>1, <3>2, <3>3 DEF InPlace, disk
    <3> HIDE DEF Mine, Handing, InPlace
    <3> QED  BY <3>4 DEF Placed
  <2> QED  BY <1>1, <2>1, <2>2, StillOrdered
<1> QED  BY <1>5, <1>6 DEF Stow

\* What could not be stored is journalled again, before the queue.
LEMMA SettleOrder == Inv /\ Order /\ Settle => Order'
<1> SUFFICES ASSUME Inv, Order, Settle PROVE Order'
  OBVIOUS
<1>1. /\ TypeInv /\ at = "settle" /\ at \in Storing
      /\ journal' = todo /\ at' = "idle" /\ hand' = <<>> /\ todo' = <<>> /\ entry'.held = <<>>
      /\ UNCHANGED <<issued, starts, repeated, stored>>
  BY NoEntryHeld DEF Inv, TypeInv, Settle, Comes, history, Storing
<1>2. Mine' = {} /\ Memory' = {}
  BY <1>1, SetOfNone DEF Mine, Memory, Storing
<1>3. Waiting' \subseteq Waiting
  BY <1>1, <1>2 DEF Waiting, Memory
<1>4. ASSUME Placed PROVE Placed'
  <2>1. Rising(todo, repeated) /\ Rising(stored, repeated) /\ AllBefore(ToSet(todo), ToSet(stored), repeated)
    BY <1>1, <1>4 DEF Placed, InPlace, Mine
  <2>2. Rising(todo', repeated)
    BY <1>1, SmallTodo
  <2>3. InPlace(at' \in Handing, journal', todo', Mine', stored', repeated')
    BY <1>1, <1>2, <2>1, <2>2 DEF InPlace, AllBefore
  <2> HIDE DEF Mine, Handing, InPlace
  <2> QED  BY <2>3 DEF Placed
<1> QED  BY <1>1, <1>3, <1>4, StillOrdered


LEMMA MessageHeld ==
  ASSUME TypeInv, Receive \/ TimerFires \/ Turn
  PROVE  entry'.held = entry.held
<1> DEFINE n == turn.no
<1>1. entry \in Entry(n)
  BY DEF TypeInv, Entries
<1> HIDE DEF n
<1>2. ASSUME NEW t, entry' = [entry EXCEPT !.timer = t]
      PROVE  entry'.held = entry.held
  BY <1>1, <1>2 DEF Entry
<1>3. ASSUME NEW w, entry' = [entry EXCEPT !.watching = @ \ {w}]
      PROVE  entry'.held = entry.held
  BY <1>1, <1>3 DEF Entry
<1> QED  BY <1>2, <1>3 DEF Receive, TimerFires, Turn, TurnEnds, ChainGoesOn,
            TurnUnregistered, memory

\* Messages, timers and turns move no prompt.
LEMMA MessageOrder == Inv /\ Order /\ (Receive \/ TimerFires \/ Turn) => Order'
<1> SUFFICES ASSUME Inv, Order, Receive \/ TimerFires \/ Turn PROVE Order'
  OBVIOUS
<1>1. UNCHANGED <<issued, starts, repeated, stored, journal, hand, todo>> /\ entry'.held = entry.held
  BY MessageHeld DEF Inv, Receive, TimerFires, Turn, TurnEnds, ChainGoesOn, TurnUnregistered,
     disk, work, history
<1>2. at' = at \/ (at \notin Storing /\ at' \notin Storing)
  BY DEF Receive, TimerFires, Turn, TurnEnds, ChainGoesOn, TurnUnregistered, Idle, Storing
<1>3. Memory' = Memory /\ Mine' = Mine /\ Waiting' = Waiting /\ (at' \in Handing <=> at \in Handing)
  BY <1>1, <1>2 DEF Memory, Mine, Waiting, Storing, Handing
<1>4. Placed => Placed'
  BY <1>1, <1>3 DEF Placed, InPlace
<1> QED  BY <1>1, <1>3, <1>4, StillOrdered

\* An accepted prompt is the last.
LEMMA AcceptOrder ==
  ASSUME TypeInv, Order, Accept, UNCHANGED <<starts, hand, entry, todo, repeated>>,
         at' = at \/ (at \notin Storing /\ at' \notin Storing)
  PROVE  Order'
<1>1. /\ stored \in Seq(Prompts) /\ issued \in Nat /\ issued + 1 \in Prompts
      /\ ToSet(stored') = ToSet(stored) \cup {issued + 1} /\ stored' = Append(stored, issued + 1)
      /\ journal' = journal /\ issued' = issued + 1
      /\ starts \in [Prompts -> Nat]
  <2>1. stored \in Seq(Prompts) /\ starts \in [Prompts -> Nat]
    BY DEF TypeInv, Lists, History
  <2>2. issued < MaxPrompts /\ stored' = Append(stored, issued + 1)
    BY DEF Accept
  <2>3. /\ issued \in Nat /\ issued' = issued + 1 /\ journal' = journal
        /\ ToSet(stored') = ToSet(stored) \cup {issued + 1}
    BY AcceptLists
  <2>4. issued + 1 \in Prompts
    BY <2>2, <2>3, PromptBounds DEF Prompts
  <2> QED  BY <2>1, <2>2, <2>3, <2>4
<1>2. Memory' = Memory /\ Mine' = Mine /\ (at' \in Handing <=> at \in Handing)
  BY DEF Memory, Mine, Storing, Handing
<1>3. Waiting' = Waiting \cup {issued + 1}
  BY <1>1, <1>2 DEF Waiting
<1>4. \A p \in Waiting : p < issued + 1
  <2>1. Waiting \subseteq Nat
    BY WaitingPrompts DEF Prompts
  <2> QED  BY <1>1, <2>1 DEF Order, Numbered
<1>5. Numbered'
  <2>1. \A p \in Waiting' : p <= issued'
    <3>1. \A p \in Waiting : p \in Nat
      BY WaitingPrompts DEF Prompts
    <3> QED  BY <1>1, <1>3, <1>4, <3>1
  <2>2. \A p \in Prompts : starts[p] > 0 => p <= issued + 1
    BY <1>1 DEF Order, Numbered, Prompts
  <2> QED  BY <1>1, <2>1, <2>2 DEF Numbered
<1>6. StartedOnce => StartedOnce'
  <2>1. starts[issued + 1] # 1
    BY <1>1 DEF Order, Numbered
  <2> QED  BY <1>3, <2>1 DEF StartedOnce
<1>7. ASSUME Placed PROVE Placed'
  <2>1. Mine \subseteq Waiting /\ ToSet(stored) \subseteq Waiting /\ ToSet(journal) \subseteq Waiting
    BY DEF Mine, Waiting, Memory
  <2>2. AllBefore(Waiting, {issued + 1}, repeated)
    BY <1>4 DEF AllBefore, Before
  <2>3. /\ Rising(stored, repeated) /\ Rising(todo, repeated) /\ AllBefore(Mine, ToSet(stored), repeated)
        /\ Rising(journal, repeated)
        /\ at \notin Handing => AllBefore(ToSet(journal), Mine \cup ToSet(stored), repeated)
    BY <1>7 DEF Placed, InPlace
  <2>4. Rising(stored', repeated)
    <3>1. AllBefore(ToSet(stored), {issued + 1}, repeated)
      BY <2>1, <2>2 DEF AllBefore
    <3> QED  BY <1>1, <2>3, <3>1, RisingAppend
  <2>5. AllBefore(Mine, ToSet(stored'), repeated)
    BY <1>1, <2>1, <2>2, <2>3 DEF AllBefore
  <2>6. at \notin Handing => AllBefore(ToSet(journal), Mine \cup ToSet(stored'), repeated)
    BY <1>1, <2>1, <2>2, <2>3 DEF AllBefore
  <2>7. todo' = todo
    OBVIOUS
  <2>8. InPlace(at' \in Handing, journal', todo', Mine', stored', repeated')
    BY <1>1, <1>2, <2>3, <2>4, <2>5, <2>6, <2>7 DEF InPlace
  <2> HIDE DEF Mine, Handing, InPlace
  <2> QED  BY <2>8 DEF Placed
<1> QED  BY <1>5, <1>6, <1>7 DEF Order

\* A prompt that is taken out leaves the others in order.
LEMMA WithoutOrder ==
  ASSUME TypeInv, Order, NEW i \in DOMAIN stored, Without(i),
         UNCHANGED <<issued, starts, hand, entry, todo, journal, repeated, at>>
  PROVE  Order'
<1>1. /\ stored \in Seq(Prompts) /\ stored' = RemoveAt(stored, i)
  BY DEF TypeInv, Lists, Without
<1>2. Memory' = Memory /\ Mine' = Mine
  BY DEF Memory, Mine
<1>3. ToSet(stored') \subseteq ToSet(stored)
  BY <1>1, RemoveAtLess
<1>4. Waiting' \subseteq Waiting
  BY <1>2, <1>3 DEF Waiting
<1>5. ASSUME Placed PROVE Placed'
  <2>1. /\ Rising(stored, repeated) /\ Rising(todo, repeated) /\ AllBefore(Mine, ToSet(stored), repeated)
        /\ Rising(journal, repeated)
        /\ at \notin Handing => AllBefore(ToSet(journal), Mine \cup ToSet(stored), repeated)
    BY <1>5 DEF Placed, InPlace
  <2>2. Rising(stored', repeated)
    BY <1>1, <2>1, RisingRemoveAt
  <2>3. AllBefore(Mine, ToSet(stored'), repeated)
    BY <1>3, <2>1 DEF AllBefore
  <2>4. at \notin Handing => AllBefore(ToSet(journal), Mine \cup ToSet(stored'), repeated)
    BY <1>3, <2>1 DEF AllBefore
  <2>5. todo' = todo /\ journal' = journal /\ at' = at
    OBVIOUS
  <2>6. InPlace(at' \in Handing, journal', todo', Mine', stored', repeated')
    BY <1>2, <2>1, <2>2, <2>3, <2>4, <2>5 DEF InPlace
  <2> HIDE DEF Mine, Handing, InPlace
  <2> QED  BY <2>6 DEF Placed
<1> QED  BY <1>4, <1>5, StillOrdered

\* Every other command of the user leaves the prompts alone.
LEMMA UserOrder == Inv /\ Order /\ User => Order'
<1> SUFFICES ASSUME Inv, Order, User PROVE Order'
  OBVIOUS
<1>1. /\ TypeInv /\ at \notin Storing /\ at' \notin Storing /\ at \notin Handing /\ at' \notin Handing
      /\ UNCHANGED <<entry, hand, todo, starts, repeated>> /\ todo = <<>> /\ at = "idle"
  BY DEF Inv, TypeInv, Phase, User, Enqueue, Send, StopTurn, ResumeQueue, EditQueue, Switch, Command,
     Idle, Storing, Handing, work, history
<1>2. CASE Enqueue
  BY <1>1, <1>2, AcceptOrder DEF Enqueue
<1>3. CASE EditQueue
  BY <1>1, <1>3, WithoutOrder DEF EditQueue
<1>4. CASE Send \/ StopTurn \/ ResumeQueue \/ Switch
  <2>1. UNCHANGED <<stored, journal, issued>>
    BY <1>4 DEF Send, StopTurn, ResumeQueue, Switch, disk
  <2>2. Memory' = Memory /\ Mine' = Mine
    BY <1>1 DEF Memory, Mine
  <2>3. Rising(todo', repeated)
    BY <1>1, SmallTodo
  <2> QED  BY <1>1, <2>1, <2>2, <2>3, QuietlyOrdered
<1> QED  BY <1>2, <1>3, <1>4 DEF User

LEMMA OtherWindowOrder == Inv /\ Order /\ OtherWindow => Order'
<1> SUFFICES ASSUME Inv, Order, OtherWindow PROVE Order'
  OBVIOUS
<1>1. TypeInv /\ UNCHANGED <<entry, hand, todo, starts, repeated, at>>
  BY DEF Inv, OtherWindow, memory, work
<1>2. CASE Accept
  BY <1>1, <1>2, AcceptOrder
<1>3. CASE (\E i \in DOMAIN stored : Without(i)) /\ UNCHANGED <<journal, issued>>
  BY <1>1, <1>3, WithoutOrder
<1>4. CASE UNCHANGED <<stored, journal, issued>>
  <2>1. Mine' = Mine /\ Waiting' = Waiting
    BY <1>1, <1>4 DEF Memory, Mine, Waiting
  <2>2. Placed => Placed'
    BY <1>1, <1>4, <2>1 DEF Placed, InPlace
  <2> QED  BY <1>1, <1>4, <2>1, <2>2, StillOrdered
<1> QED  BY <1>2, <1>3, <1>4 DEF OtherWindow

\* The prompts of its own line are those the backend has.
LEMMA OwnIsMine ==
  ASSUME TypeInv
  PROVE  Own \in Seq(Prompts) /\ ToSet(Own) = Mine
<1>1. todo \in Seq(Prompts) /\ hand \in Seq(Prompts) /\ entry.held \in Seq(Prompts)
  BY DEF TypeInv, Lists, Entries, Entry
<1>2. /\ hand \o entry.held \in Seq(Prompts)
      /\ ToSet(hand \o entry.held) = ToSet(hand) \cup ToSet(entry.held)
  BY <1>1, SetOfConcat
<1> QED  BY <1>1, <1>2 DEF Own, Mine, Storing

\* A backend that ends with nothing on its way leaves the queue in order, and
\* what a hand-over had stored when it was killed counts as repeated.
LEMMA KillOrder == Inv /\ Order /\ Kill => Order'
<1> SUFFICES ASSUME Inv, Order, Kill PROVE Order'
  OBVIOUS
<1> DEFINE R == repeated'
<1>1. /\ TypeInv /\ UNCHANGED <<issued, starts, stored, journal>>
      /\ at' \notin Storing /\ at' \notin Handing /\ repeated \subseteq R
      /\ hand' = <<>> /\ todo' = <<>> /\ entry' = NoEntry
  BY DEF Inv, Kill, Comes, Storing, Handing, disk
<1>2. Mine' = {} /\ Memory' = {} /\ Rising(todo', R)
  BY <1>1, SetOfNone, NoEntryHeld, SmallTodo DEF Mine, Memory
<1>3. Waiting' \subseteq Waiting
  BY <1>1, <1>2 DEF Waiting
<1>4. CASE at \notin Handing
  BY <1>1, <1>2, <1>3, <1>4, StillPlaced, StillOrdered DEF Order
<1>5. CASE at \in Handing
  <2>1. at \in Storing /\ ToSet(journal) \subseteq ToSet(todo) \cup R
    BY <1>5 DEF Kill, Handing, Storing
  <2>2. /\ Rising(journal, repeated) /\ Rising(stored, repeated)
        /\ AllBefore(ToSet(todo), ToSet(stored), repeated)
    BY <2>1 DEF Order, Placed, InPlace, Mine
  <2>3. \A x, y : x \in R => Before(x, y, R)
    BY DEF Before
  <2>4. repeated \subseteq R
    BY <1>1
  <2> HIDE DEF R
  <2>5. /\ Rising(journal, R) /\ Rising(stored, R)
        /\ AllBefore(ToSet(todo), ToSet(stored), R)
    BY <2>2, <2>4, LessAsked
  <2>6. AllBefore(ToSet(journal), ToSet(stored), R)
    BY <2>1, <2>3, <2>5 DEF AllBefore
  <2>7. InPlace(at' \in Handing, journal', todo', Mine', stored', R)
    BY <1>1, <1>2, <2>5, <2>6 DEF InPlace, AllBefore
  <2>8. Placed'
    <3>1. R = repeated'
      BY DEF R
    <3> HIDE DEF Mine, Handing, InPlace
    <3> QED  BY <2>7, <3>1 DEF Placed
  <2> QED  BY <1>1, <1>3, <2>4, <2>8, StillOrdered DEF R
<1> QED  BY <1>4, <1>5

\* What a handler that raises hands over is still on its way, or was stored
\* again and counts as repeated.
LEMMA RaiseOrder == Inv /\ Order /\ Recalled /\ Raise => Order'
<1> SUFFICES ASSUME Inv, Order, Recalled, Raise PROVE Order'
  OBVIOUS
<1> DEFINE held == again \o entry.held
           R == repeated'
<1>1. /\ TypeInv /\ TypeInv' /\ held \in Seq(Prompts) /\ Len(held) <= 1
      /\ ToSet(held) = ToSet(again) \cup ToSet(entry.held)
  BY HeldBefore, RaiseTypes DEF Inv
<1>2. HandsOver(held) /\ R = repeated \cup (ToSet(held) \ Mine) /\ at \notin Handing
  BY <1>1, OwnIsMine DEF Raise, Handing
<1> HIDE DEF held
<1>3. /\ entry'.held = held /\ hand' = <<>> /\ todo' = <<>> /\ at' \in {"idle", "journal"}
      /\ UNCHANGED <<stored, journal, starts, issued>>
  BY <1>1, <1>2, HandsOverTypes
<1>4. at' \notin Storing /\ at' \notin Handing
  BY <1>3 DEF Storing, Handing
<1>5. Mine' = ToSet(held) /\ Memory' = ToSet(held)
  BY <1>3, <1>4, SetOfNone DEF Mine, Memory
<1>6. Placed'
  <2>1. Rising(todo', R)
    BY <1>1, <1>3, SmallTodo
  <2>2. repeated \subseteq R /\ Mine' \subseteq Mine \cup R
    BY <1>2, <1>5
  <2> QED  BY <1>2, <1>3, <1>4, <2>1, <2>2, StillPlaced DEF Order
<1>7. ToSet(entry.held) \subseteq Waiting /\ Mine \subseteq Waiting
  BY DEF Waiting, Memory, Mine
<1>8. Waiting' \subseteq Waiting \cup ToSet(again) /\ Waiting' \subseteq Waiting \cup R
  <2>1. Waiting' \subseteq Waiting \cup ToSet(held)
    BY <1>3, <1>5 DEF Waiting
  <2> QED  BY <1>1, <1>2, <1>7, <2>1
<1>9. Numbered'
  BY <1>3, <1>8 DEF Order, Numbered, Recalled
<1>10. StartedOnce'
  BY <1>2, <1>3, <1>8 DEF Order, StartedOnce
<1> QED  BY <1>6, <1>9, <1>10 DEF Order

\* A backend that stops between two handlers, or starts, moves nothing.
LEMMA StopOrder == Inv /\ Order /\ (Terminate \/ Restart) => Order'
<1> SUFFICES ASSUME Inv, Order, Terminate \/ Restart PROVE Order'
  OBVIOUS
<1>1. /\ TypeInv /\ at = "idle" /\ hand = <<>> /\ todo = <<>>
      /\ UNCHANGED <<issued, starts, stored, journal, repeated>>
      /\ at \notin Handing /\ at' \notin Handing /\ at' \notin Storing
  BY DEF Inv, TypeInv, Phase, Terminate, Restart, HandsOver, Comes, Idle, Storing, Handing,
         disk, history
<1>2. hand' = <<>> /\ todo' = <<>> /\ (entry'.held = entry.held \/ entry'.held = <<>>)
  <2>1. CASE Terminate
    <3>1. entry.held \in Seq(Prompts) /\ Len(entry.held) <= 1
      BY <1>1 DEF TypeInv, Entries, Entry
    <3> QED  BY <1>1, <2>1, <3>1, HandsOverTypes DEF Terminate
  <2>2. CASE Restart
    BY <1>1, <2>2, NoEntryHeld DEF Restart, Comes, work
  <2> QED  BY <2>1, <2>2
<1>3. Memory' \subseteq Memory /\ Mine' \subseteq Mine
  BY <1>1, <1>2, SetOfNone DEF Memory, Mine, Storing
<1>4. Rising(todo', repeated)
  BY <1>1, <1>2, SmallTodo
<1> QED  BY <1>1, <1>3, <1>4, QuietlyOrdered

LEMMA InitOrder == Init => Order
<1> SUFFICES ASSUME Init PROVE Order
  OBVIOUS
<1>1. stored = <<>> /\ journal = <<>> /\ todo = <<>> /\ hand = <<>> /\ entry.held = <<>> /\ at = "idle"
  BY NoEntryHeld DEF Init
<1>2. Waiting = {} /\ Mine = {}
  BY <1>1, SetOfNone DEF Waiting, Memory, Mine, Storing
<1>3. \A p \in Prompts : starts[p] = 0
  BY DEF Init
<1>0. <<>> \in Seq(Prompts) /\ Len(<<>>) <= 1
  BY EmptySeq
<1>4. Rising(<<>>, repeated)
  BY <1>0, RisingSmall
<1>5. Placed
  BY <1>1, <1>2, <1>4, SetOfNone DEF Placed, InPlace, AllBefore
<1>6. StartedOnce /\ Numbered
  BY <1>2, <1>3 DEF StartedOnce, Numbered
<1> QED  BY <1>5, <1>6 DEF Order

\* What a handler remembers was in its hands, and every prompt there was accepted.
LEMMA RecalledStep == Inv /\ Order /\ Recalled /\ [Next]_vars => Recalled'
<1> SUFFICES ASSUME Inv, Order, Recalled, [Next]_vars PROVE Recalled'
  OBVIOUS
<1>1. again' = again \/ again' = <<>> \/ again' = entry.held
  BY DEF Next, vars, work, Backend, Activate, Check, StoreHeld, Pop, Start, PutBack, Journal,
         Stow, Settle, Receive, TimerFires, Turn, TurnEnds, ChainGoesOn, TurnUnregistered, User,
         Enqueue, Send, StopTurn, ResumeQueue, EditQueue, Switch, Command, OtherWindow,
         Terminate, Raise, Kill, Restart, HandsOver, Comes, Remembers
<1>2. issued' = issued \/ issued' = issued + 1
  BY DEF Next, vars, Backend, Activate, Check, StoreHeld, Pop, Start, PutBack, Journal, At,
         Stow, Settle, Receive, TimerFires, Turn, TurnEnds, ChainGoesOn, TurnUnregistered, User,
         Enqueue, Send, StopTurn, ResumeQueue, EditQueue, Switch, OtherWindow, Accept,
         Terminate, Raise, Kill, Restart, HandsOver
<1>3. \A p \in ToSet(again) \cup ToSet(entry.held) : p \in Nat /\ p <= issued
  <2>1. ToSet(entry.held) \subseteq Waiting
    BY DEF Waiting, Memory
  <2>2. ToSet(again) \subseteq Prompts /\ ToSet(entry.held) \subseteq Prompts
    BY HeldBefore DEF Inv
  <2> QED  BY <2>1, <2>2 DEF Order, Numbered, Recalled, Prompts
<1>4. ToSet(again') \subseteq ToSet(again) \cup ToSet(entry.held)
  BY <1>1, SetOfNone
<1>5. issued \in Nat
  BY DEF Inv, TypeInv, History
<1> QED  BY <1>2, <1>3, <1>4, <1>5 DEF Recalled

LEMMA OrderStep == Inv /\ Order /\ Recalled /\ [Next]_vars => Order'
<1> SUFFICES ASSUME Inv, Order, Recalled, [Next]_vars PROVE Order'
  OBVIOUS
<1>1. CASE UNCHANGED vars
  <2>1. UNCHANGED <<stored, journal, todo, hand, entry, at, starts, issued, repeated>>
    BY <1>1 DEF vars, disk, memory, work, history
  <2>2. Mine' = Mine /\ Waiting' = Waiting
    BY <2>1 DEF Mine, Waiting, Memory
  <2>3. Placed => Placed'
    BY <2>1, <2>2 DEF Placed, InPlace
  <2> QED  BY <2>1, <2>2, <2>3, StillOrdered
<1>2. CASE Backend
  BY <1>2, ActivateOrder, CheckOrder, StoreHeldOrder, PopOrder, StartOrder, PutBackOrder,
     JournalOrder, StowOrder, SettleOrder DEF Backend
<1> QED  BY <1>1, <1>2, MessageOrder, UserOrder, OtherWindowOrder, StopOrder, RaiseOrder, KillOrder DEF Next

\* What InLine says of the sequence of all prompts follows from their places.
LEMMA OrderInLine == Inv /\ Order => InLine
<1> SUFFICES ASSUME Inv, Order PROVE InLine
  OBVIOUS
<1>1. /\ TypeInv /\ stored \in Seq(Prompts) /\ todo \in Seq(Prompts)
      /\ hand \in Seq(Prompts) /\ Len(hand) <= 1
      /\ entry.held \in Seq(Prompts) /\ Rising(entry.held, repeated) /\ (hand # <<>> => entry.held = <<>>)
  BY SmallTodo DEF Inv, TypeInv, Lists, Phase, Storing
<1>2. Rising(stored, repeated) /\ Rising(todo, repeated) /\ AllBefore(Mine, ToSet(stored), repeated)
  BY DEF Order, Placed, InPlace
<1>3. Own \in Seq(Prompts) /\ Rising(Own, repeated) /\ ToSet(Own) = Mine
  <2>1. CASE at \in Storing
    BY <1>1, <1>2, <2>1 DEF Mine, Own, Storing
  <2>2. CASE at \notin Storing
    <3>1. Own = hand \o entry.held /\ Mine = ToSet(hand) \cup ToSet(entry.held)
      BY <2>2 DEF Mine, Own, Storing
    <3>2. hand \o entry.held \in Seq(Prompts) /\ ToSet(hand \o entry.held) = Mine
      BY <1>1, <3>1, SetOfConcat
    <3>3. hand \o entry.held = IF hand = <<>> THEN entry.held ELSE hand
      BY <1>1, ConcatEmptySeq
    <3>4. Rising(hand, repeated)
      BY <1>1, RisingSmall
    <3> QED  BY <1>1, <3>1, <3>2, <3>3, <3>4
  <2> QED  BY <2>1, <2>2
<1>4. Own \o stored \in Seq(Prompts) /\ Rising(Own \o stored, repeated)
  BY <1>1, <1>2, <1>3, RisingConcat, SetOfConcat
<1>5. Line = Own \o stored
  BY DEF Line
<1>6. \A i, j \in DOMAIN Line :
        i < j => Line[i] < Line[j] \/ Line[i] \in repeated \/ Line[j] \in repeated
  BY <1>4, <1>5 DEF Rising, Before
<1>7. \A p \in Prompts \ repeated : starts[p] <= 1 /\ (starts[p] = 1 => p \notin Waiting)
  BY DEF Order, StartedOnce
<1> QED  BY <1>6, <1>7 DEF InLine

\* Where every prompt stands: before all that were accepted later, in the
\* journal, in the backend and in the queue, unless a killed hand-over or a
\* handler that raised handed it over although it was stored already.  It holds
\* in each step of the handler and whatever stops it.
THEOREM QueueOrder == Spec => [](Inv /\ Order /\ Recalled)
<1>1. Init => Inv /\ Order /\ Recalled
  BY InitInv, InitOrder, SetOfNone DEF Init, Recalled
<1>2. (Inv /\ Order /\ Recalled) /\ [Next]_vars => (Inv /\ Order /\ Recalled)'
  BY InvStep, OrderStep, RecalledStep
<1> QED  BY <1>1, <1>2, PTL DEF Spec

\* Prompts are taken in the order in which they were accepted and none is started
\* twice or waits after it was started, however often starts and put-backs fail
\* and the backend stops between two handlers.  The two ends that do repeat a
\* prompt are a kill in the middle of a hand-over and a handler that raises after
\* it stored a held prompt again; what they repeat is in repeated, and left out.
THEOREM QueueInLine == Spec => []InLine
BY QueueOrder, OrderInLine, PTL

-----------------------------------------------------------------------------
(* What wakes the queue.  A message may be stale when it is read, so        *)
(* NeverStranded, which counts every message, is not inductive: Woken       *)
(* counts those that the entry still answers to, and Told says that a       *)
(* retry that is due is not waited for in vain.                             *)

Sent(m) == m \in ToSet(inbox)

Timeout(gen) == [kind |-> "timeout", gen |-> gen]
Drain(gen) == [kind |-> "drain", gen |-> gen]
Down(t) == [kind |-> "down", turn |-> t]

Told == entry.timer = "due" => Sent(Timeout(entry.gen))

Woken ==
  \/ entry.timer # "none"
  \/ Sent(Drain(entry.gen))
  \/ Live /\ turn.no \in entry.watching
  \/ \E t \in entry.watching : Sent(Down(t))

Owing == at = "idle" /\ entry # NoEntry /\ ~paused /\ ~deleted /\ ~lifted

Alert == life = "up" => Told /\ (Owing => Woken)

\* The inbox is a sequence, of whatever messages.
Inboxed == inbox \in Seq(ToSet(inbox))

Awake == Inboxed /\ Alert

LEMMA SeqOfSet ==
  ASSUME NEW S, NEW s \in Seq(S)
  PROVE  s \in Seq(ToSet(s))
BY DEF ToSet

LEMMA SeqGrows ==
  ASSUME NEW S, NEW T, S \subseteq T, NEW s \in Seq(S)
  PROVE  s \in Seq(T)
OBVIOUS

LEMMA Appended ==
  ASSUME Inboxed, NEW m, inbox' = Append(inbox, m)
  PROVE  Inboxed' /\ ToSet(inbox') = ToSet(inbox) \cup {m}
<1> DEFINE T == ToSet(inbox) \cup {m}
<1>1. inbox \in Seq(T) /\ m \in T
  BY SeqGrows DEF Inboxed
<1> HIDE DEF T
<1>2. inbox' \in Seq(T) /\ ToSet(inbox') = ToSet(inbox) \cup {m}
  BY <1>1, SetOfAppend
<1>3. inbox' \in Seq(ToSet(inbox'))
  BY <1>2, SeqOfSet
<1> QED  BY <1>2, <1>3 DEF Inboxed

LEMMA Taken ==
  ASSUME Inboxed, inbox # <<>>, inbox' = Tail(inbox)
  PROVE  Inboxed' /\ ToSet(inbox) = {Head(inbox)} \cup ToSet(inbox')
<1> DEFINE T == ToSet(inbox)
<1>1. inbox \in Seq(T)
  BY DEF Inboxed
<1> HIDE DEF T
<1>2. inbox' \in Seq(T) /\ ToSet(inbox) = {Head(inbox)} \cup ToSet(inbox')
  BY <1>1, SetOfHead
<1>3. inbox' \in Seq(ToSet(inbox'))
  BY <1>2, SeqOfSet
<1> QED  BY <1>2, <1>3 DEF Inboxed

\* The elements at some positions of a sequence are a sequence.
LEMMA RestrictedIsSeq ==
  ASSUME NEW S, NEW s \in Seq(S), NEW K \in SUBSET DOMAIN s
  PROVE  Restricted(s, K) \in Seq(ToSet(Restricted(s, K)))
<1>1. IsFiniteSet(K)
  <2>1. DOMAIN s = 1 .. Len(s) /\ Len(s) \in Nat
    OBVIOUS
  <2>2. IsFiniteSet(1 .. Len(s))
    BY <2>1, FS_Interval
  <2> QED  BY <2>1, <2>2, FS_Subset
<1>2. Cardinality(K) \in Nat
  BY <1>1, FS_CardinalityType
<1> DEFINE n == Cardinality(K)
           V(j) == s[CHOOSE i \in K : Cardinality({k \in K : k <= i}) = j]
           T == {V(j) : j \in 1 .. n}
<1>3. Restricted(s, K) = [j \in 1 .. n |-> V(j)]
  BY DEF Restricted
<1>4. \A j \in 1 .. n : V(j) \in T
  OBVIOUS
<1>5. n \in Nat
  BY <1>2
<1> HIDE DEF n, V, T
<1>6. [j \in 1 .. n |-> V(j)] \in Seq(T)
  BY <1>4, <1>5
<1>7. Restricted(s, K) \in Seq(T)
  BY <1>3, <1>6
<1> QED  BY <1>7, SeqOfSet

LEMMA RemovedAwake ==
  ASSUME Inboxed, Removed
  PROVE  Inboxed' /\ entry' = NoEntry /\ entry'.timer = "none"
<1> DEFINE K == {i \in DOMAIN inbox : inbox[i].kind # "down" \/ inbox[i].turn \notin entry.watching}
           T == ToSet(inbox)
<1>1. inbox' = Restricted(inbox, K) /\ entry' = NoEntry
  BY DEF Removed
<1>2. K \in SUBSET DOMAIN inbox /\ inbox \in Seq(T)
  BY DEF Inboxed
<1> HIDE DEF K, T
<1>3. Restricted(inbox, K) \in Seq(ToSet(Restricted(inbox, K)))
  BY <1>2, RestrictedIsSeq
<1> QED  BY <1>1, <1>3, NoEntryHeld DEF Inboxed

LEMMA InboxKept ==
  ASSUME Inboxed, inbox' = inbox
  PROVE  Inboxed'
BY DEF Inboxed

\* A message more, and a turn that stays if it was live, leave what wakes the queue.
LEMMA StillWoken ==
  ASSUME entry' = entry, Live => turn' = turn, ToSet(inbox) \subseteq ToSet(inbox')
  PROVE  (Told => Told') /\ (Woken => Woken')
<1>1. (Told => Told')
  BY DEF Told, Sent
<1>2. (Live => Live') /\ (Live => turn'.no = turn.no)
  BY DEF Live
<1>3. (Woken => Woken')
  BY <1>2 DEF Woken, Sent
<1> QED  BY <1>1, <1>3

LEMMA StillAlert ==
  ASSUME Alert, entry' = entry, Live => turn' = turn, ToSet(inbox) \subseteq ToSet(inbox'),
         life' = "up" => life = "up", Owing' => Owing
  PROVE  Alert'
<1>1. (Told => Told') /\ (Woken => Woken')
  BY StillWoken
<1> QED  BY <1>1 DEF Alert

\* Looking after a live turn, or sending oneself a message, wakes the queue.
LEMMA WatchedAwake ==
  ASSUME Inboxed, NEW n \in Nat, NEW e \in Entry(n), turn' = turn, Watched(e),
         e.timer = "due" => Sent(Timeout(e.gen))
  PROVE  Inboxed' /\ Alert'
<1>1. CASE Live
  <2>1. inbox' = inbox /\ entry' = [e EXCEPT !.watching = @ \cup {turn.no}]
    BY <1>1 DEF Watched
  <2>2. entry'.timer = e.timer /\ entry'.gen = e.gen /\ turn.no \in entry'.watching
    BY <2>1 DEF Entry
  <2>3. Told'
    BY <2>1, <2>2 DEF Told, Sent
  <2>4. Live' /\ turn'.no \in entry'.watching
    BY <1>1, <2>2 DEF Live
  <2>5. Woken'
    BY <2>4 DEF Woken
  <2> QED  BY <2>1, <2>3, <2>5, InboxKept DEF Alert
<1>2. CASE ~Live
  <2>1. inbox' = Append(inbox, Drain(e.gen)) /\ entry' = e
    BY <1>2 DEF Watched, Drain
  <2>2. Inboxed' /\ ToSet(inbox') = ToSet(inbox) \cup {Drain(e.gen)}
    BY <2>1, Appended
  <2>3. Told'
    BY <2>1, <2>2 DEF Told, Sent
  <2>4. Sent(Drain(entry.gen))'
    BY <2>1, <2>2 DEF Sent
  <2>5. Woken'
    BY <2>4 DEF Woken
  <2> QED  BY <2>2, <2>3, <2>5 DEF Alert
<1> QED  BY <1>1, <1>2

\* A failed attempt leaves a retry, or no entry.
LEMMA RetriedAwake ==
  ASSUME Inboxed, NEW n \in Nat, NEW e \in Entry(n), Retried(e)
  PROVE  Inboxed' /\ Alert'
<1>1. CASE UNCHANGED inbox /\ entry'.timer = "armed"
  <2>1. Told' /\ Woken'
    BY <1>1 DEF Told, Woken
  <2> QED  BY <1>1, <2>1, InboxKept DEF Alert
<1>2. CASE Removed
  <2>1. Inboxed' /\ entry' = NoEntry /\ entry'.timer = "none"
    BY <1>2, RemovedAwake
  <2>2. Told' /\ ~Owing'
    BY <2>1 DEF Told, Owing
  <2> QED  BY <2>1, <2>2 DEF Alert
<1>3. CASE entry' = [e EXCEPT !.retries = @ + 1, !.timer = "armed"] /\ UNCHANGED inbox
  <2>1. entry'.timer = "armed"
    BY <1>3 DEF Entry
  <2> QED  BY <1>1, <1>3, <2>1
<1>4. CASE entry' = [e EXCEPT !.timer = "armed"] /\ UNCHANGED inbox
  <2>1. entry'.timer = "armed"
    BY <1>4 DEF Entry
  <2> QED  BY <1>1, <1>4, <2>1
<1> QED  BY <1>2, <1>3, <1>4 DEF Retried

LEMMA RemovedAlert ==
  ASSUME Inboxed, Removed
  PROVE  Inboxed' /\ Alert'
<1>1. Inboxed' /\ entry' = NoEntry /\ entry'.timer = "none"
  BY RemovedAwake
<1>2. Told' /\ ~Owing'
  BY <1>1 DEF Told, Owing
<1> QED  BY <1>1, <1>2 DEF Alert

\* In a step of the drain no retry is due.
LEMMA BusyAlert ==
  ASSUME Inboxed, inbox' = inbox, entry'.timer = "none", at' # "idle"
  PROVE  Inboxed' /\ Alert'
<1>1. Told' /\ ~Owing'
  BY DEF Told, Owing
<1> QED  BY <1>1, InboxKept DEF Alert

LEMMA ActivateAwake == TypeInv /\ Awake /\ Activate => Awake'
<1> SUFFICES ASSUME TypeInv, Inboxed, Alert, Activate PROVE Awake'
  BY DEF Awake
<1>1. /\ turn.no \in Nat /\ entry \in Entry(turn.no) /\ turn' = turn /\ life' = life
      /\ at' = "idle" /\ spent.gens + 1 \in Nat
  BY DEF TypeInv, Turns, Entries, Counters, Activate
<1>2. CASE life = "up"
  <2>1. CASE Watched(entry)
    <3>1. entry.timer = "due" => Sent(Timeout(entry.gen))
      BY <1>2 DEF Alert, Told
    <3> QED  BY <1>1, <2>1, <3>1, WatchedAwake DEF Awake
  <2>2. ASSUME NEW g \in Nat, Watched([NoEntry EXCEPT !.gen = g])
        PROVE  Awake'
    <3> DEFINE e == [NoEntry EXCEPT !.gen = g]
    <3>1. e \in Entry(turn.no)
      BY <1>1, NoEntryType DEF Entry, NoEntry
    <3>2. e.timer = "none"
      BY DEF NoEntry
    <3>3. Watched(e)
      BY <2>2
    <3> HIDE DEF e
    <3>4. Inboxed' /\ Alert'
      BY <1>1, <3>1, <3>2, <3>3, WatchedAwake
    <3> QED  BY <3>4 DEF Awake
  <2>3. CASE Removed
    BY <2>3, RemovedAlert DEF Awake
  <2> QED  BY <1>1, <2>1, <2>2, <2>3 DEF Activate
<1>3. CASE life # "up"
  <2>1. Inboxed'
    <3>1. \/ inbox' = inbox \/ Removed
          \/ \E g : inbox' = Append(inbox, [kind |-> "drain", gen |-> g])
      BY DEF Activate, Watched
    <3> QED  BY <3>1, Appended, InboxKept, RemovedAwake
  <2> QED  BY <1>1, <1>3, <2>1 DEF Awake, Alert
<1> QED  BY <1>2, <1>3

LEMMA CheckAwake == TypeInv /\ Awake /\ Check => Awake'
<1> SUFFICES ASSUME TypeInv, Inboxed, Alert, Check PROVE Awake'
  BY DEF Awake
<1>1. /\ turn.no \in Nat /\ entry \in Entry(turn.no) /\ turn' = turn
      /\ entry.timer = "none" /\ UNCHANGED <<paused, deleted>>
  BY DEF TypeInv, Turns, Entries, Phase, Check, At, disk
<1>2. CASE (deleted \/ paused) /\ UNCHANGED <<entry, inbox>>
  <2>1. ~Owing' /\ Told'
    BY <1>1, <1>2 DEF Owing, Told
  <2> QED  BY <1>2, <2>1, InboxKept DEF Awake, Alert
<1>3. CASE Watched(entry)
  <2>1. Inboxed' /\ Alert'
    BY <1>1, <1>3, WatchedAwake
  <2> QED  BY <2>1 DEF Awake
<1>4. CASE at' # "idle" /\ UNCHANGED <<entry, inbox>>
  BY <1>1, <1>4, BusyAlert DEF Awake
<1> QED  BY <1>2, <1>3, <1>4 DEF Check

LEMMA StoreHeldAwake == TypeInv /\ Awake /\ StoreHeld => Awake'
<1> SUFFICES ASSUME TypeInv, Inboxed, Alert, StoreHeld PROVE Awake'
  BY DEF Awake
<1>1. /\ turn.no \in Nat /\ entry \in Entry(turn.no) /\ entry.timer = "none" /\ at = "store"
      /\ todo \in Seq(Prompts) /\ <<>> \in Seq(Prompts)
  BY DEF TypeInv, Turns, Lists, Entries, Phase, StoreHeld, At
<1>2. CASE /\ UNCHANGED inbox
           /\ \/ at' = "pop" /\ entry' = Reset([entry EXCEPT !.held = <<>>])
              \/ UNCHANGED <<at, entry>>
  <2>1. [entry EXCEPT !.held = <<>>] = Holding(entry, <<>>) /\ Holding(entry, <<>>) \in Entry(turn.no)
    <3>1. \A h \in Seq(Prompts) : Holding(entry, h) \in Entry(turn.no)
      BY <1>1, HeldEntry
    <3> QED  BY <1>1, <3>1 DEF Holding
  <2>2. Reset([entry EXCEPT !.held = <<>>]).timer = "none"
    BY <1>1, <2>1, ResetEntry
  <2>3. entry'.timer = "none" /\ at' # "idle" /\ inbox' = inbox
    BY <1>1, <1>2, <2>2
  <2>4. Inboxed' /\ Alert'
    BY <2>3, BusyAlert
  <2> QED  BY <2>4 DEF Awake
<1>3. CASE Retried([entry EXCEPT !.held = todo])
  <2>1. [entry EXCEPT !.held = todo] = Holding(entry, todo) /\ Holding(entry, todo) \in Entry(turn.no)
    BY <1>1, HeldEntry DEF Holding
  <2>2. Retried(Holding(entry, todo))
    BY <1>3, <2>1
  <2>3. Inboxed' /\ Alert'
    BY <1>1, <2>1, <2>2, RetriedAwake
  <2> QED  BY <2>3 DEF Awake
<1> QED  BY <1>2, <1>3 DEF StoreHeld

LEMMA PopAwake == TypeInv /\ Awake /\ Pop => Awake'
<1> SUFFICES ASSUME TypeInv, Inboxed, Alert, Pop PROVE Awake'
  BY DEF Awake
<1>1. turn.no \in Nat /\ entry \in Entry(turn.no) /\ entry.timer = "none"
  BY DEF TypeInv, Turns, Entries, Phase, Pop, At
<1>2. CASE at' = "start" /\ UNCHANGED <<entry, inbox>>
  <2>1. Inboxed' /\ Alert'
    BY <1>1, <1>2, BusyAlert
  <2> QED  BY <2>1 DEF Awake
<1>3. CASE Removed
  BY <1>3, RemovedAlert DEF Awake
<1>4. CASE Retried(entry)
  <2>1. Inboxed' /\ Alert'
    BY <1>1, <1>4, RetriedAwake
  <2> QED  BY <2>1 DEF Awake
<1> QED  BY <1>2, <1>3, <1>4 DEF Pop

LEMMA StartAwake == TypeInv /\ Awake /\ Start => Awake'
<1> SUFFICES ASSUME TypeInv, Inboxed, Alert, Start PROVE Awake'
  BY DEF Awake
<1>1. turn.no \in Nat /\ entry \in Entry(turn.no) /\ entry.timer = "none" /\ inbox' = inbox
  BY DEF TypeInv, Turns, Entries, Phase, Start
<1>2. Reset(entry).timer = "none"
  BY <1>1, ResetEntry
<1>3. entry'.timer = "none" /\ at' # "idle"
  BY <1>1, <1>2 DEF Start
<1>4. Inboxed' /\ Alert'
  BY <1>1, <1>3, BusyAlert
<1> QED  BY <1>4 DEF Awake

LEMMA PutBackAwake == TypeInv /\ Awake /\ PutBack => Awake'
<1> SUFFICES ASSUME TypeInv, Inboxed, Alert, PutBack PROVE Awake'
  BY DEF Awake
<1>1. /\ turn.no \in Nat /\ entry \in Entry(turn.no)
      /\ hand \in Seq(Prompts) /\ entry.held \in Seq(Prompts)
  BY DEF TypeInv, Turns, Entries, Lists, Entry
<1>2. CASE Retried(entry)
  <2>1. Inboxed' /\ Alert'
    BY <1>1, <1>2, RetriedAwake
  <2> QED  BY <2>1 DEF Awake
<1>3. CASE Removed
  BY <1>3, RemovedAlert DEF Awake
<1>4. CASE Retried([entry EXCEPT !.held = @ \o hand])
  <2> DEFINE h == entry.held \o hand
  <2>1. h \in Seq(Prompts)
    BY <1>1, SetOfConcat
  <2>2. Retried(Holding(entry, h))
    BY <1>4 DEF Holding
  <2> HIDE DEF h
  <2>3. Holding(entry, h) \in Entry(turn.no)
    BY <1>1, <2>1, HeldEntry
  <2>4. Inboxed' /\ Alert'
    BY <1>1, <2>2, <2>3, RetriedAwake
  <2> QED  BY <2>4 DEF Awake
<1> QED  BY <1>2, <1>3, <1>4 DEF PutBack

LEMMA HandOverAwake == TypeInv /\ Awake /\ (Journal \/ Stow) => Awake'
<1> SUFFICES ASSUME TypeInv, Inboxed, Alert, Journal \/ Stow PROVE Awake'
  BY DEF Awake
<1>1. at \in {"journal", "stow"} /\ at' # "idle" /\ UNCHANGED <<entry, inbox, life, turn>>
  BY DEF Journal, Stow, At
<1>2. ToSet(inbox) \subseteq ToSet(inbox') /\ ~Owing'
  BY <1>1 DEF Owing
<1>3. Alert'
  BY <1>1, <1>2, StillAlert
<1> QED  BY <1>1, <1>3, InboxKept DEF Awake

\* A backend that starts again has no entry.
LEMMA ComesAwake ==
  ASSUME NEW next, Comes(next)
  PROVE  Awake'
<1>1. entry' = NoEntry /\ entry'.timer = "none"
  BY NoEntryHeld DEF Comes
<1>2. Told' /\ ~Owing'
  BY <1>1 DEF Told, Owing
<1>3. Inboxed'
  <2>1. \A m : <<m>> \in Seq({m})
    OBVIOUS
  <2>2. \A m : <<m>> \in Seq(ToSet(<<m>>))
    BY <2>1, SeqOfSet
  <2>3. <<>> \in Seq(ToSet(<<>>))
    BY EmptySeq
  <2> QED  BY <2>2, <2>3 DEF Comes, Inboxed
<1> QED  BY <1>2, <1>3 DEF Awake, Alert

\* A message that the entry does not answer to wakes nothing.
LEMMA ReceiveAwake == TypeInv /\ Awake /\ Receive => Awake'
<1> SUFFICES ASSUME TypeInv, Inboxed, Alert, Receive PROVE Awake'
  BY DEF Awake
<1> DEFINE m == Head(inbox)
<1>1. /\ turn.no \in Nat /\ entry \in Entry(turn.no) /\ at = "idle" /\ life = "up"
      /\ inbox # <<>> /\ inbox' = Tail(inbox)
      /\ UNCHANGED <<paused, deleted, lifted, turn, life>>
  BY DEF TypeInv, Turns, Entries, Receive, Idle, disk
<1>2. Inboxed' /\ ToSet(inbox) = {m} \cup ToSet(inbox')
  BY <1>1, Taken
<1>3. Told /\ (Owing => Woken)
  BY <1>1 DEF Alert
<1> HIDE DEF m
<1>4. \A x : Sent(x) /\ x # m => Sent(x)'
  BY <1>2 DEF Sent
<1> SUFFICES Alert'
  BY <1>2 DEF Awake
<1>5. ASSUME entry' = entry, at' = "idle", Owing' => m # Drain(entry.gen) \/ entry.timer # "none",
             entry.timer = "due" => m # Timeout(entry.gen),
             \A t \in entry.watching : m # Down(t)
      PROVE  Alert'
  <2>1. Told'
    BY <1>3, <1>4, <1>5 DEF Told
  <2>2. Owing' => Owing
    BY <1>1, <1>5 DEF Owing
  <2>3. Live' <=> Live
    BY <1>1 DEF Live
  <2>4. ASSUME Owing' PROVE Woken'
    <3>1. Woken
      BY <1>3, <2>2, <2>4
    <3>2. CASE entry.timer # "none"
      BY <1>5, <3>2 DEF Woken
    <3>3. CASE entry.timer = "none" /\ Sent(Drain(entry.gen))
      <4>1. m # Drain(entry.gen)
        BY <1>5, <2>4, <3>3
      <4>2. Drain(entry.gen) \in ToSet(inbox')
        BY <1>2, <3>3, <4>1 DEF Sent
      <4>3. Sent(Drain(entry.gen))'
        BY <1>5, <4>2 DEF Sent
      <4> QED  BY <4>3 DEF Woken
    <3>4. CASE Live /\ turn.no \in entry.watching
      BY <1>1, <1>5, <2>3, <3>4 DEF Woken
    <3>5. CASE \E t \in entry.watching : Sent(Down(t))
      <4>1. PICK t \in entry.watching : Sent(Down(t))
        BY <3>5
      <4>2. Sent(Down(t))' /\ t \in entry'.watching
        BY <1>4, <1>5, <4>1
      <4> QED  BY <4>2 DEF Woken
    <3> QED  BY <3>1, <3>2, <3>3, <3>4, <3>5 DEF Woken
  <2> QED  BY <2>1, <2>4 DEF Alert
<1>6. CASE m.kind = "open" /\ UNCHANGED entry /\ at' \in {"activate", "idle"}
  <2>1. CASE at' = "activate"
    <3>1. Told' /\ ~Owing'
      <4>1. m # Timeout(entry.gen)
        BY <1>6 DEF Timeout
      <4> QED  BY <1>3, <1>4, <1>6, <2>1, <4>1 DEF Told, Owing
    <3> QED  BY <3>1 DEF Alert
  <2>2. CASE at' = "idle"
    <3>1. m # Drain(entry.gen) /\ m # Timeout(entry.gen) /\ \A t : m # Down(t)
      BY <1>6 DEF Drain, Timeout, Down
    <3> QED  BY <1>5, <1>6, <2>2, <3>1
  <2> QED  BY <1>6, <2>1, <2>2
<1>7. CASE m.kind = "drain" /\ UNCHANGED entry /\ at' = IF Due(m.gen) THEN "check" ELSE "idle"
  <2>1. m # Timeout(entry.gen) /\ \A t : m # Down(t)
    BY <1>7 DEF Timeout, Down
  <2>2. CASE Due(m.gen)
    <3>1. Told' /\ ~Owing'
      BY <1>3, <1>4, <1>7, <2>1, <2>2 DEF Told, Owing
    <3> QED  BY <3>1 DEF Alert
  <2>3. CASE ~Due(m.gen)
    <3>1. Owing' => m # Drain(entry.gen) \/ entry.timer # "none"
      BY <1>7, <2>3 DEF Owing, Due, Drain
    <3> QED  BY <1>5, <1>7, <2>1, <2>3, <3>1
  <2> QED  BY <2>2, <2>3
<1>8. CASE /\ m.kind = "timeout"
           /\ IF entry # NoEntry /\ entry.gen = m.gen /\ entry.timer = "due"
              THEN at' = "check" /\ entry' = [entry EXCEPT !.timer = "none"]
              ELSE UNCHANGED <<at, entry>>
  <2>1. m # Drain(entry.gen) /\ \A t : m # Down(t)
    BY <1>8 DEF Drain, Down
  <2>2. CASE entry # NoEntry /\ entry.gen = m.gen /\ entry.timer = "due"
    <3>1. entry'.timer = "none" /\ at' = "check"
      BY <1>1, <1>8, <2>2 DEF Entry
    <3>2. Told' /\ ~Owing'
      BY <3>1 DEF Told, Owing
    <3> QED  BY <3>2 DEF Alert
  <2>3. CASE ~(entry # NoEntry /\ entry.gen = m.gen /\ entry.timer = "due")
    <3>1. entry' = entry /\ at' = "idle"
      BY <1>1, <1>8, <2>3
    <3>2. NoEntry.timer = "none"
      BY NoEntryHeld
    <3>3. entry.timer = "due" => m # Timeout(entry.gen)
      BY <2>3, <3>2 DEF Timeout
    <3> QED  BY <1>5, <2>1, <3>1, <3>3
  <2> QED  BY <2>2, <2>3
<1>9. CASE /\ m.kind = "down"
           /\ IF m.turn \in entry.watching
              THEN /\ entry' = [entry EXCEPT !.watching = @ \ {m.turn}]
                   /\ at' = IF entry.timer = "none" THEN "check" ELSE "idle"
              ELSE UNCHANGED <<at, entry>>
  <2>1. m # Drain(entry.gen) /\ m # Timeout(entry.gen)
    BY <1>9 DEF Drain, Timeout
  <2>2. CASE m.turn \in entry.watching
    <3>1. entry'.timer = entry.timer /\ entry'.gen = entry.gen
      BY <1>1, <1>9, <2>2 DEF Entry
    <3>2. Told'
      BY <1>3, <1>4, <2>1, <3>1 DEF Told
    <3>3. entry'.timer # "none" => Woken'
      BY DEF Woken
    <3>4. entry'.timer = "none" => ~Owing'
      BY <1>9, <2>2, <3>1 DEF Owing
    <3> QED  BY <3>2, <3>3, <3>4 DEF Alert
  <2>3. CASE m.turn \notin entry.watching
    <3>1. entry' = entry /\ at' = "idle"
      BY <1>1, <1>9, <2>3
    <3>2. \A t \in entry.watching : m # Down(t)
      BY <2>3 DEF Down
    <3> QED  BY <1>5, <2>1, <3>1, <3>2
  <2> QED  BY <2>2, <2>3
<1>10. /\ m.kind = "open" => UNCHANGED entry /\ at' \in {"activate", "idle"}
       /\ m.kind \in {"open", "drain", "timeout", "down"}
  BY DEF Receive, m
<1> QED  BY <1>6, <1>7, <1>8, <1>9, <1>10 DEF Receive, m

LEMMA TimerFiresAwake == TypeInv /\ Awake /\ TimerFires => Awake'
<1> SUFFICES ASSUME TypeInv, Inboxed, Alert, TimerFires PROVE Awake'
  BY DEF Awake
<1>1. entry \in Entry(turn.no) /\ inbox' = Append(inbox, Timeout(entry.gen))
  BY DEF TypeInv, Entries, TimerFires, Timeout
<1>2. Inboxed' /\ ToSet(inbox') = ToSet(inbox) \cup {Timeout(entry.gen)}
  BY <1>1, Appended
<1>3. entry'.timer = "due" /\ entry'.gen = entry.gen
  BY <1>1 DEF TimerFires, Entry
<1>4. Told' /\ Woken'
  BY <1>2, <1>3 DEF Told, Woken, Sent
<1> QED  BY <1>2, <1>4 DEF Awake, Alert

\* A turn that was monitored is missed: its end leaves a message.
LEMMA ToldOfEnd ==
  ASSUME Inboxed, Alert, Live, Tells, UNCHANGED <<entry, life, at, paused, deleted, lifted>>
  PROVE  Awake'
<1>1. Inboxed' /\ ToSet(inbox) \subseteq ToSet(inbox')
  <2>1. CASE inbox' = inbox
    BY <2>1, InboxKept
  <2>2. CASE inbox' = Append(inbox, Down(turn.no))
    BY <2>2, Appended
  <2> QED  BY <2>1, <2>2 DEF Tells, Down
<1>2. life = "up" => Told'
  BY <1>1 DEF Alert, Told, Sent
<1>3. ASSUME life = "up", Owing' PROVE Woken'
  <2>1. Woken
    BY <1>3 DEF Alert, Owing
  <2>2. CASE turn.no \in entry.watching
    <3>1. inbox' = Append(inbox, Down(turn.no))
      BY <1>3, <2>2 DEF Tells, Down
    <3>2. ToSet(inbox') = ToSet(inbox) \cup {Down(turn.no)}
      BY <3>1, Appended
    <3> QED  BY <2>2, <3>2 DEF Woken, Sent
  <2>3. CASE turn.no \notin entry.watching
    BY <1>1, <2>1, <2>3 DEF Woken, Sent
  <2> QED  BY <2>2, <2>3
<1> QED  BY <1>1, <1>2, <1>3 DEF Awake, Alert

LEMMA TurnAwake == TypeInv /\ Awake /\ Turn => Awake'
<1> SUFFICES ASSUME TypeInv, Inboxed, Alert, Turn PROVE Awake'
  BY DEF Awake
<1>1. CASE TurnEnds \/ ChainGoesOn
  BY <1>1, ToldOfEnd DEF TurnEnds, ChainGoesOn, disk
<1>2. CASE TurnUnregistered
  <2>1. ~Live /\ UNCHANGED <<entry, inbox, life, at, paused, deleted, lifted>>
    BY <1>2 DEF TurnUnregistered, Live, memory, disk
  <2>2. ToSet(inbox) \subseteq ToSet(inbox') /\ (Owing' => Owing)
    BY <2>1 DEF Owing
  <2>3. Alert'
    BY <2>1, <2>2, StillAlert
  <2> QED  BY <2>1, <2>3, InboxKept DEF Awake
<1> QED  BY <1>1, <1>2 DEF Turn

\* Whatever lifts a pause without waking the queue says so.
LEMMA UserAwake == TypeInv /\ Awake /\ User => Awake'
<1> SUFFICES ASSUME TypeInv, Inboxed, Alert, User PROVE Awake'
  BY DEF Awake
<1>1. entry' = entry /\ life' = life /\ (Live => turn' = turn)
  <2>1. Send => ~Live
    BY DEF Send, Registered, Live
  <2> QED  BY <2>1 DEF User, Enqueue, Send, StopTurn, ResumeQueue, EditQueue, Switch, Command
<1>2. Inboxed' /\ ToSet(inbox) \subseteq ToSet(inbox')
  <2>1. inbox' = inbox \/ inbox' = Append(inbox, [kind |-> "open"])
    BY DEF User, Enqueue, Send, StopTurn, ResumeQueue, EditQueue, Switch, Command
  <2> QED  BY <2>1, Appended, InboxKept
<1>3. Owing' => Owing
  <2>1. at = "idle" /\ (at' = "idle" => ~ResumeQueue /\ ~Enqueue)
    BY DEF User, Enqueue, Send, StopTurn, ResumeQueue, EditQueue, Switch, Command, Idle
  <2>2. {paused, lifted, deleted} \subseteq BOOLEAN
    BY DEF TypeInv, Flags
  <2>3. CASE Send \/ StopTurn \/ EditQueue \/ Switch
    <3>1. deleted' = deleted /\ (lifted => lifted') /\ (paused => paused' \/ lifted')
      BY <2>2, <2>3 DEF Send, StopTurn, EditQueue, Switch, disk
    <3> QED  BY <1>1, <2>1, <3>1 DEF Owing
  <2>4. CASE ResumeQueue \/ Enqueue
    BY <2>1, <2>4 DEF Owing
  <2> QED  BY <2>3, <2>4 DEF User
<1>4. Alert'
  BY <1>1, <1>2, <1>3, StillAlert
<1> QED  BY <1>2, <1>4 DEF Awake

LEMMA OtherWindowAwake == TypeInv /\ Awake /\ OtherWindow => Awake'
<1> SUFFICES ASSUME TypeInv, Inboxed, Alert, OtherWindow PROVE Awake'
  BY DEF Awake
<1>1. /\ UNCHANGED <<entry, inbox, life, turn, at, paused, lifted>>
      /\ deleted' = deleted \/ deleted'
  BY DEF OtherWindow, Accept, memory
<1>2. ToSet(inbox) \subseteq ToSet(inbox') /\ (Owing' => Owing)
  BY <1>1 DEF Owing
<1>3. Alert'
  BY <1>1, <1>2, StillAlert
<1> QED  BY <1>1, <1>3, InboxKept DEF Awake

LEMMA StopAwake == TypeInv /\ Awake /\ (Terminate \/ Raise \/ Kill \/ Restart \/ Settle) => Awake'
<1> SUFFICES ASSUME TypeInv, Inboxed, Alert, Terminate \/ Raise \/ Kill \/ Restart \/ Settle PROVE Awake'
  BY DEF Awake
<1>1. CASE \E next : Comes(next)
  BY <1>1, ComesAwake
<1>2. CASE life' # "up" /\ inbox' \in {inbox, <<>>}
  <2>1. <<>> \in Seq(ToSet(<<>>))
    BY EmptySeq
  <2>2. Inboxed'
    BY <1>2, <2>1 DEF Inboxed
  <2> QED  BY <1>2, <2>2 DEF Awake, Alert
<1> QED  BY <1>1, <1>2 DEF Terminate, Raise, HandsOver, Kill, Restart, Settle

LEMMA InitAwake == Init => Awake
<1> SUFFICES ASSUME Init PROVE Awake
  OBVIOUS
<1>1. entry = NoEntry /\ entry.timer = "none"
  BY NoEntryHeld DEF Init
<1>2. Told /\ ~Owing
  BY <1>1 DEF Told, Owing
<1>3. Inboxed
  <2>1. \A m : <<m>> \in Seq({m})
    OBVIOUS
  <2>2. \A m : <<m>> \in Seq(ToSet(<<m>>))
    BY <2>1, SeqOfSet
  <2> QED  BY <2>2 DEF Init, Inboxed
<1> QED  BY <1>2, <1>3 DEF Awake, Alert

LEMMA AwakeStep == TypeInv /\ Awake /\ [Next]_vars => Awake'
<1> SUFFICES ASSUME TypeInv, Awake, [Next]_vars PROVE Awake'
  OBVIOUS
<1>1. CASE UNCHANGED vars
  <2>1. UNCHANGED <<entry, inbox, life, turn, at, paused, lifted, deleted>>
    BY <1>1 DEF vars, disk, memory
  <2>2. ToSet(inbox) \subseteq ToSet(inbox') /\ (Owing' => Owing)
    BY <2>1 DEF Owing
  <2>3. Inboxed /\ Alert
    BY DEF Awake
  <2>4. Alert'
    BY <2>1, <2>2, <2>3, StillAlert
  <2> QED  BY <2>1, <2>3, <2>4, InboxKept DEF Awake
<1>2. CASE Backend
  BY <1>2, ActivateAwake, CheckAwake, StoreHeldAwake, PopAwake, StartAwake, PutBackAwake,
     HandOverAwake, StopAwake DEF Backend
<1> QED  BY <1>1, <1>2, ReceiveAwake, TimerFiresAwake, TurnAwake, UserAwake, OtherWindowAwake,
            StopAwake DEF Next

\* What wakes the queue is a message, a retry or the end of a monitored turn.
LEMMA AwakeNeverStranded == Awake => NeverStranded
<1> SUFFICES ASSUME Awake, Idle, Active, ~lifted PROVE Armed
  BY DEF NeverStranded
<1>1. Owing /\ life = "up"
  BY DEF Owing, Idle, Active
<1>2. Woken
  BY <1>1 DEF Awake, Alert
<1>3. ASSUME NEW m, Sent(m) PROVE inbox # <<>>
  BY <1>3, SetOfNone DEF Sent
<1> QED  BY <1>2, <1>3 DEF Woken, Armed

\* A queue that the backend looks after is never left with nothing that wakes
\* it: whichever way a drain ends, whichever messages are stale when they are
\* read and whoever else edits the queue, a turn it monitors, a retry or a
\* message is there, unless the queue is paused or a start lifted its pause.
THEOREM QueueNeverStranded == Spec => []NeverStranded
<1>1. Init => TypeInv /\ Awake
  BY InitTypes, InitAwake
<1>2. (TypeInv /\ Awake) /\ [Next]_vars => (TypeInv /\ Awake)'
  BY TypesStep, AwakeStep
<1> QED  BY <1>1, <1>2, AwakeNeverStranded, PTL DEF Spec
=============================================================================
