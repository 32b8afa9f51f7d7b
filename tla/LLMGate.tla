------------------------------ MODULE LLMGate ------------------------------
(***************************************************************************)
(* The per-provider stream limit (domain/llm/gate.ex): one GenServer that  *)
(* hands out Limit slots per key, first come first served, and the client  *)
(* half that runs inside each caller (Gate.acquire, LLM.gated).            *)
(*                                                                         *)
(* The server never blocks: it answers a call with a grant or a place in   *)
(* the queue.  A ref is the server's monitor of the caller, so a caller    *)
(* that dies sends DOWN.  Messages wait in mailboxes: `inbox` is the       *)
(* server's, mail[c] is what caller c has not received yet.                *)
(***************************************************************************)
EXTENDS Integers, Sequences, FiniteSets, Functions

CONSTANTS
  Callers,     \* processes that call LLM.stream
  Keys,        \* provider ids or URL origins
  Limit,       \* :llm_max_concurrent_per_provider
  MaxRefs,     \* bound: monitors the servers create in a behaviour
  MaxCrashes   \* bound: restarts of the gate by its one_for_one supervisor

ASSUME LimitAssumption == Limit \in Nat \ {0}
ASSUME BoundsAssumption == MaxRefs \in Nat /\ MaxCrashes \in Nat

VARIABLES
  keys,      \* state.keys: the entry of each key (an absent key is EmptyEntry)
  refs,      \* state.refs: the refs the server knows
  inbox,     \* the server's mailbox
  made,      \* made[r]: the key, caller and gate process ref r was made for
  gen,       \* which gate process is running
  pc,        \* what each caller does
  cref,      \* the ref a waiting or streaming caller knows
  mail       \* what the server sent each caller

gateVars == <<keys, refs, inbox, made, gen>>
vars == <<keys, refs, inbox, made, gen, pc, cref, mail>>

Refs == Nat \ {0}
NoRef == 0
Entry == [holders : SUBSET Refs, queue : Seq(Refs), waiting : Nat]
EmptyEntry == [holders |-> {}, queue |-> <<>>, waiting |-> 0]

Elements(s) == {s[i] : i \in DOMAIN s}

\* s without its (one) occurrence of x.
Remove(s, x) ==
  IF x \notin Elements(s) THEN s
  ELSE LET i == CHOOSE j \in DOMAIN s : s[j] = x
       IN  SubSeq(s, 1, i - 1) \o SubSeq(s, i + 1, Len(s))

AcquireMsg(c, k) == [kind |-> "acquire", caller |-> c, key |-> k]
RefMsg(kind, r) == [kind |-> kind, ref |-> r]
GateDown == RefMsg("gate_down", NoRef)

Request == [kind : {"acquire"}, caller : Callers, key : Keys]
             \cup [kind : {"release", "DOWN"}, ref : Refs]
Reply == [kind : {"granted", "queued", "gate_granted"}, ref : Refs] \cup {GateDown}

Init ==
  /\ keys = [k \in Keys |-> EmptyEntry]
  /\ refs = {}
  /\ inbox = <<>>
  /\ made = <<>>
  /\ gen = 0
  /\ pc = [c \in Callers |-> "idle"]
  /\ cref = [c \in Callers |-> NoRef]
  /\ mail = [c \in Callers |-> <<>>]

-----------------------------------------------------------------------------
(* The server.                                                             *)

\* A slot is free for a newcomer only when nobody waits for one.
FreeNow(e) == Cardinality(e.holders) < Limit /\ e.queue = <<>>

Occupy(e, r) == [e EXCEPT !.holders = @ \cup {r}]
Enqueue(e, r) ==
  [holders |-> e.holders, queue |-> Append(e.queue, r), waiting |-> e.waiting + 1]

\* Mutant: the admit loop stops one slot late.
FreeSlotsOffByOne(e) == IF e.queue = <<>> THEN 0 ELSE 1

\* Waiters the admit loop takes from the head of the queue.
FreeSlots(e) ==
  LET free == Limit - Cardinality(e.holders)
  IN  IF free <= 0 THEN 0 ELSE IF free < Len(e.queue) THEN free ELSE Len(e.queue)
Admitted(e) == {e.queue[i] : i \in 1 .. FreeSlots(e)}

\* Mutants of Admit: nobody is let in, the newest waiter goes first, an
\* admitted waiter is counted out twice.
AdmitNobody(e) == e
AdmitNewest(e) ==
  LET n == Len(e.queue)
  IN  IF FreeSlots(e) = 0 THEN e
      ELSE [holders |-> e.holders \cup {e.queue[n]},
            queue   |-> SubSeq(e.queue, 1, n - 1),
            waiting |-> e.waiting - 1]
AdmitCountsTwice(e) ==
  [holders |-> e.holders \cup Admitted(e),
   queue   |-> SubSeq(e.queue, FreeSlots(e) + 1, Len(e.queue)),
   waiting |-> e.waiting - 2 * FreeSlots(e)]

Admit(e) ==
  [holders |-> e.holders \cup Admitted(e),
   queue   |-> SubSeq(e.queue, FreeSlots(e) + 1, Len(e.queue)),
   waiting |-> e.waiting - FreeSlots(e)]

\* Mutant: only a holder's end is noticed.
WithoutHolder(e, r) == [e EXCEPT !.holders = @ \ {r}]

\* The entry without r: a holder's slot, or a waiter's place in the queue.
Without(e, r) ==
  IF r \in e.holders
  THEN [e EXCEPT !.holders = @ \ {r}]
  ELSE [e EXCEPT !.queue = Remove(@, r),
                 !.waiting = IF @ > 0 THEN @ - 1 ELSE 0]

\* demonitor(ref, [:flush]): a DOWN already in the mailbox goes with the monitor.
Flush(box, r) == Remove(box, RefMsg("DOWN", r))

Deliver(c, m) == IF pc[c] = "dead" THEN mail ELSE [mail EXCEPT ![c] = Append(@, m)]

\* handle_call({:acquire, key, pid}).  Monitoring a process that is already
\* gone sends its DOWN at once.
HandleAcquire ==
  /\ inbox # <<>> /\ Head(inbox).kind = "acquire"
  /\ LET c == Head(inbox).caller
         k == Head(inbox).key
         r == Len(made) + 1
     IN  /\ made' = Append(made, [key |-> k, owner |-> c, gen |-> gen])
         /\ refs' = refs \cup {r}
         /\ inbox' = IF pc[c] = "dead" THEN Append(Tail(inbox), RefMsg("DOWN", r))
                                       ELSE Tail(inbox)
         /\ IF FreeNow(keys[k])
            THEN /\ keys' = [keys EXCEPT ![k] = Occupy(@, r)]
                 /\ mail' = Deliver(c, RefMsg("granted", r))
            ELSE /\ keys' = [keys EXCEPT ![k] = Enqueue(@, r)]
                 /\ mail' = Deliver(c, RefMsg("queued", r))
  /\ UNCHANGED <<gen, pc, cref>>

\* Mutant of Drop: the waiters that are let in are not told.
DropSilently(r) ==
  LET k == made[r].key
      e == Without(keys[k], r)
  IN  /\ refs' = refs \ {r}
      /\ inbox' = Flush(Tail(inbox), r)
      /\ keys' = [keys EXCEPT ![k] = Admit(e)]
      /\ UNCHANGED mail

\* drop/2 followed by admit/3 and store/3: r leaves, and the waiters that now
\* fit are told so, each in its own mailbox.
Drop(r) ==
  LET k == made[r].key
      e == Without(keys[k], r)
  IN  /\ refs' = refs \ {r}
      /\ inbox' = Flush(Tail(inbox), r)
      /\ keys' = [keys EXCEPT ![k] = Admit(e)]
      /\ mail' = [c \in Callers |->
                    LET mine == {x \in Admitted(e) : made[x].owner = c}
                    IN  IF pc[c] = "dead" \/ mine = {} THEN mail[c]
                        ELSE Append(mail[c], RefMsg("gate_granted", CHOOSE x \in mine : TRUE))]

\* handle_cast({:release, ref}) and handle_info({:DOWN, ...}); a ref the server
\* does not know (released twice, or made by an earlier gate) changes nothing.
HandleLeave ==
  /\ inbox # <<>> /\ Head(inbox).kind \in {"release", "DOWN"}
  /\ LET r == Head(inbox).ref
     IN  IF r \in refs THEN Drop(r)
         ELSE inbox' = Tail(inbox) /\ UNCHANGED <<refs, keys, mail>>
  /\ UNCHANGED <<made, gen, pc, cref>>

\* The gate process ends and its supervisor starts a new one with empty state.
\* Every caller inside do_acquire sees the end of the process it called.
GateRestart ==
  /\ gen < MaxCrashes
  /\ gen' = gen + 1
  /\ keys' = [k \in Keys |-> EmptyEntry]
  /\ refs' = {}
  /\ inbox' = <<>>
  /\ mail' = [c \in Callers |-> IF pc[c] \in {"calling", "waiting"}
                                THEN Append(mail[c], GateDown) ELSE mail[c]]
  /\ UNCHANGED <<made, pc, cref>>

-----------------------------------------------------------------------------
(* The callers.                                                            *)

\* Gate.acquire: the call is sent and the caller waits for the answer.  The
\* bound MaxRefs limits the calls, so that the server can always handle one.
Calls == SelectSeq(inbox, LAMBDA m : m.kind = "acquire")
Acquire(c, k) ==
  /\ pc[c] = "idle"
  /\ Len(made) + Len(Calls) < MaxRefs
  /\ pc' = [pc EXCEPT ![c] = "calling"]
  /\ inbox' = Append(inbox, AcquireMsg(c, k))
  /\ UNCHANGED <<keys, refs, made, gen, cref, mail>>

\* The answer of the call, then of the receive in await/3.  Leaving do_acquire
\* flushes the monitor of the gate, so nothing is left in the mailbox.
Receive(c) ==
  /\ pc[c] \in {"calling", "waiting"} /\ mail[c] # <<>>
  /\ LET m == Head(mail[c])
     IN  \/ /\ m.kind = "queued"
            /\ pc' = [pc EXCEPT ![c] = "waiting"]
            /\ cref' = [cref EXCEPT ![c] = m.ref]
            /\ mail' = [mail EXCEPT ![c] = Tail(@)]
         \/ /\ \/ m.kind = "granted"
               \/ m.kind = "gate_granted" /\ m.ref = cref[c]
            /\ pc' = [pc EXCEPT ![c] = "streaming"]
            /\ cref' = [cref EXCEPT ![c] = m.ref]
            /\ mail' = [mail EXCEPT ![c] = <<>>]
         \/ /\ m = GateDown
            /\ pc' = [pc EXCEPT ![c] = "idle"]
            /\ cref' = [cref EXCEPT ![c] = NoRef]
            /\ mail' = [mail EXCEPT ![c] = <<>>]
  /\ UNCHANGED gateVars

\* Mutant of EndStream: the slot is not given back.
EndStreamOnly(c) ==
  /\ pc[c] = "streaming"
  /\ pc' = [pc EXCEPT ![c] = "idle"]
  /\ cref' = [cref EXCEPT ![c] = NoRef]
  /\ UNCHANGED <<keys, refs, inbox, made, gen, mail>>

\* The provider stream ends, with a result or an exception: the `after` clause
\* of LLM.gated casts the release to whichever gate has the name now.
EndStream(c) ==
  /\ pc[c] = "streaming"
  /\ pc' = [pc EXCEPT ![c] = "idle"]
  /\ inbox' = Append(inbox, RefMsg("release", cref[c]))
  /\ cref' = [cref EXCEPT ![c] = NoRef]
  /\ UNCHANGED <<keys, refs, made, gen, mail>>

\* The op task is killed, at any point.  Each monitor the gate still has on it
\* fires, in some order; a caller owns two while its last release is in flight.
Monitored(c) == {r \in refs : made[r].owner = c}
DownsOf(c) ==
  {[i \in DOMAIN f |-> RefMsg("DOWN", f[i])] :
     f \in Injection(1 .. Cardinality(Monitored(c)), Monitored(c))}
Die(c) ==
  /\ pc[c] # "dead"
  /\ pc' = [pc EXCEPT ![c] = "dead"]
  /\ \E downs \in DownsOf(c) : inbox' = inbox \o downs
  /\ cref' = [cref EXCEPT ![c] = NoRef]
  /\ mail' = [mail EXCEPT ![c] = <<>>]
  /\ UNCHANGED <<keys, refs, made, gen>>

-----------------------------------------------------------------------------
Next ==
  \/ HandleAcquire
  \/ HandleLeave
  \/ GateRestart
  \/ \E c \in Callers : \/ \E k \in Keys : Acquire(c, k)
                        \/ Receive(c)
                        \/ EndStream(c)
                        \/ Die(c)

Spec == Init /\ [][Next]_vars

\* The BEAM schedules every process with messages, and a provider stream ends
\* (it has a call clock).  A caller need not acquire, die or see a restart.
Fairness ==
  /\ WF_vars(HandleAcquire) /\ WF_vars(HandleLeave)
  /\ \A c \in Callers : WF_vars(Receive(c)) /\ WF_vars(EndStream(c))

FairSpec == Spec /\ Fairness

-----------------------------------------------------------------------------
(* Properties.                                                             *)

\* Every variable keeps its shape.
TypeOK ==
  /\ keys \in [Keys -> Entry]
  /\ refs \in SUBSET Refs
  /\ inbox \in Seq(Request)
  /\ made \in Seq([key : Keys, owner : Callers, gen : Nat])
  /\ gen \in Nat
  /\ pc \in [Callers -> {"idle", "calling", "waiting", "streaming", "dead"}]
  /\ cref \in [Callers -> Refs \cup {NoRef}]
  /\ mail \in [Callers -> Seq(Reply)]

Known(e) == e.holders \cup Elements(e.queue)
Consistent(e) ==
  /\ e.holders \cap Elements(e.queue) = {}
  /\ \A i, j \in DOMAIN e.queue : e.queue[i] = e.queue[j] => i = j
  /\ e.waiting = Len(e.queue)

\* state.refs and state.keys agree: a known ref is a holder or one queue place
\* of its own key, so drop/2's Map.fetch! finds an entry, and `waiting` counts
\* the queue.
Bookkeeping ==
  /\ refs \subseteq DOMAIN made
  /\ \A k \in Keys : /\ Consistent(keys[k])
                    /\ Known(keys[k]) = {r \in refs : made[r].key = k}

\* The server counts at most Limit holders of a key.
HoldersBounded == \A k \in Keys : Cardinality(keys[k].holders) <= Limit

\* No slot stands empty while somebody waits for one of that key.
WorkConserving ==
  \A k \in Keys : keys[k].queue # <<>> => Cardinality(keys[k].holders) = Limit

\* Both: the slots of a key are used, none twice and none in vain.
SlotsUsed == HoldersBounded /\ WorkConserving

\* The streams of a key that one gate process let in.
StreamsOf(k, g) ==
  {c \in Callers : pc[c] = "streaming" /\ made[cref[c]].key = k /\ made[cref[c]].gen = g}

\* What callers really do is bounded, not only what the server counts: one gate
\* process never lets more than Limit streams of a key run, although grants,
\* releases and deaths are seen late.
StreamsBounded ==
  \A k \in Keys : \A g \in 0 .. gen : Cardinality(StreamsOf(k, g)) <= Limit

\* Nothing leaks: a ref the server still counts belongs to a live caller that
\* holds it, is being told of it, or has given it back in a message the server
\* has not handled; a dead caller's DOWN is on its way.
RefsBelong ==
  \A r \in refs :
    LET c == made[r].owner
        sent(kind) == RefMsg(kind, r) \in Elements(inbox)
        told(kind) == RefMsg(kind, r) \in Elements(mail[c])
    IN  \/ pc[c] = "dead" /\ sent("DOWN")
        \/ pc[c] \in {"waiting", "streaming"} /\ cref[c] = r
        \/ pc[c] = "calling" /\ (told("granted") \/ told("queued"))
        \/ pc[c] # "dead" /\ sent("release")

\* A queued caller that was let in can learn of it: its grant is in its mailbox.
GrantIsTold ==
  \A c \in Callers :
    pc[c] = "waiting" /\ (\E k \in Keys : cref[c] \in keys[k].holders)
      => RefMsg("gate_granted", cref[c]) \in Elements(mail[c])

\* No slot is lost to a caller that does not know of it or is not there.
NoLeak == RefsBelong /\ GrantIsTold

\* First come, first served: a step that gives a slot to a waiter leaves nobody
\* in front of it in the queue.
Before(k, r, s) ==
  \E i, j \in DOMAIN keys[k].queue : i < j /\ keys[k].queue[i] = r /\ keys[k].queue[j] = s
NoOvertaking ==
  [][\A k \in Keys : \A r, s \in Elements(keys[k].queue) :
       Before(k, r, s) /\ s \in keys'[k].holders => r \notin Elements(keys'[k].queue)]_vars

\* A caller that queued is not forgotten: it gets a slot, dies, or is told that
\* its gate is gone.
QueuedIsServed ==
  \A c \in Callers : (pc[c] = "waiting") ~> (pc[c] # "waiting")
=============================================================================
