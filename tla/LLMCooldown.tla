---------------------------- MODULE LLMCooldown ----------------------------
(***************************************************************************)
(* The shared rate-limit cooldown of one key (Gate.cool_down in            *)
(* domain/llm/gate.ex and its reader in domain/llm/http.ex).  The row is   *)
(* in a public ETS table, so every call of a provider reads and raises it  *)
(* without the gate: a lookup, then insert_new or select_replace, and the  *)
(* whole again when another writer came first.  The gate owns the table: a *)
(* restart empties it.                                                     *)
(***************************************************************************)
EXTENDS Integers, TLAPS

CONSTANTS
  Writers,      \* provider calls that were told to slow down
  MaxUntil,     \* bound: cooldown ends are 1 .. MaxUntil
  MaxRestarts   \* bound: restarts of the gate that owns the table

ASSUME CooldownAssumption == MaxUntil \in Nat \ {0} /\ MaxRestarts \in Nat

VARIABLES
  row,    \* the row of the key: its cooldown end, or NoRow
  gen,    \* how many times the table was made anew
  pc,     \* idle, lookup (before the read), write (after it) or done
  goal,   \* `until` of each writer
  seen,   \* what its lookup returned
  doneGen \* the table in which it last succeeded

vars == <<row, gen, pc, goal, seen, doneGen>>

NoRow == 0
Untils == 1 .. MaxUntil

Init ==
  /\ row = NoRow /\ gen = 0
  /\ pc = [w \in Writers |-> "idle"]
  /\ goal = [w \in Writers |-> NoRow]
  /\ seen = [w \in Writers |-> NoRow]
  /\ doneGen = [w \in Writers |-> 0]

\* cool_down(key, until) is called.
CoolDown(w, until) ==
  /\ pc[w] \in {"idle", "done"}
  /\ pc' = [pc EXCEPT ![w] = "lookup"]
  /\ goal' = [goal EXCEPT ![w] = until]
  /\ UNCHANGED <<row, gen, seen, doneGen>>

\* :ets.lookup: a row that is already as late ends the call.
Lookup(w) ==
  /\ pc[w] = "lookup"
  /\ seen' = [seen EXCEPT ![w] = row]
  /\ IF row >= goal[w]
     THEN pc' = [pc EXCEPT ![w] = "done"] /\ doneGen' = [doneGen EXCEPT ![w] = gen]
     ELSE pc' = [pc EXCEPT ![w] = "write"] /\ UNCHANGED doneGen
  /\ UNCHANGED <<row, gen, goal>>

\* Mutant: what the lookup saw is not compared again (a plain :ets.insert).
WritePlain(w) ==
  /\ pc[w] = "write"
  /\ row' = goal[w]
  /\ pc' = [pc EXCEPT ![w] = "done"]
  /\ doneGen' = [doneGen EXCEPT ![w] = gen]
  /\ UNCHANGED <<gen, goal, seen>>
\* Mutant: a lost race ends the call instead of starting it again.
WriteOnce(w) ==
  /\ pc[w] = "write"
  /\ row' = IF row = seen[w] THEN goal[w] ELSE row
  /\ pc' = [pc EXCEPT ![w] = "done"]
  /\ doneGen' = [doneGen EXCEPT ![w] = gen]
  /\ UNCHANGED <<gen, goal, seen>>
\* Mutant: a lost race is tried again with what the old lookup saw.
WriteSpin(w) ==
  /\ pc[w] = "write" /\ row = seen[w]
  /\ row' = goal[w]
  /\ pc' = [pc EXCEPT ![w] = "done"]
  /\ doneGen' = [doneGen EXCEPT ![w] = gen]
  /\ UNCHANGED <<gen, goal, seen>>

\* insert_new or select_replace: one atomic compare-and-set on the value seen,
\* and the call again when it failed.
Write(w) ==
  /\ pc[w] = "write"
  /\ IF row = seen[w]
     THEN /\ row' = goal[w]
          /\ pc' = [pc EXCEPT ![w] = "done"]
          /\ doneGen' = [doneGen EXCEPT ![w] = gen]
     ELSE /\ pc' = [pc EXCEPT ![w] = "lookup"]
          /\ UNCHANGED <<row, doneGen>>
  /\ UNCHANGED <<gen, goal, seen>>

\* The gate ends, its table with it, and the new gate makes an empty one.
TableLost ==
  /\ gen < MaxRestarts
  /\ gen' = gen + 1
  /\ row' = NoRow
  /\ UNCHANGED <<pc, goal, seen, doneGen>>

Next ==
  \/ TableLost
  \/ \E w \in Writers : \/ \E until \in Untils : CoolDown(w, until)
                        \/ Lookup(w)
                        \/ Write(w)

Spec == Init /\ [][Next]_vars

\* A writer that was scheduled goes on with its two ETS calls.
FairSpec == Spec /\ \A w \in Writers : WF_vars(Lookup(w)) /\ WF_vars(Write(w))

-----------------------------------------------------------------------------
\* Every variable keeps its shape.
TypeOK ==
  /\ row \in Untils \cup {NoRow}
  /\ gen \in Nat
  /\ pc \in [Writers -> {"idle", "lookup", "write", "done"}]
  /\ goal \in [Writers -> Untils \cup {NoRow}]
  /\ seen \in [Writers -> Untils \cup {NoRow}]
  /\ doneGen \in [Writers -> Nat]

\* "A later cooldown that is already there is never shortened, whoever writes
\* at the same time": in one table the row only grows.
NeverShortened == [][gen' = gen => row' >= row]_vars

\* A call that returned left a cooldown at least as long as it asked for, as
\* long as the table it wrote to exists.
RaiseSticks == \A w \in Writers : pc[w] = "done" /\ doneGen[w] = gen => row >= goal[w]

\* The retry loop ends although other writers keep winning: each lost race has
\* raised the row.
WritersFinish == \A w \in Writers : (pc[w] = "lookup") ~> (pc[w] = "done")

-----------------------------------------------------------------------------
(* Proofs.  NeverShortened rests on what a lookup promised: a writer goes   *)
(* on to write only over a value below its own.                             *)

Promise == \A w \in Writers : /\ pc[w] = "write" => seen[w] < goal[w]
                             /\ doneGen[w] <= gen
Inv == TypeOK /\ RaiseSticks /\ Promise

LEMMA InvInductive == Inv /\ [Next]_vars => Inv'
<1> SUFFICES ASSUME Inv, [Next]_vars PROVE Inv'
  OBVIOUS
<1> USE CooldownAssumption DEF Inv, TypeOK, RaiseSticks, Promise, Untils, NoRow
<1>1. ASSUME NEW w \in Writers, NEW until \in Untils, CoolDown(w, until) PROVE Inv'
  BY <1>1 DEF CoolDown
<1>2. ASSUME NEW w \in Writers, Lookup(w) PROVE Inv'
  BY <1>2 DEF Lookup
<1>3. ASSUME NEW w \in Writers, Write(w) PROVE Inv'
  BY <1>3 DEF Write
<1>4. CASE TableLost
  BY <1>4 DEF TableLost
<1>5. CASE UNCHANGED vars
  BY <1>5 DEF vars
<1> QED  BY <1>1, <1>2, <1>3, <1>4, <1>5 DEF Next

\* Whatever the number of writers and the times they ask for: the row is typed
\* and no call that returned was forgotten.
THEOREM CooldownSticks == Spec => [](TypeOK /\ RaiseSticks)
<1>1. Init => Inv
  BY CooldownAssumption DEF Init, Inv, TypeOK, RaiseSticks, Promise, Untils, NoRow
<1> QED  BY <1>1, InvInductive, PTL DEF Spec, Inv

\* In one table no step of any writer lowers the row.
THEOREM CooldownNeverShortened == Spec => NeverShortened
<1>1. Init => Inv
  BY CooldownAssumption DEF Init, Inv, TypeOK, RaiseSticks, Promise, Untils, NoRow
<1>2. Inv /\ [Next]_vars => [gen' = gen => row' >= row]_vars
  <2> SUFFICES ASSUME Inv, Next, gen' = gen PROVE row' >= row
    BY DEF vars
  <2> USE DEF Inv, TypeOK, Promise, Untils, NoRow
  <2>1. row \in Int /\ row >= row
    OBVIOUS
  <2>2. ASSUME NEW w \in Writers, Write(w) PROVE row' >= row
    BY <2>2 DEF Write
  <2>3. ASSUME NEW w \in Writers, Lookup(w) \/ \E until \in Untils : CoolDown(w, until) PROVE row' >= row
    BY <2>1, <2>3 DEF Lookup, CoolDown
  <2>4. CASE TableLost
    BY <2>4 DEF TableLost
  <2> QED  BY <2>2, <2>3, <2>4 DEF Next
<1> QED  BY <1>1, <1>2, InvInductive, PTL DEF Spec, NeverShortened

=============================================================================
