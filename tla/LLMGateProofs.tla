--------------------------- MODULE LLMGateProofs ---------------------------
(***************************************************************************)
(* The server's bookkeeping is right for every set of callers and keys and *)
(* every limit: what it counts is what its monitors say, no key exceeds    *)
(* its limit, and no slot is empty while somebody queues for it.  None of  *)
(* the three is inductive alone: letting waiters in keeps the count within *)
(* the limit because the queue and the holders are disjoint and hold no    *)
(* ref twice, and `waiting` stays a natural because it counts the queue.   *)
(*                                                                         *)
(* What the callers may rely on follows from what they and the server have *)
(* said to each other (Talk): no ref is let in before an earlier one of    *)
(* its key, the streams that run are holders, and what the server keeps of *)
(* a ref somebody still has or is about to give back.                      *)
(***************************************************************************)
EXTENDS LLMGate, FiniteSetTheorems, SequenceTheorems, TLAPS

Distinct(s) == \A i, j \in DOMAIN s : s[i] = s[j] => i = j

GoodEntry(e) == e \in Entry /\ Consistent(e) /\ IsFiniteSet(e.holders)
Full(e) == e.queue # <<>> => Cardinality(e.holders) = Limit

\* A caller that may give a ref back knows one.
KnowsRef == \A c \in Callers : pc[c] \in {"waiting", "streaming"} => cref[c] \in Refs

Inv == TypeOK /\ Bookkeeping /\ HoldersBounded /\ WorkConserving /\ KnowsRef

-----------------------------------------------------------------------------
(* Sequences.                                                              *)

\* Taking an element out of a mailbox leaves a mailbox.
LEMMA RemoveType ==
  ASSUME NEW S, NEW s \in Seq(S), NEW x
  PROVE  Remove(s, x) \in Seq(S)
<1>1. CASE x \notin Elements(s)
  BY <1>1 DEF Remove
<1>2. CASE x \in Elements(s)
  <2> DEFINE i == CHOOSE j \in DOMAIN s : s[j] = x
  <2>1. i \in 1 .. Len(s)
    BY <1>2 DEF Elements
  <2>2. Remove(s, x) = SubSeq(s, 1, i - 1) \o SubSeq(s, i + 1, Len(s))
    BY <1>2 DEF Remove
  <2> HIDE DEF i
  <2>3. SubSeq(s, 1, i - 1) \in Seq(S)
    BY <2>1
  <2>4. SubSeq(s, i + 1, Len(s)) \in Seq(S)
    BY <2>1
  <2> QED  BY <2>2, <2>3, <2>4
<1> QED  BY <1>1, <1>2

\* Taking a waiter out of a queue without repetitions leaves the others, once.
LEMMA RemoveDistinct ==
  ASSUME NEW S, NEW s \in Seq(S), NEW x, Distinct(s), x \in Elements(s)
  PROVE  /\ Elements(Remove(s, x)) = Elements(s) \ {x}
         /\ Distinct(Remove(s, x))
         /\ Len(Remove(s, x)) = Len(s) - 1
<1> DEFINE i == CHOOSE j \in DOMAIN s : s[j] = x
           a == SubSeq(s, 1, i - 1)
           b == SubSeq(s, i + 1, Len(s))
           t == Remove(s, x)
<1>1. i \in 1 .. Len(s) /\ s[i] = x
  BY DEF Elements
<1>4. t = a \o b
  BY DEF Remove
<1> HIDE DEF i
<1>2. /\ a \in Seq(S) /\ Len(a) = i - 1
      /\ \A j \in 1 .. i - 1 : a[j] = s[j]
  BY <1>1
<1>3. /\ b \in Seq(S) /\ Len(b) = Len(s) - i
      /\ \A j \in 1 .. Len(s) - i : b[j] = s[i + j]
  BY <1>1
<1> HIDE DEF a, b, t
<1>5. Len(t) = Len(s) - 1
  <2>0. a \in Seq(S) /\ b \in Seq(S)
    BY <1>2, <1>3
  <2>a. Len(a \o b) = Len(a) + Len(b)
    BY <2>0, ConcatProperties
  <2>b. Len(s) \in Nat
    OBVIOUS
  <2>1. Len(t) = Len(a) + Len(b) /\ Len(s) \in Nat
    BY <2>a, <2>b, <1>4
  <2> QED  BY <1>1, <1>2, <1>3, <2>1
<1>6. \A j \in 1 .. Len(s) - 1 : t[j] = IF j < i THEN s[j] ELSE s[j + 1]
  <2> TAKE j \in 1 .. Len(s) - 1
  <2>1. t[j] = IF j <= i - 1 THEN a[j] ELSE b[j - (i - 1)]
    BY <1>1, <1>2, <1>3, <1>4
  <2> QED  BY <1>1, <1>2, <1>3, <2>1
<1>7. t \in Seq(S)
  BY <1>2, <1>3, <1>4
<1>8. DOMAIN t = 1 .. Len(s) - 1 /\ DOMAIN s = 1 .. Len(s)
  BY <1>5, <1>7
<1>9. Elements(t) = Elements(s) \ {x}
  <2>1. ASSUME NEW y \in Elements(t) PROVE y \in Elements(s) \ {x}
    <3> PICK j \in 1 .. Len(s) - 1 : y = t[j]
      BY <1>8 DEF Elements
    <3>1. PICK k \in 1 .. Len(s) : y = s[k] /\ k # i
      BY <1>1, <1>6
    <3> QED  BY <3>1, <1>1, <1>8 DEF Distinct, Elements
  <2>2. ASSUME NEW y \in Elements(s) \ {x} PROVE y \in Elements(t)
    <3> PICK k \in 1 .. Len(s) : y = s[k]
      BY <1>8 DEF Elements
    <3>1. k # i
      BY <1>1
    <3>2. CASE k < i
      <4>1. k \in 1 .. Len(s) - 1 /\ t[k] = y
        BY <3>2, <1>1, <1>6
      <4> QED  BY <4>1, <1>8 DEF Elements
    <3>3. CASE k > i
      <4>1. k - 1 \in 1 .. Len(s) - 1 /\ t[k - 1] = y
        BY <3>3, <1>1, <1>6
      <4> QED  BY <4>1, <1>8 DEF Elements
    <3> QED  BY <3>1, <3>2, <3>3, <1>1
  <2> QED  BY <2>1, <2>2
<1>10. Distinct(t)
  <2> SUFFICES ASSUME NEW j \in 1 .. Len(s) - 1, NEW k \in 1 .. Len(s) - 1, t[j] = t[k]
               PROVE  j = k
    BY <1>8 DEF Distinct
  <2> DEFINE at(n) == IF n < i THEN n ELSE n + 1
  <2>1. at(j) \in 1 .. Len(s) /\ at(k) \in 1 .. Len(s)
    BY <1>1
  <2>2. s[at(j)] = s[at(k)]
    BY <1>6
  <2>3. at(j) = at(k)
    BY <1>8, <2>1, <2>2 DEF Distinct
  <2> QED  BY <1>1, <2>3
<1> QED  BY <1>5, <1>9, <1>10 DEF t

-----------------------------------------------------------------------------
(* The operators on one entry.                                             *)

\* Letting r out of an entry forgets r and nothing else.
LEMMA WithoutForgets ==
  ASSUME NEW e, GoodEntry(e), NEW r \in Known(e)
  PROVE  /\ GoodEntry(Without(e, r))
         /\ Known(Without(e, r)) = Known(e) \ {r}
         /\ Cardinality(Without(e, r).holders) <= Cardinality(e.holders)
<1> DEFINE w == Without(e, r)
<1> USE DEF GoodEntry, Entry, Refs
<1>0. e.holders \in SUBSET Refs /\ e.queue \in Seq(Refs) /\ e.waiting \in Nat
  OBVIOUS
<1>1. CASE r \in e.holders
  <2>1. /\ w \in Entry /\ w.queue = e.queue /\ w.waiting = e.waiting
        /\ w.holders = e.holders \ {r}
    BY <1>1 DEF Without
  <2>2. r \notin Elements(e.queue)
    BY <1>1 DEF Consistent
  <2>3. /\ IsFiniteSet(w.holders)
        /\ Cardinality(w.holders) <= Cardinality(e.holders)
    <3>1. IsFiniteSet(e.holders \ {r}) /\ Cardinality(e.holders \ {r}) = Cardinality(e.holders) - 1
      BY <1>1, FS_RemoveElement
    <3>2. Cardinality(e.holders) \in Nat
      BY FS_CardinalityType
    <3> HIDE DEF w
    <3> QED  BY <2>1, <3>1, <3>2
  <2>4. Consistent(w)
    BY <2>1 DEF Consistent
  <2> QED  BY <2>1, <2>2, <2>3, <2>4 DEF Known
<1>2. CASE r \notin e.holders
  <2>1. r \in Elements(e.queue)
    BY <1>2 DEF Known
  <2>2. Distinct(e.queue)
    BY DEF Consistent, Distinct
  <2>3. /\ Remove(e.queue, r) \in Seq(Refs)
        /\ Elements(Remove(e.queue, r)) = Elements(e.queue) \ {r}
        /\ Distinct(Remove(e.queue, r))
        /\ Len(Remove(e.queue, r)) = Len(e.queue) - 1
    BY <1>0, <2>1, <2>2, RemoveType, RemoveDistinct
  <2>4. e.waiting = Len(e.queue) /\ Len(Remove(e.queue, r)) \in Nat
    BY <2>3 DEF Consistent
  <2>a. w = [holders |-> e.holders, queue |-> Remove(e.queue, r),
             waiting |-> IF e.waiting > 0 THEN e.waiting - 1 ELSE 0]
    BY <1>2 DEF Without
  <2> HIDE DEF w
  <2>5. /\ w \in Entry /\ w.holders = e.holders
        /\ w.queue = Remove(e.queue, r)
        /\ w.waiting = Len(e.queue) - 1
    BY <1>0, <2>3, <2>4, <2>a
  <2>6. Consistent(w)
    BY <2>3, <2>5 DEF Consistent, Distinct
  <2>7. Known(w) = Known(e) \ {r}
    BY <1>2, <2>3, <2>5 DEF Known
  <2>8. Cardinality(w.holders) <= Cardinality(e.holders)
    BY <2>5, FS_CardinalityType
  <2> QED  BY <2>5, <2>6, <2>7, <2>8 DEF w
<1> QED  BY <1>1, <1>2

\* A newcomer takes a slot nobody waits for.
LEMMA OccupyAdds ==
  ASSUME NEW e, GoodEntry(e), FreeNow(e), NEW r \in Refs
  PROVE  /\ Occupy(e, r) \in Entry /\ Consistent(Occupy(e, r))
         /\ Known(Occupy(e, r)) = Known(e) \cup {r}
         /\ Cardinality(Occupy(e, r).holders) <= Limit
         /\ Full(Occupy(e, r))
<1> DEFINE n == Occupy(e, r)
<1>1. /\ n \in Entry /\ n.holders = e.holders \cup {r}
      /\ n.queue = <<>> /\ n.waiting = e.waiting /\ e.queue = <<>>
  BY DEF Occupy, FreeNow, GoodEntry, Entry
<1> HIDE DEF n
<1>2. Consistent(n) /\ Known(n) = Known(e) \cup {r} /\ Full(n)
  BY <1>1 DEF Consistent, Known, Full, GoodEntry, Elements
<1>3. Cardinality(n.holders) <= Limit
  <2>1. Cardinality(e.holders) \in Nat /\ Cardinality(e.holders) < Limit /\ Limit \in Nat
    BY FS_CardinalityType, LimitAssumption DEF GoodEntry, FreeNow
  <2>2. Cardinality(e.holders \cup {r}) = IF r \in e.holders THEN Cardinality(e.holders)
                                                           ELSE Cardinality(e.holders) + 1
    BY FS_AddElement DEF GoodEntry
  <2> QED  BY <1>1, <2>1, <2>2
<1> QED  BY <1>1, <1>2, <1>3 DEF n

\* A newcomer that has to wait goes behind everybody who waits.
LEMMA EnqueueAdds ==
  ASSUME NEW e, GoodEntry(e), Cardinality(e.holders) <= Limit, Full(e), ~FreeNow(e),
         NEW r \in Refs, r \notin Known(e)
  PROVE  /\ Enqueue(e, r) \in Entry /\ Consistent(Enqueue(e, r))
         /\ Known(Enqueue(e, r)) = Known(e) \cup {r}
         /\ Cardinality(Enqueue(e, r).holders) <= Limit
         /\ Full(Enqueue(e, r))
<1> DEFINE q == e.queue
           p == Append(q, r)
<1>0. /\ e.holders \in SUBSET Refs /\ q \in Seq(Refs) /\ e.waiting \in Nat /\ e.waiting = Len(q)
      /\ e = [holders |-> e.holders, queue |-> q, waiting |-> e.waiting]
  BY DEF GoodEntry, Entry, Consistent
<1>1. Enqueue(e, r) = [holders |-> e.holders, queue |-> p, waiting |-> e.waiting + 1]
  BY DEF Enqueue
<1>2. /\ p \in Seq(Refs) /\ Len(p) = Len(q) + 1 /\ Len(q) \in Nat
      /\ DOMAIN p = 1 .. Len(q) + 1 /\ DOMAIN q = 1 .. Len(q)
      /\ p[Len(q) + 1] = r
      /\ \A i \in 1 .. Len(q) : p[i] = q[i]
  BY <1>0
<1> HIDE DEF p, q
<1>3. Elements(p) = Elements(q) \cup {r}
  <2>1. ASSUME NEW y \in Elements(p) PROVE y \in Elements(q) \cup {r}
    <3> PICK i \in 1 .. Len(q) + 1 : y = p[i]
      BY <1>2 DEF Elements
    <3> QED  BY <1>2 DEF Elements
  <2>2. ASSUME NEW y \in Elements(q) \cup {r} PROVE y \in Elements(p)
    <3>1. Len(q) + 1 \in DOMAIN p /\ 1 .. Len(q) \subseteq DOMAIN p
      BY <1>2
    <3> QED  BY <3>1, <1>2 DEF Elements
  <2> QED  BY <2>1, <2>2
<1>4. r \notin Elements(q) /\ r \notin e.holders
  BY DEF Known, q
<1>5. \A i, j \in DOMAIN p : p[i] = p[j] => i = j
  <2>1. \A i, j \in 1 .. Len(q) : q[i] = q[j] => i = j
    BY <1>2 DEF GoodEntry, Consistent, q
  <2>2. \A i \in 1 .. Len(q) : q[i] # r
    BY <1>2, <1>4 DEF Elements
  <2>3. \A i \in DOMAIN p : i \in 1 .. Len(q) \/ i = Len(q) + 1
    BY <1>2
  <2> QED  BY <1>2, <2>1, <2>2, <2>3
<1>6. e.holders \cap Elements(p) = {}
  BY <1>3, <1>4 DEF GoodEntry, Consistent, q
<1>7. Cardinality(e.holders) = Limit
  BY FS_CardinalityType, LimitAssumption DEF FreeNow, Full, GoodEntry
<1>8. Enqueue(e, r) \in Entry
  BY <1>0, <1>1, <1>2 DEF Entry
<1>9. Consistent(Enqueue(e, r))
  BY <1>0, <1>1, <1>2, <1>5, <1>6 DEF Consistent
<1>10. Known(Enqueue(e, r)) = Known(e) \cup {r}
  BY <1>1, <1>3 DEF Known, q
<1>11. Enqueue(e, r).holders = e.holders
  BY <1>1
<1> QED  BY <1>7, <1>8, <1>9, <1>10, <1>11, LimitAssumption DEF Full

\* Letting waiters in keeps the entry, forgets nobody, fits the limit, and
\* leaves a queue only when the slots are full.
LEMMA AdmitFills ==
  ASSUME NEW e, GoodEntry(e), Cardinality(e.holders) <= Limit
  PROVE  /\ GoodEntry(Admit(e))
         /\ Known(Admit(e)) = Known(e)
         /\ Cardinality(Admit(e).holders) <= Limit
         /\ Full(Admit(e))
<1> DEFINE n == FreeSlots(e)
           q == e.queue
           A == Admitted(e)
           a == Admit(e)
<1>0. /\ e.holders \in SUBSET Refs /\ q \in Seq(Refs) /\ e.waiting = Len(q)
      /\ Len(q) \in Nat /\ DOMAIN q = 1 .. Len(q) /\ Limit \in Nat
      /\ Cardinality(e.holders) \in Nat
  BY FS_CardinalityType, LimitAssumption DEF GoodEntry, Entry, Consistent
<1>1. /\ n \in 0 .. Len(q)
      /\ Cardinality(e.holders) + n <= Limit
      /\ n < Len(q) => Cardinality(e.holders) + n = Limit
  BY <1>0 DEF FreeSlots
<1>2. A = {q[i] : i \in 1 .. n}
  BY DEF Admitted
<1>3. a = [holders |-> e.holders \cup A, queue |-> SubSeq(q, n + 1, Len(q)), waiting |-> Len(q) - n]
  BY <1>0 DEF Admit
<1> HIDE DEF n, A, a
<1> DEFINE rest == SubSeq(q, n + 1, Len(q))
<1>4. /\ rest \in Seq(Refs) /\ Len(rest) = Len(q) - n
      /\ \A i \in 1 .. Len(q) - n : rest[i] = q[n + i]
  BY <1>0, <1>1
<1>5. DOMAIN rest = 1 .. Len(q) - n
  BY <1>4
<1> HIDE DEF rest
<1>6. A \subseteq Refs /\ A \subseteq Elements(q)
  BY <1>0, <1>1, <1>2 DEF Elements
<1>7. Elements(q) = A \cup Elements(rest)
  <2>1. ASSUME NEW y \in Elements(q) PROVE y \in A \cup Elements(rest)
    <3> PICK i \in 1 .. Len(q) : y = q[i]
      BY <1>0 DEF Elements
    <3>1. CASE i <= n
      BY <3>1, <1>2
    <3>2. CASE i > n
      <4>a. i - n \in 1 .. Len(q) - n /\ n + (i - n) = i
        BY <3>2, <1>0, <1>1
      <4>1. i - n \in 1 .. Len(q) - n /\ y = rest[i - n]
        BY <4>a, <1>4
      <4> QED  BY <4>1, <1>5 DEF Elements
    <3> QED  BY <3>1, <3>2, <1>1
  <2>2. ASSUME NEW y \in Elements(rest) PROVE y \in Elements(q)
    <3> PICK i \in 1 .. Len(q) - n : y = rest[i]
      BY <1>5 DEF Elements
    <3>0. n + i \in 1 .. Len(q)
      BY <1>0, <1>1
    <3>1. n + i \in 1 .. Len(q) /\ y = q[n + i]
      BY <1>4, <3>0
    <3> QED  BY <3>1, <1>0 DEF Elements
  <2> QED  BY <2>1, <2>2, <1>6
<1>8. A \cap Elements(rest) = {}
  <2> SUFFICES ASSUME NEW i \in 1 .. n, NEW j \in 1 .. Len(q) - n, q[i] = rest[j] PROVE FALSE
    BY <1>2, <1>5 DEF Elements
  <2>0. i \in 1 .. Len(q) /\ n + j \in 1 .. Len(q)
    BY <1>0, <1>1
  <2>1. i \in 1 .. Len(q) /\ n + j \in 1 .. Len(q) /\ q[i] = q[n + j]
    BY <1>4, <2>0
  <2>2. i = n + j
    BY <2>1, <1>0 DEF GoodEntry, Consistent
  <2> QED  BY <2>2, <1>1
<1>9. Consistent(a)
  <2>1. a.holders \cap Elements(a.queue) = {}
    <3>1. e.holders \cap Elements(rest) = {}
      BY <1>7 DEF GoodEntry, Consistent
    <3> QED  BY <3>1, <1>3, <1>8 DEF rest
  <2>2. ASSUME NEW i \in 1 .. Len(q) - n, NEW j \in 1 .. Len(q) - n, rest[i] = rest[j] PROVE i = j
    <3>0. n + i \in 1 .. Len(q) /\ n + j \in 1 .. Len(q)
      BY <1>0, <1>1
    <3>1. n + i \in 1 .. Len(q) /\ n + j \in 1 .. Len(q) /\ q[n + i] = q[n + j]
      BY <1>4, <2>2, <3>0
    <3>2. n + i = n + j
      BY <3>1, <1>0 DEF GoodEntry, Consistent
    <3> QED  BY <3>2, <1>1
  <2>3. a.queue = rest /\ a.waiting = Len(rest)
    BY <1>3, <1>4 DEF rest
  <2> QED  BY <2>1, <2>2, <2>3, <1>5 DEF Consistent
<1>10. IsFiniteSet(A) /\ Cardinality(A) <= n
  <2> DEFINE f == [i \in 1 .. n |-> q[i]]
  <2>1. f \in Surjection(1 .. n, A)
    BY <1>2 DEF Surjection, Range
  <2>2. IsFiniteSet(1 .. n) /\ Cardinality(1 .. n) = n
    BY <1>1, FS_Interval
  <2> QED  BY <2>1, <2>2, FS_Surjection
<1>11. IsFiniteSet(a.holders) /\ Cardinality(a.holders) = Cardinality(e.holders) + Cardinality(A)
  <2>1. e.holders \cap A = {}
    BY <1>6 DEF GoodEntry, Consistent
  <2>2. /\ IsFiniteSet(e.holders \cup A)
        /\ Cardinality(e.holders \cup A) = Cardinality(e.holders) + Cardinality(A) - Cardinality(e.holders \cap A)
    BY <1>10, FS_Union DEF GoodEntry
  <2>3. Cardinality(e.holders \cap A) = 0
    BY <2>1, FS_EmptySet
  <2>4. Cardinality(A) \in Nat
    BY <1>10, FS_CardinalityType
  <2> QED  BY <2>2, <2>3, <2>4, <1>0, <1>3
<1>12. GoodEntry(a)
  BY <1>0, <1>1, <1>3, <1>4, <1>6, <1>9, <1>11 DEF GoodEntry, Entry, rest
<1>13. Known(a) = Known(e)
  BY <1>3, <1>7 DEF Known, rest
<1>14. Cardinality(a.holders) <= Limit
  BY <1>0, <1>1, <1>10, <1>11, FS_CardinalityType
<1>15. Full(a)
  <2> SUFFICES ASSUME a.queue # <<>> PROVE Cardinality(a.holders) = Limit
    BY DEF Full
  <2>1. n < Len(q)
    BY <1>0, <1>1, <1>3
  <2>2. Cardinality(A) = n
    <3> DEFINE f == [i \in 1 .. n |-> q[i]]
    <3>1. f \in Bijection(1 .. n, A)
      BY <1>0, <1>1, <1>2 DEF Bijection, Injection, IsInjective, Surjection, Range, GoodEntry, Consistent
    <3> QED  BY <3>1, <1>1, FS_CountingElements DEF ExistsBijection
  <2> QED  BY <2>1, <2>2, <1>1, <1>11
<1> QED  BY <1>12, <1>13, <1>14, <1>15 DEF a

-----------------------------------------------------------------------------
(* The specification.                                                      *)

\* Every variable keeps its shape, given the bookkeeping that keeps `waiting`
\* in step with the queue.
LEMMA InitInv == Init => Inv
<1> SUFFICES ASSUME Init PROVE Inv
  OBVIOUS
<1> USE DEF Init, EmptyEntry, Entry, NoRef, Refs
<1>1. TypeOK
  BY DEF TypeOK, Reply, Request
<1>2. \A k \in Keys : keys[k].holders = {} /\ keys[k].queue = <<>> /\ keys[k].waiting = 0
  OBVIOUS
<1>3. Bookkeeping
  BY <1>2 DEF Bookkeeping, Consistent, Known, Elements
<1>4. HoldersBounded /\ WorkConserving
  <2>1. Cardinality({}) = 0 /\ 0 <= Limit
    BY FS_EmptySet, LimitAssumption
  <2> QED  BY <1>2, <2>1 DEF HoldersBounded, WorkConserving
<1>5. KnowsRef
  BY DEF KnowsRef
<1> QED  BY <1>1, <1>3, <1>4, <1>5 DEF Inv

\* What the invariant says of one entry.
LEMMA EntryGood ==
  ASSUME Inv, NEW k \in Keys
  PROVE  GoodEntry(keys[k]) /\ Cardinality(keys[k].holders) <= Limit /\ Full(keys[k])
<1>1. keys[k] \in Entry /\ Consistent(keys[k])
  BY DEF Inv, TypeOK, Bookkeeping
<1>2. keys[k].holders \subseteq 1 .. Len(made)
  BY DEF Inv, TypeOK, Bookkeeping, Known
<1>3. IsFiniteSet(keys[k].holders)
  BY <1>2, FS_Interval, FS_Subset DEF Inv, TypeOK
<1> QED  BY <1>1, <1>3 DEF GoodEntry, Full, Inv, HoldersBounded, WorkConserving

\* The server answers an acquire.
LEMMA HandleAcquireInv == Inv /\ HandleAcquire => Inv'
<1> SUFFICES ASSUME Inv, HandleAcquire PROVE Inv'
  OBVIOUS
<1> DEFINE c == Head(inbox).caller
           k == Head(inbox).key
           r == Len(made) + 1
           e == keys[k]
           row == [key |-> k, owner |-> c, gen |-> gen]
<1>1. Head(inbox) \in Request /\ Tail(inbox) \in Seq(Request) /\ c \in Callers /\ k \in Keys
  BY DEF HandleAcquire, Inv, TypeOK, Request
<1>2. r \in Refs /\ r \notin DOMAIN made /\ r \notin refs
  BY DEF Inv, TypeOK, Bookkeeping, Refs
<1>3. /\ made' = Append(made, row) /\ refs' = refs \cup {r}
      /\ row \in [key : Keys, owner : Callers, gen : Nat]
  BY <1>1 DEF HandleAcquire, Inv, TypeOK
<1>4. /\ DOMAIN made' = DOMAIN made \cup {r}
      /\ made'[r] = row
      /\ \A x \in DOMAIN made : made'[x] = made[x]
  BY <1>3 DEF Inv, TypeOK
<1>5. GoodEntry(e) /\ Cardinality(e.holders) <= Limit /\ Full(e)
  BY <1>1, EntryGood
<1>6. Known(e) = {x \in refs : made[x].key = k} /\ r \notin Known(e)
  BY <1>1, <1>2 DEF Inv, Bookkeeping
<1>7. /\ keys' \in [Keys -> Entry]
      /\ \A x \in Keys \ {k} : keys'[x] = keys[x]
      /\ Consistent(keys'[k]) /\ Known(keys'[k]) = Known(e) \cup {r}
      /\ Cardinality(keys'[k].holders) <= Limit
      /\ Full(keys'[k])
  <2>0. keys \in [Keys -> Entry] /\ e \in Entry /\ IsFiniteSet(e.holders)
    BY <1>1, <1>5 DEF Inv, TypeOK, GoodEntry
  <2>1. CASE FreeNow(e)
    <3>1. keys' = [keys EXCEPT ![k] = Occupy(e, r)]
      BY <2>0, <2>1, <1>1 DEF HandleAcquire
    <3>2. /\ Occupy(e, r) \in Entry /\ Consistent(Occupy(e, r))
          /\ Known(Occupy(e, r)) = Known(e) \cup {r}
          /\ Cardinality(Occupy(e, r).holders) <= Limit
          /\ Full(Occupy(e, r))
      BY <2>1, <1>2, <1>5, OccupyAdds
    <3> QED  BY <2>0, <1>1, <3>1, <3>2
  <2>2. CASE ~FreeNow(e)
    <3>1. keys' = [keys EXCEPT ![k] = Enqueue(e, r)]
      BY <2>0, <2>2, <1>1 DEF HandleAcquire
    <3>2. /\ Enqueue(e, r) \in Entry /\ Consistent(Enqueue(e, r))
          /\ Known(Enqueue(e, r)) = Known(e) \cup {r}
          /\ Cardinality(Enqueue(e, r).holders) <= Limit
          /\ Full(Enqueue(e, r))
      BY <2>2, <1>2, <1>5, <1>6, EnqueueAdds
    <3> QED  BY <2>0, <1>1, <3>1, <3>2
  <2> QED  BY <2>1, <2>2
<1>8. Bookkeeping'
  <2>1. refs' \subseteq DOMAIN made'
    BY <1>3, <1>4 DEF Inv, Bookkeeping
  <2>2. ASSUME NEW x \in Keys
        PROVE Consistent(keys'[x]) /\ Known(keys'[x]) = {y \in refs' : made'[y].key = x}
    <3>0. refs \subseteq DOMAIN made
      BY DEF Inv, Bookkeeping
    <3>1. {y \in refs' : made'[y].key = x}
            = {y \in refs : made[y].key = x} \cup (IF x = k THEN {r} ELSE {})
      BY <3>0, <1>2, <1>3, <1>4
    <3>2. CASE x = k
      BY <3>1, <3>2, <1>6, <1>7
    <3>3. CASE x # k
      BY <3>1, <3>3, <1>7 DEF Inv, Bookkeeping
    <3> QED  BY <3>2, <3>3
  <2> QED  BY <2>1, <2>2 DEF Bookkeeping
<1>9. HoldersBounded' /\ WorkConserving'
  BY <1>7 DEF Inv, HoldersBounded, WorkConserving, Full
<1>10. TypeOK'
  <2>1. RefMsg("DOWN", r) \in Request /\ RefMsg("granted", r) \in Reply /\ RefMsg("queued", r) \in Reply
    BY <1>2 DEF RefMsg, Request, Reply
  <2>2. inbox' \in Seq(Request)
    BY <2>1, <1>1 DEF HandleAcquire
  <2>3. ASSUME NEW m \in Reply PROVE Deliver(c, m) \in [Callers -> Seq(Reply)]
    BY <1>1 DEF Deliver, Inv, TypeOK
  <2>4. mail' \in [Callers -> Seq(Reply)]
    BY <2>1, <2>3 DEF HandleAcquire
  <2>5. refs' \in SUBSET Refs /\ made' \in Seq([key : Keys, owner : Callers, gen : Nat])
    BY <1>2, <1>3 DEF Inv, TypeOK
  <2>6. UNCHANGED <<gen, pc, cref>>
    BY DEF HandleAcquire
  <2> QED  BY <1>7, <2>2, <2>4, <2>5, <2>6 DEF Inv, TypeOK
<1>11. KnowsRef'
  BY DEF HandleAcquire, Inv, KnowsRef
<1> QED  BY <1>8, <1>9, <1>10, <1>11 DEF Inv

\* A ref leaves, and the waiters that fit are let in.
LEMMA HandleLeaveInv == Inv /\ HandleLeave => Inv'
<1> SUFFICES ASSUME Inv, HandleLeave PROVE Inv'
  OBVIOUS
<1> DEFINE r == Head(inbox).ref
           k == made[r].key
           w == Without(keys[k], r)
<1>1. /\ r \in Refs /\ Tail(inbox) \in Seq(Request)
      /\ UNCHANGED <<made, gen, pc, cref>>
  BY DEF HandleLeave, Inv, TypeOK, Request
<1>2. CASE r \notin refs
  <2>1. inbox' = Tail(inbox) /\ UNCHANGED <<refs, keys, mail>>
    BY <1>2 DEF HandleLeave
  <2> QED  BY <1>1, <2>1 DEF Inv, TypeOK, Bookkeeping, HoldersBounded, WorkConserving, KnowsRef
<1>3. CASE r \in refs
  <2>0. Drop(r)
    BY <1>3 DEF HandleLeave
  <2>a. r \in 1 .. Len(made)
    <3>1. r \in DOMAIN made /\ DOMAIN made = 1 .. Len(made)
      BY <1>3 DEF Inv, Bookkeeping, TypeOK
    <3> QED  BY <3>1
  <2>b. made[r] \in [key : Keys, owner : Callers, gen : Nat]
    <3>1. made \in Seq([key : Keys, owner : Callers, gen : Nat])
      BY DEF Inv, TypeOK
    <3> HIDE DEF r
    <3> QED  BY <2>a, <3>1, ElementOfSeq
  <2>1. k \in Keys /\ Known(keys[k]) = {x \in refs : made[x].key = k}
    BY <2>b DEF Inv, Bookkeeping
  <2>2. GoodEntry(keys[k]) /\ Cardinality(keys[k].holders) <= Limit
    BY <2>1, EntryGood
  <2>3. r \in Known(keys[k])
    BY <1>3, <2>1
  <2>4. /\ GoodEntry(w) /\ Known(w) = Known(keys[k]) \ {r}
        /\ Cardinality(w.holders) <= Cardinality(keys[k].holders)
    BY <2>2, <2>3, WithoutForgets
  <2>5. Cardinality(w.holders) <= Limit
    <3>1. Cardinality(w.holders) \in Nat /\ Cardinality(keys[k].holders) \in Nat /\ Limit \in Nat
      BY <2>2, <2>4, FS_CardinalityType, LimitAssumption DEF GoodEntry
    <3> HIDE DEF w, k
    <3> QED  BY <2>2, <2>4, <3>1, SMTT(40)
  <2>6. /\ GoodEntry(Admit(w)) /\ Known(Admit(w)) = Known(w)
        /\ Cardinality(Admit(w).holders) <= Limit /\ Full(Admit(w))
    BY <2>4, <2>5, AdmitFills
  <2>7. /\ refs' = refs \ {r} /\ inbox' = Flush(Tail(inbox), r)
        /\ keys' = [keys EXCEPT ![k] = Admit(w)]
    BY <2>0, SMTT(40) DEF Drop
  <2>8. /\ keys' \in [Keys -> Entry] /\ keys'[k] = Admit(w)
        /\ \A x \in Keys \ {k} : keys'[x] = keys[x]
    BY <2>1, <2>6, <2>7 DEF GoodEntry, Inv, TypeOK
  <2>9. Bookkeeping'
    <3>1. ASSUME NEW x \in Keys
          PROVE Consistent(keys'[x]) /\ Known(keys'[x]) = {y \in refs' : made'[y].key = x}
      <4>1. CASE x = k
        BY <4>1, <1>1, <2>1, <2>4, <2>6, <2>7, <2>8 DEF GoodEntry
      <4>2. CASE x # k
        BY <4>2, <1>1, <2>7, <2>8 DEF Inv, Bookkeeping
      <4> QED  BY <4>1, <4>2, SMTT(40)
    <3> QED  BY <3>1, <1>1, <2>7 DEF Inv, Bookkeeping
  <2>10. HoldersBounded' /\ WorkConserving'
    BY <2>6, <2>8 DEF Inv, HoldersBounded, WorkConserving, Full
  <2>11. TypeOK'
    <3>1. inbox' \in Seq(Request)
      BY <1>1, <2>7, RemoveType DEF Flush
    <3>2. ASSUME NEW c \in Callers, NEW mine \in SUBSET Admitted(w), mine # {}
          PROVE Append(mail[c], RefMsg("gate_granted", CHOOSE x \in mine : TRUE)) \in Seq(Reply)
      <4>1. mine \subseteq Refs
        BY <2>4, <2>6 DEF GoodEntry, Entry, Admit
      <4>2. RefMsg("gate_granted", CHOOSE x \in mine : TRUE) \in Reply
        BY <3>2, <4>1 DEF RefMsg, Reply
      <4> QED  BY <4>2 DEF Inv, TypeOK
    <3>3. mail' \in [Callers -> Seq(Reply)]
      BY <2>0, <3>2 DEF Drop, Inv, TypeOK
    <3> QED  BY <1>1, <2>7, <2>8, <3>1, <3>3 DEF Inv, TypeOK
  <2>12. KnowsRef'
    BY <1>1 DEF Inv, KnowsRef
  <2> QED  BY <2>9, <2>10, <2>11, <2>12 DEF Inv
<1> QED  BY <1>2, <1>3

\* A restarted gate starts from an empty book.
LEMMA GateRestartInv == Inv /\ GateRestart => Inv'
<1> SUFFICES ASSUME Inv, GateRestart PROVE Inv'
  OBVIOUS
<1>1. /\ keys' = [k \in Keys |-> EmptyEntry] /\ refs' = {} /\ inbox' = <<>>
      /\ gen' = gen + 1 /\ UNCHANGED <<made, pc, cref>>
  BY DEF GateRestart
<1>2. GateDown \in Reply
  BY DEF Reply
<1>3. mail' \in [Callers -> Seq(Reply)]
  BY <1>2 DEF GateRestart, Inv, TypeOK
<1>4. EmptyEntry \in Entry
  BY DEF EmptyEntry, Entry
<1>5. TypeOK'
  BY <1>1, <1>3, <1>4 DEF Inv, TypeOK
<1>6. \A k \in Keys : keys'[k].holders = {} /\ keys'[k].queue = <<>> /\ keys'[k].waiting = 0
  BY <1>1 DEF EmptyEntry
<1>7. Bookkeeping'
  BY <1>1, <1>6 DEF Bookkeeping, Consistent, Known, Elements
<1>8. HoldersBounded' /\ WorkConserving'
  <2>1. Cardinality({}) = 0 /\ 0 <= Limit
    BY FS_EmptySet, LimitAssumption
  <2> QED  BY <1>6, <2>1 DEF HoldersBounded, WorkConserving
<1>9. KnowsRef'
  BY <1>1 DEF Inv, KnowsRef
<1> QED  BY <1>5, <1>7, <1>8, <1>9 DEF Inv

\* No caller touches the server's book.
LEMMA CallerInv ==
  ASSUME Inv, NEW c \in Callers,
         (\E k \in Keys : Acquire(c, k)) \/ Receive(c) \/ EndStream(c) \/ Die(c)
  PROVE  Inv'
<1>1. UNCHANGED <<keys, refs, made, gen>>
  BY DEF Acquire, Receive, EndStream, Die, gateVars
<1>2. Bookkeeping' /\ HoldersBounded' /\ WorkConserving'
  BY <1>1 DEF Inv, Bookkeeping, HoldersBounded, WorkConserving
<1>3. TypeOK'
  <2>1. ASSUME NEW k \in Keys, Acquire(c, k) PROVE TypeOK'
    <3>1. AcquireMsg(c, k) \in Request
      BY DEF AcquireMsg, Request
    <3> QED  BY <1>1, <2>1, <3>1 DEF Acquire, Inv, TypeOK
  <2>2. CASE Receive(c)
    <3>1. inbox' = inbox
      BY <2>2 DEF Receive, gateVars
    <3>2. /\ mail[c] \in Seq(Reply) /\ Head(mail[c]) \in Reply /\ Tail(mail[c]) \in Seq(Reply)
          /\ Head(mail[c]).ref \in Refs \cup {NoRef}
      BY <2>2 DEF Receive, Inv, TypeOK, Reply, GateDown, RefMsg
    <3> DEFINE m == Head(mail[c])
    <3>3. \E p \in {"waiting", "streaming", "idle"}, box \in Seq(Reply) :
             /\ pc' = [pc EXCEPT ![c] = p]
             /\ cref' \in {[cref EXCEPT ![c] = m.ref], [cref EXCEPT ![c] = NoRef]}
             /\ mail' = [mail EXCEPT ![c] = box]
      <4>1. <<>> \in Seq(Reply)
        OBVIOUS
      <4> QED  BY <2>2, <3>2, <4>1 DEF Receive
    <3> HIDE DEF m
    <3>4. m.ref \in Refs \cup {NoRef} /\ NoRef \in Refs \cup {NoRef}
      BY <3>2 DEF m
    <3> QED  BY <1>1, <3>1, <3>3, <3>4, ZenonT(60) DEF Inv, TypeOK
  <2>3. CASE EndStream(c)
    <3>1. RefMsg("release", cref[c]) \in Request
      BY <2>3 DEF EndStream, RefMsg, Request, Inv, KnowsRef
    <3> QED  BY <1>1, <2>3, <3>1 DEF EndStream, Inv, TypeOK
  <2>4. CASE Die(c)
    <3>1. ASSUME NEW downs \in DownsOf(c) PROVE downs \in Seq(Request)
      <4> DEFINE n == Cardinality(Monitored(c))
      <4>1. Monitored(c) \subseteq refs /\ refs \subseteq 1 .. Len(made) /\ refs \subseteq Refs
        BY DEF Monitored, Inv, TypeOK, Bookkeeping
      <4>2. n \in Nat
        <5>1. Len(made) \in Nat
          BY DEF Inv, TypeOK
        <5>2. IsFiniteSet(1 .. Len(made))
          BY <5>1, FS_Interval
        <5>3. Monitored(c) \in SUBSET (1 .. Len(made))
          BY <4>1
        <5> QED  BY <5>2, <5>3, FS_Subset, FS_CardinalityType
      <4>3. PICK f \in [1 .. n -> Monitored(c)] : downs = [i \in 1 .. n |-> RefMsg("DOWN", f[i])]
        BY DEF DownsOf, Injection
      <4>4. \A i \in 1 .. n : RefMsg("DOWN", f[i]) \in Request
        BY <4>1 DEF RefMsg, Request
      <4> HIDE DEF n
      <4> QED  BY <4>2, <4>3, <4>4
    <3> QED  BY <1>1, <2>4, <3>1 DEF Die, Inv, TypeOK
  <2> QED  BY <2>1, <2>2, <2>3, <2>4
<1>4. KnowsRef'
  <2>1. CASE Receive(c)
    <3>1. Head(mail[c]) \in Reply
      BY <2>1 DEF Receive, Inv, TypeOK
    <3>2. Head(mail[c]).kind \in {"queued", "granted", "gate_granted"} => Head(mail[c]).ref \in Refs
      BY <3>1 DEF Reply, GateDown, RefMsg
    <3> QED  BY <2>1, <3>2 DEF Receive, Inv, KnowsRef, TypeOK
  <2>2. CASE (\E k \in Keys : Acquire(c, k)) \/ EndStream(c) \/ Die(c)
    BY <2>2 DEF Acquire, EndStream, Die, Inv, KnowsRef, TypeOK
  <2> QED  BY <2>1, <2>2
<1> QED  BY <1>2, <1>3, <1>4 DEF Inv

\* Inv is inductive: it holds in every reachable state.
THEOREM GateInvariant == Spec => []Inv
<1>1. Inv /\ [Next]_vars => Inv'
  <2> SUFFICES ASSUME Inv, [Next]_vars PROVE Inv'
    OBVIOUS
  <2>1. CASE HandleAcquire
    BY <2>1, HandleAcquireInv
  <2>2. CASE HandleLeave
    BY <2>2, HandleLeaveInv
  <2>3. CASE GateRestart
    BY <2>3, GateRestartInv
  <2>4. CASE \E c \in Callers : (\E k \in Keys : Acquire(c, k)) \/ Receive(c) \/ EndStream(c) \/ Die(c)
    BY <2>4, CallerInv
  <2>5. CASE UNCHANGED vars
    BY <2>5 DEF vars, Inv, TypeOK, Bookkeeping, HoldersBounded, WorkConserving, KnowsRef
  <2> QED  BY <2>1, <2>2, <2>3, <2>4, <2>5 DEF Next
<1> QED  BY <1>1, InitInv, PTL DEF Spec

\* The variables of the gate and of its callers keep their shape.
THEOREM GateTypes == Spec => []TypeOK
BY GateInvariant, PTL DEF Inv

\* The refs, the holders and the queues of the gate agree.
THEOREM GateBookkeeping == Spec => []Bookkeeping
BY GateInvariant, PTL DEF Inv

\* No key ever has more holders than the limit, and no slot stands empty while
\* a caller queues for it.
THEOREM GateSlotsUsed == Spec => []SlotsUsed
BY GateInvariant, PTL DEF Inv, SlotsUsed

-----------------------------------------------------------------------------
(* First come, first served.                                               *)

\* Taking an element out shifts what follows it by one place.
LEMMA RemoveShifts ==
  ASSUME NEW S, NEW s \in Seq(S), NEW x
  PROVE  \E i \in 1 .. Len(s) + 1 :
           /\ i <= Len(s) => s[i] = x
           /\ i = Len(s) + 1 => x \notin Elements(s)
           /\ Len(Remove(s, x)) = IF i <= Len(s) THEN Len(s) - 1 ELSE Len(s)
           /\ \A j \in 1 .. Len(Remove(s, x)) :
                Remove(s, x)[j] = IF j < i THEN s[j] ELSE s[j + 1]
<1>0. Len(s) \in Nat /\ DOMAIN s = 1 .. Len(s)
  OBVIOUS
<1>1. CASE x \notin Elements(s)
  <2>1. Remove(s, x) = s
    BY <1>1 DEF Remove
  <2> DEFINE n == Len(s) + 1
  <2>2. /\ n \in 1 .. Len(s) + 1 /\ ~ (n <= Len(s)) /\ n = Len(s) + 1
        /\ \A j \in 1 .. Len(s) : j < n
    BY <1>0
  <2> HIDE DEF n
  <2> n \in 1 .. Len(s) + 1
    BY <2>2
  <2> WITNESS n \in 1 .. Len(s) + 1
  <2> QED  BY <2>1, <2>2, <1>1
<1>2. CASE x \in Elements(s)
  <2> DEFINE i == CHOOSE j \in DOMAIN s : s[j] = x
             a == SubSeq(s, 1, i - 1)
             b == SubSeq(s, i + 1, Len(s))
             t == Remove(s, x)
  <2>1. i \in 1 .. Len(s) /\ s[i] = x
    BY <1>2 DEF Elements
  <2>2. t = a \o b
    BY <1>2 DEF Remove
  <2> HIDE DEF i
  <2>3. /\ a \in Seq(S) /\ Len(a) = i - 1
        /\ \A j \in 1 .. i - 1 : a[j] = s[j]
    BY <2>1
  <2>4. /\ b \in Seq(S) /\ Len(b) = Len(s) - i
        /\ \A j \in 1 .. Len(s) - i : b[j] = s[i + j]
    BY <2>1
  <2> HIDE DEF a, b, t
  <2>5. Len(t) = Len(a) + Len(b)
    BY <2>2, <2>3, <2>4, ConcatProperties
  <2>6. Len(t) = Len(s) - 1
    BY <2>1, <2>3, <2>4, <2>5, <1>0
  <2>7. \A j \in 1 .. Len(s) - 1 : t[j] = IF j < i THEN s[j] ELSE s[j + 1]
    <3> TAKE j \in 1 .. Len(s) - 1
    <3>1. t[j] = IF j <= i - 1 THEN a[j] ELSE b[j - (i - 1)]
      BY <2>1, <2>2, <2>3, <2>4
    <3> QED  BY <2>1, <2>3, <2>4, <3>1, SMTT(40)
  <2>8. i \in 1 .. Len(s) + 1 /\ i <= Len(s) /\ i # Len(s) + 1
    BY <2>1, <1>0
  <2> QED  BY <2>1, <2>6, <2>7, <2>8 DEF t
<1> QED  BY <1>1, <1>2

\* Two waiters that stay keep their order.
LEMMA RemoveKeepsOrder ==
  ASSUME NEW S, NEW s \in Seq(S), NEW x,
         NEW i \in DOMAIN s, NEW j \in DOMAIN s, i < j, s[i] # x, s[j] # x
  PROVE  \E a, b \in DOMAIN Remove(s, x) :
           a < b /\ Remove(s, x)[a] = s[i] /\ Remove(s, x)[b] = s[j]
<1>0. Len(s) \in Nat /\ i \in 1 .. Len(s) /\ j \in 1 .. Len(s)
  OBVIOUS
<1>a. PICK n \in 1 .. Len(s) + 1 :
         /\ n <= Len(s) => s[n] = x
         /\ n = Len(s) + 1 => x \notin Elements(s)
         /\ Len(Remove(s, x)) = IF n <= Len(s) THEN Len(s) - 1 ELSE Len(s)
         /\ \A m \in 1 .. Len(Remove(s, x)) :
              Remove(s, x)[m] = IF m < n THEN s[m] ELSE s[m + 1]
  BY RemoveShifts, Zenon
<1> DEFINE t == Remove(s, x)
<1>1. /\ n <= Len(s) => s[n] = x
      /\ Len(t) = IF n <= Len(s) THEN Len(s) - 1 ELSE Len(s)
      /\ \A m \in 1 .. Len(t) : t[m] = IF m < n THEN s[m] ELSE s[m + 1]
  BY <1>a
<1>2. t \in Seq(S) /\ DOMAIN t = 1 .. Len(t)
  BY RemoveType
<1> HIDE DEF t
<1>3. i # n /\ j # n
  BY <1>0, <1>1
<1>4. /\ i \in Nat /\ j \in Nat /\ n \in Nat /\ i < j /\ 1 <= i /\ j <= Len(s) /\ 1 <= n
  BY <1>0, <1>1
<1>c. Len(t) \in Nat /\ (n <= Len(s) => Len(t) = Len(s) - 1) /\ (n > Len(s) => Len(t) = Len(s))
  BY <1>0, <1>1
<1>5. CASE j < n
  <2>1. i \in 1 .. Len(t) /\ j \in 1 .. Len(t) /\ i < n
    BY <1>5, <1>0, <1>4, <1>c
  <2>2. t[i] = s[i] /\ t[j] = s[j]
    BY <1>5, <1>1, <2>1
  <2> QED  BY <1>2, <2>1, <2>2 DEF t
<1>6. CASE i < n /\ n < j
  <2>1. i \in 1 .. Len(t) /\ j - 1 \in 1 .. Len(t) /\ i < j - 1 /\ ~ (j - 1 < n) /\ (j - 1) + 1 = j
    BY <1>6, <1>0, <1>4, <1>c
  <2>2. t[i] = s[i] /\ t[j - 1] = s[j]
    BY <1>6, <1>1, <2>1
  <2> QED  BY <1>2, <2>1, <2>2 DEF t
<1>7. CASE n < i
  <2>1. /\ i - 1 \in 1 .. Len(t) /\ j - 1 \in 1 .. Len(t) /\ i - 1 < j - 1
        /\ ~ (i - 1 < n) /\ (i - 1) + 1 = i /\ ~ (j - 1 < n) /\ (j - 1) + 1 = j
    <3>1. n <= Len(s) /\ 2 <= i /\ i - 1 < j - 1
      BY <1>7, <1>0, <1>4
    <3>2. Len(t) = Len(s) - 1
      BY <3>1, <1>c
    <3>3. i - 1 \in 1 .. Len(t)
      BY <3>1, <3>2, <1>4, <1>0
    <3>4. j - 1 \in 1 .. Len(t)
      BY <3>1, <3>2, <1>4, <1>0
    <3>5. ~ (i - 1 < n) /\ (i - 1) + 1 = i
      BY <1>4, <1>7
    <3>6. ~ (j - 1 < n) /\ (j - 1) + 1 = j
      BY <1>4, <1>7
    <3> QED  BY <3>1, <3>3, <3>4, <3>5, <3>6
  <2>2. t[i - 1] = s[i] /\ t[j - 1] = s[j]
    BY <1>1, <2>1
  <2> QED  BY <1>2, <2>1, <2>2 DEF t
<1> QED  BY <1>3, <1>4, <1>5, <1>6, <1>7

\* A waiter in front of one that is let in does not stay behind, whichever ref
\* made the room.
LEMMA DropInOrder ==
  ASSUME NEW e, GoodEntry(e), Cardinality(e.holders) <= Limit, NEW x \in Known(e),
         NEW i \in DOMAIN e.queue, NEW j \in DOMAIN e.queue, i < j,
         e.queue[j] \in Admit(Without(e, x)).holders
  PROVE  e.queue[i] \notin Elements(Admit(Without(e, x)).queue)
<1> DEFINE w == Without(e, x)
           a == Admit(w)
           r == e.queue[i]
           s == e.queue[j]
<1>1. GoodEntry(w) /\ Known(w) = Known(e) \ {x} /\ Cardinality(w.holders) <= Cardinality(e.holders)
  BY WithoutForgets
<1>2. Cardinality(w.holders) <= Limit
  <2>1. Cardinality(w.holders) \in Nat /\ Cardinality(e.holders) \in Nat /\ Limit \in Nat
    BY <1>1, FS_CardinalityType, LimitAssumption DEF GoodEntry
  <2> HIDE DEF w
  <2> QED  BY <1>1, <2>1
<1>3. GoodEntry(a) /\ Known(a) = Known(w)
  BY <1>1, <1>2, AdmitFills
<1>4. CASE r = x
  BY <1>1, <1>3, <1>4 DEF Known
<1>5. CASE r # x
  <2>1. s # x
    BY <1>1, <1>3 DEF Known
  <2>2. e.queue \in Seq(Refs) /\ e.holders \in SUBSET Refs
    BY DEF GoodEntry, Entry
  <2>3. s \notin e.holders
    BY DEF GoodEntry, Consistent, Elements
  <2>4. \E n, m \in DOMAIN w.queue : n < m /\ w.queue[n] = r /\ w.queue[m] = s
    <3>1. CASE x \in e.holders
      <4>1. w.queue = e.queue
        BY <3>1 DEF Without, GoodEntry, Entry
      <4> QED  BY <4>1
    <3>2. CASE x \notin e.holders
      <4>1. w.queue = Remove(e.queue, x)
        BY <3>2 DEF Without, GoodEntry, Entry
      <4> QED  BY <4>1, <2>1, <2>2, <1>5, RemoveKeepsOrder
    <3> QED  BY <3>1, <3>2
  <2>5. PICK n \in DOMAIN w.queue, m \in DOMAIN w.queue : n < m /\ w.queue[n] = r /\ w.queue[m] = s
    BY <2>4
  <2>6. s \notin w.holders
    <3>1. w.holders \subseteq e.holders
      BY DEF Without, GoodEntry, Entry
    <3> QED  BY <3>1, <2>3
  <2>7. a.holders = w.holders \cup Admitted(w)
    BY DEF Admit
  <2>8. PICK h \in 1 .. FreeSlots(w) : w.queue[h] = s
    BY <2>6, <2>7 DEF Admitted
  <2>9. /\ w.queue \in Seq(Refs) /\ DOMAIN w.queue = 1 .. Len(w.queue) /\ Len(w.queue) \in Nat
        /\ FreeSlots(w) \in 0 .. Len(w.queue)
    <3>1. Cardinality(w.holders) \in Nat /\ Limit \in Nat
      BY <1>1, FS_CardinalityType, LimitAssumption DEF GoodEntry
    <3>2. w.queue \in Seq(Refs) /\ DOMAIN w.queue = 1 .. Len(w.queue) /\ Len(w.queue) \in Nat
      BY <1>1 DEF GoodEntry, Entry
    <3> HIDE DEF w
    <3> QED  BY <3>1, <3>2 DEF FreeSlots
  <2>10. h = m
    BY <1>1, <2>5, <2>8, <2>9, SMTT(40) DEF GoodEntry, Consistent
  <2>11. n \in 1 .. FreeSlots(w)
    BY <2>5, <2>8, <2>9, <2>10
  <2>12. r \in a.holders
    BY <2>5, <2>7, <2>11 DEF Admitted
  <2> QED  BY <1>3, <2>12 DEF GoodEntry, Consistent
<1> QED  BY <1>4, <1>5

\* First come, first served (admit/3): a step that gives a slot to a waiter
\* leaves nobody who came before it in the queue.
THEOREM GateFirstServed == Spec => NoOvertaking
<1> DEFINE Step == \A k \in Keys : \A r, s \in Elements(keys[k].queue) :
                     Before(k, r, s) /\ s \in keys'[k].holders
                       => r \notin Elements(keys'[k].queue)
<1>1. Inv /\ [Next]_vars => Step
  <2> SUFFICES ASSUME Inv, [Next]_vars, NEW k \in Keys,
                      NEW i \in DOMAIN keys[k].queue, NEW j \in DOMAIN keys[k].queue, i < j,
                      keys[k].queue[j] \in keys'[k].holders
               PROVE  keys[k].queue[i] \notin Elements(keys'[k].queue)
    BY DEF Before
  <2> DEFINE e == keys[k]
  <2>1. GoodEntry(e) /\ Cardinality(e.holders) <= Limit
    BY EntryGood
  <2>2. e.queue[j] \notin e.holders
    BY <2>1 DEF GoodEntry, Consistent, Elements
  <2>3. CASE keys' = keys
    BY <2>2, <2>3
  <2>4. CASE HandleAcquire
    <3>1. Head(inbox) \in Request /\ Head(inbox).kind = "acquire"
      BY <2>4 DEF HandleAcquire, Inv, TypeOK
    <3>2. Head(inbox).key \in Keys
      BY <3>1 DEF Request
    <3>3. CASE Head(inbox).key = k
      <4>1. CASE FreeNow(e)
        <5>1. e.queue = <<>>
          BY <4>1 DEF FreeNow
        <5> QED  BY <5>1
      <4>2. CASE ~FreeNow(e)
        <5>1. keys'[k].holders = e.holders
          BY <2>4, <3>3, <4>2 DEF HandleAcquire, Enqueue, Inv, TypeOK
        <5> QED  BY <5>1, <2>2
      <4> QED  BY <4>1, <4>2
    <3>4. CASE Head(inbox).key # k
      <4>1. keys'[k] = e
        BY <2>4, <3>4 DEF HandleAcquire, Inv, TypeOK
      <4> QED  BY <4>1, <2>2
    <3> QED  BY <3>3, <3>4
  <2>5. CASE HandleLeave
    <3> DEFINE x == Head(inbox).ref
    <3>1. x \in refs /\ Drop(x)
      BY <2>2, <2>5 DEF HandleLeave
    <3>2. keys' = [keys EXCEPT ![made[x].key] = Admit(Without(keys[made[x].key], x))]
      BY <3>1 DEF Drop
    <3>3. CASE made[x].key = k
      <4>1. keys'[k] = Admit(Without(e, x))
        BY <3>2, <3>3 DEF Inv, TypeOK
      <4>2. x \in Known(e)
        BY <3>1, <3>3 DEF Inv, Bookkeeping
      <4> QED  BY <4>1, <4>2, <2>1, DropInOrder
    <3>4. CASE made[x].key # k
      <4>1. keys'[k] = e
        BY <3>2, <3>4 DEF Inv, TypeOK
      <4> QED  BY <4>1, <2>2
    <3> QED  BY <3>3, <3>4
  <2>6. CASE GateRestart
    <3>1. keys'[k].holders = {}
      BY <2>6 DEF GateRestart, EmptyEntry
    <3> QED  BY <3>1
  <2> QED
    BY <2>3, <2>4, <2>5, <2>6 DEF Next, vars, gateVars, Acquire, Receive, EndStream, Die
<1>2. Inv /\ [Next]_vars => [Step]_vars
  BY <1>1
<1> QED  BY <1>2, GateInvariant, PTL DEF Spec, NoOvertaking

-----------------------------------------------------------------------------
(* Mailboxes as the messages in them.                                      *)

\* The first message, then the others.
LEMMA ElementsTail ==
  ASSUME NEW S, NEW s \in Seq(S), s # <<>>
  PROVE  Tail(s) \in Seq(S) /\ Head(s) \in S /\ Elements(s) = {Head(s)} \cup Elements(Tail(s))
<1>1. /\ Tail(s) \in Seq(S) /\ Head(s) \in S /\ Head(s) = s[1] /\ Len(s) \in Nat /\ Len(s) >= 1
      /\ DOMAIN s = 1 .. Len(s) /\ Len(Tail(s)) = Len(s) - 1
      /\ DOMAIN Tail(s) = 1 .. Len(s) - 1
      /\ \A i \in 1 .. Len(s) - 1 : Tail(s)[i] = s[i + 1]
  OBVIOUS
<1>2. ASSUME NEW y \in Elements(s) PROVE y \in {Head(s)} \cup Elements(Tail(s))
  <2> PICK i \in 1 .. Len(s) : y = s[i]
    BY <1>1 DEF Elements
  <2>1. CASE i = 1
    BY <2>1, <1>1
  <2>2. CASE i # 1
    <3>1. i - 1 \in 1 .. Len(s) - 1 /\ (i - 1) + 1 = i
      BY <2>2, <1>1
    <3>2. y = Tail(s)[i - 1]
      BY <3>1, <1>1
    <3> QED  BY <3>1, <3>2, <1>1 DEF Elements
  <2> QED  BY <2>1, <2>2
<1>3. ASSUME NEW y \in Elements(Tail(s)) PROVE y \in Elements(s)
  <2> PICK i \in 1 .. Len(s) - 1 : y = Tail(s)[i]
    BY <1>1 DEF Elements
  <2>1. i + 1 \in 1 .. Len(s)
    BY <1>1
  <2> QED  BY <2>1, <1>1 DEF Elements
<1>4. Head(s) \in Elements(s)
  <2>1. 1 \in 1 .. Len(s)
    BY <1>1
  <2> QED  BY <2>1, <1>1 DEF Elements
<1> QED  BY <1>1, <1>2, <1>3, <1>4

\* A mailbox and the messages that arrive behind it.
LEMMA ElementsConcat ==
  ASSUME NEW S, NEW s \in Seq(S), NEW t \in Seq(S)
  PROVE  s \o t \in Seq(S) /\ Elements(s \o t) = Elements(s) \cup Elements(t)
<1> DEFINE u == s \o t
<1>1. /\ u \in Seq(S) /\ Len(u) = Len(s) + Len(t) /\ Len(s) \in Nat /\ Len(t) \in Nat
      /\ DOMAIN s = 1 .. Len(s) /\ DOMAIN t = 1 .. Len(t) /\ DOMAIN u = 1 .. Len(s) + Len(t)
      /\ \A i \in 1 .. Len(s) + Len(t) : u[i] = IF i <= Len(s) THEN s[i] ELSE t[i - Len(s)]
  OBVIOUS
<1> HIDE DEF u
<1>2. ASSUME NEW y \in Elements(u) PROVE y \in Elements(s) \cup Elements(t)
  <2> PICK i \in 1 .. Len(s) + Len(t) : y = u[i]
    BY <1>1 DEF Elements
  <2>1. CASE i <= Len(s)
    BY <2>1, <1>1 DEF Elements
  <2>2. CASE i > Len(s)
    <3>1. i - Len(s) \in 1 .. Len(t) /\ y = t[i - Len(s)]
      BY <2>2, <1>1
    <3> QED  BY <3>1, <1>1 DEF Elements
  <2> QED  BY <2>1, <2>2, <1>1
<1>3. ASSUME NEW y \in Elements(s) PROVE y \in Elements(u)
  <2> PICK i \in 1 .. Len(s) : y = s[i]
    BY <1>1 DEF Elements
  <2>1. i \in 1 .. Len(s) + Len(t) /\ y = u[i]
    BY <1>1
  <2> QED  BY <2>1, <1>1 DEF Elements
<1>4. ASSUME NEW y \in Elements(t) PROVE y \in Elements(u)
  <2> PICK i \in 1 .. Len(t) : y = t[i]
    BY <1>1 DEF Elements
  <2>1. /\ Len(s) + i \in 1 .. Len(s) + Len(t) /\ ~ (Len(s) + i <= Len(s))
        /\ (Len(s) + i) - Len(s) = i
    BY <1>1
  <2>2. y = u[Len(s) + i]
    BY <2>1, <1>1
  <2> QED  BY <2>1, <2>2, <1>1 DEF Elements
<1> QED  BY <1>1, <1>2, <1>3, <1>4 DEF u

\* A mailbox and one more message.
LEMMA ElementsAppend ==
  ASSUME NEW S, NEW s \in Seq(S), NEW x \in S
  PROVE  Append(s, x) \in Seq(S) /\ Elements(Append(s, x)) = Elements(s) \cup {x}
<1>1. <<x>> \in Seq(S) /\ Append(s, x) = s \o <<x>>
  OBVIOUS
<1>2. Elements(<<x>>) = {x}
  BY DEF Elements
<1>3. s \o <<x>> \in Seq(S) /\ Elements(s \o <<x>>) = Elements(s) \cup Elements(<<x>>)
  BY <1>1, ElementsConcat, Zenon
<1> QED  BY <1>1, <1>2, <1>3

\* A flush takes away nothing but what it is told to.
LEMMA ElementsRemove ==
  ASSUME NEW S, NEW s \in Seq(S), NEW x
  PROVE  /\ Elements(Remove(s, x)) \subseteq Elements(s)
         /\ Elements(s) \ {x} \subseteq Elements(Remove(s, x))
<1> DEFINE t == Remove(s, x)
<1>1. PICK n \in 1 .. Len(s) + 1 :
         /\ n <= Len(s) => s[n] = x
         /\ n = Len(s) + 1 => x \notin Elements(s)
         /\ Len(Remove(s, x)) = IF n <= Len(s) THEN Len(s) - 1 ELSE Len(s)
         /\ \A m \in 1 .. Len(Remove(s, x)) :
              Remove(s, x)[m] = IF m < n THEN s[m] ELSE s[m + 1]
  BY RemoveShifts, Zenon
<1>2. t \in Seq(S) /\ DOMAIN t = 1 .. Len(t)
  BY RemoveType
<1>3. Len(s) \in Nat /\ DOMAIN s = 1 .. Len(s)
  OBVIOUS
<1>a. n \in Nat /\ 1 <= n /\ n <= Len(s) + 1
  BY <1>3
<1>b. /\ n <= Len(s) => Len(t) = Len(s) - 1
      /\ ~ (n <= Len(s)) => Len(t) = Len(s)
  BY <1>1
<1>c. Len(t) \in Nat
  BY <1>2
<1>d. \A m \in 1 .. Len(t) : t[m] = IF m < n THEN s[m] ELSE s[m + 1]
  BY <1>1
<1>e. n <= Len(s) => s[n] = x
  BY <1>1
<1> HIDE DEF t
<1>4. ASSUME NEW y \in Elements(t) PROVE y \in Elements(s)
  <2> PICK m \in 1 .. Len(t) : y = t[m]
    BY <1>2 DEF Elements
  <2>1. CASE m < n
    <3>1. m \in 1 .. Len(s)
      BY <2>1, <1>3, <1>a
    <3>2. y = s[m]
      BY <2>1, <1>d
    <3> QED  BY <3>1, <3>2, <1>3 DEF Elements
  <2>2. CASE ~ (m < n)
    <3>1. y = s[m + 1]
      BY <2>2, <1>d
    <3>2. n <= Len(s)
      <4> SUFFICES ASSUME ~ (n <= Len(s)) PROVE FALSE
        OBVIOUS
      <4>1. Len(t) = Len(s)
        BY <1>b
      <4>2. n \in Nat /\ Len(s) < n /\ m \in Nat /\ m <= Len(s)
        BY <4>1, <1>3, <1>a
      <4> QED  BY <4>2, <2>2, <1>3
    <3>3. Len(t) = Len(s) - 1
      BY <3>2, <1>b
    <3>4. m + 1 \in 1 .. Len(s)
      BY <3>3, <1>3
    <3> QED  BY <3>1, <3>4, <1>3 DEF Elements
  <2> QED  BY <2>1, <2>2
<1>5. ASSUME NEW y \in Elements(s) \ {x} PROVE y \in Elements(t)
  <2> PICK m \in 1 .. Len(s) : y = s[m]
    BY <1>3 DEF Elements
  <2>1. m # n
    BY <1>e, <1>3
  <2>2. CASE m < n
    <3>1. m \in 1 .. Len(t)
      <4>1. CASE n <= Len(s)
        <5>1. Len(t) = Len(s) - 1
          BY <4>1, <1>b
        <5> QED  BY <5>1, <4>1, <2>2, <1>a, <1>3
      <4>2. CASE ~ (n <= Len(s))
        <5>1. Len(t) = Len(s)
          BY <4>2, <1>b
        <5> QED  BY <5>1, <1>3
      <4> QED  BY <4>1, <4>2
    <3>2. y = t[m]
      BY <3>1, <2>2, <1>d
    <3> QED  BY <3>1, <3>2, <1>2 DEF Elements
  <2>3. CASE n < m
    <3>1. n <= Len(s)
      BY <2>3, <1>3, <1>a
    <3>2. Len(t) = Len(s) - 1
      BY <3>1, <1>b
    <3>3. m - 1 \in 1 .. Len(t) /\ ~ (m - 1 < n) /\ (m - 1) + 1 = m
      BY <3>2, <2>3, <1>3, <1>a
    <3>4. y = t[m - 1]
      BY <3>3, <1>d
    <3> QED  BY <3>3, <3>4, <1>2 DEF Elements
  <2> QED  BY <2>1, <2>2, <2>3, <1>a
<1> QED  BY <1>4, <1>5 DEF t

-----------------------------------------------------------------------------
(* What a caller and the server say to each other.                         *)

\* What follows position n of a mailbox tells of the end of the gate only.
OnlyDown(b, n) == \A i \in DOMAIN b : i > n => b[i] = GateDown

\* The mailbox of a caller that does p and knows ref q: the answer of its call,
\* the grant that follows a place in the queue, the end of the gate.
Orderly(p, q, b) ==
  CASE p = "calling" -> /\ q = NoRef
                        /\ \/ OnlyDown(b, 0)
                           \/ b # <<>> /\ b[1].kind = "granted" /\ OnlyDown(b, 1)
                           \/ b # <<>> /\ b[1].kind = "queued" /\ OnlyDown(b, 1)
                           \/ /\ Len(b) >= 2 /\ b[1].kind = "queued"
                              /\ b[2] = RefMsg("gate_granted", b[1].ref)
                              /\ OnlyDown(b, 2)
    [] p = "waiting" -> /\ q # NoRef
                        /\ \/ OnlyDown(b, 0)
                           \/ b # <<>> /\ b[1] = RefMsg("gate_granted", q) /\ OnlyDown(b, 1)
    [] p = "streaming" -> q # NoRef /\ b = <<>>
    [] OTHER -> q = NoRef /\ b = <<>>

\* The ref the caller has, or will have when it reads the answer of its call.
RefOf(p, q, b) == IF p = "calling" /\ b # <<>> THEN b[1].ref ELSE q

\* The caller streams, or will when it has read its mail.
LetIn(p, b) ==
  \/ p = "streaming"
  \/ p = "calling" /\ b # <<>> /\ b[1].kind = "granted"
  \/ p = "calling" /\ Len(b) >= 2 /\ b[2].kind = "gate_granted"
  \/ p = "waiting" /\ b # <<>> /\ b[1].kind = "gate_granted"

\* The ref of each caller, and the callers that are let in.
HasRef == [c \in Callers |-> RefOf(pc[c], cref[c], mail[c])]
Served == {c \in Callers : LetIn(pc[c], mail[c])}
Sent(kind, r) == RefMsg(kind, r) \in Elements(inbox)

\* Every caller follows the protocol, and the ref it has was made for it.  A ref
\* of the running gate is one the server knows, as a holder exactly if the
\* caller is let in.
CallerOK(c) ==
  /\ Orderly(pc[c], cref[c], mail[c])
  /\ HasRef[c] # NoRef => /\ HasRef[c] \in DOMAIN made
                         /\ made[HasRef[c]].owner = c
  /\ HasRef[c] # NoRef /\ made[HasRef[c]].gen = gen =>
       /\ HasRef[c] \in refs
       /\ c \in Served <=> HasRef[c] \in keys[made[HasRef[c]].key].holders
       /\ \A i \in DOMAIN mail[c] : mail[c][i] # GateDown

\* A message in the server's mailbox is from a caller in the state to send it.
MessageOK(m) ==
  /\ m.kind = "acquire" => \/ pc[m.caller] = "dead"
                           \/ pc[m.caller] = "calling" /\ mail[m.caller] = <<>>
  /\ m.kind = "release" => m.ref \in DOMAIN made /\ HasRef[made[m.ref].owner] # m.ref
  /\ m.kind = "DOWN" => m.ref \in DOMAIN made /\ pc[made[m.ref].owner] = "dead"

\* One call of a caller at a time.
CallsOnce(b) ==
  \A i, j \in DOMAIN b :
    b[i].kind = "acquire" /\ b[j].kind = "acquire" /\ b[i].caller = b[j].caller => i = j

\* A ref the server knows is the running gate's, and its caller has it, has
\* given a slot back, or has died, in a message on its way.
RefOK(r) ==
  LET c == made[r].owner
  IN  /\ made[r].gen = gen
      /\ \/ pc[c] = "dead" /\ Sent("DOWN", r)
         \/ pc[c] # "dead" /\ HasRef[c] = r
         \/ /\ pc[c] # "dead" /\ Sent("release", r)
            /\ r \in keys[made[r].key].holders

\* The refs of a gate process whose callers are let in.
RefsLetIn(k, g) ==
  {r \in DOMAIN made : /\ made[r].key = k /\ made[r].gen = g
                       /\ HasRef[made[r].owner] = r /\ made[r].owner \in Served}

\* An earlier gate process let in no more than the limit.
EarlierBounded ==
  \A k \in Keys : \A g \in Nat : g < gen => Cardinality(RefsLetIn(k, g)) <= Limit

Talk ==
  /\ \A c \in Callers : CallerOK(c)
  /\ \A m \in Elements(inbox) : MessageOK(m)
  /\ CallsOnce(inbox)
  /\ \A r \in refs : RefOK(r)
  /\ \A r \in DOMAIN made : made[r].gen \in 0 .. gen
  /\ EarlierBounded

\* The next message leaves the mailbox: no other call of its caller is there.
LEMMA OnceTail ==
  ASSUME NEW S, NEW b \in Seq(S), b # <<>>, CallsOnce(b)
  PROVE  /\ CallsOnce(Tail(b))
         /\ Head(b).kind = "acquire" =>
              \A m \in Elements(Tail(b)) : m.kind = "acquire" => m.caller # Head(b).caller
<1>1. /\ Head(b) = b[1] /\ Len(b) \in Nat /\ Len(b) >= 1
      /\ DOMAIN b = 1 .. Len(b) /\ DOMAIN Tail(b) = 1 .. Len(b) - 1
      /\ \A i \in 1 .. Len(b) - 1 : Tail(b)[i] = b[i + 1]
  OBVIOUS
<1>2. \A i \in 1 .. Len(b) - 1 : i + 1 \in DOMAIN b /\ 1 \in DOMAIN b /\ i + 1 # 1
  BY <1>1
<1>3. CallsOnce(Tail(b))
  <2> SUFFICES ASSUME NEW i \in 1 .. Len(b) - 1, NEW j \in 1 .. Len(b) - 1,
                      Tail(b)[i].kind = "acquire", Tail(b)[j].kind = "acquire",
                      Tail(b)[i].caller = Tail(b)[j].caller
               PROVE  i = j
    BY <1>1 DEF CallsOnce
  <2>1. i + 1 = j + 1
    BY <1>1, <1>2 DEF CallsOnce
  <2> QED  BY <2>1, <1>1
<1>4. ASSUME Head(b).kind = "acquire", NEW m \in Elements(Tail(b)), m.kind = "acquire"
      PROVE  m.caller # Head(b).caller
  <2> PICK i \in 1 .. Len(b) - 1 : m = Tail(b)[i]
    BY <1>1 DEF Elements
  <2> QED  BY <1>1, <1>2, <1>4 DEF CallsOnce
<1> QED  BY <1>3, <1>4

\* What arrives is no second call of a caller.
LEMMA OnceConcat ==
  ASSUME NEW S, NEW s \in Seq(S), NEW t \in Seq(S), CallsOnce(s), CallsOnce(t),
         \A m \in Elements(s), n \in Elements(t) :
           m.kind = "acquire" /\ n.kind = "acquire" => m.caller # n.caller
  PROVE  CallsOnce(s \o t)
<1> DEFINE u == s \o t
<1>1. /\ Len(s) \in Nat /\ Len(t) \in Nat
      /\ DOMAIN s = 1 .. Len(s) /\ DOMAIN t = 1 .. Len(t) /\ DOMAIN u = 1 .. Len(s) + Len(t)
      /\ \A i \in 1 .. Len(s) + Len(t) : u[i] = IF i <= Len(s) THEN s[i] ELSE t[i - Len(s)]
  OBVIOUS
<1> HIDE DEF u
<1>2. ASSUME NEW i \in 1 .. Len(s) + Len(t)
      PROVE  \/ i <= Len(s) /\ i \in DOMAIN s /\ u[i] = s[i]
             \/ i > Len(s) /\ i - Len(s) \in DOMAIN t /\ u[i] = t[i - Len(s)]
  <2>1. CASE i <= Len(s)
    BY <2>1, <1>1
  <2>2. CASE i > Len(s)
    <3>1. i - Len(s) \in 1 .. Len(t) /\ ~ (i <= Len(s))
      BY <2>2, <1>1
    <3> QED  BY <3>1, <2>2, <1>1
  <2> QED  BY <2>1, <2>2, <1>1
<1>3. ASSUME NEW i \in 1 .. Len(s) + Len(t), NEW j \in 1 .. Len(s) + Len(t),
             u[i].kind = "acquire", u[j].kind = "acquire", u[i].caller = u[j].caller
      PROVE  i = j
  <2>1. CASE i <= Len(s) /\ j <= Len(s)
    BY <2>1, <1>1, <1>2, <1>3, SMTT(40) DEF CallsOnce
  <2>a. /\ i > Len(s) => i - Len(s) \in DOMAIN t /\ u[i] = t[i - Len(s)]
        /\ j > Len(s) => j - Len(s) \in DOMAIN t /\ u[j] = t[j - Len(s)]
        /\ i <= Len(s) => i \in DOMAIN s /\ u[i] = s[i]
        /\ j <= Len(s) => j \in DOMAIN s /\ u[j] = s[j]
    <3>1. Len(s) \in Nat /\ i \in Nat /\ j \in Nat
      BY <1>1
    <3> QED  BY <3>1, <1>2
  <2>2. CASE i > Len(s) /\ j > Len(s)
    <3>1. /\ i - Len(s) \in DOMAIN t /\ t[i - Len(s)] = u[i]
          /\ j - Len(s) \in DOMAIN t /\ t[j - Len(s)] = u[j]
      BY <2>2, <2>a
    <3>2. i - Len(s) = j - Len(s)
      BY <3>1, <1>3, Zenon DEF CallsOnce
    <3> QED  BY <3>2, <1>1
  <2>3. CASE i <= Len(s) /\ j > Len(s)
    <3>1. u[i] \in Elements(s) /\ u[j] \in Elements(t)
      BY <2>3, <2>a DEF Elements
    <3> QED  BY <3>1, <1>3
  <2>4. CASE i > Len(s) /\ j <= Len(s)
    <3>1. u[j] \in Elements(s) /\ u[i] \in Elements(t)
      BY <2>4, <2>a DEF Elements
    <3> QED  BY <3>1, <1>3
  <2> QED  BY <2>1, <2>2, <2>3, <2>4, <1>1
<1> QED  BY <1>1, <1>3 DEF CallsOnce, u

\* One message that is no second call.
LEMMA OnceAppend ==
  ASSUME NEW S, NEW s \in Seq(S), NEW x \in S, CallsOnce(s),
         x.kind = "acquire" =>
           \A m \in Elements(s) : m.kind = "acquire" => m.caller # x.caller
  PROVE  CallsOnce(Append(s, x))
<1>1. <<x>> \in Seq(S) /\ Append(s, x) = s \o <<x>>
  OBVIOUS
<1>2. CallsOnce(<<x>>) /\ Elements(<<x>>) = {x}
  BY DEF CallsOnce, Elements
<1>3. CallsOnce(s \o <<x>>)
  BY <1>1, <1>2, OnceConcat
<1> QED  BY <1>1, <1>3

\* A flush does not repeat a call.
LEMMA OnceRemove ==
  ASSUME NEW S, NEW s \in Seq(S), NEW x, CallsOnce(s)
  PROVE  CallsOnce(Remove(s, x))
<1> DEFINE t == Remove(s, x)
<1>1. PICK n \in 1 .. Len(s) + 1 :
         /\ n <= Len(s) => s[n] = x
         /\ n = Len(s) + 1 => x \notin Elements(s)
         /\ Len(Remove(s, x)) = IF n <= Len(s) THEN Len(s) - 1 ELSE Len(s)
         /\ \A m \in 1 .. Len(Remove(s, x)) :
              Remove(s, x)[m] = IF m < n THEN s[m] ELSE s[m + 1]
  BY RemoveShifts, Zenon
<1>2. t \in Seq(S) /\ DOMAIN t = 1 .. Len(t)
  BY RemoveType
<1>3. Len(s) \in Nat /\ DOMAIN s = 1 .. Len(s)
  OBVIOUS
<1>4. n \in Nat /\ 1 <= n /\ n <= Len(s) + 1
  BY <1>3
<1>5. /\ n <= Len(s) => Len(t) = Len(s) - 1
      /\ ~ (n <= Len(s)) => Len(t) = Len(s)
  BY <1>1
<1>6. \A m \in 1 .. Len(t) : t[m] = IF m < n THEN s[m] ELSE s[m + 1]
  BY <1>1
<1> HIDE DEF t
<1> DEFINE at(m) == IF m < n THEN m ELSE m + 1
<1>7. ASSUME NEW m \in 1 .. Len(t) PROVE at(m) \in DOMAIN s /\ t[m] = s[at(m)]
  <2>1. t[m] = s[at(m)]
    BY <1>6
  <2>2. at(m) \in 1 .. Len(s)
    <3>1. CASE n <= Len(s)
      <4>1. Len(t) = Len(s) - 1
        BY <3>1, <1>5
      <4> QED  BY <4>1, <1>3, <1>4
    <3>2. CASE ~ (n <= Len(s))
      <4>1. Len(t) = Len(s)
        BY <3>2, <1>5
      <4>2. m < n
        BY <4>1, <3>2, <1>3, <1>4
      <4> QED  BY <4>1, <4>2, <1>3
    <3> QED  BY <3>1, <3>2
  <2> QED  BY <2>1, <2>2, <1>3
<1>8. ASSUME NEW i \in 1 .. Len(t), NEW j \in 1 .. Len(t),
             t[i].kind = "acquire", t[j].kind = "acquire", t[i].caller = t[j].caller
      PROVE  i = j
  <2>1. at(i) \in DOMAIN s /\ t[i] = s[at(i)] /\ at(j) \in DOMAIN s /\ t[j] = s[at(j)]
    BY <1>7
  <2> HIDE DEF at
  <2>2. at(i) = at(j)
    BY <1>8, <2>1 DEF CallsOnce
  <2>3. i \in Nat /\ j \in Nat /\ n \in Nat
    BY <1>2, <1>4
  <2> QED  BY <2>2, <2>3 DEF at
<1> QED  BY <1>2, <1>8 DEF CallsOnce, t

-----------------------------------------------------------------------------
(* A conversation, one message at a time.                                  *)

NoDown(b) == \A i \in DOMAIN b : b[i] # GateDown

\* The answer of a call.
LEMMA AnswerOrderly ==
  ASSUME NEW r \in Refs, NEW kind \in {"granted", "queued"}
  PROVE  LET n == Append(<<>>, RefMsg(kind, r))
         IN  /\ Orderly("calling", NoRef, n) /\ NoDown(n)
             /\ RefOf("calling", NoRef, n) = r
             /\ LetIn("calling", n) <=> kind = "granted"
<1> DEFINE n == Append(<<>>, RefMsg(kind, r))
<1>1. /\ n = <<RefMsg(kind, r)>> /\ n # <<>> /\ Len(n) = 1 /\ DOMAIN n = {1}
      /\ n[1] = RefMsg(kind, r) /\ n[1].kind = kind /\ n[1].ref = r
  BY DEF RefMsg
<1> HIDE DEF n
<1>2. n[1] # GateDown
  BY <1>1 DEF GateDown, RefMsg
<1>3. OnlyDown(n, 1)
  BY <1>1 DEF OnlyDown
<1> QED  BY <1>1, <1>2, <1>3 DEF Orderly, NoDown, RefOf, LetIn, n

\* The grant of a caller that waits for it.
LEMMA GrantOrderly ==
  ASSUME NEW p, NEW q, NEW b \in Seq(Reply), Orderly(p, q, b), NoDown(b), ~ LetIn(p, b),
         RefOf(p, q, b) \in Refs
  PROVE  LET r == RefOf(p, q, b)
             n == Append(b, RefMsg("gate_granted", r))
         IN  /\ Orderly(p, q, n) /\ NoDown(n) /\ LetIn(p, n)
             /\ RefOf(p, q, n) = r
<1> DEFINE r == RefOf(p, q, b)
           g == RefMsg("gate_granted", r)
           n == Append(b, g)
<1>0. r # NoRef
  BY DEF Refs, NoRef
<1>1. g.kind = "gate_granted" /\ g.ref = r /\ g # GateDown
  BY DEF RefMsg, GateDown
<1>2. /\ Len(b) \in Nat /\ DOMAIN b = 1 .. Len(b) /\ Len(n) = Len(b) + 1
      /\ DOMAIN n = 1 .. Len(b) + 1 /\ n[Len(b) + 1] = g
      /\ \A i \in 1 .. Len(b) : n[i] = b[i]
      /\ b = <<>> <=> Len(b) = 0
      /\ n # <<>>
  BY DEF Reply
<1>3. ASSUME OnlyDown(b, 0) PROVE Len(b) = 0
  BY <1>2, <1>3 DEF OnlyDown, NoDown
<1>4. ASSUME OnlyDown(b, 1) PROVE Len(b) <= 1
  <2> SUFFICES ASSUME Len(b) > 1 PROVE FALSE
    BY <1>2
  <2>1. 2 \in DOMAIN b
    BY <1>2
  <2> QED  BY <2>1, <1>4 DEF OnlyDown, NoDown
<1> HIDE DEF n, g, r
<1>5. NoDown(n)
  BY <1>1, <1>2 DEF NoDown
<1>6. CASE p = "calling"
  <2>1. b # <<>> /\ b[1].kind = "queued" /\ OnlyDown(b, 1) /\ q = NoRef
    <3>1. ~ OnlyDown(b, 0)
      <4> SUFFICES ASSUME OnlyDown(b, 0) PROVE FALSE
        OBVIOUS
      <4>1. b = <<>>
        BY <1>2, <1>3
      <4>2. q = NoRef
        BY <1>6 DEF Orderly
      <4> QED  BY <1>0, <1>6, <4>1, <4>2 DEF RefOf, r
    <3>2. ~ (b # <<>> /\ b[1].kind = "granted")
      BY <1>6 DEF LetIn
    <3>3. ~ (Len(b) >= 2 /\ b[2] = RefMsg("gate_granted", b[1].ref))
      BY <1>6 DEF LetIn, RefMsg
    <3> QED  BY <1>6, <3>1, <3>2, <3>3 DEF Orderly
  <2>2. Len(b) = 1 /\ r = b[1].ref
    BY <1>2, <1>4, <1>6, <2>1 DEF RefOf, r
  <2>3. Len(n) = 2 /\ DOMAIN n = 1 .. 2 /\ n[1] = b[1] /\ n[2] = g
    BY <1>2, <2>2
  <2>4. g = RefMsg("gate_granted", n[1].ref)
    BY <2>2, <2>3 DEF g
  <2>5. OnlyDown(n, 2)
    BY <2>3 DEF OnlyDown
  <2>6. Orderly(p, q, n)
    BY <1>2, <1>6, <2>1, <2>3, <2>4, <2>5 DEF Orderly
  <2>7. LetIn(p, n)
    BY <1>1, <1>6, <2>3 DEF LetIn
  <2>8. RefOf(p, q, n) = r
    BY <1>2, <1>6, <2>2, <2>3 DEF RefOf
  <2> QED  BY <1>5, <2>6, <2>7, <2>8 DEF n, g, r
<1>7. CASE p = "waiting"
  <2>1. q # NoRef /\ r = q
    BY <1>7 DEF Orderly, RefOf, r
  <2>2. OnlyDown(b, 0)
    BY <1>7 DEF Orderly, LetIn, RefMsg
  <2>3. Len(n) = 1 /\ DOMAIN n = 1 .. 1 /\ n[1] = g
    BY <1>2, <1>3, <2>2
  <2>4. g = RefMsg("gate_granted", q)
    BY <2>1 DEF g
  <2>5. OnlyDown(n, 1)
    BY <2>3 DEF OnlyDown
  <2>6. Orderly(p, q, n)
    BY <1>2, <1>7, <2>1, <2>3, <2>4, <2>5 DEF Orderly
  <2>7. LetIn(p, n) /\ RefOf(p, q, n) = r
    BY <1>1, <1>2, <1>7, <2>1, <2>3 DEF LetIn, RefOf
  <2> QED  BY <1>5, <2>6, <2>7 DEF n, g, r
<1>8. CASE p \notin {"calling", "waiting"}
  <2>1. r = q
    BY <1>8 DEF RefOf, r
  <2>2. p # "streaming"
    BY DEF LetIn
  <2>3. q = NoRef
    BY <1>8, <2>2 DEF Orderly
  <2> QED  BY <1>0, <2>1, <2>3
<1> QED  BY <1>6, <1>7, <1>8

\* The end of the gate.
LEMMA DownOrderly ==
  ASSUME NEW p \in {"calling", "waiting"}, NEW q, NEW b \in Seq(Reply), Orderly(p, q, b)
  PROVE  LET n == Append(b, GateDown)
         IN  /\ Orderly(p, q, n)
             /\ RefOf(p, q, n) = RefOf(p, q, b)
             /\ LetIn(p, n) <=> LetIn(p, b)
<1> DEFINE n == Append(b, GateDown)
<1>1. GateDown.kind = "gate_down" /\ GateDown.ref = NoRef
  BY DEF RefMsg, GateDown
<1>2. /\ Len(b) \in Nat /\ DOMAIN b = 1 .. Len(b) /\ Len(n) = Len(b) + 1
      /\ DOMAIN n = 1 .. Len(b) + 1 /\ n[Len(b) + 1] = GateDown
      /\ \A i \in 1 .. Len(b) : n[i] = b[i]
      /\ b = <<>> <=> Len(b) = 0
      /\ n # <<>>
  BY DEF Reply
<1> HIDE DEF n
<1>3. ASSUME NEW k \in Nat, OnlyDown(b, k) PROVE OnlyDown(n, k)
  BY <1>2, <1>3 DEF OnlyDown
<1>4. OnlyDown(b, 0) => OnlyDown(n, 0)
  BY <1>3
<1>5. OnlyDown(b, 1) => OnlyDown(n, 1)
  BY <1>3
<1>6. OnlyDown(b, 2) => OnlyDown(n, 2)
  BY <1>3
<1>7. b # <<>> => n[1] = b[1]
  BY <1>2
<1>8. Len(b) >= 2 => n[2] = b[2] /\ Len(n) >= 2
  BY <1>2
<1>9. Orderly(p, q, n)
  <2>1. CASE p = "calling"
    BY <2>1, <1>2, <1>4, <1>5, <1>6, <1>7, <1>8 DEF Orderly
  <2>2. CASE p = "waiting"
    BY <2>2, <1>2, <1>4, <1>5, <1>7 DEF Orderly
  <2> QED  BY <2>1, <2>2
<1>10. RefOf(p, q, n) = RefOf(p, q, b)
  <2>1. CASE b = <<>>
    <3>1. n[1] = GateDown
      BY <2>1, <1>2
    <3> QED  BY <2>1, <3>1, <1>1, <1>2 DEF RefOf, Orderly
  <2>2. CASE b # <<>>
    BY <2>2, <1>2, <1>7 DEF RefOf
  <2> QED  BY <2>1, <2>2
<1>11. LetIn(p, n) <=> LetIn(p, b)
  <2>1. CASE b = <<>>
    <3>1. Len(n) = 1 /\ n[1] = GateDown /\ Len(b) = 0
      BY <2>1, <1>2
    <3> QED  BY <2>1, <3>1, <1>1 DEF LetIn
  <2>2. CASE b # <<>>
    <3>1. Len(n) >= 2 /\ (~ (Len(b) >= 2) => n[2] = GateDown)
      BY <2>2, <1>2
    <3> QED  BY <2>2, <3>1, <1>1, <1>2, <1>7, <1>8 DEF LetIn
  <2> QED  BY <2>1, <2>2
<1> QED  BY <1>9, <1>10, <1>11 DEF n

\* What a caller reads: its place in the queue, its slot, or the end of the gate.
LEMMA ReadOrderly ==
  ASSUME NEW p \in {"calling", "waiting"}, NEW q, NEW b \in Seq(Reply), Orderly(p, q, b),
         b # <<>>
  PROVE  LET m == b[1]
         IN  /\ m.kind = "queued" =>
                  /\ m.ref # NoRef
                  /\ Orderly("waiting", m.ref, Tail(b))
                  /\ RefOf(p, q, b) = m.ref
                  /\ LetIn("waiting", Tail(b)) <=> LetIn(p, b)
             /\ \/ m.kind = "granted"
                \/ m.kind = "gate_granted"
                => m.ref # NoRef /\ LetIn(p, b) /\ RefOf(p, q, b) = m.ref
             /\ NoDown(b) => NoDown(Tail(b))
<1> DEFINE m == b[1]
           t == Tail(b)
<1>1. /\ Len(b) \in Nat /\ Len(b) >= 1 /\ DOMAIN b = 1 .. Len(b)
      /\ Len(t) = Len(b) - 1 /\ DOMAIN t = 1 .. Len(b) - 1
      /\ \A i \in 1 .. Len(b) - 1 : t[i] = b[i + 1]
      /\ t = <<>> <=> Len(t) = 0
      /\ m \in Reply
  <2>1. /\ Len(b) \in Nat /\ Len(b) >= 1 /\ DOMAIN b = 1 .. Len(b)
        /\ t \in Seq(Reply) /\ Len(t) = Len(b) - 1
    OBVIOUS
  <2>2. \A i \in 1 .. Len(b) - 1 : t[i] = b[i + 1]
    OBVIOUS
  <2>3. m \in Reply
    <3>1. 1 \in 1 .. Len(b)
      BY <2>1
    <3> QED  BY <3>1, ElementOfSeq
  <2> HIDE DEF t, m
  <2>4. t = <<>> <=> Len(t) = 0
    BY <2>1, EmptySeq
  <2>5. DOMAIN t = 1 .. Len(b) - 1
    BY <2>1
  <2> QED  BY <2>1, <2>2, <2>3, <2>4, <2>5
<1>2. m.kind # "gate_down" => m.ref \in Refs /\ m.ref # NoRef
  BY <1>1 DEF Reply, GateDown, RefMsg, Refs, NoRef
<1>3. NoDown(b) => NoDown(t)
  <2> SUFFICES ASSUME NoDown(b), NEW i \in 1 .. Len(b) - 1 PROVE t[i] # GateDown
    BY <1>1 DEF NoDown
  <2>1. i + 1 \in DOMAIN b
    BY <1>1
  <2> QED  BY <2>1, <1>1 DEF NoDown
<1>4. ASSUME NEW k \in Nat, OnlyDown(b, k + 1) PROVE OnlyDown(t, k)
  <2> SUFFICES ASSUME NEW i \in 1 .. Len(b) - 1, i > k PROVE t[i] = GateDown
    BY <1>1 DEF OnlyDown
  <2>1. i + 1 \in DOMAIN b /\ i + 1 > k + 1
    BY <1>1
  <2> QED  BY <2>1, <1>1, <1>4 DEF OnlyDown
<1>a. OnlyDown(b, 1) => OnlyDown(t, 0)
  <2>1. 0 + 1 = 1
    OBVIOUS
  <2> QED  BY <2>1, <1>4
<1>b. OnlyDown(b, 2) => OnlyDown(t, 1)
  <2>1. 1 + 1 = 2
    OBVIOUS
  <2> QED  BY <2>1, <1>4
<1>c. Len(b) >= 2 => t # <<>> /\ t[1] = b[2]
  BY <1>1
<1>d. OnlyDown(b, 0) => m = GateDown
  <2>1. 1 \in DOMAIN b /\ 1 > 0
    BY <1>1
  <2> QED  BY <2>1 DEF OnlyDown
<1>e. GateDown.kind = "gate_down"
  BY DEF GateDown, RefMsg
<1>f. Len(b) < 2 => t = <<>>
  BY <1>1
<1>g. t # <<>> => Len(b) >= 2
  BY <1>1, <1>f
<1> HIDE DEF t, m
<1>5. ASSUME m.kind = "queued"
      PROVE  /\ m.ref # NoRef
             /\ Orderly("waiting", m.ref, t)
             /\ RefOf(p, q, b) = m.ref
             /\ LetIn("waiting", t) <=> LetIn(p, b)
  <2>1. p = "calling" /\ m.ref # NoRef /\ ~ OnlyDown(b, 0) /\ m.kind # "granted"
    BY <1>2, <1>5, <1>d, <1>e DEF Orderly, RefMsg, m
  <2>2. \/ OnlyDown(b, 1)
        \/ Len(b) >= 2 /\ b[2] = RefMsg("gate_granted", m.ref) /\ OnlyDown(b, 2)
    BY <2>1 DEF Orderly, m
  <2>3. Orderly("waiting", m.ref, t)
    BY <2>1, <2>2, <1>a, <1>b, <1>c DEF Orderly
  <2>4. RefOf(p, q, b) = m.ref
    BY <2>1 DEF RefOf, m
  <2>5. LetIn("waiting", t) <=> LetIn(p, b)
    <3>1. LetIn("waiting", t) <=> t # <<>> /\ t[1].kind = "gate_granted"
      BY DEF LetIn
    <3>2. LetIn(p, b) <=> Len(b) >= 2 /\ b[2].kind = "gate_granted"
      BY <2>1 DEF LetIn, m
    <3> QED  BY <3>1, <3>2, <1>c, <1>g
  <2> QED  BY <2>1, <2>3, <2>4, <2>5
<1>6. ASSUME m.kind = "granted" \/ m.kind = "gate_granted"
      PROVE  m.ref # NoRef /\ LetIn(p, b) /\ RefOf(p, q, b) = m.ref
  <2>1. m.ref # NoRef
    BY <1>2, <1>6
  <2>2. CASE p = "calling"
    <3>1. m.kind = "granted"
      BY <2>2, <1>6, <1>d, <1>e DEF Orderly, m
    <3> QED  BY <2>1, <2>2, <3>1 DEF LetIn, RefOf, m
  <2>3. CASE p = "waiting"
    <3>1. m = RefMsg("gate_granted", q)
      BY <2>3, <1>6, <1>d, <1>e DEF Orderly, m
    <3> QED  BY <2>1, <2>3, <3>1 DEF LetIn, RefOf, RefMsg, m
  <2> QED  BY <2>2, <2>3
<1> QED  BY <1>3, <1>5, <1>6 DEF m, t

-----------------------------------------------------------------------------
(* The conversations go on.                                                *)

\* What the invariants say of the shape of the state.
LEMMA Shape ==
  ASSUME Inv
  PROVE  /\ Len(made) \in Nat /\ DOMAIN made = 1 .. Len(made) /\ DOMAIN made \subseteq Refs
         /\ \A r \in DOMAIN made :
              made[r].key \in Keys /\ made[r].owner \in Callers /\ made[r].gen \in Nat
         /\ refs \subseteq DOMAIN made
         /\ gen \in Nat
         /\ \A c \in Callers : mail[c] \in Seq(Reply)
<1>1. made \in Seq([key : Keys, owner : Callers, gen : Nat])
  BY DEF Inv, TypeOK
<1>2. Len(made) \in Nat /\ DOMAIN made = 1 .. Len(made) /\ DOMAIN made \subseteq Refs
  BY <1>1 DEF Refs
<1>3. ASSUME NEW r \in DOMAIN made
      PROVE  made[r].key \in Keys /\ made[r].owner \in Callers /\ made[r].gen \in Nat
  <2>1. made[r] \in [key : Keys, owner : Callers, gen : Nat]
    BY <1>1, <1>2, ElementOfSeq
  <2> QED  BY <2>1
<1> QED  BY <1>2, <1>3 DEF Inv, TypeOK, Bookkeeping

\* The refs of callers that are let in are finitely many.
LEMMA RefsLetInFinite ==
  ASSUME Inv, NEW k, NEW g
  PROVE  IsFiniteSet(RefsLetIn(k, g))
<1>1. RefsLetIn(k, g) \in SUBSET (1 .. Len(made)) /\ Len(made) \in Nat
  BY Shape DEF RefsLetIn
<1>2. IsFiniteSet(1 .. Len(made))
  BY <1>1, FS_Interval
<1> QED  BY <1>1, <1>2, FS_Subset

\* The slots of a gate process that is gone are not given again.
LEMMA EarlierKept ==
  ASSUME Inv, EarlierBounded, gen' = gen,
         \A k \in Keys : \A g \in Nat : g < gen => RefsLetIn(k, g)' \subseteq RefsLetIn(k, g)
  PROVE  EarlierBounded'
<1> SUFFICES ASSUME NEW k \in Keys, NEW g \in Nat, g < gen
             PROVE  Cardinality(RefsLetIn(k, g)') <= Limit
  BY DEF EarlierBounded
<1> DEFINE A == RefsLetIn(k, g)
           B == RefsLetIn(k, g)'
<1>1. IsFiniteSet(A) /\ Cardinality(A) <= Limit
  BY RefsLetInFinite DEF EarlierBounded
<1>2. B \in SUBSET A
  OBVIOUS
<1> HIDE DEF A, B
<1>3. IsFiniteSet(B) /\ Cardinality(B) <= Cardinality(A)
  BY <1>1, <1>2, FS_Subset
<1>4. Cardinality(A) \in Nat /\ Cardinality(B) \in Nat /\ Limit \in Nat
  BY <1>1, <1>3, FS_CardinalityType, LimitAssumption
<1>5. Cardinality(B) <= Limit
  BY <1>1, <1>3, <1>4
<1> QED  BY <1>5 DEF B

\* The running gate let in no more than it has holders.
LEMMA LetInHold ==
  ASSUME Inv, Talk, NEW k \in Keys
  PROVE  RefsLetIn(k, gen) \subseteq keys[k].holders /\ Cardinality(RefsLetIn(k, gen)) <= Limit
<1> DEFINE A == RefsLetIn(k, gen)
           B == keys[k].holders
<1>1. A \subseteq B
  <2> SUFFICES ASSUME NEW r \in A PROVE r \in B
    OBVIOUS
  <2> DEFINE c == made[r].owner
  <2>1. r \in DOMAIN made /\ made[r].key = k /\ made[r].gen = gen /\ HasRef[c] = r /\ c \in Served
    BY DEF RefsLetIn
  <2>2. c \in Callers /\ r # NoRef
    BY <2>1, Shape DEF Refs, NoRef
  <2>3. CallerOK(c)
    BY <2>2 DEF Talk
  <2> QED  BY <2>1, <2>2, <2>3 DEF CallerOK
<1>2. IsFiniteSet(B) /\ Cardinality(B) <= Limit
  BY EntryGood DEF GoodEntry
<1> HIDE DEF A, B
<1>3. IsFiniteSet(A) /\ Cardinality(A) <= Cardinality(B)
  BY <1>1, <1>2, FS_Subset
<1>4. Cardinality(A) \in Nat /\ Cardinality(B) \in Nat /\ Limit \in Nat
  BY <1>2, <1>3, FS_CardinalityType, LimitAssumption
<1>5. Cardinality(A) <= Limit
  BY <1>2, <1>3, <1>4
<1> QED  BY <1>1, <1>5 DEF A, B

\* Nobody has called, so nobody is told of anything.
LEMMA InitTalk == Init => Talk
<1> SUFFICES ASSUME Init PROVE Talk
  OBVIOUS
<1>1. \A c \in Callers : pc[c] = "idle" /\ cref[c] = NoRef /\ mail[c] = <<>>
  BY DEF Init
<1>2. \A c \in Callers : CallerOK(c)
  BY <1>1 DEF CallerOK, Orderly, HasRef, RefOf
<1>3. Elements(inbox) = {} /\ CallsOnce(inbox)
  BY DEF Init, Elements, CallsOnce
<1>4. refs = {} /\ DOMAIN made = {} /\ gen = 0
  BY DEF Init
<1>5. EarlierBounded
  BY <1>4 DEF EarlierBounded
<1> QED  BY <1>2, <1>3, <1>4, <1>5 DEF Talk

\* The answer of the server reaches a caller that has nothing else to read.
LEMMA HandleAcquireTalk == Inv /\ Talk /\ HandleAcquire => Talk'
<1> SUFFICES ASSUME Inv, Talk, HandleAcquire PROVE Talk'
  OBVIOUS
<1> DEFINE hd == Head(inbox)
           tl == Tail(inbox)
           c == hd.caller
           k == hd.key
           r == Len(made) + 1
           row == [key |-> k, owner |-> c, gen |-> gen]
           free == FreeNow(keys[k])
<1>1. /\ inbox \in Seq(Request) /\ inbox # <<>> /\ hd.kind = "acquire" /\ hd \in Request
      /\ tl \in Seq(Request) /\ Elements(inbox) = {hd} \cup Elements(tl)
      /\ UNCHANGED <<gen, pc, cref>>
  <2>1. inbox \in Seq(Request) /\ inbox # <<>> /\ hd.kind = "acquire" /\ UNCHANGED <<gen, pc, cref>>
    BY DEF HandleAcquire, Inv, TypeOK
  <2> QED  BY <2>1, ElementsTail
<1>2. c \in Callers /\ k \in Keys
  BY <1>1 DEF Request
<1>3. r \in Refs /\ r # NoRef /\ r \notin DOMAIN made /\ r \notin refs
  BY Shape DEF Refs, NoRef
<1>4. /\ made' = Append(made, row) /\ refs' = refs \cup {r}
      /\ row \in [key : Keys, owner : Callers, gen : Nat]
  BY <1>2 DEF HandleAcquire, Inv, TypeOK
<1>5. /\ DOMAIN made' = DOMAIN made \cup {r}
      /\ made'[r] = row
      /\ \A x \in DOMAIN made : made'[x] = made[x]
  BY <1>4 DEF Inv, TypeOK
<1>6. row.key = k /\ row.owner = c /\ row.gen = gen
  OBVIOUS
<1>7. /\ \A x \in Keys : \A y \in DOMAIN made : y \in keys'[x].holders <=> y \in keys[x].holders
      /\ r \in keys'[k].holders <=> free
  <2>1. keys \in [Keys -> Entry] /\ r \notin keys[k].holders
    <3>1. keys[k].holders \subseteq refs
      BY <1>2 DEF Inv, Bookkeeping, Known
    <3> QED  BY <1>3, <3>1 DEF Inv, TypeOK
  <2>2. keys[k] \in Entry
    BY <1>2, <2>1
  <2>3. CASE free
    <3>1. keys' = [keys EXCEPT ![k] = Occupy(keys[k], r)]
      BY <2>1, <2>3, <1>2 DEF HandleAcquire
    <3>2. Occupy(keys[k], r).holders = keys[k].holders \cup {r}
      BY <2>2 DEF Occupy, Entry
    <3> QED  BY <1>2, <1>3, <2>1, <2>3, <3>1, <3>2
  <2>4. CASE ~ free
    <3>1. keys' = [keys EXCEPT ![k] = Enqueue(keys[k], r)]
      BY <2>1, <2>4, <1>2 DEF HandleAcquire
    <3>2. Enqueue(keys[k], r).holders = keys[k].holders
      BY DEF Enqueue
    <3> QED  BY <1>2, <2>1, <2>4, <3>1, <3>2
  <2> QED  BY <2>3, <2>4
<1>8. MessageOK(hd)
  BY <1>1 DEF Talk
<1>9. pc[c] = "dead" \/ (pc[c] = "calling" /\ mail[c] = <<>>)
  BY <1>1, <1>8 DEF MessageOK
<1>10. /\ mail' = IF pc[c] = "dead" THEN mail
                  ELSE [mail EXCEPT ![c] = Append(@, RefMsg(IF free THEN "granted" ELSE "queued", r))]
       /\ inbox' = IF pc[c] = "dead" THEN Append(tl, RefMsg("DOWN", r)) ELSE tl
  BY DEF HandleAcquire, Deliver
<1>a. /\ CallsOnce(tl)
      /\ \A m \in Elements(tl) : m.kind = "acquire" => m.caller # c
  BY <1>1, OnceTail DEF Talk
<1>b. /\ inbox' \in Seq(Request) /\ CallsOnce(inbox')
      /\ Elements(inbox') = IF pc[c] = "dead" THEN Elements(tl) \cup {RefMsg("DOWN", r)} ELSE Elements(tl)
  <2>1. RefMsg("DOWN", r) \in Request /\ RefMsg("DOWN", r).kind # "acquire"
    BY <1>3 DEF RefMsg, Request
  <2>2. CASE pc[c] = "dead"
    <3> DEFINE d == RefMsg("DOWN", r)
    <3>1. inbox' = Append(tl, d) /\ d \in Request /\ d.kind # "acquire"
      BY <2>1, <2>2, <1>10
    <3> HIDE DEF d, tl
    <3>2. Append(tl, d) \in Seq(Request) /\ Elements(Append(tl, d)) = Elements(tl) \cup {d}
      BY <3>1, <1>1, ElementsAppend
    <3>3. CallsOnce(Append(tl, d))
      BY <3>1, <1>1, <1>a, OnceAppend
    <3> QED  BY <2>2, <3>1, <3>2, <3>3 DEF d
  <2>3. CASE pc[c] # "dead"
    BY <2>3, <1>1, <1>10, <1>a
  <2> QED  BY <2>2, <2>3
\* What the callers have afterwards.
<1>c. ASSUME NEW x \in Callers, x # c \/ pc[c] = "dead"
      PROVE  mail'[x] = mail[x] /\ HasRef'[x] = HasRef[x] /\ (x \in Served' <=> x \in Served)
  <2>1. mail'[x] = mail[x]
    BY <1>c, <1>10 DEF Inv, TypeOK
  <2> QED  BY <2>1, <1>1 DEF HasRef, Served
<1>d. ASSUME pc[c] # "dead"
      PROVE  /\ HasRef[c] = NoRef /\ HasRef'[c] = r
             /\ c \in Served' <=> free
             /\ Orderly(pc'[c], cref'[c], mail'[c]) /\ NoDown(mail'[c])
  <2> DEFINE kind == IF free THEN "granted" ELSE "queued"
             n == Append(<<>>, RefMsg(kind, r))
  <2>1. pc[c] = "calling" /\ mail[c] = <<>>
    BY <1>9, <1>d
  <2>2. cref[c] = NoRef
    <3>1. Orderly(pc[c], cref[c], mail[c])
      BY <1>2 DEF Talk, CallerOK
    <3> QED  BY <2>1, <3>1 DEF Orderly
  <2>3. mail'[c] = n
    BY <2>1, <1>2, <1>d, <1>10 DEF Inv, TypeOK
  <2>4. kind \in {"granted", "queued"} /\ (kind = "granted" <=> free)
    OBVIOUS
  <2> HIDE DEF kind
  <2>5. /\ Orderly("calling", NoRef, n) /\ NoDown(n)
        /\ RefOf("calling", NoRef, n) = r
        /\ LetIn("calling", n) <=> kind = "granted"
    BY <2>4, <1>3, AnswerOrderly
  <2> HIDE DEF n, c, r, free
  <2>6. HasRef[c] = RefOf(pc[c], cref[c], mail[c]) /\ HasRef'[c] = RefOf(pc'[c], cref'[c], mail'[c])
    BY <1>2 DEF HasRef
  <2>7. c \in Served' <=> LetIn(pc'[c], mail'[c])
    BY <1>2 DEF Served
  <2>8. pc'[c] = "calling" /\ cref'[c] = NoRef
    BY <2>1, <2>2, <1>1
  <2>9. HasRef[c] = NoRef
    BY <2>1, <2>2, <2>6 DEF RefOf
  <2>10. HasRef'[c] = r /\ NoDown(mail'[c])
    BY <2>3, <2>5, <2>6, <2>8
  <2>11. c \in Served' <=> free
    BY <2>3, <2>4, <2>5, <2>7, <2>8
  <2>12. Orderly(pc'[c], cref'[c], mail'[c])
    BY <2>3, <2>5, <2>8
  <2> QED  BY <2>9, <2>10, <2>11, <2>12
<1> HIDE DEF free, hd, tl, row
<1>e. ASSUME NEW x \in Callers PROVE CallerOK(x)'
  <2>1. CASE x # c \/ pc[c] = "dead"
    <3>1. CallerOK(x)
      BY DEF Talk
    <3>2. mail'[x] = mail[x] /\ HasRef'[x] = HasRef[x] /\ (x \in Served' <=> x \in Served)
      BY <2>1, <1>c
    <3> DEFINE h == HasRef[x]
    <3>3. h \in DOMAIN made => made'[h] = made[h] /\ made[h].key \in Keys
      BY <1>5, Shape
    <3>4. h # NoRef => h \in DOMAIN made
      BY <3>1 DEF CallerOK
    <3>5. Orderly(pc'[x], cref'[x], mail'[x])
      BY <3>1, <3>2, <1>1 DEF CallerOK
    <3> HIDE DEF h
    <3>6. h # NoRef => h \in DOMAIN made' /\ made'[h].owner = x
      BY <3>1, <3>3, <3>4, <1>5 DEF CallerOK, h
    <3>7. ASSUME h # NoRef, made'[h].gen = gen
          PROVE  /\ h \in refs'
                 /\ x \in Served <=> h \in keys'[made'[h].key].holders
                 /\ \A i \in DOMAIN mail[x] : mail[x][i] # GateDown
      BY <3>1, <3>3, <3>4, <3>7, <1>4, <1>7 DEF CallerOK, h
    <3> QED  BY <3>2, <3>5, <3>6, <3>7, <1>1 DEF CallerOK, h
  <2>2. CASE x = c /\ pc[c] # "dead"
    <3>1. /\ HasRef'[c] = r /\ (c \in Served' <=> free)
          /\ Orderly(pc'[c], cref'[c], mail'[c]) /\ NoDown(mail'[c])
      BY <2>2, <1>d
    <3>2. r \in DOMAIN made' /\ made'[r].owner = c /\ made'[r].key = k /\ r \in refs'
      BY <1>4, <1>5, <1>6
    <3> HIDE DEF c, k, r
    <3>3. /\ Orderly(pc'[x], cref'[x], mail'[x]) /\ HasRef'[x] = r /\ made'[r].owner = x
          /\ x \in Served' <=> r \in keys'[made'[r].key].holders
          /\ \A i \in DOMAIN mail'[x] : mail'[x][i] # GateDown
      <4>1. x = c /\ (r \in keys'[k].holders <=> free) /\ made'[r].key = k
        BY <2>2, <3>2, <1>7
      <4>2. \A i \in DOMAIN mail'[x] : mail'[x][i] # GateDown
        BY <3>1, <4>1 DEF NoDown
      <4>3. Orderly(pc'[x], cref'[x], mail'[x])
        BY <3>1, <4>1
      <4> QED  BY <3>1, <3>2, <4>1, <4>2, <4>3
    <3> QED  BY <3>2, <3>3 DEF CallerOK
  <2> QED  BY <2>1, <2>2
<1>f. ASSUME NEW m \in Elements(inbox') PROVE MessageOK(m)'
  <2>1. CASE m = RefMsg("DOWN", r) /\ pc[c] = "dead"
    <3>1. m.kind = "DOWN" /\ m.ref = r
      BY <2>1 DEF RefMsg
    <3> QED  BY <2>1, <3>1, <1>1, <1>5, <1>6 DEF MessageOK
  <2>2. CASE m \in Elements(tl)
    <3>1. MessageOK(m) /\ m \in Request
      <4>1. m \in Elements(inbox)
        BY <2>2, <1>1
      <4> QED  BY <4>1, <1>1 DEF Talk, Elements
    <3>2. ASSUME m.kind = "acquire"
          PROVE  pc'[m.caller] = "dead" \/ (pc'[m.caller] = "calling" /\ mail'[m.caller] = <<>>)
      <4>1. m.caller # c /\ m.caller \in Callers
        BY <2>2, <3>1, <3>2, <1>a DEF Request
      <4> QED  BY <3>1, <3>2, <4>1, <1>1, <1>c DEF MessageOK
    <3>3. ASSUME m.kind \in {"release", "DOWN"}, m.ref \in DOMAIN made
          PROVE  m.ref \in DOMAIN made' /\ made'[m.ref] = made[m.ref]
      BY <3>3, <1>5
    <3>4. ASSUME m.kind = "release"
          PROVE  m.ref \in DOMAIN made' /\ HasRef'[made[m.ref].owner] # m.ref
      <4>1. m.ref \in DOMAIN made /\ HasRef[made[m.ref].owner] # m.ref
        BY <3>1, <3>4 DEF MessageOK
      <4>2. made[m.ref].owner \in Callers
        BY <4>1, Shape
      <4> DEFINE o == made[m.ref].owner
      <4>3. CASE o = c /\ pc[c] # "dead"
        BY <4>1, <4>3, <1>3, <1>5, <1>d
      <4>4. CASE o # c \/ pc[c] = "dead"
        BY <4>1, <4>2, <4>4, <1>5, <1>c
      <4> QED  BY <4>3, <4>4
    <3>5. m.kind = "DOWN" => m.ref \in DOMAIN made' /\ pc'[made[m.ref].owner] = "dead"
      BY <3>1, <1>1, <1>5 DEF MessageOK
    <3>6. m.kind = "release" => HasRef'[made'[m.ref].owner] # m.ref
      <4> SUFFICES ASSUME m.kind = "release" PROVE HasRef'[made'[m.ref].owner] # m.ref
        OBVIOUS
      <4>1. made'[m.ref] = made[m.ref]
        BY <3>1, <3>3 DEF MessageOK
      <4> QED  BY <3>4, <4>1
    <3>7. m.kind = "DOWN" => pc'[made'[m.ref].owner] = "dead"
      BY <3>1, <3>3, <3>5 DEF MessageOK
    <3> QED  BY <3>2, <3>4, <3>5, <3>6, <3>7 DEF MessageOK
  <2> QED  BY <2>1, <2>2, <1>b
<1>g. ASSUME NEW y \in refs' PROVE RefOK(y)'
  <2>1. CASE y = r
    <3>1. made'[y].owner = c /\ made'[y].gen = gen'
      BY <2>1, <1>1, <1>5, <1>6
    <3>2. CASE pc[c] = "dead"
      <4>1. RefMsg("DOWN", y) \in Elements(inbox')
        BY <2>1, <3>2, <1>b
      <4> QED  BY <3>1, <3>2, <4>1, <1>1 DEF RefOK, Sent
    <3>3. CASE pc[c] # "dead"
      <4>1. HasRef'[c] = y
        BY <2>1, <3>3, <1>d
      <4> QED  BY <3>1, <3>3, <4>1, <1>1 DEF RefOK
    <3> QED  BY <3>2, <3>3
  <2>2. CASE y # r
    <3>1. y \in refs /\ y \in DOMAIN made /\ made'[y] = made[y] /\ RefOK(y)
          /\ made[y].owner \in Callers /\ made[y].key \in Keys /\ y # NoRef
      BY <2>2, <1>4, <1>5, Shape DEF Talk, Refs, NoRef
    <3> DEFINE o == made[y].owner
    <3>2. Sent("DOWN", y) => Sent("DOWN", y)'
      <4>1. RefMsg("DOWN", y) # hd
        BY <1>1 DEF RefMsg
      <4> QED  BY <4>1, <1>1, <1>b DEF Sent
    <3>3. Sent("release", y) => Sent("release", y)'
      <4>1. RefMsg("release", y) # hd
        BY <1>1 DEF RefMsg
      <4> QED  BY <4>1, <1>1, <1>b DEF Sent
    <3>4. ASSUME pc[o] # "dead", HasRef[o] = y PROVE HasRef'[o] = y
      <4>1. o # c \/ pc[c] = "dead"
        BY <3>1, <3>4, <1>d
      <4> QED  BY <3>1, <3>4, <4>1, <1>c
    <3>5. \A z \in {y} : z \in keys[made[y].key].holders => z \in keys'[made[y].key].holders
      BY <3>1, <1>7
    <3> HIDE DEF o
    <3>6. made'[y].gen = gen' /\ made'[y].owner = o
      BY <3>1, <1>1 DEF RefOK, o
    <3>7. \/ pc'[o] = "dead" /\ Sent("DOWN", y)'
          \/ pc'[o] # "dead" /\ HasRef'[o] = y
          \/ pc'[o] # "dead" /\ Sent("release", y)' /\ y \in keys'[made'[y].key].holders
      BY <3>1, <3>2, <3>3, <3>4, <3>5, <1>1 DEF RefOK, o
    <3> QED  BY <3>6, <3>7 DEF RefOK
  <2> QED  BY <2>1, <2>2
<1>h. \A y \in DOMAIN made' : made'[y].gen \in 0 .. gen'
  <2>1. gen \in 0 .. gen
    BY Shape
  <2> QED  BY <2>1, <1>1, <1>5, <1>6 DEF Talk
<1>i. EarlierBounded'
  <2> SUFFICES ASSUME NEW z \in Keys, NEW g \in Nat, g < gen, NEW y \in RefsLetIn(z, g)'
               PROVE  y \in RefsLetIn(z, g)
    BY EarlierKept, <1>1 DEF Talk
  <2> DEFINE o == made'[y].owner
  <2>1. y \in DOMAIN made' /\ made'[y].key = z /\ made'[y].gen = g /\ HasRef'[o] = y /\ o \in Served'
    BY DEF RefsLetIn
  <2>2. y # r /\ gen \in Nat
    BY <2>1, <1>5, <1>6, Shape
  <2>3. y \in DOMAIN made /\ made'[y] = made[y] /\ o \in Callers
    BY <2>1, <2>2, <1>5, Shape
  <2>4. o # c \/ pc[c] = "dead"
    BY <2>1, <2>2, <1>d
  <2>5. HasRef[o] = y /\ o \in Served
    BY <2>1, <2>3, <2>4, <1>c
  <2> QED  BY <2>1, <2>3, <2>5 DEF RefsLetIn
<1> QED  BY <1>1, <1>b, <1>e, <1>f, <1>g, <1>h, <1>i DEF Talk

\* Taking a ref out of an entry takes it from the holders or from the queue.
LEMMA WithoutParts ==
  ASSUME NEW e, GoodEntry(e), NEW r \in Known(e)
  PROVE  /\ Without(e, r).holders = e.holders \ {r}
         /\ Elements(Without(e, r).queue) \subseteq Elements(e.queue)
<1>1. e \in Entry /\ e.queue \in Seq(Refs)
  BY DEF GoodEntry, Entry
<1>2. CASE r \in e.holders
  BY <1>1, <1>2 DEF Without, Entry
<1>3. CASE r \notin e.holders
  <2>1. Without(e, r).holders = e.holders /\ Without(e, r).queue = Remove(e.queue, r)
    BY <1>1, <1>3 DEF Without, Entry
  <2>2. Elements(Remove(e.queue, r)) \subseteq Elements(e.queue)
    BY <1>1, ElementsRemove
  <2> QED  BY <2>1, <2>2, <1>3
<1> QED  BY <1>2, <1>3

\* Those that are let in come from the queue.
LEMMA AdmittedQueued ==
  ASSUME NEW e, GoodEntry(e)
  PROVE  /\ Admitted(e) \subseteq Elements(e.queue)
         /\ Admit(e).holders = e.holders \cup Admitted(e)
<1>1. /\ e.queue \in Seq(Refs) /\ DOMAIN e.queue = 1 .. Len(e.queue) /\ Len(e.queue) \in Nat
  BY DEF GoodEntry, Entry
<1>2. Cardinality(e.holders) \in Nat /\ Limit \in Nat
  BY FS_CardinalityType, LimitAssumption DEF GoodEntry
<1>3. FreeSlots(e) \in 0 .. Len(e.queue)
  BY <1>1, <1>2 DEF FreeSlots
<1>4. \A i \in 1 .. FreeSlots(e) : i \in DOMAIN e.queue
  BY <1>1, <1>3
<1> QED  BY <1>4 DEF Admitted, Elements, Admit

\* A caller that is gone or has not called has no ref.
LEMMA NothingHeld ==
  ASSUME Talk, NEW c \in Callers,
         pc[c] \notin {"calling", "waiting", "streaming"} \/ (pc[c] = "calling" /\ mail[c] = <<>>)
  PROVE  HasRef[c] = NoRef /\ cref[c] = NoRef /\ c \notin Served
<1>1. Orderly(pc[c], cref[c], mail[c])
  BY DEF Talk, CallerOK
<1>2. HasRef[c] = RefOf(pc[c], cref[c], mail[c]) /\ (c \in Served <=> LetIn(pc[c], mail[c]))
  BY DEF HasRef, Served
<1>3. CASE pc[c] \notin {"calling", "waiting", "streaming"}
  BY <1>1, <1>2, <1>3 DEF Orderly, RefOf, LetIn
<1>4. CASE pc[c] = "calling" /\ mail[c] = <<>>
  <2>1. Len(mail[c]) = 0
    BY <1>4
  <2> QED  BY <1>1, <1>2, <1>4, <2>1 DEF Orderly, RefOf, LetIn
<1> QED  BY <1>3, <1>4

\* A ref whose end is announced is one no caller has.
LEMMA LeavingUnheld ==
  ASSUME Inv, Talk, inbox # <<>>, Head(inbox).kind \in {"release", "DOWN"}
  PROVE  /\ Head(inbox).ref \in DOMAIN made
         /\ \A c \in Callers : HasRef[c] # Head(inbox).ref
<1> DEFINE m == Head(inbox)
<1>1. m \in Elements(inbox)
  BY ElementsTail DEF Inv, TypeOK
<1>2. MessageOK(m)
  BY <1>1 DEF Talk
<1> HIDE DEF m
<1>3. m.ref \in DOMAIN made
  BY <1>2 DEF MessageOK, m
<1>4. ASSUME NEW c \in Callers, HasRef[c] = m.ref PROVE FALSE
  <2>1. m.ref # NoRef
    BY <1>3, Shape DEF Refs, NoRef
  <2>2. made[m.ref].owner = c
    BY <1>4, <2>1 DEF Talk, CallerOK
  <2>3. pc[c] = "dead"
    BY <1>2, <1>4, <2>2 DEF MessageOK, m
  <2> QED  BY <1>4, <2>1, <2>3, NothingHeld
<1> QED  BY <1>3, <1>4 DEF m

\* The message the server handles is no other's.
LEMMA OthersSent ==
  ASSUME Inv, inbox # <<>>, Head(inbox).kind \in {"release", "DOWN"},
         NEW y, y # Head(inbox).ref, NEW kind, Sent(kind, y)
  PROVE  RefMsg(kind, y) \in Elements(Tail(inbox))
<1>1. RefMsg(kind, y) \in Elements(inbox) /\ Elements(inbox) = {Head(inbox)} \cup Elements(Tail(inbox))
  BY ElementsTail DEF Sent, Inv, TypeOK
<1>2. RefMsg(kind, y) # Head(inbox)
  BY DEF RefMsg
<1> QED  BY <1>1, <1>2

\* A ref leaves, and the waiters it makes room for are told.
LEMMA DropTalk == Inv /\ Talk /\ HandleLeave /\ Head(inbox).ref \in refs => Talk'
<1> SUFFICES ASSUME Inv, Talk, HandleLeave, Head(inbox).ref \in refs PROVE Talk'
  OBVIOUS
<1> DEFINE r == Head(inbox).ref
           tl == Tail(inbox)
           k == made[r].key
           e == keys[k]
           w == Without(e, r)
           X == Admitted(w)
           mine(x) == {y \in X : made[y].owner = x}
<1>1. /\ inbox \in Seq(Request) /\ inbox # <<>> /\ Head(inbox).kind \in {"release", "DOWN"}
      /\ Drop(r) /\ UNCHANGED <<made, gen, pc, cref>>
  BY DEF HandleLeave, Inv, TypeOK
<1>2. tl \in Seq(Request) /\ Elements(inbox) = {Head(inbox)} \cup Elements(tl)
  BY <1>1, ElementsTail
<1>3. r \in DOMAIN made /\ k \in Keys /\ \A x \in Callers : HasRef[x] # r
  BY <1>1, LeavingUnheld, Shape
<1>4. GoodEntry(e) /\ Cardinality(e.holders) <= Limit /\ r \in Known(e)
  <2>1. GoodEntry(e) /\ Cardinality(e.holders) <= Limit
    BY <1>3, EntryGood
  <2>2. Known(e) = {x \in refs : made[x].key = k}
    BY <1>3 DEF Inv, Bookkeeping
  <2> QED  BY <2>1, <2>2
<1>5. /\ refs' = refs \ {r} /\ inbox' = Remove(tl, RefMsg("DOWN", r))
      /\ keys' = [keys EXCEPT ![k] = Admit(w)]
  BY <1>1 DEF Drop, Flush
<1>6. /\ Elements(inbox') \subseteq Elements(inbox)
      /\ Elements(tl) \ {RefMsg("DOWN", r)} \subseteq Elements(inbox')
      /\ CallsOnce(inbox')
  <2>1. CallsOnce(tl)
    BY <1>1, OnceTail DEF Talk
  <2> HIDE DEF tl
  <2> QED  BY <2>1, <1>2, <1>5, ElementsRemove, OnceRemove
<1>7. GoodEntry(w)
  BY <1>4, WithoutForgets
<1>8. X \subseteq Elements(e.queue) /\ Admit(w).holders = (e.holders \ {r}) \cup X
  <2>1. w.holders = e.holders \ {r} /\ Elements(w.queue) \subseteq Elements(e.queue)
    <3> HIDE DEF e, r
    <3> QED  BY <1>4, WithoutParts, Zenon
  <2>2. X \subseteq Elements(w.queue) /\ Admit(w).holders = w.holders \cup X
    BY <1>7, AdmittedQueued
  <2> QED  BY <2>1, <2>2
<1>9. ASSUME NEW y \in X
      PROVE  /\ y \in refs /\ y \in DOMAIN made /\ made[y].key = k /\ made[y].gen = gen
             /\ y \notin e.holders
             /\ pc[made[y].owner] # "dead" => HasRef[made[y].owner] = y
  <2>1. y \in Known(e) /\ y \notin e.holders
    <3>1. y \in Elements(e.queue) /\ e.holders \cap Elements(e.queue) = {}
      <4> HIDE DEF e, X
      <4> QED  BY <1>4, <1>8 DEF GoodEntry, Consistent
    <3> HIDE DEF e
    <3> QED  BY <3>1 DEF Known
  <2>2. y \in refs /\ made[y].key = k /\ y \in DOMAIN made
    BY <2>1, <1>3, Shape DEF Inv, Bookkeeping
  <2>3. RefOK(y)
    BY <2>2 DEF Talk
  <2> QED  BY <2>1, <2>2, <2>3 DEF RefOK
<1>10. /\ \A x \in Keys : \A y \in Refs :
            y # r /\ (x # k \/ y \notin X) => (y \in keys'[x].holders <=> y \in keys[x].holders)
       /\ \A y \in X : y \in keys'[k].holders
  <2>1. keys'[k] = Admit(w) /\ \A x \in Keys \ {k} : keys'[x] = keys[x]
    BY <1>3, <1>5 DEF Inv, TypeOK
  <2> HIDE DEF w, X
  <2> QED  BY <2>1, <1>8
<1> HIDE DEF X
<1>a. mail' = [x \in Callers |->
                 IF pc[x] = "dead" \/ mine(x) = {} THEN mail[x]
                 ELSE Append(mail[x], RefMsg("gate_granted", CHOOSE y \in mine(x) : TRUE))]
  BY <1>1 DEF Drop, X
\* A caller that nobody was told of reads what it read before.
<1>b. ASSUME NEW x \in Callers, pc[x] = "dead" \/ mine(x) = {}
      PROVE  mail'[x] = mail[x] /\ HasRef'[x] = HasRef[x] /\ (x \in Served' <=> x \in Served)
  <2>1. mail'[x] = mail[x]
    BY <1>a, <1>b
  <2> QED  BY <2>1, <1>1 DEF HasRef, Served
\* A caller that is let in waited for just that.
<1>c. ASSUME NEW x \in Callers, pc[x] # "dead", mine(x) # {}
      PROVE  /\ HasRef[x] \in X /\ HasRef'[x] = HasRef[x] /\ x \in Served'
             /\ Orderly(pc'[x], cref'[x], mail'[x]) /\ NoDown(mail'[x])
  <2> DEFINE h == HasRef[x]
             b == mail[x]
  <2>1. mine(x) = {h}
    BY <1>9, <1>c
  <2>2. (CHOOSE y \in mine(x) : TRUE) = h
    BY <2>1
  <2>3. mail'[x] = Append(b, RefMsg("gate_granted", h))
    BY <1>a, <1>c, <2>2
  <2>4. h \in X
    BY <2>1
  <2>5. h \in Refs /\ h # NoRef /\ made[h].gen = gen /\ made[h].key = k /\ h \notin e.holders
    BY <2>4, <1>9, Shape DEF Refs, NoRef
  <2>6. Orderly(pc[x], cref[x], b) /\ NoDown(b) /\ x \notin Served
    BY <2>5 DEF Talk, CallerOK, NoDown
  <2>7. h = RefOf(pc[x], cref[x], b) /\ ~ LetIn(pc[x], b)
    BY <2>6 DEF HasRef, Served
  <2>8. b \in Seq(Reply)
    BY Shape
  <2>9. /\ Orderly(pc[x], cref[x], mail'[x]) /\ NoDown(mail'[x]) /\ LetIn(pc[x], mail'[x])
        /\ RefOf(pc[x], cref[x], mail'[x]) = h
    <3> DEFINE p == pc[x]
               q == cref[x]
               n == Append(b, RefMsg("gate_granted", RefOf(p, q, b)))
    <3>1. RefOf(p, q, b) \in Refs /\ ~ LetIn(p, b) /\ Orderly(p, q, b)
      BY <2>5, <2>6, <2>7
    <3> HIDE DEF p, q, b
    <3>2. /\ Orderly(p, q, n) /\ NoDown(n) /\ LetIn(p, n)
          /\ RefOf(p, q, n) = RefOf(p, q, b)
      BY <2>6, <2>8, <3>1, GrantOrderly
    <3> QED  BY <2>3, <2>7, <3>2 DEF p, q, b
  <2>10. HasRef'[x] = RefOf(pc'[x], cref'[x], mail'[x]) /\ (x \in Served' <=> LetIn(pc'[x], mail'[x]))
    BY DEF HasRef, Served
  <2>11. pc'[x] = pc[x] /\ cref'[x] = cref[x]
    BY <1>1
  <2> HIDE DEF h
  <2> QED  BY <2>4, <2>9, <2>10, <2>11 DEF h
<1>d. \A x \in Callers : HasRef'[x] = HasRef[x]
  BY <1>b, <1>c
<1>e. ASSUME NEW x \in Callers PROVE CallerOK(x)'
  <2> DEFINE h == HasRef[x]
  <2>1. CallerOK(x)
    BY DEF Talk
  <2>2. h # NoRef => h \in DOMAIN made /\ made[h].owner = x /\ h \in Refs /\ h # r /\ made[h].key \in Keys
    BY <2>1, <1>3, Shape DEF CallerOK
  <2>3. HasRef'[x] = h
    BY <1>d
  <2>4. CASE pc[x] = "dead" \/ mine(x) = {}
    <3>1. mail'[x] = mail[x] /\ (x \in Served' <=> x \in Served)
      BY <2>4, <1>b
    <3>2. Orderly(pc'[x], cref'[x], mail'[x])
      BY <2>1, <3>1, <1>1 DEF CallerOK
    <3>3. h # NoRef => h \notin X
      <4>1. pc[x] = "dead" => h = NoRef
        BY NothingHeld
      <4> QED  BY <4>1, <2>2, <2>4
    <3>4. ASSUME h # NoRef, made'[h].gen = gen'
          PROVE  /\ h \in refs' /\ (x \in Served' <=> h \in keys'[made'[h].key].holders)
                 /\ \A i \in DOMAIN mail'[x] : mail'[x][i] # GateDown
      <4>1. made[h].gen = gen /\ made'[h].key = made[h].key
        BY <3>4, <1>1
      <4>2. h \in refs /\ (x \in Served <=> h \in keys[made[h].key].holders)
        BY <2>1, <3>4, <4>1 DEF CallerOK
      <4>3. \A i \in DOMAIN mail[x] : mail[x][i] # GateDown
        BY <2>1, <3>4, <4>1 DEF CallerOK
      <4> HIDE DEF h, k, r
      <4>4. h \in keys'[made[h].key].holders <=> h \in keys[made[h].key].holders
        BY <2>2, <3>3, <3>4, <1>10
      <4> QED  BY <2>2, <3>1, <3>4, <4>1, <4>2, <4>3, <4>4, <1>5
    <3> HIDE DEF h
    <3> QED  BY <2>2, <2>3, <3>2, <3>4, <1>1 DEF CallerOK
  <2>5. CASE pc[x] # "dead" /\ mine(x) # {}
    <3>1. /\ h \in X /\ x \in Served'
          /\ Orderly(pc'[x], cref'[x], mail'[x]) /\ NoDown(mail'[x])
      BY <2>5, <1>c
    <3>2. h \in refs /\ made[h].key = k
      BY <3>1, <1>9
    <3>3. h # NoRef
      BY <3>2, Shape DEF Refs, NoRef
    <3>4. h \in refs' /\ h \in keys'[made'[h].key].holders
      BY <2>2, <3>1, <3>2, <3>3, <1>1, <1>5, <1>10
    <3>5. \A i \in DOMAIN mail'[x] : mail'[x][i] # GateDown
      BY <3>1 DEF NoDown
    <3>6. made' = made
      BY <1>1
    <3> HIDE DEF h
    <3> QED  BY <2>2, <2>3, <3>1, <3>3, <3>4, <3>5, <3>6 DEF CallerOK
  <2> QED  BY <2>4, <2>5
<1>f. ASSUME NEW m \in Elements(inbox') PROVE MessageOK(m)'
  <2>1. MessageOK(m) /\ m \in Request
    BY <1>1, <1>6 DEF Talk, Elements
  <2>2. ASSUME m.kind = "acquire"
        PROVE  pc'[m.caller] = "dead" \/ (pc'[m.caller] = "calling" /\ mail'[m.caller] = <<>>)
    <3>1. m.caller \in Callers
      BY <2>1, <2>2 DEF Request
    <3> DEFINE x == m.caller
    <3>2. pc[x] = "dead" \/ (pc[x] = "calling" /\ mail[x] = <<>>)
      BY <2>1, <2>2 DEF MessageOK
    <3>3. pc[x] = "dead" \/ mine(x) = {}
      <4> SUFFICES ASSUME pc[x] # "dead", mine(x) # {} PROVE FALSE
        OBVIOUS
      <4>1. HasRef[x] \in X
        BY <3>1, <1>c
      <4>2. HasRef[x] = NoRef
        BY <3>1, <3>2, NothingHeld
      <4> QED  BY <4>1, <4>2, <1>9, Shape DEF Refs, NoRef
    <3> HIDE DEF x
    <3> QED  BY <3>1, <3>2, <3>3, <1>1, <1>b DEF x
  <2>3. ASSUME m.kind = "release"
        PROVE  m.ref \in DOMAIN made' /\ HasRef'[made'[m.ref].owner] # m.ref
    <3>1. m.ref \in DOMAIN made /\ HasRef[made[m.ref].owner] # m.ref /\ made[m.ref].owner \in Callers
      BY <2>1, <2>3, Shape DEF MessageOK
    <3> QED  BY <3>1, <1>1, <1>d
  <2>4. m.kind = "DOWN" => m.ref \in DOMAIN made' /\ pc'[made'[m.ref].owner] = "dead"
    BY <2>1, <1>1 DEF MessageOK
  <2> QED  BY <2>2, <2>3, <2>4 DEF MessageOK
<1>g. ASSUME NEW y \in refs' PROVE RefOK(y)'
  <2>1. y \in refs /\ y # r /\ RefOK(y) /\ made[y].owner \in Callers /\ made[y].key \in Keys /\ y \in Refs
    BY <1>5, Shape DEF Talk
  <2>2. ASSUME NEW kind, Sent(kind, y) PROVE Sent(kind, y)'
    <3>1. RefMsg(kind, y) \in Elements(tl)
      BY <2>1, <2>2, <1>1, OthersSent
    <3>2. RefMsg(kind, y) # RefMsg("DOWN", r)
      BY <2>1 DEF RefMsg
    <3> QED  BY <3>1, <3>2, <1>6 DEF Sent
  <2>3. (Sent("DOWN", y) => Sent("DOWN", y)') /\ (Sent("release", y) => Sent("release", y)')
    BY <2>2
  <2>4. y \in keys[made[y].key].holders => y \in keys'[made[y].key].holders
    <3>1. CASE made[y].key = k /\ y \in X
      BY <3>1, <1>10
    <3>2. CASE ~ (made[y].key = k /\ y \in X)
      BY <3>2, <2>1, <1>10
    <3> QED  BY <3>1, <3>2
  <2>5. HasRef'[made[y].owner] = HasRef[made[y].owner]
    BY <2>1, <1>d
  <2> QED  BY <2>1, <2>3, <2>4, <2>5, <1>1 DEF RefOK
<1>h. \A y \in DOMAIN made' : made'[y].gen \in 0 .. gen'
  BY <1>1 DEF Talk
<1>i. EarlierBounded'
  <2> SUFFICES ASSUME NEW z \in Keys, NEW g \in Nat, g < gen, NEW y \in RefsLetIn(z, g)'
               PROVE  y \in RefsLetIn(z, g)
    BY EarlierKept, <1>1 DEF Talk
  <2> DEFINE o == made[y].owner
  <2>1. y \in DOMAIN made /\ made[y].key = z /\ made[y].gen = g /\ HasRef'[o] = y /\ o \in Served'
    BY <1>1 DEF RefsLetIn
  <2>2. o \in Callers /\ gen \in Nat
    BY <2>1, Shape
  <2>3. HasRef[o] = y
    BY <2>1, <2>2, <1>d
  <2>4. y \notin X
    BY <2>1, <2>2, <1>9
  <2>5. pc[o] = "dead" \/ mine(o) = {}
    BY <2>2, <2>3, <2>4, <1>c
  <2>6. o \in Served
    BY <2>1, <2>2, <2>5, <1>b
  <2> QED  BY <2>1, <2>3, <2>6 DEF RefsLetIn
<1> QED  BY <1>6, <1>e, <1>f, <1>g, <1>h, <1>i DEF Talk

\* A ref the server does not know changes nothing but the mailbox.
LEMMA StaleLeaveTalk == Inv /\ Talk /\ HandleLeave /\ Head(inbox).ref \notin refs => Talk'
<1> SUFFICES ASSUME Inv, Talk, HandleLeave, Head(inbox).ref \notin refs PROVE Talk'
  OBVIOUS
<1>1. /\ inbox \in Seq(Request) /\ inbox # <<>> /\ Head(inbox).kind \in {"release", "DOWN"}
      /\ inbox' = Tail(inbox) /\ UNCHANGED <<made, gen, pc, cref, refs, keys, mail>>
  BY DEF HandleLeave, Inv, TypeOK
<1>2. Elements(inbox) = {Head(inbox)} \cup Elements(inbox') /\ CallsOnce(inbox')
  BY <1>1, ElementsTail, OnceTail DEF Talk
<1>3. HasRef' = HasRef /\ Served' = Served
  BY <1>1 DEF HasRef, Served
<1>4. \A x \in Callers : CallerOK(x)'
  BY <1>1, <1>3 DEF Talk, CallerOK
<1>5. \A m \in Elements(inbox') : MessageOK(m)'
  BY <1>1, <1>2, <1>3 DEF Talk, MessageOK
<1>6. ASSUME NEW y \in refs PROVE RefOK(y)'
  <2>1. y # Head(inbox).ref /\ RefOK(y)
    BY DEF Talk
  <2>2. (Sent("DOWN", y) => Sent("DOWN", y)') /\ (Sent("release", y) => Sent("release", y)')
    BY <1>1, <2>1, OthersSent DEF Sent
  <2> QED  BY <2>1, <2>2, <1>1, <1>3 DEF RefOK
<1>7. EarlierBounded' /\ \A y \in DOMAIN made' : made'[y].gen \in 0 .. gen'
  BY <1>1, <1>3 DEF Talk, EarlierBounded, RefsLetIn
<1> QED  BY <1>1, <1>2, <1>4, <1>5, <1>6, <1>7 DEF Talk

\* The refs of the gate that ended are refs of an earlier gate from now on, and
\* no more of them are let in than it had slots.
LEMMA GateRestartTalk == Inv /\ Talk /\ GateRestart => Talk'
<1> SUFFICES ASSUME Inv, Talk, GateRestart PROVE Talk'
  OBVIOUS
<1>1. /\ refs' = {} /\ inbox' = <<>> /\ gen' = gen + 1 /\ UNCHANGED <<made, pc, cref>>
      /\ mail' = [c \in Callers |-> IF pc[c] \in {"calling", "waiting"}
                                    THEN Append(mail[c], GateDown) ELSE mail[c]]
  BY DEF GateRestart
<1>2. ASSUME NEW x \in Callers
      PROVE  /\ HasRef'[x] = HasRef[x] /\ (x \in Served' <=> x \in Served)
             /\ Orderly(pc'[x], cref'[x], mail'[x])
  <2>1. Orderly(pc[x], cref[x], mail[x]) /\ mail[x] \in Seq(Reply)
    BY Shape DEF Talk, CallerOK
  <2>2. /\ HasRef[x] = RefOf(pc[x], cref[x], mail[x])
        /\ HasRef'[x] = RefOf(pc'[x], cref'[x], mail'[x])
        /\ x \in Served <=> LetIn(pc[x], mail[x])
        /\ x \in Served' <=> LetIn(pc'[x], mail'[x])
    BY DEF HasRef, Served
  <2>3. CASE pc[x] \in {"calling", "waiting"}
    <3> DEFINE p == pc[x]
               q == cref[x]
               b == mail[x]
               n == Append(b, GateDown)
    <3>1. mail'[x] = n /\ pc'[x] = p /\ cref'[x] = q
      BY <1>1, <2>3
    <3>2. /\ Orderly(p, q, n)
          /\ RefOf(p, q, n) = RefOf(p, q, b)
          /\ LetIn(p, n) <=> LetIn(p, b)
      <4>1. Orderly(p, q, b) /\ b \in Seq(Reply) /\ p \in {"calling", "waiting"}
        BY <2>1, <2>3
      <4> HIDE DEF p, q, b
      <4> QED  BY <4>1, DownOrderly
    <3> HIDE DEF n
    <3> QED  BY <2>2, <3>1, <3>2
  <2>4. CASE pc[x] \notin {"calling", "waiting"}
    <3>1. mail'[x] = mail[x] /\ pc'[x] = pc[x] /\ cref'[x] = cref[x]
      BY <1>1, <2>4
    <3> QED  BY <2>1, <2>2, <3>1
  <2> QED  BY <2>3, <2>4
<1>3. \A y \in DOMAIN made : made[y].gen \in Nat /\ made[y].gen <= gen /\ made[y].owner \in Callers
  BY Shape DEF Talk
<1>4. gen \in Nat
  BY Shape
<1>5. ASSUME NEW x \in Callers PROVE CallerOK(x)'
  <2> DEFINE h == HasRef[x]
  <2>1. HasRef'[x] = h /\ Orderly(pc'[x], cref'[x], mail'[x])
    BY <1>2
  <2>2. h # NoRef => h \in DOMAIN made /\ made[h].owner = x
    BY DEF Talk, CallerOK
  <2>3. h # NoRef => made[h].gen # gen'
    BY <2>2, <1>1, <1>3, <1>4
  <2> HIDE DEF h
  <2> QED  BY <2>1, <2>2, <2>3, <1>1 DEF CallerOK
<1>6. Elements(inbox') = {} /\ CallsOnce(inbox')
  BY <1>1 DEF Elements, CallsOnce
<1>7. \A y \in DOMAIN made' : made'[y].gen \in 0 .. gen'
  BY <1>1, <1>3, <1>4
<1>8. EarlierBounded'
  <2> SUFFICES ASSUME NEW k \in Keys, NEW g \in Nat, g < gen + 1
               PROVE  Cardinality(RefsLetIn(k, g)') <= Limit
    BY <1>1 DEF EarlierBounded
  <2>1. RefsLetIn(k, g)' = RefsLetIn(k, g)
    BY <1>1, <1>2, <1>3 DEF RefsLetIn
  <2>2. g < gen \/ g = gen
    BY <1>4
  <2>3. g < gen => Cardinality(RefsLetIn(k, g)) <= Limit
    BY DEF Talk, EarlierBounded
  <2>4. g = gen => Cardinality(RefsLetIn(k, g)) <= Limit
    BY LetInHold
  <2> QED  BY <2>1, <2>2, <2>3, <2>4
<1> QED  BY <1>1, <1>5, <1>6, <1>7, <1>8 DEF Talk

\* A step of one caller: it keeps its ref, or it has none any more.
LEMMA OneCaller ==
  ASSUME Inv, Talk, NEW c \in Callers, UNCHANGED <<keys, refs, made, gen>>, pc[c] # "dead",
         \A x \in Callers \ {c} : pc'[x] = pc[x] /\ cref'[x] = cref[x] /\ mail'[x] = mail[x],
         Orderly(pc'[c], cref'[c], mail'[c]),
         \/ /\ HasRef'[c] = HasRef[c] /\ (c \in Served' <=> c \in Served) /\ pc'[c] # "dead"
            /\ NoDown(mail[c]) => NoDown(mail'[c])
         \/ /\ HasRef'[c] = NoRef /\ c \notin Served'
            /\ \A r \in refs : made[r].owner = c => RefOK(r)',
         CallsOnce(inbox'), Elements(inbox) \subseteq Elements(inbox'),
         \A m \in Elements(inbox') \ Elements(inbox) : MessageOK(m)',
         pc'[c] = "dead" \/ \A m \in Elements(inbox) : m.kind = "acquire" => m.caller # c
  PROVE  Talk'
<1>1. ASSUME NEW x \in Callers, x # c
      PROVE  HasRef'[x] = HasRef[x] /\ (x \in Served' <=> x \in Served)
  <2>1. pc'[x] = pc[x] /\ cref'[x] = cref[x] /\ mail'[x] = mail[x]
    BY <1>1
  <2> QED  BY <2>1 DEF HasRef, Served
<1>2. ASSUME NEW x \in Callers PROVE CallerOK(x)'
  <2>1. CallerOK(x)
    BY DEF Talk
  <2>2. CASE x # c
    <3>1. HasRef'[x] = HasRef[x] /\ (x \in Served' <=> x \in Served)
      BY <1>1, <2>2
    <3>2. pc'[x] = pc[x] /\ cref'[x] = cref[x] /\ mail'[x] = mail[x]
      BY <2>2
    <3> QED  BY <2>1, <3>1, <3>2 DEF CallerOK
  <2>3. CASE x = c /\ HasRef'[c] = NoRef
    BY <2>3 DEF CallerOK
  <2>4. CASE /\ x = c /\ HasRef'[c] = HasRef[c] /\ (c \in Served' <=> c \in Served)
             /\ NoDown(mail[c]) => NoDown(mail'[c])
    BY <2>1, <2>4 DEF CallerOK, NoDown
  <2> QED  BY <2>2, <2>3, <2>4
<1>3. \A x \in Callers : HasRef'[x] \in {HasRef[x], NoRef}
  BY <1>1
<1>4. ASSUME NEW m \in Elements(inbox') PROVE MessageOK(m)'
  <2>1. CASE m \in Elements(inbox)
    <3>1. MessageOK(m) /\ m \in Request
      BY <2>1 DEF Talk, Inv, TypeOK, Elements
    <3>2. ASSUME m.kind = "acquire"
          PROVE  pc'[m.caller] = "dead" \/ (pc'[m.caller] = "calling" /\ mail'[m.caller] = <<>>)
      <4>1. m.caller \in Callers
        BY <3>1, <3>2 DEF Request
      <4>2. CASE m.caller = c
        BY <2>1, <3>2, <4>2
      <4>3. CASE m.caller # c
        BY <3>1, <3>2, <4>1, <4>3 DEF MessageOK
      <4> QED  BY <4>2, <4>3
    <3>3. ASSUME m.kind = "release"
          PROVE  m.ref \in DOMAIN made' /\ HasRef'[made'[m.ref].owner] # m.ref
      <4>1. m.ref \in DOMAIN made /\ HasRef[made[m.ref].owner] # m.ref
        BY <3>1, <3>3 DEF MessageOK
      <4>2. made[m.ref].owner \in Callers /\ m.ref # NoRef
        BY <4>1, Shape DEF Refs, NoRef
      <4> QED  BY <4>1, <4>2, <1>3
    <3>4. ASSUME m.kind = "DOWN"
          PROVE  m.ref \in DOMAIN made' /\ pc'[made'[m.ref].owner] = "dead"
      <4>1. m.ref \in DOMAIN made /\ pc[made[m.ref].owner] = "dead"
        BY <3>1, <3>4 DEF MessageOK
      <4>2. made[m.ref].owner \in Callers /\ made[m.ref].owner # c
        BY <4>1, Shape
      <4> QED  BY <4>1, <4>2
    <3> QED  BY <3>2, <3>3, <3>4 DEF MessageOK
  <2>2. CASE m \notin Elements(inbox)
    BY <2>2
  <2> QED  BY <2>1, <2>2
<1>5. ASSUME NEW y \in refs PROVE RefOK(y)'
  <2>1. RefOK(y) /\ made[y].owner \in Callers
    BY Shape DEF Talk
  <2>2. (Sent("DOWN", y) => Sent("DOWN", y)') /\ (Sent("release", y) => Sent("release", y)')
    BY DEF Sent
  <2>3. CASE made[y].owner # c
    <3>1. HasRef'[made[y].owner] = HasRef[made[y].owner] /\ pc'[made[y].owner] = pc[made[y].owner]
      BY <2>1, <2>3, <1>1
    <3> QED  BY <2>1, <2>2, <3>1 DEF RefOK
  <2>4. CASE made[y].owner = c /\ HasRef'[c] = HasRef[c] /\ pc'[c] # "dead"
    BY <2>1, <2>2, <2>4 DEF RefOK
  <2>5. CASE made[y].owner = c /\ RefOK(y)'
    BY <2>5
  <2> QED  BY <2>3, <2>4, <2>5
<1>6. EarlierBounded'
  <2> SUFFICES ASSUME NEW z \in Keys, NEW g \in Nat, g < gen, NEW y \in RefsLetIn(z, g)'
               PROVE  y \in RefsLetIn(z, g)
    BY EarlierKept DEF Talk
  <2> DEFINE o == made[y].owner
  <2>1. y \in DOMAIN made /\ made[y].key = z /\ made[y].gen = g /\ HasRef'[o] = y /\ o \in Served'
    BY DEF RefsLetIn
  <2>2. o \in Callers /\ y # NoRef
    BY <2>1, Shape DEF Refs, NoRef
  <2> HIDE DEF o
  <2>3. HasRef[o] = y /\ o \in Served
    BY <2>1, <2>2, <1>1
  <2> QED  BY <2>1, <2>3 DEF RefsLetIn, o
<1>7. \A y \in DOMAIN made' : made'[y].gen \in 0 .. gen'
  BY DEF Talk
<1> QED  BY <1>2, <1>4, <1>5, <1>6, <1>7 DEF Talk

\* A caller that is not waiting for the answer of a call has none in flight.
LEMMA NoCallInFlight ==
  ASSUME Inv, Talk, NEW c \in Callers, pc[c] # "dead", ~ (pc[c] = "calling" /\ mail[c] = <<>>),
         NEW m \in Elements(inbox), m.kind = "acquire"
  PROVE  m.caller # c
BY DEF Talk, MessageOK

\* What HasRef and Served say of a caller, now and after a step.
LEMMA HeldNow ==
  ASSUME NEW c \in Callers
  PROVE  /\ HasRef[c] = RefOf(pc[c], cref[c], mail[c])
         /\ HasRef'[c] = RefOf(pc'[c], cref'[c], mail'[c])
         /\ c \in Served <=> LetIn(pc[c], mail[c])
         /\ c \in Served' <=> LetIn(pc'[c], mail'[c])
BY DEF HasRef, Served

\* A caller calls.
LEMMA AcquireTalk ==
  ASSUME Inv, Talk, NEW c \in Callers, NEW k \in Keys, Acquire(c, k)
  PROVE  Talk'
<1> DEFINE m == AcquireMsg(c, k)
<1>1. /\ pc[c] = "idle" /\ UNCHANGED <<keys, refs, made, gen, cref, mail>>
      /\ pc' = [pc EXCEPT ![c] = "calling"] /\ inbox' = Append(inbox, m)
  BY DEF Acquire
<1>2. /\ pc'[c] = "calling" /\ \A x \in Callers \ {c} : pc'[x] = pc[x]
      /\ inbox \in Seq(Request) /\ m \in Request /\ m.kind = "acquire" /\ m.caller = c
  BY <1>1 DEF Inv, TypeOK, AcquireMsg, Request
<1>3. HasRef[c] = NoRef /\ cref[c] = NoRef /\ c \notin Served
  BY <1>1, NothingHeld
<1>4. mail[c] = <<>> /\ cref'[c] = NoRef /\ mail'[c] = <<>>
  <2>1. Orderly(pc[c], cref[c], mail[c])
    BY DEF Talk, CallerOK
  <2> QED  BY <1>1, <1>3, <2>1 DEF Orderly
<1>5. Orderly(pc'[c], cref'[c], mail'[c])
  BY <1>2, <1>4 DEF Orderly, OnlyDown
<1>6. HasRef'[c] = NoRef /\ c \notin Served'
  <2>1. Len(mail'[c]) = 0
    BY <1>4
  <2> QED  BY <1>2, <1>4, <2>1, HeldNow DEF RefOf, LetIn
<1> HIDE DEF m
<1>7. \A n \in Elements(inbox) : n.kind = "acquire" => n.caller # c
  BY <1>1, NoCallInFlight
<1>8. CallsOnce(inbox') /\ Elements(inbox') = Elements(inbox) \cup {m}
  <2>1. Elements(Append(inbox, m)) = Elements(inbox) \cup {m}
    BY <1>2, ElementsAppend
  <2>2. CallsOnce(Append(inbox, m))
    BY <1>2, <1>7, OnceAppend DEF Talk
  <2> QED  BY <1>1, <2>1, <2>2
<1>9. MessageOK(m)'
  <2>1. m' = m
    BY DEF m, AcquireMsg
  <2> QED  BY <2>1, <1>2, <1>4 DEF MessageOK
<1>10. \A n \in Elements(inbox') \ Elements(inbox) : MessageOK(n)'
  <2> SUFFICES ASSUME NEW n \in Elements(inbox') \ Elements(inbox) PROVE MessageOK(n)'
    OBVIOUS
  <2>1. n = m
    BY <1>8
  <2> QED  BY <2>1, <1>2, <1>4 DEF MessageOK
<1>11. \A x \in Callers \ {c} : pc'[x] = pc[x] /\ cref'[x] = cref[x] /\ mail'[x] = mail[x]
  BY <1>1, <1>2
<1>12. NoDown(mail[c]) => NoDown(mail'[c])
  BY <1>4
<1> QED  BY <1>1, <1>2, <1>3, <1>5, <1>6, <1>7, <1>8, <1>10, <1>11, <1>12, OneCaller

\* A caller reads its mail.
LEMMA ReceiveTalk ==
  ASSUME Inv, Talk, NEW c \in Callers, Receive(c)
  PROVE  Talk'
<1> DEFINE p == pc[c]
           q == cref[c]
           b == mail[c]
           m == b[1]
<1>1. /\ p \in {"calling", "waiting"} /\ b # <<>> /\ b \in Seq(Reply) /\ m = Head(b)
      /\ UNCHANGED <<keys, refs, inbox, made, gen>>
      /\ Orderly(p, q, b)
  BY Shape DEF Receive, gateVars, Talk, CallerOK
<1>2. /\ m.kind = "queued" =>
              /\ m.ref # NoRef
              /\ Orderly("waiting", m.ref, Tail(b))
              /\ RefOf(p, q, b) = m.ref
              /\ LetIn("waiting", Tail(b)) <=> LetIn(p, b)
      /\ \/ m.kind = "granted"
         \/ m.kind = "gate_granted"
         => m.ref # NoRef /\ LetIn(p, b) /\ RefOf(p, q, b) = m.ref
      /\ NoDown(b) => NoDown(Tail(b))
  <2> HIDE DEF p, q, b
  <2> QED  BY <1>1, ReadOrderly DEF m
<1>3. /\ HasRef[c] = RefOf(p, q, b) /\ HasRef'[c] = RefOf(pc'[c], cref'[c], mail'[c])
      /\ c \in Served <=> LetIn(p, b)
      /\ c \in Served' <=> LetIn(pc'[c], mail'[c])
  BY HeldNow
<1>4. /\ \A x \in Callers \ {c} : pc'[x] = pc[x] /\ cref'[x] = cref[x] /\ mail'[x] = mail[x]
      /\ \/ /\ m.kind = "queued"
            /\ pc'[c] = "waiting" /\ cref'[c] = m.ref /\ mail'[c] = Tail(b)
         \/ /\ m.kind \in {"granted", "gate_granted"}
            /\ pc'[c] = "streaming" /\ cref'[c] = m.ref /\ mail'[c] = <<>>
         \/ /\ m = GateDown
            /\ pc'[c] = "idle" /\ cref'[c] = NoRef /\ mail'[c] = <<>>
  <2>1. pc \in [Callers -> {"idle", "calling", "waiting", "streaming", "dead"}]
        /\ DOMAIN cref = Callers /\ DOMAIN mail = Callers
    BY DEF Inv, TypeOK
  <2>2. \/ /\ m.kind = "queued"
           /\ pc' = [pc EXCEPT ![c] = "waiting"]
           /\ cref' = [cref EXCEPT ![c] = m.ref]
           /\ mail' = [mail EXCEPT ![c] = Tail(@)]
        \/ /\ m.kind \in {"granted", "gate_granted"}
           /\ pc' = [pc EXCEPT ![c] = "streaming"]
           /\ cref' = [cref EXCEPT ![c] = m.ref]
           /\ mail' = [mail EXCEPT ![c] = <<>>]
        \/ /\ m = GateDown
           /\ pc' = [pc EXCEPT ![c] = "idle"]
           /\ cref' = [cref EXCEPT ![c] = NoRef]
           /\ mail' = [mail EXCEPT ![c] = <<>>]
    BY <1>1 DEF Receive
  <2> HIDE DEF m
  <2>3. DOMAIN pc = Callers /\ DOMAIN cref = Callers /\ DOMAIN mail = Callers
    BY DEF Inv, TypeOK
  <2>4. cref \in [Callers -> Refs \cup {NoRef}] /\ mail \in [Callers -> Seq(Reply)]
    BY DEF Inv, TypeOK
  <2> QED  BY <2>1, <2>2, <2>4
<1>5. \A n \in Elements(inbox) : n.kind = "acquire" => n.caller # c
  BY <1>1, NoCallInFlight
<1>6. CallsOnce(inbox') /\ Elements(inbox') = Elements(inbox)
  BY <1>1 DEF Talk
<1>7. pc[c] # "dead"
  BY <1>1
<1>8. CASE m.kind = "queued" /\ pc'[c] = "waiting" /\ cref'[c] = m.ref /\ mail'[c] = Tail(b)
  <2>1. Orderly(pc'[c], cref'[c], mail'[c])
    BY <1>2, <1>8
  <2>2. HasRef'[c] = HasRef[c]
    BY <1>2, <1>3, <1>8 DEF RefOf
  <2>3. c \in Served' <=> c \in Served
    BY <1>2, <1>3, <1>8
  <2>4. NoDown(mail[c]) => NoDown(mail'[c])
    BY <1>2, <1>8
  <2> QED  BY <2>1, <2>2, <2>3, <2>4, <1>1, <1>4, <1>5, <1>6, <1>7, <1>8, OneCaller
<1>9. CASE /\ m.kind \in {"granted", "gate_granted"}
           /\ pc'[c] = "streaming" /\ cref'[c] = m.ref /\ mail'[c] = <<>>
  <2>1. Orderly(pc'[c], cref'[c], mail'[c])
    BY <1>2, <1>9 DEF Orderly
  <2>2. HasRef'[c] = HasRef[c]
    BY <1>2, <1>3, <1>9 DEF RefOf
  <2>3. c \in Served' <=> c \in Served
    BY <1>2, <1>3, <1>9 DEF LetIn
  <2>4. NoDown(mail[c]) => NoDown(mail'[c])
    BY <1>9 DEF NoDown
  <2> QED  BY <2>1, <2>2, <2>3, <2>4, <1>1, <1>4, <1>5, <1>6, <1>7, <1>9, OneCaller
<1>10. CASE m = GateDown /\ pc'[c] = "idle" /\ cref'[c] = NoRef /\ mail'[c] = <<>>
  <2>1. Orderly(pc'[c], cref'[c], mail'[c])
    BY <1>10 DEF Orderly
  <2>2. HasRef'[c] = NoRef /\ c \notin Served'
    BY <1>3, <1>10 DEF RefOf, LetIn
  <2>3. ~ NoDown(mail[c])
    <3>1. 1 \in DOMAIN b
      BY <1>1
    <3> QED  BY <3>1, <1>10 DEF NoDown
  <2>4. ASSUME NEW r \in refs, made[r].owner = c PROVE RefOK(r)'
    <3>1. RefOK(r) /\ r # NoRef
      BY Shape DEF Talk, Refs, NoRef
    <3>2. HasRef[c] # r
      BY <2>3, <3>1 DEF Talk, CallerOK, NoDown, RefOK
    <3>3. Sent("release", r) => Sent("release", r)'
      BY <1>6 DEF Sent
    <3>4. pc'[c] # "dead"
      BY <1>10
    <3> QED  BY <2>4, <3>1, <3>2, <3>3, <3>4, <1>1, <1>7 DEF RefOK
  <2> QED  BY <2>1, <2>2, <2>4, <1>1, <1>4, <1>5, <1>6, <1>7, OneCaller
<1> QED  BY <1>4, <1>8, <1>9, <1>10

\* A stream ends and its slot is given back.
LEMMA EndStreamTalk ==
  ASSUME Inv, Talk, NEW c \in Callers, EndStream(c)
  PROVE  Talk'
<1> DEFINE m == RefMsg("release", cref[c])
<1>1. /\ pc[c] = "streaming" /\ UNCHANGED <<keys, refs, made, gen, mail>>
      /\ pc' = [pc EXCEPT ![c] = "idle"] /\ cref' = [cref EXCEPT ![c] = NoRef]
      /\ inbox' = Append(inbox, m)
  BY DEF EndStream
<1>2. /\ pc'[c] = "idle" /\ cref'[c] = NoRef /\ mail'[c] = mail[c]
      /\ \A x \in Callers \ {c} : pc'[x] = pc[x] /\ cref'[x] = cref[x] /\ mail'[x] = mail[x]
  BY <1>1 DEF Inv, TypeOK
<1>3. inbox \in Seq(Request) /\ m \in Request /\ m.kind = "release" /\ m.ref = cref[c]
  BY <1>1 DEF Inv, TypeOK, KnowsRef, RefMsg, Request
<1>4. CallerOK(c) /\ Orderly(pc[c], cref[c], mail[c])
  BY DEF Talk, CallerOK
<1>5. mail[c] = <<>> /\ cref[c] # NoRef
  BY <1>1, <1>4 DEF Orderly
<1>6. HasRef[c] = cref[c] /\ c \in Served
  BY <1>1, HeldNow DEF RefOf, LetIn
<1>7. HasRef'[c] = NoRef /\ c \notin Served'
  BY <1>2, HeldNow DEF RefOf, LetIn
<1>8. Orderly(pc'[c], cref'[c], mail'[c])
  BY <1>2, <1>5 DEF Orderly
<1> HIDE DEF m
<1>9. \A n \in Elements(inbox) : n.kind = "acquire" => n.caller # c
  BY <1>1, NoCallInFlight
<1>10. CallsOnce(inbox') /\ Elements(inbox') = Elements(inbox) \cup {m}
  <2>1. Elements(Append(inbox, m)) = Elements(inbox) \cup {m}
    BY <1>3, ElementsAppend
  <2>2. CallsOnce(Append(inbox, m))
    BY <1>3, <1>9, OnceAppend DEF Talk
  <2> QED  BY <1>1, <2>1, <2>2
<1>11. ASSUME NEW n \in Elements(inbox') \ Elements(inbox) PROVE MessageOK(n)'
  <2>1. n = m
    BY <1>10
  <2>2. cref[c] \in DOMAIN made /\ made[cref[c]].owner = c
    BY <1>4, <1>5, <1>6 DEF CallerOK
  <2>3. n.kind = "release" /\ n.ref \in DOMAIN made' /\ HasRef'[made'[n.ref].owner] # n.ref
    BY <2>1, <2>2, <1>1, <1>3, <1>5, <1>7
  <2> QED  BY <2>3 DEF MessageOK
<1>12. ASSUME NEW r \in refs, made[r].owner = c PROVE RefOK(r)'
  <2>1. RefOK(r) /\ r # NoRef /\ pc'[c] # "dead" /\ pc[c] # "dead"
    BY <1>1, <1>2, Shape DEF Talk, Refs, NoRef
  <2>2. Sent("release", r) => Sent("release", r)'
    BY <1>10 DEF Sent
  <2>3. CASE HasRef[c] = r
    <3>1. r \in keys[made[r].key].holders
      BY <2>1, <2>3, <1>4, <1>6 DEF CallerOK, RefOK
    <3>2. RefMsg("release", r) \in Elements(inbox')
      BY <2>3, <1>6, <1>10 DEF m
    <3> QED  BY <2>1, <3>1, <3>2, <1>1, <1>12 DEF RefOK, Sent
  <2>4. CASE HasRef[c] # r
    BY <2>1, <2>2, <2>4, <1>1, <1>12 DEF RefOK
  <2> QED  BY <2>3, <2>4
<1> QED  BY <1>1, <1>2, <1>7, <1>8, <1>9, <1>10, <1>11, <1>12, OneCaller

\* The monitors the gate has on a caller all fire when it dies.
LEMMA AllDownsSent ==
  ASSUME Inv, NEW c \in Callers, NEW downs \in DownsOf(c)
  PROVE  downs \in Seq(Request) /\ Elements(downs) = {RefMsg("DOWN", r) : r \in Monitored(c)}
<1> DEFINE M == Monitored(c)
           n == Cardinality(M)
<1>1. M \in SUBSET (1 .. Len(made)) /\ Len(made) \in Nat /\ M \subseteq Refs
  BY Shape DEF Monitored, Inv, TypeOK
<1>2. IsFiniteSet(1 .. Len(made))
  BY <1>1, FS_Interval
<1>3. IsFiniteSet(M) /\ n \in Nat
  <2>1. IsFiniteSet(M)
    BY <1>1, <1>2, FS_Subset
  <2> QED  BY <2>1, FS_CardinalityType
<1>4. PICK f \in Injection(1 .. n, M) : downs = [i \in DOMAIN f |-> RefMsg("DOWN", f[i])]
  BY DEF DownsOf
<1> HIDE DEF M, n
<1>5. f \in [1 .. n -> M] /\ f \in Surjection(1 .. n, M)
  <2>1. IsFiniteSet(1 .. n) /\ Cardinality(1 .. n) = n
    BY <1>3, FS_Interval
  <2>2. Cardinality(1 .. n) = Cardinality(M)
    BY <2>1 DEF n
  <2>3. f \in Surjection(1 .. n, M)
    BY <2>2, <1>3, <1>4, FS_Injection
  <2> QED  BY <2>3 DEF Surjection
<1>6. M = {f[i] : i \in 1 .. n}
  <2>1. M \subseteq {f[i] : i \in 1 .. n}
    BY <1>5 DEF Surjection, Range
  <2> QED  BY <2>1, <1>5
<1>7. downs = [i \in 1 .. n |-> RefMsg("DOWN", f[i])]
  BY <1>4, <1>5
<1>8. \A i \in 1 .. n : RefMsg("DOWN", f[i]) \in Request
  BY <1>1, <1>5 DEF RefMsg, Request
<1>9. downs \in Seq(Request)
  BY <1>3, <1>7, <1>8
<1>10. Elements(downs) = {RefMsg("DOWN", f[i]) : i \in 1 .. n}
  BY <1>7 DEF Elements
<1> QED  BY <1>6, <1>9, <1>10 DEF M

\* A caller dies.
LEMMA DieTalk ==
  ASSUME Inv, Talk, NEW c \in Callers, Die(c)
  PROVE  Talk'
<1>1. /\ pc[c] # "dead" /\ UNCHANGED <<keys, refs, made, gen>>
      /\ pc' = [pc EXCEPT ![c] = "dead"] /\ cref' = [cref EXCEPT ![c] = NoRef]
      /\ mail' = [mail EXCEPT ![c] = <<>>]
  BY DEF Die
<1>2. PICK downs \in DownsOf(c) : inbox' = inbox \o downs
  BY DEF Die
<1>3. /\ pc'[c] = "dead" /\ cref'[c] = NoRef /\ mail'[c] = <<>>
      /\ \A x \in Callers \ {c} : pc'[x] = pc[x] /\ cref'[x] = cref[x] /\ mail'[x] = mail[x]
  BY <1>1 DEF Inv, TypeOK
<1>4. downs \in Seq(Request) /\ Elements(downs) = {RefMsg("DOWN", r) : r \in Monitored(c)}
  BY AllDownsSent
<1>5. inbox \in Seq(Request) /\ CallsOnce(inbox)
  BY DEF Inv, TypeOK, Talk
<1>6. \A m \in Elements(downs) : m.kind = "DOWN" /\ m.ref \in Monitored(c)
  BY <1>4 DEF RefMsg
<1>7. CallsOnce(downs)
  BY <1>6 DEF CallsOnce, Elements
<1>8. CallsOnce(inbox') /\ Elements(inbox') = Elements(inbox) \cup Elements(downs)
  BY <1>2, <1>4, <1>5, <1>6, <1>7, OnceConcat, ElementsConcat
<1>9. HasRef'[c] = NoRef /\ c \notin Served'
  BY <1>3, HeldNow DEF RefOf, LetIn
<1>10. Orderly(pc'[c], cref'[c], mail'[c])
  BY <1>3 DEF Orderly
<1>11. ASSUME NEW m \in Elements(inbox') \ Elements(inbox) PROVE MessageOK(m)'
  <2>1. m.kind = "DOWN" /\ m.ref \in refs /\ made[m.ref].owner = c
    BY <1>6, <1>8 DEF Monitored
  <2>2. m.ref \in DOMAIN made
    BY <2>1, Shape
  <2> QED  BY <2>1, <2>2, <1>1, <1>3 DEF MessageOK
<1>12. ASSUME NEW r \in refs, made[r].owner = c PROVE RefOK(r)'
  <2>1. RefMsg("DOWN", r) \in Elements(inbox')
    BY <1>4, <1>8, <1>12 DEF Monitored
  <2>2. made[r].gen = gen
    BY DEF Talk, RefOK
  <2> QED  BY <2>1, <2>2, <1>1, <1>3, <1>12 DEF RefOK, Sent
<1> QED  BY <1>1, <1>3, <1>8, <1>9, <1>10, <1>11, <1>12, OneCaller

\* The gate and its callers agree on who has which ref, in every reachable state.
THEOREM GateConversation == Spec => [](Inv /\ Talk)
<1>1. Inv /\ Talk /\ [Next]_vars => Talk'
  <2> SUFFICES ASSUME Inv, Talk, [Next]_vars PROVE Talk'
    OBVIOUS
  <2>1. CASE HandleAcquire
    BY <2>1, HandleAcquireTalk
  <2>2. CASE HandleLeave
    BY <2>2, DropTalk, StaleLeaveTalk
  <2>3. CASE GateRestart
    BY <2>3, GateRestartTalk
  <2>4. ASSUME NEW c \in Callers,
               (\E k \in Keys : Acquire(c, k)) \/ Receive(c) \/ EndStream(c) \/ Die(c)
        PROVE  Talk'
    BY <2>4, AcquireTalk, ReceiveTalk, EndStreamTalk, DieTalk
  <2>5. CASE UNCHANGED vars
    <3>1. UNCHANGED <<keys, refs, inbox, made, gen, pc, cref, mail>>
      BY <2>5 DEF vars
    <3>2. HasRef' = HasRef /\ Served' = Served
      BY <3>1 DEF HasRef, Served
    <3> QED
      BY <3>1, <3>2 DEF Talk, CallerOK, MessageOK, RefOK, Sent, EarlierBounded, RefsLetIn
  <2> QED  BY <2>1, <2>2, <2>3, <2>4, <2>5 DEF Next
<1>2. Init => Inv /\ Talk
  BY InitInv, InitTalk
<1>3. Spec => []Inv
  BY GateInvariant
<1> QED  BY <1>1, <1>2, <1>3, PTL DEF Spec

\* What the callers really do is bounded (the client half of gate.ex): one gate
\* process never lets more than Limit streams of a key run, however late grants,
\* releases and deaths are seen.
THEOREM GateStreamsBounded == Spec => []StreamsBounded
<1>1. Inv /\ Talk => StreamsBounded
  <2> SUFFICES ASSUME Inv, Talk, NEW k \in Keys, NEW g \in 0 .. gen
               PROVE  Cardinality(StreamsOf(k, g)) <= Limit
    BY DEF StreamsBounded
  <2> DEFINE A == StreamsOf(k, g)
             B == RefsLetIn(k, g)
             f == [c \in A |-> cref[c]]
  <2>1. ASSUME NEW c \in A
        PROVE  cref[c] \in B /\ made[cref[c]].owner = c
    <3>1. /\ c \in Callers /\ pc[c] = "streaming"
          /\ made[cref[c]].key = k /\ made[cref[c]].gen = g
      BY DEF StreamsOf
    <3>2. HasRef[c] = cref[c] /\ c \in Served
      BY <3>1, HeldNow DEF RefOf, LetIn
    <3>3. cref[c] # NoRef
      BY <3>1 DEF Talk, CallerOK, Orderly
    <3>4. cref[c] \in DOMAIN made /\ made[cref[c]].owner = c
      BY <3>1, <3>2, <3>3 DEF Talk, CallerOK
    <3> QED  BY <3>1, <3>2, <3>4 DEF RefsLetIn
  <2>2. f \in Injection(A, B)
    <3>1. f \in [A -> B]
      BY <2>1
    <3>2. ASSUME NEW c \in A, NEW d \in A, f[c] = f[d] PROVE c = d
      BY <2>1, <3>2
    <3> QED  BY <3>1, <3>2 DEF Injection, IsInjective
  <2>3. IsFiniteSet(B)
    BY RefsLetInFinite
  <2>4. Cardinality(B) <= Limit
    <3>1. gen \in Nat /\ g \in Nat /\ (g < gen \/ g = gen)
      BY Shape
    <3>2. CASE g < gen
      BY <3>1, <3>2 DEF Talk, EarlierBounded
    <3>3. CASE g = gen
      BY <3>3, LetInHold
    <3> QED  BY <3>1, <3>2, <3>3
  <2> HIDE DEF A, B, f
  <2>5. IsFiniteSet(A) /\ Cardinality(A) <= Cardinality(B)
    BY <2>2, <2>3, FS_Injection
  <2>6. Cardinality(A) \in Nat /\ Cardinality(B) \in Nat /\ Limit \in Nat
    BY <2>3, <2>5, FS_CardinalityType, LimitAssumption
  <2>7. Cardinality(A) <= Limit
    BY <2>4, <2>5, <2>6
  <2> QED  BY <2>7 DEF A
<1> QED  BY <1>1, GateConversation, PTL

\* No slot is lost (do_acquire/3, await/3 and the monitors): every ref the server
\* counts has a caller that holds it, is told of it, gave it back or died with
\* its message on the way, and a queued caller that was let in can learn of it.
THEOREM GateNoLeak == Spec => []NoLeak
<1>1. Inv /\ Talk => RefsBelong
  <2> SUFFICES ASSUME Inv, Talk, NEW r \in refs
               PROVE  LET c == made[r].owner
                          sent(kind) == RefMsg(kind, r) \in Elements(inbox)
                          told(kind) == RefMsg(kind, r) \in Elements(mail[c])
                      IN  \/ pc[c] = "dead" /\ sent("DOWN")
                          \/ pc[c] \in {"waiting", "streaming"} /\ cref[c] = r
                          \/ pc[c] = "calling" /\ (told("granted") \/ told("queued"))
                          \/ pc[c] # "dead" /\ sent("release")
    BY DEF RefsBelong
  <2> DEFINE c == made[r].owner
             b == mail[c]
  <2>1. RefOK(r) /\ c \in Callers /\ r # NoRef
    BY Shape DEF Talk, Refs, NoRef
  <2>2. ASSUME pc[c] # "dead", HasRef[c] = r
        PROVE  \/ pc[c] \in {"waiting", "streaming"} /\ cref[c] = r
               \/ pc[c] = "calling" /\ RefMsg("granted", r) \in Elements(b)
               \/ pc[c] = "calling" /\ RefMsg("queued", r) \in Elements(b)
    <3>1. pc[c] \in {"calling", "waiting", "streaming"} /\ ~ (pc[c] = "calling" /\ b = <<>>)
      BY <2>1, <2>2, NothingHeld
    <3>2. r = RefOf(pc[c], cref[c], b)
      BY <2>1, <2>2, HeldNow
    <3>3. CASE pc[c] = "calling"
      <4>1. b # <<>> /\ b \in Seq(Reply) /\ Orderly(pc[c], cref[c], b)
        BY <2>1, <3>1, <3>3, Shape DEF Talk, CallerOK
      <4>2. 1 \in DOMAIN b /\ b[1] \in Reply /\ b[1].ref = r
        <5>1. 1 \in DOMAIN b /\ 1 \in 1 .. Len(b)
          BY <4>1
        <5>2. b[1] \in Reply
          BY <4>1, <5>1, ElementOfSeq
        <5> QED  BY <3>2, <3>3, <4>1, <5>1, <5>2 DEF RefOf
      <4>3. b[1] # GateDown
        BY <2>1, <4>2 DEF GateDown, RefMsg
      <4>4. b[1].kind \in {"granted", "queued"}
        <5>1. ~ OnlyDown(b, 0)
          BY <4>2, <4>3 DEF OnlyDown
        <5> QED  BY <3>3, <4>1, <5>1 DEF Orderly
      <4>5. b[1] = RefMsg("granted", r) \/ b[1] = RefMsg("queued", r)
        BY <4>2, <4>3, <4>4 DEF Reply, RefMsg
      <4> QED  BY <3>3, <4>2, <4>5 DEF Elements
    <3>4. CASE pc[c] # "calling"
      BY <3>1, <3>2, <3>4 DEF RefOf
    <3> QED  BY <3>3, <3>4
  <2> QED  BY <2>1, <2>2 DEF RefOK, Sent
<1>2. Inv /\ Talk => GrantIsTold
  <2> SUFFICES ASSUME Inv, Talk, NEW c \in Callers, pc[c] = "waiting", NEW k \in Keys,
                      cref[c] \in keys[k].holders
               PROVE  RefMsg("gate_granted", cref[c]) \in Elements(mail[c])
    BY DEF GrantIsTold
  <2> DEFINE r == cref[c]
             b == mail[c]
  <2>1. HasRef[c] = r /\ (c \in Served <=> LetIn(pc[c], b))
    BY HeldNow DEF RefOf
  <2>2. r \in refs /\ made[r].key = k /\ r # NoRef
    <3>1. r \in Known(keys[k])
      BY DEF Known
    <3> QED  BY <3>1, Shape DEF Inv, Bookkeeping, Refs, NoRef
  <2>3. made[r].gen = gen
    BY <2>2 DEF Talk, RefOK
  <2>4. c \in Served /\ Orderly(pc[c], r, b)
    BY <2>1, <2>2, <2>3 DEF Talk, CallerOK
  <2>5. b # <<>> /\ b[1].kind = "gate_granted"
    BY <2>1, <2>4 DEF LetIn
  <2>6. 1 \in DOMAIN b
    BY <2>5, Shape
  <2>7. ~ OnlyDown(b, 0)
    BY <2>5, <2>6 DEF OnlyDown, GateDown, RefMsg
  <2>8. b[1] = RefMsg("gate_granted", r)
    BY <2>4, <2>7 DEF Orderly
  <2> QED  BY <2>6, <2>8 DEF Elements
<1> QED  BY <1>1, <1>2, GateConversation, PTL DEF NoLeak
=============================================================================
