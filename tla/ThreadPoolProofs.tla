-------------------------- MODULE ThreadPoolProofs --------------------------
(***************************************************************************)
(* Proofs about ThreadPool, for every number of clients and workers, every *)
(* limit of the queue and every number of tasks.                           *)
(***************************************************************************)
EXTENDS ThreadPool, SequenceTheorems, FiniteSetTheorems, TLAPS

(* The parts of the inductive invariant that no run checks on their own. *)

ClientLabels == {"idle", "lock", "try", "wait", "notify"}
WorkerLabels == {"loop", "wait", "notify", "run", "done"}

In(s, t) == \E i \in 1 .. Len(s) : s[i] = t

\* How far the destructor has got says what the flag and the workers are.
PhaseOK ==
  /\ stopping <=> dpc # "idle"
  /\ \A w \in Workers : wpc[w] = "done" => stopping /\ tasks = <<>>
  /\ dpc = "done" => \A w \in Workers : wpc[w] = "done"

Submitting(c) == cpc[c] \in {"lock", "try", "wait"}

\* Every call submits a task of its own, and submits it once.
FreshOK ==
  /\ \A c \in Clients : Submitting(c) =>
       ctask[c] \in 1 .. calls /\ ~In(accepted, ctask[c])
  /\ \A c, d \in Clients : Submitting(c) /\ Submitting(d) /\ ctask[c] = ctask[d] =>
       c = d
  /\ \A i \in 1 .. Len(accepted) : accepted[i] <= calls
  /\ \A i, j \in 1 .. Len(accepted) : accepted[i] = accepted[j] => i = j

\* A task that was taken is either with exactly one worker or finished.
OnceOK ==
  /\ \A t \in Tasks : finished[t] \in {0, 1}
  /\ \A t \in Tasks : finished[t] = 1 => In(taken, t)
  /\ \A t \in Tasks : In(taken, t) =>
       finished[t] = 1 \/ \E w \in Workers : Busy(w) /\ wtask[w] = t
  /\ \A w \in Workers : Busy(w) => In(taken, wtask[w]) /\ finished[wtask[w]] = 0
  /\ \A v, w \in Workers : Busy(v) /\ Busy(w) /\ wtask[v] = wtask[w] => v = w

IndInv ==
  /\ TypeOK
  /\ PhaseOK
  /\ FreshOK
  /\ OnceOK
  /\ TakenInOrder
  /\ NoIdleWorker
  /\ NoIdleEnqueue

-----------------------------------------------------------------------------
(* Sequences and sets of threads *)

\* What Append adds to the members of a sequence.
LEMMA InAppend ==
  ASSUME NEW S, NEW s \in Seq(S), NEW e \in S, NEW t
  PROVE  In(Append(s, e), t) <=> In(s, t) \/ t = e
<1>1. /\ Len(s) \in Nat /\ Len(Append(s, e)) = Len(s) + 1
      /\ \A i \in 1 .. Len(s) : Append(s, e)[i] = s[i]
      /\ Append(s, e)[Len(s) + 1] = e
  BY LenProperties, AppendProperties
<1> QED
  BY <1>1 DEF In

\* A task moves from the queue to the tasks taken.
LEMMA TakeConcat ==
  ASSUME NEW S, NEW s \in Seq(S), NEW u \in Seq(S), u # <<>>
  PROVE  /\ Append(s, Head(u)) \o Tail(u) = s \o u
         /\ Head(u) = (s \o u)[Len(s) + 1]
<1>1. Head(u) \in S /\ Tail(u) \in Seq(S) /\ Len(Tail(u)) = Len(u) - 1
      /\ \A i \in 1 .. Len(Tail(u)) : Tail(u)[i] = u[i + 1]
  BY HeadTailProperties
<1>2. Len(s) \in Nat /\ Len(u) \in Nat \ {0} /\ Head(u) = u[1]
  BY LenProperties, EmptySeq
<1>3. /\ Append(s, Head(u)) \in Seq(S) /\ Len(Append(s, Head(u))) = Len(s) + 1
      /\ \A i \in 1 .. Len(s) : Append(s, Head(u))[i] = s[i]
      /\ Append(s, Head(u))[Len(s) + 1] = Head(u)
  BY <1>1, AppendProperties
<1> DEFINE a == Append(s, Head(u)) \o Tail(u)
           b == s \o u
<1>4. /\ a \in Seq(S) /\ Len(a) = Len(s) + Len(u)
      /\ \A i \in 1 .. Len(s) + Len(u) :
           a[i] = IF i <= Len(s) + 1 THEN Append(s, Head(u))[i]
                  ELSE Tail(u)[i - (Len(s) + 1)]
  BY <1>1, <1>2, <1>3, ConcatProperties
<1>5. /\ b \in Seq(S) /\ Len(b) = Len(s) + Len(u)
      /\ \A i \in 1 .. Len(s) + Len(u) :
           b[i] = IF i <= Len(s) THEN s[i] ELSE u[i - Len(s)]
  BY ConcatProperties
<1> HIDE DEF a, b
<1>6. ASSUME NEW i \in 1 .. Len(a) PROVE a[i] = b[i]
  <2>1. CASE i <= Len(s)
    BY <1>2, <1>3, <1>4, <1>5, <2>1
  <2>2. CASE i = Len(s) + 1
    BY <1>2, <1>3, <1>4, <1>5, <2>2
  <2>3. CASE i > Len(s) + 1
    <3>1. i - (Len(s) + 1) \in 1 .. Len(Tail(u))
      BY <1>1, <1>2, <1>4, <2>3
    <3>2. Tail(u)[i - (Len(s) + 1)] = u[(i - (Len(s) + 1)) + 1]
      BY <1>1, <3>1
    <3>3. (i - (Len(s) + 1)) + 1 = i - Len(s)
      BY <1>2
    <3> QED
      BY <1>2, <1>4, <1>5, <2>3, <3>2, <3>3
  <2> QED
    BY <1>2, <2>1, <2>2, <2>3
<1>7. a = b
  BY <1>4, <1>5, <1>6, SeqEqual
<1>8. Head(u) = b[Len(s) + 1]
  BY <1>2, <1>5
<1> QED
  BY <1>7, <1>8 DEF a, b

\* Appending to the second of two concatenated sequences appends to the whole.
LEMMA AcceptConcat ==
  ASSUME NEW S, NEW s \in Seq(S), NEW u \in Seq(S), NEW e \in S
  PROVE  s \o Append(u, e) = Append(s \o u, e)
<1>1. Append(u, e) = u \o <<e>> /\ <<e>> \in Seq(S)
  BY AppendIsConcat
<1>2. Append(s \o u, e) = (s \o u) \o <<e>>
  BY ConcatProperties, AppendIsConcat
<1> QED
  BY <1>1, <1>2, ConcatAssociative

\* Of the threads S, at the labels f and then at g, at most x has moved.
OneMoves(S, f, g, x) ==
  /\ DOMAIN f = S /\ DOMAIN g = S /\ x \in S
  /\ \A y \in S \ {x} : g[y] = f[y]

\* How the number of threads at a label changes when one of them moves.
LEMMA CountAt ==
  ASSUME NEW S, IsFiniteSet(S), NEW f, NEW g, NEW x, OneMoves(S, f, g, x), NEW a
  PROVE  /\ Cardinality(At(f, a)) \in Nat
         /\ Cardinality(At(g, a)) \in Nat
         /\ g[x] = a /\ f[x] # a =>
              Cardinality(At(g, a)) = Cardinality(At(f, a)) + 1
         /\ g[x] # a /\ f[x] = a =>
              Cardinality(At(g, a)) = Cardinality(At(f, a)) - 1
         /\ (g[x] = a <=> f[x] = a) =>
              Cardinality(At(g, a)) = Cardinality(At(f, a))
<1>1. At(f, a) = {y \in S : f[y] = a} /\ At(g, a) = {y \in S : g[y] = a}
  BY DEF At, OneMoves
<1>2. IsFiniteSet(At(f, a)) /\ IsFiniteSet(At(g, a))
  <2>1. At(f, a) \in SUBSET S /\ At(g, a) \in SUBSET S
    BY <1>1
  <2> QED
    BY <2>1, FS_Subset
<1>3. Cardinality(At(f, a)) \in Nat /\ Cardinality(At(g, a)) \in Nat
  BY <1>2, FS_CardinalityType
<1>4. CASE g[x] = a
  <2>1. At(g, a) = At(f, a) \cup {x} /\ (x \in At(f, a) <=> f[x] = a)
    BY <1>1, <1>4 DEF OneMoves
  <2> QED
    BY <1>2, <1>3, <1>4, <2>1, FS_AddElement
<1>5. CASE g[x] # a
  <2>1. At(g, a) = At(f, a) \ {x} /\ (x \in At(f, a) <=> f[x] = a)
    BY <1>1, <1>5 DEF OneMoves
  <2> QED
    BY <1>2, <1>3, <1>5, <2>1, FS_RemoveElement
<1> QED
  BY <1>3, <1>4, <1>5

\* One client moves to label b.
LEMMA ClientMoves ==
  ASSUME TypeOK, NEW c \in Clients,
         NEW b \in ClientLabels,
         cpc' = [cpc EXCEPT ![c] = b], NEW a
  PROVE  /\ Cardinality(At(cpc, a)) \in Nat
         /\ Cardinality(At(cpc', a)) \in Nat
         /\ b = a /\ cpc[c] # a =>
              Cardinality(At(cpc', a)) = Cardinality(At(cpc, a)) + 1
         /\ b # a /\ cpc[c] = a =>
              Cardinality(At(cpc', a)) = Cardinality(At(cpc, a)) - 1
         /\ (b = a <=> cpc[c] = a) =>
              Cardinality(At(cpc', a)) = Cardinality(At(cpc, a))
<1>1. IsFiniteSet(Clients)
  BY PoolAssumption
<1>2. PICK g : g = cpc'
  OBVIOUS
<1>3. OneMoves(Clients, cpc, g, c) /\ g[c] = b
  BY <1>2 DEF OneMoves, TypeOK, ClientLabels
<1>4. /\ Cardinality(At(cpc, a)) \in Nat
      /\ Cardinality(At(g, a)) \in Nat
      /\ b = a /\ cpc[c] # a => Cardinality(At(g, a)) = Cardinality(At(cpc, a)) + 1
      /\ b # a /\ cpc[c] = a => Cardinality(At(g, a)) = Cardinality(At(cpc, a)) - 1
      /\ (b = a <=> cpc[c] = a) => Cardinality(At(g, a)) = Cardinality(At(cpc, a))
  BY <1>1, <1>3, CountAt
<1> QED
  BY <1>2, <1>4

\* One worker moves to label b.
LEMMA WorkerMoves ==
  ASSUME TypeOK, NEW w \in Workers,
         NEW b \in WorkerLabels,
         wpc' = [wpc EXCEPT ![w] = b], NEW a
  PROVE  /\ Cardinality(At(wpc, a)) \in Nat
         /\ Cardinality(At(wpc', a)) \in Nat
         /\ b = a /\ wpc[w] # a =>
              Cardinality(At(wpc', a)) = Cardinality(At(wpc, a)) + 1
         /\ b # a /\ wpc[w] = a =>
              Cardinality(At(wpc', a)) = Cardinality(At(wpc, a)) - 1
         /\ (b = a <=> wpc[w] = a) =>
              Cardinality(At(wpc', a)) = Cardinality(At(wpc, a))
<1>1. IsFiniteSet(Workers)
  BY PoolAssumption
<1>2. PICK g : g = wpc'
  OBVIOUS
<1>3. OneMoves(Workers, wpc, g, w) /\ g[w] = b
  BY <1>2 DEF OneMoves, TypeOK, WorkerLabels
<1>4. /\ Cardinality(At(wpc, a)) \in Nat
      /\ Cardinality(At(g, a)) \in Nat
      /\ b = a /\ wpc[w] # a => Cardinality(At(g, a)) = Cardinality(At(wpc, a)) + 1
      /\ b # a /\ wpc[w] = a => Cardinality(At(g, a)) = Cardinality(At(wpc, a)) - 1
      /\ (b = a <=> wpc[w] = a) => Cardinality(At(g, a)) = Cardinality(At(wpc, a))
  BY <1>1, <1>3, CountAt
<1> QED
  BY <1>2, <1>4

\* The sets of threads are finite, and so is the queue.
LEMMA Counts ==
  ASSUME TypeOK
  PROVE  /\ Cardinality(At(cpc, "notify")) \in Nat
         /\ Cardinality(At(cpc, "lock")) \in Nat
         /\ Cardinality(At(wpc, "notify")) \in Nat
         /\ Cardinality(At(wpc, "loop")) \in Nat
         /\ Len(tasks) \in Nat
         /\ max_pending \in Nat \ {0}
<1>1. ASSUME NEW a
      PROVE  Cardinality(At(cpc, a)) \in Nat /\ Cardinality(At(wpc, a)) \in Nat
  <2>1. At(cpc, a) \in SUBSET Clients /\ At(wpc, a) \in SUBSET Workers
    BY DEF TypeOK, At
  <2>2. IsFiniteSet(At(cpc, a)) /\ IsFiniteSet(At(wpc, a))
    BY <2>1, PoolAssumption, FS_Subset
  <2> QED
    BY <2>2, FS_CardinalityType
<1>2. Len(tasks) \in Nat
  BY LenProperties DEF TypeOK
<1>3. max_pending \in Nat \ {0}
  BY PoolAssumption DEF TypeOK
<1> QED
  BY <1>1, <1>2, <1>3

-----------------------------------------------------------------------------
(* Each action preserves the invariant. *)

\* A call of Enqueue or TryEnqueue.
LEMMA CallInd ==
  ASSUME NEW c \in Clients, NEW label \in {"lock", "try"}, IndInv, Call(c, label)
  PROVE  IndInv'
<1> USE DEF IndInv, Call, client, pool, history
<1>1. TypeOK'
  BY PoolAssumption DEF TypeOK, Tasks
<1>2. PhaseOK'
  BY DEF TypeOK, PhaseOK
<1>3. FreshOK'
  <2>1. \A d \in Clients : Submitting(d) => ctask[d] <= calls
    BY DEF FreshOK, TypeOK
  <2>2. ~In(accepted, calls + 1)
    BY DEF FreshOK, In, TypeOK
  <2>3. \A i \in 1 .. Len(accepted) : accepted[i] <= calls + 1
    <3>1. \A i \in 1 .. Len(accepted) : accepted[i] \in Tasks
      BY ElementOfSeq DEF TypeOK
    <3>2. \A i \in 1 .. Len(accepted) : accepted[i] <= calls
      BY DEF FreshOK
    <3>3. calls \in Nat /\ \A t \in Tasks : t \in Nat
      BY DEF TypeOK, Tasks
    <3> QED
      BY <3>1, <3>2, <3>3
  <2> QED
    BY <2>1, <2>2, <2>3, PoolAssumption DEF FreshOK, TypeOK, Submitting
<1>4. OnceOK'
  BY DEF TypeOK, OnceOK, Busy
<1>5. TakenInOrder'
  BY DEF TakenInOrder
<1>6. NoIdleWorker'
  <2>1. Cardinality(At(cpc', "notify")) = Cardinality(At(cpc, "notify"))
    BY ClientMoves DEF ClientLabels
  <2> QED
    BY <2>1 DEF NoIdleWorker
<1>7. NoIdleEnqueue'
  <2>1. At(cpc', "wait") = At(cpc, "wait")
    BY DEF TypeOK, At
  <2>2. /\ Cardinality(At(cpc', "lock")) \in Nat /\ Cardinality(At(cpc, "lock")) \in Nat
        /\ Cardinality(At(cpc', "lock")) >= Cardinality(At(cpc, "lock"))
    <3>1. label = "lock" =>
            Cardinality(At(cpc', "lock")) = Cardinality(At(cpc, "lock")) + 1
      BY ClientMoves DEF ClientLabels
    <3>2. label = "try" =>
            Cardinality(At(cpc', "lock")) = Cardinality(At(cpc, "lock"))
      BY ClientMoves DEF ClientLabels
    <3> QED
      BY <3>1, <3>2, Counts
  <2>4. CASE At(cpc', "wait") = {}
    BY <2>4 DEF NoIdleEnqueue
  <2>5. CASE At(cpc', "wait") # {}
    <3>1. IF stopping THEN dpc \in {"notify_workers", "notify_clients"}
          ELSE max_pending - Len(tasks) <=
                 Cardinality(At(wpc, "notify")) + Cardinality(At(cpc, "lock"))
      BY <2>5, <2>1 DEF NoIdleEnqueue
    <3> QED
      BY <3>1, <2>1, <2>2, Counts DEF NoIdleEnqueue
  <2> QED
    BY <2>4, <2>5
<1> QED
  BY <1>1, <1>2, <1>3, <1>4, <1>5, <1>6, <1>7

\* Enqueue goes to sleep on a full queue.
LEMMA EnqueueWaitInd ==
  ASSUME NEW c \in Clients, IndInv, EnqueueWait(c)
  PROVE  IndInv'
<1> USE DEF IndInv, EnqueueWait, client, pool, history, HasSpace
<1>1. TypeOK'
  BY PoolAssumption DEF TypeOK, Tasks
<1>2. PhaseOK'
  BY DEF TypeOK, PhaseOK
<1>3. FreshOK'
  BY DEF TypeOK, FreshOK, Submitting
<1>4. OnceOK'
  BY DEF TypeOK, OnceOK, Busy
<1>5. TakenInOrder'
  BY DEF TakenInOrder
<1>6. NoIdleWorker'
  <2>1. Cardinality(At(cpc', "notify")) = Cardinality(At(cpc, "notify"))
    BY ClientMoves DEF ClientLabels
  <2> QED
    BY <2>1 DEF NoIdleWorker
<1>7. NoIdleEnqueue'
  <2>1. Cardinality(At(cpc', "lock")) \in Nat
    BY ClientMoves DEF ClientLabels
  <2>2. Len(tasks) >= max_pending
    BY Counts
  <2> QED
    BY <2>1, <2>2, Counts DEF NoIdleEnqueue
<1> QED
  BY <1>1, <1>2, <1>3, <1>4, <1>5, <1>6, <1>7

\* Enqueue throws or TryEnqueue returns false.
LEMMA RefuseInd ==
  ASSUME NEW c \in Clients, IndInv, Refuse(c)
  PROVE  IndInv'
<1> USE DEF IndInv, Refuse, client, pool, history, Leave
<1>1. TypeOK'
  BY PoolAssumption DEF TypeOK, Tasks
<1>2. PhaseOK'
  BY DEF TypeOK, PhaseOK
<1>3. FreshOK'
  BY DEF TypeOK, FreshOK, Submitting
<1>4. OnceOK'
  BY DEF TypeOK, OnceOK, Busy
<1>5. TakenInOrder'
  BY DEF TakenInOrder
<1>6. NoIdleWorker'
  <2>1. Cardinality(At(cpc', "notify")) = Cardinality(At(cpc, "notify"))
    BY ClientMoves DEF ClientLabels
  <2> QED
    BY <2>1 DEF NoIdleWorker
<1>7. NoIdleEnqueue'
  <2>1. At(cpc', "wait") = At(cpc, "wait")
    BY DEF TypeOK, At
  <2>2. stopping \/ Cardinality(At(cpc', "lock")) = Cardinality(At(cpc, "lock"))
    BY ClientMoves DEF ClientLabels
  <2> QED
    BY <2>1, <2>2 DEF NoIdleEnqueue
<1> QED
  BY <1>1, <1>2, <1>3, <1>4, <1>5, <1>6, <1>7

\* An Enqueue wakes without a notification.
LEMMA SpuriousClientInd ==
  ASSUME NEW c \in Clients, IndInv, SpuriousClient(c)
  PROVE  IndInv'
<1> USE DEF IndInv, SpuriousClient, client, pool, history
<1>1. TypeOK'
  BY PoolAssumption DEF TypeOK, Tasks
<1>2. PhaseOK'
  BY DEF TypeOK, PhaseOK
<1>3. FreshOK'
  BY DEF TypeOK, FreshOK, Submitting
<1>4. OnceOK'
  BY DEF TypeOK, OnceOK, Busy
<1>5. TakenInOrder'
  BY DEF TakenInOrder
<1>6. NoIdleWorker'
  <2>1. Cardinality(At(cpc', "notify")) = Cardinality(At(cpc, "notify"))
    BY ClientMoves DEF ClientLabels
  <2> QED
    BY <2>1 DEF NoIdleWorker
<1>7. NoIdleEnqueue'
  <2>1. At(cpc', "wait") # {} => At(cpc, "wait") # {}
    BY DEF TypeOK, At
  <2>2. Cardinality(At(cpc', "lock")) = Cardinality(At(cpc, "lock")) + 1
    BY ClientMoves DEF ClientLabels
  <2>4. CASE At(cpc', "wait") = {}
    BY <2>4 DEF NoIdleEnqueue
  <2>5. CASE At(cpc', "wait") # {}
    <3>1. IF stopping THEN dpc \in {"notify_workers", "notify_clients"}
          ELSE max_pending - Len(tasks) <=
                 Cardinality(At(wpc, "notify")) + Cardinality(At(cpc, "lock"))
      BY <2>5, <2>1 DEF NoIdleEnqueue
    <3> QED
      BY <3>1, <2>1, <2>2, Counts DEF NoIdleEnqueue
  <2> QED
    BY <2>4, <2>5
<1> QED
  BY <1>1, <1>2, <1>3, <1>4, <1>5, <1>6, <1>7

\* A task enters the queue.
LEMMA AcceptInd ==
  ASSUME NEW c \in Clients, IndInv, Accept(c)
  PROVE  IndInv'
<1> USE DEF IndInv, Accept, client, pool, history, HasSpace
<1>0. ctask[c] \in Tasks /\ ctask[c] \in 1 .. calls /\ ~In(accepted, ctask[c])
  BY PoolAssumption DEF TypeOK, FreshOK, Submitting, Tasks
<1>1. TypeOK'
  <2>1. tasks' \in Seq(Tasks) /\ accepted' \in Seq(Tasks)
    BY <1>0, AppendProperties DEF TypeOK
  <2> QED
    BY <2>1 DEF TypeOK
<1>2. PhaseOK'
  BY DEF TypeOK, PhaseOK
<1>3. FreshOK'
  <2>1. \A t : In(accepted', t) <=> In(accepted, t) \/ t = ctask[c]
    BY <1>0, InAppend DEF TypeOK
  <2>2. /\ Len(accepted) \in Nat /\ Len(accepted') = Len(accepted) + 1
        /\ \A i \in 1 .. Len(accepted) : accepted'[i] = accepted[i]
        /\ accepted'[Len(accepted) + 1] = ctask[c]
    BY <1>0, AppendProperties, LenProperties DEF TypeOK
  <2>3. \A d \in Clients : Submitting(d)' => Submitting(d) /\ d # c
    BY DEF TypeOK, Submitting
  <2>4. \A i \in 1 .. Len(accepted') : accepted'[i] <= calls
    BY <1>0, <2>2 DEF FreshOK, TypeOK
  <2>5. \A i \in 1 .. Len(accepted) : accepted[i] # ctask[c]
    BY <1>0 DEF FreshOK, In, Submitting
  <2>6. \A i, j \in 1 .. Len(accepted') : accepted'[i] = accepted'[j] => i = j
    BY <2>2, <2>5 DEF FreshOK
  <2>7. Submitting(c)
    BY DEF Submitting
  <2> QED
    BY <2>1, <2>3, <2>4, <2>6, <2>7 DEF FreshOK
<1>4. OnceOK'
  BY DEF TypeOK, OnceOK, Busy
<1>5. TakenInOrder'
  <2>1. taken \o tasks' = Append(taken \o tasks, ctask[c])
    BY <1>0, AcceptConcat DEF TypeOK
  <2>2. Len(tasks') = Len(tasks) + 1
    BY <1>0, AppendProperties DEF TypeOK
  <2> QED
    BY <2>1, <2>2, Counts DEF TakenInOrder
<1>6. NoIdleWorker'
  <2>1. Cardinality(At(cpc', "notify")) = Cardinality(At(cpc, "notify")) + 1
    BY ClientMoves DEF ClientLabels
  <2>2. Len(tasks') = Len(tasks) + 1
    BY <1>0, AppendProperties DEF TypeOK
  <2> QED
    BY <2>1, <2>2, Counts DEF NoIdleWorker
<1>7. NoIdleEnqueue'
  <2>1. At(cpc', "wait") = At(cpc, "wait")
    BY DEF TypeOK, At
  <2>2. /\ Cardinality(At(cpc', "lock")) \in Nat
        /\ Cardinality(At(cpc', "lock")) >= Cardinality(At(cpc, "lock")) - 1
    <3>1. Cardinality(At(cpc', "lock")) \in Nat
      BY ClientMoves DEF ClientLabels
    <3>2. cpc[c] = "lock" =>
            Cardinality(At(cpc', "lock")) = Cardinality(At(cpc, "lock")) - 1
      BY ClientMoves DEF ClientLabels
    <3>3. cpc[c] = "try" =>
            Cardinality(At(cpc', "lock")) = Cardinality(At(cpc, "lock"))
      BY ClientMoves DEF ClientLabels
    <3> QED
      BY <3>1, <3>2, <3>3, Counts
  <2>3. Len(tasks') = Len(tasks) + 1
    BY <1>0, AppendProperties DEF TypeOK
  <2>4. CASE At(cpc', "wait") = {}
    BY <2>4 DEF NoIdleEnqueue
  <2>5. CASE At(cpc', "wait") # {}
    <3>1. IF stopping THEN dpc \in {"notify_workers", "notify_clients"}
          ELSE max_pending - Len(tasks) <=
                 Cardinality(At(wpc, "notify")) + Cardinality(At(cpc, "lock"))
      BY <2>5, <2>1 DEF NoIdleEnqueue
    <3> QED
      BY <3>1, <2>1, <2>2, <2>3, Counts DEF NoIdleEnqueue
  <2> QED
    BY <2>4, <2>5
<1> QED
  BY <1>1, <1>2, <1>3, <1>4, <1>5, <1>6, <1>7

\* task_available_ is notified.
LEMMA NotifyTaskInd ==
  ASSUME NEW c \in Clients, IndInv, NotifyTask(c)
  PROVE  IndInv'
<1> USE DEF IndInv, NotifyTask, client, pool, history, Leave
<1>1. TypeOK'
  BY PoolAssumption DEF TypeOK, Tasks
<1>2. PhaseOK'
  BY DEF TypeOK, PhaseOK
<1>3. FreshOK'
  BY DEF TypeOK, FreshOK, Submitting
<1>4. OnceOK'
  <2>1. \A v \in Workers : Busy(v)' <=> Busy(v)
    BY DEF TypeOK, Busy
  <2> QED
    BY <2>1 DEF OnceOK
<1>5. TakenInOrder'
  BY DEF TakenInOrder
<1>6. NoIdleWorker'
  <2>1. CASE \A w \in Workers : wpc[w] # "wait"
    BY <2>1 DEF TypeOK, At, NoIdleWorker
  <2>2. ASSUME NEW w \in Workers, wpc[w] = "wait", wpc' = [wpc EXCEPT ![w] = "loop"]
        PROVE  NoIdleWorker'
    <3>1. Cardinality(At(cpc', "notify")) = Cardinality(At(cpc, "notify")) - 1
      BY ClientMoves DEF ClientLabels
    <3>2. Cardinality(At(wpc', "loop")) = Cardinality(At(wpc, "loop")) + 1
      BY <2>2, WorkerMoves DEF WorkerLabels
    <3>3. At(wpc, "wait") # {}
      BY <2>2 DEF TypeOK, At
    <3> QED
      BY <3>1, <3>2, <3>3, Counts DEF NoIdleWorker
  <2> QED
    BY <2>1, <2>2
<1>7. NoIdleEnqueue'
  <2>1. At(cpc', "wait") = At(cpc, "wait")
    BY DEF TypeOK, At
  <2>2. Cardinality(At(cpc', "lock")) = Cardinality(At(cpc, "lock"))
    BY ClientMoves DEF ClientLabels
  <2>3. At(wpc', "notify") = At(wpc, "notify")
    BY DEF TypeOK, At
  <2> QED
    BY <2>1, <2>2, <2>3 DEF NoIdleEnqueue
<1> QED
  BY <1>1, <1>2, <1>3, <1>4, <1>5, <1>6, <1>7

\* A worker goes to sleep on an empty queue.
LEMMA WorkerWaitInd ==
  ASSUME NEW w \in Workers, IndInv, WorkerWait(w)
  PROVE  IndInv'
<1> USE DEF IndInv, WorkerWait, client, pool, history
<1>1. TypeOK'
  BY PoolAssumption DEF TypeOK, Tasks
<1>2. PhaseOK'
  BY DEF TypeOK, PhaseOK
<1>3. FreshOK'
  BY DEF TypeOK, FreshOK, Submitting
<1>4. OnceOK'
  <2>1. \A v \in Workers : Busy(v)' <=> Busy(v)
    BY DEF TypeOK, Busy
  <2> QED
    BY <2>1 DEF OnceOK
<1>5. TakenInOrder'
  BY DEF TakenInOrder
<1>6. NoIdleWorker'
  <2>1. Cardinality(At(wpc', "loop")) \in Nat /\ Len(tasks) = 0
    BY WorkerMoves DEF WorkerLabels
  <2> QED
    BY <2>1, Counts DEF NoIdleWorker
<1>7. NoIdleEnqueue'
  <2>1. Cardinality(At(wpc', "notify")) = Cardinality(At(wpc, "notify"))
    BY WorkerMoves DEF WorkerLabels
  <2> QED
    BY <2>1 DEF NoIdleEnqueue
<1> QED
  BY <1>1, <1>2, <1>3, <1>4, <1>5, <1>6, <1>7

\* A worker leaves its loop.
LEMMA WorkerExitInd ==
  ASSUME NEW w \in Workers, IndInv, WorkerExit(w)
  PROVE  IndInv'
<1> USE DEF IndInv, WorkerExit, client, pool, history
<1>1. TypeOK'
  BY PoolAssumption DEF TypeOK, Tasks
<1>2. PhaseOK'
  BY DEF TypeOK, PhaseOK
<1>3. FreshOK'
  BY DEF TypeOK, FreshOK, Submitting
<1>4. OnceOK'
  <2>1. \A v \in Workers : Busy(v)' <=> Busy(v)
    BY DEF TypeOK, Busy
  <2> QED
    BY <2>1 DEF OnceOK
<1>5. TakenInOrder'
  BY DEF TakenInOrder
<1>6. NoIdleWorker'
  <2>1. Cardinality(At(wpc', "loop")) \in Nat /\ Len(tasks) = 0
    BY WorkerMoves DEF WorkerLabels
  <2>2. At(wpc', "wait") = At(wpc, "wait")
    BY DEF TypeOK, At
  <2>4. CASE At(wpc', "wait") = {}
    BY <2>4 DEF NoIdleWorker
  <2>5. CASE At(wpc', "wait") # {}
    <3>1. /\ Len(tasks) <= Cardinality(At(cpc, "notify")) + Cardinality(At(wpc, "loop"))
          /\ stopping => dpc = "notify_workers"
      BY <2>5, <2>2 DEF NoIdleWorker
    <3> QED
      BY <3>1, <2>1, <2>2, Counts DEF NoIdleWorker
  <2> QED
    BY <2>4, <2>5
<1>7. NoIdleEnqueue'
  <2>1. Cardinality(At(wpc', "notify")) = Cardinality(At(wpc, "notify"))
    BY WorkerMoves DEF WorkerLabels
  <2> QED
    BY <2>1 DEF NoIdleEnqueue
<1> QED
  BY <1>1, <1>2, <1>3, <1>4, <1>5, <1>6, <1>7

\* A worker takes a task.
LEMMA WorkerTakeInd ==
  ASSUME NEW w \in Workers, IndInv, WorkerTake(w)
  PROVE  IndInv'
<1> USE DEF IndInv, WorkerTake, client, pool, history
<1>0. /\ Head(tasks) \in Tasks /\ Tail(tasks) \in Seq(Tasks)
      /\ Len(Tail(tasks)) = Len(tasks) - 1
  BY HeadTailProperties DEF TypeOK
<1>1. TypeOK'
  <2>1. taken' \in Seq(Tasks) /\ tasks' \in Seq(Tasks)
    BY <1>0, AppendProperties DEF TypeOK
  <2>2. /\ wtask' \in [Workers -> 0 .. MaxTasks]
        /\ wpc' \in [Workers -> {"loop", "wait", "notify", "run", "done"}]
    BY <1>0, PoolAssumption DEF TypeOK, Tasks
  <2> QED
    BY <2>1, <2>2 DEF TypeOK
<1>2. PhaseOK'
  BY DEF TypeOK, PhaseOK
<1>3. FreshOK'
  BY DEF TypeOK, FreshOK, Submitting
<1>4. OnceOK'
  <2>1. \A t : In(taken', t) <=> In(taken, t) \/ t = Head(tasks)
    BY <1>0, InAppend DEF TypeOK
  <2>2. ~In(taken, Head(tasks))
    <3>1. /\ Head(tasks) = accepted[Len(taken) + 1]
          /\ Len(accepted) = Len(taken) + Len(tasks)
          /\ \A i \in 1 .. Len(taken) : accepted[i] = taken[i]
      BY <1>0, TakeConcat, ConcatProperties DEF TypeOK, TakenInOrder
    <3>2. Len(taken) \in Nat /\ Len(tasks) \in Nat \ {0}
      BY LenProperties, EmptySeq DEF TypeOK
    <3> QED
      BY <3>1, <3>2 DEF FreshOK, In
  <2>3. finished[Head(tasks)] = 0
    BY <1>0, <2>2 DEF OnceOK
  <2>4. \A v \in Workers : v # w => (Busy(v)' <=> Busy(v)) /\ wtask'[v] = wtask[v]
    BY DEF TypeOK, Busy
  <2>5. ~Busy(w) /\ Busy(w)' /\ wtask'[w] = Head(tasks)
    BY DEF TypeOK, Busy
  <2>6. \A t \in Tasks : In(taken', t) =>
          finished[t] = 1 \/ \E v \in Workers : Busy(v)' /\ wtask'[v] = t
    <3>1. ASSUME NEW t \in Tasks, In(taken, t)
          PROVE  finished[t] = 1 \/ \E v \in Workers : Busy(v)' /\ wtask'[v] = t
      BY <3>1, <2>4, <2>5 DEF OnceOK
    <3> QED
      BY <3>1, <2>1, <2>5
  <2>7. \A v \in Workers : Busy(v)' =>
          In(taken', wtask'[v]) /\ finished[wtask'[v]] = 0
    BY <2>1, <2>3, <2>4, <2>5 DEF OnceOK
  <2>8. \A u, v \in Workers : Busy(u)' /\ Busy(v)' /\ wtask'[u] = wtask'[v] => u = v
    BY <2>2, <2>4, <2>5 DEF OnceOK
  <2> QED
    BY <2>1, <2>6, <2>7, <2>8 DEF OnceOK
<1>5. TakenInOrder'
  <2>1. taken' \o tasks' = taken \o tasks
    BY TakeConcat DEF TypeOK
  <2> QED
    BY <1>0, <2>1, Counts DEF TakenInOrder
<1>6. NoIdleWorker'
  <2>1. Cardinality(At(wpc', "loop")) = Cardinality(At(wpc, "loop")) - 1
    BY WorkerMoves DEF WorkerLabels
  <2>2. At(wpc', "wait") = At(wpc, "wait")
    BY DEF TypeOK, At
  <2>4. CASE At(wpc', "wait") = {}
    BY <2>4 DEF NoIdleWorker
  <2>5. CASE At(wpc', "wait") # {}
    <3>1. /\ Len(tasks) <= Cardinality(At(cpc, "notify")) + Cardinality(At(wpc, "loop"))
          /\ stopping => dpc = "notify_workers"
      BY <2>5, <2>2 DEF NoIdleWorker
    <3> QED
      BY <3>1, <1>0, <2>1, <2>2, Counts DEF NoIdleWorker
  <2> QED
    BY <2>4, <2>5
<1>7. NoIdleEnqueue'
  <2>1. Cardinality(At(wpc', "notify")) = Cardinality(At(wpc, "notify")) + 1
    BY WorkerMoves DEF WorkerLabels
  <2> QED
    BY <1>0, <2>1, Counts DEF NoIdleEnqueue
<1> QED
  BY <1>1, <1>2, <1>3, <1>4, <1>5, <1>6, <1>7

\* space_available_ is notified.
LEMMA NotifySpaceInd ==
  ASSUME NEW w \in Workers, IndInv, NotifySpace(w)
  PROVE  IndInv'
<1> USE DEF IndInv, NotifySpace, client, pool, history
<1>1. TypeOK'
  BY PoolAssumption DEF TypeOK, Tasks
<1>2. PhaseOK'
  BY DEF TypeOK, PhaseOK
<1>3. FreshOK'
  <2>1. \A d \in Clients : Submitting(d)' <=> Submitting(d)
    BY DEF TypeOK, Submitting
  <2> QED
    BY <2>1 DEF FreshOK
<1>4. OnceOK'
  <2>1. \A v \in Workers : Busy(v)' <=> Busy(v)
    BY DEF TypeOK, Busy
  <2> QED
    BY <2>1 DEF OnceOK
<1>5. TakenInOrder'
  BY DEF TakenInOrder
<1>6. NoIdleWorker'
  <2>1. At(wpc', "wait") = At(wpc, "wait") /\ At(cpc', "notify") = At(cpc, "notify")
    BY DEF TypeOK, At
  <2>2. Cardinality(At(wpc', "loop")) = Cardinality(At(wpc, "loop"))
    BY WorkerMoves DEF WorkerLabels
  <2> QED
    BY <2>1, <2>2 DEF NoIdleWorker
<1>7. NoIdleEnqueue'
  <2>1. CASE \A c \in Clients : cpc[c] # "wait"
    BY <2>1 DEF TypeOK, At, NoIdleEnqueue
  <2>2. ASSUME NEW c \in Clients, cpc[c] = "wait", cpc' = [cpc EXCEPT ![c] = "lock"]
        PROVE  NoIdleEnqueue'
    <3>1. Cardinality(At(wpc', "notify")) = Cardinality(At(wpc, "notify")) - 1
      BY WorkerMoves DEF WorkerLabels
    <3>2. Cardinality(At(cpc', "lock")) = Cardinality(At(cpc, "lock")) + 1
      BY <2>2, ClientMoves DEF ClientLabels
    <3>3. At(cpc, "wait") # {}
      BY <2>2 DEF TypeOK, At
    <3> QED
      BY <3>1, <3>2, <3>3, Counts DEF NoIdleEnqueue
  <2> QED
    BY <2>1, <2>2
<1> QED
  BY <1>1, <1>2, <1>3, <1>4, <1>5, <1>6, <1>7

\* A task returns.
LEMMA WorkerRunInd ==
  ASSUME NEW w \in Workers, IndInv, WorkerRun(w)
  PROVE  IndInv'
<1> USE DEF IndInv, WorkerRun, client, pool, history
<1>0. wtask[w] \in Tasks /\ finished[wtask[w]] = 0 /\ In(taken, wtask[w])
  <2>1. finished[wtask[w]] = 0 /\ In(taken, wtask[w])
    BY DEF OnceOK, Busy
  <2> QED
    BY <2>1, ElementOfSeq DEF TypeOK, In
<1>1. TypeOK'
  BY <1>0, PoolAssumption DEF TypeOK
<1>2. PhaseOK'
  BY DEF TypeOK, PhaseOK
<1>3. FreshOK'
  BY DEF TypeOK, FreshOK, Submitting
<1>4. OnceOK'
  <2>1. \A t \in Tasks : finished'[t] = IF t = wtask[w] THEN 1 ELSE finished[t]
    BY <1>0 DEF TypeOK
  <2>2. ~Busy(w)' /\ \A v \in Workers : Busy(v)' => Busy(v) /\ v # w
    BY DEF TypeOK, Busy
  <2>3. \A v \in Workers : Busy(v) /\ v # w => Busy(v)'
    BY DEF TypeOK, Busy
  <2>4. \A v \in Workers : Busy(v)' => wtask[v] \in Tasks /\ wtask[v] # wtask[w]
    <3>1. \A v \in Workers : Busy(v) => wtask[v] \in Tasks
      BY ElementOfSeq DEF TypeOK, OnceOK, In
    <3> QED
      BY <2>2, <3>1 DEF OnceOK, Busy
  <2>5. \A t \in Tasks : finished'[t] \in {0, 1} /\ (finished'[t] = 1 => In(taken, t))
    BY <1>0, <2>1 DEF OnceOK
  <2>6. \A t \in Tasks : In(taken, t) =>
          finished'[t] = 1 \/ \E v \in Workers : Busy(v)' /\ wtask[v] = t
    BY <2>1, <2>3 DEF OnceOK
  <2>7. \A v \in Workers : Busy(v)' => In(taken, wtask[v]) /\ finished'[wtask[v]] = 0
    BY <2>1, <2>2, <2>4 DEF OnceOK
  <2> QED
    BY <2>2, <2>5, <2>6, <2>7 DEF OnceOK
<1>5. TakenInOrder'
  BY DEF TakenInOrder
<1>6. NoIdleWorker'
  <2>1. At(wpc', "wait") = At(wpc, "wait")
    BY DEF TypeOK, At
  <2>2. Cardinality(At(wpc', "loop")) = Cardinality(At(wpc, "loop")) + 1
    BY WorkerMoves DEF WorkerLabels
  <2>4. CASE At(wpc', "wait") = {}
    BY <2>4 DEF NoIdleWorker
  <2>5. CASE At(wpc', "wait") # {}
    <3>1. /\ Len(tasks) <= Cardinality(At(cpc, "notify")) + Cardinality(At(wpc, "loop"))
          /\ stopping => dpc = "notify_workers"
      BY <2>5, <2>1 DEF NoIdleWorker
    <3> QED
      BY <3>1, <2>1, <2>2, Counts DEF NoIdleWorker
  <2> QED
    BY <2>4, <2>5
<1>7. NoIdleEnqueue'
  <2>1. Cardinality(At(wpc', "notify")) = Cardinality(At(wpc, "notify"))
    BY WorkerMoves DEF WorkerLabels
  <2> QED
    BY <2>1 DEF NoIdleEnqueue
<1> QED
  BY <1>1, <1>2, <1>3, <1>4, <1>5, <1>6, <1>7

\* A worker wakes without a notification.
LEMMA SpuriousWorkerInd ==
  ASSUME NEW w \in Workers, IndInv, SpuriousWorker(w)
  PROVE  IndInv'
<1> USE DEF IndInv, SpuriousWorker, client, pool, history
<1>1. TypeOK'
  BY PoolAssumption DEF TypeOK, Tasks
<1>2. PhaseOK'
  BY DEF TypeOK, PhaseOK
<1>3. FreshOK'
  BY DEF TypeOK, FreshOK, Submitting
<1>4. OnceOK'
  <2>1. \A v \in Workers : Busy(v)' <=> Busy(v)
    BY DEF TypeOK, Busy
  <2> QED
    BY <2>1 DEF OnceOK
<1>5. TakenInOrder'
  BY DEF TakenInOrder
<1>6. NoIdleWorker'
  <2>1. At(wpc', "wait") # {} => At(wpc, "wait") # {}
    BY DEF TypeOK, At
  <2>2. Cardinality(At(wpc', "loop")) = Cardinality(At(wpc, "loop")) + 1
    BY WorkerMoves DEF WorkerLabels
  <2>4. CASE At(wpc', "wait") = {}
    BY <2>4 DEF NoIdleWorker
  <2>5. CASE At(wpc', "wait") # {}
    <3>1. /\ Len(tasks) <= Cardinality(At(cpc, "notify")) + Cardinality(At(wpc, "loop"))
          /\ stopping => dpc = "notify_workers"
      BY <2>5, <2>1 DEF NoIdleWorker
    <3> QED
      BY <3>1, <2>1, <2>2, Counts DEF NoIdleWorker
  <2> QED
    BY <2>4, <2>5
<1>7. NoIdleEnqueue'
  <2>1. Cardinality(At(wpc', "notify")) = Cardinality(At(wpc, "notify"))
    BY WorkerMoves DEF WorkerLabels
  <2> QED
    BY <2>1 DEF NoIdleEnqueue
<1> QED
  BY <1>1, <1>2, <1>3, <1>4, <1>5, <1>6, <1>7

\* The destructor sets stopping_.
LEMMA DestroyInd ==
  ASSUME IndInv, Destroy
  PROVE  IndInv'
<1> USE DEF IndInv, Destroy, client, pool, history
<1>1. TypeOK'
  BY PoolAssumption DEF TypeOK, Tasks
<1>2. PhaseOK'
  BY DEF TypeOK, PhaseOK
<1>3. FreshOK'
  BY DEF TypeOK, FreshOK, Submitting
<1>4. OnceOK'
  BY DEF TypeOK, OnceOK, Busy
<1>5. TakenInOrder'
  BY DEF TakenInOrder
<1>6. NoIdleWorker'
  BY DEF NoIdleWorker
<1>7. NoIdleEnqueue'
  BY DEF NoIdleEnqueue
<1> QED
  BY <1>1, <1>2, <1>3, <1>4, <1>5, <1>6, <1>7

\* The destructor wakes the workers.
LEMMA DestroyNotifyWorkersInd ==
  ASSUME IndInv, DestroyNotifyWorkers
  PROVE  IndInv'
<1> USE DEF IndInv, DestroyNotifyWorkers, client, pool, history
<1>1. TypeOK'
  BY PoolAssumption DEF TypeOK, Tasks
<1>2. PhaseOK'
  BY DEF TypeOK, PhaseOK
<1>3. FreshOK'
  BY DEF TypeOK, FreshOK, Submitting
<1>4. OnceOK'
  <2>1. \A v \in Workers : Busy(v)' <=> Busy(v)
    BY DEF TypeOK, Busy
  <2> QED
    BY <2>1 DEF OnceOK
<1>5. TakenInOrder'
  BY DEF TakenInOrder
<1>6. NoIdleWorker'
  <2>1. At(wpc', "wait") = {}
    BY DEF TypeOK, At
  <2> QED
    BY <2>1 DEF NoIdleWorker
<1>7. NoIdleEnqueue'
  <2>1. At(wpc', "notify") = At(wpc, "notify")
    BY DEF TypeOK, At
  <2> QED
    BY <2>1 DEF PhaseOK, NoIdleEnqueue
<1> QED
  BY <1>1, <1>2, <1>3, <1>4, <1>5, <1>6, <1>7

\* The destructor wakes the Enqueue calls.
LEMMA DestroyNotifyClientsInd ==
  ASSUME IndInv, DestroyNotifyClients
  PROVE  IndInv'
<1> USE DEF IndInv, DestroyNotifyClients, client, pool, history
<1>1. TypeOK'
  BY PoolAssumption DEF TypeOK, Tasks
<1>2. PhaseOK'
  BY DEF TypeOK, PhaseOK
<1>3. FreshOK'
  <2>1. \A d \in Clients : Submitting(d)' <=> Submitting(d)
    BY DEF TypeOK, Submitting
  <2> QED
    BY <2>1 DEF FreshOK
<1>4. OnceOK'
  BY DEF TypeOK, OnceOK, Busy
<1>5. TakenInOrder'
  BY DEF TakenInOrder
<1>6. NoIdleWorker'
  <2>1. At(cpc', "notify") = At(cpc, "notify")
    BY DEF TypeOK, At
  <2> QED
    BY <2>1 DEF PhaseOK, NoIdleWorker
<1>7. NoIdleEnqueue'
  <2>1. At(cpc', "wait") = {}
    BY DEF TypeOK, At
  <2> QED
    BY <2>1 DEF NoIdleEnqueue
<1> QED
  BY <1>1, <1>2, <1>3, <1>4, <1>5, <1>6, <1>7

\* The destructor has joined the workers.
LEMMA DestroyJoinInd ==
  ASSUME IndInv, DestroyJoin
  PROVE  IndInv'
<1> USE DEF IndInv, DestroyJoin, client, pool, history
<1>1. TypeOK'
  BY PoolAssumption DEF TypeOK, Tasks
<1>2. PhaseOK'
  BY DEF TypeOK, PhaseOK
<1>3. FreshOK'
  BY DEF TypeOK, FreshOK, Submitting
<1>4. OnceOK'
  BY DEF TypeOK, OnceOK, Busy
<1>5. TakenInOrder'
  BY DEF TakenInOrder
<1>6. NoIdleWorker'
  BY DEF PhaseOK, NoIdleWorker
<1>7. NoIdleEnqueue'
  BY DEF PhaseOK, NoIdleEnqueue
<1> QED
  BY <1>1, <1>2, <1>3, <1>4, <1>5, <1>6, <1>7

-----------------------------------------------------------------------------
\* A new pool satisfies the invariant.
LEMMA InitInd ==
  Init => IndInv
<1> SUFFICES ASSUME Init PROVE IndInv
  OBVIOUS
<1> USE DEF Init
<1>1. TypeOK
  <2>1. <<>> \in Seq(Tasks)
    BY EmptySeq
  <2>2. 0 \in 0 .. MaxTasks
    BY PoolAssumption
  <2> QED
    BY <2>1, <2>2 DEF TypeOK
<1>2. PhaseOK /\ FreshOK
  BY DEF PhaseOK, FreshOK, Submitting
<1>3. OnceOK
  BY DEF OnceOK, Busy, In
<1>4. TakenInOrder
  <2>1. <<>> \o <<>> = <<>>
    BY ConcatEmptySeq, EmptySeq
  <2> QED
    BY <2>1, PoolAssumption DEF TakenInOrder
<1>5. NoIdleWorker /\ NoIdleEnqueue
  BY DEF NoIdleWorker, NoIdleEnqueue, At
<1> QED
  BY <1>1, <1>2, <1>3, <1>4, <1>5 DEF IndInv

\* Every step of a client, a worker or the destructor preserves it.
LEMMA NextInd ==
  IndInv /\ [Next]_vars => IndInv'
<1> SUFFICES ASSUME IndInv, [Next]_vars PROVE IndInv'
  OBVIOUS
<1>1. ASSUME NEW c \in Clients, EnqueueCall(c) \/ TryEnqueueCall(c)
      PROVE  IndInv'
  BY <1>1, CallInd DEF EnqueueCall, TryEnqueueCall
<1>2. ASSUME NEW c \in Clients, ClientStep(c) \/ SpuriousClient(c)
      PROVE  IndInv'
  BY <1>2, EnqueueWaitInd, RefuseInd, AcceptInd, NotifyTaskInd, SpuriousClientInd
     DEF ClientStep
<1>3. ASSUME NEW w \in Workers, WorkerStep(w) \/ SpuriousWorker(w)
      PROVE  IndInv'
  BY <1>3, WorkerWaitInd, WorkerExitInd, WorkerTakeInd, NotifySpaceInd,
     WorkerRunInd, SpuriousWorkerInd DEF WorkerStep
<1>4. CASE Destroy \/ DestroyStep
  BY <1>4, DestroyInd, DestroyNotifyWorkersInd, DestroyNotifyClientsInd,
     DestroyJoinInd DEF DestroyStep
<1>5. CASE UNCHANGED vars
  BY <1>5 DEF vars, IndInv, TypeOK, PhaseOK, FreshOK, Submitting, OnceOK, Busy,
              TakenInOrder, NoIdleWorker, NoIdleEnqueue
<1> QED
  BY <1>1, <1>2, <1>3, <1>4, <1>5 DEF Next

\* The inductive invariant holds in every reachable state of the pool.
THEOREM Invariance ==
  SafetySpec => []IndInv
  BY InitInd, NextInd, PTL DEF SafetySpec

\* Every variable of the pool keeps its type.
THEOREM TypeCorrect ==
  SafetySpec => []TypeOK
<1>1. IndInv => TypeOK
  BY DEF IndInv
<1> QED
  BY <1>1, Invariance, PTL

\* Workers take the tasks in the order Enqueue and TryEnqueue accepted them, and
\* the queue never exceeds max_pending_tasks_.
THEOREM TakenInOrderCorrect ==
  SafetySpec => []TakenInOrder
<1>1. IndInv => TakenInOrder
  BY DEF IndInv
<1> QED
  BY <1>1, Invariance, PTL

\* Every accepted task runs at most once, and exactly once by the time the
\* destructor returns.
THEOREM RunOnceCorrect ==
  SafetySpec => []RunOnce
<1>1. IndInv => RunOnce
  <2> SUFFICES ASSUME IndInv, NEW t \in Tasks
               PROVE  /\ finished[t] <= 1
                      /\ finished[t] = 1 => In(accepted, t)
                      /\ dpc = "done" /\ In(accepted, t) => finished[t] = 1
    <3>1. DOMAIN accepted = 1 .. Len(accepted)
      BY LenProperties DEF IndInv, TypeOK
    <3> QED
      BY <3>1 DEF RunOnce, In
  <2> USE DEF IndInv
  <2>1. finished[t] \in {0, 1} /\ (finished[t] = 1 => In(taken, t))
    BY DEF OnceOK
  <2>2. In(taken, t) => In(accepted, t)
    <3>1. /\ Len(taken) \in Nat /\ Len(tasks) \in Nat
          /\ Len(accepted) = Len(taken) + Len(tasks)
          /\ \A i \in 1 .. Len(taken) : accepted[i] = taken[i]
      BY ConcatProperties, LenProperties DEF TypeOK, TakenInOrder
    <3> QED
      BY <3>1 DEF In
  <2>3. dpc = "done" /\ In(accepted, t) => finished[t] = 1
    <3> SUFFICES ASSUME dpc = "done", In(accepted, t)
                 PROVE  finished[t] = 1
      OBVIOUS
    <3>1. tasks = <<>> /\ \A w \in Workers : ~Busy(w)
      BY PoolAssumption DEF PhaseOK, Busy
    <3>2. accepted = taken
      BY <3>1, ConcatEmptySeq DEF TypeOK, TakenInOrder
    <3> QED
      BY <3>1, <3>2 DEF OnceOK
  <2> QED
    BY <2>1, <2>2, <2>3
<1> QED
  BY <1>1, Invariance, PTL

\* No worker sleeps over a task and no Enqueue over a free place without a
\* notification under way: notify_one after the unlock is enough.
THEOREM NoIdleThreadCorrect ==
  SafetySpec => []NoIdleThread
<1>1. IndInv => NoIdleThread
  BY DEF IndInv, NoIdleThread
<1> QED
  BY <1>1, Invariance, PTL

-----------------------------------------------------------------------------
(* The pool implements TaskQueue *)

\* The tasks that run, in the mapping.
Running == {wtask[w] : w \in {v \in Workers : Busy(v)}}

Phase == IF dpc = "done" THEN "ended" ELSE IF stopping THEN "closing" ELSE "open"

\* A task runs when a busy worker has it.
LEMMA InRunning ==
  ASSUME NEW t
  PROVE  t \in Running <=> \E w \in Workers : Busy(w) /\ wtask[w] = t
  BY DEF Running

\* A step that takes no task, finishes none and passes no stage of the destructor
\* is none of the queue.
LEMMA StutterSimulates ==
  ASSUME UNCHANGED <<max_pending, tasks, wtask>>, Phase' = Phase,
         \A w \in Workers : Busy(w)' <=> Busy(w)
  PROVE  UNCHANGED Queue!vars
<1>1. Running' = Running
  BY DEF Running
<1> QED
  BY <1>1 DEF Running, Phase, Queue!vars, Queue!fixed

\* Calls, waits, notifications and exits change nothing a caller of the queue
\* can see.
LEMMA ClientStutters ==
  ASSUME IndInv, NEW c \in Clients,
         \/ EnqueueCall(c) \/ TryEnqueueCall(c) \/ EnqueueWait(c) \/ Refuse(c)
         \/ NotifyTask(c) \/ SpuriousClient(c)
  PROVE  UNCHANGED Queue!vars
<1>1. UNCHANGED <<max_pending, tasks, wtask, stopping, dpc>>
  BY DEF EnqueueCall, TryEnqueueCall, Call, EnqueueWait, Refuse, NotifyTask,
         SpuriousClient, pool
<1>2. \A w \in Workers : Busy(w)' <=> Busy(w)
  <2>1. CASE UNCHANGED wpc
    BY <2>1 DEF Busy
  <2>2. CASE NotifyTask(c)
    BY <2>2 DEF IndInv, TypeOK, NotifyTask, Busy
  <2> QED
    BY <2>1, <2>2 DEF EnqueueCall, TryEnqueueCall, Call, EnqueueWait, Refuse,
                      SpuriousClient, pool
<1> QED
  BY <1>1, <1>2, StutterSimulates DEF Phase

\* Neither does a worker that waits, wakes, notifies or leaves.
LEMMA WorkerStutters ==
  ASSUME IndInv, NEW w \in Workers,
         WorkerWait(w) \/ WorkerExit(w) \/ NotifySpace(w) \/ SpuriousWorker(w)
  PROVE  UNCHANGED Queue!vars
<1>1. UNCHANGED <<max_pending, tasks, wtask, stopping, dpc>>
  BY DEF WorkerWait, WorkerExit, NotifySpace, SpuriousWorker
<1>2. \A v \in Workers : Busy(v)' <=> Busy(v)
  BY DEF IndInv, TypeOK, WorkerWait, WorkerExit, NotifySpace, SpuriousWorker, Busy
<1> QED
  BY <1>1, <1>2, StutterSimulates DEF Phase

\* A queued task has not been taken, so no worker has it, and a task about to be
\* accepted is neither queued nor taken.
LEMMA QueuedApart ==
  ASSUME IndInv
  PROVE  /\ \A t : In(tasks, t) \/ In(taken, t) => In(accepted, t)
         /\ \A t \in Running : In(taken, t)
         /\ tasks # <<>> => Head(tasks) \notin Running
<1> USE DEF IndInv
<1>1. /\ Len(taken) \in Nat /\ Len(tasks) \in Nat
      /\ Len(accepted) = Len(taken) + Len(tasks)
      /\ \A i \in 1 .. Len(accepted) :
           accepted[i] = IF i <= Len(taken) THEN taken[i] ELSE tasks[i - Len(taken)]
  BY ConcatProperties, LenProperties DEF TypeOK, TakenInOrder
<1>2. \A t : In(taken, t) => In(accepted, t)
  BY <1>1 DEF In
<1>3. ASSUME NEW t, In(tasks, t) PROVE In(accepted, t)
  <2>1. PICK i \in 1 .. Len(tasks) : tasks[i] = t
    BY <1>3 DEF In
  <2>2. /\ i + Len(taken) \in 1 .. Len(accepted) /\ ~(i + Len(taken) <= Len(taken))
        /\ (i + Len(taken)) - Len(taken) = i
    BY <1>1
  <2>3. accepted[i + Len(taken)] = tasks[(i + Len(taken)) - Len(taken)]
    BY <1>1, <2>2
  <2> QED
    BY <2>1, <2>2, <2>3 DEF In
<1>4. \A t \in Running : In(taken, t)
  BY InRunning DEF OnceOK
<1>5. ASSUME tasks # <<>> PROVE Head(tasks) \notin Running
  <2>1. Head(tasks) = accepted[Len(taken) + 1]
    BY <1>5, TakeConcat DEF TypeOK, TakenInOrder
  <2>2. Len(tasks) > 0
    BY <1>5, EmptySeq DEF TypeOK
  <2>3. ~In(taken, Head(tasks))
    BY <1>1, <2>1, <2>2 DEF In, FreshOK
  <2> QED
    BY <1>4, <2>3
<1> QED
  BY <1>2, <1>3, <1>4, <1>5

\* Enqueue and TryEnqueue put a task in the queue.
LEMMA AcceptSimulates ==
  ASSUME IndInv, NEW c \in Clients, Accept(c)
  PROVE  \E t \in Tasks : Queue!Submit(t)
<1> USE DEF IndInv
<1>1. /\ ctask[c] \in Tasks /\ ~In(accepted, ctask[c])
      /\ Len(tasks) < max_pending /\ ~stopping /\ dpc # "done"
  <2>1. Submitting(c)
    BY DEF Accept, Submitting
  <2>2. ctask[c] \in 1 .. calls /\ ~In(accepted, ctask[c])
    BY <2>1 DEF FreshOK
  <2>3. ctask[c] \in Tasks
    BY <2>2, PoolAssumption DEF TypeOK, Tasks
  <2> QED
    BY <2>2, <2>3 DEF Accept, HasSpace, PhaseOK
<1>2. ~(ctask[c] \in Running) /\ ~(\E i \in DOMAIN tasks : tasks[i] = ctask[c])
  <2>1. DOMAIN tasks = 1 .. Len(tasks)
    BY LenProperties DEF TypeOK
  <2> QED
    BY <1>1, <2>1, QueuedApart DEF In
<1>3. Running' = Running /\ Phase' = Phase /\ Phase = "open"
  BY <1>1 DEF Accept, pool, Running, Busy, Phase
<1> QED
  BY <1>1, <1>2, <1>3 DEF Queue!Submit, Queue!InPool, Queue!fixed, Accept, Running, Phase

\* A worker that is about to look is not one of those that run a task.
LEMMA WorkerTakeSimulates ==
  ASSUME IndInv, NEW w \in Workers, WorkerTake(w)
  PROVE  Queue!Take
<1> USE DEF IndInv
<1>1. ~Busy(w) /\ Busy(w)' /\ wtask'[w] = Head(tasks)
  BY DEF TypeOK, WorkerTake, Busy
<1>2. \A v \in Workers : v # w => (Busy(v)' <=> Busy(v)) /\ wtask'[v] = wtask[v]
  BY DEF TypeOK, WorkerTake, Busy
<1>3. Running' = Running \cup {Head(tasks)}
  BY <1>1, <1>2 DEF Running
<1>4. Phase' = Phase /\ Phase # "ended"
  BY DEF WorkerTake, PhaseOK, Phase
<1>5. Cardinality(Running) < Cardinality(Workers)
  <2> DEFINE B == {v \in Workers : Busy(v)}
             R == {wtask[v] : v \in B}
  <2>1. B \in SUBSET (Workers \ {w})
    BY <1>1
  <2>2. /\ IsFiniteSet(Workers \ {w})
        /\ Cardinality(Workers \ {w}) = Cardinality(Workers) - 1
        /\ Cardinality(Workers) \in Nat
    BY PoolAssumption, FS_RemoveElement, FS_CardinalityType
  <2>3. IsFiniteSet(B) /\ Cardinality(B) <= Cardinality(Workers \ {w})
    BY <2>1, <2>2, FS_Subset
  <2>4. IsFiniteSet(R) /\ Cardinality(R) <= Cardinality(B)
    <3>1. [v \in B |-> wtask[v]] \in Surjection(B, R)
      BY DEF Surjection
    <3> HIDE DEF B, R
    <3> QED
      BY <2>3, <3>1, FS_Surjection
  <2>5. /\ Cardinality(B) \in Nat /\ Cardinality(R) \in Nat
        /\ Cardinality(Workers \ {w}) \in Nat
    BY <2>2, <2>3, <2>4, FS_CardinalityType
  <2>6. R = Running
    BY DEF Running
  <2> HIDE DEF B, R
  <2>7. Cardinality(R) < Cardinality(Workers)
    BY <2>2, <2>3, <2>4, <2>5
  <2> QED
    BY <2>6, <2>7
<1>6. Queue!Cardinality(Running) = Cardinality(Running)
  BY DEF Cardinality, Queue!Cardinality
<1> QED
  BY <1>3, <1>4, <1>5, <1>6 DEF Queue!Take, Queue!fixed, WorkerTake, Running, Phase

\* A task that returns is no longer with any worker: no two had it.
LEMMA WorkerRunSimulates ==
  ASSUME IndInv, NEW w \in Workers, WorkerRun(w)
  PROVE  \E t \in Tasks : Queue!Finish(t)
<1> USE DEF IndInv
<1>1. Busy(w) /\ ~Busy(w)' /\ wtask' = wtask
  BY DEF TypeOK, WorkerRun, Busy
<1>2. \A v \in Workers : v # w => (Busy(v)' <=> Busy(v))
  BY DEF TypeOK, WorkerRun, Busy
<1>3. \A v \in Workers : Busy(v) /\ wtask[v] = wtask[w] => v = w
  BY <1>1 DEF OnceOK
<1>4. wtask[w] \in Running /\ Running' = Running \ {wtask[w]}
  BY <1>1, <1>2, <1>3 DEF Running
<1>5. wtask[w] \in Tasks
  BY <1>1, ElementOfSeq DEF OnceOK, TypeOK, In
<1>6. Phase' = Phase
  BY DEF WorkerRun, Phase
<1>7. PICK t \in Tasks : t = wtask[w]
  BY <1>5
<1>8. Queue!Finish(t)
  BY <1>4, <1>6, <1>7 DEF Queue!Finish, Queue!fixed, WorkerRun, Running, Phase
<1> QED
  BY <1>8

\* The destructor closes the queue, and ends it when it has joined the workers.
LEMMA DestroySimulates ==
  ASSUME IndInv, Destroy \/ DestroyStep
  PROVE  Queue!Next \/ UNCHANGED Queue!vars
<1> USE DEF IndInv
<1>1. CASE Destroy
  <2>1. Running' = Running /\ Phase = "open" /\ Phase' = "closing"
    BY <1>1 DEF Destroy, pool, Running, Busy, PhaseOK, Phase
  <2>2. Queue!Close
    BY <1>1, <2>1 DEF Destroy, Queue!Close, Queue!fixed, Running, Phase
  <2> QED
    BY <2>2 DEF Queue!Next
<1>2. CASE DestroyNotifyWorkers \/ DestroyNotifyClients
  <2>1. UNCHANGED <<max_pending, tasks, wtask>> /\ Phase' = Phase
    BY <1>2 DEF DestroyNotifyWorkers, DestroyNotifyClients, pool, Phase
  <2>2. \A w \in Workers : Busy(w)' <=> Busy(w)
    BY <1>2 DEF TypeOK, DestroyNotifyWorkers, DestroyNotifyClients, pool, Busy
  <2> QED
    BY <2>1, <2>2, StutterSimulates
<1>3. CASE DestroyJoin
  <2>1. tasks = <<>> /\ stopping /\ \A w \in Workers : ~Busy(w)
    BY <1>3, PoolAssumption DEF DestroyJoin, PhaseOK, Busy
  <2>2. Running = {} /\ Running' = Running
    BY <1>3, <2>1 DEF DestroyJoin, pool, Running, Busy
  <2>3. Phase = "closing" /\ Phase' = "ended"
    BY <1>3, <2>1 DEF DestroyJoin, Phase
  <2>4. Queue!End
    BY <1>3, <2>1, <2>2, <2>3 DEF DestroyJoin, Queue!End, Queue!fixed, Running, Phase
  <2> QED
    BY <2>4 DEF Queue!Next
<1> QED
  BY <1>1, <1>2, <1>3 DEF DestroyStep

\* However Enqueue, TryEnqueue, WorkerLoop and the destructor interleave, the pool
\* takes tasks, runs them and ends as the bounded queue of TaskQueue does.
THEOREM Refinement == SafetySpec => ImplementsQueue
<1>1. Init => Queue!Init
  BY DEF Init, Queue!Init, Busy
<1>2. IndInv /\ [Next]_vars => [Queue!Next]_(Queue!vars)
  <2> SUFFICES ASSUME IndInv, [Next]_vars PROVE Queue!Next \/ UNCHANGED Queue!vars
    OBVIOUS
  <2>1. ASSUME NEW c \in Clients,
               EnqueueCall(c) \/ TryEnqueueCall(c) \/ ClientStep(c) \/ SpuriousClient(c)
        PROVE  Queue!Next \/ UNCHANGED Queue!vars
    BY <2>1, ClientStutters, AcceptSimulates DEF ClientStep, Queue!Next
  <2>2. ASSUME NEW w \in Workers, WorkerStep(w) \/ SpuriousWorker(w)
        PROVE  Queue!Next \/ UNCHANGED Queue!vars
    BY <2>2, WorkerStutters, WorkerTakeSimulates, WorkerRunSimulates
       DEF WorkerStep, Queue!Next
  <2>3. CASE UNCHANGED vars
    BY <2>3, StutterSimulates DEF vars, Busy, Phase
  <2> QED
    BY <2>1, <2>2, <2>3, DestroySimulates DEF Next
<1> QED
  BY <1>1, <1>2, Invariance, PTL DEF SafetySpec, ImplementsQueue, Queue!Spec
=============================================================================
