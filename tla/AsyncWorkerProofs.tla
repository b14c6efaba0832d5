------------------------- MODULE AsyncWorkerProofs -------------------------
(***************************************************************************)
(* Proofs about AsyncWorker, for every number of threads, every buffer     *)
(* configuration and every set of messages.                                *)
(***************************************************************************)
EXTENDS AsyncWorker, SequenceTheorems, TLAPS

(* The parts of the inductive invariant that no run checks on their own. *)

\* At most one producer is inside EnsureWritable's loop.
GrowExclusive ==
  \A p, q \in Producers : pc[p] = "grow" /\ pc[q] = "grow" => p = q

\* What the loop of EnsureWritable may rely on while the mutex is held.
GrowOK ==
  \A p \in Producers : pc[p] = "grow" =>
    /\ ~stopping
    /\ Length(p) > 0
    /\ Required(p) <= SizeMax
    /\ AsyncSafe => IsEmpty(producer) /\ WithinBound(new_size)

\* A buffer is empty by its positions exactly when it holds no message, and
\* the consumer buffer has been reset whenever the worker may swap.
EmptyOK ==
  /\ IsEmpty(producer) <=> producer.data = <<>>
  /\ IsEmpty(consumer) <=> consumer.data = <<>>
  /\ worker # "flush" => IsEmpty(consumer)

\* How far a Stop has got says what the flag and the worker are.
StopOK ==
  /\ worker = "done" => stopping /\ IsEmpty(producer)
  /\ \A s \in Stoppers : spc[s] # "idle" => stopping
  /\ \A s \in Stoppers : spc[s] = "joined" => worker = "done"

\* Why the threads that sleep are right to sleep.
SleepOK ==
  /\ worker = "wait" =>
       /\ IsEmpty(producer)
       /\ stopping => \E s \in Stoppers : spc[s] = "notify_c"
  /\ \A p \in Producers : pc[p] = "wait" =>
       /\ ~IsEmpty(producer)
       /\ Length(p) > WriteableSize(producer)
       /\ AsyncSafe
       /\ stopping =>
            \E s \in Stoppers : spc[s] \in {"notify_c", "notify_p"}

IndInv ==
  /\ TypeOK
  /\ GrowExclusive
  /\ GrowOK
  /\ EmptyOK
  /\ StopOK
  /\ SleepOK
  /\ BackpressureBound
  /\ NothingLost

-----------------------------------------------------------------------------
(* The operators of class Buffer *)

\* A turn of the growth loop of EnsureWritable never overflows size_t.
LEMMA GrowOnceFits ==
  ASSUME NEW n \in 0 .. SizeMax, NEW r \in 0 .. SizeMax, n < r
  PROVE  GrowOnce(n, r) \in 0 .. SizeMax
<1>1. Growth(n) \in Nat
  BY ConfigAssumption DEF Growth
<1> QED
  BY <1>1, MachineAssumption DEF GrowOnce

\* Growing an empty buffer for one message stays within the bound of
\* ASYNC_SAFE: doubling starts below the message's length, and so does the
\* last linear step.
LEMMA GrowOnceWithin ==
  ASSUME NEW n \in 0 .. SizeMax, NEW r \in 0 .. SizeMax, n < r, r <= MaxLen
  PROVE  WithinBound(GrowOnce(n, r))
<1> USE LenAssumption, ConfigAssumption, MachineAssumption
<1>1. CASE Growth(n) > SizeMax - n
  BY <1>1 DEF GrowOnce, WithinBound
<1>2. CASE ~(Growth(n) > SizeMax - n) /\ n < Threshold
  BY <1>2 DEF GrowOnce, Growth, WithinBound
<1>3. CASE ~(Growth(n) > SizeMax - n) /\ ~(n < Threshold)
  BY <1>3 DEF GrowOnce, Growth, WithinBound
<1> QED
  BY <1>1, <1>2, <1>3

\* Appending to the second of two concatenated sequences appends to the whole.
LEMMA AppendConcat ==
  ASSUME NEW S, NEW s \in Seq(S), NEW t \in Seq(S), NEW e \in S
  PROVE  s \o Append(t, e) = Append(s \o t, e)
<1>1. Append(t, e) = t \o <<e>> /\ <<e>> \in Seq(S)
  BY AppendIsConcat
<1>2. s \o t \in Seq(S)
  BY ConcatProperties
<1>3. Append(s \o t, e) = (s \o t) \o <<e>>
  BY <1>2, AppendIsConcat
<1> QED
  BY <1>1, <1>3, ConcatAssociative

\* Appending to the last of three concatenated sequences likewise.
LEMMA AppendHistory ==
  ASSUME NEW S, NEW s \in Seq(S), NEW t \in Seq(S), NEW u \in Seq(S),
         NEW e \in S
  PROVE  (s \o t) \o Append(u, e) = Append((s \o t) \o u, e)
<1>1. s \o t \in Seq(S)
  BY ConcatProperties
<1> QED
  BY <1>1, AppendConcat

-----------------------------------------------------------------------------
(* Each action preserves the invariant.  First the actions that touch no   *)
(* buffer and no history.                                                  *)

\* A call of Push.
LEMMA PushCallInd ==
  ASSUME NEW p \in Producers, NEW m \in Messages, IndInv, PushCall(p, m)
  PROVE  IndInv'
<1> USE DEF IndInv, PushCall, bufs, MutexFree
<1>1. TypeOK'
  <2>1. pc' \in [Producers -> {"idle", "lock", "wait", "grow"}]
    BY DEF TypeOK
  <2>2. msg' \in [Producers -> Messages]
    BY DEF TypeOK
  <2>3. calls' \in Nat
    BY DEF TypeOK
  <2> QED
    BY <2>1, <2>2, <2>3 DEF TypeOK
<1>2. GrowExclusive'
  BY DEF TypeOK, GrowExclusive
<1>3. GrowOK'
  BY DEF TypeOK, GrowOK, Length, Required, IsEmpty
<1>4. EmptyOK' /\ StopOK'
  BY DEF EmptyOK, StopOK, IsEmpty
<1>5. SleepOK'
  BY LenAssumption DEF TypeOK, SleepOK, Length, IsEmpty, WriteableSize, ProducerReady
<1>6. BackpressureBound' /\ NothingLost'
  BY DEF BackpressureBound, NothingLost
<1> QED
  BY <1>1, <1>2, <1>3, <1>4, <1>5, <1>6

\* Push goes to sleep with its predicate false.
LEMMA PushWaitInd ==
  ASSUME NEW p \in Producers, IndInv, PushWait(p)
  PROVE  IndInv'
<1> USE DEF IndInv, PushWait, bufs, MutexFree
<1>1. TypeOK'
  BY DEF TypeOK, Buffers
<1>2. GrowExclusive'
  BY DEF TypeOK, GrowExclusive
<1>3. GrowOK'
  BY DEF TypeOK, GrowOK, Length, Required, IsEmpty
<1>4. EmptyOK' /\ StopOK'
  BY DEF EmptyOK, StopOK, IsEmpty
<1>5. SleepOK'
  BY LenAssumption DEF TypeOK, Buffers, SleepOK, Length, IsEmpty, WriteableSize,
         ProducerReady
<1>6. BackpressureBound' /\ NothingLost'
  BY DEF BackpressureBound, NothingLost
<1> QED
  BY <1>1, <1>2, <1>3, <1>4, <1>5, <1>6

\* Push returns false.
LEMMA PushRefusedInd ==
  ASSUME NEW p \in Producers, IndInv, PushRefused(p)
  PROVE  IndInv'
  BY LenAssumption
     DEF IndInv, TypeOK, Buffers, GrowExclusive, GrowOK, EmptyOK, StopOK, SleepOK,
         BackpressureBound, NothingLost,
         MutexFree, Length, Required, IsEmpty, WriteableSize, bufs,
         PushRefused

\* Push of no bytes.
LEMMA PushNothingInd ==
  ASSUME NEW p \in Producers, IndInv, PushNothing(p)
  PROVE  IndInv'
  BY LenAssumption
     DEF IndInv, TypeOK, Buffers, GrowExclusive, GrowOK, EmptyOK, StopOK, SleepOK,
         BackpressureBound, NothingLost,
         MutexFree, Length, Required, IsEmpty, WriteableSize, bufs, Admitted, ProducerReady, WorkerWoken,
         PushNothing

\* Push throws length_error.
LEMMA PushOverflowInd ==
  ASSUME NEW p \in Producers, IndInv, PushOverflow(p)
  PROVE  IndInv'
  BY LenAssumption
     DEF IndInv, TypeOK, Buffers, GrowExclusive, GrowOK, EmptyOK, StopOK, SleepOK,
         BackpressureBound, NothingLost,
         MutexFree, Length, Required, IsEmpty, WriteableSize, bufs, MustGrow, Admitted, ProducerReady,
         PushOverflow

\* Push throws from resize.
LEMMA GrowFailInd ==
  ASSUME NEW p \in Producers, IndInv, GrowFail(p)
  PROVE  IndInv'
  BY LenAssumption
     DEF IndInv, TypeOK, Buffers, GrowExclusive, GrowOK, EmptyOK, StopOK, SleepOK,
         BackpressureBound, NothingLost,
         MutexFree, Length, Required, IsEmpty, WriteableSize, bufs,
         GrowFail

\* A producer wakes without a notification.
LEMMA SpuriousProducerInd ==
  ASSUME NEW p \in Producers, IndInv, SpuriousProducer(p)
  PROVE  IndInv'
  BY LenAssumption
     DEF IndInv, TypeOK, Buffers, GrowExclusive, GrowOK, EmptyOK, StopOK, SleepOK,
         BackpressureBound, NothingLost,
         MutexFree, Length, Required, IsEmpty, WriteableSize, bufs,
         SpuriousProducer

\* The worker goes to sleep with its predicate false.
LEMMA WorkerWaitInd ==
  ASSUME IndInv, WorkerWait
  PROVE  IndInv'
  BY LenAssumption
     DEF IndInv, TypeOK, Buffers, GrowExclusive, GrowOK, EmptyOK, StopOK, SleepOK,
         BackpressureBound, NothingLost,
         MutexFree, Length, Required, IsEmpty, WriteableSize, bufs, ConsumerReady,
         WorkerWait

\* The worker returns from ThreadEntry.
LEMMA WorkerExitInd ==
  ASSUME IndInv, WorkerExit
  PROVE  IndInv'
  BY LenAssumption
     DEF IndInv, TypeOK, Buffers, GrowExclusive, GrowOK, EmptyOK, StopOK, SleepOK,
         BackpressureBound, NothingLost,
         MutexFree, Length, Required, IsEmpty, WriteableSize, bufs,
         WorkerExit

\* The worker wakes without a notification.
LEMMA SpuriousWorkerInd ==
  ASSUME IndInv, SpuriousWorker
  PROVE  IndInv'
  BY LenAssumption
     DEF IndInv, TypeOK, Buffers, GrowExclusive, GrowOK, EmptyOK, StopOK, SleepOK,
         BackpressureBound, NothingLost,
         MutexFree, Length, Required, IsEmpty, WriteableSize, bufs,
         SpuriousWorker

\* Stop sets stopping_.
LEMMA StopFirstInd ==
  ASSUME NEW s \in Stoppers, IndInv, StopFirst(s)
  PROVE  IndInv'
  BY LenAssumption
     DEF IndInv, TypeOK, Buffers, GrowExclusive, GrowOK, EmptyOK, StopOK, SleepOK,
         BackpressureBound, NothingLost,
         MutexFree, Length, Required, IsEmpty, WriteableSize, bufs,
         StopFirst

\* A second Stop returns.
LEMMA StopAgainInd ==
  ASSUME NEW s \in Stoppers, IndInv, StopAgain(s)
  PROVE  IndInv'
  BY LenAssumption
     DEF IndInv, TypeOK, Buffers, GrowExclusive, GrowOK, EmptyOK, StopOK, SleepOK,
         BackpressureBound, NothingLost,
         MutexFree, Length, Required, IsEmpty, WriteableSize, bufs,
         StopAgain

\* Stop notifies the worker.
LEMMA StopNotifyConsumerInd ==
  ASSUME NEW s \in Stoppers, IndInv, StopNotifyConsumer(s)
  PROVE  IndInv'
  BY LenAssumption
     DEF IndInv, TypeOK, Buffers, GrowExclusive, GrowOK, EmptyOK, StopOK, SleepOK,
         BackpressureBound, NothingLost,
         MutexFree, Length, Required, IsEmpty, WriteableSize, bufs, WorkerWoken,
         StopNotifyConsumer

\* Stop notifies the producers.
LEMMA StopNotifyProducersInd ==
  ASSUME NEW s \in Stoppers, IndInv, StopNotifyProducers(s)
  PROVE  IndInv'
  BY LenAssumption
     DEF IndInv, TypeOK, Buffers, GrowExclusive, GrowOK, EmptyOK, StopOK, SleepOK,
         BackpressureBound, NothingLost,
         MutexFree, Length, Required, IsEmpty, WriteableSize, bufs, Woken,
         StopNotifyProducers

\* Stop joins the worker.
LEMMA StopJoinInd ==
  ASSUME NEW s \in Stoppers, IndInv, StopJoin(s)
  PROVE  IndInv'
  BY LenAssumption
     DEF IndInv, TypeOK, Buffers, GrowExclusive, GrowOK, EmptyOK, StopOK, SleepOK,
         BackpressureBound, NothingLost,
         MutexFree, Length, Required, IsEmpty, WriteableSize, bufs,
         StopJoin

\* Push enters the growth loop with the mutex held.
LEMMA PushGrowInd ==
  ASSUME NEW p \in Producers, IndInv, PushGrow(p)
  PROVE  IndInv'
<1> USE DEF IndInv, PushGrow, MustGrow, Admitted, MutexFree, bufs
<1>1. TypeOK'
  BY DEF TypeOK, Buffers
<1>2. GrowExclusive'
  BY DEF TypeOK, GrowExclusive
<1>3. GrowOK'
  <2> SUFFICES ASSUME NEW q \in Producers, pc'[q] = "grow"
               PROVE  /\ ~stopping'
                      /\ Length(q)' > 0
                      /\ Required(q)' <= SizeMax
                      /\ AsyncSafe => IsEmpty(producer') /\ WithinBound(new_size')
    BY DEF GrowOK
  <2>1. q = p
    BY DEF TypeOK
  <2>2. Length(p) \in Nat /\ Length(p)' = Length(p) /\ producer' = producer
    BY LenAssumption DEF TypeOK, Length
  <2>3. producer.write_pos \in Nat /\ producer.size \in Nat
        /\ producer.write_pos <= producer.size
    BY DEF TypeOK, Buffers
  <2>4. Length(p) > 0 /\ Required(p)' <= SizeMax
    BY <2>2, <2>3, MachineAssumption DEF WriteableSize, Required
  <2>5. AsyncSafe => IsEmpty(producer)
    BY <2>2, <2>3 DEF ProducerReady, WriteableSize
  <2>6. AsyncSafe => WithinBound(new_size')
    BY DEF BackpressureBound
  <2> QED
    BY <2>1, <2>2, <2>4, <2>5, <2>6
<1>4. EmptyOK' /\ StopOK'
  BY DEF EmptyOK, StopOK, IsEmpty
<1>5. SleepOK'
  BY LenAssumption DEF TypeOK, SleepOK, Length, IsEmpty, WriteableSize
<1>6. BackpressureBound' /\ NothingLost'
  BY DEF BackpressureBound, NothingLost
<1> QED
  BY <1>1, <1>2, <1>3, <1>4, <1>5, <1>6

\* One turn of the growth loop.
LEMMA GrowStepInd ==
  ASSUME NEW p \in Producers, IndInv, GrowStep(p)
  PROVE  IndInv'
<1> USE DEF IndInv, GrowStep, bufs
<1>1. /\ new_size \in 0 .. SizeMax
      /\ Required(p) \in 0 .. SizeMax
      /\ new_size < Required(p)
      /\ AsyncSafe => Required(p) <= MaxLen
  BY LenAssumption, MachineAssumption
     DEF TypeOK, Buffers, GrowOK, Required, Length, IsEmpty
<1>2. new_size' \in 0 .. SizeMax
  BY <1>1, GrowOnceFits
<1>3. AsyncSafe => WithinBound(new_size')
  BY <1>1, GrowOnceWithin
<1>4. TypeOK'
  BY <1>2 DEF TypeOK
<1>5. GrowExclusive' /\ EmptyOK' /\ StopOK'
  BY DEF GrowExclusive, EmptyOK, StopOK, IsEmpty
<1>6. GrowOK'
  BY <1>3 DEF GrowOK, Length, Required, IsEmpty
<1>7. SleepOK' /\ BackpressureBound' /\ NothingLost'
  BY DEF SleepOK, BackpressureBound, NothingLost, Length, IsEmpty,
         WriteableSize
<1> QED
  BY <1>4, <1>5, <1>6, <1>7

(* The actions that move messages. *)

\* The end of a successful Push, into a buffer of size n: the old size, or
\* the size EnsureWritable chose.
LEMMA CommitInd ==
  ASSUME NEW p \in Producers, NEW n \in 0 .. SizeMax,
         IndInv,
         MutexFree \/ pc[p] = "grow",
         pc[p] # "wait",
         ~stopping,
         Length(p) > 0,
         Required(p) <= n,
         AsyncSafe => (n = producer.size \/ IsEmpty(producer)) /\ WithinBound(n),
         Commit(p, [producer EXCEPT !.size = n])
  PROVE  IndInv'
<1>0. /\ TypeOK /\ GrowExclusive /\ GrowOK /\ EmptyOK /\ StopOK
      /\ SleepOK /\ BackpressureBound /\ NothingLost
  BY DEF IndInv
<1>1. /\ msg[p] \in Messages
      /\ Length(p) \in Nat
      /\ producer.data \in Seq(Messages)
      /\ producer.write_pos \in Nat
      /\ producer.size \in Nat
      /\ accepted \in Seq(Messages)
      /\ n \in Nat
  BY <1>0, LenAssumption, MachineAssumption DEF TypeOK, Buffers, Length
<1>2. producer' = [data |-> Append(producer.data, msg[p]),
                   write_pos |-> Required(p), size |-> n]
  BY <1>0, <1>1 DEF TypeOK, Buffers, Commit, Filled, Required, Length
<1>3. /\ Append(producer.data, msg[p]) \in Seq(Messages)
      /\ Append(producer.data, msg[p]) # <<>>
      /\ Append(accepted, msg[p]) \in Seq(Messages)
  BY <1>1, AppendProperties
<1>4. Required(p) \in Nat /\ Required(p) > 0
  BY <1>1 DEF Required
<1>5. producer' \in Buffers
  BY <1>1, <1>2, <1>3, <1>4 DEF Buffers
<1>6. TypeOK'
  <2>1. producer'.write_pos <= producer'.size /\ producer'.size <= SizeMax
    BY <1>2
  <2>2. pc' \in [Producers -> {"idle", "lock", "wait", "grow"}]
    BY <1>0 DEF Commit, TypeOK
  <2>3. worker' \in {"loop", "wait", "flush", "done"}
    BY <1>0 DEF Commit, TypeOK, WorkerWoken
  <2> QED
    BY <1>0, <1>3, <1>5, <2>1, <2>2, <2>3 DEF Commit, TypeOK
<1>7. GrowExclusive' /\ GrowOK'
  BY <1>0 DEF Commit, TypeOK, GrowExclusive, GrowOK, MutexFree
<1>8. EmptyOK' /\ StopOK'
  BY <1>0, <1>2, <1>3, <1>4 DEF Commit, EmptyOK, StopOK, IsEmpty, WorkerWoken
<1>9. SleepOK'
  <2>1. worker' # "wait"
    BY <1>0 DEF Commit, TypeOK, WorkerWoken
  <2>2. ASSUME NEW q \in Producers, pc'[q] = "wait"
        PROVE  /\ ~IsEmpty(producer')
               /\ Length(q)' > WriteableSize(producer')
               /\ AsyncSafe
               /\ ~stopping'
    <3>1. pc[q] = "wait"
      BY <1>0, <2>2 DEF Commit, TypeOK
    <3>2. /\ ~IsEmpty(producer)
          /\ Length(q) > WriteableSize(producer)
          /\ AsyncSafe
      BY <1>0, <3>1 DEF SleepOK
    <3>3. Length(q) \in Nat /\ Length(q)' = Length(q)
      BY <1>0, LenAssumption DEF Commit, TypeOK, Length
    <3>4. n = producer.size
      BY <3>2
    <3>5. WriteableSize(producer') <= WriteableSize(producer)
      BY <1>1, <1>2, <3>4 DEF WriteableSize, Required
    <3>6. WriteableSize(producer) \in Int /\ WriteableSize(producer') \in Int
      BY <1>1, <1>2, <1>4 DEF WriteableSize
    <3>7. ~IsEmpty(producer')
      BY <1>2, <1>4 DEF IsEmpty
    <3> QED
      BY <3>2, <3>3, <3>5, <3>6, <3>7 DEF Commit
  <2> QED
    BY <2>1, <2>2 DEF SleepOK
<1>10. BackpressureBound'
  BY <1>0, <1>2 DEF Commit, BackpressureBound
<1>11. NothingLost'
  <2>1. flushed \in Seq(Messages) /\ consumer.data \in Seq(Messages)
    BY <1>0 DEF TypeOK, Buffers
  <2>2. (flushed \o consumer.data) \o Append(producer.data, msg[p])
          = Append((flushed \o consumer.data) \o producer.data, msg[p])
    <3>1. PICK f, c, d \in Seq(Messages) :
            f = flushed /\ c = consumer.data /\ d = producer.data
      BY <1>1, <2>1
    <3>2. PICK m \in Messages : m = msg[p]
      BY <1>1
    <3>3. (f \o c) \o Append(d, m) = Append((f \o c) \o d, m)
      BY AppendHistory
    <3> QED
      BY <3>1, <3>2, <3>3
  <2>3. producer'.data = Append(producer.data, msg[p])
    BY <1>2
  <2>4. flushed' = flushed /\ consumer' = consumer
        /\ accepted' = Append(accepted, msg[p])
    BY DEF Commit
  <2> QED
    BY <1>0, <2>2, <2>3, <2>4, Zenon DEF NothingLost
<1> QED
  BY <1>6, <1>7, <1>8, <1>9, <1>10, <1>11 DEF IndInv

\* Push finds room.
LEMMA PushFitsInd ==
  ASSUME NEW p \in Producers, IndInv, PushFits(p)
  PROVE  IndInv'
<1>1. /\ MutexFree /\ pc[p] # "wait" /\ ~stopping
      /\ Length(p) \in 1 .. WriteableSize(producer)
      /\ Commit(p, producer)
  BY DEF PushFits, Admitted
<1>2. /\ producer \in Buffers /\ producer.size \in 0 .. SizeMax
      /\ producer.write_pos \in Nat
      /\ Length(p) \in Nat
  BY LenAssumption, MachineAssumption DEF IndInv, TypeOK, Buffers, Length
<1>3. producer = [producer EXCEPT !.size = producer.size]
  BY <1>2 DEF Buffers
<1>4. Length(p) > 0 /\ Required(p) <= producer.size
  BY <1>1, <1>2 DEF Required, WriteableSize
<1>5. AsyncSafe => WithinBound(producer.size)
  BY DEF IndInv, BackpressureBound
<1> QED
  BY <1>1, <1>2, <1>3, <1>4, <1>5, CommitInd

\* Push fills the buffer it has grown.
LEMMA GrowDoneInd ==
  ASSUME NEW p \in Producers, IndInv, GrowDone(p)
  PROVE  IndInv'
<1>1. new_size \in 0 .. SizeMax /\ Required(p) \in Nat
  BY LenAssumption, MachineAssumption
     DEF IndInv, TypeOK, Buffers, Required, Length
<1>2. /\ ~stopping /\ Length(p) > 0
      /\ AsyncSafe => IsEmpty(producer) /\ WithinBound(new_size)
  BY DEF IndInv, GrowOK, GrowDone
<1>3. /\ pc[p] = "grow" /\ Required(p) <= new_size
      /\ Commit(p, [producer EXCEPT !.size = new_size])
  BY <1>1 DEF GrowDone
<1> QED
  BY <1>1, <1>2, <1>3, CommitInd

\* The worker takes the producers' buffer and leaves them the empty one.
LEMMA WorkerSwapInd ==
  ASSUME IndInv, WorkerSwap
  PROVE  IndInv'
<1> USE DEF IndInv, WorkerSwap
<1>1. consumer.data = <<>> /\ IsEmpty(consumer)
  BY DEF EmptyOK
<1>2. TypeOK'
  BY DEF TypeOK, Woken
<1>3. GrowExclusive' /\ GrowOK'
  BY DEF TypeOK, GrowExclusive, GrowOK, MutexFree, Woken
<1>4. EmptyOK' /\ StopOK' /\ SleepOK'
  BY <1>1 DEF TypeOK, EmptyOK, StopOK, SleepOK, IsEmpty, Woken
<1>5. BackpressureBound'
  BY DEF BackpressureBound
<1>6. NothingLost'
  <2>1. producer.data \in Seq(Messages) /\ flushed \in Seq(Messages)
    BY DEF TypeOK, Buffers
  <2>2. flushed \o producer.data \in Seq(Messages)
    BY <2>1, ConcatProperties
  <2>3. (flushed \o producer.data) \o <<>> = flushed \o producer.data
    BY <2>2, ConcatEmptySeq
  <2>4. flushed \o <<>> = flushed
    BY <2>1, ConcatEmptySeq
  <2> QED
    BY <1>1, <2>3, <2>4 DEF NothingLost
<1> QED
  BY <1>2, <1>3, <1>4, <1>5, <1>6

\* The callback takes the consumer buffer, which is then reset.
LEMMA WorkerFlushInd ==
  ASSUME IndInv, WorkerFlush
  PROVE  IndInv'
<1> USE DEF IndInv, WorkerFlush
<1>1. consumer.data \in Seq(Messages) /\ flushed \in Seq(Messages)
  BY DEF TypeOK, Buffers
<1>2. flushed' = flushed \o consumer.data
  BY <1>1, ConcatEmptySeq DEF EmptyOK
<1>3. consumer' = [data |-> <<>>, write_pos |-> 0, size |-> consumer.size]
  BY DEF TypeOK, Buffers, Reset
<1>4. TypeOK'
  <2>1. flushed' \in Seq(Messages)
    BY <1>1, <1>2, ConcatProperties
  <2>2. consumer' \in Buffers /\ consumer'.write_pos <= consumer'.size
        /\ consumer'.size <= SizeMax
    BY <1>3 DEF TypeOK, Buffers
  <2> QED
    BY <2>1, <2>2 DEF TypeOK
<1>5. GrowExclusive' /\ GrowOK' /\ StopOK'
  BY DEF GrowExclusive, GrowOK, StopOK, Length, Required, IsEmpty
<1>6. EmptyOK'
  BY <1>3 DEF EmptyOK, IsEmpty
<1>7. SleepOK'
  BY DEF SleepOK, Length, IsEmpty, WriteableSize
<1>8. BackpressureBound'
  BY <1>3 DEF BackpressureBound
<1>9. NothingLost'
  <2>1. flushed' \o <<>> = flushed'
    BY <1>4, ConcatEmptySeq DEF TypeOK
  <2>2. consumer'.data = <<>>
    BY <1>3
  <2> QED
    BY <1>2, <2>1, <2>2 DEF NothingLost
<1> QED
  BY <1>4, <1>5, <1>6, <1>7, <1>8, <1>9

-----------------------------------------------------------------------------
(* Theorems *)

\* IndInv holds initially and every step preserves it.
LEMMA InitInd == Init => IndInv
<1> SUFFICES ASSUME Init PROVE IndInv
  OBVIOUS
<1>1. TypeOK
  <2>1. <<>> \in Seq(Messages)
    BY EmptySeq
  <2>2. NewBuffer \in Buffers /\ NewBuffer.write_pos <= NewBuffer.size
        /\ NewBuffer.size <= SizeMax
    BY <2>1, ConfigAssumption, MachineAssumption DEF NewBuffer, Buffers
  <2>3. new_size \in 0 .. SizeMax /\ calls \in Nat
    BY MachineAssumption DEF Init
  <2> QED
    BY <2>1, <2>2, <2>3 DEF Init, TypeOK
<1>2. NothingLost
  BY ConcatEmptySeq DEF Init, NewBuffer, NothingLost
<1> QED
  BY <1>1, <1>2, ConfigAssumption DEF Init, NewBuffer, IndInv, GrowExclusive, GrowOK, EmptyOK,
     StopOK, SleepOK, BackpressureBound, WithinBound, IsEmpty

\* Every step of AsyncWorker, and every stuttering step, preserves IndInv.
LEMMA NextInd == IndInv /\ [Next]_vars => IndInv'
<1> SUFFICES ASSUME IndInv, [Next]_vars PROVE IndInv'
  OBVIOUS
<1>1. CASE \E p \in Producers, m \in Messages : PushCall(p, m)
  BY <1>1, PushCallInd
<1>2. ASSUME NEW p \in Producers, PushStep(p) \/ SpuriousProducer(p)
      PROVE  IndInv'
  BY <1>2, PushWaitInd, PushRefusedInd, PushNothingInd, PushFitsInd,
     PushOverflowInd, PushGrowInd, GrowStepInd, GrowDoneInd, GrowFailInd,
     SpuriousProducerInd DEF PushStep
<1>3. CASE WorkerStep \/ SpuriousWorker
  BY <1>3, WorkerWaitInd, WorkerExitInd, WorkerSwapInd, WorkerFlushInd,
     SpuriousWorkerInd DEF WorkerStep
<1>4. ASSUME NEW s \in Stoppers, StopFirst(s) \/ StopAgain(s) \/ StopStep(s)
      PROVE  IndInv'
  BY <1>4, StopFirstInd, StopAgainInd, StopNotifyConsumerInd,
     StopNotifyProducersInd, StopJoinInd DEF StopStep
<1>5. CASE UNCHANGED vars
  BY <1>5 DEF vars, IndInv, TypeOK, GrowExclusive, GrowOK, EmptyOK, StopOK,
     SleepOK, BackpressureBound, NothingLost, Length, Required, IsEmpty,
     WriteableSize
<1> QED
  BY <1>1, <1>2, <1>3, <1>4, <1>5 DEF Next

\* The strengthened invariant holds in every reachable state.
THEOREM Invariance == SafetySpec => []IndInv
  BY InitInd, NextInd, PTL DEF SafetySpec

\* Type correctness, and no write past the end of a buffer, for every
\* configuration JsonData accepts (Buffer::Push, EnsureWritable).
THEOREM TypeCorrect == SafetySpec => []TypeOK
<1>1. IndInv => TypeOK
  BY DEF IndInv
<1> QED
  BY <1>1, Invariance, PTL

\* The double buffer loses, duplicates and reorders nothing (Push, Swap,
\* the callback and Reset, in every interleaving).
THEOREM NothingLostCorrect == SafetySpec => []NothingLost
<1>1. IndInv => NothingLost
  BY DEF IndInv
<1> QED
  BY <1>1, Invariance, PTL

\* Stop drains: when it has joined the worker, the sinks have been given
\* everything that was accepted.
THEOREM DrainedCorrect == SafetySpec => []Drained
<1>1. IndInv => Drained
  <2> SUFFICES ASSUME IndInv, NEW s \in Stoppers, spc[s] = "joined"
               PROVE  flushed = accepted
    BY DEF Drained
  <2>1. producer.data = <<>> /\ consumer.data = <<>>
    BY DEF IndInv, StopOK, EmptyOK
  <2>2. flushed \in Seq(Messages)
    BY DEF IndInv, TypeOK
  <2>3. flushed \o <<>> = flushed
    BY <2>2, ConcatEmptySeq
  <2> QED
    BY <2>1, <2>3 DEF IndInv, NothingLost
<1> QED
  BY <1>1, Invariance, PTL

\* ASYNC_SAFE bounds the memory of both buffers, however many producers
\* there are and however slow the sinks.
THEOREM BackpressureCorrect == SafetySpec => []BackpressureBound
<1>1. IndInv => BackpressureBound
  BY DEF IndInv
<1> QED
  BY <1>1, Invariance, PTL

\* No wakeup is lost on either condition variable.
THEOREM NoLostWakeupCorrect == SafetySpec => []NoLostWakeup
<1>1. IndInv => NoLostConsumerWakeup
  BY DEF IndInv, SleepOK, NoLostConsumerWakeup, ConsumerReady
<1>2. IndInv => NoLostProducerWakeup
  BY LenAssumption DEF IndInv, TypeOK, Buffers, SleepOK, NoLostProducerWakeup,
         ProducerReady, Length, IsEmpty, WriteableSize
<1>3. IndInv => NoLostWakeup
  BY <1>1, <1>2 DEF NoLostWakeup
<1> QED
  BY <1>3, Invariance, PTL

\* After Stop has set stopping_, nothing is accepted.
THEOREM NoAcceptCorrect == SafetySpec => NoAcceptAfterStop
<1>1. IndInv /\ [Next]_vars => [stopping => accepted' = accepted]_vars
  <2> SUFFICES ASSUME IndInv, Next, stopping PROVE accepted' = accepted
    OBVIOUS
  <2>1. \A p \in Producers : pc[p] # "grow"
    BY DEF IndInv, GrowOK
  <2>2. ASSUME NEW p \in Producers, PushStep(p) PROVE accepted' = accepted
    BY <2>1, <2>2 DEF PushStep, PushWait, PushRefused, PushNothing, PushFits,
       PushOverflow, PushGrow, GrowStep, GrowDone, GrowFail, Admitted,
       MustGrow
  <2> QED
    BY <2>2 DEF Next, PushCall, SpuriousProducer, WorkerStep, WorkerWait,
       WorkerExit, WorkerSwap, WorkerFlush, SpuriousWorker, StopFirst,
       StopAgain, StopStep, StopNotifyConsumer, StopNotifyProducers, StopJoin
<1> QED
  BY <1>1, Invariance, PTL DEF SafetySpec, NoAcceptAfterStop

-----------------------------------------------------------------------------
(* Refinement *)

\* A prefix of a concatenation, cut where the first sequence ends.
LEMMA ConcatPrefix ==
  ASSUME NEW S, NEW s \in Seq(S), NEW t \in Seq(S)
  PROVE  SubSeq(s \o t, 1, Len(s)) = s
<1>1. /\ s \o t \in Seq(S) /\ Len(s) \in Nat /\ Len(t) \in Nat
      /\ Len(s \o t) = Len(s) + Len(t)
      /\ \A i \in 1 .. Len(s) : (s \o t)[i] = s[i]
  BY ConcatProperties, LenProperties
<1>2. \A i \in 1 .. Len(s) : (s \o t)[i] \in S
  BY <1>1, ElementOfSeq
<1>3. /\ SubSeq(s \o t, 1, Len(s)) \in Seq(S)
      /\ Len(SubSeq(s \o t, 1, Len(s))) = Len(s)
      /\ \A i \in 1 .. Len(s) : SubSeq(s \o t, 1, Len(s))[i] = (s \o t)[i]
  BY <1>1, <1>2, SubSeqProperties
<1> QED
  BY <1>1, <1>3, SeqEqual

\* A flush of a filled buffer delivers the next batch of accepted messages.
LEMMA FlushDelivers ==
  ASSUME IndInv, WorkerFlush, ~IsEmpty(consumer)
  PROVE  \E n \in 1 .. Channel!Pending : Channel!Deliver(n)
<1>1. /\ flushed \in Seq(Messages) /\ consumer.data \in Seq(Messages)
      /\ producer.data \in Seq(Messages) /\ consumer.data # <<>>
      /\ (flushed \o consumer.data) \o producer.data = accepted
  BY DEF IndInv, TypeOK, Buffers, EmptyOK, NothingLost
<1>2. PICK f, c, d \in Seq(Messages) :
        f = flushed /\ c = consumer.data /\ d = producer.data
  BY <1>1
<1>3. f \o c \in Seq(Messages) /\ Len(f \o c) = Len(f) + Len(c)
  BY ConcatProperties
<1>4. Len((f \o c) \o d) = (Len(f) + Len(c)) + Len(d)
  BY <1>3, ConcatProperties
<1>5. SubSeq((f \o c) \o d, 1, Len(f) + Len(c)) = f \o c
  <2>1. PICK g \in Seq(Messages) : g = f \o c
    BY <1>3
  <2>2. SubSeq(g \o d, 1, Len(g)) = g
    BY ConcatPrefix
  <2> QED
    BY <1>3, <2>1, <2>2
<1>6. Len(f) \in Nat /\ Len(c) \in Nat /\ Len(d) \in Nat /\ c # <<>>
  BY <1>1, <1>2, LenProperties
<1>7. Len(c) > 0
  BY <1>6, EmptySeq
<1>8. Len(c) \in 1 .. Channel!Pending
  <2>1. Len(accepted) = (Len(f) + Len(c)) + Len(d)
    BY <1>1, <1>2, <1>4
  <2>2. Channel!Pending = Len(accepted) - Len(flushed)
    BY DEF Channel!Pending
  <2>3. Channel!Pending = ((Len(f) + Len(c)) + Len(d)) - Len(f)
    BY <1>2, <2>1, <2>2
  <2> QED
    BY <1>6, <1>7, <2>3, SMT
<1>9. flushed' = f \o c /\ UNCHANGED <<accepted, stopping>>
  BY <1>2 DEF WorkerFlush
<1>10. Channel!Deliver(Len(c))
  BY <1>1, <1>2, <1>5, <1>9 DEF Channel!Deliver
<1> QED
  BY <1>8, <1>10

\* Every step of AsyncWorker is a step of the log channel or changes nothing
\* the channel can see.
LEMMA StepSimulates ==
  IndInv /\ [Next]_vars => [Channel!Next]_(Channel!vars)
<1> SUFFICES ASSUME IndInv, [Next]_vars
             PROVE  Channel!Next \/ UNCHANGED <<accepted, flushed, stopping>>
  BY DEF Channel!vars
<1>1. ASSUME NEW p \in Producers, PushFits(p) \/ GrowDone(p)
      PROVE  Channel!Next
  <2>1. ~stopping /\ msg[p] \in Messages
    BY <1>1 DEF IndInv, TypeOK, GrowOK, PushFits, Admitted, GrowDone
  <2>2. Channel!Accept(msg[p])
    BY <1>1, <2>1 DEF PushFits, GrowDone, Commit, Channel!Accept
  <2> QED
    BY <2>1, <2>2 DEF Channel!Next
<1>2. CASE WorkerFlush
  <2>1. CASE IsEmpty(consumer)
    BY <1>2, <2>1 DEF WorkerFlush
  <2>2. CASE ~IsEmpty(consumer)
    BY <1>2, <2>2, FlushDelivers DEF Channel!Next
  <2> QED
    BY <2>1, <2>2
<1>3. ASSUME NEW s \in Stoppers, StopFirst(s)
      PROVE  Channel!Next
  BY <1>3 DEF StopFirst, Channel!Close, Channel!Next
<1>4. ASSUME NEW p \in Producers, PushStep(p), ~PushFits(p), ~GrowDone(p)
      PROVE  UNCHANGED <<accepted, flushed, stopping>>
  BY <1>4 DEF PushStep, PushWait, PushRefused, PushNothing, PushOverflow,
     PushGrow, GrowStep, GrowFail
<1>5. ASSUME WorkerStep \/ SpuriousWorker, ~WorkerFlush
      PROVE  UNCHANGED <<accepted, flushed, stopping>>
  BY <1>5 DEF WorkerStep, WorkerWait, WorkerExit, WorkerSwap, SpuriousWorker
<1>6. ASSUME NEW s \in Stoppers, StopAgain(s) \/ StopStep(s)
      PROVE  UNCHANGED <<accepted, flushed, stopping>>
  BY <1>6 DEF StopAgain, StopStep, StopNotifyConsumer, StopNotifyProducers,
     StopJoin
<1>7. ASSUME NEW p \in Producers,
             SpuriousProducer(p) \/ (\E m \in Messages : PushCall(p, m))
      PROVE  UNCHANGED <<accepted, flushed, stopping>>
  BY <1>7 DEF SpuriousProducer, PushCall
<1>8. CASE UNCHANGED vars
  BY <1>8 DEF vars
<1> QED
  BY <1>1, <1>2, <1>3, <1>4, <1>5, <1>6, <1>7, <1>8 DEF Next

\* The worker implements the log channel (safety): the sinks are given the
\* accepted messages in order, in batches, and nothing is accepted once
\* stopping_ is set.  That no accepted message is abandoned is checked by TLC.
THEOREM Refinement == SafetySpec => Channel!SafetySpec
<1>1. Init => Channel!Init
  BY DEF Init, Channel!Init
<1> QED
  BY <1>1, StepSimulates, Invariance, PTL DEF SafetySpec, Channel!SafetySpec

=============================================================================
