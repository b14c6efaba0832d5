---------------------------- MODULE AsyncWorker ----------------------------
(***************************************************************************)
(* mylog::AsyncWorker and the two mylog::Buffer objects it owns.           *)
(*                                                                         *)
(* Producer threads call Push, one worker thread runs ThreadEntry, other   *)
(* threads call Stop.  A critical section that only reads and assigns is   *)
(* one action; the growth loop of EnsureWritable runs step by step with    *)
(* the mutex held; the notifications Stop sends after it has released the  *)
(* mutex are steps of their own.  A condition variable is the set of       *)
(* threads whose pc is "wait"; a notified thread goes back to the state in *)
(* which it needs the mutex and evaluates its predicate again.             *)
(*                                                                         *)
(* An operator named ...Mutant is a faulty variant of the one below it; it *)
(* is no part of the specification and only shows that a property can fail.*)
(***************************************************************************)
EXTENDS Naturals, Sequences

CONSTANTS
  Messages,      \* what a producer may log
  LenOf,         \* the bytes of a formatted message
  Producers,     \* threads that call Push
  Stoppers,      \* threads that call Stop
  AsyncSafe,     \* async_type_ = ASYNC_SAFE
  BufferSize,    \* g_conf_data->buffer_size
  Threshold,     \* g_conf_data->threshold
  LinearGrowth,  \* g_conf_data->linear_growth
  SizeMax,       \* numeric_limits<size_t>::max()
  MaxLen,        \* no message is longer
  MaxPushes      \* bound: calls of Push in a behaviour

ASSUME LenAssumption ==
  /\ LenOf \in [Messages -> Nat]
  /\ MaxLen \in Nat
  /\ \A m \in Messages : LenOf[m] <= MaxLen

\* JsonData rejects a configuration that has a zero here.
ASSUME ConfigAssumption ==
  /\ BufferSize \in Nat \ {0}
  /\ LinearGrowth \in Nat \ {0}
  /\ Threshold \in Nat

ASSUME MachineAssumption ==
  /\ SizeMax \in Nat
  /\ BufferSize <= SizeMax
  /\ MaxLen <= SizeMax

ASSUME ModelAssumption ==
  /\ AsyncSafe \in BOOLEAN
  /\ MaxPushes \in Nat

VARIABLES
  producer,   \* buffer_producer_
  consumer,   \* buffer_consumer_
  stopping,   \* stopping_
  pc,         \* where each producer thread is in Push
  msg,        \* the argument of its Push
  new_size,   \* the local of EnsureWritable, for the producer in its loop
  worker,     \* where the worker thread is in ThreadEntry
  spc,        \* where each stopper is in Stop
  calls,      \* calls of Push so far
  accepted,   \* history: the messages whose bytes Push has appended
  flushed     \* history: what the callback has been given

bufs == <<producer, consumer>>
vars == <<producer, consumer, stopping, pc, msg, new_size, worker, spc,
          calls, accepted, flushed>>

-----------------------------------------------------------------------------
(* class Buffer; read_pos_ never leaves 0 *)

Buffers == [data : Seq(Messages), write_pos : Nat, size : Nat]

NewBuffer == [data |-> <<>>, write_pos |-> 0, size |-> BufferSize]

IsEmpty(b) == b.write_pos = 0

WriteableSize(b) == b.size - b.write_pos

\* The copy at the end of Buffer::Push.
Filled(b, m) ==
  [b EXCEPT !.data = Append(@, m), !.write_pos = @ + LenOf[m]]

ResetMutant(b) == b

Reset(b) == [b EXCEPT !.data = <<>>, !.write_pos = 0]

Growth(n) ==
  IF n < Threshold THEN (IF n = 0 THEN 1 ELSE n) ELSE LinearGrowth

GrowOnceMutant(n, required) == n + Growth(n)

\* One turn of the loop of EnsureWritable.
GrowOnce(n, required) ==
  IF Growth(n) > SizeMax - n THEN required ELSE n + Growth(n)

-----------------------------------------------------------------------------
Init ==
  /\ producer = NewBuffer
  /\ consumer = NewBuffer
  /\ stopping = FALSE
  /\ pc = [p \in Producers |-> "idle"]
  /\ msg \in [Producers -> Messages]
  /\ new_size = 0
  /\ worker = "loop"
  /\ spc = [s \in Stoppers |-> "idle"]
  /\ calls = 0
  /\ accepted = <<>>
  /\ flushed = <<>>

\* A producer inside EnsureWritable's loop holds mutex_ between two steps;
\* every other critical section is a single step.
MutexFree == \A p \in Producers : pc[p] # "grow"

Length(p) == LenOf[msg[p]]
Required(p) == producer.write_pos + Length(p)

\* The predicate Push waits for.
ProducerReady(p) ==
  stopping \/ IsEmpty(producer) \/ Length(p) <= WriteableSize(producer)

\* The predicate ThreadEntry waits for.
ConsumerReady == stopping \/ ~IsEmpty(producer)

\* producer_ready_.notify_all()
Woken == [p \in Producers |-> IF pc[p] = "wait" THEN "lock" ELSE pc[p]]

\* consumer_ready_.notify_one() or notify_all(): the worker is the only waiter.
WorkerWoken == IF worker = "wait" THEN "loop" ELSE worker

PushCall(p, m) ==
  /\ pc[p] = "idle"
  /\ calls < MaxPushes
  /\ calls' = calls + 1
  /\ pc' = [pc EXCEPT ![p] = "lock"]
  /\ msg' = [msg EXCEPT ![p] = m]
  /\ UNCHANGED <<bufs, stopping, new_size, worker, spc, accepted, flushed>>

PushWait(p) ==
  /\ pc[p] = "lock" /\ MutexFree
  /\ AsyncSafe /\ ~ProducerReady(p)
  /\ pc' = [pc EXCEPT ![p] = "wait"]
  /\ UNCHANGED <<bufs, stopping, msg, new_size, worker, spc, calls, accepted,
                 flushed>>

\* Push returns without having appended anything: false once stopping_ is set.
PushRefused(p) ==
  /\ pc[p] = "lock" /\ MutexFree
  /\ stopping
  /\ pc' = [pc EXCEPT ![p] = "idle"]
  /\ UNCHANGED <<bufs, stopping, msg, new_size, worker, spc, calls, accepted,
                 flushed>>

UnboundedMutant(p) ==
  /\ pc[p] = "lock" /\ MutexFree
  /\ ~stopping

\* Push is past its wait and its test of stopping_.
Admitted(p) ==
  /\ pc[p] = "lock" /\ MutexFree
  /\ AsyncSafe => ProducerReady(p)
  /\ ~stopping

\* The bytes go into b, the worker is notified under the mutex, Push returns.
NoNotifyMutant(p, b) ==
  /\ producer' = Filled(b, msg[p])
  /\ accepted' = Append(accepted, msg[p])
  /\ worker' = worker
  /\ pc' = [pc EXCEPT ![p] = "idle"]
  /\ UNCHANGED <<consumer, stopping, msg, new_size, spc, calls, flushed>>

Commit(p, b) ==
  /\ producer' = Filled(b, msg[p])
  /\ accepted' = Append(accepted, msg[p])
  /\ worker' = WorkerWoken
  /\ pc' = [pc EXCEPT ![p] = "idle"]
  /\ UNCHANGED <<consumer, stopping, msg, new_size, spc, calls, flushed>>

\* Nothing to append: Buffer::Push returns at once, the worker is notified.
PushNothing(p) ==
  /\ Admitted(p)
  /\ Length(p) = 0
  /\ worker' = WorkerWoken
  /\ pc' = [pc EXCEPT ![p] = "idle"]
  /\ UNCHANGED <<bufs, stopping, msg, new_size, spc, calls, accepted, flushed>>

PushFits(p) ==
  /\ Admitted(p)
  /\ Length(p) \in 1 .. WriteableSize(producer)
  /\ Commit(p, producer)

MustGrow(p) == Admitted(p) /\ Length(p) > WriteableSize(producer)

\* length_error leaves Push; the lock is released, nothing is appended.
PushOverflow(p) ==
  /\ MustGrow(p)
  /\ producer.write_pos > SizeMax - Length(p)
  /\ pc' = [pc EXCEPT ![p] = "idle"]
  /\ UNCHANGED <<bufs, stopping, msg, new_size, worker, spc, calls, accepted,
                 flushed>>

PushGrow(p) ==
  /\ MustGrow(p)
  /\ producer.write_pos <= SizeMax - Length(p)
  /\ new_size' = producer.size
  /\ pc' = [pc EXCEPT ![p] = "grow"]
  /\ UNCHANGED <<bufs, stopping, msg, worker, spc, calls, accepted, flushed>>

GrowStep(p) ==
  /\ pc[p] = "grow"
  /\ new_size < Required(p)
  /\ new_size' = GrowOnce(new_size, Required(p))
  /\ UNCHANGED <<bufs, stopping, pc, msg, worker, spc, calls, accepted,
                 flushed>>

GrowDone(p) ==
  /\ pc[p] = "grow"
  /\ new_size >= Required(p)
  /\ Commit(p, [producer EXCEPT !.size = new_size])

\* buffer_.resize throws: as PushOverflow.
GrowFail(p) ==
  /\ pc[p] = "grow"
  /\ new_size >= Required(p)
  /\ pc' = [pc EXCEPT ![p] = "idle"]
  /\ UNCHANGED <<bufs, stopping, msg, new_size, worker, spc, calls, accepted,
                 flushed>>

SpuriousProducer(p) ==
  /\ pc[p] = "wait"
  /\ pc' = [pc EXCEPT ![p] = "lock"]
  /\ UNCHANGED <<bufs, stopping, msg, new_size, worker, spc, calls, accepted,
                 flushed>>

-----------------------------------------------------------------------------
(* ThreadEntry *)

WorkerWait ==
  /\ worker = "loop" /\ MutexFree
  /\ ~ConsumerReady
  /\ worker' = "wait"
  /\ UNCHANGED <<bufs, stopping, pc, msg, new_size, spc, calls, accepted,
                 flushed>>

ExitMutant ==
  /\ worker = "loop" /\ MutexFree
  /\ stopping
  /\ worker' = "done"
  /\ UNCHANGED <<bufs, stopping, pc, msg, new_size, spc, calls, accepted,
                 flushed>>

WorkerExit ==
  /\ worker = "loop" /\ MutexFree
  /\ stopping /\ IsEmpty(producer)
  /\ worker' = "done"
  /\ UNCHANGED <<bufs, stopping, pc, msg, new_size, spc, calls, accepted,
                 flushed>>

\* The swap forgets the waiting producers.
SwapMutant ==
  /\ worker = "loop" /\ MutexFree
  /\ ConsumerReady
  /\ ~(stopping /\ IsEmpty(producer))
  /\ producer' = consumer
  /\ consumer' = producer
  /\ worker' = "flush"
  /\ UNCHANGED <<stopping, pc, msg, new_size, spc, calls, accepted, flushed>>

WorkerSwap ==
  /\ worker = "loop" /\ MutexFree
  /\ ConsumerReady
  /\ ~(stopping /\ IsEmpty(producer))
  /\ producer' = consumer
  /\ consumer' = producer
  /\ pc' = Woken
  /\ worker' = "flush"
  /\ UNCHANGED <<stopping, msg, new_size, spc, calls, accepted, flushed>>

\* The callback and the reset, without the mutex: no other thread looks at
\* buffer_consumer_.
WorkerFlush ==
  /\ worker = "flush"
  /\ flushed' = IF IsEmpty(consumer) THEN flushed ELSE flushed \o consumer.data
  /\ consumer' = Reset(consumer)
  /\ worker' = "loop"
  /\ UNCHANGED <<producer, stopping, pc, msg, new_size, spc, calls, accepted>>

SpuriousWorker ==
  /\ worker = "wait"
  /\ worker' = "loop"
  /\ UNCHANGED <<bufs, stopping, pc, msg, new_size, spc, calls, accepted,
                 flushed>>

-----------------------------------------------------------------------------
(* Stop *)

StopFirst(s) ==
  /\ spc[s] = "idle" /\ MutexFree
  /\ ~stopping
  /\ stopping' = TRUE
  /\ spc' = [spc EXCEPT ![s] = "notify_c"]
  /\ UNCHANGED <<bufs, pc, msg, new_size, worker, calls, accepted, flushed>>

\* A later caller returns at once, whether or not the worker has finished.
StopAgain(s) ==
  /\ spc[s] = "idle" /\ MutexFree
  /\ stopping
  /\ spc' = [spc EXCEPT ![s] = "skipped"]
  /\ UNCHANGED <<bufs, stopping, pc, msg, new_size, worker, calls, accepted,
                 flushed>>

NotifyConsumerMutant(s) ==
  /\ spc[s] = "notify_c"
  /\ spc' = [spc EXCEPT ![s] = "notify_p"]
  /\ UNCHANGED <<bufs, stopping, pc, msg, new_size, worker, calls, accepted,
                 flushed>>

StopNotifyConsumer(s) ==
  /\ spc[s] = "notify_c"
  /\ worker' = WorkerWoken
  /\ spc' = [spc EXCEPT ![s] = "notify_p"]
  /\ UNCHANGED <<bufs, stopping, pc, msg, new_size, calls, accepted, flushed>>

StopNotifyProducers(s) ==
  /\ spc[s] = "notify_p"
  /\ pc' = Woken
  /\ spc' = [spc EXCEPT ![s] = "join"]
  /\ UNCHANGED <<bufs, stopping, msg, new_size, worker, calls, accepted,
                 flushed>>

StopJoin(s) ==
  /\ spc[s] = "join"
  /\ worker = "done"
  /\ spc' = [spc EXCEPT ![s] = "joined"]
  /\ UNCHANGED <<bufs, stopping, pc, msg, new_size, worker, calls, accepted,
                 flushed>>

-----------------------------------------------------------------------------
PushStep(p) ==
  \/ PushWait(p) \/ PushRefused(p) \/ PushNothing(p) \/ PushFits(p)
  \/ PushOverflow(p) \/ PushGrow(p)
  \/ GrowStep(p) \/ GrowDone(p) \/ GrowFail(p)

WorkerStep == WorkerWait \/ WorkerExit \/ WorkerSwap \/ WorkerFlush

StopStep(s) ==
  StopNotifyConsumer(s) \/ StopNotifyProducers(s) \/ StopJoin(s)

Next ==
  \/ \E p \in Producers, m \in Messages : PushCall(p, m)
  \/ \E p \in Producers : PushStep(p) \/ SpuriousProducer(p)
  \/ WorkerStep
  \/ SpuriousWorker
  \/ \E s \in Stoppers : StopFirst(s) \/ StopAgain(s) \/ StopStep(s)

\* A thread inside Push, ThreadEntry or Stop is scheduled when it can run.
Fairness ==
  /\ \A p \in Producers : WF_vars(PushStep(p))
  /\ WF_vars(WorkerStep)
  /\ \A s \in Stoppers : WF_vars(StopStep(s))

SafetySpec == Init /\ [][Next]_vars
Spec == SafetySpec /\ Fairness

-----------------------------------------------------------------------------
(* Properties *)

\* Every field of the worker, its buffers and its threads has its type, and
\* no buffer's write position passes its size (Buffer::Push copies in bounds).
TypeOK ==
  /\ producer \in Buffers /\ producer.write_pos <= producer.size
  /\ consumer \in Buffers /\ consumer.write_pos <= consumer.size
  /\ producer.size <= SizeMax /\ consumer.size <= SizeMax
  /\ stopping \in BOOLEAN
  /\ pc \in [Producers -> {"idle", "lock", "wait", "grow"}]
  /\ msg \in [Producers -> Messages]
  /\ new_size \in 0 .. SizeMax
  /\ worker \in {"loop", "wait", "flush", "done"}
  /\ spc \in [Stoppers -> {"idle", "notify_c", "notify_p", "join", "joined",
                           "skipped"}]
  /\ calls \in Nat
  /\ accepted \in Seq(Messages)
  /\ flushed \in Seq(Messages)

\* Nothing Push has accepted is lost, duplicated or reordered by the buffer
\* swap: what the callback was given, then the consumer buffer, then the
\* producer buffer, is the accepted sequence.
NothingLost == (flushed \o consumer.data) \o producer.data = accepted

\* A Stop that has joined the worker leaves nothing behind: every message
\* for which Push returned true before the shutdown was given to the sinks.
Drained ==
  \A s \in Stoppers : spc[s] = "joined" => flushed = accepted

\* Once Stop has set stopping_, no Push appends: not one that waited for
\* space, and not one that was in its growth loop when Stop was called.
NoAcceptAfterStop == [][stopping => accepted' = accepted]_vars

\* The worker never sleeps on consumer_ready_ over work to do, unless the
\* Stop that has just set stopping_ is about to notify it.
NoLostConsumerWakeup ==
  worker = "wait" /\ ConsumerReady =>
    \E s \in Stoppers : spc[s] = "notify_c"

\* A producer never sleeps on producer_ready_ when it could go on, unless a
\* notification by Stop is due; and while it sleeps, the worker does not.
NoLostProducerWakeup ==
  \A p \in Producers : pc[p] = "wait" =>
    \/ ~ProducerReady(p) /\ worker # "wait"
    \/ \E s \in Stoppers : spc[s] \in {"notify_c", "notify_p"}

\* No notification is lost, on either condition variable: neither one that
\* Push or the swap sends under the mutex, nor one that Stop sends after it
\* has released it.
NoLostWakeup == NoLostConsumerWakeup /\ NoLostProducerWakeup

\* ASYNC_SAFE bounds memory by the configuration and the longest message,
\* however far the producers run ahead of the sinks.
WithinBound(n) ==
  \/ n <= BufferSize
  \/ n <= 2 * (MaxLen - 1)
  \/ n <= (MaxLen - 1) + LinearGrowth
BackpressureBound ==
  AsyncSafe => WithinBound(producer.size) /\ WithinBound(consumer.size)

\* Every Push returns: the wait for space ends and the growth loop stops.
PushReturns == \A p \in Producers : pc[p] # "idle" ~> pc[p] = "idle"

\* Every Stop returns, joined or because another one was first.
StopReturns ==
  \A s \in Stoppers : spc[s] # "idle" ~> spc[s] \in {"joined", "skipped"}

\* Nobody is stuck in the worker: producers that sleep for space, a worker
\* that sleeps for messages and a Stop that joins it cannot all wait for one
\* another.
CallsReturn == PushReturns /\ StopReturns

\* The worker implements a log channel: it delivers the accepted messages in
\* order, in batches, and never abandons one.
Channel == INSTANCE LogChannel WITH delivered <- flushed, closed <- stopping
ImplementsChannel == Channel!Spec
=============================================================================
