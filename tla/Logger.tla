------------------------------- MODULE Logger -------------------------------
(***************************************************************************)
(* A program that logs: its main (Test.cpp), the threads that log through  *)
(* an AsyncLogger, the logger's worker and its rolling file, the pool that *)
(* sends backups, and the order in which all of it is set up and taken     *)
(* down (AsyncLogger.hpp, Manager.hpp, Util.hpp).                          *)
(*                                                                         *)
(* The worker appears as the LogChannel that AsyncWorker implements, the   *)
(* pool by its queue and its busy threads (ThreadPool has the details),    *)
(* backup::Start by its result (RemoteBackup has the details).  The server *)
(* logs from its event loop, which has ended when main goes on; the        *)
(* benchmark joins its threads first.  So nobody logs during the shutdown. *)
(* A call of Log that cannot format its message changes nothing and is not *)
(* a step.                                                                 *)
(***************************************************************************)
EXTENDS RollFile, Integers, FiniteSets

CONSTANTS
  Callers,  \* threads that log
  Configs,  \* contents of the log configuration file
  None,     \* no message
  MaxLogs   \* bound: messages logged

VARIABLES
  accepted, delivered, closed,  \* the worker, as a LogChannel
  conf,      \* g_conf_data
  main,      \* where main is
  tp,        \* whether the global tp points to a pool
  tasks,     \* tasks_ of the pool
  running,   \* tasks its threads run
  stopping,  \* stopping_ of the pool
  pending,   \* the message a caller has pushed and not yet backed up
  failures,  \* remote_backup_failures_
  drops,     \* remote_backup_drops_
  sent       \* history: messages for which Start returned true

channel == <<accepted, delivered, closed>>
pool == <<tp, tasks, running, stopping>>
counts == <<failures, drops, sent>>
vars == <<channel, sink, faults, conf, main, pool, pending, counts>>

Levels == {"INFO", "ERROR", "FATAL"}
Messages == [id : 1 .. MaxLogs, level : Levels]
Files == [bytes : Nat, writes : Nat, buffer : Seq(Messages), error : BOOLEAN]

\* A formatted message has at least its brackets and its newline.
ASSUME LoggerAssumption ==
  /\ IsFiniteSet(Callers) /\ MaxLogs \in Nat
  /\ None \notin Messages /\ NoFile \notin Files
  /\ \A m \in Messages : SizeOf(m) \in Nat \ {0}

Worker == INSTANCE LogChannel

Init ==
  /\ Worker!Init /\ SinkInit
  /\ conf \in Configs
  /\ main = "start"
  /\ tp = FALSE /\ tasks = <<>> /\ running = {} /\ stopping = FALSE
  /\ pending = [c \in Callers |-> None]
  /\ failures = 0 /\ drops = 0 /\ sent = {}

-----------------------------------------------------------------------------
(* Setting up *)

\* A number in the file that is missing or not of the type is -1 here.
RequireUnsigned(value) == value \in Nat

Ports == 1 .. 65535

JsonData(c) ==
  /\ \A v \in {c.buffer_size, c.threshold, c.linear_growth, c.flush_log,
               c.thread_count, c.backup_queue_size} : RequireUnsigned(v)
  /\ c.backup_addr # ""
  /\ c.backup_port \in Ports
  /\ c.backup_connect_timeout_ms > 0 /\ c.backup_send_timeout_ms > 0
  /\ c.backup_retries > 0
  /\ c.backup_enabled \in {"true", "false"}
  /\ c.buffer_size > 0 /\ c.linear_growth > 0
  /\ c.thread_count > 0 /\ c.backup_queue_size > 0
  /\ c.threshold >= c.buffer_size
  /\ c.flush_log <= 2

\* Every field the configuration has passes, or main ends before it has started
\* anything.
LoadConfig ==
  /\ main = "start"
  /\ main' = IF JsonData(conf) THEN "pool" ELSE "done"
  /\ UNCHANGED <<channel, sink, faults, conf, pool, pending, counts>>

\* A thread that cannot be created makes the constructor throw; the vector of
\* the threads created before it then ends the program.
StartPool ==
  /\ main = "pool"
  /\ \/ NoFault /\ main' = "logger" /\ tp' = TRUE
     \/ Fault /\ main' = "reset" /\ UNCHANGED tp
     \/ Fault /\ conf.thread_count > 1 /\ main' = "terminated" /\ UNCHANGED tp
  /\ UNCHANGED <<channel, sink, conf, tasks, running, stopping, pending, counts>>

\* BuildLoggerFlush, Build and AddLogger, or one of them throws.
StartLogger ==
  /\ main = "logger"
  /\ \/ NoFault /\ main' = "run"
     \/ Fault /\ main' = "reset"
  /\ UNCHANGED <<channel, sink, conf, pool, pending, counts>>

-----------------------------------------------------------------------------
(* AsyncLogger *)

BackupEnabled == conf.backup_enabled = "true"

\* Log and Serialize up to Push, which accepts as long as nobody stops the worker.
Log(c, level) ==
  /\ main = "run" /\ pending[c] = None
  /\ Len(accepted) < MaxLogs
  /\ LET m == [id |-> Len(accepted) + 1, level |-> level]
     IN  /\ Worker!Accept(m)
         /\ pending' = [pending EXCEPT ![c] = IF level = "INFO" THEN None ELSE m]
  /\ UNCHANGED <<sink, faults, conf, main, pool, counts>>

\* backup::Start by what it returns: nothing to do, an address that is none, or
\* the fate of the connections.
Start(m) ==
  \/ ~BackupEnabled /\ UNCHANGED <<failures, sent>>
  \/ /\ BackupEnabled /\ conf.backup_addr # "no address"
     /\ sent' = sent \cup {m} /\ UNCHANGED failures
  \/ BackupEnabled /\ failures' = failures + 1 /\ UNCHANGED sent

Serialized(c) == pending' = [pending EXCEPT ![c] = None]

BackupFatal(c) ==
  /\ pending[c] # None /\ pending[c].level = "FATAL"
  /\ Start(pending[c])
  /\ Serialized(c)
  /\ UNCHANGED <<channel, sink, faults, conf, main, pool, drops>>

\* TryEnqueue's answer.
Accepts == tp /\ ~stopping /\ Len(tasks) < conf.backup_queue_size

BackupError(c) ==
  /\ pending[c] # None /\ pending[c].level = "ERROR"
  /\ \/ ~BackupEnabled /\ UNCHANGED <<tasks, drops>>
     \/ /\ BackupEnabled /\ Accepts
        /\ tasks' = Append(tasks, pending[c]) /\ UNCHANGED drops
     \/ /\ BackupEnabled /\ ~Accepts
        /\ drops' = drops + 1 /\ UNCHANGED tasks
  /\ Serialized(c)
  /\ UNCHANGED <<channel, sink, faults, conf, main, tp, running, stopping,
                 failures, sent>>

\* RealFlush: the worker hands what it has to the sink, and waits for it.
RealFlush ==
  /\ spc = "idle"
  /\ \E n \in 1 .. Worker!Pending :
       /\ Worker!Deliver(n)
       /\ Flush(SubSeq(accepted, Len(delivered) + 1, Len(delivered) + n))
  /\ UNCHANGED <<conf, main, pool, pending, counts>>

SinkStep ==
  /\ FlushStep(conf.flush_log)
  /\ UNCHANGED <<channel, conf, main, pool, pending, counts>>

-----------------------------------------------------------------------------
(* The pool *)

\* Mutant: a thread leaves when it sees stopping_, whatever is queued.
TakeMutant ==
  /\ tasks # <<>> /\ ~stopping /\ Cardinality(running) < conf.thread_count
  /\ running' = running \cup {Head(tasks)}
  /\ tasks' = Tail(tasks)
  /\ UNCHANGED <<channel, sink, faults, conf, main, tp, stopping, pending, counts>>

TakeTask ==
  /\ tasks # <<>> /\ Cardinality(running) < conf.thread_count
  /\ running' = running \cup {Head(tasks)}
  /\ tasks' = Tail(tasks)
  /\ UNCHANGED <<channel, sink, faults, conf, main, tp, stopping, pending, counts>>

RunTask(m) ==
  /\ m \in running
  /\ Start(m)
  /\ running' = running \ {m}
  /\ UNCHANGED <<channel, sink, faults, conf, main, tp, tasks, stopping, pending,
                 drops>>

-----------------------------------------------------------------------------
(* Taking down *)

\* Mutant: main does not wait for the threads that log.
EarlyMutant ==
  /\ main = "run"
  /\ main' = "shutdown"
  /\ UNCHANGED <<channel, sink, faults, conf, pool, pending, counts>>

\* RunModule has returned, or DataManager or Service has thrown: either way main
\* shuts the logger down.
RunEnds ==
  /\ main = "run" /\ \A c \in Callers : pending[c] = None
  /\ main' = "shutdown"
  /\ UNCHANGED <<channel, sink, faults, conf, pool, pending, counts>>

\* LoggerManager::Shutdown stops the worker ...
Shutdown ==
  /\ main = "shutdown"
  /\ Worker!Close
  /\ main' = "join"
  /\ UNCHANGED <<sink, faults, conf, pool, pending, counts>>

\* Mutant: the worker is not joined.
JoinMutant ==
  /\ main = "join"
  /\ UNCHANGED <<sink, faults>>
  /\ main' = "reset"
  /\ UNCHANGED <<channel, conf, pool, pending, counts>>

\* ... joins it and destroys the logger.  If an exception ended the run its sinks
\* go too; otherwise the builder, a local of main, still holds them.
Join ==
  /\ main = "join"
  /\ Worker!Pending = 0 /\ spc = "idle"
  /\ CloseSink \/ UNCHANGED <<sink, faults>>
  /\ main' = "reset"
  /\ UNCHANGED <<channel, conf, pool, pending, counts>>

\* Mutant: tasks that wait in the queue are thrown away.
ResetMutant ==
  /\ main = "reset"
  /\ stopping' = tp /\ tasks' = <<>>
  /\ main' = IF tp THEN "drain" ELSE "clear"
  /\ UNCHANGED <<channel, sink, faults, conf, tp, running, pending, counts>>

\* thread_pool.reset(): the destructor of the pool, if there is one.
Reset ==
  /\ main = "reset"
  /\ stopping' = tp
  /\ main' = IF tp THEN "drain" ELSE "clear"
  /\ UNCHANGED <<channel, sink, faults, conf, tp, tasks, running, pending, counts>>

Drain ==
  /\ main = "drain"
  /\ tasks = <<>> /\ running = {}
  /\ main' = "clear"
  /\ UNCHANGED <<channel, sink, faults, conf, pool, pending, counts>>

\* main returns, and the builder goes.
Exit ==
  /\ main = "clear"
  /\ tp' = FALSE
  /\ CloseSink
  /\ main' = "done"
  /\ UNCHANGED <<channel, conf, tasks, running, stopping, pending, counts>>

-----------------------------------------------------------------------------
MainStep ==
  LoadConfig \/ StartPool \/ StartLogger \/ Shutdown \/ Join \/ Reset \/ Drain
    \/ Exit

CallerStep(c) == BackupFatal(c) \/ BackupError(c)
WorkerStep == RealFlush \/ SinkStep
PoolStep == TakeTask \/ \E m \in running : RunTask(m)

Next ==
  \/ MainStep \/ RunEnds
  \/ \E c \in Callers : (\E l \in Levels : Log(c, l)) \/ CallerStep(c)
  \/ WorkerStep \/ PoolStep

\* Every thread that can run is scheduled, and backup::Start returns
\* (RemoteBackup).  How long the program runs and logs is up to it.
Fairness ==
  /\ WF_vars(MainStep) /\ WF_vars(WorkerStep) /\ WF_vars(PoolStep)
  /\ \A c \in Callers : WF_vars(CallerStep(c))

Spec == Init /\ [][Next]_vars /\ Fairness
-----------------------------------------------------------------------------
(* Properties *)

\* Every variable has its type.
TypeOK ==
  /\ accepted \in Seq(Messages) /\ delivered \in Seq(Messages)
  /\ closed \in BOOLEAN
  /\ spc \in {"idle", "ensure", "open", "write", "policy"}
  /\ batch \in Seq(Messages) /\ len \in Nat /\ current_size \in Nat
  /\ file \in Files \cup {NoFile}
  /\ stored \subseteq Messages /\ reported \subseteq Messages
  /\ faults \in 0 .. MaxFaults
  /\ conf \in Configs
  /\ main \in {"start", "pool", "logger", "run", "shutdown", "join", "reset",
               "drain", "clear", "done", "terminated"}
  /\ tp \in BOOLEAN /\ stopping \in BOOLEAN
  /\ tasks \in Seq(Messages) /\ running \subseteq Messages
  /\ pending \in [Callers -> Messages \cup {None}]
  /\ failures \in Nat /\ drops \in Nat /\ sent \subseteq Messages

Backed == {m \in Range(accepted) : m.level # "INFO"}

\* When the program ends, every ERROR and FATAL message that was logged with the
\* backup enabled is accounted for: sent, counted as failed or counted as
\* dropped, and no two of them; also those still queued when the shutdown began
\* and whose logger was gone before they were sent.
BackupsAccounted ==
  main = "done" =>
    Cardinality(sent) + failures + drops =
      IF BackupEnabled THEN Cardinality(Backed) ELSE 0

\* The order of main never costs a backup: an ERROR is dropped only because the
\* queue is full, never because the pool is stopping or gone.
DropsOnlyWhenFull ==
  [][drops' # drops => tp /\ ~stopping /\ Len(tasks) = conf.backup_queue_size]_vars

\* Outside Flush, a message the worker has delivered is with the kernel or was
\* reported as failed, whatever failed in between: on this and on earlier
\* batches, in fwrite, fflush, fsync, fopen or fclose.  Without flush_log it may
\* also be in the open stream, or be lost when that is closed.
NoSilentLoss ==
  spc = "idle" =>
    \A m \in Range(delivered) :
      \/ m \in stored \cup reported
      \/ conf.flush_log = 0 /\ faults > 0
      \/ conf.flush_log = 0 /\ file # NoFile /\ m \in Range(file.buffer)

\* When the program ends, the sink has received all that was logged, and if no
\* call failed all of it is in the files, also without flush_log.
StoredAtExit ==
  main = "done" =>
    /\ delivered = accepted
    /\ faults = 0 => stored = Range(accepted)

\* The end of main, after Shutdown and thread_pool.reset(), leaves nothing open:
\* neither a line for the log file nor a backup.
AccountedAtExit == BackupsAccounted /\ StoredAtExit

Queue == INSTANCE TaskQueue WITH
  Tasks <- Messages,
  limit <- conf.backup_queue_size,
  threads <- conf.thread_count,
  waiting <- tasks,
  phase <- IF ~stopping THEN "open" ELSE IF main = "drain" THEN "closing"
           ELSE "ended"

\* What Serialize and main do to the pool is what a TaskQueue, which ThreadPool
\* implements, takes: no message is submitted twice, none once the destructor
\* has begun, and main goes on only when the queue and the threads are empty.
ImplementsQueue == Queue!Spec

\* Once main begins to take things down it ends, whatever is queued or pending.
ShutdownEnds == main = "shutdown" ~> main = "done"
=============================================================================
