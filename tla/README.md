# A TLA+ model of AsynLogSystem-CloudStorage

The repository is a C++17 single-host storage server (`src/server`) with an asynchronous
logging library and a remote log backup (`log_system/logs_code`). This directory models the
parts of it whose correctness depends on interleavings, failures, crashes, clocks or integer
edges, checks them with TLC on small instances, and proves the most important results with
TLAPS for every value of the constants. Paths below are relative to the repository root.

## 1. Inventory

| Component | State | Operations | Interacts with | What is hard |
|---|---|---|---|---|
| `AsyncWorker`, `Buffer` (`AsyncWorker.hpp`, `AsyncBuffer.hpp`) | two buffers, `stopping_`, mutex, two condition variables, one thread | `Push`, `Stop`, `ThreadEntry`, `EnsureWritable` | called by `AsyncLogger`, calls the sinks | lost wakeups, loss or duplication at the swap, drain at shutdown, growth at the limit of `size_t` |
| `ThreadPool` (`ThreadPool.hpp`) | queue, `stopping_`, mutex, two condition variables, workers | `Enqueue`, `TryEnqueue`, `WorkerLoop`, destructor | remote backup tasks of `AsyncLogger`; owned by `main` | notifications outside the lock, full queue, destruction with tasks queued |
| Storage service (`Service.cpp` Upload/Delete/Download, `DataManager.cpp`, `FileUtil` in `Util.hpp`) | `table_`, the metadata snapshot, stored files, temporary files | uploads by temporary file and `link`, deletes through a trash name, snapshot by `rename` | file system | a failing system call, a crash or a loss of power between any two steps |
| Range and reply (`Range.hpp`, `Service::Download`) | none | `ParseRangeHeader`, the reply | storage service | unsigned arithmetic at its edges, `If-Range` |
| Access control (`SessionStore`, `LoginRateLimiter`, `HandleRequest`, `Login`, `Logout` in `Service.cpp`) | sessions, attempts per address | login, logout, routing | wall clock | lazy expiry, a clock that is stepped, window edges |
| `AsyncLogger`, `LoggerManager`, `main` (`AsyncLogger.hpp`, `Manager.hpp`, `Test.cpp`) | loggers by name, two counters, the global `tp` | `Log`, `Stop`, `Shutdown`, start and end of the program | worker, pool, sinks, backup client | shutdown order: queued backups outlive the logger, sinks are destroyed after the worker |
| Sinks (`LogFlush.hpp`) | open file, size, sequence | `Flush`, rolling | stdio, file system | failed writes, the sticky error indicator of a stream, data still with stdio, the size limit |
| Backup client and server (`backlog/`) | sockets, connection counter, rotated files | `Start`, `Run`, `HandleConnection`, `Write` | each other, over TCP | retries, partial records, rotation that fails half-way |
| URL and base64 codecs (`base64.cpp`, `Util.hpp`), file names and routes (`Service.cpp`) | none | `base64_decode`, `UrlEncode`, `UrlDecode`, `IsSafeFileName`, `IsDownloadPath` | upload, list, download, delete | padding and the last group, escapes, links that must survive the round trip |
| Configuration (`Config.hpp`, `logs_code/Util.hpp`) | constants | read once, refused if out of range | all | a value that passes the checks and breaks a component |
| Pages | none | templates | | |

`PROJECT.json` lists under `hazards` each place where one of these things bites, with the
property that watches it or the reason why none does.

## 2. Modules

| Module | Models |
|---|---|
| `LogChannel` | abstract specification of an asynchronous log worker: accept until closed, deliver the accepted sequence in order and in batches, never abandon it |
| `AsyncWorker` | `AsyncWorker` and its `Buffer`s; instance of `LogChannel` through `delivered <- flushed, closed <- stopping` |
| `AsyncWorkerProofs` | the inductive invariant of `AsyncWorker`, its theorems and the refinement |
| `TaskQueue` | abstract specification of a pool of threads: a bounded queue in front of a number of threads, each task in one place, closed before it ends, ended only when empty |
| `ThreadPool`, `ThreadPoolProofs` | `ThreadPool`, an instance of `TaskQueue`, its theorems and the refinement |
| `FileStore` | abstract specification of the storage server: a map from names to uploads that a request changes in one step or not at all, what a loss of power may leave of it, and when a request may be answered as done |
| `StorageService`, `StorageServiceProofs` | Upload, Delete, deep Download with `DataManager` and `FileUtil`, crash, loss of power and restart, an instance of `FileStore`, its theorems and the refinement |
| `RangeDownload`, `RangeDownloadProofs` | the Range parser and the reply, and its theorems |
| `AccessControl`, `AccessControlProofs` | sessions, throttling and routing, and its theorems |
| `RemoteBackup`, `RemoteBackupProofs` | `backup::Start` by several threads, the accept loop and handlers of `TcpServer`, and its theorems |
| `BackupFile`, `BackupFileProofs` | the rotating `BackupFileWriter` behind the server's callback, and its theorems |
| `RollFile` | `RollFileFlush` over a stdio stream with failing calls |
| `Logger` | the whole logging side of the program: configuration, `AsyncLogger`, `RollFile` (by `EXTENDS`), the worker (as an instance of `LogChannel`, which `AsyncWorker` is proved to implement), the backup pool (an instance of `TaskQueue`, which `ThreadPool` is proved to implement), and `main` that starts and ends them |
| `LoggerProofs` | theorems about `Logger` and the `RollFile` under it |
| `NameCodec` | a file name on its way through base64, url, link and routes |
| `MC...` | model values, constant sets and symmetry for TLC |

Operators whose name ends in `Mutant` are faulty variants of the operator below them, used only
to confirm that each property can fail.

### How state and actions correspond to the code

**AsyncWorker.** A critical section is one action. `pc[p]` is where a producer is in `Push`:
`lock` (about to evaluate the predicate with the mutex), `wait` (asleep on `producer_ready_`),
`grow` (in the loop of `EnsureWritable`, holding the mutex across steps). The worker is in
`loop`, `wait`, `flush` or `done`. The two notifications of `Stop` are sent without the mutex
and are separate steps; both waits may wake spuriously. A message is an opaque value with a
length; `write_pos` and `size` are the numbers of the code, the growth loop clamps at `SizeMax`
(`numeric_limits<size_t>::max()`), and `length_error` and `bad_alloc` leave `Push` with nothing
appended. `accepted` and `flushed` are history variables.

**ThreadPool.** As above, with one notification step per `notify_one`, which wakes any one
sleeper or nobody. The destructor starts at any time; submissions under way race with it, new
ones are not begun after it (calling a member of an object being destroyed is the caller's
error). The limit is a variable that `Init` takes from the constant `Limits` and nothing changes, so that
one run covers several. As a `TaskQueue`, `limit` is that variable, `waiting` is `tasks`, `running` are the tasks of the workers that have taken
one and not come back (notification included), and `phase` is `open` until the destructor has set
`stopping`, `closing` until it has joined the workers, `ended` then. Calls, waits, wakeups and
notifications are stuttering steps.

**StorageService.** libevent runs one handler at a time, so one `pc` suffices; every system
call is a step with a success and a failure branch (`Fault`), and `Crash` may come between any
two. Bytes are identified by the number of the upload that brought them; a Delete moves, and puts
back, whatever bytes it finds at the path of its entry. `owed` is a history
variable: what the server has acknowledged with 201 and not given up since. `Start` is the constructor
of the `DataManager` in one step with the ways it can go: it loads the snapshot, or refuses to start
because an entry does not parse or the file cannot be read, or takes a `stat` that failed for a missing
file (`FileUtil::Exists` drops the error) and starts empty. In the last case, if there was something to
load, the history variable `blind` is set until the metadata is written, when every entry it held is
gone. Paths are sequences
of elements as in `std::filesystem`, because the comparison in `ParseStorageInfo` depends on
how the configuration writes the directory (`DirForms`: plainly, with a trailing slash, or as `.`);
of its other checks none can fail on what `Persist` wrote. `CreateDirectory` in `Upload` and `Persist` is
part of the step that creates the temporary file after it: when it fails the request is answered
alike and nothing has changed. A failing `Exists` in `Delete` answers 500 before anything was done and
is no step at all. `versions` holds, for each directory, its contents
at the last sync and at every moment since; `PowerLoss` lets each directory come back as any of them,
independently, which covers a file system that writes directories back in any order but keeps the
order within one. `SyncDirectory` may fail, and the code does not look. File contents are synced by
`SetContent` before they get a name. `moved` and `trust` are history variables: which files a Delete
has moved since the sync of their directory, and whether power was lost after a failed sync.

As a `FileStore`, `store` is the snapshot in the metadata file, `blind` is itself, `durable` the set of snapshots in the
versions of its directory, `reliable` says that no sync has failed, and the `job` is the upload or delete
under way, done from the `rename` in `Persist` on. That rename is the one step that maps to `Commit`;
the sync after it to `Sync` or `SyncFails`; all the other calls of a handler stutter until it
answers. The table in memory, stored and temporary files do not appear in the map: downloads, residues
and undone steps are invisible in it. Bytes are the matter of the invariants.

**RangeDownload.** A header is what the parser distinguishes: prefix, comma, dashes, and on each
side of the dash an empty text, junk or a number up to one more than `uint64_t` holds. `Wrap` is
the arithmetic of the type. One action parses and answers.

**AccessControl.** The clock interleaves with requests. Login is two steps (`Allow`, then the
outcome after PBKDF2), logout is two (it authenticates twice). An absent `attempts_` entry and a
value-initialised one behave alike and are one value. The clock is `system_clock`, so `StepClock`
may set it to any time. Tokens are fresh numbers. `failed` is a history variable: the times of the
last `2 * MaxFailures - 1` wrong passwords of an address since its last correct one.

**RemoteBackup.** A connection is one attempt of one client: how many parts of the payload were
handed over, whether the client closed its end (after success or failure), how many the server has
read, and where the server is with it. Closing a socket ends the stream after what was handed over,
so a failed attempt looks to the server like a short record. One turn of the accept
loop is one step: it alone raises the counter, so a handler that gives back its slot meanwhile changes
nothing it looks at, and `Refuse` stands for the turns that raise the counter and lower it again on an
error path: nobody but the loop could act on the value in between, but that those paths are balanced is read off the
code and not checked. The destructor of `ConnectionGuard` closes the socket and lowers the counter in
two steps, which clients and the loop do see. `stored` is what the callback was given.

**BackupFile.** `Write` holds the writer's mutex, so one `pc` suffices. Each file system call is a
step that may fail, and the process may die between two of them or in the middle of `fwrite`. A file
is the sequence of messages in it and its size; `rename` replaces its target. `lost` is a history
variable. It is not composed with `RemoteBackup`: the callback returns nothing to the handler, and
the mutex makes the order of writers the only thing the two share.

**RollFile and Logger.** A stream is what it has taken, what stdio still holds and its error
indicator; `fwrite` may hand any prefix to the kernel, a failed write leaves the rest and sets the
indicator, `fclose` tries once more and its result is ignored. A batch passes `EnsureFile`, `Open`,
`WriteAll` and `ApplyFlushPolicy`, one step each. `Logger` puts it under the worker: `Log` accepts a
message and remembers that its backup is due, `BackupFatal` and `BackupError` are the two branches of
`Serialize` after `Push`, `RealFlush` delivers a batch of any size. `main` is the control state of
`Test.cpp`, its error paths included; a thread that cannot be created ends in `terminated`, because
the vector of the pool's threads is destroyed while some are joinable. The sink goes with the logger when
an exception has ended the run (`Join`); otherwise the builder in `main` still holds it, and the file is
closed when `main` returns, after the pool is gone (`Exit`). The pool is its queue and the
set of running tasks, `backup::Start` is its result: `ThreadPool` and `RemoteBackup` have the details.
`ImplementsQueue` says that this is how the pool may be seen: with the configured limit and number of
threads, the queue, the running tasks and the stage of `main` behave as a `TaskQueue`, the specification
that `ThreadPool` implements.

**NameCodec.** Strings are sequences of byte values here, because the conversions work on them.
`base64_decode` is the overload with an output parameter that `Upload` calls; group arithmetic is
that of the code. The properties compare it with the meaning of base64 as a string of bits.

## 3. Runs

| Run | Question | Bounds |
|---|---|---|
| `async_all` | loss, order, drain, lost wakeups, memory bound (ASYNC_SAFE); every `Push` and `Stop` returns; refinement of `LogChannel` with its fairness | 2 producers, 2 stoppers, 4 pushes of messages of 0, 1 and 4 bytes, buffer 2, size limit 9: waits, growth and an oversized message all occur; the theorems cover every other size |
| `async_unsafe` | buffers stay consistent while they grow without back-pressure | 4 pushes, up to 16 bytes against a limit of 9: doubling, linear steps and both overflow branches occur |
| `pool_all` | order, exactly once, no sleeper forgotten; accepted tasks run, calls and destructor return; refinement of `TaskQueue` | 2 clients, 2 workers, 3 tasks, a queue of 1 (both clients sleep on a full queue when the destructor begins) and one of 2 (two tasks wait in order) |
| `storage_crash` | durability, no overwrite, no removal but of one's own, memory equals disk, no residue; refinement of `FileStore` | 2 names, 2 uploads, 3 faults, 2 crashes or losses of power: delete and re-upload, orphan then re-upload, failing undo of a failing step, a start without the metadata, power lost before each sync |
| `storage_slash` | restart with the shipped configuration (violated, see findings) | 1 upload |
| `range_all` | exact bytes at every integer edge | all headers and sizes for `UMax = 5` |
| `range_malformed` | malformed ranges are ignored (violated, see findings) | `UMax = 3` |
| `access_all` | live sessions, own CSRF token, no revival, failures within any minute | 1 address (no step looks at two), 2 logins, 6 instants, 1 clock step, time to live 2, minute 2, limit 3: the end of one window and the start of the next fall within a minute, the bound is attained |
| `backup_rotate` | size limit, order and retention of the rotated files | 3 generations, 6 messages of 1, 3 and 4 against a limit of 3, 2 failures, 1 crash: a rotation cut short, one over the gap it left, and an oversized message |
| `backup_all` | connection count, duplicates, truncated records, `Start` returns, delivery | 2 clients, 2 attempts each, room for 1 connection, 2 parts, no token (as shipped), 1 failure besides the refusals, so that both attempts of a call can fail |
| `logger_all` | backups accounted for, no silent loss, everything stored at exit, file size, drops, end of the program; the pool as a `TaskQueue` | 1 thread that logs (its steps on the worker and the pool are atomic here; the detailed modules have several), 3 messages of 1 or 2 bytes against a file of 2, queue 1, 2 failing calls, 3 configurations that pass and 5 that are refused: a roll after a failure, a full queue, both counters |
| `names_all` | stored name and link of a file | names of up to 5 bytes over eight bytes that matter to a conversion, headers of up to 5 characters; limits scaled to 4, 8 and 22 so that both sides of each occur |

Deadlock checking is off where the system may stop: a worker or pool that was shut down, one
reply per behaviour in `RangeDownload`, clients with nothing left to send. The storage server and access control never stop and are
checked for deadlock. Bounds on pushes, tasks, uploads, faults, crashes, logins and time are
constants named `Max...`; they limit the environment, never a loop of the code.

**Fairness.** Weak fairness per thread for the code inside `Push`, `ThreadEntry`, `Stop`,
`Enqueue`, `WorkerLoop`, the destructor, `backup::Start`, the accept loop and each handler, and in
`Logger` for `main`, the worker, the pool and the rest of each `Log`: the operating system schedules a runnable thread, and
a mutex that is repeatedly free is eventually obtained. Calls into the components, spurious
wakeups and `Stop` itself are not fair, nor is the end of the server's run. In `AsyncWorker` and
`ThreadPool` sinks and tasks are assumed to return; that a call of `backup::Start`, which is what a
task of the pool is, returns is part of `SendsComplete`.

### Findings

1. `storage_slash`: with directories that end in a slash, as in the shipped `Storage.conf`, the
   entry written by an upload does not load again: `parent_path()` of the stored path is
   `low_storage`, the normalised directory is `low_storage/`, and the comparison in
   `DataManager::ParseStorageInfo` fails, so the server does not start again. The unit tests
   state that a stored entry loads again and use directories without the slash. A directory written
   as `.` fails the same comparison (its parent is the empty path).
2. `range_malformed`: the parser reports a start beyond the file before it looks at the text
   after the dash; such a malformed header gets 416, where the README promises a full 200.

Results that are worth knowing although they are no errors: the throttle admits up to
`2 * 5 - 2 = 8` wrong passwords within a minute, because its window is anchored at the first
failure; and a crash between `link` and `Insert` leaves a file that is not overwritten but blocks
its name with 409 from then on; `Start` returning true means that the kernel took the payload, and a
server that is full drops it silently (`Delivered` names the exceptions); and every rotation that is
cut short costs one generation more than the limit required.

A start that does not see the metadata: when the `stat` of the metadata file fails (`DataManager.cpp:46`),
`Exists` answers false, and the file is taken for missing, although the constructor means to refuse
metadata it cannot load. The server runs with an empty table, and its first upload replaces the metadata:
every entry it held is gone, acknowledged uploads too, while the files stay and block their names with
409. `DurableUploads`, `MemoryMatchesDisk`, `NoResidue` and `FileStore` name this case and allow that one
loss; `OnlyOwnRemoved`, `NoOverwrite` and `BytesOfEntriesExist` hold through it.

A loss of power: an acknowledged upload survives it if the syncs of its directory and of the metadata
directory succeeded; the code ignores their result, and after a failed one the file or its entry may
be gone. A Delete that failed and was undone leaves a window, until the next sync of that directory,
in which a loss of power brings the file back under its trash name; the bytes exist, but nothing
looks for them. The log file: after one failed write to a file its stream keeps the error indicator,
so each later batch is reported as failed although it is written, the flush policy is skipped, and the
file is no longer counted; one whose first write failed is never rolled. With `flush_log` 0 a failure
in `fclose` loses data without a report. A thread that the pool cannot create ends the program in
`std::terminate` rather than in the "startup failed" path, unless it is the first.

## 4. Theorems

Every safety property of a passing run is also a theorem, for every value of the constants that meets
the assumptions named in the modules, but for the two of `NameCodec`. Each proof module states an
inductive invariant first, one lemma per action that preserves it, and then the theorems, which follow
from it. The invariants were model-checked before they were proved. The specifications with
fairness imply the ones the theorems are about (`SafetySpec`, where there are two).

**`AsyncWorkerProofs`**, from the assumptions on message lengths, positive buffer size and growth, and
initial size and lengths within `size_t`: `TypeOK`, `NothingLost`, `Drained`, `BackpressureBound`,
`NoLostWakeup`, `NoAcceptAfterStop`, and that the safety specification implements
`LogChannel!SafetySpec`. None of these is inductive alone. `IndInv` adds:

* `GrowExclusive`: at most one producer is in the growth loop, which is what makes the other
  critical sections atomic;
* `GrowOK`: that producer found the buffer too small, `stopping_` is unset, and the size reached so
  far and the size required are within the bounds;
* `EmptyOK`: a buffer is empty exactly when it holds no message, and outside `flush` the consumer
  buffer is empty, without which the swap could bring old bytes back;
* `StopOK`: who has set `stopping_`, and that a finished worker implies `stopping_` and two empty
  buffers; `Drained` follows from it and `NothingLost`;
* `SleepOK`: who may sleep in which state; both wakeup properties follow.

**`ThreadPoolProofs`**, for any finite sets of clients and workers and any positive limit:
`TakenInOrder`, `RunOnce`, `NoIdleThread`. The two halves of `NoIdleThread` count sleepers, pending
notifications and queued tasks, and are inductive together with the type. `RunOnce` needs `FreshOK`
(a call submits a task of its own), `OnceOK` (a task that was taken is finished or with exactly one
worker) and `PhaseOK` (a worker leaves only with `stopping_` set and the queue empty, so after the
joins nothing can be left). `Refinement` states `ImplementsQueue`, and uses the same parts: a task about to
be accepted is neither queued nor running (`FreshOK` and `TakenInOrder`), a task that returns leaves
no copy with another worker (`OnceOK`), the busy workers are fewer than the pool has, because the one that
takes a task is not busy, and the last join finds nothing left (`PhaseOK`). `TaskQueue` has no fairness:
that tasks run and calls return is `TasksRun` and `AllReturn`. `TakenInOrder` is a theorem and a part of the
invariant; no run lists it, because on an instance `ImplementsQueue` says as much.

**`RangeDownloadProofs`**: `WithinFile`, `ExactBytes` and `HonouredWhenCurrent` for every `UMax`, hence
for the real width of `uint64_t`, from lemmas on the suffix and the from-to form, and one that a
well-formed header is never ignored by the parser.

**`AccessControlProofs`**, with two separate invariants.

* `SessionInv` gives `LiveSessionOnly`, `CsrfOfSession` and `NoRevival`: an entry of the store has the
  CSRF token and the end of the login that made it (`EntriesOK`), and a token that was refused has no
  entry (`RefusedOK`), so that stepping the clock back cannot bring it back.
* `ThrottleInv` gives `ThrottleBound`: it relates the entry of an address to the failures it stands
  for. A window that is not full began with the first failure it counts, and at least a minute after
  the `MaxFailures - 1`st failure before that (`WindowOK`); with no window the `MaxFailures - 1`st
  failure from the end is a minute old (`NoWindowOK`); a full one blocks for a minute from its last
  (`FullOK`). It assumes a limit of at least two; the code has five.

**`BackupFileProofs`**, for any number of generations, sizes, failures and crashes: `SizeBound`,
`Chronological`, `KeepsRetained`, `OnlyOldestLost`. The key part is `HoleOK`: the slot that the next
rename of a rotation fills is free unless it is the oldest, also when an earlier rotation was cut
short; `PackedOK` says that without failures the generations have no other gap.

**`RemoteBackupProofs`**, for any number of clients, attempts, parts and connections: `CountExact`,
`StoredRecords`, which is `WholeAtMostOnce` and `TruncatedOnlyIfFailed`. The invariant ties a connection to the call that made it:
the open ones are the current ones of the clients that send (`OwnOK`), one that was closed in good
order carried everything and its call returned true (`ConnsOK`, `ClosedOK`), what is stored is all
that a connection carried, stored once, after the client was done with it (`StoredOK`).

**`StorageServiceProofs`**, for any set of names and any number of uploads, failing calls, crashes and
losses of power: `DurableUploads`, `BytesOfEntriesExist`, `MemoryMatchesDisk`, `NoResidue`,
`NoOverwrite`, `OnlyOwnRemoved`. They hold for every way of writing the directories and also for a
server that started without the metadata, with what they give up then: `DurableUploads` and `NoResidue` speak
of executions in which such a server has not written the metadata, or of what was uploaded after that,
and `MemoryMatchesDisk` says what its table is. The invariant has three parts:

* `HandlerInv`: what the handler holds at each label, what it knows of the table, and which bytes are
  at its path; `NoOverwrite`, `OnlyOwnRemoved` and `MemoryMatchesDisk` rest on it. The table is the
  `View` of the metadata, empty while `blind`, and a Delete never runs then;
* `ResidueOK`: while nothing was interrupted, no removal failed and no metadata was replaced unread, the
  temporary files are those of the running handler and the files those of the entries. It needs
  `PathFree`: where an upload has linked its file the metadata lists none, also if the server has not
  read it, because `link` found the path free and the files were those of the entries;
* `DurableInv`: not about the disk as it is but about every state each directory might come back in.
  Whatever combination of directory contents a loss of power leaves, the bytes of every entry
  exist (`CrossOK`) and what is owed is there (`OwedOK`). It holds because the directory of an upload is
  synced before its entry is written, and the metadata before a trash is removed (`SyncedOK`), and
  because an upload has one name (`OwnedOK`), so that the trash of one file is never taken for
  another's.

`Refinement` states `ImplementsStore`: every step is a step of `FileStore` or none. The lemmas go by the
kind of step: those that leave the request under way (`StepShape` says that a handler goes on without a
change of the map, or answers), the rename in `Persist`, the sync after it, the syncs of the other
directories, the moves of Delete, the beginning of a request, start and end of the process, crash and loss
of power. It rests on `HandlerInv`: the snapshot that is renamed differs from the one on disk by the
request's own name, or, after a start without the metadata, from the empty map, because memory equals the
`View` (`MemoryMatchesDisk`), and the table knows of the
name what the handler saw when it began (`TableOK`). That a request is answered as done only when every
version of the metadata directory has its change, unless a sync has failed, is in `SyncedOK` of `DurableInv`.
One assumption is about the model, `JobAssumption`: `None` is no job.

The attempt to prove `DurableInv` showed an error of an earlier version of the model: it took the
identity of the bytes a Delete moves from the table, where the code moves whatever is at the path.
The two differ once a loss of power has left an older snapshot with a newer file.

**`LoggerProofs`**, for any number of threads that log, messages, failing calls and configurations:
`RollBound`, `NoSilentLoss`, `AccountedAtExit` (which is `StoredAtExit` and `BackupsAccounted`),
`DropsOnlyWhenFull`, `ImplementsQueue`.

* The sink: `LossOK` says where a delivered message is at each label of `Flush`, `BufferOK` when the
  stream may hold something, `RollOK` that `current_size_` is the size of a file without an error and
  zero only if nothing was written to it. The last needs that a batch has a positive size, and this is
  why `LoggerAssumption` has messages of at least one byte: a formatted message has at least its
  brackets and its newline.
* The backups: `CountOK` is the balance of messages due, waiting, queued, running, sent and counted;
  `ApartOK` and `NumberedOK` keep the sets in it apart; `PoolOK` says at which point of `main` the pool
  exists and is stopping, from which `DropsOnlyWhenFull` follows.
* The pool: `QueueCorrect` states `ImplementsQueue`. `ApartOK` makes a submitted message new to the queue,
  and `StageOK`, an invariant of its own, ties the flag of the pool to the stage of `main`, so that
  `thread_pool.reset()` closes a pool that was open and the program goes on only past one that is empty.

Type correctness is a theorem in each of these modules, or a conjunct of its `Invariance`. The assumptions
that a model value such as `None` or `NoFile` is none of the values it stands beside are named too.

Only model-checked:

* liveness and fairness, out of the prover's reach: `CallsReturn` of `AsyncWorker`, `TasksRun` and
  `AllReturn` of `ThreadPool`, `SendsComplete` of `RemoteBackup`, `ShutdownEnds` of `Logger`, and the
  fairness part of the refinement of `LogChannel` (`TaskQueue` and `FileStore` have none);
* `NameOfHeader` and `LinkReaches` of `NameCodec`: what a conversion computes for every input needs
  induction over strings. The induction theorems of the library take an operator as a parameter, which
  the provers cannot instantiate. Where a proof needed induction over a sequence (`BytesPositive` of
  `LoggerProofs`, on the size of a batch), it takes the least counterexample in a set of numbers
  instead; that works for one recursive function and a small step, not for the decoder.

## 5. Not modelled

Exceptions of the allocator outside `Buffer`, lifetime of destroyed objects, PBKDF2, JSON and HTML
text, cookie syntax, libevent; `StdoutFlush` and the life of a `FileFlush`, which keep no state of
their own; the server's configuration (`Config.hpp`), whose checks are the assumptions on the
constants, but for two things it lets pass: the prefixes `/` and `/api/`, under which routes shadow
files, and a storage directory with a trailing slash or written as `.` (finding 1); the pages, the benchmark, the example
and the vendored `bundle.h`.

## 6. Plan

Done: all modules above, theorems for every safety property of their runs except those of `NameCodec`,
and the
refinements of `LogChannel`, `TaskQueue` (by `ThreadPool` and by `Logger`) and `FileStore`. Left, should the provers get an induction rule they can instantiate: the
round trips of `NameCodec`, one group of base64 and one escape at a time.
