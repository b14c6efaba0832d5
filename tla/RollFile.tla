------------------------------ MODULE RollFile ------------------------------
(***************************************************************************)
(* RollFileFlush, the sink that writes a log into files of limited size,   *)
(* with the stdio stream under it and calls that fail (LogFlush.hpp).      *)
(*                                                                         *)
(* Only the worker thread calls a sink, so there is one pc.  Of stdio the  *)
(* model keeps what decides where a message ends up: fwrite leaves data in *)
(* the stream's buffer and hands any prefix of it to the kernel, a write   *)
(* the kernel refuses sets the error indicator of the stream, which        *)
(* nothing ever clears, and leaves the rest in the buffer, and fclose      *)
(* tries once more and gives up.  A file name holds the time, the pid and  *)
(* a sequence number, so a file that is opened is new and empty.  Messages *)
(* are taken whole: a torn one counts as not taken.                        *)
(*                                                                         *)
(* An operator named ...Mutant is a faulty variant of the one below it; it *)
(* is no part of the specification and only shows that a property can fail.*)
(***************************************************************************)
EXTENDS Naturals, Sequences, Functions

CONSTANTS
  SizeOf(_),   \* bytes of a formatted message
  NoFile,      \* file_ == nullptr
  MaxSize,     \* max_size_
  MaxFaults    \* bound: calls that fail

ASSUME RollAssumption == MaxSize \in Nat \ {0} /\ MaxFaults \in Nat

VARIABLES
  spc,           \* where the worker is in Flush
  batch,         \* the messages it was called with
  len,           \* their size
  file,          \* file_: what is in it, what stdio still holds, ferror
  current_size,  \* current_size_
  stored,        \* history: messages the kernel has, in any file
  reported,      \* history: messages of batches that perror told of
  faults         \* calls that failed

sink == <<spc, batch, len, file, current_size, stored, reported>>

Bytes(msgs) ==
  LET sum[i \in 0 .. Len(msgs)] ==
        IF i = 0 THEN 0 ELSE sum[i - 1] + SizeOf(msgs[i])
  IN  sum[Len(msgs)]

NewFile == [bytes |-> 0, writes |-> 0, buffer |-> <<>>, error |-> FALSE]

SinkInit ==
  /\ spc = "idle" /\ batch = <<>> /\ len = 0
  /\ file = NoFile /\ current_size = 0
  /\ stored = {} /\ reported = {}
  /\ faults = 0

Fault == faults < MaxFaults /\ faults' = faults + 1
NoFault == UNCHANGED faults

-----------------------------------------------------------------------------
(* The stream *)

\* The kernel takes the first k messages of what the stream holds.
Kernel(data, k) == stored' = stored \cup Range(SubSeq(data, 1, k))
Rest(data, k) == SubSeq(data, k + 1, Len(data))

\* Its result is ignored, by EnsureFile and by the destructor.
Fclose ==
  /\ \/ NoFault /\ Kernel(file.buffer, Len(file.buffer))
     \/ \E k \in 0 .. Len(file.buffer) - 1 : Fault /\ Kernel(file.buffer, k)
  /\ file' = NoFile

-----------------------------------------------------------------------------
(* Flush *)

Flush(msgs) ==
  /\ spc = "idle"
  /\ spc' = "ensure" /\ batch' = msgs /\ len' = Bytes(msgs)
  /\ UNCHANGED <<file, current_size, stored, reported, faults>>

Return == spc' = "idle" /\ batch' = <<>> /\ len' = 0
Goto(label) == spc' = label /\ UNCHANGED <<batch, len>>
Report == reported' = reported \cup Range(batch)

\* Mutant: the incoming batch is not counted.
FitsMutant == current_size = 0 \/ current_size <= MaxSize

\* max_size_ - min(current_size_, max_size_), so that nothing wraps around.
Fits ==
  \/ current_size = 0
  \/ len <= MaxSize - (IF current_size < MaxSize THEN current_size ELSE MaxSize)

\* The open file takes the batch, or is closed to make place for the next.
EnsureFile ==
  /\ spc = "ensure"
  /\ \/ /\ file # NoFile /\ Fits
        /\ Goto("write") /\ UNCHANGED <<file, stored, faults>>
     \/ file # NoFile /\ ~Fits /\ Fclose /\ Goto("open")
     \/ file = NoFile /\ Goto("open") /\ UNCHANGED <<file, stored, faults>>
  /\ UNCHANGED <<current_size, reported>>

\* file_size of the new file is 0, and so is current_size_ if it fails.
Open ==
  /\ spc = "open"
  /\ \/ /\ NoFault /\ file' = NewFile /\ current_size' = 0
        /\ Goto("write") /\ UNCHANGED reported
     \/ Fault /\ Report /\ Return /\ UNCHANGED <<file, current_size>>
  /\ UNCHANGED stored

\* The loop of fwrite: n messages get into the stream, and k of what it then
\* holds get on to the kernel.  After a failure some of it does not.
Fwrite(n, k) ==
  LET taken == SubSeq(batch, 1, n)
      data == file.buffer \o taken
  IN  /\ Kernel(data, k)
      /\ \/ n = Len(batch) /\ NoFault
         \/ k < Len(file.buffer) + Len(batch) /\ Fault
      /\ file' = [file EXCEPT !.bytes = @ + Bytes(taken), !.writes = @ + 1,
                              !.buffer = Rest(data, k),
                              !.error = @ \/ faults' # faults]

\* WriteAll returns true only if ferror is clear: after one failure it reports
\* every later batch of the same file too, although it is written, and then
\* neither is current_size_ advanced nor the flush policy applied.
WriteAll ==
  /\ spc = "write"
  /\ \E n \in 0 .. Len(batch) :
       \E k \in 0 .. Len(file.buffer) + n : Fwrite(n, k)
  /\ \/ /\ ~file'.error
        /\ current_size' = current_size + len
        /\ Goto("policy") /\ UNCHANGED reported
     \/ file'.error /\ Report /\ Return /\ UNCHANGED current_size

\* Mutant: fflush is tied to fsync.
PolicyMutant(flush_log) ==
  /\ spc = "policy"
  /\ \/ flush_log < 2 /\ UNCHANGED <<file, stored>>
     \/ /\ flush_log = 2
        /\ Kernel(file.buffer, Len(file.buffer))
        /\ file' = [file EXCEPT !.buffer = <<>>]
  /\ Return
  /\ UNCHANGED <<current_size, reported, faults>>

\* flush_log 0 leaves the data with stdio, 1 calls fflush, 2 fsync as well.
ApplyFlushPolicy(flush_log) ==
  /\ spc = "policy"
  /\ \/ /\ flush_log = 0 /\ NoFault
        /\ UNCHANGED <<file, stored, reported>>
     \/ /\ flush_log >= 1 /\ NoFault
        /\ Kernel(file.buffer, Len(file.buffer))
        /\ file' = [file EXCEPT !.buffer = <<>>]
        /\ UNCHANGED reported
     \/ /\ flush_log >= 1 /\ Fault /\ Report
        /\ \E k \in 0 .. Len(file.buffer) - 1 :
             /\ Kernel(file.buffer, k)
             /\ file' = [file EXCEPT !.buffer = Rest(@, k), !.error = TRUE]
     \/ /\ flush_log = 2 /\ Fault /\ Report
        /\ Kernel(file.buffer, Len(file.buffer))
        /\ file' = [file EXCEPT !.buffer = <<>>]
  /\ Return
  /\ UNCHANGED current_size

FlushStep(flush_log) ==
  EnsureFile \/ Open \/ WriteAll \/ ApplyFlushPolicy(flush_log)

\* ~RollFileFlush
CloseSink ==
  /\ \/ file # NoFile /\ Fclose
     \/ file = NoFile /\ UNCHANGED <<file, stored, faults>>
  /\ UNCHANGED <<spc, batch, len, current_size, reported>>

-----------------------------------------------------------------------------
(* Properties *)

\* A file outgrows max_size_ only by the one batch it was opened for, or after
\* a write to it has failed: current_size_ is then no longer the size of the
\* file, and a file whose first write failed is never rolled at all.
RollBound ==
  file # NoFile /\ ~file.error /\ file.bytes > MaxSize => file.writes = 1
=============================================================================
