----------------------------- MODULE BackupFile -----------------------------
(***************************************************************************)
(* BackupFileWriter of the backup server: an append-only file that is      *)
(* rotated through Retained older generations.                             *)
(*                                                                         *)
(* Write holds the mutex throughout, so writers do not interleave; a step  *)
(* is one file system call, which may fail, and the process may die        *)
(* between two of them.  A message is its number and its size; a file is   *)
(* the messages it holds (whole or cut short) and its size.                *)
(*                                                                         *)
(* An operator named ...Mutant is a faulty variant of the one below it; it *)
(* is no part of the specification and only shows that a property can fail.*)
(***************************************************************************)
EXTENDS Naturals, Sequences, FiniteSets

CONSTANTS
  Retained,     \* retained_files_
  MaxSize,      \* max_size_
  Sizes,        \* sizes of messages
  None,         \* no such file
  MaxMessages,  \* bound: calls of Write
  MaxFaults,    \* bound: calls that fail
  MaxCrashes    \* bound: deaths of the process

\* The program keeps the default of five generations, and a message is never
\* empty: the address of the client is part of it.
ASSUME BackupFileAssumption ==
  /\ Retained \in Nat \ {0} /\ MaxSize \in Nat
  /\ Sizes \subseteq Nat \ {0} /\ IsFiniteSet(Sizes) /\ Sizes # {}
  /\ MaxMessages \in Nat /\ MaxFaults \in Nat /\ MaxCrashes \in Nat
  /\ None \notin [ids : Seq(1 .. MaxMessages), size : Nat]

VARIABLES
  gen,      \* gen[0] is filename_, gen[i] is filename_.i
  pc,       \* where Write is
  index,    \* the loop variable of RotateIfNeeded
  size,     \* the size of the message being written
  count,    \* messages so far; also the name of the current one
  faults,
  crashes,
  lost      \* history: messages that were in a file and are in none

vars == <<gen, pc, index, size, count, faults, crashes, lost>>

Slots == 0 .. Retained
Ids == 1 .. MaxMessages
Empty == [ids |-> <<>>, size |-> 0]

Held(g) == UNION {{g[i].ids[j] : j \in DOMAIN g[i].ids} :
                    i \in {k \in Slots : g[k] # None}}

Init ==
  /\ gen = [i \in Slots |-> None]
  /\ pc = "idle" /\ index = 0 /\ size = 0
  /\ count = 0 /\ faults = 0 /\ crashes = 0
  /\ lost = {}

Fault == faults < MaxFaults /\ faults' = faults + 1
NoFault == UNCHANGED faults

\* The call is over; what no file holds any more is lost.
Forget == lost' = lost \cup (Held(gen) \ Held(gen'))
Goto(label) == pc' = label
Stays == UNCHANGED <<size, count, crashes>>

-----------------------------------------------------------------------------
CurrentSize == IF gen[0] = None THEN 0 ELSE gen[0].size

FitsMutant(n) == CurrentSize <= MaxSize

Fits(n) == CurrentSize + n <= MaxSize

TooYoungMutant == Retained - 1

\* The loop starts at the oldest generation.
FirstIndex == Retained

\* Write is entered and the size of the file is looked up.
Write(n) ==
  /\ pc = "idle" /\ count < MaxMessages
  /\ count' = count + 1
  /\ size' = n
  /\ \/ /\ NoFault
        /\ pc' = IF Fits(n) THEN "append" ELSE "oldest"
     \/ Fault /\ pc' = "idle"
  /\ UNCHANGED <<gen, index, crashes, lost>>

\* The oldest generation is removed; a failure is ignored.
RemoveOldest ==
  /\ pc = "oldest"
  /\ \/ NoFault /\ gen' = [gen EXCEPT ![Retained] = None]
     \/ Fault /\ UNCHANGED gen
  /\ index' = FirstIndex
  /\ Goto("shift") /\ Forget /\ Stays

CopyMutant(from, to) ==
  IF gen[from] = None THEN gen ELSE [gen EXCEPT ![to] = gen[from]]

\* rename(2) replaces whatever has the new name.
Renamed(from, to) ==
  IF gen[from] = None THEN gen
  ELSE [gen EXCEPT ![to] = gen[from], ![from] = None]

ShiftMutant ==
  /\ pc = "shift" /\ index > 1
  /\ \/ NoFault /\ gen' = Renamed(index - 1, index)
     \/ Fault /\ UNCHANGED gen
  /\ index' = index - 1
  /\ UNCHANGED pc /\ Forget /\ Stays

\* One turn of the loop; the first failure ends the rotation and the call.
Shift ==
  /\ pc = "shift" /\ index > 1
  /\ \/ /\ NoFault /\ gen' = Renamed(index - 1, index)
        /\ index' = index - 1 /\ UNCHANGED pc
     \/ Fault /\ Goto("idle") /\ UNCHANGED <<gen, index>>
  /\ Forget /\ Stays

\* The current file becomes the youngest generation.
MoveCurrent ==
  /\ pc = "shift" /\ index <= 1
  /\ \/ NoFault /\ gen' = Renamed(0, 1) /\ Goto("append")
     \/ Fault /\ Goto("idle") /\ UNCHANGED gen
  /\ Forget /\ Stays /\ UNCHANGED index

Grown(n) ==
  LET f == IF gen[0] = None THEN Empty ELSE gen[0]
  IN  [gen EXCEPT ![0] = [ids |-> Append(f.ids, count), size |-> f.size + n]]

\* fopen, fwrite, a newline if the message has none, fflush, fsync, fclose.
\* If one of them fails any part of the message may be in the file.
AppendMessage ==
  /\ pc = "append"
  /\ \/ NoFault /\ \E newline \in {0, 1} : gen' = Grown(size + newline)
     \/ Fault /\ UNCHANGED gen
     \/ Fault /\ \E n \in 0 .. size + 1 : gen' = Grown(n)
  /\ Goto("idle") /\ Forget /\ Stays /\ UNCHANGED index

\* The server is killed and started again, maybe in the middle of fwrite.
Crash ==
  /\ pc # "idle" /\ crashes < MaxCrashes
  /\ crashes' = crashes + 1
  /\ \/ UNCHANGED gen
     \/ pc = "append" /\ \E n \in 0 .. size + 1 : gen' = Grown(n)
  /\ Goto("idle")
  /\ UNCHANGED <<index, size, count, faults, lost>>

Next ==
  \/ \E n \in Sizes : Write(n)
  \/ RemoveOldest \/ Shift \/ MoveCurrent \/ AppendMessage
  \/ Crash

Spec == Init /\ [][Next]_vars
-----------------------------------------------------------------------------
(* Properties *)

Largest == CHOOSE n \in Sizes \cup {MaxSize} :
             \A m \in Sizes \cup {MaxSize} : m <= n

\* Every variable has its type.
TypeOK ==
  /\ DOMAIN gen = Slots
  /\ \A i \in Slots : gen[i] # None => gen[i] \in [ids : Seq(Ids), size : Nat]
  /\ pc \in {"idle", "append", "oldest", "shift"}
  /\ index \in Slots
  /\ size \in Sizes \cup {0}
  /\ count \in 0 .. MaxMessages
  /\ faults \in 0 .. MaxFaults /\ crashes \in 0 .. MaxCrashes
  /\ lost \subseteq Ids

\* No file outgrows the limit by more than the newline that Write adds without
\* counting it, unless a single message does: also not when rotations fail or
\* are cut short for as long as messages keep coming.
SizeBound ==
  \A i \in Slots : gen[i] # None => gen[i].size <= Largest + 1

\* Reading the generations from the oldest to the current file gives the
\* messages in the order they were written, after any failure or crash in the
\* middle of a rotation.
Chronological ==
  \A i, j \in Slots : gen[i] # None /\ gen[j] # None =>
    \A a \in DOMAIN gen[i].ids, b \in DOMAIN gen[j].ids :
      i > j \/ (i = j /\ a < b) => gen[i].ids[a] < gen[j].ids[b]

\* A message disappears only from the oldest slot: no rename of a rotation,
\* also of one that follows an interrupted one, replaces a younger generation.
OnlyOldestLost ==
  [][\A i \in Slots : i < Retained /\ gen[i] # None =>
       {gen[i].ids[j] : j \in DOMAIN gen[i].ids} \subseteq Held(gen')]_vars

\* While nothing fails, a message is given up only when all the retained
\* generations exist besides the current file.
KeepsRetained ==
  pc = "idle" /\ faults = 0 /\ crashes = 0 /\ lost # {} =>
    \A i \in Slots : gen[i] # None
=============================================================================
