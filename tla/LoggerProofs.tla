---------------------------- MODULE LoggerProofs ----------------------------
(***************************************************************************)
(* Proofs about Logger and the rolling file under it, for any number of    *)
(* callers, messages and failing calls, any sizes, any limit of a file and *)
(* any configuration: what becomes of a delivered message, when a file may *)
(* outgrow its limit, and that every backup is accounted for.              *)
(***************************************************************************)
EXTENDS Logger, FiniteSetTheorems, SequenceTheorems, TLAPS

-----------------------------------------------------------------------------
(* The inductive invariant: where main is.                                 *)

Before == {"start", "pool", "logger"}
After == {"reset", "drain", "clear", "done"}

\* Nothing is logged before the logger is built, when the worker is joined the
\* sink has received all, and main leaves no file open.
QuietOK ==
  /\ Len(delivered) <= Len(accepted)
  /\ delivered = SubSeq(accepted, 1, Len(delivered))
  /\ main \in Before \cup {"terminated"} => accepted = <<>>
  /\ main \in Before \cup After \cup {"terminated"} =>
       delivered = accepted /\ spc = "idle"
  /\ main \in Before \cup {"done", "terminated"} => file = NoFile
  /\ main \notin {"start", "done"} => JsonData(conf)

-----------------------------------------------------------------------------
(* The inductive invariant: the sink.                                      *)

\* The batch of a call of Flush, and the file it is written to.
BatchOK ==
  /\ spc = "idle" => batch = <<>>
  /\ spc \in {"ensure", "open", "write"} => len = Bytes(batch) /\ batch # <<>>
  /\ spc \in {"write", "policy"} => file # NoFile
  /\ spc = "policy" => ~file.error
  /\ spc = "open" => file = NoFile

\* Whatever the sink holds was delivered, and a report tells of a failure.
SourceOK ==
  /\ stored \subseteq Range(delivered) /\ Range(batch) \subseteq Range(delivered)
  /\ file # NoFile => Range(file.buffer) \subseteq Range(delivered)
  /\ file # NoFile /\ file.error => faults > 0
  /\ reported # {} => faults > 0

\* With flush_log the stream of a file without an error holds nothing between
\* two batches.
BufferOK ==
  file # NoFile /\ ~file.error /\ conf.flush_log # 0 =>
    IF spc = "policy" THEN Range(file.buffer) \subseteq Range(batch)
    ELSE file.buffer = <<>>

\* Where a delivered message is.
Whereabouts(m) ==
  \/ m \in stored \cup reported
  \/ spc \in {"ensure", "open", "write"} /\ m \in Range(batch)
  \/ conf.flush_log = 0 /\ faults > 0
  \/ /\ conf.flush_log = 0 \/ spc = "policy"
     /\ file # NoFile /\ m \in Range(file.buffer)

LossOK == \A m \in Range(delivered) : Whereabouts(m)

\* current_size_ is the size of a file without an error.
RollOK ==
  file # NoFile /\ ~file.error =>
    /\ file.bytes = current_size
    /\ file.writes = 0 <=> current_size = 0
    /\ spc = "write" => Fits
    /\ file.bytes > MaxSize => file.writes = 1

SinkInv == QuietOK /\ BatchOK /\ SourceOK /\ BufferOK /\ LossOK /\ RollOK

-----------------------------------------------------------------------------
(* The inductive invariant: the backups.                                   *)

\* What main has set up.
PoolOK ==
  /\ main # "run" => \A c \in Callers : pending[c] = None
  /\ main \in {"start", "pool"} => ~tp /\ ~stopping
  /\ main \in {"logger", "run", "shutdown", "join"} => tp /\ ~stopping
  /\ tp => Len(tasks) <= conf.backup_queue_size
  /\ ~tp \/ main \in {"clear", "done"} => tasks = <<>> /\ running = {}

\* The messages have different numbers.
NumberedOK == \A i \in DOMAIN accepted : accepted[i].id = i

\* A message waits in one place.
ApartOK ==
  /\ \A c \in Callers : pending[c] # None =>
       /\ pending[c] \in Range(accepted)
       /\ pending[c] \notin Range(tasks) \cup running \cup sent
       /\ \A d \in Callers : pending[d] = pending[c] => d = c
  /\ Range(tasks) \cup running \cup sent \subseteq Range(accepted)
  /\ \A i, j \in DOMAIN tasks : tasks[i] = tasks[j] => i = j
  /\ Range(tasks) \cap running = {} /\ Range(tasks) \cap sent = {}
  /\ running \cap sent = {}

Waiting == {c \in Callers : pending[c] # None}

\* Every message to back up is waiting or accounted for.
CountOK ==
  /\ IsFiniteSet(sent) /\ IsFiniteSet(running) /\ IsFiniteSet(Backed)
  /\ BackupEnabled =>
       Cardinality(Backed) =
         Cardinality(sent) + failures + drops
           + Len(tasks) + Cardinality(running) + Cardinality(Waiting)
  /\ ~BackupEnabled =>
       sent = {} /\ failures = 0 /\ drops = 0 /\ tasks = <<>> /\ running = {}

BackupInv == PoolOK /\ NumberedOK /\ ApartOK /\ CountOK

IndInv == TypeOK /\ SinkInv /\ BackupInv

-----------------------------------------------------------------------------
(* Sequences, and the size of a batch.                                     *)

\* A set of numbers that is not empty has a smallest member.
LEMMA LeastExists ==
  ASSUME NEW T \in SUBSET Nat, T # {}
  PROVE  \E n \in T : \A m \in T : n <= m
<1>1. PICK n \in T : \A m \in T : <<m, n>> \notin OpToRel(<, Nat)
  BY NatLessThanWellFounded, WFMin
<1>2. ASSUME NEW m \in T PROVE n <= m
  <2>1. <<m, n>> \notin OpToRel(<, Nat)
    BY <1>1
  <2>2. ~(m < n)
    BY <2>1 DEF OpToRel
  <2> QED
    BY <2>2
<1> QED
  BY <1>2

\* The size of a batch of messages is a number, and it is not 0 unless the
\* batch is empty.
LEMMA BytesPositive ==
  ASSUME NEW msgs \in Seq(Messages)
  PROVE  Bytes(msgs) \in Nat /\ (msgs # <<>> => Bytes(msgs) > 0)
<1> DEFINE n == Len(msgs)
           IsSum(f) == f = [i \in 0 .. n |-> IF i = 0 THEN 0 ELSE f[i - 1] + SizeOf(msgs[i])]
           Upto(f, k) == /\ f \in [0 .. n -> Nat] /\ f[0] = 0
                         /\ \A i \in 1 .. k : f[i] = f[i - 1] + SizeOf(msgs[i])
           Bad == {k \in 0 .. n : ~ \E f : Upto(f, k)}
<1>1. n \in Nat /\ \A i \in 1 .. n : SizeOf(msgs[i]) \in Nat \ {0}
  BY LoggerAssumption
<1> HIDE DEF n
<1>2. Bad = {}
  <2> SUFFICES ASSUME Bad # {} PROVE FALSE
    OBVIOUS
  <2>1. PICK k \in Bad : \A j \in Bad : k <= j
    <3>1. Bad \in SUBSET Nat
      BY <1>1
    <3> HIDE DEF Bad
    <3> QED
      BY <3>1, LeastExists
  <2>2. k # 0
    <3>1. Upto([i \in 0 .. n |-> 0], 0)
      BY <1>1
    <3> QED
      BY <2>1, <3>1
  <2>3. k \in 1 .. n /\ k - 1 \in 0 .. n /\ k - 1 \notin Bad
    <3>1. Bad \subseteq 0 .. n
      OBVIOUS
    <3> HIDE DEF Bad
    <3> QED
      BY <1>1, <2>1, <2>2, <3>1
  <2>4. PICK f : Upto(f, k - 1)
    BY <2>3
  <2>5. PICK g : g = [f EXCEPT ![k] = f[k - 1] + SizeOf(msgs[k])]
    OBVIOUS
  <2>6. /\ g \in [0 .. n -> Nat] /\ g[k] = f[k - 1] + SizeOf(msgs[k])
        /\ \A i \in 0 .. n : i # k => g[i] = f[i]
    <3>1. f[k - 1] \in Nat /\ SizeOf(msgs[k]) \in Nat
      BY <1>1, <2>3, <2>4
    <3>2. f[k - 1] + SizeOf(msgs[k]) \in Nat
      BY <3>1
    <3> QED
      BY <1>1, <2>3, <2>4, <2>5, <3>2
  <2>7. Upto(g, k)
    <3>1. ASSUME NEW i \in 1 .. k PROVE g[i] = g[i - 1] + SizeOf(msgs[i])
      <4>1. CASE i = k
        BY <1>1, <2>3, <2>6, <4>1
      <4>2. CASE i # k
        <5>1. i \in 1 .. (k - 1) /\ i \in 0 .. n /\ i - 1 \in 0 .. n /\ i - 1 # k
          BY <1>1, <2>3, <4>2
        <5>2. f[i] = f[i - 1] + SizeOf(msgs[i])
          BY <2>4, <5>1
        <5> QED
          BY <2>6, <4>2, <5>1, <5>2
      <4> QED
        BY <4>1, <4>2
    <3>2. g[0] = 0
      BY <1>1, <2>3, <2>4, <2>6
    <3> QED
      BY <2>6, <3>1, <3>2
  <2> QED
    BY <2>1, <2>7
<1>3. PICK f : Upto(f, n)
  <2>1. n \in 0 .. n
    BY <1>1
  <2> HIDE DEF Upto
  <2> QED
    BY <1>2, <2>1
<1>4. IsSum(f)
  <2>1. ASSUME NEW i \in 0 .. n
        PROVE  f[i] = IF i = 0 THEN 0 ELSE f[i - 1] + SizeOf(msgs[i])
    BY <1>1, <1>3
  <2> QED
    BY <1>3, <2>1
<1>5. PICK s : s = (CHOOSE g : IsSum(g))
  OBVIOUS
<1>6. IsSum(s)
  BY <1>4, <1>5
<1>7. Bytes(msgs) = s[n]
  BY <1>5 DEF Bytes, n
<1>8. /\ s[0] = 0
      /\ \A i \in 1 .. n : s[i] = s[i - 1] + SizeOf(msgs[i])
  BY <1>1, <1>6
<1>9. \A i \in 0 .. n : s[i] \in Nat /\ (i # 0 => s[i] > 0)
  <2> DEFINE Odd == {i \in 0 .. n : ~(s[i] \in Nat /\ (i # 0 => s[i] > 0))}
  <2> SUFFICES ASSUME Odd # {} PROVE FALSE
    OBVIOUS
  <2>1. PICK k \in Odd : \A j \in Odd : k <= j
    <3>1. Odd \in SUBSET Nat
      BY <1>1
    <3> HIDE DEF Odd
    <3> QED
      BY <3>1, LeastExists
  <2>2. k # 0
    BY <1>8, <2>1
  <2>3. k \in 1 .. n /\ k - 1 \in 0 .. n /\ k - 1 \notin Odd
    BY <1>1, <2>1, <2>2
  <2>4. s[k - 1] \in Nat /\ SizeOf(msgs[k]) \in Nat \ {0} /\ s[k] = s[k - 1] + SizeOf(msgs[k])
    BY <1>1, <1>8, <2>3
  <2> QED
    BY <2>1, <2>4
<1>10. s[n] \in Nat /\ (n # 0 => s[n] > 0)
  BY <1>1, <1>9
<1>11. msgs # <<>> => n # 0
  BY EmptySeq DEF n
<1> QED
  BY <1>7, <1>10, <1>11

\* The members of a sequence.
LEMMA InRange ==
  ASSUME NEW S, NEW s \in Seq(S)
  PROVE  /\ \A x : x \in Range(s) <=> \E i \in 1 .. Len(s) : s[i] = x
         /\ Range(s) \subseteq S
BY DEF Range

\* The empty sequence has none.
LEMMA EmptyRange == Range(<<>>) = {}
BY DEF Range

\* The two parts of a sequence have the members of the whole.
LEMMA SplitRange ==
  ASSUME NEW S, NEW s \in Seq(S), NEW k \in 0 .. Len(s)
  PROVE  /\ SubSeq(s, 1, k) \in Seq(S) /\ SubSeq(s, k + 1, Len(s)) \in Seq(S)
         /\ Range(SubSeq(s, 1, k)) \cup Range(SubSeq(s, k + 1, Len(s))) = Range(s)
<1>1. PICK a, b, n : a = SubSeq(s, 1, k) /\ b = SubSeq(s, k + 1, Len(s)) /\ n = Len(s)
  OBVIOUS
<1>2. n \in Nat /\ k \in 0 .. n /\ \A i \in 1 .. n : s[i] \in S
  BY <1>1
<1>3. a \in Seq(S) /\ Len(a) = k /\ \A i \in 1 .. k : a[i] = s[i]
  BY <1>1, <1>2
<1>4. b \in Seq(S) /\ Len(b) = n - k /\ \A i \in 1 .. (n - k) : b[i] = s[k + i]
  <2>1. \A i \in (k + 1) .. n : s[i] \in S
    BY <1>2
  <2>2. /\ b \in Seq(S)
        /\ Len(b) = IF k + 1 <= n THEN n - (k + 1) + 1 ELSE 0
        /\ \A i \in 1 .. (n - (k + 1) + 1) : b[i] = s[(k + 1) + i - 1]
    BY <1>1, <1>2, <2>1, SubSeqProperties
  <2> QED
    BY <1>2, <2>2
<1>5. ASSUME NEW x \in Range(s) PROVE x \in Range(a) \cup Range(b)
  <2>1. PICK i \in 1 .. n : s[i] = x
    BY <1>1, <1>5, InRange
  <2>2. CASE i <= k
    BY <1>2, <1>3, <2>1, <2>2, InRange
  <2>3. CASE i > k
    <3>1. i - k \in 1 .. (n - k) /\ k + (i - k) = i
      BY <1>2, <2>3
    <3>2. b[i - k] = x
      BY <1>4, <2>1, <3>1
    <3> QED
      BY <1>4, <3>1, <3>2, InRange
  <2> QED
    BY <1>2, <2>1, <2>2, <2>3
<1>6. ASSUME NEW x \in Range(a) PROVE x \in Range(s)
  <2>1. PICK i \in 1 .. k : a[i] = x
    BY <1>3, <1>6, InRange
  <2>2. i \in 1 .. n /\ s[i] = x
    BY <1>2, <1>3, <2>1
  <2> QED
    BY <1>1, <2>2, InRange
<1>7. ASSUME NEW x \in Range(b) PROVE x \in Range(s)
  <2>1. PICK i \in 1 .. (n - k) : b[i] = x
    BY <1>4, <1>7, InRange
  <2>2. k + i \in 1 .. n /\ s[k + i] = x
    BY <1>2, <1>4, <2>1
  <2> QED
    BY <1>1, <2>2, InRange
<1> QED
  BY <1>1, <1>3, <1>4, <1>5, <1>6, <1>7

\* So have two sequences and their concatenation.
LEMMA ConcatRange ==
  ASSUME NEW S, NEW s \in Seq(S), NEW t \in Seq(S)
  PROVE  /\ s \o t \in Seq(S) /\ Len(s \o t) = Len(s) + Len(t)
         /\ Range(s \o t) = Range(s) \cup Range(t)
<1>1. PICK a, m, n : a = s \o t /\ m = Len(s) /\ n = Len(t)
  OBVIOUS
<1>2. /\ a \in Seq(S) /\ Len(a) = m + n /\ m \in Nat /\ n \in Nat
      /\ \A i \in 1 .. (m + n) : a[i] = IF i <= m THEN s[i] ELSE t[i - m]
  BY <1>1, ConcatProperties
<1>3. ASSUME NEW x \in Range(a) PROVE x \in Range(s) \cup Range(t)
  <2>1. PICK i \in 1 .. (m + n) : a[i] = x
    BY <1>2, <1>3, InRange
  <2>2. CASE i <= m
    BY <1>1, <1>2, <2>1, <2>2, InRange
  <2>3. CASE i > m
    <3>1. i - m \in 1 .. n /\ t[i - m] = x
      BY <1>2, <2>1, <2>3
    <3> QED
      BY <1>1, <3>1, InRange
  <2> QED
    BY <1>2, <2>1, <2>2, <2>3
<1>4. ASSUME NEW x \in Range(s) PROVE x \in Range(a)
  <2>1. PICK i \in 1 .. m : s[i] = x
    BY <1>1, <1>4, InRange
  <2>2. i \in 1 .. (m + n) /\ a[i] = x
    BY <1>2, <2>1
  <2> QED
    BY <1>2, <2>2, InRange
<1>5. ASSUME NEW x \in Range(t) PROVE x \in Range(a)
  <2>1. PICK i \in 1 .. n : t[i] = x
    BY <1>1, <1>5, InRange
  <2>2. m + i \in 1 .. (m + n) /\ ~(m + i <= m) /\ (m + i) - m = i
    BY <1>2, <2>1
  <2>3. a[m + i] = x
    BY <1>2, <2>1, <2>2
  <2> QED
    BY <1>2, <2>2, <2>3, InRange
<1> QED
  BY <1>1, <1>2, <1>3, <1>4, <1>5

\* A message is appended.
LEMMA AppendRange ==
  ASSUME NEW S, NEW s \in Seq(S), NEW e \in S
  PROVE  /\ Append(s, e) \in Seq(S) /\ Len(Append(s, e)) = Len(s) + 1
         /\ Range(Append(s, e)) = Range(s) \cup {e}
<1>1. PICK a, n : a = Append(s, e) /\ n = Len(s)
  OBVIOUS
<1>2. /\ a \in Seq(S) /\ Len(a) = n + 1 /\ n \in Nat /\ a[n + 1] = e
      /\ \A i \in 1 .. n : a[i] = s[i]
  BY <1>1, AppendProperties
<1>3. ASSUME NEW x \in Range(a) PROVE x \in Range(s) \cup {e}
  <2>1. PICK i \in 1 .. (n + 1) : a[i] = x
    BY <1>2, <1>3, InRange
  <2> QED
    BY <1>1, <1>2, <2>1, InRange
<1>4. ASSUME NEW x \in Range(s) PROVE x \in Range(a)
  <2>1. PICK i \in 1 .. n : s[i] = x
    BY <1>1, <1>4, InRange
  <2> QED
    BY <1>2, <2>1, InRange
<1>5. e \in Range(a)
  BY <1>2, InRange
<1> QED
  BY <1>1, <1>2, <1>3, <1>4, <1>5

\* The first message is taken away.
LEMMA TailRange ==
  ASSUME NEW S, NEW s \in Seq(S), s # <<>>
  PROVE  /\ Head(s) \in S /\ Tail(s) \in Seq(S) /\ Len(Tail(s)) = Len(s) - 1
         /\ Head(s) = s[1] /\ Len(s) > 0 /\ \A i \in 1 .. Len(Tail(s)) : Tail(s)[i] = s[i + 1]
         /\ Range(s) = Range(Tail(s)) \cup {Head(s)}
<1>1. PICK a, n : a = Tail(s) /\ n = Len(s)
  OBVIOUS
<1>2. /\ a \in Seq(S) /\ Len(a) = n - 1 /\ n \in Nat /\ n > 0 /\ Head(s) \in S
      /\ \A i \in 1 .. (n - 1) : a[i] = s[i + 1]
  BY <1>1, HeadTailProperties, EmptySeq
<1>3. Head(s) = s[1]
  OBVIOUS
<1>4. ASSUME NEW x \in Range(s) PROVE x \in Range(a) \cup {s[1]}
  <2>1. PICK i \in 1 .. n : s[i] = x
    BY <1>1, <1>4, InRange
  <2>2. CASE i = 1
    BY <2>1, <2>2
  <2>3. CASE i # 1
    <3>1. i - 1 \in 1 .. (n - 1) /\ (i - 1) + 1 = i
      BY <1>2, <2>1, <2>3
    <3>2. a[i - 1] = x
      BY <1>2, <2>1, <3>1
    <3> QED
      BY <1>2, <3>1, <3>2, InRange
  <2> QED
    BY <2>2, <2>3
<1>5. ASSUME NEW x \in Range(a) PROVE x \in Range(s)
  <2>1. PICK i \in 1 .. (n - 1) : a[i] = x
    BY <1>2, <1>5, InRange
  <2>2. i + 1 \in 1 .. n /\ s[i + 1] = x
    BY <1>2, <2>1
  <2> QED
    BY <1>1, <2>2, InRange
<1>6. s[1] \in Range(s)
  BY <1>1, <1>2, InRange
<1> QED
  BY <1>1, <1>2, <1>3, <1>4, <1>5, <1>6

-----------------------------------------------------------------------------
(* The parts of TypeOK.                                                    *)

ChannelTyped ==
  /\ accepted \in Seq(Messages) /\ delivered \in Seq(Messages)
  /\ closed \in BOOLEAN

SinkTyped ==
  /\ spc \in {"idle", "ensure", "open", "write", "policy"}
  /\ batch \in Seq(Messages) /\ len \in Nat /\ current_size \in Nat
  /\ file \in Files \cup {NoFile}
  /\ stored \subseteq Messages /\ reported \subseteq Messages
  /\ faults \in 0 .. MaxFaults

MainTyped ==
  /\ conf \in Configs
  /\ main \in {"start", "pool", "logger", "run", "shutdown", "join", "reset",
               "drain", "clear", "done", "terminated"}

PoolTyped ==
  /\ tp \in BOOLEAN /\ stopping \in BOOLEAN
  /\ tasks \in Seq(Messages) /\ running \subseteq Messages
  /\ pending \in [Callers -> Messages \cup {None}]
  /\ failures \in Nat /\ drops \in Nat /\ sent \subseteq Messages

\* TypeOK is these parts.
LEMMA TypeParts == TypeOK <=> ChannelTyped /\ SinkTyped /\ MainTyped /\ PoolTyped
BY Zenon DEF TypeOK, ChannelTyped, SinkTyped, MainTyped, PoolTyped

\* The whole state of the sink is right.
SinkPart == ChannelTyped /\ SinkTyped /\ MainTyped /\ SinkInv

-----------------------------------------------------------------------------
(* The steps of the sink.                                                  *)

\* A call fails or not.
LEMMA FaultCounted ==
  ASSUME SinkTyped, Fault \/ NoFault
  PROVE  /\ faults \in Nat /\ faults' \in 0 .. MaxFaults /\ faults' >= faults
         /\ Fault => faults' # faults
         /\ faults' # faults => faults' > 0
BY RollAssumption DEF SinkTyped, Fault, NoFault

\* The numbers of a configuration that passes.
LEMMA ConfigNumbers ==
  ASSUME NEW c, JsonData(c)
  PROVE  c.flush_log \in Nat /\ c.backup_queue_size \in Nat /\ c.backup_queue_size > 0
<1> DEFINE S == {c.buffer_size, c.threshold, c.linear_growth, c.flush_log,
                 c.thread_count, c.backup_queue_size}
<1>1. (\A v \in S : RequireUnsigned(v)) /\ c.backup_queue_size > 0
  BY Zenon DEF JsonData
<1>2. c.flush_log \in S /\ c.backup_queue_size \in S
  OBVIOUS
<1> HIDE DEF S
<1> QED
  BY <1>1, <1>2 DEF RequireUnsigned

\* The sink works only between the construction of the logger and its
\* destruction.
LEMMA Flushing ==
  ASSUME MainTyped, QuietOK, spc # "idle"
  PROVE  /\ main \in {"run", "shutdown", "join"} /\ JsonData(conf)
         /\ conf.flush_log \in Nat
<1>1. main \in {"run", "shutdown", "join"} /\ JsonData(conf)
  BY DEF MainTyped, QuietOK, Before, After
<1>2. conf.flush_log \in Nat
  BY <1>1, ConfigNumbers
<1> QED
  BY <1>1, <1>2

\* While it works it changes nothing that main sees.
LEMMA QuietKept ==
  ASSUME MainTyped, QuietOK, UNCHANGED <<channel, conf, main>>,
         main \in {"run", "shutdown", "join"}
  PROVE  MainTyped' /\ QuietOK'
<1>1. accepted' = accepted /\ delivered' = delivered /\ conf' = conf /\ main' = main
  BY DEF channel
<1>2. JsonData(conf)
  BY DEF QuietOK
<1> QED
  BY <1>1, <1>2 DEF MainTyped, QuietOK, Before, After

\* fclose hands on what it can of the buffer.
LEMMA FcloseStep ==
  ASSUME SinkTyped, file \in Files, Fclose
  PROVE  /\ file' = NoFile /\ faults' \in 0 .. MaxFaults /\ faults' >= faults
         /\ faults' # faults => faults' > 0
         /\ stored \subseteq stored' /\ stored' \subseteq stored \cup Range(file.buffer)
         /\ stored' \subseteq Messages
         /\ faults' = faults => Range(file.buffer) \subseteq stored'
<1>1. PICK b : b = file.buffer
  OBVIOUS
<1>2. b \in Seq(Messages) /\ Len(b) \in Nat
  BY <1>1 DEF Files
<1>3. PICK k \in 0 .. Len(b) :
        /\ Fault \/ (NoFault /\ k = Len(b))
        /\ stored' = stored \cup Range(SubSeq(b, 1, k))
  BY <1>1, <1>2 DEF Fclose, Kernel
<1>4. Range(SubSeq(b, 1, k)) \subseteq Range(b) /\ Range(b) \subseteq Messages
  BY <1>2, SplitRange, InRange
<1>5. k = Len(b) => Range(SubSeq(b, 1, k)) = Range(b)
  BY <1>2, SubSeqFull
<1>6. file' = NoFile
  BY DEF Fclose
<1>7. /\ faults' \in 0 .. MaxFaults /\ faults' >= faults
      /\ faults' # faults => faults' > 0
      /\ faults' = faults => k = Len(b)
  BY <1>3, FaultCounted
<1> QED
  BY <1>1, <1>3, <1>4, <1>5, <1>6, <1>7 DEF SinkTyped

\* Messages stay where they are, but those of a file that is closed.
LEMMA CloseKeeps ==
  ASSUME SinkPart, file \in Files, Fclose, UNCHANGED <<delivered, reported, batch, conf>>,
         spc \in {"idle", "ensure"}, spc' \in {"idle", "ensure", "open"},
         spc = "idle" <=> spc' = "idle"
  PROVE  SourceOK' /\ BufferOK' /\ LossOK' /\ RollOK'
<1>1. /\ file' = NoFile /\ faults' >= faults /\ (faults' # faults => faults' > 0)
      /\ faults \in Nat /\ faults' \in Nat
      /\ stored \subseteq stored' /\ stored' \subseteq stored \cup Range(file.buffer)
      /\ faults' = faults => Range(file.buffer) \subseteq stored'
  BY FcloseStep, RollAssumption DEF SinkPart, SinkTyped
<1>2. file # NoFile
  BY LoggerAssumption
<1>3. SourceOK'
  BY <1>1, <1>2 DEF SinkPart, SinkInv, SourceOK
<1>4. BufferOK' /\ RollOK'
  BY <1>1 DEF BufferOK, RollOK
<1>5. ASSUME NEW m \in Range(delivered)' PROVE Whereabouts(m)'
  <2>1. Whereabouts(m)
    BY <1>5 DEF SinkPart, SinkInv, LossOK
  <2> QED
    BY <1>1, <2>1 DEF Whereabouts
<1> QED
  BY <1>3, <1>4, <1>5 DEF LossOK

\* EnsureFile keeps or closes the file.
LEMMA EnsureFileSink ==
  ASSUME SinkPart, EnsureFile, UNCHANGED <<channel, conf, main>>
  PROVE  SinkPart'
<1>1. /\ spc = "ensure" /\ batch' = batch /\ len' = len
      /\ current_size' = current_size /\ reported' = reported
  BY DEF EnsureFile, Goto
<1>2. MainTyped' /\ QuietOK'
  BY <1>1, Flushing, QuietKept DEF SinkPart, SinkInv
<1>3. ChannelTyped' /\ delivered' = delivered /\ conf' = conf
  BY DEF SinkPart, ChannelTyped, channel
<1>4. CASE file # NoFile /\ Fits /\ spc' = "write" /\ UNCHANGED <<file, stored, faults>>
  <2>1. SinkTyped'
    BY <1>1, <1>4 DEF SinkPart, SinkTyped
  <2>2. BatchOK' /\ SourceOK'
    BY <1>1, <1>3, <1>4 DEF SinkPart, SinkInv, BatchOK, SourceOK
  <2>3. BufferOK'
    BY <1>1, <1>3, <1>4 DEF SinkPart, SinkInv, BufferOK
  <2>4. LossOK'
    BY <1>1, <1>3, <1>4 DEF SinkPart, SinkInv, LossOK, Whereabouts
  <2>5. RollOK'
    BY <1>1, <1>3, <1>4 DEF SinkPart, SinkInv, RollOK, Fits
  <2> QED
    BY <1>2, <1>3, <2>1, <2>2, <2>3, <2>4, <2>5 DEF SinkPart, SinkInv
<1>5. CASE file # NoFile /\ Fclose /\ spc' = "open"
  <2>1. file \in Files
    BY <1>5 DEF SinkPart, SinkTyped
  <2>2. SourceOK' /\ BufferOK' /\ LossOK' /\ RollOK'
    BY <1>1, <1>3, <1>5, <2>1, CloseKeeps
  <2>3. SinkTyped' /\ file' = NoFile
    BY <1>1, <1>5, <2>1, FcloseStep DEF SinkPart, SinkTyped
  <2>4. BatchOK'
    BY <1>1, <1>5, <2>3 DEF SinkPart, SinkInv, BatchOK
  <2> QED
    BY <1>2, <1>3, <2>2, <2>3, <2>4 DEF SinkPart, SinkInv
<1>6. CASE file = NoFile /\ spc' = "open" /\ UNCHANGED <<file, stored, faults>>
  <2>1. SinkTyped'
    BY <1>1, <1>6 DEF SinkPart, SinkTyped
  <2>2. BatchOK' /\ SourceOK'
    BY <1>1, <1>3, <1>6 DEF SinkPart, SinkInv, BatchOK, SourceOK
  <2>3. BufferOK' /\ RollOK'
    BY <1>6 DEF BufferOK, RollOK
  <2>4. LossOK'
    BY <1>1, <1>3, <1>6 DEF SinkPart, SinkInv, LossOK, Whereabouts
  <2> QED
    BY <1>2, <1>3, <2>1, <2>2, <2>3, <2>4 DEF SinkPart, SinkInv
<1> QED
  BY <1>4, <1>5, <1>6 DEF EnsureFile, Goto

\* Open gives the batch a new file, or reports it.
LEMMA OpenSink ==
  ASSUME SinkPart, Open, UNCHANGED <<channel, conf, main>>
  PROVE  SinkPart'
<1>1. spc = "open" /\ stored' = stored
  BY DEF Open
<1>2. MainTyped' /\ QuietOK'
  BY <1>1, Flushing, QuietKept DEF SinkPart, SinkInv
<1>3. ChannelTyped' /\ delivered' = delivered /\ conf' = conf
  BY DEF SinkPart, ChannelTyped, channel
<1>4. CASE /\ NoFault /\ file' = NewFile /\ current_size' = 0 /\ reported' = reported
           /\ spc' = "write" /\ batch' = batch /\ len' = len
  <2>1. NewFile \in Files /\ NewFile.buffer = <<>> /\ NewFile.error = FALSE
        /\ NewFile.bytes = 0 /\ NewFile.writes = 0
    BY DEF NewFile, Files
  <2>2. file' # NoFile /\ Range(file'.buffer) = {} /\ faults' = faults
    BY <1>4, <2>1, EmptyRange, LoggerAssumption DEF NoFault
  <2>3. SinkTyped'
    BY <1>1, <1>4, <2>1, <2>2 DEF SinkPart, SinkTyped
  <2>4. BatchOK' /\ SourceOK'
    BY <1>1, <1>3, <1>4, <2>1, <2>2 DEF SinkPart, SinkInv, BatchOK, SourceOK
  <2>5. BufferOK'
    BY <1>4, <2>1 DEF BufferOK
  <2>6. LossOK'
    BY <1>1, <1>3, <1>4, <2>2 DEF SinkPart, SinkInv, LossOK, Whereabouts, BatchOK
  <2>7. RollOK'
    BY <1>4, <2>1, RollAssumption DEF RollOK, Fits
  <2> QED
    BY <1>2, <1>3, <2>3, <2>4, <2>5, <2>6, <2>7 DEF SinkPart, SinkInv
<1>5. CASE /\ Fault /\ Report /\ Return /\ UNCHANGED <<file, current_size>>
  <2>1. file' = NoFile /\ faults' > 0 /\ faults' \in 0 .. MaxFaults
    BY <1>1, <1>5, FaultCounted DEF SinkPart, SinkInv, BatchOK
  <2>2. /\ spc' = "idle" /\ batch' = <<>> /\ len' = 0 /\ current_size' = current_size
        /\ reported' = reported \cup Range(batch) /\ Range(batch') = {}
        /\ Range(batch) \subseteq Messages
    BY <1>5, EmptyRange, InRange DEF Return, Report, SinkPart, SinkTyped
  <2>3. SinkTyped'
    BY <1>1, <2>1, <2>2 DEF SinkPart, SinkTyped
  <2>4. BatchOK' /\ SourceOK'
    BY <1>1, <1>3, <2>1, <2>2 DEF SinkPart, SinkInv, BatchOK, SourceOK
  <2>5. BufferOK' /\ RollOK'
    BY <2>1 DEF BufferOK, RollOK
  <2>6. LossOK'
    BY <1>1, <1>3, <2>1, <2>2 DEF SinkPart, SinkInv, LossOK, Whereabouts, BatchOK
  <2> QED
    BY <1>2, <1>3, <2>3, <2>4, <2>5, <2>6 DEF SinkPart, SinkInv
<1> QED
  BY <1>4, <1>5 DEF Open, Goto

\* fwrite: what was in the stream and in the batch is with the kernel or in the
\* stream, unless a call failed.
LEMMA FwriteStep ==
  ASSUME SinkTyped, file \in Files, NEW n \in 0 .. Len(batch),
         NEW k \in 0 .. Len(file.buffer) + n, Fwrite(n, k)
  PROVE  /\ file' \in Files /\ file'.writes = file.writes + 1
         /\ faults' \in 0 .. MaxFaults /\ faults' >= faults
         /\ faults' # faults => faults' > 0
         /\ file'.error <=> file.error \/ faults' # faults
         /\ stored \subseteq stored' /\ stored' \subseteq Messages
         /\ stored' \subseteq stored \cup Range(file.buffer) \cup Range(batch)
         /\ Range(file'.buffer) \subseteq Range(file.buffer) \cup Range(batch)
         /\ faults' = faults =>
              /\ file'.bytes = file.bytes + Bytes(batch)
              /\ Range(file.buffer) \cup Range(batch) \subseteq stored' \cup Range(file'.buffer)
<1>1. PICK b, taken : b = file.buffer /\ taken = SubSeq(batch, 1, n)
  OBVIOUS
<1>2. /\ batch \in Seq(Messages) /\ b \in Seq(Messages) /\ Len(batch) \in Nat
      /\ Len(b) \in Nat
  BY <1>1 DEF SinkTyped, Files
<1>3. taken \in Seq(Messages) /\ Len(taken) = n /\ Range(taken) \subseteq Range(batch)
  <2>1. taken \in Seq(Messages) /\ Range(taken) \subseteq Range(batch)
    BY <1>1, <1>2, SplitRange
  <2>2. Len(taken) = n
    BY <1>1, <1>2
  <2> QED
    BY <2>1, <2>2
<1>4. PICK data : data = b \o taken
  OBVIOUS
<1>5. /\ data \in Seq(Messages) /\ Len(data) = Len(b) + n
      /\ Range(data) = Range(b) \cup Range(taken) /\ k \in 0 .. Len(data)
  <2>1. /\ data \in Seq(Messages) /\ Len(data) = Len(b) + Len(taken)
        /\ Range(data) = Range(b) \cup Range(taken)
    <3>1. b \in Seq(Messages) /\ taken \in Seq(Messages)
      BY <1>2, <1>3
    <3>2. /\ b \o taken \in Seq(Messages) /\ Len(b \o taken) = Len(b) + Len(taken)
          /\ Range(b \o taken) = Range(b) \cup Range(taken)
      BY <3>1, ConcatRange
    <3> QED
      BY <1>4, <3>2
  <2> QED
    BY <1>1, <1>2, <1>3, <2>1
<1>6. PICK rest : rest = SubSeq(data, k + 1, Len(data))
  OBVIOUS
<1>7. /\ rest \in Seq(Messages)
      /\ Range(SubSeq(data, 1, k)) \cup Range(rest) = Range(data)
      /\ Range(data) \subseteq Messages
  BY <1>5, <1>6, SplitRange, InRange
<1>8. stored' = stored \cup Range(SubSeq(data, 1, k))
  BY <1>1, <1>4 DEF Fwrite, Kernel
<1>9. Fault \/ (NoFault /\ n = Len(batch))
  BY DEF Fwrite
<1>10. /\ faults' \in 0 .. MaxFaults /\ faults' >= faults /\ (faults' # faults => faults' > 0)
       /\ faults' = faults => n = Len(batch)
  BY <1>9, FaultCounted
<1>11. Bytes(taken) \in Nat /\ (n = Len(batch) => taken = batch)
  BY <1>1, <1>2, <1>3, BytesPositive, SubSeqFull
<1>12. file' = [file EXCEPT !.bytes = @ + Bytes(taken), !.writes = @ + 1,
                            !.buffer = rest, !.error = @ \/ faults' # faults]
  BY <1>1, <1>4, <1>6 DEF Fwrite, Rest
<1>13. /\ file' \in Files /\ file'.writes = file.writes + 1 /\ file'.buffer = rest
       /\ file'.bytes = file.bytes + Bytes(taken)
       /\ file'.error <=> file.error \/ faults' # faults
  <2>1. PICK y, e : y = Bytes(taken) /\ e = (file.error \/ faults' # faults)
    OBVIOUS
  <2>2. y \in Nat /\ e \in BOOLEAN
    BY <1>11, <2>1
  <2>3. PICK u, w : u = file.bytes + y /\ w = file.writes + 1
    OBVIOUS
  <2>4. u \in Nat /\ w \in Nat
    BY <2>2, <2>3 DEF Files
  <2>5. file' = [file EXCEPT !.bytes = u, !.writes = w, !.buffer = rest, !.error = e]
    BY <1>12, <2>1, <2>3
  <2>6. /\ file'.bytes = u /\ file'.writes = w /\ file'.buffer = rest /\ file'.error = e
        /\ file' \in Files
    BY <1>7, <2>2, <2>4, <2>5 DEF Files
  <2> QED
    BY <2>1, <2>3, <2>6
<1> QED
  BY <1>1, <1>3, <1>5, <1>7, <1>8, <1>10, <1>11, <1>13 DEF SinkTyped

\* WriteAll writes the batch, or reports it.
LEMMA WriteAllSink ==
  ASSUME SinkPart, WriteAll, UNCHANGED <<channel, conf, main>>
  PROVE  SinkPart'
<1>1. spc = "write" /\ file \in Files /\ file # NoFile
  BY DEF WriteAll, SinkPart, SinkInv, BatchOK, SinkTyped
<1>2. MainTyped' /\ QuietOK'
  BY <1>1, Flushing, QuietKept DEF SinkPart, SinkInv
<1>3. ChannelTyped' /\ delivered' = delivered /\ conf' = conf
  BY DEF SinkPart, ChannelTyped, channel
<1>4. PICK n \in 0 .. Len(batch) : \E k \in 0 .. Len(file.buffer) + n : Fwrite(n, k)
  BY DEF WriteAll
<1>5. PICK k \in 0 .. Len(file.buffer) + n : Fwrite(n, k)
  BY <1>4
<1>6. /\ file' \in Files /\ file'.writes = file.writes + 1
      /\ faults' \in 0 .. MaxFaults /\ faults' >= faults
      /\ faults' # faults => faults' > 0
      /\ file'.error <=> file.error \/ faults' # faults
      /\ stored \subseteq stored' /\ stored' \subseteq Messages
      /\ stored' \subseteq stored \cup Range(file.buffer) \cup Range(batch)
      /\ Range(file'.buffer) \subseteq Range(file.buffer) \cup Range(batch)
      /\ faults' = faults =>
           /\ file'.bytes = file.bytes + Bytes(batch)
           /\ Range(file.buffer) \cup Range(batch) \subseteq stored' \cup Range(file'.buffer)
  BY <1>1, <1>5, FwriteStep DEF SinkPart
<1>7. file' # NoFile /\ faults \in Nat /\ faults' \in Nat
  BY <1>6, LoggerAssumption, RollAssumption DEF SinkPart, SinkTyped
<1>8. CASE /\ ~file'.error /\ current_size' = current_size + len /\ reported' = reported
           /\ spc' = "policy" /\ batch' = batch /\ len' = len
  <2>1. ~file.error /\ faults' = faults
    BY <1>6, <1>8
  <2>2. SinkTyped'
    BY <1>6, <1>8 DEF SinkPart, SinkTyped
  <2>3. BatchOK' /\ SourceOK'
    BY <1>1, <1>3, <1>6, <1>7, <1>8, <2>1 DEF SinkPart, SinkInv, BatchOK, SourceOK
  <2>4. BufferOK'
    <3>1. conf.flush_log # 0 => Range(file.buffer) = {}
      BY <1>1, <2>1, EmptyRange DEF SinkPart, SinkInv, BufferOK
    <3> QED
      BY <1>3, <1>6, <1>8, <3>1 DEF BufferOK
  <2>5. LossOK'
    BY <1>1, <1>3, <1>6, <1>7, <1>8, <2>1 DEF SinkPart, SinkInv, LossOK, Whereabouts
  <2>6. RollOK'
    <3>1. /\ file.bytes = current_size /\ (file.writes = 0 <=> current_size = 0) /\ Fits
          /\ file.writes \in Nat /\ current_size \in Nat
      BY <1>1, <2>1 DEF SinkPart, SinkInv, RollOK, SinkTyped, Files
    <3>2. len = Bytes(batch) /\ batch \in Seq(Messages) /\ batch # <<>>
      BY <1>1 DEF SinkPart, SinkInv, BatchOK, SinkTyped
    <3>3. len \in Nat /\ len > 0
      BY <3>2, BytesPositive
    <3>4. file'.bytes = current_size + len /\ file'.writes = file.writes + 1
      BY <1>6, <2>1, <3>1, <3>2
    <3>5. file'.bytes > MaxSize => file.writes = 0
      BY <3>1, <3>3, <3>4, RollAssumption DEF Fits
    <3> QED
      BY <1>8, <3>1, <3>3, <3>4, <3>5 DEF RollOK
  <2> QED
    BY <1>2, <1>3, <2>2, <2>3, <2>4, <2>5, <2>6 DEF SinkPart, SinkInv
<1>9. CASE file'.error /\ Report /\ Return /\ current_size' = current_size
  <2>1. /\ spc' = "idle" /\ batch' = <<>> /\ len' = 0 /\ Range(batch') = {}
        /\ reported' = reported \cup Range(batch) /\ Range(batch) \subseteq Messages
    BY <1>9, EmptyRange, InRange DEF Return, Report, SinkPart, SinkTyped
  <2>2. faults' > 0
    <3>1. faults' # faults \/ faults > 0
      BY <1>1, <1>6, <1>9 DEF SinkPart, SinkInv, SourceOK
    <3> QED
      BY <1>6, <1>7, <3>1
  <2>3. SinkTyped'
    BY <1>6, <1>9, <2>1 DEF SinkPart, SinkTyped
  <2>4. BatchOK' /\ SourceOK'
    BY <1>1, <1>3, <1>6, <2>1, <2>2 DEF SinkPart, SinkInv, BatchOK, SourceOK
  <2>5. BufferOK' /\ RollOK'
    BY <1>9 DEF BufferOK, RollOK
  <2>6. LossOK'
    BY <1>1, <1>3, <1>6, <2>1, <2>2 DEF SinkPart, SinkInv, LossOK, Whereabouts
  <2> QED
    BY <1>2, <1>3, <2>3, <2>4, <2>5, <2>6 DEF SinkPart, SinkInv
<1> QED
  BY <1>8, <1>9 DEF WriteAll, Goto

\* ApplyFlushPolicy leaves the batch in the stream, hands it on, or reports it.
LEMMA PolicySink ==
  ASSUME SinkPart, ApplyFlushPolicy(conf.flush_log), UNCHANGED <<channel, conf, main>>
  PROVE  SinkPart'
<1>1. /\ spc = "policy" /\ file \in Files /\ file # NoFile /\ ~file.error
      /\ current_size' = current_size
  BY DEF ApplyFlushPolicy, SinkPart, SinkInv, BatchOK, SinkTyped
<1>2. MainTyped' /\ QuietOK' /\ conf.flush_log \in Nat
  BY <1>1, Flushing, QuietKept DEF SinkPart, SinkInv
<1>3. ChannelTyped' /\ delivered' = delivered /\ conf' = conf
  BY DEF SinkPart, ChannelTyped, channel
<1>4. /\ spc' = "idle" /\ batch' = <<>> /\ len' = 0 /\ Range(batch') = {}
      /\ Range(batch) \subseteq Messages
  BY EmptyRange, InRange DEF ApplyFlushPolicy, Return, SinkPart, SinkTyped
<1>5. PICK b : b = file.buffer
  OBVIOUS
<1>6. b \in Seq(Messages) /\ Len(b) \in Nat /\ Range(b) \subseteq Messages
  BY <1>1, <1>5, InRange DEF Files
<1>7. conf.flush_log # 0 => Range(b) \subseteq Range(batch)
  BY <1>1, <1>5 DEF SinkPart, SinkInv, BufferOK
<1>8. CASE conf.flush_log = 0 /\ NoFault /\ UNCHANGED <<file, stored, reported>>
  <2>1. SinkTyped'
    BY <1>1, <1>4, <1>8 DEF SinkPart, SinkTyped, NoFault
  <2>2. BatchOK' /\ SourceOK'
    BY <1>1, <1>3, <1>4, <1>8 DEF SinkPart, SinkInv, BatchOK, SourceOK, NoFault
  <2>3. BufferOK'
    BY <1>3, <1>8 DEF BufferOK
  <2>4. RollOK'
    BY <1>1, <1>4, <1>8 DEF SinkPart, SinkInv, RollOK
  <2>5. LossOK'
    BY <1>1, <1>3, <1>4, <1>8 DEF SinkPart, SinkInv, LossOK, Whereabouts, NoFault
  <2> QED
    BY <1>2, <1>3, <2>1, <2>2, <2>3, <2>4, <2>5 DEF SinkPart, SinkInv
<1>9. ASSUME NEW k \in 0 .. Len(b), conf.flush_log # 0,
             stored' = stored \cup Range(SubSeq(b, 1, k)),
             file'.buffer = SubSeq(b, k + 1, Len(b)),
             \/ NoFault /\ k = Len(b) /\ ~file'.error /\ UNCHANGED reported
             \/ Fault /\ Report /\ (k = Len(b) \/ file'.error),
             file' \in Files, file'.bytes = file.bytes, file'.writes = file.writes
      PROVE  SinkPart'
  <2>1. /\ Range(SubSeq(b, 1, k)) \cup Range(file'.buffer) = Range(b)
        /\ k = Len(b) => file'.buffer = <<>>
    BY <1>6, <1>9, SplitRange, SubSeqEmpty
  <2>2. k = Len(b) => stored' = stored \cup Range(b)
    BY <1>6, <1>9, SubSeqFull
  <2>3. /\ faults \in Nat /\ faults' \in 0 .. MaxFaults /\ faults' \in Nat /\ faults' >= faults
        /\ reported' = reported \/ (faults' > 0 /\ reported' = reported \cup Range(batch))
        /\ file'.error => faults' > 0
    BY <1>9, FaultCounted, RollAssumption DEF SinkPart, Report
  <2>4. file' # NoFile
    BY <1>9, LoggerAssumption
  <2>5. SinkTyped'
    BY <1>1, <1>4, <1>6, <1>9, <2>1, <2>3 DEF SinkPart, SinkTyped
  <2>6. BatchOK' /\ SourceOK'
    BY <1>1, <1>3, <1>4, <1>5, <1>9, <2>1, <2>3 DEF SinkPart, SinkInv, BatchOK, SourceOK
  <2>7. BufferOK'
    BY <1>4, <1>9, <2>1 DEF BufferOK
  <2>8. RollOK'
    BY <1>1, <1>4, <1>9 DEF SinkPart, SinkInv, RollOK
  <2>9. LossOK'
    <3>1. k = Len(b) \/ (reported' = reported \cup Range(batch) /\ stored \subseteq stored')
      BY <1>9 DEF Report
    <3>2. ASSUME NEW m \in Range(delivered) PROVE m \in stored' \cup reported'
      <4>1. m \in stored \cup reported \/ m \in Range(b)
        BY <1>1, <1>5, <1>9, <3>2 DEF SinkPart, SinkInv, LossOK, Whereabouts
      <4>2. stored \subseteq stored' /\ reported \subseteq reported'
        BY <1>9, <2>3
      <4>3. Range(b) \subseteq stored' \cup reported'
        BY <1>7, <1>9, <2>2, <3>1
      <4> QED
        BY <4>1, <4>2, <4>3
    <3> QED
      BY <1>3, <3>2 DEF LossOK, Whereabouts
  <2> QED
    BY <1>2, <1>3, <2>5, <2>6, <2>7, <2>8, <2>9 DEF SinkPart, SinkInv
<1>10. ASSUME conf.flush_log >= 1, stored' = stored \cup Range(SubSeq(b, 1, Len(b))),
              file' = [file EXCEPT !.buffer = <<>>],
              (NoFault /\ UNCHANGED reported) \/ (Fault /\ Report)
       PROVE  SinkPart'
  <2>1. /\ file' \in Files /\ file'.bytes = file.bytes /\ file'.writes = file.writes
        /\ file'.buffer = <<>> /\ file'.error = file.error
    <3>0. <<>> \in Seq(Messages)
      BY EmptySeq
    <3>1. PICK e : e = <<>> /\ e \in Seq(Messages)
      BY <3>0
    <3>2. file' = [file EXCEPT !.buffer = e]
      BY <1>10, <3>1
    <3> QED
      BY <1>1, <3>1, <3>2 DEF Files
  <2>2. SubSeq(b, Len(b) + 1, Len(b)) = <<>> /\ Len(b) \in 0 .. Len(b)
    BY <1>6, SubSeqEmpty
  <2>3. conf.flush_log # 0
    BY <1>10
  <2> QED
    BY <1>1, <1>9, <1>10, <2>1, <2>2, <2>3
<1>11. ASSUME NEW k \in 0 .. Len(b) - 1, conf.flush_log >= 1, Fault, Report,
              stored' = stored \cup Range(SubSeq(b, 1, k)),
              file' = [file EXCEPT !.buffer = SubSeq(b, k + 1, Len(b)), !.error = TRUE]
       PROVE  SinkPart'
  <2>1. k \in 0 .. Len(b) /\ conf.flush_log # 0
    BY <1>6, <1>11
  <2>2. SubSeq(b, k + 1, Len(b)) \in Seq(Messages)
    BY <1>6, <2>1, SplitRange
  <2>3. PICK r : r = SubSeq(b, k + 1, Len(b))
    OBVIOUS
  <2>4. /\ file' \in Files /\ file'.bytes = file.bytes /\ file'.writes = file.writes
        /\ file'.buffer = r /\ file'.error
    BY <1>1, <1>11, <2>2, <2>3 DEF Files
  <2> QED
    BY <1>9, <1>11, <2>1, <2>3, <2>4
<1>12. CASE /\ conf.flush_log >= 1 /\ Fault /\ Report
            /\ \E k \in 0 .. Len(file.buffer) - 1 :
                 /\ Kernel(file.buffer, k)
                 /\ file' = [file EXCEPT !.buffer = Rest(@, k), !.error = TRUE]
  <2>1. PICK k \in 0 .. Len(b) - 1 :
          /\ stored' = stored \cup Range(SubSeq(b, 1, k))
          /\ file' = [file EXCEPT !.buffer = SubSeq(b, k + 1, Len(b)), !.error = TRUE]
    BY <1>5, <1>12 DEF Kernel, Rest
  <2> QED
    BY <1>11, <1>12, <2>1
<1>13. CASE /\ conf.flush_log >= 1 /\ Kernel(file.buffer, Len(file.buffer))
            /\ file' = [file EXCEPT !.buffer = <<>>]
            /\ (NoFault /\ UNCHANGED reported) \/ (Fault /\ Report)
  BY <1>5, <1>10, <1>13 DEF Kernel
<1>14. conf.flush_log = 2 => conf.flush_log >= 1
  OBVIOUS
<1>15. \/ conf.flush_log = 0 /\ NoFault /\ UNCHANGED <<file, stored, reported>>
       \/ /\ conf.flush_log >= 1 /\ Fault /\ Report
          /\ \E k \in 0 .. Len(file.buffer) - 1 :
               /\ Kernel(file.buffer, k)
               /\ file' = [file EXCEPT !.buffer = Rest(@, k), !.error = TRUE]
       \/ /\ conf.flush_log >= 1 \/ conf.flush_log = 2
          /\ Kernel(file.buffer, Len(file.buffer))
          /\ file' = [file EXCEPT !.buffer = <<>>]
          /\ (NoFault /\ UNCHANGED reported) \/ (Fault /\ Report)
  BY Zenon DEF ApplyFlushPolicy
<1> QED
  BY <1>8, <1>12, <1>13, <1>14, <1>15, Zenon

\* RealFlush hands the sink what follows the messages delivered before.
LEMMA RealFlushSink ==
  ASSUME SinkPart, RealFlush
  PROVE  SinkPart'
<1>1. spc = "idle" /\ conf' = conf /\ main' = main
  BY DEF RealFlush
<1>2. PICK n \in 1 .. Worker!Pending :
        /\ Worker!Deliver(n)
        /\ Flush(SubSeq(accepted, Len(delivered) + 1, Len(delivered) + n))
  BY DEF RealFlush
<1>3. PICK d : d = Len(delivered)
  OBVIOUS
<1>4. /\ accepted \in Seq(Messages) /\ delivered \in Seq(Messages)
      /\ d \in Nat /\ Len(accepted) \in Nat
      /\ n \in Nat /\ n > 0 /\ d + n <= Len(accepted)
      /\ delivered = SubSeq(accepted, 1, d)
  BY <1>3 DEF SinkPart, ChannelTyped, SinkInv, QuietOK, Worker!Pending
<1>5. PICK a, q : a = SubSeq(accepted, 1, d + n) /\ q = SubSeq(accepted, d + 1, d + n)
  OBVIOUS
<1>6. /\ delivered' = a /\ accepted' = accepted /\ closed' = closed
      /\ spc' = "ensure" /\ batch' = q /\ len' = Bytes(q)
      /\ UNCHANGED <<file, current_size, stored, reported, faults>>
  BY <1>2, <1>3, <1>5 DEF Worker!Deliver, Flush
<1>7. a \in Seq(Messages) /\ Len(a) = d + n
  BY <1>4, <1>5
<1>8. q \in Seq(Messages) /\ Len(q) = n
  <2>1. \A i \in (d + 1) .. (d + n) : accepted[i] \in Messages
    BY <1>4
  <2>2. /\ q \in Seq(Messages)
        /\ Len(q) = IF d + 1 <= d + n THEN (d + n) - (d + 1) + 1 ELSE 0
    BY <1>4, <1>5, <2>1, SubSeqProperties
  <2> QED
    BY <1>4, <2>2
<1>9. Range(a) = Range(delivered) \cup Range(q)
  <2>1. SubSeq(accepted, 1, d) \o SubSeq(accepted, d + 1, d + n) = SubSeq(accepted, 1, d + n)
    <3>1. /\ 1 \in 1 .. Len(accepted) + 1 /\ d \in 1 - 1 .. Len(accepted)
          /\ d + n \in d .. Len(accepted)
      BY <1>4
    <3> QED
      BY <1>4, <3>1, ConcatAdjacentSubSeq
  <2>2. delivered \o q = a
    BY <1>4, <1>5, <2>1
  <2> QED
    BY <1>4, <1>8, <2>2, ConcatRange
<1>10. main \in {"run", "shutdown", "join"} /\ JsonData(conf)
  <2>1. delivered # accepted
    BY <1>3, <1>4
  <2> QED
    BY <2>1 DEF SinkPart, SinkInv, QuietOK, MainTyped, Before, After
<1>11. QuietOK' /\ MainTyped'
  <2>1. Len(a) <= Len(accepted) /\ a = SubSeq(accepted, 1, Len(a))
    BY <1>4, <1>5, <1>7
  <2> QED
    BY <1>1, <1>6, <1>10, <2>1 DEF QuietOK, Before, After, SinkPart, MainTyped
<1>12. ChannelTyped' /\ SinkTyped'
  BY <1>6, <1>7, <1>8, BytesPositive DEF SinkPart, ChannelTyped, SinkTyped
<1>13. q # <<>>
  BY <1>4, <1>8
<1>14. BatchOK' /\ SourceOK'
  BY <1>1, <1>6, <1>9, <1>13 DEF SinkPart, SinkInv, BatchOK, SourceOK
<1>15. BufferOK' /\ RollOK'
  BY <1>1, <1>6 DEF SinkPart, SinkInv, BufferOK, RollOK
<1>16. LossOK'
  BY <1>1, <1>6, <1>9 DEF SinkPart, SinkInv, LossOK, Whereabouts
<1> QED
  BY <1>11, <1>12, <1>14, <1>15, <1>16 DEF SinkPart, SinkInv

\* A step of another part leaves the sink alone.
LEMMA SinkFrame ==
  ASSUME SinkPart, UNCHANGED <<channel, sink, faults, conf>>, MainTyped', QuietOK'
  PROVE  SinkPart'
<1>1. /\ accepted' = accepted /\ delivered' = delivered /\ closed' = closed
      /\ spc' = spc /\ batch' = batch /\ len' = len /\ file' = file
      /\ current_size' = current_size /\ stored' = stored /\ reported' = reported
      /\ faults' = faults /\ conf' = conf
  BY DEF channel, sink
<1>2. ChannelTyped' /\ SinkTyped'
  BY <1>1 DEF SinkPart, ChannelTyped, SinkTyped
<1>3. BatchOK' /\ SourceOK'
  BY <1>1 DEF SinkPart, SinkInv, BatchOK, SourceOK
<1>4. BufferOK' /\ LossOK'
  BY <1>1 DEF SinkPart, SinkInv, BufferOK, LossOK, Whereabouts
<1>5. RollOK'
  BY <1>1 DEF SinkPart, SinkInv, RollOK, Fits
<1> QED
  BY <1>2, <1>3, <1>4, <1>5 DEF SinkPart, SinkInv

\* Log appends to what the worker has accepted.
LEMMA LogSink ==
  ASSUME SinkPart, NEW c \in Callers, NEW l \in Levels, Log(c, l)
  PROVE  SinkPart'
<1>1. PICK m : m = [id |-> Len(accepted) + 1, level |-> l]
  OBVIOUS
<1>2. /\ main = "run" /\ Len(accepted) < MaxLogs /\ main' = main /\ conf' = conf
      /\ accepted' = Append(accepted, m) /\ delivered' = delivered /\ closed' = closed
      /\ spc' = spc /\ batch' = batch /\ len' = len /\ file' = file
      /\ current_size' = current_size /\ stored' = stored /\ reported' = reported
      /\ faults' = faults
  BY <1>1 DEF Log, Worker!Accept, sink
<1>3. accepted \in Seq(Messages) /\ Len(accepted) \in Nat /\ m \in Messages
  BY <1>1, <1>2, LoggerAssumption DEF SinkPart, ChannelTyped, Messages
<1>4. /\ accepted' \in Seq(Messages) /\ Len(accepted') = Len(accepted) + 1
      /\ \A i \in 1 .. Len(accepted) : accepted'[i] = accepted[i]
  BY <1>2, <1>3, AppendProperties
<1>5. ChannelTyped' /\ SinkTyped' /\ MainTyped'
  BY <1>2, <1>4 DEF SinkPart, ChannelTyped, SinkTyped, MainTyped
<1>6. QuietOK'
  <2>1. PICK d : d = Len(delivered)
    OBVIOUS
  <2>2. d \in Nat /\ d <= Len(accepted) /\ delivered = SubSeq(accepted, 1, d)
    BY <2>1 DEF SinkPart, SinkInv, QuietOK, ChannelTyped
  <2>3. SubSeq(accepted', 1, d) = SubSeq(accepted, 1, d)
    <3>1. PICK a : a = accepted'
      OBVIOUS
    <3>2. /\ a \in Seq(Messages) /\ Len(a) = Len(accepted) + 1
          /\ \A i \in 1 .. Len(accepted) : a[i] = accepted[i]
      BY <1>4, <3>1
    <3>3. PICK p, q : p = SubSeq(a, 1, d) /\ q = SubSeq(accepted, 1, d)
      OBVIOUS
    <3>4. /\ p \in Seq(Messages) /\ q \in Seq(Messages) /\ Len(p) = d /\ Len(q) = d
          /\ \A i \in 1 .. d : p[i] = a[i] /\ q[i] = accepted[i]
      BY <1>3, <2>2, <3>2, <3>3
    <3>5. p = q
      <4>1. \A i \in 1 .. d : i \in 1 .. Len(accepted)
        BY <1>3, <2>2
      <4>2. \A i \in 1 .. Len(p) : p[i] = q[i]
        BY <3>2, <3>4, <4>1
      <4>3. p \in Seq(Messages) /\ q \in Seq(Messages) /\ Len(p) = Len(q)
        BY <3>4
      <4> QED
        BY <4>2, <4>3, SeqEqual
    <3> QED
      BY <3>1, <3>3, <3>5
  <2> QED
    BY <1>2, <1>3, <1>4, <2>1, <2>2, <2>3 DEF SinkPart, SinkInv, QuietOK, Before, After
<1>7. BatchOK' /\ SourceOK'
  BY <1>2 DEF SinkPart, SinkInv, BatchOK, SourceOK
<1>8. BufferOK' /\ LossOK'
  BY <1>2 DEF SinkPart, SinkInv, BufferOK, LossOK, Whereabouts
<1>9. RollOK'
  BY <1>2 DEF SinkPart, SinkInv, RollOK, Fits
<1> QED
  BY <1>5, <1>6, <1>7, <1>8, <1>9 DEF SinkPart, SinkInv

\* The sink is destroyed, as main joins the worker or returns.
LEMMA CloseSinkStep ==
  ASSUME SinkPart, CloseSink, spc = "idle", delivered = accepted, JsonData(conf),
         UNCHANGED <<accepted, delivered, closed, conf>>, main' \in {"reset", "done"}
  PROVE  SinkPart'
<1>1. /\ spc' = spc /\ batch' = batch /\ len' = len /\ current_size' = current_size
      /\ reported' = reported
  BY DEF CloseSink
<1>2. MainTyped' /\ ChannelTyped'
  BY DEF SinkPart, MainTyped, ChannelTyped
<1>3. file' = NoFile => QuietOK'
  BY <1>1 DEF SinkPart, SinkInv, QuietOK, Before
<1>4. CASE file # NoFile /\ Fclose
  <2>1. file \in Files
    BY <1>4 DEF SinkPart, SinkTyped
  <2>2. SourceOK' /\ BufferOK' /\ LossOK' /\ RollOK'
    BY <1>1, <1>4, <2>1, CloseKeeps
  <2>3. SinkTyped' /\ file' = NoFile
    BY <1>1, <1>4, <2>1, FcloseStep DEF SinkPart, SinkTyped
  <2>4. BatchOK'
    BY <1>1, <2>3 DEF SinkPart, SinkInv, BatchOK
  <2> QED
    BY <1>2, <1>3, <2>2, <2>3, <2>4 DEF SinkPart, SinkInv
<1>5. CASE file = NoFile /\ UNCHANGED <<file, stored, faults>>
  <2>1. UNCHANGED <<channel, sink, faults, conf>>
    BY <1>1, <1>5 DEF channel, sink
  <2> QED
    BY <1>2, <1>3, <1>5, <2>1, SinkFrame
<1> QED
  BY <1>4, <1>5 DEF CloseSink

\* Join waits for the worker, and destroys the sink or leaves it to Exit.
LEMMA JoinSink ==
  ASSUME SinkPart, Join
  PROVE  SinkPart'
<1>1. /\ main = "join" /\ spc = "idle" /\ main' = "reset" /\ conf' = conf
      /\ accepted' = accepted /\ delivered' = delivered /\ closed' = closed
      /\ Len(accepted) - Len(delivered) = 0
  BY DEF Join, channel, Worker!Pending
<1>2. delivered = accepted
  <2>1. accepted \in Seq(Messages) /\ Len(accepted) \in Nat /\ Len(delivered) \in Nat
    BY DEF SinkPart, ChannelTyped
  <2>2. Len(delivered) = Len(accepted)
    BY <1>1, <2>1
  <2>3. delivered = SubSeq(accepted, 1, Len(delivered))
    BY DEF SinkPart, SinkInv, QuietOK
  <2> QED
    BY <2>1, <2>2, <2>3, SubSeqFull
<1>3. JsonData(conf)
  BY <1>1 DEF SinkPart, SinkInv, QuietOK
<1>4. CASE CloseSink
  BY <1>1, <1>2, <1>3, <1>4, CloseSinkStep
<1>5. CASE UNCHANGED <<sink, faults>>
  <2>1. MainTyped' /\ UNCHANGED <<channel, sink, faults, conf>>
    BY <1>1, <1>5 DEF SinkPart, MainTyped, channel
  <2>2. QuietOK'
    BY <1>1, <1>2, <1>3, <2>1 DEF SinkPart, SinkInv, QuietOK, Before, After, sink
  <2> QED
    BY <2>1, <2>2, SinkFrame
<1> QED
  BY <1>4, <1>5 DEF Join

\* main returns, and with it goes what is left of the sink.
LEMMA ExitSink ==
  ASSUME SinkPart, Exit
  PROVE  SinkPart'
<1>1. /\ main = "clear" /\ main' = "done" /\ CloseSink
      /\ UNCHANGED <<accepted, delivered, closed, conf>>
  BY DEF Exit, channel
<1>2. delivered = accepted /\ spc = "idle" /\ JsonData(conf)
  BY <1>1 DEF SinkPart, SinkInv, QuietOK, After
<1> QED
  BY <1>1, <1>2, CloseSinkStep

\* A fault of main's own is counted.
LEMMA StartSink ==
  ASSUME SinkPart, LoadConfig \/ StartPool \/ StartLogger
  PROVE  SinkPart'
<1>1. /\ main \in Before
      /\ main' \in {"pool", "done", "logger", "reset", "terminated", "run"}
      /\ main' = "done" \/ JsonData(conf)
  BY DEF LoadConfig, StartPool, StartLogger, Before, SinkPart, SinkInv, QuietOK
<1>2. /\ accepted' = accepted /\ delivered' = delivered /\ closed' = closed
      /\ spc' = spc /\ batch' = batch /\ len' = len /\ file' = file
      /\ current_size' = current_size /\ stored' = stored /\ reported' = reported
      /\ conf' = conf
  BY DEF LoadConfig, StartPool, StartLogger, channel, sink
<1>3. Fault \/ NoFault
  BY DEF LoadConfig, StartPool, StartLogger, NoFault
<1>4. faults' \in 0 .. MaxFaults /\ faults' >= faults /\ faults \in Nat /\ faults' \in Nat
  BY <1>3, FaultCounted, RollAssumption DEF SinkPart
<1>5. accepted = <<>> /\ delivered = accepted /\ spc = "idle" /\ file = NoFile
  BY <1>1 DEF SinkPart, SinkInv, QuietOK
<1>6. ChannelTyped' /\ SinkTyped' /\ MainTyped'
  BY <1>1, <1>2, <1>4 DEF SinkPart, ChannelTyped, SinkTyped, MainTyped
<1>7. QuietOK'
  BY <1>1, <1>2, <1>5 DEF SinkPart, SinkInv, QuietOK
<1>8. BatchOK' /\ SourceOK'
  BY <1>2, <1>4, <1>5 DEF SinkPart, SinkInv, BatchOK, SourceOK
<1>9. BufferOK' /\ LossOK' /\ RollOK'
  BY <1>2, <1>5, EmptyRange DEF BufferOK, LossOK, RollOK
<1> QED
  BY <1>6, <1>7, <1>8, <1>9 DEF SinkPart, SinkInv

\* The other steps of main.
LEMMA MainSink ==
  ASSUME SinkPart, RunEnds \/ Shutdown \/ Reset \/ Drain
  PROVE  SinkPart'
<1>1. CASE Shutdown
  <2>1. /\ main = "shutdown" /\ main' = "join" /\ conf' = conf /\ faults' = faults
        /\ accepted' = accepted /\ delivered' = delivered /\ closed' = TRUE
        /\ spc' = spc /\ batch' = batch /\ len' = len /\ file' = file
        /\ current_size' = current_size /\ stored' = stored /\ reported' = reported
    BY <1>1 DEF Shutdown, Worker!Close, sink
  <2>2. ChannelTyped' /\ SinkTyped' /\ MainTyped'
    BY <2>1 DEF SinkPart, ChannelTyped, SinkTyped, MainTyped
  <2>3. QuietOK'
    BY <2>1 DEF SinkPart, SinkInv, QuietOK, Before, After
  <2>4. BatchOK' /\ SourceOK'
    BY <2>1 DEF SinkPart, SinkInv, BatchOK, SourceOK
  <2>5. BufferOK' /\ LossOK'
    BY <2>1 DEF SinkPart, SinkInv, BufferOK, LossOK, Whereabouts
  <2>6. RollOK'
    BY <2>1 DEF SinkPart, SinkInv, RollOK, Fits
  <2> QED
    BY <2>2, <2>3, <2>4, <2>5, <2>6 DEF SinkPart, SinkInv
<1>2. CASE RunEnds \/ Reset \/ Drain
  <2>1. UNCHANGED <<channel, sink, faults, conf>>
    BY <1>2 DEF RunEnds, Reset, Drain
  <2>2. \/ main = "run" /\ main' = "shutdown"
        \/ main \in {"reset", "drain", "clear"} /\ main' \in {"drain", "clear"}
    BY <1>2 DEF RunEnds, Reset, Drain
  <2>3. MainTyped'
    BY <2>1, <2>2 DEF SinkPart, MainTyped
  <2>4. QuietOK'
    BY <2>1, <2>2 DEF SinkPart, SinkInv, QuietOK, Before, After, channel, sink
  <2> QED
    BY <2>1, <2>3, <2>4, SinkFrame
<1> QED
  BY <1>1, <1>2

\* Every step keeps the state of the sink right.
LEMMA SinkPartStep ==
  ASSUME SinkPart, [Next]_vars
  PROVE  SinkPart'
<1>1. ASSUME UNCHANGED <<channel, sink, faults, conf, main>> PROVE SinkPart'
  <2>1. MainTyped' /\ QuietOK'
    BY <1>1 DEF SinkPart, SinkInv, MainTyped, QuietOK, channel, sink
  <2> QED
    BY <1>1, <2>1, SinkFrame
<1>2. CASE MainStep \/ RunEnds
  BY <1>2, StartSink, MainSink, JoinSink, ExitSink DEF MainStep
<1>3. ASSUME NEW c \in Callers, (\E l \in Levels : Log(c, l)) \/ CallerStep(c)
      PROVE  SinkPart'
  <2>1. CASE CallerStep(c)
    BY <1>1, <2>1 DEF CallerStep, BackupFatal, BackupError
  <2> QED
    BY <1>3, <2>1, LogSink
<1>4. CASE RealFlush
  BY <1>4, RealFlushSink
<1>5. CASE SinkStep
  BY <1>5, EnsureFileSink, OpenSink, WriteAllSink, PolicySink DEF SinkStep, FlushStep
<1>6. CASE PoolStep
  BY <1>1, <1>6 DEF PoolStep, TakeTask, RunTask
<1>7. CASE UNCHANGED vars
  BY <1>1, <1>7 DEF vars
<1> QED
  BY <1>2, <1>3, <1>4, <1>5, <1>6, <1>7 DEF Next, WorkerStep

-----------------------------------------------------------------------------
(* The steps that concern the backups.                                     *)

\* The whole state of the backups is right.
BackupPart == PoolTyped /\ BackupInv

\* The numbers that are counted.
LEMMA CountsTyped ==
  ASSUME BackupPart
  PROVE  /\ Cardinality(sent) \in Nat /\ Cardinality(running) \in Nat
         /\ IsFiniteSet(Waiting) /\ Cardinality(Waiting) \in Nat
         /\ Cardinality(Backed) \in Nat /\ Len(tasks) \in Nat
         /\ failures \in Nat /\ drops \in Nat
<1>1. IsFiniteSet(Waiting)
  BY LoggerAssumption, FS_Subset DEF Waiting
<1> QED
  BY <1>1, FS_CardinalityType DEF BackupPart, BackupInv, CountOK, PoolTyped

\* A step that logs nothing and moves no message.
LEMMA BackupFrame ==
  ASSUME BackupPart, UNCHANGED <<accepted, conf, tasks, running, pending, counts>>,
         tp' \in BOOLEAN, stopping' \in BOOLEAN, PoolOK'
  PROVE  BackupPart'
<1>1. /\ accepted' = accepted /\ conf' = conf /\ tasks' = tasks /\ running' = running
      /\ pending' = pending /\ failures' = failures /\ drops' = drops /\ sent' = sent
  BY DEF counts
<1>2. PoolTyped' /\ NumberedOK' /\ ApartOK'
  BY <1>1 DEF BackupPart, BackupInv, PoolTyped, NumberedOK, ApartOK
<1>3. Waiting' = Waiting /\ Backed' = Backed /\ BackupEnabled' = BackupEnabled
  BY <1>1 DEF Waiting, Backed, BackupEnabled
<1>4. CountOK'
  BY <1>1, <1>3, Zenon DEF BackupPart, BackupInv, CountOK
<1> QED
  BY <1>2, <1>4 DEF BackupPart, BackupInv

\* backup::Start counts its message once.
LEMMA StartCounts ==
  ASSUME BackupPart, NEW m \in Messages, m \notin sent, Start(m)
  PROVE  /\ sent \subseteq sent' /\ sent' \subseteq sent \cup {m} /\ IsFiniteSet(sent')
         /\ failures' \in Nat
         /\ BackupEnabled =>
              Cardinality(sent') + failures' = Cardinality(sent) + failures + 1
         /\ ~BackupEnabled => sent' = sent /\ failures' = failures
         /\ Cardinality(sent') \in Nat
<1>1. IsFiniteSet(sent) /\ failures \in Nat /\ Cardinality(sent) \in Nat
  BY CountsTyped DEF BackupPart, BackupInv, CountOK
<1>2. /\ IsFiniteSet(sent \cup {m})
      /\ Cardinality(sent \cup {m}) = Cardinality(sent) + 1
  BY <1>1, FS_AddElement
<1>3. CASE ~BackupEnabled /\ UNCHANGED <<failures, sent>>
  BY <1>1, <1>3
<1>4. CASE BackupEnabled /\ sent' = sent \cup {m} /\ failures' = failures
  BY <1>1, <1>2, <1>4
<1>5. CASE BackupEnabled /\ failures' = failures + 1 /\ sent' = sent
  BY <1>1, <1>5
<1> QED
  BY <1>3, <1>4, <1>5 DEF Start

\* A caller whose message is serialized waits no longer.
LEMMA SerializedCaller ==
  ASSUME BackupPart, NEW c \in Callers, pending[c] # None, Serialized(c)
  PROVE  /\ pending' \in [Callers -> Messages \cup {None}]
         /\ pending'[c] = None /\ \A d \in Callers : d # c => pending'[d] = pending[d]
         /\ Cardinality(Waiting') = Cardinality(Waiting) - 1
<1>1. pending \in [Callers -> Messages \cup {None}]
  BY DEF BackupPart, PoolTyped
<1>2. /\ pending' \in [Callers -> Messages \cup {None}]
      /\ pending'[c] = None /\ \A d \in Callers : d # c => pending'[d] = pending[d]
  BY <1>1 DEF Serialized
<1>3. Waiting' = Waiting \ {c} /\ c \in Waiting
  BY <1>2 DEF Waiting
<1>4. Cardinality(Waiting \ {c}) = Cardinality(Waiting) - 1
  BY <1>3, CountsTyped, FS_RemoveElement
<1> QED
  BY <1>2, <1>3, <1>4

\* BackupFatal sends the message itself.
LEMMA BackupFatalBackup ==
  ASSUME SinkPart, BackupPart, NEW c \in Callers, BackupFatal(c)
  PROVE  BackupPart'
<1>1. PICK m : m = pending[c]
  OBVIOUS
<1>2. /\ m # None /\ m \in Messages /\ m \in Range(accepted)
      /\ m \notin Range(tasks) \cup running \cup sent
      /\ \A d \in Callers : pending[d] = m => d = c
  BY <1>1 DEF BackupFatal, BackupPart, BackupInv, ApartOK, PoolTyped
<1>3. /\ accepted' = accepted /\ conf' = conf /\ main' = main /\ tp' = tp /\ tasks' = tasks
      /\ running' = running /\ stopping' = stopping /\ drops' = drops
  BY DEF BackupFatal, channel, pool
<1>4. /\ sent \subseteq sent' /\ sent' \subseteq sent \cup {m} /\ IsFiniteSet(sent')
      /\ failures' \in Nat
      /\ BackupEnabled =>
           Cardinality(sent') + failures' = Cardinality(sent) + failures + 1
      /\ ~BackupEnabled => sent' = sent /\ failures' = failures
      /\ Cardinality(sent') \in Nat
  BY <1>1, <1>2, StartCounts DEF BackupFatal
<1>5. /\ pending' \in [Callers -> Messages \cup {None}]
      /\ pending'[c] = None /\ \A d \in Callers : d # c => pending'[d] = pending[d]
      /\ Cardinality(Waiting') = Cardinality(Waiting) - 1
  BY <1>1, <1>2, SerializedCaller DEF BackupFatal
<1>6. PoolTyped'
  BY <1>2, <1>3, <1>4, <1>5 DEF BackupPart, PoolTyped
<1>7. PoolOK' /\ NumberedOK'
  BY <1>3, <1>5 DEF BackupPart, BackupInv, PoolOK, NumberedOK
<1>8. ApartOK'
  BY <1>2, <1>3, <1>4, <1>5 DEF BackupPart, BackupInv, ApartOK
<1>9. Backed' = Backed /\ BackupEnabled' = BackupEnabled
  BY <1>3 DEF Backed, BackupEnabled
<1>10. CountOK'
  <2>1. IsFiniteSet(sent') /\ IsFiniteSet(running') /\ IsFiniteSet(Backed')
    BY <1>3, <1>4, <1>9 DEF BackupPart, BackupInv, CountOK
  <2>2. BackupEnabled =>
          Cardinality(Backed') =
            Cardinality(sent') + failures' + drops'
              + Len(tasks') + Cardinality(running') + Cardinality(Waiting')
    <3> SUFFICES ASSUME BackupEnabled
                 PROVE  Cardinality(Backed') =
                          Cardinality(sent') + failures' + drops'
                            + Len(tasks') + Cardinality(running') + Cardinality(Waiting')
      OBVIOUS
    <3>1. Cardinality(Backed) =
            Cardinality(sent) + failures + drops
              + Len(tasks) + Cardinality(running) + Cardinality(Waiting)
      BY DEF BackupPart, BackupInv, CountOK
    <3>2. /\ Cardinality(sent) \in Nat /\ Cardinality(running) \in Nat
          /\ Cardinality(Waiting) \in Nat /\ Len(tasks) \in Nat
          /\ failures \in Nat /\ drops \in Nat
      BY CountsTyped
    <3>3. /\ Cardinality(Backed') = Cardinality(Backed) /\ drops' = drops
          /\ Cardinality(sent') + failures' = Cardinality(sent) + failures + 1
          /\ Len(tasks') = Len(tasks) /\ Cardinality(running') = Cardinality(running)
          /\ Cardinality(Waiting') = Cardinality(Waiting) - 1
      BY <1>3, <1>4, <1>5, <1>9
    <3>4. Cardinality(sent') \in Nat /\ failures' \in Nat
      BY <1>3, <1>4, <1>5, <1>9
    <3>5. PICK x, y, u, w : /\ x = Cardinality(sent') /\ y = failures'
                            /\ u = Cardinality(Waiting') /\ w = Cardinality(running')
      OBVIOUS
    <3>6. x \in Nat /\ y \in Nat /\ u \in Int /\ w \in Int
      BY <3>2, <3>3, <3>4, <3>5
    <3>7. x + y = Cardinality(sent) + failures + 1
      BY <3>3, <3>5
    <3>8. Cardinality(Backed) = x + y + drops + Len(tasks) + w + u
      <4>1. u = Cardinality(Waiting) - 1 /\ w = Cardinality(running)
        BY <3>3, <3>5
      <4>2. PICK a, b, d, e, f, g, h :
              /\ a = Cardinality(sent) /\ b = failures /\ d = drops /\ e = Len(tasks)
              /\ f = Cardinality(running) /\ g = Cardinality(Waiting) /\ h = Cardinality(Backed)
        OBVIOUS
      <4>3. /\ a \in Nat /\ b \in Nat /\ d \in Nat /\ e \in Nat /\ f \in Nat /\ g \in Nat
            /\ h = a + b + d + e + f + g /\ x + y = a + b + 1
            /\ u = g - 1 /\ w = f
        BY <3>1, <3>2, <3>7, <4>1, <4>2
      <4>4. h = x + y + d + e + w + u
        BY <3>6, <4>3
      <4> QED
        BY <4>2, <4>4
    <3> QED
      BY <3>3, <3>5, <3>8
  <2>3. ~BackupEnabled =>
          sent' = {} /\ failures' = 0 /\ drops' = 0 /\ tasks' = <<>> /\ running' = {}
    BY <1>3, <1>4 DEF BackupPart, BackupInv, CountOK
  <2> QED
    BY <1>9, <2>1, <2>2, <2>3 DEF CountOK
<1> QED
  BY <1>6, <1>7, <1>8, <1>10 DEF BackupPart, BackupInv

\* A thread of the pool sends a message.
LEMMA RunTaskBackup ==
  ASSUME SinkPart, BackupPart, NEW m \in running, RunTask(m)
  PROVE  BackupPart'
<1>1. /\ m \in Messages /\ m \in Range(accepted) /\ m \notin Range(tasks) \cup sent
      /\ \A d \in Callers : pending[d] # None => pending[d] # m
  BY DEF BackupPart, BackupInv, ApartOK, PoolTyped
<1>2. /\ accepted' = accepted /\ conf' = conf /\ main' = main /\ tp' = tp /\ tasks' = tasks
      /\ running' = running \ {m} /\ stopping' = stopping /\ drops' = drops
      /\ pending' = pending
  BY DEF RunTask, channel
<1>3. /\ sent \subseteq sent' /\ sent' \subseteq sent \cup {m} /\ IsFiniteSet(sent')
      /\ failures' \in Nat
      /\ BackupEnabled =>
           Cardinality(sent') + failures' = Cardinality(sent) + failures + 1
      /\ ~BackupEnabled => sent' = sent /\ failures' = failures
      /\ Cardinality(sent') \in Nat
  BY <1>1, StartCounts DEF RunTask
<1>4. IsFiniteSet(running') /\ Cardinality(running') = Cardinality(running) - 1
  BY <1>2, FS_RemoveElement DEF BackupPart, BackupInv, CountOK
<1>5. PoolTyped'
  BY <1>1, <1>2, <1>3 DEF BackupPart, PoolTyped
<1>6. PoolOK' /\ NumberedOK'
  BY <1>2 DEF BackupPart, BackupInv, PoolOK, NumberedOK
<1>7. ApartOK'
  BY <1>1, <1>2, <1>3 DEF BackupPart, BackupInv, ApartOK
<1>8. Backed' = Backed /\ BackupEnabled' = BackupEnabled /\ Waiting' = Waiting
  BY <1>2 DEF Backed, BackupEnabled, Waiting
<1>9. BackupEnabled
  BY DEF BackupPart, BackupInv, CountOK
<1>10. CountOK'
  <2>1. IsFiniteSet(sent') /\ IsFiniteSet(running') /\ IsFiniteSet(Backed')
    BY <1>3, <1>4, <1>8 DEF BackupPart, BackupInv, CountOK
  <2>2. BackupEnabled =>
          Cardinality(Backed') =
            Cardinality(sent') + failures' + drops'
              + Len(tasks') + Cardinality(running') + Cardinality(Waiting')
    <3> SUFFICES ASSUME BackupEnabled
                 PROVE  Cardinality(Backed') =
                          Cardinality(sent') + failures' + drops'
                            + Len(tasks') + Cardinality(running') + Cardinality(Waiting')
      OBVIOUS
    <3>1. Cardinality(Backed) =
            Cardinality(sent) + failures + drops
              + Len(tasks) + Cardinality(running) + Cardinality(Waiting)
      BY DEF BackupPart, BackupInv, CountOK
    <3>2. /\ Cardinality(sent) \in Nat /\ Cardinality(running) \in Nat
          /\ Cardinality(Waiting) \in Nat /\ Len(tasks) \in Nat
          /\ failures \in Nat /\ drops \in Nat
      BY CountsTyped
    <3>3. /\ Cardinality(Backed') = Cardinality(Backed) /\ drops' = drops
          /\ Cardinality(sent') + failures' = Cardinality(sent) + failures + 1
          /\ Len(tasks') = Len(tasks) /\ Cardinality(running') = Cardinality(running) - 1
          /\ Cardinality(Waiting') = Cardinality(Waiting)
      BY <1>2, <1>3, <1>4, <1>8
    <3>4. Cardinality(sent') \in Nat /\ failures' \in Nat
      BY <1>2, <1>3, <1>4, <1>8
    <3>5. PICK x, y, u, w : /\ x = Cardinality(sent') /\ y = failures'
                            /\ u = Cardinality(Waiting') /\ w = Cardinality(running')
      OBVIOUS
    <3>6. x \in Nat /\ y \in Nat /\ u \in Int /\ w \in Int
      BY <3>2, <3>3, <3>4, <3>5
    <3>7. x + y = Cardinality(sent) + failures + 1
      BY <3>3, <3>5
    <3>8. Cardinality(Backed) = x + y + drops + Len(tasks) + w + u
      <4>1. u = Cardinality(Waiting) /\ w = Cardinality(running) - 1
        BY <3>3, <3>5
      <4>2. PICK a, b, d, e, f, g, h :
              /\ a = Cardinality(sent) /\ b = failures /\ d = drops /\ e = Len(tasks)
              /\ f = Cardinality(running) /\ g = Cardinality(Waiting) /\ h = Cardinality(Backed)
        OBVIOUS
      <4>3. /\ a \in Nat /\ b \in Nat /\ d \in Nat /\ e \in Nat /\ f \in Nat /\ g \in Nat
            /\ h = a + b + d + e + f + g /\ x + y = a + b + 1
            /\ u = g /\ w = f - 1
        BY <3>1, <3>2, <3>7, <4>1, <4>2
      <4>4. h = x + y + d + e + w + u
        BY <3>6, <4>3
      <4> QED
        BY <4>2, <4>4
    <3> QED
      BY <3>3, <3>5, <3>8
  <2>3. ~BackupEnabled =>
          sent' = {} /\ failures' = 0 /\ drops' = 0 /\ tasks' = <<>> /\ running' = {}
    BY <1>9 DEF BackupPart, BackupInv, CountOK
  <2> QED
    BY <1>8, <2>1, <2>2, <2>3 DEF CountOK
<1> QED
  BY <1>5, <1>6, <1>7, <1>10 DEF BackupPart, BackupInv

\* A thread of the pool takes a message from the queue.
LEMMA TakeTaskBackup ==
  ASSUME SinkPart, BackupPart, TakeTask
  PROVE  BackupPart'
<1>1. /\ accepted' = accepted /\ conf' = conf /\ main' = main /\ tp' = tp
      /\ stopping' = stopping /\ pending' = pending
      /\ failures' = failures /\ drops' = drops /\ sent' = sent
  BY DEF TakeTask, channel, counts
<1>2. PICK s, h : s = Tail(tasks) /\ h = Head(tasks)
  OBVIOUS
<1>3. tasks' = s /\ running' = running \cup {h} /\ tasks # <<>> /\ tasks \in Seq(Messages)
  BY <1>2 DEF TakeTask, BackupPart, PoolTyped
<1>4. /\ s \in Seq(Messages) /\ h \in Messages /\ Len(s) = Len(tasks) - 1 /\ h = tasks[1]
      /\ Len(tasks) > 0 /\ \A i \in 1 .. Len(s) : s[i] = tasks[i + 1]
      /\ Range(tasks) = Range(s) \cup {h}
  BY <1>2, <1>3, TailRange
<1>5. Len(tasks) \in Nat /\ Len(s) \in Nat
  BY <1>3, <1>4
<1>6. \A i, j \in 1 .. Len(tasks) : tasks[i] = tasks[j] => i = j
  BY <1>3 DEF BackupPart, BackupInv, ApartOK
<1>7. h \notin Range(s)
  <2> SUFFICES ASSUME h \in Range(s) PROVE FALSE
    OBVIOUS
  <2>1. PICK i \in 1 .. Len(s) : s[i] = h
    BY <1>4, InRange
  <2>2. i + 1 \in 1 .. Len(tasks) /\ 1 \in 1 .. Len(tasks) /\ tasks[i + 1] = tasks[1] /\ i + 1 # 1
    BY <1>4, <1>5, <2>1
  <2> QED
    BY <1>6, <2>2
<1>8. \A i, j \in DOMAIN s : s[i] = s[j] => i = j
  <2>1. ASSUME NEW i \in 1 .. Len(s), NEW j \in 1 .. Len(s), s[i] = s[j] PROVE i = j
    <3>1. i + 1 \in 1 .. Len(tasks) /\ j + 1 \in 1 .. Len(tasks) /\ tasks[i + 1] = tasks[j + 1]
      BY <1>4, <1>5, <2>1
    <3>2. i + 1 = j + 1
      BY <1>6, <3>1
    <3> QED
      BY <3>2
  <2> QED
    BY <1>4, <2>1
<1>9. PoolTyped'
  BY <1>1, <1>3, <1>4 DEF BackupPart, PoolTyped
<1>10. tp /\ main \notin {"clear", "done"} /\ Len(tasks) <= conf.backup_queue_size
       /\ main \notin {"start", "done"}
  <2>1. tp /\ main \notin {"clear", "done"} /\ Len(tasks) <= conf.backup_queue_size
    BY <1>3 DEF BackupPart, BackupInv, PoolOK, PoolTyped
  <2>2. main # "start"
    <3>1. tasks[1] \in Range(accepted)
      BY <1>4 DEF BackupPart, BackupInv, ApartOK
    <3>2. accepted # <<>>
      BY <3>1, EmptyRange
    <3> QED
      BY <3>2 DEF SinkPart, SinkInv, QuietOK, Before
  <2> QED
    BY <2>1, <2>2
<1>11. conf.backup_queue_size \in Nat
  BY <1>10, ConfigNumbers DEF SinkPart, SinkInv, QuietOK
<1>12. Len(s) <= conf.backup_queue_size
  BY <1>4, <1>5, <1>10, <1>11
<1>13. PoolOK' /\ NumberedOK'
  BY <1>1, <1>3, <1>10, <1>12 DEF BackupPart, BackupInv, PoolOK, NumberedOK
<1>14. ApartOK'
  BY <1>1, <1>3, <1>4, <1>7, <1>8 DEF BackupPart, BackupInv, ApartOK
<1>15. /\ IsFiniteSet(running) /\ h \notin running
       /\ IsFiniteSet(running') /\ Cardinality(running') = Cardinality(running) + 1
  <2>1. IsFiniteSet(running) /\ h \notin running
    BY <1>4 DEF BackupPart, BackupInv, CountOK, ApartOK
  <2> QED
    BY <1>3, <2>1, FS_AddElement
<1>16. Backed' = Backed /\ BackupEnabled' = BackupEnabled /\ Waiting' = Waiting
  BY <1>1 DEF Backed, BackupEnabled, Waiting
<1>17. BackupEnabled
  BY <1>3 DEF BackupPart, BackupInv, CountOK
<1>18. Len(tasks') = Len(tasks) - 1
  BY <1>3, <1>4
<1>19. CountOK'
  <2>1. IsFiniteSet(sent') /\ IsFiniteSet(running') /\ IsFiniteSet(Backed')
    BY <1>1, <1>15, <1>16 DEF BackupPart, BackupInv, CountOK
  <2>2. BackupEnabled =>
          Cardinality(Backed') =
            Cardinality(sent') + failures' + drops'
              + Len(tasks') + Cardinality(running') + Cardinality(Waiting')
    <3> SUFFICES ASSUME BackupEnabled
                 PROVE  Cardinality(Backed') =
                          Cardinality(sent') + failures' + drops'
                            + Len(tasks') + Cardinality(running') + Cardinality(Waiting')
      OBVIOUS
    <3>1. Cardinality(Backed) =
            Cardinality(sent) + failures + drops
              + Len(tasks) + Cardinality(running) + Cardinality(Waiting)
      BY DEF BackupPart, BackupInv, CountOK
    <3>2. /\ Cardinality(sent) \in Nat /\ Cardinality(running) \in Nat
          /\ Cardinality(Waiting) \in Nat /\ Len(tasks) \in Nat
          /\ failures \in Nat /\ drops \in Nat
      BY CountsTyped
    <3>3. /\ Cardinality(Backed') = Cardinality(Backed) /\ drops' = drops
          /\ Cardinality(sent') = Cardinality(sent) /\ failures' = failures
          /\ Len(tasks') = Len(tasks) - 1 /\ Cardinality(running') = Cardinality(running) + 1
          /\ Cardinality(Waiting') = Cardinality(Waiting)
      BY <1>1, <1>15, <1>16, <1>18
    <3>4. Cardinality(sent') \in Nat /\ failures' \in Nat
      BY <1>1, <3>2
    <3> QED
      BY <3>1, <3>2, <3>3, <3>4
  <2>3. ~BackupEnabled =>
          sent' = {} /\ failures' = 0 /\ drops' = 0 /\ tasks' = <<>> /\ running' = {}
    BY <1>17 DEF BackupPart, BackupInv, CountOK
  <2> QED
    BY <1>16, <2>1, <2>2, <2>3 DEF CountOK
<1> QED
  BY <1>9, <1>13, <1>14, <1>19 DEF BackupPart, BackupInv

\* BackupError queues the message or counts it as dropped.
LEMMA BackupErrorBackup ==
  ASSUME SinkPart, BackupPart, NEW c \in Callers, BackupError(c)
  PROVE  BackupPart'
<1>1. PICK m : m = pending[c]
  OBVIOUS
<1>2. /\ m # None /\ m \in Messages /\ m \in Range(accepted)
      /\ m \notin Range(tasks) \cup running \cup sent
      /\ \A d \in Callers : pending[d] = m => d = c
  BY <1>1 DEF BackupError, BackupPart, BackupInv, ApartOK, PoolTyped
<1>3. /\ accepted' = accepted /\ conf' = conf /\ main' = main /\ tp' = tp
      /\ running' = running /\ stopping' = stopping /\ sent' = sent /\ failures' = failures
  BY DEF BackupError, channel
<1>4. /\ pending' \in [Callers -> Messages \cup {None}]
      /\ pending'[c] = None /\ \A d \in Callers : d # c => pending'[d] = pending[d]
      /\ Cardinality(Waiting') = Cardinality(Waiting) - 1
  BY <1>1, <1>2, SerializedCaller DEF BackupError
<1>5. main = "run" /\ tp /\ ~stopping
  BY <1>1, <1>2 DEF BackupPart, BackupInv, PoolOK
<1>6. conf.backup_queue_size \in Nat
  BY <1>5, ConfigNumbers DEF SinkPart, SinkInv, QuietOK
<1>7. tasks \in Seq(Messages) /\ Len(tasks) \in Nat /\ drops \in Nat
  BY DEF BackupPart, PoolTyped
<1>8. Backed' = Backed /\ BackupEnabled' = BackupEnabled
  BY <1>3 DEF Backed, BackupEnabled
<1>9. NumberedOK'
  BY <1>3 DEF BackupPart, BackupInv, NumberedOK
<1>10. /\ IsFiniteSet(sent) /\ IsFiniteSet(running) /\ IsFiniteSet(Backed)
       /\ Cardinality(sent) \in Nat /\ Cardinality(running) \in Nat
       /\ Cardinality(Waiting) \in Nat /\ failures \in Nat
  BY CountsTyped DEF BackupPart, BackupInv, CountOK
<1>11. CASE ~BackupEnabled /\ tasks' = tasks /\ drops' = drops
  <2>1. PoolTyped'
    BY <1>3, <1>4, <1>11 DEF BackupPart, PoolTyped
  <2>2. PoolOK'
    BY <1>3, <1>4, <1>11 DEF BackupPart, BackupInv, PoolOK
  <2>3. ApartOK'
    BY <1>3, <1>4, <1>11 DEF BackupPart, BackupInv, ApartOK
  <2>4. CountOK'
    BY <1>3, <1>8, <1>11 DEF BackupPart, BackupInv, CountOK
  <2> QED
    BY <1>9, <2>1, <2>2, <2>3, <2>4 DEF BackupPart, BackupInv
<1>12. ASSUME BackupEnabled, PoolTyped', PoolOK', ApartOK',
              drops' + Len(tasks') = drops + Len(tasks) + 1
       PROVE  BackupPart'
  <2>1. PICK x, y, u : x = drops' /\ y = Len(tasks') /\ u = Cardinality(Waiting')
    OBVIOUS
  <2>2. x \in Nat /\ y \in Nat /\ u = Cardinality(Waiting) - 1
        /\ x + y = drops + Len(tasks) + 1
    BY <1>4, <1>12, <2>1 DEF PoolTyped
  <2>3. Cardinality(Backed) =
          Cardinality(sent) + failures + drops
            + Len(tasks) + Cardinality(running) + Cardinality(Waiting)
    BY <1>12 DEF BackupPart, BackupInv, CountOK
  <2>4. Cardinality(Backed) = Cardinality(sent) + failures + x + y + Cardinality(running) + u
    <3>1. PICK a, b, d, e, f, g, h :
            /\ a = Cardinality(sent) /\ b = failures /\ d = drops /\ e = Len(tasks)
            /\ f = Cardinality(running) /\ g = Cardinality(Waiting) /\ h = Cardinality(Backed)
      OBVIOUS
    <3>2. /\ a \in Nat /\ b \in Nat /\ d \in Nat /\ e \in Nat /\ f \in Nat /\ g \in Nat
          /\ h = a + b + d + e + f + g /\ x + y = d + e + 1 /\ u = g - 1
      BY <1>7, <1>10, <2>2, <2>3, <3>1
    <3>3. h = a + b + x + y + f + u
      BY <2>2, <3>2
    <3> QED
      BY <3>1, <3>3
  <2>5. CountOK'
    BY <1>3, <1>8, <1>10, <1>12, <2>1, <2>4 DEF CountOK
  <2> QED
    BY <1>9, <1>12, <2>5 DEF BackupPart, BackupInv
<1>13. CASE BackupEnabled /\ Accepts /\ tasks' = Append(tasks, m) /\ drops' = drops
  <2>1. PICK q : q = Append(tasks, m)
    OBVIOUS
  <2>2. /\ q \in Seq(Messages) /\ Len(q) = Len(tasks) + 1 /\ Range(q) = Range(tasks) \cup {m}
        /\ q[Len(tasks) + 1] = m /\ \A i \in 1 .. Len(tasks) : q[i] = tasks[i]
    BY <1>2, <1>7, <2>1, AppendRange, AppendProperties
  <2>3. Len(tasks) < conf.backup_queue_size
    BY <1>13 DEF Accepts
  <2>4. PoolTyped'
    BY <1>3, <1>4, <1>13, <2>1, <2>2 DEF BackupPart, PoolTyped
  <2>5. PoolOK'
    <3>1. Len(q) <= conf.backup_queue_size
      BY <1>6, <1>7, <2>2, <2>3
    <3> QED
      BY <1>3, <1>4, <1>5, <1>13, <2>1, <3>1 DEF PoolOK
  <2>6. \A i, j \in DOMAIN q : q[i] = q[j] => i = j
    <3>1. ASSUME NEW i \in 1 .. Len(tasks) PROVE tasks[i] # m
      BY <1>2, <1>7, InRange
    <3>2. \A i, j \in 1 .. Len(tasks) : tasks[i] = tasks[j] => i = j
      BY <1>7 DEF BackupPart, BackupInv, ApartOK
    <3>3. DOMAIN q = 1 .. (Len(tasks) + 1)
      BY <2>2
    <3>4. ASSUME NEW i \in DOMAIN q PROVE i \in 1 .. Len(tasks) \/ i = Len(tasks) + 1
      BY <1>7, <3>3
    <3> QED
      BY <2>2, <3>1, <3>2, <3>4
  <2>7. ApartOK'
    BY <1>2, <1>3, <1>4, <1>13, <2>1, <2>2, <2>6 DEF BackupPart, BackupInv, ApartOK
  <2> QED
    BY <1>7, <1>12, <1>13, <2>1, <2>2, <2>4, <2>5, <2>7
<1>14. CASE BackupEnabled /\ drops' = drops + 1 /\ tasks' = tasks
  <2>1. PoolTyped'
    BY <1>3, <1>4, <1>14 DEF BackupPart, PoolTyped
  <2>2. PoolOK'
    BY <1>3, <1>4, <1>14 DEF BackupPart, BackupInv, PoolOK
  <2>3. ApartOK'
    BY <1>3, <1>4, <1>14 DEF BackupPart, BackupInv, ApartOK
  <2> QED
    BY <1>7, <1>12, <1>14, <2>1, <2>2, <2>3
<1> QED
  BY <1>1, <1>11, <1>13, <1>14 DEF BackupError

\* A message that is logged is new, and waits if it is to be backed up.
LEMMA LogBackup ==
  ASSUME SinkPart, BackupPart, NEW c \in Callers, NEW l \in Levels, Log(c, l)
  PROVE  BackupPart'
<1>1. PICK m, n : m = [id |-> n, level |-> l] /\ n = Len(accepted) + 1
  OBVIOUS
<1>2. /\ main = "run" /\ pending[c] = None /\ Len(accepted) < MaxLogs
      /\ accepted' = Append(accepted, m)
      /\ pending' = [pending EXCEPT ![c] = IF l = "INFO" THEN None ELSE m]
      /\ conf' = conf /\ main' = main /\ tp' = tp /\ tasks' = tasks /\ running' = running
      /\ stopping' = stopping /\ failures' = failures /\ drops' = drops /\ sent' = sent
  BY <1>1 DEF Log, Worker!Accept, pool, counts
<1>3. accepted \in Seq(Messages) /\ Len(accepted) \in Nat /\ m \in Messages /\ n \in Nat
  BY <1>1, <1>2, LoggerAssumption DEF SinkPart, ChannelTyped, Messages
<1>4. m # None /\ m.id = n /\ m.level = l
  BY <1>1, <1>3, LoggerAssumption
<1>5. PICK a : a = Append(accepted, m)
  OBVIOUS
<1>6. /\ a \in Seq(Messages) /\ Len(a) = n /\ a[n] = m
      /\ \A i \in 1 .. Len(accepted) : a[i] = accepted[i]
      /\ Range(a) = Range(accepted) \cup {m}
  BY <1>1, <1>3, <1>5, AppendProperties, AppendRange
<1>7. m \notin Range(accepted)
  <2> SUFFICES ASSUME m \in Range(accepted) PROVE FALSE
    OBVIOUS
  <2>1. PICK i \in 1 .. Len(accepted) : accepted[i] = m
    BY <1>3, InRange
  <2>2. accepted[i].id = i
    BY <1>3, <2>1 DEF BackupPart, BackupInv, NumberedOK
  <2> QED
    BY <1>1, <1>3, <1>4, <2>1, <2>2
<1>8. /\ pending' \in [Callers -> Messages \cup {None}]
      /\ pending'[c] = IF l = "INFO" THEN None ELSE m
      /\ \A d \in Callers : d # c => pending'[d] = pending[d]
  BY <1>2, <1>3 DEF BackupPart, PoolTyped
<1>9. PoolTyped'
  BY <1>2, <1>8 DEF BackupPart, PoolTyped
<1>10. PoolOK'
  BY <1>2 DEF BackupPart, BackupInv, PoolOK
<1>11. NumberedOK'
  <2>1. ASSUME NEW i \in DOMAIN a PROVE a[i].id = i
    <3>1. i \in 1 .. Len(accepted) \/ i = n
      BY <1>1, <1>3, <1>6
    <3>2. CASE i = n
      BY <1>4, <1>6, <3>2
    <3>3. CASE i \in 1 .. Len(accepted)
      BY <1>3, <1>6, <3>3 DEF BackupPart, BackupInv, NumberedOK
    <3> QED
      BY <3>1, <3>2, <3>3
  <2> QED
    BY <1>2, <1>5, <2>1 DEF NumberedOK
<1>12. ApartOK'
  <2>1. Range(accepted') = Range(accepted) \cup {m}
    BY <1>2, <1>5, <1>6
  <2>2. /\ m \notin Range(tasks) \cup running \cup sent
        /\ \A d \in Callers : pending[d] # m
    BY <1>4, <1>7 DEF BackupPart, BackupInv, ApartOK
  <2>3. ASSUME NEW d \in Callers, pending'[d] # None
        PROVE  /\ pending'[d] \in Range(accepted')
               /\ pending'[d] \notin Range(tasks') \cup running' \cup sent'
               /\ \A e \in Callers : pending'[e] = pending'[d] => e = d
    BY <1>2, <1>4, <1>8, <2>1, <2>2, <2>3 DEF BackupPart, BackupInv, ApartOK
  <2> QED
    BY <1>2, <2>1, <2>3 DEF BackupPart, BackupInv, ApartOK
<1>13. BackupEnabled' = BackupEnabled /\ Range(accepted') = Range(accepted) \cup {m}
  BY <1>2, <1>5, <1>6 DEF BackupEnabled
<1>14. IsFiniteSet(Backed) /\ IsFiniteSet(Waiting)
  BY CountsTyped DEF BackupPart, BackupInv, CountOK
<1>15. CASE l = "INFO"
  <2>1. Backed' = Backed
    BY <1>4, <1>13, <1>15 DEF Backed
  <2>2. Waiting' = Waiting
    BY <1>2, <1>8, <1>15 DEF Waiting
  <2>3. CountOK'
    BY <1>2, <1>13, <2>1, <2>2 DEF BackupPart, BackupInv, CountOK
  <2> QED
    BY <1>9, <1>10, <1>11, <1>12, <2>3 DEF BackupPart, BackupInv
<1>16. CASE l # "INFO"
  <2>1. Backed' = Backed \cup {m} /\ m \notin Backed
    BY <1>4, <1>7, <1>13, <1>16 DEF Backed
  <2>2. Waiting' = Waiting \cup {c} /\ c \notin Waiting
    BY <1>2, <1>4, <1>8, <1>16 DEF Waiting
  <2>3. /\ IsFiniteSet(Backed') /\ Cardinality(Backed') = Cardinality(Backed) + 1
        /\ Cardinality(Waiting') = Cardinality(Waiting) + 1
    BY <1>14, <2>1, <2>2, FS_AddElement
  <2>4. BackupEnabled =>
          Cardinality(Backed') =
            Cardinality(sent) + failures + drops
              + Len(tasks) + Cardinality(running) + Cardinality(Waiting')
    <3> SUFFICES ASSUME BackupEnabled
                 PROVE  Cardinality(Backed') =
                          Cardinality(sent) + failures + drops
                            + Len(tasks) + Cardinality(running) + Cardinality(Waiting')
      OBVIOUS
    <3>1. Cardinality(Backed) =
            Cardinality(sent) + failures + drops
              + Len(tasks) + Cardinality(running) + Cardinality(Waiting)
      BY DEF BackupPart, BackupInv, CountOK
    <3> QED
      BY <2>3, <3>1, CountsTyped
  <2>5. CountOK'
    BY <1>2, <1>13, <2>3, <2>4 DEF BackupPart, BackupInv, CountOK
  <2> QED
    BY <1>9, <1>10, <1>11, <1>12, <2>5 DEF BackupPart, BackupInv
<1> QED
  BY <1>15, <1>16

\* The steps of main move no message.
LEMMA MainBackup ==
  ASSUME SinkPart, BackupPart, MainStep \/ RunEnds
  PROVE  BackupPart'
<1>1. /\ accepted' = accepted /\ conf' = conf /\ tasks' = tasks /\ running' = running
      /\ pending' = pending /\ counts' = counts
  <2>1. CASE LoadConfig \/ StartPool \/ StartLogger \/ RunEnds
    BY <2>1 DEF LoadConfig, StartPool, StartLogger, RunEnds, channel, pool
  <2>2. CASE Shutdown \/ Join
    BY <2>2 DEF Shutdown, Join, Worker!Close, channel, pool
  <2>3. CASE Reset \/ Drain \/ Exit
    BY <2>3 DEF Reset, Drain, Exit, channel, pool
  <2> QED
    BY <2>1, <2>2, <2>3 DEF MainStep
<1>2. PoolOK /\ tp \in BOOLEAN /\ stopping \in BOOLEAN
  BY DEF BackupPart, BackupInv, PoolTyped
<1>3. CASE LoadConfig \/ StartLogger
  BY <1>1, <1>2, <1>3, BackupFrame DEF LoadConfig, StartLogger, pool, PoolOK
<1>4. CASE StartPool
  <2>1. main = "pool" /\ ~tp /\ tasks = <<>> /\ running = {} /\ ~stopping /\ stopping' = stopping
    BY <1>2, <1>4 DEF StartPool, PoolOK
  <2>2. conf.backup_queue_size \in Nat
    BY <2>1, ConfigNumbers DEF SinkPart, SinkInv, QuietOK
  <2>3. /\ main' \in {"logger", "reset", "terminated"} /\ tp' \in BOOLEAN
        /\ main' = "logger" => tp'
    BY <1>2, <1>4 DEF StartPool
  <2>4. Len(tasks') <= conf'.backup_queue_size
    BY <1>1, <2>1, <2>2
  <2>5. PoolOK'
    BY <1>1, <1>2, <2>1, <2>3, <2>4 DEF PoolOK
  <2> QED
    BY <1>1, <1>2, <2>1, <2>3, <2>5, BackupFrame
<1>5. CASE RunEnds \/ Shutdown \/ Join
  BY <1>1, <1>2, <1>5, BackupFrame DEF RunEnds, Shutdown, Join, pool, PoolOK
<1>6. CASE Reset \/ Drain \/ Exit
  <2>1. PoolOK' /\ tp' \in BOOLEAN /\ stopping' \in BOOLEAN
    <3>1. CASE Reset
      BY <1>1, <1>2, <3>1 DEF Reset, PoolOK
    <3>2. CASE Drain
      BY <1>1, <1>2, <3>2 DEF Drain, pool, PoolOK
    <3>3. CASE Exit
      BY <1>1, <1>2, <3>3 DEF Exit, PoolOK
    <3> QED
      BY <1>6, <3>1, <3>2, <3>3
  <2> QED
    BY <1>1, <2>1, BackupFrame
<1> QED
  BY <1>3, <1>4, <1>5, <1>6 DEF MainStep

\* Every step keeps the state of the backups right.
LEMMA BackupPartStep ==
  ASSUME SinkPart, BackupPart, [Next]_vars
  PROVE  BackupPart'
<1>1. ASSUME UNCHANGED <<accepted, conf, main, pool, pending, counts>> PROVE BackupPart'
  <2>1. PoolOK' /\ tp' \in BOOLEAN /\ stopping' \in BOOLEAN
    BY <1>1 DEF BackupPart, BackupInv, PoolTyped, PoolOK, pool
  <2> QED
    BY <1>1, <2>1, BackupFrame DEF pool
<1>2. CASE MainStep \/ RunEnds
  BY <1>2, MainBackup
<1>3. ASSUME NEW c \in Callers, (\E l \in Levels : Log(c, l)) \/ CallerStep(c)
      PROVE  BackupPart'
  BY <1>3, LogBackup, BackupFatalBackup, BackupErrorBackup DEF CallerStep
<1>4. CASE RealFlush
  BY <1>1, <1>4 DEF RealFlush, Worker!Deliver
<1>5. CASE SinkStep
  BY <1>1, <1>5 DEF SinkStep, channel
<1>6. CASE PoolStep
  BY <1>6, TakeTaskBackup, RunTaskBackup DEF PoolStep
<1>7. CASE UNCHANGED vars
  BY <1>1, <1>7 DEF vars, channel
<1> QED
  BY <1>2, <1>3, <1>4, <1>5, <1>6, <1>7 DEF Next, WorkerStep

-----------------------------------------------------------------------------
(* The theorems.                                                           *)

\* The two halves and the inductive invariant.
LEMMA Halves == IndInv <=> SinkPart /\ BackupPart
BY TypeParts, Zenon DEF IndInv, SinkPart, BackupPart

\* The initial states satisfy it.
LEMMA IndInit == Init => IndInv
<1> SUFFICES ASSUME Init PROVE SinkPart /\ BackupPart
  BY Halves
<1>1. /\ accepted = <<>> /\ delivered = <<>> /\ closed = FALSE
      /\ spc = "idle" /\ batch = <<>> /\ len = 0 /\ file = NoFile /\ current_size = 0
      /\ stored = {} /\ reported = {} /\ faults = 0 /\ conf \in Configs /\ main = "start"
      /\ tp = FALSE /\ tasks = <<>> /\ running = {} /\ stopping = FALSE
      /\ failures = 0 /\ drops = 0 /\ sent = {}
  BY DEF Init, Worker!Init, SinkInit
<1>2. pending \in [Callers -> {None}] /\ \A c \in Callers : pending[c] = None
  BY DEF Init
<1>3. <<>> \in Seq(Messages) /\ Len(<<>>) = 0 /\ Range(<<>>) = {}
  BY EmptySeq, EmptyRange
<1>4. ChannelTyped /\ SinkTyped /\ MainTyped
  <2>1. 0 \in 0 .. MaxFaults
    BY RollAssumption
  <2>2. ChannelTyped /\ MainTyped
    BY <1>1, <1>3 DEF ChannelTyped, MainTyped
  <2>3. SinkTyped
    BY <1>1, <1>3, <2>1 DEF SinkTyped
  <2> QED
    BY <2>2, <2>3
<1>5. PoolTyped
  BY <1>1, <1>2, <1>3 DEF PoolTyped
<1>6. QuietOK
  <2>1. SubSeq(<<>>, 1, 0) = <<>>
    BY SubSeqEmpty
  <2> QED
    BY <1>1, <1>3, <2>1 DEF QuietOK
<1>7. BatchOK /\ SourceOK /\ BufferOK /\ LossOK /\ RollOK
  BY <1>1, <1>3 DEF BatchOK, SourceOK, BufferOK, LossOK, RollOK
<1>8. PoolOK /\ NumberedOK
  BY <1>1, <1>2 DEF PoolOK, NumberedOK
<1>9. ApartOK
  BY <1>1, <1>2, <1>3 DEF ApartOK
<1>10. Waiting = {} /\ Backed = {}
  BY <1>1, <1>2, <1>3 DEF Waiting, Backed
<1>11. CountOK
  BY <1>1, <1>3, <1>10, FS_EmptySet DEF CountOK
<1> QED
  BY <1>4, <1>5, <1>6, <1>7, <1>8, <1>9, <1>11 DEF SinkPart, SinkInv, BackupPart, BackupInv

\* Every step of the program keeps the inductive invariant.
LEMMA IndNext == IndInv /\ [Next]_vars => IndInv'
<1> SUFFICES ASSUME IndInv, [Next]_vars PROVE IndInv'
  OBVIOUS
<1>1. SinkPart /\ BackupPart
  BY Halves
<1>2. SinkPart' /\ BackupPart'
  BY <1>1, SinkPartStep, BackupPartStep
<1>3. TypeOK'
  BY <1>2, Zenon DEF TypeOK, ChannelTyped, SinkTyped, MainTyped, PoolTyped, SinkPart, BackupPart
<1> QED
  BY <1>2, <1>3 DEF IndInv, SinkPart, BackupPart

\* The inductive invariant holds in every behaviour of the program.
THEOREM Invariance == Spec => []IndInv
<1> QED
  BY IndInit, IndNext, PTL DEF Spec

\* Every variable of the logging program keeps its type.
THEOREM TypeCorrect == Spec => []TypeOK
<1>1. IndInv => TypeOK
  BY DEF IndInv
<1> QED
  BY <1>1, Invariance, PTL

\* RollFileFlush lets a file outgrow max_size_ only by the batch it was opened
\* for, until a write to it fails.
THEOREM RollCorrect == Spec => []RollBound
<1>1. IndInv => RollBound
  BY DEF IndInv, SinkInv, RollOK, RollBound
<1> QED
  BY <1>1, Invariance, PTL

\* With flush_log, a message that Flush has returned from is with the kernel or
\* was reported, whichever calls failed.
THEOREM NoSilentLossCorrect == Spec => []NoSilentLoss
<1>1. IndInv => NoSilentLoss
  BY DEF IndInv, SinkInv, LossOK, Whereabouts, NoSilentLoss
<1> QED
  BY <1>1, Invariance, PTL

\* LoggerManager::Shutdown returns when the sink has received all, and when main
\* returns, if no call failed, all of it is in the files.
THEOREM StoredCorrect == Spec => []StoredAtExit
<1>1. IndInv => StoredAtExit
  <2> SUFFICES ASSUME IndInv, main = "done"
               PROVE  /\ delivered = accepted
                      /\ faults = 0 => stored = Range(accepted)
    BY DEF StoredAtExit
  <2>1. delivered = accepted /\ spc = "idle" /\ file = NoFile
    BY DEF IndInv, SinkInv, QuietOK, After
  <2>2. stored \subseteq Range(delivered) /\ (reported # {} => faults > 0)
    BY DEF IndInv, SinkInv, SourceOK
  <2>3. faults = 0 => Range(delivered) \subseteq stored
    BY <2>1, <2>2 DEF IndInv, SinkInv, LossOK, Whereabouts
  <2> QED
    BY <2>1, <2>2, <2>3
<1> QED
  BY <1>1, Invariance, PTL

\* At the end every message that AsyncLogger had to back up was sent or counted,
\* and none of them twice.
THEOREM BackupsCorrect == Spec => []BackupsAccounted
<1>1. IndInv => BackupsAccounted
  <2> SUFFICES ASSUME IndInv, main = "done"
               PROVE  Cardinality(sent) + failures + drops =
                        IF BackupEnabled THEN Cardinality(Backed) ELSE 0
    BY DEF BackupsAccounted
  <2>1. BackupPart
    BY Halves
  <2>2. tasks = <<>> /\ running = {} /\ \A c \in Callers : pending[c] = None
    BY <2>1 DEF BackupPart, BackupInv, PoolOK
  <2>3. Len(tasks) = 0 /\ Cardinality(running) = 0 /\ Cardinality(Waiting) = 0
    <3>1. Waiting = {}
      BY <2>2 DEF Waiting
    <3> QED
      BY <2>2, <3>1, FS_EmptySet
  <2>4. CASE BackupEnabled
    <3>1. Cardinality(Backed) = Cardinality(sent) + failures + drops + 0 + 0 + 0
      BY <2>1, <2>3, <2>4 DEF BackupPart, BackupInv, CountOK
    <3> QED
      BY <2>1, <2>4, <3>1, CountsTyped
  <2>5. CASE ~BackupEnabled
    BY <2>1, <2>5, FS_EmptySet DEF BackupPart, BackupInv, CountOK
  <2> QED
    BY <2>4, <2>5
<1> QED
  BY <1>1, Invariance, PTL

\* When main ends, every line of the log and every backup is accounted for.
THEOREM ExitCorrect == Spec => []AccountedAtExit
<1>1. StoredAtExit /\ BackupsAccounted => AccountedAtExit
  BY DEF AccountedAtExit
<1> QED
  BY <1>1, StoredCorrect, BackupsCorrect, PTL

\* AsyncLogger drops a backup only because the queue of the pool is full.
THEOREM DropsCorrect == Spec => DropsOnlyWhenFull
<1>1. IndInv /\ [Next]_vars =>
        [drops' # drops => tp /\ ~stopping /\ Len(tasks) = conf.backup_queue_size]_vars
  <2> SUFFICES ASSUME IndInv, Next, drops' # drops
               PROVE  tp /\ ~stopping /\ Len(tasks) = conf.backup_queue_size
    OBVIOUS
  <2>1. SinkPart /\ BackupPart
    BY Halves
  <2>2. ~MainStep /\ ~RunEnds /\ ~WorkerStep /\ ~PoolStep
    <3>1. ~MainStep /\ ~RunEnds
      BY DEF MainStep, LoadConfig, StartPool, StartLogger, Shutdown, Join, Reset, Drain,
             Exit, RunEnds, counts
    <3>2. ~WorkerStep /\ ~PoolStep
      BY DEF WorkerStep, RealFlush, SinkStep, PoolStep, TakeTask, RunTask, counts
    <3> QED
      BY <3>1, <3>2
  <2>3. PICK c \in Callers : BackupError(c)
    BY <2>2 DEF Next, Log, CallerStep, BackupFatal, counts
  <2>4. pending[c] # None /\ ~Accepts
    BY <2>3 DEF BackupError
  <2>5. main = "run" /\ tp /\ ~stopping /\ Len(tasks) <= conf.backup_queue_size
    BY <2>1, <2>4 DEF BackupPart, BackupInv, PoolOK
  <2>6. conf.backup_queue_size \in Nat /\ Len(tasks) \in Nat
    BY <2>1, <2>5, ConfigNumbers, CountsTyped DEF SinkPart, SinkInv, QuietOK
  <2> QED
    BY <2>4, <2>5, <2>6 DEF Accepts
<1> QED
  BY <1>1, Invariance, PTL DEF Spec, DropsOnlyWhenFull

-----------------------------------------------------------------------------
(* The pool of the program is a TaskQueue.                                 *)

Phase ==
  IF ~stopping THEN "open" ELSE IF main = "drain" THEN "closing" ELSE "ended"

\* The flag of the pool is set by thread_pool.reset() and by nothing before it.
StageOK ==
  /\ stopping => main \in {"drain", "clear", "done"}
  /\ main = "drain" => stopping

\* Where main stands when it changes the flag, the other steps leave both alone.
LEMMA MainStages ==
  ASSUME StageOK, MainStep \/ RunEnds
  PROVE  StageOK' /\ (~Reset /\ ~Drain => Phase' = Phase)
<1>1. CASE LoadConfig \/ StartPool \/ StartLogger \/ RunEnds \/ Shutdown \/ Join
  BY <1>1 DEF LoadConfig, StartPool, StartLogger, RunEnds, Shutdown, Join, pool, StageOK,
              Phase
<1>2. CASE Reset \/ Drain \/ Exit
  BY <1>2 DEF Reset, Drain, Exit, pool, StageOK, Phase
<1> QED
  BY <1>1, <1>2 DEF MainStep

\* No other thread changes where main is.
LEMMA OtherStages ==
  ASSUME [Next]_vars
  PROVE  (MainStep \/ RunEnds) \/ UNCHANGED <<conf, main, stopping>>
<1>1. ASSUME NEW c \in Callers, (\E l \in Levels : Log(c, l)) \/ CallerStep(c)
      PROVE  UNCHANGED <<conf, main, stopping>>
  BY <1>1 DEF Log, CallerStep, BackupFatal, BackupError, pool
<1>2. CASE WorkerStep
  BY <1>2 DEF WorkerStep, RealFlush, SinkStep, pool
<1>3. CASE PoolStep
  BY <1>3 DEF PoolStep, TakeTask, RunTask
<1>4. CASE UNCHANGED vars
  BY <1>4 DEF vars, pool
<1> QED
  BY <1>1, <1>2, <1>3, <1>4 DEF Next

\* Every step keeps the flag and the stage of main together.
LEMMA StageNext == StageOK /\ [Next]_vars => StageOK'
<1> SUFFICES ASSUME StageOK, [Next]_vars PROVE StageOK'
  OBVIOUS
<1>1. CASE UNCHANGED <<conf, main, stopping>>
  BY <1>1 DEF StageOK
<1> QED
  BY <1>1, MainStages, OtherStages

\* A step that leaves the tasks and the stage of the pool alone.
LEMMA QueueStutters ==
  ASSUME UNCHANGED <<conf, tasks, running>>, Phase' = Phase
  PROVE  UNCHANGED Queue!vars
  BY DEF Phase, Queue!vars, Queue!fixed

\* The steps of main close the queue, end it, or leave it alone.
LEMMA MainQueue ==
  ASSUME StageOK, MainStep \/ RunEnds
  PROVE  Queue!Next \/ UNCHANGED Queue!vars
<1>1. UNCHANGED <<conf, tasks, running>>
  <2>1. CASE LoadConfig \/ StartPool \/ StartLogger \/ RunEnds \/ Shutdown \/ Join
    BY <2>1 DEF LoadConfig, StartPool, StartLogger, RunEnds, Shutdown, Join, pool
  <2>2. CASE Reset \/ Drain \/ Exit
    BY <2>2 DEF Reset, Drain, Exit, pool
  <2> QED
    BY <2>1, <2>2 DEF MainStep
<1>2. CASE ~Reset /\ ~Drain
  BY <1>1, <1>2, MainStages, QueueStutters
<1>3. CASE Reset
  <2>1. ~stopping /\ Phase = "open"
    BY <1>3 DEF Reset, StageOK, Phase
  <2>2. CASE tp
    <3>1. Phase' = "closing"
      BY <1>3, <2>2 DEF Reset, Phase
    <3>2. Queue!Close
      BY <1>1, <2>1, <3>1 DEF Queue!Close, Queue!fixed, Phase
    <3> QED
      BY <3>2 DEF Queue!Next
  <2>3. CASE ~tp
    <3>1. Phase' = "open"
      BY <1>3, <2>3 DEF Reset, Phase
    <3> QED
      BY <1>1, <2>1, <3>1, QueueStutters
  <2> QED
    BY <2>2, <2>3
<1>4. CASE Drain
  <2>1. Phase = "closing" /\ Phase' = "ended" /\ tasks = <<>> /\ running = {}
    BY <1>4 DEF Drain, pool, StageOK, Phase
  <2>2. Queue!End
    BY <1>1, <2>1 DEF Queue!End, Queue!fixed, Phase
  <2> QED
    BY <2>2 DEF Queue!Next
<1> QED
  BY <1>2, <1>3, <1>4

\* A message that a caller has pushed is in no other place, so it is new to the
\* queue.
LEMMA BackupErrorQueue ==
  ASSUME BackupPart, NEW c \in Callers, BackupError(c)
  PROVE  Queue!Next \/ UNCHANGED Queue!vars
<1>1. UNCHANGED <<conf, running>> /\ Phase' = Phase
  BY DEF BackupError, Phase
<1>2. CASE tasks' = tasks
  BY <1>1, <1>2, QueueStutters
<1>3. CASE Accepts /\ tasks' = Append(tasks, pending[c])
  <2>1. PICK m \in Messages : m = pending[c]
    BY DEF BackupError, BackupPart, PoolTyped
  <2>2. m \notin running /\ m \notin Range(tasks)
    BY <2>1 DEF BackupError, BackupPart, BackupInv, ApartOK
  <2>3. ~Queue!InPool(m)
    BY <2>2 DEF Queue!InPool, Range
  <2>4. Phase = "open" /\ Len(tasks) < conf.backup_queue_size
    BY <1>3 DEF Accepts, Phase
  <2>5. Queue!Submit(m)
    BY <1>1, <1>3, <2>1, <2>3, <2>4 DEF Queue!Submit, Queue!fixed, Phase
  <2> QED
    BY <2>5 DEF Queue!Next
<1> QED
  BY <1>2, <1>3 DEF BackupError

\* Its threads take tasks and finish them.
LEMMA PoolQueue ==
  ASSUME BackupPart, StageOK, PoolStep
  PROVE  Queue!Next
<1>1. CASE TakeTask
  <2>1. main \notin {"clear", "done"}
    BY <1>1 DEF TakeTask, BackupPart, BackupInv, PoolOK
  <2>2. Phase # "ended" /\ Phase' = Phase
    BY <1>1, <2>1 DEF TakeTask, StageOK, Phase
  <2>3. Queue!Cardinality(running) = Cardinality(running)
    BY DEF Cardinality, Queue!Cardinality
  <2>4. Queue!Take
    BY <1>1, <2>2, <2>3 DEF TakeTask, Queue!Take, Queue!fixed, Phase
  <2> QED
    BY <2>4 DEF Queue!Next
<1>2. ASSUME NEW m \in running, RunTask(m) PROVE Queue!Next
  <2>1. m \in Messages /\ Phase' = Phase
    BY <1>2 DEF RunTask, BackupPart, PoolTyped, Phase
  <2>2. Queue!Finish(m)
    BY <1>2, <2>1 DEF RunTask, Queue!Finish, Queue!fixed, Phase
  <2> QED
    BY <2>1, <2>2 DEF Queue!Next
<1> QED
  BY <1>1, <1>2 DEF PoolStep

\* Serialize, the threads of the pool and the steps of main's shutdown use the
\* pool only as the TaskQueue that ThreadPool implements: what Logger leaves out
\* of the pool, it may leave out.
THEOREM QueueCorrect == Spec => ImplementsQueue
<1>1. Init => Queue!Init /\ StageOK
  BY DEF Init, Queue!Init, StageOK
<1>2. IndInv /\ StageOK /\ [Next]_vars => [Queue!Next]_(Queue!vars)
  <2> SUFFICES ASSUME IndInv, StageOK, [Next]_vars
               PROVE  Queue!Next \/ UNCHANGED Queue!vars
    OBVIOUS
  <2>1. BackupPart
    BY Halves
  <2>2. ASSUME NEW c \in Callers, (\E l \in Levels : Log(c, l)) \/ BackupFatal(c)
        PROVE  UNCHANGED Queue!vars
    <3>1. UNCHANGED <<conf, tasks, running, main, stopping>>
      BY <2>2 DEF Log, BackupFatal, pool
    <3> QED
      BY <3>1, QueueStutters DEF Phase
  <2>3. CASE WorkerStep
    <3>1. UNCHANGED <<conf, tasks, running, main, stopping>>
      BY <2>3 DEF WorkerStep, RealFlush, SinkStep, pool
    <3> QED
      BY <3>1, QueueStutters DEF Phase
  <2>4. CASE UNCHANGED vars
    BY <2>4, QueueStutters DEF vars, pool, Phase
  <2> QED
    BY <2>1, <2>2, <2>3, <2>4, MainQueue, BackupErrorQueue, PoolQueue DEF Next, CallerStep
<1> QED
  BY <1>1, <1>2, StageNext, Invariance, PTL DEF Spec, ImplementsQueue, Queue!Spec
=============================================================================
