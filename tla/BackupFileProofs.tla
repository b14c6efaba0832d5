--------------------------- MODULE BackupFileProofs ---------------------------
(***************************************************************************)
(* Proofs about BackupFile, for any number of generations, any limit and   *)
(* any sizes of messages, with any number of failures and crashes: the     *)
(* bound on the size of a file, the order of the messages in the           *)
(* generations, that a rotation replaces no generation but the oldest, and *)
(* that it gives a message up only when all generations are in use.        *)
(***************************************************************************)
EXTENDS BackupFile, FiniteSetTheorems, SequenceTheorems, TLAPS

-----------------------------------------------------------------------------
(* The inductive invariant.                                                *)

\* The message that is being written has a size; it is appended only to a file
\* it fits in or to no file.
SizeOK ==
  /\ pc # "idle" => size \in Sizes /\ count > 0
  /\ pc = "append" => gen[0] = None \/ gen[0].size + size <= MaxSize

\* No file holds a message with a later number than the current one, nor,
\* before it is appended, the current one itself.
FreshOK ==
  \A i \in Slots : gen[i] # None =>
    \A a \in DOMAIN gen[i].ids :
      gen[i].ids[a] <= count /\ (pc # "idle" => gen[i].ids[a] < count)

\* The slot that the next rename of a rotation fills is free, unless it is the
\* oldest one.
HoleOK ==
  pc = "shift" => index \in 1 .. Retained
                  /\ (index < Retained => gen[index] = None)

\* The slot a rotation without failures has freed, if there is one.
Hole ==
  CASE pc = "shift" -> {index}
    [] pc = "append" -> {0}
    [] OTHER -> {}

\* While nothing fails the generations have no gap but that slot, and once a
\* message is lost all of them are in use.
PackedOK ==
  faults = 0 /\ crashes = 0 =>
    /\ pc = "shift" => gen[index] = None
    /\ \A i \in Slots, j \in Slots \ Hole :
         j < i /\ gen[i] # None => gen[j] # None
    /\ lost # {} => \A j \in Slots \ Hole : gen[j] # None

IndInv ==
  /\ TypeOK
  /\ SizeOK
  /\ FreshOK
  /\ HoleOK
  /\ PackedOK
  /\ SizeBound
  /\ Chronological

-----------------------------------------------------------------------------
(* Lemmas on the operators.                                                *)

\* A finite set of numbers that is not empty has a largest member.
LEMMA MaxExists ==
  ASSUME NEW S \in SUBSET Nat, IsFiniteSet(S), S # {}
  PROVE  \E n \in S : \A m \in S : m <= n
<1> DEFINE Above(n) == {m \in S : m > n}
           T == {Above(n) : n \in S}
<1>1. T \subseteq FiniteSubsetsOf(S) /\ T # {}
  <2>1. ASSUME NEW n \in S PROVE Above(n) \in SUBSET S /\ IsFiniteSet(Above(n))
    BY FS_Subset
  <2> QED
    BY <2>1 DEF FiniteSubsetsOf
<1>2. IsWellFoundedOn(StrictSubsetOrdering(S), FiniteSubsetsOf(S))
  BY FS_StrictSubsetOrderingWellFounded
<1>3. PICK U \in T : \A V \in T : <<V, U>> \notin StrictSubsetOrdering(S)
  <2> HIDE DEF T
  <2> QED
    BY <1>1, <1>2, WFMin
<1>4. PICK n \in S : U = Above(n)
  OBVIOUS
<1>5. ASSUME NEW m \in S, ~(m <= n) PROVE FALSE
  <2>1. m \in Above(n) /\ m \notin Above(m) /\ Above(m) \subseteq Above(n)
    <3>1. m \in Nat /\ n \in Nat /\ m > n
      BY <1>5
    <3>2. ASSUME NEW x \in S, x > m PROVE x > n
      BY <3>1, <3>2
    <3>3. m \in Above(n) /\ m \notin Above(m)
      BY <3>1
    <3>4. Above(m) \subseteq Above(n)
      BY <3>2
    <3> QED
      BY <3>3, <3>4
  <2>2. <<Above(m), U>> \in StrictSubsetOrdering(S)
    <3>1. Above(m) \in SUBSET S /\ Above(n) \in SUBSET S
      OBVIOUS
    <3>2. Above(m) \subseteq Above(n) /\ Above(m) # Above(n)
      BY <2>1
    <3> HIDE DEF Above
    <3> QED
      BY <1>4, <3>1, <3>2 DEF StrictSubsetOrdering
  <2> QED
    BY <1>3, <2>2
<1> QED
  BY <1>5

\* The limit and the sizes of the messages are at most Largest.
LEMMA LargestBounds ==
  /\ Largest \in Nat
  /\ \A n \in Sizes \cup {MaxSize} : n <= Largest
<1> DEFINE S == Sizes \cup {MaxSize}
<1>1. S \in SUBSET Nat /\ S # {} /\ IsFiniteSet(S)
  BY BackupFileAssumption, FS_AddElement
<1>2. \E n \in S : \A m \in S : m <= n
  BY <1>1, MaxExists
<1>3. Largest \in S /\ \A m \in S : m <= Largest
  BY <1>2 DEF Largest
<1> QED
  BY <1>1, <1>3

\* What it means that some file holds a message.
LEMMA InHeld ==
  ASSUME NEW g, NEW x
  PROVE  x \in Held(g) <=>
           \E i \in Slots : g[i] # None /\ \E a \in DOMAIN g[i].ids : x = g[i].ids[a]
BY DEF Held

\* Nothing is lost when the messages of every file are in some file afterwards.
LEMMA HeldKept ==
  ASSUME NEW g, NEW h,
         \A i \in Slots : g[i] # None =>
           \E k \in Slots : h[k] # None /\
             \A a \in DOMAIN g[i].ids :
               \E b \in DOMAIN h[k].ids : h[k].ids[b] = g[i].ids[a]
  PROVE  Held(g) \subseteq Held(h)
<1> SUFFICES ASSUME NEW x \in Held(g) PROVE x \in Held(h)
  OBVIOUS
<1>1. PICK i \in Slots : g[i] # None /\ \E a \in DOMAIN g[i].ids : x = g[i].ids[a]
  BY InHeld
<1>2. PICK k \in Slots : h[k] # None /\
             \A a \in DOMAIN g[i].ids :
               \E b \in DOMAIN h[k].ids : h[k].ids[b] = g[i].ids[a]
  BY <1>1
<1> QED
  BY <1>1, <1>2, InHeld

\* The slots of the generations and the constants are numbers.
LEMMA SlotNumbers ==
  /\ Retained \in Nat /\ Retained > 0 /\ MaxSize \in Nat
  /\ 0 \in Slots /\ 1 \in Slots /\ Retained \in Slots
  /\ \A i \in Slots : i \in Nat /\ i <= Retained
BY BackupFileAssumption DEF Slots

-----------------------------------------------------------------------------
(* What the file system calls do to the generations.                       *)

File == [ids : Seq(Ids), size : Nat]

GenOK ==
  /\ DOMAIN gen = Slots
  /\ \A i \in Slots : gen[i] # None => gen[i] \in File

\* Slot k is emptied.
Emptied(k) ==
  /\ DOMAIN gen' = Slots
  /\ \A i \in Slots : gen'[i] = IF i = k THEN None ELSE gen[i]

\* The file of slot k is moved to the next one.
MovedUp(k) ==
  /\ DOMAIN gen' = Slots
  /\ gen[k] # None
  /\ \A i \in Slots : gen'[i] = IF i = k THEN None
                                ELSE IF i = k + 1 THEN gen[k] ELSE gen[i]

\* The file of slot 0 gains the current message and n bytes.
Gained(n) ==
  /\ DOMAIN gen' = Slots
  /\ \A i \in Slots \ {0} : gen'[i] = gen[i]
  /\ gen'[0].ids = Append(IF gen[0] = None THEN <<>> ELSE gen[0].ids, count)
  /\ gen'[0].size = (IF gen[0] = None THEN 0 ELSE gen[0].size) + n
  /\ gen'[0] \in File

\* rename(2) from a slot to the next moves its file, if there is one.
LEMMA RenamedMoves ==
  ASSUME TypeOK, NEW k \in Slots, k + 1 \in Slots, gen' = Renamed(k, k + 1)
  PROVE  IF gen[k] = None THEN gen' = gen ELSE MovedUp(k)
<1>1. k # k + 1
  BY SlotNumbers
<1> QED
  BY <1>1 DEF Renamed, MovedUp, TypeOK

\* fwrite lets the current file gain the current message.
LEMMA GrownGains ==
  ASSUME TypeOK, count > 0, NEW n \in Nat, gen' = Grown(n)
  PROVE  Gained(n)
<1> DEFINE f == IF gen[0] = None THEN Empty ELSE gen[0]
<1>0. 0 \in Slots /\ count \in Ids
  BY SlotNumbers, BackupFileAssumption DEF TypeOK, Ids
<1>1. f \in File
  BY <1>0 DEF TypeOK, Empty, File
<1>2. f.ids \in Seq(Ids) /\ f.size \in Nat
  BY <1>1 DEF File
<1>3. Append(f.ids, count) \in Seq(Ids) /\ f.size + n \in Nat
  BY <1>0, <1>2, AppendProperties
<1>4. gen' = [gen EXCEPT ![0] = [ids |-> Append(f.ids, count), size |-> f.size + n]]
  BY DEF Grown
<1>5. /\ DOMAIN gen' = Slots
      /\ \A i \in Slots \ {0} : gen'[i] = gen[i]
      /\ gen'[0] = [ids |-> Append(f.ids, count), size |-> f.size + n]
  BY <1>0, <1>4 DEF TypeOK
<1>6. gen'[0] \in File
  BY <1>3, <1>5 DEF File
<1>7. /\ f.ids = IF gen[0] = None THEN <<>> ELSE gen[0].ids
      /\ f.size = IF gen[0] = None THEN 0 ELSE gen[0].size
  BY DEF Empty
<1> HIDE DEF f
<1> QED
  BY <1>5, <1>6, <1>7 DEF Gained

\* Every file afterwards was a file before.
LEMMA SameFiles ==
  ASSUME \/ UNCHANGED gen
         \/ \E k \in Slots : Emptied(k)
         \/ \E k \in Slots : MovedUp(k)
  PROVE  \A i \in Slots : gen'[i] # None =>
           \E k \in Slots : gen[k] # None /\ gen'[i] = gen[k]
BY DEF Emptied, MovedUp

\* Moving and dropping files keeps their types, their sizes and the order of
\* the messages.
LEMMA FilesKept ==
  ASSUME TypeOK, SizeBound, Chronological,
         \/ UNCHANGED gen
         \/ \E k \in Slots : Emptied(k)
         \/ \E k \in Slots : k + 1 \in Slots /\ MovedUp(k)
  PROVE  GenOK' /\ SizeBound' /\ Chronological'
<1>1. \A i \in Slots : gen'[i] # None =>
           \E k \in Slots : gen[k] # None /\ gen'[i] = gen[k]
  BY SameFiles
<1>2. DOMAIN gen' = Slots
  BY DEF TypeOK, Emptied, MovedUp
<1>3. GenOK'
  BY <1>1, <1>2 DEF GenOK, TypeOK, File
<1>4. SizeBound'
  BY <1>1 DEF SizeBound
<1>5. Chronological'
  <2>1. CASE UNCHANGED gen
    BY <2>1 DEF Chronological
  <2>2. ASSUME NEW k \in Slots, Emptied(k) PROVE Chronological'
    BY <2>2 DEF Emptied, Chronological
  <2>3. ASSUME NEW k \in Slots, k + 1 \in Slots, MovedUp(k) PROVE Chronological'
    <3> SUFFICES ASSUME NEW i \in Slots, NEW j \in Slots,
                        gen'[i] # None, gen'[j] # None,
                        NEW a \in DOMAIN gen'[i].ids, NEW b \in DOMAIN gen'[j].ids,
                        i > j \/ (i = j /\ a < b)
                 PROVE  gen'[i].ids[a] < gen'[j].ids[b]
      BY DEF Chronological
    <3> DEFINE Src(m) == IF m = k + 1 THEN k ELSE m
    <3>1. i # k /\ j # k
      BY <2>3 DEF MovedUp
    <3>2. /\ Src(i) \in Slots /\ gen'[i] = gen[Src(i)]
          /\ Src(j) \in Slots /\ gen'[j] = gen[Src(j)]
      BY <2>3, <3>1 DEF MovedUp
    <3>3. i > j => Src(i) > Src(j)
      BY <3>1, SlotNumbers
    <3>4. i = j => Src(i) = Src(j)
      OBVIOUS
    <3> HIDE DEF Src
    <3> QED
      BY <3>2, <3>3, <3>4 DEF Chronological
  <2> QED
    BY <2>1, <2>2, <2>3
<1> QED
  BY <1>3, <1>4, <1>5

\* ... and the numbers of their messages.
LEMMA FreshKept ==
  ASSUME FreshOK, count' = count, pc # "idle",
         \/ UNCHANGED gen
         \/ \E k \in Slots : Emptied(k)
         \/ \E k \in Slots : MovedUp(k)
  PROVE  FreshOK'
BY SameFiles DEF FreshOK

\* Appending the current message keeps the types, the sizes and the order.
LEMMA FilesGained ==
  ASSUME IndInv, pc = "append", NEW n \in 0 .. size + 1, Gained(n), count' = count
  PROVE  /\ GenOK' /\ SizeBound' /\ Chronological'
         /\ \A i \in Slots : gen'[i] # None =>
              \A a \in DOMAIN gen'[i].ids : gen'[i].ids[a] <= count
<1> DEFINE s == IF gen[0] = None THEN <<>> ELSE gen[0].ids
           b == IF gen[0] = None THEN 0 ELSE gen[0].size
           t == gen'[0].ids
<1>0. 0 \in Slots /\ gen'[0] \in File /\ size \in Nat /\ size \in Sizes /\ n \in Nat
  BY SlotNumbers, BackupFileAssumption DEF Gained, IndInv, SizeOK
<1>1. s \in Seq(Ids) /\ b \in Nat /\ count \in Nat
  BY <1>0 DEF IndInv, TypeOK
<1>2. GenOK'
  BY <1>0 DEF Gained, GenOK, IndInv, TypeOK, File
<1>3. b + n <= Largest + 1
  <2>1. size <= Largest /\ MaxSize <= Largest /\ Largest \in Nat /\ MaxSize \in Nat
    BY <1>0, LargestBounds, SlotNumbers
  <2>2. b + size <= MaxSize \/ b = 0
    BY DEF IndInv, SizeOK
  <2> HIDE DEF b
  <2> QED
    BY <1>0, <1>1, <2>1, <2>2
<1>4. SizeBound'
  <2>1. gen'[0].size <= Largest + 1
    BY <1>3 DEF Gained
  <2> QED
    BY <2>1 DEF Gained, IndInv, SizeBound
<1>5. /\ DOMAIN t = 1 .. Len(s) + 1 /\ DOMAIN s = 1 .. Len(s) /\ Len(s) \in Nat
      /\ t[Len(s) + 1] = count
      /\ \A a \in 1 .. Len(s) : t[a] = s[a]
  <2>1. t = Append(s, count)
    BY DEF Gained
  <2> HIDE DEF s, t
  <2>2. count \in Ids
    BY BackupFileAssumption DEF IndInv, SizeOK, TypeOK, Ids
  <2> QED
    BY <1>1, <2>1, <2>2, AppendProperties, LenProperties
<1>6. \A a \in 1 .. Len(s) : s[a] < count
  BY <1>0, <1>5 DEF IndInv, FreshOK
<1>7. ASSUME NEW i \in Slots, i # 0, gen'[i] # None, NEW a \in DOMAIN gen'[i].ids
      PROVE  gen'[i].ids[a] < count /\ gen'[i] = gen[i]
  BY <1>7 DEF Gained, IndInv, FreshOK
<1>8. \A i \in Slots : gen'[i] # None =>
        \A a \in DOMAIN gen'[i].ids : gen'[i].ids[a] <= count
  <2> SUFFICES ASSUME NEW i \in Slots, gen'[i] # None, NEW a \in DOMAIN gen'[i].ids
               PROVE  gen'[i].ids[a] <= count
    OBVIOUS
  <2>1. gen'[i].ids[a] \in Nat
    <3>1. gen'[i].ids \in Seq(Ids)
      BY <1>2 DEF GenOK, File
    <3>2. gen'[i].ids[a] \in Ids
      BY <3>1
    <3> QED
      BY <3>2 DEF Ids
  <2>2. CASE i # 0
    BY <1>1, <1>7, <2>1, <2>2
  <2>3. CASE i = 0
    <3>1. a \in 1 .. Len(s) + 1 /\ t[a] \in Nat
      BY <1>5, <2>1, <2>3
    <3>2. CASE a = Len(s) + 1
      BY <1>1, <1>5, <2>3, <3>2
    <3>3. CASE a # Len(s) + 1
      <4>1. a \in 1 .. Len(s)
        BY <1>5, <3>1, <3>3
      <4>2. t[a] < count
        BY <1>5, <1>6, <4>1
      <4> QED
        BY <1>1, <2>3, <3>1, <4>2
    <3> QED
      BY <3>2, <3>3
  <2> QED
    BY <2>2, <2>3
<1>9. Chronological'
  <2> SUFFICES ASSUME NEW i \in Slots, NEW j \in Slots,
                      gen'[i] # None, gen'[j] # None,
                      NEW a \in DOMAIN gen'[i].ids, NEW c \in DOMAIN gen'[j].ids,
                      i > j \/ (i = j /\ a < c)
               PROVE  gen'[i].ids[a] < gen'[j].ids[c]
    BY DEF Chronological
  <2>0. i \in Nat /\ j \in Nat
    BY SlotNumbers
  <2>1. CASE j # 0
    <3>1. i # 0
      BY <2>0, <2>1
    <3> QED
      BY <1>7, <2>1, <3>1 DEF IndInv, Chronological
  <2>2. CASE j = 0
    <3>1. c \in 1 .. Len(s) + 1
      BY <1>5, <2>2
    <3>2. CASE c = Len(s) + 1
      <4>1. CASE i # 0
        BY <1>5, <1>7, <2>2, <3>2, <4>1
      <4>2. CASE i = 0
        <5>1. a \in 1 .. Len(s)
          BY <1>5, <2>0, <2>2, <3>2, <4>2
        <5> QED
          BY <1>5, <1>6, <2>2, <3>2, <4>2, <5>1
      <4> QED
        BY <4>1, <4>2
    <3>3. CASE c # Len(s) + 1
      <4>1. c \in 1 .. Len(s) /\ t[c] = s[c]
        BY <1>5, <3>1, <3>3
      <4>2. gen[0] # None /\ s = gen[0].ids
        BY <4>1
      <4>3. CASE i # 0
        <5>1. gen'[i] = gen[i] /\ gen[i] # None /\ i > 0
          BY <1>7, <2>0, <4>3
        <5>2. gen[i].ids[a] < gen[0].ids[c]
          BY <1>0, <1>5, <4>1, <4>2, <5>1 DEF IndInv, Chronological
        <5> QED
          BY <2>2, <4>1, <4>2, <5>1, <5>2
      <4>4. CASE i = 0
        <5>1. a \in 1 .. Len(s) /\ a < c
          BY <1>5, <2>0, <2>2, <4>1, <4>4
        <5>2. gen[0].ids[a] < gen[0].ids[c]
          BY <1>0, <1>5, <4>1, <4>2, <5>1 DEF IndInv, Chronological
        <5> QED
          BY <1>5, <2>2, <4>1, <4>2, <4>4, <5>1, <5>2
      <4> QED
        BY <4>3, <4>4
    <3> QED
      BY <3>2, <3>3
  <2> QED
    BY <2>1, <2>2
<1> QED
  BY <1>2, <1>4, <1>8, <1>9

\* Nothing is lost by appending.
LEMMA HeldGained ==
  ASSUME TypeOK, NEW n \in Nat, Gained(n), count > 0
  PROVE  Held(gen) \subseteq Held(gen') /\ gen'[0] # None
<1>0. 0 \in Slots /\ count \in Ids
  BY SlotNumbers, BackupFileAssumption DEF TypeOK, Ids
<1>1. gen'[0] # None
  BY BackupFileAssumption DEF Gained, File, Ids
<1>2. ASSUME gen[0] # None, NEW a \in DOMAIN gen[0].ids
      PROVE  a \in DOMAIN gen'[0].ids /\ gen'[0].ids[a] = gen[0].ids[a]
  <2>1. gen[0].ids \in Seq(Ids)
    BY <1>0, <1>2 DEF TypeOK
  <2>2. gen'[0].ids = Append(gen[0].ids, count)
    BY <1>2 DEF Gained
  <2> QED
    BY <1>0, <1>2, <2>1, <2>2, AppendProperties, LenProperties
<1>3. \A i \in Slots : gen[i] # None =>
           \E k \in Slots : gen'[k] # None /\
             \A a \in DOMAIN gen[i].ids :
               \E b \in DOMAIN gen'[k].ids : gen'[k].ids[b] = gen[i].ids[a]
  <2> SUFFICES ASSUME NEW i \in Slots, gen[i] # None
               PROVE  gen'[i] # None /\
                      \A a \in DOMAIN gen[i].ids :
                        \E b \in DOMAIN gen'[i].ids : gen'[i].ids[b] = gen[i].ids[a]
    OBVIOUS
  <2>1. CASE i = 0
    BY <1>1, <1>2, <2>1
  <2>2. CASE i # 0
    BY <2>2 DEF Gained
  <2> QED
    BY <2>1, <2>2
<1>4. Held(gen) \subseteq Held(gen')
  <2>1. PICK h : h = gen'
    OBVIOUS
  <2>2. Held(gen) \subseteq Held(h)
    BY <1>3, <2>1, HeldKept
  <2> QED
    BY <2>1, <2>2 DEF Held
<1> QED
  BY <1>1, <1>4

\* Moving a file to a free slot loses nothing.
LEMMA HeldMoved ==
  ASSUME TypeOK, NEW k \in Slots, k + 1 \in Slots, MovedUp(k), gen[k + 1] = None
  PROVE  Held(gen) \subseteq Held(gen')
<1>1. PICK h : h = gen'
  OBVIOUS
<1>2. \A i \in Slots : gen[i] # None => \E m \in Slots : h[m] = gen[i]
  BY <1>1, SlotNumbers DEF MovedUp
<1>3. Held(gen) \subseteq Held(h)
  BY <1>2, HeldKept
<1> QED
  BY <1>1, <1>3 DEF Held

-----------------------------------------------------------------------------
(* The invariant holds.                                                    *)

\* The initial states satisfy the invariant.
LEMMA IndInit == Init => IndInv
<1> SUFFICES ASSUME Init PROVE IndInv
  OBVIOUS
<1> USE BackupFileAssumption
<1>1. \A i \in Slots : gen[i] = None
  BY DEF Init
<1>2. TypeOK
  BY <1>1 DEF Init, TypeOK, Slots
<1>3. SizeOK /\ HoleOK
  BY DEF Init, SizeOK, HoleOK
<1>4. FreshOK /\ SizeBound /\ Chronological
  BY <1>1 DEF FreshOK, SizeBound, Chronological
<1>5. PackedOK
  BY <1>1 DEF Init, PackedOK
<1> QED
  BY <1>2, <1>3, <1>4, <1>5 DEF IndInv

\* What the files hold are messages.
LEMMA HeldTyped ==
  ASSUME TypeOK
  PROVE  Held(gen) \subseteq Ids
<1> SUFFICES ASSUME NEW x \in Held(gen) PROVE x \in Ids
  OBVIOUS
<1>1. PICK i \in Slots : gen[i] # None /\ \E a \in DOMAIN gen[i].ids : x = gen[i].ids[a]
  BY InHeld
<1>2. gen[i].ids \in Seq(Ids)
  BY <1>1 DEF TypeOK
<1> QED
  BY <1>1, <1>2

\* Write keeps the invariant.
LEMMA WriteStep ==
  ASSUME IndInv, NEW n \in Sizes, Write(n)
  PROVE  IndInv'
<1> USE BackupFileAssumption
<1>0. gen' = gen /\ index' = index /\ crashes' = crashes /\ lost' = lost /\ pc = "idle"
  BY DEF Write
<1>1. count \in Nat /\ count' = count + 1 /\ count' \in 0 .. MaxMessages
      /\ size' = n /\ pc' \in {"idle", "append", "oldest"}
      /\ faults' \in 0 .. MaxFaults
  BY DEF Write, NoFault, Fault, IndInv, TypeOK
<1>2. TypeOK'
  BY <1>0, <1>1 DEF IndInv, TypeOK
<1>3. SizeOK'
  <2>1. pc' = "append" => Fits(n)
    BY DEF Write
  <2>2. Fits(n) => gen[0] = None \/ gen[0].size + n <= MaxSize
    BY DEF Fits, CurrentSize
  <2> QED
    BY <1>0, <1>1, <2>1, <2>2 DEF SizeOK
<1>4. FreshOK'
  <2> SUFFICES ASSUME NEW i \in Slots, gen[i] # None, NEW a \in DOMAIN gen[i].ids
               PROVE  gen[i].ids[a] <= count' /\ gen[i].ids[a] < count'
    BY <1>0 DEF FreshOK
  <2>1. gen[i].ids[a] <= count
    BY DEF IndInv, FreshOK
  <2>2. gen[i].ids \in Seq(Ids)
    BY DEF IndInv, TypeOK
  <2>3. gen[i].ids[a] \in Nat
    BY <2>2 DEF Ids
  <2> QED
    BY <1>1, <2>1, <2>3
<1>5. HoleOK'
  BY <1>1 DEF HoleOK
<1>6. PackedOK'
  <2> SUFFICES ASSUME faults' = 0, crashes = 0
               PROVE  /\ \A i \in Slots, j \in Slots : j < i /\ gen[i] # None => gen[j] # None
                      /\ lost # {} => \A j \in Slots : gen[j] # None
    BY <1>0, <1>1 DEF PackedOK
  <2>1. faults = 0
    BY DEF Write, NoFault, Fault, IndInv, TypeOK
  <2>2. Hole = {}
    BY <1>0 DEF Hole
  <2> QED
    BY <1>0, <2>1, <2>2 DEF IndInv, PackedOK
<1>7. SizeBound' /\ Chronological'
  BY <1>0 DEF IndInv, SizeBound, Chronological
<1> QED
  BY <1>2, <1>3, <1>4, <1>5, <1>6, <1>7 DEF IndInv

\* RemoveOldest keeps the invariant.
LEMMA RemoveStep ==
  ASSUME IndInv, RemoveOldest
  PROVE  IndInv'
<1> USE SlotNumbers
<1>0. /\ pc = "oldest" /\ pc' = "shift" /\ index' = Retained
      /\ size' = size /\ count' = count /\ crashes' = crashes
      /\ lost' = lost \cup (Held(gen) \ Held(gen'))
      /\ faults' \in 0 .. MaxFaults
      /\ TypeOK
  BY BackupFileAssumption
     DEF RemoveOldest, FirstIndex, Goto, Stays, Forget, Fault, NoFault, IndInv, TypeOK
<1>1. gen' = gen \/ Emptied(Retained)
  BY DEF RemoveOldest, Emptied, IndInv, TypeOK
<1>2. GenOK' /\ SizeBound' /\ Chronological'
  BY <1>1, FilesKept DEF IndInv
<1>3. TypeOK'
  BY <1>0, <1>2, HeldTyped DEF TypeOK, GenOK, File
<1>4. FreshOK'
  BY <1>0, <1>1, FreshKept DEF IndInv
<1>5. SizeOK' /\ HoleOK'
  BY <1>0 DEF SizeOK, HoleOK, IndInv
<1>6. PackedOK'
  <2> SUFFICES ASSUME faults' = 0, crashes = 0
               PROVE  /\ gen'[Retained] = None
                      /\ \A i \in Slots, j \in Slots \ {Retained} :
                           j < i /\ gen'[i] # None => gen'[j] # None
                      /\ lost' # {} => \A j \in Slots \ {Retained} : gen'[j] # None
    BY <1>0 DEF PackedOK, Hole
  <2>1. faults = 0 /\ gen' = [gen EXCEPT ![Retained] = None]
    BY <1>0 DEF RemoveOldest, NoFault, Fault, TypeOK
  <2>2. Emptied(Retained)
    BY <1>0, <2>1 DEF Emptied, TypeOK
  <2>3. Hole = {}
    BY <1>0 DEF Hole
  <2>4. /\ \A i \in Slots, j \in Slots : j < i /\ gen[i] # None => gen[j] # None
        /\ lost # {} => \A j \in Slots : gen[j] # None
    BY <2>1, <2>3 DEF IndInv, PackedOK
  <2>5. gen[Retained] = None => Held(gen) \subseteq Held(gen')
    <3> SUFFICES ASSUME gen[Retained] = None PROVE Held(gen) \subseteq Held(gen')
      OBVIOUS
    <3>1. PICK h : h = gen'
      OBVIOUS
    <3>2. \A i \in Slots : gen[i] # None => h[i] = gen[i]
      BY <2>2, <3>1 DEF Emptied
    <3>3. Held(gen) \subseteq Held(h)
      BY <3>2, HeldKept
    <3> QED
      BY <3>1, <3>3 DEF Held
  <2>6. gen[Retained] = None => lost' = lost
    BY <1>0, <2>5
  <2>7. gen[Retained] # None => \A j \in Slots : gen[j] # None
    BY <2>4
  <2> QED
    BY <2>2, <2>4, <2>6, <2>7 DEF Emptied
<1> QED
  BY <1>2, <1>3, <1>4, <1>5, <1>6 DEF IndInv

\* One turn of the loop keeps the invariant.
LEMMA ShiftStep ==
  ASSUME IndInv, Shift
  PROVE  IndInv'
<1> USE SlotNumbers
<1> DEFINE k == index - 1
<1>0. /\ pc = "shift" /\ index \in 2 .. Retained /\ TypeOK
      /\ size' = size /\ count' = count /\ crashes' = crashes
      /\ lost' = lost \cup (Held(gen) \ Held(gen'))
      /\ faults' \in 0 .. MaxFaults
  BY BackupFileAssumption
     DEF Shift, Stays, Forget, Fault, NoFault, IndInv, TypeOK, HoleOK
<1>1. k \in Slots /\ k + 1 = index /\ index \in Slots /\ k \in 1 .. Retained /\ k < Retained
  BY <1>0 DEF Slots
<1>2. \/ /\ gen' = gen /\ gen[k] = None /\ index' = k /\ pc' = "shift" /\ faults' = faults
      \/ /\ MovedUp(k) /\ index' = k /\ pc' = "shift" /\ faults' = faults
      \/ /\ gen' = gen /\ index' = index /\ pc' = "idle" /\ faults' = faults + 1
  <2>1. gen' = Renamed(k, index) => IF gen[k] = None THEN gen' = gen ELSE MovedUp(k)
    BY <1>0, <1>1, RenamedMoves
  <2> QED
    BY <1>0, <2>1 DEF Shift, NoFault, Fault, Goto
<1>3. GenOK' /\ SizeBound' /\ Chronological'
  BY <1>1, <1>2, FilesKept DEF IndInv
<1>4. index' \in Slots /\ pc' \in {"idle", "shift"}
  BY <1>1, <1>2
<1>5. TypeOK'
  BY <1>0, <1>3, <1>4, HeldTyped DEF TypeOK, GenOK, File
<1>6. FreshOK'
  BY <1>0, <1>1, <1>2, FreshKept DEF IndInv
<1>7. SizeOK'
  BY <1>0, <1>4 DEF SizeOK, IndInv
<1>8. HoleOK'
  BY <1>1, <1>2 DEF HoleOK, MovedUp
<1>9. PackedOK'
  <2> SUFFICES ASSUME faults' = 0, crashes = 0
               PROVE  PackedOK'
    BY <1>0 DEF PackedOK
  <2>1. pc' = "shift" /\ index' = k /\ faults = 0
    BY <1>0, <1>2 DEF TypeOK
  <2>2. Hole = {index} /\ Hole' = {k}
    BY <1>0, <2>1 DEF Hole
  <2>3. /\ gen[index] = None
        /\ \A i \in Slots, j \in Slots \ {index} : j < i /\ gen[i] # None => gen[j] # None
        /\ lost # {} => \A j \in Slots \ {index} : gen[j] # None
    BY <1>0, <2>1, <2>2 DEF IndInv, PackedOK
  <2>4. Held(gen) \subseteq Held(gen')
    <3>1. CASE gen' = gen
      BY <3>1
    <3>2. CASE MovedUp(k)
      BY <1>0, <1>1, <2>3, <3>2, HeldMoved
    <3> QED
      BY <1>2, <3>1, <3>2
  <2>5. lost' = lost
    BY <1>0, <2>4
  <2>6. gen'[k] = None
    BY <1>1, <1>2, <2>1 DEF MovedUp, TypeOK
  <2>7. \A i \in Slots, j \in Slots \ {k} : j < i /\ gen'[i] # None => gen'[j] # None
    <3> SUFFICES ASSUME NEW i \in Slots, NEW j \in Slots, j # k, j < i, gen'[i] # None
                 PROVE  gen'[j] # None
      OBVIOUS
    <3>1. CASE gen' = gen /\ gen[k] = None
      <4>1. k # index /\ k \in Slots \ {index} /\ ~(k < i)
        BY <1>1, <2>3, <3>1
      <4>2. i \in Int /\ k \in Int /\ j \in Int
        BY <1>1
      <4>3. j # index
        BY <1>1, <4>1, <4>2
      <4> QED
        BY <2>3, <3>1, <4>3
    <3>2. CASE MovedUp(k)
      <4>1. i # k /\ gen[k] # None /\ k # index
        BY <1>1, <3>2 DEF MovedUp
      <4>2. CASE j = index
        BY <1>1, <3>2, <4>1, <4>2 DEF MovedUp
      <4>3. CASE j # index
        <5>1. gen'[j] = gen[j]
          BY <1>1, <3>2, <4>3 DEF MovedUp
        <5>2. CASE i = index
          <6>1. j < k
            BY <1>1, <5>2
          <6> QED
            BY <1>1, <2>3, <4>1, <4>3, <5>1, <6>1
        <5>3. CASE i # index
          <6>1. gen'[i] = gen[i]
            BY <1>1, <3>2, <4>1, <5>3 DEF MovedUp
          <6> QED
            BY <2>3, <4>3, <5>1, <6>1
        <5> QED
          BY <5>2, <5>3
      <4> QED
        BY <4>2, <4>3
    <3> QED
      BY <1>2, <2>1, <3>1, <3>2
  <2>8. lost # {} => \A j \in Slots \ {k} : gen'[j] # None
    <3> SUFFICES ASSUME lost # {}, NEW j \in Slots, j # k PROVE gen'[j] # None
      OBVIOUS
    <3>1. k # index /\ gen[k] # None
      BY <1>1, <2>3
    <3>2. MovedUp(k)
      BY <1>2, <2>1, <3>1
    <3> QED
      BY <1>1, <2>3, <3>1, <3>2 DEF MovedUp
  <2> HIDE DEF k
  <2> QED
    BY <2>1, <2>2, <2>5, <2>6, <2>7, <2>8 DEF PackedOK
<1> QED
  BY <1>3, <1>5, <1>6, <1>7, <1>8, <1>9 DEF IndInv

\* Moving the current file keeps the invariant.
LEMMA MoveStep ==
  ASSUME IndInv, MoveCurrent
  PROVE  IndInv'
<1> USE SlotNumbers
<1>0. /\ pc = "shift" /\ index = 1 /\ index' = 1 /\ TypeOK
      /\ size' = size /\ count' = count /\ crashes' = crashes
      /\ lost' = lost \cup (Held(gen) \ Held(gen'))
      /\ faults' \in 0 .. MaxFaults
  BY BackupFileAssumption
     DEF MoveCurrent, Stays, Forget, Fault, NoFault, IndInv, TypeOK, HoleOK
<1>1. 0 \in Slots /\ 1 \in Slots /\ 0 + 1 = 1
  OBVIOUS
<1>2. \/ /\ gen' = gen /\ gen[0] = None /\ pc' = "append" /\ faults' = faults
      \/ /\ MovedUp(0) /\ pc' = "append" /\ faults' = faults
      \/ /\ gen' = gen /\ pc' = "idle" /\ faults' = faults + 1
  <2>1. gen' = Renamed(0, 0 + 1) => IF gen[0] = None THEN gen' = gen ELSE MovedUp(0)
    BY <1>0, <1>1, RenamedMoves
  <2> QED
    BY <1>0, <1>1, <2>1 DEF MoveCurrent, NoFault, Fault, Goto
<1>3. GenOK' /\ SizeBound' /\ Chronological'
  BY <1>1, <1>2, FilesKept DEF IndInv
<1>4. pc' \in {"idle", "append"} /\ (pc' = "append" => gen'[0] = None)
  BY <1>1, <1>2 DEF MovedUp
<1>5. TypeOK'
  BY <1>0, <1>1, <1>3, <1>4, HeldTyped DEF TypeOK, GenOK, File
<1>6. FreshOK'
  BY <1>0, <1>1, <1>2, FreshKept DEF IndInv
<1>7. SizeOK' /\ HoleOK'
  BY <1>0, <1>4 DEF SizeOK, HoleOK, IndInv
<1>9. PackedOK'
  <2> SUFFICES ASSUME faults' = 0, crashes = 0
               PROVE  PackedOK'
    BY <1>0 DEF PackedOK
  <2>1. pc' = "append" /\ faults = 0
    BY <1>0, <1>2 DEF TypeOK
  <2>2. Hole = {1} /\ Hole' = {0}
    BY <1>0, <2>1 DEF Hole
  <2>3. /\ gen[1] = None
        /\ \A i \in Slots, j \in Slots \ {1} : j < i /\ gen[i] # None => gen[j] # None
        /\ lost # {} => \A j \in Slots \ {1} : gen[j] # None
    BY <1>0, <2>1, <2>2 DEF IndInv, PackedOK
  <2>4. Held(gen) \subseteq Held(gen')
    <3>1. CASE gen' = gen
      BY <3>1
    <3>2. CASE MovedUp(0)
      BY <1>0, <1>1, <2>3, <3>2, HeldMoved
    <3> QED
      BY <1>2, <3>1, <3>2
  <2>5. lost' = lost
    BY <1>0, <2>4
  <2>7. \A i \in Slots, j \in Slots \ {0} : j < i /\ gen'[i] # None => gen'[j] # None
    <3> SUFFICES ASSUME NEW i \in Slots, NEW j \in Slots, j # 0, j < i, gen'[i] # None
                 PROVE  gen'[j] # None
      OBVIOUS
    <3>0. i \in Nat /\ j \in Nat /\ i # 0 /\ i # 1 /\ 0 < i
      OBVIOUS
    <3>1. CASE gen' = gen /\ gen[0] = None
      BY <1>1, <2>3, <3>0, <3>1
    <3>2. CASE MovedUp(0)
      <4>1. gen'[i] = gen[i] /\ gen[0] # None /\ gen'[1] = gen[0]
        BY <1>1, <3>0, <3>2 DEF MovedUp
      <4>2. CASE j = 1
        BY <4>1, <4>2
      <4>3. CASE j # 1
        BY <1>1, <2>3, <3>2, <4>1, <4>3 DEF MovedUp
      <4> QED
        BY <4>2, <4>3
    <3> QED
      BY <1>2, <2>1, <3>1, <3>2
  <2>8. lost # {} => \A j \in Slots \ {0} : gen'[j] # None
    <3> SUFFICES ASSUME lost # {}, NEW j \in Slots, j # 0 PROVE gen'[j] # None
      OBVIOUS
    <3>1. gen[0] # None
      BY <1>1, <2>3
    <3>2. MovedUp(0)
      BY <1>2, <2>1, <3>1
    <3> QED
      BY <1>1, <2>3, <3>1, <3>2 DEF MovedUp
  <2> QED
    BY <2>1, <2>2, <2>5, <2>7, <2>8 DEF PackedOK
<1> QED
  BY <1>3, <1>5, <1>6, <1>7, <1>9 DEF IndInv

\* An append, whole or cut short, is over: the invariant holds again.
LEMMA GainedStep ==
  ASSUME IndInv, pc = "append", pc' = "idle", NEW n \in 0 .. size + 1, Gained(n),
         index' = index, size' = size, count' = count,
         faults' \in 0 .. MaxFaults, crashes' \in 0 .. MaxCrashes,
         faults' = 0 => faults = 0, crashes' = 0 => crashes = 0, lost' = lost
  PROVE  IndInv'
<1> USE SlotNumbers
<1>0. TypeOK
  BY DEF IndInv
<1>1. /\ GenOK' /\ SizeBound' /\ Chronological'
      /\ \A i \in Slots : gen'[i] # None =>
           \A a \in DOMAIN gen'[i].ids : gen'[i].ids[a] <= count
  BY FilesGained
<1>2. TypeOK'
  BY <1>0, <1>1 DEF TypeOK, GenOK, File
<1>3. SizeOK' /\ HoleOK' /\ FreshOK'
  BY <1>1 DEF SizeOK, HoleOK, FreshOK
<1>4. gen'[0] # None
  BY BackupFileAssumption DEF Gained, File, Ids
<1>5. PackedOK'
  <2> SUFFICES ASSUME faults' = 0, crashes' = 0 PROVE PackedOK'
    BY DEF PackedOK
  <2>1. Hole = {0} /\ Hole' = {}
    BY DEF Hole
  <2>2. /\ \A i \in Slots, j \in Slots \ {0} : j < i /\ gen[i] # None => gen[j] # None
        /\ lost # {} => \A j \in Slots \ {0} : gen[j] # None
    BY <2>1 DEF IndInv, PackedOK
  <2>3. \A i \in Slots, j \in Slots : j < i /\ gen'[i] # None => gen'[j] # None
    <3> SUFFICES ASSUME NEW i \in Slots, NEW j \in Slots, j < i, gen'[i] # None, j # 0
                 PROVE  gen'[j] # None
      BY <1>4
    <3>1. i # 0
      OBVIOUS
    <3> QED
      BY <2>2, <3>1 DEF Gained
  <2>4. lost # {} => \A j \in Slots : gen'[j] # None
    BY <1>4, <2>2 DEF Gained
  <2> QED
    BY <2>1, <2>3, <2>4 DEF PackedOK
<1> QED
  BY <1>1, <1>2, <1>3, <1>5 DEF IndInv

\* A call that ends without touching a file, after a failure or a crash, keeps
\* the invariant.
LEMMA AbandonStep ==
  ASSUME IndInv, pc' = "idle", gen' = gen, index' = index, size' = size,
         count' = count, faults' \in 0 .. MaxFaults, crashes' \in 0 .. MaxCrashes,
         faults' # 0 \/ crashes' # 0, lost' = lost
  PROVE  IndInv'
<1>1. TypeOK'
  BY DEF IndInv, TypeOK
<1>2. SizeOK' /\ HoleOK' /\ PackedOK'
  BY DEF SizeOK, HoleOK, PackedOK
<1>3. FreshOK' /\ SizeBound' /\ Chronological'
  BY DEF IndInv, FreshOK, SizeBound, Chronological
<1> QED
  BY <1>1, <1>2, <1>3 DEF IndInv

\* Appending the message keeps the invariant.
LEMMA AppendStep ==
  ASSUME IndInv, AppendMessage
  PROVE  IndInv'
<1>0. /\ pc = "append" /\ pc' = "idle" /\ TypeOK /\ index' = index
      /\ size' = size /\ count' = count /\ crashes' = crashes
      /\ lost' = lost \cup (Held(gen) \ Held(gen'))
      /\ crashes' \in 0 .. MaxCrashes
  BY DEF AppendMessage, Stays, Forget, Goto, IndInv, TypeOK
<1>1. size \in Nat /\ count > 0 /\ faults \in Nat
  <2>1. size \in Sizes /\ count > 0
    BY <1>0 DEF IndInv, SizeOK
  <2>2. faults \in Nat
    BY <1>0, BackupFileAssumption DEF TypeOK
  <2> QED
    BY <2>1, <2>2, BackupFileAssumption
<1>2. ASSUME NEW n \in 0 .. size + 1, gen' = Grown(n), faults' \in 0 .. MaxFaults,
             faults' = 0 => faults = 0
      PROVE  IndInv'
  <2>1. Gained(n) /\ n \in Nat
    BY <1>0, <1>1, <1>2, GrownGains
  <2>2. lost' = lost
    BY <1>0, <1>1, <2>1, HeldGained
  <2> QED
    BY <1>0, <1>2, <2>1, <2>2, GainedStep
<1>3. ASSUME NoFault, NEW newline \in {0, 1}, gen' = Grown(size + newline)
      PROVE  IndInv'
  <2>1. size + newline \in 0 .. size + 1
    BY <1>1
  <2>2. faults' \in 0 .. MaxFaults /\ faults' = faults
    BY <1>0, <1>3 DEF NoFault, TypeOK
  <2> QED
    BY <1>2, <1>3, <2>1, <2>2
<1>4. ASSUME Fault, NEW n \in 0 .. size + 1, gen' = Grown(n) PROVE IndInv'
  <2>1. faults' \in 0 .. MaxFaults /\ faults' # 0
    BY <1>1, <1>4, BackupFileAssumption DEF Fault
  <2> QED
    BY <1>2, <1>4, <2>1
<1>5. ASSUME Fault, gen' = gen PROVE IndInv'
  <2>1. faults' \in 0 .. MaxFaults /\ faults' # 0
    BY <1>1, <1>5, BackupFileAssumption DEF Fault
  <2>2. lost' = lost
    BY <1>0, <1>5
  <2> QED
    BY <1>0, <1>5, <2>1, <2>2, AbandonStep
<1> QED
  BY <1>3, <1>4, <1>5 DEF AppendMessage

\* A crash keeps the invariant.
LEMMA CrashStep ==
  ASSUME IndInv, Crash
  PROVE  IndInv'
<1>0. /\ pc' = "idle" /\ TypeOK /\ index' = index /\ lost' = lost
      /\ size' = size /\ count' = count /\ faults' = faults
      /\ faults' \in 0 .. MaxFaults /\ pc # "idle"
      /\ crashes' \in 0 .. MaxCrashes /\ crashes' # 0
  BY BackupFileAssumption DEF Crash, Goto, IndInv, TypeOK
<1>1. size \in Nat /\ count > 0
  BY <1>0, BackupFileAssumption DEF IndInv, SizeOK, TypeOK
<1>2. CASE gen' = gen
  BY <1>0, <1>2, AbandonStep
<1>3. ASSUME pc = "append", NEW n \in 0 .. size + 1, gen' = Grown(n) PROVE IndInv'
  <2>1. Gained(n)
    BY <1>0, <1>1, <1>3, GrownGains
  <2> QED
    BY <1>0, <1>3, <2>1, GainedStep
<1> QED
  BY <1>2, <1>3 DEF Crash

\* Every step keeps the invariant.
LEMMA IndStep == IndInv /\ [Next]_vars => IndInv'
<1> SUFFICES ASSUME IndInv, [Next]_vars PROVE IndInv'
  OBVIOUS
<1>1. CASE UNCHANGED vars
  BY <1>1 DEF vars, IndInv, TypeOK, SizeOK, FreshOK, HoleOK, PackedOK, Hole,
              SizeBound, Chronological
<1> QED
  BY <1>1, WriteStep, RemoveStep, ShiftStep, MoveStep, AppendStep, CrashStep DEF Next

-----------------------------------------------------------------------------
(* Theorems.                                                               *)

\* The inductive invariant holds in every reachable state.
THEOREM Invariance == Spec => []IndInv
<1> QED
  BY IndInit, IndStep, PTL DEF Spec

\* Every variable keeps its type.
THEOREM TypeCorrect == Spec => []TypeOK
<1>1. IndInv => TypeOK
  BY DEF IndInv
<1> QED
  BY <1>1, Invariance, PTL

\* No file outgrows the limit, or the one message that does, by more than a
\* newline, whichever calls of a rotation fail.
THEOREM SizeBoundCorrect == Spec => []SizeBound
<1>1. IndInv => SizeBound
  BY DEF IndInv
<1> QED
  BY <1>1, Invariance, PTL

\* The generations, from the oldest to the current file, hold the messages in
\* the order they were written, after any failure or crash.
THEOREM ChronologicalCorrect == Spec => []Chronological
<1>1. IndInv => Chronological
  BY DEF IndInv
<1> QED
  BY <1>1, Invariance, PTL

\* While nothing fails, a message is given up only when all the retained
\* generations exist.
THEOREM KeepsRetainedCorrect == Spec => []KeepsRetained
<1>1. IndInv => KeepsRetained
  <2> SUFFICES ASSUME IndInv, pc = "idle", faults = 0, crashes = 0, lost # {}
               PROVE  \A i \in Slots : gen[i] # None
    BY DEF KeepsRetained
  <2>1. Hole = {}
    BY DEF Hole
  <2> QED
    BY <2>1 DEF IndInv, PackedOK
<1> QED
  BY <1>1, Invariance, PTL

\* No step of Write, and no rename of a rotation that follows an interrupted
\* one, replaces a generation but the oldest.
THEOREM OnlyOldestCorrect == Spec => OnlyOldestLost
<1> DEFINE Of(i) == {gen[i].ids[j] : j \in DOMAIN gen[i].ids}
<1>1. IndInv /\ [Next]_vars =>
        [\A i \in Slots : i < Retained /\ gen[i] # None =>
            Of(i) \subseteq Held(gen')]_vars
  <2> SUFFICES ASSUME IndInv, Next, NEW i \in Slots, i < Retained, gen[i] # None
               PROVE  Of(i) \subseteq Held(gen')
    OBVIOUS
  <2> USE SlotNumbers
  <2>1. PICK h : h = gen'
    OBVIOUS
  <2> SUFFICES Of(i) \subseteq Held(h)
    BY <2>1 DEF Held
  <2>2. ASSUME NEW k \in Slots, h[k] = gen[i] PROVE Of(i) \subseteq Held(h)
    BY <2>2, InHeld
  <2>3. Of(i) \subseteq Held(gen)
    BY InHeld
  <2> HIDE DEF Of
  <2>4. ASSUME NEW n \in Nat, gen' = Grown(n), pc = "append" PROVE Of(i) \subseteq Held(h)
    <3>1. TypeOK /\ count > 0
      BY <2>4 DEF IndInv, SizeOK
    <3>2. Held(gen) \subseteq Held(gen')
      BY <2>4, <3>1, GrownGains, HeldGained
    <3> QED
      BY <2>1, <2>3, <3>2 DEF Held
  <2>5. ASSUME gen' = gen PROVE Of(i) \subseteq Held(h)
    BY <2>1, <2>2, <2>5
  <2>6. ASSUME NEW n \in Sizes, Write(n) PROVE Of(i) \subseteq Held(h)
    BY <2>5, <2>6 DEF Write
  <2>7. CASE RemoveOldest
    <3>1. gen' = gen \/ gen' = [gen EXCEPT ![Retained] = None]
      BY <2>7 DEF RemoveOldest
    <3>2. h[i] = gen[i]
      BY <2>1, <3>1 DEF IndInv, TypeOK
    <3> QED
      BY <2>2, <3>2
  <2>8. ASSUME NEW k \in Slots, k + 1 \in Slots, gen' = Renamed(k, k + 1),
               k + 1 < Retained => gen[k + 1] = None
        PROVE  Of(i) \subseteq Held(h)
    <3>1. IF gen[k] = None THEN gen' = gen ELSE MovedUp(k)
      BY <2>8, RenamedMoves DEF IndInv
    <3>2. CASE gen' = gen
      BY <2>5, <3>2
    <3>3. CASE MovedUp(k) /\ i = k
      <4>1. h[k + 1] = gen[i]
        BY <2>1, <2>8, <3>3 DEF MovedUp
      <4> QED
        BY <2>2, <2>8, <4>1
    <3>4. CASE MovedUp(k) /\ i # k
      <4>1. i # k + 1
        BY <2>8
      <4>2. h[i] = gen[i]
        BY <2>1, <3>4, <4>1 DEF MovedUp
      <4> QED
        BY <2>2, <4>2
    <3> QED
      BY <3>1, <3>2, <3>3, <3>4
  <2>9. CASE Shift
    <3>1. gen' = gen \/ gen' = Renamed(index - 1, index)
      BY <2>9 DEF Shift
    <3>2. index - 1 \in Slots /\ index \in Slots /\ (index - 1) + 1 = index
          /\ (index < Retained => gen[index] = None)
      BY <2>9 DEF Shift, IndInv, HoleOK, Slots
    <3> QED
      BY <2>5, <2>8, <3>1, <3>2
  <2>10. CASE MoveCurrent
    <3>1. gen' = gen \/ gen' = Renamed(0, 0 + 1)
      BY <2>10 DEF MoveCurrent
    <3>2. index = 1 /\ (0 + 1 < Retained => gen[0 + 1] = None)
      BY <2>10 DEF MoveCurrent, IndInv, HoleOK
    <3> QED
      BY <2>5, <2>8, <3>1, <3>2
  <2>11. pc # "idle" => size \in Nat
    BY BackupFileAssumption DEF IndInv, SizeOK
  <2>12. CASE AppendMessage
    <3>1. pc = "append" /\ (gen' = gen \/ \E n \in Nat : gen' = Grown(n))
      BY <2>11, <2>12 DEF AppendMessage
    <3> QED
      BY <2>4, <2>5, <3>1
  <2>13. CASE Crash
    <3>1. gen' = gen \/ (pc = "append" /\ \E n \in Nat : gen' = Grown(n))
      BY <2>11, <2>13 DEF Crash
    <3> QED
      BY <2>4, <2>5, <3>1
  <2> QED
    BY <2>6, <2>7, <2>9, <2>10, <2>12, <2>13 DEF Next
<1> QED
  BY <1>1, Invariance, PTL DEF Spec, OnlyOldestLost

=============================================================================
