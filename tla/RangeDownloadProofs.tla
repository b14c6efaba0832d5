------------------------ MODULE RangeDownloadProofs ------------------------
(***************************************************************************)
(* ParseRangeHeader for every width of the integers, every file size and   *)
(* every header.                                                           *)
(***************************************************************************)
EXTENDS RangeDownload, TLAPS

RangeOK(r, size) ==
  /\ r \in [status : {"IGNORE", "PARTIAL", "UNSATISFIABLE"},
            offset : 0 .. UMax, length : 0 .. UMax]
  /\ r.status = "PARTIAL" => r.length > 0 /\ r.offset + r.length <= size

\* What a result says about the positions of the file.
RangeExact(r, h, size) ==
  \A i \in 0 .. UMax :
    /\ r.status = "PARTIAL" =>
         (r.offset <= i /\ i < r.offset + r.length <=> Selects(h, size, i))
    /\ r.status = "UNSATISFIABLE" /\ WellFormed(h) => ~Selects(h, size, i)

\* A suffix range: the last bytes of the file, as many as asked for and there
\* are.
LEMMA SuffixCorrect ==
  ASSUME NEW h \in Headers, NEW size \in 0 .. UMax, h.start.kind = "empty"
  PROVE  /\ RangeOK(ParseSuffix(h.end, size), size)
         /\ RangeExact(ParseSuffix(h.end, size), h, size)
<1>1. /\ h.end.value \in Nat /\ h.end.kind \in {"number", "empty", "junk"}
      /\ size \in Nat /\ UMax \in Nat /\ size <= UMax
  BY WidthAssumption DEF Headers, Texts
<1>2. CASE ~IsUnsigned(h.end)
  BY <1>1, <1>2 DEF ParseSuffix, RangeOK, RangeExact, Ignore
<1>3. CASE IsUnsigned(h.end) /\ (size = 0 \/ h.end.value = 0)
  BY <1>1, <1>3 DEF ParseSuffix, RangeOK, RangeExact, Unsatisfiable, Selects
<1>4. CASE IsUnsigned(h.end) /\ size # 0 /\ h.end.value # 0
  <2>1. CASE h.end.value >= size
    BY <1>1, <1>4, <2>1
       DEF ParseSuffix, RangeOK, RangeExact, Partial, Selects, Wrap
  <2>2. CASE h.end.value < size
    BY <1>1, <1>4, <2>2
       DEF ParseSuffix, RangeOK, RangeExact, Partial, Selects, Wrap
  <2> QED
    BY <1>1, <2>1, <2>2
<1> QED
  BY <1>2, <1>3, <1>4

\* A range with a start: from it to the end asked for or the end of the file.
LEMMA FromToCorrect ==
  ASSUME NEW h \in Headers, NEW size \in 0 .. UMax,
         h.start.kind # "empty", IsUnsigned(h.start)
  PROVE  /\ RangeOK(ParseFromTo(h.start.value, h.end, size), size)
         /\ RangeExact(ParseFromTo(h.start.value, h.end, size), h, size)
<1>1. /\ h.end.value \in Nat /\ h.end.kind \in {"number", "empty", "junk"}
      /\ h.start.value \in Nat /\ h.start.value <= UMax
      /\ size \in Nat /\ UMax \in Nat /\ size <= UMax
  BY WidthAssumption DEF Headers, Texts, IsUnsigned
<1>2. CASE size = 0 \/ h.start.value >= size
  BY <1>1, <1>2 DEF ParseFromTo, RangeOK, RangeExact, Unsatisfiable, Selects
<1>3. CASE /\ ~(size = 0 \/ h.start.value >= size)
           /\ h.end.kind # "empty" /\ ~IsUnsigned(h.end)
  BY <1>1, <1>3 DEF ParseFromTo, RangeOK, RangeExact, Ignore
<1>4. CASE /\ ~(size = 0 \/ h.start.value >= size)
           /\ h.end.kind = "empty"
  <2>1. ParseFromTo(h.start.value, h.end, size)
          = Partial(h.start.value, size - h.start.value)
    BY <1>1, <1>4 DEF ParseFromTo, Clamp, Wrap
  <2> QED
    BY <1>1, <1>4, <2>1 DEF RangeOK, RangeExact, Partial, Selects
<1>5. CASE /\ ~(size = 0 \/ h.start.value >= size)
           /\ h.end.kind # "empty" /\ IsUnsigned(h.end)
  <2>1. CASE h.start.value > h.end.value
    BY <1>1, <1>5, <2>1
       DEF ParseFromTo, RangeOK, RangeExact, Unsatisfiable, Selects
  <2>2. CASE ~(h.start.value > h.end.value)
    <3>1. CASE h.end.value >= size
      <4>1. ParseFromTo(h.start.value, h.end, size)
              = Partial(h.start.value, size - h.start.value)
        BY <1>1, <1>5, <2>2, <3>1 DEF ParseFromTo, Clamp, Wrap
      <4> QED
        BY <1>1, <1>5, <3>1, <4>1 DEF RangeOK, RangeExact, Partial, Selects
    <3>2. CASE h.end.value < size
      <4>1. ParseFromTo(h.start.value, h.end, size)
              = Partial(h.start.value, (h.end.value - h.start.value) + 1)
        BY <1>1, <1>5, <2>2, <3>2 DEF ParseFromTo, Clamp, Wrap
      <4> QED
        BY <1>1, <1>5, <2>2, <3>2, <4>1
           DEF RangeOK, RangeExact, Partial, Selects
    <3> QED
      BY <1>1, <3>1, <3>2
  <2> QED
    BY <2>1, <2>2
<1> QED
  BY <1>2, <1>3, <1>4, <1>5

\* The parser's result lies in the file and selects the bytes asked for.
LEMMA ParserCorrect ==
  ASSUME NEW h \in Headers, NEW size \in 0 .. UMax
  PROVE  /\ RangeOK(ParseRangeHeader(h, size), size)
         /\ RangeExact(ParseRangeHeader(h, size), h, size)
<1>1. RangeOK(Ignore, size) /\ RangeExact(Ignore, h, size)
  BY WidthAssumption DEF RangeOK, RangeExact, Ignore
<1> QED
  BY <1>1, SuffixCorrect, FromToCorrect DEF ParseRangeHeader

-----------------------------------------------------------------------------
IndInv ==
  /\ TypeOK
  /\ WithinFile
  /\ ExactBytes

\* A download's one step establishes the properties of its reply.
LEMMA DownloadInd ==
  ASSUME IndInv, Download
  PROVE  IndInv'
<1>1. /\ header \in Headers /\ file_size \in 0 .. UMax
      /\ file_size \in Nat /\ UMax \in Nat /\ OffMax \in Nat
  BY WidthAssumption DEF IndInv, TypeOK
<1>2. RangeOK(range', file_size) /\ RangeExact(range', header, file_size)
  <2>1. CASE header.present /\ RangeApplies
    BY <1>1, <2>1, ParserCorrect DEF Download
  <2>2. CASE ~(header.present /\ RangeApplies)
    BY <1>1, <2>2 DEF Download, Ignore, RangeOK, RangeExact
  <2> QED
    BY <2>1, <2>2
<1>3. /\ range'.status \in {"IGNORE", "PARTIAL", "UNSATISFIABLE"}
      /\ range'.offset \in Nat /\ range'.length \in Nat
      /\ range'.offset <= UMax /\ range'.length <= UMax
  BY <1>1, <1>2 DEF RangeOK
<1>4. CASE range'.status = "UNSATISFIABLE"
  <2>1. reply' = [code |-> 416, length |-> 0, offset |-> 0, body |-> 0]
    BY <1>4 DEF Download, Respond, Reply
  <2> QED
    BY <1>1, <1>2, <1>4, <2>1
       DEF IndInv, TypeOK, WithinFile, ExactBytes, Download, RangeOK, RangeExact
<1>5. CASE range'.status = "PARTIAL"
  <2>1. reply' \in {[code |-> 206, length |-> range'.length,
                     offset |-> range'.offset, body |-> 0],
                    [code |-> 206, length |-> range'.length,
                     offset |-> range'.offset, body |-> range'.length],
                    [code |-> 500, length |-> 0, offset |-> 0, body |-> 0]}
    BY <1>5 DEF Download, Respond, Reply
  <2> QED
    BY <1>1, <1>2, <1>3, <1>5, <2>1
       DEF IndInv, TypeOK, WithinFile, ExactBytes, Download, RangeOK, RangeExact
<1>6. CASE range'.status = "IGNORE"
  <2>1. reply' \in {[code |-> 200, length |-> file_size, offset |-> 0,
                     body |-> 0],
                    [code |-> 200, length |-> file_size, offset |-> 0,
                     body |-> file_size],
                    [code |-> 500, length |-> 0, offset |-> 0, body |-> 0]}
    BY <1>6 DEF Download, Respond, Reply
  <2> QED
    BY <1>1, <1>2, <1>3, <2>1
       DEF IndInv, TypeOK, WithinFile, ExactBytes, Download, RangeOK
<1> QED
  BY <1>3, <1>4, <1>5, <1>6

\* So does a step that fails.
LEMMA DownloadFailsInd ==
  ASSUME IndInv, DownloadFails
  PROVE  IndInv'
  BY WidthAssumption DEF IndInv, TypeOK, WithinFile, ExactBytes, DownloadFails,
     Reply

\* The properties of the reply are invariant.
THEOREM Invariance == Spec => []IndInv
<1>1. Init => IndInv
  BY WidthAssumption DEF Init, IndInv, TypeOK, WithinFile, ExactBytes, Ignore,
     NoReply
<1>2. IndInv /\ [Next]_vars => IndInv'
  <2>1. IndInv /\ UNCHANGED vars => IndInv'
    BY DEF IndInv, TypeOK, WithinFile, ExactBytes, vars
  <2> QED
    BY <2>1, DownloadInd, DownloadFailsInd DEF Next
<1> QED
  BY <1>1, <1>2, PTL DEF Spec

\* Download never sends or announces a byte outside the file, whatever
\* numbers the Range header holds.
THEOREM WithinFileCorrect == Spec => []WithinFile
<1>1. IndInv => WithinFile
  BY DEF IndInv
<1> QED
  BY <1>1, Invariance, PTL

\* A 206 sends exactly the selected bytes; a 416 answers a well-formed Range
\* only when it selects none (ParseRangeHeader against the meaning of a range).
THEOREM ExactBytesCorrect == Spec => []ExactBytes
<1>1. IndInv => ExactBytes
  BY DEF IndInv
<1> QED
  BY <1>1, Invariance, PTL

\* The parser never ignores a well-formed range.
LEMMA WellFormedCounts ==
  ASSUME NEW h \in Headers, NEW size \in 0 .. UMax, WellFormed(h)
  PROVE  ParseRangeHeader(h, size).status # "IGNORE"
<1>1. CASE h.start.kind = "empty"
  <2>1. IsUnsigned(h.end)
    BY <1>1 DEF WellFormed, IsUnsigned
  <2> QED
    BY <1>1, <2>1 DEF WellFormed, ParseRangeHeader, ParseSuffix, Unsatisfiable, Partial
<1>2. CASE h.start.kind # "empty"
  <2>1. IsUnsigned(h.start) /\ (h.end.kind = "empty" \/ IsUnsigned(h.end))
    BY <1>2 DEF WellFormed
  <2>2. ParseFromTo(h.start.value, h.end, size).status # "IGNORE"
    BY <2>1 DEF ParseFromTo, Unsatisfiable, Partial
  <2> QED
    BY <1>2, <2>1, <2>2 DEF WellFormed, ParseRangeHeader
<1> QED
  BY <1>1, <1>2

\* A Range is honoured exactly when it is for the current version of the file
\* and well formed: the If-Range test of Download and the parser together.
THEOREM HonouredCorrect == Spec => []HonouredWhenCurrent
<1>1. Init => HonouredWhenCurrent
  BY DEF Init, HonouredWhenCurrent, NoReply
<1>2. TypeOK /\ HonouredWhenCurrent /\ Download => HonouredWhenCurrent'
  <2> SUFFICES ASSUME TypeOK, Download PROVE HonouredWhenCurrent'
    OBVIOUS
  <2>1. /\ header \in Headers /\ file_size \in 0 .. UMax
        /\ header' = header /\ if_range' = if_range
        /\ if_range \in {"absent", "match", "other"}
    BY DEF TypeOK, Download
  <2>2. CASE header.present /\ if_range # "other"
    <3>1. RangeApplies /\ range' = ParseRangeHeader(header, file_size)
      BY <2>1, <2>2 DEF RangeApplies, Download
    <3>2. WellFormed(header) => range'.status # "IGNORE"
      BY <2>1, <3>1, WellFormedCounts
    <3>3. reply'.code = 200 => range'.status \notin {"PARTIAL", "UNSATISFIABLE"}
      BY DEF Download, Respond, Reply
    <3>4. range'.status \in {"IGNORE", "PARTIAL", "UNSATISFIABLE"}
      BY <2>1, <3>1, ParserCorrect DEF RangeOK
    <3>5. reply'.code = 200 => ~WellFormed(header)
      BY <3>2, <3>3, <3>4
    <3>6. WellFormed(header') <=> WellFormed(header)
      BY <2>1
    <3> QED
      BY <2>1, <2>2, <3>5, <3>6 DEF HonouredWhenCurrent
  <2>3. CASE ~(header.present /\ if_range # "other")
    <3>1. range' = Ignore
      BY <2>1, <2>3 DEF RangeApplies, Download
    <3>2. reply'.code \notin {206, 416}
      BY <3>1 DEF Download, Respond, Reply, Ignore
    <3> QED
      BY <2>1, <2>3, <3>2 DEF HonouredWhenCurrent
  <2> QED
    BY <2>2, <2>3
<1>3. HonouredWhenCurrent /\ DownloadFails => HonouredWhenCurrent'
  BY DEF HonouredWhenCurrent, DownloadFails, Reply
<1>4. HonouredWhenCurrent /\ UNCHANGED vars => HonouredWhenCurrent'
  BY DEF HonouredWhenCurrent, vars
<1>5. TypeOK /\ HonouredWhenCurrent /\ [Next]_vars => HonouredWhenCurrent'
  BY <1>2, <1>3, <1>4 DEF Next
<1>6. IndInv => TypeOK
  BY DEF IndInv
<1> QED
  BY <1>1, <1>5, <1>6, Invariance, PTL DEF Spec
=============================================================================
