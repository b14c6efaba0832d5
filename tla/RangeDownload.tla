--------------------------- MODULE RangeDownload ---------------------------
(***************************************************************************)
(* ParseRangeHeader and the part of Service::Download that turns its       *)
(* result into a reply.                                                    *)
(*                                                                         *)
(* A Range header is abstracted to what the parser looks at: its prefix,   *)
(* a comma, the number of dashes, and the text on either side of the first *)
(* one, which is empty, not a number, or a number (possibly one that       *)
(* uint64_t cannot hold).  UMax is the largest uint64_t.                   *)
(*                                                                         *)
(* An operator named ...Mutant is a faulty variant of the one below it; it *)
(* is no part of the specification and only shows that a property can fail.*)
(***************************************************************************)
EXTENDS Integers

CONSTANTS
  UMax,    \* numeric_limits<uint64_t>::max()
  OffMax   \* numeric_limits<ev_off_t>::max()

ASSUME WidthAssumption ==
  /\ UMax \in Nat \ {0}
  /\ OffMax \in 0 .. UMax

VARIABLES
  header,     \* the Range header, or what stands for none
  if_range,   \* If-Range: absent, the current entity tag, another one
  head,       \* the request is a HEAD
  file_size,  \* the size of the file to send
  range,      \* the parser's result
  reply       \* status code, Content-Length, and the bytes of the body

vars == <<header, if_range, head, file_size, range, reply>>

Texts == [kind : {"number"}, value : 0 .. UMax + 1]
           \cup [kind : {"empty", "junk"}, value : {0}]

Headers == [present : BOOLEAN, bytes : BOOLEAN, comma : BOOLEAN,
            dashes : 0 .. 2, start : Texts, end : Texts]

\* uint64_t arithmetic; no operand here is off by more than one turn.
Wrap(x) ==
  IF x < 0 THEN x + UMax + 1 ELSE IF x > UMax THEN x - (UMax + 1) ELSE x

Ignore == [status |-> "IGNORE", offset |-> 0, length |-> 0]
Unsatisfiable == [status |-> "UNSATISFIABLE", offset |-> 0, length |-> 0]
Partial(o, l) == [status |-> "PARTIAL", offset |-> o, length |-> l]

\* ParseUnsigned succeeds: from_chars takes the whole text and it fits.
IsUnsigned(t) == t.kind = "number" /\ t.value <= UMax

SuffixMutant(t, size) ==
  IF ~IsUnsigned(t) THEN Ignore
  ELSE IF size = 0 THEN Unsatisfiable
  ELSE Partial(Wrap(size - t.value), t.value)

ParseSuffix(t, size) ==
  IF ~IsUnsigned(t) THEN Ignore
  ELSE IF size = 0 \/ t.value = 0 THEN Unsatisfiable
  ELSE LET length == IF t.value >= size THEN size ELSE t.value
       IN  Partial(Wrap(size - length), length)

Clamp(end, size) == IF end >= size THEN Wrap(size - 1) ELSE end

ParseFromTo(start, t, size) ==
  IF size = 0 \/ start >= size THEN Unsatisfiable
  ELSE IF t.kind # "empty" /\ ~IsUnsigned(t) THEN Ignore
  ELSE LET end == IF t.kind = "empty" THEN Wrap(size - 1) ELSE t.value
       IN  IF start > end THEN Unsatisfiable
           ELSE Partial(start, Wrap(Wrap(Clamp(end, size) - start) + 1))

ParseRangeHeader(h, size) ==
  IF ~h.bytes \/ h.comma \/ h.dashes # 1 THEN Ignore
  ELSE IF h.start.kind = "empty" THEN ParseSuffix(h.end, size)
  ELSE IF ~IsUnsigned(h.start) THEN Ignore
  ELSE ParseFromTo(h.start.value, h.end, size)

-----------------------------------------------------------------------------
NoReply == [code |-> 0, length |-> 0, offset |-> 0, body |-> 0]

Init ==
  /\ header \in Headers
  /\ if_range \in {"absent", "match", "other"}
  /\ head \in BOOLEAN
  /\ file_size \in 0 .. UMax
  /\ range = Ignore
  /\ reply = NoReply

IfRangeMutant == if_range # "match"

\* A Range counts unless an If-Range names another version of the file.
RangeApplies == if_range = "absent" \/ if_range = "match"

\* What the reply announces and how many bytes its body has, from offset on.
Reply(code, length, offset, body) ==
  [code |-> code, length |-> length, offset |-> offset, body |-> body]

Respond(r) ==
  LET partial == r.status = "PARTIAL"
      offset == IF partial THEN r.offset ELSE 0
      length == IF partial THEN r.length ELSE file_size
      code == IF partial THEN 206 ELSE 200
  IN  IF r.status = "UNSATISFIABLE" THEN Reply(416, 0, 0, 0)
      ELSE IF head THEN Reply(code, length, offset, 0)
      ELSE IF offset > OffMax \/ length > OffMax THEN Reply(500, 0, 0, 0)
      ELSE Reply(code, length, offset, length)

\* The file cannot be unpacked, measured, opened or queued.
DownloadFails ==
  /\ reply = NoReply
  /\ reply' \in {Reply(404, 0, 0, 0), Reply(500, 0, 0, 0)}
  /\ UNCHANGED <<header, if_range, head, file_size, range>>

Download ==
  /\ reply = NoReply
  /\ range' = IF header.present /\ RangeApplies
              THEN ParseRangeHeader(header, file_size) ELSE Ignore
  /\ reply' = Respond(range')
  /\ UNCHANGED <<header, if_range, head, file_size>>

Next == Download \/ DownloadFails

Spec == Init /\ [][Next]_vars
-----------------------------------------------------------------------------
(* Properties *)

\* The Range asked for, by the meaning of a byte range: the positions of the
\* file it selects.  A suffix selects the last bytes, an open range all from
\* its start.
WellFormed(h) ==
  /\ h.bytes /\ ~h.comma /\ h.dashes = 1
  /\ \/ h.start.kind = "empty" /\ IsUnsigned(h.end)
     \/ IsUnsigned(h.start) /\ (h.end.kind = "empty" \/ IsUnsigned(h.end))

Selects(h, size, i) ==
  /\ i < size
  /\ IF h.start.kind = "empty" THEN i >= size - h.end.value
     ELSE /\ i >= h.start.value
          /\ h.end.kind = "empty" \/ i <= h.end.value

\* Every variable has its type.
TypeOK ==
  /\ header \in Headers /\ if_range \in {"absent", "match", "other"}
  /\ head \in BOOLEAN /\ file_size \in 0 .. UMax
  /\ range \in [status : {"IGNORE", "PARTIAL", "UNSATISFIABLE"},
                offset : 0 .. UMax, length : 0 .. UMax]
  /\ reply \in [code : {0, 200, 206, 404, 416, 500}, length : 0 .. UMax,
                offset : 0 .. UMax, body : 0 .. UMax]

\* No reply reaches outside the file, for any numbers in the header: the
\* arithmetic of ParseRangeHeader does not wrap around, and a 206 is not empty.
WithinFile ==
  /\ reply.offset + reply.body <= file_size
  /\ reply.offset + reply.length <= file_size
  /\ reply.code = 206 => reply.length > 0

\* A 206 sends exactly the bytes that the Range selects, and a 416 answers
\* only a Range that selects none, unless the header was malformed.
ExactBytes ==
  \A i \in 0 .. UMax :
    /\ reply.code = 206 =>
         (reply.offset <= i /\ i < reply.offset + reply.length
            <=> Selects(header, file_size, i))
    /\ reply.code = 416 /\ WellFormed(header) => ~Selects(header, file_size, i)

\* A Range for another version of the file (an If-Range with an old tag) is
\* never honoured, and a well-formed one that counts is never ignored.
HonouredWhenCurrent ==
  /\ reply.code \in {206, 416} => header.present /\ if_range # "other"
  /\ reply.code = 200 /\ header.present /\ if_range # "other" =>
       ~WellFormed(header)

\* A Range whose syntax is not recognised is ignored and the reply falls back
\* to the whole file.
MalformedIgnored ==
  header.start.kind = "junk" \/ header.end.kind = "junk" =>
    reply.code \notin {206, 416}
=============================================================================
