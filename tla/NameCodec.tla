------------------------------ MODULE NameCodec ------------------------------
(***************************************************************************)
(* The way of a file name through the server: it arrives base64-encoded in *)
(* the FileName header of an upload, becomes part of the url the file is   *)
(* stored under, goes percent-encoded into the links of the file list, and *)
(* comes back in the path of a download or the DeleteUrl header of a       *)
(* delete (base64.cpp, Util.hpp, Service.cpp).                             *)
(*                                                                         *)
(* Strings are sequences of bytes, because the conversions work on bits    *)
(* and bytes.  What the handlers do besides is in StorageService and       *)
(* AccessControl: here an upload always finds a body and a storage type,   *)
(* no call fails, and the request carries a session.                       *)
(*                                                                         *)
(* An operator named ...Mutant is a faulty variant of the one below it; it *)
(* is no part of the specification and only shows that a property can fail.*)
(***************************************************************************)
EXTENDS Integers, Sequences, SequencesExt

CONSTANTS
  Names,         \* file names a browser encodes
  Headers,       \* other texts of a FileName header
  Prefix,        \* download_prefix
  MaxName,       \* the 255 of IsSafeFileName
  MaxHeader,     \* the 1024 of Upload
  MaxUrl,        \* the 4096 of Delete
  None           \* no string

Byte == 0 .. 255

\* Config::ReadConfig accepts no other prefix.
ASSUME PrefixAssumption ==
  /\ Prefix \in Seq(Byte) /\ Prefix # <<>>
  /\ Head(Prefix) = 47 /\ Last(Prefix) = 47
ASSUME InputAssumption ==
  /\ Names \subseteq Seq(Byte) /\ Headers \subseteq Seq(Byte)
  /\ MaxName \in Nat /\ MaxHeader \in Nat /\ MaxUrl \in Nat

VARIABLES
  original,  \* the name the browser encoded, or None
  header,    \* the FileName header
  table,     \* urls stored
  link,      \* the link of the file list to the file
  reply      \* the handler that answered last, and its code

vars == <<original, header, table, link, reply>>

Slash == 47
Percent == 37
Dot == 46
Padding == {61, 46}   \* = and .
Upper == 65 .. 90
Lower == 97 .. 122
Digit == 48 .. 57

Chunks(s, n) == (Len(s) + n - 1) \div n

-----------------------------------------------------------------------------
(* base64.cpp.  Both alphabets are read; -1 stands for the exception.      *)

pos_of_char(c) ==
  CASE c \in Upper -> c - 65
    [] c \in Lower -> c - 97 + 26
    [] c \in Digit -> c - 48 + 52
    [] c \in {43, 45} -> 62
    [] c \in {47, 95} -> 63
    [] OTHER -> -1

is_base64_data_char(c) == c \in Upper \cup Lower \cup Digit \cup {43, 45, 47, 95}

\* How many characters at the end are padding; a mix of the two kinds is not.
PaddingRun(s) ==
  CHOOSE n \in 0 .. Len(s) :
    /\ \A i \in Len(s) - n + 1 .. Len(s) : s[i] \in Padding
    /\ n < Len(s) => s[Len(s) - n] \notin Padding

is_valid_base64(s) ==
  LET padding == PaddingRun(s)
  IN  /\ Len(s) % 4 # 1
      /\ \A i, j \in Len(s) - padding + 1 .. Len(s) : s[i] = s[j]
      /\ padding <= 2
      /\ padding # 0 => Len(s) % 4 = 0
      /\ \A i \in 1 .. Len(s) - padding : is_base64_data_char(s[i])

\* Mutant: the padding of the other alphabet is forgotten.
HasCharMutant(s, p, k) == p + k <= Len(s) /\ s[p + k] # 61

\* The k-th character of the group that begins at p, unless the text or its
\* data is over.
HasChar(s, p, k) == p + k <= Len(s) /\ s[p + k] \notin Padding
Pos(s, p, k) == pos_of_char(s[p + k])

\* A group yields a byte for each of its characters but the first, until one is
\* missing; at() throws when there is no second one.
DecodeGroup(s, p) ==
  LET first == (Pos(s, p, 0) * 4 + Pos(s, p, 1) \div 16) % 256
      second == (Pos(s, p, 1) % 16) * 16 + (Pos(s, p, 2) \div 4)
      third == (Pos(s, p, 2) % 4) * 64 + Pos(s, p, 3)
  IN  <<first>> \o (IF HasChar(s, p, 2) THEN <<second>> ELSE <<>>)
                \o (IF HasChar(s, p, 2) /\ HasChar(s, p, 3) THEN <<third>> ELSE <<>>)

GroupThrows(s, p) ==
  \/ p + 1 > Len(s) \/ Pos(s, p, 0) = -1 \/ Pos(s, p, 1) = -1
  \/ HasChar(s, p, 2) /\ Pos(s, p, 2) = -1
  \/ HasChar(s, p, 2) /\ HasChar(s, p, 3) /\ Pos(s, p, 3) = -1

Groups(s) == {4 * k - 3 : k \in 1 .. Chunks(s, 4)}

\* The bool overload: None for false.
base64_decode(s) ==
  IF ~is_valid_base64(s) \/ \E p \in Groups(s) : GroupThrows(s, p) THEN None
  ELSE FlattenSeq([k \in 1 .. Chunks(s, 4) |-> DecodeGroup(s, 4 * k - 3)])

base64_chars(url, pos) ==
  CASE pos < 26 -> 65 + pos
    [] pos \in 26 .. 51 -> 97 + pos - 26
    [] pos \in 52 .. 61 -> 48 + pos - 52
    [] pos = 62 -> (IF url THEN 45 ELSE 43)
    [] pos = 63 -> (IF url THEN 95 ELSE 47)

\* One group of the encoding: the bytes that are missing at the end count as 0
\* for the last character and as padding after it.
EncodeGroup(s, p, url) ==
  LET b(k) == IF p + k <= Len(s) THEN s[p + k] ELSE 0
      pad == IF url THEN 46 ELSE 61
      char(pos) == base64_chars(url, pos)
  IN  <<char(b(0) \div 4),
        char((b(0) % 4) * 16 + b(1) \div 16),
        IF p + 1 <= Len(s) THEN char((b(1) % 16) * 4 + b(2) \div 64) ELSE pad,
        IF p + 2 <= Len(s) THEN char(b(2) % 64) ELSE pad>>

base64_encode(s, url) ==
  FlattenSeq([k \in 1 .. Chunks(s, 3) |-> EncodeGroup(s, 3 * k - 2, url)])

-----------------------------------------------------------------------------
(* Percent-encoding.                                                       *)

FromHex(c) ==
  CASE c \in 65 .. 70 -> c - 65 + 10
    [] c \in 97 .. 102 -> c - 97 + 10
    [] c \in Digit -> c - 48
    [] OTHER -> -1

\* None for false; %00 is refused.
UrlDecode(s) ==
  LET Escaped(i) ==
        IF i + 2 > Len(s) \/ FromHex(s[i + 1]) = -1 \/ FromHex(s[i + 2]) = -1
        THEN 0 ELSE FromHex(s[i + 1]) * 16 + FromHex(s[i + 2])
      From[i \in 1 .. Len(s) + 1] ==
        IF i > Len(s) THEN <<>>
        ELSE IF s[i] # Percent
        THEN LET rest == From[i + 1] IN IF rest = None THEN None ELSE <<s[i]>> \o rest
        ELSE IF Escaped(i) = 0 THEN None
        ELSE LET rest == From[i + 3]
             IN  IF rest = None THEN None ELSE <<Escaped(i)>> \o rest
  IN  From[1]

Unreserved == Upper \cup Lower \cup Digit \cup {45, 95, 46, 126}
Hex(v) == IF v < 10 THEN 48 + v ELSE 65 + v - 10

\* Mutant: the percent sign itself is left alone.
EncodeMutant(s, preserve_slash) ==
  FlattenSeq([i \in DOMAIN s |->
    IF s[i] \in Unreserved \cup {Percent} \/ (preserve_slash /\ s[i] = Slash)
    THEN <<s[i]>>
    ELSE <<Percent, Hex(s[i] \div 16), Hex(s[i] % 16)>>])

UrlEncode(s, preserve_slash) ==
  FlattenSeq([i \in DOMAIN s |->
    IF s[i] \in Unreserved \/ (preserve_slash /\ s[i] = Slash) THEN <<s[i]>>
    ELSE <<Percent, Hex(s[i] \div 16), Hex(s[i] % 16)>>])

-----------------------------------------------------------------------------
(* Names and paths in the service.                                         *)

IsSafeFileName(s) ==
  /\ Len(s) \in 1 .. MaxName /\ s # <<Dot>> /\ s # <<Dot, Dot>>
  /\ \A i \in DOMAIN s : s[i] \notin {47, 92, 127} /\ s[i] >= 32

IsDownloadPath(path) == Len(path) > Len(Prefix) /\ IsPrefix(Prefix, path)

\* /login, /api/login, /, /upload, /delete and /logout come before downloads.
login == <<108, 111, 103, 105, 110>>
Reserved ==
  {<<Slash>> \o word : word \in
     {login, <<97, 112, 105, Slash>> \o login, <<>>,
      <<117, 112, 108, 111, 97, 100>>, <<100, 101, 108, 101, 116, 101>>,
      <<108, 111, 103, 111, 117, 116>>}}

Answer(op, code) == reply' = [op |-> op, code |-> code]

\* A browser sends the name it has encoded; another client may send anything.
Init ==
  /\ \/ original \in Names /\ \E url \in BOOLEAN : header = base64_encode(original, url)
     \/ original = None /\ header \in Headers
  /\ table = {}
  /\ link = None
  /\ reply = [op |-> "none", code |-> 0]

Upload ==
  LET filename == base64_decode(header)
  IN  /\ reply.op = "none"
      /\ IF Len(header) \in 1 .. MaxHeader /\ filename # None /\ IsSafeFileName(filename)
         THEN Answer("upload", 201) /\ table' = {Prefix \o filename}
         ELSE Answer("upload", 400) /\ UNCHANGED table
      /\ UNCHANGED <<original, header, link>>

\* GenerateFileList
ListFiles ==
  /\ \E url \in table : link' = UrlEncode(url, TRUE)
  /\ UNCHANGED <<original, header, table, reply>>

\* The browser follows the link: HandleRequest decodes the path, looks for the
\* other routes first, and Download looks the url up.
Download ==
  LET path == UrlDecode(link)
  IN  /\ link # None
      /\ IF path = None THEN Answer("download", 400)
         ELSE IF path \in Reserved THEN Answer("other", 200)
         ELSE Answer("download", IF IsDownloadPath(path) /\ path \in table THEN 200
                                 ELSE 404)
      /\ UNCHANGED <<original, header, table, link>>

\* deleteFile sends the link as DeleteUrl.
Delete ==
  LET url == UrlDecode(link)
  IN  /\ link # None /\ reply.op # "delete"
      /\ IF Len(link) > MaxUrl \/ url = None \/ ~IsDownloadPath(url)
         THEN Answer("delete", 400) /\ UNCHANGED <<table, link>>
         ELSE IF url \notin table
         THEN Answer("delete", 404) /\ UNCHANGED <<table, link>>
         ELSE Answer("delete", 200) /\ table' = table \ {url} /\ link' = None
      /\ UNCHANGED <<original, header>>

Next == Upload \/ ListFiles \/ Download \/ Delete

Spec == Init /\ [][Next]_vars
-----------------------------------------------------------------------------
(* Properties *)

\* Base64 by its meaning: each character stands for six bits, and the name is
\* their concatenation cut into bytes, less the bits that make up no byte.
Bit(s, i) == (pos_of_char(s[i \div 6 + 1]) \div 2^(5 - (i % 6))) % 2
Meaning(s) ==
  LET data == SelectSeq(s, LAMBDA c : c \notin Padding)
      Octet(k) == LET bit(j) == Bit(data, 8 * (k - 1) + j) * 2^(7 - j)
                  IN  bit(0) + bit(1) + bit(2) + bit(3) + bit(4) + bit(5) + bit(6)
                        + bit(7)
  IN  [k \in 1 .. (6 * Len(data)) \div 8 |-> Octet(k)]

\* A file is stored under exactly the name its header means, whichever alphabet
\* and padding the client uses and wherever the last group ends; and a name a
\* browser encodes is refused only if it is no safe file name.
NameOfHeader ==
  /\ \A url \in table : url = Prefix \o Meaning(header)
  /\ original # None =>
       /\ \A url \in table : url = Prefix \o original
       /\ reply = [op |-> "upload", code |-> 400] => ~IsSafeFileName(original)

\* A file that was stored can be downloaded and deleted through the link the
\* list shows for it, whatever bytes its name has: the link decodes to the url
\* it is stored under, and no other route takes it.
LinkReaches ==
  reply.op # "none" /\ reply.op # "upload" =>
    reply.op \in {"download", "delete"} /\ reply.code = 200
=============================================================================
