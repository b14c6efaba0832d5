---------------------------- MODULE MCNameCodec ----------------------------
(* NameCodec on bounded texts. *)
EXTENDS NameCodec

\* NUL, space, %, ., /, a, DEL and a byte of a UTF-8 letter.
MCNames == BoundedSeq({0, 32, 37, 46, 47, 97, 127, 195}, 5)

\* A, L, u and _, both kinds of padding, and a character that is no data.
MCHeaders == BoundedSeq({65, 76, 117, 95, 61, 46, 33}, 5)

\* /download/
MCPrefix == <<47, 100, 111, 119, 110, 108, 111, 97, 100, 47>>
=============================================================================
