------------------------------ MODULE WireField ------------------------------
(***************************************************************************)
(* How a 16-bit field travels: the four fields of a packet's header and    *)
(* the port of a server in MSG_LIST_BACKUP.  The sender writes the two     *)
(* bytes of htons(field), on the little-endian build the lower one first;  *)
(* the receiver joins two signed chars with a shift and an or before       *)
(* ntohs.  A higher byte of 128 or more is a negative int, and the or      *)
(* overwrites the lower byte with its ones.                                *)
(***************************************************************************)
EXTENDS Integers

Fields == 0 .. 65535

\* Mutant of EncodeField: without htons the higher byte goes first.
EncodeFieldUnswapped(x) == << x \div 256, x % 256 >>

EncodeField(x) == << x % 256, x \div 256 >>

DecodeField(bytes) ==
  (IF bytes[2] >= 128 THEN 255 ELSE bytes[1]) + 256 * bytes[2]

=============================================================================
