------------------------------- MODULE WirePid -------------------------------
(***************************************************************************)
(* How a pid travels in the messages of the servers: send_election_leader  *)
(* writes the bytes of htonl(pid) into a buffer of chars, and the receiver *)
(* puts them together with shifts and ors before ntohl.  On the x86-64     *)
(* build the host is little-endian and char is signed: a byte of 128 or    *)
(* more becomes a negative int, whose upper bits are ones, and the or      *)
(* overwrites with ones every byte that lands above it.                    *)
(***************************************************************************)
EXTENDS Integers

\* Linux gives out no pid above 2^22 (PID_MAX_LIMIT); 0 means "no pid".
MaxPid == 4194304

Pids == 0 .. MaxPid

\* message[1..4]: the lowest byte of the pid first.
EncodePid(pid) == << pid % 256, (pid \div 256) % 256,
                     (pid \div 65536) % 256, (pid \div 16777216) % 256 >>

\* Byte i of the decoded pid: all ones if a later byte is negative as a char.
ReceivedByte(message, i) ==
  IF \E j \in i + 1 .. 4 : message[j] >= 128 THEN 255 ELSE message[i]

DecodePid(message) ==
  ReceivedByte(message, 1) + 256 * ReceivedByte(message, 2)
    + 65536 * ReceivedByte(message, 3) + 16777216 * ReceivedByte(message, 4)

=============================================================================
