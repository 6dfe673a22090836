---------------------------- MODULE MC_FinalWord ----------------------------
(***************************************************************************)
(* FinalWord with two known words of a list of 16, two bits and two bits   *)
(* of checksum: 10 bits of entropy in two bytes of 5 bits, so that a word  *)
(* lies across the bytes and a leading byte can be zero.                   *)
(***************************************************************************)
EXTENDS FinalWord

\* some function of every byte and of their number
MCChecksum(bytes) ==
    LET hash[n \in 0 .. Len(bytes)] ==
            IF n = 0 THEN Len(bytes) ELSE (hash[n - 1] * 5 + bytes[n] * 3 + 1) % 61
    IN  (hash[Len(bytes)] \div 7) % 4
=============================================================================
