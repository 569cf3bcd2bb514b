--------------------------- MODULE CksumReference ---------------------------
(***************************************************************************)
(* What the checksum is meant to be, without tables: the CRC of the POSIX  *)
(* cksum utility, whose table checksum.cpp carries.  The bits of the file, *)
(* followed by the octets of its length, least significant octet first and *)
(* without leading zeros, are the coefficients of a polynomial; it is      *)
(* multiplied by x^32 and divided by Generator, one bit at a time; the     *)
(* checksum is the complement of the remainder.                            *)
(*                                                                         *)
(* A polynomial over the field of two elements is the set of its degrees.  *)
(***************************************************************************)
EXTENDS FiniteSetsExt, Integers, Sequences

Generator == {32, 26, 23, 22, 16, 12, 11, 10, 8, 7, 5, 4, 2, 1, 0}

\* The remainder of x * r + bit.
NextRemainder(r, bit) ==
  LET timesX == {d + 1 : d \in r} \cup {0 : k \in 1 .. bit}
  IN  IF 32 \in timesX THEN SymDiff(timesX, Generator) ELSE timesX

\* The remainder after the eight bits of an octet, highest bit first.
OctetRemainder(r, octet) ==
  LET after[k \in 0 .. 8] ==
        IF k = 0 THEN r
        ELSE NextRemainder(after[k - 1], (octet \div 2^(8 - k)) % 2)
  IN  after[8]

\* The remainder of r * x^32.
TimesX32(r) ==
  OctetRemainder(OctetRemainder(OctetRemainder(OctetRemainder(r, 0), 0), 0), 0)

\* How many octets a length below 2^32 takes.
OctetCount(n) == Cardinality({k \in 0 .. 3 : n \div 256^k > 0})

\* The k-th octet of the polynomial: the file, the length, and x^32.
Octet(bytes, k) ==
  LET n == Len(bytes) IN
  IF k <= n THEN bytes[k]
  ELSE IF k <= n + OctetCount(n) THEN (n \div 256^(k - n - 1)) % 256
  ELSE 0

Cksum(bytes) ==
  LET last == Len(bytes) + OctetCount(Len(bytes)) + 4
      from[at \in (1 .. last + 1) \X SUBSET (0 .. 31)] ==
        IF at[1] > last THEN at[2]
        ELSE from[<<at[1] + 1, OctetRemainder(at[2], Octet(bytes, at[1]))>>]
  IN  (0 .. 31) \ from[<<1, {}>>]
=============================================================================
