--------------------------- MODULE MCTransferInfo ---------------------------
(***************************************************************************)
(* Instances of TransferInfo for TLC: strings around the sizes of the      *)
(* fields, ports around the bounds of an unsigned short, and files around  *)
(* the sizes where a block fills, one send is full, and the payload, the   *)
(* content and the file itself no longer fit a word.  Words have 12 bits,  *)
(* as TLC's integers cannot hold 2^32.                                     *)
(***************************************************************************)
EXTENDS TransferInfo

Letters(n) == [i \in 1 .. n |-> i]

MCFitting  == {Letters(n) : n \in {0, 1, 254, 255}}
MCString   == MCFitting \cup {Letters(256), Letters(300)}
MCPortText == {-1, 0, 1234, 65535, 65536, NotANumber, TooBig, NoColon}
MCFileSize == {0, 1, 15, 16, 831, 832, 1887, 1888, 2015, 2016, 2048, 4095, 4096,
               4097, 5000}
=============================================================================
