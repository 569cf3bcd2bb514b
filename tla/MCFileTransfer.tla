--------------------------- MODULE MCFileTransfer ---------------------------
(***************************************************************************)
(* Instances of FileTransfer for TLC.  Checksums are numbers, 0 being the  *)
(* one readCrc also returns on failure.  Contents a and b have checksums   *)
(* of their own, twin collides with a, and zero has the checksum 0.        *)
(***************************************************************************)
EXTENDS FileTransfer, TLC

CONSTANTS a, b, twin, zero

MCContent == {a, b, twin, zero}
MCSmallContent == {a, b}
MCCRC     == 0 .. 2
MCCrcOf   == (a :> 1) @@ (b :> 2) @@ (twin :> 1) @@ (zero :> 0)
MCSmallCrcOf == (a :> 1) @@ (b :> 2)
=============================================================================
