-------------------------- MODULE MCResponseStream --------------------------
(***************************************************************************)
(* Instances of ResponseStream for TLC: payloads that are empty and longer *)
(* than a header; garbage sizes with one that no stack holds.              *)
(***************************************************************************)
EXTENDS ResponseStream

MCPayloadSize == {0, 9}
MCGarbageSize == {0, 3, 1000}
MCBoth        == {TRUE, FALSE}
MCMacOS       == {FALSE}
=============================================================================
