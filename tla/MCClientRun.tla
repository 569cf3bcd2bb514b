---------------------------- MODULE MCClientRun -----------------------------
(***************************************************************************)
(* Instances of ClientRun for TLC: two names and the empty one, one file   *)
(* content.                                                                *)
(***************************************************************************)
EXTENDS ClientRun, TLC

CONSTANTS alice, bob, a

MCName    == {alice, bob, EmptyName}
MCContent == {a}
MCCRC     == 0 .. 1
MCCrcOf   == a :> 1
=============================================================================
