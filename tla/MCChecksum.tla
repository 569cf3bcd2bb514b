----------------------------- MODULE MCChecksum -----------------------------
(***************************************************************************)
(* Instances of Checksum for TLC: every file of up to two bytes over four  *)
(* values, some longer ones, files around the length 256, where the length *)
(* takes a second byte, and one that the int of the instance cannot count. *)
(***************************************************************************)
EXTENDS Checksum

MCByte == {0, 1, 128, 255}

Pattern(n) == [i \in 1 .. n |-> (7 * i) % 256]

MCContent ==
  (UNION {[1 .. n -> MCByte] : n \in 0 .. 2})
    \cup {Pattern(n) : n \in {5, 6, 255, 256, 257, 259}}
=============================================================================
