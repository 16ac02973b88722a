------------------------------ MODULE MCFileWal -----------------------------
(* Instances of FileWal for TLC. *)
EXTENDS FileWal

CONSTANTS a1, a2, a3, k1, k2
=============================================================================
