------------------------------ MODULE MCServer ------------------------------
(* Instances of Server for TLC: producer p1 and consumer c1. *)
EXTENDS Server

CONSTANTS p1, c1
=============================================================================
