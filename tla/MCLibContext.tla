---------------------------- MODULE MCLibContext ----------------------------
(* Default and one context of its own, two *Provider values: references of  *)
(* a caller and of EnableFIPS meet in one library context, and a closed     *)
(* context meets the global one.  The two values are interchangeable.       *)
EXTENDS LibContext, TLC

HandleSymmetry == Permutations(Handles)
=============================================================================
