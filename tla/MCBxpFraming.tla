---------------------------- MODULE MCBxpFraming -----------------------------
(***************************************************************************)
(* Bodies of one byte, of exactly the limit and of one byte more. The      *)
(* window is shorter than a header, so no message is ever buffered whole.  *)
(***************************************************************************)
EXTENDS BxpFraming

MCFrames == {[id |-> 1, len |-> 1], [id |-> 2, len |-> 5], [id |-> 3, len |-> 6]}
=============================================================================
