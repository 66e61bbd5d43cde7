---------------------------- MODULE MCBxpDataPlane ---------------------------
(* Two streams of at most two chunks, one chunk of window: a writer can be *)
(* blocked by its window, and the second stream announces the first.       *)
EXTENDS BxpDataPlane
=============================================================================
