----------------------------- MODULE MCBxpRouter -----------------------------
(* Two URIs, two handlers that can be told apart, chains of three calls.   *)
EXTENDS BxpRouter

MCCandidates == {<<Respond("Success")>>, <<Respond("Unauthorized")>>}

=============================================================================
