--------------------------- MODULE MCBxpConnection ---------------------------
(***************************************************************************)
(* Small instances of BxpConnection. The routes are those of the tests and *)
(* examples (a ping and a file download, tests/integration.rs) with an     *)
(* upload handler and one that returns Err without responding.             *)
(***************************************************************************)
EXTENDS BxpConnection, TLC

MCUris == {"bxp://ping", "bxp://file", "bxp://upload", "bxp://broken", "bxp://nowhere"}

HandlePing         == <<Respond("Success")>>
HandleFileTransfer == <<Respond("Success"), SendData(MaxChunks)>>
HandleUpload       == <<ReadData, Respond("Success")>>
HandleBroken       == <<Fail>>

MCRoutes ==
  [Ping  |-> ("bxp://ping" :> HandlePing @@ "bxp://broken" :> HandleBroken),
   Fetch |-> ("bxp://file" :> HandleFileTransfer),
   Push  |-> ("bxp://upload" :> HandleUpload)]

Frame(id, action, uri) ==
  [id |-> id, action |-> ActionCode[action], uri |-> uri, len |-> 1, sound |-> TRUE]

(***************************************************************************)
(* One frame per path of the serving task, under two ids, or one where     *)
(* liveness is checked. 1 is the largest length the server takes, 2 the    *)
(* first it refuses.                                                       *)
(***************************************************************************)
Ping     == Frame(1, "Ping", "bxp://ping")
Fetch    == Frame(2, "Fetch", "bxp://file")
Push     == Frame(1, "Push", "bxp://upload")
Unrouted == Frame(2, "Push", "bxp://file")
Broken   == Frame(2, "Ping", "bxp://broken")
Oversize == [Ping EXCEPT !.len = 2]
Newer    == [Ping EXCEPT !.action = 3]

MCRequests    == {Ping, Fetch, Push, Unrouted, Broken, Oversize, Newer}
MCRequestsOne == {[Fetch EXCEPT !.id = 1], Push, Oversize}
=============================================================================
