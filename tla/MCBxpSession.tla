---------------------------- MODULE MCBxpSession -----------------------------
(***************************************************************************)
(* The client programs of the repository, and a few that use the same      *)
(* calls in other orders. Payloads of up to two chunks and a window of one *)
(* make a writer wait for its reader.                                      *)
(***************************************************************************)
EXTENDS BxpPrograms

MCUris == {"bxp://ping", "bxp://file", "bxp://health", "bxp://benchmark", "bxp://movie",
           "bxp://upload", "bxp://does-not-exist"}

MCRoutes ==
  Register(MovieRoutes(BenchmarkRoutes(HealthRoutes(TestRoutes(NoRoutes)))),
           "Push", "bxp://upload", <<ReadData, Respond("Success")>>)

MCRequests == {Frame(id, a, u) : id \in ReqIds, a \in BxpAction, u \in MCUris}

(***************************************************************************)
(* Uploads one after the other and pipelined; a pipelined ping behind a    *)
(* payload that is read first, and behind one that fits in the window.     *)
(***************************************************************************)
TwoUploads ==
  <<Sends(1, "Push", "bxp://upload"), Uploads(1, 2), Receives("Success"),
    Sends(2, "Push", "bxp://upload"), Uploads(2, 1), Receives("Success")>>

PipelinedUploads ==
  <<Sends(1, "Push", "bxp://upload"), Sends(2, "Push", "bxp://upload"),
    Uploads(1, 1), Uploads(2, 1), Receives("Success"), Receives("Success")>>

ReadsFirst ==
  <<Sends(1, "Fetch", "bxp://movie"), Sends(2, "Ping", "bxp://ping"),
    Receives("Success"), ReadsStream(1), Drains(2), Receives("Success")>>

FitsInWindow ==
  <<Sends(1, "Fetch", "bxp://file"), Sends(2, "Ping", "bxp://ping"),
    Receives("Success"), Receives("Success"), ReadsStream(1), Drains(1)>>

(***************************************************************************)
(* Two payloads asked for at once; the first reader ends before the second *)
(* stream is accepted.                                                     *)
(***************************************************************************)
TwoDownloads ==
  <<Sends(1, "Fetch", "bxp://movie"), Sends(2, "Fetch", "bxp://file"),
    Receives("Success"), ReadsStream(1), Drains(2),
    Receives("Success"), ReadsStream(2), Drains(1)>>

MCPrograms ==
  {RouterPingAnd404, DataStreamTransfer, BasicRouter, FileTransfer, Benchmark,
   TwoUploads, PipelinedUploads, ReadsFirst, FitsInWindow, TwoDownloads}

(***************************************************************************)
(* The same pipelined ping, awaited before the payload is read.            *)
(***************************************************************************)
AwaitsPingFirst ==
  <<Sends(1, "Fetch", "bxp://movie"), Sends(2, "Ping", "bxp://ping"),
    Receives("Success"), Receives("Success"), ReadsStream(1), Drains(2)>>

MCAwaitsPingFirst == {AwaitsPingFirst}
=============================================================================
