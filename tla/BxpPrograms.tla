----------------------------- MODULE BxpPrograms -----------------------------
(***************************************************************************)
(* The programs of the repository: the handlers and routes of their        *)
(* servers, put into one table, and the calls of their clients. A handler  *)
(* that logs is the handler without the logging, and a payload is a number *)
(* of chunks. The ids and URIs are the programs' own, or stand for them.   *)
(***************************************************************************)
EXTENDS BxpSession, TLC

(***************************************************************************)
(* tests/integration.rs: handle_ping and handle_file_transfer.             *)
(***************************************************************************)
HandlePing         == <<Respond("Success")>>
HandleFileTransfer == <<Respond("Success"), SendData(1)>>

(***************************************************************************)
(* The handlers of basic-router.rs, benchmark.rs and file-transfer.rs,     *)
(* whose payload is the longer one.                                        *)
(***************************************************************************)
HandleHealth        == <<Respond("Success")>>
HandleBenchmarkPing == <<Respond("Success")>>
HandleFetch         == <<Respond("Success"), SendData(2)>>

(***************************************************************************)
(* The route() calls in front of bind().                                   *)
(***************************************************************************)
TestRoutes(routes) ==
  Register(Register(routes, "Ping", "bxp://ping", HandlePing),
           "Fetch", "bxp://file", HandleFileTransfer)

HealthRoutes(routes)    == Register(routes, "Ping", "bxp://health", HandleHealth)
BenchmarkRoutes(routes) == Register(routes, "Ping", "bxp://benchmark", HandleBenchmarkPing)
MovieRoutes(routes)     == Register(routes, "Fetch", "bxp://movie", HandleFetch)

(***************************************************************************)
(* The calls a client program makes.                                       *)
(***************************************************************************)
Frame(id, action, uri) ==
  [id |-> id, action |-> ActionCode[action], uri |-> uri, len |-> MAX_CONTROL_MSG, sound |-> TRUE]

Sends(id, action, uri) == [op |-> "send", frame |-> Frame(id, action, uri)]
Receives(status)       == [op |-> "receive", expect |-> {status}, otherwise |-> "panic"]
ReceivesAny            == [op |-> "receive", expect |-> BxpStatus, otherwise |-> "panic"]
IfReceives(status)     == [op |-> "receive", expect |-> {status}, otherwise |-> "skip"]
ReadsStream(id)        == [op |-> "read_data", id |-> id]
Drains(size)           == [op |-> "drain", expect |-> {size}]
DrainsAny              == [op |-> "drain", expect |-> 0..MaxChunks]
Uploads(id, size)      == [op |-> "upload", id |-> id, size |-> size]

(***************************************************************************)
(* tests/integration.rs.                                                   *)
(***************************************************************************)
RouterPingAnd404 ==
  <<Sends(1, "Ping", "bxp://ping"), Receives("Success"),
    Sends(2, "Fetch", "bxp://does-not-exist"), Receives("NotFound")>>

DataStreamTransfer ==
  <<Sends(1, "Fetch", "bxp://file"), Receives("Success"), ReadsStream(1), Drains(1)>>

(***************************************************************************)
(* examples/basic-router.rs: the status is only printed.                   *)
(***************************************************************************)
BasicRouter == <<Sends(1, "Ping", "bxp://health"), ReceivesAny>>

(***************************************************************************)
(* examples/file-transfer.rs: the payload is read if the status says so,   *)
(* and its length is only printed.                                         *)
(***************************************************************************)
FileTransfer ==
  <<Sends(1, "Fetch", "bxp://movie"), IfReceives("Success"), ReadsStream(1), DrainsAny>>

(***************************************************************************)
(* examples/benchmark.rs: one request after the other, with MaxRequests    *)
(* for NUM_REQUESTS.                                                       *)
(***************************************************************************)
Benchmark ==
  [k \in 1..(2 * MaxRequests) |->
     IF k % 2 = 1 THEN Sends(1 + ((k \div 2) % 2), "Ping", "bxp://benchmark") ELSE ReceivesAny]
=============================================================================
