---------------------------- MODULE BxpConnection ----------------------------
(***************************************************************************)
(* One BXP connection: a client that may call the operations of            *)
(* BxpClientConnection in any order, and the task that serves it, which    *)
(* every example and test of the crate writes the same way:                *)
(*                                                                         *)
(*   while let Ok(request) = connection.receive_request().await {          *)
(*       let _ = router.handle_request(request, &mut connection).await;    *)
(*   }                                                                     *)
(*   connection.wait_for_close().await;                                    *)
(*                                                                         *)
(* The control stream is a pair of logs of frames with a read index each:  *)
(* QUIC delivers a stream in order, exactly once, or not at all when the   *)
(* connection ends first. The data plane of each direction is an instance  *)
(* of BxpDataPlane.                                                        *)
(*                                                                         *)
(* When the connection ends, a side finds out at its next operation: a     *)
(* write fails, a read returns what had arrived or fails.                  *)
(***************************************************************************)
EXTENDS BxpRouting, FiniteSets

CONSTANTS
  Requests,       \* the frames a client may send
  Routes,         \* the router's table
  Endings,        \* how a serving task may end: "wait" for the client's close, or "drop"
  CtlWindow,      \* frames one direction of the control stream buffers
  Window,         \* chunks a data stream buffers
  MaxUni,         \* unidirectional streams open at once, per direction
  MaxRequests,    \* bound: requests on one connection
  MaxUploads      \* bound: data streams a client opens

ASSUME ConnectionAssumption ==
  /\ Requests \subseteq RequestFrame
  /\ Endings \subseteq {"wait", "drop"}
  /\ CtlWindow \in Nat \ {0} /\ Window \in Nat \ {0} /\ MaxUni \in Nat \ {0}
  /\ MaxRequests \in Nat
  /\ MaxUploads \in Nat

ASSUME RoutesAssumption ==
  \A a \in DOMAIN Routes : \A u \in DOMAIN Routes[a] : Routes[a][u] \in Handler

VARIABLES
  conn,     \* "open", "closed" by the client, "server_closed" or "lost"
  cpc,      \* what the client's program is doing
  reqLog,   \* every request frame the client wrote
  reqRead,  \* how many of them receive_request has taken
  rspLog,   \* every response the server wrote
  rspRead,  \* how many of them receive_response has taken
  spc,      \* what the serving task is doing
  step,     \* the steps the running handler has completed
  down,     \* data streams from the server to the client
  up        \* data streams from the client to the server

cvars == <<cpc, reqLog, rspRead>>
svars == <<spc, step, reqRead, rspLog>>
vars  == <<conn, cpc, reqLog, reqRead, rspLog, rspRead, spc, step, down, up>>

Down == INSTANCE BxpDataPlane WITH streams <- down, MaxStreams <- MaxRequests
Up   == INSTANCE BxpDataPlane WITH streams <- up, MaxStreams <- MaxUploads

(***************************************************************************)
(* A response on the wire. `for` is a history field: the position of the   *)
(* request it answers, which the code does not send.                       *)
(***************************************************************************)
Response == [id: ReqIds, code: 0..4, for: Nat]

(***************************************************************************)
(* The steps handle_request takes for the k-th request.                    *)
(***************************************************************************)
Script(k) == Dispatch(Routes, BxpRequestOf(reqLog[k]))

StepIs(op) ==
  /\ spc = "handling"
  /\ step < Len(Script(reqRead))
  /\ Script(reqRead)[step + 1].op = op

CurrentStep == Script(reqRead)[step + 1]
CurrentId   == reqLog[reqRead].id

Init ==
  /\ conn = "open"
  /\ cpc = "idle"
  /\ reqLog = <<>> /\ reqRead = 0
  /\ rspLog = <<>> /\ rspRead = 0
  /\ spc = "accepting"
  /\ step = 0
  /\ down = <<>> /\ up = <<>>
-------------------------------------------------------------------------------
(***************************************************************************)
(* The client. Between two calls its program is "idle"; a call that takes  *)
(* several steps holds it until it returns.                                *)
(***************************************************************************)

(***************************************************************************)
(* send_request: write_all waits for room on the control stream.           *)
(***************************************************************************)
SendRequest(f) ==
  /\ cpc = "idle"
  /\ conn = "open"
  /\ Len(reqLog) < MaxRequests
  /\ Len(reqLog) - reqRead < CtlWindow
  /\ reqLog' = Append(reqLog, f)
  /\ UNCHANGED <<conn, cpc, rspRead, svars, down, up>>

(***************************************************************************)
(* receive_response: the next frame, whole. Its id is not checked against  *)
(* the requests.                                                           *)
(***************************************************************************)
ReceiveResponse ==
  /\ cpc = "idle"
  /\ rspRead < Len(rspLog)
  /\ rspRead' = rspRead + 1
  /\ UNCHANGED <<conn, cpc, reqLog, svars, down, up>>

(***************************************************************************)
(* The BxpResponse the i-th receive_response returns.                      *)
(***************************************************************************)
BxpResponseOf(i) == [req_id |-> rspLog[i].id, status |-> StatusOf(rspLog[i].code)]

(***************************************************************************)
(* read_data_stream, in its two awaits.                                    *)
(***************************************************************************)
AcceptDownload ==
  /\ cpc = "idle"
  /\ \E i \in DOMAIN down : Down!AcceptUni(i)
  /\ cpc' = "accepting"
  /\ UNCHANGED <<reqLog, rspRead, svars, up>>

ReadDataStream ==
  /\ cpc = "accepting"
  /\ \E i \in DOMAIN down :
       /\ down[i].rx = "accepted"
       /\ Down!ReadPreamble(i) \/ Down!PreambleMissing(i) \/ Down!ReadFails(i)
  /\ cpc' = "idle"
  /\ UNCHANGED <<reqLog, rspRead, svars, up>>

(***************************************************************************)
(* The RecvStream that read_data_stream returned is the caller's: another  *)
(* task may read it, or drop it, whatever the connection is used for.      *)
(***************************************************************************)
ReadPayload ==
  /\ cpc # "closed"
  /\ \E i \in DOMAIN down : Down!ReadChunk(i) \/ Down!ReadEof(i)
  /\ UNCHANGED <<cvars, svars, up>>

DropPayload ==
  /\ cpc # "closed"
  /\ \E i \in DOMAIN down : down[i].rx = "live" /\ Down!DropRecv(i)
  /\ UNCHANGED <<cvars, svars, up>>

(***************************************************************************)
(* send_data_stream: open_uni, then the preamble, the copy and finish; or  *)
(* an Err on the way, which leaves the stream finished as it stands.       *)
(***************************************************************************)
OpenUpload(id, size) ==
  /\ cpc = "idle"
  /\ Len(up) < MaxUploads
  /\ Up!OpenUni(id, size)
  /\ cpc' = "uploading"
  /\ UNCHANGED <<reqLog, rspRead, svars, down>>

SendUpload ==
  /\ cpc = "uploading"
  /\ Up!WritePreamble(Len(up)) \/ Up!CopyChunk(Len(up))
  /\ UNCHANGED <<cvars, svars, down>>

UploadSourceAnswers ==
  /\ cpc = "uploading"
  /\ Up!SourceAnswers(Len(up))
  /\ UNCHANGED <<cvars, svars, down>>

SendDataStream ==
  /\ cpc = "uploading"
  /\ Up!Finish(Len(up)) \/ Up!WriteFails(Len(up))
  /\ cpc' = "idle"
  /\ UNCHANGED <<reqLog, rspRead, svars, down>>

UploadSourceFails ==
  /\ cpc = "uploading"
  /\ Up!Abandon(Len(up))
  /\ cpc' = "idle"
  /\ UNCHANGED <<reqLog, rspRead, svars, down>>

(***************************************************************************)
(* close(self), or the handle dropped, which closes with the same code.    *)
(***************************************************************************)
CloseClient ==
  /\ cpc = "idle"
  /\ conn' = IF conn = "open" THEN "closed" ELSE conn
  /\ cpc' = "closed"
  /\ UNCHANGED <<reqLog, rspRead, svars, down, up>>
-------------------------------------------------------------------------------
(***************************************************************************)
(* The serving task.                                                       *)
(***************************************************************************)

(***************************************************************************)
(* The task is over: its handles are dropped, and the last handle of an    *)
(* open connection closes it.                                              *)
(***************************************************************************)
DropConnection ==
  /\ spc' = "gone"
  /\ conn' = IF conn = "open" THEN "server_closed" ELSE conn

(***************************************************************************)
(* BxpServer::accept, second half: accept_bi() knows of the control stream *)
(* once the client wrote to it.                                            *)
(***************************************************************************)
Accept ==
  /\ spc = "accepting"
  /\ Len(reqLog) > 0
  /\ spc' = "receiving"
  /\ UNCHANGED <<conn, cvars, step, reqRead, rspLog, down, up>>

AcceptFails ==
  /\ spc = "accepting"
  /\ conn # "open"
  /\ DropConnection
  /\ UNCHANGED <<cvars, step, reqRead, rspLog, down, up>>

(***************************************************************************)
(* The loop is left: wait_for_close() in the tasks that have it, else the  *)
(* end.                                                                    *)
(***************************************************************************)
LeaveLoop ==
  \/ "wait" \in Endings /\ spc' = "waiting" /\ UNCHANGED conn
  \/ "drop" \in Endings /\ DropConnection

(***************************************************************************)
(* receive_request returns Ok and handle_request picks the handler.        *)
(***************************************************************************)
ReceiveRequest ==
  /\ spc = "receiving"
  /\ reqRead < Len(reqLog)
  /\ Receivable(reqLog[reqRead + 1])
  /\ reqRead' = reqRead + 1
  /\ spc' = "handling"
  /\ step' = 0
  /\ UNCHANGED <<conn, cvars, rspLog, down, up>>

(***************************************************************************)
(* Mutant of RejectRequest: the loop goes on after a rejected frame.       *)
(***************************************************************************)
RejectAndGoOn ==
  /\ spc = "receiving"
  /\ reqRead < Len(reqLog)
  /\ ~Receivable(reqLog[reqRead + 1])
  /\ reqRead' = reqRead + 1
  /\ UNCHANGED <<conn, cvars, spc, step, rspLog, down, up>>

(***************************************************************************)
(* receive_request returns Err on a frame that is too long or that does    *)
(* not decode: the loop ends, no response is written.                      *)
(***************************************************************************)
RejectRequest ==
  /\ spc = "receiving"
  /\ reqRead < Len(reqLog)
  /\ ~Receivable(reqLog[reqRead + 1])
  /\ reqRead' = reqRead + 1
  /\ LeaveLoop
  /\ UNCHANGED <<cvars, step, rspLog, down, up>>

(***************************************************************************)
(* Mutant of ReceiveFails: the loop retries instead of ending.             *)
(***************************************************************************)
ReceiveRetries ==
  /\ spc = "receiving"
  /\ conn # "open"
  /\ UNCHANGED vars

(***************************************************************************)
(* receive_request fails on a connection that ended; a frame that had      *)
(* arrived may still be taken before (ReceiveRequest), or not.             *)
(***************************************************************************)
ReceiveFails ==
  /\ spc = "receiving"
  /\ conn # "open"
  /\ LeaveLoop
  /\ UNCHANGED <<cvars, step, reqRead, rspLog, down, up>>

(***************************************************************************)
(* Mutant of SendResponse: the id of the newest request, not the handled   *)
(* one.                                                                    *)
(***************************************************************************)
SendResponseToNewest ==
  /\ StepIs("respond")
  /\ conn = "open"
  /\ Len(rspLog) - rspRead < CtlWindow
  /\ rspLog' = Append(rspLog, [id |-> reqLog[Len(reqLog)].id,
                               code |-> StatusCode[CurrentStep.status], for |-> reqRead])
  /\ step' = step + 1
  /\ UNCHANGED <<conn, cvars, spc, reqRead, down, up>>

(***************************************************************************)
(* A handler step `send_response(req.req_id, status).await?`.              *)
(***************************************************************************)
SendResponse ==
  /\ StepIs("respond")
  /\ conn = "open"
  /\ Len(rspLog) - rspRead < CtlWindow
  /\ rspLog' = Append(rspLog, [id |-> CurrentId, code |-> StatusCode[CurrentStep.status],
                               for |-> reqRead])
  /\ step' = step + 1
  /\ UNCHANGED <<conn, cvars, spc, reqRead, down, up>>

(***************************************************************************)
(* A handler step `send_data_stream(req.req_id, reader).await?`. The task  *)
(* is held by it until the whole payload is written, and by the source for *)
(* as long as that does not answer.                                        *)
(***************************************************************************)
OpenDownload ==
  /\ StepIs("send_data")
  /\ Down!OpenUni(CurrentId, CurrentStep.size)
  /\ spc' = "streaming"
  /\ UNCHANGED <<cvars, step, reqRead, rspLog, up>>

StreamDownload ==
  /\ spc = "streaming"
  /\ Down!WritePreamble(Len(down)) \/ Down!CopyChunk(Len(down))
  /\ UNCHANGED <<cvars, svars, up>>

DownloadSourceAnswers ==
  /\ spc = "streaming"
  /\ Down!SourceAnswers(Len(down))
  /\ UNCHANGED <<cvars, svars, up>>

FinishDownload ==
  /\ spc = "streaming"
  /\ Down!Finish(Len(down))
  /\ spc' = "handling"
  /\ step' = step + 1
  /\ UNCHANGED <<cvars, reqRead, rspLog, up>>

(***************************************************************************)
(* A handler step that accepts an upload with read_data_stream and reads   *)
(* it to its end.                                                          *)
(***************************************************************************)
AcceptUpload ==
  /\ StepIs("read_data")
  /\ \E i \in DOMAIN up : Up!AcceptUni(i)
  /\ spc' = "pulling"
  /\ UNCHANGED <<cvars, step, reqRead, rspLog, down>>

PullUpload ==
  /\ spc = "pulling"
  /\ \E i \in DOMAIN up : Up!ReadPreamble(i) \/ Up!ReadChunk(i)
  /\ UNCHANGED <<cvars, svars, down>>

FinishUpload ==
  /\ spc = "pulling"
  /\ \E i \in DOMAIN up : Up!ReadEof(i)
  /\ spc' = "handling"
  /\ step' = step + 1
  /\ UNCHANGED <<cvars, reqRead, rspLog, down>>

(***************************************************************************)
(* Mutant of HandlerOk: the task serves a single request (`if let` for     *)
(* `while let`).                                                           *)
(***************************************************************************)
HandlerOkOnce ==
  /\ spc = "handling"
  /\ step = Len(Script(reqRead))
  /\ spc' = "waiting"
  /\ UNCHANGED <<conn, cvars, step, reqRead, rspLog, down, up>>

(***************************************************************************)
(* The handler returns. Its result is dropped (`let _ =`) either way, and  *)
(* the loop goes on. It returns Err when it says so itself, when a step    *)
(* meets a closed connection, when the client stopped the stream it is     *)
(* writing, when the upload has no preamble or when the source fails.      *)
(***************************************************************************)
HandlerOk ==
  /\ spc = "handling"
  /\ step = Len(Script(reqRead))
  /\ spc' = "receiving"
  /\ UNCHANGED <<conn, cvars, step, reqRead, rspLog, down, up>>

HandlerErr ==
  /\ \/ StepIs("fail")
     \/ conn # "open" /\ \E op \in {"respond", "send_data", "read_data"} : StepIs(op)
  /\ spc' = "receiving"
  /\ UNCHANGED <<conn, cvars, step, reqRead, rspLog, down, up>>

(***************************************************************************)
(* Mutants of DownloadErr: the failed stream is kept, neither finished nor *)
(* reset; the handler's error ends the loop (`?` for `let _ =`).           *)
(***************************************************************************)
DownloadErrKeepsStream ==
  /\ spc = "streaming"
  /\ conn # "open" \/ down[Len(down)].rx = "dropped"
  /\ spc' = "receiving"
  /\ UNCHANGED <<conn, cvars, step, reqRead, rspLog, down, up>>

DownloadErrEndsLoop ==
  /\ spc = "streaming"
  /\ down[Len(down)].rx = "dropped"
  /\ Down!Writes(down[Len(down)])
  /\ down' = [down EXCEPT ![Len(down)].tx = "err", ![Len(down)].fin = (conn = "open")]
  /\ LeaveLoop
  /\ UNCHANGED <<cvars, step, reqRead, rspLog, up>>

DownloadErr ==
  /\ spc = "streaming"
  /\ Down!WriteFails(Len(down))
  /\ spc' = "receiving"
  /\ UNCHANGED <<cvars, step, reqRead, rspLog, up>>

DownloadSourceFails ==
  /\ spc = "streaming"
  /\ Down!Abandon(Len(down))
  /\ spc' = "receiving"
  /\ UNCHANGED <<cvars, step, reqRead, rspLog, up>>

UploadErr ==
  /\ spc = "pulling"
  /\ \E i \in DOMAIN up : Up!PreambleMissing(i) \/ Up!ReadFails(i)
  /\ spc' = "receiving"
  /\ UNCHANGED <<cvars, step, reqRead, rspLog, down>>

(***************************************************************************)
(* wait_for_close returns when the connection has ended.                   *)
(***************************************************************************)
WaitForClose ==
  /\ spc = "waiting"
  /\ conn # "open"
  /\ DropConnection
  /\ UNCHANGED <<cvars, step, reqRead, rspLog, down, up>>
-------------------------------------------------------------------------------
(***************************************************************************)
(* The peer or the path is gone; keep-alives do not come back and the idle *)
(* timeout ends the connection.                                            *)
(***************************************************************************)
LoseConnection ==
  /\ conn = "open"
  /\ conn' = "lost"
  /\ UNCHANGED <<cvars, svars, down, up>>

ClientNext ==
  \/ \E f \in Requests : SendRequest(f)
  \/ ReceiveResponse
  \/ AcceptDownload \/ ReadDataStream \/ ReadPayload \/ DropPayload
  \/ \E id \in ReqIds, n \in 0..MaxChunks : OpenUpload(id, n)
  \/ SendUpload \/ SendDataStream \/ UploadSourceAnswers \/ UploadSourceFails
  \/ CloseClient

HandlerNext ==
  \/ SendResponse
  \/ OpenDownload \/ StreamDownload \/ FinishDownload
  \/ AcceptUpload \/ PullUpload \/ FinishUpload
  \/ HandlerOk \/ HandlerErr \/ DownloadErr \/ UploadErr

ServerNext ==
  \/ Accept \/ AcceptFails
  \/ ReceiveRequest \/ RejectRequest \/ ReceiveFails
  \/ HandlerNext
  \/ WaitForClose

SourceNext == DownloadSourceAnswers \/ DownloadSourceFails

Next ==
  \/ ClientNext
  \/ ServerNext
  \/ SourceNext
  \/ LoseConnection

Spec == Init /\ [][Next]_vars

(***************************************************************************)
(* The serving task is spawned on tokio's runtime and polled whenever what *)
(* it awaits is ready. Nothing is promised of the client, or of the source *)
(* of a payload.                                                           *)
(***************************************************************************)
ServerFairSpec == Spec /\ WF_vars(ServerNext)
-------------------------------------------------------------------------------
TypeOK ==
  /\ conn \in {"open", "closed", "server_closed", "lost"}
  /\ cpc \in {"idle", "accepting", "uploading", "closed"}
  /\ reqLog \in Seq(Requests)
  /\ reqRead \in 0..Len(reqLog)
  /\ rspLog \in Seq(Response)
  /\ rspRead \in 0..Len(rspLog)
  /\ spc \in {"accepting", "receiving", "handling", "streaming", "pulling", "waiting", "gone"}
  /\ step \in Nat
  /\ down \in Seq(Down!Stream)
  /\ up \in Seq(Up!Stream)

(***************************************************************************)
(* What the code assumes of handlers, and the crate's own satisfy: each    *)
(* responds at most once, and before it sends data.                        *)
(***************************************************************************)
RespondsOnce(h) ==
  \A i, j \in DOMAIN h : h[i].op = "respond" /\ h[j].op = "respond" => i = j

RespondsBeforeData(h) ==
  \A j \in DOMAIN h : h[j].op = "send_data" =>
    \E i \in 1..(j - 1) : h[i].op = "respond"

ASSUME HandlersAssumption ==
  \A a \in DOMAIN Routes : \A u \in DOMAIN Routes[a] :
    RespondsOnce(Routes[a][u]) /\ RespondsBeforeData(Routes[a][u])

(***************************************************************************)
(* Correlation. Pipelined requests are answered in the order they were     *)
(* sent, each at most once, under its own id and with a status its own     *)
(* handler gives (NotFound where there is no route), although neither side *)
(* ever checks an id. A response passes over a request only if the handler *)
(* of that one has something to do before it responds, which may fail and  *)
(* leave it unanswered. So with handlers that respond first, as all of the *)
(* tests and examples do, the i-th response is that of the i-th request,   *)
(* ids reused or not; behind a handler of another kind a client cannot     *)
(* match by position.                                                      *)
(***************************************************************************)
Answers(i) ==
  LET k == rspLog[i].for
  IN  /\ k \in 1..reqRead
      /\ Receivable(reqLog[k])
      /\ rspLog[i].id = reqLog[k].id
      /\ \E s \in DOMAIN Script(k) : /\ Script(k)[s].op = "respond"
                                     /\ BxpResponseOf(i).status = Script(k)[s].status

Answered(k) == \E i \in DOMAIN rspLog : rspLog[i].for = k

RespondsFirst(k) ==
  Receivable(reqLog[k]) /\ Script(k) # <<>> /\ Script(k)[1].op = "respond"

NoGap(i) == \A k \in 1..(rspLog[i].for - 1) : RespondsFirst(k) => Answered(k)

ResponsesMatchRequests ==
  /\ \A i \in DOMAIN rspLog : Answers(i) /\ NoGap(i)
  /\ \A i, j \in DOMAIN rspLog : i < j => rspLog[i].for < rspLog[j].for

(***************************************************************************)
(* A data stream to the client always belongs to a request whose handler   *)
(* sends data and that was already answered; so an unroutable request      *)
(* never gets one (spec.md, 7: "It MUST NOT open a Data Stream").          *)
(***************************************************************************)
StreamsFollowResponses ==
  \A d \in DOMAIN down :
    \E i \in DOMAIN rspLog :
      /\ rspLog[i].id = down[d].req
      /\ Routed(Routes, BxpRequestOf(reqLog[rspLog[i].for]).action,
                        BxpRequestOf(reqLog[rspLog[i].for]).uri)
      /\ \E s \in DOMAIN Script(rspLog[i].for) : Script(rspLog[i].for)[s].op = "send_data"

(***************************************************************************)
(* However handlers end (Ok, Err half way through a payload, a stream the  *)
(* client stopped), none of them leaves a stream open behind it: a payload *)
(* still being written is the newest stream, its handler is still running, *)
(* and it carries the id of the request that handler serves.               *)
(***************************************************************************)
OneTransferAtATime ==
  \A d \in DOMAIN down : down[d].tx = "open" =>
    /\ spc = "streaming"
    /\ d = Len(down)
    /\ down[d].req = CurrentId

(***************************************************************************)
(* After a frame receive_request rejects nothing is served any more: the   *)
(* body of an oversized frame is still on the stream, and the next read    *)
(* would take it for a header.                                             *)
(***************************************************************************)
RejectedFrameIsLast ==
  \A k \in 1..reqRead : ~Receivable(reqLog[k]) =>
    /\ k = reqRead
    /\ spc \in {"waiting", "gone"}

(***************************************************************************)
(* What a client can tell of the responses and of the data streams.        *)
(***************************************************************************)
ReplyOf(r) == [to |-> r.for, id |-> r.id, status |-> StatusOf(r.code)]

PayloadOf(s) ==
  [id |-> s.req, sender |-> s.tx,
   receiver |-> CASE s.rx = "eof" /\ s.got = s.size -> "whole"
                  [] s.rx = "eof" /\ s.got # s.size -> "cut"
                  [] s.rx = "dropped" -> "lost"
                  [] OTHER -> "coming"]

Replies  == [i \in DOMAIN rspLog |-> ReplyOf(rspLog[i])]
Payloads == [d \in DOMAIN down |-> PayloadOf(down[d])]

(***************************************************************************)
(* With all its streams, windows and steps a connection is the service of  *)
(* BxpService: what handlers, close, losses and dropped streams do to one  *)
(* another never shows as more than a payload cut short or given up.       *)
(***************************************************************************)
Service == INSTANCE BxpService WITH
  over <- conn # "open", asked <- reqLog, taken <- reqRead,
  answers <- Replies, payloads <- Payloads

ImplementsService == Service!Spec

(***************************************************************************)
(* The server hangs up in one case only: a task without wait_for_close()   *)
(* (benchmark.rs:32) leaves its loop at a frame it refused. A handler that *)
(* fails, a stream the client stopped or a source that fails does not make *)
(* it, and no payload is under way when it does; wait_for_close() "keeps   *)
(* the connection alive until the client gracefully disconnects"           *)
(* (server.rs:238).                                                        *)
(***************************************************************************)
HangsUpOnRefusalOnly ==
  conn = "server_closed" =>
    /\ "drop" \in Endings
    /\ \E k \in 1..reqRead : ~Receivable(reqLog[k])
    /\ \A d \in DOMAIN down : Down!Ended(down[d])

(***************************************************************************)
(* The serving task ends once the connection has, wherever the task is: in *)
(* the middle of a payload, waiting for an upload, for a stream or for     *)
(* room on the control stream. Only a source can keep it: copy() does not  *)
(* notice the end while it waits for its reader (server.rs:233).           *)
(***************************************************************************)
WaitsForSource == spc = "streaming" /\ Down!AwaitsSource(Len(down))

ServerTaskEnds ==
  (WaitsForSource ~> ~WaitsForSource) => ((conn # "open") ~> (spc = "gone"))

(***************************************************************************)
(* spec.md, 7: an endpoint that receives a malformed message or a length   *)
(* header above 1 MB "MUST immediately terminate the QUIC connection". So, *)
(* once the serving task has rejected a frame, the connection ends even if *)
(* the client does nothing more. A task without wait_for_close() ends it   *)
(* by dropping its handles; one with it leaves the client waiting.         *)
(***************************************************************************)
RejectedFrameEndsConnection ==
  (\E k \in 1..reqRead : ~Receivable(reqLog[k])) ~> (conn # "open")
=============================================================================
