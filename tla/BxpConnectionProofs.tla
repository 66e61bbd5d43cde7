------------------------- MODULE BxpConnectionProofs -------------------------
(***************************************************************************)
(* Proofs about BxpConnection, for any number of requests and uploads, any *)
(* frames, routes and handlers (that respond at most once, and before they *)
(* send data), any window and any limit of streams.                        *)
(*                                                                         *)
(* The two data planes are instances of BxpDataPlane; what is known of a   *)
(* step of one of them is taken from BxpDataPlaneProofs.                   *)
(***************************************************************************)
EXTENDS BxpConnection, TLAPS

DownP == INSTANCE BxpDataPlaneProofs WITH streams <- down, MaxStreams <- MaxRequests
UpP   == INSTANCE BxpDataPlaneProofs WITH streams <- up, MaxStreams <- MaxUploads

Busy == spc \in {"handling", "streaming", "pulling"}

(***************************************************************************)
(* Types, and the few facts about the program counters that the actions    *)
(* need in order to be defined: an upload or a download under way has a    *)
(* stream, a running handler has a request.                                *)
(***************************************************************************)
Shape ==
  /\ conn \in {"open", "closed", "server_closed", "lost"}
  /\ cpc \in {"idle", "accepting", "uploading", "closed"}
  /\ reqLog \in Seq(Requests)
  /\ reqRead \in 0..Len(reqLog)
  /\ rspLog \in Seq(Response)
  /\ rspRead \in 0..Len(rspLog)
  /\ spc \in {"accepting", "receiving", "handling", "streaming", "pulling", "waiting", "gone"}
  /\ step \in Nat
  /\ DownP!StreamsOK
  /\ UpP!StreamsOK
  /\ cpc = "uploading" => Len(up) > 0
  /\ spc = "streaming" => Len(down) > 0
  /\ Busy => reqRead > 0
-------------------------------------------------------------------------------
(***************************************************************************)
(* Status codes survive the wire.                                          *)
(***************************************************************************)
LEMMA StatusRoundTrip ==
  \A s \in BxpStatus : StatusCode[s] \in 0..4 /\ StatusOf(StatusCode[s]) = s
  <1> SUFFICES ASSUME NEW s \in BxpStatus
               PROVE  StatusCode[s] \in 0..4 /\ StatusOf(StatusCode[s]) = s
    OBVIOUS
  <1>1. CASE s = "Success"       BY <1>1 DEF StatusCode, StatusOf
  <1>2. CASE s = "BadRequest"    BY <1>2 DEF StatusCode, StatusOf
  <1>3. CASE s = "Unauthorized"  BY <1>3 DEF StatusCode, StatusOf
  <1>4. CASE s = "NotFound"      BY <1>4 DEF StatusCode, StatusOf
  <1>5. CASE s = "InternalError" BY <1>5 DEF StatusCode, StatusOf
  <1> QED BY <1>1, <1>2, <1>3, <1>4, <1>5 DEF BxpStatus

(***************************************************************************)
(* Whatever request is dispatched, the steps that follow are a handler's,  *)
(* and they satisfy what is assumed of handlers.                           *)
(***************************************************************************)
LEMMA OneResponseIsHandler ==
  ASSUME NEW r \in HandlerStep, r.op = "respond"
  PROVE  /\ <<r>> \in Seq(HandlerStep)
         /\ RespondsOnce(<<r>>) /\ RespondsBeforeData(<<r>>)
         /\ \A s \in DOMAIN <<r>> : <<r>>[s].op # "send_data"
  BY DEF RespondsOnce, RespondsBeforeData

LEMMA DispatchIsHandler ==
  ASSUME NEW req
  PROVE  /\ Dispatch(Routes, req) \in Seq(HandlerStep)
         /\ RespondsOnce(Dispatch(Routes, req))
         /\ RespondsBeforeData(Dispatch(Routes, req))
         /\ \A s \in DOMAIN Dispatch(Routes, req) :
              Dispatch(Routes, req)[s].op = "send_data" => Routed(Routes, req.action, req.uri)
  <1>1. CASE Routed(Routes, req.action, req.uri)
    BY <1>1, RoutesAssumption, HandlersAssumption DEF Dispatch, Routed, Handler
  <1>2. CASE ~Routed(Routes, req.action, req.uri)
    <2> DEFINE r == Respond("NotFound")
    <2>1. r \in HandlerStep /\ r.op = "respond"
      BY SizesAssumption DEF Respond, HandlerStep, BxpStatus
    <2>2. Dispatch(Routes, req) = <<r>>
      BY <1>2 DEF Dispatch
    <2> HIDE DEF r
    <2> QED BY <2>1, <2>2, OneResponseIsHandler
  <1> QED BY <1>1, <1>2

LEMMA CurrentStepIsHandlerStep ==
  ASSUME Shape, NEW op, StepIs(op)
  PROVE  /\ CurrentStep \in HandlerStep
         /\ CurrentStep.op = op
         /\ CurrentId \in ReqIds
         /\ step + 1 \in DOMAIN Script(reqRead)
  <1>1. Script(reqRead) \in Seq(HandlerStep)
    BY DispatchIsHandler DEF Script
  <1>2. step + 1 \in DOMAIN Script(reqRead)
    BY <1>1 DEF StepIs, Shape
  <1>3. reqLog[reqRead] \in RequestFrame
    BY ConnectionAssumption DEF Shape, StepIs, Busy
  <1> QED BY <1>1, <1>2, <1>3 DEF StepIs, CurrentStep, CurrentId, RequestFrame
-------------------------------------------------------------------------------
(***************************************************************************)
(* The steps of the data planes. A receiver changes neither whose stream   *)
(* it is nor how its sender ended; a sender touches only its own stream.   *)
(***************************************************************************)
LEMMA DownOpens ==
  ASSUME DownP!StreamsOK, NEW r \in ReqIds, NEW n \in 0..MaxChunks, Down!OpenUni(r, n)
  PROVE  /\ DownP!StreamsOK'
         /\ conn' = conn
         /\ Len(down') = Len(down) + 1
         /\ \A d \in DOMAIN down : down'[d] = down[d]
         /\ down'[Len(down')].req = r
  <1>1. down' = Append(down, DownP!FreshStream(r, n)) /\ conn' = conn
    BY DEF Down!OpenUni, DownP!FreshStream
  <1>2. DownP!StreamsOK'
    BY <1>1, DownP!OpenStep, SizesAssumption, ConnectionAssumption
  <1>3. DownP!FreshStream(r, n).req = r
    BY DEF DownP!FreshStream
  <1> QED BY <1>1, <1>2, <1>3 DEF DownP!StreamsOK

LEMMA DownSends ==
  ASSUME DownP!StreamsOK, NEW i \in DOMAIN down,
         \/ Down!WritePreamble(i) \/ Down!SourceAnswers(i) \/ Down!CopyChunk(i)
         \/ Down!Finish(i) \/ Down!WriteFails(i) \/ Down!Abandon(i)
  PROVE  /\ DownP!StreamsOK'
         /\ conn' = conn
         /\ Len(down') = Len(down)
         /\ \A d \in DOMAIN down : /\ down'[d].req = down[d].req
                                   /\ d # i => down'[d] = down[d]
  <1>1. DownP!Sending(i) \/ DownP!SourceAnswers(i) \/ DownP!Abandon(i)
    BY DEF DownP!Sending, DownP!WritePreamble, Down!WritePreamble, DownP!CopyChunk,
           Down!CopyChunk, DownP!SourceAnswers, Down!SourceAnswers, DownP!AwaitsSource,
           Down!AwaitsSource, DownP!Ended, Down!Ended, DownP!Writes, Down!Writes, DownP!Finish,
           Down!Finish, DownP!WriteFails, Down!WriteFails, DownP!Abandon, Down!Abandon
  <1>2. DownP!StreamsOK'
    BY <1>1, DownP!StreamStep, SizesAssumption, ConnectionAssumption
  <1>3. conn' = conn /\ \E e : e.req = down[i].req /\ down' = [down EXCEPT ![i] = e]
    BY <1>1, DownP!SenderStep, SizesAssumption, ConnectionAssumption
  <1> QED BY <1>2, <1>3 DEF DownP!StreamsOK

LEMMA DownReceives ==
  ASSUME DownP!StreamsOK, NEW i \in DOMAIN down,
         \/ Down!AcceptUni(i) \/ Down!ReadPreamble(i) \/ Down!PreambleMissing(i)
         \/ Down!ReadFails(i) \/ Down!ReadChunk(i) \/ Down!ReadEof(i) \/ Down!DropRecv(i)
  PROVE  /\ DownP!StreamsOK'
         /\ conn' = conn
         /\ Len(down') = Len(down)
         /\ \A d \in DOMAIN down : down'[d].req = down[d].req /\ down'[d].tx = down[d].tx
  <1>1. DownP!Receiving(i) \/ DownP!DropRecv(i)
    BY DEF DownP!Receiving, DownP!AcceptUni, Down!AcceptUni, DownP!Known, Down!Known,
           DownP!ReadPreamble, Down!ReadPreamble, DownP!PreambleMissing, Down!PreambleMissing,
           DownP!ReadChunk, Down!ReadChunk, DownP!ReadEof, Down!ReadEof,
           DownP!ReadFails, Down!ReadFails, DownP!DropRecv, Down!DropRecv
  <1>2. DownP!StreamsOK'
    BY <1>1, DownP!StreamStep, SizesAssumption, ConnectionAssumption
  <1>3. /\ conn' = conn
        /\ \E e : /\ e.req = down[i].req /\ e.tx = down[i].tx
                  /\ down' = [down EXCEPT ![i] = e]
    BY <1>1, DownP!ReceiverStep, SizesAssumption, ConnectionAssumption
  <1> QED BY <1>2, <1>3 DEF DownP!StreamsOK

LEMMA UpOpens ==
  ASSUME UpP!StreamsOK, NEW r \in ReqIds, NEW n \in 0..MaxChunks, Up!OpenUni(r, n)
  PROVE  UpP!StreamsOK' /\ conn' = conn /\ Len(up') > 0
  <1>1. up' = Append(up, UpP!FreshStream(r, n)) /\ conn' = conn
    BY DEF Up!OpenUni, UpP!FreshStream
  <1>2. UpP!StreamsOK'
    BY <1>1, UpP!OpenStep, SizesAssumption, ConnectionAssumption
  <1> QED BY <1>1, <1>2 DEF UpP!StreamsOK

LEMMA UpMoves ==
  ASSUME UpP!StreamsOK, NEW i \in DOMAIN up,
         \/ Up!WritePreamble(i) \/ Up!SourceAnswers(i) \/ Up!CopyChunk(i)
         \/ Up!Finish(i) \/ Up!WriteFails(i) \/ Up!Abandon(i)
         \/ Up!AcceptUni(i) \/ Up!ReadPreamble(i) \/ Up!PreambleMissing(i)
         \/ Up!ReadFails(i) \/ Up!ReadChunk(i) \/ Up!ReadEof(i)
  PROVE  UpP!StreamsOK' /\ conn' = conn /\ Len(up') = Len(up)
  <1>1. UpP!Sending(i) \/ UpP!SourceAnswers(i) \/ UpP!Abandon(i) \/ UpP!Receiving(i)
    BY DEF UpP!Sending, UpP!WritePreamble, Up!WritePreamble, UpP!CopyChunk, Up!CopyChunk,
           UpP!SourceAnswers, Up!SourceAnswers, UpP!AwaitsSource, Up!AwaitsSource,
           UpP!Ended, Up!Ended, UpP!Writes, Up!Writes,
           UpP!Finish, Up!Finish, UpP!WriteFails, Up!WriteFails, UpP!Abandon, Up!Abandon,
           UpP!Receiving, UpP!AcceptUni, Up!AcceptUni, UpP!Known, Up!Known,
           UpP!ReadPreamble, Up!ReadPreamble, UpP!PreambleMissing, Up!PreambleMissing,
           UpP!ReadChunk, Up!ReadChunk, UpP!ReadEof, Up!ReadEof,
           UpP!ReadFails, Up!ReadFails, UpP!DropRecv, Up!DropRecv
  <1>2. UpP!StreamsOK'
    BY <1>1, UpP!StreamStep, SizesAssumption, ConnectionAssumption
  <1>3. up \in Seq(UpP!Stream)
    BY DEF UpP!StreamsOK
  <1> QED BY <1>2, <1>3 DEF Up!WritePreamble, Up!SourceAnswers, Up!CopyChunk, Up!Finish,
                            Up!WriteFails, Up!Abandon, Up!AcceptUni, Up!ReadPreamble, Up!PreambleMissing,
                            Up!ReadFails, Up!ReadChunk, Up!ReadEof, Up!DropRecv
-------------------------------------------------------------------------------
(***************************************************************************)
(* Shape is inductive.                                                     *)
(***************************************************************************)
LEMMA InitShape == Init => Shape
  BY DEF Init, Shape, Busy, DownP!StreamsOK, UpP!StreamsOK

LEMMA ClientShape == ASSUME Shape, ClientNext PROVE Shape'
  <1> USE DEF Shape, Busy, cvars, svars
  <1>1. ASSUME NEW f \in Requests, SendRequest(f) PROVE Shape'
    BY <1>1 DEF SendRequest, DownP!StreamsOK, UpP!StreamsOK
  <1>2. CASE ReceiveResponse
    BY <1>2 DEF ReceiveResponse, DownP!StreamsOK, UpP!StreamsOK
  <1>3. CASE AcceptDownload \/ ReadDataStream \/ ReadPayload \/ DropPayload
    <2>1. DownP!StreamsOK' /\ conn' = conn /\ Len(down') = Len(down)
      BY <1>3, DownReceives DEF AcceptDownload, ReadDataStream, ReadPayload, DropPayload
    <2> QED BY <1>3, <2>1 DEF AcceptDownload, ReadDataStream, ReadPayload, DropPayload,
                              UpP!StreamsOK
  <1>4. ASSUME NEW id \in ReqIds, NEW n \in 0..MaxChunks, OpenUpload(id, n) PROVE Shape'
    BY <1>4, UpOpens DEF OpenUpload, DownP!StreamsOK
  <1>5. CASE SendUpload \/ UploadSourceAnswers \/ SendDataStream \/ UploadSourceFails
    <2>1. Len(up) \in DOMAIN up
      BY <1>5 DEF SendUpload, UploadSourceAnswers, SendDataStream, UploadSourceFails,
                  UpP!StreamsOK
    <2>2. UpP!StreamsOK' /\ conn' = conn /\ Len(up') = Len(up)
      BY <1>5, <2>1, UpMoves DEF SendUpload, UploadSourceAnswers, SendDataStream,
                                 UploadSourceFails
    <2> QED BY <1>5, <2>2 DEF SendUpload, UploadSourceAnswers, SendDataStream, UploadSourceFails,
                              DownP!StreamsOK
  <1>6. CASE CloseClient
    BY <1>6 DEF CloseClient, DownP!StreamsOK, UpP!StreamsOK
  <1> QED BY <1>1, <1>2, <1>3, <1>4, <1>5, <1>6 DEF ClientNext

LEMMA HandlerShape == ASSUME Shape, HandlerNext \/ SourceNext PROVE Shape'
  <1> USE DEF Shape, Busy, cvars, svars
  <1>1. CASE SendResponse
    <2>1. CurrentStep \in HandlerStep /\ CurrentId \in ReqIds
      BY <1>1, CurrentStepIsHandlerStep DEF SendResponse
    <2>2. StatusCode[CurrentStep.status] \in 0..4
      BY <2>1, StatusRoundTrip DEF HandlerStep
    <2>3. [id |-> CurrentId, code |-> StatusCode[CurrentStep.status], for |-> reqRead] \in Response
      BY <2>1, <2>2 DEF Response
    <2> QED BY <1>1, <2>3 DEF SendResponse, DownP!StreamsOK, UpP!StreamsOK
  <1>2. CASE OpenDownload
    <2>1. CurrentStep.size \in 0..MaxChunks /\ CurrentId \in ReqIds
      BY <1>2, CurrentStepIsHandlerStep DEF OpenDownload, HandlerStep
    <2>2. DownP!StreamsOK' /\ conn' = conn /\ Len(down') = Len(down) + 1 /\ Len(down) \in Nat
      BY <1>2, <2>1, DownOpens DEF OpenDownload, DownP!StreamsOK
    <2> QED BY <1>2, <2>2 DEF OpenDownload, StepIs, UpP!StreamsOK
  <1>3. CASE StreamDownload \/ FinishDownload \/ DownloadErr \/ SourceNext
    <2>1. Len(down) \in DOMAIN down
      BY <1>3 DEF StreamDownload, FinishDownload, DownloadErr, SourceNext, DownloadSourceAnswers,
                  DownloadSourceFails, DownP!StreamsOK
    <2>2. DownP!StreamsOK' /\ conn' = conn /\ Len(down') = Len(down)
      BY <1>3, <2>1, DownSends
         DEF StreamDownload, FinishDownload, DownloadErr, SourceNext, DownloadSourceAnswers,
             DownloadSourceFails
    <2> QED BY <1>3, <2>2 DEF StreamDownload, FinishDownload, DownloadErr, SourceNext,
                              DownloadSourceAnswers, DownloadSourceFails, UpP!StreamsOK
  <1>4. CASE AcceptUpload \/ PullUpload \/ FinishUpload \/ UploadErr
    <2>1. UpP!StreamsOK' /\ conn' = conn /\ Len(up') = Len(up)
      BY <1>4, UpMoves DEF AcceptUpload, PullUpload, FinishUpload, UploadErr
    <2> QED BY <1>4, <2>1 DEF AcceptUpload, PullUpload, FinishUpload, UploadErr, StepIs,
                              DownP!StreamsOK
  <1>5. CASE HandlerOk \/ HandlerErr
    BY <1>5 DEF HandlerOk, HandlerErr, DownP!StreamsOK, UpP!StreamsOK
  <1> QED BY <1>1, <1>2, <1>3, <1>4, <1>5 DEF HandlerNext

LEMMA TaskShape ==
  ASSUME Shape,
         \/ Accept \/ AcceptFails \/ ReceiveRequest \/ RejectRequest \/ ReceiveFails
         \/ WaitForClose \/ LoseConnection
  PROVE  Shape'
  BY DEF Shape, Busy, cvars, svars, Accept, AcceptFails, ReceiveRequest, RejectRequest,
         ReceiveFails, WaitForClose, LoseConnection, LeaveLoop, DropConnection,
         DownP!StreamsOK, UpP!StreamsOK

LEMMA NextShape == Shape /\ [Next]_vars => Shape'
  <1>1. ASSUME Shape, UNCHANGED vars PROVE Shape'
    BY <1>1 DEF vars, Shape, Busy, DownP!StreamsOK, UpP!StreamsOK
  <1> QED BY <1>1, ClientShape, HandlerShape, TaskShape DEF Next, ServerNext

(***************************************************************************)
(* Type correctness of a connection.                                       *)
(***************************************************************************)
THEOREM TypeCorrect == Spec => []TypeOK
  <1>1. Shape => TypeOK
    BY DEF Shape, TypeOK, DownP!StreamsOK, UpP!StreamsOK, DownP!Stream, Down!Stream,
           UpP!Stream, Up!Stream
  <1> QED BY <1>1, InitShape, NextShape, PTL DEF Spec
-------------------------------------------------------------------------------
(***************************************************************************)
(* What a client's step, or a loss of the connection, may change of what   *)
(* the other invariants speak of: requests are added behind those already  *)
(* read, received data streams keep their id and their sender's state.     *)
(***************************************************************************)
LogGrows ==
  /\ Len(reqLog') \in Nat /\ Len(reqLog') >= Len(reqLog)
  /\ \A k \in DOMAIN reqLog : k \in DOMAIN reqLog' /\ reqLog'[k] = reqLog[k]

DownKept ==
  /\ Len(down') = Len(down) /\ DOMAIN down' = DOMAIN down
  /\ \A d \in DOMAIN down : down'[d].req = down[d].req /\ down'[d].tx = down[d].tx

LEMMA ClientEffect ==
  ASSUME Shape, ClientNext \/ LoseConnection \/ UNCHANGED vars
  PROVE  /\ UNCHANGED svars
         /\ LogGrows
         /\ DownKept
         /\ conn' = conn \/ conn' \in {"closed", "lost"}
  <1>0. reqLog \in Seq(Requests) /\ down \in Seq(DownP!Stream)
    BY DEF Shape, DownP!StreamsOK
  <1>1. ASSUME NEW f \in Requests, SendRequest(f)
        PROVE  UNCHANGED svars /\ LogGrows /\ DownKept /\ conn' = conn
    BY <1>0, <1>1 DEF SendRequest, LogGrows, DownKept
  <1>2. ASSUME UNCHANGED <<reqLog, down>> PROVE LogGrows /\ DownKept
    BY <1>0, <1>2 DEF LogGrows, DownKept
  <1>3. CASE AcceptDownload \/ ReadDataStream \/ ReadPayload \/ DropPayload
    <2>1. DownP!StreamsOK' /\ conn' = conn /\ Len(down') = Len(down)
          /\ \A d \in DOMAIN down : down'[d].req = down[d].req /\ down'[d].tx = down[d].tx
      BY <1>3, DownReceives DEF AcceptDownload, ReadDataStream, ReadPayload, DropPayload, Shape
    <2>2. DownKept
      BY <1>0, <2>1 DEF DownKept, DownP!StreamsOK
    <2>3. UNCHANGED svars /\ UNCHANGED reqLog
      BY <1>3 DEF AcceptDownload, ReadDataStream, ReadPayload, DropPayload, cvars
    <2> QED BY <1>0, <2>1, <2>2, <2>3 DEF LogGrows
  <1>4. ASSUME NEW id \in ReqIds, NEW n \in 0..MaxChunks, OpenUpload(id, n)
        PROVE  UNCHANGED svars /\ UNCHANGED <<reqLog, down>> /\ conn' = conn
    BY <1>4, UpOpens DEF OpenUpload, Shape
  <1>5. CASE SendUpload \/ UploadSourceAnswers \/ SendDataStream \/ UploadSourceFails
    <2>1. Len(up) \in DOMAIN up
      BY <1>5 DEF SendUpload, UploadSourceAnswers, SendDataStream, UploadSourceFails, Shape,
                  UpP!StreamsOK
    <2>2. conn' = conn
      BY <1>5, <2>1, UpMoves DEF SendUpload, UploadSourceAnswers, SendDataStream,
                                 UploadSourceFails, Shape
    <2>3. UNCHANGED svars /\ UNCHANGED <<reqLog, down>>
      BY <1>5 DEF SendUpload, UploadSourceAnswers, SendDataStream, UploadSourceFails, cvars
    <2> QED BY <1>2, <2>2, <2>3
  <1>6. CASE ReceiveResponse \/ CloseClient \/ LoseConnection \/ UNCHANGED vars
    <2>1. /\ UNCHANGED svars /\ UNCHANGED <<reqLog, down>>
          /\ conn' = conn \/ conn' \in {"closed", "lost"}
      BY <1>6 DEF ReceiveResponse, CloseClient, LoseConnection, vars, cvars, svars
    <2> QED BY <1>2, <2>1
  <1> QED BY <1>1, <1>2, <1>3, <1>4, <1>5, <1>6 DEF ClientNext

(***************************************************************************)
(* What the handler steps on the data planes change.                       *)
(***************************************************************************)
LEMMA UploadEffect ==
  ASSUME Shape, AcceptUpload \/ PullUpload \/ FinishUpload \/ UploadErr
  PROVE  conn' = conn /\ UNCHANGED <<reqLog, reqRead, rspLog, down>>
  <1>1. conn' = conn
    BY UpMoves DEF AcceptUpload, PullUpload, FinishUpload, UploadErr, Shape
  <1> QED BY <1>1 DEF AcceptUpload, PullUpload, FinishUpload, UploadErr, cvars, svars

LEMMA DownloadEffect ==
  ASSUME Shape, StreamDownload \/ FinishDownload \/ DownloadErr \/ SourceNext
  PROVE  /\ conn' = conn /\ UNCHANGED <<reqLog, reqRead, rspLog>>
         /\ DOMAIN down' = DOMAIN down /\ Len(down') = Len(down)
         /\ \A d \in DOMAIN down : /\ down'[d].req = down[d].req
                                   /\ d # Len(down) => down'[d] = down[d]
  <1>1. Len(down) \in DOMAIN down
    BY DEF StreamDownload, FinishDownload, DownloadErr, SourceNext, DownloadSourceAnswers,
           DownloadSourceFails, Shape, DownP!StreamsOK
  <1>2. /\ DownP!StreamsOK' /\ conn' = conn /\ Len(down') = Len(down)
        /\ \A d \in DOMAIN down : /\ down'[d].req = down[d].req
                                  /\ d # Len(down) => down'[d] = down[d]
    BY <1>1, DownSends DEF StreamDownload, FinishDownload, DownloadErr, SourceNext,
                           DownloadSourceAnswers, DownloadSourceFails, Shape
  <1>3. DOMAIN down' = DOMAIN down
    BY <1>2 DEF Shape, DownP!StreamsOK
  <1> QED BY <1>2, <1>3
          DEF StreamDownload, FinishDownload, DownloadErr, SourceNext, DownloadSourceAnswers,
              DownloadSourceFails, cvars, svars

LEMMA OpenEffect ==
  ASSUME Shape, OpenDownload
  PROVE  /\ conn' = conn /\ UNCHANGED <<reqLog, reqRead, rspLog, step>>
         /\ Len(down') = Len(down) + 1
         /\ DOMAIN down' = DOMAIN down \cup {Len(down')}
         /\ \A d \in DOMAIN down : down'[d] = down[d]
         /\ down'[Len(down')].req = CurrentId
  <1>1. CurrentStep.size \in 0..MaxChunks /\ CurrentId \in ReqIds
    BY CurrentStepIsHandlerStep DEF OpenDownload, HandlerStep
  <1>2. /\ DownP!StreamsOK' /\ conn' = conn /\ Len(down') = Len(down) + 1
        /\ \A d \in DOMAIN down : down'[d] = down[d]
        /\ down'[Len(down')].req = CurrentId
    BY <1>1, DownOpens DEF OpenDownload, Shape
  <1>3. DOMAIN down' = DOMAIN down \cup {Len(down')}
    BY <1>2 DEF Shape, DownP!StreamsOK
  <1> QED BY <1>2, <1>3 DEF OpenDownload, cvars, svars
-------------------------------------------------------------------------------
LEMMA RejectStep == Shape /\ RejectedFrameIsLast /\ [Next]_vars => RejectedFrameIsLast'
  <1> SUFFICES ASSUME Shape, RejectedFrameIsLast, [Next]_vars PROVE RejectedFrameIsLast'
    OBVIOUS
  <1>0. reqRead \in 0..Len(reqLog) /\ Len(reqLog) \in Nat /\ DOMAIN reqLog = 1..Len(reqLog)
    BY DEF Shape
  <1>1. CASE ClientNext \/ LoseConnection \/ UNCHANGED vars
    BY <1>0, <1>1, ClientEffect DEF RejectedFrameIsLast, LogGrows, svars
  <1>2. CASE \/ OpenDownload \/ StreamDownload \/ FinishDownload \/ DownloadErr
             \/ SourceNext \/ AcceptUpload \/ PullUpload \/ FinishUpload \/ UploadErr
    <2>1. UNCHANGED <<reqLog, reqRead>>
      BY <1>2, OpenEffect, DownloadEffect, UploadEffect
    <2>2. spc \notin {"waiting", "gone"}
      BY <1>2 DEF OpenDownload, StreamDownload, FinishDownload, DownloadErr,
                  SourceNext, DownloadSourceAnswers, DownloadSourceFails, AcceptUpload, PullUpload, FinishUpload, UploadErr, StepIs
    <2> QED BY <2>1, <2>2 DEF RejectedFrameIsLast
  <1>3. CASE \/ Accept \/ AcceptFails \/ ReceiveFails \/ SendResponse \/ HandlerOk
             \/ HandlerErr \/ WaitForClose
    <2>1. UNCHANGED <<reqLog, reqRead>>
      BY <1>3 DEF Accept, AcceptFails, ReceiveFails, SendResponse, HandlerOk, HandlerErr,
                  WaitForClose, cvars
    <2>2. (spc = "waiting" /\ spc' = "gone") \/ spc \notin {"waiting", "gone"}
      BY <1>3 DEF Accept, AcceptFails, ReceiveFails, SendResponse, HandlerOk, HandlerErr,
                  WaitForClose, StepIs, DropConnection
    <2> QED BY <2>1, <2>2 DEF RejectedFrameIsLast
  <1>4. CASE ReceiveRequest
    BY <1>0, <1>4 DEF ReceiveRequest, RejectedFrameIsLast, cvars
  <1>5. CASE RejectRequest
    BY <1>0, <1>5 DEF RejectRequest, RejectedFrameIsLast, LeaveLoop, DropConnection, cvars
  <1> QED BY <1>1, <1>2, <1>3, <1>4, <1>5 DEF Next, ServerNext, HandlerNext

(***************************************************************************)
(* Nothing is served after a frame that receive_request rejected.          *)
(***************************************************************************)
THEOREM RejectedIsLast == Spec => []RejectedFrameIsLast
  <1>1. Init => RejectedFrameIsLast
    BY DEF Init, RejectedFrameIsLast
  <1> QED BY <1>1, InitShape, NextShape, RejectStep, PTL DEF Spec
-------------------------------------------------------------------------------
(***************************************************************************)
(* Correlation. ResponsesMatchRequests is not inductive: that a handler    *)
(* does not answer twice follows from where it is in its script. Served    *)
(* ties the two together: the running handler's request has a response     *)
(* exactly when the handler has passed its respond step. That no response  *)
(* passes over a request that is answered first follows from Prompt: on an *)
(* open connection such a request has its response, or its handler has not *)
(* taken a step yet.                                                       *)
(***************************************************************************)
PassedRespond(k) == \E s \in DOMAIN Script(k) : s <= step /\ Script(k)[s].op = "respond"

AtStep(k, op) == step + 1 \in DOMAIN Script(k) /\ Script(k)[step + 1].op = op

Served ==
  \A k \in 1..reqRead : Busy /\ k = reqRead =>
    /\ Receivable(reqLog[k])
    /\ Answered(k) <=> PassedRespond(k)
    /\ spc = "streaming" => AtStep(k, "send_data")
    /\ spc = "pulling" => AtStep(k, "read_data")

AtFirst(k) == spc = "handling" /\ k = reqRead /\ step = 0

Prompt ==
  \A k \in 1..reqRead : RespondsFirst(k) => Answered(k) \/ conn # "open" \/ AtFirst(k)

Correlated == Shape /\ Served /\ Prompt /\ ResponsesMatchRequests

LEMMA ScriptFacts ==
  ASSUME NEW k
  PROVE  /\ Script(k) \in Seq(HandlerStep)
         /\ RespondsOnce(Script(k)) /\ RespondsBeforeData(Script(k))
         /\ \A s \in DOMAIN Script(k) :
              Script(k)[s].op = "send_data" =>
                Routed(Routes, BxpRequestOf(reqLog[k]).action, BxpRequestOf(reqLog[k]).uri)
  BY DispatchIsHandler DEF Script

LEMMA ScriptKept ==
  ASSUME NEW k, reqLog'[k] = reqLog[k] PROVE Script(k)' = Script(k)
  BY DEF Script

(***************************************************************************)
(* A response that answered its request before a step still does after it, *)
(* as long as requests are only added and read and responses only written; *)
(* and it still passes over none it should not.                            *)
(***************************************************************************)
ResponsesGrow == \A i \in DOMAIN rspLog : i \in DOMAIN rspLog' /\ rspLog'[i] = rspLog[i]

LEMMA RequestKept ==
  ASSUME Shape, LogGrows, ResponsesGrow, NEW k \in 1..reqRead
  PROVE  /\ k \in DOMAIN reqLog /\ reqLog'[k] = reqLog[k] /\ Script(k)' = Script(k)
         /\ RespondsFirst(k)' = RespondsFirst(k)
         /\ Answered(k) => Answered(k)'
  <1>1. k \in DOMAIN reqLog
    BY DEF Shape
  <1>2. reqLog'[k] = reqLog[k]
    BY <1>1 DEF LogGrows
  <1>3. Script(k)' = Script(k)
    BY <1>2, ScriptKept
  <1>4. Answered(k) => Answered(k)'
    BY DEF Answered, ResponsesGrow
  <1> QED BY <1>1, <1>2, <1>3, <1>4 DEF RespondsFirst

LEMMA AnswersKept ==
  ASSUME Shape, LogGrows, ResponsesGrow, reqRead' \in Nat, reqRead' >= reqRead,
         NEW i \in DOMAIN rspLog, Answers(i), NoGap(i)
  PROVE  Answers(i)' /\ NoGap(i)'
  <1>1. rspLog[i].for \in 1..reqRead /\ reqRead \in Nat
    BY DEF Answers, Shape
  <1>2. PICK k \in 1..reqRead : k = rspLog[i].for
    BY <1>1
  <1>3. rspLog'[i] = rspLog[i] /\ k \in 1..reqRead'
    BY <1>1, <1>2 DEF ResponsesGrow
  <1>4. reqLog'[k] = reqLog[k] /\ Script(k)' = Script(k)
    BY RequestKept
  <1>5. Answers(i)'
    BY <1>2, <1>3, <1>4 DEF Answers, BxpResponseOf
  <1>6. \A j \in 1..(k - 1) : RespondsFirst(j)' => Answered(j)'
    <2> SUFFICES ASSUME NEW j \in 1..(k - 1), RespondsFirst(j)' PROVE Answered(j)'
      OBVIOUS
    <2>1. j \in 1..reqRead
      BY <1>1
    <2>2. RespondsFirst(j)
      BY <2>1, RequestKept
    <2> QED BY <1>2, <2>1, <2>2, RequestKept DEF NoGap
  <1> QED BY <1>2, <1>3, <1>5, <1>6 DEF NoGap

LEMMA ClientCorrelated ==
  ASSUME Correlated, ClientNext \/ LoseConnection \/ UNCHANGED vars
  PROVE  Correlated'
  <1>1. /\ Shape /\ Shape' /\ UNCHANGED svars /\ LogGrows /\ ResponsesGrow
        /\ conn # "open" => conn' # "open"
    BY ClientEffect, NextShape DEF Correlated, Next, svars, ResponsesGrow
  <1>2. reqRead \in Nat /\ 1..reqRead \subseteq DOMAIN reqLog
    BY <1>1 DEF Shape
  <1>3. \A k \in 1..reqRead : reqLog'[k] = reqLog[k]
    BY <1>1, <1>2 DEF LogGrows
  <1>4. ResponsesMatchRequests'
    <2>1. \A i \in DOMAIN rspLog : Answers(i)' /\ NoGap(i)'
      BY <1>1, <1>2, AnswersKept DEF ResponsesMatchRequests, svars, Correlated
    <2> QED BY <1>1, <2>1 DEF ResponsesMatchRequests, svars, Correlated
  <1>5. Served'
    <2> SUFFICES ASSUME NEW k \in 1..reqRead, Busy, k = reqRead
                 PROVE  (/\ Receivable(reqLog[k])
                         /\ Answered(k) <=> PassedRespond(k)
                         /\ spc = "streaming" => AtStep(k, "send_data")
                         /\ spc = "pulling" => AtStep(k, "read_data"))'
      BY <1>1 DEF Served, Busy, svars
    <2>1. Script(k)' = Script(k) /\ reqLog'[k] = reqLog[k]
      BY <1>3, ScriptKept
    <2> QED BY <1>1, <2>1 DEF Correlated, Served, Answered, PassedRespond, AtStep, svars
  <1>6. Prompt'
    <2> SUFFICES ASSUME NEW k \in 1..reqRead, RespondsFirst(k)'
                 PROVE  Answered(k)' \/ conn' # "open" \/ AtFirst(k)'
      BY <1>1 DEF Prompt, svars
    <2> QED BY <1>1, RequestKept DEF Correlated, Prompt, AtFirst, svars
  <1> QED BY <1>1, <1>4, <1>5, <1>6 DEF Correlated

(***************************************************************************)
(* Steps of the task that neither read a request nor complete a handler    *)
(* step.                                                                   *)
(***************************************************************************)
LEMMA QuietCorrelated ==
  ASSUME Correlated, Shape', UNCHANGED <<reqLog, reqRead, rspLog, step>>,
         Busy' => Busy,
         spc' = "streaming" => AtStep(reqRead, "send_data"),
         spc' = "pulling" => AtStep(reqRead, "read_data"),
         conn # "open" => conn' # "open",
         \A k \in 1..reqRead : RespondsFirst(k) /\ AtFirst(k) => conn # "open"
  PROVE  Correlated'
  <1>1. ResponsesMatchRequests'
    BY DEF Correlated, ResponsesMatchRequests, Answers, NoGap, RespondsFirst, Answered, Script,
           BxpResponseOf
  <1>2. Served'
    <2> SUFFICES ASSUME NEW k \in 1..reqRead, Busy, k = reqRead
                 PROVE  (/\ Receivable(reqLog[k])
                         /\ Answered(k) <=> PassedRespond(k)
                         /\ spc = "streaming" => AtStep(k, "send_data")
                         /\ spc = "pulling" => AtStep(k, "read_data"))'
      BY DEF Served, Busy
    <2>1. Script(k)' = Script(k)
      BY ScriptKept
    <2> QED BY <2>1 DEF Correlated, Served, Answered, PassedRespond, AtStep
  <1>3. Prompt'
    BY DEF Correlated, Prompt, RespondsFirst, Answered, AtFirst, Script
  <1> QED BY <1>1, <1>2, <1>3 DEF Correlated

LEMMA TaskQuiet ==
  ASSUME Correlated,
         \/ Accept \/ AcceptFails \/ ReceiveFails \/ WaitForClose \/ HandlerOk \/ HandlerErr
         \/ OpenDownload \/ StreamDownload \/ DownloadErr \/ SourceNext
         \/ AcceptUpload \/ PullUpload \/ UploadErr
  PROVE  Correlated'
  <1>1. Shape /\ Shape' /\ Served
    BY NextShape DEF Correlated, Next, ServerNext, HandlerNext
  <1>2. conn # "open" => conn' # "open"
    <2>1. CASE \/ OpenDownload \/ StreamDownload \/ DownloadErr \/ SourceNext
               \/ AcceptUpload \/ PullUpload \/ UploadErr
      BY <1>1, <2>1, OpenEffect, DownloadEffect, UploadEffect
    <2>2. CASE Accept \/ AcceptFails \/ ReceiveFails \/ WaitForClose \/ HandlerOk \/ HandlerErr
      BY <2>2 DEF Accept, AcceptFails, ReceiveFails, WaitForClose, HandlerOk, HandlerErr,
                  LeaveLoop, DropConnection
    <2> QED BY <2>1, <2>2
  <1>3. CASE \/ Accept \/ AcceptFails \/ ReceiveFails \/ WaitForClose
             \/ DownloadErr \/ DownloadSourceFails \/ UploadErr
    <2>1. spc' \in {"receiving", "waiting", "gone"} /\ spc # "handling"
      BY <1>3 DEF Accept, AcceptFails, ReceiveFails, WaitForClose,
                  DownloadErr, DownloadSourceFails, UploadErr, LeaveLoop, DropConnection
    <2>2. UNCHANGED <<reqLog, reqRead, rspLog, step>>
      BY <1>3 DEF Accept, AcceptFails, ReceiveFails, WaitForClose,
                  DownloadErr, DownloadSourceFails, UploadErr, cvars
    <2> QED BY <1>1, <1>2, <2>1, <2>2, QuietCorrelated DEF Busy, AtFirst
  <1>4. CASE HandlerOk \/ HandlerErr
    <2>1. spc' = "receiving" /\ UNCHANGED <<reqLog, reqRead, rspLog, step>>
      BY <1>4 DEF HandlerOk, HandlerErr, cvars
    <2>2. ASSUME NEW k \in 1..reqRead, RespondsFirst(k), AtFirst(k) PROVE conn # "open"
      <3>1. k = reqRead /\ step = 0 /\ Script(k) \in Seq(HandlerStep)
        BY <2>2, ScriptFacts DEF AtFirst
      <3>2. step # Len(Script(reqRead)) /\ Script(reqRead)[step + 1].op = "respond"
        BY <2>2, <3>1 DEF RespondsFirst
      <3> QED BY <1>4, <3>2 DEF HandlerOk, HandlerErr, StepIs
    <2> QED BY <1>1, <1>2, <2>1, <2>2, QuietCorrelated DEF Busy
  <1>5. CASE OpenDownload \/ AcceptUpload
    <2>1. /\ OpenDownload => AtStep(reqRead, "send_data") /\ spc' = "streaming"
          /\ AcceptUpload => AtStep(reqRead, "read_data") /\ spc' = "pulling"
      BY <1>1, <1>5, CurrentStepIsHandlerStep DEF OpenDownload, AcceptUpload, AtStep, CurrentStep
    <2>2. UNCHANGED <<reqLog, reqRead, rspLog, step>> /\ Busy
      BY <1>5 DEF OpenDownload, AcceptUpload, StepIs, Busy, cvars
    <2>3. \A k \in 1..reqRead : RespondsFirst(k) => ~AtFirst(k)
      BY <1>5, <2>1 DEF RespondsFirst, AtFirst, AtStep
    <2> QED BY <1>1, <1>2, <1>5, <2>1, <2>2, <2>3, QuietCorrelated
  <1>6. CASE StreamDownload \/ DownloadSourceAnswers \/ PullUpload
    <2>1. UNCHANGED <<reqLog, reqRead, rspLog, step, spc>>
      BY <1>6 DEF StreamDownload, DownloadSourceAnswers, PullUpload, cvars, svars
    <2>2. Busy /\ reqRead \in 1..reqRead /\ spc # "handling"
      BY <1>1, <1>6 DEF StreamDownload, DownloadSourceAnswers, PullUpload, Busy, Shape
    <2>3. /\ spc = "streaming" => AtStep(reqRead, "send_data")
          /\ spc = "pulling" => AtStep(reqRead, "read_data")
      BY <1>1, <2>2 DEF Served
    <2> QED BY <1>1, <1>2, <2>1, <2>2, <2>3, QuietCorrelated DEF AtFirst
  <1> QED BY <1>3, <1>4, <1>5, <1>6 DEF SourceNext

(***************************************************************************)
(* A completed transfer: the handler passes a step that is no response.    *)
(***************************************************************************)
LEMMA TransferCorrelated ==
  ASSUME Correlated, FinishDownload \/ FinishUpload PROVE Correlated'
  <1>1. Shape /\ Shape' /\ Served /\ ResponsesMatchRequests
    BY NextShape DEF Correlated, Next, ServerNext, HandlerNext
  <1>2. /\ UNCHANGED <<reqLog, reqRead, rspLog>> /\ step' = step + 1 /\ spc' = "handling"
        /\ spc \in {"streaming", "pulling"}
    BY DEF FinishDownload, FinishUpload, cvars
  <1>3. ResponsesMatchRequests'
    BY <1>1, <1>2 DEF ResponsesMatchRequests, Answers, NoGap, RespondsFirst, Answered, Script,
                      BxpResponseOf
  <1>4. Served'
    <2> SUFFICES ASSUME NEW k \in 1..reqRead, k = reqRead
                 PROVE  Receivable(reqLog[k])' /\ (Answered(k) <=> PassedRespond(k))'
      BY <1>2 DEF Served
    <2>1. /\ Receivable(reqLog[k])
          /\ Answered(k) <=> PassedRespond(k)
          /\ Script(k)[step + 1].op # "respond"
      BY <1>1, <1>2 DEF Served, Busy, AtStep
    <2>2. Script(k)' = Script(k) /\ Script(k) \in Seq(HandlerStep) /\ step \in Nat
      BY <1>1, <1>2, ScriptKept, ScriptFacts DEF Shape
    <2>3. PassedRespond(k)' <=> PassedRespond(k)
      BY <1>2, <2>1, <2>2 DEF PassedRespond
    <2>4. Answered(k)' <=> Answered(k)
      BY <1>2 DEF Answered
    <2> QED BY <1>2, <2>1, <2>3, <2>4
  <1>5. conn' = conn
    BY <1>1, DownloadEffect, UploadEffect
  <1>6. Prompt'
    BY <1>2, <1>5 DEF Correlated, Prompt, RespondsFirst, Answered, AtFirst, Script
  <1> QED BY <1>1, <1>3, <1>4, <1>6 DEF Correlated

(***************************************************************************)
(* A response: the request has none yet, because the handler responds once *)
(* and is only now at that step.                                           *)
(***************************************************************************)
LEMMA RespondCorrelated ==
  ASSUME Correlated, SendResponse PROVE Correlated'
  <1>1. Shape /\ Shape' /\ Served /\ ResponsesMatchRequests
    BY NextShape DEF Correlated, Next, ServerNext, HandlerNext
  <1> DEFINE r == [id |-> CurrentId, code |-> StatusCode[CurrentStep.status], for |-> reqRead]
  <1>2. /\ UNCHANGED <<reqLog, reqRead, spc>> /\ spc = "handling" /\ step' = step + 1
        /\ rspLog' = Append(rspLog, r)
    BY DEF SendResponse, StepIs, cvars
  <1>3. PICK k \in 1..reqRead : k = reqRead
    BY <1>1, <1>2 DEF Shape, Busy
  <1>4. /\ AtStep(k, "respond") /\ CurrentStep = Script(k)[step + 1]
        /\ CurrentStep \in HandlerStep /\ CurrentId = reqLog[k].id
    BY <1>1, <1>3, CurrentStepIsHandlerStep DEF SendResponse, AtStep, CurrentStep, CurrentId
  <1>5. /\ Script(k)' = Script(k) /\ Script(k) \in Seq(HandlerStep) /\ step \in Nat
        /\ RespondsOnce(Script(k))
    BY <1>1, <1>2, ScriptKept, ScriptFacts DEF Shape
  <1>6. ~PassedRespond(k)
    BY <1>4, <1>5 DEF PassedRespond, AtStep, RespondsOnce
  <1>7. Receivable(reqLog[k]) /\ ~Answered(k)
    BY <1>1, <1>2, <1>3, <1>6 DEF Served, Busy
  <1>8. PICK n \in Nat : /\ n = Len(rspLog) + 1 /\ DOMAIN rspLog' = DOMAIN rspLog \cup {n}
                         /\ rspLog'[n] = r
                         /\ \A i \in DOMAIN rspLog : rspLog'[i] = rspLog[i] /\ i < n
    BY <1>1, <1>2 DEF Shape
  <1>9. Served'
    <2>1. PassedRespond(k)'
      BY <1>2, <1>4, <1>5 DEF PassedRespond, AtStep
    <2>2. Answered(k)'
      BY <1>3, <1>8 DEF Answered
    <2>3. Receivable(reqLog[k])'
      BY <1>2, <1>7
    <2>4. \A j \in 1..reqRead' : j = reqRead' => j = k
      BY <1>2, <1>3
    <2> QED BY <1>2, <2>1, <2>2, <2>3, <2>4 DEF Served
  <1>10. LogGrows /\ ResponsesGrow /\ reqRead' \in Nat /\ reqRead' >= reqRead
    BY <1>1, <1>2, <1>8 DEF LogGrows, ResponsesGrow, Shape
  <1>11. \A i \in DOMAIN rspLog : Answers(i)' /\ NoGap(i)'
    BY <1>1, <1>10, AnswersKept DEF ResponsesMatchRequests
  <1>12. conn = "open" /\ conn' = "open"
    BY DEF SendResponse
  <1>13. \A j \in 1..(k - 1) : RespondsFirst(j)' => Answered(j)'
    <2> SUFFICES ASSUME NEW j \in 1..(k - 1), RespondsFirst(j)' PROVE Answered(j)'
      OBVIOUS
    <2>1. j \in 1..reqRead /\ j # reqRead
      BY <1>1, <1>3 DEF Shape
    <2>2. RespondsFirst(j)
      BY <1>1, <1>10, <2>1, RequestKept
    <2>3. Answered(j)
      BY <1>12, <2>1, <2>2 DEF Correlated, Prompt, AtFirst
    <2> QED BY <1>1, <1>10, <2>1, <2>3, RequestKept
  <1>14. NoGap(n)'
    <2>1. rspLog'[n].for = k
      BY <1>3, <1>8
    <2> QED BY <1>13, <2>1 DEF NoGap
  <1>15. Prompt'
    <2> SUFFICES ASSUME NEW j \in 1..reqRead, RespondsFirst(j)' PROVE Answered(j)'
      BY <1>2 DEF Prompt
    <2>1. CASE j = k
      BY <1>3, <1>8, <2>1 DEF Answered
    <2>2. CASE j # k
      BY <1>1, <1>3, <1>13, <2>2 DEF Shape
    <2> QED BY <2>1, <2>2
  <1>16. Answers(n)'
    <2>1. rspLog'[n].for = k /\ rspLog'[n].id = reqLog'[k].id
      BY <1>2, <1>3, <1>4, <1>8
    <2>2. StatusOf(rspLog'[n].code) = Script(k)[step + 1].status
      BY <1>4, <1>8, StatusRoundTrip DEF HandlerStep
    <2>3. k \in 1..reqRead' /\ Receivable(reqLog'[k])
      BY <1>2, <1>3, <1>7
    <2>4. \E s \in DOMAIN Script(k)' : /\ Script(k)'[s].op = "respond"
                                        /\ StatusOf(rspLog'[n].code) = Script(k)'[s].status
      BY <1>4, <1>5, <2>2 DEF AtStep
    <2> QED BY <2>1, <2>2, <2>3, <2>4 DEF Answers, BxpResponseOf
  <1>17. \A i, j \in DOMAIN rspLog' : i < j => rspLog'[i].for < rspLog'[j].for
    <2>1. \A i \in DOMAIN rspLog : rspLog[i].for < k
      <3> SUFFICES ASSUME NEW i \in DOMAIN rspLog PROVE rspLog[i].for < k
        OBVIOUS
      <3>1. rspLog[i].for \in 1..reqRead
        BY <1>1 DEF ResponsesMatchRequests, Answers
      <3>2. rspLog[i].for # k
        BY <1>7 DEF Answered
      <3> QED BY <1>1, <1>3, <3>1, <3>2 DEF Shape
    <2>2. \A i, j \in DOMAIN rspLog : i < j => rspLog[i].for < rspLog[j].for
      BY <1>1 DEF ResponsesMatchRequests
    <2> HIDE DEF r
    <2>3. rspLog'[n].for = k
      BY <1>3, <1>8 DEF r
    <2>4. DOMAIN rspLog \subseteq Nat
      BY <1>1 DEF Shape
    <2> QED BY <1>8, <2>1, <2>2, <2>3, <2>4
  <1>18. ResponsesMatchRequests'
    BY <1>8, <1>16, <1>17, <1>11, <1>14 DEF ResponsesMatchRequests
  <1> QED BY <1>1, <1>9, <1>15, <1>18 DEF Correlated

(***************************************************************************)
(* A request is read, and handled from its first step or rejected.         *)
(***************************************************************************)
LEMMA ReceiveCorrelated ==
  ASSUME Correlated, ReceiveRequest \/ RejectRequest PROVE Correlated'
  <1>1. Shape /\ Shape' /\ Served /\ ResponsesMatchRequests
    BY NextShape DEF Correlated, Next, ServerNext
  <1>2. /\ UNCHANGED <<reqLog, rspLog>> /\ reqRead' = reqRead + 1 /\ reqRead \in Nat
        /\ ReceiveRequest => spc' = "handling" /\ step' = 0 /\ Receivable(reqLog[reqRead + 1])
        /\ RejectRequest => spc' \in {"waiting", "gone"} /\ ~Receivable(reqLog[reqRead + 1])
        /\ spc = "receiving" /\ (conn # "open" => conn' # "open")
    BY <1>1 DEF ReceiveRequest, RejectRequest, LeaveLoop, DropConnection, cvars, Shape
  <1>3. LogGrows /\ ResponsesGrow
    BY <1>1, <1>2 DEF LogGrows, ResponsesGrow, Shape
  <1>4. ResponsesMatchRequests'
    <2>1. \A i \in DOMAIN rspLog : Answers(i)' /\ NoGap(i)'
      BY <1>1, <1>2, <1>3, AnswersKept DEF ResponsesMatchRequests
    <2> QED BY <1>1, <1>2, <2>1 DEF ResponsesMatchRequests
  <1>5. Served'
    <2> SUFFICES ASSUME NEW k \in 1..(reqRead + 1), k = reqRead + 1, ReceiveRequest
                 PROVE  Receivable(reqLog[k])' /\ ~Answered(k)' /\ ~PassedRespond(k)'
      BY <1>2 DEF Served, Busy
    <2>1. ~Answered(k)'
      BY <1>1, <1>2 DEF Answered, ResponsesMatchRequests, Answers
    <2>2. Script(k)' \in Seq(HandlerStep)
      BY <1>2, ScriptKept, ScriptFacts
    <2>3. ~PassedRespond(k)'
      BY <1>2, <2>2 DEF PassedRespond
    <2> QED BY <1>2, <2>1, <2>3
  <1>6. Prompt'
    <2> SUFFICES ASSUME NEW k \in 1..(reqRead + 1), RespondsFirst(k)'
                 PROVE  Answered(k)' \/ conn' # "open" \/ AtFirst(k)'
      BY <1>2 DEF Prompt
    <2>1. CASE k = reqRead + 1
      BY <1>2, <2>1 DEF AtFirst, RespondsFirst
    <2>2. CASE k # reqRead + 1
      <3>1. k \in 1..reqRead
        BY <1>2, <2>2
      <3>2. RespondsFirst(k)
        BY <1>1, <1>3, <3>1, RequestKept
      <3> QED BY <1>1, <1>2, <1>3, <3>1, <3>2, RequestKept DEF Correlated, Prompt, AtFirst
    <2> QED BY <2>1, <2>2
  <1> QED BY <1>1, <1>4, <1>5, <1>6 DEF Correlated

LEMMA InitCorrelated == Init => Correlated
  BY InitShape DEF Init, Correlated, Served, Prompt, Busy, ResponsesMatchRequests

LEMMA NextCorrelated == Correlated /\ [Next]_vars => Correlated'
  BY ClientCorrelated, TaskQuiet, TransferCorrelated, RespondCorrelated, ReceiveCorrelated
     DEF Next, ServerNext, HandlerNext

(***************************************************************************)
(* Every response answers a request that was read, under its id and with a *)
(* status of its own handler; responses come in the order of the requests, *)
(* never two for one, and skip none whose handler responds first.          *)
(***************************************************************************)
THEOREM ResponsesMatch == Spec => []ResponsesMatchRequests
  <1>1. Correlated => ResponsesMatchRequests
    BY DEF Correlated
  <1> QED BY <1>1, InitCorrelated, NextCorrelated, PTL DEF Spec
-------------------------------------------------------------------------------
(***************************************************************************)
(* Transfers. A payload that is being written has its stream, the newest,  *)
(* still open; each of the three ways out of "streaming" ends it.          *)
(***************************************************************************)
LEMMA DownloadIsOpen ==
  ASSUME Shape, StreamDownload \/ FinishDownload \/ DownloadErr \/ SourceNext
  PROVE  Len(down) \in DOMAIN down /\ ~Down!Ended(down[Len(down)])
  <1>1. Len(down) \in DOMAIN down
    BY DEF StreamDownload, FinishDownload, DownloadErr, SourceNext, DownloadSourceAnswers,
           DownloadSourceFails, Shape, DownP!StreamsOK
  <1> QED BY <1>1 DEF StreamDownload, FinishDownload, DownloadErr, SourceNext,
                      DownloadSourceAnswers, DownloadSourceFails, Down!WritePreamble,
                      Down!CopyChunk, Down!Finish, Down!WriteFails, Down!Abandon,
                      Down!SourceAnswers, Down!AwaitsSource, Down!Ended

LEMMA TransferEnds ==
  ASSUME Shape, FinishDownload \/ DownloadErr \/ DownloadSourceFails
  PROVE  down'[Len(down)].tx # "open"
  <1>1. Len(down) \in DOMAIN down
    BY DEF FinishDownload, DownloadErr, DownloadSourceFails, Shape, DownP!StreamsOK
  <1>2. down[Len(down)] \in DownP!Stream
    BY <1>1 DEF Shape, DownP!StreamsOK
  <1> QED BY <1>1, <1>2 DEF FinishDownload, DownloadErr, DownloadSourceFails, Down!Finish,
                            Down!WriteFails, Down!Abandon, DownP!Stream

LEMMA TransferStep == Shape /\ OneTransferAtATime /\ [Next]_vars => OneTransferAtATime'
  <1> SUFFICES ASSUME Shape, OneTransferAtATime, [Next]_vars PROVE OneTransferAtATime'
    OBVIOUS
  <1>1. CASE ClientNext \/ LoseConnection \/ UNCHANGED vars
    <2>1. UNCHANGED svars /\ LogGrows /\ DownKept
      BY <1>1, ClientEffect
    <2>2. spc = "streaming" => CurrentId' = CurrentId
      BY <2>1 DEF svars, LogGrows, CurrentId, Shape, Busy
    <2> QED BY <2>1, <2>2 DEF OneTransferAtATime, DownKept, svars
  <1>2. CASE \/ Accept \/ AcceptFails \/ ReceiveRequest \/ RejectRequest \/ ReceiveFails
             \/ SendResponse \/ HandlerOk \/ HandlerErr \/ WaitForClose
    <2>1. spc # "streaming" /\ down' = down
      BY <1>2 DEF Accept, AcceptFails, ReceiveRequest, RejectRequest, ReceiveFails,
                  SendResponse, HandlerOk, HandlerErr, WaitForClose, StepIs
    <2> QED BY <2>1 DEF OneTransferAtATime
  <1>3. CASE AcceptUpload \/ PullUpload \/ FinishUpload \/ UploadErr
    <2>1. spc # "streaming" /\ down' = down
      BY <1>3, UploadEffect DEF AcceptUpload, PullUpload, FinishUpload, UploadErr, StepIs
    <2> QED BY <2>1 DEF OneTransferAtATime
  <1>4. CASE OpenDownload
    <2>1. spc = "handling" /\ spc' = "streaming"
      BY <1>4 DEF OpenDownload, StepIs
    <2>2. CurrentId' = CurrentId
      BY <1>4, OpenEffect DEF CurrentId
    <2> QED BY <1>4, <2>1, <2>2, OpenEffect DEF OneTransferAtATime
  <1>5. CASE StreamDownload \/ DownloadSourceAnswers
    <2>1. StreamDownload \/ SourceNext
      BY <1>5 DEF SourceNext
    <2>2. spc' = spc /\ CurrentId' = CurrentId /\ spc = "streaming"
      BY <1>5, <2>1, DownloadEffect DEF StreamDownload, DownloadSourceAnswers, svars, CurrentId
    <2>3. Len(down) \in DOMAIN down /\ down[Len(down)].tx = "open"
      BY <2>1, DownloadIsOpen DEF Down!Ended
    <2>4. \A d \in DOMAIN down' : down'[d].tx = "open" => d = Len(down)
      BY <2>1, DownloadEffect DEF OneTransferAtATime
    <2> QED BY <2>1, <2>2, <2>3, <2>4, DownloadEffect DEF OneTransferAtATime
  <1>6. CASE FinishDownload \/ DownloadErr \/ DownloadSourceFails
    <2>1. FinishDownload \/ DownloadErr \/ SourceNext
      BY <1>6 DEF SourceNext
    <2> QED BY <1>6, <2>1, DownloadEffect, TransferEnds DEF OneTransferAtATime
  <1> QED BY <1>1, <1>2, <1>3, <1>4, <1>5, <1>6 DEF Next, ServerNext, HandlerNext, SourceNext

(***************************************************************************)
(* No handler, however it ends, leaves a stream open behind it; a payload  *)
(* under way is the newest stream and carries the running request's id.    *)
(***************************************************************************)
THEOREM OneTransfer == Spec => []OneTransferAtATime
  <1>1. Init => OneTransferAtATime
    BY DEF Init, OneTransferAtATime
  <1> QED BY <1>1, InitShape, NextShape, TransferStep, PTL DEF Spec
-------------------------------------------------------------------------------
(***************************************************************************)
(* Hanging up. While a payload is written its stream is open; so none is   *)
(* written once the server has closed the connection.                      *)
(***************************************************************************)
LEMMA HangUpStep ==
  Shape /\ OneTransferAtATime /\ HangsUpOnRefusalOnly /\ [Next]_vars => HangsUpOnRefusalOnly'
  <1> SUFFICES ASSUME Shape, OneTransferAtATime, HangsUpOnRefusalOnly, [Next]_vars,
                      conn' = "server_closed"
               PROVE  /\ "drop" \in Endings
                      /\ \E k \in 1..reqRead' : ~Receivable(reqLog'[k])
                      /\ \A d \in DOMAIN down' : Down!Ended(down'[d])
    BY DEF HangsUpOnRefusalOnly
  <1>0. reqRead \in Nat /\ 1..reqRead \subseteq DOMAIN reqLog
    BY DEF Shape
  <1>1. CASE ClientNext \/ LoseConnection \/ UNCHANGED vars
    BY <1>0, <1>1, ClientEffect DEF HangsUpOnRefusalOnly, DownKept, LogGrows, svars, Down!Ended
  <1>2. CASE OpenDownload
    BY <1>2 DEF OpenDownload, Down!OpenUni
  <1>3. CASE StreamDownload \/ FinishDownload \/ DownloadErr \/ SourceNext
    BY <1>3, DownloadEffect, DownloadIsOpen DEF HangsUpOnRefusalOnly
  <1>4. CASE AcceptUpload \/ PullUpload \/ FinishUpload \/ UploadErr
    BY <1>4, UploadEffect DEF HangsUpOnRefusalOnly
  <1>5. CASE RejectRequest
    <2>1. /\ reqRead' = reqRead + 1 /\ UNCHANGED <<reqLog, down>>
          /\ ~Receivable(reqLog[reqRead + 1]) /\ spc = "receiving"
      BY <1>5 DEF RejectRequest, cvars
    <2>2. "drop" \in Endings \/ conn = "server_closed"
      BY <1>5 DEF RejectRequest, LeaveLoop
    <2>3. \A d \in DOMAIN down : Down!Ended(down[d])
      BY <2>1 DEF OneTransferAtATime, Down!Ended
    <2> QED BY <1>0, <2>1, <2>2, <2>3 DEF HangsUpOnRefusalOnly
  <1>6. CASE \/ Accept \/ AcceptFails \/ ReceiveRequest \/ ReceiveFails \/ SendResponse
             \/ HandlerOk \/ HandlerErr \/ WaitForClose
    <2>1. conn = "server_closed"
      BY <1>6 DEF Accept, AcceptFails, ReceiveRequest, ReceiveFails, SendResponse, HandlerOk,
                  HandlerErr, WaitForClose, LeaveLoop, DropConnection
    <2>2. UNCHANGED <<reqLog, down>> /\ reqRead' \in {reqRead, reqRead + 1}
      BY <1>6 DEF Accept, AcceptFails, ReceiveRequest, ReceiveFails, SendResponse, HandlerOk,
                  HandlerErr, WaitForClose, cvars
    <2> QED BY <1>0, <2>1, <2>2 DEF HangsUpOnRefusalOnly
  <1> QED BY <1>1, <1>2, <1>3, <1>4, <1>5, <1>6 DEF Next, ServerNext, HandlerNext

(***************************************************************************)
(* The server ends the connection only behind a frame it refused, in a     *)
(* task without wait_for_close(), and with no payload under way; never for *)
(* a handler or a stream that failed.                                      *)
(***************************************************************************)
THEOREM HangsUpOnRefusal == Spec => []HangsUpOnRefusalOnly
  <1>1. Init => OneTransferAtATime /\ HangsUpOnRefusalOnly
    BY DEF Init, OneTransferAtATime, HangsUpOnRefusalOnly
  <1> QED BY <1>1, InitShape, NextShape, TransferStep, HangUpStep, PTL DEF Spec
-------------------------------------------------------------------------------
(***************************************************************************)
(* Streams follow responses. The i-th response vouches for a stream with   *)
(* id r, and goes on doing so while the logs grow.                         *)
(***************************************************************************)
Vouches(i, r) ==
  /\ rspLog[i].id = r
  /\ Routed(Routes, BxpRequestOf(reqLog[rspLog[i].for]).action,
                    BxpRequestOf(reqLog[rspLog[i].for]).uri)
  /\ \E s \in DOMAIN Script(rspLog[i].for) : Script(rspLog[i].for)[s].op = "send_data"

Vouched(r) == \E i \in DOMAIN rspLog : Vouches(i, r)

LEMMA VouchedKept ==
  ASSUME Correlated, LogGrows, ResponsesGrow, NEW r, Vouched(r)
  PROVE  Vouched(r)'
  <1>1. PICK i \in DOMAIN rspLog : Vouches(i, r)
    BY DEF Vouched
  <1> DEFINE k == rspLog[i].for
  <1>2. k \in DOMAIN reqLog
    BY DEF Correlated, ResponsesMatchRequests, Answers, Shape
  <1>3. reqLog'[k] = reqLog[k] /\ i \in DOMAIN rspLog' /\ rspLog'[i] = rspLog[i]
    BY <1>2 DEF LogGrows, ResponsesGrow
  <1>4. Dispatch(Routes, BxpRequestOf(reqLog'[k])) = Dispatch(Routes, BxpRequestOf(reqLog[k]))
    BY <1>3
  <1> QED BY <1>1, <1>3, <1>4 DEF Vouched, Vouches, Script

LEMMA LogsGrow == ASSUME Shape, [Next]_vars PROVE LogGrows /\ ResponsesGrow
  <1>0. reqLog \in Seq(Requests) /\ rspLog \in Seq(Response)
    BY DEF Shape
  <1>1. CASE ClientNext \/ LoseConnection \/ UNCHANGED vars
    BY <1>1, ClientEffect DEF svars, ResponsesGrow
  <1>2. ASSUME UNCHANGED <<reqLog, rspLog>> PROVE LogGrows /\ ResponsesGrow
    BY <1>0, <1>2 DEF LogGrows, ResponsesGrow
  <1>3. CASE \/ OpenDownload \/ StreamDownload \/ FinishDownload \/ DownloadErr
             \/ SourceNext \/ AcceptUpload \/ PullUpload \/ FinishUpload \/ UploadErr
    BY <1>2, <1>3, OpenEffect, DownloadEffect, UploadEffect
  <1>4. CASE \/ Accept \/ AcceptFails \/ ReceiveRequest \/ RejectRequest \/ ReceiveFails
             \/ HandlerOk \/ HandlerErr \/ WaitForClose
    BY <1>2, <1>4 DEF Accept, AcceptFails, ReceiveRequest, RejectRequest, ReceiveFails,
                      HandlerOk, HandlerErr, WaitForClose, cvars
  <1>5. CASE SendResponse
    BY <1>0, <1>5 DEF SendResponse, cvars, LogGrows, ResponsesGrow
  <1> QED BY <1>1, <1>3, <1>4, <1>5 DEF Next, ServerNext, HandlerNext

(***************************************************************************)
(* A handler at a send_data step has responded: the request it serves is   *)
(* answered under its own id.                                              *)
(***************************************************************************)
LEMMA OpenVouched ==
  ASSUME Correlated, OpenDownload PROVE Vouched(CurrentId)
  <1>1. Shape /\ Served /\ ResponsesMatchRequests /\ spc = "handling"
    BY DEF Correlated, OpenDownload, StepIs
  <1>2. PICK k \in 1..reqRead : k = reqRead
    BY <1>1 DEF Shape, Busy
  <1>3. AtStep(k, "send_data") /\ CurrentId = reqLog[k].id
    BY <1>1, <1>2, CurrentStepIsHandlerStep DEF OpenDownload, AtStep, CurrentStep, CurrentId
  <1>4. PICK s \in 1..((step + 1) - 1) : Script(k)[s].op = "respond"
    BY <1>3, ScriptFacts DEF AtStep, RespondsBeforeData
  <1>5. PassedRespond(k)
    <2>1. Script(k) \in Seq(HandlerStep) /\ step \in Nat
      BY <1>1, ScriptFacts DEF Shape
    <2> QED BY <1>3, <1>4, <2>1 DEF PassedRespond, AtStep
  <1>6. PICK i \in DOMAIN rspLog : rspLog[i].for = k
    BY <1>1, <1>2, <1>5 DEF Served, Answered, Busy
  <1>7. rspLog[i].id = CurrentId
    BY <1>1, <1>3, <1>6 DEF ResponsesMatchRequests, Answers
  <1>8. Routed(Routes, BxpRequestOf(reqLog[k]).action, BxpRequestOf(reqLog[k]).uri)
    BY <1>3, ScriptFacts DEF AtStep
  <1>9. \E t \in DOMAIN Script(k) : Script(k)[t].op = "send_data"
    BY <1>3 DEF AtStep
  <1> QED BY <1>6, <1>7, <1>8, <1>9 DEF Vouched, Vouches

LEMMA FollowStep ==
  Correlated /\ StreamsFollowResponses /\ [Next]_vars => StreamsFollowResponses'
  <1> SUFFICES ASSUME Correlated, StreamsFollowResponses, [Next]_vars
               PROVE  StreamsFollowResponses'
    OBVIOUS
  <1>0. Shape /\ LogGrows /\ ResponsesGrow
    BY LogsGrow DEF Correlated
  <1>1. \A d \in DOMAIN down : Vouched(down[d].req)
    BY DEF StreamsFollowResponses, Vouched, Vouches
  <1>2. \A d \in DOMAIN down' : Vouched(down'[d].req)
    <2>1. CASE OpenDownload
      BY <1>0, <1>1, <2>1, OpenEffect, OpenVouched
    <2>2. ASSUME DOMAIN down' = DOMAIN down, \A d \in DOMAIN down : down'[d].req = down[d].req
          PROVE  \A d \in DOMAIN down' : Vouched(down'[d].req)
      BY <1>1, <2>2
    <2>3. CASE ClientNext \/ LoseConnection \/ UNCHANGED vars
      BY <1>0, <2>2, <2>3, ClientEffect DEF DownKept
    <2>4. CASE StreamDownload \/ FinishDownload \/ DownloadErr \/ SourceNext
      BY <1>0, <2>2, <2>4, DownloadEffect
    <2>5. CASE AcceptUpload \/ PullUpload \/ FinishUpload \/ UploadErr
      BY <1>0, <2>2, <2>5, UploadEffect
    <2>6. CASE \/ Accept \/ AcceptFails \/ ReceiveRequest \/ RejectRequest \/ ReceiveFails
               \/ SendResponse \/ HandlerOk \/ HandlerErr \/ WaitForClose
      BY <2>2, <2>6 DEF Accept, AcceptFails, ReceiveRequest, RejectRequest, ReceiveFails,
                        SendResponse, HandlerOk, HandlerErr, WaitForClose
    <2> QED BY <2>1, <2>3, <2>4, <2>5, <2>6 DEF Next, ServerNext, HandlerNext
  <1>3. \A r : Vouched(r) => Vouched(r)'
    BY <1>0, VouchedKept
  <1>4. (\A d \in DOMAIN down : Vouched(down[d].req))'
    BY <1>2, <1>3
  <1> QED BY <1>4 DEF StreamsFollowResponses, Vouched, Vouches

(***************************************************************************)
(* Every data stream to the client belongs to a request that was answered  *)
(* before and whose route sends data; an unroutable one never gets any.    *)
(***************************************************************************)
THEOREM StreamsFollow == Spec => []StreamsFollowResponses
  <1>1. Init => StreamsFollowResponses
    BY DEF Init, StreamsFollowResponses
  <1> QED BY <1>1, InitCorrelated, NextCorrelated, FollowStep, PTL DEF Spec
=============================================================================
