-------------------------- MODULE BxpServiceProofs ---------------------------
(***************************************************************************)
(* A connection implements the service of BxpService, for any requests,    *)
(* routes, handlers (that respond once and before they send data), windows *)
(* and endings of the serving task. What the steps do to the logs and the  *)
(* streams is proved in BxpConnectionProofs; here each step is shown to be *)
(* one of the service or none.                                             *)
(***************************************************************************)
EXTENDS BxpConnectionProofs, SequenceTheorems

Inv == Correlated /\ OneTransferAtATime /\ RejectedFrameIsLast

Quiet == UNCHANGED <<conn, reqLog, reqRead, rspLog, Payloads>>

(***************************************************************************)
(* The service and the connection read the protocol and the routes alike.  *)
(***************************************************************************)
LEMMA SameReading ==
  ASSUME NEW f
  PROVE  /\ Service!Receivable(f) <=> Receivable(f)
         /\ Service!Dispatch(Routes, Service!BxpRequestOf(f)) = Dispatch(Routes, BxpRequestOf(f))
BY DEF Service!Receivable, Receivable, Service!ActionInSchema, ActionInSchema,
       Service!Dispatch, Dispatch, Service!Routed, Routed, Service!Respond, Respond,
       Service!BxpRequestOf, BxpRequestOf, Service!ActionOf, ActionOf

LEMMA Kept ==
  ASSUME Quiet PROVE UNCHANGED Service!serviceVars
BY DEF Quiet, Service!serviceVars, Replies

LEMMA PayloadsKept == ASSUME UNCHANGED down PROVE UNCHANGED Payloads
BY DEF Payloads

(***************************************************************************)
(* A step of one stream shows in the payload of that stream only.          *)
(***************************************************************************)
LEMMA PayloadMoves ==
  ASSUME Shape, NEW i \in DOMAIN down, NEW e, down' = [down EXCEPT ![i] = e]
  PROVE  /\ Payloads' = [Payloads EXCEPT ![i] = PayloadOf(e)]
         /\ i \in DOMAIN Payloads /\ Payloads[i] = PayloadOf(down[i])
         /\ PayloadOf(e) = PayloadOf(down[i]) => Payloads' = Payloads
BY DEF Payloads, Shape, DownP!StreamsOK

LEMMA StreamFacts ==
  ASSUME Shape, NEW i \in DOMAIN down
  PROVE  down[i] \in DownP!Stream /\ DownP!Coherent(down[i])
BY DEF Shape, DownP!StreamsOK

LEMMA Transmits ==
  ASSUME Shape, NEW i \in DOMAIN down, Down!WritePreamble(i) \/ Down!SourceAnswers(i) \/ Down!CopyChunk(i)
  PROVE  UNCHANGED <<conn, Payloads>>
<1>1. CASE Down!WritePreamble(i)
  <2> DEFINE e == [down[i] EXCEPT !.pre = TRUE]
  <2>1. down' = [down EXCEPT ![i] = e] /\ conn' = conn
    BY <1>1 DEF Down!WritePreamble
  <2>2. PayloadOf(e) = PayloadOf(down[i])
    BY StreamFacts DEF PayloadOf, DownP!Stream
  <2> QED BY <2>1, <2>2, PayloadMoves
<1>2. CASE Down!CopyChunk(i)
  <2> DEFINE e == [down[i] EXCEPT !.sent = @ + 1, !.fed = FALSE]
  <2>1. down' = [down EXCEPT ![i] = e] /\ conn' = conn
    BY <1>2 DEF Down!CopyChunk
  <2>2. PayloadOf(e) = PayloadOf(down[i])
    BY StreamFacts DEF PayloadOf, DownP!Stream
  <2> QED BY <2>1, <2>2, PayloadMoves
<1>3. CASE Down!SourceAnswers(i)
  <2> DEFINE e == [down[i] EXCEPT !.fed = TRUE]
  <2>1. down' = [down EXCEPT ![i] = e] /\ conn' = conn
    BY <1>3 DEF Down!SourceAnswers
  <2>2. PayloadOf(e) = PayloadOf(down[i])
    BY StreamFacts DEF PayloadOf, DownP!Stream
  <2> QED BY <2>1, <2>2, PayloadMoves
<1> QED BY <1>1, <1>2, <1>3

LEMMA Ends ==
  ASSUME Shape, NEW i \in DOMAIN down, UNCHANGED <<reqLog, reqRead, rspLog>>
  PROVE  /\ Down!Finish(i) => Service!EndPayload(i, "ok")
         /\ Down!Abandon(i) => Service!EndPayload(i, "err")
<1>1. ASSUME NEW how \in {"ok", "err"}, down[i].tx = "open", conn' = conn,
             down' = [down EXCEPT ![i].tx = how, ![i].fin = (conn = "open")]
      PROVE  Service!EndPayload(i, how)
  <2> DEFINE e == [down[i] EXCEPT !.tx = how, !.fin = (conn = "open")]
  <2>1. down' = [down EXCEPT ![i] = e]
    BY <1>1
  <2>2. PayloadOf(e) = [PayloadOf(down[i]) EXCEPT !.sender = how]
    BY StreamFacts DEF PayloadOf, DownP!Stream
  <2>3. PayloadOf(down[i]).sender = "open"
    BY <1>1 DEF PayloadOf
  <2>4. Payloads' = [Payloads EXCEPT ![i] = PayloadOf(e)] /\ Payloads[i] = PayloadOf(down[i])
    BY <2>1, PayloadMoves
  <2>5. Payloads' = [Payloads EXCEPT ![i].sender = how] /\ Payloads[i].sender = "open"
    BY <2>2, <2>3, <2>4
  <2> QED BY <1>1, <2>5 DEF Service!EndPayload, Replies
<1>2. ASSUME Down!Finish(i) PROVE Service!EndPayload(i, "ok")
  BY <1>1, <1>2 DEF Down!Finish
<1>3. ASSUME Down!Abandon(i) PROVE Service!EndPayload(i, "err")
  BY <1>1, <1>3 DEF Down!Abandon
<1> QED BY <1>2, <1>3

(***************************************************************************)
(* A client that reads a payload to its end after the server's call        *)
(* returned Ok has all of it: this is where the data plane's invariant is  *)
(* used.                                                                   *)
(***************************************************************************)
LEMMA Receives ==
  ASSUME Shape, NEW i \in DOMAIN down, UNCHANGED <<reqLog, reqRead, rspLog>>,
         \/ Down!AcceptUni(i) \/ Down!ReadPreamble(i) \/ Down!PreambleMissing(i)
         \/ Down!ReadFails(i) \/ Down!ReadChunk(i) \/ Down!ReadEof(i) \/ Down!DropRecv(i)
  PROVE  \/ UNCHANGED <<conn, Payloads>>
         \/ \E what \in {"whole", "cut"} : Service!ReadToEnd(i, what)
         \/ Service!GiveUp(i)
<1>0. down[i] \in DownP!Stream /\ DownP!Coherent(down[i])
  BY StreamFacts
<1>1. CASE Down!AcceptUni(i)
  <2> DEFINE e == [down[i] EXCEPT !.rx = "accepted"]
  <2>1. down' = [down EXCEPT ![i] = e] /\ conn' = conn /\ down[i].rx = "unaccepted"
    BY <1>1 DEF Down!AcceptUni
  <2>2. PayloadOf(e) = PayloadOf(down[i])
    BY <1>0, <2>1 DEF PayloadOf, DownP!Stream
  <2> QED BY <2>1, <2>2, PayloadMoves
<1>2. CASE Down!ReadPreamble(i)
  <2> DEFINE e == [down[i] EXCEPT !.rx = "live"]
  <2>1. down' = [down EXCEPT ![i] = e] /\ conn' = conn /\ down[i].rx = "accepted"
    BY <1>2 DEF Down!ReadPreamble
  <2>2. PayloadOf(e) = PayloadOf(down[i])
    BY <1>0, <2>1 DEF PayloadOf, DownP!Stream
  <2> QED BY <2>1, <2>2, PayloadMoves
<1>3. CASE Down!ReadChunk(i)
  <2> DEFINE e == [down[i] EXCEPT !.got = @ + 1]
  <2>1. down' = [down EXCEPT ![i] = e] /\ conn' = conn /\ down[i].rx = "live"
    BY <1>3 DEF Down!ReadChunk
  <2>2. PayloadOf(e) = PayloadOf(down[i])
    BY <1>0, <2>1 DEF PayloadOf, DownP!Stream
  <2> QED BY <2>1, <2>2, PayloadMoves
<1>4. CASE Down!PreambleMissing(i) \/ Down!DropRecv(i) \/ Down!ReadFails(i)
  <2> DEFINE e == [down[i] EXCEPT !.rx = "dropped"]
  <2>1. /\ down' = [down EXCEPT ![i] = e] /\ conn' = conn
        /\ down[i].rx \in {"accepted", "live"}
    BY <1>4 DEF Down!PreambleMissing, Down!DropRecv, Down!ReadFails
  <2>2. PayloadOf(e) = [PayloadOf(down[i]) EXCEPT !.receiver = "lost"]
    BY <1>0 DEF PayloadOf, DownP!Stream
  <2>3. PayloadOf(down[i]).receiver = "coming"
    BY <2>1 DEF PayloadOf
  <2>4. Payloads' = [Payloads EXCEPT ![i] = PayloadOf(e)] /\ Payloads[i] = PayloadOf(down[i])
    BY <2>1, PayloadMoves
  <2>5. Payloads' = [Payloads EXCEPT ![i].receiver = "lost"] /\ Payloads[i].receiver = "coming"
    BY <2>2, <2>3, <2>4
  <2> QED BY <2>1, <2>5 DEF Service!GiveUp, Replies
<1>5. CASE Down!ReadEof(i)
  <2> DEFINE e == [down[i] EXCEPT !.rx = "eof"]
             what == IF down[i].got = down[i].size THEN "whole" ELSE "cut"
  <2>1. /\ down' = [down EXCEPT ![i] = e] /\ conn' = conn
        /\ down[i].rx = "live" /\ down[i].fin /\ down[i].got = down[i].sent
    BY <1>5 DEF Down!ReadEof
  <2>2. PayloadOf(e) = [PayloadOf(down[i]) EXCEPT !.receiver = what]
    BY <1>0 DEF PayloadOf, DownP!Stream
  <2>3. PayloadOf(down[i]).receiver = "coming" /\ PayloadOf(down[i]).sender = down[i].tx
    BY <2>1 DEF PayloadOf
  <2>4. down[i].tx # "open" /\ (down[i].tx = "ok" => what = "whole")
    BY <1>0, <2>1 DEF DownP!Coherent
  <2>5. Payloads' = [Payloads EXCEPT ![i] = PayloadOf(e)] /\ Payloads[i] = PayloadOf(down[i])
    BY <2>1, PayloadMoves
  <2> HIDE DEF what
  <2>6. /\ Payloads' = [Payloads EXCEPT ![i].receiver = what]
        /\ Payloads[i].receiver = "coming" /\ Payloads[i].sender = down[i].tx
    BY <2>2, <2>3, <2>5
  <2>7. Service!ReadToEnd(i, what) /\ what \in {"whole", "cut"}
    BY <2>1, <2>4, <2>6 DEF Service!ReadToEnd, Replies, what
  <2> QED BY <2>7
<1> QED BY <1>1, <1>2, <1>3, <1>4, <1>5

(***************************************************************************)
(* A payload is sent, in the eyes of the service, while the task is        *)
(* "streaming".                                                            *)
(***************************************************************************)
LEMMA NothingSending ==
  ASSUME Inv, spc # "streaming" PROVE ~Service!Sending
BY DEF Inv, OneTransferAtATime, Service!Sending, Payloads, PayloadOf

LEMMA DomainPayloads == DOMAIN Payloads = DOMAIN down
BY DEF Payloads
-------------------------------------------------------------------------------
ServiceStep == Service!Next \/ UNCHANGED Service!serviceVars

LEMMA MoreDelivered ==
  ASSUME Shape, NEW i \in DOMAIN down, UNCHANGED <<reqLog, reqRead, rspLog>>,
         \/ Down!AcceptUni(i) \/ Down!ReadPreamble(i) \/ Down!PreambleMissing(i)
         \/ Down!ReadFails(i) \/ Down!ReadChunk(i) \/ Down!ReadEof(i) \/ Down!DropRecv(i)
  PROVE  ServiceStep
<1>1. CASE UNCHANGED <<conn, Payloads>>
  BY <1>1, Kept DEF Quiet, ServiceStep
<1>2. CASE (\E what \in {"whole", "cut"} : Service!ReadToEnd(i, what)) \/ Service!GiveUp(i)
  BY <1>2, DomainPayloads DEF Service!Next, ServiceStep
<1> QED BY <1>1, <1>2, Receives

LEMMA TransferOver ==
  ASSUME Shape, NEW i \in DOMAIN down, UNCHANGED <<reqLog, reqRead, rspLog>>,
         Down!Finish(i) \/ Down!Abandon(i)
  PROVE  ServiceStep
BY Ends, DomainPayloads DEF Service!Next, ServiceStep

LEMMA ConnectionEnds ==
  ASSUME UNCHANGED <<reqLog, reqRead, rspLog, down>>, conn' = conn \/ conn' # "open"
  PROVE  ServiceStep
<1>1. CASE conn' = conn
  BY <1>1, Kept, PayloadsKept DEF Quiet, ServiceStep
<1>2. CASE conn' # "open"
  BY <1>2, PayloadsKept DEF Service!End, Service!Next, ServiceStep, Replies
<1> QED BY <1>1, <1>2

LEMMA ClientService == ASSUME Inv, ClientNext \/ LoseConnection PROVE ServiceStep
<1>0. Shape
  BY DEF Inv, Correlated
<1>1. ASSUME NEW f \in Requests, SendRequest(f) PROVE ServiceStep
  <2>1. Service!Ask(f)
    BY <1>1, PayloadsKept DEF SendRequest, svars, Service!Ask, Replies
  <2> QED BY <2>1 DEF Service!Next, ServiceStep
<1>2. CASE AcceptDownload \/ ReadDataStream \/ ReadPayload \/ DropPayload
  <2>1. UNCHANGED <<reqLog, reqRead, rspLog>>
    BY <1>2 DEF AcceptDownload, ReadDataStream, ReadPayload, DropPayload, cvars, svars
  <2> QED BY <1>0, <1>2, <2>1, MoreDelivered
          DEF AcceptDownload, ReadDataStream, ReadPayload, DropPayload
<1>3. ASSUME NEW id \in ReqIds, NEW n \in 0..MaxChunks, OpenUpload(id, n) PROVE ServiceStep
  <2>1. UNCHANGED <<reqLog, reqRead, rspLog, down, conn>>
    BY <1>3 DEF OpenUpload, Up!OpenUni, svars
  <2> QED BY <2>1, ConnectionEnds
<1>4. CASE SendUpload \/ UploadSourceAnswers \/ SendDataStream \/ UploadSourceFails
  <2>1. UNCHANGED <<reqLog, reqRead, rspLog, down, conn>>
    BY <1>4 DEF SendUpload, UploadSourceAnswers, SendDataStream, UploadSourceFails, cvars, svars,
                Up!WritePreamble, Up!SourceAnswers, Up!CopyChunk, Up!Finish, Up!WriteFails, Up!Abandon
  <2> QED BY <2>1, ConnectionEnds
<1>5. CASE ReceiveResponse \/ CloseClient \/ LoseConnection
  <2>1. UNCHANGED <<reqLog, reqRead, rspLog, down>> /\ (conn' = conn \/ conn' # "open")
    BY <1>5 DEF ReceiveResponse, CloseClient, LoseConnection, cvars, svars
  <2> QED BY <2>1, ConnectionEnds
<1> QED BY <1>1, <1>2, <1>3, <1>4, <1>5 DEF ClientNext

LEMMA TaskService ==
  ASSUME Inv,
         \/ Accept \/ AcceptFails \/ ReceiveFails \/ WaitForClose \/ HandlerOk \/ HandlerErr
         \/ AcceptUpload \/ PullUpload \/ FinishUpload \/ UploadErr
         \/ StreamDownload \/ FinishDownload \/ DownloadErr \/ SourceNext
  PROVE  ServiceStep
<1>0. Shape
  BY DEF Inv, Correlated
<1>1. CASE Accept \/ AcceptFails \/ ReceiveFails \/ WaitForClose \/ HandlerOk \/ HandlerErr
  <2>1. UNCHANGED <<reqLog, reqRead, rspLog, down>> /\ (conn' = conn \/ conn' # "open")
    BY <1>1 DEF Accept, AcceptFails, ReceiveFails, WaitForClose, HandlerOk, HandlerErr,
                LeaveLoop, DropConnection, cvars
  <2> QED BY <2>1, ConnectionEnds
<1>2. CASE AcceptUpload \/ PullUpload \/ FinishUpload \/ UploadErr
  BY <1>0, <1>2, UploadEffect, ConnectionEnds
<1>3. CASE StreamDownload \/ FinishDownload \/ DownloadErr \/ SourceNext
  <2>1. Len(down) \in DOMAIN down /\ UNCHANGED <<reqLog, reqRead, rspLog>>
    BY <1>0, <1>3, DownloadEffect, DownloadIsOpen
  <2>2. CASE StreamDownload \/ DownloadSourceAnswers
    <3>1. UNCHANGED <<conn, Payloads>>
      BY <1>0, <2>1, <2>2, Transmits DEF StreamDownload, DownloadSourceAnswers
    <3> QED BY <2>1, <3>1, Kept DEF Quiet, ServiceStep
  <2>3. CASE FinishDownload \/ DownloadErr \/ DownloadSourceFails
    BY <1>0, <2>1, <2>3, TransferOver
       DEF FinishDownload, DownloadErr, DownloadSourceFails, Down!WriteFails
  <2> QED BY <1>3, <2>2, <2>3 DEF SourceNext
<1> QED BY <1>1, <1>2, <1>3

LEMMA ReceiveService == ASSUME Inv, ReceiveRequest \/ RejectRequest PROVE ServiceStep
<1>0. Shape /\ RejectedFrameIsLast /\ spc = "receiving"
  BY DEF Inv, Correlated, ReceiveRequest, RejectRequest
<1>1. /\ reqRead < Len(reqLog) /\ reqRead' = reqRead + 1 /\ UNCHANGED <<reqLog, rspLog, down>>
      /\ reqRead > 0 => Receivable(reqLog[reqRead])
  BY <1>0 DEF ReceiveRequest, RejectRequest, RejectedFrameIsLast, Shape, cvars
<1>2. Service!Proceeds
  BY <1>0, <1>1, NothingSending, PayloadsKept, SameReading
     DEF Service!Proceeds, Service!Current, Replies
<1>3. ReceiveRequest => Service!Take
  BY <1>2, SameReading DEF ReceiveRequest, Service!Take
<1>4. ASSUME RejectRequest PROVE Service!Refuse
  <2>1. conn' = conn \/ conn' # "open"
    BY <1>4 DEF RejectRequest, LeaveLoop, DropConnection
  <2>2. (conn # "open")' \in {conn # "open", TRUE}
    BY <2>1
  <2>3. ~Service!Receivable(reqLog[reqRead + 1])
    BY <1>4, SameReading DEF RejectRequest
  <2> QED BY <1>2, <2>2, <2>3 DEF Service!Refuse
<1> QED BY <1>3, <1>4 DEF Service!Next, ServiceStep

(***************************************************************************)
(* A handler in front of a step: where it is in its script says whether    *)
(* its request is answered.                                                *)
(***************************************************************************)
LEMMA InFrontOf ==
  ASSUME Inv, NEW op, StepIs(op)
  PROVE  /\ Shape /\ reqRead \in 1..reqRead /\ reqRead > 0 /\ spc # "streaming"
         /\ Receivable(reqLog[reqRead]) /\ CurrentId = reqLog[reqRead].id
         /\ AtStep(reqRead, op) /\ CurrentStep = Script(reqRead)[step + 1]
         /\ CurrentStep \in HandlerStep
         /\ op = "respond" => ~Answered(reqRead)
         /\ op = "send_data" => Answered(reqRead)
<1>1. Shape /\ Served /\ spc = "handling" /\ Busy
  BY DEF Inv, Correlated, StepIs, Busy
<1>2. reqRead \in 1..reqRead /\ reqRead > 0
  BY <1>1 DEF Shape
<1>3. /\ AtStep(reqRead, op) /\ CurrentStep = Script(reqRead)[step + 1]
      /\ CurrentStep \in HandlerStep /\ CurrentId = reqLog[reqRead].id
  BY <1>1, CurrentStepIsHandlerStep DEF AtStep, CurrentStep, CurrentId
<1>4. Receivable(reqLog[reqRead]) /\ (Answered(reqRead) <=> PassedRespond(reqRead))
  BY <1>1, <1>2 DEF Served
<1>5. /\ Script(reqRead) \in Seq(HandlerStep) /\ step \in Nat
      /\ RespondsOnce(Script(reqRead)) /\ RespondsBeforeData(Script(reqRead))
  BY <1>1, ScriptFacts DEF Shape
<1>6. op = "respond" => ~PassedRespond(reqRead)
  BY <1>3, <1>5 DEF PassedRespond, AtStep, RespondsOnce
<1>7. op = "send_data" => PassedRespond(reqRead)
  <2> SUFFICES ASSUME op = "send_data" PROVE PassedRespond(reqRead)
    OBVIOUS
  <2>1. PICK s \in 1..((step + 1) - 1) : Script(reqRead)[s].op = "respond"
    BY <1>3, <1>5 DEF AtStep, RespondsBeforeData
  <2> QED BY <1>3, <1>5, <2>1 DEF PassedRespond, AtStep
<1> QED BY <1>1, <1>2, <1>3, <1>4, <1>6, <1>7

(***************************************************************************)
(* What the service calls the steps of a request, and whether it is        *)
(* answered.                                                               *)
(***************************************************************************)
LEMMA ServiceReading ==
  /\ Service!Steps = Script(reqRead)
  /\ Service!Answered <=> Answered(reqRead)
BY SameReading DEF Service!Steps, Service!Current, Script, Service!Answered, Answered,
                   Replies, ReplyOf

LEMMA MapAppend ==
  ASSUME NEW S, NEW q \in Seq(S), NEW e \in S, NEW f, NEW g, NEW x,
         f = [i \in DOMAIN q |-> x[q[i]]],
         g = [i \in DOMAIN Append(q, e) |-> x[Append(q, e)[i]]]
  PROVE  g = Append(f, x[e])
<1> DEFINE T == {x[s] : s \in S}
<1>1. f \in Seq(T) /\ Len(f) = Len(q) /\ x[e] \in T
  OBVIOUS
<1>2. g \in Seq(T) /\ Len(g) = Len(q) + 1
  OBVIOUS
<1> HIDE DEF T
<1>3. Append(f, x[e]) \in Seq(T) /\ Len(Append(f, x[e])) = Len(q) + 1
  BY <1>1
<1>4. \A i \in 1..Len(g) : g[i] = Append(f, x[e])[i]
  BY <1>1, <1>2
<1> QED BY <1>2, <1>3, <1>4, SeqEqual

LEMMA RepliesGrow ==
  ASSUME Shape, NEW r \in Response, rspLog' = Append(rspLog, r)
  PROVE  Replies' = Append(Replies, ReplyOf(r))
<1> DEFINE x == [s \in Response |-> ReplyOf(s)]
<1>1. rspLog \in Seq(Response) /\ Append(rspLog, r) \in Seq(Response)
  BY DEF Shape
<1>2. Replies = [i \in DOMAIN rspLog |-> x[rspLog[i]]]
  BY <1>1 DEF Replies
<1>3. Replies' = [i \in DOMAIN Append(rspLog, r) |-> x[Append(rspLog, r)[i]]]
  BY <1>1 DEF Replies
<1>4. x[r] = ReplyOf(r)
  OBVIOUS
<1> HIDE DEF x
<1> QED BY <1>1, <1>2, <1>3, <1>4, MapAppend

LEMMA PayloadsGrow ==
  ASSUME Shape, NEW s \in DownP!Stream, down' = Append(down, s)
  PROVE  Payloads' = Append(Payloads, PayloadOf(s))
<1> DEFINE x == [t \in DownP!Stream |-> PayloadOf(t)]
<1>1. down \in Seq(DownP!Stream) /\ Append(down, s) \in Seq(DownP!Stream)
  BY DEF Shape, DownP!StreamsOK
<1>2. Payloads = [i \in DOMAIN down |-> x[down[i]]]
  BY <1>1 DEF Payloads
<1>3. Payloads' = [i \in DOMAIN Append(down, s) |-> x[Append(down, s)[i]]]
  BY <1>1 DEF Payloads
<1>4. x[s] = PayloadOf(s)
  OBVIOUS
<1> HIDE DEF x
<1> QED BY <1>1, <1>2, <1>3, <1>4, MapAppend

LEMMA RespondService == ASSUME Inv, SendResponse PROVE ServiceStep
<1> DEFINE r == [id |-> CurrentId, code |-> StatusCode[CurrentStep.status], for |-> reqRead]
<1>1. /\ Shape /\ reqRead \in 1..reqRead /\ reqRead > 0 /\ spc # "streaming"
      /\ Receivable(reqLog[reqRead]) /\ CurrentId = reqLog[reqRead].id
      /\ AtStep(reqRead, "respond") /\ CurrentStep = Script(reqRead)[step + 1]
      /\ CurrentStep \in HandlerStep /\ ~Answered(reqRead)
  BY InFrontOf DEF SendResponse
<1>2. CurrentStep.status \in BxpStatus /\ StatusCode[CurrentStep.status] \in 0..4
      /\ StatusOf(StatusCode[CurrentStep.status]) = CurrentStep.status
  BY <1>1, StatusRoundTrip DEF HandlerStep
<1>3. CurrentId \in ReqIds
  BY CurrentStepIsHandlerStep, <1>1 DEF SendResponse
<1>4. r \in Response
  BY <1>1, <1>2, <1>3 DEF Response, Shape
<1>5. rspLog' = Append(rspLog, r) /\ UNCHANGED <<conn, reqLog, reqRead, down>> /\ conn = "open"
  BY DEF SendResponse, cvars
<1>6. ReplyOf(r) = [to |-> reqRead, id |-> reqLog[reqRead].id, status |-> CurrentStep.status]
  BY <1>1, <1>2 DEF ReplyOf
<1> HIDE DEF r
<1>7. Replies' = Append(Replies, [to |-> reqRead, id |-> reqLog[reqRead].id,
                                  status |-> CurrentStep.status])
  BY <1>1, <1>4, <1>5, <1>6, RepliesGrow
<1>8. CurrentStep.status \in Service!Statuses
  BY <1>1, ServiceReading DEF Service!Statuses, AtStep
<1>9. Service!Answer(CurrentStep.status)
  BY <1>1, <1>5, <1>7, <1>8, PayloadsKept, NothingSending, ServiceReading, SameReading
     DEF Service!Answer, Service!Current
<1>10. CurrentStep.status \in Service!BxpStatus
  BY <1>2 DEF BxpStatus, Service!BxpStatus
<1> QED BY <1>9, <1>10 DEF Service!Next, ServiceStep

LEMMA OpenService == ASSUME Inv, OpenDownload PROVE ServiceStep
<1>1. /\ Shape /\ reqRead > 0 /\ spc # "streaming" /\ CurrentId = reqLog[reqRead].id
      /\ AtStep(reqRead, "send_data") /\ CurrentStep \in HandlerStep /\ Answered(reqRead)
  BY InFrontOf DEF OpenDownload
<1>2. CurrentStep.size \in 0..MaxChunks /\ CurrentId \in ReqIds
  BY CurrentStepIsHandlerStep, <1>1 DEF OpenDownload, HandlerStep
<1> DEFINE s == DownP!FreshStream(CurrentId, CurrentStep.size)
<1>3. s \in DownP!Stream
  BY <1>2, SizesAssumption DEF DownP!FreshStream, DownP!Stream
<1>4. PayloadOf(s) = [id |-> reqLog[reqRead].id, sender |-> "open", receiver |-> "coming"]
  BY <1>1 DEF PayloadOf, DownP!FreshStream
<1>5. down' = Append(down, s) /\ conn' = conn /\ conn = "open"
      /\ UNCHANGED <<reqLog, reqRead, rspLog>>
  BY DEF OpenDownload, Down!OpenUni, DownP!FreshStream, cvars
<1> HIDE DEF s
<1>6. Payloads' = Append(Payloads, [id |-> reqLog[reqRead].id, sender |-> "open",
                                    receiver |-> "coming"])
  BY <1>1, <1>3, <1>4, <1>5, PayloadsGrow
<1>7. Service!Ships
  BY <1>1, ServiceReading DEF Service!Ships, AtStep
<1>8. Service!BeginPayload
  BY <1>1, <1>5, <1>6, <1>7, NothingSending, ServiceReading
     DEF Service!BeginPayload, Service!Current, Replies
<1> QED BY <1>8 DEF Service!Next, ServiceStep
-------------------------------------------------------------------------------
LEMMA InitService == Init => Service!Init
<1> SUFFICES ASSUME Init PROVE Service!Init
  OBVIOUS
<1>1. rspLog = <<>> /\ down = <<>> /\ reqLog = <<>> /\ reqRead = 0 /\ conn = "open"
  BY DEF Init
<1>2. Replies = <<>> /\ Payloads = <<>>
  BY <1>1 DEF Replies, Payloads
<1> QED BY <1>1, <1>2 DEF Service!Init

LEMMA StepService == Inv /\ [Next]_vars => [Service!Next]_(Service!serviceVars)
<1> SUFFICES ASSUME Inv, [Next]_vars PROVE ServiceStep
  BY DEF ServiceStep
<1>1. CASE UNCHANGED vars
  BY <1>1, ConnectionEnds DEF vars
<1> QED
  BY <1>1, ClientService, TaskService, ReceiveService, RespondService, OpenService
     DEF Next, ServerNext, HandlerNext

LEMMA InvHolds == Spec => []Inv
<1>1. Init => Inv
  BY InitCorrelated DEF Init, Inv, OneTransferAtATime, RejectedFrameIsLast
<1>2. Inv /\ [Next]_vars => Inv'
  BY NextCorrelated, TransferStep, RejectStep DEF Inv, Correlated
<1> QED BY <1>1, <1>2, PTL DEF Spec

(***************************************************************************)
(* A connection implements its service: whatever the client calls, however *)
(* handlers and connections end, and however streams interleave.           *)
(***************************************************************************)
THEOREM Refinement == Spec => ImplementsService
BY InitService, StepService, InvHolds, PTL DEF Spec, ImplementsService, Service!Spec
=============================================================================
