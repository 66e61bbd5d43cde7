----------------------------- MODULE BxpSession ------------------------------
(***************************************************************************)
(* A connection driven by a client program: a fixed sequence of awaited    *)
(* calls, as the tests and examples write them. Each call is followed by   *)
(* `?`, and some by an assertion on what it returned; the first that fails *)
(* ends the program. At its end the program closes the connection.         *)
(*                                                                         *)
(* The payload sources of these programs are cursors over memory. They do  *)
(* not fail, so the two SourceFails actions of BxpConnection are left out, *)
(* and they answer at once, so what they do is a step of the task that     *)
(* asks them, and as fair.                                                 *)
(***************************************************************************)
EXTENDS BxpConnection

(***************************************************************************)
(* A call of a program, with what the program asserts of its result.       *)
(***************************************************************************)
Call ==
  [op: {"send"}, frame: Requests]
    \cup [op: {"receive"}, expect: SUBSET BxpStatus, otherwise: {"panic", "skip"}]
    \cup [op: {"read_data"}, id: ReqIds]
    \cup [op: {"drain"}, expect: SUBSET (0..MaxChunks)]
    \cup [op: {"upload"}, id: ReqIds, size: 0..MaxChunks]

CONSTANT Programs  \* the client programs in play

ASSUME ProgramsAssumption == Programs \subseteq Seq(Call)
-------------------------------------------------------------------------------
(***************************************************************************)
(* When a program fits the routes of its server. This is read off the text *)
(* of the two, with nothing of a run in it: the k-th call of one kind is   *)
(* meant for the k-th of another, by Rank.                                 *)
(***************************************************************************)
Kind(p, op) == {i \in DOMAIN p : p[i].op = op}

UpTo(S, n) == {i \in S : i <= n}

Rank(S, n) == Cardinality(UpTo(S, n))

ScriptOf(f) == Dispatch(Routes, BxpRequestOf(f))

Steps(f, op) == {s \in DOMAIN ScriptOf(f) : ScriptOf(f)[s].op = op}

Asking(p, op) == {i \in Kind(p, "send") : Steps(p[i].frame, op) # {}}

(***************************************************************************)
(* A request that is taken, and whose handler responds, has no error of    *)
(* its own and sends or reads at most one payload.                         *)
(***************************************************************************)
Servable(f) ==
  /\ Receivable(f)
  /\ Steps(f, "respond") # {}
  /\ Steps(f, "fail") = {}
  /\ \A s, t \in DOMAIN ScriptOf(f) : ScriptOf(f)[s].op = ScriptOf(f)[t].op => s = t

(***************************************************************************)
(* A received status is the one the handler of that request gives, or the  *)
(* program is prepared for another one.                                    *)
(***************************************************************************)
StatusesFit(p) ==
  \A i \in Kind(p, "send"), j \in Kind(p, "receive") :
    Rank(Kind(p, "send"), i) = Rank(Kind(p, "receive"), j) /\ p[j].otherwise # "skip"
      => \A s \in Steps(p[i].frame, "respond") : ScriptOf(p[i].frame)[s].status \in p[j].expect

(***************************************************************************)
(* The k-th stream that is read is labelled with the k-th request that     *)
(* asks for a payload.                                                     *)
(***************************************************************************)
DownloadsFit(p) ==
  \A i \in Asking(p, "send_data"), j \in Kind(p, "read_data") :
    Rank(Asking(p, "send_data"), i) = Rank(Kind(p, "read_data"), j) => p[i].frame.id = p[j].id

(***************************************************************************)
(* Each payload is drained before the next stream is read, and is as long  *)
(* as the handler sends it.                                                *)
(***************************************************************************)
DrainsFit(p) ==
  /\ \A j \in Kind(p, "drain") : Rank(Kind(p, "drain"), j) = Rank(Kind(p, "read_data"), j)
  /\ \A i \in Asking(p, "send_data"), j \in Kind(p, "drain") :
       Rank(Asking(p, "send_data"), i) = Rank(Kind(p, "drain"), j)
         => \A s \in Steps(p[i].frame, "send_data") : ScriptOf(p[i].frame)[s].size \in p[j].expect

(***************************************************************************)
(* The k-th upload is labelled with the k-th request whose handler reads   *)
(* one.                                                                    *)
(***************************************************************************)
UploadsFit(p) ==
  \A i \in Asking(p, "read_data"), j \in Kind(p, "upload") :
    Rank(Asking(p, "read_data"), i) = Rank(Kind(p, "upload"), j) => p[i].frame.id = p[j].id

Fits(p) ==
  /\ \A i \in Kind(p, "send") : Servable(p[i].frame)
  /\ StatusesFit(p) /\ DownloadsFit(p) /\ DrainsFit(p) /\ UploadsFit(p)

ASSUME ProgramsFit == \A p \in Programs : Fits(p)
-------------------------------------------------------------------------------

VARIABLES
  todo,    \* the calls the program has still to complete
  outcome  \* "running", then "ok", "err" (a `?` returned) or "panic" (an assertion)

pvars == <<todo, outcome>>
sessionVars == <<vars, pvars>>

SessionInit ==
  /\ Init
  /\ todo \in Programs
  /\ outcome = "running"
-------------------------------------------------------------------------------
Calls(op) == outcome = "running" /\ todo # <<>> /\ Head(todo).op = op

Awaits == UNCHANGED pvars

Returns == todo' = Tail(todo) /\ UNCHANGED outcome

Asserts(holds) ==
  IF holds THEN Returns ELSE outcome' = "panic" /\ UNCHANGED todo

Errs == outcome' = "err" /\ UNCHANGED todo

Skips == todo' = <<>> /\ UNCHANGED outcome

(***************************************************************************)
(* send_request(..).await?                                                 *)
(***************************************************************************)
ProgramSends == Calls("send") /\ SendRequest(Head(todo).frame) /\ Returns

(***************************************************************************)
(* receive_response().await?, then assert_eq!(response.status, ..), or an  *)
(* `if` around all that follows up to the close.                           *)
(***************************************************************************)
ProgramReceives ==
  /\ Calls("receive")
  /\ ReceiveResponse
  /\ LET expected == BxpResponseOf(rspRead + 1).status \in Head(todo).expect
     IN  IF Head(todo).otherwise = "skip" /\ ~expected THEN Skips ELSE Asserts(expected)

(***************************************************************************)
(* read_data_stream().await?, then assert_eq!(stream_req_id, ..).          *)
(***************************************************************************)
ProgramAcceptsStream == Calls("read_data") /\ AcceptDownload /\ Awaits

ProgramReadsStream ==
  /\ Calls("read_data")
  /\ ReadDataStream
  /\ \E i \in DOMAIN down :
       /\ down[i].rx = "accepted"
       /\ IF down'[i].rx = "live"
          THEN Asserts(down[i].req = Head(todo).id)
          ELSE Errs

(***************************************************************************)
(* tokio::io::copy(&mut network_stream, ..).await?, then the assertion on  *)
(* the bytes downloaded. It drains the newest stream read_data_stream gave.*)
(***************************************************************************)
ProgramDrains ==
  /\ Calls("drain")
  /\ ReadPayload
  /\ \E i \in DOMAIN down :
       /\ down'[i] # down[i]
       /\ IF down'[i].rx = "eof"
          THEN Asserts(down[i].got \in Head(todo).expect)
          ELSE Awaits

(***************************************************************************)
(* send_data_stream(..).await?                                             *)
(***************************************************************************)
ProgramUploads ==
  /\ Calls("upload")
  /\ \/ OpenUpload(Head(todo).id, Head(todo).size) /\ Awaits
     \/ (SendUpload \/ UploadSourceAnswers) /\ Awaits
     \/ SendDataStream /\ IF up'[Len(up)].tx = "ok" THEN Returns ELSE Errs

(***************************************************************************)
(* A call fails on a connection that ended; what had arrived may still be  *)
(* returned before. main returns the error and drops the connection.       *)
(***************************************************************************)
ProgramFails ==
  /\ outcome = "running" /\ todo # <<>>
  /\ cpc = "idle"
  /\ conn # "open"
  /\ Errs
  /\ UNCHANGED vars

(***************************************************************************)
(* close().await and the end of main, or the early end after an error.     *)
(***************************************************************************)
ProgramEnds ==
  /\ todo = <<>> \/ outcome # "running"
  /\ CloseClient
  /\ outcome' = IF outcome = "running" THEN "ok" ELSE outcome
  /\ UNCHANGED todo

ProgramNext ==
  \/ ProgramSends \/ ProgramReceives
  \/ ProgramAcceptsStream \/ ProgramReadsStream \/ ProgramDrains
  \/ ProgramUploads
  \/ ProgramFails \/ ProgramEnds

SessionServerNext == (ServerNext \/ DownloadSourceAnswers) /\ UNCHANGED pvars

SessionNext ==
  \/ ProgramNext
  \/ SessionServerNext
  \/ LoseConnection /\ UNCHANGED pvars

(***************************************************************************)
(* Both programs run on a tokio runtime that polls what is ready.          *)
(***************************************************************************)
SessionSpec ==
  /\ SessionInit /\ [][SessionNext]_sessionVars
  /\ WF_sessionVars(ProgramNext)
  /\ WF_sessionVars(SessionServerNext)
-------------------------------------------------------------------------------
SessionTypeOK ==
  /\ TypeOK
  /\ \E p \in Programs : \E n \in 0..Len(p) : todo = SubSeq(p, n + 1, Len(p))
  /\ outcome \in {"running", "ok", "err", "panic"}

(***************************************************************************)
(* What the tests assert, in every interleaving: the statuses in request   *)
(* order, the id in front of each payload, the payload whole. A program    *)
(* only ever fails because the path was lost under it.                     *)
(***************************************************************************)
AssertionsHold ==
  /\ outcome # "panic"
  /\ outcome = "err" => conn = "lost"

(***************************************************************************)
(* Every program runs to its end and closes; server and client never wait  *)
(* for each other for good.                                                *)
(***************************************************************************)
ProgramsComplete == <>(cpc = "closed")

(***************************************************************************)
(* The stream a handler reads as its upload is the one the client sent for *)
(* the request that handler serves, as long as the connection lasts.       *)
(* Nothing looks at the id: it holds because every upload has its handler  *)
(* and they come in the order of the requests.                             *)
(***************************************************************************)
UploadMatchesRequest ==
  \A i \in DOMAIN up :
    conn = "open" /\ spc = "pulling" /\ up[i].rx \in {"accepted", "live"}
      => up[i].req = CurrentId

(***************************************************************************)
(* README.md:21: data streams "blast raw binary payloads without blocking  *)
(* administrative traffic". So a request that was sent is answered as long *)
(* as the connection lasts, whatever payload is under way.                 *)
(***************************************************************************)
AdministrativeTrafficFlows ==
  \A k \in 1..MaxRequests :
    (Len(reqLog) >= k) ~> (conn # "open" \/ \E i \in DOMAIN rspLog : rspLog[i].for = k)
=============================================================================
