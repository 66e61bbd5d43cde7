---------------------------- MODULE BxpDataPlane -----------------------------
(***************************************************************************)
(* The data plane of one direction of a connection: the unidirectional     *)
(* streams that send_data_stream opens on one side and read_data_stream    *)
(* returns on the other. client.rs and server.rs hold the same two         *)
(* functions, so one module serves both directions.                        *)
(*                                                                         *)
(* Streams are numbered in the order open_uni() created them. Several      *)
(* calls of either function may be in progress at once (both take &self),  *)
(* so every action belongs to one stream and they interleave freely.       *)
(*                                                                         *)
(* What the code takes from QUIC, through quinn:                           *)
(*   - accept_uni() hands streams out in the order they were opened, and a *)
(*     stream becomes known as soon as anything was sent on it or on any   *)
(*     later one;                                                          *)
(*   - bytes of one stream arrive in order and never duplicated, bytes of  *)
(*     different streams in any order; a receiver step that happens late   *)
(*     is a late packet;                                                   *)
(*   - a writer waits while Window chunks of its stream are unread         *)
(*     (stream_receive_window), open_uni() waits while MaxUni streams are  *)
(*     not yet read to their end (max_concurrent_uni_streams);             *)
(*   - dropping a SendStream finishes it, so a call that fails after       *)
(*     open_uni() still puts a FIN behind what it wrote;                   *)
(*   - dropping a RecvStream before its end stops the sender, whose next   *)
(*     write fails;                                                        *)
(*   - once the connection is closed no write succeeds and no FIN leaves,  *)
(*     while a receiver may still find bytes that had arrived, or fail.    *)
(*                                                                         *)
(* tokio::io::copy waits in turn for its reader and for the stream. While  *)
(* it waits for the reader it writes nothing, so it does not notice that   *)
(* the stream was stopped or the connection closed. A source is any        *)
(* AsyncRead, and nothing says when it answers.                            *)
(***************************************************************************)
EXTENDS BxpProtocol, FiniteSets

CONSTANTS
  Window,     \* chunks a stream buffers for its receiver
  MaxUni,     \* streams that may be open at once
  MaxStreams  \* bound: streams opened in one behaviour

ASSUME DataPlaneAssumption ==
  /\ Window \in Nat \ {0}
  /\ MaxUni \in Nat \ {0}
  /\ MaxStreams \in Nat

VARIABLES
  streams,  \* the streams, in the order they were opened
  conn      \* "open", or how the connection ended

dvars == <<streams, conn>>

(***************************************************************************)
(* One stream. The sender's side: the id of its preamble, the length of    *)
(* the source, whether the preamble was written, whether copy holds an     *)
(* answer of the source (the next chunk, or the end), the chunks written,  *)
(* what send_data_stream did ("open" while it runs, then "ok" or "err"),   *)
(* and whether a FIN was sent behind it all.                               *)
(* The receiver's side: how far it is and the chunks it read.              *)
(***************************************************************************)
Stream == [req: ReqIds, size: 0..MaxChunks, pre: BOOLEAN, fed: BOOLEAN, sent: 0..MaxChunks,
           tx: {"open", "ok", "err"}, fin: BOOLEAN,
           rx: {"unaccepted", "accepted", "live", "eof", "dropped"}, got: 0..MaxChunks]

Ended(s) == s.tx # "open"

(***************************************************************************)
(* copy waits for its reader.                                              *)
(***************************************************************************)
AwaitsSource(i) ==
  i \in DOMAIN streams /\ ~Ended(streams[i]) /\ streams[i].pre /\ ~streams[i].fed

(***************************************************************************)
(* The peer knows a stream once something was sent on it or a later one.   *)
(* A stream dropped before its preamble still sends its FIN.               *)
(***************************************************************************)
Known(i) == \E j \in i..Len(streams) : streams[j].pre \/ streams[j].fin

(***************************************************************************)
(* A stream gives its slot back when its receiver is through with it: read *)
(* to the end, or dropped and the sender gone as well.                     *)
(***************************************************************************)
Freed(s) == s.rx = "eof" \/ (s.rx = "dropped" /\ Ended(s))

HasCredit == Cardinality({i \in DOMAIN streams : ~Freed(streams[i])}) < MaxUni

Init ==
  /\ streams = <<>>
  /\ conn = "open"
-------------------------------------------------------------------------------
(***************************************************************************)
(* send_data_stream: open_uni().await?                                     *)
(***************************************************************************)
OpenUni(req, size) ==
  /\ conn = "open"
  /\ HasCredit
  /\ streams' = Append(streams, [req |-> req, size |-> size, pre |-> FALSE, fed |-> FALSE,
                                 sent |-> 0, tx |-> "open", fin |-> FALSE,
                                 rx |-> "unaccepted", got |-> 0])
  /\ UNCHANGED conn

(***************************************************************************)
(* write_all(&req_id.to_le_bytes()).await?                                 *)
(***************************************************************************)
WritePreamble(i) ==
  /\ conn = "open"
  /\ streams[i].tx = "open"
  /\ ~streams[i].pre
  /\ streams[i].rx # "dropped"
  /\ streams' = [streams EXCEPT ![i].pre = TRUE]
  /\ UNCHANGED conn

(***************************************************************************)
(* The reader answers copy: with the next chunk, or with the end.          *)
(***************************************************************************)
SourceAnswers(i) ==
  /\ AwaitsSource(i)
  /\ streams' = [streams EXCEPT ![i].fed = TRUE]
  /\ UNCHANGED conn

(***************************************************************************)
(* Mutant of CopyChunk: one more turn after the end of the source.         *)
(***************************************************************************)
CopyPastEnd(i) ==
  /\ conn = "open"
  /\ streams[i].tx = "open"
  /\ streams[i].fed
  /\ streams[i].rx # "dropped"
  /\ streams[i].sent <= streams[i].size
  /\ streams[i].sent - streams[i].got < Window
  /\ streams' = [streams EXCEPT ![i].sent = @ + 1, ![i].fed = FALSE]
  /\ UNCHANGED conn

(***************************************************************************)
(* tokio::io::copy writes the chunk it holds: it waits for room in the     *)
(* stream's window, and fails on a stream the receiver stopped.            *)
(***************************************************************************)
CopyChunk(i) ==
  /\ conn = "open"
  /\ streams[i].tx = "open"
  /\ streams[i].fed
  /\ streams[i].rx # "dropped"
  /\ streams[i].sent < streams[i].size
  /\ streams[i].sent - streams[i].got < Window
  /\ streams' = [streams EXCEPT ![i].sent = @ + 1, ![i].fed = FALSE]
  /\ UNCHANGED conn

(***************************************************************************)
(* Mutant of Finish: the call returns Ok before the source is exhausted.   *)
(***************************************************************************)
FinishEarly(i) ==
  /\ streams[i].tx = "open"
  /\ streams[i].fed
  /\ streams' = [streams EXCEPT ![i].tx = "ok", ![i].fin = (conn = "open")]
  /\ UNCHANGED conn

(***************************************************************************)
(* The source is exhausted: finish()? and Ok(()). A connection that was    *)
(* closed or a stream that was stopped meanwhile does not fail finish.     *)
(***************************************************************************)
Finish(i) ==
  /\ streams[i].tx = "open"
  /\ streams[i].fed
  /\ streams[i].sent = streams[i].size
  /\ streams' = [streams EXCEPT ![i].tx = "ok", ![i].fin = (conn = "open")]
  /\ UNCHANGED conn

(***************************************************************************)
(* Mutant of Abandon: the stream is kept, neither finished nor reset.      *)
(***************************************************************************)
AbandonWithoutFin(i) ==
  /\ streams[i].tx = "open"
  /\ streams' = [streams EXCEPT ![i].tx = "err"]
  /\ UNCHANGED conn

(***************************************************************************)
(* Any of the four awaits returned Err, or the caller dropped the future:  *)
(* data_send goes out of scope and the stream is finished as it stands.    *)
(***************************************************************************)
Abandon(i) ==
  /\ streams[i].tx = "open"
  /\ streams' = [streams EXCEPT ![i].tx = "err", ![i].fin = (conn = "open")]
  /\ UNCHANGED conn

(***************************************************************************)
(* The call is in a write: of the preamble, or of the chunk copy holds.    *)
(***************************************************************************)
Writes(s) == ~s.pre \/ (s.fed /\ s.sent < s.size)

(***************************************************************************)
(* Mutant of WriteFails: a write notices only a closed connection.         *)
(***************************************************************************)
WriteFailsOnClose(i) ==
  /\ conn # "open"
  /\ Writes(streams[i])
  /\ Abandon(i)

(***************************************************************************)
(* The failures a write is certain to meet, even while it waits for room:  *)
(* the receiver stopped the stream or the connection is closed. A call     *)
(* that waits for its source is in no write.                               *)
(***************************************************************************)
WriteFails(i) ==
  /\ conn # "open" \/ streams[i].rx = "dropped"
  /\ Writes(streams[i])
  /\ Abandon(i)
-------------------------------------------------------------------------------
(***************************************************************************)
(* Mutants of AcceptUni: streams are taken in any order; only a stream     *)
(* something was sent on is announced.                                     *)
(***************************************************************************)
AcceptAnyOrder(i) ==
  /\ Known(i)
  /\ streams[i].rx = "unaccepted"
  /\ streams' = [streams EXCEPT ![i].rx = "accepted"]
  /\ UNCHANGED conn

AcceptWritten(i) ==
  /\ streams[i].pre
  /\ streams[i].rx = "unaccepted"
  /\ \A j \in 1..(i - 1) : streams[j].rx # "unaccepted"
  /\ streams' = [streams EXCEPT ![i].rx = "accepted"]
  /\ UNCHANGED conn

(***************************************************************************)
(* read_data_stream: accept_uni().await?                                   *)
(***************************************************************************)
AcceptUni(i) ==
  /\ Known(i)
  /\ streams[i].rx = "unaccepted"
  /\ \A j \in 1..(i - 1) : streams[j].rx # "unaccepted"
  /\ streams' = [streams EXCEPT ![i].rx = "accepted"]
  /\ UNCHANGED conn

(***************************************************************************)
(* read_exact(&mut id_buf).await?: Ok((req_id, data_recv)) when the four   *)
(* bytes came, Err (and the stream dropped) when the FIN came instead.     *)
(***************************************************************************)
ReadPreamble(i) ==
  /\ streams[i].rx = "accepted"
  /\ streams[i].pre
  /\ streams' = [streams EXCEPT ![i].rx = "live"]
  /\ UNCHANGED conn

PreambleMissing(i) ==
  /\ streams[i].rx = "accepted"
  /\ ~streams[i].pre
  /\ streams[i].fin
  /\ streams' = [streams EXCEPT ![i].rx = "dropped"]
  /\ UNCHANGED conn

(***************************************************************************)
(* The caller of read_data_stream consumes the returned RecvStream.        *)
(***************************************************************************)
ReadChunk(i) ==
  /\ streams[i].rx = "live"
  /\ streams[i].got < streams[i].sent
  /\ streams' = [streams EXCEPT ![i].got = @ + 1]
  /\ UNCHANGED conn

ReadEof(i) ==
  /\ streams[i].rx = "live"
  /\ streams[i].fin
  /\ streams[i].got = streams[i].sent
  /\ streams' = [streams EXCEPT ![i].rx = "eof"]
  /\ UNCHANGED conn

(***************************************************************************)
(* The receiver drops the stream before its end: of its own accord, or     *)
(* because a read failed on a closed connection.                           *)
(***************************************************************************)
DropRecv(i) ==
  /\ streams[i].rx \in {"accepted", "live"}
  /\ streams' = [streams EXCEPT ![i].rx = "dropped"]
  /\ UNCHANGED conn

ReadFails(i) ==
  /\ conn # "open"
  /\ DropRecv(i)

(***************************************************************************)
(* Either side closes the connection: close(), or its handles dropped.     *)
(***************************************************************************)
Close ==
  /\ conn = "open"
  /\ conn' = "closed"
  /\ UNCHANGED streams
-------------------------------------------------------------------------------
Sending(i) ==
  WritePreamble(i) \/ CopyChunk(i) \/ Finish(i) \/ WriteFails(i)

Receiving(i) ==
  AcceptUni(i) \/ ReadPreamble(i) \/ PreambleMissing(i) \/ ReadChunk(i) \/ ReadEof(i)
  \/ ReadFails(i)

Next ==
  \/ \E r \in ReqIds, n \in 0..MaxChunks : Len(streams) < MaxStreams /\ OpenUni(r, n)
  \/ \E i \in DOMAIN streams : Sending(i) \/ SourceAnswers(i) \/ Abandon(i)
                             \/ Receiving(i) \/ DropRecv(i)
  \/ Close

Spec == Init /\ [][Next]_dvars

(***************************************************************************)
(* The tasks that run the calls are polled: an operation that can make     *)
(* progress makes it, and every stream has a reader. Nothing is promised   *)
(* of a source that fails or never answers, a future that is dropped, a    *)
(* receiver that gives up or a close.                                      *)
(***************************************************************************)
FairSpec ==
  /\ Spec
  /\ \A i \in 1..MaxStreams : /\ WF_dvars(i \in DOMAIN streams /\ Sending(i))
                              /\ WF_dvars(i \in DOMAIN streams /\ Receiving(i))
-------------------------------------------------------------------------------
TypeOK ==
  /\ streams \in Seq(Stream)
  /\ conn \in {"open", "closed"}

(***************************************************************************)
(* A receiver that reads a stream to its end has the whole payload, unless *)
(* the sender's own call returned an error: the end of a stream that was   *)
(* cut short looks the same to the receiver, but it is never silent on     *)
(* both sides. The hazard is the FIN that a dropped SendStream sends.      *)
(***************************************************************************)
NoSilentTruncation ==
  \A i \in DOMAIN streams :
    streams[i].rx = "eof" /\ streams[i].got # streams[i].size => streams[i].tx = "err"

(***************************************************************************)
(* A call of send_data_stream that returned Ok is delivered: its receiver  *)
(* reads everything, unless it drops the stream or the connection closes   *)
(* first. Streams opened earlier and still without a preamble do not hold  *)
(* it up.                                                                  *)
(***************************************************************************)
FinishedIsDelivered ==
  \A i \in 1..MaxStreams :
    (i \in DOMAIN streams /\ streams[i].tx = "ok")
      ~> \/ i \in DOMAIN streams /\ streams[i].rx = "eof" /\ streams[i].got = streams[i].size
         \/ i \in DOMAIN streams /\ streams[i].rx = "dropped"
         \/ conn # "open"

(***************************************************************************)
(* No send_data_stream call hangs on a stream its receiver gave up or on a *)
(* closed connection, not even one that waits for room in the window. The  *)
(* one thing that can hold it is its source: it goes unnoticed, for as     *)
(* long as the source stalls, that nobody reads any more (server.rs:233).  *)
(***************************************************************************)
SourceNeverStalls(i) == AwaitsSource(i) ~> ~AwaitsSource(i)

StoppedSenderReturns ==
  \A i \in 1..MaxStreams :
    SourceNeverStalls(i) =>
      ((i \in DOMAIN streams /\ (streams[i].rx = "dropped" \/ conn # "open"))
         ~> (i \in DOMAIN streams /\ Ended(streams[i])))

(***************************************************************************)
(* A call that waits in open_uni() gets its turn: with sources that do not *)
(* stall and a reader for each stream, every stream gives its slot back,   *)
(* however it ended: cut short, dropped before its preamble, given up by   *)
(* its receiver half way (server.rs:231).                                  *)
(***************************************************************************)
SlotsComeBack ==
  (\A i \in 1..MaxStreams : SourceNeverStalls(i))
    => (~HasCredit ~> (HasCredit \/ conn # "open"))
=============================================================================
