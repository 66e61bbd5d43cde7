------------------------- MODULE BxpDataPlaneProofs --------------------------
(***************************************************************************)
(* Proofs about BxpDataPlane, for any number and length of streams, any    *)
(* window and any limit of open streams. Each invariant of the runs        *)
(* follows from one statement about a single stream, Coherent, which every *)
(* action preserves for the stream it works on.                            *)
(***************************************************************************)
EXTENDS BxpDataPlane, TLAPS

Coherent(s) ==
  /\ s.got <= s.sent
  /\ s.sent <= s.size
  /\ s.tx = "ok" => s.sent = s.size
  /\ s.fin => s.tx # "open"
  /\ s.fed => s.pre
  /\ s.rx = "eof" => s.fin /\ s.got = s.sent

StreamsOK ==
  /\ streams \in Seq(Stream)
  /\ \A i \in DOMAIN streams : Coherent(streams[i])

IInv == StreamsOK /\ conn \in {"open", "closed"}

(***************************************************************************)
(* Replacing one element of a sequence by another coherent stream, and     *)
(* appending one, keep the sequence typed and coherent.                    *)
(***************************************************************************)
LEMMA UpdateCoherent ==
  ASSUME NEW q \in Seq(Stream), \A j \in DOMAIN q : Coherent(q[j]),
         NEW i \in DOMAIN q, NEW e \in Stream, Coherent(e)
  PROVE  /\ [q EXCEPT ![i] = e] \in Seq(Stream)
         /\ \A j \in DOMAIN [q EXCEPT ![i] = e] : Coherent([q EXCEPT ![i] = e][j])
  OBVIOUS

LEMMA AppendCoherent ==
  ASSUME NEW q \in Seq(Stream), \A j \in DOMAIN q : Coherent(q[j]),
         NEW e \in Stream, Coherent(e)
  PROVE  /\ Append(q, e) \in Seq(Stream)
         /\ \A j \in DOMAIN Append(q, e) : Coherent(Append(q, e)[j])
  OBVIOUS

LEMMA InitIInv == Init => IInv
  BY DEF Init, IInv, StreamsOK

(***************************************************************************)
(* What a step may do to one stream, action by action. These facts do not  *)
(* mention how the connection ends, so that a composition can use them.    *)
(***************************************************************************)
LEMMA SenderStep ==
  ASSUME StreamsOK, NEW i \in DOMAIN streams, Sending(i) \/ SourceAnswers(i) \/ Abandon(i)
  PROVE  /\ \E e \in Stream : /\ Coherent(e) /\ e.req = streams[i].req
                             /\ streams' = [streams EXCEPT ![i] = e]
         /\ conn' = conn
  <1> DEFINE s == streams[i]
  <1>0. s \in Stream /\ Coherent(s)
    BY DEF StreamsOK
  <1>1. CASE WritePreamble(i)
    <2> DEFINE e == [s EXCEPT !.pre = TRUE]
    <2>1. e \in Stream /\ Coherent(e) /\ e.req = s.req
      BY <1>0 DEF Stream, Coherent
    <2> QED BY <1>1, <2>1 DEF WritePreamble
  <1>2. CASE CopyChunk(i)
    <2> DEFINE e == [s EXCEPT !.sent = @ + 1, !.fed = FALSE]
    <2>1. e \in Stream /\ Coherent(e) /\ e.req = s.req
      BY <1>0, <1>2, SizesAssumption DEF Stream, Coherent, CopyChunk
    <2> QED BY <1>2, <2>1 DEF CopyChunk
  <1>3. CASE Finish(i)
    <2> DEFINE e == [s EXCEPT !.tx = "ok", !.fin = (conn = "open")]
    <2>1. e \in Stream /\ Coherent(e) /\ e.req = s.req
      BY <1>0, <1>3 DEF Stream, Coherent, Finish
    <2> QED BY <1>3, <2>1 DEF Finish
  <1>4. CASE Abandon(i)
    <2> DEFINE e == [s EXCEPT !.tx = "err", !.fin = (conn = "open")]
    <2>1. e \in Stream /\ Coherent(e) /\ e.req = s.req
      BY <1>0, <1>4 DEF Stream, Coherent, Abandon
    <2> QED BY <1>4, <2>1 DEF Abandon
  <1>5. CASE SourceAnswers(i)
    <2> DEFINE e == [s EXCEPT !.fed = TRUE]
    <2>1. e \in Stream /\ Coherent(e) /\ e.req = s.req
      BY <1>0, <1>5 DEF Stream, Coherent, SourceAnswers, AwaitsSource
    <2> QED BY <1>5, <2>1 DEF SourceAnswers
  <1> QED BY <1>1, <1>2, <1>3, <1>4, <1>5 DEF Sending, WriteFails

LEMMA ReceiverStep ==
  ASSUME StreamsOK, NEW i \in DOMAIN streams, Receiving(i) \/ DropRecv(i)
  PROVE  /\ \E e \in Stream : /\ Coherent(e) /\ e.req = streams[i].req /\ e.tx = streams[i].tx
                             /\ streams' = [streams EXCEPT ![i] = e]
         /\ conn' = conn
  <1> DEFINE s == streams[i]
  <1>0. s \in Stream /\ Coherent(s)
    BY DEF StreamsOK
  <1>1. CASE AcceptUni(i)
    <2> DEFINE e == [s EXCEPT !.rx = "accepted"]
    <2>1. e \in Stream /\ Coherent(e) /\ e.req = s.req /\ e.tx = s.tx
      BY <1>0 DEF Stream, Coherent
    <2> QED BY <1>1, <2>1 DEF AcceptUni
  <1>2. CASE ReadPreamble(i)
    <2> DEFINE e == [s EXCEPT !.rx = "live"]
    <2>1. e \in Stream /\ Coherent(e) /\ e.req = s.req /\ e.tx = s.tx
      BY <1>0, <1>2 DEF Stream, Coherent, ReadPreamble
    <2> QED BY <1>2, <2>1 DEF ReadPreamble
  <1>3. CASE PreambleMissing(i) \/ DropRecv(i)
    <2> DEFINE e == [s EXCEPT !.rx = "dropped"]
    <2>1. e \in Stream /\ Coherent(e) /\ e.req = s.req /\ e.tx = s.tx
      BY <1>0 DEF Stream, Coherent
    <2> QED BY <1>3, <2>1 DEF PreambleMissing, DropRecv
  <1>4. CASE ReadChunk(i)
    <2> DEFINE e == [s EXCEPT !.got = @ + 1]
    <2>1. e \in Stream /\ Coherent(e) /\ e.req = s.req /\ e.tx = s.tx
      BY <1>0, <1>4, SizesAssumption DEF Stream, Coherent, ReadChunk
    <2> QED BY <1>4, <2>1 DEF ReadChunk
  <1>5. CASE ReadEof(i)
    <2> DEFINE e == [s EXCEPT !.rx = "eof"]
    <2>1. e \in Stream /\ Coherent(e) /\ e.req = s.req /\ e.tx = s.tx
      BY <1>0, <1>5 DEF Stream, Coherent, ReadEof
    <2> QED BY <1>5, <2>1 DEF ReadEof
  <1> QED BY <1>1, <1>2, <1>3, <1>4, <1>5 DEF Receiving, ReadFails

FreshStream(r, n) ==
  [req |-> r, size |-> n, pre |-> FALSE, fed |-> FALSE, sent |-> 0, tx |-> "open",
   fin |-> FALSE, rx |-> "unaccepted", got |-> 0]

LEMMA OpenStep ==
  ASSUME StreamsOK, NEW r \in ReqIds, NEW n \in 0..MaxChunks,
         streams' = Append(streams, FreshStream(r, n))
  PROVE  StreamsOK'
  <1>1. FreshStream(r, n) \in Stream /\ Coherent(FreshStream(r, n))
    BY SizesAssumption DEF Stream, Coherent, FreshStream
  <1> QED BY <1>1, AppendCoherent DEF StreamsOK

LEMMA StreamStep ==
  ASSUME StreamsOK, NEW i \in DOMAIN streams,
         Sending(i) \/ SourceAnswers(i) \/ Abandon(i) \/ Receiving(i) \/ DropRecv(i)
  PROVE  StreamsOK'
  <1>1. PICK e \in Stream : Coherent(e) /\ streams' = [streams EXCEPT ![i] = e]
    BY SenderStep, ReceiverStep
  <1> QED BY <1>1, UpdateCoherent DEF StreamsOK

(***************************************************************************)
(* While the connection lasts and no caller gives up, a stream is never    *)
(* cut: only a call that returned Ok ends it, and its receiver stays.      *)
(***************************************************************************)
Whole(s) ==
  /\ s.fin => s.tx = "ok"
  /\ s.tx = "ok" => s.pre
  /\ s.rx = "dropped" => conn # "open"

AllWhole == \A j \in DOMAIN streams : Whole(streams[j])

LEMMA SendingWhole ==
  ASSUME StreamsOK, AllWhole, NEW i \in DOMAIN streams, Sending(i) \/ SourceAnswers(i)
  PROVE  /\ AllWhole'
         /\ DOMAIN streams' = DOMAIN streams /\ Len(streams') = Len(streams)
         /\ \A j \in DOMAIN streams : /\ streams'[j].req = streams[j].req
                                      /\ streams'[j].size = streams[j].size
                                      /\ streams'[j].rx = streams[j].rx
         /\ WriteFails(i) => conn # "open"
  <1>0. streams \in Seq(Stream) /\ conn' = conn /\ streams[i] \in Stream
    BY SenderStep DEF StreamsOK
  <1>1. WriteFails(i) => conn # "open"
    BY DEF WriteFails, AllWhole, Whole
  <1>2. PICK e : /\ streams' = [streams EXCEPT ![i] = e] /\ Whole(e)
                 /\ e.req = streams[i].req /\ e.size = streams[i].size /\ e.rx = streams[i].rx
    <2> DEFINE s == streams[i]
    <2>0. Whole(s) /\ (s.fed => s.pre)
      BY DEF AllWhole, StreamsOK, Coherent
    <2>1. CASE WritePreamble(i)
      <3> WITNESS [s EXCEPT !.pre = TRUE]
      <3> QED BY <1>0, <2>0, <2>1 DEF WritePreamble, Whole, Stream
    <2>2. CASE CopyChunk(i)
      <3> WITNESS [s EXCEPT !.sent = @ + 1, !.fed = FALSE]
      <3> QED BY <1>0, <2>0, <2>2 DEF CopyChunk, Whole, Stream
    <2>3. CASE Finish(i)
      <3> WITNESS [s EXCEPT !.tx = "ok", !.fin = (conn = "open")]
      <3> QED BY <1>0, <2>0, <2>3 DEF Finish, Whole, Stream
    <2>4. CASE WriteFails(i)
      <3> WITNESS [s EXCEPT !.tx = "err", !.fin = (conn = "open")]
      <3> QED BY <1>0, <1>1, <2>0, <2>4 DEF WriteFails, Abandon, Whole, Stream
    <2>5. CASE SourceAnswers(i)
      <3> WITNESS [s EXCEPT !.fed = TRUE]
      <3> QED BY <1>0, <2>0, <2>5 DEF SourceAnswers, Whole, Stream
    <2> QED BY <2>1, <2>2, <2>3, <2>4, <2>5 DEF Sending
  <1>3. /\ DOMAIN streams' = DOMAIN streams /\ Len(streams') = Len(streams)
        /\ \A j \in DOMAIN streams : j # i => streams'[j] = streams[j]
        /\ streams'[i] = e
    BY <1>0, <1>2
  <1>4. AllWhole'
    BY <1>0, <1>2, <1>3 DEF AllWhole, Whole
  <1> QED BY <1>1, <1>2, <1>3, <1>4

LEMMA ReceivingWhole ==
  ASSUME StreamsOK, AllWhole, NEW i \in DOMAIN streams, Receiving(i)
  PROVE  /\ AllWhole'
         /\ DOMAIN streams' = DOMAIN streams /\ Len(streams') = Len(streams)
         /\ \A j \in DOMAIN streams : /\ streams'[j].req = streams[j].req
                                      /\ streams'[j].size = streams[j].size
                                      /\ j # i => streams'[j].rx = streams[j].rx
         /\ ~PreambleMissing(i)
         /\ streams'[i].rx = "dropped" => conn # "open"
  <1>0. streams \in Seq(Stream) /\ conn' = conn /\ streams[i] \in Stream
    BY ReceiverStep DEF StreamsOK
  <1>1. ~PreambleMissing(i)
    BY DEF PreambleMissing, AllWhole, Whole
  <1>2. PICK e : /\ streams' = [streams EXCEPT ![i] = e] /\ Whole(e)
                 /\ e.req = streams[i].req /\ e.size = streams[i].size
    <2> DEFINE s == streams[i]
    <2>0. Whole(s)
      BY DEF AllWhole
    <2>1. CASE AcceptUni(i)
      <3> WITNESS [s EXCEPT !.rx = "accepted"]
      <3> QED BY <1>0, <2>0, <2>1 DEF AcceptUni, Whole, Stream
    <2>2. CASE ReadPreamble(i)
      <3> WITNESS [s EXCEPT !.rx = "live"]
      <3> QED BY <1>0, <2>0, <2>2 DEF ReadPreamble, Whole, Stream
    <2>3. CASE ReadChunk(i)
      <3> WITNESS [s EXCEPT !.got = @ + 1]
      <3> QED BY <1>0, <2>0, <2>3 DEF ReadChunk, Whole, Stream
    <2>4. CASE ReadEof(i)
      <3> WITNESS [s EXCEPT !.rx = "eof"]
      <3> QED BY <1>0, <2>0, <2>4 DEF ReadEof, Whole, Stream
    <2>5. CASE ReadFails(i)
      <3> WITNESS [s EXCEPT !.rx = "dropped"]
      <3> QED BY <1>0, <2>0, <2>5 DEF ReadFails, DropRecv, Whole, Stream
    <2> QED BY <1>1, <2>1, <2>2, <2>3, <2>4, <2>5 DEF Receiving
  <1>3. /\ DOMAIN streams' = DOMAIN streams /\ Len(streams') = Len(streams)
        /\ \A j \in DOMAIN streams : j # i => streams'[j] = streams[j]
        /\ streams'[i] = e
    BY <1>0, <1>2
  <1>4. AllWhole'
    BY <1>0, <1>2, <1>3 DEF AllWhole, Whole
  <1>5. streams'[i].rx = "dropped" => conn # "open"
    BY <1>2, <1>3 DEF Whole
  <1> QED BY <1>1, <1>2, <1>3, <1>4, <1>5

(***************************************************************************)
(* Where a receiver is before and after each of its steps.                 *)
(***************************************************************************)
LEMMA ReceiverMoves ==
  ASSUME StreamsOK, NEW i \in DOMAIN streams
  PROVE  /\ AcceptUni(i) => streams[i].rx = "unaccepted" /\ streams'[i].rx = "accepted"
         /\ ReadPreamble(i) => streams[i].rx = "accepted" /\ streams'[i].rx = "live"
         /\ ReadChunk(i) => streams[i].rx = "live" /\ streams'[i].rx = "live"
         /\ ReadEof(i) => streams[i].rx = "live" /\ streams'[i].rx = "eof"
         /\ ReadFails(i) => conn # "open" /\ streams'[i].rx = "dropped"
  <1> DEFINE s == streams[i]
  <1>0. streams \in Seq(Stream) /\ s \in Stream
    BY DEF StreamsOK
  <1>1. \A e : streams' = [streams EXCEPT ![i] = e] => streams'[i] = e
    BY <1>0
  <1>2. \A r : [s EXCEPT !.rx = r].rx = r
    BY <1>0 DEF Stream
  <1>3. [s EXCEPT !.got = s.got + 1].rx = s.rx
    BY <1>0 DEF Stream
  <1> QED BY <1>1, <1>2, <1>3 DEF AcceptUni, ReadPreamble, ReadChunk, ReadEof, ReadFails, DropRecv

LEMMA OpeningWhole ==
  ASSUME StreamsOK, AllWhole, NEW r \in ReqIds, NEW n \in 0..MaxChunks, conn' = conn,
         streams' = Append(streams, FreshStream(r, n))
  PROVE  /\ AllWhole'
         /\ Len(streams') = Len(streams) + 1
         /\ DOMAIN streams' = DOMAIN streams \cup {Len(streams')}
         /\ \A j \in DOMAIN streams : streams'[j] = streams[j]
         /\ streams'[Len(streams')] = FreshStream(r, n)
  <1>1. /\ Len(streams') = Len(streams) + 1
        /\ DOMAIN streams' = DOMAIN streams \cup {Len(streams')}
        /\ \A j \in DOMAIN streams : streams'[j] = streams[j]
        /\ streams'[Len(streams')] = FreshStream(r, n)
    BY DEF StreamsOK
  <1>2. AllWhole'
    BY <1>1 DEF AllWhole, Whole, FreshStream
  <1> QED BY <1>1, <1>2

LEMMA NextIInv == IInv /\ [Next]_dvars => IInv'
  <1> SUFFICES ASSUME IInv, [Next]_dvars PROVE IInv'
    OBVIOUS
  <1>1. ASSUME NEW r \in ReqIds, NEW n \in 0..MaxChunks, OpenUni(r, n) PROVE IInv'
    BY <1>1, OpenStep DEF IInv, OpenUni, FreshStream
  <1>2. ASSUME NEW i \in DOMAIN streams,
               Sending(i) \/ SourceAnswers(i) \/ Abandon(i) \/ Receiving(i) \/ DropRecv(i)
        PROVE  IInv'
    BY <1>2, SenderStep, ReceiverStep, StreamStep DEF IInv
  <1>3. CASE Close
    BY <1>3 DEF Close, IInv, StreamsOK
  <1>4. CASE UNCHANGED dvars
    BY <1>4 DEF dvars, IInv, StreamsOK
  <1> QED BY <1>1, <1>2, <1>3, <1>4 DEF Next

LEMMA SpecIInv == Spec => []IInv
  BY InitIInv, NextIInv, PTL DEF Spec

(***************************************************************************)
(* Type correctness of the data plane.                                     *)
(***************************************************************************)
THEOREM TypeCorrect == Spec => []TypeOK
  <1>1. IInv => TypeOK
    BY DEF IInv, StreamsOK, TypeOK
  <1> QED BY <1>1, SpecIInv, PTL

(***************************************************************************)
(* A stream read to its end and shorter than its source always has a       *)
(* sender whose call returned an error, although dropping a SendStream     *)
(* puts a FIN behind whatever was written.                                 *)
(***************************************************************************)
THEOREM TruncationIsNeverSilent == Spec => []NoSilentTruncation
  <1>1. IInv => NoSilentTruncation
    <2> SUFFICES ASSUME IInv, NEW i \in DOMAIN streams,
                        streams[i].rx = "eof", streams[i].got # streams[i].size
                 PROVE  streams[i].tx = "err"
      BY DEF NoSilentTruncation
    <2> DEFINE s == streams[i]
    <2>1. s \in Stream /\ Coherent(s) /\ s.rx = "eof" /\ s.got # s.size
      BY DEF IInv, StreamsOK
    <2>2. s.tx # "open" /\ s.tx # "ok"
      BY <2>1 DEF Coherent
    <2> QED BY <2>1, <2>2 DEF Stream
  <1> QED BY <1>1, SpecIInv, PTL
=============================================================================
