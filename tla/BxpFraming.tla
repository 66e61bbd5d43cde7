----------------------------- MODULE BxpFraming ------------------------------
(***************************************************************************)
(* One direction of the control stream, byte by byte. A message travels as *)
(* a header of four bytes, which announces the length of the body, and the *)
(* body. send_request and send_response write it with one write_all;       *)
(* receive_request and receive_response read the header and then the body  *)
(* with a read_exact each.                                                 *)
(*                                                                         *)
(* Neither read_exact nor write_all is cancel-safe: a caller that drops    *)
(* the call at one of its awaits (a timeout, a select!) leaves on the      *)
(* stream what was written, and loses what was read. A receiver that       *)
(* refuses a length returns with the body unread. Either way the next      *)
(* receive call reads on where the last one stopped.                       *)
(***************************************************************************)
EXTENDS Naturals, Sequences

CONSTANTS
  Frames,           \* the messages in play
  None, Garbled,    \* no message; what nobody sent
  MAX_CONTROL_MSG,  \* server.rs: the longest body of a control message
  Limit,            \* the longest body the receiver takes
  MaxLen,           \* the largest length in play
  Window,           \* bytes the stream buffers
  MaxFrames,        \* bound: messages sent
  MaxDrops          \* bound: calls dropped half way

ASSUME FramingAssumption ==
  /\ MAX_CONTROL_MSG \in Nat /\ Limit \in Nat /\ MaxLen \in Nat
  /\ Frames \subseteq [id: Nat, len: 0..MaxLen]
  /\ None \notin Frames /\ Garbled \notin Frames
  /\ Window \in Nat \ {0}
  /\ MaxFrames \in Nat /\ MaxDrops \in Nat

VARIABLES
  open,    \* whether the connection is open
  log,     \* the messages whose write_all is complete
  out,     \* the message write_all is writing, or None
  put,     \* the bytes of it that are written
  stream,  \* every byte written so far
  pos,     \* how many of them were read
  rpc,     \* the receiver: "idle", in a read_exact, or "failed" for good
  have,    \* the bytes its read_exact has
  need,    \* the bytes its read_exact was asked for
  got,     \* what the receive calls decoded
  torn,    \* history: the receiver may be off the boundaries of messages
  drops    \* calls dropped so far

wvars == <<log, out, put, stream>>
rvars == <<pos, rpc, have, need, got>>
vars  == <<open, wvars, rvars, torn, drops>>

HEADER == 4

(***************************************************************************)
(* A byte: the message it is of, which byte of it, and (history) how many  *)
(* messages were complete before it.                                       *)
(***************************************************************************)
Byte == [frame: Frames, part: Nat, after: Nat]

(***************************************************************************)
(* Mutant of Announced: the header counts itself.                          *)
(***************************************************************************)
AnnouncedWithHeader(f) == f.len + HEADER

(***************************************************************************)
(* payload_len: what the header says.                                      *)
(***************************************************************************)
Announced(f) == f.len

Size(f) == HEADER + f.len

Init ==
  /\ open = TRUE
  /\ log = <<>> /\ out = None /\ put = 0 /\ stream = <<>>
  /\ pos = 0 /\ rpc = "idle" /\ have = 0 /\ need = 0 /\ got = <<>>
  /\ torn = FALSE /\ drops = 0
-------------------------------------------------------------------------------
(***************************************************************************)
(* send_request, send_response: write_all(&out_buf).                       *)
(***************************************************************************)
BeginSend(f) ==
  /\ open
  /\ out = None
  /\ Len(log) < MaxFrames
  /\ out' = f
  /\ UNCHANGED <<open, log, put, stream, rvars, torn, drops>>

(***************************************************************************)
(* write_all makes progress when the window has room, and returns with the *)
(* last byte.                                                              *)
(***************************************************************************)
WriteByte ==
  /\ open
  /\ out # None
  /\ Len(stream) - pos < Window
  /\ stream' = Append(stream, [frame |-> out, part |-> put + 1, after |-> Len(log)])
  /\ \/ put + 1 < Size(out) /\ put' = put + 1 /\ UNCHANGED <<log, out>>
     \/ put + 1 = Size(out) /\ put' = 0 /\ out' = None /\ log' = Append(log, out)
  /\ UNCHANGED <<open, rvars, torn, drops>>

WriteFails ==
  /\ ~open
  /\ out # None
  /\ out' = None
  /\ put' = 0
  /\ UNCHANGED <<open, log, stream, rvars, torn, drops>>

DropSend ==
  /\ out # None
  /\ drops < MaxDrops
  /\ drops' = drops + 1
  /\ out' = None
  /\ put' = 0
  /\ torn' = (torn \/ put > 0)
  /\ UNCHANGED <<open, log, stream, rvars>>
-------------------------------------------------------------------------------
(***************************************************************************)
(* receive_request, receive_response: read_exact(&mut len_buf).            *)
(***************************************************************************)
BeginReceive ==
  /\ rpc = "idle"
  /\ rpc' = "header"
  /\ have' = 0
  /\ need' = HEADER
  /\ UNCHANGED <<open, wvars, pos, got, torn, drops>>

Awaiting == rpc \in {"header", "body"} /\ have < need

ReadByte ==
  /\ Awaiting
  /\ pos < Len(stream)
  /\ pos' = pos + 1
  /\ have' = have + 1
  /\ UNCHANGED <<open, wvars, rpc, need, got, torn, drops>>

(***************************************************************************)
(* The last n bytes read are the first n of one message.                   *)
(***************************************************************************)
ReadFromStart(n) ==
  n \in 1..pos /\ \A i \in 1..n : stream[pos - n + i] = [stream[pos] EXCEPT !.part = i]

(***************************************************************************)
(* u32::from_le_bytes(len_buf): the header's length if the four bytes are  *)
(* a header, and otherwise any.                                            *)
(***************************************************************************)
Lengths == IF ReadFromStart(HEADER) THEN {Announced(stream[pos].frame)} ELSE 0..MaxLen

(***************************************************************************)
(* Mutant of TakeLength: the body is read behind the header into the same  *)
(* buffer.                                                                 *)
(***************************************************************************)
TakeLengthAgain(n) ==
  /\ rpc = "header" /\ have = need
  /\ n <= Limit
  /\ rpc' = "body"
  /\ need' = n
  /\ UNCHANGED <<open, wvars, pos, have, got, torn, drops>>

(***************************************************************************)
(* vec![0u8; len] and read_exact(&mut msg_buf), without an await between.  *)
(***************************************************************************)
TakeLength(n) ==
  /\ rpc = "header" /\ have = need
  /\ n <= Limit
  /\ rpc' = "body"
  /\ have' = 0
  /\ need' = n
  /\ UNCHANGED <<open, wvars, pos, got, torn, drops>>

(***************************************************************************)
(* "Control message too large": Err, and the body stays where it is.       *)
(***************************************************************************)
RefuseLength(n) ==
  /\ rpc = "header" /\ have = need
  /\ n > Limit
  /\ rpc' = "idle"
  /\ torn' = TRUE
  /\ UNCHANGED <<open, wvars, pos, have, need, got, drops>>

(***************************************************************************)
(* read_message and what follows: the message whose body was read, Ok or   *)
(* Err as its content decides, or whatever the bytes may be.               *)
(***************************************************************************)
Decode ==
  /\ rpc = "body" /\ have = need
  /\ got' = Append(got, IF ReadFromStart(HEADER + need) /\ Size(stream[pos].frame) = HEADER + need
                        THEN stream[pos].frame ELSE Garbled)
  /\ rpc' = "idle"
  /\ UNCHANGED <<open, wvars, pos, have, need, torn, drops>>

DropReceive ==
  /\ Awaiting
  /\ drops < MaxDrops
  /\ drops' = drops + 1
  /\ rpc' = "idle"
  /\ torn' = (torn \/ rpc = "body" \/ have > 0)
  /\ UNCHANGED <<open, wvars, pos, have, need, got>>

(***************************************************************************)
(* The connection ended: what arrived may be read, and then every read     *)
(* fails.                                                                  *)
(***************************************************************************)
ReadFails ==
  /\ ~open
  /\ Awaiting
  /\ rpc' = "failed"
  /\ UNCHANGED <<open, wvars, pos, have, need, got, torn, drops>>

Close ==
  /\ open
  /\ open' = FALSE
  /\ UNCHANGED <<wvars, rvars, torn, drops>>
-------------------------------------------------------------------------------
Sending == WriteByte \/ WriteFails

Receiving ==
  \/ BeginReceive \/ ReadByte \/ Decode \/ ReadFails
  \/ \E n \in 0..MaxLen : n \in Lengths /\ (TakeLength(n) \/ RefuseLength(n))

Next ==
  \/ \E f \in Frames : BeginSend(f)
  \/ Sending \/ DropSend
  \/ Receiving \/ DropReceive
  \/ Close

Spec == Init /\ [][Next]_vars

(***************************************************************************)
(* Both tasks are polled, and the receiver calls again, as the serving     *)
(* loop does. Nothing is promised of who sends, drops or closes.           *)
(***************************************************************************)
FairSpec == Spec /\ WF_vars(Sending) /\ WF_vars(Receiving)
-------------------------------------------------------------------------------
TypeOK ==
  /\ open \in BOOLEAN /\ torn \in BOOLEAN /\ drops \in Nat
  /\ log \in Seq(Frames)
  /\ out \in Frames \cup {None}
  /\ put \in Nat
  /\ stream \in Seq(Byte)
  /\ pos \in 0..Len(stream)
  /\ rpc \in {"idle", "header", "body", "failed"}
  /\ need \in Nat
  /\ have \in 0..need
  /\ got \in Seq(Frames \cup {Garbled})

(***************************************************************************)
(* Until a call is dropped half way, or the receiver goes on behind a      *)
(* length it refused, the stream of bytes is a channel of messages. A call *)
(* dropped before its first byte, a message that does not decode and a     *)
(* connection that ends in the middle of a message do no harm.             *)
(***************************************************************************)
Channel == INSTANCE BxpChannel WITH broken <- torn

ImplementsChannel == Channel!Spec

(***************************************************************************)
(* No body above 1 MB is allocated, not even when the four bytes that pass *)
(* for a header are none (server.rs:9: "Prevents a single bad client from  *)
(* forcing a multi-GB allocation"; spec.md, 7, asks it of both sides).     *)
(***************************************************************************)
AllocationBounded == rpc = "body" => need <= MAX_CONTROL_MSG

(***************************************************************************)
(* With no call dropped inside a message, only a message that really is    *)
(* too long ever puts the receiver off the boundaries: it takes no bytes   *)
(* of a body for a header, and refuses no message the limit allows.        *)
(***************************************************************************)
RefusesOnlyTooLong ==
  torn /\ drops = 0 => \E i \in DOMAIN stream : stream[i].frame.len > Limit

(***************************************************************************)
(* Every message sent is received, however little of it the window holds   *)
(* and wherever calls were dropped between two messages, as long as the    *)
(* connection lasts and nothing tore the stream.                           *)
(***************************************************************************)
FramesReceived ==
  [](open /\ ~torn) => \A n \in 1..MaxFrames : (Len(log) >= n) ~> (Len(got) >= n)
=============================================================================
