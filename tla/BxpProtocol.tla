----------------------------- MODULE BxpProtocol -----------------------------
(***************************************************************************)
(* The vocabulary of BXP: actions, status codes, the frames that travel on *)
(* the control stream and the conversions between the crate's own enums    *)
(* (protocol.rs) and the u16 codes of the Cap'n Proto schema.              *)
(*                                                                         *)
(* A frame stands for a 4-byte length header and the message behind it.    *)
(* Only what a receiver looks at is kept: the length it announces, whether *)
(* Cap'n Proto can decode the bytes, the raw action code and the fields.   *)
(***************************************************************************)
EXTENDS Naturals, Sequences

CONSTANTS
  ReqIds,           \* the request ids a client may choose (u32 in the code)
  Uris,             \* the resource URIs in play
  MAX_CONTROL_MSG,  \* server.rs: the largest control message it accepts
  MaxLen,           \* the largest length header in play
  MaxChunks         \* the longest payload, counted in chunks of a copy loop

ASSUME SizesAssumption ==
  /\ MAX_CONTROL_MSG \in Nat
  /\ MaxLen \in Nat
  /\ MaxChunks \in Nat

BxpAction == {"Fetch", "Push", "Ping"}

BxpStatus == {"Success", "BadRequest", "Unauthorized", "NotFound", "InternalError"}

(***************************************************************************)
(* impl From<BxpAction> for Action and impl From<BxpStatus> for StatusCode *)
(* followed by the schema's u16 encoding.                                  *)
(***************************************************************************)
ActionCode == [Fetch |-> 0, Push |-> 1, Ping |-> 2]

StatusCode == [Success |-> 0, BadRequest |-> 1, Unauthorized |-> 2,
               NotFound |-> 3, InternalError |-> 4]

(***************************************************************************)
(* The way back: a u16 the schema does not list is NotInSchema, an error   *)
(* of get_action / get_status_code; a listed one is matched variant by     *)
(* variant by TryFrom.                                                     *)
(***************************************************************************)
ActionInSchema(code) == code \in 0..2

ActionOf(code) ==
  CASE code = 0 -> "Fetch" [] code = 1 -> "Push" [] OTHER -> "Ping"

StatusOf(code) ==
  CASE code = 0 -> "Success" [] code = 1 -> "BadRequest" [] code = 2 -> "Unauthorized"
    [] code = 3 -> "NotFound" [] OTHER -> "InternalError"

(***************************************************************************)
(* A Request frame as it sits on the control stream. The code 3 stands for *)
(* every action a peer with a newer schema may send; sound is FALSE when   *)
(* Cap'n Proto rejects the bytes or the URI is not UTF-8.                  *)
(***************************************************************************)
RequestFrame == [id: ReqIds, action: 0..3, uri: Uris, len: 0..MaxLen, sound: BOOLEAN]

(***************************************************************************)
(* receive_request returns Ok exactly for these frames: the length check   *)
(* comes first, then the decoder, then the action.                         *)
(***************************************************************************)
Receivable(f) ==
  /\ f.len <= MAX_CONTROL_MSG
  /\ f.sound
  /\ ActionInSchema(f.action)

(***************************************************************************)
(* The BxpRequest that receive_request builds from a receivable frame.     *)
(***************************************************************************)
BxpRequestOf(f) == [req_id |-> f.id, action |-> ActionOf(f.action), uri |-> f.uri]

(***************************************************************************)
(* A handler is abstracted to the library calls it awaits, in order. Each  *)
(* of them is followed by `?`, so the first that fails ends the handler.   *)
(*   respond    send_response(req.req_id, status)                          *)
(*   send_data  send_data_stream(req.req_id, reader of `size` chunks)      *)
(*   read_data  read_data_stream(), then reading that stream to its end    *)
(*   fail       the handler returns Err by itself                          *)
(***************************************************************************)
HandlerStep == [op: {"respond", "send_data", "read_data", "fail"},
                status: BxpStatus, size: 0..MaxChunks]

Respond(status) == [op |-> "respond", status |-> status, size |-> 0]
SendData(size)  == [op |-> "send_data", status |-> "Success", size |-> size]
ReadData        == [op |-> "read_data", status |-> "Success", size |-> 0]
Fail            == [op |-> "fail", status |-> "Success", size |-> 0]

Handler == Seq(HandlerStep)
=============================================================================
