# A TLA+ verification project for bxp-core

`bxp-core` is a Rust crate (client, server, router) for BXP, a request/response
protocol with bulk payloads over one QUIC connection. This directory holds
TLA+ models of its control flow, TLC configurations that check them on small
instances, and theorems about them that TLAPS checks for every value of the
constants. Paths below are relative to the repository; `server.rs` is
`src/server.rs` there, and so on.

## The system

| component | state it keeps | operations | modelled in |
|---|---|---|---|
| control-plane framing (both ends of the control stream) | bytes written and read, what a `read_exact` has | 4-byte header and body, dropped calls, refused lengths | `BxpFraming` |
| protocol types (`protocol.rs`, `schema/bxp.capnp`) | none | enum conversions, frames | `BxpProtocol` |
| router (`router.rs`) | map action → URI → handler | `route`, `handle_request` | `BxpRouting`, `BxpRouter` |
| data plane (both `send_data_stream` / `read_data_stream`) | one unidirectional QUIC stream per payload | open, preamble, copy, finish; accept, preamble, read | `BxpDataPlane` |
| server connection (`server.rs`, serving loop of tests and examples) | control stream, where the task is | `receive_request`, `send_response`, data streams, `wait_for_close` | `BxpConnection` |
| client connection (`client.rs`) | control stream | `send_request`, `receive_response`, data streams, `close` | `BxpConnection` |
| client programs (`tests/integration.rs`, `examples/`) | the next call | sequences of awaited calls with `?`, `if` and `assert_eq!` | `BxpSession`, `BxpPrograms` |
| server lifecycle (`BxpServer::accept`, the accept loop) | connection being set up, spawned tasks | handshake, first `accept_bi`, spawn | `BxpAccept` |
| TLS and transport set-up (`bind`, `connect`) | none after start-up | PEM loading, certificate verification, windows | `BxpTls`; windows are constants of `BxpDataPlane` |
| generated schema code, `build.rs` | none | | not modelled |

How they interact. A client connects and opens one bidirectional control
stream. It writes request frames (4-byte length, Cap'n Proto message) and reads
response frames in any order it likes: nothing forces one response per request
before the next request. On the server one task per connection loops over
`receive_request` and `handle_request`. The router looks the handler up by
action and URI and awaits it with the connection borrowed mutably, so the task
serves one request at a time. A handler may respond, open a unidirectional
stream and copy a payload into it, or accept one of the client's. The task's
shape is not in the library; all tests and examples write the same loop, and
that loop is what is modelled. `examples/benchmark.rs` alone leaves
`wait_for_close` out; the constant `Endings` says which of the two endings are
in play.

What is hard about it:

- every await is a point where the other side, a closed connection or a dropped
  future may come in between;
- failures that look like success: dropping a `SendStream` finishes it, so a
  payload cut short ends like a whole one;
- correlation by position: `receive_response` does not check ids and
  `read_data_stream` returns whatever stream comes next;
- a copy waits for its source as well as for the window, and while it does so it
  notices neither a stopped stream nor a closed connection;
- back-pressure: the stream window, the limit of open streams and the control
  stream's window make one side wait for the other;
- `read_exact` and `write_all` are not cancel-safe: a call dropped at an await
  leaves the control stream in the middle of a message;
- what happens after a rejected frame, a failed handler or a failed handshake.

`PROJECT.json` lists these as hazards, each at its line.

## Modules

`BxpProtocol` — vocabulary. Frames keep what a receiver looks at: the announced
length, whether Cap'n Proto decodes the bytes, the raw action code (0 to 2 are
in the schema, 3 stands for every other), id and URI. `Receivable` is the
condition under which `receive_request` returns Ok. A handler is the sequence
of library calls it awaits (`Respond`, `SendData`, `ReadData`, `Fail`).

`BxpRouting` — `Register` (`route`) and `Dispatch` (`handle_request`) on the
nested map. `BxpRouter` builds a table by a chain of `route` calls and keeps the
chain as a history.

`BxpDataPlane` — the streams of one direction. One record per stream holds the
sender's side (`pre`: preamble written, `fed`: whether the source has answered
the copy, `sent`, `tx`: what `send_data_stream` did, `fin`: whether a FIN left) and the receiver's (`rx`, `got`). One action
per await: `OpenUni`, `WritePreamble`, `SourceAnswers`, `CopyChunk`, `Finish`, `Abandon` (an Err
or a dropped future), `WriteFails`; `AcceptUni`, `ReadPreamble`,
`PreambleMissing`, `ReadChunk`, `ReadEof`, `DropRecv`, `ReadFails`. A copy whose
source has not answered (`AwaitsSource`) is in no write, so `WriteFails` cannot
touch it: a stalled source hides a stopped stream and a closed connection. Both sides
of the crate have the same two functions, so the module serves both. Its head
comment lists what is taken from quinn: accept order, announcement of a stream
by a later one, windows and limits, FIN on drop, stop on drop, what a closed
connection does.

`BxpChannel`, `BxpFraming` — one direction of the control stream.
`BxpChannel` is the promise: messages arrive whole, once, in order, until the
channel is broken. `BxpFraming` is the code: `write_all` puts a header and a
body on a stream of bytes with a window, the receiver's two `read_exact` take
them off (`rpc`, `have`, `need`), `TakeLength`/`RefuseLength` are the comparison
with the limit, `DropSend`/`DropReceive` a future dropped at its await. A byte
is the message it belongs to and its place in it; what was read is a header, or
a message, only if those bytes are exactly its first ones, and otherwise any
length or garbage. `torn` turns TRUE when a call is dropped inside a message or
a length is refused, and is what `BxpChannel` calls broken. `BxpConnection` uses
the stream as such a channel: it is only ever torn there by a refused length,
after which its receiver reads no more (`RejectedFrameIsLast`).

`BxpConnection` — composes the router's `Dispatch` and two instances of
`BxpDataPlane` (`Down`, `Up`) with the control stream and the two programs. The
control stream is two logs of frames with a read index each. Client actions:
`SendRequest`, `ReceiveResponse`, `AcceptDownload`/`ReadDataStream`,
`ReadPayload`, `DropPayload`, `OpenUpload`/`SendUpload`/`SendDataStream`,
`UploadSourceFails`, `CloseClient`; the client may call them in any order.
Server actions follow the task's program counter `spc`:

| `spc` | where the task is |
|---|---|
| accepting | `accept_bi().await` in `accept` |
| receiving | `receive_request().await` |
| handling | between two awaits of the handler; `step` of them are done |
| streaming | inside `send_data_stream` |
| pulling | reading an upload |
| waiting | `wait_for_close().await` |
| gone | returned; its handles are dropped |

`BxpService` — what a connection promises its user, without streams, windows
or tasks: requests are taken up one at a time in order until one is refused; an
answer is for the request taken up, once, with a status of its route; payloads
belong to answered requests whose route sends data, come one at a time, and are
whole when read to their end, or the server knows they failed. `BxpConnection`
defines the mapping (`Replies`, `Payloads`; `asked` is `reqLog`, `taken` is
`reqRead`) and `ImplementsService`.

`BxpSession` — the same connection with the client replaced by a program: a
list of calls with what the program asserts of each result. `BxpPrograms` holds
the repository's own: handlers, routes and client calls of both tests and the
three examples. `Fits` says when a program fits the routes of its server, in
terms of the text of the two alone:

| part of `Fits` | says |
|---|---|
| `Servable` | each request is one `receive_request` accepts; its handler responds, does not fail by itself, and sends or reads at most one payload |
| `StatusesFit` | a received status is the one the handler of that request gives, or the program has an `if` for another |
| `DownloadsFit` | the k-th stream read is labelled with the k-th request that asks for a payload |
| `DrainsFit` | a payload is drained before the next stream is read, and its expected length is the handler's |
| `UploadsFit` | the k-th upload is labelled with the k-th request whose handler reads one |

The k-th of a kind is found by `Rank`, which counts calls of that kind up to a
place in the program. All programs in play fit (`ProgramsFit`, evaluated by
TLC), those of the repository as well as the reordered ones.

`BxpTls`, `BxpAccept` — `BxpTls` says what `build_server_tls` makes of the build
feature and of the two files, and which clients go through with the handshake.
`BxpAccept` has `bind` (Ok, or Err for whatever reason), `accept()` in its three
awaits, the loop around it, and clients that dial, speak, stay silent, refuse
the certificate or leave at any point. A client that dials reaches the server
only while there is an endpoint (`Arrive`); when the loop ends the endpoint and
its queue go with it (`EndLoop`), and the clients it held wait for their own
timeout (`Leave`).

`MCBxp*` instantiate these for TLC. `*Proofs` hold the theorems.

Operators named "mutant" in a comment are deliberately wrong variants of the
definition that follows them (a dropped guard, a missing step). No
specification uses them; substituting one for the definition must make TLC
report the property it is paired with in `PROJECT.json`.

## Runs

| run | specification, bounds | shows |
|---|---|---|
| `router` | chains of 3 `route` calls, 3 actions × 2 URIs × 2 handlers | the nested map means "last registration of exactly this action and URI" |
| `data_plane` | 2 streams, payloads up to 2 chunks, window 1, 2 open streams, fair | no silent truncation; finished payloads are delivered; a sender whose source does not stall never hangs on a dead stream; every stream gives its slot back, so a waiting `open_uni` gets its turn |
| `connection` | 2 requests out of 7 kinds (routed, unrouted, failing handler, oversized, unknown action), 1 upload, window 1, 2 open streams per direction | correlation of responses and streams; no transfer outlives its handler; nothing is served after a rejected frame |
| `connection_live` | 2 requests out of 3 kinds (download, upload, oversized), one id, both endings of the task, control window of one frame, 1 open stream, server fair | the connection implements `BxpService`; the server hangs up at a refused frame only; the serving task ends after the connection has, unless its source stalls |
| `connection_reject` | with `wait_for_close`, server fair | **violated**: a rejected frame leaves it open |
| `session` | the 5 programs of the repository and 5 of other orders, both endings, payloads of up to 2 chunks, window 1, fair | the tests' assertions in every interleaving, no deadlock, uploads reach their handler |
| `session_pipelined` | one program | **violated**: a ping waits behind an unread payload |
| `accept` | 3 clients, two built with `tls-insecure`; 5 servers: `tls-insecure`, a certificate of an unknown CA, a trusted RSA one, an empty chain, a wrong key; server fair | while the loop lives `accept` passes over no client; no connection is without a task; all prompt clients are served |
| `accept_ends` | 3 `tls-insecure` clients; a `tls-insecure` server and one with an RSA certificate | **violated**: a failed handshake ends the loop |
| `accept_silent` | 3 clients, server fair | **violated**: a silent client blocks the others |
| `framing` | 2 messages of bodies 1, the limit (5) or one more, window of 3 bytes, 1 dropped call, fair | the bytes implement `BxpChannel`; the receiver gets out of step only behind a message that is too long; every message arrives |
| `framing_client` | the same with no effective limit | **violated**: `receive_response` allocates a body above the maximum |

Why the bounds suffice. A window of one chunk and payloads of two make the
writer wait for the reader; two streams are enough for one to be announced by
another; the stream limit of one in `connection_live` makes `open_uni` wait, its
control window of one frame a response. Its three kinds of request reach every
place the serving task may be in when the connection ends, and one id is enough
there: correlation is the `connection` run's question, and both `Refinement` and
`HangsUpOnRefusal` are proved for all requests. (The safety properties of the data plane are proved for any number of
streams.) Two requests give pipelining, a reused id (ids 1
and 2 for seven frames) and every pair of paths through the serving task. The
longest accepted length is 1 and the first rejected 2: only the comparison
with the limit matters. In `framing` the window is shorter than a header, so
both sides wait inside every part of a message; two messages and one dropped
call put the drop before, inside and behind either of them; a refused length is
followed by a further receive call. (Safety and the refinement hold for any
bounds by proof; the bounds matter for `FramesReceived` only.) Runs set `CHECK_DEADLOCK FALSE` because these systems
stop: a closed connection, a finished chain, a program that ended.

Fairness. tokio polls a task whose await is ready, so the serving task
(`ServerNext`), the programs of `BxpSession`, the loop of `BxpAccept`, and in
`BxpFraming` the pending `write_all` and the receiving loop have weak fairness
as a whole: some enabled step of the task is taken. In the data plane each call
is a task of its own. Nothing is assumed of the client in `BxpConnection`, of
the network (`LoseConnection` is never forced), of who sends, drops or closes in
`BxpFraming`, or of a client in `BxpAccept`. Nothing is assumed of payload
sources either: `SourceAnswers` is in no fairness condition, except in
`BxpSession`, where every source is a cursor or a file of the repository's own
programs and the step is the task's. What a liveness property needs beyond that
is its premise: `StoppedSenderReturns` and `SlotsComeBack` that sources do not
stall, `ServerTaskEnds` that the source of the payload at hand does not,
`PromptClientsServed` that no connected client stays silent, `FramesReceived`
that the stream is open and never torn. Without the premise the first three are
false, and so they are of the code: a `send_data_stream` whose source stalls
hangs whatever becomes of its connection, and the serving task with it.

## What the violated runs say

- **A rejected frame leaves the connection open** (`connection_reject`).
  `spec/spec.md:147` wants the connection terminated with code 1.
  `receive_request` (server.rs:150) only returns an error; the loop leaves for
  `wait_for_close`, and a client awaiting its response waits for ever.
- **Payloads block administrative traffic** (`session_pipelined`), contrary to
  `README.md:21`: the handler holds the task until the payload is written. A
  client that pipelines a ping behind a download larger than the window and
  awaits the ping first never gets it.
- **A failed handshake ends the accept loop** (`accept_ends`). The comment at
  server.rs:69 says `None` lets the loop continue; `while let Some` ends. A
  client that leaves is enough, and so is a `tls-insecure` client at a server
  with an RSA certificate (see below on certificates).
- **A silent client blocks the others** (`accept_silent`): `accept` waits for
  the first bytes of one client's control stream before it takes the next
  connection, contrary to "multiple clients concurrently" (server.rs:12).
- **The client has no length limit** (`framing_client`). `spec/spec.md:147`
  asks both endpoints to refuse a header above 1 MB; `receive_response`
  (client.rs:128) allocates what it says.

## Proofs

`tlapm` checks each proof module to the last leaf.

*BxpDataPlaneProofs*: `TypeCorrect`, `TruncationIsNeverSilent`. The latter is
not inductive: whether a FIN may be
met depends on what the sender had written when it left. `Coherent(s)` states
the relation between the two sides of one stream (what was read was sent, a call
that returned Ok sent everything, a FIN needs an ended call, the end needs a
FIN and every byte before it); each action changes one stream and keeps it
coherent. The lemmas about a step (`SenderStep`, `ReceiverStep`) do not mention
how the connection ends, so the connection can use them.

*BxpRouterProofs*: `TypeCorrect`, `LastWins`. The invariant says which pairs are in the table
and that each holds the handler of the last call of the history that named it.

*BxpConnectionProofs*, for any frames, routes, windows, limits and number of
requests:
- `TypeCorrect`, from `Shape`: types of the logs and counters, both data planes
  coherent (`DownP`, `UpP` are instances of `BxpDataPlaneProofs`), and the
  program counters' promises (a download under way has a stream, a running
  handler has a request).
- `RejectedIsLast`, inductive relative to `Shape`.
- `HangsUpOnRefusal`: the task can leave its loop on an open connection only at
  a refused frame, which stays in the log, and by `OneTransferAtATime` no
  payload is under way outside "streaming"; after the server hung up no stream
  is opened.
- `ResponsesMatch`. Needs `Served`: the running handler's request has been
  answered exactly when the handler passed its respond step. Without it nothing
  keeps a second response to the same request away. That no response passes over
  a request whose handler responds first (`NoGap`) follows from `Prompt`: on an
  open connection such a request has its response, or its handler has not taken
  a step yet.
- `OneTransfer`: inductive relative to `Shape`, because every way out of
  "streaming" ends the stream (`TransferEnds`).
- `StreamsFollow`: on top of `ResponsesMatch`. A handler at a send_data step has
  responded, so by `Served` its request is answered; from then on the logs only
  grow.

*BxpFramingProofs*: `TypeCorrect`, `RefusesTooLong` and `Refinement`: every step of the bytes is a
step of `BxpChannel` or none. That takes an invariant on the stream of bytes:
`Runs` (in front of a byte lie the earlier ones of its message), and, until the
stream is torn, `Follows` (bytes and messages follow one another), `Logged` (the
bytes of a complete message are those of its place in the log) and `Aligned`
(where the receiver is: at a boundary with as many messages received as lie
before it, or inside the message it is reading, with the length that message
announced). A decoded message is then the next of the log, and a refused length
that of the message the receiver is at.

*BxpServiceProofs*: `Refinement`, the connection implements `BxpService`. It
needs no invariant beyond those of *BxpConnectionProofs* (`Correlated` behind
`ResponsesMatch`, with `Served`; `OneTransferAtATime`; `RejectedFrameIsLast`)
and `Coherent` of each stream, which says that what is read to its end after an
Ok is whole. One lemma per kind of step shows the step of the service it is.

*BxpAcceptProofs*: `TypeCorrect` and `NobodyLost`, for any clients and any
deployments. `NobodyLost` promises a place in the queue only while the loop
lives; a connection has its task, or the `accept()` that works on it, for ever. `NobodyIsLost` counts occurrences in the queue and is not
inductive; `QueueOK` (no client is queued twice, none that has not arrived is)
and `Found` are.

*BxpSessionProofs*, for any programs that fit their routes, any routes, windows,
limits and either ending:
- `SessionIsConnection`: a session is a behaviour of `BxpConnection`
  (`Placed`: the program is always somewhere in one of the programs, so a call
  it makes is one the client may make). This needs nothing of the programs;
  `SessionImplementsService` and `SessionTypeCorrect` follow from it.
- `AssertionsNeverFail` and `UploadsMatch`, from `SessionInv`. That the status
  of a response is the expected one says nothing about how the program got
  there, so neither property is inductive. `SessionInv` places both parties in
  the text of the program: the client has completed its first n calls, and the
  server has taken the requests up to that of call q, somewhere behind it.
  Whatever the two count is then a rank: `reqLog` has as many frames as n calls
  send, the handlers up to q have written the responses, opened the downloads
  and taken the uploads that their requests ask for (`Done`), and each download
  is drained, handed out, being accepted or still waiting by its number
  (`ReceiverState`). The k-th response therefore answers the k-th request
  (`InOrder`), the k-th stream belongs to the k-th request that asks for one
  (`Shipped`), the k-th upload to the k-th upload call (`Offered`), and two
  places of equal rank are the same call (`RankNumbers`). Nothing of the
  server's place is claimed once the connection has ended.
- Behind it stands `Whole`, a second statement about one stream (in
  *BxpDataPlaneProofs*): while the connection lasts and no caller gives up, a FIN
  means that the call returned Ok, so no preamble is missing, no payload cut, no
  write stopped; `NothingFails` says the same of the serving task. `Steady`
  turns that into "errors come only from a lost path": the client is the only
  one to close, and closes last.

The lemmas about a step of one party show that it does not disturb the place of
the other (`ServerKeepsClient`, `ClientKeepsServer`); then there is one lemma
per call of a program and one per step of a running handler.

Assumptions, all evaluated by TLC in the runs: sizes are naturals and windows
and limits positive (`SizesAssumption`, `DataPlaneAssumption`,
`ConnectionAssumption`, `FramingAssumption`), routes hold handlers (`RoutesAssumption`), each handler
responds at most once and before it sends data (`HandlersAssumption`). The last
is what every handler of the repository does; the library does not enforce it,
and a handler that breaks it breaks correlation. The programs are sequences of
calls (`ProgramsAssumption`) and, for the two results about what they assert,
fit their routes (`ProgramsFit`).

Only model-checked: liveness (`FinishedIsDelivered`, `StoppedSenderReturns`,
`SlotsComeBack`, `ServerTaskEnds`, `RejectedFrameEndsConnection`, `ProgramsComplete`,
`PromptClientsServed`, `FramesReceived`), which is out of this prover's reach.
Every invariant and refinement the passing runs check is also proved;
`AllocationBounded` is false of a receiver without the limit (`framing_client`)
and a single comparison in one that has it. That a
program completes is not: `ProgramsFit` says nothing of windows, and a program
that asks for more than they hold before it reads waits for ever, as
`session_pipelined` shows.

## Abstractions and what is not modelled

- In `BxpConnection` messages are whole; `BxpFraming` justifies that for callers
  that do not drop calls. No caller in the repository drops these futures.
- What a torn stream's bytes decode to is left open: any length, any message.
- Cap'n Proto is not modelled: a message decodes or does not, and its length is
  a number.
- Payloads are counted in turns of the copy loop; bytes are not compared.
- A side learns of the end of the connection at its next operation, which may
  still return what had arrived. That a failed operation implies later ones
  fail too is not modelled, so there are more behaviours than the code has;
  `UploadMatchesRequest` is therefore stated for an open connection.
- `close` does not wait for acknowledgement; a receiver may lose anything it
  had not read. `FinishedIsDelivered` therefore promises delivery only while the
  connection is open: a payload whose `send_data_stream` returned Ok just before
  `close` may never arrive.
- A caller that waits in `open_uni` has no stream yet; it shows as a task that
  cannot go on (`HasCredit`), which `SlotsComeBack` and `ServerTaskEnds` are about.
- `UploadMatchesRequest` is for programs whose uploads come in the order of their
  requests. A handler that skips its upload, or uploads in another order, do mix
  payloads up: nothing compares ids.
- The idle timeout is `LoseConnection`, at any time.
- Response frames come from `send_response` only, so they always decode.
- Certificates are the kind of their key and whether a client's roots vouch for
  them. The listed schemes matter: a `tls-insecure` client does not reach a
  server with an RSA certificate, because `NoCertVerification` (client.rs:232)
  lists no RSA scheme TLS 1.3 uses, although client.rs:24 says that it skips all
  verification.

### Not modelled

- `build.rs` and `schema/bxp_capnp.rs`: schema compilation and generated
  accessors, without state or control of their own.
- ALPN (the same constant on both sides), why an address does not parse or
  cannot be bound (`BindFails` is a choice), `local_addr`, the keep-alive interval and the size of the receive window:
  values passed to quinn with no choice behind them.
- Printing and the latency figures of `examples/benchmark.rs`.
- TLS sessions, packets, congestion and loss below a QUIC stream, which quinn
  hides; what is taken from quinn is said at the head of each module and marked
  external in `PROJECT.json`.

## Plan

1. *(done)* `BxpProtocol`, `BxpRouting`, `BxpRouter`; `BxpDataPlane`;
   `BxpConnection`; `BxpSession`; `BxpAccept`; proofs of the invariants of the
   first three.
2. *(done)* `BxpFraming` and its refinement of `BxpChannel`, checked and proved;
   `BxpService` and its refinement by `BxpConnection`, checked and proved;
   `BxpTls`; `BxpPrograms`; `NobodyIsLost` for any set of clients.
3. *(done)* The safety of `BxpSession` for every program that fits the routes of
   its server.
4. Left: a composition of two `BxpFraming` with `BxpConnection` in place of its
   logs.
