------------------------------ MODULE BxpAccept ------------------------------
(***************************************************************************)
(* A BxpServer and the clients that dial it. The program around accept()   *)
(* is the one of the examples:                                             *)
(*                                                                         *)
(*   while let Some(connection) = server.accept().await {                  *)
(*       tokio::spawn(async move { ... });                                 *)
(*   }                                                                     *)
(*                                                                         *)
(* and owns the server: when the loop ends the endpoint goes with it, and  *)
(* with the endpoint the handshakes it had queued; connections accepted    *)
(* before live on. The task that serves a connection is BxpConnection's;   *)
(* here it only lives until its client is gone.                            *)
(*                                                                         *)
(* Of quinn: a handshake starts when the server awaits the Incoming;       *)
(* open_bi() tells the peer nothing until the first write; keep-alives     *)
(* hold an idle connection open, and a peer that vanished is noticed by    *)
(* the idle timeout.                                                       *)
(***************************************************************************)
EXTENDS BxpTls, Naturals, Sequences, FiniteSets

CONSTANTS
  Clients,     \* the clients
  Insecure,    \* those built with tls-insecure
  Deployments  \* how the server may have been built and set up

ASSUME ClientsAssumption ==
  /\ Insecure \subseteq Clients
  /\ Deployments \subseteq Deployment

VARIABLES
  setup,     \* the deployment at hand
  client,    \* where each client is
  spoke,     \* the clients that wrote on their control stream
  incoming,  \* handshakes the endpoint has not handed out yet
  loop,      \* where the server's program is
  current,   \* the client whose connection accept() is working on
  served     \* the clients whose connection has a serving task

vars == <<setup, client, spoke, incoming, loop, current, served>>

(***************************************************************************)
(* Whether the client goes through with the handshake.                     *)
(***************************************************************************)
Takes(c) == Accepts(c \in Insecure, ServerCert(setup))

Gone(c) == client[c] \in {"refused", "left"}

(***************************************************************************)
(* The server's program has ended, or has not come up.                     *)
(***************************************************************************)
Over == loop \in {"ended", "failed"}

EndpointExists == loop \in {"incoming", "handshake", "control"}

Init ==
  /\ setup \in Deployments
  /\ client = [c \in Clients |-> "new"]
  /\ spoke = {}
  /\ incoming = <<>>
  /\ loop = "binding"
  /\ current \in Clients
  /\ served = {}
-------------------------------------------------------------------------------
(***************************************************************************)
(* BxpClient::connect: the first packet leaves, again and again until it   *)
(* is answered, and the handshake is awaited.                              *)
(***************************************************************************)
Connect(c) ==
  /\ client[c] = "new"
  /\ client' = [client EXCEPT ![c] = "dialing"]
  /\ UNCHANGED <<setup, spoke, incoming, loop, current, served>>

(***************************************************************************)
(* A first packet reaches the server's endpoint, which queues it for       *)
(* accept().                                                               *)
(***************************************************************************)
Arrive(c) ==
  /\ client[c] = "dialing"
  /\ EndpointExists
  /\ client' = [client EXCEPT ![c] = "connecting"]
  /\ incoming' = Append(incoming, c)
  /\ UNCHANGED <<setup, spoke, loop, current, served>>

(***************************************************************************)
(* The connected client's first send_request.                              *)
(***************************************************************************)
Speak(c) ==
  /\ client[c] = "connected"
  /\ spoke' = spoke \cup {c}
  /\ client' = [client EXCEPT ![c] = "speaking"]
  /\ UNCHANGED <<setup, incoming, loop, current, served>>

(***************************************************************************)
(* The client closes, crashes, or gives up on a handshake that does not    *)
(* come (connect() returns Err after its own idle timeout).                *)
(***************************************************************************)
Leave(c) ==
  /\ client[c] \in {"dialing", "connecting", "connected", "speaking"}
  /\ client' = [client EXCEPT ![c] = "left"]
  /\ UNCHANGED <<setup, spoke, incoming, loop, current, served>>
-------------------------------------------------------------------------------
(***************************************************************************)
(* BxpServer::bind: Ok; or Err and the end of main, whatever the files     *)
(* hold (an address that does not parse, a port in use).                   *)
(***************************************************************************)
Bind ==
  /\ loop = "binding"
  /\ BuildsServerTls(setup)
  /\ loop' = "incoming"
  /\ UNCHANGED <<setup, client, spoke, incoming, current, served>>

BindFails ==
  /\ loop = "binding"
  /\ loop' = "failed"
  /\ UNCHANGED <<setup, client, spoke, incoming, current, served>>

(***************************************************************************)
(* accept: endpoint.accept().await?                                        *)
(***************************************************************************)
TakeIncoming ==
  /\ loop = "incoming"
  /\ incoming # <<>>
  /\ current' = Head(incoming)
  /\ incoming' = Tail(incoming)
  /\ loop' = "handshake"
  /\ UNCHANGED <<setup, client, spoke, served>>

(***************************************************************************)
(* Mutant of HandshakeOk: accept() moves on without the control stream.    *)
(***************************************************************************)
HandshakeOnly ==
  /\ loop = "handshake"
  /\ client[current] = "connecting"
  /\ Takes(current)
  /\ client' = [client EXCEPT ![current] = "connected"]
  /\ loop' = "incoming"
  /\ UNCHANGED <<setup, spoke, incoming, current, served>>

(***************************************************************************)
(* incoming.await is Ok.                                                   *)
(***************************************************************************)
HandshakeOk ==
  /\ loop = "handshake"
  /\ client[current] = "connecting"
  /\ Takes(current)
  /\ client' = [client EXCEPT ![current] = "connected"]
  /\ loop' = "control"
  /\ UNCHANGED <<setup, spoke, incoming, current, served>>

(***************************************************************************)
(* The loop ends and drops the server: the queue is gone, and whoever was  *)
(* in it, or dials from now on, waits for its own timeout.                 *)
(***************************************************************************)
EndLoop ==
  /\ loop' = "ended"
  /\ incoming' = <<>>

(***************************************************************************)
(* incoming.await is Err, because the client refuses the certificate or is *)
(* gone: accept() returns None, and `while let Some` ends.                 *)
(***************************************************************************)
HandshakeErr ==
  /\ loop = "handshake"
  /\ Gone(current) \/ ~Takes(current)
  /\ client' = [client EXCEPT ![current] = IF Gone(current) THEN @ ELSE "refused"]
  /\ EndLoop
  /\ UNCHANGED <<setup, spoke, current, served>>

(***************************************************************************)
(* Mutant of ControlOk: a connection is served before it has a control     *)
(* stream.                                                                 *)
(***************************************************************************)
ControlNotAwaited ==
  /\ loop = "control"
  /\ served' = served \cup {current}
  /\ loop' = "incoming"
  /\ UNCHANGED <<setup, client, spoke, incoming, current>>

(***************************************************************************)
(* Mutant of ControlOk: the connection is served in the loop itself.       *)
(***************************************************************************)
ControlServedInline ==
  /\ loop = "control"
  /\ current \in spoke
  /\ served' = served \cup {current}
  /\ loop' = IF Gone(current) THEN "incoming" ELSE "control"
  /\ UNCHANGED <<setup, client, spoke, incoming, current>>

(***************************************************************************)
(* accept_bi().await is Ok once the client wrote something, even if it has *)
(* left since; the loop spawns the serving task.                           *)
(***************************************************************************)
ControlOk ==
  /\ loop = "control"
  /\ current \in spoke
  /\ served' = served \cup {current}
  /\ loop' = "incoming"
  /\ UNCHANGED <<setup, client, spoke, incoming, current>>

(***************************************************************************)
(* accept_bi().await is Err: close(1, "control stream failed") and None.   *)
(***************************************************************************)
ControlErr ==
  /\ loop = "control"
  /\ Gone(current)
  /\ EndLoop
  /\ UNCHANGED <<setup, client, spoke, current, served>>

(***************************************************************************)
(* The serving task returns from wait_for_close.                           *)
(***************************************************************************)
TaskEnds(c) ==
  /\ c \in served
  /\ Gone(c)
  /\ served' = served \ {c}
  /\ UNCHANGED <<setup, client, spoke, incoming, loop, current>>

LoopNext ==
  \/ Bind \/ BindFails
  \/ TakeIncoming \/ HandshakeOk \/ HandshakeErr \/ ControlOk \/ ControlErr

Next ==
  \/ \E c \in Clients : Connect(c) \/ Arrive(c) \/ Speak(c) \/ Leave(c) \/ TaskEnds(c)
  \/ LoopNext

Spec == Init /\ [][Next]_vars

(***************************************************************************)
(* The server's tasks are polled. FairSpec promises nothing of a client or *)
(* of its packets.                                                         *)
(***************************************************************************)
ServerFairness == WF_vars(LoopNext) /\ \A c \in Clients : WF_vars(TaskEnds(c))

FairSpec == Spec /\ ServerFairness
-------------------------------------------------------------------------------
TypeOK ==
  /\ client \in [Clients -> {"new", "dialing", "connecting", "connected", "speaking",
                           "refused", "left"}]
  /\ spoke \subseteq Clients
  /\ incoming \in Seq(Clients)
  /\ setup \in Deployments
  /\ loop \in {"binding", "failed", "incoming", "handshake", "control", "ended"}
  /\ current \in Clients
  /\ served \subseteq spoke

(***************************************************************************)
(* However clients come and go, accept() works for one of them at a time   *)
(* and passes over none. While the loop lives a client that reached the    *)
(* endpoint is queued once, or its handshake is the one being awaited. A   *)
(* client whose handshake succeeded is served, or accept() awaits its      *)
(* control stream: that holds after the loop as well, so its end strands   *)
(* only clients that never had a connection; those it does strand.         *)
(***************************************************************************)
NobodyIsLost ==
  \A c \in Clients :
    /\ client[c] = "connecting" /\ ~Over =>
         \/ Cardinality({i \in DOMAIN incoming : incoming[i] = c}) = 1
         \/ loop = "handshake" /\ current = c
    /\ client[c] \in {"connected", "speaking"} /\ c \notin served =>
         loop = "control" /\ current = c

(***************************************************************************)
(* As long as the loop lives and no connected client stays silent, every   *)
(* client that reached the endpoint is served, unless it leaves or         *)
(* refuses the certificate: a connection is served by a task of its own    *)
(* and does not hold up the next one, however long it lasts.               *)
(***************************************************************************)
PromptClientsServed ==
  (\A c \in Clients : (client[c] = "connected") ~> (client[c] # "connected"))
    => \A c \in Clients : (client[c] = "connecting") ~> (c \in served \/ Gone(c) \/ Over)

(***************************************************************************)
(* server.rs:69: a failed handshake or control stream makes accept()       *)
(* return None "so the caller's accept loop can continue cleanly".         *)
(***************************************************************************)
AcceptLoopContinues == loop # "ended"

(***************************************************************************)
(* server.rs:12: "servers that can handle multiple clients concurrently".  *)
(* So a client the loop can reach gets its handshake, whatever the others  *)
(* do or do not do, as long as the loop lives and it waits.                *)
(***************************************************************************)
HandshakeNotBlocked ==
  \A c \in Clients : client[c] = "connecting" ~> (client[c] # "connecting" \/ Over)
=============================================================================
