--------------------------- MODULE BxpAcceptProofs ---------------------------
(***************************************************************************)
(* Proofs about the accept loop, for any number of clients, any mix of     *)
(* builds and any server set-up.                                           *)
(***************************************************************************)
EXTENDS BxpAccept, FiniteSetTheorems, TLAPS

(***************************************************************************)
(* The queue holds no client twice and none that has not reached the       *)
(* endpoint; this is what keeps one that does from being queued a second   *)
(* time.                                                                   *)
(***************************************************************************)
Queued(c) == \E i \in DOMAIN incoming : incoming[i] = c

QueueOK ==
  /\ \A i, j \in DOMAIN incoming : incoming[i] = incoming[j] => i = j
  /\ \A i \in DOMAIN incoming : client[incoming[i]] \notin {"new", "dialing"}

Found(c) ==
  /\ client[c] = "connecting" /\ ~Over => Queued(c) \/ (loop = "handshake" /\ current = c)
  /\ client[c] \in {"connected", "speaking"} /\ c \notin served => loop = "control" /\ current = c

IInv ==
  /\ TypeOK
  /\ QueueOK
  /\ \A c \in Clients : Found(c)
-------------------------------------------------------------------------------
LEMMA InitIInv == Init => IInv
<1> SUFFICES ASSUME Init PROVE IInv
  OBVIOUS
<1>1. /\ incoming = <<>> /\ served = {} /\ spoke = {} /\ loop = "binding"
      /\ current \in Clients /\ setup \in Deployments
      /\ client = [c \in Clients |-> "new"]
  BY DEF Init
<1>2. TypeOK
  BY <1>1 DEF TypeOK
<1>3. QueueOK /\ \A c \in Clients : Found(c)
  BY <1>1 DEF QueueOK, Found
<1> QED BY <1>2, <1>3 DEF IInv

(***************************************************************************)
(* What Append, Head and Tail do to the queue.                             *)
(***************************************************************************)
LEMMA QueueFacts ==
  ASSUME NEW q \in Seq(Clients)
  PROVE  /\ \A c \in Clients : /\ Append(q, c) \in Seq(Clients)
                               /\ DOMAIN Append(q, c) = DOMAIN q \cup {Len(q) + 1}
                               /\ Append(q, c)[Len(q) + 1] = c
                               /\ \A i \in DOMAIN q : Append(q, c)[i] = q[i] /\ i # Len(q) + 1
         /\ q # <<>> => /\ Head(q) \in Clients /\ Tail(q) \in Seq(Clients)
                        /\ 1 \in DOMAIN q /\ q[1] = Head(q)
                        /\ \A i \in DOMAIN Tail(q) : i + 1 \in DOMAIN q /\ Tail(q)[i] = q[i + 1]
                        /\ \A i \in DOMAIN q : i = 1 \/ \E j \in DOMAIN Tail(q) : i = j + 1
                        /\ DOMAIN Tail(q) \subseteq Nat
<1>1. q # <<>> => /\ Head(q) \in Clients /\ Tail(q) \in Seq(Clients)
                  /\ 1 \in DOMAIN q /\ q[1] = Head(q)
                  /\ Len(Tail(q)) = Len(q) - 1
                  /\ \A i \in DOMAIN Tail(q) : i + 1 \in DOMAIN q /\ Tail(q)[i] = q[i + 1]
  OBVIOUS
<1>2. q # <<>> => \A i \in DOMAIN q : i = 1 \/ \E j \in DOMAIN Tail(q) : i = j + 1
  <2> SUFFICES ASSUME q # <<>>, NEW i \in DOMAIN q, i # 1
               PROVE  i - 1 \in DOMAIN Tail(q) /\ i = (i - 1) + 1
    OBVIOUS
  <2> QED BY <1>1
<1>3. \A c \in Clients : /\ Append(q, c) \in Seq(Clients)
                         /\ DOMAIN Append(q, c) = DOMAIN q \cup {Len(q) + 1}
                         /\ Append(q, c)[Len(q) + 1] = c
                         /\ \A i \in DOMAIN q : Append(q, c)[i] = q[i] /\ i # Len(q) + 1
  OBVIOUS
<1> QED BY <1>1, <1>2, <1>3

LEMMA ClientIInv ==
  ASSUME IInv, NEW c \in Clients,
         Connect(c) \/ Arrive(c) \/ Speak(c) \/ Leave(c) \/ TaskEnds(c)
  PROVE  IInv'
<1> USE DEF IInv
<1>1. CASE Arrive(c)
  <2>1. /\ client[c] = "dialing" /\ client' = [client EXCEPT ![c] = "connecting"]
        /\ incoming' = Append(incoming, c) /\ incoming \in Seq(Clients)
        /\ UNCHANGED <<setup, spoke, loop, current, served>>
    BY <1>1 DEF Arrive, TypeOK
  <2>2. /\ incoming' \in Seq(Clients)
        /\ DOMAIN incoming' = DOMAIN incoming \cup {Len(incoming) + 1}
        /\ incoming'[Len(incoming) + 1] = c
        /\ \A i \in DOMAIN incoming : incoming'[i] = incoming[i] /\ i # Len(incoming) + 1
                                      /\ incoming[i] \in Clients
    BY <2>1, QueueFacts
  <2>3. TypeOK'
    BY <2>1, <2>2 DEF TypeOK
  <2>4. \A i \in DOMAIN incoming : incoming[i] # c
    BY <2>1 DEF QueueOK
  <2>5. QueueOK'
    BY <2>1, <2>2, <2>4 DEF QueueOK, TypeOK
  <2>6. \A d \in Clients : Found(d)'
    BY <2>1, <2>2 DEF Found, Queued, TypeOK, Over
  <2> QED BY <2>3, <2>5, <2>6
<1>2. CASE Speak(c)
  <2>1. TypeOK'
    BY <1>2 DEF Speak, TypeOK
  <2>2. QueueOK'
    BY <1>2 DEF Speak, TypeOK, QueueOK
  <2>3. \A d \in Clients : Found(d)'
    BY <1>2 DEF Speak, TypeOK, Found, Queued, Over
  <2> QED BY <2>1, <2>2, <2>3
<1>3. CASE Leave(c)
  <2>1. TypeOK'
    BY <1>3 DEF Leave, TypeOK
  <2>2. QueueOK'
    BY <1>3 DEF Leave, TypeOK, QueueOK
  <2>3. \A d \in Clients : Found(d)'
    BY <1>3 DEF Leave, TypeOK, Found, Queued, Over
  <2> QED BY <2>1, <2>2, <2>3
<1>4. CASE TaskEnds(c)
  <2>1. TypeOK' /\ QueueOK'
    BY <1>4 DEF TaskEnds, TypeOK, QueueOK
  <2>2. \A d \in Clients : Found(d)'
    BY <1>4 DEF TaskEnds, Gone, Found, Queued, Over
  <2> QED BY <2>1, <2>2
<1>5. CASE Connect(c)
  <2>1. TypeOK'
    BY <1>5 DEF Connect, TypeOK
  <2>2. QueueOK'
    BY <1>5 DEF Connect, TypeOK, QueueOK
  <2>3. \A d \in Clients : Found(d)'
    BY <1>5 DEF Connect, TypeOK, Found, Queued, Over
  <2> QED BY <2>1, <2>2, <2>3
<1> QED BY <1>1, <1>2, <1>3, <1>4, <1>5

LEMMA LoopIInv == ASSUME IInv, LoopNext PROVE IInv'
<1> USE DEF IInv
<1>1. CASE Bind \/ BindFails
  <2>1. TypeOK' /\ QueueOK'
    BY <1>1 DEF Bind, BindFails, TypeOK, QueueOK
  <2>2. \A d \in Clients : Found(d)'
    BY <1>1 DEF Bind, BindFails, Found, Queued, Over
  <2> QED BY <2>1, <2>2
<1>2. CASE TakeIncoming
  <2>1. /\ loop = "incoming" /\ loop' = "handshake" /\ incoming # <<>>
        /\ current' = Head(incoming) /\ incoming' = Tail(incoming)
        /\ incoming \in Seq(Clients)
        /\ UNCHANGED <<setup, client, spoke, served>>
    BY <1>2 DEF TakeIncoming, TypeOK
  <2>2. /\ current' \in Clients /\ incoming' \in Seq(Clients)
        /\ 1 \in DOMAIN incoming /\ incoming[1] = current'
        /\ \A i \in DOMAIN incoming' : i + 1 \in DOMAIN incoming /\ incoming'[i] = incoming[i + 1]
        /\ \A i \in DOMAIN incoming : i = 1 \/ \E j \in DOMAIN incoming' : i = j + 1
        /\ DOMAIN incoming' \subseteq Nat
    BY <2>1, QueueFacts
  <2>3. TypeOK'
    BY <2>1, <2>2 DEF TypeOK
  <2>4. QueueOK'
    <3>1. ASSUME NEW i \in DOMAIN incoming', NEW j \in DOMAIN incoming',
                 incoming'[i] = incoming'[j]
          PROVE  i = j
      <4>1. i + 1 = j + 1
        BY <2>2, <3>1 DEF QueueOK
      <4> QED BY <2>2, <4>1
    <3>2. \A i \in DOMAIN incoming' : client'[incoming'[i]] \notin {"new", "dialing"}
      BY <2>1, <2>2 DEF QueueOK
    <3> QED BY <3>1, <3>2 DEF QueueOK
  <2>5. ASSUME NEW d \in Clients PROVE Found(d)'
    <3>1. Queued(d) => d = current' \/ Queued(d)'
      BY <2>2 DEF Queued
    <3>2. Found(d)
      OBVIOUS
    <3>3. ~Over /\ ~Over'
      BY <2>1 DEF Over
    <3> QED BY <2>1, <3>1, <3>2, <3>3 DEF Found
  <2> QED BY <2>3, <2>4, <2>5
<1>3. CASE HandshakeOk
  <2>1. TypeOK'
    BY <1>3 DEF HandshakeOk, TypeOK
  <2>2. QueueOK'
    BY <1>3 DEF HandshakeOk, TypeOK, QueueOK
  <2>3. \A d \in Clients : Found(d)'
    BY <1>3 DEF HandshakeOk, TypeOK, Found, Queued, Over
  <2> QED BY <2>1, <2>2, <2>3
<1>4. CASE HandshakeErr
  <2>1. TypeOK'
    BY <1>4 DEF HandshakeErr, EndLoop, TypeOK, Gone
  <2>2. QueueOK'
    BY <1>4 DEF HandshakeErr, EndLoop, QueueOK
  <2>3. \A d \in Clients : Found(d)'
    BY <1>4 DEF HandshakeErr, EndLoop, TypeOK, Found, Over, Gone
  <2> QED BY <2>1, <2>2, <2>3
<1>5. CASE ControlOk
  <2>1. TypeOK' /\ QueueOK'
    BY <1>5 DEF ControlOk, TypeOK, QueueOK
  <2>2. \A d \in Clients : Found(d)'
    BY <1>5 DEF ControlOk, Found, Queued, Over
  <2> QED BY <2>1, <2>2
<1>6. CASE ControlErr
  BY <1>6 DEF ControlErr, EndLoop, TypeOK, QueueOK, Found, Over, Gone
<1> QED BY <1>1, <1>2, <1>3, <1>4, <1>5, <1>6 DEF LoopNext

LEMMA NextIInv == IInv /\ [Next]_vars => IInv'
<1>1. ASSUME IInv, UNCHANGED vars PROVE IInv'
  BY <1>1 DEF vars, IInv, TypeOK, QueueOK, Found, Queued, Over
<1> QED BY <1>1, ClientIInv, LoopIInv DEF Next

LEMMA Invariance == Spec => []IInv
BY InitIInv, NextIInv, PTL DEF Spec

(***************************************************************************)
(* Type correctness of the accept loop; only a client that wrote on its    *)
(* control stream is ever served.                                          *)
(***************************************************************************)
THEOREM TypeCorrect == Spec => []TypeOK
<1>1. IInv => TypeOK
  BY DEF IInv
<1> QED BY <1>1, Invariance, PTL

(***************************************************************************)
(* However many clients come and go, and in whatever order: while the loop *)
(* lives accept() passes over none that reached the endpoint, and no       *)
(* connection is ever left without the task or the accept() it waits for.  *)
(***************************************************************************)
THEOREM NobodyLost == Spec => []NobodyIsLost
<1>1. ASSUME IInv, NEW c \in Clients, Queued(c)
      PROVE  Cardinality({i \in DOMAIN incoming : incoming[i] = c}) = 1
  <2>1. PICK k \in DOMAIN incoming : incoming[k] = c
    BY <1>1 DEF Queued
  <2>2. {i \in DOMAIN incoming : incoming[i] = c} = {k}
    BY <1>1, <2>1 DEF IInv, QueueOK
  <2> QED BY <2>2, FS_Singleton
<1>2. IInv => NobodyIsLost
  BY <1>1 DEF IInv, Found, NobodyIsLost
<1> QED BY <1>2, Invariance, PTL
=============================================================================
