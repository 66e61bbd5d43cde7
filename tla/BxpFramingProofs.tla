-------------------------- MODULE BxpFramingProofs ---------------------------
(***************************************************************************)
(* The bytes of the control stream are a channel of messages, for any      *)
(* messages, limits and window. The invariant relates three positions: how *)
(* the bytes of a message lie on the stream (Runs), how messages follow    *)
(* one another until the stream is torn (Follows, Logged), and where the   *)
(* receiver is between them (Aligned).                                     *)
(***************************************************************************)
EXTENDS BxpFraming, TLAPS

Last == stream[Len(stream)]

(***************************************************************************)
(* Torn or not, in front of every byte lie the earlier bytes of its        *)
(* message, and the byte written last is the writer's.                     *)
(***************************************************************************)
Runs ==
  /\ \A p \in 1..Len(stream) :
       /\ stream[p].part \in 1..p
       /\ stream[p].part <= Size(stream[p].frame)
       /\ stream[p].after <= Len(log)
       /\ stream[p].part = Size(stream[p].frame) => stream[p].after < Len(log)
       /\ \A i \in 1..stream[p].part :
            stream[p - stream[p].part + i] = [stream[p] EXCEPT !.part = i]
  /\ out = None => put = 0
  /\ out # None => put < Size(out)
  /\ put > 0 => /\ stream # <<>>
                /\ Last = [frame |-> out, part |-> put, after |-> Len(log)]

(***************************************************************************)
(* Bytes follow one another, and messages as well.                         *)
(***************************************************************************)
Follows ==
  /\ stream # <<>> => stream[1].after = 0
  /\ \A p \in 1..(Len(stream) - 1) :
       IF stream[p].part < Size(stream[p].frame)
       THEN stream[p + 1] = [stream[p] EXCEPT !.part = @ + 1]
       ELSE stream[p + 1].part = 1 /\ stream[p + 1].after = stream[p].after + 1

(***************************************************************************)
(* The bytes of a complete message are those of its place in the log; the  *)
(* others are the writer's.                                                *)
(***************************************************************************)
Logged ==
  /\ \A p \in 1..Len(stream) :
       stream[p].after < Len(log) => stream[p].frame = log[stream[p].after + 1]
  /\ open => /\ \A p \in 1..Len(stream) :
                  stream[p].after = Len(log) => put > 0 /\ stream[p].frame = out
             /\ stream = <<>> => log = <<>>
             /\ stream # <<>> /\ put = 0 => /\ Last.part = Size(Last.frame)
                                            /\ Last.after + 1 = Len(log)

(***************************************************************************)
(* n messages lie before position p, which is the end of the last.         *)
(***************************************************************************)
Boundary(p, n) ==
  IF p = 0 THEN n = 0
  ELSE stream[p].part = Size(stream[p].frame) /\ stream[p].after + 1 = n

(***************************************************************************)
(* The byte read last is the k-th of the message the receiver is at.       *)
(***************************************************************************)
Inside(k) == pos > 0 /\ stream[pos].part = k /\ stream[pos].after = Len(got)

Aligned ==
  /\ rpc = "idle" => Boundary(pos, Len(got))
  /\ rpc = "header" => IF have = 0 THEN Boundary(pos, Len(got)) ELSE Inside(have)
  /\ rpc = "body" => Inside(HEADER + have) /\ need = stream[pos].frame.len
  /\ Len(got) <= Len(log)
  /\ \A i \in 1..Len(got) : got[i] = log[i]

Asked == rpc = "header" => need = HEADER

Inv ==
  /\ TypeOK /\ Runs /\ Asked
  /\ ~torn => Follows /\ Logged /\ Aligned
-------------------------------------------------------------------------------
LEMMA FrameFacts ==
  /\ \A f \in Frames : f.len \in Nat
  /\ None \notin Frames
BY FramingAssumption

LEMMA AppendFacts ==
  ASSUME NEW S, NEW s \in Seq(S), NEW e \in S
  PROVE  /\ Append(s, e) \in Seq(S)
         /\ Len(Append(s, e)) = Len(s) + 1
         /\ Append(s, e)[Len(s) + 1] = e
         /\ \A i \in 1..Len(s) : Append(s, e)[i] = s[i]
         /\ Append(s, e) # <<>>
OBVIOUS

LEMMA StreamFacts ==
  ASSUME TypeOK
  PROVE  /\ stream \in Seq(Byte) /\ Len(stream) \in Nat /\ (stream = <<>> <=> Len(stream) = 0)
         /\ log \in Seq(Frames) /\ Len(log) \in Nat /\ (log = <<>> <=> Len(log) = 0)
         /\ put \in Nat
         /\ \A p \in 1..Len(stream) : stream[p].frame \in Frames /\ stream[p].part \in Nat
                                      /\ stream[p].after \in Nat
<1>1. stream \in Seq(Byte) /\ log \in Seq(Frames) /\ put \in Nat
  BY DEF TypeOK
<1>2. \A p \in 1..Len(stream) : stream[p] \in Byte
  BY <1>1
<1>3. \A p \in 1..Len(stream) : stream[p].frame \in Frames /\ stream[p].part \in Nat
                               /\ stream[p].after \in Nat
  BY <1>2 DEF Byte
<1>4. Len(stream) \in Nat /\ (stream = <<>> <=> Len(stream) = 0)
      /\ Len(log) \in Nat /\ (log = <<>> <=> Len(log) = 0)
  BY <1>1
<1>5. QED BY <1>1, <1>3, <1>4

LEMMA InitInv == Init => Inv
<1> SUFFICES ASSUME Init PROVE Inv
  OBVIOUS
<1>1. TypeOK
  <2>1. \A S : <<>> \in Seq(S)
    OBVIOUS
  <2>2. Len(<<>>) = 0
    OBVIOUS
  <2>3. log \in Seq(Frames) /\ stream \in Seq(Byte) /\ got \in Seq(Frames \cup {Garbled})
    BY <2>1 DEF Init
  <2>4. Len(stream) = 0
    BY <2>2 DEF Init
  <2>5. /\ open \in BOOLEAN /\ torn \in BOOLEAN /\ drops \in Nat /\ put \in Nat
        /\ out \in Frames \cup {None} /\ need \in Nat /\ have \in 0..need
        /\ rpc \in {"idle", "header", "body", "failed"}
    <3>1. open = TRUE /\ torn = FALSE
      BY DEF Init
    <3>2. /\ drops = 0 /\ put = 0 /\ out = None /\ need = 0 /\ have = 0 /\ rpc = "idle"
      BY DEF Init
    <3>3. open \in BOOLEAN /\ torn \in BOOLEAN
      BY <3>1
    <3>4. drops \in Nat /\ put \in Nat /\ need \in Nat /\ have \in 0..need
      BY <3>2
    <3>5. out \in Frames \cup {None} /\ rpc \in {"idle", "header", "body", "failed"}
      BY <3>2
    <3>6. QED BY <3>3, <3>4, <3>5
  <2>6. pos \in 0..Len(stream)
    <3>1. pos = 0
      BY DEF Init
    <3>2. QED BY <2>4, <3>1
  <2>7. QED BY <2>3, <2>5, <2>6 DEF TypeOK
<1>2. Len(stream) = 0 /\ stream = <<>> /\ Len(log) = 0 /\ Len(got) = 0 /\ put = 0 /\ out = None
  BY DEF Init
<1>3. Runs
  BY <1>2 DEF Runs
<1>4. Asked /\ Aligned
  BY <1>2 DEF Init, Asked, Aligned, Boundary
<1>5. Follows
  BY <1>2 DEF Follows
<1>6. Logged
  BY <1>2 DEF Init, Logged
<1>7. QED BY <1>1, <1>3, <1>4, <1>5, <1>6 DEF Inv

(***************************************************************************)
(* What a write adds to the stream, and to the log when it is the last of  *)
(* its message.                                                            *)
(***************************************************************************)
NextByte == [frame |-> out, part |-> put + 1, after |-> Len(log)]

LEMMA Written ==
  ASSUME TypeOK, WriteByte
  PROVE  /\ out \in Frames /\ NextByte \in Byte
         /\ stream' \in Seq(Byte)
         /\ Len(stream') = Len(stream) + 1
         /\ stream'[Len(stream) + 1] = NextByte
         /\ \A p \in 1..Len(stream) : stream'[p] = stream[p]
         /\ stream' # <<>>
         /\ log' \in Seq(Frames)
         /\ \/ /\ put + 1 < Size(out) /\ put' = put + 1 /\ out' = out /\ log' = log
            \/ /\ put + 1 = Size(out) /\ put' = 0 /\ out' = None
               /\ Len(log') = Len(log) + 1 /\ log'[Len(log) + 1] = out
               /\ \A i \in 1..Len(log) : log'[i] = log[i]
<1>1. out \in Frames /\ put \in Nat /\ log \in Seq(Frames) /\ stream \in Seq(Byte)
  BY DEF TypeOK, WriteByte
<1>2. NextByte \in Byte
  BY <1>1 DEF NextByte, Byte
<1>3. stream' = Append(stream, NextByte)
  BY DEF WriteByte, NextByte
<1>4. CASE put + 1 < Size(out) /\ put' = put + 1 /\ UNCHANGED <<log, out>>
  BY <1>1, <1>2, <1>3, <1>4, AppendFacts
<1>5. CASE put + 1 = Size(out) /\ put' = 0 /\ out' = None /\ log' = Append(log, out)
  <2>1. /\ log' \in Seq(Frames)
        /\ Len(log') = Len(log) + 1 /\ log'[Len(log) + 1] = out
        /\ \A i \in 1..Len(log) : log'[i] = log[i]
    BY <1>1, <1>5, AppendFacts
  <2>2. QED BY <1>1, <1>2, <1>3, <1>5, <2>1, AppendFacts
<1>6. QED BY <1>4, <1>5 DEF WriteByte

LEMMA Decoded ==
  ASSUME TypeOK, Decode
  PROVE  \E m \in Frames \cup {Garbled} : got' = Append(got, m)
<1> DEFINE m == IF ReadFromStart(HEADER + need) /\ Size(stream[pos].frame) = HEADER + need
                THEN stream[pos].frame ELSE Garbled
<1>1. ReadFromStart(HEADER + need) => stream[pos].frame \in Frames
  <2>1. ReadFromStart(HEADER + need) => pos \in 1..Len(stream)
    BY DEF TypeOK, ReadFromStart, HEADER
  <2>2. \A p \in 1..Len(stream) : stream[p] \in Byte
    BY DEF TypeOK
  <2>3. QED BY <2>1, <2>2 DEF Byte
<1>2. m \in Frames \cup {Garbled} /\ got' = Append(got, m)
  BY <1>1 DEF Decode
<1>3. QED BY <1>2

LEMMA StepType ==
  ASSUME TypeOK, [Next]_vars
  PROVE  TypeOK'
<1> USE DEF TypeOK, wvars, rvars
<1>1. ASSUME NEW f \in Frames, BeginSend(f)
      PROVE  TypeOK'
  BY <1>1 DEF BeginSend
<1>2. CASE WriteByte
  <2>1. /\ stream' \in Seq(Byte) /\ Len(stream') = Len(stream) + 1
        /\ log' \in Seq(Frames) /\ put' \in Nat /\ out' \in Frames \cup {None}
    BY <1>2, Written
  <2>2. QED BY <1>2, <2>1 DEF WriteByte
<1>3. CASE WriteFails
  BY <1>3 DEF WriteFails
<1>4. CASE DropSend
  BY <1>4 DEF DropSend
<1>5. CASE BeginReceive
  BY <1>5 DEF BeginReceive, HEADER
<1>6. CASE ReadByte
  BY <1>6 DEF ReadByte, Awaiting
<1>7. ASSUME NEW n \in 0..MaxLen, TakeLength(n)
      PROVE  TypeOK'
  BY <1>7, FramingAssumption DEF TakeLength
<1>8. ASSUME NEW n \in 0..MaxLen, RefuseLength(n)
      PROVE  TypeOK'
  BY <1>8 DEF RefuseLength
<1>9. CASE Decode
  <2>1. got' \in Seq(Frames \cup {Garbled})
    BY <1>9, Decoded, AppendFacts
  <2>2. QED BY <1>9, <2>1 DEF Decode
<1>10. CASE DropReceive
  BY <1>10 DEF DropReceive
<1>11. CASE ReadFails
  BY <1>11 DEF ReadFails
<1>12. CASE Close
  BY <1>12 DEF Close
<1>13. CASE UNCHANGED vars
  BY <1>13 DEF vars
<1>14. QED
  BY <1>1, <1>2, <1>3, <1>4, <1>5, <1>6, <1>7, <1>8, <1>9, <1>10, <1>11, <1>12, <1>13
  DEF Next, Sending, Receiving

LEMMA StepAsked ==
  ASSUME TypeOK, Asked, [Next]_vars
  PROVE  Asked'
<1> USE DEF Asked
<1>1. CASE BeginReceive
  BY <1>1 DEF BeginReceive
<1>2. CASE UNCHANGED <<rpc, need>>
  BY <1>2
<1>3. CASE rpc' # "header"
  BY <1>3
<1>4. QED
  BY <1>1, <1>2, <1>3
  DEF Next, Sending, Receiving, BeginSend, WriteByte, WriteFails, DropSend, ReadByte,
      TakeLength, RefuseLength, Decode, DropReceive, ReadFails, Close, vars, rvars

LEMMA StepRuns ==
  ASSUME TypeOK, Runs, [Next]_vars
  PROVE  Runs'
<1>1. ASSUME NEW f \in Frames, BeginSend(f)
      PROVE  Runs'
  <2>1. /\ put = 0 /\ put' = 0 /\ out' \in Frames /\ 0 < Size(out') /\ out' # None
        /\ stream' = stream /\ log' = log
    BY <1>1, FrameFacts DEF BeginSend, Runs, Size, HEADER
  <2>2. QED BY <2>1 DEF Runs
<1>2. CASE WriteByte
  <2>1. out \in Frames /\ put \in Nat /\ put + 1 <= Size(out) /\ Size(out) \in Nat
        /\ stream \in Seq(Byte) /\ Len(stream) \in Nat /\ Len(log) \in Nat
    <3>1. out \in Frames /\ out # None /\ out.len \in Nat
      BY <1>2, Written, FrameFacts
    <3>2. put \in Nat /\ stream \in Seq(Byte) /\ log \in Seq(Frames)
      BY DEF TypeOK
    <3>3. put < Size(out)
      BY <3>1 DEF Runs
    <3>4. Size(out) \in Nat
      BY <3>1 DEF Size, HEADER
    <3>5. QED BY <3>1, <3>2, <3>3, <3>4
  <2>2. Len(log') \in Nat /\ Len(log') >= Len(log) /\ (put + 1 = Size(out) => Len(log') = Len(log) + 1)
    BY <1>2, <2>1, Written
  <2>3. put > 0 => /\ Len(stream) > 0 /\ put <= Len(stream)
                   /\ stream[Len(stream)] = [frame |-> out, part |-> put, after |-> Len(log)]
    <3>1. put > 0 => stream # <<>> /\ Last = [frame |-> out, part |-> put, after |-> Len(log)]
      BY DEF Runs
    <3>2. stream # <<>> => Len(stream) > 0
      BY <2>1
    <3>3. Len(stream) > 0 => Last.part \in 1..Len(stream)
      BY <2>1 DEF Runs, Last
    <3>4. QED BY <3>1, <3>2, <3>3 DEF Last
  <2>4. ASSUME NEW p \in 1..Len(stream)
        PROVE  /\ stream'[p].part \in 1..p
               /\ stream'[p].part <= Size(stream'[p].frame)
               /\ stream'[p].after <= Len(log')
               /\ stream'[p].part = Size(stream'[p].frame) => stream'[p].after < Len(log')
               /\ \A i \in 1..stream'[p].part :
                    stream'[p - stream'[p].part + i] = [stream'[p] EXCEPT !.part = i]
    <3>1. stream[p] \in Byte /\ stream'[p] = stream[p]
      BY <1>2, <2>1, Written
    <3>2. /\ stream[p].part \in 1..p
          /\ stream[p].part <= Size(stream[p].frame)
          /\ stream[p].after <= Len(log)
          /\ stream[p].part = Size(stream[p].frame) => stream[p].after < Len(log)
          /\ \A i \in 1..stream[p].part :
               stream[p - stream[p].part + i] = [stream[p] EXCEPT !.part = i]
      BY DEF Runs
    <3>3. \A i \in 1..stream[p].part : p - stream[p].part + i \in 1..Len(stream)
      BY <2>1, <3>2
    <3>4. \A i \in 1..stream[p].part :
            stream'[p - stream[p].part + i] = stream[p - stream[p].part + i]
      BY <1>2, <3>3, Written
    <3>5. stream[p].after \in Nat
      BY <3>1 DEF Byte
    <3>6. QED BY <2>2, <2>1, <3>1, <3>2, <3>4, <3>5
  <2>5. ASSUME NEW p \in {Len(stream) + 1}
        PROVE  /\ stream'[p].part \in 1..p
               /\ stream'[p].part <= Size(stream'[p].frame)
               /\ stream'[p].after <= Len(log')
               /\ stream'[p].part = Size(stream'[p].frame) => stream'[p].after < Len(log')
               /\ \A i \in 1..stream'[p].part :
                    stream'[p - stream'[p].part + i] = [stream'[p] EXCEPT !.part = i]
    <3>1. /\ p = Len(stream) + 1 /\ stream'[p] = NextByte
          /\ NextByte.part = put + 1 /\ NextByte.frame = out /\ NextByte.after = Len(log)
      BY <1>2, Written DEF NextByte
    <3>2. ASSUME NEW i \in 1..put
          PROVE  stream'[Len(stream) - put + i] = [NextByte EXCEPT !.part = i]
      <4>1. /\ put \in 1..Len(stream) /\ Len(stream) \in 1..Len(stream)
            /\ stream[Len(stream)] = [frame |-> out, part |-> put, after |-> Len(log)]
        BY <2>1, <2>3
      <4>2. stream[Len(stream) - put + i] = [stream[Len(stream)] EXCEPT !.part = i]
        <5>1. \A q \in 1..Len(stream) : \A j \in 1..stream[q].part :
                stream[q - stream[q].part + j] = [stream[q] EXCEPT !.part = j]
          BY DEF Runs
        <5>2. stream[Len(stream)].part = put
          BY <4>1
        <5>3. QED BY <4>1, <5>1, <5>2
      <4>3. Len(stream) - put + i \in 1..Len(stream)
        BY <2>1, <4>1
      <4>4. [stream[Len(stream)] EXCEPT !.part = i] = [NextByte EXCEPT !.part = i]
        BY <4>1 DEF NextByte
      <4>5. QED BY <1>2, <4>2, <4>3, <4>4, Written
    <3>3. stream'[Len(stream) + 1] = [NextByte EXCEPT !.part = put + 1]
      BY <3>1 DEF NextByte
    <3>4. \A i \in 1..(put + 1) : stream'[p - (put + 1) + i] = [NextByte EXCEPT !.part = i]
      <4>1. ASSUME NEW i \in 1..(put + 1)
            PROVE  stream'[p - (put + 1) + i] = [NextByte EXCEPT !.part = i]
        <5>1. p - (put + 1) + i = Len(stream) - put + i
          BY <2>1, <3>1
        <5>2. CASE i \in 1..put
          BY <3>2, <5>1, <5>2
        <5>3. CASE i = put + 1
          <6>1. Len(stream) - put + i = Len(stream) + 1
            BY <2>1, <5>3
          <6>2. QED BY <3>3, <5>1, <5>3, <6>1
        <5>4. QED BY <2>1, <5>2, <5>3
      <4>2. QED BY <4>1
    <3>5. put <= Len(stream)
      BY <2>1, <2>3
    <3>6. QED BY <2>1, <2>2, <3>1, <3>4, <3>5
  <2>6. \A p \in 1..Len(stream') : p \in 1..Len(stream) \/ p \in {Len(stream) + 1}
    BY <1>2, <2>1, Written
  <2>7. /\ out' = None => put' = 0
        /\ out' # None => put' < Size(out')
        /\ put' > 0 => out' = out /\ put' = put + 1 /\ log' = log
    BY <1>2, <2>1, Written, FrameFacts
  <2>8. put' > 0 => /\ stream' # <<>>
                    /\ Last' = [frame |-> out', part |-> put', after |-> Len(log')]
    BY <1>2, <2>7, Written DEF Last, NextByte
  <2>9. QED BY <2>4, <2>5, <2>6, <2>7, <2>8 DEF Runs
<1>3. CASE WriteFails \/ DropSend
  BY <1>3 DEF WriteFails, DropSend, Runs
<1>4. CASE UNCHANGED wvars
  BY <1>4 DEF wvars, Runs, Last
<1>5. QED
  BY <1>1, <1>2, <1>3, <1>4
  DEF Next, Sending, Receiving, BeginReceive, ReadByte, TakeLength, RefuseLength, Decode,
      DropReceive, ReadFails, Close, vars

-------------------------------------------------------------------------------
(***************************************************************************)
(* As long as nothing tore the stream: what a write appends continues the  *)
(* last message or begins the next.                                        *)
(***************************************************************************)
LEMMA StepFollows ==
  ASSUME TypeOK, Runs, Follows, Logged, [Next]_vars
  PROVE  Follows'
<1>1. CASE WriteByte
  <2>1. /\ stream \in Seq(Byte) /\ Len(stream) \in Nat /\ Len(log) \in Nat /\ put \in Nat
        /\ log = <<>> => Len(log) = 0
        /\ stream = <<>> <=> Len(stream) = 0
    BY StreamFacts
  <2>2. open /\ out # None
    BY <1>1 DEF WriteByte
  <2>3. /\ Len(stream') = Len(stream) + 1
        /\ stream'[Len(stream) + 1] = NextByte
        /\ \A p \in 1..Len(stream) : stream'[p] = stream[p]
        /\ NextByte.part = put + 1 /\ NextByte.after = Len(log) /\ NextByte.frame = out
    BY <1>1, Written DEF NextByte
  <2>4. stream'[1].after = 0
    <3>1. CASE stream = <<>>
      <4>1. Len(log) = 0
        BY <2>1, <2>2, <3>1 DEF Logged
      <4>2. QED BY <2>1, <2>3, <3>1, <4>1
    <3>2. CASE stream # <<>>
      <4>1. stream[1].after = 0 /\ 1 \in 1..Len(stream)
        BY <2>1, <3>2 DEF Follows
      <4>2. QED BY <2>3, <4>1
    <3>3. QED BY <3>1, <3>2
  <2>5. ASSUME NEW p \in 1..(Len(stream) - 1)
        PROVE  IF stream'[p].part < Size(stream'[p].frame)
               THEN stream'[p + 1] = [stream'[p] EXCEPT !.part = @ + 1]
               ELSE stream'[p + 1].part = 1 /\ stream'[p + 1].after = stream'[p].after + 1
    <3>1. stream'[p] = stream[p] /\ stream'[p + 1] = stream[p + 1]
      BY <2>1, <2>3
    <3>2. QED BY <3>1 DEF Follows
  <2>6. ASSUME NEW p \in {Len(stream)}, stream # <<>>
        PROVE  IF stream'[p].part < Size(stream'[p].frame)
               THEN stream'[p + 1] = [stream'[p] EXCEPT !.part = @ + 1]
               ELSE stream'[p + 1].part = 1 /\ stream'[p + 1].after = stream'[p].after + 1
    <3>1. stream'[p] = Last /\ stream'[p + 1] = NextByte
      BY <2>1, <2>3, <2>6 DEF Last
    <3>2. CASE put > 0
      <4>1. Last = [frame |-> out, part |-> put, after |-> Len(log)] /\ put < Size(out)
        BY <2>2, <3>2 DEF Runs
      <4>2. NextByte = [Last EXCEPT !.part = @ + 1]
        BY <4>1 DEF NextByte
      <4>3. QED BY <3>1, <4>1, <4>2
    <3>3. CASE put = 0
      <4>1. Last.part = Size(Last.frame) /\ Last.after + 1 = Len(log)
        BY <2>2, <2>6, <3>3 DEF Logged
      <4>2. ~(Last.part < Size(Last.frame))
        <5>1. Last.part \in Nat
          BY <2>1, <2>6, StreamFacts DEF Last
        <5>2. QED BY <4>1, <5>1
      <4>3. QED BY <2>3, <3>1, <3>3, <4>1, <4>2
    <3>4. QED BY <2>1, <3>2, <3>3
  <2>7. \A p \in 1..(Len(stream') - 1) :
          p \in 1..(Len(stream) - 1) \/ (p \in {Len(stream)} /\ stream # <<>>)
    BY <2>1, <2>3
  <2>8. QED BY <2>4, <2>5, <2>6, <2>7 DEF Follows
<1>2. CASE UNCHANGED stream
  BY <1>2 DEF Follows
<1>3. QED
  BY <1>1, <1>2
  DEF Next, Sending, Receiving, BeginSend, WriteFails, DropSend, BeginReceive, ReadByte,
      TakeLength, RefuseLength, Decode, DropReceive, ReadFails, Close, vars, wvars

LEMMA StepLogged ==
  ASSUME TypeOK, Runs, Logged, [Next]_vars, ~torn'
  PROVE  Logged'
<1>1. CASE WriteByte
  <2>1. /\ stream \in Seq(Byte) /\ Len(stream) \in Nat /\ Len(log) \in Nat /\ put \in Nat
        /\ \A p \in 1..Len(stream) : stream[p].after \in Nat
    BY StreamFacts
  <2>2. open /\ open'
    BY <1>1 DEF WriteByte
  <2>3. /\ Len(stream') = Len(stream) + 1 /\ stream' # <<>>
        /\ stream'[Len(stream) + 1] = NextByte
        /\ \A p \in 1..Len(stream) : stream'[p] = stream[p]
        /\ NextByte.part = put + 1 /\ NextByte.after = Len(log) /\ NextByte.frame = out
    BY <1>1, Written DEF NextByte
  <2>4. \A p \in 1..Len(stream') :
          /\ stream'[p].after \in 0..Len(log)
          /\ stream'[p].after < Len(log) => stream'[p].frame = log[stream'[p].after + 1]
          /\ stream'[p].after = Len(log) => stream'[p].frame = out
    <3>1. ASSUME NEW p \in 1..Len(stream)
          PROVE  /\ stream'[p].after \in 0..Len(log)
                 /\ stream'[p].after < Len(log) => stream'[p].frame = log[stream'[p].after + 1]
                 /\ stream'[p].after = Len(log) => stream'[p].frame = out
      BY <2>1, <2>2, <2>3 DEF Runs, Logged
    <3>2. \A p \in 1..Len(stream') : p \in 1..Len(stream) \/ p = Len(stream) + 1
      BY <2>1, <2>3
    <3>3. QED BY <2>1, <2>3, <3>1, <3>2
  <2>5. CASE /\ put + 1 < Size(out) /\ put' = put + 1 /\ out' = out /\ log' = log
    BY <2>1, <2>2, <2>3, <2>4, <2>5 DEF Logged
  <2>6. CASE /\ put + 1 = Size(out) /\ put' = 0 /\ out' = None
             /\ Len(log') = Len(log) + 1 /\ log'[Len(log) + 1] = out
             /\ \A i \in 1..Len(log) : log'[i] = log[i]
    <3>1. \A p \in 1..Len(stream') :
            stream'[p].after < Len(log') /\ stream'[p].frame = log'[stream'[p].after + 1]
      <4>1. ASSUME NEW p \in 1..Len(stream')
            PROVE  stream'[p].after < Len(log') /\ stream'[p].frame = log'[stream'[p].after + 1]
        <5>1. stream'[p].after \in 0..Len(log)
          BY <2>4
        <5>2. CASE stream'[p].after = Len(log)
          BY <2>1, <2>4, <2>6, <5>2
        <5>3. CASE stream'[p].after < Len(log)
          <6>1. stream'[p].after + 1 \in 1..Len(log)
            BY <2>1, <5>1, <5>3
          <6>2. log'[stream'[p].after + 1] = log[stream'[p].after + 1]
            BY <2>6, <6>1
          <6>3. QED BY <2>1, <2>4, <2>6, <5>1, <5>3, <6>2
        <5>4. QED BY <2>1, <5>1, <5>2, <5>3
      <4>2. QED BY <4>1
    <3>2. Last' = NextByte /\ NextByte.part = Size(NextByte.frame) /\ NextByte.after + 1 = Len(log')
      BY <2>1, <2>3, <2>6 DEF Last
    <3>3. \A p \in 1..Len(stream') : stream'[p].after # Len(log')
      BY <2>1, <2>4, <2>6
    <3>4. QED BY <2>3, <3>1, <3>2, <3>3 DEF Logged
  <2>7. QED BY <1>1, <2>5, <2>6, Written
<1>2. CASE UNCHANGED <<log, stream, put>> /\ put = 0 /\ (open' => open)
  BY <1>2 DEF Logged, Last
<1>3. CASE UNCHANGED <<log, stream>> /\ ~open'
  BY <1>3 DEF Logged
<1>4. CASE UNCHANGED <<open, wvars>>
  BY <1>4 DEF Logged, Last, wvars
<1>5. ASSUME NEW f \in Frames, BeginSend(f)
      PROVE  UNCHANGED <<log, stream, put>> /\ put = 0 /\ (open' => open)
  BY <1>5 DEF BeginSend, Runs
<1>6. CASE DropSend
  <2>1. put = 0
    <3>1. ~(put > 0)
      BY <1>6 DEF DropSend
    <3>2. QED BY <3>1, StreamFacts
  <2>2. QED BY <1>2, <1>6, <2>1 DEF DropSend
<1>7. CASE WriteFails \/ Close
  BY <1>3, <1>7 DEF WriteFails, Close, wvars
<1>8. QED
  BY <1>1, <1>2, <1>4, <1>5, <1>6, <1>7
  DEF Next, Sending, Receiving, BeginReceive, ReadByte,
      TakeLength, RefuseLength, Decode, DropReceive, ReadFails, vars

(***************************************************************************)
(* The byte a receiver reads is the next of its message, or the first of   *)
(* the next message.                                                       *)
(***************************************************************************)
LEMMA NextRead ==
  ASSUME TypeOK, Runs, Follows, NEW p \in 0..(Len(stream) - 1), NEW n \in Nat
  PROVE  /\ Boundary(p, n) => stream[p + 1].part = 1 /\ stream[p + 1].after = n
         /\ p > 0 /\ stream[p].part < Size(stream[p].frame) =>
              stream[p + 1] = [stream[p] EXCEPT !.part = @ + 1]
<1>1. CASE p = 0
  <2>1. stream # <<>> /\ 1 \in 1..Len(stream)
    BY StreamFacts
  <2>2. stream[1].after = 0 /\ stream[1].part \in 1..1
    BY <2>1 DEF Follows, Runs
  <2>3. QED BY <1>1, <2>2 DEF Boundary
<1>2. CASE p > 0
  <2>1. p \in 1..(Len(stream) - 1) /\ p \in 1..Len(stream)
    BY <1>2, StreamFacts
  <2>2. IF stream[p].part < Size(stream[p].frame)
        THEN stream[p + 1] = [stream[p] EXCEPT !.part = @ + 1]
        ELSE stream[p + 1].part = 1 /\ stream[p + 1].after = stream[p].after + 1
    BY <2>1 DEF Follows
  <2>3. stream[p].part = Size(stream[p].frame) => ~(stream[p].part < Size(stream[p].frame))
    BY <2>1, StreamFacts
  <2>4. QED BY <1>2, <2>2, <2>3 DEF Boundary
<1>3. QED BY <1>1, <1>2

(***************************************************************************)
(* The bytes up to p of its message are the first of that message.         *)
(***************************************************************************)
LEMMA ReadWhole ==
  ASSUME TypeOK, Runs, pos > 0
  PROVE  ReadFromStart(stream[pos].part)
<1>1. pos \in 1..Len(stream)
  BY DEF TypeOK
<1>2. stream[pos].part \in 1..pos
  BY <1>1 DEF Runs
<1>3. \A i \in 1..stream[pos].part :
        stream[pos - stream[pos].part + i] = [stream[pos] EXCEPT !.part = i]
  BY <1>1 DEF Runs
<1>4. QED BY <1>2, <1>3 DEF ReadFromStart

(***************************************************************************)
(* What is decoded is the next message of the log.                         *)
(***************************************************************************)
LEMMA DecodedInOrder ==
  ASSUME TypeOK, Runs, Logged, Aligned, Decode
  PROVE  /\ Len(got) < Len(log)
         /\ got' = Append(got, log[Len(got) + 1])
         /\ Boundary(pos, Len(got) + 1)
<1>1. /\ pos \in 1..Len(stream) /\ need \in Nat
      /\ stream[pos].part = HEADER + need /\ stream[pos].after = Len(got)
      /\ need = stream[pos].frame.len
  BY DEF Decode, Aligned, Inside, TypeOK
<1>2. ReadFromStart(HEADER + need)
  BY <1>1, ReadWhole
<1>3. Size(stream[pos].frame) = HEADER + need
  BY <1>1 DEF Size
<1>4. stream[pos].after < Len(log)
  BY <1>1, <1>3 DEF Runs
<1>5. stream[pos].frame = log[Len(got) + 1]
  BY <1>1, <1>4 DEF Logged
<1>6. got' = Append(got, log[Len(got) + 1])
  BY <1>2, <1>3, <1>5 DEF Decode
<1>7. Boundary(pos, Len(got) + 1)
  BY <1>1, <1>3 DEF Boundary
<1>8. QED BY <1>1, <1>4, <1>6, <1>7

LEMMA StepAligned ==
  ASSUME TypeOK, Runs, Asked, Follows, Logged, Aligned, [Next]_vars, ~torn'
  PROVE  Aligned'
<1>1. Len(got) \in Nat /\ Len(log) \in Nat /\ pos \in Nat /\ have \in Nat /\ need \in Nat
      /\ pos <= Len(stream) /\ Len(stream) \in Nat
  BY StreamFacts DEF TypeOK
<1>2. CASE WriteByte
  <2>1. UNCHANGED rvars
    BY <1>2 DEF WriteByte
  <2>2. pos > 0 => stream'[pos] = stream[pos]
    BY <1>1, <1>2, Written
  <2>3. Len(log) <= Len(log') /\ \A i \in 1..Len(log) : log'[i] = log[i]
    BY <1>1, <1>2, Written
  <2>4. Len(log') \in Nat
    BY <1>2, Written
  <2>5. Boundary(pos, Len(got))' = Boundary(pos, Len(got)) /\ (\A k : Inside(k)' = Inside(k))
    BY <1>1, <2>1, <2>2 DEF Boundary, Inside, rvars
  <2>6. /\ (rpc = "idle" => Boundary(pos, Len(got)))'
        /\ (rpc = "header" => IF have = 0 THEN Boundary(pos, Len(got)) ELSE Inside(have))'
    BY <2>1, <2>5 DEF Aligned, rvars
  <2>7. (rpc = "body" => Inside(HEADER + have) /\ need = stream[pos].frame.len)'
    BY <2>1, <2>2, <2>5 DEF Aligned, Inside, rvars
  <2>8. (Len(got) <= Len(log) /\ \A i \in 1..Len(got) : got[i] = log[i])'
    BY <1>1, <2>1, <2>3, <2>4 DEF Aligned, rvars
  <2>9. QED BY <2>6, <2>7, <2>8 DEF Aligned
<1>3. CASE UNCHANGED <<log, stream, rvars>>
  BY <1>3 DEF Aligned, Boundary, Inside, rvars
<1>4. CASE BeginReceive \/ ReadFails
  BY <1>4 DEF BeginReceive, ReadFails, Aligned, Boundary, Inside, wvars
<1>5. CASE DropReceive
  <2>1. rpc = "header" /\ ~(have > 0)
    BY <1>5 DEF DropReceive, Awaiting
  <2>2. QED BY <1>1, <1>5, <2>1 DEF DropReceive, Aligned, Boundary, Inside, wvars
<1>6. CASE ReadByte
  <2>1. /\ pos \in 0..(Len(stream) - 1) /\ rpc \in {"header", "body"} /\ have < need
        /\ pos' = pos + 1 /\ have' = have + 1
        /\ UNCHANGED <<wvars, rpc, need, got>>
    BY <1>1, <1>6 DEF ReadByte, Awaiting
  <2>2. CASE rpc = "header" /\ have = 0
    <3>1. stream[pos + 1].part = 1 /\ stream[pos + 1].after = Len(got)
      BY <1>1, <2>1, <2>2, NextRead DEF Aligned
    <3>2. QED BY <1>1, <2>1, <2>2, <3>1 DEF Aligned, Inside, wvars
  <2>3. CASE ~(rpc = "header" /\ have = 0)
    <3> DEFINE k == IF rpc = "header" THEN have ELSE HEADER + have
    <3>1. Inside(k) /\ k \in Nat
      BY <1>1, <2>1, <2>3 DEF Aligned, HEADER
    <3>2. stream[pos].frame.len \in Nat
      BY <1>1, <3>1, StreamFacts, FrameFacts DEF Inside
    <3>3. k < Size(stream[pos].frame)
      <4>1. CASE rpc = "header"
        BY <1>1, <2>1, <3>2, <4>1 DEF Asked, Size, HEADER
      <4>2. CASE rpc = "body"
        BY <1>1, <2>1, <3>2, <4>2 DEF Aligned, Size, HEADER
      <4>3. QED BY <2>1, <4>1, <4>2
    <3>4. stream[pos + 1] = [stream[pos] EXCEPT !.part = @ + 1]
      <4>1. pos > 0 /\ stream[pos].part < Size(stream[pos].frame)
        BY <3>1, <3>3 DEF Inside
      <4>2. QED BY <1>1, <2>1, <4>1, NextRead
    <3>5. stream[pos] \in Byte
      <4>1. pos \in 1..Len(stream)
        BY <1>1, <3>1 DEF Inside
      <4>2. QED BY <4>1, StreamFacts
    <3>6. stream[pos + 1].part = k + 1 /\ stream[pos + 1].after = Len(got)
          /\ stream[pos + 1].frame = stream[pos].frame
      BY <3>1, <3>4, <3>5 DEF Inside, Byte
    <3>7. pos' > 0 /\ stream'[pos'].part = k + 1 /\ stream'[pos'].after = Len(got')
      BY <1>1, <2>1, <3>6 DEF wvars
    <3>8. (rpc = "header" => IF have = 0 THEN Boundary(pos, Len(got)) ELSE Inside(have))'
      BY <1>1, <2>1, <3>7 DEF Inside
    <3>9. (rpc = "body" => Inside(HEADER + have) /\ need = stream[pos].frame.len)'
      <4>1. rpc' = "body" => HEADER + have' = k + 1
        BY <1>1, <2>1 DEF HEADER
      <4>2. rpc' = "body" => need' = stream'[pos'].frame.len
        BY <2>1, <3>6 DEF Aligned, wvars
      <4>3. QED BY <3>7, <4>1, <4>2 DEF Inside
    <3>10. (Len(got) <= Len(log) /\ \A i \in 1..Len(got) : got[i] = log[i])'
      BY <2>1 DEF Aligned, wvars
    <3>11. rpc' # "idle"
      BY <2>1
    <3>12. QED BY <3>8, <3>9, <3>10, <3>11 DEF Aligned
  <2>4. QED BY <2>2, <2>3
<1>7. ASSUME NEW n \in 0..MaxLen, n \in Lengths, TakeLength(n)
      PROVE  Aligned'
  <2>1. /\ rpc = "header" /\ have = HEADER /\ pos > 0 /\ stream[pos].part = HEADER
        /\ stream[pos].after = Len(got)
    BY <1>7 DEF TakeLength, Asked, Aligned, Inside, HEADER
  <2>2. n = stream[pos].frame.len
    BY <1>7, <2>1, ReadWhole DEF Lengths, Announced
  <2>3. QED BY <1>7, <2>1, <2>2 DEF TakeLength, Aligned, Inside, HEADER, wvars
<1>8. CASE Decode
  <2>1. /\ Len(got) < Len(log) /\ got' = Append(got, log[Len(got) + 1])
        /\ Boundary(pos, Len(got) + 1)
    BY <1>8, DecodedInOrder
  <2>2. got \in Seq(Frames \cup {Garbled}) /\ log[Len(got) + 1] \in Frames \cup {Garbled}
    BY <1>1, <2>1 DEF TypeOK
  <2>3. /\ Len(got') = Len(got) + 1 /\ got'[Len(got) + 1] = log[Len(got) + 1]
        /\ \A i \in 1..Len(got) : got'[i] = got[i]
    BY <2>1, <2>2, AppendFacts
  <2>4. (Len(got) <= Len(log) /\ \A i \in 1..Len(got) : got[i] = log[i])'
    BY <1>1, <1>8, <2>1, <2>3 DEF Decode, wvars, Aligned
  <2>5. rpc' = "idle" /\ Boundary(pos, Len(got))'
    BY <1>8, <2>1, <2>3 DEF Decode, wvars, Boundary
  <2>6. QED BY <2>4, <2>5 DEF Aligned
<1>9. ASSUME NEW n \in 0..MaxLen
      PROVE  ~RefuseLength(n)
  BY DEF RefuseLength
<1>10. QED
  BY <1>2, <1>3, <1>4, <1>5, <1>6, <1>7, <1>8, <1>9
  DEF Next, Sending, Receiving, BeginSend, WriteFails, DropSend, Close, vars, wvars

-------------------------------------------------------------------------------
LEMMA StepInv == Inv /\ [Next]_vars => Inv'
<1> SUFFICES ASSUME Inv, [Next]_vars PROVE Inv'
  OBVIOUS
<1>1. TypeOK /\ Runs /\ Asked /\ (~torn => Follows /\ Logged /\ Aligned)
  BY DEF Inv
<1>2. ~torn' => ~torn
  BY DEF Next, Sending, Receiving, BeginSend, WriteByte, WriteFails, DropSend, BeginReceive,
         ReadByte, TakeLength, RefuseLength, Decode, DropReceive, ReadFails, Close, vars
<1>3. TypeOK' /\ Runs' /\ Asked'
  BY <1>1, StepType, StepRuns, StepAsked
<1>4. ~torn' => Follows' /\ Logged' /\ Aligned'
  BY <1>1, <1>2, StepFollows, StepLogged, StepAligned
<1>5. QED BY <1>3, <1>4 DEF Inv

LEMMA Invariance == Spec => []Inv
BY InitInv, StepInv, PTL DEF Spec

(***************************************************************************)
(* Type correctness of the framing, for every limit and window.            *)
(***************************************************************************)
THEOREM TypeCorrect == Spec => []TypeOK
<1>1. Inv => TypeOK
  BY DEF Inv
<1>2. QED BY <1>1, Invariance, PTL

LEMMA StepRefuses ==
  ASSUME Inv, RefusesOnlyTooLong, [Next]_vars
  PROVE  RefusesOnlyTooLong'
<1>1. torn \in BOOLEAN /\ drops \in Nat /\ Len(stream) \in Nat
  BY StreamFacts DEF Inv, TypeOK
<1>2. CASE WriteByte
  <2>1. UNCHANGED <<torn, drops>>
    BY <1>2 DEF WriteByte
  <2>2. \A i \in DOMAIN stream : i \in DOMAIN stream' /\ stream'[i] = stream[i]
    <3>1. stream \in Seq(Byte) /\ stream' \in Seq(Byte) /\ Len(stream') = Len(stream) + 1
          /\ \A i \in 1..Len(stream) : stream'[i] = stream[i]
      BY <1>2, Written, StreamFacts DEF Inv
    <3>2. DOMAIN stream = 1..Len(stream) /\ DOMAIN stream' = 1..(Len(stream) + 1)
      BY <3>1
    <3>3. QED BY <1>1, <3>1, <3>2
  <2>3. QED BY <2>1, <2>2 DEF RefusesOnlyTooLong
<1>3. CASE UNCHANGED <<stream, torn, drops>>
  BY <1>3 DEF RefusesOnlyTooLong
<1>4. CASE DropSend \/ DropReceive
  <2>1. drops' = drops + 1
    BY <1>4 DEF DropSend, DropReceive
  <2>2. QED BY <1>1, <2>1 DEF RefusesOnlyTooLong
<1>5. ASSUME NEW n \in 0..MaxLen, n \in Lengths, RefuseLength(n)
      PROVE  RefusesOnlyTooLong'
  <2>1. UNCHANGED <<stream, drops>>
    BY <1>5 DEF RefuseLength, wvars
  <2>2. CASE torn
    BY <2>1, <2>2 DEF RefusesOnlyTooLong
  <2>3. CASE ~torn
    <3>1. rpc = "header" /\ have = HEADER /\ pos > 0 /\ stream[pos].part = HEADER
      BY <1>5, <2>3 DEF RefuseLength, Inv, Asked, Aligned, Inside, HEADER
    <3>2. n = stream[pos].frame.len
      BY <1>5, <3>1, ReadWhole DEF Lengths, Announced, Inv
    <3>3. pos \in DOMAIN stream'
      BY <2>1, <3>1 DEF Inv, TypeOK
    <3>4. stream'[pos].frame.len > Limit
      BY <1>5, <2>1, <3>2 DEF RefuseLength
    <3>5. QED BY <3>3, <3>4 DEF RefusesOnlyTooLong
  <2>4. QED BY <2>2, <2>3
<1>6. QED
  BY <1>2, <1>3, <1>4, <1>5
  DEF Next, Sending, Receiving, BeginSend, WriteFails, BeginReceive, ReadByte, TakeLength,
      Decode, ReadFails, Close, vars, wvars, rvars

(***************************************************************************)
(* Whatever the messages, the window and the limit: unless a call was      *)
(* dropped the receiver leaves the boundaries of messages only behind a    *)
(* message that is too long, so it never takes body bytes for a header.    *)
(***************************************************************************)
THEOREM RefusesTooLong == Spec => []RefusesOnlyTooLong
<1>1. Init => RefusesOnlyTooLong
  BY DEF Init, RefusesOnlyTooLong
<1>2. QED BY <1>1, StepRefuses, Invariance, PTL DEF Spec

LEMMA InitChannel == Init => Channel!Init
BY DEF Init, Channel!Init

LEMMA StepChannel == Inv /\ [Next]_vars => [Channel!Next]_(Channel!channelVars)
<1> SUFFICES ASSUME Inv, [Next]_vars PROVE [Channel!Next]_(Channel!channelVars)
  OBVIOUS
<1> USE DEF Channel!Next, Channel!channelVars
<1>1. CASE WriteByte
  <2>1. out \in Frames
    BY <1>1, Written DEF Inv
  <2>2. CASE log' = Append(log, out)
    <3>1. Channel!Send(out)
      BY <1>1, <2>2 DEF WriteByte, rvars, Channel!Send
    <3>2. QED BY <2>1, <3>1
  <2>3. CASE log' = log
    BY <1>1, <2>3 DEF WriteByte, rvars
  <2>4. QED BY <1>1, <2>2, <2>3 DEF WriteByte
<1>2. CASE Decode
  <2>1. CASE torn
    <3>1. PICK m \in Frames \cup {Garbled} : got' = Append(got, m)
      BY <1>2, Decoded DEF Inv
    <3>2. Channel!ReceiveAnything(m)
      BY <1>2, <2>1, <3>1 DEF Decode, wvars, Channel!ReceiveAnything
    <3>3. QED BY <3>2
  <2>2. CASE ~torn
    <3>1. Len(got) < Len(log) /\ got' = Append(got, log[Len(got) + 1])
      BY <1>2, <2>2, DecodedInOrder DEF Inv
    <3>2. Channel!Receive
      BY <1>2, <2>2, <3>1 DEF Decode, wvars, Channel!Receive
    <3>3. QED BY <3>2
  <2>3. QED BY <2>1, <2>2
<1>3. CASE UNCHANGED <<log, got>> /\ torn' \in {TRUE, torn}
  BY <1>3 DEF Channel!Break
<1>4. CASE DropSend \/ DropReceive
  <2>1. torn \in BOOLEAN
    BY DEF Inv, TypeOK
  <2>2. UNCHANGED <<log, got>> /\ torn' \in {TRUE, torn}
    BY <1>4, <2>1 DEF DropSend, DropReceive, wvars, rvars
  <2>3. QED BY <1>3, <2>2
<1>5. QED
  BY <1>1, <1>2, <1>3, <1>4
  DEF Next, Sending, Receiving, BeginSend, WriteFails, BeginReceive, ReadByte, TakeLength,
      RefuseLength, ReadFails, Close, vars, wvars, rvars

(***************************************************************************)
(* The bytes of write_all and read_exact implement a channel of messages   *)
(* that loses nothing, until a call is dropped half way or a length is     *)
(* refused.                                                                *)
(***************************************************************************)
THEOREM Refinement == Spec => ImplementsChannel
<1>1. QED
  BY InitChannel, StepChannel, Invariance, PTL DEF Spec, ImplementsChannel, Channel!Spec
=============================================================================
