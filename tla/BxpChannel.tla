----------------------------- MODULE BxpChannel ------------------------------
(***************************************************************************)
(* What one direction of the control stream promises, message by message:  *)
(* those that were sent are received in the order they were sent, each     *)
(* once and whole, until something breaks the channel. Of a broken channel *)
(* nothing is known.                                                       *)
(***************************************************************************)
EXTENDS Naturals, Sequences

CONSTANTS
  Frames,  \* the messages that may be sent
  Garbled  \* what a receiver may take for a message and nobody sent

VARIABLES
  log,     \* the messages that were sent
  got,     \* the messages that were received
  broken   \* whether the channel is broken

channelVars == <<log, got, broken>>

Init ==
  /\ log = <<>>
  /\ got = <<>>
  /\ broken = FALSE

Send(f) ==
  /\ log' = Append(log, f)
  /\ UNCHANGED <<got, broken>>

Receive ==
  /\ ~broken
  /\ Len(got) < Len(log)
  /\ got' = Append(got, log[Len(got) + 1])
  /\ UNCHANGED <<log, broken>>

Break ==
  /\ broken' = TRUE
  /\ UNCHANGED <<log, got>>

ReceiveAnything(m) ==
  /\ broken
  /\ got' = Append(got, m)
  /\ UNCHANGED <<log, broken>>

Next ==
  \/ \E f \in Frames : Send(f)
  \/ Receive
  \/ Break
  \/ \E m \in Frames \cup {Garbled} : ReceiveAnything(m)

Spec == Init /\ [][Next]_channelVars
=============================================================================
