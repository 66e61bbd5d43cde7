------------------------------ MODULE BxpService ------------------------------
(***************************************************************************)
(* What a connection promises a client, without streams, windows, tasks or *)
(* handlers in steps: requests are taken up one at a time in the order     *)
(* they were made, until one is refused; a request is answered at most     *)
(* once, while it is the one taken up, with a status of its route; payload *)
(* comes only for a request that is answered and whose route sends some,   *)
(* one at a time; and a payload the client reads to its end is whole, or   *)
(* the server knows that it failed.                                        *)
(***************************************************************************)
EXTENDS BxpRouting

CONSTANTS
  Requests,  \* the requests a client may make
  Routes     \* the server's routes

VARIABLES
  over,     \* whether the connection has ended
  asked,    \* the requests, in the order they were made
  taken,    \* how many of them the server took up
  answers,  \* what it answered, to which of them
  payloads  \* the payloads it sends: how that ended, and what the client has of it

serviceVars == <<over, asked, taken, answers, payloads>>

Current  == asked[taken]
Steps    == Dispatch(Routes, BxpRequestOf(Current))
Statuses == {Steps[s].status : s \in {t \in DOMAIN Steps : Steps[t].op = "respond"}}
Ships    == \E s \in DOMAIN Steps : Steps[s].op = "send_data"
Answered == \E i \in DOMAIN answers : answers[i].to = taken
Sending  == \E p \in DOMAIN payloads : payloads[p].sender = "open"

Init ==
  /\ over = FALSE
  /\ asked = <<>>
  /\ taken = 0
  /\ answers = <<>>
  /\ payloads = <<>>

Ask(r) ==
  /\ ~over
  /\ asked' = Append(asked, r)
  /\ UNCHANGED <<over, taken, answers, payloads>>

(***************************************************************************)
(* The next request is taken up, or refused. Nothing is taken up behind a  *)
(* refused one, which may also be the end of the connection.               *)
(***************************************************************************)
Proceeds ==
  /\ taken < Len(asked)
  /\ taken > 0 => Receivable(Current)
  /\ ~Sending
  /\ taken' = taken + 1
  /\ UNCHANGED <<asked, answers, payloads>>

Take   == Proceeds /\ Receivable(asked[taken + 1]) /\ UNCHANGED over
Refuse == Proceeds /\ ~Receivable(asked[taken + 1]) /\ over' \in {over, TRUE}

Answer(status) ==
  /\ ~over
  /\ taken > 0 /\ Receivable(Current) /\ ~Answered /\ ~Sending
  /\ status \in Statuses
  /\ answers' = Append(answers, [to |-> taken, id |-> Current.id, status |-> status])
  /\ UNCHANGED <<over, asked, taken, payloads>>

BeginPayload ==
  /\ ~over
  /\ taken > 0 /\ Answered /\ Ships /\ ~Sending
  /\ payloads' = Append(payloads, [id |-> Current.id, sender |-> "open", receiver |-> "coming"])
  /\ UNCHANGED <<over, asked, taken, answers>>

EndPayload(p, how) ==
  /\ payloads[p].sender = "open"
  /\ payloads' = [payloads EXCEPT ![p].sender = how]
  /\ UNCHANGED <<over, asked, taken, answers>>

(***************************************************************************)
(* The client reads to the end of a payload, or gives it up.               *)
(***************************************************************************)
ReadToEnd(p, what) ==
  /\ payloads[p].receiver = "coming"
  /\ payloads[p].sender # "open"
  /\ payloads[p].sender = "ok" => what = "whole"
  /\ payloads' = [payloads EXCEPT ![p].receiver = what]
  /\ UNCHANGED <<over, asked, taken, answers>>

GiveUp(p) ==
  /\ payloads[p].receiver = "coming"
  /\ payloads' = [payloads EXCEPT ![p].receiver = "lost"]
  /\ UNCHANGED <<over, asked, taken, answers>>

End ==
  /\ over' = TRUE
  /\ UNCHANGED <<asked, taken, answers, payloads>>

Next ==
  \/ \E r \in Requests : Ask(r)
  \/ Take \/ Refuse
  \/ \E status \in BxpStatus : Answer(status)
  \/ BeginPayload
  \/ \E p \in DOMAIN payloads :
       \/ \E how \in {"ok", "err"} : EndPayload(p, how)
       \/ \E what \in {"whole", "cut"} : ReadToEnd(p, what)
       \/ GiveUp(p)
  \/ End

Spec == Init /\ [][Next]_serviceVars
=============================================================================
