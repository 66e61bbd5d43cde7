------------------------------ MODULE BxpRouter ------------------------------
(***************************************************************************)
(* Building a BxpRouter: BxpRouter::new() and a chain of route() calls,    *)
(* any of which may name an action and URI that is already taken. After    *)
(* the chain the router sits in an Arc and is only read.                   *)
(***************************************************************************)
EXTENDS BxpRouting

CONSTANTS
  Candidates,  \* the handlers the program registers
  MaxRoutes    \* bound: route() calls in one chain

ASSUME RouterAssumption == Candidates \subseteq Handler /\ MaxRoutes \in Nat

VARIABLES
  routes,  \* the `routes` field
  calls    \* history: the arguments of the route() calls so far

vars == <<routes, calls>>

Registration == [action: BxpAction, uri: Uris, handler: Candidates]

Init ==
  /\ routes = NoRoutes
  /\ calls = <<>>

Route(c) ==
  /\ Len(calls) < MaxRoutes
  /\ routes' = Register(routes, c.action, c.uri, c.handler)
  /\ calls' = Append(calls, c)

Next == \E c \in Registration : Route(c)

Spec == Init /\ [][Next]_vars
-------------------------------------------------------------------------------
(***************************************************************************)
(* The calls that named this action and URI, and among them the last.      *)
(***************************************************************************)
CallsFor(action, uri) == {i \in DOMAIN calls : calls[i].action = action /\ calls[i].uri = uri}

IsLast(i, action, uri) ==
  /\ i \in CallsFor(action, uri)
  /\ \A j \in CallsFor(action, uri) : j <= i

(***************************************************************************)
(* What the history says handle_request should run.                        *)
(***************************************************************************)
Meant(action, uri) ==
  IF CallsFor(action, uri) = {}
  THEN <<Respond("NotFound")>>
  ELSE calls[CHOOSE i \in CallsFor(action, uri) : IsLast(i, action, uri)].handler

TypeOK ==
  /\ calls \in Seq(Registration)
  /\ DOMAIN routes \subseteq BxpAction
  /\ \A a \in DOMAIN routes : DOMAIN routes[a] \subseteq Uris

(***************************************************************************)
(* The nested table behaves as one flat map: for every action and URI,     *)
(* handle_request runs the handler of the last route() call that named     *)
(* exactly that pair, and answers NotFound when none did. A call for       *)
(* another action or URI in between changes nothing (the inner map is      *)
(* extended, never replaced).                                              *)
(***************************************************************************)
LastRegistrationWins ==
  \A a \in BxpAction, u \in Uris :
    Dispatch(routes, [action |-> a, uri |-> u]) = Meant(a, u)
=============================================================================
