--------------------------- MODULE BxpRouterProofs ---------------------------
(***************************************************************************)
(* Proof that the nested route table is a flat one in which the last       *)
(* registration wins, for chains of any length over any actions, URIs and  *)
(* handlers.                                                               *)
(***************************************************************************)
EXTENDS BxpRouter, TLAPS

(***************************************************************************)
(* The inductive invariant says where the handler of a pair comes from:    *)
(* the last call that named it, which exists as soon as one did. (That a   *)
(* finite non-empty set of positions has a largest is maintained step by   *)
(* step here instead of being derived from the set.)                       *)
(***************************************************************************)
FromLastCall(a, u) ==
  \/ CallsFor(a, u) = {} /\ ~Routed(routes, a, u)
  \/ /\ Routed(routes, a, u)
     /\ \E i \in DOMAIN calls : IsLast(i, a, u) /\ routes[a][u] = calls[i].handler

IInv ==
  /\ TypeOK
  /\ \A a \in BxpAction, u \in Uris : FromLastCall(a, u)

(***************************************************************************)
(* There is only one last call for a pair.                                 *)
(***************************************************************************)
LEMMA LastIsUnique ==
  ASSUME TypeOK, NEW a, NEW u, NEW i, NEW j, IsLast(i, a, u), IsLast(j, a, u)
  PROVE  i = j
  <1>1. i \in Nat /\ j \in Nat
    BY DEF IsLast, CallsFor, TypeOK
  <1>2. i <= j /\ j <= i
    BY DEF IsLast
  <1> QED BY <1>1, <1>2

(***************************************************************************)
(* What one route() call does to a pair: it sets the pair it names and     *)
(* leaves every other one as it was.                                       *)
(***************************************************************************)
LEMMA RegisterSets ==
  ASSUME NEW t, NEW a, NEW u, NEW h
  PROVE  Routed(Register(t, a, u, h), a, u) /\ Register(t, a, u, h)[a][u] = h
  BY DEF Register, Routed

LEMMA RegisterKeeps ==
  ASSUME NEW t, NEW a, NEW u, NEW h, NEW b, NEW v, <<b, v>> # <<a, u>>
  PROVE  /\ Routed(Register(t, a, u, h), b, v) <=> Routed(t, b, v)
         /\ Routed(t, b, v) => Register(t, a, u, h)[b][v] = t[b][v]
  <1>1. CASE b # a
    BY <1>1 DEF Register, Routed
  <1>2. CASE b = a
    <2>1. v # u
      BY <1>2
    <2> QED BY <1>2, <2>1 DEF Register, Routed
  <1> QED BY <1>1, <1>2

LEMMA InitIInv == Init => IInv
  <1> SUFFICES ASSUME Init PROVE IInv
    OBVIOUS
  <1>1. DOMAIN routes = {} /\ calls = <<>>
    BY DEF Init, NoRoutes
  <1>2. TypeOK
    BY <1>1 DEF TypeOK
  <1>3. \A a \in BxpAction, u \in Uris : FromLastCall(a, u)
    BY <1>1 DEF FromLastCall, CallsFor, Routed
  <1> QED BY <1>2, <1>3 DEF IInv

LEMMA RouteIInv == ASSUME IInv, NEW c \in Registration, Route(c) PROVE IInv'
  <1>0. /\ calls \in Seq(Registration)
        /\ calls' = Append(calls, c)
        /\ routes' = Register(routes, c.action, c.uri, c.handler)
        /\ c.action \in BxpAction /\ c.uri \in Uris
    BY DEF IInv, TypeOK, Route, Registration
  <1>1. TypeOK'
    BY <1>0 DEF IInv, TypeOK, Register
  <1>2. PICK n \in Nat :
          /\ DOMAIN calls' = DOMAIN calls \cup {n} /\ calls'[n] = c
          /\ \A i \in DOMAIN calls : calls'[i] = calls[i] /\ i \in Nat /\ i <= n
    <2>1. Len(calls) + 1 \in Nat
      BY <1>0
    <2> QED BY <1>0, <2>1
  <1>3. ASSUME NEW a \in BxpAction, NEW u \in Uris PROVE FromLastCall(a, u)'
    <2>1. CASE <<a, u>> = <<c.action, c.uri>>
      <3>1. IsLast(n, a, u)'
        BY <1>2, <2>1 DEF IsLast, CallsFor
      <3>2. Routed(routes', a, u) /\ routes'[a][u] = c.handler
        BY <1>0, <2>1, RegisterSets
      <3>3. n \in DOMAIN calls' /\ calls'[n] = c
        BY <1>2
      <3> QED BY <3>1, <3>2, <3>3 DEF FromLastCall
    <2>2. CASE <<a, u>> # <<c.action, c.uri>>
      <3>1. CallsFor(a, u)' = CallsFor(a, u)
        BY <1>2, <2>2 DEF CallsFor
      <3>2. \A i : IsLast(i, a, u)' <=> IsLast(i, a, u)
        BY <3>1 DEF IsLast
      <3>3. /\ Routed(routes', a, u) <=> Routed(routes, a, u)
            /\ Routed(routes, a, u) => routes'[a][u] = routes[a][u]
        BY <1>0, <2>2, RegisterKeeps
      <3>4. FromLastCall(a, u)
        BY DEF IInv
      <3> QED BY <1>2, <3>1, <3>2, <3>3, <3>4 DEF FromLastCall
    <2> QED BY <2>1, <2>2
  <1> QED BY <1>1, <1>3 DEF IInv

LEMMA NextIInv == IInv /\ [Next]_vars => IInv'
  <1>1. ASSUME IInv, UNCHANGED vars PROVE IInv'
    BY <1>1 DEF vars, IInv, TypeOK, FromLastCall, IsLast, CallsFor
  <1> QED BY <1>1, RouteIInv DEF Next

(***************************************************************************)
(* Type correctness: the table holds only actions and URIs that route()    *)
(* was called with.                                                        *)
(***************************************************************************)
THEOREM TypeCorrect == Spec => []TypeOK
  <1>1. IInv => TypeOK
    BY DEF IInv
  <1> QED BY <1>1, InitIInv, NextIInv, PTL DEF Spec

(***************************************************************************)
(* handle_request always runs the handler of the last route() call for the *)
(* request's action and URI, and answers NotFound when there was none.     *)
(***************************************************************************)
THEOREM LastWins == Spec => []LastRegistrationWins
  <1>1. IInv => LastRegistrationWins
    <2> SUFFICES ASSUME IInv, NEW a \in BxpAction, NEW u \in Uris
                 PROVE  Dispatch(routes, [action |-> a, uri |-> u]) = Meant(a, u)
      BY DEF LastRegistrationWins
    <2>1. CASE CallsFor(a, u) = {}
      <3>1. \A i : ~IsLast(i, a, u)
        BY <2>1 DEF IsLast
      <3>2. ~Routed(routes, a, u)
        BY <3>1 DEF IInv, FromLastCall
      <3> QED BY <2>1, <3>2 DEF Dispatch, Meant
    <2>2. CASE CallsFor(a, u) # {}
      <3>1. Routed(routes, a, u)
        BY <2>2 DEF IInv, FromLastCall
      <3>2. PICK i \in DOMAIN calls : IsLast(i, a, u) /\ routes[a][u] = calls[i].handler
        BY <2>2 DEF IInv, FromLastCall
      <3> DEFINE k == CHOOSE k \in CallsFor(a, u) : IsLast(k, a, u)
      <3>3. IsLast(k, a, u)
        BY <3>2 DEF IsLast
      <3>4. k = i
        BY <3>2, <3>3, LastIsUnique DEF IInv
      <3>5. Meant(a, u) = calls[k].handler
        BY <2>2 DEF Meant
      <3> QED BY <3>1, <3>2, <3>4, <3>5 DEF Dispatch
    <2> QED BY <2>1, <2>2
  <1> QED BY <1>1, InitIInv, NextIInv, PTL DEF Spec
=============================================================================
