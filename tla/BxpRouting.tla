----------------------------- MODULE BxpRouting ------------------------------
(***************************************************************************)
(* The route table of router.rs: a map from actions to maps from URIs to   *)
(* handlers, built by route() and consulted by handle_request().           *)
(***************************************************************************)
EXTENDS BxpProtocol

(***************************************************************************)
(* A table under construction: HashMap<BxpAction, HashMap<String, ..>>.    *)
(***************************************************************************)
RouteTable == UNION {[A -> UNION {[U -> Handler] : U \in SUBSET Uris}] : A \in SUBSET BxpAction}

NoRoutes == [a \in {} |-> <<>>]

(***************************************************************************)
(* Mutants of Register: a fresh inner map for every call; the action taken *)
(* for the key of the inner map.                                           *)
(***************************************************************************)
RegisterFresh(routes, action, uri, handler) ==
  [a \in DOMAIN routes \cup {action} |-> IF a = action THEN [u \in {uri} |-> handler] ELSE routes[a]]

RegisterSwapped(routes, action, uri, handler) ==
  [a \in DOMAIN routes \cup {action} |-> IF a = action THEN [u \in {action} |-> handler] ELSE routes[a]]

(***************************************************************************)
(* route: entry(action).or_insert_with(HashMap::new).insert(uri, handler). *)
(* HashMap::insert replaces the handler a second call finds there.         *)
(***************************************************************************)
Register(routes, action, uri, handler) ==
  LET inner == IF action \in DOMAIN routes THEN routes[action] ELSE [u \in {} |-> <<>>]
  IN  [a \in DOMAIN routes \cup {action} |->
        IF a = action
        THEN [u \in DOMAIN inner \cup {uri} |-> IF u = uri THEN handler ELSE inner[u]]
        ELSE routes[a]]

Routed(routes, action, uri) ==
  /\ action \in DOMAIN routes
  /\ uri \in DOMAIN routes[action]

(***************************************************************************)
(* Mutant of Dispatch: the URI alone selects the handler.                  *)
(***************************************************************************)
DispatchByUri(routes, req) ==
  IF \E a \in DOMAIN routes : req.uri \in DOMAIN routes[a]
  THEN routes[CHOOSE a \in DOMAIN routes : req.uri \in DOMAIN routes[a]][req.uri]
  ELSE <<Respond("NotFound")>>

(***************************************************************************)
(* handle_request: the handler found under exactly this action and URI, or *)
(* a NotFound response and nothing else.                                   *)
(***************************************************************************)
Dispatch(routes, req) ==
  IF Routed(routes, req.action, req.uri)
  THEN routes[req.action][req.uri]
  ELSE <<Respond("NotFound")>>
=============================================================================
