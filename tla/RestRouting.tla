------------------------------ MODULE RestRouting ------------------------------
(***************************************************************************)
(* How HNHttpServer and HNRestPath find the operation an HTTP request is   *)
(* for: the routes they keep, in the order of registration, what an        *)
(* OpenAPI document adds to them, and the first route that matches.        *)
(*                                                                         *)
(* A URI path is the sequence of its segments.  A document is the sequence *)
(* of its operations in the order the registration comes to them: the      *)
(* JSON parser keeps the members of an object sorted by their names.       *)
(***************************************************************************)
EXTENDS Sequences, Integers, FiniteSetsExt

NoOp == "no operationId"     \* an operation without that member
NoRoute == [op |-> NoOp]     \* createRequestHandler returns NULL

\* An element of a route: a segment to match, or a parameter to capture.
Literal(name) == [param |-> FALSE, name |-> name]
Param(name) == [param |-> TRUE, name |-> name]

\* An operation of a document.
Operation(method, path, opID) == [method |-> method, path |-> path, op |-> opID]

(***************************************************************************)
(* registerEndpointsFromOpenAPI: an operation without an ID raises an      *)
(* exception, which ends the registration; the routes added before stay.   *)
(***************************************************************************)
RegisterEndpointsFromOpenAPI(dispatchID, doc) ==
  LET bad == {i \in DOMAIN doc : doc[i].op = NoOp}
      n == IF bad = {} THEN Len(doc) ELSE Min(bad) - 1
  IN [i \in 1..n |-> [dispatch |-> dispatchID, op |-> doc[i].op,
                      method |-> doc[i].method, elements |-> doc[i].path]]

\* Faulty variant: the method is not compared.
CheckForHandlerAnyMethod(route, method, segs) ==
  /\ Len(route.elements) = Len(segs)
  /\ \A i \in DOMAIN segs :
       route.elements[i].param \/ route.elements[i].name = segs[i]

\* HNRestPath::checkForHandler finds that the request is for this route.
CheckForHandler(route, method, segs) ==
  /\ Len(route.elements) = Len(segs)
  /\ route.method = method
  /\ \A i \in DOMAIN segs :
       route.elements[i].param \/ route.elements[i].name = segs[i]

\* The parameters it captures: of two with one name the first stays.
Params(route, segs) ==
  LET at(name) == {i \in DOMAIN segs : route.elements[i] = Param(name)}
      names == {e.name : e \in {route.elements[i] :
                                i \in {j \in DOMAIN segs : route.elements[j].param}}}
  IN [name \in names |-> segs[Min(at(name))]]

\* createRequestHandler: the first route in the list that matches.
CreateRequestHandler(list, method, segs) ==
  LET hits == {i \in DOMAIN list : CheckForHandler(list[i], method, segs)}
      route == list[Min(hits)]
  IN IF hits = {} THEN NoRoute
     ELSE [dispatch |-> route.dispatch, op |-> route.op,
           params |-> Params(route, segs)]
================================================================================
