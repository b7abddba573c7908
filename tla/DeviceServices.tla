---------------------------- MODULE DeviceServices -----------------------------
(***************************************************************************)
(* The services of an HNodeDevice: what the application registers before   *)
(* start, the endpoints requests are routed to, and the mapping of desired *)
(* services over REST, with its effect on where health events are sent.    *)
(*                                                                         *)
(* Requests run on the threads of the HTTP server.  The maps of services   *)
(* have no mutex.  Requests that only read are the operator Answer: what   *)
(* the device answers at this moment.  Those that change the configuration *)
(* are in DeviceConfig, the health tree and its posts in DeviceHealth.     *)
(***************************************************************************)
EXTENDS RestRouting

CONSTANTS
  Threads,    \* threads of the HTTP server
  Endpoints,  \* application endpoints, [id, owner, doc]
  MaxRoutes,  \* bound: endpoints are added while there are fewer routes
  Offered,    \* services the application may register, [type, spec, uri]
  Wanted,     \* types of services it may desire
  Bodies,     \* arrays a client may send to map services, nulls included
  ParamValues,
  Absent,     \* a member that is missing
  Null,       \* a member that is null
  NoURI,      \* the empty URI
  Env         \* the liberties the environment takes (see Liberties)

(***************************************************************************)
(* "overlap": requests that map services run at the same time.             *)
(* "remap":   the application changes its services while the device        *)
(*            serves.                                                      *)
(***************************************************************************)
Liberties == {"overlap", "remap"}

DeviceID == "hnode2Dev"
HealthSink == "hnsrv-health-sink"
Idle == [at |-> "idle"]

VARIABLES
  pathList,    \* the routes of HNRestHandlerFactory
  endpointMap, \* m_endpointMap: dispatch ID |-> whose dispatchEP is called
  advertised,  \* m_advertisedServices
  desired,     \* m_desiredServices: type |-> [mapped, uri]
  enabled,     \* m_health.isEnabled()
  sinkURI,     \* m_health's m_sinkURI
  started,     \* the HTTP server accepts requests
  task,        \* per thread: the putServiceMappings it executes
  outcome      \* history: what became of the last request that mapped the sink

vars == <<pathList, endpointMap, advertised, desired, enabled, sinkURI, started, task,
          outcome>>
services == <<advertised, desired>>
routes == <<pathList, endpointMap>>

ASSUME ServicesAssumption ==
  /\ Env \subseteq Liberties
  /\ MaxRoutes \in Nat
  /\ DeviceID \notin {e.owner : e \in Endpoints}
  /\ {Absent, Null, NoURI} \cap (Wanted \cup ParamValues) = {}
  /\ NoURI \notin {Absent, Null}

--------------------------------------------------------------------------------
(* The device's own REST interface *)

D(p) == <<Literal("hnode2"), Literal("device")>> \o p
serviceType == Param("serviceType")

\* g_HNode2DeviceRest, sorted by path and method.
DeviceApi == <<
  Operation("GET", D(<<Literal("health")>>), "getDeviceHealth"),
  Operation("GET", D(<<Literal("health"), Param("compID")>>), "getDeviceHealthComponent"),
  Operation("GET", D(<<Literal("info")>>), "getDeviceInfo"),
  Operation("PUT", D(<<Literal("info")>>), "putDeviceConfig"),
  Operation("DELETE", D(<<Literal("owner")>>), "deleteDeviceOwner"),
  Operation("GET", D(<<Literal("owner")>>), "getDeviceOwner"),
  Operation("PUT", D(<<Literal("owner")>>), "putDeviceOwner"),
  Operation("GET", D(<<Literal("services")>>), "getDeviceServices"),
  Operation("GET", D(<<Literal("services"), Literal("mappings")>>), "getServiceMappings"),
  Operation("PUT", D(<<Literal("services"), Literal("mappings")>>), "putServiceMappings"),
  Operation("GET", D(<<Literal("services"), Literal("mappings"), serviceType>>), "getServiceMapping"),
  Operation("PUT", D(<<Literal("services"), Literal("mappings"), serviceType>>), "putServiceMapping"),
  Operation("GET", D(<<Literal("services"), Literal("provided")>>), "getServicesProvidedList"),
  Operation("GET", D(<<Literal("services"), Literal("provided"), serviceType>>), "getServicesProvided"),
  Operation("GET", D(<<Literal("string-source"), Literal("format-strings")>>), "getAllDeviceFormatStrings"),
  Operation("PUT", D(<<Literal("string-source"), Literal("format-strings")>>), "getDeviceFormatStrings")>>

\* HNodeDevice::HNodeDevice: the device is an endpoint itself, and the first.
Init ==
  /\ pathList = RegisterEndpointsFromOpenAPI(DeviceID, DeviceApi)
  /\ endpointMap = [id \in {DeviceID} |-> DeviceID]
  /\ advertised = <<>> /\ desired = <<>>
  /\ enabled = FALSE /\ sinkURI = NoURI /\ started = FALSE
  /\ task = [t \in Threads |-> Idle] /\ outcome = "checked"

--------------------------------------------------------------------------------
(* The application *)

MayChange == ~started \/ "remap" \in Env

\* std::map::insert leaves an entry that is there.
Inserted(map, key, value) ==
  [k \in DOMAIN map \cup {key} |-> IF k \in DOMAIN map THEN map[k] ELSE value]
Erased(map, key) == [k \in DOMAIN map \ {key} |-> map[k]]

\* registerProvidedServiceCustom, registerProvidedServiceExtension
RegisterProvidedService(s) ==
  /\ MayChange
  /\ advertised' = Inserted(advertised, s.type, s)
  /\ UNCHANGED <<desired, routes, enabled, sinkURI, started, task, outcome>>

ClearProvidedService(type) ==
  /\ MayChange
  /\ advertised' = Erased(advertised, type)
  /\ UNCHANGED <<desired, routes, enabled, sinkURI, started, task, outcome>>

ClearProvidedServices ==
  /\ MayChange
  /\ advertised' = <<>>
  /\ UNCHANGED <<desired, routes, enabled, sinkURI, started, task, outcome>>

AddDesiredService(type) ==
  /\ MayChange
  /\ desired' = Inserted(desired, type, [mapped |-> FALSE, uri |-> NoURI])
  /\ UNCHANGED <<advertised, routes, enabled, sinkURI, started, task, outcome>>

ClearDesiredService(type) ==
  /\ MayChange
  /\ desired' = Erased(desired, type)
  /\ UNCHANGED <<advertised, routes, enabled, sinkURI, started, task, outcome>>

ClearDesiredServices ==
  /\ MayChange
  /\ desired' = <<>>
  /\ UNCHANGED <<advertised, routes, enabled, sinkURI, started, task, outcome>>

\* A dispatch ID keeps its first endpoint; the routes are added all the same.
AddEndpoint(e) ==
  /\ ~started
  /\ Len(pathList) < MaxRoutes
  /\ endpointMap' = Inserted(endpointMap, e.id, e.owner)
  /\ pathList' = pathList \o RegisterEndpointsFromOpenAPI(e.id, e.doc)
  /\ UNCHANGED <<services, enabled, sinkURI, started, task, outcome>>

\* enableHealthMonitoring and disableHealthMonitoring: the sink stays.
SetHealth(on) ==
  /\ enabled' = on
  /\ UNCHANGED <<routes, services, sinkURI, started, task, outcome>>

Rest(type, path) == [type |-> type, spec |-> "rest", uri |-> path]

Start ==
  /\ ~started
  /\ started' = TRUE
  /\ LET Offer(map, type, path) == Inserted(map, type, Rest(type, path))
         own == Offer(Offer(advertised, "hnsrv-hnode2-device", <<"device">>),
                      "hnsrv-string-source", <<"device", "string-source">>)
     IN advertised' = IF enabled
                      THEN Offer(own, "hnsrv-health-source", <<"device", "health">>)
                      ELSE own
  /\ desired' = IF enabled
                THEN Inserted(desired, HealthSink, [mapped |-> FALSE, uri |-> NoURI])
                ELSE desired
  /\ UNCHANGED <<routes, enabled, sinkURI, task, outcome>>

--------------------------------------------------------------------------------
(* The handler of putServiceMappings, on a thread of the server *)

Busy(t) == task[t].at # "idle"

\* A body that is no array is answered 400 at once and changes nothing.
PutServiceMappings(t, body) ==
  /\ started /\ ~Busy(t)
  /\ (\E u \in Threads : Busy(u)) => "overlap" \in Env
  /\ task' = [task EXCEPT ![t] = [at |-> "items", left |-> body]]
  /\ UNCHANGED <<routes, services, enabled, sinkURI, started, outcome>>

Item(t) == Head(task[t].left)
Throws(item) == item.type = Null \/ (item.type \in DOMAIN desired /\ item.uri = Null)

\* Faulty variant: setMapped is forgotten.
MappedUnmarked(item) ==
  IF item.type \in DOMAIN desired /\ item.uri # Absent
  THEN [desired EXCEPT ![item.type].uri = item.uri]
  ELSE desired

\* The desired services after an item; unknown types are passed over.
Mapped(item) ==
  IF item.type \in DOMAIN desired /\ item.uri # Absent
  THEN [desired EXCEPT ![item.type] = [mapped |-> TRUE, uri |-> item.uri]]
  ELSE desired

\* The record of the health sink changes with an item.
MapsSink(item) == item.type = HealthSink /\ Mapped(item) # desired

\* One item of the array; one that is not an object has no type either.
MapItem(t) ==
  /\ task[t].at = "items" /\ task[t].left # <<>>
  /\ ~Throws(Item(t))
  /\ desired' = Mapped(Item(t))
  /\ task' = [task EXCEPT ![t].left = Tail(@)]
  /\ outcome' = IF MapsSink(Item(t)) THEN "pending" ELSE outcome
  /\ UNCHANGED <<advertised, routes, enabled, sinkURI, started>>

\* An exception is answered 500; what was mapped before it stays mapped.
ItemThrows(t) ==
  /\ task[t].at = "items" /\ task[t].left # <<>>
  /\ Throws(Item(t))
  /\ task' = [task EXCEPT ![t] = Idle]
  /\ outcome' = IF outcome = "pending" THEN "refused" ELSE outcome
  /\ UNCHANGED <<routes, services, enabled, sinkURI, started>>

\* Faulty variant: only the first mapping is passed on.
CheckServiceMappingUpdatesOnce(t) ==
  /\ task[t].at = "items" /\ task[t].left = <<>>
  /\ task' = [task EXCEPT ![t] =
       IF HealthSink \notin DOMAIN desired \/ sinkURI # NoURI THEN Idle
       ELSE [at |-> "check", uri |-> desired[HealthSink].uri]]
  /\ outcome' = IF task'[t] = Idle THEN "checked" ELSE outcome
  /\ UNCHANGED <<routes, services, enabled, sinkURI, started>>

(***************************************************************************)
(* checkServiceMappingUpdates reads the record of the health sink.  That   *)
(* of a service that is not mapped holds the empty URI.                    *)
(***************************************************************************)
CheckServiceMappingUpdates(t) ==
  /\ task[t].at = "items" /\ task[t].left = <<>>
  /\ task' = [task EXCEPT ![t] =
       IF HealthSink \notin DOMAIN desired THEN Idle
       ELSE [at |-> "check", uri |-> IF desired[HealthSink].mapped
                                     THEN desired[HealthSink].uri ELSE NoURI]]
  /\ outcome' = IF task'[t] = Idle THEN "checked" ELSE outcome
  /\ UNCHANGED <<routes, services, enabled, sinkURI, started>>

\* m_health.checkSinkMapping or clearSinkMapping stores what was read.
CheckSinkMapping(t) ==
  /\ task[t].at = "check"
  /\ sinkURI' = task[t].uri
  /\ task' = [task EXCEPT ![t] = Idle]
  /\ outcome' = "checked"
  /\ UNCHANGED <<routes, services, enabled, started>>

Application ==
  \/ \E s \in Offered : RegisterProvidedService(s) \/ ClearProvidedService(s.type)
  \/ ClearProvidedServices
  \/ \E type \in Wanted : AddDesiredService(type) \/ ClearDesiredService(type)
  \/ ClearDesiredServices
  \/ \E e \in Endpoints : AddEndpoint(e)
  \/ \E on \in BOOLEAN : SetHealth(on)
  \/ Start

Request(t) ==
  \/ \E body \in Bodies : PutServiceMappings(t, body)
  \/ MapItem(t) \/ ItemThrows(t)
  \/ CheckServiceMappingUpdates(t) \/ CheckSinkMapping(t)

Next == Application \/ \E t \in Threads : Request(t)

Spec == Init /\ [][Next]_vars

--------------------------------------------------------------------------------
(* What requests that only read are answered *)

Reply(status, body) == [status |-> status, body |-> body]

\* A provided service as it is listed: an extension at the server's own address.
ProvidedItem(s) ==
  [type |-> s.type,
   uri |-> IF s.spec = "rest" THEN [served |-> <<"hnode2">> \o s.uri]
                              ELSE [given |-> s.uri]]
ProvidedServices == {ProvidedItem(advertised[type]) : type \in DOMAIN advertised}

DesiredItem(type) == [type |-> type, uri |-> desired[type].uri]
DesiredServices == {DesiredItem(type) : type \in DOMAIN desired}

\* The operations whose answers other modules model, or that depend on a body.
Others ==
  {"getDeviceInfo", "putDeviceConfig", "getDeviceOwner", "putDeviceOwner",
   "deleteDeviceOwner", "putServiceMappings", "putServiceMapping", "getDeviceHealth",
   "getAllDeviceFormatStrings", "getDeviceFormatStrings"}

\* Their answers, and those of an application's endpoint.
Elsewhere == Reply(0, {})

\* Whether the service a request names is in the map; a path may hold no name.
Lookup(params, map) ==
  IF "serviceType" \notin DOMAIN params THEN 500
  ELSE IF params.serviceType \in DOMAIN map THEN 200 ELSE 404

\* dispatchEP, for operations that read services and those the device has not.
Answer(op, params) ==
  CASE op = "getDeviceServices" ->
         Reply(200, [provided |-> ProvidedServices, desired |-> DesiredServices])
    [] op = "getServicesProvidedList" -> Reply(200, ProvidedServices)
    [] op = "getServicesProvided" ->
         LET status == Lookup(params, advertised)
         IN Reply(status, IF status = 200 THEN ProvidedItem(advertised[params.serviceType])
                                          ELSE {})
    [] op = "getServiceMappings" -> Reply(200, DesiredServices)
    [] op = "getServiceMapping" ->
         LET status == Lookup(params, desired)
         IN Reply(status, IF status = 200 THEN DesiredItem(params.serviceType) ELSE {})
    [] op \in Others -> Elsewhere
    [] OTHER -> Reply(501, {})

\* restDispatch: whose dispatchEP gets the request.
RestDispatch(hit) ==
  IF hit # NoRoute /\ hit.dispatch \in DOMAIN endpointMap
  THEN endpointMap[hit.dispatch] ELSE NoOp

\* What a client that sends the request is told.
Ask(method, segs) ==
  LET hit == CreateRequestHandler(pathList, method, segs)
  IN IF hit = NoRoute THEN Reply(501, {})
     ELSE IF RestDispatch(hit) = DeviceID THEN Answer(hit.op, hit.params)
     ELSE Elsewhere

--------------------------------------------------------------------------------
(* Properties *)

URIs == {NoURI} \cup UNION {{b[i].uri : i \in DOMAIN b} : b \in Bodies}

(* Maps hold records under their own types, and tasks are those of the handler. *)
TypeOK ==
  /\ \A r \in {pathList[i] : i \in DOMAIN pathList} : r.dispatch \in DOMAIN endpointMap
  /\ \A type \in DOMAIN advertised : advertised[type].type = type
  /\ \A type \in DOMAIN desired :
       /\ desired[type].uri \in URIs \ {Null, Absent}
       /\ desired[type].mapped <=> desired[type].uri # NoURI
  /\ enabled \in BOOLEAN /\ started \in BOOLEAN
  /\ sinkURI \in URIs \ {Null, Absent}
  /\ outcome \in {"checked", "pending", "refused"}
  /\ \A t \in Threads :
       \/ task[t] = Idle
       \/ task[t].at = "items" /\ \A i \in DOMAIN task[t].left :
                                    task[t].left[i].uri \in URIs \cup {Null, Absent}
       \/ task[t].at = "check" /\ task[t].uri \in URIs \ {Null, Absent}

(* Whatever endpoints the application adds (it may register a path that also
   matches one of the device's, or an endpoint under an ID in use), every operation
   of the device's interface is reached under its path, with the client's
   parameters, by the device itself. *)
DeviceOperationsReached ==
  \A i \in DOMAIN DeviceApi :
    LET api == DeviceApi[i]
        Segs(v) == [k \in DOMAIN api.path |->
                      IF api.path[k].param THEN v ELSE api.path[k].name]
    IN \A v \in ParamValues :
         LET hit == CreateRequestHandler(pathList, api.method, Segs(v))
         IN /\ hit.op = api.op
            /\ RestDispatch(hit) = DeviceID
            /\ \A k \in DOMAIN api.path :
                 api.path[k].param => hit.params[api.path[k].name] = v

(* What clients are told of the mapping of the health sink is where the events
   of HNDeviceHealth go, whenever no request is changing mappings: the record
   and m_sinkURI are two copies kept by different steps.  One case is left out:
   a request that changed the record and was then answered 500, because of a
   null further on, has not stored the URI, and the two differ until the next
   request that is accepted. *)
SinkFollowsMapping ==
  (\A t \in Threads : ~Busy(t)) /\ outcome # "refused" =>
    LET told == Ask("GET", <<"hnode2", "device", "services", "mappings", HealthSink>>)
    IN told.status = 404 \/ told.body.uri = sinkURI
================================================================================
