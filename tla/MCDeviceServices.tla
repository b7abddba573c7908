--------------------------- MODULE MCDeviceServices ----------------------------
(* Instances of DeviceServices for TLC. *)
EXTENDS DeviceServices

CONSTANTS uri1, uri2

\* A route that matches every path of three segments; one the device has too, and
\* an operation without an ID behind it; another endpoint under the same ID, and
\* one under the device's own, whose routes the device answers itself.
MCEndpoints ==
  {[id |-> "any", owner |-> "any",
    doc |-> <<Operation("GET", <<Param("a"), Param("b"), Param("a")>>, "getAny")>>],
   [id |-> "app", owner |-> "app",
    doc |-> <<Operation("GET", D(<<Literal("health"), Literal("info")>>), "getAppInfo"),
              Operation("PUT", D(<<Literal("info")>>), NoOp),
              Operation("PUT", D(<<Literal("owner")>>), "putAppOwner")>>],
   [id |-> "app", owner |-> "twin",
    doc |-> <<Operation("GET", D(<<Param("compID")>>), "getTwin")>>],
   [id |-> DeviceID, owner |-> "usurper",
    doc |-> <<Operation("GET", D(<<Literal("services"), Param("a")>>),
                        "getServicesProvided")>>]}

MCOffered ==
  {[type |-> "hnsrv-health-source", spec |-> "custom", uri |-> uri1],
   [type |-> "hnsrv-app", spec |-> "rest", uri |-> <<"app">>]}

MCWanted == {HealthSink, "hnsrv-log-sink"}

Mapping(type, uri) == [type |-> type, uri |-> uri]
MCBodies ==
  {<<Mapping(HealthSink, uri1)>>,
   <<Mapping("hnsrv-log-sink", uri1), Mapping(HealthSink, uri2)>>,
   <<Mapping(HealthSink, uri2), Mapping("hnsrv-other", uri1), Mapping(HealthSink, uri1)>>,
   <<Mapping(HealthSink, Absent), Mapping(Absent, uri2)>>,
   <<Mapping(HealthSink, uri2), Mapping("hnsrv-log-sink", Null)>>,
   <<Mapping(Null, uri1)>>}

MCParamValues == {"health", "info", "mappings", "hnsrv-app"}
================================================================================
