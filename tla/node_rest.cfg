CONSTANTS
  Threads = {t1, t2}
  Endpoints <- MCEndpoints
  MaxRoutes = 18
  Offered <- MCOffered
  Wanted <- MCWanted
  Bodies <- MCBodies
  ParamValues <- MCParamValues
  uri1 = uri1
  uri2 = uri2
  Absent = Absent
  Null = Null
  NoURI = NoURI
  Env = {}
SPECIFICATION Spec
INVARIANT TypeOK DeviceOperationsReached SinkFollowsMapping
