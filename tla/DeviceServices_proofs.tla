------------------------- MODULE DeviceServices_proofs -------------------------
(***************************************************************************)
(* Theorems about DeviceServices, for any endpoints of the application,    *)
(* services, threads and clients.                                          *)
(***************************************************************************)
EXTENDS DeviceServices, WellFoundedInduction, SequenceTheorems, TLAPS

(***************************************************************************)
(* Routes: the first one that matches is the least of the numbers of those *)
(* that match.                                                             *)
(***************************************************************************)
\* A set of numbers that is not empty has a least one, which Min chooses.
LEMMA MinIs ==
  ASSUME NEW T, T \subseteq Nat, T # {}
  PROVE  Min(T) \in T /\ \A y \in T : Min(T) <= y
<1> DEFINE R == {p \in Nat \X Nat : p[1] < p[2]}
<1>1. IsWellFoundedOn(R, Nat)
  BY NatLessThanWellFounded DEF OpToRel
<1>2. PICK x \in T : \A y \in T : <<y, x>> \notin R
  <2> HIDE DEF R
  <2>1. QED BY <1>1, WFMin
<1>3. \A y \in T : ~(y < x)
  BY <1>2
<1>4. \A y \in T : x <= y
  BY <1>3
<1>5. QED BY <1>4 DEF Min

\* What the registration of a document adds are routes for its operations.
Routes(ids, Ops) ==
  {[dispatch |-> id, op |-> o.op, method |-> o.method, elements |-> o.path] :
     id \in ids, o \in Ops}

\* It is a sequence of them, up to an operation without an ID.
LEMMA RegisteredRoutes ==
  ASSUME NEW ids, NEW id \in ids, NEW Ops, NEW doc \in Seq(Ops)
  PROVE  RegisterEndpointsFromOpenAPI(id, doc) \in Seq(Routes(ids, Ops))
<1> DEFINE bad == {i \in DOMAIN doc : doc[i].op = NoOp}
           n == IF bad = {} THEN Len(doc) ELSE Min(bad) - 1
           r == [i \in 1 .. n |-> [dispatch |-> id, op |-> doc[i].op,
                                   method |-> doc[i].method, elements |-> doc[i].path]]
<1>1. r = RegisterEndpointsFromOpenAPI(id, doc)
  BY DEF RegisterEndpointsFromOpenAPI
<1>2. n \in 0 .. Len(doc)
  <2>1. CASE bad = {}
    BY <2>1
  <2>2. CASE bad # {}
    <3>1. bad \subseteq 1 .. Len(doc) /\ bad \subseteq Nat
      OBVIOUS
    <3> HIDE DEF bad
    <3>2. Min(bad) \in 1 .. Len(doc)
      BY <2>2, <3>1, MinIs
    <3>3. QED BY <2>2, <3>2
  <2>3. QED BY <2>1, <2>2
<1> HIDE DEF n
<1>3. \A i \in 1 .. n : doc[i] \in Ops
  BY <1>2
<1>4. r \in Seq(Routes(ids, Ops))
  BY <1>2, <1>3 DEF Routes
<1>5. QED BY <1>1, <1>4

\* A document whose operations all have an ID is registered whole.
LEMMA RegisteredWhole ==
  ASSUME NEW Ops, NEW doc \in Seq(Ops), NEW id, \A i \in 1 .. Len(doc) : doc[i].op # NoOp
  PROVE  /\ Len(RegisterEndpointsFromOpenAPI(id, doc)) = Len(doc)
         /\ \A i \in 1 .. Len(doc) :
              RegisterEndpointsFromOpenAPI(id, doc)[i] =
                [dispatch |-> id, op |-> doc[i].op, method |-> doc[i].method,
                 elements |-> doc[i].path]
BY DEF RegisterEndpointsFromOpenAPI

\* Of the routes that match, the request goes to the one before all others.
LEMMA FirstRoute ==
  ASSUME NEW S, NEW list \in Seq(S), NEW method, NEW segs, NEW i \in 1 .. Len(list),
         CheckForHandler(list[i], method, segs),
         \A j \in 1 .. i - 1 : ~CheckForHandler(list[j], method, segs)
  PROVE  CreateRequestHandler(list, method, segs) =
           [dispatch |-> list[i].dispatch, op |-> list[i].op,
            params |-> Params(list[i], segs)]
<1> DEFINE hits == {j \in DOMAIN list : CheckForHandler(list[j], method, segs)}
<1>1. i \in hits /\ hits \subseteq Nat /\ \A j \in hits : j >= i
  OBVIOUS
<1>2. Min(hits) = i
  <2> HIDE DEF hits
  <2>1. Min(hits) \in hits /\ Min(hits) <= i
    BY <1>1, MinIs
  <2>2. Min(hits) >= i /\ Min(hits) \in Nat
    BY <1>1, <2>1
  <2>3. QED BY <2>1, <2>2
<1>3. QED BY <1>1, <1>2 DEF CreateRequestHandler

\* What the paths of the device's own interface are made of.
Names == {"hnode2", "device", "health", "info", "owner", "services", "mappings",
          "provided", "string-source", "format-strings", "compID", "serviceType"}
Element == [param : BOOLEAN, name : Names]

\* What a client sends for a path: its literals, and v for each parameter.
SegsOf(path, v) == [k \in DOMAIN path |-> IF path[k].param THEN v ELSE path[k].name]

\* Each parameter of the path is captured, as v.
Captures(params, path, v) ==
  \A k \in DOMAIN path : path[k].param =>
    path[k].name \in DOMAIN params /\ params[path[k].name] = v

\* A route matches the request for its own path and captures each parameter.
LEMMA OwnPath ==
  ASSUME NEW path \in Seq(Element), NEW v, NEW route, route.elements = path
  PROVE  /\ Len(SegsOf(path, v)) = Len(path)
         /\ CheckForHandler(route, route.method, SegsOf(path, v))
         /\ Captures(Params(route, SegsOf(path, v)), path, v)
<1> DEFINE segs == SegsOf(path, v)
<1>1. /\ DOMAIN segs = 1 .. Len(path) /\ Len(segs) = Len(path)
      /\ \A k \in 1 .. Len(path) :
           /\ path[k].param => segs[k] = v
           /\ ~path[k].param => segs[k] = path[k].name
           /\ path[k] \in Element
  BY DEF SegsOf
<1> HIDE DEF segs
<1>2. CheckForHandler(route, route.method, segs)
  BY <1>1 DEF CheckForHandler, Element
<1>3. ASSUME NEW k \in 1 .. Len(path), path[k].param
      PROVE  /\ path[k].name \in DOMAIN Params(route, segs)
             /\ Params(route, segs)[path[k].name] = v
  <2> DEFINE name == path[k].name
             at == {i \in DOMAIN segs : route.elements[i] = Param(name)}
             names == {e.name : e \in {route.elements[i] :
                         i \in {j \in DOMAIN segs : route.elements[j].param}}}
  <2>1. path[k] = Param(name)
    BY <1>1, <1>3 DEF Element, Param
  <2>2. k \in at /\ at \subseteq Nat
    BY <1>1, <2>1
  <2>3. Min(at) \in at
    <3> HIDE DEF at
    <3>1. QED BY <2>2, MinIs
  <2>4. path[Min(at)].param /\ Min(at) \in 1 .. Len(path)
    BY <1>1, <2>3 DEF Param
  <2>5. segs[Min(at)] = v
    BY <1>1, <2>4
  <2>6. name \in names
    BY <1>1, <1>3
  <2>7. name \in DOMAIN Params(route, segs) /\ Params(route, segs)[name] = segs[Min(at)]
    BY <2>6 DEF Params
  <2>8. QED BY <2>5, <2>7
<1>4. QED BY <1>1, <1>2, <1>3 DEF segs, Captures
-----------------------------------------------------------------------------
(***************************************************************************)
(* The device's own interface: no two of its operations have a request in  *)
(* common.                                                                 *)
(***************************************************************************)
\* Two segments before a path.
LEMMA Prefixed ==
  ASSUME NEW S, NEW x \in S, NEW y \in S, NEW p \in Seq(S), NEW q \in Seq(S),
         Len(q) = Len(p) + 2, q[1] = x, q[2] = y,
         \A i \in 1 .. Len(p) : q[i + 2] = p[i]
  PROVE  <<x, y>> \o p = q
<1> DEFINE c == <<x, y>> \o p
<1>1. c \in Seq(S) /\ Len(c) = Len(p) + 2
      /\ \A i \in 1 .. Len(c) : c[i] = IF i <= 2 THEN <<x, y>>[i] ELSE p[i - 2]
  BY ConcatProperties
<1> HIDE DEF c
<1>2. ASSUME NEW i \in 1 .. Len(c) PROVE c[i] = q[i]
  <2>1. CASE i = 1 \/ i = 2
    BY <1>1, <2>1
  <2>2. CASE i > 2
    BY <1>1, <2>2
  <2>3. QED BY <1>1, <2>1, <2>2
<1>3. c = q
  BY <1>1, <1>2, SeqEqual
<1>4. QED BY <1>3 DEF c

\* The paths of the interface, of three to five segments.
LEMMA PathIs ==
  /\ \A a : D(<<a>>) = <<Literal("hnode2"), Literal("device"), a>>
  /\ \A a, b : D(<<a, b>>) = <<Literal("hnode2"), Literal("device"), a, b>>
  /\ \A a, b, c : D(<<a, b, c>>) = <<Literal("hnode2"), Literal("device"), a, b, c>>
<1> DEFINE x == Literal("hnode2")
           y == Literal("device")
<1> HIDE DEF x, y
<1>1. ASSUME NEW a PROVE <<x, y>> \o <<a>> = <<x, y, a>>
  <2> DEFINE S == {x, y, a}
  <2>1. <<a>> \in Seq(S) /\ <<x, y, a>> \in Seq(S) /\ x \in S /\ y \in S
    OBVIOUS
  <2>2. /\ Len(<<x, y, a>>) = Len(<<a>>) + 2 /\ <<x, y, a>>[1] = x /\ <<x, y, a>>[2] = y
        /\ \A i \in 1 .. Len(<<a>>) : <<x, y, a>>[i + 2] = <<a>>[i]
    OBVIOUS
  <2> HIDE DEF S
  <2>3. QED BY <2>1, <2>2, Prefixed
<1>2. ASSUME NEW a, NEW b PROVE <<x, y>> \o <<a, b>> = <<x, y, a, b>>
  <2> DEFINE S == {x, y, a, b}
  <2>1. <<a, b>> \in Seq(S) /\ <<x, y, a, b>> \in Seq(S) /\ x \in S /\ y \in S
    OBVIOUS
  <2>2. /\ Len(<<x, y, a, b>>) = Len(<<a, b>>) + 2 /\ <<x, y, a, b>>[1] = x /\ <<x, y, a, b>>[2] = y
        /\ \A i \in 1 .. Len(<<a, b>>) : <<x, y, a, b>>[i + 2] = <<a, b>>[i]
    OBVIOUS
  <2> HIDE DEF S
  <2>3. QED BY <2>1, <2>2, Prefixed
<1>3. ASSUME NEW a, NEW b, NEW c PROVE <<x, y>> \o <<a, b, c>> = <<x, y, a, b, c>>
  <2> DEFINE S == {x, y, a, b, c}
  <2>1. <<a, b, c>> \in Seq(S) /\ <<x, y, a, b, c>> \in Seq(S) /\ x \in S /\ y \in S
    OBVIOUS
  <2>2. /\ Len(<<x, y, a, b, c>>) = Len(<<a, b, c>>) + 2 /\ <<x, y, a, b, c>>[1] = x /\ <<x, y, a, b, c>>[2] = y
        /\ \A i \in 1 .. Len(<<a, b, c>>) : <<x, y, a, b, c>>[i + 2] = <<a, b, c>>[i]
    OBVIOUS
  <2> HIDE DEF S
  <2>3. QED BY <2>1, <2>2, Prefixed
<1>4. QED BY <1>1, <1>2, <1>3 DEF D, x, y

Segs3(i, a) == DeviceApi[i].path = <<Literal("hnode2"), Literal("device"), a>>
Segs4(i, a, b) == DeviceApi[i].path = <<Literal("hnode2"), Literal("device"), a, b>>
Segs5(i, a, b, c) ==
  DeviceApi[i].path = <<Literal("hnode2"), Literal("device"), a, b, c>>

\* The methods and paths of the sixteen operations.
LEMMA ApiTable ==
  /\ Len(DeviceApi) = 16
  /\ DeviceApi[1].method = "GET" /\ Segs3(1, Literal("health"))
  /\ DeviceApi[2].method = "GET" /\ Segs4(2, Literal("health"), Param("compID"))
  /\ DeviceApi[3].method = "GET" /\ Segs3(3, Literal("info"))
  /\ DeviceApi[4].method = "PUT" /\ Segs3(4, Literal("info"))
  /\ DeviceApi[5].method = "DELETE" /\ Segs3(5, Literal("owner"))
  /\ DeviceApi[6].method = "GET" /\ Segs3(6, Literal("owner"))
  /\ DeviceApi[7].method = "PUT" /\ Segs3(7, Literal("owner"))
  /\ DeviceApi[8].method = "GET" /\ Segs3(8, Literal("services"))
  /\ DeviceApi[9].method = "GET" /\ Segs4(9, Literal("services"), Literal("mappings"))
  /\ DeviceApi[10].method = "PUT" /\ Segs4(10, Literal("services"), Literal("mappings"))
  /\ DeviceApi[11].method = "GET"
  /\ Segs5(11, Literal("services"), Literal("mappings"), serviceType)
  /\ DeviceApi[12].method = "PUT"
  /\ Segs5(12, Literal("services"), Literal("mappings"), serviceType)
  /\ DeviceApi[13].method = "GET" /\ Segs4(13, Literal("services"), Literal("provided"))
  /\ DeviceApi[14].method = "GET"
  /\ Segs5(14, Literal("services"), Literal("provided"), serviceType)
  /\ DeviceApi[15].method = "GET"
  /\ Segs4(15, Literal("string-source"), Literal("format-strings"))
  /\ DeviceApi[16].method = "PUT"
  /\ Segs4(16, Literal("string-source"), Literal("format-strings"))
BY PathIs DEF DeviceApi, Operation, Segs3, Segs4, Segs5

\* What requests tell operations apart by.
Method(i) == DeviceApi[i].method
Segments(i) == Len(DeviceApi[i].path)
Third(i) == DeviceApi[i].path[3].name
Fourth(i) == DeviceApi[i].path[4].name

\* What tells an operation from the others: its method, number of segments, third
\* segment and, for services, fourth segment.
Key(i, method, len, third, fourth) ==
  /\ Method(i) = method /\ Segments(i) = len /\ Third(i) = third
  /\ fourth # "" => Fourth(i) = fourth

\* The numbers of the operations, one by one.
Numbers16(i) ==
  \/ i = 1 \/ i = 2 \/ i = 3 \/ i = 4 \/ i = 5 \/ i = 6 \/ i = 7 \/ i = 8
  \/ i = 9 \/ i = 10 \/ i = 11 \/ i = 12 \/ i = 13 \/ i = 14 \/ i = 15 \/ i = 16

\* The keys of the sixteen operations.
LEMMA ApiKeys ==
  /\ Key(1, "GET", 3, "health", "") /\ Key(2, "GET", 4, "health", "")
  /\ Key(3, "GET", 3, "info", "") /\ Key(4, "PUT", 3, "info", "")
  /\ Key(5, "DELETE", 3, "owner", "") /\ Key(6, "GET", 3, "owner", "")
  /\ Key(7, "PUT", 3, "owner", "") /\ Key(8, "GET", 3, "services", "")
  /\ Key(9, "GET", 4, "services", "mappings") /\ Key(10, "PUT", 4, "services", "mappings")
  /\ Key(11, "GET", 5, "services", "mappings") /\ Key(12, "PUT", 5, "services", "mappings")
  /\ Key(13, "GET", 4, "services", "provided") /\ Key(14, "GET", 5, "services", "provided")
  /\ Key(15, "GET", 4, "string-source", "") /\ Key(16, "PUT", 4, "string-source", "")
<1>1. \A e : Literal(e).name = e
  BY DEF Literal
<1>2. QED
  BY ApiTable, <1>1 DEF Key, Method, Segments, Third, Fourth, Segs3, Segs4, Segs5

\* Paths are made of literals and parameters; the third segment is a literal, and so
\* is the fourth of those of services.
LEMMA ApiShape ==
  ASSUME NEW i \in 1 .. 16
  PROVE  LET path == DeviceApi[i].path
         IN /\ path \in Seq(Element) /\ Len(path) \in 3 .. 5
            /\ ~path[3].param
            /\ Third(i) = "services" /\ Len(path) > 3 => ~path[4].param
<1> DEFINE Shape(path) ==
      /\ path \in Seq(Element) /\ Len(path) \in 3 .. 5
      /\ ~path[3].param
      /\ path[3].name = "services" /\ Len(path) > 3 => ~path[4].param
<1>1. /\ Literal("hnode2") \in Element /\ Literal("device") \in Element
      /\ Literal("health") \in Element /\ Literal("info") \in Element
      /\ Literal("owner") \in Element /\ Literal("services") \in Element
      /\ Literal("mappings") \in Element /\ Literal("provided") \in Element
      /\ Literal("string-source") \in Element /\ Literal("format-strings") \in Element
      /\ Param("compID") \in Element /\ serviceType \in Element
  BY DEF serviceType, Literal, Param, Element, Names
<1>2. \A e : ~Literal(e).param /\ Literal(e).name = e
  BY DEF Literal
<1> DEFINE x == Literal("hnode2")
           y == Literal("device")
<1> HIDE DEF x, y
<1>3. x \in Element /\ y \in Element
  BY <1>1 DEF x, y
<1>4. \A e : Literal(e) \in Element => Shape(<<x, y, Literal(e)>>)
  BY <1>2, <1>3
<1>5. \A e, f : Literal(e) \in Element /\ f \in Element /\ (e = "services" => ~f.param)
        => Shape(<<x, y, Literal(e), f>>)
  BY <1>2, <1>3
<1>6. \A e, f, g : /\ Literal(e) \in Element /\ Literal(f) \in Element /\ g \in Element
        => Shape(<<x, y, Literal(e), Literal(f), g>>)
  BY <1>2, <1>3
<1> HIDE DEF Shape
<1>7. /\ Segs3(i, Literal("health")) \/ Segs3(i, Literal("info"))
           \/ Segs3(i, Literal("owner")) \/ Segs3(i, Literal("services"))
           => Shape(DeviceApi[i].path)
  BY <1>1, <1>4 DEF Segs3, x, y
<1>8. /\ Segs4(i, Literal("health"), Param("compID"))
           \/ Segs4(i, Literal("services"), Literal("mappings"))
           \/ Segs4(i, Literal("services"), Literal("provided"))
           \/ Segs4(i, Literal("string-source"), Literal("format-strings"))
           => Shape(DeviceApi[i].path)
  BY <1>1, <1>2, <1>5 DEF Segs4, x, y
<1>9. /\ Segs5(i, Literal("services"), Literal("mappings"), serviceType)
           \/ Segs5(i, Literal("services"), Literal("provided"), serviceType)
           => Shape(DeviceApi[i].path)
  BY <1>1, <1>6 DEF Segs5, x, y
<1>10. Numbers16(i)
  BY DEF Numbers16
<1>11. Shape(DeviceApi[i].path)
  BY <1>7, <1>8, <1>9, <1>10, ApiTable DEF Numbers16
<1>12. QED BY <1>11 DEF Shape, Third

\* Operations of the same method, number of segments and segments are the same.
LEMMA KeysDiffer ==
  ASSUME NEW i \in 1 .. 16, NEW j \in 1 .. 16,
         Method(i) = Method(j), Segments(i) = Segments(j), Third(i) = Third(j),
         Third(i) = "services" /\ Segments(i) > 3 => Fourth(i) = Fourth(j)
  PROVE  i = j
<1>1. Numbers16(i) /\ Numbers16(j)
  BY DEF Numbers16
<1>2. QED BY <1>1, ApiKeys DEF Numbers16, Key

\* No two operations match one request, whatever is sent for their parameters.
LEMMA ApiDistinct ==
  ASSUME NEW i \in 1 .. 16, NEW j \in 1 .. 16, j # i, NEW v,
         NEW route, route.elements = DeviceApi[j].path, route.method = DeviceApi[j].method
  PROVE  ~CheckForHandler(route, DeviceApi[i].method, SegsOf(DeviceApi[i].path, v))
<1> DEFINE p == DeviceApi[i].path
           q == DeviceApi[j].path
           segs == SegsOf(p, v)
<1>1. /\ p \in Seq(Element) /\ Len(p) \in 3 .. 5 /\ ~p[3].param
      /\ Third(i) = "services" /\ Len(p) > 3 => ~p[4].param
      /\ ~q[3].param
      /\ Third(j) = "services" /\ Len(q) > 3 => ~q[4].param
  BY ApiShape
<1>2. /\ Len(segs) = Len(p) /\ DOMAIN segs = 1 .. Len(p)
      /\ \A k \in 1 .. Len(p) : ~p[k].param => segs[k] = p[k].name
  BY <1>1 DEF SegsOf
<1>3. SUFFICES ASSUME Len(q) = Len(p), DeviceApi[j].method = DeviceApi[i].method,
                      \A k \in 1 .. Len(p) : q[k].param \/ q[k].name = segs[k]
               PROVE  FALSE
  BY <1>2 DEF CheckForHandler
<1> HIDE DEF segs, p, q
<1>4. q[3].name = p[3].name
  BY <1>1, <1>2, <1>3
<1>5. Third(j) = Third(i)
  BY <1>4 DEF Third, p, q
<1>6. Third(i) = "services" /\ Len(p) > 3 => q[4].name = p[4].name
  BY <1>1, <1>2, <1>3, <1>5
<1>7. /\ Method(i) = Method(j) /\ Segments(i) = Segments(j)
      /\ Third(i) = "services" /\ Segments(i) > 3 => Fourth(i) = Fourth(j)
  BY <1>3, <1>6 DEF Method, Segments, Fourth, p, q
<1>8. QED BY <1>5, <1>7, KeysDiffer

\* Every operation has an ID, so that the interface is registered whole.
LEMMA ApiOps ==
  /\ \A i \in 1 .. 16 : DeviceApi[i].op # NoOp
  /\ DeviceApi[11].op = "getServiceMapping"
  /\ \A S : {DeviceApi[i] : i \in 1 .. 16} \subseteq S => DeviceApi \in Seq(S)
<1>1. /\ \A i \in 1 .. 16 : DeviceApi[i].op # NoOp
      /\ DeviceApi[11].op = "getServiceMapping"
  <2>1. \A i \in 1 .. 16 : Numbers16(i)
    BY DEF Numbers16
  <2>2. /\ DeviceApi[1].op # NoOp /\ DeviceApi[2].op # NoOp /\ DeviceApi[3].op # NoOp
        /\ DeviceApi[4].op # NoOp /\ DeviceApi[5].op # NoOp /\ DeviceApi[6].op # NoOp
        /\ DeviceApi[7].op # NoOp /\ DeviceApi[8].op # NoOp /\ DeviceApi[9].op # NoOp
        /\ DeviceApi[10].op # NoOp /\ DeviceApi[11].op # NoOp /\ DeviceApi[12].op # NoOp
        /\ DeviceApi[13].op # NoOp /\ DeviceApi[14].op # NoOp /\ DeviceApi[15].op # NoOp
        /\ DeviceApi[16].op # NoOp /\ DeviceApi[11].op = "getServiceMapping"
    BY DEF DeviceApi, Operation, NoOp
  <2>3. QED BY <2>1, <2>2 DEF Numbers16
<1>2. DeviceApi = [i \in 1 .. 16 |-> DeviceApi[i]]
  BY DEF DeviceApi
<1>3. ASSUME NEW S, {DeviceApi[i] : i \in 1 .. 16} \subseteq S
      PROVE  DeviceApi \in Seq(S)
  <2>1. \A i \in 1 .. 16 : DeviceApi[i] \in S
    BY <1>3
  <2> DEFINE f == [i \in 1 .. 16 |-> DeviceApi[i]]
  <2>2. f \in Seq(S)
    BY <2>1
  <2>3. QED BY <1>2, <2>2
<1>4. QED BY <1>1, <1>3

(***************************************************************************)
(* The routes of the device come first, whatever the application adds.     *)
(***************************************************************************)
OwnRoute(i) ==
  [dispatch |-> DeviceID, op |-> DeviceApi[i].op, method |-> DeviceApi[i].method,
   elements |-> DeviceApi[i].path]

AllOps(Ops) == Ops \cup {DeviceApi[i] : i \in 1 .. 16}

RouteInv(Ops) ==
  /\ pathList \in Seq(Routes(DOMAIN endpointMap, AllOps(Ops)))
  /\ Len(pathList) >= 16
  /\ \A i \in 1 .. 16 : pathList[i] = OwnRoute(i)
  /\ DeviceID \in DOMAIN endpointMap /\ endpointMap[DeviceID] = DeviceID

\* The constructor registers the device's interface; endpoints follow.
LEMMA RouteStep ==
  ASSUME NEW Ops, \A e \in Endpoints : e.doc \in Seq(Ops)
  PROVE  /\ Init => RouteInv(Ops)
         /\ RouteInv(Ops) /\ [Next]_vars => RouteInv(Ops)'
<1>1. ASSUME Init PROVE RouteInv(Ops)
  <2>1. DOMAIN endpointMap = {DeviceID} /\ endpointMap[DeviceID] = DeviceID
    BY <1>1 DEF Init
  <2>2. DeviceApi \in Seq(AllOps(Ops)) /\ Len(DeviceApi) = 16
    BY ApiOps, ApiTable DEF AllOps
  <2>3. \A i \in 1 .. Len(DeviceApi) : DeviceApi[i].op # NoOp
    BY <2>2, ApiOps
  <2>4. pathList = RegisterEndpointsFromOpenAPI(DeviceID, DeviceApi)
    BY <1>1 DEF Init
  <2>5. /\ pathList \in Seq(Routes({DeviceID}, AllOps(Ops)))
        /\ Len(pathList) = 16
        /\ \A i \in 1 .. 16 : pathList[i] = OwnRoute(i)
    <3>1. DeviceID \in {DeviceID}
      OBVIOUS
    <3>2. /\ pathList \in Seq(Routes({DeviceID}, AllOps(Ops)))
          /\ Len(pathList) = Len(DeviceApi)
          /\ \A i \in 1 .. Len(DeviceApi) : pathList[i] =
               [dispatch |-> DeviceID, op |-> DeviceApi[i].op,
                method |-> DeviceApi[i].method, elements |-> DeviceApi[i].path]
      <4> DEFINE r == RegisterEndpointsFromOpenAPI(DeviceID, DeviceApi)
      <4>1. r \in Seq(Routes({DeviceID}, AllOps(Ops)))
        BY <2>2, <3>1, RegisteredRoutes
      <4>2. /\ Len(r) = Len(DeviceApi)
            /\ \A i \in 1 .. Len(DeviceApi) : r[i] =
                 [dispatch |-> DeviceID, op |-> DeviceApi[i].op,
                  method |-> DeviceApi[i].method, elements |-> DeviceApi[i].path]
        BY <2>2, <2>3, RegisteredWhole
      <4> HIDE DEF r
      <4>3. QED BY <2>4, <4>1, <4>2 DEF r
    <3>3. QED BY <2>2, <3>2 DEF OwnRoute
  <2>6. QED BY <2>1, <2>5 DEF RouteInv
<1>2. ASSUME RouteInv(Ops), NEW e \in Endpoints, AddEndpoint(e) PROVE RouteInv(Ops)'
  <2> DEFINE added == RegisterEndpointsFromOpenAPI(e.id, e.doc)
             ids == DOMAIN endpointMap \cup {e.id}
             S == Routes(ids, AllOps(Ops))
  <2>1. /\ DOMAIN endpointMap' = ids
        /\ DeviceID \in ids /\ endpointMap'[DeviceID] = DeviceID
    <3>1. endpointMap' = Inserted(endpointMap, e.id, e.owner)
      BY <1>2 DEF AddEndpoint
    <3>2. DeviceID \in DOMAIN endpointMap /\ endpointMap[DeviceID] = DeviceID
      BY <1>2 DEF RouteInv
    <3> DEFINE m == Inserted(endpointMap, e.id, e.owner)
    <3>3. DOMAIN m = DOMAIN endpointMap \cup {e.id}
          /\ \A k \in DOMAIN endpointMap : m[k] = endpointMap[k]
      BY DEF Inserted
    <3> HIDE DEF m
    <3>4. QED BY <3>1, <3>2, <3>3 DEF m
  <2>2. e.doc \in Seq(AllOps(Ops)) /\ e.id \in ids
    BY DEF AllOps
  <2>3. added \in Seq(S)
    BY <2>2, RegisteredRoutes
  <2>4. Routes(DOMAIN endpointMap, AllOps(Ops)) \subseteq S
    BY DEF Routes
  <2>5. pathList \in Seq(S) /\ Len(pathList) \in Nat /\ Len(pathList) >= 16
    <3> DEFINE T == Routes(DOMAIN endpointMap, AllOps(Ops))
    <3>1. pathList \in Seq(T) /\ Len(pathList) >= 16 /\ T \subseteq S
      BY <1>2, <2>4 DEF RouteInv
    <3> HIDE DEF S, T
    <3>2. QED BY <3>1
  <2> HIDE DEF added, S
  <2>6. pathList' = pathList \o added
    BY <1>2 DEF AddEndpoint, added
  <2>7. /\ pathList' \in Seq(S) /\ Len(pathList') >= 16
        /\ \A i \in 1 .. 16 : pathList'[i] = pathList[i]
    <3>1. /\ pathList \o added \in Seq(S)
          /\ Len(pathList \o added) = Len(pathList) + Len(added)
          /\ \A i \in 1 .. Len(pathList) + Len(added) : (pathList \o added)[i] =
               IF i <= Len(pathList) THEN pathList[i] ELSE added[i - Len(pathList)]
          /\ Len(added) \in Nat
      BY <2>3, <2>5, ConcatProperties
    <3>2. QED BY <2>5, <2>6, <3>1
  <2>8. QED BY <1>2, <2>1, <2>7 DEF RouteInv, S
<1>3. ASSUME RouteInv(Ops), UNCHANGED routes PROVE RouteInv(Ops)'
  BY <1>3 DEF RouteInv, routes
<1>4. ASSUME [Next]_vars PROVE UNCHANGED routes \/ \E e \in Endpoints : AddEndpoint(e)
  BY <1>4 DEF Next, Application, Request, RegisterProvidedService, ClearProvidedService,
     ClearProvidedServices, AddDesiredService, ClearDesiredService, ClearDesiredServices,
     SetHealth, Start, PutServiceMappings, MapItem, ItemThrows,
     CheckServiceMappingUpdates, CheckSinkMapping, vars, routes
<1>5. QED BY <1>1, <1>2, <1>3, <1>4

\* A request for one of the device's operations is dispatched to it, with the
\* client's parameters.
LEMMA OperationReached ==
  ASSUME NEW Ops, RouteInv(Ops), NEW i \in 1 .. 16, NEW v
  PROVE  LET path == DeviceApi[i].path
             hit == CreateRequestHandler(pathList, DeviceApi[i].method, SegsOf(path, v))
         IN /\ hit.op = DeviceApi[i].op /\ hit # NoRoute
            /\ RestDispatch(hit) = DeviceID
            /\ Captures(hit.params, path, v)
<1> DEFINE path == DeviceApi[i].path
           method == DeviceApi[i].method
           segs == SegsOf(path, v)
<1>1. path \in Seq(Element)
  BY ApiShape
<1>2. \A j \in 1 .. 16 :
        /\ pathList[j].elements = DeviceApi[j].path
        /\ pathList[j].method = DeviceApi[j].method
  <2>1. \A j \in 1 .. 16 : pathList[j] = OwnRoute(j)
    BY DEF RouteInv
  <2>2. QED BY <2>1 DEF OwnRoute
<1>3. /\ CheckForHandler(pathList[i], method, segs)
      /\ Captures(Params(pathList[i], segs), path, v)
  <2>1. pathList[i].elements = path /\ pathList[i].method = method
    BY <1>2
  <2>2. /\ CheckForHandler(pathList[i], pathList[i].method, segs)
        /\ Captures(Params(pathList[i], segs), path, v)
    <3> HIDE DEF path, method
    <3>1. QED BY <1>1, <2>1, OwnPath
  <2>3. QED BY <2>1, <2>2
<1>4. \A j \in 1 .. i - 1 : ~CheckForHandler(pathList[j], method, segs)
  <2> SUFFICES ASSUME NEW j \in 1 .. i - 1
               PROVE  ~CheckForHandler(pathList[j], method, segs)
    OBVIOUS
  <2>1. j \in 1 .. 16 /\ j # i
    OBVIOUS
  <2>2. QED BY <1>2, <2>1, ApiDistinct
<1>5. CreateRequestHandler(pathList, method, segs) =
        [dispatch |-> pathList[i].dispatch, op |-> pathList[i].op,
         params |-> Params(pathList[i], segs)]
  <2>1. i \in 1 .. Len(pathList)
    BY DEF RouteInv
  <2> HIDE DEF segs, method
  <2>2. QED BY <1>3, <1>4, <2>1, FirstRoute DEF RouteInv
<1> DEFINE hit == CreateRequestHandler(pathList, method, segs)
<1>6. hit.dispatch = DeviceID /\ hit.op = DeviceApi[i].op
      /\ hit.params = Params(pathList[i], segs)
  <2>1. pathList[i] = OwnRoute(i)
    BY DEF RouteInv
  <2> HIDE DEF segs, method
  <2>2. QED BY <1>5, <2>1 DEF OwnRoute
<1> HIDE DEF hit
<1>7. hit # NoRoute
  BY <1>6, ApiOps DEF NoRoute
<1>8. RestDispatch(hit) = DeviceID
  BY <1>6, <1>7 DEF RestDispatch, RouteInv
<1>9. QED BY <1>3, <1>6, <1>7, <1>8 DEF hit

\* Whatever endpoints the application adds, and whatever clients send for the
\* parameters, every operation of the device's interface is reached under its path and
\* by the device itself: no route of an application comes before it.
THEOREM OwnInterfaceReached ==
  ASSUME NEW Ops, \A e \in Endpoints : e.doc \in Seq(Ops)
  PROVE  Spec => []DeviceOperationsReached
<1>1. RouteInv(Ops) => DeviceOperationsReached
  <2> SUFFICES ASSUME RouteInv(Ops), NEW i \in DOMAIN DeviceApi, NEW v \in ParamValues
               PROVE  LET api == DeviceApi[i]
                          hit == CreateRequestHandler(pathList, api.method,
                                                      SegsOf(api.path, v))
                      IN /\ hit.op = api.op
                         /\ RestDispatch(hit) = DeviceID
                         /\ \A k \in DOMAIN api.path :
                              api.path[k].param => hit.params[api.path[k].name] = v
    BY DEF DeviceOperationsReached, SegsOf
  <2>1. DOMAIN DeviceApi = 1 .. 16
    BY ApiOps, ApiTable
  <2>2. QED BY <2>1, OperationReached DEF Captures
<1>2. QED BY <1>1, RouteStep, PTL DEF Spec
--------------------------------------------------------------------------------
(***************************************************************************)
(* The maps of services, and what the threads of the server work on.       *)
(***************************************************************************)
\* The items clients send; a body is a sequence of them, see the theorems.
Sent == UNION {{b[i] : i \in DOMAIN b} : b \in Bodies}

SentURIs == URIs \ {Null, Absent}

AtItems(t) == task[t].at = "items" /\ task[t].left \in Seq(Sent)
AtCheck(t) == task[t].at = "check" /\ task[t].uri \in SentURIs

TaskInv ==
  /\ task = [t \in Threads |-> task[t]]
  /\ \A t \in Threads : task[t] = Idle \/ AtItems(t) \/ AtCheck(t)

DataInv ==
  /\ \A type \in DOMAIN advertised : advertised[type].type = type
  /\ \A type \in DOMAIN desired :
       /\ desired[type].uri \in SentURIs
       /\ desired[type].mapped \/ desired[type].uri = NoURI
  /\ enabled \in BOOLEAN /\ started \in BOOLEAN
  /\ sinkURI \in SentURIs
  /\ outcome \in {"checked", "pending", "refused"}

\* A service is not mapped to the empty URI, unless a client says so.
MappedInv == \A type \in DOMAIN desired : desired[type].mapped => desired[type].uri # NoURI

\* The next item of a body, and what is left behind it.
LEMMA BodyItems ==
  ASSUME NEW S, NEW q \in Seq(S), q # <<>>
  PROVE  /\ Head(q) \in S /\ Head(q) = q[1] /\ Tail(q) \in Seq(S)
         /\ Len(Tail(q)) = Len(q) - 1 /\ 1 \in 1 .. Len(q)
         /\ \A i \in 1 .. Len(Tail(q)) : Tail(q)[i] = q[i + 1] /\ i + 1 \in 2 .. Len(q)
OBVIOUS

\* What a request works on: its items, or a URI one of them had.
LEMMA TaskStep ==
  ASSUME Bodies \subseteq Seq(Sent)
  PROVE  /\ Init => TaskInv
         /\ DataInv /\ TaskInv /\ [Next]_vars => TaskInv'
<1>1. Init => TaskInv
  BY DEF Init, TaskInv
<1>2. ASSUME DataInv, TaskInv, UNCHANGED task
      PROVE  TaskInv'
  BY <1>2 DEF TaskInv, AtItems, AtCheck
<1>3. ASSUME TaskInv, NEW t \in Threads, NEW x, task' = [task EXCEPT ![t] = x],
             \/ x = Idle
             \/ x.at = "items" /\ x.left \in Seq(Sent)
             \/ x.at = "check" /\ x.uri \in SentURIs
      PROVE  TaskInv'
  <2>1. task'[t] = x /\ \A u \in Threads \ {t} : task'[u] = task[u]
    BY <1>3 DEF TaskInv
  <2>2. task' = [u \in Threads |-> task'[u]]
    BY <1>3 DEF TaskInv
  <2>3. ASSUME NEW u \in Threads
        PROVE  (task[u] = Idle \/ AtItems(u) \/ AtCheck(u))'
    BY <1>3, <2>1 DEF TaskInv, AtItems, AtCheck
  <2>4. QED BY <2>2, <2>3 DEF TaskInv
<1>4. ASSUME DataInv, TaskInv, Application
      PROVE  TaskInv'
  <2>1. UNCHANGED task
    BY <1>4 DEF Application, RegisterProvidedService, ClearProvidedService,
       ClearProvidedServices, AddDesiredService, ClearDesiredService,
       ClearDesiredServices, AddEndpoint, SetHealth, Start
  <2>2. QED BY <1>2, <1>4, <2>1
<1>5. ASSUME DataInv, TaskInv, NEW t \in Threads, Request(t)
      PROVE  TaskInv'
  <2>1. CASE \E body \in Bodies : PutServiceMappings(t, body)
    <3>1. PICK body \in Bodies : PutServiceMappings(t, body)
      BY <2>1
    <3> DEFINE x == [at |-> "items", left |-> body]
    <3>2. task' = [task EXCEPT ![t] = x] /\ x.at = "items" /\ x.left \in Seq(Sent)
      BY <3>1 DEF PutServiceMappings
    <3> HIDE DEF x
    <3>3. QED BY <1>3, <1>5, <3>2
  <2>2. CASE MapItem(t)
    <3>1. AtItems(t) /\ task[t].left # <<>>
      BY <1>5, <2>2 DEF MapItem, TaskInv, AtCheck, Idle
    <3> DEFINE x == [task[t] EXCEPT !.left = Tail(@)]
    <3>2. task' = [task EXCEPT ![t] = x]
      BY <1>5, <2>2 DEF MapItem, TaskInv
    <3>3. Tail(task[t].left) \in Seq(Sent)
      BY <3>1 DEF AtItems
    <3>4. x.at = "items" /\ x.left \in Seq(Sent)
      BY <3>1, <3>3 DEF AtItems
    <3> HIDE DEF x
    <3>5. QED BY <1>3, <1>5, <3>2, <3>4
  <2>3. CASE ItemThrows(t)
    BY <1>3, <1>5, <2>3 DEF ItemThrows
  <2>4. CASE CheckServiceMappingUpdates(t)
    <3> DEFINE uri == IF desired[HealthSink].mapped THEN desired[HealthSink].uri ELSE NoURI
               x == IF HealthSink \notin DOMAIN desired THEN Idle
                    ELSE [at |-> "check", uri |-> uri]
    <3>1. task' = [task EXCEPT ![t] = x]
      BY <2>4 DEF CheckServiceMappingUpdates
    <3>2. NoURI \in SentURIs
      BY ServicesAssumption DEF SentURIs, URIs
    <3>3. HealthSink \in DOMAIN desired => uri \in SentURIs
      BY <1>5, <3>2 DEF DataInv
    <3>4. x = Idle \/ (x.at = "check" /\ x.uri \in SentURIs)
      BY <3>3
    <3> HIDE DEF x
    <3>5. QED BY <1>3, <1>5, <3>1, <3>4
  <2>5. CASE CheckSinkMapping(t)
    BY <1>3, <1>5, <2>5 DEF CheckSinkMapping
  <2>6. QED BY <1>5, <2>1, <2>2, <2>3, <2>4, <2>5 DEF Request
<1>6. QED BY <1>1, <1>2, <1>4, <1>5 DEF Next, vars

\* Records are kept under their types, and have URIs a client sent.
LEMMA DataStep ==
  ASSUME Bodies \subseteq Seq(Sent)
  PROVE  /\ Init => DataInv
         /\ DataInv /\ TaskInv /\ [Next]_vars => DataInv'
<1>1. NoURI \in SentURIs
  BY ServicesAssumption DEF SentURIs, URIs
<1>2. Init => DataInv
  <2>1. Init => /\ DOMAIN advertised = {} /\ DOMAIN desired = {}
                /\ enabled = FALSE /\ started = FALSE /\ sinkURI = NoURI
                /\ outcome = "checked"
    BY DEF Init
  <2>2. QED BY <1>1, <2>1 DEF DataInv
<1>3. ASSUME DataInv, TaskInv, UNCHANGED vars
      PROVE  DataInv'
  BY <1>3 DEF DataInv, vars
<1>4. ASSUME DataInv, TaskInv, Application
      PROVE  DataInv'
  <2>1. ASSUME NEW s \in Offered, RegisterProvidedService(s)
        PROVE  DataInv'
    BY <1>4, <2>1 DEF RegisterProvidedService, DataInv, Inserted
  <2>2. ASSUME NEW s \in Offered, ClearProvidedService(s.type)
        PROVE  DataInv'
    BY <1>4, <2>2 DEF ClearProvidedService, DataInv, Erased
  <2>3. CASE ClearProvidedServices
    BY <1>4, <2>3 DEF ClearProvidedServices, DataInv
  <2>4. ASSUME NEW type \in Wanted, AddDesiredService(type)
        PROVE  DataInv'
    BY <1>1, <1>4, <2>4 DEF AddDesiredService, DataInv, Inserted
  <2>5. ASSUME NEW type \in Wanted, ClearDesiredService(type)
        PROVE  DataInv'
    BY <1>4, <2>5 DEF ClearDesiredService, DataInv, Erased
  <2>6. CASE ClearDesiredServices
    BY <1>4, <2>6 DEF ClearDesiredServices, DataInv
  <2>7. ASSUME NEW e \in Endpoints, AddEndpoint(e)
        PROVE  DataInv'
    BY <1>4, <2>7 DEF AddEndpoint, DataInv, services
  <2>8. ASSUME NEW on \in BOOLEAN, SetHealth(on)
        PROVE  DataInv'
    BY <1>4, <2>8 DEF SetHealth, DataInv, services
  <2>9. CASE Start
    <3>1. ASSUME NEW map, NEW type, NEW path,
                 \A k \in DOMAIN map : map[k].type = k
          PROVE  LET new == Inserted(map, type, Rest(type, path))
                 IN \A k \in DOMAIN new : new[k].type = k
      BY <3>1 DEF Inserted, Rest
    <3> DEFINE Offer(map, type, path) == Inserted(map, type, Rest(type, path))
               own == Offer(Offer(advertised, "hnsrv-hnode2-device", <<"device">>),
                            "hnsrv-string-source", <<"device", "string-source">>)
               all == Offer(own, "hnsrv-health-source", <<"device", "health">>)
    <3>2. /\ advertised' = IF enabled THEN all ELSE own
          /\ desired' = IF enabled
               THEN Inserted(desired, HealthSink, [mapped |-> FALSE, uri |-> NoURI])
               ELSE desired
          /\ enabled' = enabled /\ started' \in BOOLEAN /\ sinkURI' = sinkURI
          /\ outcome' = outcome
      BY <2>9 DEF Start
    <3>3. \A k \in DOMAIN own : own[k].type = k
      <4> DEFINE one == Offer(advertised, "hnsrv-hnode2-device", <<"device">>)
      <4>1. \A k \in DOMAIN one : one[k].type = k
        BY <1>4, <3>1 DEF DataInv
      <4>2. own = Offer(one, "hnsrv-string-source", <<"device", "string-source">>)
        OBVIOUS
      <4> HIDE DEF one
      <4>3. QED BY <3>1, <4>1, <4>2
    <3> HIDE DEF own
    <3>4. \A k \in DOMAIN all : all[k].type = k
      BY <3>1, <3>3
    <3> HIDE DEF all
    <3>5. \A k \in DOMAIN advertised' : advertised'[k].type = k
      BY <3>2, <3>3, <3>4
    <3>6. \A k \in DOMAIN desired' :
            /\ desired'[k].uri \in SentURIs
            /\ desired'[k].mapped \/ desired'[k].uri = NoURI
      BY <1>1, <1>4, <3>2 DEF DataInv, Inserted
    <3>7. QED BY <1>4, <3>2, <3>5, <3>6 DEF DataInv
  <2>10. QED BY <1>4, <2>1, <2>2, <2>3, <2>4, <2>5, <2>6, <2>7, <2>8, <2>9 DEF Application
<1>5. ASSUME DataInv, TaskInv, NEW t \in Threads, Request(t)
      PROVE  DataInv'
  <2>1. ASSUME NEW body \in Bodies, PutServiceMappings(t, body)
        PROVE  DataInv'
    BY <1>5, <2>1 DEF PutServiceMappings, DataInv, services
  <2>2. CASE MapItem(t)
    <3> DEFINE item == Item(t)
    <3>1. AtItems(t) /\ task[t].left # <<>> /\ ~Throws(item)
      BY <1>5, <2>2 DEF MapItem, TaskInv, AtCheck, Idle
    <3>2. item \in Sent
      BY <3>1 DEF AtItems, Item
    <3>3. item.uri \in URIs
      BY <3>2 DEF Sent, URIs
    <3>4. /\ desired' = Mapped(item) /\ advertised' = advertised
          /\ enabled' = enabled /\ started' = started /\ sinkURI' = sinkURI
          /\ outcome' \in {"checked", "pending", "refused"}
      BY <1>5, <2>2 DEF MapItem, DataInv
    <3> HIDE DEF item
    <3>5. CASE item.type \in DOMAIN desired /\ item.uri # Absent
      <4>1. item.uri \in SentURIs
        BY <3>1, <3>3, <3>5 DEF Throws, SentURIs
      <4>2. desired' = [desired EXCEPT ![item.type] = [mapped |-> TRUE, uri |-> item.uri]]
        BY <3>4, <3>5 DEF Mapped
      <4>3. QED BY <1>5, <3>4, <4>1, <4>2 DEF DataInv
    <3>6. CASE ~(item.type \in DOMAIN desired /\ item.uri # Absent)
      BY <1>5, <3>4, <3>6 DEF DataInv, Mapped
    <3>7. QED BY <3>5, <3>6
  <2>3. CASE ItemThrows(t)
    BY <1>5, <2>3 DEF ItemThrows, DataInv, services
  <2>4. CASE CheckServiceMappingUpdates(t)
    BY <1>5, <2>4 DEF CheckServiceMappingUpdates, DataInv, services
  <2>5. CASE CheckSinkMapping(t)
    <3>1. task[t].uri \in SentURIs
      BY <1>5, <2>5 DEF CheckSinkMapping, TaskInv, AtItems, AtCheck, Idle
    <3>2. QED BY <1>5, <2>5, <3>1 DEF CheckSinkMapping, DataInv, services
  <2>6. QED BY <1>5, <2>1, <2>2, <2>3, <2>4, <2>5 DEF Request
<1>6. QED BY <1>2, <1>3, <1>4, <1>5 DEF Next

\* A request maps a service to a URI, and that is not the empty one if no client sends it.
LEMMA MappedStep ==
  ASSUME \A item \in Sent : item.uri # NoURI, Bodies \subseteq Seq(Sent)
  PROVE  /\ Init => MappedInv
         /\ TaskInv /\ MappedInv /\ [Next]_vars => MappedInv'
<1>1. Init => MappedInv
  <2>1. Init => DOMAIN desired = {}
    BY DEF Init
  <2>2. QED BY <2>1 DEF MappedInv
<1>2. ASSUME MappedInv, UNCHANGED desired
      PROVE  MappedInv'
  BY <1>2 DEF MappedInv
<1>3. ASSUME MappedInv, Application
      PROVE  MappedInv'
  <2>1. ASSUME NEW type \in Wanted, AddDesiredService(type)
        PROVE  MappedInv'
    BY <1>3, <2>1 DEF AddDesiredService, MappedInv, Inserted
  <2>2. ASSUME NEW type \in Wanted, ClearDesiredService(type)
        PROVE  MappedInv'
    BY <1>3, <2>2 DEF ClearDesiredService, MappedInv, Erased
  <2>3. CASE ClearDesiredServices
    BY <2>3 DEF ClearDesiredServices, MappedInv
  <2>4. CASE Start
    BY <1>3, <2>4 DEF Start, MappedInv, Inserted
  <2>5. CASE \/ \E s \in Offered : RegisterProvidedService(s) \/ ClearProvidedService(s.type)
             \/ ClearProvidedServices
             \/ \E e \in Endpoints : AddEndpoint(e)
             \/ \E on \in BOOLEAN : SetHealth(on)
    <3>1. UNCHANGED desired
      BY <2>5 DEF RegisterProvidedService, ClearProvidedService, ClearProvidedServices,
         AddEndpoint, SetHealth, services
    <3>2. QED BY <1>2, <1>3, <3>1
  <2>6. QED BY <1>3, <2>1, <2>2, <2>3, <2>4, <2>5 DEF Application
<1>4. ASSUME TaskInv, MappedInv, NEW t \in Threads, Request(t)
      PROVE  MappedInv'
  <2>1. CASE MapItem(t)
    <3> DEFINE item == Item(t)
    <3>1. AtItems(t) /\ task[t].left # <<>>
      BY <1>4, <2>1 DEF MapItem, TaskInv, AtCheck, Idle
    <3>2. item \in Sent
      BY <3>1 DEF AtItems, Item
    <3>3. item.uri # NoURI
      BY <3>2
    <3>4. desired' = Mapped(item)
      BY <2>1 DEF MapItem
    <3> HIDE DEF item
    <3>5. QED BY <1>4, <3>3, <3>4 DEF MappedInv, Mapped
  <2>2. CASE \/ \E body \in Bodies : PutServiceMappings(t, body)
             \/ ItemThrows(t) \/ CheckServiceMappingUpdates(t) \/ CheckSinkMapping(t)
    <3>1. UNCHANGED desired
      BY <2>2 DEF PutServiceMappings, ItemThrows, CheckServiceMappingUpdates,
         CheckSinkMapping, services
    <3>2. QED BY <1>2, <1>4, <3>1
  <2>3. QED BY <1>4, <2>1, <2>2 DEF Request
<1>5. QED BY <1>1, <1>2, <1>3, <1>4 DEF Next, vars

\* Every route has an endpoint it is dispatched to, services are recorded under their
\* types, and what the handler works on and stores are URIs that clients sent. A desired
\* service is mapped just if it has a URI: unless a client maps it to the empty one.
THEOREM TypeCorrect ==
  ASSUME NEW Ops, \A e \in Endpoints : e.doc \in Seq(Ops),
         Bodies \subseteq Seq(Sent), \A item \in Sent : item.uri # NoURI
  PROVE  Spec => []TypeOK
<1>1. RouteInv(Ops) /\ DataInv /\ TaskInv /\ MappedInv => TypeOK
  <2> SUFFICES ASSUME RouteInv(Ops), DataInv, TaskInv, MappedInv
               PROVE  TypeOK
    OBVIOUS
  <2>1. \A r \in {pathList[i] : i \in DOMAIN pathList} : r.dispatch \in DOMAIN endpointMap
    <3> DEFINE S == Routes(DOMAIN endpointMap, AllOps(Ops))
    <3>1. pathList \in Seq(S) /\ \A r \in S : r.dispatch \in DOMAIN endpointMap
      BY DEF RouteInv, Routes
    <3> HIDE DEF S
    <3>2. \A i \in DOMAIN pathList : pathList[i] \in S
      BY <3>1
    <3>3. QED BY <3>1, <3>2
  <2>2. ASSUME NEW t \in Threads, AtItems(t)
        PROVE  \A i \in DOMAIN task[t].left :
                 task[t].left[i].uri \in URIs \cup {Null, Absent}
    <3>1. \A i \in DOMAIN task[t].left : task[t].left[i] \in Sent
      BY <2>2 DEF AtItems
    <3>2. QED BY <3>1 DEF Sent, URIs
  <2>3. \A t \in Threads :
          \/ task[t] = Idle
          \/ task[t].at = "items" /\ \A i \in DOMAIN task[t].left :
                                       task[t].left[i].uri \in URIs \cup {Null, Absent}
          \/ task[t].at = "check" /\ task[t].uri \in URIs \ {Null, Absent}
    BY <2>2 DEF TaskInv, AtItems, AtCheck, SentURIs
  <2>4. \A type \in DOMAIN desired :
          /\ desired[type].uri \in URIs \ {Null, Absent}
          /\ desired[type].mapped <=> desired[type].uri # NoURI
    BY DEF DataInv, MappedInv, SentURIs
  <2>5. QED BY <2>1, <2>3, <2>4 DEF TypeOK, DataInv, SentURIs
<1>2. QED BY <1>1, RouteStep, TaskStep, DataStep, MappedStep, PTL DEF Spec

(***************************************************************************)
(* The mapping of the health sink, in the desired service and in           *)
(* m_sinkURI.  Without requests that overlap, one request at a time lets   *)
(* them differ, from an item that maps the sink to its last step, or until *)
(* the next request when it throws before that step.                       *)
(***************************************************************************)
Agree == HealthSink \in DOMAIN desired => desired[HealthSink].uri = sinkURI

\* Nothing is mapped, and no request was at work.
Unmapped ==
  /\ sinkURI = NoURI /\ outcome = "checked"
  /\ \A type \in DOMAIN desired : desired[type].uri = NoURI
  /\ \A t \in Threads : ~Busy(t)

\* So it is before the device serves.
UnmappedInv == ~started => Unmapped

\* What is about to be stored is the URI the service has.
CheckInv ==
  \A t \in Threads : (task[t].at = "check" /\ HealthSink \in DOMAIN desired) =>
                     desired[HealthSink].uri = task[t].uri

SinkInv ==
  /\ UnmappedInv
  /\ \A t, u \in Threads : Busy(t) /\ Busy(u) => t = u
  /\ CheckInv
  /\ outcome = "checked" => Agree
  /\ (\A t \in Threads : ~Busy(t)) => outcome # "pending"

\* While nothing is mapped, and no request at work, the two agree.
LEMMA QuietUnmapped == Unmapped => SinkInv
<1> SUFFICES ASSUME Unmapped
             PROVE  SinkInv
  OBVIOUS
<1>1. \A t \in Threads : task[t].at # "check"
  BY DEF Busy, Unmapped
<1>2. Agree
  BY DEF Agree, Unmapped
<1>3. QED BY <1>1, <1>2 DEF SinkInv, UnmappedInv, CheckInv, Unmapped

\* Only one request is at work, and its last step makes the two agree again.
LEMMA SinkStep ==
  ASSUME Env = {}, Bodies \subseteq Seq(Sent)
  PROVE  /\ Init => SinkInv
         /\ DataInv /\ TaskInv /\ SinkInv /\ [Next]_vars => SinkInv'
<1>1. Init => SinkInv
  <2> SUFFICES ASSUME Init
               PROVE  SinkInv
    OBVIOUS
  <2>1. /\ DOMAIN desired = {} /\ sinkURI = NoURI /\ outcome = "checked"
        /\ \A t \in Threads : ~Busy(t)
    BY DEF Init, Busy, Idle
  <2>2. QED BY <2>1, QuietUnmapped DEF Unmapped
<1>2. ASSUME SinkInv, UNCHANGED <<desired, sinkURI, started, task, outcome>>
      PROVE  SinkInv'
  BY <1>2 DEF SinkInv, UnmappedInv, Unmapped, CheckInv, Agree, Busy
<1>3. ASSUME SinkInv, Application
      PROVE  SinkInv'
  <2>1. CASE \/ \E type \in Wanted : AddDesiredService(type) \/ ClearDesiredService(type)
             \/ ClearDesiredServices \/ Start
    <3>1. ~started /\ UNCHANGED <<sinkURI, task, outcome>>
      BY <1>3, <2>1 DEF AddDesiredService, ClearDesiredService, ClearDesiredServices,
         Start, MayChange
    <3>2. /\ \A type \in DOMAIN desired : desired[type].uri = NoURI
          /\ sinkURI = NoURI /\ outcome = "checked" /\ \A t \in Threads : ~Busy(t)
      BY <1>3, <3>1 DEF SinkInv, UnmappedInv, Unmapped
    <3>3. \A t \in Threads : ~Busy(t)'
      BY <3>1, <3>2 DEF Busy
    <3>4. \A type \in DOMAIN desired' : desired'[type].uri = NoURI
      <4>1. CASE ClearDesiredServices
        <5>1. DOMAIN desired' = {}
          BY <4>1 DEF ClearDesiredServices
        <5>2. QED BY <5>1
      <4>2. CASE Start
        BY <3>2, <4>2 DEF Start, Inserted
      <4>3. ASSUME NEW type \in Wanted, AddDesiredService(type)
            PROVE  \A k \in DOMAIN desired' : desired'[k].uri = NoURI
        BY <3>2, <4>3 DEF AddDesiredService, Inserted
      <4>4. ASSUME NEW type \in Wanted, ClearDesiredService(type)
            PROVE  \A k \in DOMAIN desired' : desired'[k].uri = NoURI
        BY <3>2, <4>4 DEF ClearDesiredService, Erased
      <4>5. QED BY <2>1, <4>1, <4>2, <4>3, <4>4
    <3>5. sinkURI' = NoURI /\ outcome' = "checked"
      BY <3>1, <3>2
    <3>6. Unmapped'
      BY <3>3, <3>4, <3>5 DEF Unmapped
    <3>7. QED BY <3>6, QuietUnmapped, PTL
  <2>2. CASE \/ \E s \in Offered : RegisterProvidedService(s) \/ ClearProvidedService(s.type)
             \/ ClearProvidedServices
             \/ \E e \in Endpoints : AddEndpoint(e)
             \/ \E on \in BOOLEAN : SetHealth(on)
    <3>1. UNCHANGED <<desired, sinkURI, started, task, outcome>>
      BY <2>2 DEF RegisterProvidedService, ClearProvidedService, ClearProvidedServices,
         AddEndpoint, SetHealth, services
    <3>2. QED BY <1>2, <1>3, <3>1
  <2>3. QED BY <1>3, <2>1, <2>2 DEF Application
<1>4. ASSUME DataInv, TaskInv, SinkInv, NEW t \in Threads, Request(t)
      PROVE  SinkInv'
  <2>1. ASSUME Busy(t)
        PROVE  /\ started
               /\ \A u \in Threads \ {t} : ~Busy(u)
    BY <1>4, <2>1 DEF SinkInv, UnmappedInv, Unmapped
  <2>2. \A x : task' = [task EXCEPT ![t] = x] =>
               task'[t] = x /\ \A u \in Threads \ {t} : task'[u] = task[u]
    BY <1>4 DEF TaskInv
  <2>3. ASSUME started', \A u \in Threads \ {t} : ~Busy(u)', CheckInv',
               outcome' = "checked" => Agree', ~Busy(t)' => outcome' # "pending"
        PROVE  SinkInv'
    <3>1. \A u, v \in Threads : Busy(u)' /\ Busy(v)' => u = v
      BY <2>3
    <3>2. QED BY <2>3, <3>1 DEF SinkInv, UnmappedInv
  <2>4. ASSUME started', \A u \in Threads \ {t} : ~Busy(u)', task'[t] = Idle,
               outcome' = "checked" => Agree', outcome' # "pending"
        PROVE  SinkInv'
    <3>1. \A u \in Threads : task'[u].at # "check"
      BY <2>4 DEF Busy, Idle
    <3>2. CheckInv'
      BY <3>1 DEF CheckInv
    <3>3. QED BY <2>3, <2>4, <3>2
  <2>5. ASSUME NEW body \in Bodies, PutServiceMappings(t, body)
        PROVE  SinkInv'
    <3>1. \A u \in Threads : ~Busy(u)
      BY <2>5 DEF PutServiceMappings
    <3>2. task'[t] = [at |-> "items", left |-> body]
          /\ \A u \in Threads \ {t} : task'[u] = task[u]
      BY <2>2, <2>5 DEF PutServiceMappings
    <3>3. started' /\ UNCHANGED <<desired, sinkURI, outcome>>
      BY <2>5 DEF PutServiceMappings, services
    <3>4. outcome' = "checked" => Agree'
      BY <1>4, <3>3 DEF SinkInv, Agree
    <3>5. \A u \in Threads \ {t} : ~Busy(u)'
      BY <3>1, <3>2 DEF Busy
    <3>6. \A u \in Threads : task'[u].at # "check"
      BY <3>2, <3>5 DEF Busy
    <3>7. Busy(t)' /\ CheckInv'
      BY <3>2, <3>6 DEF Busy, CheckInv
    <3>8. QED BY <2>3, <3>3, <3>4, <3>5, <3>7
  <2>6. CASE MapItem(t)
    <3>1. AtItems(t) /\ task[t].left # <<>> /\ Busy(t)
      BY <1>4, <2>6 DEF MapItem, TaskInv, AtCheck, AtItems, Idle, Busy
    <3>2. started' /\ \A u \in Threads \ {t} : ~Busy(u)
      BY <2>1, <2>6, <3>1 DEF MapItem
    <3>3. task' = [task EXCEPT ![t] = [task[t] EXCEPT !.left = Tail(@)]]
      BY <1>4, <2>6 DEF MapItem, TaskInv
    <3>4. task'[t].at = "items" /\ \A u \in Threads \ {t} : task'[u] = task[u]
      <4>1. task'[t] = [task[t] EXCEPT !.left = Tail(@)]
            /\ \A u \in Threads \ {t} : task'[u] = task[u]
        BY <2>2, <3>3
      <4>2. QED BY <3>1, <4>1 DEF AtItems
    <3>5. Busy(t)' /\ \A u \in Threads \ {t} : ~Busy(u)' /\ task'[u].at # "check"
      BY <3>2, <3>4 DEF Busy
    <3>6. CheckInv'
      BY <3>4, <3>5 DEF CheckInv
    <3>7. ASSUME outcome' = "checked" PROVE Agree'
      <4> DEFINE item == Item(t)
      <4>1. /\ ~MapsSink(item) /\ outcome = "checked"
            /\ desired' = Mapped(item) /\ sinkURI' = sinkURI
        BY <2>6, <3>7 DEF MapItem
      <4>2. Agree
        BY <1>4, <4>1 DEF SinkInv
      <4> HIDE DEF item
      <4>3. CASE Mapped(item) = desired
        BY <4>1, <4>2, <4>3 DEF Agree
      <4>4. CASE item.type # HealthSink
        <5>1. DOMAIN desired' = DOMAIN desired
              /\ \A k \in DOMAIN desired : k # item.type => desired'[k] = desired[k]
          BY <4>1 DEF Mapped
        <5>2. QED BY <4>1, <4>2, <4>4, <5>1 DEF Agree
      <4>5. QED BY <4>1, <4>3, <4>4 DEF MapsSink
    <3>8. QED BY <2>3, <3>2, <3>5, <3>6, <3>7
  <2>7. CASE ItemThrows(t)
    <3>1. Busy(t) /\ UNCHANGED <<desired, sinkURI, started>>
      BY <2>7 DEF ItemThrows, Busy, services
    <3>2. task'[t] = Idle /\ \A u \in Threads \ {t} : task'[u] = task[u]
      BY <2>2, <2>7 DEF ItemThrows
    <3>3. outcome' # "pending" /\ (outcome' = "checked" => outcome = "checked")
      BY <2>7 DEF ItemThrows
    <3>4. outcome' = "checked" => Agree'
      BY <1>4, <3>1, <3>3 DEF SinkInv, Agree
    <3>5. started' /\ \A u \in Threads \ {t} : ~Busy(u)'
      BY <2>1, <3>1, <3>2 DEF Busy
    <3>6. QED BY <2>4, <3>2, <3>3, <3>4, <3>5
  <2>8. CASE CheckServiceMappingUpdates(t)
    <3>1. Busy(t) /\ UNCHANGED <<desired, sinkURI, started>>
      BY <2>8 DEF CheckServiceMappingUpdates, Busy, services
    <3> DEFINE uri == IF desired[HealthSink].mapped THEN desired[HealthSink].uri ELSE NoURI
               x == IF HealthSink \notin DOMAIN desired THEN Idle
                    ELSE [at |-> "check", uri |-> uri]
    <3>2. task'[t] = x /\ \A u \in Threads \ {t} : task'[u] = task[u]
      BY <2>2, <2>8 DEF CheckServiceMappingUpdates
    <3>3. started' /\ \A u \in Threads \ {t} : ~Busy(u)'
      BY <2>1, <3>1, <3>2 DEF Busy
    <3>4. outcome' = IF task'[t] = Idle THEN "checked" ELSE outcome
      BY <2>8 DEF CheckServiceMappingUpdates
    <3>5. CASE HealthSink \notin DOMAIN desired
      <4>1. task'[t] = Idle /\ outcome' = "checked" /\ Agree'
        BY <3>1, <3>2, <3>4, <3>5 DEF Agree
      <4>2. QED BY <2>4, <3>3, <4>1
    <3>6. CASE HealthSink \in DOMAIN desired
      <4>1. uri = desired[HealthSink].uri
        BY <1>4, <3>6 DEF DataInv
      <4>2. task'[t].at = "check" /\ task'[t].uri = desired'[HealthSink].uri
        BY <3>1, <3>2, <3>6, <4>1
      <4>3. Busy(t)' /\ outcome' = outcome
        BY <3>4, <4>2 DEF Busy, Idle
      <4>4. \A u \in Threads \ {t} : task'[u].at # "check"
        BY <3>3 DEF Busy
      <4>5. CheckInv'
        BY <4>2, <4>4 DEF CheckInv
      <4>6. outcome' = "checked" => Agree'
        BY <1>4, <3>1, <4>3 DEF SinkInv, Agree
      <4>7. QED BY <2>3, <3>3, <4>3, <4>5, <4>6
    <3>7. QED BY <3>5, <3>6
  <2>9. CASE CheckSinkMapping(t)
    <3>1. /\ Busy(t) /\ UNCHANGED <<desired, started>> /\ outcome' = "checked"
          /\ HealthSink \in DOMAIN desired => desired[HealthSink].uri = sinkURI'
      BY <1>4, <2>9 DEF CheckSinkMapping, Busy, services, SinkInv, CheckInv
    <3>2. task'[t] = Idle /\ \A u \in Threads \ {t} : task'[u] = task[u]
      BY <2>2, <2>9 DEF CheckSinkMapping
    <3>3. started' /\ \A u \in Threads \ {t} : ~Busy(u)'
      BY <2>1, <3>1, <3>2 DEF Busy
    <3>4. Agree'
      BY <3>1 DEF Agree
    <3>5. QED BY <2>4, <3>1, <3>2, <3>3, <3>4
  <2>10. QED BY <1>4, <2>5, <2>6, <2>7, <2>8, <2>9 DEF Request
<1>5. QED BY <1>1, <1>2, <1>3, <1>4 DEF Next, vars

\* What a client is told of the mapping of the health sink.
LEMMA ToldOfSink ==
  ASSUME NEW Ops, RouteInv(Ops)
  PROVE  Ask("GET", <<"hnode2", "device", "services", "mappings", HealthSink>>) =
           IF HealthSink \in DOMAIN desired THEN Reply(200, DesiredItem(HealthSink))
           ELSE Reply(404, {})
<1> DEFINE segs == <<"hnode2", "device", "services", "mappings", HealthSink>>
           path == DeviceApi[11].path
           hit == CreateRequestHandler(pathList, "GET", segs)
<1>1. path = <<Literal("hnode2"), Literal("device"), Literal("services"),
               Literal("mappings"), Param("serviceType")>>
  BY ApiTable DEF Segs5, serviceType
<1>2. DeviceApi[11].method = "GET" /\ DeviceApi[11].op = "getServiceMapping"
  BY ApiTable, ApiOps DEF Method
<1>3. SegsOf(path, HealthSink) = segs
  BY <1>1 DEF SegsOf, Literal, Param
<1>4. /\ hit.op = "getServiceMapping" /\ hit # NoRoute /\ RestDispatch(hit) = DeviceID
      /\ Captures(hit.params, path, HealthSink)
  <2>1. 11 \in 1 .. 16
    OBVIOUS
  <2> HIDE DEF segs, path
  <2>2. QED BY <1>2, <1>3, <2>1, OperationReached DEF path
<1>5. "serviceType" \in DOMAIN hit.params /\ hit.params.serviceType = HealthSink
  <2>1. 5 \in DOMAIN path /\ path[5].param /\ path[5].name = "serviceType"
    BY <1>1 DEF Param
  <2> HIDE DEF path, hit
  <2>2. QED BY <1>4, <2>1 DEF Captures
<1>6. Ask("GET", segs) = Answer("getServiceMapping", hit.params)
  <2> HIDE DEF segs
  <2>1. QED BY <1>4 DEF Ask
<1> HIDE DEF hit
<1>7. Lookup(hit.params, desired) = IF HealthSink \in DOMAIN desired THEN 200 ELSE 404
  BY <1>5 DEF Lookup
<1>8. Answer("getServiceMapping", hit.params) =
        Reply(Lookup(hit.params, desired),
              IF Lookup(hit.params, desired) = 200 THEN DesiredItem(hit.params.serviceType)
              ELSE {})
  BY DEF Answer, Others
<1>9. QED BY <1>5, <1>6, <1>7, <1>8

\* While no request is changing mappings, a client that asks for the mapping of the
\* health sink is told where HNDeviceHealth sends the events, whatever arrays clients
\* send, with nulls anywhere in them; the property names the one exception. That is so
\* as long as requests that map services do not overlap, and the application leaves its
\* services as they are once the device serves: Env, the liberties taken, is empty.
THEOREM SinkFollowed ==
  ASSUME NEW Ops, \A e \in Endpoints : e.doc \in Seq(Ops),
         Bodies \subseteq Seq(Sent), Env = {}
  PROVE  Spec => []SinkFollowsMapping
<1>1. RouteInv(Ops) /\ DataInv /\ SinkInv => SinkFollowsMapping
  <2> SUFFICES ASSUME RouteInv(Ops), DataInv, SinkInv, \A t \in Threads : ~Busy(t),
                      outcome # "refused", HealthSink \in DOMAIN desired
               PROVE  Reply(200, DesiredItem(HealthSink)).body.uri = sinkURI
    BY ToldOfSink DEF SinkFollowsMapping, Reply
  <2>1. outcome = "checked"
    BY DEF DataInv, SinkInv
  <2>2. QED BY <2>1 DEF SinkInv, Agree, Reply, DesiredItem
<1>2. QED BY <1>1, RouteStep, TaskStep, DataStep, SinkStep, PTL DEF Spec
================================================================================
