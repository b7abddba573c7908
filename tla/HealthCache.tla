------------------------------ MODULE HealthCache ------------------------------
(***************************************************************************)
(* HNHealthCache with HNFormatStringCache: the copies a management client  *)
(* keeps of the component trees of several devices, filled from the        *)
(* reports it gets from them, and of the format strings those refer to.    *)
(*                                                                         *)
(* A tree is a function from paths to components: a path is the sequence   *)
(* of component IDs from the root, which is also the ID that               *)
(* generateChildComponentJSON gives the component.  IDs are only compared  *)
(* among the children of one component, as in the code.  The order of      *)
(* children is that of their IDs, as a device numbers and reports them.    *)
(*                                                                         *)
(* The devices (DeviceHealth describes one) are reduced to what a report   *)
(* shows of them: between two reports a device may change in any way,      *)
(* being disabled, enabled again and rebuilt included.                     *)
(***************************************************************************)
EXTENDS FormatStrings

CONSTANTS
  Devices,
  Shapes,      \* per device: the sets of paths its trees may have
  Shown,       \* per device and depth: the components it shows, as [status, msg]
  NoMsg,       \* a component that shows no message
  NoFetch,     \* no strings are being fetched from a device
  MaxRestarts, \* bound: restarts of devices
  Env          \* the liberties the environment takes (see Liberties)

(***************************************************************************)
(* "reroot": a device reports under another root ID than before (devices   *)
(*           built with this library never do).                            *)
(***************************************************************************)
Liberties == {"reroot"}

Root == 0
OtherRoot == 9
IsPath(p) == Len(p) > 0 /\ Head(p) \in {Root, OtherRoot}

\* Every path but the root's extends a path of the set.
PrefixClosed(paths) ==
  /\ paths # {}
  /\ \A p \in paths : IsPath(p) /\ (Len(p) > 1 => Front(p) \in paths)

ASSUME CacheAssumption ==
  /\ \A d \in Devices :
       /\ \A s \in Shapes[d] : /\ PrefixClosed(s) /\ <<Root>> \in s /\ IsFiniteSet(s)
                               /\ \A p \in s : p \in Seq(Nat) /\ Head(p) = Root
       /\ \A n \in DOMAIN Shown[d] : \A c \in Shown[d][n] :
            \/ c.msg = NoMsg
            \/ /\ c.msg.fmt \in Formats /\ c.msg.args \in Seq(Seq(STRING))
               /\ Len(c.msg.args) = ParameterCnt(c.msg.fmt)
       /\ \A s \in Shapes[d] : \A p \in s : Len(p) \in DOMAIN Shown[d]
  /\ MaxRestarts \in Nat
  /\ Env \subseteq Liberties

VARIABLES
  copy,     \* m_devHealthTreeMap: the trees by device
  strings,  \* m_strCache
  changed,  \* whether the last updateDeviceHealth said there was a change
  store,    \* each device's format strings
  fetch,    \* definitions on their way from a device
  restarts,
  last      \* history: what each device last reported successfully

vars == <<copy, strings, changed, store, fetch, restarts, last>>

Init ==
  /\ copy = <<>>
  /\ strings = EmptyCache
  /\ changed = FALSE
  /\ store = [d \in Devices |-> <<>>]
  /\ fetch = [d \in Devices |-> NoFetch]
  /\ restarts = 0
  /\ last = <<>>

ChildrenOf(paths, p) == {q \in paths : Len(q) = Len(p) + 1 /\ Front(q) = p}
PathOf(q, n) == SubSeq(q, 1, n)

--------------------------------------------------------------------------------
(* A device *)

\* An application registers the strings it is going to show.
RegisterString(d, f) ==
  /\ \E n \in DOMAIN Shown[d] : \E c \in Shown[d][n] : c.msg # NoMsg /\ c.msg.fmt = f
  /\ Hash[f] \notin DOMAIN store[d]
  /\ store' = [store EXCEPT ![d] = RegisterFormatString(store[d], f)]
  /\ UNCHANGED <<copy, strings, changed, fetch, restarts, last>>

Restart(d) ==
  /\ restarts < MaxRestarts
  /\ restarts' = restarts + 1
  /\ store' = [store EXCEPT ![d] = <<>>]
  /\ UNCHANGED <<copy, strings, changed, fetch, last>>

\* The trees a device can show: its messages use strings it has registered.
Trees(d) ==
  LET usable(n) == {c \in Shown[d][n] :
                      c.msg = NoMsg \/ Hash[c.msg.fmt] \in DOMAIN store[d]}
      shapes == UNION {{t \in [s -> UNION {usable(Len(p)) : p \in s}] :
                          \A p \in s : t[p] \in usable(Len(p))} : s \in Shapes[d]}
      Reroot(t) == [p \in {<<OtherRoot>> \o Tail(q) : q \in DOMAIN t} |->
                      t[<<Root>> \o Tail(p)]]
  IN  shapes \cup IF "reroot" \in Env THEN {Reroot(t) : t \in shapes} ELSE {}

\* getRestJSON of the device, with the instances its setters have filled.
Report(d, tree) ==
  [p \in DOMAIN tree |->
     [status |-> tree[p].status,
      inst   |-> IF tree[p].msg = NoMsg THEN Cleared
                 ELSE FillInstance(store[d], Hash[tree[p].msg.fmt], tree[p].msg.args)]]

--------------------------------------------------------------------------------
(* HNHealthCache *)

NewComponent == [status |-> "UNKNOWN", inst |-> Cleared]

\* handleHealthComponentUpdate, handleHealthComponentStrInstanceUpdate.
ComponentUpdate(c, js) ==
  [c EXCEPT !.status = js.status, !.inst = UpdateFromJSON(c.inst, js.inst)]

\* Faulty variants: a deleted child's children stay in the tree; nothing is deleted.
KeptOrphans(old, js) ==
  {q \in DOMAIN old :
     LET p == Front(q) IN
     (Len(q) > 1 /\ p \in DOMAIN js /\ ChildrenOf(DOMAIN js, p) # {}) => q \in DOMAIN js}

KeptAlways(old, js) == DOMAIN old

\* handleHealthComponentChildren: what is left of the copy `old`.  Children
\* that are reported no more go, with all below them, but where no child is
\* reported the function returns before it comes to that.
Kept(old, js) ==
  {q \in DOMAIN old :
     \A n \in 1 .. (Len(q) - 1) :
       LET p == PathOf(q, n) IN
       (p \in DOMAIN js /\ ChildrenOf(DOMAIN js, p) # {})
         => PathOf(q, n + 1) \in DOMAIN js}

\* The copy after a report whose root is the one of `old`.
Merged(old, js) ==
  [p \in DOMAIN js \cup Kept(old, js) |->
     IF p \in DOMAIN js
     THEN ComponentUpdate(IF p \in DOMAIN old THEN old[p] ELSE NewComponent, js[p])
     ELSE old[p]]

\* Faulty variant: only created and deleted children count as a change.
ChildrenChangedByShape(old, js) ==
  LET differs[p \in DOMAIN js] ==
        LET kids == ChildrenOf(DOMAIN js, p) IN
        kids # {} /\ (~ ChildrenOf(DOMAIN old, p) = kids \/ \E q \in kids : differs[q])
  IN  differs

\* `changed` as handleHealthComponentChildren returns it for each component:
\* every child assigns it anew, so that the last one decides, unless
\* children were deleted.
ChildrenChanged(old, js) ==
  LET LastOf(kids) == CHOOSE q \in kids : \A r \in kids : r[Len(r)] <= q[Len(q)]
      differs[p \in DOMAIN js] ==
        LET kids == ChildrenOf(DOMAIN js, p)
            q    == LastOf(kids)
        IN  /\ kids # {}
            /\ \/ ~ ChildrenOf(DOMAIN old, p) \subseteq kids
               \/ q \notin DOMAIN old
               \/ ComponentUpdate(old[q], js[q]) # old[q]
               \/ differs[q]
  IN  differs

\* Faulty variant: only the codes of new components are reported.
NewCodesCreated(old, js) == {js[p].inst.code : p \in DOMAIN js \ DOMAIN old}

\* The codes of the instances that changed, which are reported to the strings.
NewCodes(old, js) ==
  {js[p].inst.code : p \in {q \in DOMAIN js :
     js[q].inst # (IF q \in DOMAIN old THEN old[q] ELSE NewComponent).inst}}

RootOf(tree) == CHOOSE p \in DOMAIN tree : Len(p) = 1

\* A device that is new, or reports another root, starts from a new root
\* component, whose m_lastUpdateTS nobody has set: the first comparison with
\* it may find a change or none (`luck`).  Another root clears the whole map.
UpdateDeviceHealth(d) ==
  \E tree \in Trees(d), luck \in BOOLEAN :
    LET js    == Report(d, tree)
        root  == RootOf(js)
        known == d \in DOMAIN copy /\ root \in DOMAIN copy[d]
        old   == IF known THEN copy[d] ELSE [p \in {root} |-> NewComponent]
        new   == Merged(old, js)
        others == IF d \in DOMAIN copy /\ ~known THEN {} ELSE DOMAIN copy \ {d}
    IN  /\ luck => ~known
        /\ copy' = [e \in others \cup {d} |-> IF e = d THEN new ELSE copy[e]]
        /\ strings' = ReportFormatCodes(strings, d, NewCodes(old, js))
        /\ changed' = (\/ luck
                       \/ new[root] # old[root]
                       \/ ChildrenChanged(old, js)[root])
        /\ last' = [e \in DOMAIN last \cup {d} |-> IF e = d THEN tree ELSE last[e]]
        /\ UNCHANGED <<store, fetch, restarts>>

\* An answer that is cut short, comes from another device, or from one whose
\* monitoring is disabled: the caller's flag stays as it was, which is FALSE.
RejectDeviceHealth(d) ==
  /\ changed' = FALSE
  /\ UNCHANGED <<copy, strings, store, fetch, restarts, last>>

--------------------------------------------------------------------------------
(* The format strings: the client asks a device for the codes that miss,   *)
(* or for all, and applies the answer when it comes.                       *)

\* Faulty variant: what was asked for counts as fetched.
RequestStringsForgets(d) ==
  /\ fetch[d] = NoFetch
  /\ UncachedStrRefList(strings, d) # {}
  /\ fetch' = [fetch EXCEPT ![d] =
                 SelectFormatStrings(store[d], UncachedStrRefList(strings, d))]
  /\ strings' = [strings EXCEPT !.need = @ \ UncachedStrRefList(strings, d)]
  /\ UNCHANGED <<copy, changed, store, restarts, last>>

RequestStrings(d) ==
  /\ fetch[d] = NoFetch
  /\ UncachedStrRefList(strings, d) # {}
  /\ fetch' = [fetch EXCEPT ![d] =
                 SelectFormatStrings(store[d], UncachedStrRefList(strings, d))]
  /\ UNCHANGED <<copy, strings, changed, store, restarts, last>>

RequestAllStrings(d) ==
  /\ fetch[d] = NoFetch
  /\ fetch' = [fetch EXCEPT ![d] = AllFormatStrings(store[d])]
  /\ UNCHANGED <<copy, strings, changed, store, restarts, last>>

DefineStrings(d) ==
  /\ fetch[d] # NoFetch
  /\ strings' = UpdateStringDefinitions(strings, fetch[d])
  /\ fetch' = [fetch EXCEPT ![d] = NoFetch]
  /\ UNCHANGED <<copy, changed, store, restarts, last>>

LoseStrings(d) ==
  /\ fetch[d] # NoFetch
  /\ fetch' = [fetch EXCEPT ![d] = NoFetch]
  /\ UNCHANGED <<copy, strings, changed, store, restarts, last>>

--------------------------------------------------------------------------------
Next ==
  \E d \in Devices :
    \/ \E f \in Formats : RegisterString(d, f)
    \/ Restart(d)
    \/ UpdateDeviceHealth(d)
    \/ RejectDeviceHealth(d)
    \/ RequestStrings(d)
    \/ RequestAllStrings(d)
    \/ DefineStrings(d)
    \/ LoseStrings(d)

Spec == Init /\ [][Next]_vars

\* An application registers its strings whenever its device starts; the client
\* asks for what it misses, and not every answer of a device is lost.  Reports,
\* restarts and failures are owed to nobody.
FairSpec ==
  /\ Spec
  /\ \A d \in Devices :
       /\ \A f \in Formats : WF_vars(RegisterString(d, f))
       /\ WF_vars(RequestStrings(d))
       /\ SF_vars(DefineStrings(d))

\* generateAllDeviceHealthReportAsJSON: what the client shows.
HealthReport ==
  {[dev |-> e[1], id |-> e[2], status |-> copy[e[1]][e[2]].status,
    text |-> RenderInstance(strings, copy[e[1]][e[2]].inst)] :
     e \in UNION {{d} \X DOMAIN copy[d] : d \in DOMAIN copy}}

--------------------------------------------------------------------------------
Instances == [code : {0} \cup FmtCodes, params : Seq(Seq(STRING))]
Statuses(d) == UNION {{c.status : c \in Shown[d][n]} : n \in DOMAIN Shown[d]}
Components(d) == [status : Statuses(d), inst : Instances]

TypeOK ==
  /\ DOMAIN copy \subseteq Devices
  /\ \A d \in DOMAIN copy : /\ PrefixClosed(DOMAIN copy[d])
                             /\ \A p \in DOMAIN copy[d] : copy[d][p] \in Components(d)
  /\ DOMAIN strings.strs \subseteq FmtCodes
  /\ strings.need \subseteq DOMAIN strings.strs
  /\ \A c \in DOMAIN strings.strs :
       strings.strs[c] \in [dev : Devices, template : Seq(Pieces)]
  /\ changed \in BOOLEAN
  /\ \A d \in Devices : /\ \A c \in DOMAIN store[d] : store[d][c] \in Formats
                         /\ fetch[d] # NoFetch => DOMAIN fetch[d] \subseteq FmtCodes
  /\ restarts \in 0 .. MaxRestarts
  /\ DOMAIN last \subseteq Devices

Childless(tree, p) == p \in DOMAIN tree /\ ChildrenOf(DOMAIN tree, p) = {}

\* Whatever devices reported in between, the copy of each holds every component
\* of its own last report, as it was reported; and what else it holds hangs
\* below a component that was reported without children (the early return of
\* handleHealthComponentChildren).
CopyFollowsReports ==
  \A d \in DOMAIN last :
    /\ d \in DOMAIN copy
    /\ \A p \in DOMAIN last[d] :
         /\ p \in DOMAIN copy[d]
         /\ copy[d][p].status = last[d][p].status
         /\ copy[d][p].inst =
              IF last[d][p].msg = NoMsg THEN Cleared
              ELSE [code |-> Hash[last[d][p].msg.fmt], params |-> last[d][p].msg.args]
    /\ \A q \in DOMAIN copy[d] \ DOMAIN last[d] :
         \E n \in 1 .. (Len(q) - 1) : Childless(last[d], PathOf(q, n))

\* The copy holds no component its device has ceased to report ("so that at
\* the end we can tell if some children need to be deleted").
NothingOutdated ==
  \A d \in DOMAIN last : DOMAIN copy[d] \subseteq DOMAIN last[d]

\* Every code that a cached component refers to has a record, and a record is
\* listed as needed exactly until its template is known: otherwise the text
\* would stay "not available" for ever.
CodesTracked ==
  /\ \A d \in DOMAIN copy : \A p \in DOMAIN copy[d] :
       copy[d][p].inst.code \in {0} \cup DOMAIN strings.strs
  /\ \A c \in DOMAIN strings.strs :
       c \in strings.need <=> strings.strs[c].template = <<>>

\* What the client shows for a reported component is the text its device would
\* have printed, or says that the string is not available: whichever device
\* the template came from, and whatever was asked or answered in between.
RenderedAsFormatted ==
  \A e \in HealthReport :
    (e.dev \in DOMAIN last /\ e.id \in DOMAIN last[e.dev]) =>
       LET msg == last[e.dev][e.id].msg
       IN  e.text \in IF msg = NoMsg THEN {<<>>}
                      ELSE {NotAvailable, Printf(msg.fmt, msg.args)}

OnlyChildren(tree) ==
  \A p \in DOMAIN tree : Cardinality(ChildrenOf(DOMAIN tree, p)) <= 1

\* updateDeviceHealth claims a change only if the copy changed; and it notices
\* every change of a known device whose components have at most one child each
\* (with several, the last child's flag replaces its siblings').
ChangeNoticed ==
  [][ /\ (~changed /\ changed') => copy' # copy
      /\ \A d \in DOMAIN copy :
           (copy'[d] # copy[d] /\ OnlyChildren(last'[d])) => changed' ]_vars

\* A string some component refers to is known in the end, although devices restart,
\* answers fail, and the device is asked only for codes it was first to report.
StringsArrive ==
  \A c \in FmtCodes :
    c \in DOMAIN strings.strs ~>
      (c \in DOMAIN strings.strs /\ strings.strs[c].template # <<>>)
================================================================================
