--------------------------- MODULE HealthCache_proofs ---------------------------
(***************************************************************************)
(* Theorems about HealthCache, for any devices, trees and format strings.  *)
(***************************************************************************)
EXTENDS HealthCache, FiniteSetTheorems, SequenceTheorems, WellFoundedInduction, TLAPS

(***************************************************************************)
(* Paths and trees                                                         *)
(***************************************************************************)
\* A set of numbers that is not empty has a least one.
LEMMA LeastNumber ==
  ASSUME NEW T, T \subseteq Nat, T # {}
  PROVE  \E x \in T : \A y \in T : x <= y
<1> DEFINE R == {p \in Nat \X Nat : p[1] < p[2]}
<1>1. IsWellFoundedOn(R, Nat)
  BY NatLessThanWellFounded DEF OpToRel
<1>2. PICK x \in T : \A y \in T : <<y, x>> \notin R
  <2> HIDE DEF R
  <2>1. QED BY <1>1, WFMin
<1>3. \A y \in T : ~(y < x)
  BY <1>2
<1>4. QED BY <1>3

\* What Front leaves of a sequence.
LEMMA FrontIs ==
  ASSUME NEW S, NEW q \in Seq(S), q # <<>>
  PROVE  /\ Front(q) \in Seq(S) /\ Len(Front(q)) = Len(q) - 1
         /\ \A i \in 1 .. Len(q) - 1 : Front(q)[i] = q[i]
         /\ Len(q) > 1 => Front(q) # <<>>
<1>1. /\ Front(q) \in Seq(S) /\ Len(Front(q)) = Len(q) - 1
      /\ \A i \in 1 .. Len(q) - 1 : Front(q)[i] = q[i]
  BY DEF Front
<1>2. \A s \in Seq(S) : Len(s) > 0 => s # <<>>
  OBVIOUS
<1>3. QED BY <1>1, <1>2

\* The paths of a tree with the root r.
Tree(paths, r) ==
  /\ <<r>> \in paths /\ paths \subseteq Seq(Nat)
  /\ \A p \in paths : p # <<>> /\ Head(p) = r /\ (Len(p) > 1 => Front(p) \in paths)

\* The first n elements of a path.
LEMMA Prefix ==
  ASSUME NEW q \in Seq(Nat), NEW n \in 1 .. Len(q)
  PROVE  /\ PathOf(q, n) \in Seq(Nat) /\ Len(PathOf(q, n)) = n
         /\ PathOf(q, n) # <<>> /\ Head(PathOf(q, n)) = Head(q)
         /\ \A k \in 1 .. n : PathOf(q, n)[k] = q[k]
BY DEF PathOf

\* Those of the path above are those of the path.
LEMMA AbovePrefix ==
  ASSUME NEW q \in Seq(Nat), Len(q) > 1
  PROVE  /\ Front(q) = PathOf(q, Len(q) - 1)
         /\ \A n \in 1 .. Len(q) - 1 : PathOf(Front(q), n) = PathOf(q, n)
         /\ \A n \in 2 .. Len(q) : Front(PathOf(q, n)) = PathOf(q, n - 1)
         /\ PathOf(q, Len(q)) = q
<1>1. Front(q) = PathOf(q, Len(q) - 1)
  BY DEF Front, PathOf
<1>2. ASSUME NEW n \in 1 .. Len(q) - 1
      PROVE  PathOf(Front(q), n) = PathOf(q, n)
  BY DEF Front, PathOf
<1>3. ASSUME NEW n \in 2 .. Len(q)
      PROVE  Front(PathOf(q, n)) = PathOf(q, n - 1)
  BY DEF Front, PathOf
<1>4. PathOf(q, Len(q)) = q
  BY DEF PathOf
<1>5. QED BY <1>1, <1>2, <1>3, <1>4

\* A tree has one root, which RootOf finds.
LEMMA RootIs ==
  ASSUME NEW tree, NEW r, Tree(DOMAIN tree, r)
  PROVE  RootOf(tree) = <<r>>
<1>1. \A p \in DOMAIN tree : Len(p) = 1 <=> p = <<r>>
  <2> SUFFICES ASSUME NEW p \in DOMAIN tree
               PROVE  Len(p) = 1 <=> p = <<r>>
    OBVIOUS
  <2>1. p \in Seq(Nat) /\ p # <<>> /\ Head(p) = r /\ r \in Nat
    <3>1. <<r>> \in Seq(Nat)
      BY DEF Tree
    <3>2. QED BY <3>1 DEF Tree
  <2>2. Len(p) = 1 => p = <<p[1]>>
    BY <2>1
  <2>3. QED BY <2>1, <2>2
<1>2. <<r>> \in DOMAIN tree
  BY DEF Tree
<1>3. QED BY <1>1, <1>2 DEF RootOf

\* A tree is closed under prefixes.
LEMMA TreeClosed ==
  ASSUME NEW paths, NEW r \in {Root, OtherRoot}, Tree(paths, r)
  PROVE  PrefixClosed(paths)
BY DEF Tree, PrefixClosed, IsPath

\* Under another root ID it is a tree again.
LEMMA RerootedTree ==
  ASSUME NEW paths, Tree(paths, Root)
  PROVE  Tree({<<OtherRoot>> \o Tail(q) : q \in paths}, OtherRoot)
<1> DEFINE moved(q) == <<OtherRoot>> \o Tail(q)
<1>1. ASSUME NEW q \in paths
      PROVE  /\ moved(q) \in Seq(Nat) /\ moved(q) # <<>> /\ Head(moved(q)) = OtherRoot
             /\ Len(moved(q)) = Len(q)
             /\ Len(q) > 1 => Front(moved(q)) = moved(Front(q)) /\ Front(q) \in paths
  <2>1. q \in Seq(Nat) /\ q # <<>> /\ OtherRoot \in Nat
    BY DEF Tree, OtherRoot
  <2>2. /\ moved(q) \in Seq(Nat) /\ moved(q) # <<>> /\ Head(moved(q)) = OtherRoot
        /\ Len(moved(q)) = Len(q)
    BY <2>1
  <2>3. ASSUME Len(q) > 1
        PROVE  Front(moved(q)) = moved(Front(q))
    <3> DEFINE a == Front(moved(q))
               b == moved(Front(q))
    <3>1. Front(q) \in Seq(Nat) /\ Len(Front(q)) = Len(q) - 1 /\ Front(q) # <<>>
      BY <2>1, <2>3, FrontIs
    <3>2. a \in Seq(Nat) /\ Len(a) = Len(q) - 1
      BY <2>1, <2>2, <2>3, FrontIs
    <3>3. b \in Seq(Nat) /\ Len(b) = Len(q) - 1
      <4>1. \A s \in Seq(Nat) : s # <<>> => moved(s) \in Seq(Nat) /\ Len(moved(s)) = Len(s)
        BY <2>1
      <4> HIDE DEF moved
      <4>2. QED BY <3>1, <4>1
    <3>4. ASSUME NEW i \in 1 .. Len(q) - 1
          PROVE  a[i] = b[i]
      BY <2>1, <2>2, <2>3, <3>1 DEF Front
    <3> HIDE DEF a, b
    <3>5. a = [i \in 1 .. Len(q) - 1 |-> a[i]] /\ b = [i \in 1 .. Len(q) - 1 |-> b[i]]
      BY <3>2, <3>3
    <3>6. a = b
      BY <3>4, <3>5
    <3>7. QED BY <3>6 DEF a, b
  <2>4. QED BY <2>2, <2>3 DEF Tree
<1>2. moved(<<Root>>) = <<OtherRoot>> /\ <<Root>> \in paths
  <2>1. Tail(<<Root>>) = <<>> /\ <<OtherRoot>> \o <<>> = <<OtherRoot>>
    OBVIOUS
  <2>2. QED BY <2>1 DEF Tree
<1> HIDE DEF moved
<1>3. Tree({moved(q) : q \in paths}, OtherRoot)
  BY <1>1, <1>2 DEF Tree
<1>4. QED BY <1>3 DEF moved
--------------------------------------------------------------------------------
(***************************************************************************)
(* What devices show, and what they report                                 *)
(***************************************************************************)
\* A device shows a tree with one root, of components it can show at that moment.
ShownTree(d, tree) ==
  /\ \E r \in {Root, OtherRoot} :
       Tree(DOMAIN tree, r) /\ ("reroot" \notin Env => r = Root)
  /\ \A p \in DOMAIN tree :
       /\ \E n \in DOMAIN Shown[d] : tree[p] \in Shown[d][n]
       /\ tree[p].msg = NoMsg \/ Hash[tree[p].msg.fmt] \in DOMAIN store[d]

\* Trees(d) are such trees.
LEMMA TreesShown ==
  ASSUME NEW d \in Devices, NEW tree \in Trees(d)
  PROVE  ShownTree(d, tree)
<1> DEFINE usable(n) == {c \in Shown[d][n] :
                           c.msg = NoMsg \/ Hash[c.msg.fmt] \in DOMAIN store[d]}
           of(s) == {t \in [s -> UNION {usable(Len(p)) : p \in s}] :
                       \A p \in s : t[p] \in usable(Len(p))}
           shapes == UNION {of(s) : s \in Shapes[d]}
           moved(q) == <<OtherRoot>> \o Tail(q)
           back(q) == <<Root>> \o Tail(q)
           Reroot(t) == [p \in {moved(q) : q \in DOMAIN t} |-> t[back(p)]]
<1>1. ASSUME NEW t \in shapes
      PROVE  /\ Tree(DOMAIN t, Root)
             /\ \A p \in DOMAIN t :
                  /\ \E n \in DOMAIN Shown[d] : t[p] \in Shown[d][n]
                  /\ t[p].msg = NoMsg \/ Hash[t[p].msg.fmt] \in DOMAIN store[d]
  <2>1. PICK s \in Shapes[d] : t \in of(s)
    OBVIOUS
  <2>2. DOMAIN t = s /\ \A p \in s : t[p] \in usable(Len(p))
    BY <2>1
  <2>3. /\ PrefixClosed(s) /\ <<Root>> \in s /\ \A p \in s : Len(p) \in DOMAIN Shown[d]
        /\ \A p \in s : p \in Seq(Nat) /\ Head(p) = Root
    BY CacheAssumption
  <2>4. \A p \in s : p # <<>> /\ (Len(p) > 1 => Front(p) \in s)
    BY <2>3 DEF PrefixClosed, IsPath
  <2>5. Tree(s, Root)
    BY <2>3, <2>4 DEF Tree
  <2>6. QED BY <2>2, <2>3, <2>5
<1>2. tree \in shapes \/ ("reroot" \in Env /\ \E t \in shapes : tree = Reroot(t))
  BY DEF Trees
<1>3. CASE tree \in shapes
  BY <1>1, <1>3 DEF ShownTree
<1>4. ASSUME "reroot" \in Env, NEW t \in shapes, tree = Reroot(t)
      PROVE  ShownTree(d, tree)
  <2>1. DOMAIN tree = {moved(q) : q \in DOMAIN t}
    BY <1>4
  <2>2. Tree(DOMAIN tree, OtherRoot)
    BY <1>1, <2>1, RerootedTree
  <2>3. ASSUME NEW q \in DOMAIN t
        PROVE  back(moved(q)) = q
    <3>1. q \in Seq(Nat) /\ q # <<>> /\ Head(q) = Root
      BY <1>1 DEF Tree
    <3>2. Tail(moved(q)) = Tail(q)
      BY <3>1
    <3>3. <<Head(q)>> \o Tail(q) = q
      BY <3>1
    <3>4. QED BY <3>1, <3>2, <3>3
  <2> HIDE DEF moved, back
  <2>4. \A q \in DOMAIN t : tree[moved(q)] = t[q]
    BY <1>4, <2>3
  <2>5. \A p \in DOMAIN tree : \E q \in DOMAIN t : tree[p] = t[q]
    BY <2>1, <2>4
  <2> HIDE DEF shapes
  <2>6. QED BY <1>1, <1>4, <2>2, <2>5 DEF ShownTree
<1>5. QED BY <1>2, <1>3, <1>4

\* A device's strings are filed under their codes.
StoreInv ==
  /\ store = [d \in Devices |-> store[d]]
  /\ \A d \in Devices : \A c \in DOMAIN store[d] :
       store[d][c] \in Formats /\ Hash[store[d][c]] = c

\* No two format strings have the same code.
NoCollision == \A f, g \in Formats : Hash[f] = Hash[g] => f = g

\* The instance that stands for a message.
InstanceOf(msg) ==
  IF msg = NoMsg THEN Cleared ELSE [code |-> Hash[msg.fmt], params |-> msg.args]

\* A report has the components of the tree.
LEMMA ReportIs ==
  ASSUME NEW d \in Devices, NEW tree, ShownTree(d, tree), StoreInv
  PROVE  LET js == Report(d, tree)
         IN  /\ DOMAIN js = DOMAIN tree
             /\ \A p \in DOMAIN js :
                  /\ js[p].status = tree[p].status /\ js[p].status \in Statuses(d)
                  /\ js[p].inst = [code |-> js[p].inst.code, params |-> js[p].inst.params]
                  /\ js[p].inst.code \in {0} \cup FmtCodes
                  /\ NoCollision => js[p].inst = InstanceOf(tree[p].msg)
                  /\ NoCollision => js[p].inst.params \in Seq(Seq(STRING))
<1> SUFFICES ASSUME NEW p \in DOMAIN tree
             PROVE  LET c == Report(d, tree)[p]
                    IN  /\ c.status = tree[p].status /\ c.status \in Statuses(d)
                        /\ c.inst = [code |-> c.inst.code, params |-> c.inst.params]
                        /\ c.inst.code \in {0} \cup FmtCodes
                        /\ NoCollision => c.inst = InstanceOf(tree[p].msg)
                        /\ NoCollision => c.inst.params \in Seq(Seq(STRING))
  BY DEF Report
<1> DEFINE c == Report(d, tree)[p]
           msg == tree[p].msg
<1>1. /\ c.status = tree[p].status
      /\ c.inst = IF msg = NoMsg THEN Cleared
                  ELSE FillInstance(store[d], Hash[msg.fmt], msg.args)
  BY DEF Report
<1>2. PICK n \in DOMAIN Shown[d] : tree[p] \in Shown[d][n]
  BY DEF ShownTree
<1>3. c.status \in Statuses(d)
  BY <1>1, <1>2 DEF Statuses
<1> HIDE DEF c
<1>4. CASE msg = NoMsg
  BY <1>1, <1>3, <1>4 DEF Cleared, InstanceOf, c
<1>5. CASE msg # NoMsg
  <2>1. /\ msg.fmt \in Formats /\ msg.args \in Seq(Seq(STRING))
        /\ Len(msg.args) = ParameterCnt(msg.fmt)
    BY <1>2, <1>5, CacheAssumption
  <2>2. Hash[msg.fmt] \in DOMAIN store[d] /\ Hash[msg.fmt] \in FmtCodes
    BY <1>5, <2>1 DEF ShownTree, FmtCodes
  <2> DEFINE f == store[d][Hash[msg.fmt]]
  <2>3. c.inst = [code |-> Hash[msg.fmt], params |-> SetParameters(f, msg.args)]
    BY <1>1, <1>5, <2>2 DEF FillInstance
  <2>4. NoCollision => f = msg.fmt
    BY <2>1, <2>2 DEF StoreInv, NoCollision
  <2>5. SubSeq(msg.args, 1, Len(msg.args)) = msg.args
    BY <2>1
  <2>6. NoCollision => SetParameters(f, msg.args) = msg.args
    BY <2>1, <2>4, <2>5 DEF SetParameters
  <2> HIDE DEF f
  <2>7. QED BY <1>1, <1>3, <1>5, <2>1, <2>2, <2>3, <2>6 DEF InstanceOf, c
<1>6. QED BY <1>4, <1>5
--------------------------------------------------------------------------------
(***************************************************************************)
(* The copy of a tree                                                      *)
(***************************************************************************)
IsComponent(c) ==
  /\ c = [status |-> c.status, inst |-> [code |-> c.inst.code, params |-> c.inst.params]]
  /\ c.inst.code \in {0} \cup FmtCodes

CopyInv ==
  /\ DOMAIN copy \subseteq Devices
  /\ \A d \in DOMAIN copy :
       /\ \E r \in {Root, OtherRoot} :
            Tree(DOMAIN copy[d], r) /\ ("reroot" \notin Env => r = Root)
       /\ \A p \in DOMAIN copy[d] : IsComponent(copy[d][p])

\* An instance becomes the one sent.
LEMMA InstanceOverwritten ==
  ASSUME NEW inst, NEW sent, inst = [code |-> inst.code, params |-> inst.params]
  PROVE  UpdateFromJSON(inst, sent) = [code |-> sent.code, params |-> sent.params]
<1> DEFINE new == UpdateFromJSON(inst, sent)
           goal == [code |-> sent.code, params |-> sent.params]
           fields == {"code", "params"}
<1>1. inst = [k \in fields |-> inst[k]]
  OBVIOUS
<1>2. new = [k \in fields |-> new[k]] /\ new.code = sent.code /\ new.params = sent.params
  BY <1>1 DEF UpdateFromJSON
<1>3. goal = [k \in fields |-> goal[k]] /\ goal.code = sent.code /\ goal.params = sent.params
  OBVIOUS
<1> HIDE DEF new, goal
<1>4. new = goal
  BY <1>2, <1>3
<1>5. QED BY <1>4 DEF new, goal

\* A component gets the status and the instance that are reported.
LEMMA ComponentOverwritten ==
  ASSUME NEW c, NEW js, c = [status |-> c.status, inst |-> c.inst]
  PROVE  ComponentUpdate(c, js) = [status |-> js.status, inst |-> UpdateFromJSON(c.inst, js.inst)]
<1> DEFINE new == ComponentUpdate(c, js)
           goal == [status |-> js.status, inst |-> UpdateFromJSON(c.inst, js.inst)]
           fields == {"status", "inst"}
<1>1. c = [k \in fields |-> c[k]]
  OBVIOUS
<1>2. new = [k \in fields |-> new[k]] /\ new.status = js.status /\ new.inst = UpdateFromJSON(c.inst, js.inst)
  BY <1>1 DEF ComponentUpdate
<1>3. goal = [k \in fields |-> goal[k]] /\ goal.status = js.status /\ goal.inst = UpdateFromJSON(c.inst, js.inst)
  OBVIOUS
<1> HIDE DEF new, goal
<1>4. new = goal
  BY <1>2, <1>3
<1>5. QED BY <1>4 DEF new, goal

\* A component that is kept has the one above it kept, or reported.
LEMMA KeptTree ==
  ASSUME NEW old, NEW js, NEW r, Tree(DOMAIN old, r), Tree(DOMAIN js, r)
  PROVE  Tree(DOMAIN js \cup Kept(old, js), r)
<1>1. ASSUME NEW q \in Kept(old, js), Len(q) > 1
      PROVE  Front(q) \in Kept(old, js)
  <2>1. q \in DOMAIN old /\ q \in Seq(Nat)
    BY DEF Kept, Tree
  <2>2. /\ Front(q) \in DOMAIN old /\ Len(Front(q)) = Len(q) - 1
        /\ \A n \in 1 .. Len(q) - 1 : PathOf(Front(q), n) = PathOf(q, n)
    BY <1>1, <2>1, AbovePrefix, FrontIs DEF Tree
  <2>3. ASSUME NEW n \in 1 .. (Len(Front(q)) - 1)
        PROVE  LET p == PathOf(Front(q), n)
               IN  (p \in DOMAIN js /\ ChildrenOf(DOMAIN js, p) # {})
                     => PathOf(Front(q), n + 1) \in DOMAIN js
    <3>1. n \in 1 .. (Len(q) - 1) /\ n + 1 \in 1 .. (Len(q) - 1)
      BY <2>1, <2>2
    <3>2. PathOf(Front(q), n) = PathOf(q, n) /\ PathOf(Front(q), n + 1) = PathOf(q, n + 1)
      BY <2>2, <3>1
    <3>3. QED BY <3>1, <3>2 DEF Kept
  <2>4. QED BY <2>2, <2>3 DEF Kept
<1>2. Kept(old, js) \subseteq DOMAIN old
  BY DEF Kept
<1>3. QED BY <1>1, <1>2 DEF Tree

\* What a report is merged into: the copy of the device, or a new root.
OldCopy(d, js) ==
  IF d \in DOMAIN copy /\ RootOf(js) \in DOMAIN copy[d] THEN copy[d]
  ELSE [p \in {RootOf(js)} |-> NewComponent]

\* It is a tree with the root that is reported.
LEMMA OldCopyIs ==
  ASSUME NEW d \in Devices, NEW js, NEW r \in {Root, OtherRoot}, Tree(DOMAIN js, r), CopyInv
  PROVE  /\ Tree(DOMAIN OldCopy(d, js), r)
         /\ \A p \in DOMAIN OldCopy(d, js) : IsComponent(OldCopy(d, js)[p])
         /\ \A p \in DOMAIN OldCopy(d, js) \ DOMAIN js :
              d \in DOMAIN copy /\ p \in DOMAIN copy[d] /\ OldCopy(d, js)[p] = copy[d][p]
<1>1. RootOf(js) = <<r>> /\ <<r>> \in DOMAIN js
  BY RootIs DEF Tree
<1>2. CASE d \in DOMAIN copy /\ RootOf(js) \in DOMAIN copy[d]
  <2>1. PICK s : Tree(DOMAIN copy[d], s)
    BY <1>2 DEF CopyInv
  <2>2. s = Head(<<r>>)
    BY <1>1, <1>2, <2>1 DEF Tree
  <2>3. s = r
    BY <2>2
  <2>4. QED BY <1>2, <2>1, <2>3 DEF OldCopy, CopyInv
<1>3. CASE ~(d \in DOMAIN copy /\ RootOf(js) \in DOMAIN copy[d])
  <2> DEFINE old == [p \in {<<r>>} |-> NewComponent]
  <2>1. OldCopy(d, js) = old /\ DOMAIN old = {<<r>>}
    BY <1>1, <1>3 DEF OldCopy
  <2>2. Tree({<<r>>}, r)
    <3>1. <<r>> \in Seq(Nat) /\ Head(<<r>>) = r /\ Len(<<r>>) = 1 /\ <<r>> # <<>>
      BY DEF Root, OtherRoot
    <3>2. QED BY <3>1 DEF Tree
  <2>3. IsComponent(NewComponent)
    BY DEF IsComponent, NewComponent, Cleared
  <2>4. QED BY <1>1, <2>1, <2>2, <2>3
<1>4. QED BY <1>2, <1>3

\* The copy after a report: what was reported, and what is kept of what was there.
IsMerged(d, js, old, new) ==
  /\ \E r \in {Root, OtherRoot} :
       Tree(DOMAIN new, r) /\ ("reroot" \notin Env => r = Root)
  /\ DOMAIN new = DOMAIN js \cup Kept(old, js)
  /\ \A p \in DOMAIN js : new[p] = [status |-> js[p].status, inst |-> js[p].inst]
  /\ \A p \in DOMAIN new : IsComponent(new[p])
  /\ \A p \in DOMAIN new \ DOMAIN js :
       d \in DOMAIN copy /\ p \in DOMAIN copy[d] /\ new[p] = copy[d][p]

\* Merged computes such a copy.
LEMMA MergedIs ==
  ASSUME NEW d \in Devices, NEW tree, ShownTree(d, tree), StoreInv, CopyInv
  PROVE  LET js == Report(d, tree)
             old == OldCopy(d, js)
         IN  IsMerged(d, js, old, Merged(old, js))
<1> DEFINE js == Report(d, tree)
           old == OldCopy(d, js)
           new == Merged(old, js)
<1>1. /\ DOMAIN js = DOMAIN tree
      /\ \A p \in DOMAIN js :
           /\ js[p].inst = [code |-> js[p].inst.code, params |-> js[p].inst.params]
           /\ js[p].inst.code \in {0} \cup FmtCodes
  BY ReportIs
<1>2. PICK r \in {Root, OtherRoot} :
        Tree(DOMAIN js, r) /\ ("reroot" \notin Env => r = Root)
  BY <1>1 DEF ShownTree
<1> HIDE DEF js
<1>3. /\ Tree(DOMAIN old, r)
      /\ \A p \in DOMAIN old : IsComponent(old[p])
      /\ \A p \in DOMAIN old \ DOMAIN js :
           d \in DOMAIN copy /\ p \in DOMAIN copy[d] /\ old[p] = copy[d][p]
  BY <1>2, OldCopyIs
<1> HIDE DEF old
<1>4. DOMAIN new = DOMAIN js \cup Kept(old, js) /\ Tree(DOMAIN new, r)
  BY <1>2, <1>3, KeptTree DEF Merged
<1>5. ASSUME NEW p \in DOMAIN js
      PROVE  new[p] = [status |-> js[p].status, inst |-> js[p].inst]
  <2> DEFINE c == IF p \in DOMAIN old THEN old[p] ELSE NewComponent
  <2>1. IsComponent(c)
    BY <1>3 DEF IsComponent, NewComponent, Cleared
  <2>2. new[p] = ComponentUpdate(c, js[p])
    BY DEF Merged
  <2> HIDE DEF c
  <2>3. UpdateFromJSON(c.inst, js[p].inst) =
          [code |-> js[p].inst.code, params |-> js[p].inst.params]
    <3> DEFINE i == c.inst
               x == js[p].inst
    <3>1. i = [code |-> i.code, params |-> i.params]
      BY <2>1 DEF IsComponent
    <3> HIDE DEF i, x
    <3>2. UpdateFromJSON(i, x) = [code |-> x.code, params |-> x.params]
      BY <3>1, InstanceOverwritten
    <3>3. QED BY <3>2 DEF i, x
  <2>4. ComponentUpdate(c, js[p]) =
          [status |-> js[p].status, inst |-> UpdateFromJSON(c.inst, js[p].inst)]
    <3>1. c = [status |-> c.status, inst |-> c.inst]
      BY <2>1 DEF IsComponent
    <3>2. QED BY <3>1, ComponentOverwritten
  <2>5. QED BY <1>1, <2>2, <2>3, <2>4
<1>6. ASSUME NEW p \in DOMAIN js
      PROVE  IsComponent(new[p])
  <2> DEFINE c == new[p]
  <2>1. c = [status |-> js[p].status, inst |-> js[p].inst]
    BY <1>5
  <2> HIDE DEF c
  <2>2. c.status = js[p].status /\ c.inst = js[p].inst
    BY <2>1
  <2>3. IsComponent(c)
    BY <1>1, <2>1, <2>2 DEF IsComponent
  <2>4. QED BY <2>3 DEF c
<1>7. ASSUME NEW p \in DOMAIN new \ DOMAIN js
      PROVE  /\ d \in DOMAIN copy /\ p \in DOMAIN copy[d] /\ new[p] = copy[d][p]
             /\ IsComponent(new[p])
  <2>1. p \in DOMAIN old /\ new[p] = old[p]
    BY <1>4, <1>7 DEF Merged, Kept
  <2>2. QED BY <1>3, <1>7, <2>1
<1> HIDE DEF new
<1>8. IsMerged(d, js, old, new)
  BY <1>2, <1>4, <1>5, <1>6, <1>7 DEF IsMerged
<1>9. QED BY <1>8 DEF js, old, new
--------------------------------------------------------------------------------
(***************************************************************************)
(* Templates                                                               *)
(***************************************************************************)
\* The number of a conversion is that of a parameter.
LEMMA HoleIndex ==
  ASSUME NEW f \in Formats, NEW k \in Specs(f)
  PROVE  /\ ParamIndex(f, k) \in 1 .. ParameterCnt(f)
         /\ ParameterCnt(f) \in Nat /\ ParameterCnt(f) <= Len(f)
<1> DEFINE below == {j \in Specs(f) : j < k}
<1>1. f \in Seq(STRING)
  BY FormatAssumption
<1>2. Specs(f) \subseteq 1 .. Len(f) /\ Len(f) \in Nat
  BY <1>1 DEF Specs
<1>3. IsFiniteSet(1 .. Len(f)) /\ Cardinality(1 .. Len(f)) = Len(f)
  <2>1. 1 \in Int /\ Len(f) \in Int
    BY <1>2
  <2>2. /\ IsFiniteSet(1 .. Len(f))
        /\ Cardinality(1 .. Len(f)) = IF 1 > Len(f) THEN 0 ELSE Len(f) - 1 + 1
    BY <2>1, FS_Interval
  <2>3. QED BY <1>2, <2>2
<1>4. IsFiniteSet(Specs(f)) /\ Cardinality(Specs(f)) <= Len(f)
  BY <1>2, <1>3, FS_Subset
<1>5. IsFiniteSet(Specs(f) \ {k}) /\ Cardinality(Specs(f) \ {k}) = Cardinality(Specs(f)) - 1
  BY <1>4, FS_RemoveElement
<1>6. below \subseteq Specs(f) \ {k}
  BY <1>2
<1>7. Cardinality(below) <= Cardinality(Specs(f)) - 1 /\ IsFiniteSet(below)
  BY <1>5, <1>6, FS_Subset
<1>8. Cardinality(below) \in Nat /\ Cardinality(Specs(f)) \in Nat
  BY <1>4, <1>7, FS_CardinalityType
<1> HIDE DEF below
<1>9. 1 + Cardinality(below) \in 1 .. Cardinality(Specs(f))
  BY <1>7, <1>8
<1>10. QED BY <1>4, <1>8, <1>9 DEF ParamIndex, ParameterCnt, below

\* A template is made of the pieces of its format string and of holes.
LEMMA TemplateIs ==
  ASSUME NEW f \in Formats
  PROVE  TemplateStr(f) \in Seq(Pieces) /\ (f # <<>> => TemplateStr(f) # <<>>)
<1> DEFINE t == TemplateStr(f)
<1>1. f \in Seq(STRING) /\ DOMAIN f = 1 .. Len(f) /\ Len(f) \in Nat
  <2>1. f \in Seq(STRING)
    BY FormatAssumption
  <2>2. \A S : \A g \in Seq(S) : DOMAIN g = 1 .. Len(g) /\ Len(g) \in Nat
    OBVIOUS
  <2>3. QED BY <2>1, <2>2
<1>2. ASSUME NEW k \in DOMAIN f
      PROVE  t[k] \in Pieces
  <2>1. CASE f[k] = "%"
    <3>1. ParamIndex(f, k) \in 1 .. ParameterCnt(f)
      BY <2>1, HoleIndex DEF Specs
    <3>2. t[k] = Hole(ParamIndex(f, k))
      BY <2>1 DEF TemplateStr
    <3>3. QED BY <3>1, <3>2 DEF Pieces
  <2>2. CASE f[k] # "%"
    BY <2>2 DEF TemplateStr, Pieces
  <2>3. QED BY <2>1, <2>2
<1>3. t = [k \in 1 .. Len(f) |-> t[k]]
  BY <1>1 DEF TemplateStr
<1> HIDE DEF t
<1>4. t \in Seq(Pieces) /\ Len(t) = Len(f)
  BY <1>1, <1>2, <1>3
<1>5. f # <<>> => t # <<>>
  BY <1>1, <1>4
<1>6. QED BY <1>4, <1>5 DEF t

--------------------------------------------------------------------------------
(***************************************************************************)
(* What holds of stores, answers on their way, records and copies.         *)
(***************************************************************************)
FetchInv ==
  /\ fetch = [d \in Devices |-> fetch[d]]
  /\ \A d \in Devices : fetch[d] # NoFetch =>
       \A c \in DOMAIN fetch[d] :
         c \in FmtCodes /\ \E f \in Formats : fetch[d][c] = TemplateStr(f)

RecordsInv ==
  /\ strings = [strs |-> strings.strs, need |-> strings.need]
  /\ DOMAIN strings.strs \subseteq FmtCodes
  /\ strings.need \subseteq DOMAIN strings.strs
  /\ \A c \in DOMAIN strings.strs :
       strings.strs[c] \in [dev : Devices, template : Seq(Pieces)]

BaseInv ==
  /\ StoreInv /\ FetchInv /\ RecordsInv /\ CopyInv
  /\ changed \in BOOLEAN
  /\ restarts \in 0 .. MaxRestarts
  /\ DOMAIN last \subseteq Devices

\* The answer of a device to what a client asks of it.
LEMMA Selected ==
  ASSUME StoreInv, NEW d \in Devices, NEW refs
  PROVE  \A c \in DOMAIN SelectFormatStrings(store[d], refs) :
           /\ c \in FmtCodes
           /\ \E f \in Formats : SelectFormatStrings(store[d], refs)[c] = TemplateStr(f)
BY DEF StoreInv, SelectFormatStrings, FmtCodes

\* The codes that are reported to the strings.
LEMMA NewCodesAre ==
  ASSUME NEW d \in Devices, NEW tree, ShownTree(d, tree), StoreInv, NEW old
  PROVE  NewCodes(old, Report(d, tree)) \subseteq {0} \cup FmtCodes
<1> DEFINE js == Report(d, tree)
<1>1. \A p \in DOMAIN js : js[p].inst.code \in {0} \cup FmtCodes
  BY ReportIs
<1> HIDE DEF js
<1>2. NewCodes(old, js) \subseteq {0} \cup FmtCodes
  BY <1>1 DEF NewCodes
<1>3. QED BY <1>2 DEF js

\* Recorded: codes that have no record yet get one, without a template.
LEMMA ReportedRecords ==
  ASSUME RecordsInv, NEW d \in Devices, NEW codes, codes \subseteq {0} \cup FmtCodes,
         strings' = ReportFormatCodes(strings, d, codes)
  PROVE  RecordsInv'
<1> DEFINE new == codes \ ({0} \cup DOMAIN strings.strs)
<1>1. new \subseteq FmtCodes
  OBVIOUS
<1>2. /\ strings'.need = strings.need \cup new
      /\ strings'.strs = [c \in DOMAIN strings.strs \cup new |->
                            IF c \in new THEN [dev |-> d, template |-> <<>>]
                            ELSE strings.strs[c]]
      /\ strings' = [strs |-> strings'.strs, need |-> strings'.need]
  BY DEF ReportFormatCodes
<1>3. <<>> \in Seq(Pieces)
  OBVIOUS
<1>4. [dev |-> d, template |-> <<>>] \in [dev : Devices, template : Seq(Pieces)]
  BY <1>3
<1> HIDE DEF new
<1>5. QED BY <1>1, <1>2, <1>4 DEF RecordsInv

\* Defined: the records that there are get the templates that came.
LEMMA DefinedRecords ==
  ASSUME RecordsInv, FetchInv, NEW d \in Devices, fetch[d] # NoFetch,
         strings' = UpdateStringDefinitions(strings, fetch[d])
  PROVE  RecordsInv'
<1> DEFINE defs == fetch[d]
<1>1. \A c \in DOMAIN defs : defs[c] \in Seq(Pieces)
  BY TemplateIs DEF FetchInv
<1>2. /\ strings'.need = strings.need \ DOMAIN defs
      /\ strings'.strs = [c \in DOMAIN strings.strs |->
                            IF c \in DOMAIN defs
                            THEN [strings.strs[c] EXCEPT !.template = defs[c]]
                            ELSE strings.strs[c]]
      /\ strings' = [strs |-> strings'.strs, need |-> strings'.need]
  BY DEF UpdateStringDefinitions
<1> HIDE DEF defs
<1>3. ASSUME NEW c \in DOMAIN strings.strs
      PROVE  strings'.strs[c] \in [dev : Devices, template : Seq(Pieces)]
  BY <1>1, <1>2 DEF RecordsInv
<1>4. QED BY <1>2, <1>3 DEF RecordsInv
--------------------------------------------------------------------------------
(***************************************************************************)
(* Steps                                                                   *)
(***************************************************************************)
\* What an update makes of the tree that is reported, and of the other copies.
Updated(d, tree, others) ==
  LET js == Report(d, tree)
      old == OldCopy(d, js)
  IN  /\ copy' = [e \in others \cup {d} |-> IF e = d THEN Merged(old, js) ELSE copy[e]]
      /\ strings' = ReportFormatCodes(strings, d, NewCodes(old, js))
      /\ last' = [e \in DOMAIN last \cup {d} |-> IF e = d THEN tree ELSE last[e]]
      /\ changed' \in BOOLEAN
      /\ UNCHANGED <<store, fetch, restarts>>

\* What it says of a change.
FlagIs(d, tree) ==
  LET js == Report(d, tree)
      old == OldCopy(d, js)
      root == RootOf(js)
  IN  \E luck \in BOOLEAN :
        /\ luck => ~(d \in DOMAIN copy /\ root \in DOMAIN copy[d])
        /\ changed' = (\/ luck
                       \/ Merged(old, js)[root] # old[root]
                       \/ ChildrenChanged(old, js)[root])

\* An update is of a tree that is shown; the other copies stay, if the root does.
LEMMA UpdateIs ==
  ASSUME NEW d \in Devices, UpdateDeviceHealth(d), CopyInv, StoreInv
  PROVE  \E tree \in Trees(d), others \in SUBSET (DOMAIN copy \ {d}) :
           /\ ShownTree(d, tree) /\ Updated(d, tree, others) /\ FlagIs(d, tree)
           /\ "reroot" \notin Env => others = DOMAIN copy \ {d}
<1>1. PICK tree \in Trees(d), luck \in BOOLEAN :
        LET js    == Report(d, tree)
            root  == RootOf(js)
            known == d \in DOMAIN copy /\ root \in DOMAIN copy[d]
            old   == IF known THEN copy[d] ELSE [p \in {root} |-> NewComponent]
            new   == Merged(old, js)
            others == IF d \in DOMAIN copy /\ ~known THEN {} ELSE DOMAIN copy \ {d}
        IN  /\ luck => ~known
            /\ copy' = [e \in others \cup {d} |-> IF e = d THEN new ELSE copy[e]]
            /\ strings' = ReportFormatCodes(strings, d, NewCodes(old, js))
            /\ changed' = (\/ luck
                           \/ new[root] # old[root]
                           \/ ChildrenChanged(old, js)[root])
            /\ last' = [e \in DOMAIN last \cup {d} |-> IF e = d THEN tree ELSE last[e]]
            /\ UNCHANGED <<store, fetch, restarts>>
  BY Zenon DEF UpdateDeviceHealth
<1> DEFINE js    == Report(d, tree)
           root  == RootOf(js)
           known == d \in DOMAIN copy /\ root \in DOMAIN copy[d]
           old   == OldCopy(d, js)
           new   == Merged(old, js)
           others == IF d \in DOMAIN copy /\ ~known THEN {} ELSE DOMAIN copy \ {d}
<1>2. old = IF known THEN copy[d] ELSE [p \in {root} |-> NewComponent]
  BY DEF OldCopy
<1>3. /\ luck => ~known
      /\ copy' = [e \in others \cup {d} |-> IF e = d THEN new ELSE copy[e]]
      /\ strings' = ReportFormatCodes(strings, d, NewCodes(old, js))
      /\ changed' = (\/ luck
                     \/ new[root] # old[root]
                     \/ ChildrenChanged(old, js)[root])
      /\ last' = [e \in DOMAIN last \cup {d} |-> IF e = d THEN tree ELSE last[e]]
      /\ UNCHANGED <<store, fetch, restarts>>
  BY <1>1, <1>2, Zenon
<1>4. changed' \in BOOLEAN
  <2> DEFINE a == new[root] # old[root]
             b == ChildrenChanged(old, js)[root]
  <2>1. changed' = (luck \/ a \/ b)
    BY <1>3
  <2> HIDE DEF a, b
  <2>2. QED BY <2>1
<1>5. ShownTree(d, tree)
  BY TreesShown
<1>6. ASSUME "reroot" \notin Env
      PROVE  others = DOMAIN copy \ {d}
  <2>1. DOMAIN js = DOMAIN tree
    BY DEF Report
  <2>2. Tree(DOMAIN js, Root)
    BY <1>5, <1>6, <2>1 DEF ShownTree
  <2>3. root = <<Root>>
    BY <2>2, RootIs
  <2>4. d \in DOMAIN copy => <<Root>> \in DOMAIN copy[d]
    BY <1>6 DEF CopyInv, Tree
  <2>5. QED BY <2>3, <2>4
<1>7. others \in SUBSET (DOMAIN copy \ {d})
  OBVIOUS
<1>8. Updated(d, tree, others)
  BY <1>3, <1>4 DEF Updated
<1>9. FlagIs(d, tree)
  BY <1>3, Zenon DEF FlagIs
<1> HIDE DEF others
<1>10. QED BY <1>5, <1>6, <1>7, <1>8, <1>9

\* They hold of a client that has heard nothing yet.
LEMMA BaseInit == Init => BaseInv
<1> SUFFICES ASSUME Init PROVE BaseInv
  OBVIOUS
<1>1. DOMAIN copy = {} /\ DOMAIN last = {}
  BY DEF Init
<1>2. RecordsInv
  BY DEF Init, EmptyCache, RecordsInv
<1>3. StoreInv /\ FetchInv
  BY DEF Init, StoreInv, FetchInv
<1>4. CopyInv
  BY <1>1 DEF CopyInv
<1>5. changed \in BOOLEAN /\ restarts \in 0 .. MaxRestarts
  <2>1. MaxRestarts \in Nat
    BY CacheAssumption
  <2>2. changed = FALSE /\ restarts = 0
    BY DEF Init
  <2>3. changed \in BOOLEAN
    BY <2>2
  <2>4. restarts \in 0 .. MaxRestarts
    BY <2>1, <2>2
  <2>5. QED BY <2>3, <2>4
<1>6. QED BY <1>1, <1>2, <1>3, <1>4, <1>5 DEF BaseInv

\* Every step keeps them, under any liberty.
LEMMA BaseStep == BaseInv /\ [Next]_vars => BaseInv'
<1> SUFFICES ASSUME BaseInv, [Next]_vars PROVE BaseInv'
  OBVIOUS
<1> USE DEF BaseInv
<1>1. ASSUME UNCHANGED copy
      PROVE  CopyInv'
  BY <1>1 DEF CopyInv
<1>2. ASSUME UNCHANGED strings
      PROVE  RecordsInv'
  BY <1>2 DEF RecordsInv
<1>3. ASSUME UNCHANGED store
      PROVE  StoreInv'
  BY <1>3 DEF StoreInv
<1>4. ASSUME UNCHANGED fetch
      PROVE  FetchInv'
  BY <1>4 DEF FetchInv
<1>5. ASSUME NEW d \in Devices, NEW defs, fetch' = [fetch EXCEPT ![d] = defs],
             defs # NoFetch => \A c \in DOMAIN defs :
               c \in FmtCodes /\ \E f \in Formats : defs[c] = TemplateStr(f)
      PROVE  FetchInv'
  BY <1>5 DEF FetchInv
<1>6. ASSUME NEW d \in Devices, NEW f \in Formats, RegisterString(d, f)
      PROVE  BaseInv'
  <2>1. /\ Hash[f] \notin DOMAIN store[d]
        /\ store' = [store EXCEPT ![d] = RegisterFormatString(store[d], f)]
        /\ UNCHANGED <<copy, strings, changed, fetch, restarts, last>>
    BY <1>6 DEF RegisterString
  <2>2. \A c \in DOMAIN RegisterFormatString(store[d], f) :
          /\ RegisterFormatString(store[d], f)[c] \in Formats
          /\ Hash[RegisterFormatString(store[d], f)[c]] = c
    BY <2>1 DEF RegisterFormatString, StoreInv
  <2>3. StoreInv'
    BY <2>1, <2>2 DEF StoreInv
  <2>4. QED BY <1>1, <1>2, <1>4, <2>1, <2>3
<1>7. ASSUME NEW d \in Devices, Restart(d)
      PROVE  BaseInv'
  <2>1. /\ restarts < MaxRestarts /\ restarts' = restarts + 1
        /\ store' = [store EXCEPT ![d] = <<>>]
        /\ UNCHANGED <<copy, strings, changed, fetch, last>>
    BY <1>7 DEF Restart
  <2>2. DOMAIN store'[d] = {} /\ \A e \in Devices \ {d} : store'[e] = store[e]
    BY <2>1 DEF StoreInv
  <2>3. store' = [e \in Devices |-> store'[e]]
    BY <2>1 DEF StoreInv
  <2>4. StoreInv'
    BY <2>2, <2>3 DEF StoreInv
  <2>5. restarts' \in 0 .. MaxRestarts
    BY <2>1, CacheAssumption
  <2>6. QED BY <1>1, <1>2, <1>4, <2>1, <2>4, <2>5
<1>8. ASSUME NEW d \in Devices, UpdateDeviceHealth(d)
      PROVE  BaseInv'
  <2>1. PICK tree \in Trees(d), others \in SUBSET (DOMAIN copy \ {d}) :
          ShownTree(d, tree) /\ Updated(d, tree, others)
    BY <1>8, UpdateIs
  <2> DEFINE js == Report(d, tree)
             old == OldCopy(d, js)
             new == Merged(old, js)
  <2>2. /\ copy' = [e \in others \cup {d} |-> IF e = d THEN new ELSE copy[e]]
        /\ strings' = ReportFormatCodes(strings, d, NewCodes(old, js))
        /\ DOMAIN last' = DOMAIN last \cup {d}
        /\ changed' \in BOOLEAN
        /\ UNCHANGED <<store, fetch, restarts>>
    BY <2>1 DEF Updated
  <2>3. /\ \E r \in {Root, OtherRoot} :
             Tree(DOMAIN new, r) /\ ("reroot" \notin Env => r = Root)
        /\ \A p \in DOMAIN new : IsComponent(new[p])
    <3>1. IsMerged(d, js, old, new)
      BY <2>1, MergedIs
    <3>2. QED BY <3>1 DEF IsMerged
  <2>4. NewCodes(old, js) \subseteq {0} \cup FmtCodes
    BY <2>1, NewCodesAre
  <2> HIDE DEF new, old, js
  <2>5. RecordsInv'
    BY <2>2, <2>4, ReportedRecords
  <2>6. CopyInv'
    BY <2>2, <2>3 DEF CopyInv
  <2>7. QED BY <1>3, <1>4, <2>2, <2>5, <2>6
<1>9. ASSUME NEW d \in Devices, RejectDeviceHealth(d)
      PROVE  BaseInv'
  BY <1>1, <1>2, <1>3, <1>4, <1>9 DEF RejectDeviceHealth
<1>10. ASSUME NEW d \in Devices, RequestStrings(d)
       PROVE  BaseInv'
  <2> DEFINE defs == SelectFormatStrings(store[d], UncachedStrRefList(strings, d))
  <2>1. fetch' = [fetch EXCEPT ![d] = defs]
    BY <1>10 DEF RequestStrings
  <2>2. \A c \in DOMAIN defs : c \in FmtCodes /\ \E f \in Formats : defs[c] = TemplateStr(f)
    BY Selected
  <2> HIDE DEF defs
  <2>3. FetchInv'
    BY <1>5, <2>1, <2>2
  <2>4. QED BY <1>1, <1>2, <1>3, <1>10, <2>3 DEF RequestStrings
<1>11. ASSUME NEW d \in Devices, RequestAllStrings(d)
       PROVE  BaseInv'
  <2>1. FetchInv'
    BY <1>5, <1>11, Selected DEF RequestAllStrings, AllFormatStrings
  <2>2. QED BY <1>1, <1>2, <1>3, <1>11, <2>1 DEF RequestAllStrings
<1>12. ASSUME NEW d \in Devices, DefineStrings(d)
       PROVE  BaseInv'
  <2>1. FetchInv' /\ RecordsInv'
    BY <1>5, <1>12, DefinedRecords DEF DefineStrings
  <2>2. QED BY <1>1, <1>3, <1>12, <2>1 DEF DefineStrings
<1>13. ASSUME NEW d \in Devices, LoseStrings(d)
       PROVE  BaseInv'
  <2>1. FetchInv'
    BY <1>5, <1>13 DEF LoseStrings
  <2>2. QED BY <1>1, <1>2, <1>3, <1>13, <2>1 DEF LoseStrings
<1>14. CASE UNCHANGED vars
  BY <1>1, <1>2, <1>3, <1>4, <1>14 DEF vars
<1>15. QED
  BY <1>6, <1>7, <1>8, <1>9, <1>10, <1>11, <1>12, <1>13, <1>14 DEF Next

\* So they hold throughout.
LEMMA BaseInvariant == Spec => []BaseInv
<1>1. QED BY BaseInit, BaseStep, PTL DEF Spec
--------------------------------------------------------------------------------
(***************************************************************************)
(* Codes                                                                   *)
(***************************************************************************)
\* A component whose code is not reported had it in the old copy, or has none.
LEMMA CodeReported ==
  ASSUME NEW d \in Devices, NEW tree, ShownTree(d, tree), StoreInv,
         NEW p \in DOMAIN Report(d, tree)
  PROVE  LET js == Report(d, tree)
             code == js[p].inst.code
         IN  \/ code \in {0} \cup NewCodes(OldCopy(d, js), js)
             \/ d \in DOMAIN copy /\ p \in DOMAIN copy[d] /\ copy[d][p].inst.code = code
<1> DEFINE js == Report(d, tree)
           old == OldCopy(d, js)
           was == (IF p \in DOMAIN old THEN old[p] ELSE NewComponent).inst
<1>1. CASE js[p].inst # was
  BY <1>1 DEF NewCodes
<1>2. CASE js[p].inst = was
  <2>1. NewComponent.inst.code = 0
    BY DEF NewComponent, Cleared
  <2>2. p \in DOMAIN old =>
          \/ old[p] = NewComponent
          \/ d \in DOMAIN copy /\ p \in DOMAIN copy[d] /\ old[p] = copy[d][p]
    BY DEF OldCopy
  <2> HIDE DEF old, js
  <2>3. QED BY <1>2, <2>1, <2>2 DEF js
<1>3. QED BY <1>1, <1>2

\* A code is recorded in the step that puts it into a copy.
LEMMA TrackStep ==
  ASSUME <<>> \notin Formats
  PROVE  BaseInv /\ CodesTracked /\ [Next]_vars => CodesTracked'
<1> SUFFICES ASSUME BaseInv, CodesTracked, [Next]_vars PROVE CodesTracked'
  OBVIOUS
<1> USE DEF BaseInv
<1>1. ASSUME NEW d \in Devices, UpdateDeviceHealth(d)
      PROVE  CodesTracked'
  <2>1. PICK tree \in Trees(d), others \in SUBSET (DOMAIN copy \ {d}) :
          ShownTree(d, tree) /\ Updated(d, tree, others)
    BY <1>1, UpdateIs
  <2> DEFINE js == Report(d, tree)
             old == OldCopy(d, js)
             new == Merged(old, js)
             codes == NewCodes(old, js)
             fresh == codes \ ({0} \cup DOMAIN strings.strs)
  <2>2. /\ copy' = [e \in others \cup {d} |-> IF e = d THEN new ELSE copy[e]]
        /\ strings' = ReportFormatCodes(strings, d, codes)
    BY <2>1 DEF Updated
  <2>3. IsMerged(d, js, old, new)
    BY <2>1, MergedIs
  <2>4. \A p \in DOMAIN js :
          \/ js[p].inst.code \in {0} \cup codes
          \/ d \in DOMAIN copy /\ p \in DOMAIN copy[d]
             /\ copy[d][p].inst.code = js[p].inst.code
    BY <2>1, CodeReported
  <2> HIDE DEF new, codes, js
  <2>5. /\ strings'.need = strings.need \cup fresh
        /\ strings'.strs = [c \in DOMAIN strings.strs \cup fresh |->
                              IF c \in fresh THEN [dev |-> d, template |-> <<>>]
                              ELSE strings.strs[c]]
    BY <2>2 DEF ReportFormatCodes
  <2>6. {0} \cup codes \subseteq {0} \cup DOMAIN strings'.strs
        /\ DOMAIN strings.strs \subseteq DOMAIN strings'.strs
    BY <2>5
  <2>7. ASSUME NEW p \in DOMAIN new
        PROVE  new[p].inst.code \in {0} \cup DOMAIN strings'.strs
    <3>1. CASE p \in DOMAIN js
      <4>1. new[p].inst = js[p].inst
        BY <2>3, <3>1 DEF IsMerged
      <4>2. QED BY <2>4, <2>6, <3>1, <4>1 DEF CodesTracked
    <3>2. CASE p \notin DOMAIN js
      <4>1. d \in DOMAIN copy /\ p \in DOMAIN copy[d] /\ new[p] = copy[d][p]
        BY <2>3, <2>7, <3>2 DEF IsMerged
      <4>2. QED BY <2>6, <4>1 DEF CodesTracked
    <3>3. QED BY <3>1, <3>2
  <2>8. \A e \in DOMAIN copy' : \A p \in DOMAIN copy'[e] :
          copy'[e][p].inst.code \in {0} \cup DOMAIN strings'.strs
    BY <2>2, <2>6, <2>7 DEF CodesTracked
  <2>9. \A c \in DOMAIN strings'.strs :
          c \in strings'.need <=> strings'.strs[c].template = <<>>
    <3> HIDE DEF fresh
    <3>1. fresh \cap DOMAIN strings.strs = {}
      BY DEF fresh
    <3>2. QED BY <2>5, <3>1 DEF CodesTracked, RecordsInv
  <2>10. QED BY <2>8, <2>9 DEF CodesTracked
<1>2. ASSUME NEW d \in Devices, DefineStrings(d)
      PROVE  CodesTracked'
  <2> DEFINE defs == fetch[d]
  <2>1. /\ strings' = UpdateStringDefinitions(strings, defs) /\ defs # NoFetch
        /\ copy' = copy
    BY <1>2 DEF DefineStrings
  <2>2. \A c \in DOMAIN defs : defs[c] # <<>>
    BY <2>1, TemplateIs DEF FetchInv
  <2> HIDE DEF defs
  <2>3. /\ strings'.need = strings.need \ DOMAIN defs
        /\ strings'.strs = [c \in DOMAIN strings.strs |->
                              IF c \in DOMAIN defs
                              THEN [strings.strs[c] EXCEPT !.template = defs[c]]
                              ELSE strings.strs[c]]
    BY <2>1 DEF UpdateStringDefinitions
  <2>4. DOMAIN strings'.strs = DOMAIN strings.strs
    BY <2>3
  <2>5. \A c \in DOMAIN strings.strs :
          strings'.strs[c].template =
            IF c \in DOMAIN defs THEN defs[c] ELSE strings.strs[c].template
    BY <2>3 DEF RecordsInv
  <2>6. QED BY <2>1, <2>2, <2>3, <2>4, <2>5 DEF CodesTracked
<1>3. ASSUME NEW d \in Devices,
             \/ \E f \in Formats : RegisterString(d, f)
             \/ Restart(d) \/ RejectDeviceHealth(d) \/ RequestStrings(d)
             \/ RequestAllStrings(d) \/ LoseStrings(d)
      PROVE  CodesTracked'
  <2>1. UNCHANGED <<copy, strings>>
    BY <1>3 DEF RegisterString, Restart, RejectDeviceHealth, RequestStrings,
       RequestAllStrings, LoseStrings
  <2>2. QED BY <2>1 DEF CodesTracked
<1>4. CASE UNCHANGED vars
  BY <1>4 DEF vars, CodesTracked
<1>5. QED BY <1>1, <1>2, <1>3, <1>4 DEF Next

\* Every code that a cached component refers to has a record, and the client asks for
\* just those whose templates it has not: whatever devices report and restart, in
\* whatever order answers come, are lost, or are to what others have asked.
THEOREM CodesAreTracked ==
  ASSUME <<>> \notin Formats
  PROVE  Spec => []CodesTracked
<1>1. Init => CodesTracked
  <2> SUFFICES ASSUME Init PROVE CodesTracked
    OBVIOUS
  <2>1. DOMAIN copy = {} /\ DOMAIN strings.strs = {}
    BY DEF Init, EmptyCache
  <2>2. QED BY <2>1 DEF CodesTracked
<1>2. QED BY <1>1, BaseInvariant, TrackStep, PTL DEF Spec
--------------------------------------------------------------------------------
(***************************************************************************)
(* Copies                                                                  *)
(***************************************************************************)
\* What is kept, and not reported, hangs below a component reported without children.
LEMMA KeptBelow ==
  ASSUME NEW old, NEW js, NEW r, Tree(DOMAIN old, r), Tree(DOMAIN js, r),
         NEW q \in Kept(old, js), q \notin DOMAIN js
  PROVE  \E n \in 1 .. (Len(q) - 1) :
           PathOf(q, n) \in DOMAIN js /\ ChildrenOf(DOMAIN js, PathOf(q, n)) = {}
<1>1. q \in Seq(Nat) /\ q # <<>> /\ Head(q) = r /\ <<r>> \in DOMAIN js
  BY DEF Kept, Tree
<1>2. Len(q) \in Nat /\ Len(q) >= 1 /\ q[1] = r
  BY <1>1
<1>3. PathOf(q, 1) = <<r>>
  <2>1. PathOf(q, 1) \in Seq(Nat) /\ Len(PathOf(q, 1)) = 1 /\ PathOf(q, 1)[1] = r
    BY <1>1, <1>2, Prefix
  <2>2. \A s \in Seq(Nat) : Len(s) = 1 => s = <<s[1]>>
    OBVIOUS
  <2>3. QED BY <2>1, <2>2
<1>4. PathOf(q, Len(q)) = q
  BY <1>1 DEF PathOf
<1> DEFINE T == {n \in 1 .. Len(q) : PathOf(q, n) \notin DOMAIN js}
<1>5. T \subseteq Nat /\ Len(q) \in T
  BY <1>2, <1>4
<1>6. PICK x \in T : \A y \in T : x <= y
  <2> HIDE DEF T
  <2>1. QED BY <1>5, LeastNumber
<1>7. x \in 2 .. Len(q) /\ PathOf(q, x) \notin DOMAIN js
  BY <1>1, <1>2, <1>3, <1>6
<1>8. x - 1 \in 1 .. (Len(q) - 1) /\ PathOf(q, x - 1) \in DOMAIN js
  BY <1>2, <1>6, <1>7
<1>9. ChildrenOf(DOMAIN js, PathOf(q, x - 1)) = {}
  <2>1. (x - 1) + 1 = x
    BY <1>7
  <2>2. QED BY <1>7, <1>8, <2>1 DEF Kept
<1>10. QED BY <1>8, <1>9

\* A device's part of CopyFollowsReports.
Follows(tree, held) ==
  /\ \A p \in DOMAIN tree :
       p \in DOMAIN held /\ held[p].status = tree[p].status
                         /\ held[p].inst = InstanceOf(tree[p].msg)
  /\ \A q \in DOMAIN held \ DOMAIN tree :
       \E n \in 1 .. (Len(q) - 1) : Childless(tree, PathOf(q, n))

\* A copy follows the report it is merged with.
LEMMA MergedFollows ==
  ASSUME NoCollision, NEW d \in Devices, NEW tree, ShownTree(d, tree), StoreInv, CopyInv
  PROVE  Follows(tree, Merged(OldCopy(d, Report(d, tree)), Report(d, tree)))
<1> DEFINE js == Report(d, tree)
           old == OldCopy(d, js)
           new == Merged(old, js)
<1>1. /\ DOMAIN js = DOMAIN tree
      /\ \A p \in DOMAIN js :
           js[p].status = tree[p].status /\ js[p].inst = InstanceOf(tree[p].msg)
  BY ReportIs
<1>2. /\ DOMAIN new = DOMAIN js \cup Kept(old, js)
      /\ \A p \in DOMAIN js : new[p] = [status |-> js[p].status, inst |-> js[p].inst]
  <2>1. IsMerged(d, js, old, new)
    BY MergedIs
  <2> HIDE DEF js, old, new
  <2>2. QED BY <2>1 DEF IsMerged
<1>3. PICK r \in {Root, OtherRoot} : Tree(DOMAIN js, r)
  BY <1>1 DEF ShownTree
<1>4. Tree(DOMAIN old, r)
  <2> HIDE DEF js
  <2>1. QED BY <1>3, OldCopyIs
<1> HIDE DEF new, old, js
<1>5. \A p \in DOMAIN tree :
        p \in DOMAIN new /\ new[p].status = tree[p].status
                         /\ new[p].inst = InstanceOf(tree[p].msg)
  BY <1>1, <1>2
<1>6. ASSUME NEW q \in DOMAIN new \ DOMAIN tree
      PROVE  \E n \in 1 .. (Len(q) - 1) : Childless(tree, PathOf(q, n))
  <2>1. q \in Kept(old, js) /\ q \notin DOMAIN js
    BY <1>1, <1>2, <1>6
  <2>2. PICK n \in 1 .. (Len(q) - 1) :
          PathOf(q, n) \in DOMAIN js /\ ChildrenOf(DOMAIN js, PathOf(q, n)) = {}
    BY <1>3, <1>4, <2>1, KeptBelow
  <2>3. Childless(tree, PathOf(q, n))
    BY <1>1, <2>2 DEF Childless
  <2>4. QED BY <2>3
<1>7. Follows(tree, new)
  BY <1>5, <1>6 DEF Follows
<1>8. QED BY <1>7 DEF new, old, js

FollowInv == \A d \in DOMAIN last : d \in DOMAIN copy /\ Follows(last[d], copy[d])

\* Only an update of the device itself changes its copy and its last report.
LEMMA FollowStep ==
  ASSUME NoCollision, "reroot" \notin Env
  PROVE  BaseInv /\ FollowInv /\ [Next]_vars => FollowInv'
<1> SUFFICES ASSUME BaseInv, FollowInv, [Next]_vars PROVE FollowInv'
  OBVIOUS
<1> USE DEF BaseInv
<1>1. ASSUME NEW d \in Devices, UpdateDeviceHealth(d)
      PROVE  FollowInv'
  <2>1. PICK tree \in Trees(d), others \in SUBSET (DOMAIN copy \ {d}) :
          ShownTree(d, tree) /\ Updated(d, tree, others) /\ others = DOMAIN copy \ {d}
    BY <1>1, UpdateIs
  <2> DEFINE new == Merged(OldCopy(d, Report(d, tree)), Report(d, tree))
  <2>2. /\ copy' = [e \in DOMAIN copy \cup {d} |-> IF e = d THEN new ELSE copy[e]]
        /\ last' = [e \in DOMAIN last \cup {d} |-> IF e = d THEN tree ELSE last[e]]
    BY <2>1 DEF Updated
  <2>3. Follows(tree, new)
    BY <2>1, MergedFollows
  <2> HIDE DEF new
  <2>4. ASSUME NEW e \in DOMAIN last'
        PROVE  e \in DOMAIN copy' /\ Follows(last'[e], copy'[e])
    BY <2>2, <2>3 DEF FollowInv
  <2>5. QED BY <2>4 DEF FollowInv, Follows, Childless, ChildrenOf, PathOf
<1>2. ASSUME UNCHANGED <<copy, last>>
      PROVE  FollowInv'
  BY <1>2 DEF FollowInv, Follows, Childless, ChildrenOf, PathOf
<1>3. ASSUME NEW d \in Devices,
             \/ \E f \in Formats : RegisterString(d, f)
             \/ Restart(d) \/ RejectDeviceHealth(d) \/ RequestStrings(d)
             \/ RequestAllStrings(d) \/ DefineStrings(d) \/ LoseStrings(d)
      PROVE  FollowInv'
  <2>1. UNCHANGED <<copy, last>>
    BY <1>3 DEF RegisterString, Restart, RejectDeviceHealth, RequestStrings,
       RequestAllStrings, DefineStrings, LoseStrings
  <2>2. QED BY <1>2, <2>1
<1>4. CASE UNCHANGED vars
  BY <1>2, <1>4 DEF vars
<1>5. QED BY <1>1, <1>3, <1>4 DEF Next

\* Whatever trees a device shows one after another, and whatever the others do, its copy
\* is what it last reported, but for what hangs below a component that was reported
\* without children. Two format strings with one code would break this, and so would a
\* device that changed the ID of its root.
THEOREM CopiesFollow ==
  ASSUME NoCollision, "reroot" \notin Env
  PROVE  Spec => []CopyFollowsReports
<1>1. Init => FollowInv
  <2>1. Init => DOMAIN last = {}
    BY DEF Init
  <2>2. QED BY <2>1 DEF FollowInv
<1>2. FollowInv => CopyFollowsReports
  BY DEF FollowInv, CopyFollowsReports, Follows, InstanceOf
<1>3. QED BY <1>1, <1>2, BaseInvariant, FollowStep, PTL DEF Spec
--------------------------------------------------------------------------------
(***************************************************************************)
(* Types                                                                   *)
(***************************************************************************)
\* A copy holds what its device can show.
ShownValue(d, c) == c.status \in Statuses(d) /\ c.inst.params \in Seq(Seq(STRING))

ValueInv == \A d \in DOMAIN copy : \A p \in DOMAIN copy[d] : ShownValue(d, copy[d][p])

\* What an update does not report, it takes from the copy of the same device.
LEMMA ValueStep ==
  ASSUME NoCollision
  PROVE  BaseInv /\ ValueInv /\ [Next]_vars => ValueInv'
<1> SUFFICES ASSUME BaseInv, ValueInv, [Next]_vars PROVE ValueInv'
  OBVIOUS
<1> USE DEF BaseInv
<1>1. ASSUME NEW d \in Devices, UpdateDeviceHealth(d)
      PROVE  ValueInv'
  <2>1. PICK tree \in Trees(d), others \in SUBSET (DOMAIN copy \ {d}) :
          ShownTree(d, tree) /\ Updated(d, tree, others)
    BY <1>1, UpdateIs
  <2> DEFINE js == Report(d, tree)
             old == OldCopy(d, js)
             new == Merged(old, js)
  <2>2. copy' = [e \in others \cup {d} |-> IF e = d THEN new ELSE copy[e]]
    BY <2>1 DEF Updated
  <2>3. IsMerged(d, js, old, new)
    BY <2>1, MergedIs
  <2>4. \A p \in DOMAIN js : js[p].status \in Statuses(d)
                             /\ js[p].inst.params \in Seq(Seq(STRING))
    BY <2>1, ReportIs
  <2> HIDE DEF new, old, js
  <2>5. ASSUME NEW p \in DOMAIN new
        PROVE  ShownValue(d, new[p])
    <3>1. CASE p \in DOMAIN js
      <4>1. new[p].status = js[p].status /\ new[p].inst = js[p].inst
        BY <2>3, <3>1 DEF IsMerged
      <4>2. QED BY <2>4, <3>1, <4>1 DEF ShownValue
    <3>2. CASE p \notin DOMAIN js
      BY <2>3, <2>5, <3>2 DEF IsMerged, ValueInv
    <3>3. QED BY <3>1, <3>2
  <2>6. \A e \in DOMAIN copy' : \A p \in DOMAIN copy'[e] : ShownValue(e, copy'[e][p])
    BY <2>2, <2>5 DEF ValueInv
  <2>7. QED BY <2>6 DEF ValueInv, ShownValue, Statuses
<1>2. ASSUME UNCHANGED copy
      PROVE  ValueInv'
  BY <1>2 DEF ValueInv, ShownValue, Statuses
<1>3. ASSUME NEW d \in Devices,
             \/ \E f \in Formats : RegisterString(d, f)
             \/ Restart(d) \/ RejectDeviceHealth(d) \/ RequestStrings(d)
             \/ RequestAllStrings(d) \/ DefineStrings(d) \/ LoseStrings(d)
      PROVE  ValueInv'
  <2>1. UNCHANGED copy
    BY <1>3 DEF RegisterString, Restart, RejectDeviceHealth, RequestStrings,
       RequestAllStrings, DefineStrings, LoseStrings
  <2>2. QED BY <1>2, <2>1
<1>4. CASE UNCHANGED vars
  BY <1>2, <1>4 DEF vars
<1>5. QED BY <1>1, <1>3, <1>4 DEF Next

\* Copies are trees of what devices show, no component without the one above it, and
\* records have templates with a hole for each conversion, whatever is deleted in
\* between. With two format strings of one code, an instance could lack parameters.
THEOREM TypeCorrect ==
  ASSUME NoCollision
  PROVE  Spec => []TypeOK
<1>1. Init => ValueInv
  <2>1. Init => DOMAIN copy = {}
    BY DEF Init
  <2>2. QED BY <2>1 DEF ValueInv
<1>2. BaseInv /\ ValueInv => TypeOK
  <2> SUFFICES ASSUME BaseInv, ValueInv PROVE TypeOK
    OBVIOUS
  <2>1. ASSUME NEW d \in DOMAIN copy
        PROVE  /\ PrefixClosed(DOMAIN copy[d])
               /\ \A p \in DOMAIN copy[d] : copy[d][p] \in Components(d)
    <3>1. PrefixClosed(DOMAIN copy[d])
      BY TreeClosed DEF BaseInv, CopyInv
    <3>2. ASSUME NEW p \in DOMAIN copy[d]
          PROVE  copy[d][p] \in Components(d)
      <4> DEFINE c == copy[d][p]
                 i == c.inst
      <4>1. IsComponent(c) /\ ShownValue(d, c)
        BY DEF BaseInv, CopyInv, ValueInv
      <4> HIDE DEF c
      <4>2. [code |-> i.code, params |-> i.params] \in Instances
        BY <4>1 DEF IsComponent, ShownValue, Instances
      <4>3. c \in Components(d)
        BY <4>1, <4>2 DEF IsComponent, ShownValue, Components
      <4>4. QED BY <4>3 DEF c
    <3>3. QED BY <3>1, <3>2
  <2>2. \A d \in Devices : /\ \A c \in DOMAIN store[d] : store[d][c] \in Formats
                            /\ fetch[d] # NoFetch => DOMAIN fetch[d] \subseteq FmtCodes
    BY DEF BaseInv, StoreInv, FetchInv
  <2>3. QED BY <2>1, <2>2 DEF TypeOK, BaseInv, CopyInv, RecordsInv
<1>3. QED BY <1>1, <1>2, BaseInvariant, ValueStep, PTL DEF Spec
--------------------------------------------------------------------------------
(***************************************************************************)
(* Changes. `changed` is collected over the recursion of the handlers; a   *)
(* report is finite, so that the recursion has a result, and a statement   *)
(* about it is proved from the deepest components up.                      *)
(***************************************************************************)
\* A measure has a greatest value on a finite set.
LEMMA Greatest ==
  ASSUME NEW S, IsFiniteSet(S), S # {}, NEW m \in [S -> Nat]
  PROVE  \E x \in S : \A y \in S : m[y] <= m[x]
<1> DEFINE HasMax(U) == \E x \in U : \A y \in U : m[y] <= m[x]
           Bad(n) == \E U \in SUBSET S : U # {} /\ Cardinality(U) = n /\ ~HasMax(U)
           T == {n \in Nat : Bad(n)}
<1>1. ASSUME NEW n \in T, \A k \in T : n <= k
      PROVE  FALSE
  <2>1. PICK U \in SUBSET S : U # {} /\ Cardinality(U) = n /\ ~HasMax(U)
    BY <1>1
  <2>2. PICK x \in U : TRUE
    BY <2>1
  <2> DEFINE V == U \ {x}
  <2>3. IsFiniteSet(U) /\ n \in Nat
    BY <1>1, FS_Subset
  <2>4. V \in SUBSET S /\ IsFiniteSet(V) /\ Cardinality(V) = n - 1
    BY <2>1, <2>2, <2>3, FS_RemoveElement
  <2>5. Cardinality(V) \in Nat
    BY <2>4, FS_CardinalityType
  <2>6. n - 1 \notin T
    <3> HIDE DEF T, V
    <3>1. QED BY <1>1, <2>3, <2>4
  <2>7. V = {} \/ HasMax(V)
    <3> HIDE DEF V, HasMax
    <3>1. QED BY <2>4, <2>5, <2>6
  <2>8. CASE V = {}
    <3>1. U = {x}
      BY <2>2, <2>8
    <3>2. m[x] <= m[x]
      BY <2>2
    <3>3. QED BY <2>1, <3>1, <3>2
  <2>9. CASE HasMax(V)
    <3>1. PICK z \in V : \A y \in V : m[y] <= m[z]
      BY <2>9
    <3>2. m[x] \in Nat /\ m[z] \in Nat /\ \A y \in U : m[y] \in Nat
      BY <2>2, <3>1
    <3>3. CASE m[x] <= m[z]
      <4>1. \A y \in U : m[y] <= m[z]
        BY <3>1, <3>3
      <4>2. QED BY <2>1, <3>1, <4>1
    <3>4. CASE ~(m[x] <= m[z])
      <4>1. \A y \in U : m[y] <= m[x]
        BY <3>1, <3>2, <3>4
      <4>2. QED BY <2>1, <2>2, <4>1
    <3>5. QED BY <3>3, <3>4
  <2>10. QED BY <2>7, <2>8, <2>9
<1>2. T = {}
  <2>1. T \subseteq Nat
    OBVIOUS
  <2> HIDE DEF T
  <2>2. QED BY <1>1, <2>1, LeastNumber
<1>3. Cardinality(S) \in Nat /\ Cardinality(S) \notin T
  BY <1>2, FS_CardinalityType
<1>4. HasMax(S)
  <2> HIDE DEF HasMax
  <2>1. QED BY <1>3
<1>5. QED BY <1>4

\* The child whose flag is assigned last.
LastOf(kids) == CHOOSE q \in kids : \A r \in kids : r[Len(r)] <= q[Len(q)]

\* A component with children has a last one.
LEMMA LastIs ==
  ASSUME NEW kids, IsFiniteSet(kids), kids # {}, kids \subseteq Seq(Nat) \ {<<>>}
  PROVE  LastOf(kids) \in kids
<1> DEFINE m == [q \in kids |-> q[Len(q)]]
<1>1. m \in [kids -> Nat]
  OBVIOUS
<1>2. PICK q \in kids : \A r \in kids : m[r] <= m[q]
  <2> HIDE DEF m
  <2>1. QED BY <1>1, Greatest
<1>3. \A r \in kids : r[Len(r)] <= q[Len(q)]
  BY <1>2
<1>4. QED BY <1>3 DEF LastOf

\* The flag of a component, from those of its children.
DiffersAt(old, js, p, below) ==
  LET kids == ChildrenOf(DOMAIN js, p)
      q    == LastOf(kids)
  IN  /\ kids # {}
      /\ \/ ~ ChildrenOf(DOMAIN old, p) \subseteq kids
         \/ q \notin DOMAIN old
         \/ ComponentUpdate(old[q], js[q]) # old[q]
         \/ below[q]

\* It depends on them alone.
LEMMA DiffersBelow ==
  ASSUME NEW old, NEW js, IsFiniteSet(DOMAIN js), DOMAIN js \subseteq Seq(Nat) \ {<<>>},
         NEW p, NEW f, NEW g, \A q \in ChildrenOf(DOMAIN js, p) : f[q] = g[q]
  PROVE  DiffersAt(old, js, p, f) = DiffersAt(old, js, p, g)
<1> DEFINE kids == ChildrenOf(DOMAIN js, p)
<1>1. kids # {} => LastOf(kids) \in kids
  <2>1. kids \subseteq DOMAIN js
    BY DEF ChildrenOf
  <2>2. IsFiniteSet(kids)
    BY <2>1, FS_Subset
  <2> HIDE DEF kids
  <2>3. QED BY <2>1, <2>2, LastIs
<1>2. kids # {} => f[LastOf(kids)] = g[LastOf(kids)]
  BY <1>1
<1>3. QED BY <1>2 DEF DiffersAt

\* The paths of a report have a greatest length.
LEMMA Depth ==
  ASSUME NEW paths, IsFiniteSet(paths), paths # {}, paths \subseteq Seq(Nat)
  PROVE  \E top \in Nat : \A p \in paths : Len(p) <= top
<1> DEFINE m == [q \in paths |-> Len(q)]
<1>1. m \in [paths -> Nat]
  OBVIOUS
<1>2. PICK q \in paths : \A r \in paths : m[r] <= m[q]
  <2> HIDE DEF m
  <2>1. QED BY <1>1, Greatest
<1>3. QED BY <1>1, <1>2

\* The recursion over a report has a result.
LEMMA ChangedExists ==
  ASSUME NEW old, NEW js, IsFiniteSet(DOMAIN js), DOMAIN js # {},
         DOMAIN js \subseteq Seq(Nat) \ {<<>>}
  PROVE  \E f : f = [p \in DOMAIN js |-> DiffersAt(old, js, p, f)]
<1>1. PICK top \in Nat : \A p \in DOMAIN js : Len(p) <= top
  BY Depth
<1> DEFINE Low(n) == {p \in DOMAIN js : Len(p) > top - n}
           Solves(f, n) == f = [p \in Low(n) |-> DiffersAt(old, js, p, f)]
           T == {n \in Nat : ~ \E f : Solves(f, n)}
<1>2. \A p \in DOMAIN js : Len(p) \in Nat /\ Len(p) > 0
  OBVIOUS
<1>3. ASSUME NEW n \in T, \A k \in T : n <= k
      PROVE  FALSE
  <2>1. n \in Nat /\ ~ \E f : Solves(f, n)
    BY <1>3
  <2>2. CASE n = 0
    <3>1. Low(0) = {}
      BY <1>1, <1>2
    <3>2. Solves([p \in {} |-> TRUE], 0)
      BY <3>1
    <3>3. QED BY <2>1, <2>2, <3>2
  <2>3. CASE n # 0
    <3>1. n - 1 \in Nat /\ ~(n <= n - 1)
      BY <2>1, <2>3
    <3>2. n - 1 \notin T
      <4> HIDE DEF T
      <4>1. QED BY <1>3, <3>1
    <3>3. PICK g : Solves(g, n - 1)
      <4> HIDE DEF Solves
      <4>1. QED BY <3>1, <3>2
    <3> DEFINE f == [p \in Low(n) |-> IF p \in Low(n - 1) THEN g[p]
                                      ELSE DiffersAt(old, js, p, g)]
    <3>4. Low(n - 1) \subseteq Low(n)
      BY <1>2, <2>1
    <3>5. ASSUME NEW p \in Low(n)
          PROVE  f[p] = DiffersAt(old, js, p, f)
      <4>1. \A q \in ChildrenOf(DOMAIN js, p) : q \in Low(n - 1)
        BY <1>2, <2>1 DEF ChildrenOf
      <4>2. \A q \in ChildrenOf(DOMAIN js, p) : f[q] = g[q]
        <5> HIDE DEF Low
        <5>1. QED BY <3>4, <4>1
      <4>3. DiffersAt(old, js, p, f) = DiffersAt(old, js, p, g)
        <5> HIDE DEF f, Low
        <5>1. QED BY <4>2, DiffersBelow
      <4>4. f[p] = DiffersAt(old, js, p, g)
        <5>1. f[p] = IF p \in Low(n - 1) THEN g[p] ELSE DiffersAt(old, js, p, g)
          OBVIOUS
        <5>2. p \in Low(n - 1) => g[p] = DiffersAt(old, js, p, g)
          <6> HIDE DEF Low
          <6>1. QED BY <3>3
        <5> HIDE DEF f, Low
        <5>3. QED BY <5>1, <5>2
      <4>5. QED BY <4>3, <4>4
    <3>6. Solves(f, n)
      <4>1. f = [p \in Low(n) |-> f[p]]
        OBVIOUS
      <4> HIDE DEF f, Low
      <4>2. QED BY <3>5, <4>1
    <3> HIDE DEF f, Solves
    <3>7. QED BY <2>1, <3>6
  <2>4. QED BY <2>2, <2>3
<1>4. T = {}
  <2>1. T \subseteq Nat
    OBVIOUS
  <2> HIDE DEF T
  <2>2. QED BY <1>3, <2>1, LeastNumber
<1>5. PICK f : Solves(f, top)
  <2> HIDE DEF Solves
  <2>1. QED BY <1>4
<1>6. Low(top) = DOMAIN js
  <2>1. top - top = 0
    OBVIOUS
  <2>2. QED BY <1>2, <2>1
<1>7. QED BY <1>5, <1>6

\* What the handlers return of a component, they compute from its children.
LEMMA ChangedIs ==
  ASSUME NEW old, NEW js, IsFiniteSet(DOMAIN js), DOMAIN js # {},
         DOMAIN js \subseteq Seq(Nat) \ {<<>>}
  PROVE  \A p \in DOMAIN js :
           ChildrenChanged(old, js)[p] = DiffersAt(old, js, p, ChildrenChanged(old, js))
<1> DEFINE D == CHOOSE f : f = [p \in DOMAIN js |-> DiffersAt(old, js, p, f)]
<1>1. ChildrenChanged(old, js) = D
  BY DEF ChildrenChanged, DiffersAt, LastOf
<1>2. D = [p \in DOMAIN js |-> DiffersAt(old, js, p, D)]
  BY ChangedExists
<1> HIDE DEF D
<1>3. \A p \in DOMAIN js : D[p] = DiffersAt(old, js, p, D)
  BY <1>2
<1>4. QED BY <1>1, <1>3

\* What the handlers can be asked about: a copy and a report with the same root.
Compared(old, js) ==
  /\ IsFiniteSet(DOMAIN js)
  /\ \E r \in {Root, OtherRoot} : Tree(DOMAIN old, r) /\ Tree(DOMAIN js, r)

\* A report has children enough for ChangedIs, and children of a component a last one.
LEMMA ChildrenAre ==
  ASSUME NEW old, NEW js, Compared(old, js)
  PROVE  /\ \A p \in DOMAIN js :
              ChildrenChanged(old, js)[p] = DiffersAt(old, js, p, ChildrenChanged(old, js))
         /\ \A p : ChildrenOf(DOMAIN js, p) # {} =>
              LastOf(ChildrenOf(DOMAIN js, p)) \in ChildrenOf(DOMAIN js, p)
<1>1. IsFiniteSet(DOMAIN js) /\ DOMAIN js # {} /\ DOMAIN js \subseteq Seq(Nat) \ {<<>>}
  BY DEF Compared, Tree
<1>2. ASSUME NEW p, ChildrenOf(DOMAIN js, p) # {}
      PROVE  LastOf(ChildrenOf(DOMAIN js, p)) \in ChildrenOf(DOMAIN js, p)
  <2> DEFINE kids == ChildrenOf(DOMAIN js, p)
  <2>1. kids \subseteq DOMAIN js
    BY DEF ChildrenOf
  <2>2. IsFiniteSet(kids)
    BY <1>1, <2>1, FS_Subset
  <2>3. kids # {}
    BY <1>2
  <2> HIDE DEF kids
  <2>4. LastOf(kids) \in kids
    BY <1>1, <2>1, <2>2, <2>3, LastIs
  <2>5. QED BY <2>4 DEF kids
<1>3. QED BY <1>1, <1>2, ChangedIs

\* A child that is not reported, next to one that is, is not in the copy any more.
LEMMA NotKept ==
  ASSUME NEW old, NEW js, Compared(old, js), NEW p \in DOMAIN js,
         ChildrenOf(DOMAIN js, p) # {},
         NEW x \in ChildrenOf(DOMAIN old, p), x \notin ChildrenOf(DOMAIN js, p)
  PROVE  x \in DOMAIN old /\ x \notin DOMAIN Merged(old, js)
<1>1. /\ x \in DOMAIN old /\ x \in Seq(Nat) /\ Len(x) = Len(p) + 1 /\ Front(x) = p
      /\ p \in Seq(Nat) /\ p # <<>>
  BY DEF Compared, Tree, ChildrenOf
<1>2. Len(p) \in Nat /\ Len(p) > 0 /\ Len(x) > 1 /\ Len(p) = Len(x) - 1
  BY <1>1
<1>3. PathOf(x, Len(p)) = p /\ PathOf(x, Len(p) + 1) = x
  BY <1>1, <1>2, AbovePrefix
<1>4. x \notin DOMAIN js
  BY <1>1 DEF ChildrenOf
<1>5. Len(p) \in 1 .. (Len(x) - 1)
  BY <1>1, <1>2
<1>6. x \notin Kept(old, js)
  BY <1>3, <1>4, <1>5 DEF Kept
<1>7. QED BY <1>1, <1>4, <1>6 DEF Merged

\* A flag that is set has a component that is new, gone or not as it was.
LEMMA FlagHasCause ==
  ASSUME NEW old, NEW js, Compared(old, js), Merged(old, js) = old
  PROVE  \A p \in DOMAIN js : ~ChildrenChanged(old, js)[p]
<1> DEFINE D == ChildrenChanged(old, js)
           m == [p \in DOMAIN js |-> Len(p)]
<1>1. PICK top \in Nat : \A p \in DOMAIN js : Len(p) <= top
  <2>1. IsFiniteSet(DOMAIN js) /\ DOMAIN js # {} /\ DOMAIN js \subseteq Seq(Nat)
    BY DEF Compared, Tree
  <2>2. QED BY <2>1, Depth
<1> DEFINE T == {n \in Nat : \E p \in DOMAIN js : Len(p) = top - n /\ D[p]}
<1>2. ASSUME NEW n \in T, \A k \in T : n <= k
      PROVE  FALSE
  <2>1. PICK p \in DOMAIN js : Len(p) = top - n /\ D[p]
    BY <1>2
  <2>2. n \in Nat /\ p \in Seq(Nat) /\ Len(p) \in Nat
    BY <1>2 DEF Compared, Tree
  <2> DEFINE kids == ChildrenOf(DOMAIN js, p)
             q == LastOf(kids)
  <2>3. DiffersAt(old, js, p, D)
    BY <2>1, ChildrenAre
  <2>4. q \in kids
    <3>1. kids # {}
      BY <2>3 DEF DiffersAt
    <3>2. QED BY <3>1, ChildrenAre
  <2>5. q \in DOMAIN js /\ Len(q) = Len(p) + 1
    BY <2>4 DEF ChildrenOf
  <2>6. q \in DOMAIN old /\ ComponentUpdate(old[q], js[q]) = old[q]
    <3>1. q \in DOMAIN Merged(old, js)
      BY <2>5 DEF Merged
    <3>2. q \in DOMAIN old
      BY <3>1
    <3>3. Merged(old, js)[q] = ComponentUpdate(old[q], js[q])
      BY <2>5, <3>2 DEF Merged
    <3>4. QED BY <3>2, <3>3
  <2>7. ChildrenOf(DOMAIN old, p) \subseteq kids
    BY <2>4, NotKept
  <2>8. ~D[q]
    <3>1. Len(q) <= top /\ Len(q) = top - (n - 1)
      BY <1>1, <2>1, <2>2, <2>5
    <3>2. n - 1 \in Nat /\ ~(n <= n - 1)
      BY <2>2, <2>5, <3>1
    <3>3. n - 1 \notin T
      <4> HIDE DEF T
      <4>1. QED BY <1>2, <3>2
    <3> HIDE DEF D, q
    <3>4. QED BY <2>5, <3>1, <3>2, <3>3
  <2>9. QED BY <2>3, <2>6, <2>7, <2>8 DEF DiffersAt
<1>3. T = {}
  <2>1. T \subseteq Nat
    OBVIOUS
  <2> HIDE DEF T
  <2>2. QED BY <1>2, <2>1, LeastNumber
<1>4. ASSUME NEW p \in DOMAIN js, D[p]
      PROVE  FALSE
  <2>1. Len(p) \in Nat /\ Len(p) <= top
    BY <1>1 DEF Compared, Tree
  <2>2. top - Len(p) \in Nat /\ Len(p) = top - (top - Len(p))
    BY <1>1, <2>1
  <2> HIDE DEF D
  <2>3. QED BY <1>3, <1>4, <2>2
<1>5. QED BY <1>4

\* All prefixes of a path are in the tree.
LEMMA PrefixIn ==
  ASSUME NEW paths, NEW r, Tree(paths, r), NEW q \in paths
  PROVE  \A n \in 1 .. Len(q) : PathOf(q, n) \in paths
<1> DEFINE T == {k \in Nat : k < Len(q) /\ PathOf(q, Len(q) - k) \notin paths}
<1>1. q \in Seq(Nat) /\ Len(q) \in Nat /\ PathOf(q, Len(q)) = q
  <2>1. q \in Seq(Nat)
    BY DEF Tree
  <2>2. QED BY <2>1 DEF PathOf
<1>2. ASSUME NEW k \in T, \A j \in T : k <= j
      PROVE  FALSE
  <2>1. k \in Nat /\ k < Len(q) /\ PathOf(q, Len(q) - k) \notin paths
    BY <1>2
  <2>2. k # 0
    BY <1>1, <2>1
  <2> DEFINE n == Len(q) - (k - 1)
  <2>3. k - 1 \in Nat /\ k - 1 \notin T
    <3>1. k - 1 \in Nat /\ ~(k <= k - 1)
      BY <2>1, <2>2
    <3> HIDE DEF T
    <3>2. QED BY <1>2, <3>1
  <2>4. n \in 2 .. Len(q) /\ n - 1 = Len(q) - k /\ Len(q) > 1
    BY <1>1, <2>1, <2>2
  <2>5. PathOf(q, n) \in paths
    BY <1>1, <2>1, <2>3
  <2> HIDE DEF n
  <2>6. Front(PathOf(q, n)) = PathOf(q, n - 1) /\ Len(PathOf(q, n)) = n
    BY <1>1, <2>4, Prefix, AbovePrefix
  <2>7. PathOf(q, n - 1) \in paths
    <3>1. Len(PathOf(q, n)) > 1
      BY <1>1, <2>4, <2>6
    <3>2. QED BY <2>5, <2>6, <3>1 DEF Tree
  <2>8. QED BY <2>1, <2>4, <2>7
<1>3. T = {}
  <2>1. T \subseteq Nat
    OBVIOUS
  <2> HIDE DEF T
  <2>2. QED BY <1>2, <2>1, LeastNumber
<1>4. ASSUME NEW n \in 1 .. Len(q)
      PROVE  PathOf(q, n) \in paths
  <2>1. Len(q) - n \in Nat /\ Len(q) - n < Len(q) /\ n = Len(q) - (Len(q) - n)
    BY <1>1
  <2>2. QED BY <1>3, <2>1
<1>5. QED BY <1>4

\* With at most one child each, no flag at the root means that nothing has changed.
LEMMA NoFlagNoChange ==
  ASSUME NEW old, NEW js, Compared(old, js), OnlyChildren(js),
         old = [p \in DOMAIN old |-> old[p]],
         NEW r, Tree(DOMAIN old, r), Tree(DOMAIN js, r),
         Merged(old, js)[<<r>>] = old[<<r>>], ~ChildrenChanged(old, js)[<<r>>]
  PROVE  Merged(old, js) = old
<1> DEFINE D == ChildrenChanged(old, js)
           new == Merged(old, js)
           Same(p) == ~D[p] /\ p \in DOMAIN old /\ new[p] = old[p]
           T == {n \in Nat : \E p \in DOMAIN js : Len(p) = n /\ ~Same(p)}
<1>1. \A p \in DOMAIN js : p \in Seq(Nat) /\ p # <<>> /\ Len(p) \in Nat /\ Len(p) > 0
                           /\ Head(p) = r
  BY DEF Tree
<1>2. ASSUME NEW p \in DOMAIN js, NEW x \in ChildrenOf(DOMAIN js, p)
      PROVE  \A y \in ChildrenOf(DOMAIN js, p) : y = x
  <2> DEFINE kids == ChildrenOf(DOMAIN js, p)
  <2>1. kids \subseteq DOMAIN js /\ IsFiniteSet(DOMAIN js)
    BY DEF ChildrenOf, Compared
  <2>2. IsFiniteSet(kids) /\ Cardinality(kids) \in Nat
    BY <2>1, FS_Subset, FS_CardinalityType
  <2>3. Cardinality(kids) <= 1
    BY DEF OnlyChildren
  <2>4. ASSUME NEW y \in kids, y # x
        PROVE  FALSE
    <3>1. IsFiniteSet({x}) /\ Cardinality({x}) = 1
      BY FS_Singleton
    <3>2. IsFiniteSet({x} \cup {y}) /\ Cardinality({x} \cup {y}) = 2
      <4>1. y \notin {x}
        BY <2>4
      <4>2. Cardinality({x} \cup {y}) = Cardinality({x}) + 1
        BY <3>1, <4>1, FS_AddElement
      <4>3. IsFiniteSet({x} \cup {y})
        BY <3>1, FS_AddElement
      <4>4. QED BY <3>1, <4>2, <4>3
    <3>3. ({x} \cup {y}) \in SUBSET kids
      BY <1>2, <2>4
    <3>4. Cardinality({x} \cup {y}) <= Cardinality(kids)
      <4> HIDE DEF kids
      <4>1. QED BY <2>2, <3>3, FS_Subset
    <3>5. QED BY <2>2, <2>3, <3>2, <3>4
  <2>5. QED BY <2>4
<1>3. ASSUME NEW n \in T, \A k \in T : n <= k
      PROVE  FALSE
  <2>1. PICK p \in DOMAIN js : Len(p) = n /\ ~Same(p)
    BY <1>3
  <2>2. CASE n = 1
    <3>1. p = <<r>>
      <4>1. \A u \in Seq(Nat) : Len(u) = 1 => u = <<Head(u)>>
        OBVIOUS
      <4>2. QED BY <1>1, <2>1, <2>2, <4>1
    <3>2. <<r>> \in DOMAIN old
      BY DEF Tree
    <3>3. QED BY <2>1, <3>1, <3>2
  <2>3. CASE n # 1
    <3> DEFINE above == Front(p)
               kids == ChildrenOf(DOMAIN js, above)
    <3>1. Len(p) > 1 /\ above \in DOMAIN js /\ Len(above) = n - 1 /\ p \in kids
      <4>1. Len(p) > 1
        BY <1>1, <2>1, <2>3
      <4>2. above \in DOMAIN js
        BY <4>1 DEF Tree
      <4>3. Len(above) = Len(p) - 1
        BY <1>1, FrontIs
      <4>4. QED BY <1>1, <2>1, <4>1, <4>2, <4>3 DEF ChildrenOf
    <3>2. n - 1 \in Nat /\ n - 1 \notin T
      <4>1. n - 1 \in Nat /\ ~(n <= n - 1)
        BY <1>1, <2>1, <2>3
      <4> HIDE DEF T
      <4>2. QED BY <1>3, <4>1
    <3>3. Same(above)
      <4> HIDE DEF Same, above
      <4>1. QED BY <3>1, <3>2
    <3>4. ~DiffersAt(old, js, above, D)
      <4> HIDE DEF D, above
      <4>1. D[above] = DiffersAt(old, js, above, D)
        BY <3>1, ChildrenAre DEF D
      <4>2. QED BY <3>3, <4>1
    <3>5. LastOf(kids) = p
      <4>1. LastOf(kids) \in kids
        BY <3>1, ChildrenAre
      <4>2. QED BY <1>2, <3>1, <4>1
    <3>6. p \in DOMAIN old /\ ComponentUpdate(old[p], js[p]) = old[p] /\ ~D[p]
      <4> HIDE DEF D
      <4>1. QED BY <3>1, <3>4, <3>5 DEF DiffersAt
    <3>7. new[p] = ComponentUpdate(old[p], js[p])
      BY <3>6 DEF Merged
    <3>8. QED BY <2>1, <3>6, <3>7
  <2>4. QED BY <2>2, <2>3
<1>4. T = {}
  <2>1. T \subseteq Nat
    OBVIOUS
  <2> HIDE DEF T
  <2>2. QED BY <1>3, <2>1, LeastNumber
<1>5. ASSUME NEW p \in DOMAIN js
      PROVE  Same(p)
  <2> HIDE DEF Same
  <2>1. QED BY <1>1, <1>4
<1>6. ASSUME NEW p \in DOMAIN js, ChildrenOf(DOMAIN js, p) # {}
      PROVE  ChildrenOf(DOMAIN old, p) \subseteq DOMAIN js
  <2>1. ~DiffersAt(old, js, p, D)
    <3>1. D[p] = DiffersAt(old, js, p, D)
      BY ChildrenAre
    <3> HIDE DEF D
    <3>2. QED BY <1>5, <3>1
  <2>2. ChildrenOf(DOMAIN old, p) \subseteq ChildrenOf(DOMAIN js, p)
    BY <1>6, <2>1 DEF DiffersAt
  <2>3. QED BY <2>2 DEF ChildrenOf
<1>7. ASSUME NEW q \in DOMAIN old
      PROVE  q \in Kept(old, js)
  <2> SUFFICES ASSUME NEW n \in 1 .. (Len(q) - 1), PathOf(q, n) \in DOMAIN js,
                      ChildrenOf(DOMAIN js, PathOf(q, n)) # {}
               PROVE  PathOf(q, n + 1) \in DOMAIN js
    BY DEF Kept
  <2>1. q \in Seq(Nat) /\ q # <<>> /\ Len(q) \in Nat /\ n + 1 \in 2 .. Len(q)
    BY DEF Tree
  <2>2. PathOf(q, n + 1) \in DOMAIN old
    BY <2>1, PrefixIn
  <2>3. /\ Len(PathOf(q, n + 1)) = n + 1 /\ Len(PathOf(q, n)) = n
        /\ Front(PathOf(q, n + 1)) = PathOf(q, n)
    <3>1. (n + 1) - 1 = n /\ n + 1 \in 1 .. Len(q) /\ n \in 1 .. Len(q) /\ Len(q) > 1
      BY <2>1
    <3>2. QED BY <2>1, <3>1, Prefix, AbovePrefix
  <2>4. PathOf(q, n + 1) \in ChildrenOf(DOMAIN old, PathOf(q, n))
    BY <2>2, <2>3 DEF ChildrenOf
  <2>5. QED BY <1>6, <2>4
<1>8. DOMAIN new = DOMAIN old
  <2>1. DOMAIN new = DOMAIN js \cup Kept(old, js) /\ Kept(old, js) \subseteq DOMAIN old
    BY DEF Merged, Kept
  <2>2. DOMAIN js \subseteq DOMAIN old
    BY <1>5
  <2>3. QED BY <1>7, <2>1, <2>2
<1>9. \A p \in DOMAIN old : new[p] = old[p]
  <2>1. \A p \in DOMAIN new \ DOMAIN js : new[p] = old[p]
    BY DEF Merged
  <2>2. QED BY <1>5, <1>8, <2>1
<1>10. new = [p \in DOMAIN new |-> new[p]]
  BY DEF Merged
<1> HIDE DEF new
<1>11. new = old
  BY <1>8, <1>9, <1>10
<1>12. QED BY <1>11 DEF new

\* The trees that a device with one root ID shows are finite.
LEMMA ShownFinite ==
  ASSUME "reroot" \notin Env, NEW d \in Devices, NEW tree \in Trees(d)
  PROVE  IsFiniteSet(DOMAIN tree)
<1> DEFINE usable(n) == {c \in Shown[d][n] :
                           c.msg = NoMsg \/ Hash[c.msg.fmt] \in DOMAIN store[d]}
           of(s) == {t \in [s -> UNION {usable(Len(p)) : p \in s}] :
                       \A p \in s : t[p] \in usable(Len(p))}
           shapes == UNION {of(s) : s \in Shapes[d]}
<1>1. tree \in shapes
  BY DEF Trees
<1>2. PICK s \in Shapes[d] : tree \in of(s)
  BY <1>1
<1>3. DOMAIN tree = s
  BY <1>2
<1>4. QED BY <1>2, <1>3, CacheAssumption

\* Copies are functions.
CopyIsFunction == \A d \in DOMAIN copy : copy[d] = [p \in DOMAIN copy[d] |-> copy[d][p]]

\* Each step keeps them functions.
LEMMA FunctionStep == BaseInv /\ CopyIsFunction /\ [Next]_vars => CopyIsFunction'
<1> SUFFICES ASSUME BaseInv, CopyIsFunction, [Next]_vars PROVE CopyIsFunction'
  OBVIOUS
<1> USE DEF BaseInv
<1>1. ASSUME NEW d \in Devices, UpdateDeviceHealth(d)
      PROVE  CopyIsFunction'
  <2>1. PICK tree \in Trees(d), others \in SUBSET (DOMAIN copy \ {d}) :
          Updated(d, tree, others)
    BY <1>1, UpdateIs
  <2> DEFINE new == Merged(OldCopy(d, Report(d, tree)), Report(d, tree))
  <2>2. copy' = [e \in others \cup {d} |-> IF e = d THEN new ELSE copy[e]]
    BY <2>1 DEF Updated
  <2>3. new = [p \in DOMAIN new |-> new[p]]
    BY DEF Merged
  <2> HIDE DEF new
  <2>4. QED BY <2>1, <2>2, <2>3 DEF CopyIsFunction
<1>2. ASSUME UNCHANGED copy
      PROVE  CopyIsFunction'
  BY <1>2 DEF CopyIsFunction
<1>3. ASSUME NEW d \in Devices,
             \/ \E f \in Formats : RegisterString(d, f)
             \/ Restart(d) \/ RejectDeviceHealth(d) \/ RequestStrings(d)
             \/ RequestAllStrings(d) \/ DefineStrings(d) \/ LoseStrings(d)
      PROVE  CopyIsFunction'
  <2>1. UNCHANGED copy
    BY <1>3 DEF RegisterString, Restart, RejectDeviceHealth, RequestStrings,
       RequestAllStrings, DefineStrings, LoseStrings
  <2>2. QED BY <1>2, <2>1
<1>4. CASE UNCHANGED vars
  BY <1>2, <1>4 DEF vars
<1>5. QED BY <1>1, <1>3, <1>4 DEF Next

\* What a step says of a change.
SaysOfChange ==
  /\ (~changed /\ changed') => copy' # copy
  /\ \A d \in DOMAIN copy :
       (copy'[d] # copy[d] /\ OnlyChildren(last'[d])) => changed'

\* An update says it, and no other step has anything to say.
LEMMA ChangeStep ==
  ASSUME "reroot" \notin Env, BaseInv, CopyIsFunction, Next
  PROVE  SaysOfChange
<1> USE DEF BaseInv
<1>1. ASSUME NEW d \in Devices, UpdateDeviceHealth(d)
      PROVE  SaysOfChange
  <2>1. PICK tree \in Trees(d), others \in SUBSET (DOMAIN copy \ {d}) :
          /\ ShownTree(d, tree) /\ Updated(d, tree, others) /\ FlagIs(d, tree)
          /\ others = DOMAIN copy \ {d}
    BY <1>1, UpdateIs
  <2> DEFINE js == Report(d, tree)
             old == OldCopy(d, js)
             new == Merged(old, js)
             D == ChildrenChanged(old, js)
             root == <<Root>>
  <2>2. DOMAIN js = DOMAIN tree
    BY DEF Report
  <2>3. Tree(DOMAIN js, Root) /\ IsFiniteSet(DOMAIN js)
    BY <2>1, <2>2, ShownFinite DEF ShownTree
  <2>4. Tree(DOMAIN old, Root)
    <3> HIDE DEF js
    <3>1. QED BY <2>3, OldCopyIs
  <2>5. Compared(old, js)
    BY <2>3, <2>4 DEF Compared
  <2>6. RootOf(js) = root
    BY <2>3, RootIs
  <2>7. d \in DOMAIN copy => root \in DOMAIN copy[d] /\ old = copy[d]
    BY <2>6 DEF CopyInv, Tree, OldCopy
  <2>8. /\ copy' = [e \in DOMAIN copy \cup {d} |-> IF e = d THEN new ELSE copy[e]]
        /\ last'[d] = tree
    BY <2>1 DEF Updated
  <2>9. PICK luck \in BOOLEAN :
          /\ luck => ~(d \in DOMAIN copy /\ root \in DOMAIN copy[d])
          /\ changed' = (luck \/ new[root] # old[root] \/ D[root])
    BY <2>1, <2>6 DEF FlagIs
  <2> HIDE DEF js, old, new, D
  <2>10. ASSUME changed', copy' = copy
         PROVE  FALSE
    <3>1. d \in DOMAIN copy /\ copy[d] = new
      BY <2>8, <2>10
    <3>2. old = copy[d] /\ ~luck
      BY <2>7, <2>9, <3>1
    <3>3. \A p \in DOMAIN js : ~D[p]
      BY <2>5, <3>1, <3>2, FlagHasCause DEF D, new
    <3>4. ~D[root] /\ new[root] = old[root]
      BY <2>3, <3>1, <3>2, <3>3 DEF Tree
    <3>5. QED BY <2>9, <2>10, <3>2, <3>4
  <2>11. ASSUME NEW e \in DOMAIN copy, copy'[e] # copy[e], OnlyChildren(last'[e]), ~changed'
         PROVE  FALSE
    <3>1. e = d /\ new # copy[d]
      BY <2>8, <2>11
    <3>2. old = copy[d] /\ old = [p \in DOMAIN old |-> old[p]]
      BY <2>7, <3>1 DEF CopyIsFunction
    <3>3. OnlyChildren(js)
      BY <2>2, <2>8, <2>11, <3>1 DEF OnlyChildren
    <3>4. new[root] = old[root] /\ ~D[root]
      BY <2>9, <2>11
    <3>5. new = old
      BY <2>3, <2>4, <2>5, <3>2, <3>3, <3>4, NoFlagNoChange DEF D, new
    <3>6. QED BY <3>1, <3>2, <3>5
  <2>12. QED BY <2>10, <2>11 DEF SaysOfChange
<1>2. ASSUME NEW d \in Devices,
             \/ \E f \in Formats : RegisterString(d, f)
             \/ Restart(d) \/ RejectDeviceHealth(d) \/ RequestStrings(d)
             \/ RequestAllStrings(d) \/ DefineStrings(d) \/ LoseStrings(d)
      PROVE  SaysOfChange
  <2>1. UNCHANGED copy /\ (changed' = changed \/ changed' = FALSE)
    BY <1>2 DEF RegisterString, Restart, RejectDeviceHealth, RequestStrings,
       RequestAllStrings, DefineStrings, LoseStrings
  <2>2. QED BY <2>1 DEF SaysOfChange
<1>3. QED BY <1>1, <1>2 DEF Next

\* A caller who is told of a change finds one in the copies, and one that is not told
\* of any has the tree it had, if no component of the report has several children: for
\* trees of any depth, and whatever else the copy holds. What createdComp,
\* m_lastUpdateTS and the children assign to `changed` one after another thus comes
\* to what the header says, but for siblings.
THEOREM ChangesNoticed ==
  ASSUME "reroot" \notin Env
  PROVE  Spec => ChangeNoticed
<1>1. Init => CopyIsFunction
  <2>1. Init => DOMAIN copy = {}
    BY DEF Init
  <2>2. QED BY <2>1 DEF CopyIsFunction
<1>2. BaseInv /\ CopyIsFunction /\ [Next]_vars => [SaysOfChange]_vars
  BY ChangeStep
<1>3. ChangeNoticed <=> [][SaysOfChange]_vars
  BY DEF ChangeNoticed, SaysOfChange
<1>4. QED BY <1>1, <1>2, <1>3, BaseInvariant, FunctionStep, PTL DEF Spec
--------------------------------------------------------------------------------
(***************************************************************************)
(* Texts. A template filled hole by hole is what printf makes of the       *)
(* format string, if neither literals nor parameters look like holes.      *)
(***************************************************************************)
\* The conversions of a format string are numbered in their order.
LEMMA Ranks ==
  ASSUME NEW f \in Formats
  PROVE  /\ IsFiniteSet(Specs(f)) /\ Specs(f) \subseteq Nat /\ ParameterCnt(f) \in Nat
         /\ \A k \in Specs(f) : ParamIndex(f, k) \in 1 .. ParameterCnt(f)
         /\ \A j, k \in Specs(f) : j < k => ParamIndex(f, j) < ParamIndex(f, k)
<1> DEFINE Before(k) == {j \in Specs(f) : j < k}
<1>1. f \in Seq(STRING)
  BY FormatAssumption
<1>2. Specs(f) \subseteq 1 .. Len(f) /\ Len(f) \in Nat
  BY <1>1 DEF Specs
<1>3. IsFiniteSet(1 .. Len(f))
  BY <1>2, FS_Interval
<1>4. IsFiniteSet(Specs(f)) /\ Specs(f) \subseteq Nat
  BY <1>2, <1>3, FS_Subset
<1>5. ParameterCnt(f) \in Nat
  BY <1>4, FS_CardinalityType DEF ParameterCnt
<1>6. ASSUME NEW k \in Specs(f), NEW U, U \subseteq Specs(f), Before(k) \cup {k} \subseteq U
      PROVE  /\ Cardinality(Before(k)) \in Nat
             /\ Cardinality(Before(k)) + 1 <= Cardinality(U) /\ Cardinality(U) \in Nat
  <2>1. k \notin Before(k)
    BY <1>4
  <2>2. IsFiniteSet(U) /\ IsFiniteSet(Before(k))
    BY <1>4, <1>6, FS_Subset
  <2> HIDE DEF Before
  <2>3. Cardinality(Before(k) \cup {k}) = Cardinality(Before(k)) + 1
    BY <2>1, <2>2, FS_AddElement
  <2>4. Cardinality(Before(k) \cup {k}) <= Cardinality(U)
    BY <1>6, <2>2, FS_Subset
  <2>5. QED BY <2>2, <2>3, <2>4, FS_CardinalityType
<1>7. \A k \in Specs(f) : ParamIndex(f, k) = 1 + Cardinality(Before(k))
  BY DEF ParamIndex
<1>8. ASSUME NEW k \in Specs(f)
      PROVE  ParamIndex(f, k) \in 1 .. ParameterCnt(f)
  <2>1. Before(k) \cup {k} \subseteq Specs(f)
    OBVIOUS
  <2> HIDE DEF Before
  <2>2. /\ Cardinality(Before(k)) \in Nat
        /\ Cardinality(Before(k)) + 1 <= ParameterCnt(f)
    BY <1>6, <2>1 DEF ParameterCnt
  <2>3. QED BY <1>5, <1>7, <2>2
<1>9. ASSUME NEW j \in Specs(f), NEW k \in Specs(f), j < k
      PROVE  ParamIndex(f, j) < ParamIndex(f, k)
  <2>1. Before(j) \cup {j} \subseteq Before(k) /\ Before(k) \subseteq Specs(f)
    BY <1>4, <1>9
  <2> HIDE DEF Before
  <2>2. /\ Cardinality(Before(j)) \in Nat /\ Cardinality(Before(k)) \in Nat
        /\ Cardinality(Before(j)) + 1 <= Cardinality(Before(k))
    BY <1>6, <2>1
  <2>3. QED BY <1>7, <2>2
<1>10. QED BY <1>4, <1>5, <1>8, <1>9

\* No number is left out.
LEMMA EachNumber ==
  ASSUME NEW f \in Formats, NEW i \in 1 .. ParameterCnt(f)
  PROVE  \E k \in Specs(f) : ParamIndex(f, k) = i
<1> DEFINE S == Specs(f)
           r == [k \in S |-> ParamIndex(f, k)]
           N == 1 .. ParameterCnt(f)
<1>1. /\ IsFiniteSet(S) /\ S \subseteq Nat /\ Cardinality(S) = ParameterCnt(f)
      /\ ParameterCnt(f) \in Nat
      /\ r \in [S -> N]
      /\ \A j, k \in S : j < k => r[j] < r[k]
  BY Ranks DEF ParameterCnt
<1>2. IsFiniteSet(N) /\ Cardinality(N) = Cardinality(S)
  BY <1>1, FS_Interval
<1> HIDE DEF S, r
<1>3. \A j, k \in S : r[j] = r[k] => j = k
  BY <1>1
<1> HIDE DEF N
<1>4. r \in Injection(S, N)
  BY <1>1, <1>3 DEF Injection, IsInjective
<1>5. r \in Surjection(S, N)
  BY <1>2, <1>4, FS_Injection
<1>6. \E k \in S : r[k] = i
  BY <1>5 DEF Surjection, N
<1>7. QED BY <1>6 DEF S, r
--------------------------------------------------------------------------------
\* g is what FlattenSeq joins, sequence by sequence.
Joins(g, seqs) ==
  g = [i \in 1 .. Len(seqs) |-> IF i = 1 THEN seqs[i] ELSE g[i - 1] \o seqs[i]]

\* There is such a function.
LEMMA JoinExists ==
  ASSUME NEW S, NEW seqs \in Seq(Seq(S))
  PROVE  \E g : Joins(g, seqs)
<1> DEFINE Solves(g, n) ==
             g = [i \in 1 .. n |-> IF i = 1 THEN seqs[i] ELSE g[i - 1] \o seqs[i]]
           T == {n \in Nat : ~ \E g : Solves(g, n)}
<1>1. ASSUME NEW n \in T, \A k \in T : n <= k
      PROVE  FALSE
  <2>1. n \in Nat /\ ~ \E g : Solves(g, n)
    BY <1>1
  <2>2. CASE n = 0
    <3>1. 1 .. 0 = {}
      OBVIOUS
    <3>2. Solves([i \in {} |-> <<>>], 0)
      BY <3>1
    <3>3. QED BY <2>1, <2>2, <3>2
  <2>3. CASE n # 0
    <3>1. n - 1 \in Nat /\ ~(n <= n - 1)
      BY <2>1, <2>3
    <3>2. n - 1 \notin T
      <4> HIDE DEF T
      <4>1. QED BY <1>1, <3>1
    <3>3. PICK g : Solves(g, n - 1)
      BY <3>1, <3>2
    <3> DEFINE h == [i \in 1 .. n |-> IF i < n THEN g[i]
                                      ELSE IF i = 1 THEN seqs[i] ELSE g[i - 1] \o seqs[i]]
    <3>4. ASSUME NEW i \in 1 .. n
          PROVE  h[i] = IF i = 1 THEN seqs[i] ELSE h[i - 1] \o seqs[i]
      <4>1. CASE i < n
        <5>1. i \in 1 .. (n - 1) /\ (i # 1 => i - 1 \in 1 .. n /\ i - 1 < n)
          BY <2>1, <3>4, <4>1
        <5>2. g[i] = IF i = 1 THEN seqs[i] ELSE g[i - 1] \o seqs[i]
          BY <3>3, <5>1
        <5>3. QED BY <4>1, <5>1, <5>2
      <4>2. CASE i = n
        <5>1. i # 1 => i - 1 \in 1 .. n /\ i - 1 < n
          BY <2>1, <3>4, <4>2
        <5>2. QED BY <4>2, <5>1
      <4>3. QED BY <2>1, <3>4, <4>1, <4>2
    <3>5. Solves(h, n)
      <4>1. h = [i \in 1 .. n |-> h[i]]
        OBVIOUS
      <4> HIDE DEF h
      <4>2. QED BY <3>4, <4>1
    <3>6. QED BY <2>1, <3>5
  <2>4. QED BY <2>2, <2>3
<1>2. T = {}
  <2>1. T \subseteq Nat
    OBVIOUS
  <2> HIDE DEF T
  <2>2. QED BY <1>1, <2>1, LeastNumber
<1>3. \A n \in Nat : \E g : Solves(g, n)
  <2> HIDE DEF Solves
  <2>1. QED BY <1>2
<1>4. Len(seqs) \in Nat
  OBVIOUS
<1>5. QED BY <1>3, <1>4 DEF Joins

\* FlattenSeq is its last value.
LEMMA FlattenIs ==
  ASSUME NEW S, NEW seqs \in Seq(Seq(S)), seqs # <<>>
  PROVE  \E g : Joins(g, seqs) /\ FlattenSeq(seqs) = g[Len(seqs)]
<1> DEFINE G == CHOOSE g : Joins(g, seqs)
<1>1. Len(seqs) # 0
  OBVIOUS
<1>2. FlattenSeq(seqs) = G[Len(seqs)]
  BY <1>1 DEF FlattenSeq, Joins
<1>3. Joins(G, seqs)
  BY JoinExists
<1> HIDE DEF G
<1>4. QED BY <1>2, <1>3

\* What holds at first, and is passed on, holds up to the end.
LEMMA Upwards ==
  ASSUME NEW l \in Nat, NEW m \in Nat, NEW H, l \in H,
         \A i \in l .. m : (i < m /\ i \in H) => i + 1 \in H
  PROVE  l .. m \subseteq H
<1> DEFINE T == {i \in l .. m : i \notin H}
<1>1. ASSUME NEW i \in T, \A k \in T : i <= k
      PROVE  FALSE
  <2>1. i \in l .. m /\ i \notin H
    BY <1>1
  <2>2. i # l /\ i - 1 \in l .. m /\ i - 1 < m /\ ~(i <= i - 1) /\ (i - 1) + 1 = i
    BY <2>1
  <2>3. i - 1 \notin T
    <3> HIDE DEF T
    <3>1. QED BY <1>1, <2>2
  <2>4. i - 1 \in H
    BY <2>2, <2>3
  <2>5. QED BY <2>1, <2>2, <2>4
<1>2. T = {}
  <2>1. T \subseteq Nat
    OBVIOUS
  <2> HIDE DEF T
  <2>2. QED BY <1>1, <2>1, LeastNumber
<1>3. QED BY <1>2

\* One sequence more.
LEMMA JoinStep ==
  ASSUME NEW g, NEW seqs, Joins(g, seqs), Len(seqs) \in Nat
  PROVE  /\ 1 <= Len(seqs) => g[1] = seqs[1]
         /\ \A i \in 1 .. Len(seqs) : i < Len(seqs) => g[i + 1] = g[i] \o seqs[i + 1]
<1>1. \A i \in 1 .. Len(seqs) : g[i] = IF i = 1 THEN seqs[i] ELSE g[i - 1] \o seqs[i]
  BY DEF Joins
<1>2. ASSUME NEW i \in 1 .. Len(seqs), i < Len(seqs)
      PROVE  g[i + 1] = g[i] \o seqs[i + 1]
  <2>1. i + 1 \in 1 .. Len(seqs) /\ i + 1 # 1 /\ (i + 1) - 1 = i
    BY <1>2
  <2>2. QED BY <1>1, <2>1
<1>3. 1 <= Len(seqs) => 1 \in 1 .. Len(seqs)
  OBVIOUS
<1>4. QED BY <1>1, <1>2, <1>3

\* Joined are the elements of the sequences.
LEMMA JoinIn ==
  ASSUME NEW S, NEW seqs \in Seq(Seq(S)), NEW g, Joins(g, seqs),
         NEW U, NEW m \in 1 .. Len(seqs), \A i \in 1 .. m : seqs[i] \in Seq(U)
  PROVE  \A i \in 1 .. m : g[i] \in Seq(U)
<1> DEFINE H == {i \in Nat : g[i] \in Seq(U)}
<1>1. m \in Nat /\ Len(seqs) \in Nat /\ 1 \in 1 .. m /\ 1 <= Len(seqs)
  OBVIOUS
<1>2. 1 \in H
  <2>1. g[1] = seqs[1]
    BY <1>1, JoinStep
  <2>2. QED BY <1>1, <2>1
<1>3. ASSUME NEW i \in 1 .. m, i < m, i \in H
      PROVE  i + 1 \in H
  <2>1. i \in 1 .. Len(seqs) /\ i < Len(seqs) /\ i + 1 \in 1 .. m /\ i + 1 \in Nat
    BY <1>1, <1>3
  <2>2. g[i + 1] = g[i] \o seqs[i + 1]
    BY <1>1, <2>1, JoinStep
  <2>3. g[i] \in Seq(U) /\ seqs[i + 1] \in Seq(U)
    BY <1>3, <2>1
  <2>4. g[i] \o seqs[i + 1] \in Seq(U)
    BY <2>3
  <2>5. QED BY <2>1, <2>2, <2>4
<1>4. 1 .. m \subseteq H
  <2> HIDE DEF H
  <2>1. QED BY <1>1, <1>2, <1>3, Upwards
<1>5. QED BY <1>4

\* Where sequences are joined first does not matter.
LEMMA Regroup ==
  ASSUME NEW S
  PROVE  \A a, b, c \in Seq(S) : (a \o b) \o c = a \o (b \o c)
BY ConcatAssociative

\* Sequences that agree but for one of their sequences.
DifferAt(S, seqs, other, k) ==
  /\ seqs \in Seq(Seq(S)) /\ other \in Seq(Seq(S)) /\ Len(other) = Len(seqs)
  /\ k \in 1 .. Len(seqs)
  /\ \A i \in 1 .. Len(seqs) : i # k => other[i] = seqs[i]

\* What is joined before the one at k.
IsBefore(A, g, k) == A = IF k = 1 THEN <<>> ELSE g[k - 1]

\* The same around what differs.
Around(S, seqs, other, k, g, h, A) ==
  \E B \in Seq(S) : /\ g[Len(seqs)] = A \o seqs[k] \o B
                    /\ h[Len(other)] = A \o other[k] \o B

\* So do those joined.
LEMMA JoinDiffer ==
  ASSUME NEW S, NEW seqs, NEW other, NEW k, DifferAt(S, seqs, other, k),
         NEW g, Joins(g, seqs), NEW h, Joins(h, other),
         NEW A, IsBefore(A, g, k)
  PROVE  Around(S, seqs, other, k, g, h, A)
<1> DEFINE n == Len(seqs)
           Same == {i \in Nat : g[i] = h[i]}
           Split(i) == \E B \in Seq(S) : /\ g[i] = A \o seqs[k] \o B
                                         /\ h[i] = A \o other[k] \o B
           H == {i \in Nat : Split(i)}
<1>0. \A a, b, c \in Seq(S) : (a \o b) \o c = a \o (b \o c)
  BY Regroup
<1>11. /\ seqs \in Seq(Seq(S)) /\ other \in Seq(Seq(S))
       /\ k \in 1 .. Len(seqs) /\ Len(other) = n
       /\ \A i \in 1 .. n : i # k => other[i] = seqs[i]
  BY DEF DifferAt
<1> USE <1>11
<1>1. n \in Nat /\ 1 \in 1 .. n /\ k \in Nat /\ Len(other) = n
  OBVIOUS
<1>2. /\ g[1] = seqs[1] /\ h[1] = other[1]
      /\ \A i \in 1 .. n : i < n => /\ g[i + 1] = g[i] \o seqs[i + 1]
                                    /\ h[i + 1] = h[i] \o other[i + 1]
      /\ \A i \in 1 .. n : seqs[i] \in Seq(S) /\ other[i] \in Seq(S)
  <2>1. \A i \in 1 .. n : seqs[i] \in Seq(S) /\ other[i] \in Seq(S)
    BY <1>1
  <2>2. 1 <= n
    BY <1>1
  <2>3. g[1] = seqs[1] /\ \A i \in 1 .. n : i < n => g[i + 1] = g[i] \o seqs[i + 1]
    BY <1>1, <2>2, JoinStep
  <2>4. h[1] = other[1] /\ \A i \in 1 .. n : i < n => h[i + 1] = h[i] \o other[i + 1]
    <3>1. Len(other) \in Nat /\ 1 <= Len(other) /\ Len(other) = n
      BY <1>1, <2>2
    <3>2. /\ h[1] = other[1]
          /\ \A i \in 1 .. Len(other) : i < Len(other) => h[i + 1] = h[i] \o other[i + 1]
      BY <3>1, JoinStep
    <3> HIDE DEF n
    <3>3. QED BY <3>1, <3>2
  <2>5. QED BY <2>1, <2>3, <2>4
<1>3. \A i \in 1 .. n : g[i] \in Seq(S)
  <2>1. n \in 1 .. Len(seqs)
    BY <1>1
  <2>2. QED BY <1>2, <2>1, JoinIn
<1>4. ASSUME k # 1
      PROVE  A \in Seq(S) /\ g[k] = A \o seqs[k] /\ h[k] = A \o other[k]
  <2> DEFINE m == k - 1
  <2>1. m \in Nat /\ m \in 1 .. n /\ m < n /\ m + 1 = k /\ 1 # k
    BY <1>1, <1>4
  <2>7. A = g[m]
    BY <1>4 DEF IsBefore
  <2> HIDE DEF m
  <2>2. 1 \in Same
    BY <1>1, <1>2, <2>1
  <2>3. ASSUME NEW i \in 1 .. m, i < m, i \in Same
        PROVE  i + 1 \in Same
    <3>1. i \in 1 .. n /\ i < n /\ i + 1 \in 1 .. n /\ i + 1 # k /\ i + 1 \in Nat
      BY <1>1, <2>1, <2>3
    <3>2. QED BY <1>2, <2>3, <3>1
  <2>4. 1 .. m \subseteq Same
    <3> HIDE DEF Same
    <3>1. QED BY <2>1, <2>2, <2>3, Upwards
  <2>5. m \in 1 .. m
    BY <2>1
  <2>6. g[m] = h[m] /\ g[k] = g[m] \o seqs[k] /\ h[k] = h[m] \o other[k]
    BY <1>2, <2>1, <2>4, <2>5
  <2>8. QED BY <1>3, <2>1, <2>6, <2>7
<1>5. A \in Seq(S) /\ g[k] = A \o seqs[k] /\ h[k] = A \o other[k]
  <2>1. CASE k = 1
    <3>1. A = <<>> /\ g[k] = seqs[k] /\ h[k] = other[k]
      BY <1>2, <2>1 DEF IsBefore
    <3>2. <<>> \o seqs[k] = seqs[k] /\ <<>> \o other[k] = other[k]
      BY <1>2
    <3>3. QED BY <3>1, <3>2
  <2>2. QED BY <1>4, <2>1
<1>6. Split(k)
  <2>1. <<>> \in Seq(S)
    OBVIOUS
  <2>2. A \o seqs[k] \o <<>> = A \o seqs[k] /\ A \o other[k] \o <<>> = A \o other[k]
    BY <1>2, <1>5
  <2>3. QED BY <1>5, <2>1, <2>2
<1>7. ASSUME NEW i \in k .. n, i < n, i \in H
      PROVE  i + 1 \in H
  <2>1. PICK B \in Seq(S) : g[i] = A \o seqs[k] \o B /\ h[i] = A \o other[k] \o B
    BY <1>7
  <2>2. i \in 1 .. n /\ i + 1 \in 1 .. n /\ i + 1 # k /\ i + 1 \in Nat
    BY <1>1, <1>7
  <2> DEFINE x == seqs[i + 1]
             C == B \o x
  <2>3. g[i + 1] = g[i] \o x /\ h[i + 1] = h[i] \o x /\ x \in Seq(S)
    BY <1>2, <1>7, <2>2
  <2>4. seqs[k] \in Seq(S) /\ other[k] \in Seq(S)
    BY <1>2
  <2> HIDE DEF x
  <2>5. ASSUME NEW p \in Seq(S)
        PROVE  (A \o p \o B) \o x = A \o p \o C
    <3>1. A \o p \in Seq(S)
      BY <1>5, <2>5
    <3> DEFINE q == A \o p
    <3> HIDE DEF q
    <3>2. q \in Seq(S)
      BY <3>1 DEF q
    <3>3. (q \o B) \o x = q \o (B \o x)
      <4>1. B \in Seq(S) /\ x \in Seq(S)
        BY <2>3
      <4>2. QED BY <1>0, <3>2, <4>1
    <3>4. q = A \o p /\ C = B \o x
      BY DEF q
    <3> HIDE DEF C
    <3>5. QED BY <3>3, <3>4
  <2>6. g[i + 1] = A \o seqs[k] \o C /\ h[i + 1] = A \o other[k] \o C
    <3> HIDE DEF C
    <3>1. QED BY <2>1, <2>3, <2>4, <2>5
  <2>7. C \in Seq(S)
    BY <2>1, <2>3
  <2> HIDE DEF C
  <2>8. QED BY <2>2, <2>6, <2>7
<1>8. k .. n \subseteq H
  <2>1. k \in H
    BY <1>1, <1>6
  <2> HIDE DEF H
  <2>2. QED BY <1>1, <1>7, <2>1, Upwards
<1>9. n \in k .. n
  BY <1>1
<1>10. QED BY <1>8, <1>9 DEF Around

\* Single pieces joined are the text they are the pieces of.
LEMMA JoinSingle ==
  ASSUME NEW S, NEW t \in Seq(S), t # <<>>,
         NEW seqs \in Seq(Seq(S)), Len(seqs) = Len(t),
         \A k \in 1 .. Len(t) : seqs[k] = <<t[k]>>
  PROVE  FlattenSeq(seqs) = t
<1>1. Len(t) \in Nat /\ DOMAIN t = 1 .. Len(t) /\ \A k \in 1 .. Len(t) : t[k] \in S
  OBVIOUS
<1>2. \A k \in 1 .. Len(t) : seqs[k] = <<t[k]>> /\ seqs[k] \in Seq(S)
  BY <1>1
<1>3. Len(seqs) = Len(t)
  OBVIOUS
<1>4. seqs # <<>> /\ 1 \in 1 .. Len(t)
  BY <1>1, <1>3
<1>5. PICK g : Joins(g, seqs) /\ FlattenSeq(seqs) = g[Len(seqs)]
  BY <1>3, <1>4, FlattenIs
<1>12. Len(seqs) \in Nat /\ 1 <= Len(seqs)
  BY <1>1, <1>3, <1>4
<1>13. g[1] = seqs[1] /\ \A i \in 1 .. Len(seqs) : i < Len(seqs) => g[i + 1] = g[i] \o seqs[i + 1]
  BY <1>5, <1>12, JoinStep
<1> DEFINE H == {i \in Nat : g[i] = SubSeq(t, 1, i)}
<1>6. 1 \in H
  <2>1. g[1] = <<t[1]>>
    <3>1. seqs[1] = <<t[1]>>
      BY <1>2, <1>4
    <3>2. QED BY <1>13, <3>1
  <2>2. SubSeq(t, 1, 1) = <<t[1]>>
    <3>1. SubSeq(t, 1, 1) \in Seq(S) /\ Len(SubSeq(t, 1, 1)) = 1 /\ SubSeq(t, 1, 1)[1] = t[1]
      BY <1>1, <1>4, SubSeqProperties
    <3>2. \A s \in Seq(S) : Len(s) = 1 => s = <<s[1]>>
      OBVIOUS
    <3>3. QED BY <3>1, <3>2
  <2>3. QED BY <2>1, <2>2
<1>7. ASSUME NEW i \in 1 .. Len(t), i < Len(t), i \in H
      PROVE  i + 1 \in H
  <2>1. i + 1 \in 1 .. Len(t) /\ i + 1 \in Nat
    BY <1>1, <1>7
  <2>2. g[i + 1] = g[i] \o <<t[i + 1]>>
    <3>1. i \in 1 .. Len(seqs) /\ i < Len(seqs)
      BY <1>3, <1>7
    <3>2. seqs[i + 1] = <<t[i + 1]>>
      BY <1>2, <2>1
    <3>3. QED BY <1>13, <3>1, <3>2
  <2>3. SubSeq(t, 1, i) \o <<t[i + 1]>> = SubSeq(t, 1, i + 1)
    <3>1. 1 \in 1 .. Len(t) /\ i + 1 \in 1 .. Len(t) /\ (i + 1) - 1 = i
      BY <1>1, <1>4, <1>7, <2>1
    <3>2. SubSeq(t, 1, i + 1) = SubSeq(t, 1, (i + 1) - 1) \o <<t[i + 1]>>
      BY <3>1, SubSeqRecursiveSecond
    <3>3. QED BY <3>1, <3>2
  <2>4. QED BY <1>7, <2>1, <2>2, <2>3
<1>8. 1 .. Len(t) \subseteq H
  <2> HIDE DEF H
  <2>1. QED BY <1>1, <1>6, <1>7, Upwards
<1>9. SubSeq(t, 1, Len(t)) = t
  OBVIOUS
<1>10. Len(t) \in 1 .. Len(t)
  BY <1>1, <1>4
<1>11. QED BY <1>3, <1>5, <1>8, <1>9, <1>10
--------------------------------------------------------------------------------
\* createResolvedString, one parameter.
FilledIn(s, hole, param) ==
  IF s = Thrown \/ ~ \E k \in DOMAIN s : s[k] = hole
  THEN Thrown
  ELSE LET pos == CHOOSE k \in DOMAIN s :
                    s[k] = hole /\ \A j \in 1 .. (k - 1) : s[j] # hole
       IN  SubSeq(s, 1, pos - 1) \o param \o SubSeq(s, pos + 1, Len(s))

\* A text with a hole.
HoleBetween(S, s, A, hole, B) ==
  /\ hole \in S /\ A \in Seq(S) /\ B \in Seq(S)
  /\ s = A \o <<hole>> \o B
  /\ hole # "std::out_of_range" /\ \A i \in DOMAIN A : A[i] # hole

\* The parameter stands where the hole was.
FillsBetween(s, A, hole, B, param) == FilledIn(s, hole, param) = A \o param \o B

\* It takes the place of the hole, wherever that is.
LEMMA HoleFilled ==
  ASSUME NEW S, NEW s, NEW A, NEW hole, NEW B, HoleBetween(S, s, A, hole, B), NEW param
  PROVE  FillsBetween(s, A, hole, B, param)
<1> DEFINE n == Len(A) + 1
           First(k) == k \in DOMAIN s /\ s[k] = hole /\ \A j \in 1 .. (k - 1) : s[j] # hole
           pos == CHOOSE k \in DOMAIN s : s[k] = hole /\ \A j \in 1 .. (k - 1) : s[j] # hole
<1>0. /\ hole \in S /\ A \in Seq(S) /\ B \in Seq(S)
      /\ s = A \o <<hole>> \o B
      /\ hole # "std::out_of_range" /\ \A i \in DOMAIN A : A[i] # hole
  BY DEF HoleBetween
<1> USE <1>0
<1>1. Len(A) \in Nat /\ Len(B) \in Nat /\ DOMAIN A = 1 .. Len(A)
  OBVIOUS
<1>2. /\ s \in Seq(S) /\ Len(s) = n + Len(B) /\ DOMAIN s = 1 .. Len(s)
      /\ s[n] = hole /\ \A j \in 1 .. Len(A) : s[j] = A[j]
  BY <1>1
<1>3. n \in DOMAIN s /\ n \in Nat /\ n - 1 = Len(A)
  BY <1>1, <1>2
<1>4. SubSeq(s, 1, n - 1) = A /\ SubSeq(s, n + 1, Len(s)) = B
  BY <1>1, <1>2
<1> HIDE DEF n
<1>5. First(n)
  BY <1>1, <1>2, <1>3
<1>6. ASSUME NEW k \in DOMAIN s, First(k)
      PROVE  k = n
  <2>1. k \in Nat /\ k > 0
    BY <1>2
  <2>2. ~(n \in 1 .. (k - 1)) /\ ~(k \in 1 .. (n - 1))
    BY <1>5, <1>6
  <2>3. QED BY <1>2, <1>3, <2>1, <2>2
<1>7. pos = n
  <2>1. pos \in DOMAIN s /\ First(pos)
    BY <1>5
  <2> HIDE DEF pos, First
  <2>2. QED BY <1>6, <2>1
<1>8. s # Thrown
  <2>1. Thrown[1] # hole /\ DOMAIN Thrown = {1}
    BY DEF Thrown
  <2>2. QED BY <1>2, <1>3, <2>1
<1>9. FilledIn(s, hole, param) = SubSeq(s, 1, pos - 1) \o param \o SubSeq(s, pos + 1, Len(s))
  BY <1>3, <1>2, <1>8 DEF FilledIn
<1> HIDE DEF pos
<1>10. QED BY <1>4, <1>7, <1>9 DEF FillsBetween
--------------------------------------------------------------------------------
\* The texts of holes, and texts without them.
HoleTexts == {Hole(i) : i \in Nat \ {0}}
NoHoles(s) == \A k \in DOMAIN s : s[k] \notin HoleTexts

\* A message as applications set them, of pieces that do not look like holes.
PlainMessage(f, args) ==
  /\ f \in Formats /\ NoHoles(f)
  /\ args \in Seq(Seq(STRING)) /\ Len(args) = ParameterCnt(f)
  /\ \A i \in DOMAIN args : NoHoles(args[i])

\* A format string of which the first i parameters have been filled in.
Stage(f, args, i) ==
  [k \in DOMAIN f |->
     IF f[k] = "%" THEN IF ParamIndex(f, k) <= i THEN args[ParamIndex(f, k)]
                        ELSE <<Hole(ParamIndex(f, k))>>
     ELSE <<f[k]>>]

\* What it is made of.
LEMMA StageIs ==
  ASSUME NEW f, NEW args, PlainMessage(f, args), NEW i \in Nat
  PROVE  LET s == Stage(f, args, i)
             S == STRING \cup HoleTexts
         IN  /\ DOMAIN f = 1 .. Len(f) /\ Len(f) \in Nat
             /\ s \in Seq(Seq(S)) /\ Len(s) = Len(f)
             /\ \A k \in DOMAIN f :
                  (k \in Specs(f) => ParamIndex(f, k) <= i) => s[k] \in Seq(STRING \ HoleTexts)
<1> DEFINE s == Stage(f, args, i)
           S == STRING \cup HoleTexts
           U == STRING \ HoleTexts
<1>1. DOMAIN f = 1 .. Len(f) /\ Len(f) \in Nat /\ \A k \in DOMAIN f : f[k] \in STRING
  <2>1. f \in Seq(STRING)
    BY FormatAssumption DEF PlainMessage
  <2>2. \A T : \A g \in Seq(T) :
          DOMAIN g = 1 .. Len(g) /\ Len(g) \in Nat /\ \A k \in DOMAIN g : g[k] \in T
    OBVIOUS
  <2>3. QED BY <2>1, <2>2
<1>2. \A k \in DOMAIN f : f[k] \in U /\ <<f[k]>> \in Seq(U)
  BY <1>1 DEF PlainMessage, NoHoles
<1>3. ASSUME NEW k \in Specs(f)
      PROVE  /\ args[ParamIndex(f, k)] \in Seq(U)
             /\ <<Hole(ParamIndex(f, k))>> \in Seq(S)
  <2> DEFINE n == ParamIndex(f, k)
  <2>1. n \in 1 .. ParameterCnt(f) /\ n \in Nat \ {0}
    BY Ranks, HoleIndex DEF PlainMessage
  <2> HIDE DEF n
  <2>2. args[n] \in Seq(STRING) /\ n \in DOMAIN args
    BY <2>1 DEF PlainMessage
  <2>3. NoHoles(args[n])
    BY <2>2 DEF PlainMessage
  <2>4. \A t \in Seq(STRING) : (\A j \in DOMAIN t : t[j] \notin HoleTexts) => t \in Seq(U)
    <3>1. SUFFICES ASSUME NEW t \in Seq(STRING), \A j \in DOMAIN t : t[j] \notin HoleTexts
                   PROVE  t \in Seq(U)
      OBVIOUS
    <3>2. Len(t) \in Nat /\ t = [j \in 1 .. Len(t) |-> t[j]] /\ \A j \in 1 .. Len(t) : t[j] \in U
      BY <3>1
    <3> HIDE DEF U
    <3>3. QED BY <3>2
  <2>5. args[n] \in Seq(U)
    BY <2>2, <2>3, <2>4 DEF NoHoles
  <2>6. Hole(n) \in HoleTexts
    BY <2>1 DEF HoleTexts
  <2>7. <<Hole(n)>> \in Seq(S)
    BY <2>6
  <2>8. QED BY <2>5, <2>7 DEF n
<1>4. \A t \in Seq(U) : t \in Seq(S)
  <2>1. U \subseteq S
    OBVIOUS
  <2> HIDE DEF U, S
  <2>2. QED BY <2>1, SeqMonotonic
<1>5. \A k \in DOMAIN f : s[k] = IF k \in Specs(f)
                                 THEN IF ParamIndex(f, k) <= i THEN args[ParamIndex(f, k)]
                                      ELSE <<Hole(ParamIndex(f, k))>>
                                 ELSE <<f[k]>>
  BY DEF Stage, Specs
<1> HIDE DEF U, S
<1>6. \A k \in DOMAIN f : /\ s[k] \in Seq(S)
                          /\ (k \in Specs(f) => ParamIndex(f, k) <= i) => s[k] \in Seq(U)
  BY <1>2, <1>3, <1>4, <1>5
<1>7. s = [k \in 1 .. Len(f) |-> s[k]]
  BY <1>1 DEF Stage
<1> HIDE DEF s
<1>8. s \in Seq(Seq(S)) /\ Len(s) = Len(f)
  BY <1>1, <1>6, <1>7
<1>9. QED BY <1>1, <1>6, <1>8 DEF s, S, U

\* The next parameter takes the place of its hole.
LEMMA StageFilled ==
  ASSUME NEW f, NEW args, PlainMessage(f, args), f # <<>>, NEW i \in 1 .. ParameterCnt(f)
  PROVE  FilledIn(FlattenSeq(Stage(f, args, i - 1)), Hole(i), args[i])
           = FlattenSeq(Stage(f, args, i))
<1> DEFINE s == Stage(f, args, i - 1)
           t == Stage(f, args, i)
           S == STRING \cup HoleTexts
           U == STRING \ HoleTexts
<1>1. PICK k \in Specs(f) : ParamIndex(f, k) = i
  BY EachNumber DEF PlainMessage
<1>2. /\ i \in Nat /\ i - 1 \in Nat /\ ~(i <= i - 1) /\ i <= i
      /\ Specs(f) \subseteq Nat /\ i \in Nat \ {0} /\ i \in DOMAIN f
  <2>1. /\ Specs(f) \subseteq Nat /\ i \in Nat \ {0}
        /\ ParameterCnt(f) \in Nat /\ i \in 1 .. Len(f) /\ f \in Seq(STRING)
    BY <1>1, Ranks, HoleIndex, FormatAssumption DEF PlainMessage
  <2>2. QED BY <2>1
<1>3. /\ k \in DOMAIN f /\ DOMAIN f = 1 .. Len(f) /\ Len(f) \in Nat
      /\ s \in Seq(Seq(S)) /\ Len(s) = Len(f)
      /\ t \in Seq(Seq(S)) /\ Len(t) = Len(f)
  BY <1>2, StageIs DEF Specs
<1>4. s[k] = <<Hole(i)>> /\ t[k] = args[i]
  BY <1>1, <1>2 DEF Stage, Specs
<1>5. \A j \in Specs(f) : j # k =>
        /\ ParamIndex(f, j) \in Nat /\ ParamIndex(f, j) # i
        /\ j < k => ParamIndex(f, j) < i
  <2>1. SUFFICES ASSUME NEW j \in Specs(f), j # k
                 PROVE  /\ ParamIndex(f, j) \in Nat /\ ParamIndex(f, j) # i
                        /\ j < k => ParamIndex(f, j) < i
    OBVIOUS
  <2>2. /\ ParamIndex(f, j) \in 1 .. ParameterCnt(f) /\ ParameterCnt(f) \in Nat
        /\ j < k => ParamIndex(f, j) < ParamIndex(f, k)
        /\ k < j => ParamIndex(f, k) < ParamIndex(f, j)
    BY Ranks DEF PlainMessage
  <2>3. j \in Nat /\ k \in Nat
    BY <1>2
  <2>4. j < k \/ k < j
    BY <2>1, <2>3
  <2>5. QED BY <1>1, <1>2, <2>2, <2>4
<1>6. \A j \in DOMAIN f : j # k => t[j] = s[j]
  <2>1. SUFFICES ASSUME NEW j \in DOMAIN f, j # k
                 PROVE  t[j] = s[j]
    OBVIOUS
  <2>2. CASE j \in Specs(f)
    <3>1. ParamIndex(f, j) <= i - 1 <=> ParamIndex(f, j) <= i
      BY <1>2, <1>5, <2>1, <2>2
    <3>2. QED BY <3>1 DEF Stage
  <2>3. CASE j \notin Specs(f)
    BY <2>3 DEF Stage, Specs
  <2>4. QED BY <2>2, <2>3
<1>7. \A j \in DOMAIN f : j < k => s[j] \in Seq(U)
  <2>1. SUFFICES ASSUME NEW j \in DOMAIN f, j < k
                 PROVE  s[j] \in Seq(U)
    OBVIOUS
  <2>2. j \in Nat /\ k \in Nat /\ j # k
    BY <1>2, <1>3, <2>1
  <2>3. j \in Specs(f) => ParamIndex(f, j) <= i - 1
    BY <1>2, <1>5, <2>1, <2>2
  <2>4. QED BY <1>2, <2>3, StageIs
<1> HIDE DEF s, t, S, U
<1>8. s # <<>> /\ t # <<>> /\ DifferAt(S, s, t, k)
  <2>1. k \in 1 .. Len(s) /\ Len(t) = Len(s) /\ \A j \in 1 .. Len(s) : j # k => t[j] = s[j]
    BY <1>3, <1>6
  <2>2. \A x : x = <<>> => Len(x) = 0
    OBVIOUS
  <2>3. Len(s) # 0
    BY <1>3, <2>1
  <2>4. QED BY <1>3, <2>1, <2>2, <2>3 DEF DifferAt
<1>9. PICK g : Joins(g, s) /\ FlattenSeq(s) = g[Len(s)]
  BY <1>3, <1>8, FlattenIs
<1>10. PICK h : Joins(h, t) /\ FlattenSeq(t) = h[Len(t)]
  BY <1>3, <1>8, FlattenIs
<1> DEFINE A == IF k = 1 THEN <<>> ELSE g[k - 1]
<1>19. Len(t) = Len(s)
  BY <1>3
<1>20. Around(S, s, t, k, g, h, A)
  <2>1. IsBefore(A, g, k)
    BY DEF IsBefore
  <2> HIDE DEF A
  <2>2. QED BY <1>8, <1>9, <1>10, <2>1, JoinDiffer, Zenon
<1>11. PICK B \in Seq(S) : g[Len(s)] = A \o s[k] \o B /\ h[Len(t)] = A \o t[k] \o B
  BY <1>20 DEF Around
<1>12. A \in Seq(U)
  <2>1. CASE k = 1
    <3>1. <<>> \in Seq(U)
      OBVIOUS
    <3>2. QED BY <2>1, <3>1
  <2>2. CASE k # 1
    <3> DEFINE m == k - 1
    <3>1. m \in 1 .. Len(s) /\ m \in 1 .. m /\ \A j \in 1 .. m : j \in DOMAIN f /\ j < k
      <4>1. Len(s) \in Nat /\ DOMAIN f = 1 .. Len(s) /\ k \in 1 .. Len(s)
        BY <1>2, <1>3
      <4>2. QED BY <4>1, <2>2
    <3>2. A = g[m]
      BY <2>2
    <3> HIDE DEF m, A
    <3>3. \A j \in 1 .. m : s[j] \in Seq(U)
      BY <1>7, <3>1
    <3>4. \A j \in 1 .. m : g[j] \in Seq(U)
      BY <1>3, <1>9, <3>1, <3>3, JoinIn
    <3>5. QED BY <3>1, <3>2, <3>4
  <2>3. QED BY <2>1, <2>2
<1> HIDE DEF A
<1>13. Hole(i) \in S /\ Hole(i) \notin U /\ Hole(i) # "std::out_of_range"
  <2>1. Hole(i) \in HoleTexts
    BY <1>2 DEF HoleTexts
  <2>2. Hole(i) # "std::out_of_range"
    BY <1>2, FormatAssumption DEF PlainMessage
  <2>3. Hole(i) \in S /\ Hole(i) \notin U
    BY <2>1 DEF S, U
  <2>4. QED BY <1>2, <2>2, <2>3
<1>14. A \in Seq(S) /\ \A j \in DOMAIN A : A[j] # Hole(i)
  <2>1. U \subseteq S
    BY DEF U, S
  <2>2. A \in Seq(S)
    BY <1>12, <2>1, SeqMonotonic
  <2>3. \A j \in DOMAIN A : A[j] \in U
    BY <1>12
  <2>4. QED BY <1>13, <2>2, <2>3
<1>15. HoleBetween(S, FlattenSeq(s), A, Hole(i), B)
  <2>1. FlattenSeq(s) = A \o <<Hole(i)>> \o B
    BY <1>4, <1>9, <1>11
  <2>2. QED BY <1>13, <1>14, <2>1 DEF HoleBetween
<1>16. FilledIn(FlattenSeq(s), Hole(i), args[i]) = A \o args[i] \o B
  <2>1. FillsBetween(FlattenSeq(s), A, Hole(i), B, args[i])
    BY <1>15, HoleFilled, Zenon
  <2>2. QED BY <2>1 DEF FillsBetween
<1>17. FilledIn(FlattenSeq(s), Hole(i), args[i]) = FlattenSeq(t)
  BY <1>4, <1>10, <1>11, <1>16
<1>18. QED BY <1>17 DEF s, t
--------------------------------------------------------------------------------
\* With no parameter filled in, it is the template; with all, the text of printf.
LEMMA StageEnds ==
  ASSUME NEW f, NEW args, PlainMessage(f, args), f # <<>>
  PROVE  /\ FlattenSeq(Stage(f, args, 0)) = TemplateStr(f)
         /\ FlattenSeq(Stage(f, args, ParameterCnt(f))) = Printf(f, args)
<1> DEFINE s == Stage(f, args, 0)
           t == TemplateStr(f)
           S == STRING \cup HoleTexts
<1>1. /\ DOMAIN f = 1 .. Len(f) /\ Len(f) \in Nat
      /\ s \in Seq(Seq(S)) /\ Len(s) = Len(f)
  BY StageIs
<1>2. t \in Seq(Pieces) /\ t # <<>>
  BY TemplateIs DEF PlainMessage
<1>3. DOMAIN t = DOMAIN f
  BY DEF TemplateStr
<1>4. ASSUME NEW k \in Specs(f)
      PROVE  ParamIndex(f, k) \in Nat /\ ~(ParamIndex(f, k) <= 0) /\ ParamIndex(f, k) <= ParameterCnt(f)
  BY Ranks DEF PlainMessage
<1>5. ASSUME NEW k \in DOMAIN f
      PROVE  s[k] = <<t[k]>>
  <2>1. CASE f[k] = "%"
    <3>1. k \in Specs(f)
      BY <2>1 DEF Specs
    <3>2. QED BY <1>4, <2>1, <3>1 DEF Stage, TemplateStr
  <2>2. CASE f[k] # "%"
    BY <2>2 DEF Stage, TemplateStr
  <2>3. QED BY <2>1, <2>2
<1>6. Stage(f, args, ParameterCnt(f))
        = [k \in DOMAIN f |-> IF f[k] = "%" THEN args[ParamIndex(f, k)] ELSE <<f[k]>>]
  <2>1. ASSUME NEW k \in DOMAIN f, f[k] = "%"
        PROVE  ParamIndex(f, k) <= ParameterCnt(f)
    BY <1>4, <2>1 DEF Specs
  <2>2. QED BY <2>1 DEF Stage
<1>7. FlattenSeq(Stage(f, args, ParameterCnt(f))) = Printf(f, args)
  BY <1>6 DEF Printf
<1> HIDE DEF s, t, S
<1>8. Len(t) = Len(f) /\ Len(t) \in Nat /\ t = [k \in 1 .. Len(t) |-> t[k]]
  BY <1>1, <1>2, <1>3
<1>9. \A k \in 1 .. Len(t) : s[k] = <<t[k]>> /\ t[k] \in S
  <2>1. ASSUME NEW k \in 1 .. Len(t)
        PROVE  s[k] = <<t[k]>> /\ t[k] \in S
    <3>1. s[k] = <<t[k]>>
      BY <1>1, <1>5, <1>8
    <3>2. s[k] \in Seq(S)
      BY <1>1, <1>8
    <3>3. \A x : <<x>> \in Seq(S) => x \in S
      <4>1. SUFFICES ASSUME NEW x, <<x>> \in Seq(S)
                     PROVE  x \in S
        OBVIOUS
      <4>2. Len(<<x>>) = 1 /\ <<x>>[1] = x
        OBVIOUS
      <4>3. 1 \in 1 .. Len(<<x>>)
        BY <4>2
      <4>4. <<x>>[1] \in S
        BY <4>1, <4>3, ElementOfSeq
      <4>5. QED BY <4>2, <4>4
    <3>4. QED BY <3>1, <3>2, <3>3
  <2>2. QED BY <2>1
<1>10. t \in Seq(S)
  BY <1>8, <1>9
<1>11. FlattenSeq(s) = t
  BY <1>1, <1>2, <1>8, <1>9, <1>10, JoinSingle
<1>12. QED BY <1>7, <1>11 DEF s, t

\* What createResolvedString builds, parameter by parameter.
BuiltBy(b, template, params) ==
  b = [i \in 0 .. Len(params) |->
         IF i = 0 THEN template ELSE FilledIn(b[i - 1], Hole(i), params[i])]

\* createResolvedString gives what printf gives for the same parameters, however many
\* conversions there are and wherever they stand, if no piece of the format string or of
\* a parameter looks like a hole (a parameter with the text "{1}" would be taken for one).
THEOREM ResolvedAsPrintf ==
  ASSUME NEW f, NEW args, PlainMessage(f, args), f # <<>>
  PROVE  CreateResolvedString(TemplateStr(f), args) = Printf(f, args)
<1> DEFINE n == Len(args)
           t == TemplateStr(f)
           T(i) == FlattenSeq(Stage(f, args, i))
           W == [i \in 0 .. n |-> T(i)]
           B == CHOOSE b : BuiltBy(b, t, args)
<1>1. n \in Nat /\ n = ParameterCnt(f)
  <2>1. args \in Seq(Seq(STRING)) /\ n = ParameterCnt(f)
    BY DEF PlainMessage
  <2>2. QED BY <2>1
<1>2. T(0) = t /\ T(n) = Printf(f, args)
  BY <1>1, StageEnds
<1>3. \A i \in 1 .. n : FilledIn(T(i - 1), Hole(i), args[i]) = T(i)
  BY <1>1, StageFilled
<1>4. CreateResolvedString(t, args) = B[n]
  BY DEF CreateResolvedString, BuiltBy, FilledIn
<1> HIDE DEF t, T
<1>5. BuiltBy(W, t, args)
  <2>1. ASSUME NEW i \in 0 .. n
        PROVE  W[i] = IF i = 0 THEN t ELSE FilledIn(W[i - 1], Hole(i), args[i])
    <3>1. CASE i = 0
      BY <1>2, <3>1
    <3>2. CASE i # 0
      <4>1. i \in 1 .. n /\ i - 1 \in 0 .. n
        BY <1>1, <3>2
      <4>2. W[i] = T(i) /\ W[i - 1] = T(i - 1)
        BY <4>1
      <4>3. QED BY <1>3, <3>2, <4>1, <4>2
    <3>3. QED BY <3>1, <3>2
  <2>2. W = [i \in 0 .. n |-> W[i]]
    OBVIOUS
  <2> HIDE DEF W
  <2>3. W = [i \in 0 .. n |-> IF i = 0 THEN t ELSE FilledIn(W[i - 1], Hole(i), args[i])]
    BY <2>1, <2>2
  <2>4. QED BY <2>3 DEF BuiltBy
<1>6. BuiltBy(B, t, args)
  BY <1>5
<1> HIDE DEF B
<1>7. \A i \in 0 .. n : B[i] = IF i = 0 THEN t ELSE FilledIn(B[i - 1], Hole(i), args[i])
  BY <1>6 DEF BuiltBy
<1> DEFINE H == {i \in Nat : B[i] = T(i)}
<1>8. 0 \in H
  BY <1>1, <1>2, <1>7
<1>9. ASSUME NEW i \in 0 .. n, i < n, i \in H
      PROVE  i + 1 \in H
  <2>1. i + 1 \in 1 .. n /\ i + 1 \in 0 .. n /\ i + 1 # 0 /\ (i + 1) - 1 = i /\ i + 1 \in Nat
    BY <1>1, <1>9
  <2>2. B[i + 1] = FilledIn(B[i], Hole(i + 1), args[i + 1])
    BY <1>7, <2>1
  <2>3. FilledIn(T(i), Hole(i + 1), args[i + 1]) = T(i + 1)
    BY <1>3, <2>1
  <2>4. B[i] = T(i)
    BY <1>9
  <2>5. QED BY <2>1, <2>2, <2>3, <2>4
<1>10. 0 .. n \subseteq H
  <2> HIDE DEF H
  <2>1. QED BY <1>1, <1>8, <1>9, Upwards
<1>11. n \in 0 .. n
  BY <1>1
<1>12. B[n] = T(n)
  BY <1>10, <1>11
<1>13. QED BY <1>2, <1>4, <1>12 DEF t
--------------------------------------------------------------------------------
\* No piece that a device shows looks like a hole.
PlainShown ==
  \A d \in Devices : \A n \in DOMAIN Shown[d] : \A c \in Shown[d][n] :
    c.msg # NoMsg => NoHoles(c.msg.fmt) /\ \A i \in DOMAIN c.msg.args : NoHoles(c.msg.args[i])

\* A template is that of the format string whose code it is known under.
TemplateOf(c, template) == \E f \in Formats : Hash[f] = c /\ template = TemplateStr(f)

TemplateInv ==
  /\ \A d \in Devices : fetch[d] # NoFetch =>
       \A c \in DOMAIN fetch[d] : TemplateOf(c, fetch[d][c])
  /\ \A c \in DOMAIN strings.strs :
       strings.strs[c].template # <<>> => TemplateOf(c, strings.strs[c].template)

\* What was reported is what a device can show.
MessageInv ==
  \A d \in DOMAIN last : \A p \in DOMAIN last[d] :
    last[d][p].msg # NoMsg => PlainMessage(last[d][p].msg.fmt, last[d][p].msg.args)

\* Templates stay with their codes on the way from a device to the records, whoever has
\* sent them and whatever was reported before.
LEMMA TemplateStep == BaseInv /\ TemplateInv /\ [Next]_vars => TemplateInv'
<1> SUFFICES ASSUME BaseInv, TemplateInv, [Next]_vars PROVE TemplateInv'
  OBVIOUS
<1> USE DEF BaseInv
<1>1. ASSUME UNCHANGED <<strings, fetch>>
      PROVE  TemplateInv'
  BY <1>1 DEF TemplateInv, TemplateOf
<1>2. ASSUME NEW d \in Devices, NEW refs, NEW c \in DOMAIN SelectFormatStrings(store[d], refs)
      PROVE  TemplateOf(c, SelectFormatStrings(store[d], refs)[c])
  BY <1>2 DEF StoreInv, SelectFormatStrings, TemplateOf
<1>3. ASSUME NEW d \in Devices, NEW defs, fetch' = [fetch EXCEPT ![d] = defs],
             defs # NoFetch => \A c \in DOMAIN defs : TemplateOf(c, defs[c]),
             UNCHANGED strings
      PROVE  TemplateInv'
  <2>1. \A e \in Devices : fetch'[e] = IF e = d THEN defs ELSE fetch[e]
    BY <1>3 DEF FetchInv
  <2>2. ASSUME NEW e \in Devices, fetch'[e] # NoFetch, NEW c \in DOMAIN fetch'[e]
        PROVE  TemplateOf(c, fetch'[e][c])
    BY <1>3, <2>1, <2>2 DEF TemplateInv
  <2>3. QED BY <1>3, <2>2 DEF TemplateInv, TemplateOf
<1>4. ASSUME NEW d \in Devices, UpdateDeviceHealth(d)
      PROVE  TemplateInv'
  <2>1. PICK tree \in Trees(d), others \in SUBSET (DOMAIN copy \ {d}) :
          ShownTree(d, tree) /\ Updated(d, tree, others)
    BY <1>4, UpdateIs
  <2> DEFINE codes == NewCodes(OldCopy(d, Report(d, tree)), Report(d, tree))
  <2>2. strings' = ReportFormatCodes(strings, d, codes) /\ fetch' = fetch
    BY <2>1 DEF Updated
  <2> HIDE DEF codes
  <2> DEFINE new == codes \ ({0} \cup DOMAIN strings.strs)
  <2>3. strings'.strs = [c \in DOMAIN strings.strs \cup new |->
                           IF c \in new THEN [dev |-> d, template |-> <<>>]
                           ELSE strings.strs[c]]
    BY <2>2 DEF ReportFormatCodes
  <2> HIDE DEF new
  <2>4. ASSUME NEW c \in DOMAIN strings'.strs, strings'.strs[c].template # <<>>
        PROVE  TemplateOf(c, strings'.strs[c].template)
    BY <2>3, <2>4 DEF TemplateInv
  <2>5. QED BY <2>2, <2>4 DEF TemplateInv, TemplateOf
<1>5. ASSUME NEW d \in Devices, DefineStrings(d)
      PROVE  TemplateInv'
  <2> DEFINE defs == fetch[d]
  <2>1. /\ defs # NoFetch
        /\ strings' = UpdateStringDefinitions(strings, defs)
        /\ fetch' = [fetch EXCEPT ![d] = NoFetch]
    BY <1>5 DEF DefineStrings
  <2>2. \A c \in DOMAIN defs : TemplateOf(c, defs[c])
    BY <2>1 DEF TemplateInv
  <2> HIDE DEF defs
  <2>3. strings'.strs = [c \in DOMAIN strings.strs |->
                           IF c \in DOMAIN defs
                           THEN [strings.strs[c] EXCEPT !.template = defs[c]]
                           ELSE strings.strs[c]]
    BY <2>1 DEF UpdateStringDefinitions
  <2>4. ASSUME NEW c \in DOMAIN strings'.strs, strings'.strs[c].template # <<>>
        PROVE  TemplateOf(c, strings'.strs[c].template)
    <3>1. CASE c \in DOMAIN defs
      <4>1. strings.strs[c] \in [dev : Devices, template : Seq(Pieces)]
        BY <2>3 DEF RecordsInv
      <4>2. strings'.strs[c].template = defs[c]
        BY <2>3, <3>1, <4>1
      <4>3. QED BY <2>2, <3>1, <4>2
    <3>2. CASE c \notin DOMAIN defs
      BY <2>3, <2>4, <3>2 DEF TemplateInv
    <3>3. QED BY <3>1, <3>2
  <2>5. ASSUME NEW e \in Devices, fetch'[e] # NoFetch, NEW c \in DOMAIN fetch'[e]
        PROVE  TemplateOf(c, fetch'[e][c])
    <3>1. fetch'[e] = fetch[e]
      BY <2>1, <2>5 DEF FetchInv
    <3>2. QED BY <2>5, <3>1 DEF TemplateInv
  <2>6. QED BY <2>4, <2>5 DEF TemplateInv, TemplateOf
<1>6. ASSUME NEW d \in Devices,
             \/ \E f \in Formats : RegisterString(d, f)
             \/ Restart(d) \/ RejectDeviceHealth(d)
      PROVE  TemplateInv'
  BY <1>1, <1>6 DEF RegisterString, Restart, RejectDeviceHealth
<1>7. ASSUME NEW d \in Devices, RequestStrings(d)
      PROVE  TemplateInv'
  BY <1>2, <1>3, <1>7 DEF RequestStrings
<1>8. ASSUME NEW d \in Devices, RequestAllStrings(d)
      PROVE  TemplateInv'
  BY <1>2, <1>3, <1>8 DEF RequestAllStrings, AllFormatStrings
<1>9. ASSUME NEW d \in Devices, LoseStrings(d)
      PROVE  TemplateInv'
  BY <1>3, <1>9 DEF LoseStrings
<1>10. CASE UNCHANGED vars
  BY <1>1, <1>10 DEF vars
<1>11. QED BY <1>4, <1>5, <1>6, <1>7, <1>8, <1>9, <1>10 DEF Next

\* An update records a tree that is shown.
LEMMA MessageStep ==
  ASSUME PlainShown
  PROVE  BaseInv /\ MessageInv /\ [Next]_vars => MessageInv'
<1> SUFFICES ASSUME BaseInv, MessageInv, [Next]_vars PROVE MessageInv'
  OBVIOUS
<1> USE DEF BaseInv
<1>1. ASSUME NEW d \in Devices, UpdateDeviceHealth(d)
      PROVE  MessageInv'
  <2>1. PICK tree \in Trees(d), others \in SUBSET (DOMAIN copy \ {d}) :
          ShownTree(d, tree) /\ Updated(d, tree, others)
    BY <1>1, UpdateIs
  <2>2. last' = [e \in DOMAIN last \cup {d} |-> IF e = d THEN tree ELSE last[e]]
    BY <2>1 DEF Updated
  <2>3. ASSUME NEW p \in DOMAIN tree, tree[p].msg # NoMsg
        PROVE  PlainMessage(tree[p].msg.fmt, tree[p].msg.args)
    <3>1. PICK n \in DOMAIN Shown[d] : tree[p] \in Shown[d][n]
      BY <2>1 DEF ShownTree
    <3>2. QED BY <2>3, <3>1, CacheAssumption DEF PlainShown, PlainMessage
  <2>4. ASSUME NEW e \in DOMAIN last', NEW p \in DOMAIN last'[e], last'[e][p].msg # NoMsg
        PROVE  PlainMessage(last'[e][p].msg.fmt, last'[e][p].msg.args)
    BY <2>2, <2>3, <2>4 DEF MessageInv
  <2>5. QED BY <2>4 DEF MessageInv, PlainMessage, NoHoles, HoleTexts
<1>2. ASSUME UNCHANGED last
      PROVE  MessageInv'
  <2>1. ASSUME NEW e \in DOMAIN last', NEW p \in DOMAIN last'[e], last'[e][p].msg # NoMsg
        PROVE  PlainMessage(last'[e][p].msg.fmt, last'[e][p].msg.args)
    BY <1>2, <2>1 DEF MessageInv
  <2>2. QED BY <2>1 DEF MessageInv, PlainMessage, NoHoles, HoleTexts
<1>3. ASSUME NEW d \in Devices,
             \/ \E f \in Formats : RegisterString(d, f)
             \/ Restart(d) \/ RejectDeviceHealth(d) \/ RequestStrings(d)
             \/ RequestAllStrings(d) \/ DefineStrings(d) \/ LoseStrings(d)
      PROVE  MessageInv'
  <2>1. UNCHANGED last
    BY <1>3 DEF RegisterString, Restart, RejectDeviceHealth, RequestStrings,
       RequestAllStrings, DefineStrings, LoseStrings
  <2>2. QED BY <1>2, <2>1
<1>4. CASE UNCHANGED vars
  BY <1>2, <1>4 DEF vars
<1>5. QED BY <1>1, <1>3, <1>4 DEF Next

\* What is shown for a message is the text of printf, or that there is none yet.
LEMMA RenderedText ==
  ASSUME NoCollision, TemplateInv, NEW f, NEW args, PlainMessage(f, args)
  PROVE  RenderInstance(strings, [code |-> Hash[f], params |-> args])
           \in {NotAvailable, Printf(f, args)}
<1> DEFINE inst == [code |-> Hash[f], params |-> args]
           template == strings.strs[Hash[f]].template
<1>1. f \in Formats /\ Hash[f] # 0
  BY FormatAssumption DEF PlainMessage
<1>2. CASE Hash[f] \notin DOMAIN strings.strs \/ template = <<>>
  BY <1>1, <1>2 DEF RenderInstance
<1>3. CASE Hash[f] \in DOMAIN strings.strs /\ template # <<>>
  <2>1. template = TemplateStr(f)
    BY <1>1, <1>3 DEF TemplateInv, TemplateOf, NoCollision
  <2>2. f # <<>>
    <3>1. f = <<>> => TemplateStr(f) = <<>>
      BY DEF TemplateStr
    <3>2. QED BY <1>3, <2>1, <3>1
  <2>3. RenderInstance(strings, inst) = CreateResolvedString(template, args)
    BY <1>1, <1>3 DEF RenderInstance
  <2>4. QED BY <2>1, <2>2, <2>3, ResolvedAsPrintf
<1>4. QED BY <1>2, <1>3

\* What a client shows for a component its device has reported is the text that the
\* device would have printed, or that the string is not available: for any strings and
\* any number of parameters, whichever device a template came from, and in whatever
\* order reports, restarts and answers come. Two strings of one code would break this,
\* and so would a piece that looks like a hole, or a device that changed its root ID.
THEOREM TextsAsPrinted ==
  ASSUME NoCollision, "reroot" \notin Env, PlainShown
  PROVE  Spec => []RenderedAsFormatted
<1>1. Init => FollowInv /\ TemplateInv /\ MessageInv
  <2>1. ASSUME Init
        PROVE  FollowInv /\ TemplateInv /\ MessageInv
    <3>1. /\ DOMAIN last = {} /\ DOMAIN strings.strs = {}
          /\ \A d \in Devices : fetch[d] = NoFetch
      BY <2>1 DEF Init, EmptyCache
    <3>2. QED BY <3>1 DEF FollowInv, TemplateInv, MessageInv
  <2>2. QED BY <2>1
<1>2. FollowInv /\ TemplateInv /\ MessageInv => RenderedAsFormatted
  <2>1. SUFFICES ASSUME FollowInv, TemplateInv, MessageInv,
                        NEW e \in HealthReport, e.dev \in DOMAIN last,
                        e.id \in DOMAIN last[e.dev]
                 PROVE  LET msg == last[e.dev][e.id].msg
                        IN  e.text \in IF msg = NoMsg THEN {<<>>}
                                       ELSE {NotAvailable, Printf(msg.fmt, msg.args)}
    BY DEF RenderedAsFormatted
  <2> DEFINE msg == last[e.dev][e.id].msg
  <2>2. e.text = RenderInstance(strings, copy[e.dev][e.id].inst)
    BY DEF HealthReport
  <2>3. copy[e.dev][e.id].inst = InstanceOf(msg)
    BY <2>1 DEF FollowInv, Follows
  <2>4. msg # NoMsg => PlainMessage(msg.fmt, msg.args)
    BY <2>1 DEF MessageInv
  <2> HIDE DEF msg
  <2>5. CASE msg = NoMsg
    <3>1. e.text = <<>>
      BY <2>2, <2>3, <2>5 DEF InstanceOf, Cleared, RenderInstance
    <3>2. QED BY <2>5, <3>1 DEF msg
  <2>6. CASE msg # NoMsg
    <3>1. e.text \in {NotAvailable, Printf(msg.fmt, msg.args)}
      BY <2>1, <2>2, <2>3, <2>4, <2>6, RenderedText DEF InstanceOf
    <3>2. QED BY <2>6, <3>1 DEF msg
  <2>7. QED BY <2>5, <2>6
<1>3. QED
  BY <1>1, <1>2, BaseInvariant, FollowStep, TemplateStep, MessageStep, PTL DEF Spec
================================================================================
