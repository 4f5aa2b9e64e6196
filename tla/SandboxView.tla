---------------------------- MODULE SandboxView ----------------------------
(***************************************************************************)
(* A stack of views (src/minkapi/view/base.go and sandbox.go): view 0 is   *)
(* the base view, view v is a sandbox whose delegate is view v - 1.  The   *)
(* objects are those of one kind, Pods, so that binding is covered too.    *)
(*                                                                         *)
(* A view takes no lock around an operation: the operation is a sequence   *)
(* of calls on stores, each atomic under the mutex of its store, and the   *)
(* calls of several threads interleave.  One such call is one action here. *)
(* Stores hold pointers, so the model has a heap: two stores may hold the  *)
(* same object, and an object may change in place.                         *)
(***************************************************************************)
EXTENDS Naturals, FiniteSets

CONSTANTS
  Keys,        \* object names, records [ns, name]; ns = "" if not namespaced
  Depth,       \* the number of sandboxes stacked on the base view
  Threads,     \* goroutines that call operations of the views
  Scenarios,   \* which operations each of them calls, on which views,
               \* and which nodes they bind pods to
  Nodes,       \* nodes a pod may be bound to
  Vals,        \* what else an object says
  InitKeys     \* the objects that the base view holds at the start

Views == 0..Depth
AllOps == {"Create", "Update", "Bind", "Patch", "PatchStatus", "Delete", "DeleteObjects", "Reset"}
NoNode == "unbound"
Object == [node : Nodes \union {NoNode}, val : Vals]

(* Enough pointers for every store slot and every thread's two locals.     *)
MaxRef == Cardinality(Keys) * (Depth + 1) + 2 * Cardinality(Threads)
Refs == 1..MaxRef
Absent == 0
Tombstone == MaxRef + 1
Slot == Refs \union {Absent, Tombstone}

ASSUME ViewAssumption ==
  /\ Depth \in Nat
  /\ Scenarios \subseteq [ops : [Threads -> SUBSET AllOps], views : [Threads -> SUBSET Views],
                  nodes : SUBSET Nodes]
  /\ InitKeys \subseteq Keys /\ Keys # {} /\ Vals # {} /\ NoNode \notin Nodes
  /\ IsFiniteSet(Keys) /\ IsFiniteSet(Threads)

VARIABLES
  scenario,    \* what the threads do
  stores,      \* [Views -> [Keys -> Slot]], the cache of each view's store
  heap,        \* [Refs -> Object]
  changed,     \* [Views -> BOOLEAN], whether the view's changeCount is not 0
  threads      \* [Threads -> the operation in progress]

vars == <<scenario, stores, heap, changed, threads>>

(* pc is the next call to make, ret the one after a lookup or a count, lvl *)
(* the view whose store a lookup reads next; found is the object a lookup  *)
(* returned and new the object to be stored (0: none); todo are the keys a *)
(* bulk delete has left and exclude the names its listing leaves out.      *)
Idle == [op |-> "none", view |-> 0, key |-> CHOOSE k \in Keys : TRUE, arg |-> NoNode,
         pc |-> "idle", ret |-> "idle", lvl |-> 0, found |-> 0, new |-> 0, todo |-> {},
         exclude |-> {}]

-----------------------------------------------------------------------------
(* Operators over the state.                                               *)

isLive(v, k) == stores[v][k] \in Refs

(* GetObject: the sandbox's own object, unless it is tombstoned or absent  *)
(* there; then the delegate's.  The view that decides is the topmost one   *)
(* with an entry for k.                                                    *)
holders(v, k) == {u \in 0..v : stores[u][k] # Absent}
GetObject(v, k) ==
  IF holders(v, k) = {} THEN Absent
  ELSE stores[CHOOSE u \in holders(v, k) : \A x \in holders(v, k) : x <= u][k]

(* cache.ObjectName.String is "ns/name", or the bare name when there is no *)
(* namespace: a key stands for its string, and this is the string that an  *)
(* object's name alone makes.                                              *)
bareName(k) == [ns |-> "", name |-> k.name]

(* MatchCriteria.Matches for a criteria with only ExcludeNames, which it   *)
(* compares with the object's bare name.                                   *)
Matches(exclude, k) == bareName(k) \notin exclude

ListTombstonedKeys(v) == {k \in Keys : stores[v][k] = Tombstone}

(* store.ListMetaObjects: pairs of a key and the object.                   *)
storeList(v, exclude) ==
  {<<k, stores[v][k]>> : k \in {j \in Keys : isLive(v, j) /\ Matches(exclude, j)}}

(* Mutant of combinePrimarySecondary: the delegate's version is kept too.  *)
combineWithoutPrecedence(primary, secondary) == primary \union secondary

combinePrimarySecondary(primary, secondary) ==
  primary \union {o \in secondary : \A p \in primary : p[1] # o[1]}

(* ListMetaObjects of view v: the criteria passed on to the delegate has   *)
(* its ExcludeNames replaced by the sandbox's tombstoned keys.             *)
ListMetaObjects[v \in Views] ==
  [exclude \in SUBSET Keys |->
     IF v = 0 THEN storeList(0, exclude)
     ELSE combinePrimarySecondary(storeList(v, exclude),
                                  ListMetaObjects[v - 1][ListTombstonedKeys(v)])]

(* The pointers that stores and threads hold, and one that is free.        *)
reachable == (UNION {{stores[v][k] : k \in Keys} : v \in Views})
               \union (UNION {{threads[t].found, threads[t].new} : t \in Threads})
free == Refs \ reachable
fresh == CHOOSE r \in free : TRUE

-----------------------------------------------------------------------------
Garbage == [node |-> NoNode, val |-> CHOOSE x \in Vals : TRUE]

Init ==
  /\ scenario \in Scenarios
  /\ \E place \in [InitKeys -> 1..Cardinality(InitKeys)] :
       /\ \A j, k \in InitKeys : place[j] = place[k] => j = k
       /\ stores = [v \in Views |-> [k \in Keys |->
                      IF v = 0 /\ k \in InitKeys THEN place[k] ELSE Absent]]
  /\ heap = [r \in Refs |-> Garbage]
  /\ changed = [v \in Views |-> v = 0 /\ InitKeys # {}]
  /\ threads = [t \in Threads |-> Idle]

Me(t) == threads[t]
At(t, pc) == threads[t].pc = pc
Go(t, m) == threads' = [threads EXCEPT ![t] = m]
SetStore(v, k, s) == stores' = [stores EXCEPT ![v][k] = s]

(* The operation is over, or has the next key of a bulk delete to do.      *)
Finished(m) ==
  IF m.op = "DeleteObjects" /\ m.todo # {}
  THEN [m EXCEPT !.pc = "nextKey", !.found = 0, !.new = 0, !.exclude = {}] ELSE Idle

(* The heap after a step that made it h, without what nobody refers to.    *)
(* To be the last conjunct of an action: it reads stores' and threads'.    *)
Heap(h) == heap' = [r \in Refs |-> IF r \in reachable' THEN h[r] ELSE Garbage]

-----------------------------------------------------------------------------
(* The first call of each operation, and where it goes once its lookup has *)
(* found the object.                                                       *)
FirstPc(op, v) ==
  CASE op = "Create" -> "add"
    [] op = "Update" -> "update"
    [] op \in {"Bind", "Patch", "PatchStatus"} -> "lookup"
    [] op = "Delete" -> IF v = 0 THEN "remove" ELSE "probe"
    [] op = "DeleteObjects" -> IF v = 0 THEN "removeAll" ELSE "list"
    [] op = "Reset" -> "resetCount"

AfterLookup(op) ==
  CASE op = "Bind" -> "bind" [] op = "Patch" -> "patch" [] op = "PatchStatus" -> "patchStatus"
    [] OTHER -> "idle"

Args(op) == CASE op = "Bind" -> scenario.nodes
              [] op \in {"Patch", "PatchStatus"} -> Vals
              [] OTHER -> {NoNode}

(* A caller starts an operation; Create and Update bring an object.        *)
Begin(t, op, v, k, arg, obj) ==
  LET brings == op \in {"Create", "Update"} IN
  /\ At(t, "idle") /\ free # {}
  /\ Go(t, [Idle EXCEPT !.op = op, !.view = v, !.key = k, !.arg = arg, !.lvl = v,
                        !.pc = FirstPc(op, v), !.ret = AfterLookup(op),
                        !.new = IF brings THEN fresh ELSE 0])
  /\ UNCHANGED <<stores, changed>>
  /\ Heap(IF brings THEN [heap EXCEPT ![fresh] = obj] ELSE heap)

(* One store.Get of a GetObject that walks down the delegates.  Not found  *)
(* anywhere, or tombstoned: the operation returns the error.               *)
Lookup(t) ==
  LET m == Me(t)  s == stores[m.lvl][m.key] IN
  /\ At(t, "lookup")
  /\ \/ s \in Refs /\ Go(t, [m EXCEPT !.pc = m.ret, !.found = s])
     \/ s = Absent /\ m.lvl > 0 /\ Go(t, [m EXCEPT !.lvl = @ - 1])
     \/ (s = Tombstone \/ (s = Absent /\ m.lvl = 0)) /\ Go(t, Finished(m))
  /\ UNCHANGED <<stores, changed>>
  /\ Heap(heap)

(* Mutant of StoreAdd: storeObject returns before changeCount.Add.         *)
StoreAddUncounted(t) ==
  /\ At(t, "add")
  /\ SetStore(Me(t).view, Me(t).key, Me(t).new)
  /\ Go(t, Idle)
  /\ UNCHANGED changed
  /\ Heap(heap)

(* storeObject: store.Add of the caller's object; a tombstone is replaced. *)
StoreAdd(t) ==
  /\ At(t, "add")
  /\ SetStore(Me(t).view, Me(t).key, Me(t).new)
  /\ Go(t, [Me(t) EXCEPT !.pc = "count", !.ret = "idle", !.new = 0])
  /\ UNCHANGED changed
  /\ Heap(heap)

(* changeCount.Add(1), after the store's mutex is released.                *)
Count(t) ==
  /\ At(t, "count")
  /\ changed' = [changed EXCEPT ![Me(t).view] = TRUE]
  /\ Go(t, IF Me(t).ret = "idle" THEN Finished(Me(t)) ELSE [Me(t) EXCEPT !.pc = Me(t).ret])
  /\ UNCHANGED stores
  /\ Heap(heap)

(* Mutant of StoreUpdate: a tombstone counts as an object to replace.      *)
StoreUpdateOverTombstone(t) ==
  LET m == Me(t)  s == stores[m.view][m.key] IN
  /\ m.pc \in {"update", "updateAgain"}
  /\ \/ /\ s # Absent
        /\ SetStore(m.view, m.key, m.new)
        /\ Go(t, [m EXCEPT !.pc = "count", !.ret = "idle", !.new = 0])
     \/ /\ s = Absent /\ m.view > 0 /\ m.pc = "update"
        /\ Go(t, [m EXCEPT !.pc = "lookup", !.ret = "materialise", !.lvl = m.view - 1])
        /\ UNCHANGED stores
     \/ /\ s = Absent /\ (m.view = 0 \/ m.pc = "updateAgain")
        /\ Go(t, Idle) /\ UNCHANGED stores
  /\ UNCHANGED changed
  /\ Heap(heap)

(* updateObject on the view's own store.  In a sandbox, an object that is  *)
(* not there is first looked up in the delegate and copied.                *)
StoreUpdate(t) ==
  LET m == Me(t)  s == stores[m.view][m.key] IN
  /\ m.pc \in {"update", "updateAgain"}
  /\ \/ /\ s \in Refs
        /\ SetStore(m.view, m.key, m.new)
        /\ Go(t, [m EXCEPT !.pc = "count", !.ret = "idle", !.new = 0])
     \/ /\ s = Absent /\ m.view > 0 /\ m.pc = "update"
        /\ Go(t, [m EXCEPT !.pc = "lookup", !.ret = "materialise", !.lvl = m.view - 1])
        /\ UNCHANGED stores
     \/ /\ s = Tombstone \/ (s = Absent /\ (m.view = 0 \/ m.pc = "updateAgain"))
        /\ Go(t, Idle) /\ UNCHANGED stores
  /\ UNCHANGED changed
  /\ Heap(heap)

(* CreateObject, with NoBroadcast, of a deep copy of the delegate's object.*)
AddCopy(t, m) ==
  /\ free # {}
  /\ SetStore(m.view, m.key, fresh)
  /\ Go(t, m)
  /\ UNCHANGED changed
  /\ Heap([heap EXCEPT ![fresh] = heap[Me(t).found]])

(* ... by UpdateObject and DeleteObject, before they change the copy.      *)
Materialise(t) ==
  /\ At(t, "materialise")
  /\ AddCopy(t, [Me(t) EXCEPT !.pc = "count", !.found = 0,
       !.ret = IF Me(t).op \in {"Delete", "DeleteObjects"} THEN "remove" ELSE "updateAgain"])

(* ... by UpdatePodNodeBinding, when the pod was found in a delegate.      *)
BindMaterialise(t) ==
  /\ At(t, "bind") /\ Me(t).lvl < Me(t).view
  /\ AddCopy(t, [Me(t) EXCEPT !.pc = "count", !.ret = "bind", !.found = fresh,
                              !.lvl = Me(t).view])

(* updatePodNodeBinding: a copy with the node set, ...                     *)
BindCopy(t) ==
  /\ At(t, "bind") /\ Me(t).lvl = Me(t).view /\ free # {}
  /\ Go(t, [Me(t) EXCEPT !.pc = "lookup", !.ret = "bindCheck", !.new = fresh, !.found = 0])
  /\ UNCHANGED <<stores, changed>>
  /\ Heap([heap EXCEPT ![fresh] = [heap[Me(t).found] EXCEPT !.node = Me(t).arg]])

(* Mutant of BindCheck: a bound pod is bound again.                        *)
BindUnchecked(t) ==
  /\ At(t, "bindCheck")
  /\ Go(t, [Me(t) EXCEPT !.pc = "update", !.found = 0])
  /\ UNCHANGED <<stores, changed>>
  /\ Heap(heap)

(* ... which replaces the pod if the pod is not bound yet.                 *)
BindCheck(t) ==
  /\ At(t, "bindCheck")
  /\ Go(t, IF heap[Me(t).found].node # NoNode THEN Idle
           ELSE [Me(t) EXCEPT !.pc = "update", !.found = 0])
  /\ UNCHANGED <<stores, changed>>
  /\ Heap(heap)

(* patchObject changes the object that GetObject returned, in place, and   *)
(* then updates the view with it, or returns an error if the patch touched *)
(* the name or the namespace.                                              *)
Patch(t) ==
  /\ At(t, "patch")
  /\ \/ Go(t, [Me(t) EXCEPT !.pc = "update", !.new = Me(t).found, !.found = 0])
     \/ Go(t, Idle)
  /\ UNCHANGED <<stores, changed>>
  /\ Heap([heap EXCEPT ![Me(t).found].val = Me(t).arg])

(* patchObjectStatus changes a deep copy.                                  *)
PatchStatus(t) ==
  /\ At(t, "patchStatus") /\ free # {}
  /\ Go(t, [Me(t) EXCEPT !.pc = "update", !.new = fresh, !.found = 0])
  /\ UNCHANGED <<stores, changed>>
  /\ Heap([heap EXCEPT ![fresh] = [heap[Me(t).found] EXCEPT !.val = Me(t).arg]])

(* DeleteObject of a sandbox: what its own store says of the key.          *)
DeleteProbe(t) ==
  LET m == Me(t)  s == stores[m.view][m.key] IN
  /\ At(t, "probe")
  /\ Go(t, IF s \in Refs THEN [m EXCEPT !.pc = "remove"]
           ELSE IF s = Tombstone THEN Finished(m)
           ELSE [m EXCEPT !.pc = "lookup", !.ret = "materialise", !.lvl = m.view - 1])
  /\ UNCHANGED <<stores, changed>>
  /\ Heap(heap)

(* Mutant of StoreDelete: the object is deleted in the view it was found   *)
(* in.                                                                     *)
StoreDeleteWhereFound(t) ==
  LET m == Me(t) IN
  /\ At(t, "remove")
  /\ IF isLive(m.lvl, m.key)
     THEN /\ SetStore(m.lvl, m.key, IF m.lvl = 0 THEN Absent ELSE Tombstone)
          /\ Go(t, [m EXCEPT !.pc = "count", !.ret = "idle"])
     ELSE UNCHANGED stores /\ Go(t, Finished(m))
  /\ UNCHANGED changed
  /\ Heap(heap)

(* store.Delete: the base view removes the object, a sandbox leaves a      *)
(* tombstone (MarkAsDeleted).                                              *)
StoreDelete(t) ==
  LET m == Me(t) IN
  /\ At(t, "remove")
  /\ IF isLive(m.view, m.key)
     THEN /\ SetStore(m.view, m.key, IF m.view = 0 THEN Absent ELSE Tombstone)
          /\ Go(t, [m EXCEPT !.pc = "count", !.ret = "idle"])
     ELSE UNCHANGED stores /\ Go(t, Finished(m))
  /\ UNCHANGED changed
  /\ Heap(heap)

(* DeleteObjects of the base view is one call of the store.                *)
StoreDeleteObjects(t) ==
  /\ At(t, "removeAll")
  /\ stores' = [stores EXCEPT ![0] = [k \in Keys |-> Absent]]
  /\ Go(t, IF \E k \in Keys : isLive(0, k) THEN [Me(t) EXCEPT !.pc = "count", !.ret = "idle"]
           ELSE Idle)
  /\ UNCHANGED changed
  /\ Heap(heap)

(* DeleteObjects of a sandbox first lists the view, which takes two calls  *)
(* on the store of each level, ...                                         *)
ListForDelete(t) ==
  LET m == Me(t)
      listed == m.todo \union {o[1] : o \in storeList(m.lvl, m.exclude)} IN
  /\ At(t, "list")
  /\ Go(t, IF m.lvl > 0 THEN [m EXCEPT !.pc = "listTombstones", !.todo = listed]
           ELSE Finished([m EXCEPT !.todo = listed]))
  /\ UNCHANGED <<stores, changed>>
  /\ Heap(heap)

TombstonesForDelete(t) ==
  LET m == Me(t) IN
  /\ At(t, "listTombstones")
  /\ Go(t, [m EXCEPT !.pc = "list", !.lvl = @ - 1, !.exclude = ListTombstonedKeys(m.lvl)])
  /\ UNCHANGED <<stores, changed>>
  /\ Heap(heap)

(* ... and then deletes key by key.                                        *)
NextKey(t, k) ==
  /\ At(t, "nextKey") /\ k \in Me(t).todo
  /\ Go(t, [Me(t) EXCEPT !.pc = "probe", !.key = k, !.todo = @ \ {k}])
  /\ UNCHANGED <<stores, changed>>
  /\ Heap(heap)

(* Reset: changeCount.Store(0), and then each store is reset.              *)
ResetCount(t) ==
  /\ At(t, "resetCount")
  /\ changed' = [changed EXCEPT ![Me(t).view] = FALSE]
  /\ Go(t, [Me(t) EXCEPT !.pc = "resetStore"])
  /\ UNCHANGED stores
  /\ Heap(heap)

ResetStore(t) ==
  /\ At(t, "resetStore")
  /\ stores' = [stores EXCEPT ![Me(t).view] = [k \in Keys |-> Absent]]
  /\ Go(t, Idle)
  /\ UNCHANGED changed
  /\ Heap(heap)

-----------------------------------------------------------------------------
ThreadStep(t) ==
  \/ Lookup(t) \/ StoreAdd(t) \/ Count(t) \/ StoreUpdate(t) \/ Materialise(t)
  \/ BindMaterialise(t) \/ BindCopy(t) \/ BindCheck(t) \/ Patch(t) \/ PatchStatus(t)
  \/ DeleteProbe(t) \/ StoreDelete(t) \/ StoreDeleteObjects(t) \/ ListForDelete(t)
  \/ TombstonesForDelete(t) \/ (\E k \in Keys : NextKey(t, k)) \/ ResetCount(t) \/ ResetStore(t)

Calls(t) ==
  \E op \in scenario.ops[t], v \in scenario.views[t], k \in Keys :
    \E arg \in Args(op), val \in Vals : Begin(t, op, v, k, arg, [node |-> NoNode, val |-> val])

Next == UNCHANGED scenario /\ \E t \in Threads : Calls(t) \/ ThreadStep(t)

Spec == Init /\ [][Next]_vars

-----------------------------------------------------------------------------
(* Type correctness of the stores, the heap and the threads' locals.       *)
Pcs == {"idle", "add", "update", "updateAgain", "lookup", "count", "materialise", "bind",
        "bindCheck", "patch", "patchStatus", "probe", "remove", "removeAll", "list",
        "listTombstones", "nextKey",
        "resetCount", "resetStore"}
ThreadState ==
  [op : AllOps \union {"none"}, view : Views, key : Keys, arg : Nodes \union Vals \union {NoNode},
   pc : Pcs, ret : Pcs, lvl : Views, found : Refs \union {0}, new : Refs \union {0},
   todo : SUBSET Keys, exclude : SUBSET Keys]
TypeOK ==
  /\ scenario \in Scenarios
  /\ stores \in [Views -> [Keys -> Slot]]
  /\ heap \in [Refs -> Object]
  /\ changed \in [Views -> BOOLEAN]
  /\ threads \in [Threads -> ThreadState]

(* What the scenario leaves out.                                           *)
active == {t \in Threads : scenario.ops[t] # {}}
neverPatches == \A t \in Threads : "Patch" \notin scenario.ops[t]
oneThreadPerView ==
  \A t, u \in active : t # u => scenario.views[t] \intersect scenario.views[u] = {}

(* What view v's own store says, pointers followed.                        *)
Contents(v) ==
  [k \in Keys |-> [live |-> isLive(v, k), deleted |-> stores[v][k] = Tombstone,
                   obj |-> IF isLive(v, k) THEN heap[stores[v][k]] ELSE Garbage]]

(* NewSandbox: a sandbox "holds changes made via its facade into its       *)
(* private store independent of the base view": what a view's store holds  *)
(* changes only in a step of an operation that was called on that view,    *)
(* whatever other threads do to the views above and below it, and no step  *)
(* puts an object in two places, where a change through one pointer would  *)
(* show through the other.  (Patch does not keep to this.)                 *)
shared ==
  \E u, v \in Views, j, k \in Keys :
    <<u, j>> # <<v, k>> /\ isLive(u, j) /\ stores[u][j] = stores[v][k]
Independence ==
  [][neverPatches =>
       /\ \A v \in Views : Contents(v)' # Contents(v) =>
            \E t \in Threads : threads'[t] # threads[t] /\ threads[t].view = v
       /\ ~shared']_vars

(* ListMetaObjects and GetObject tell the same story: of the objects that  *)
(* GetObject finds through any stack of sandboxes a list has the same      *)
(* version, once, and of a view or a sandbox over it no other object.      *)
(* (A sandbox over a sandbox may list what it has deleted, and a tombstone *)
(* hides no object of a namespace.)                                        *)
ListAgreesWithGet ==
  (\A k \in Keys : bareName(k) = k) =>
    /\ \A v \in Views, k \in Keys : GetObject(v, k) \in Refs =>
         {o \in ListMetaObjects[v][{}] : o[1] = k} = {<<k, GetObject(v, k)>>}
    /\ \A v \in {0, 1} \intersect Views : \A o \in ListMetaObjects[v][{}] :
         GetObject(v, o[1]) \in Refs

(* GetObjectChangeCount does not hide a change: a view whose count is 0    *)
(* has an untouched store, unless an operation on it is still under way.   *)
ChangesAreCounted ==
  \A v \in Views :
    changed[v] \/ (\A k \in Keys : stores[v][k] = Absent)
      \/ (\E t \in Threads : threads[t].view = v /\ threads[t].pc # "idle")

(* A pod that is bound in a view stays bound to that node in that view for *)
(* as long as it is there: updatePodNodeBinding refuses a bound pod, and   *)
(* no other operation but Create and Update, which replace the pod, gives  *)
(* it another node.  (Two threads may both find it unbound.)               *)
BoundOnce ==
  [][Cardinality(active) = 1 => \A v \in Views, k \in Keys :
       isLive(v, k) /\ heap[stores[v][k]].node # NoNode /\ isLive(v, k)' =>
         \/ (heap[stores[v][k]].node)' = heap[stores[v][k]].node
         \/ \E t \in Threads :
              threads'[t] # threads[t] /\ threads[t].op \in {"Create", "Update"}]_vars

(* Only CreateObject brings a deleted object of a sandbox back.  (Two      *)
(* threads on the same sandbox may undo each other's deletes.)             *)
OnlyCreateResurrects ==
  [][oneThreadPerView => \A v \in Views, k \in Keys :
       stores[v][k] = Tombstone /\ isLive(v, k)' =>
         \E t \in Threads : threads'[t] # threads[t] /\ threads[t].op = "Create"]_vars
=============================================================================
