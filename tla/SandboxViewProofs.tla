------------------------- MODULE SandboxViewProofs -------------------------
(***************************************************************************)
(* What module SandboxView promises for every number of views, keys and    *)
(* threads, and every scenario: no change of a view goes uncounted, a      *)
(* view's store changes only by operations on that view, what a sandbox    *)
(* has deleted comes back only by CreateObject, a bound pod stays bound to *)
(* its node, and a list has the objects that GetObject finds.              *)
(***************************************************************************)
EXTENDS SandboxView, FiniteSetTheorems, WellFoundedInduction, TLAPS

-----------------------------------------------------------------------------
(* The invariants.                                                         *)

(* The call that a thread is on its way to.                                *)
heading(m) == IF m.pc \in {"lookup", "count"} THEN m.ret ELSE m.pc

(* What a thread's locals are at each call.                                *)
ThreadOK(t, m) ==
  /\ m \in ThreadState
  /\ m.pc # "idle" => m.op \in scenario.ops[t] /\ m.view \in scenario.views[t]
  /\ m.pc = "lookup" => m.ret \in {"bind", "patch", "patchStatus", "bindCheck", "materialise"}
  /\ m.pc = "count" => m.ret \in {"idle", "bind", "updateAgain", "remove"}
  /\ heading(m) = "add" => m.op = "Create"
  /\ heading(m) \in {"bind", "bindCheck"} => m.op = "Bind"
  /\ heading(m) = "patch" => m.op = "Patch"
  /\ heading(m) = "patchStatus" => m.op = "PatchStatus"
  /\ heading(m) = "removeAll" => m.view = 0
  /\ heading(m) = "probe" => m.op \in {"Delete", "DeleteObjects"}
  /\ heading(m) \in {"list", "listTombstones", "nextKey"} => m.op = "DeleteObjects"
  /\ heading(m) \in {"probe", "list", "listTombstones", "nextKey", "materialise"} => m.view > 0
  /\ \/ heading(m) \in {"add", "update", "updateAgain", "bindCheck"}
     \/ heading(m) = "materialise" /\ m.op \notin {"Delete", "DeleteObjects"}
     => m.new \in Refs
  /\ \/ m.pc \in {"materialise", "bind", "bindCheck", "patch", "patchStatus"}
     \/ m.pc = "count" /\ m.ret = "bind"
     => m.found \in Refs
  /\ m.pc = "listTombstones" => m.lvl > 0
  /\ m.op = "Bind" => m.arg \in Nodes
  /\ m.op \in {"Patch", "PatchStatus"} => m.arg \in Vals
  /\ m.op = "DeleteObjects" /\ m.view = 0 => m.todo = {}

ViewInv ==
  /\ scenario \in Scenarios
  /\ stores \in [Views -> [Keys -> Slot]]
  /\ heap \in [Refs -> Object]
  /\ changed \in [Views -> BOOLEAN]
  /\ threads \in [Threads -> ThreadState]
  /\ \A t \in Threads : ThreadOK(t, threads[t])

(* A change that is not counted yet is about to be, or to be reset.        *)
CountedSoon ==
  \A v \in Views :
    \/ changed[v]
    \/ \A k \in Keys : stores[v][k] = Absent
    \/ \E t \in Threads : threads[t].view = v /\ threads[t].pc \in {"count", "resetStore"}

(* Without Patch an object that is about to be stored is in no store yet,  *)
(* and no other thread is about to store it.                               *)
OwnObjects ==
  neverPatches =>
    /\ ~shared
    /\ \A t \in Threads : threads[t].new \in Refs =>
         /\ \A v \in Views, k \in Keys : stores[v][k] # threads[t].new
         /\ \A u \in Threads : u # t => threads[u].new # threads[t].new

(* A lookup goes down from the view, what is copied comes from below, and  *)
(* these operations replace an object.                                     *)
LevelOK(m) ==
  /\ m.lvl <= m.view
  /\ heading(m) \in {"update", "updateAgain"} => m.op \in {"Update", "Bind", "Patch", "PatchStatus"}
  /\ heading(m) = "materialise" =>
       m.op \in {"Update", "Bind", "Patch", "PatchStatus", "Delete", "DeleteObjects"}
  /\ heading(m) = "materialise" => m.lvl < m.view
  /\ m.pc = "count" /\ m.ret = "bind" => m.lvl = m.view
Levels == \A t \in Threads : LevelOK(threads[t])

(* With one thread per view an object that a thread looks for in delegates *)
(* or copies from one is not in the view's own store.                      *)
below(m) == m.pc \in {"lookup", "materialise", "bind"} /\ m.lvl < m.view
OneWriter ==
  oneThreadPerView =>
    \A t \in Threads : below(threads[t]) => stores[threads[t].view][threads[t].key] = Absent

(* No view from m's view down to l, l excluded, has an entry for m's key;  *)
(* and u is the view that decides what m's view shows of it.               *)
clear(m, l) == \A u \in Views : l < u /\ u <= m.view => stores[u][m.key] = Absent
decides(m, u) == u <= m.view /\ stores[u][m.key] \in Refs /\ clear(m, u)

(* The only thread that is active has the object that its view shows, and  *)
(* is about to replace it by one bound to the same node, or to bind an     *)
(* unbound one.                                                            *)
sees(m) ==
  \/ m.pc \in {"bind", "bindCheck", "patch", "patchStatus", "materialise"}
  \/ m.pc = "count" /\ m.ret = "bind"
replaces(m) ==
  heading(m) \in {"update", "updateAgain", "materialise"} /\ m.op \in {"Bind", "Patch", "PatchStatus"}
nodeBefore(m) == IF m.op = "Bind" THEN NoNode ELSE heap[m.new].node
Sight(m) ==
  /\ m.pc = "lookup" \/ sees(m) => clear(m, m.lvl)
  /\ sees(m) => m.found = stores[m.lvl][m.key]
  /\ replaces(m) =>
       \A u \in Views : decides(m, u) => heap[stores[u][m.key]].node = nodeBefore(m)
AloneSees == Cardinality(active) = 1 => \A t \in active : Sight(threads[t])

-----------------------------------------------------------------------------
(* Constants.                                                              *)

LEMMA RefFacts ==
  /\ MaxRef \in Nat /\ Refs \subseteq Nat /\ 0 \notin Refs
  /\ Absent \notin Refs /\ Tombstone \notin Refs /\ Tombstone # Absent
  /\ Depth \in Nat /\ Views \subseteq Nat /\ 0 \in Views
<1>1. Cardinality(Keys) \in Nat /\ Cardinality(Threads) \in Nat /\ Depth \in Nat
  BY ViewAssumption, FS_CardinalityType
<1>2. MaxRef \in Nat
  BY <1>1 DEF MaxRef
<1> QED  BY <1>1, <1>2 DEF Refs, Absent, Tombstone, Views

LEMMA InitKeysFit == 1..Cardinality(InitKeys) \subseteq Refs
<1>1. IsFiniteSet(InitKeys) /\ Cardinality(InitKeys) <= Cardinality(Keys)
  BY ViewAssumption, FS_Subset
<1> DEFINE c == Cardinality(Keys)  h == Cardinality(Threads)
<1>2. c \in Nat /\ h \in Nat /\ Depth \in Nat /\ Cardinality(InitKeys) \in Nat
  BY <1>1, ViewAssumption, FS_CardinalityType
<1> HIDE DEF c, h
<1>3. c * Depth \in Nat
  BY <1>2
<1>4. c * (Depth + 1) = c * Depth + c
  BY <1>2
<1>5. c <= c * (Depth + 1) + 2 * h
  BY <1>2, <1>3, <1>4
<1>6. MaxRef = c * (Depth + 1) + 2 * h
  BY DEF MaxRef, c, h
<1>7. Cardinality(InitKeys) <= MaxRef
  BY <1>1, <1>2, <1>5, <1>6, RefFacts DEF c
<1> QED  BY <1>2, <1>7, RefFacts DEF Refs

LEMMA IdleFacts ==
  /\ Idle \in ThreadState
  /\ Idle.pc = "idle" /\ Idle.ret = "idle" /\ Idle.new = 0 /\ Idle.found = 0
  /\ Idle.op = "none" /\ Idle.todo = {} /\ Idle.exclude = {} /\ Idle.view = 0
<1>1. (CHOOSE k \in Keys : TRUE) \in Keys
  BY ViewAssumption
<1> QED  BY <1>1, RefFacts DEF Idle, ThreadState, Pcs

LEMMA IdleOK == \A t : ThreadOK(t, Idle)
BY IdleFacts DEF ThreadOK, heading

LEMMA GarbageType == Garbage \in Object
BY ViewAssumption DEF Garbage, Object

LEMMA FreshFacts ==
  ASSUME free # {}
  PROVE  fresh \in Refs /\ fresh \notin reachable
BY DEF fresh, free

(* The heap after a step.                                                  *)
LEMMA HeapType ==
  ASSUME NEW h \in [Refs -> Object], Heap(h)
  PROVE  heap' \in [Refs -> Object]
BY GarbageType DEF Heap

(* The invariant is kept if the threads that do not act stay as they are.  *)
LEMMA ThreadsKept ==
  ASSUME ViewInv, UNCHANGED scenario, NEW t \in Threads, NEW m, ThreadOK(t, m), Go(t, m)
  PROVE  threads' \in [Threads -> ThreadState] /\ (\A u \in Threads : ThreadOK(u, threads[u]))'
<1>1. threads' = [threads EXCEPT ![t] = m] /\ m \in ThreadState /\ threads \in [Threads -> ThreadState]
  BY DEF Go, ViewInv, ThreadOK
<1>2. \A u \in Threads : ThreadOK(u, threads'[u])
  BY <1>1 DEF ViewInv
<1>3. ASSUME NEW u \in Threads  PROVE ThreadOK(u, threads[u])'
  BY <1>2 DEF ThreadOK, heading
<1> QED  BY <1>1, <1>3

LEMMA FinishedOK ==
  ASSUME NEW t, NEW m, ThreadOK(t, m), m.pc # "idle"
  PROVE  ThreadOK(t, Finished(m))
<1>1. CASE m.op = "DeleteObjects" /\ m.todo # {}
  <2>1. Finished(m) = [m EXCEPT !.pc = "nextKey", !.found = 0, !.new = 0, !.exclude = {}]
    BY <1>1 DEF Finished
  <2>2. m.view \in Nat /\ m.view # 0
    BY <1>1, RefFacts DEF ThreadOK, ThreadState
  <2>3. m.view > 0
    BY <2>2
  <2> QED  BY <1>1, <2>1, <2>3, RefFacts DEF ThreadOK, heading, ThreadState, Pcs
<1>2. CASE ~(m.op = "DeleteObjects" /\ m.todo # {})
  BY <1>2, IdleOK DEF Finished
<1> QED  BY <1>1, <1>2

(* Each step takes a thread to a state that its next call expects.         *)
LEMMA StepThread ==
  ASSUME ViewInv, NEW t \in Threads, ThreadStep(t)
  PROVE  \E m : Go(t, m) /\ ThreadOK(t, m)
<1> DEFINE m == threads[t]
<1>o. ThreadOK(t, m)
  BY DEF ViewInv
<1>m. m \in ThreadState
  BY <1>o DEF ThreadOK
<1>t. /\ m \in ThreadState /\ Me(t) = m
      /\ m.view \in Views /\ m.key \in Keys /\ m.lvl \in Views
      /\ stores[m.view][m.key] \in Slot /\ stores[m.lvl][m.key] \in Slot
  BY DEF ViewInv, ThreadOK, ThreadState, Me
<1>n. m.view \in Nat /\ m.lvl \in Nat
  BY <1>t, RefFacts
<1>p. \A x : At(t, x) <=> m.pc = x
  BY DEF At
<1> HIDE DEF m
<1> USE DEF heading, ThreadState, Pcs
<1>1. CASE Lookup(t)
  <2> DEFINE s == stores[m.lvl][m.key]
  <2>1. m.pc = "lookup" /\ m.ret \in {"bind", "patch", "patchStatus", "bindCheck", "materialise"}
    BY <1>1, <1>o, <1>t, <1>p DEF Lookup, ThreadOK
  <2>2. CASE s \in Refs /\ Go(t, [m EXCEPT !.pc = m.ret, !.found = s])
    <3>1. ThreadOK(t, [m EXCEPT !.pc = m.ret, !.found = s])
      <4> DEFINE x == [m EXCEPT !.pc = m.ret, !.found = s]
      <4>1. x \in ThreadState
        BY <1>m, <2>2 DEF ThreadState, Pcs
      <4>2. /\ x.op = m.op /\ x.view = m.view /\ x.key = m.key /\ x.arg = m.arg /\ x.pc = m.ret
            /\ x.ret = m.ret /\ x.lvl = m.lvl /\ x.found = s /\ x.new = m.new /\ x.todo = m.todo
        BY <1>m DEF ThreadState
      <4> HIDE DEF x
      <4>3. ThreadOK(t, x)
        BY <1>o, <2>1, <2>2, RefFacts, <4>1, <4>2 DEF ThreadOK, heading
      <4> QED  BY <4>3 DEF x
    <3> QED  BY <2>2, <3>1
  <2>3. CASE m.lvl > 0 /\ Go(t, [m EXCEPT !.lvl = m.lvl - 1])
    <3>1. m.lvl - 1 \in Views
      BY <1>t, <1>n, <2>3, RefFacts DEF Views
    <3>2. ThreadOK(t, [m EXCEPT !.lvl = m.lvl - 1])
      BY <1>o, <2>1, <3>1, RefFacts DEF ThreadOK
    <3> QED  BY <2>3, <3>2
  <2>4. CASE Go(t, Finished(m))
    BY <1>o, <2>1, <2>4, FinishedOK
  <2> QED  BY <1>1, <1>t, <2>2, <2>3, <2>4 DEF Lookup
<1>2. CASE StoreAdd(t)
  <2>1. m.pc = "add" /\ Go(t, [m EXCEPT !.pc = "count", !.ret = "idle", !.new = 0])
    BY <1>2, <1>t, <1>p DEF StoreAdd
  <2>2. ThreadOK(t, [m EXCEPT !.pc = "count", !.ret = "idle", !.new = 0])
    BY <1>o, <2>1, RefFacts DEF ThreadOK
  <2> QED  BY <2>1, <2>2
<1>3. CASE Count(t)
  <2>1. m.pc = "count" /\ Go(t, IF m.ret = "idle" THEN Finished(m) ELSE [m EXCEPT !.pc = m.ret])
    BY <1>3, <1>t, <1>p DEF Count
  <2>2. CASE m.ret = "idle"
    BY <1>o, <2>1, <2>2, FinishedOK
  <2>3. CASE m.ret # "idle"
    <3>1. ThreadOK(t, [m EXCEPT !.pc = m.ret])
      BY <1>o, <2>1, <2>3, RefFacts DEF ThreadOK
    <3> QED  BY <2>1, <2>3, <3>1
  <2> QED  BY <2>2, <2>3
<1>4. CASE StoreUpdate(t)
  <2>1. m.pc \in {"update", "updateAgain"}
    BY <1>4, <1>t DEF StoreUpdate
  <2>2. CASE Go(t, [m EXCEPT !.pc = "count", !.ret = "idle", !.new = 0])
    <3>1. ThreadOK(t, [m EXCEPT !.pc = "count", !.ret = "idle", !.new = 0])
      <4> DEFINE x == [m EXCEPT !.pc = "count", !.ret = "idle", !.new = 0]
      <4>1. x \in ThreadState
        BY <1>m DEF ThreadState, Pcs
      <4>2. /\ x.op = m.op /\ x.view = m.view /\ x.key = m.key /\ x.arg = m.arg /\ x.pc = "count"
            /\ x.ret = "idle" /\ x.lvl = m.lvl /\ x.found = m.found /\ x.new = 0 /\ x.todo = m.todo
        BY <1>m DEF ThreadState
      <4> HIDE DEF x
      <4>3. ThreadOK(t, x)
        BY <1>o, <2>1, RefFacts, <4>1, <4>2 DEF ThreadOK, heading
      <4> QED  BY <4>3 DEF x
    <3> QED  BY <2>2, <3>1
  <2>3. CASE /\ m.view > 0
             /\ Go(t, [m EXCEPT !.pc = "lookup", !.ret = "materialise", !.lvl = m.view - 1])
    <3>1. m.view - 1 \in Views
      BY <1>t, <1>n, <2>3, RefFacts DEF Views
    <3>2. ThreadOK(t, [m EXCEPT !.pc = "lookup", !.ret = "materialise", !.lvl = m.view - 1])
      <4> DEFINE x == [m EXCEPT !.pc = "lookup", !.ret = "materialise", !.lvl = m.view - 1]
      <4>1. x \in ThreadState
        BY <1>m, <2>3, <3>1 DEF ThreadState, Pcs
      <4>2. /\ x.op = m.op /\ x.view = m.view /\ x.key = m.key /\ x.arg = m.arg /\ x.pc = "lookup"
            /\ x.ret = "materialise" /\ x.lvl = m.view - 1 /\ x.found = m.found /\ x.new = m.new /\ x.todo = m.todo
        BY <1>m DEF ThreadState
      <4> HIDE DEF x
      <4>3. ThreadOK(t, x)
        BY <1>o, <2>1, <2>3, <3>1, RefFacts, <4>1, <4>2 DEF ThreadOK, heading
      <4> QED  BY <4>3 DEF x
    <3> QED  BY <2>3, <3>2
  <2>4. CASE Go(t, Idle)
    BY <2>4, IdleOK
  <2> QED  BY <1>4, <1>t, <2>2, <2>3, <2>4 DEF StoreUpdate
<1>5. CASE Materialise(t)
  <2> DEFINE r == IF m.op \in {"Delete", "DeleteObjects"} THEN "remove" ELSE "updateAgain"
  <2>1. m.pc = "materialise" /\ Go(t, [m EXCEPT !.pc = "count", !.found = 0, !.ret = r])
    BY <1>5, <1>t, <1>p DEF Materialise, AddCopy
  <2>2. r \in {"remove", "updateAgain"} /\ (r = "updateAgain" => m.op \notin {"Delete", "DeleteObjects"})
    OBVIOUS
  <2> HIDE DEF r
  <2>3. ThreadOK(t, [m EXCEPT !.pc = "count", !.found = 0, !.ret = r])
    <3> DEFINE x == [m EXCEPT !.pc = "count", !.found = 0, !.ret = r]
    <3>1. x \in ThreadState
      BY <1>m, <2>2 DEF ThreadState, Pcs
    <3>2. /\ x.op = m.op /\ x.view = m.view /\ x.key = m.key /\ x.arg = m.arg /\ x.pc = "count"
          /\ x.ret = r /\ x.lvl = m.lvl /\ x.found = 0 /\ x.new = m.new /\ x.todo = m.todo
      BY <1>m DEF ThreadState
    <3> HIDE DEF x
    <3>3. ThreadOK(t, x)
      BY <1>o, <2>1, <2>2, RefFacts, <3>1, <3>2 DEF ThreadOK, heading
    <3> QED  BY <3>3 DEF x
  <2> QED  BY <2>1, <2>3
<1>6. CASE BindMaterialise(t)
  <2>1. m.pc = "bind" /\ free # {}
        /\ Go(t, [m EXCEPT !.pc = "count", !.ret = "bind", !.found = fresh, !.lvl = m.view])
    BY <1>6, <1>t, <1>p DEF BindMaterialise, AddCopy
  <2>2. ThreadOK(t, [m EXCEPT !.pc = "count", !.ret = "bind", !.found = fresh, !.lvl = m.view])
    BY <1>o, <2>1, FreshFacts, RefFacts DEF ThreadOK
  <2> QED  BY <2>1, <2>2
<1>7. CASE BindCopy(t)
  <2>1. m.pc = "bind" /\ free # {}
        /\ Go(t, [m EXCEPT !.pc = "lookup", !.ret = "bindCheck", !.new = fresh, !.found = 0])
    BY <1>7, <1>t, <1>p DEF BindCopy
  <2>2. ThreadOK(t, [m EXCEPT !.pc = "lookup", !.ret = "bindCheck", !.new = fresh, !.found = 0])
    BY <1>o, <2>1, FreshFacts, RefFacts DEF ThreadOK
  <2> QED  BY <2>1, <2>2
<1>8. CASE BindCheck(t)
  <2>1. m.pc = "bindCheck" /\ (Go(t, Idle) \/ Go(t, [m EXCEPT !.pc = "update", !.found = 0]))
    BY <1>8, <1>t, <1>p DEF BindCheck
  <2>2. ThreadOK(t, [m EXCEPT !.pc = "update", !.found = 0])
    BY <1>o, <2>1, RefFacts DEF ThreadOK
  <2> QED  BY <2>1, <2>2, IdleOK
<1>9. CASE Patch(t)
  <2>1. m.pc = "patch" /\ (Go(t, Idle) \/ Go(t, [m EXCEPT !.pc = "update", !.new = m.found, !.found = 0]))
    BY <1>9, <1>t, <1>p DEF Patch
  <2>2. ThreadOK(t, [m EXCEPT !.pc = "update", !.new = m.found, !.found = 0])
    BY <1>o, <2>1, RefFacts DEF ThreadOK
  <2> QED  BY <2>1, <2>2, IdleOK
<1>10. CASE PatchStatus(t)
  <2>1. m.pc = "patchStatus" /\ free # {}
        /\ Go(t, [m EXCEPT !.pc = "update", !.new = fresh, !.found = 0])
    BY <1>10, <1>t, <1>p DEF PatchStatus
  <2>2. ThreadOK(t, [m EXCEPT !.pc = "update", !.new = fresh, !.found = 0])
    BY <1>o, <2>1, FreshFacts, RefFacts DEF ThreadOK
  <2> QED  BY <2>1, <2>2
<1>11. CASE DeleteProbe(t)
  <2>1. /\ m.pc = "probe" /\ m.view > 0
        /\ \/ Go(t, [m EXCEPT !.pc = "remove"]) \/ Go(t, Finished(m))
           \/ Go(t, [m EXCEPT !.pc = "lookup", !.ret = "materialise", !.lvl = m.view - 1])
    BY <1>11, <1>o, <1>t, <1>p DEF DeleteProbe, ThreadOK
  <2>2. ThreadOK(t, [m EXCEPT !.pc = "remove"])
    BY <1>o, <2>1, RefFacts DEF ThreadOK
  <2>3. m.view - 1 \in Views
    BY <1>t, <1>n, <2>1, RefFacts DEF Views
  <2>4. m.op \in {"Delete", "DeleteObjects"} =>
          ThreadOK(t, [m EXCEPT !.pc = "lookup", !.ret = "materialise", !.lvl = m.view - 1])
    BY <1>o, <2>1, <2>3, RefFacts DEF ThreadOK
  <2>5. ThreadOK(t, Finished(m))
    BY <1>o, <2>1, FinishedOK
  <2>6. m.op \in {"Delete", "DeleteObjects"}
    BY <1>o, <2>1, RefFacts DEF ThreadOK
  <2> QED  BY <2>1, <2>2, <2>4, <2>5, <2>6
<1>12. CASE StoreDelete(t)
  <2>1. m.pc = "remove"
        /\ (Go(t, [m EXCEPT !.pc = "count", !.ret = "idle"]) \/ Go(t, Finished(m)))
    BY <1>12, <1>t, <1>p DEF StoreDelete
  <2>2. ThreadOK(t, [m EXCEPT !.pc = "count", !.ret = "idle"])
    <3> DEFINE x == [m EXCEPT !.pc = "count", !.ret = "idle"]
    <3>1. x \in ThreadState
      BY <1>m DEF ThreadState, Pcs
    <3>2. /\ x.op = m.op /\ x.view = m.view /\ x.key = m.key /\ x.arg = m.arg /\ x.pc = "count"
          /\ x.ret = "idle" /\ x.lvl = m.lvl /\ x.found = m.found /\ x.new = m.new /\ x.todo = m.todo
      BY <1>m DEF ThreadState
    <3> HIDE DEF x
    <3>3. ThreadOK(t, x)
      BY <1>o, <2>1, RefFacts, <3>1, <3>2 DEF ThreadOK, heading
    <3> QED  BY <3>3 DEF x
  <2> QED  BY <1>o, <2>1, <2>2, FinishedOK
<1>13. CASE StoreDeleteObjects(t)
  <2>1. m.pc = "removeAll"
        /\ (Go(t, [m EXCEPT !.pc = "count", !.ret = "idle"]) \/ Go(t, Idle))
    BY <1>13, <1>t, <1>p DEF StoreDeleteObjects
  <2>2. ThreadOK(t, [m EXCEPT !.pc = "count", !.ret = "idle"])
    <3> DEFINE x == [m EXCEPT !.pc = "count", !.ret = "idle"]
    <3>1. x \in ThreadState
      BY <1>m DEF ThreadState, Pcs
    <3>2. /\ x.op = m.op /\ x.view = m.view /\ x.key = m.key /\ x.arg = m.arg /\ x.pc = "count"
          /\ x.ret = "idle" /\ x.lvl = m.lvl /\ x.found = m.found /\ x.new = m.new /\ x.todo = m.todo
      BY <1>m DEF ThreadState
    <3> HIDE DEF x
    <3>3. ThreadOK(t, x)
      BY <1>o, <2>1, RefFacts, <3>1, <3>2 DEF ThreadOK, heading
    <3> QED  BY <3>3 DEF x
  <2> QED  BY <2>1, <2>2, IdleOK
<1>14. CASE ListForDelete(t)
  <2> DEFINE l == m.todo \union {o[1] : o \in storeList(m.lvl, m.exclude)}
  <2>1. /\ m.pc = "list" /\ m.view > 0
        /\ \/ m.lvl > 0 /\ Go(t, [m EXCEPT !.pc = "listTombstones", !.todo = l])
           \/ Go(t, Finished([m EXCEPT !.todo = l]))
    BY <1>14, <1>o, <1>t, <1>p DEF ListForDelete, ThreadOK
  <2>2. l \subseteq Keys
    <3>1. \A o \in storeList(m.lvl, m.exclude) : o[1] \in Keys
      BY DEF storeList
    <3> QED  BY <1>t, <3>1
  <2> HIDE DEF l
  <2>3. m.lvl > 0 => ThreadOK(t, [m EXCEPT !.pc = "listTombstones", !.todo = l])
    <3> DEFINE x == [m EXCEPT !.pc = "listTombstones", !.todo = l]
    <3>1. x \in ThreadState
      BY <1>m, <2>2 DEF ThreadState, Pcs
    <3>2. /\ x.op = m.op /\ x.view = m.view /\ x.key = m.key /\ x.arg = m.arg /\ x.pc = "listTombstones"
          /\ x.ret = m.ret /\ x.lvl = m.lvl /\ x.found = m.found /\ x.new = m.new /\ x.todo = l
      BY <1>m DEF ThreadState
    <3> HIDE DEF x
    <3>3. m.lvl > 0 => ThreadOK(t, x)
      BY <1>o, <2>1, <2>2, RefFacts, <3>1, <3>2 DEF ThreadOK, heading
    <3> QED  BY <3>3 DEF x
  <2>4. ThreadOK(t, [m EXCEPT !.todo = l]) /\ [m EXCEPT !.todo = l].pc # "idle"
    BY <1>o, <2>1, <2>2, RefFacts DEF ThreadOK
  <2>5. ThreadOK(t, Finished([m EXCEPT !.todo = l]))
    BY <2>4, FinishedOK
  <2> QED  BY <2>1, <2>3, <2>5
<1>15. CASE TombstonesForDelete(t)
  <2>1. /\ m.pc = "listTombstones" /\ m.lvl > 0
        /\ Go(t, [m EXCEPT !.pc = "list", !.lvl = m.lvl - 1, !.exclude = ListTombstonedKeys(m.lvl)])
    BY <1>15, <1>o, <1>t, <1>p DEF TombstonesForDelete, ThreadOK
  <2>2. m.lvl - 1 \in Views /\ ListTombstonedKeys(m.lvl) \subseteq Keys
    BY <1>t, <1>n, <2>1, RefFacts DEF Views, ListTombstonedKeys
  <2>3. ThreadOK(t, [m EXCEPT !.pc = "list", !.lvl = m.lvl - 1, !.exclude = ListTombstonedKeys(m.lvl)])
    BY <1>o, <2>1, <2>2, RefFacts DEF ThreadOK
  <2> QED  BY <2>1, <2>3
<1>16. ASSUME NEW k \in Keys, NextKey(t, k)  PROVE \E x : Go(t, x) /\ ThreadOK(t, x)
  <2>1. m.pc = "nextKey" /\ Go(t, [m EXCEPT !.pc = "probe", !.key = k, !.todo = m.todo \ {k}])
    BY <1>16, <1>t, <1>p DEF NextKey
  <2>2. ThreadOK(t, [m EXCEPT !.pc = "probe", !.key = k, !.todo = m.todo \ {k}])
    <3> DEFINE x == [m EXCEPT !.pc = "probe", !.key = k, !.todo = m.todo \ {k}]
    <3>1. x \in ThreadState
      BY <1>m DEF ThreadState, Pcs
    <3>2. /\ x.op = m.op /\ x.view = m.view /\ x.key = k /\ x.arg = m.arg /\ x.pc = "probe"
          /\ x.ret = m.ret /\ x.lvl = m.lvl /\ x.found = m.found /\ x.new = m.new /\ x.todo = m.todo \ {k}
      BY <1>m DEF ThreadState
    <3> HIDE DEF x
    <3>3. ThreadOK(t, x)
      BY <1>o, <2>1, RefFacts, <3>1, <3>2 DEF ThreadOK, heading
    <3> QED  BY <3>3 DEF x
  <2> QED  BY <2>1, <2>2
<1>17. CASE ResetCount(t)
  <2>1. m.pc = "resetCount" /\ Go(t, [m EXCEPT !.pc = "resetStore"])
    BY <1>17, <1>t, <1>p DEF ResetCount
  <2>2. ThreadOK(t, [m EXCEPT !.pc = "resetStore"])
    BY <1>o, <2>1, RefFacts DEF ThreadOK
  <2> QED  BY <2>1, <2>2
<1>18. CASE ResetStore(t)
  BY <1>18, IdleOK DEF ResetStore
<1> QED  BY <1>1, <1>2, <1>3, <1>4, <1>5, <1>6, <1>7, <1>8, <1>9, <1>10, <1>11, <1>12, <1>13,
            <1>14, <1>15, <1>16, <1>17, <1>18 DEF ThreadStep

LEMMA ScenarioTypes ==
  ASSUME scenario \in Scenarios, NEW t \in Threads
  PROVE  /\ scenario.ops[t] \subseteq AllOps /\ scenario.views[t] \subseteq Views
         /\ scenario.nodes \subseteq Nodes
<1>1. scenario \in [ops : [Threads -> SUBSET AllOps], views : [Threads -> SUBSET Views],
                    nodes : SUBSET Nodes]
  BY ViewAssumption
<1> QED  BY <1>1

(* A call begins with the locals that its first step expects.              *)
LEMMA BeginThread ==
  ASSUME ViewInv, NEW t \in Threads, NEW op \in scenario.ops[t], NEW v \in scenario.views[t],
         NEW k \in Keys, NEW arg \in Args(op), NEW obj, Begin(t, op, v, k, arg, obj)
  PROVE  \E m : /\ Go(t, m) /\ ThreadOK(t, m)
                /\ m.op = op /\ m.view = v /\ m.pc = FirstPc(op, v) /\ m.ret = AfterLookup(op)
                /\ m.key = k /\ m.lvl = v
                /\ m.new = IF op \in {"Create", "Update"} THEN fresh ELSE 0
<1> DEFINE n == IF op \in {"Create", "Update"} THEN fresh ELSE 0
           x == [Idle EXCEPT !.op = op, !.view = v, !.key = k, !.arg = arg, !.lvl = v,
                        !.pc = FirstPc(op, v), !.ret = AfterLookup(op), !.new = n]
<1>1. Go(t, x) /\ free # {}
  BY DEF Begin
<1>2. op \in AllOps /\ v \in Views /\ v \in Nat /\ scenario.nodes \subseteq Nodes
  BY ScenarioTypes, RefFacts DEF ViewInv
<1>3. n \in Refs \union {0} /\ (op \in {"Create", "Update"} => n \in Refs)
  BY <1>1, FreshFacts
<1>4. arg \in Nodes \union Vals \union {NoNode} /\ (op = "Bind" => arg \in Nodes)
      /\ (op \in {"Patch", "PatchStatus"} => arg \in Vals)
  <2>1. CASE op = "Bind"
    BY <1>2, <2>1 DEF Args
  <2>2. CASE op \in {"Patch", "PatchStatus"}
    BY <2>2 DEF Args
  <2>3. CASE op \notin {"Bind", "Patch", "PatchStatus"}
    BY <2>3 DEF Args
  <2> QED  BY <2>1, <2>2, <2>3
<1> DEFINE f == FirstPc(op, v)  r == AfterLookup(op)
<1>5. /\ r = IF op = "Bind" THEN "bind" ELSE IF op = "Patch" THEN "patch"
             ELSE IF op = "PatchStatus" THEN "patchStatus" ELSE "idle"
  BY DEF AfterLookup
<1>6. /\ op = "Create" => f = "add"
      /\ op = "Update" => f = "update"
      /\ op \in {"Bind", "Patch", "PatchStatus"} => f = "lookup"
      /\ op = "Delete" => f = IF v = 0 THEN "remove" ELSE "probe"
      /\ op = "DeleteObjects" => f = IF v = 0 THEN "removeAll" ELSE "list"
      /\ op = "Reset" => f = "resetCount"
  BY DEF FirstPc
<1>7. f \in Pcs /\ r \in Pcs
  BY <1>2, <1>5, <1>6 DEF Pcs, AllOps
<1> HIDE DEF n, f, r
<1>8. x = [Idle EXCEPT !.op = op, !.view = v, !.key = k, !.arg = arg, !.lvl = v,
                        !.pc = f, !.ret = r, !.new = n]
  BY DEF f, r
<1>9. x \in ThreadState
  BY <1>2, <1>3, <1>4, <1>7, <1>8, IdleFacts DEF ThreadState
<1>10. /\ x.op = op /\ x.view = v /\ x.key = k /\ x.arg = arg /\ x.lvl = v /\ x.pc = f
       /\ x.ret = r /\ x.new = n /\ x.todo = {}
  BY <1>8, IdleFacts DEF ThreadState
<1> HIDE DEF x
<1>11. v # 0 => v > 0
  BY <1>2
<1>12. ThreadOK(t, x)
  <2> USE DEF heading
  <2>1. CASE op \in {"Create", "Update"}
    BY <1>3, <1>4, <1>6, <1>9, <1>10, <2>1 DEF ThreadOK
  <2>2. CASE op \in {"Bind", "Patch", "PatchStatus"}
    BY <1>4, <1>5, <1>6, <1>9, <1>10, <2>2 DEF ThreadOK
  <2>3. CASE op \in {"Delete", "DeleteObjects", "Reset"}
    BY <1>6, <1>9, <1>10, <1>11, <2>3 DEF ThreadOK
  <2> QED  BY <1>2, <2>1, <2>2, <2>3 DEF AllOps
<1> QED  BY <1>1, <1>10, <1>12 DEF n, f, r

(* What a step does to the stores: nothing, a write to one slot of the     *)
(* thread's view, or the removal of all that a view has.                   *)
SlotWrite(t) ==
  \E s \in Slot :
    /\ SetStore(threads[t].view, threads[t].key, s)
    /\ threads'[t].pc = "count" /\ threads'[t].view = threads[t].view
    /\ threads[t].pc # "count"
StoreWipe(t) ==
  /\ stores' = [stores EXCEPT ![threads[t].view] = [k \in Keys |-> Absent]]
  /\ threads[t].pc \in {"removeAll", "resetStore"}
  /\ threads'[t].pc # threads[t].pc

LEMMA MyState ==
  ASSUME ViewInv, NEW t \in Threads
  PROVE  /\ Me(t) = threads[t] /\ threads[t] \in ThreadState /\ ThreadOK(t, threads[t])
         /\ threads[t].view \in Views /\ threads[t].key \in Keys /\ threads[t].lvl \in Views
         /\ \A m : Go(t, m) => threads'[t] = m
BY DEF ViewInv, ThreadOK, ThreadState, Me, Go

LEMMA StoreStep ==
  ASSUME ViewInv, NEW t \in Threads, Calls(t) \/ ThreadStep(t)
  PROVE  stores' = stores \/ SlotWrite(t) \/ StoreWipe(t)
<1> DEFINE m == threads[t]
<1>m. /\ Me(t) = m /\ m \in ThreadState /\ ThreadOK(t, m) /\ m.new \in Refs \union {0}
      /\ \A x : Go(t, x) => threads'[t] = x
  BY MyState DEF ThreadState
<1>p. \A x : At(t, x) <=> m.pc = x
  BY DEF At
<1> HIDE DEF m
<1>1. ASSUME NEW f, NEW r, NEW s \in Slot, m.pc # "count",
             SetStore(m.view, m.key, s),
             \/ Go(t, [m EXCEPT !.pc = "count", !.ret = r, !.new = f])
             \/ Go(t, [m EXCEPT !.pc = "count", !.found = f, !.ret = r])
             \/ Go(t, [m EXCEPT !.pc = "count", !.ret = r])
             \/ Go(t, [m EXCEPT !.pc = "count", !.ret = r, !.found = f, !.lvl = m.view])
      PROVE  SlotWrite(t)
  <2>1. threads'[t].pc = "count" /\ threads'[t].view = m.view
    BY <1>1, <1>m DEF ThreadState
  <2> QED  BY <1>1, <2>1 DEF SlotWrite, m
<1>2. CASE StoreAdd(t)
  <2>1. /\ m.pc = "add" /\ SetStore(m.view, m.key, m.new)
        /\ Go(t, [m EXCEPT !.pc = "count", !.ret = "idle", !.new = 0])
    BY <1>2, <1>m, <1>p DEF StoreAdd
  <2>2. m.new \in Slot
    BY <1>m, <2>1 DEF ThreadOK, heading, Slot
  <2> QED  BY <1>1, <2>1, <2>2
<1>3. CASE StoreUpdate(t)
  <2>1. m.pc \in {"update", "updateAgain"}
    BY <1>3, <1>m DEF StoreUpdate
  <2>2. m.new \in Slot
    BY <1>m, <2>1 DEF ThreadOK, heading, Slot
  <2>3. \/ stores' = stores
        \/ /\ SetStore(m.view, m.key, m.new)
           /\ Go(t, [m EXCEPT !.pc = "count", !.ret = "idle", !.new = 0])
    BY <1>3, <1>m DEF StoreUpdate
  <2> QED  BY <1>1, <2>1, <2>2, <2>3
<1>4. CASE Materialise(t)
  <2> DEFINE r == IF m.op \in {"Delete", "DeleteObjects"} THEN "remove" ELSE "updateAgain"
  <2>1. /\ m.pc = "materialise" /\ SetStore(m.view, m.key, fresh) /\ free # {}
        /\ Go(t, [m EXCEPT !.pc = "count", !.found = 0, !.ret = r])
    BY <1>4, <1>m, <1>p DEF Materialise, AddCopy
  <2>2. fresh \in Slot
    BY <2>1, FreshFacts DEF Slot
  <2> HIDE DEF r
  <2> QED  BY <1>1, <2>1, <2>2
<1>5. CASE BindMaterialise(t)
  <2>1. /\ m.pc = "bind" /\ SetStore(m.view, m.key, fresh) /\ free # {}
        /\ Go(t, [m EXCEPT !.pc = "count", !.ret = "bind", !.found = fresh, !.lvl = m.view])
    BY <1>5, <1>m, <1>p DEF BindMaterialise, AddCopy
  <2>2. fresh \in Slot
    BY <2>1, FreshFacts DEF Slot
  <2> QED  BY <1>1, <2>1, <2>2
<1>6. CASE StoreDelete(t)
  <2>1. /\ m.pc = "remove"
        /\ \/ stores' = stores
           \/ /\ SetStore(m.view, m.key, IF m.view = 0 THEN Absent ELSE Tombstone)
              /\ Go(t, [m EXCEPT !.pc = "count", !.ret = "idle"])
    BY <1>6, <1>m, <1>p DEF StoreDelete
  <2>2. (IF m.view = 0 THEN Absent ELSE Tombstone) \in Slot
    BY DEF Slot
  <2> QED  BY <1>1, <2>1, <2>2
<1>7. CASE StoreDeleteObjects(t)
  <2>1. /\ m.pc = "removeAll" /\ stores' = [stores EXCEPT ![0] = [k \in Keys |-> Absent]]
        /\ (Go(t, [m EXCEPT !.pc = "count", !.ret = "idle"]) \/ Go(t, Idle))
    BY <1>7, <1>m, <1>p DEF StoreDeleteObjects
  <2>2. m.view = 0
    BY <1>m, <2>1 DEF ThreadOK, heading
  <2>3. threads'[t].pc # m.pc
    BY <1>m, <2>1, IdleFacts DEF ThreadState
  <2> QED  BY <2>1, <2>2, <2>3 DEF StoreWipe, m
<1>8. CASE ResetStore(t)
  <2>1. m.pc = "resetStore" /\ stores' = [stores EXCEPT ![m.view] = [k \in Keys |-> Absent]]
        /\ Go(t, Idle)
    BY <1>8, <1>m, <1>p DEF ResetStore
  <2> QED  BY <1>m, <2>1, IdleFacts DEF StoreWipe, m
<1>9. CASE Calls(t)
  BY <1>9 DEF Calls, Begin
<1> QED
  BY <1>2, <1>3, <1>4, <1>5, <1>6, <1>7, <1>8, <1>9
  DEF ThreadStep, Lookup, Count, BindCopy, BindCheck, Patch, PatchStatus, DeleteProbe, ListForDelete,
      TombstonesForDelete, NextKey, ResetCount

LEMMA ChangedStep ==
  ASSUME ViewInv, NEW t \in Threads, Calls(t) \/ ThreadStep(t)
  PROVE  \/ changed' = changed
         \/ /\ changed' = [changed EXCEPT ![threads[t].view] = TRUE] /\ stores' = stores
         \/ /\ changed' = [changed EXCEPT ![threads[t].view] = FALSE] /\ stores' = stores
            /\ threads'[t].pc = "resetStore" /\ threads'[t].view = threads[t].view
<1>m. Me(t) = threads[t] /\ threads[t] \in ThreadState /\ \A x : Go(t, x) => threads'[t] = x
  BY MyState
<1>1. CASE ResetCount(t)
  <2>1. threads'[t] = [threads[t] EXCEPT !.pc = "resetStore"]
    BY <1>1, <1>m DEF ResetCount
  <2>2. threads'[t].pc = "resetStore" /\ threads'[t].view = threads[t].view
    BY <1>m, <2>1 DEF ThreadState
  <2> QED  BY <1>1, <1>m, <2>2 DEF ResetCount
<1>2. CASE Count(t)
  BY <1>2, <1>m DEF Count
<1>3. CASE Calls(t)
  BY <1>3 DEF Calls, Begin
<1> QED
  BY <1>1, <1>2, <1>3
  DEF ThreadStep, Lookup, StoreAdd, StoreUpdate, Materialise, BindMaterialise, AddCopy, BindCopy,
      BindCheck, Patch, PatchStatus, DeleteProbe, StoreDelete, StoreDeleteObjects, ListForDelete,
      TombstonesForDelete, NextKey, ResetStore

LEMMA HeapStep ==
  ASSUME ViewInv, NEW t \in Threads, Calls(t) \/ ThreadStep(t)
  PROVE  heap' \in [Refs -> Object]
<1> DEFINE m == threads[t]
<1>m. Me(t) = m /\ ThreadOK(t, m) /\ heap \in [Refs -> Object]
  BY MyState DEF ViewInv
<1>p. \A x : At(t, x) <=> m.pc = x
  BY DEF At
<1> HIDE DEF m
<1>1. CASE Heap(heap)
  BY <1>1, <1>m, HeapType
<1>2. ASSUME NEW r \in Refs, NEW o \in Object, Heap([heap EXCEPT ![r] = o])
      PROVE  heap' \in [Refs -> Object]
  <2>1. [heap EXCEPT ![r] = o] \in [Refs -> Object]
    BY <1>m
  <2> QED  BY <1>2, <2>1, HeapType
<1>3. CASE Materialise(t) \/ BindMaterialise(t)
  <2>1. /\ m.pc \in {"materialise", "bind"} /\ free # {}
        /\ Heap([heap EXCEPT ![fresh] = heap[m.found]])
    BY <1>3, <1>m, <1>p DEF Materialise, BindMaterialise, AddCopy
  <2>2. m.found \in Refs
    BY <1>m, <2>1 DEF ThreadOK
  <2>3. heap[m.found] \in Object /\ fresh \in Refs
    BY <1>m, <2>1, <2>2, FreshFacts
  <2> QED  BY <1>2, <2>1, <2>3
<1>4. CASE BindCopy(t)
  <2>1. /\ m.pc = "bind" /\ free # {}
        /\ Heap([heap EXCEPT ![fresh] = [heap[m.found] EXCEPT !.node = m.arg]])
    BY <1>4, <1>m, <1>p DEF BindCopy
  <2>2. m.found \in Refs /\ m.arg \in Nodes
    BY <1>m, <2>1 DEF ThreadOK, heading
  <2>3. [heap[m.found] EXCEPT !.node = m.arg] \in Object /\ fresh \in Refs
    BY <1>m, <2>1, <2>2, FreshFacts DEF Object
  <2> QED  BY <1>2, <2>1, <2>3
<1>5. CASE Patch(t)
  <2>1. m.pc = "patch" /\ Heap([heap EXCEPT ![m.found].val = m.arg])
    BY <1>5, <1>m, <1>p DEF Patch
  <2>2. m.found \in Refs /\ m.arg \in Vals
    BY <1>m, <2>1 DEF ThreadOK, heading
  <2>3. [heap[m.found] EXCEPT !.val = m.arg] \in Object
    BY <1>m, <2>2 DEF Object
  <2>4. Heap([heap EXCEPT ![m.found] = [heap[m.found] EXCEPT !.val = m.arg]])
    BY <2>1
  <2> QED  BY <1>2, <2>2, <2>3, <2>4
<1>6. CASE PatchStatus(t)
  <2>1. /\ m.pc = "patchStatus" /\ free # {}
        /\ Heap([heap EXCEPT ![fresh] = [heap[m.found] EXCEPT !.val = m.arg]])
    BY <1>6, <1>m, <1>p DEF PatchStatus
  <2>2. m.found \in Refs /\ m.arg \in Vals
    BY <1>m, <2>1 DEF ThreadOK, heading
  <2>3. [heap[m.found] EXCEPT !.val = m.arg] \in Object /\ fresh \in Refs
    BY <1>m, <2>1, <2>2, FreshFacts DEF Object
  <2> QED  BY <1>2, <2>1, <2>3
<1>7. CASE Calls(t)
  <2>1. PICK op \in scenario.ops[t], v \in scenario.views[t], k \in Keys :
          \E arg \in Args(op), val \in Vals : Begin(t, op, v, k, arg, [node |-> NoNode, val |-> val])
    BY <1>7 DEF Calls
  <2>2. PICK arg \in Args(op), val \in Vals : Begin(t, op, v, k, arg, [node |-> NoNode, val |-> val])
    BY <2>1
  <2> DEFINE o == [node |-> NoNode, val |-> val]
  <2>3. o \in Object
    BY DEF Object
  <2> HIDE DEF o
  <2>4. free # {} /\ (Heap([heap EXCEPT ![fresh] = o]) \/ Heap(heap))
    BY <2>2 DEF Begin, o
  <2>5. fresh \in Refs
    BY <2>4, FreshFacts
  <2> QED  BY <1>1, <1>2, <2>3, <2>4, <2>5
<1> QED
  BY <1>1, <1>3, <1>4, <1>5, <1>6, <1>7
  DEF ThreadStep, Lookup, StoreAdd, Count, StoreUpdate, BindCheck, DeleteProbe, StoreDelete,
      StoreDeleteObjects, ListForDelete, TombstonesForDelete, NextKey, ResetCount, ResetStore

LEMMA AnyStep ==
  ASSUME ViewInv, NEW t \in Threads, Calls(t) \/ ThreadStep(t)
  PROVE  \E m : Go(t, m) /\ ThreadOK(t, m)
<1>1. CASE Calls(t)
  <2>1. PICK op \in scenario.ops[t], v \in scenario.views[t], k \in Keys :
          \E arg \in Args(op), val \in Vals : Begin(t, op, v, k, arg, [node |-> NoNode, val |-> val])
    BY <1>1 DEF Calls
  <2> QED  BY <2>1, BeginThread
<1> QED  BY <1>1, StepThread

LEMMA ViewStep ==
  ASSUME ViewInv, [Next]_vars
  PROVE  ViewInv'
<1>1. CASE UNCHANGED vars
  <2>1. \A t \in Threads : ThreadOK(t, threads'[t])
    BY <1>1 DEF ViewInv, vars
  <2>2. ASSUME NEW u \in Threads  PROVE ThreadOK(u, threads[u])'
    BY <1>1, <2>1 DEF ThreadOK, heading, vars
  <2> QED  BY <1>1, <2>2 DEF ViewInv, vars
<1>2. CASE Next
  <2>1. PICK t \in Threads : Calls(t) \/ ThreadStep(t)
    BY <1>2 DEF Next
  <2>2. UNCHANGED scenario
    BY <1>2 DEF Next
  <2>3. PICK m : Go(t, m) /\ ThreadOK(t, m)
    BY <2>1, AnyStep
  <2>4. threads' \in [Threads -> ThreadState] /\ (\A u \in Threads : ThreadOK(u, threads[u]))'
    BY <2>2, <2>3, ThreadsKept
  <2>5. stores' \in [Views -> [Keys -> Slot]]
    <3>1. threads[t].view \in Views /\ threads[t].key \in Keys /\ stores \in [Views -> [Keys -> Slot]]
      BY MyState DEF ViewInv
    <3>2. CASE SlotWrite(t)
      BY <3>1, <3>2 DEF SlotWrite, SetStore
    <3>3. CASE StoreWipe(t)
      <4>1. [k \in Keys |-> Absent] \in [Keys -> Slot]
        BY DEF Slot
      <4> QED  BY <3>1, <3>3, <4>1 DEF StoreWipe
    <3> QED  BY <2>1, <3>1, <3>2, <3>3, StoreStep
  <2>6. changed' \in [Views -> BOOLEAN]
    <3>1. threads[t].view \in Views /\ changed \in [Views -> BOOLEAN]
      BY MyState DEF ViewInv
    <3> QED  BY <2>1, <3>1, ChangedStep
  <2>7. heap' \in [Refs -> Object]
    BY <2>1, HeapStep
  <2> QED  BY <2>2, <2>4, <2>5, <2>6, <2>7 DEF ViewInv
<1> QED  BY <1>1, <1>2

LEMMA ViewStart == Init => ViewInv
<1> SUFFICES ASSUME Init PROVE ViewInv
  OBVIOUS
<1>1. threads = [t \in Threads |-> Idle]
  BY DEF Init
<1>2. stores \in [Views -> [Keys -> Slot]]
  <2>1. PICK place \in [InitKeys -> 1..Cardinality(InitKeys)] :
          stores = [v \in Views |-> [k \in Keys |->
                      IF v = 0 /\ k \in InitKeys THEN place[k] ELSE Absent]]
    BY DEF Init
  <2>2. \A k \in InitKeys : place[k] \in Slot
    BY InitKeysFit DEF Slot
  <2> QED  BY <2>1, <2>2 DEF Slot
<1>3. changed \in [Views -> BOOLEAN]
  BY DEF Init
<1>4. heap \in [Refs -> Object]
  BY GarbageType DEF Init
<1>5. \A t \in Threads : threads[t] \in ThreadState /\ ThreadOK(t, threads[t])
  BY <1>1, IdleFacts, IdleOK
<1>6. threads \in [Threads -> ThreadState]
  BY <1>1, IdleFacts
<1> QED  BY <1>2, <1>3, <1>4, <1>5, <1>6 DEF Init, ViewInv

(* The stores, the heap and the locals of every call in progress are what  *)
(* base.go and sandbox.go assume of them, however the calls of several     *)
(* threads interleave: an object that a call is about to store, copy or    *)
(* change exists, and a call gets only where its operation takes it.       *)
THEOREM ViewInvariant == Spec => []ViewInv
<1>1. ViewInv /\ [Next]_vars => ViewInv'
  BY ViewStep
<1> QED  BY <1>1, ViewStart, PTL DEF Spec

(* TypeOK, for every number of views, keys and threads.                    *)
THEOREM ViewTypeCorrect == Spec => []TypeOK
<1>1. ViewInv => TypeOK
  BY DEF ViewInv, TypeOK
<1> QED  BY <1>1, ViewInvariant, PTL

-----------------------------------------------------------------------------
(* The change count.                                                       *)

(* A thread that has a change to count does that next, and one that has    *)
(* reset the count wipes the store next.                                   *)
LEMMA PromiseKept ==
  ASSUME ViewInv, NEW t \in Threads, Calls(t) \/ ThreadStep(t)
  PROVE  /\ threads[t].pc = "count" => changed' = [changed EXCEPT ![threads[t].view] = TRUE]
         /\ threads[t].pc = "resetStore" =>
              stores' = [stores EXCEPT ![threads[t].view] = [k \in Keys |-> Absent]]
<1>1. CASE Calls(t)
  <2>1. threads[t].pc = "idle"
    BY <1>1 DEF Calls, Begin, At
  <2> QED  BY <2>1
<1>2. CASE ThreadStep(t)
  BY <1>2
  DEF ThreadStep, Lookup, StoreAdd, Count, StoreUpdate, Materialise, BindMaterialise, AddCopy,
      BindCopy, BindCheck, Patch, PatchStatus, DeleteProbe, StoreDelete, StoreDeleteObjects,
      ListForDelete, TombstonesForDelete, NextKey, ResetCount, ResetStore, At, Me
<1> QED  BY <1>1, <1>2

LEMMA CountStep ==
  ASSUME ViewInv, ViewInv', CountedSoon, [Next]_vars
  PROVE  CountedSoon'
<1>1. CASE UNCHANGED vars
  BY <1>1 DEF CountedSoon, vars
<1>2. CASE Next
  <2>1. PICK t \in Threads : Calls(t) \/ ThreadStep(t)
    BY <1>2 DEF Next
  <2>2. PICK m : Go(t, m) /\ ThreadOK(t, m)
    BY <2>1, AnyStep
  <2> DEFINE w == threads[t].view
  <2>3. /\ \A u \in Threads : u # t => threads'[u] = threads[u]
        /\ w \in Views /\ threads[t].key \in Keys
        /\ stores \in [Views -> [Keys -> Slot]] /\ changed \in [Views -> BOOLEAN]
    BY <2>2, MyState DEF Go, ViewInv
  <2>4. stores' = stores \/ SlotWrite(t) \/ StoreWipe(t)
    BY <2>1, StoreStep
  <2>5. \/ changed' = changed
        \/ changed' = [changed EXCEPT ![w] = TRUE] /\ stores' = stores
        \/ /\ changed' = [changed EXCEPT ![w] = FALSE] /\ stores' = stores
           /\ threads'[t].pc = "resetStore" /\ threads'[t].view = w
    BY <2>1, ChangedStep
  <2>6. /\ threads[t].pc = "count" => changed' = [changed EXCEPT ![w] = TRUE]
        /\ threads[t].pc = "resetStore" => stores' = [stores EXCEPT ![w] = [k \in Keys |-> Absent]]
    BY <2>1, PromiseKept
  <2> SUFFICES ASSUME NEW v \in Views
               PROVE  \/ changed'[v]
                      \/ \A k \in Keys : stores'[v][k] = Absent
                      \/ \E u \in Threads : threads'[u].view = v /\ threads'[u].pc \in {"count", "resetStore"}
    BY DEF CountedSoon
  <2>7. \/ changed[v] \/ \A k \in Keys : stores[v][k] = Absent
        \/ \E u \in Threads : threads[u].view = v /\ threads[u].pc \in {"count", "resetStore"}
    BY DEF CountedSoon
  <2>8. CASE v # w
    <3>1. changed'[v] = changed[v]
      BY <2>3, <2>5, <2>8
    <3>2. stores'[v] = stores[v]
      BY <2>3, <2>4, <2>8 DEF SlotWrite, StoreWipe, SetStore
    <3>3. \A u \in Threads : threads[u].view = v => threads'[u] = threads[u]
      BY <2>3, <2>8
    <3> QED  BY <2>7, <3>1, <3>2, <3>3
  <2>9. CASE v = w /\ SlotWrite(t)
    BY <2>9 DEF SlotWrite
  <2>10. CASE v = w /\ (StoreWipe(t) \/ threads[t].pc = "resetStore")
    <3>1. stores' = [stores EXCEPT ![w] = [k \in Keys |-> Absent]]
      BY <2>6, <2>10 DEF StoreWipe
    <3>2. \A k \in Keys : stores'[v][k] = Absent
      BY <2>3, <2>10, <3>1
    <3> QED  BY <3>2
  <2>11. CASE v = w /\ changed' = [changed EXCEPT ![w] = TRUE]
    BY <2>3, <2>11
  <2>12. CASE v = w /\ threads'[t].pc = "resetStore" /\ threads'[t].view = w
    BY <2>12
  <2>13. CASE /\ v = w /\ stores' = stores /\ changed' = changed
              /\ threads[t].pc \notin {"count", "resetStore"}
    <3>1. \A u \in Threads : threads[u].pc \in {"count", "resetStore"} => threads'[u] = threads[u]
      BY <2>3, <2>13
    <3> QED  BY <2>7, <2>13, <3>1
  <2> QED  BY <2>4, <2>5, <2>6, <2>8, <2>9, <2>10, <2>11, <2>12, <2>13
<1> QED  BY <1>1, <1>2

LEMMA CountStart == Init => CountedSoon
<1> SUFFICES ASSUME Init, NEW v \in Views
             PROVE  changed[v] \/ \A k \in Keys : stores[v][k] = Absent
  BY DEF CountedSoon
<1>1. CASE v = 0 /\ InitKeys # {}
  BY <1>1 DEF Init
<1>2. CASE ~(v = 0 /\ InitKeys # {})
  <2>1. PICK place :
          stores = [u \in Views |-> [k \in Keys |->
                      IF u = 0 /\ k \in InitKeys THEN place[k] ELSE Absent]]
    BY DEF Init
  <2> QED  BY <1>2, <2>1
<1> QED  BY <1>1, <1>2

(* ChangesAreCounted: no lock is held over both a view's store and its     *)
(* changeCount, and still no interleaving of operations on a view leaves   *)
(* it with a changed store, a count of zero and nothing under way.         *)
THEOREM CountHidesNoChange == Spec => []ChangesAreCounted
<1>1. ViewInv /\ CountedSoon /\ [Next]_vars => (ViewInv /\ CountedSoon)'
  BY ViewStep, CountStep
<1>2. CountedSoon => ChangesAreCounted
  BY DEF CountedSoon, ChangesAreCounted
<1> QED  BY <1>1, <1>2, ViewStart, CountStart, PTL DEF Spec

-----------------------------------------------------------------------------
(* Independence of the views.                                              *)

(* What a step stores, and what it then has in hand to store next.         *)
Keeps(t) == threads'[t].new \in {0, threads[t].new}
Stores(t) ==
  LET m == threads[t] IN
  \/ stores' = stores /\ Keeps(t)
  \/ stores' = stores /\ free # {} /\ threads'[t].new = fresh
  \/ SetStore(m.view, m.key, m.new) /\ m.new \in Refs /\ threads'[t].new = 0
  \/ SetStore(m.view, m.key, fresh) /\ free # {} /\ Keeps(t)
  \/ (\E s \in {Absent, Tombstone} : SetStore(m.view, m.key, s)) /\ Keeps(t)
  \/ stores' = [stores EXCEPT ![m.view] = [k \in Keys |-> Absent]] /\ Keeps(t)

LEMMA FinishedNew ==
  ASSUME NEW m \in ThreadState
  PROVE  Finished(m).new \in {0, m.new}
BY IdleFacts DEF Finished, ThreadState

LEMMA WhatIsStored ==
  ASSUME ViewInv, NEW t \in Threads, "Patch" \notin scenario.ops[t], Calls(t) \/ ThreadStep(t)
  PROVE  Stores(t)
<1> DEFINE m == threads[t]
<1>m. /\ Me(t) = m /\ m \in ThreadState /\ ThreadOK(t, m)
      /\ \A x : Go(t, x) => threads'[t] = x
  BY MyState
<1>p. \A x : At(t, x) <=> m.pc = x
  BY DEF At
<1>f. Finished(m).new \in {0, m.new} /\ Idle.new = 0
  BY <1>m, FinishedNew, IdleFacts
<1> HIDE DEF m
<1>1. CASE Calls(t)
  <2>1. PICK op \in scenario.ops[t], v \in scenario.views[t], k \in Keys :
          \E arg \in Args(op), val \in Vals : Begin(t, op, v, k, arg, [node |-> NoNode, val |-> val])
    BY <1>1 DEF Calls
  <2>2. PICK arg \in Args(op), val \in Vals : Begin(t, op, v, k, arg, [node |-> NoNode, val |-> val])
    BY <2>1
  <2>3. PICK x : Go(t, x) /\ x.new = IF op \in {"Create", "Update"} THEN fresh ELSE 0
    BY <2>2, BeginThread
  <2>4. stores' = stores /\ free # {}
    BY <2>2 DEF Begin
  <2> QED  BY <1>m, <2>3, <2>4 DEF Stores, Keeps
<1>2. CASE Lookup(t)
  <2> DEFINE s == stores[m.lvl][m.key]
  <2>1. /\ stores' = stores
        /\ \/ Go(t, [m EXCEPT !.pc = m.ret, !.found = s]) \/ Go(t, [m EXCEPT !.lvl = m.lvl - 1])
           \/ Go(t, Finished(m))
    BY <1>2, <1>m DEF Lookup
  <2> HIDE DEF s
  <2>2. threads'[t].new \in {0, m.new}
    BY <1>m, <1>f, <2>1 DEF ThreadState
  <2> QED  BY <2>1, <2>2 DEF Stores, Keeps, m
<1>3. CASE StoreAdd(t)
  <2>1. /\ m.pc = "add" /\ SetStore(m.view, m.key, m.new)
        /\ Go(t, [m EXCEPT !.pc = "count", !.ret = "idle", !.new = 0])
    BY <1>3, <1>m, <1>p DEF StoreAdd
  <2>2. m.new \in Refs
    BY <1>m, <2>1 DEF ThreadOK, heading
  <2>3. threads'[t].new = 0
    BY <1>m, <2>1 DEF ThreadState
  <2> QED  BY <2>1, <2>2, <2>3 DEF Stores, m
<1>4. CASE Count(t)
  <2>1. stores' = stores /\ (Go(t, Finished(m)) \/ Go(t, [m EXCEPT !.pc = m.ret]))
    BY <1>4, <1>m DEF Count
  <2>2. threads'[t].new \in {0, m.new}
    BY <1>m, <1>f, <2>1 DEF ThreadState
  <2> QED  BY <2>1, <2>2 DEF Stores, Keeps, m
<1>5. CASE StoreUpdate(t)
  <2>1. m.pc \in {"update", "updateAgain"}
    BY <1>5, <1>m DEF StoreUpdate
  <2>2. m.new \in Refs
    BY <1>m, <2>1 DEF ThreadOK, heading
  <2>3. \/ /\ SetStore(m.view, m.key, m.new)
           /\ Go(t, [m EXCEPT !.pc = "count", !.ret = "idle", !.new = 0])
        \/ /\ stores' = stores
           /\ \/ Go(t, [m EXCEPT !.pc = "lookup", !.ret = "materialise", !.lvl = m.view - 1])
              \/ Go(t, Idle)
    BY <1>5, <1>m DEF StoreUpdate
  <2>4. \/ SetStore(m.view, m.key, m.new) /\ threads'[t].new = 0
        \/ stores' = stores /\ threads'[t].new \in {0, m.new}
    BY <1>m, <1>f, <2>3 DEF ThreadState
  <2> QED  BY <2>2, <2>4 DEF Stores, Keeps, m
<1>6. CASE Materialise(t)
  <2> DEFINE r == IF m.op \in {"Delete", "DeleteObjects"} THEN "remove" ELSE "updateAgain"
  <2>1. /\ SetStore(m.view, m.key, fresh) /\ free # {}
        /\ Go(t, [m EXCEPT !.pc = "count", !.found = 0, !.ret = r])
    BY <1>6, <1>m DEF Materialise, AddCopy
  <2> HIDE DEF r
  <2>2. threads'[t].new = m.new
    BY <1>m, <2>1 DEF ThreadState
  <2> QED  BY <2>1, <2>2 DEF Stores, Keeps, m
<1>7. CASE BindMaterialise(t)
  <2>1. /\ SetStore(m.view, m.key, fresh) /\ free # {}
        /\ Go(t, [m EXCEPT !.pc = "count", !.ret = "bind", !.found = fresh, !.lvl = m.view])
    BY <1>7, <1>m DEF BindMaterialise, AddCopy
  <2>2. threads'[t].new = m.new
    BY <1>m, <2>1 DEF ThreadState
  <2> QED  BY <2>1, <2>2 DEF Stores, Keeps, m
<1>8. CASE BindCopy(t) \/ PatchStatus(t)
  <2>1. /\ stores' = stores /\ free # {}
        /\ \/ Go(t, [m EXCEPT !.pc = "lookup", !.ret = "bindCheck", !.new = fresh, !.found = 0])
           \/ Go(t, [m EXCEPT !.pc = "update", !.new = fresh, !.found = 0])
    BY <1>8, <1>m DEF BindCopy, PatchStatus
  <2>2. threads'[t].new = fresh
    BY <1>m, <2>1 DEF ThreadState
  <2> QED  BY <2>1, <2>2 DEF Stores
<1>9. CASE BindCheck(t)
  <2>1. stores' = stores /\ (Go(t, Idle) \/ Go(t, [m EXCEPT !.pc = "update", !.found = 0]))
    BY <1>9, <1>m DEF BindCheck
  <2>2. threads'[t].new \in {0, m.new}
    BY <1>m, <1>f, <2>1 DEF ThreadState
  <2> QED  BY <2>1, <2>2 DEF Stores, Keeps, m
<1>10. CASE Patch(t)
  BY <1>10, <1>m, <1>p DEF Patch, ThreadOK, heading
<1>11. CASE DeleteProbe(t)
  <2>1. /\ stores' = stores
        /\ \/ Go(t, [m EXCEPT !.pc = "remove"]) \/ Go(t, Finished(m))
           \/ Go(t, [m EXCEPT !.pc = "lookup", !.ret = "materialise", !.lvl = m.view - 1])
    BY <1>11, <1>m DEF DeleteProbe
  <2>2. threads'[t].new \in {0, m.new}
    BY <1>m, <1>f, <2>1 DEF ThreadState
  <2> QED  BY <2>1, <2>2 DEF Stores, Keeps, m
<1>12. CASE StoreDelete(t)
  <2>1. \/ stores' = stores
        \/ \E s \in {Absent, Tombstone} : SetStore(m.view, m.key, s)
    BY <1>12, <1>m DEF StoreDelete
  <2>2. Go(t, Finished(m)) \/ Go(t, [m EXCEPT !.pc = "count", !.ret = "idle"])
    BY <1>12, <1>m DEF StoreDelete
  <2>3. threads'[t].new \in {0, m.new}
    BY <1>m, <1>f, <2>2 DEF ThreadState
  <2> QED  BY <2>1, <2>3 DEF Stores, Keeps, m
<1>13. CASE StoreDeleteObjects(t)
  <2>1. /\ m.pc = "removeAll" /\ stores' = [stores EXCEPT ![0] = [k \in Keys |-> Absent]]
        /\ (Go(t, [m EXCEPT !.pc = "count", !.ret = "idle"]) \/ Go(t, Idle))
    BY <1>13, <1>m, <1>p DEF StoreDeleteObjects
  <2>2. m.view = 0
    BY <1>m, <2>1 DEF ThreadOK, heading
  <2>3. threads'[t].new \in {0, m.new}
    BY <1>m, <1>f, <2>1 DEF ThreadState
  <2> QED  BY <2>1, <2>2, <2>3 DEF Stores, Keeps, m
<1>14. CASE ListForDelete(t)
  <2> DEFINE l == m.todo \union {o[1] : o \in storeList(m.lvl, m.exclude)}
  <2>1. /\ stores' = stores
        /\ \/ Go(t, [m EXCEPT !.pc = "listTombstones", !.todo = l])
           \/ Go(t, Finished([m EXCEPT !.todo = l]))
    BY <1>14, <1>m DEF ListForDelete
  <2>2. l \subseteq Keys
    <3>1. \A o \in storeList(m.lvl, m.exclude) : o[1] \in Keys
      BY DEF storeList
    <3> QED  BY <1>m, <3>1 DEF ThreadState
  <2> HIDE DEF l
  <2>3. [m EXCEPT !.todo = l] \in ThreadState /\ [m EXCEPT !.todo = l].new = m.new
    BY <1>m, <2>2 DEF ThreadState
  <2>4. Finished([m EXCEPT !.todo = l]).new \in {0, m.new}
    BY <2>3, FinishedNew
  <2>5. [m EXCEPT !.pc = "listTombstones", !.todo = l].new = m.new
    BY <1>m DEF ThreadState
  <2>6. threads'[t].new \in {0, m.new}
    BY <1>m, <2>1, <2>4, <2>5
  <2> QED  BY <2>1, <2>6 DEF Stores, Keeps, m
<1>15. CASE TombstonesForDelete(t) \/ (\E k \in Keys : NextKey(t, k)) \/ ResetCount(t)
  <2>1. /\ stores' = stores
        /\ \/ Go(t, [m EXCEPT !.pc = "list", !.lvl = m.lvl - 1, !.exclude = ListTombstonedKeys(m.lvl)])
           \/ \E k \in Keys : Go(t, [m EXCEPT !.pc = "probe", !.key = k, !.todo = m.todo \ {k}])
           \/ Go(t, [m EXCEPT !.pc = "resetStore"])
    BY <1>15, <1>m DEF TombstonesForDelete, NextKey, ResetCount
  <2>2. threads'[t].new = m.new
    BY <1>m, <2>1 DEF ThreadState
  <2> QED  BY <2>1, <2>2 DEF Stores, Keeps, m
<1>16. CASE ResetStore(t)
  <2>1. threads'[t].new = 0 /\ stores' = [stores EXCEPT ![m.view] = [k \in Keys |-> Absent]]
    BY <1>16, <1>m, <1>f DEF ResetStore
  <2> QED  BY <2>1 DEF Stores, Keeps, m
<1> QED  BY <1>1, <1>2, <1>3, <1>4, <1>5, <1>6, <1>7, <1>8, <1>9, <1>10, <1>11, <1>12, <1>13,
            <1>14, <1>15, <1>16 DEF ThreadStep

LEMMA InReach ==
  /\ \A v \in Views, k \in Keys : stores[v][k] \in reachable
  /\ \A u \in Threads : threads[u].new \in reachable /\ threads[u].found \in reachable
<1>1. ASSUME NEW v \in Views, NEW k \in Keys  PROVE stores[v][k] \in reachable
  <2> DEFINE S == {stores[v][j] : j \in Keys}
             U == {{stores[x][j] : j \in Keys} : x \in Views}
  <2>1. stores[v][k] \in S
    OBVIOUS
  <2>2. S \in U
    OBVIOUS
  <2>3. UNION U \subseteq reachable
    BY DEF reachable
  <2> HIDE DEF S, U
  <2> QED  BY <2>1, <2>2, <2>3
<1>2. ASSUME NEW u \in Threads
      PROVE  threads[u].new \in reachable /\ threads[u].found \in reachable
  <2>1. {threads[u].found, threads[u].new} \in {{threads[x].found, threads[x].new} : x \in Threads}
    OBVIOUS
  <2> QED  BY <2>1 DEF reachable
<1> QED  BY <1>1, <1>2

LEMMA FreshIsNew ==
  ASSUME ViewInv, free # {}
  PROVE  /\ fresh \in Refs
         /\ \A v \in Views, k \in Keys : stores[v][k] # fresh
         /\ \A u \in Threads : threads[u].new # fresh
<1>1. fresh \in Refs /\ fresh \notin reachable
  BY FreshFacts
<1> QED  BY <1>1, InReach

LEMMA OwnStep ==
  ASSUME ViewInv, OwnObjects, [Next]_vars
  PROVE  OwnObjects'
<1>1. CASE UNCHANGED vars
  BY <1>1 DEF OwnObjects, neverPatches, shared, isLive, vars
<1>2. CASE Next
  <2>1. PICK t \in Threads : Calls(t) \/ ThreadStep(t)
    BY <1>2 DEF Next
  <2>2. neverPatches' <=> neverPatches
    BY <1>2 DEF Next, neverPatches
  <2> SUFFICES ASSUME neverPatches
               PROVE  /\ ~shared'
                      /\ \A u \in Threads : threads'[u].new \in Refs =>
                           /\ \A v \in Views, k \in Keys : stores'[v][k] # threads'[u].new
                           /\ \A w \in Threads : w # u => threads'[w].new # threads'[u].new
    BY <2>2 DEF OwnObjects
  <2>3. Stores(t)
    BY <2>1, WhatIsStored DEF neverPatches
  <2>4. PICK m : Go(t, m) /\ ThreadOK(t, m)
    BY <2>1, AnyStep
  <2>5. /\ \A u \in Threads : u # t => threads'[u] = threads[u]
        /\ threads[t].view \in Views /\ threads[t].key \in Keys
        /\ stores \in [Views -> [Keys -> Slot]]
        /\ 0 \notin Refs /\ Absent \notin Refs /\ Tombstone \notin Refs
    BY <2>4, MyState, RefFacts DEF Go, ViewInv
  <2>6. /\ \A u, v \in Views, j, k \in Keys :
             stores[u][j] \in Refs /\ stores[u][j] = stores[v][k] => u = v /\ j = k
        /\ \A u \in Threads : threads[u].new \in Refs =>
             /\ \A v \in Views, k \in Keys : stores[v][k] # threads[u].new
             /\ \A w \in Threads : w # u => threads[w].new # threads[u].new
    BY DEF OwnObjects, shared, isLive
  <2>7. /\ \A u, v \in Views, j, k \in Keys :
             stores'[u][j] \in Refs /\ stores'[u][j] = stores'[v][k] => u = v /\ j = k
        /\ \A u \in Threads : threads'[u].new \in Refs =>
             /\ \A v \in Views, k \in Keys : stores'[v][k] # threads'[u].new
             /\ \A w \in Threads : w # u => threads'[w].new # threads'[u].new
    <3>1. CASE stores' = stores /\ Keeps(t)
      BY <2>5, <2>6, <3>1 DEF Keeps
    <3>2. CASE stores' = stores /\ free # {} /\ threads'[t].new = fresh
      BY <2>5, <2>6, <3>2, FreshIsNew
    <3>3. CASE /\ SetStore(threads[t].view, threads[t].key, threads[t].new)
               /\ threads[t].new \in Refs /\ threads'[t].new = 0
      <4> DEFINE w == threads[t].view  y == threads[t].key  n == threads[t].new
      <4>1. \A v \in Views, k \in Keys :
              stores'[v][k] = IF v = w /\ k = y THEN n ELSE stores[v][k]
        BY <2>5, <3>3 DEF SetStore
      <4>2. \A u \in Threads : threads'[u].new \in Refs => u # t /\ threads'[u].new = threads[u].new
        BY <2>5, <3>3
      <4> HIDE DEF w, y, n
      <4>3. n \in Refs /\ (\A v \in Views, k \in Keys : stores[v][k] # n)
            /\ (\A u \in Threads : u # t => threads[u].new # n)
        BY <2>6, <3>3 DEF n
      <4>4. \A u, v \in Views, j, k \in Keys :
              stores'[u][j] \in Refs /\ stores'[u][j] = stores'[v][k] => u = v /\ j = k
        BY <2>6, <4>1, <4>3
      <4>5. \A u \in Threads : threads'[u].new \in Refs =>
              \A v \in Views, k \in Keys : stores'[v][k] # threads'[u].new
        BY <2>6, <4>1, <4>2, <4>3
      <4>6. \A u \in Threads : threads'[u].new \in Refs =>
              \A v \in Threads : v # u => threads'[v].new # threads'[u].new
        BY <2>5, <2>6, <3>3, <4>2
      <4> QED  BY <4>4, <4>5, <4>6
    <3>4. CASE \/ /\ free # {} /\ SetStore(threads[t].view, threads[t].key, fresh)
               \/ \E s \in {Absent, Tombstone} : SetStore(threads[t].view, threads[t].key, s)
      <4> DEFINE w == threads[t].view  y == threads[t].key
      <4>1. PICK s : /\ SetStore(w, y, s)
                     /\ \/ s \notin Refs
                        \/ /\ \A v \in Views, k \in Keys : stores[v][k] # s
                           /\ \A u \in Threads : threads[u].new # s
        BY <2>5, <3>4, FreshIsNew
      <4>2. \A v \in Views, k \in Keys : stores'[v][k] = IF v = w /\ k = y THEN s ELSE stores[v][k]
        BY <2>5, <4>1 DEF SetStore
      <4> HIDE DEF w, y
      <4>3. CASE Keeps(t)
        <5>1. \A u \in Threads : threads'[u].new \in Refs => threads'[u].new = threads[u].new
          BY <2>5, <4>3 DEF Keeps
        <5>2. \A u, v \in Views, j, k \in Keys :
                stores'[u][j] \in Refs /\ stores'[u][j] = stores'[v][k] => u = v /\ j = k
          BY <2>6, <4>1, <4>2
        <5>3. \A u \in Threads : threads'[u].new \in Refs =>
                \A v \in Views, k \in Keys : stores'[v][k] # threads'[u].new
          BY <2>6, <4>1, <4>2, <5>1
        <5> QED  BY <2>6, <5>1, <5>2, <5>3
      <4> QED  BY <2>3, <2>5, <2>6, <3>1, <3>2, <3>3, <4>3 DEF Stores
    <3>5. CASE /\ stores' = [stores EXCEPT ![threads[t].view] = [k \in Keys |-> Absent]] /\ Keeps(t)
      <4>1. \A v \in Views, k \in Keys : stores'[v][k] \in {Absent, stores[v][k]}
        BY <2>5, <3>5
      <4>2. \A u \in Threads : threads'[u].new \in Refs => threads'[u].new = threads[u].new
        BY <2>5, <3>5 DEF Keeps
      <4> QED  BY <2>5, <2>6, <4>1, <4>2
    <3> QED  BY <2>3, <3>1, <3>2, <3>3, <3>4, <3>5 DEF Stores
  <2> QED  BY <2>7 DEF shared, isLive
<1> QED  BY <1>1, <1>2

(* A step writes to the heap where nobody points yet, and Patch to the     *)
(* object that its GetObject returned.                                     *)
LEMMA HeapWrite ==
  ASSUME ViewInv, NEW t \in Threads, Calls(t) \/ ThreadStep(t)
  PROVE  \A r \in Refs : r \in reachable /\ r \in reachable' =>
           heap'[r] = heap[r] \/ (Patch(t) /\ heap'[r].node = heap[r].node)
<1> SUFFICES ASSUME NEW r \in Refs, r \in reachable, r \in reachable'
             PROVE  heap'[r] = heap[r] \/ (Patch(t) /\ heap'[r].node = heap[r].node)
  OBVIOUS
<1> DEFINE m == threads[t]
<1>m. Me(t) = m /\ heap \in [Refs -> Object]
  BY MyState DEF ViewInv
<1>h. ASSUME NEW h, Heap(h)  PROVE heap'[r] = h[r]
  BY <1>h DEF Heap
<1> HIDE DEF m
<1>1. CASE Heap(heap)
  BY <1>1, <1>h
<1>2. ASSUME NEW o, free # {}, Heap([heap EXCEPT ![fresh] = o])  PROVE heap'[r] = heap[r]
  <2>1. r # fresh
    BY <1>2, FreshFacts
  <2>2. heap'[r] = [heap EXCEPT ![fresh] = o][r]
    BY <1>2, <1>h
  <2> QED  BY <1>m, <2>1, <2>2
<1>3. CASE Materialise(t) \/ BindMaterialise(t)
  BY <1>2, <1>3 DEF Materialise, BindMaterialise, AddCopy
<1>4. CASE BindCopy(t)
  BY <1>2, <1>4 DEF BindCopy
<1>5. CASE Patch(t)
  <2>1. heap'[r] = [heap EXCEPT ![m.found].val = m.arg][r]
    BY <1>5, <1>m, <1>h DEF Patch
  <2>2. heap[r] \in Object
    BY <1>m
  <2>3. CASE r = m.found
    <3>1. heap'[r] = [heap[r] EXCEPT !.val = m.arg]
      BY <1>m, <2>1, <2>3
    <3>2. heap'[r].node = heap[r].node
      BY <2>2, <3>1 DEF Object
    <3> QED  BY <1>5, <3>2
  <2>4. CASE r # m.found
    BY <1>m, <2>1, <2>4
  <2> QED  BY <2>3, <2>4
<1>6. CASE PatchStatus(t)
  BY <1>2, <1>6 DEF PatchStatus
<1>7. CASE Calls(t)
  <2>1. PICK op \in scenario.ops[t], v \in scenario.views[t], k \in Keys :
          \E arg \in Args(op), val \in Vals : Begin(t, op, v, k, arg, [node |-> NoNode, val |-> val])
    BY <1>7 DEF Calls
  <2>2. PICK arg \in Args(op), val \in Vals : Begin(t, op, v, k, arg, [node |-> NoNode, val |-> val])
    BY <2>1
  <2> DEFINE o == [node |-> NoNode, val |-> val]
  <2> HIDE DEF o
  <2>3. free # {} /\ (Heap([heap EXCEPT ![fresh] = o]) \/ Heap(heap))
    BY <2>2 DEF Begin, o
  <2> QED  BY <1>1, <1>2, <2>3
<1> QED
  BY <1>1, <1>3, <1>4, <1>5, <1>6, <1>7
  DEF ThreadStep, Lookup, StoreAdd, Count, StoreUpdate, BindCheck, DeleteProbe, StoreDelete,
      StoreDeleteObjects, ListForDelete, TombstonesForDelete, NextKey, ResetCount, ResetStore

LEMMA InReachNext ==
  /\ \A v \in Views, k \in Keys : stores'[v][k] \in reachable'
  /\ \A u \in Threads : threads'[u].new \in reachable' /\ threads'[u].found \in reachable'
<1>1. ASSUME NEW v \in Views, NEW k \in Keys  PROVE stores'[v][k] \in reachable'
  <2> DEFINE S == {stores'[v][j] : j \in Keys}
             U == {{stores'[x][j] : j \in Keys} : x \in Views}
  <2>1. stores'[v][k] \in S
    OBVIOUS
  <2>2. S \in U
    OBVIOUS
  <2>3. UNION U \subseteq reachable'
    BY DEF reachable
  <2> HIDE DEF S, U
  <2> QED  BY <2>1, <2>2, <2>3
<1>2. ASSUME NEW u \in Threads
      PROVE  threads'[u].new \in reachable' /\ threads'[u].found \in reachable'
  <2>1. {threads'[u].found, threads'[u].new} \in {{threads'[x].found, threads'[x].new} : x \in Threads}
    OBVIOUS
  <2> QED  BY <2>1 DEF reachable
<1> QED  BY <1>1, <1>2

LEMMA IndependentStep ==
  ASSUME ViewInv, OwnObjects, OwnObjects', [Next]_vars, neverPatches
  PROVE  /\ \A v \in Views : Contents(v)' # Contents(v) =>
              \E t \in Threads : threads'[t] # threads[t] /\ threads[t].view = v
         /\ ~shared'
<1>1. CASE UNCHANGED vars
  BY <1>1 DEF OwnObjects, Contents, isLive, shared, vars
<1>2. CASE Next
  <2>1. PICK t \in Threads : Calls(t) \/ ThreadStep(t)
    BY <1>2 DEF Next
  <2>2. ~shared'
    <3>1. neverPatches'
      BY <1>2 DEF Next, neverPatches
    <3> QED  BY <3>1 DEF OwnObjects
  <2>3. ~Patch(t)
    BY MyState DEF Patch, At, ThreadOK, heading, neverPatches
  <2>4. ASSUME NEW v \in Views, stores'[v] = stores[v]  PROVE Contents(v)' = Contents(v)
    <3>1. ASSUME NEW k \in Keys, stores[v][k] \in Refs
          PROVE  heap'[stores[v][k]] = heap[stores[v][k]]
      <4>1. stores[v][k] \in reachable /\ stores[v][k] \in reachable'
        BY <2>4, InReach, InReachNext
      <4> QED  BY <2>1, <2>3, <3>1, <4>1, HeapWrite
    <3> QED  BY <2>4, <3>1 DEF Contents, isLive
  <2>5. ASSUME NEW v \in Views, stores'[v] # stores[v]
        PROVE  threads'[t] # threads[t] /\ threads[t].view = v
    <3>1. SlotWrite(t) \/ StoreWipe(t)
      BY <2>1, <2>5, StoreStep
    <3>2. threads'[t] # threads[t]
      BY <3>1 DEF SlotWrite, StoreWipe
    <3>3. stores \in [Views -> [Keys -> Slot]] /\ threads[t].view \in Views
      BY MyState DEF ViewInv
    <3>4. threads[t].view = v
      BY <2>5, <3>1, <3>3 DEF SlotWrite, StoreWipe, SetStore
    <3> QED  BY <3>2, <3>4
  <2> QED  BY <2>2, <2>4, <2>5
<1> QED  BY <1>1, <1>2

LEMMA OwnStart == Init => OwnObjects
<1> SUFFICES ASSUME Init  PROVE ~shared /\ \A t \in Threads : threads[t].new \notin Refs
  BY DEF OwnObjects
<1>1. \A t \in Threads : threads[t].new \notin Refs
  BY IdleFacts, RefFacts DEF Init
<1>2. PICK place \in [InitKeys -> 1..Cardinality(InitKeys)] :
        /\ \A j, k \in InitKeys : place[j] = place[k] => j = k
        /\ stores = [v \in Views |-> [k \in Keys |->
                      IF v = 0 /\ k \in InitKeys THEN place[k] ELSE Absent]]
  BY DEF Init
<1>3. \A v \in Views, k \in Keys : stores[v][k] \in Refs =>
        v = 0 /\ k \in InitKeys /\ stores[v][k] = place[k]
  BY <1>2, RefFacts
<1>4. ~shared
  BY <1>2, <1>3 DEF shared, isLive
<1> QED  BY <1>1, <1>4

(* Independence: in a run without Patch, whatever the threads do to the    *)
(* views above and below it, the objects of a view change only in steps of *)
(* operations called on that view, because an object that an operation is  *)
(* about to store is in no store and in no other thread's hands.           *)
THEOREM ViewsAreIndependent == Spec => Independence
<1>1. ViewInv /\ OwnObjects /\ [Next]_vars => (ViewInv /\ OwnObjects)'
  BY ViewStep, OwnStep
<1>2. ViewInv /\ OwnObjects /\ OwnObjects' /\ [Next]_vars =>
        [neverPatches =>
           /\ \A v \in Views : Contents(v)' # Contents(v) =>
                \E t \in Threads : threads'[t] # threads[t] /\ threads[t].view = v
           /\ ~shared']_vars
  BY IndependentStep
<1> QED  BY <1>1, <1>2, ViewStart, OwnStart, PTL DEF Spec, Independence

-----------------------------------------------------------------------------
(* What a call knows of its object when it writes.                         *)

(* The moves from a thread state m to n that matter here: to a call that   *)
(* replaces nothing, and each way of finding, copying and replacing.       *)
Rests(n) ==
  /\ \/ n.pc \notin {"lookup", "count", "materialise", "bind", "bindCheck", "patch", "patchStatus",
                     "update", "updateAgain"}
     \/ n.pc = "count" /\ n.ret \in {"idle", "remove"}
     \/ n.pc = "update" /\ n.op = "Update"
  /\ n.lvl <= n.view
Starts(n) == n.pc = "lookup" /\ n.ret \in {"bind", "patch", "patchStatus"} /\ n.lvl = n.view
Hits(m, n) ==
  /\ m.pc = "lookup" /\ stores[m.lvl][m.key] \in Refs
  /\ n.pc = m.ret /\ n.ret = m.ret /\ n.lvl = m.lvl
  /\ n.found = stores[m.lvl][m.key] /\ n.new = m.new
Descends(m, n) ==
  /\ m.pc = "lookup" /\ stores[m.lvl][m.key] = Absent /\ m.lvl > 0
  /\ n.pc = "lookup" /\ n.ret = m.ret /\ n.lvl = m.lvl - 1 /\ n.new = m.new
Delegates(m, n) ==
  /\ m.pc \in {"update", "probe"} /\ stores[m.view][m.key] = Absent /\ m.view > 0
  /\ n.pc = "lookup" /\ n.ret = "materialise" /\ n.lvl = m.view - 1 /\ n.new = m.new
Resumes(m, n) ==
  /\ m.pc = "count" /\ m.ret \in {"bind", "updateAgain"}
  /\ n.pc = m.ret /\ n.ret = m.ret /\ n.lvl = m.lvl /\ n.found = m.found /\ n.new = m.new
Prepares(m, n) ==
  /\ m.pc = "bind" /\ m.lvl = m.view
  /\ n.pc = "lookup" /\ n.ret = "bindCheck" /\ n.lvl = m.lvl
Replaces(m, n) ==
  /\ n.pc = "update" /\ n.lvl = m.lvl
  /\ \/ m.pc = "bindCheck" /\ heap[m.found].node = NoNode
     \/ m.pc = "patch" /\ n.new = m.found
     \/ m.pc = "patchStatus" /\ n.new \in Refs /\ heap'[n.new].node = heap[m.found].node
Copies(m, n) ==
  /\ free # {} /\ SetStore(m.view, m.key, fresh) /\ heap'[fresh] = heap[m.found]
  /\ n.pc = "count" /\ n.new = m.new
  /\ \/ m.pc = "materialise" /\ n.lvl = m.lvl /\ n.ret \in {"remove", "updateAgain"}
        /\ (n.ret = "updateAgain" => m.op \notin {"Delete", "DeleteObjects"})
     \/ m.pc = "bind" /\ m.lvl < m.view /\ n.ret = "bind" /\ n.lvl = m.view /\ n.found = fresh
Same(m, n) == n.op = m.op /\ n.view = m.view /\ n.key = m.key
Moves(m, n) ==
  \/ Rests(n)
  \/ stores' = stores /\ Starts(n)
  \/ /\ stores' = stores /\ Same(m, n)
     /\ \/ Hits(m, n) \/ Descends(m, n) \/ Delegates(m, n) \/ Resumes(m, n) \/ Prepares(m, n)
        \/ Replaces(m, n)
  \/ Same(m, n) /\ Copies(m, n)

LEMMA FinishedRests ==
  ASSUME NEW m \in ThreadState, m.lvl <= m.view
  PROVE  Rests(Finished(m))
<1>1. CASE m.op = "DeleteObjects" /\ m.todo # {}
  <2> DEFINE x == [m EXCEPT !.pc = "nextKey", !.found = 0, !.new = 0, !.exclude = {}]
  <2>1. x.pc = "nextKey" /\ x.lvl = m.lvl /\ x.view = m.view
    BY DEF ThreadState
  <2>2. Finished(m) = x
    BY <1>1 DEF Finished
  <2> HIDE DEF x
  <2> QED  BY <2>1, <2>2 DEF Rests
<1>2. CASE ~(m.op = "DeleteObjects" /\ m.todo # {})
  <2>1. Finished(m) = Idle /\ Idle.lvl = 0
    BY <1>2 DEF Finished, Idle
  <2> QED  BY <2>1, IdleFacts DEF Rests
<1> QED  BY <1>1, <1>2

LEMMA IdleRests == Rests(Idle)
<1>1. Idle.lvl = 0
  BY DEF Idle
<1> QED  BY <1>1, IdleFacts DEF Rests

LEMMA CopyStored ==
  ASSUME ViewInv, NEW t \in Threads, free # {}, NEW o,
         SetStore(threads[t].view, threads[t].key, fresh), Heap([heap EXCEPT ![fresh] = o])
  PROVE  heap'[fresh] = o
<1> DEFINE v == threads[t].view  k == threads[t].key
<1>1. v \in Views /\ k \in Keys /\ stores \in [Views -> [Keys -> Slot]] /\ heap \in [Refs -> Object]
  BY MyState DEF ViewInv
<1>2. fresh \in Refs
  BY FreshFacts
<1>3. stores'[v][k] = fresh
  BY <1>1 DEF SetStore
<1>4. fresh \in reachable'
  BY <1>1, <1>3, InReachNext
<1> QED  BY <1>1, <1>2, <1>4 DEF Heap

LEMMA StepMoves ==
  ASSUME ViewInv, NEW t \in Threads, LevelOK(threads[t]), Calls(t) \/ ThreadStep(t)
  PROVE  Moves(threads[t], threads'[t])
<1> DEFINE m == threads[t]  n == threads'[t]
<1>m. /\ Me(t) = m /\ ThreadOK(t, m)
      /\ \A x : Go(t, x) => n = x
  BY MyState
<1>s. m \in ThreadState
  BY MyState
<1>l. m.lvl <= m.view /\ m.lvl \in Nat /\ m.view \in Nat
  BY MyState, RefFacts DEF LevelOK
<1>p. \A x : At(t, x) <=> m.pc = x
  BY DEF At
<1>f. Rests(Finished(m))
  BY <1>s, <1>l, FinishedRests
<1>n. n.new \in reachable'
  BY InReachNext
<1>h. ASSUME NEW r \in Refs, NEW h, Heap(h), r \in reachable'  PROVE heap'[r] = h[r]
  BY <1>h DEF Heap
<1> SUFFICES Moves(m, n)
  OBVIOUS
<1> HIDE DEF m, n
<1>1. CASE Calls(t)
  <2>1. PICK op \in scenario.ops[t], v \in scenario.views[t], k \in Keys :
          \E arg \in Args(op), val \in Vals : Begin(t, op, v, k, arg, [node |-> NoNode, val |-> val])
    BY <1>1 DEF Calls
  <2>2. PICK arg \in Args(op), val \in Vals : Begin(t, op, v, k, arg, [node |-> NoNode, val |-> val])
    BY <2>1
  <2>3. PICK x : /\ Go(t, x) /\ x.op = op /\ x.view = v /\ x.lvl = v
                 /\ x.pc = FirstPc(op, v) /\ x.ret = AfterLookup(op)
    BY <2>2, BeginThread
  <2>4. op \in AllOps /\ v \in Nat
    BY ScenarioTypes, RefFacts DEF ViewInv
  <2>5. n = x /\ stores' = stores
    BY <1>m, <2>2, <2>3 DEF Begin
  <2>6. CASE op \in {"Bind", "Patch", "PatchStatus"}
    <3>1. x.pc = "lookup" /\ x.ret \in {"bind", "patch", "patchStatus"}
      BY <2>3, <2>6 DEF FirstPc, AfterLookup
    <3> QED  BY <2>3, <2>5, <3>1 DEF Moves, Starts
  <2>7. CASE op \in {"Create", "Update"}
    <3>1. x.pc = IF op = "Create" THEN "add" ELSE "update"
      BY <2>3, <2>7 DEF FirstPc
    <3> QED  BY <2>3, <2>4, <2>5, <2>7, <3>1 DEF Moves, Rests
  <2>8. CASE op \in {"Delete", "DeleteObjects", "Reset"}
    <3>1. x.pc \in {"remove", "probe", "removeAll", "list", "resetCount"}
      BY <2>3, <2>8 DEF FirstPc
    <3> QED  BY <2>3, <2>4, <2>5, <3>1 DEF Moves, Rests
  <2> QED  BY <2>4, <2>6, <2>7, <2>8 DEF AllOps
<1>2. CASE Lookup(t)
  <2> DEFINE s == stores[m.lvl][m.key]
  <2>1. /\ m.pc = "lookup" /\ stores' = stores
        /\ \/ s \in Refs /\ Go(t, [m EXCEPT !.pc = m.ret, !.found = s])
           \/ s = Absent /\ m.lvl > 0 /\ Go(t, [m EXCEPT !.lvl = m.lvl - 1])
           \/ Go(t, Finished(m))
    BY <1>2, <1>m, <1>p DEF Lookup
  <2>2. CASE s \in Refs /\ n = [m EXCEPT !.pc = m.ret, !.found = s]
    <3>1. Same(m, n) /\ Hits(m, n)
      BY <1>s, <2>1, <2>2 DEF Same, Hits, ThreadState
    <3> QED  BY <2>1, <3>1 DEF Moves
  <2>3. CASE s = Absent /\ m.lvl > 0 /\ n = [m EXCEPT !.lvl = m.lvl - 1]
    <3>1. Same(m, n) /\ Descends(m, n)
      BY <1>s, <2>1, <2>3 DEF Same, Descends, ThreadState
    <3> QED  BY <2>1, <3>1 DEF Moves
  <2>4. CASE n = Finished(m)
    BY <1>f, <2>4 DEF Moves
  <2> QED  BY <1>m, <2>1, <2>2, <2>3, <2>4
<1>3. CASE StoreAdd(t)
  <2>1. n = [m EXCEPT !.pc = "count", !.ret = "idle", !.new = 0]
    BY <1>3, <1>m DEF StoreAdd
  <2>2. n.pc = "count" /\ n.ret = "idle" /\ n.lvl = m.lvl /\ n.view = m.view
    BY <1>s, <2>1 DEF ThreadState
  <2> QED  BY <1>l, <2>2 DEF Moves, Rests
<1>4. CASE Count(t)
  <2>1. /\ m.pc = "count" /\ stores' = stores
        /\ n = IF m.ret = "idle" THEN Finished(m) ELSE [m EXCEPT !.pc = m.ret]
    BY <1>4, <1>m, <1>p DEF Count
  <2>2. m.ret \in {"idle", "bind", "updateAgain", "remove"}
    BY <1>m, <2>1 DEF ThreadOK
  <2>3. CASE m.ret = "idle"
    BY <1>f, <2>1, <2>3 DEF Moves
  <2>4. CASE m.ret # "idle"
    <3>1. /\ Same(m, n) /\ n.pc = m.ret /\ n.ret = m.ret /\ n.lvl = m.lvl
          /\ n.found = m.found /\ n.new = m.new
      BY <1>s, <2>1, <2>4 DEF Same, ThreadState
    <3>2. n.view = m.view
      BY <3>1 DEF Same
    <3> QED  BY <1>l, <2>1, <2>2, <2>4, <3>1, <3>2 DEF Moves, Resumes, Rests
  <2> QED  BY <2>3, <2>4
<1>5. CASE StoreUpdate(t)
  <2>1. CASE n = [m EXCEPT !.pc = "count", !.ret = "idle", !.new = 0]
    <3>1. n.pc = "count" /\ n.ret = "idle" /\ n.lvl = m.lvl /\ n.view = m.view
      BY <1>s, <2>1 DEF ThreadState
    <3> QED  BY <1>l, <3>1 DEF Moves, Rests
  <2>2. CASE /\ stores[m.view][m.key] = Absent /\ m.view > 0 /\ m.pc = "update" /\ stores' = stores
             /\ n = [m EXCEPT !.pc = "lookup", !.ret = "materialise", !.lvl = m.view - 1]
    <3>1. Same(m, n) /\ Delegates(m, n)
      BY <1>s, <2>2 DEF Same, Delegates, ThreadState
    <3> QED  BY <2>2, <3>1 DEF Moves
  <2>3. CASE n = Idle
    BY <2>3, IdleRests DEF Moves
  <2> QED  BY <1>5, <1>m, <2>1, <2>2, <2>3 DEF StoreUpdate
<1>6. CASE Materialise(t)
  <2> DEFINE r == IF m.op \in {"Delete", "DeleteObjects"} THEN "remove" ELSE "updateAgain"
  <2>1. /\ m.pc = "materialise" /\ free # {} /\ SetStore(m.view, m.key, fresh)
        /\ n = [m EXCEPT !.pc = "count", !.found = 0, !.ret = r]
        /\ Heap([heap EXCEPT ![fresh] = heap[m.found]])
    BY <1>6, <1>m, <1>p DEF Materialise, AddCopy
  <2>2. r \in {"remove", "updateAgain"} /\ (r = "updateAgain" => m.op \notin {"Delete", "DeleteObjects"})
    OBVIOUS
  <2> HIDE DEF r
  <2>3. Same(m, n) /\ n.pc = "count" /\ n.new = m.new /\ n.lvl = m.lvl /\ n.ret = r
    BY <1>s, <2>1 DEF Same, ThreadState
  <2>4. heap'[fresh] = heap[m.found]
    BY <2>1, CopyStored DEF m
  <2> QED  BY <2>1, <2>2, <2>3, <2>4 DEF Moves, Copies
<1>7. CASE BindMaterialise(t)
  <2>1. /\ m.pc = "bind" /\ m.lvl < m.view /\ free # {} /\ SetStore(m.view, m.key, fresh)
        /\ n = [m EXCEPT !.pc = "count", !.ret = "bind", !.found = fresh, !.lvl = m.view]
        /\ Heap([heap EXCEPT ![fresh] = heap[m.found]])
    BY <1>7, <1>m, <1>p DEF BindMaterialise, AddCopy
  <2>2. /\ Same(m, n) /\ n.pc = "count" /\ n.new = m.new /\ n.lvl = m.view /\ n.ret = "bind"
        /\ n.found = fresh
    BY <1>s, <2>1 DEF Same, ThreadState
  <2>3. heap'[fresh] = heap[m.found]
    BY <2>1, CopyStored DEF m
  <2> QED  BY <2>1, <2>2, <2>3 DEF Moves, Copies
<1>8. CASE BindCopy(t)
  <2>1. /\ m.pc = "bind" /\ m.lvl = m.view /\ stores' = stores
        /\ n = [m EXCEPT !.pc = "lookup", !.ret = "bindCheck", !.new = fresh, !.found = 0]
    BY <1>8, <1>m, <1>p DEF BindCopy
  <2>2. Same(m, n) /\ Prepares(m, n)
    BY <1>s, <2>1 DEF Same, Prepares, ThreadState
  <2> QED  BY <2>1, <2>2 DEF Moves
<1>9. CASE BindCheck(t)
  <2>1. /\ m.pc = "bindCheck" /\ stores' = stores
        /\ \/ n = Idle
           \/ heap[m.found].node = NoNode /\ n = [m EXCEPT !.pc = "update", !.found = 0]
    BY <1>9, <1>m, <1>p DEF BindCheck
  <2>2. CASE heap[m.found].node = NoNode /\ n = [m EXCEPT !.pc = "update", !.found = 0]
    <3>1. Same(m, n) /\ n.pc = "update" /\ n.lvl = m.lvl
      BY <1>s, <2>2 DEF Same, ThreadState
    <3> QED  BY <2>1, <2>2, <3>1 DEF Moves, Replaces
  <2> QED  BY <2>1, <2>2, IdleRests DEF Moves
<1>10. CASE Patch(t)
  <2>1. /\ m.pc = "patch" /\ stores' = stores
        /\ n = Idle \/ n = [m EXCEPT !.pc = "update", !.new = m.found, !.found = 0]
    BY <1>10, <1>m, <1>p DEF Patch
  <2>2. CASE n = [m EXCEPT !.pc = "update", !.new = m.found, !.found = 0]
    <3>1. Same(m, n) /\ n.pc = "update" /\ n.lvl = m.lvl /\ n.new = m.found
      BY <1>s, <2>2 DEF Same, ThreadState
    <3> QED  BY <2>1, <2>2, <3>1 DEF Moves, Replaces
  <2> QED  BY <2>1, <2>2, IdleRests DEF Moves
<1>11. CASE PatchStatus(t)
  <2>1. /\ m.pc = "patchStatus" /\ stores' = stores /\ free # {}
        /\ n = [m EXCEPT !.pc = "update", !.new = fresh, !.found = 0]
        /\ Heap([heap EXCEPT ![fresh] = [heap[m.found] EXCEPT !.val = m.arg]])
    BY <1>11, <1>m, <1>p DEF PatchStatus
  <2>2. Same(m, n) /\ n.pc = "update" /\ n.lvl = m.lvl /\ n.new = fresh
    BY <1>s, <2>1 DEF Same, ThreadState
  <2>3. fresh \in Refs /\ m.found \in Refs
    BY <1>m, <2>1, FreshFacts DEF ThreadOK
  <2>4. heap'[fresh] = [heap EXCEPT ![fresh] = [heap[m.found] EXCEPT !.val = m.arg]][fresh]
    BY <1>h, <1>n, <2>1, <2>2, <2>3
  <2>5. heap[m.found] \in Object /\ heap \in [Refs -> Object]
    BY <2>3 DEF ViewInv
  <2>6. heap'[fresh].node = heap[m.found].node
    BY <2>3, <2>4, <2>5 DEF Object
  <2> QED  BY <2>1, <2>2, <2>3, <2>6 DEF Moves, Replaces
<1>12. CASE DeleteProbe(t)
  <2>1. stores[m.view][m.key] \in Slot
    BY MyState DEF ViewInv, m
  <2>2. /\ m.pc = "probe" /\ stores' = stores /\ m.view > 0
        /\ \/ n = [m EXCEPT !.pc = "remove"] \/ n = Finished(m)
           \/ /\ stores[m.view][m.key] = Absent
              /\ n = [m EXCEPT !.pc = "lookup", !.ret = "materialise", !.lvl = m.view - 1]
    BY <1>12, <1>m, <1>p, <2>1 DEF DeleteProbe, ThreadOK, heading, Slot
  <2>3. CASE n = [m EXCEPT !.pc = "remove"]
    <3>1. n.pc = "remove" /\ n.lvl = m.lvl /\ n.view = m.view
      BY <1>s, <2>3 DEF ThreadState
    <3> QED  BY <1>l, <3>1 DEF Moves, Rests
  <2>4. CASE /\ stores[m.view][m.key] = Absent
             /\ n = [m EXCEPT !.pc = "lookup", !.ret = "materialise", !.lvl = m.view - 1]
    <3>1. Same(m, n) /\ Delegates(m, n)
      BY <1>s, <2>2, <2>4 DEF Same, Delegates, ThreadState
    <3> QED  BY <2>2, <3>1 DEF Moves
  <2> QED  BY <1>f, <2>2, <2>3, <2>4 DEF Moves
<1>13. CASE StoreDelete(t) \/ StoreDeleteObjects(t)
  <2>1. n = Finished(m) \/ n = Idle \/ n = [m EXCEPT !.pc = "count", !.ret = "idle"]
    BY <1>13, <1>m DEF StoreDelete, StoreDeleteObjects
  <2>2. CASE n = [m EXCEPT !.pc = "count", !.ret = "idle"]
    <3>1. n.pc = "count" /\ n.ret = "idle" /\ n.lvl = m.lvl /\ n.view = m.view
      BY <1>s, <2>2 DEF ThreadState
    <3> QED  BY <1>l, <3>1 DEF Moves, Rests
  <2> QED  BY <1>f, <2>1, <2>2, IdleRests DEF Moves
<1>14. CASE ListForDelete(t)
  <2> DEFINE l == m.todo \union {o[1] : o \in storeList(m.lvl, m.exclude)}
  <2>1. \/ n = [m EXCEPT !.pc = "listTombstones", !.todo = l]
        \/ n = Finished([m EXCEPT !.todo = l])
    BY <1>14, <1>m DEF ListForDelete
  <2>2. l \subseteq Keys
    <3>1. \A o \in storeList(m.lvl, m.exclude) : o[1] \in Keys
      BY DEF storeList
    <3> QED  BY <1>s, <3>1 DEF ThreadState
  <2> HIDE DEF l
  <2> DEFINE x == [m EXCEPT !.todo = l]
  <2>3. x \in ThreadState /\ x.lvl = m.lvl /\ x.view = m.view
    BY <1>s, <2>2 DEF ThreadState
  <2> HIDE DEF x
  <2>4. Rests(Finished(x))
    BY <1>l, <2>3, FinishedRests
  <2>5. CASE n = [m EXCEPT !.pc = "listTombstones", !.todo = l]
    <3>1. n.pc = "listTombstones" /\ n.lvl = m.lvl /\ n.view = m.view
      BY <1>s, <2>5 DEF ThreadState
    <3> QED  BY <1>l, <3>1 DEF Moves, Rests
  <2> QED  BY <2>1, <2>4, <2>5 DEF Moves, x
<1>15. CASE TombstonesForDelete(t)
  <2>1. /\ m.pc = "listTombstones"
        /\ n = [m EXCEPT !.pc = "list", !.lvl = m.lvl - 1, !.exclude = ListTombstonedKeys(m.lvl)]
    BY <1>15, <1>m, <1>p DEF TombstonesForDelete
  <2>2. m.lvl > 0
    BY <1>m, <2>1 DEF ThreadOK
  <2>3. n.pc = "list" /\ n.lvl = m.lvl - 1 /\ n.view = m.view
    BY <1>s, <2>1 DEF ThreadState
  <2> QED  BY <1>l, <2>2, <2>3 DEF Moves, Rests
<1>16. CASE (\E k \in Keys : NextKey(t, k)) \/ ResetCount(t)
  <2>1. \/ \E k \in Keys : n = [m EXCEPT !.pc = "probe", !.key = k, !.todo = m.todo \ {k}]
        \/ n = [m EXCEPT !.pc = "resetStore"]
    BY <1>16, <1>m DEF NextKey, ResetCount
  <2>2. n.pc \in {"probe", "resetStore"} /\ n.lvl = m.lvl /\ n.view = m.view
    BY <1>s, <2>1 DEF ThreadState
  <2> QED  BY <1>l, <2>2 DEF Moves, Rests
<1>17. CASE ResetStore(t)
  BY <1>17, <1>m, IdleRests DEF ResetStore, Moves
<1> QED  BY <1>1, <1>2, <1>3, <1>4, <1>5, <1>6, <1>7, <1>8, <1>9, <1>10, <1>11, <1>12, <1>13,
            <1>14, <1>15, <1>16, <1>17 DEF ThreadStep

(* Only an active thread steps, and the others keep their state.           *)
LEMMA Acting ==
  ASSUME ViewInv, NEW t \in Threads, Calls(t) \/ ThreadStep(t)
  PROVE  /\ \A u \in Threads : u # t => threads'[u] = threads[u]
         /\ t \in active
         /\ threads[t].pc # "idle" => threads[t].view \in scenario.views[t]
<1>1. PICK m : Go(t, m) /\ ThreadOK(t, m)
  BY AnyStep
<1>2. threads \in [Threads -> ThreadState] /\ ThreadOK(t, threads[t])
  BY DEF ViewInv
<1>3. \A u \in Threads : u # t => threads'[u] = threads[u]
  BY <1>1, <1>2 DEF Go
<1>4. t \in active
  <2>1. CASE Calls(t)
    BY <2>1 DEF Calls, active
  <2>2. CASE ThreadStep(t)
    <3>1. threads[t].pc # "idle"
      BY <2>2
      DEF ThreadStep, Lookup, StoreAdd, Count, StoreUpdate, Materialise, BindMaterialise,
          BindCopy, BindCheck, Patch, PatchStatus, DeleteProbe, StoreDelete, StoreDeleteObjects,
          ListForDelete, TombstonesForDelete, NextKey, ResetCount, ResetStore, At, Me
    <3> QED  BY <1>2, <3>1 DEF ThreadOK, active
  <2> QED  BY <2>1, <2>2
<1> QED  BY <1>2, <1>3, <1>4 DEF ThreadOK

LEMMA LevelMove ==
  ASSUME NEW m, NEW n, NEW t, ThreadOK(t, m), ThreadOK(t, n), LevelOK(m), Moves(m, n)
  PROVE  LevelOK(n)
<1>1. m.lvl \in Nat /\ m.view \in Nat /\ n.lvl \in Nat /\ n.view \in Nat
  BY RefFacts DEF ThreadOK, ThreadState
<1> USE DEF heading
<1>2. CASE Rests(n)
  BY <1>1, <1>2 DEF Rests, LevelOK
<1>3. CASE Starts(n)
  BY <1>1, <1>3 DEF Starts, LevelOK
<1>4. CASE Same(m, n) /\ Hits(m, n)
  <2>1. m.ret \in {"bind", "patch", "patchStatus", "bindCheck", "materialise"}
    BY <1>4 DEF Hits, ThreadOK
  <2> QED  BY <1>4, <2>1 DEF Hits, Same, LevelOK
<1>5. CASE Same(m, n) /\ Descends(m, n)
  <2>1. n.lvl < m.lvl
    BY <1>1, <1>5 DEF Descends
  <2> QED  BY <1>1, <1>5, <2>1 DEF Descends, Same, LevelOK
<1>6. CASE Same(m, n) /\ Delegates(m, n)
  <2>1. n.lvl < m.view
    BY <1>1, <1>6 DEF Delegates
  <2>2. m.op \in {"Update", "Bind", "Patch", "PatchStatus", "Delete", "DeleteObjects"}
    BY <1>6 DEF Delegates, ThreadOK, LevelOK
  <2> QED  BY <1>1, <1>6, <2>1, <2>2 DEF Delegates, Same, LevelOK
<1>7. CASE Same(m, n) /\ Resumes(m, n)
  BY <1>7 DEF Resumes, Same, LevelOK
<1>8. CASE Same(m, n) /\ Prepares(m, n)
  BY <1>1, <1>8 DEF Prepares, Same, LevelOK
<1>9. CASE Same(m, n) /\ Replaces(m, n)
  <2>1. m.op \in {"Bind", "Patch", "PatchStatus"}
    BY <1>9 DEF Replaces, ThreadOK
  <2> QED  BY <1>9, <2>1 DEF Replaces, Same, LevelOK
<1>10. CASE Same(m, n) /\ Copies(m, n)
  BY <1>1, <1>10 DEF Copies, Same, LevelOK
<1> QED  BY <1>2, <1>3, <1>4, <1>5, <1>6, <1>7, <1>8, <1>9, <1>10 DEF Moves

LEMMA LevelsStep ==
  ASSUME ViewInv, ViewInv', Levels, [Next]_vars
  PROVE  Levels'
<1>1. CASE UNCHANGED vars
  BY <1>1 DEF Levels, vars, LevelOK, heading
<1>2. CASE Next
  <2>1. PICK t \in Threads : Calls(t) \/ ThreadStep(t)
    BY <1>2 DEF Next
  <2>2. PICK n : Go(t, n) /\ ThreadOK(t, n)
    BY <2>1, AnyStep
  <2>3. threads'[t] = n /\ ThreadOK(t, threads[t]) /\ LevelOK(threads[t])
    BY <2>2, MyState DEF Levels
  <2>4. Moves(threads[t], n)
    BY <2>1, <2>3, StepMoves
  <2>5. LevelOK(n)
    BY <2>2, <2>3, <2>4, LevelMove
  <2>6. \A u \in Threads : LevelOK(threads'[u])
    BY <2>1, <2>3, <2>5, Acting DEF Levels
  <2> QED  BY <2>6 DEF Levels, LevelOK, heading
<1> QED  BY <1>1, <1>2

LEMMA LevelsStart == Init => Levels
<1>1. Idle.lvl = 0
  BY DEF Idle
<1> QED  BY <1>1, IdleFacts DEF Init, Levels, LevelOK, heading

LEMMA OneWriterStep ==
  ASSUME ViewInv, ViewInv', Levels, OneWriter, [Next]_vars
  PROVE  OneWriter'
<1>1. CASE UNCHANGED vars
  BY <1>1 DEF OneWriter, oneThreadPerView, active, below, vars
<1>2. CASE Next
  <2>1. PICK t \in Threads : Calls(t) \/ ThreadStep(t)
    BY <1>2 DEF Next
  <2>2. oneThreadPerView' <=> oneThreadPerView
    BY <1>2 DEF Next, oneThreadPerView, active
  <2> SUFFICES ASSUME oneThreadPerView, NEW u \in Threads, below(threads'[u])
               PROVE  stores'[threads'[u].view][threads'[u].key] = Absent
    BY <2>2 DEF OneWriter, below
  <2>3. \A x \in Threads : below(threads[x]) => stores[threads[x].view][threads[x].key] = Absent
    BY DEF OneWriter
  <2>4. CASE u # t
    <3>1. threads'[u] = threads[u]
      BY <2>1, <2>4, Acting
    <3>2. ThreadOK(u, threads[u]) /\ threads[u].pc # "idle"
      BY <3>1 DEF ViewInv, below
    <3>3. u \in active /\ threads[u].view \in scenario.views[u]
      BY <3>2 DEF ThreadOK, active
    <3>4. CASE stores' = stores
      BY <2>3, <3>1, <3>4
    <3>5. CASE stores' # stores
      <4>1. SlotWrite(t) \/ StoreWipe(t)
        BY <2>1, <3>5, StoreStep
      <4>2. threads[t].pc # "idle"
        <5>1. CASE Calls(t)
          BY <3>5, <5>1 DEF Calls, Begin
        <5>2. CASE ThreadStep(t)
          BY <5>2
          DEF ThreadStep, Lookup, StoreAdd, Count, StoreUpdate, Materialise, BindMaterialise,
              BindCopy, BindCheck, Patch, PatchStatus, DeleteProbe, StoreDelete, StoreDeleteObjects,
              ListForDelete, TombstonesForDelete, NextKey, ResetCount, ResetStore, At, Me
        <5> QED  BY <2>1, <5>1, <5>2
      <4>3. threads[t].view \in scenario.views[t] /\ t \in active
        BY <2>1, <4>2, Acting
      <4>4. threads[t].view # threads[u].view
        BY <2>4, <3>3, <4>3 DEF oneThreadPerView
      <4>5. /\ stores \in [Views -> [Keys -> Slot]]
            /\ threads[t].view \in Views /\ threads[u].view \in Views
        BY MyState DEF ViewInv
      <4>6. stores'[threads[u].view] = stores[threads[u].view]
        BY <4>1, <4>4, <4>5 DEF SlotWrite, StoreWipe, SetStore
      <4> QED  BY <2>3, <3>1, <4>6
    <3> QED  BY <3>4, <3>5
  <2>5. CASE u = t
    <3> DEFINE m == threads[t]  n == threads'[t]
    <3>1. LevelOK(m) /\ ThreadOK(t, m)
      BY MyState DEF Levels
    <3>2. Moves(m, n)
      BY <2>1, <3>1, StepMoves
    <3>3. m.lvl \in Nat /\ m.view \in Nat /\ n.lvl \in Nat /\ n.view \in Nat
      <4>1. m \in ThreadState /\ n \in ThreadState
        BY DEF ViewInv
      <4> QED  BY <4>1, RefFacts DEF ThreadState
    <3>4. below(n)
      BY <2>5
    <3>5. below(m) => stores[m.view][m.key] = Absent
      BY <2>3
    <3> SUFFICES stores'[n.view][n.key] = Absent
      BY <2>5
    <3> HIDE DEF m, n
    <3>6. CASE Rests(n)
      BY <3>4, <3>6 DEF Rests, below
    <3>7. CASE Starts(n)
      BY <3>3, <3>4, <3>7 DEF Starts, below
    <3>8. CASE stores' = stores /\ Same(m, n) /\ (Hits(m, n) \/ Descends(m, n))
      <4>1. n.lvl = m.lvl => below(m)
        BY <3>4, <3>8 DEF Hits, Descends, Same, below
      <4>2. Hits(m, n) => below(m)
        BY <4>1 DEF Hits
      <4>3. m.lvl # m.view => m.lvl < m.view
        BY <3>1, <3>3 DEF LevelOK
      <4>4. Descends(m, n) /\ m.lvl # m.view => below(m)
        BY <4>3 DEF Descends, below
      <4>5. Descends(m, n) /\ m.lvl = m.view => stores[m.view][m.key] = Absent
        BY DEF Descends
      <4> QED  BY <3>5, <3>8, <4>2, <4>4, <4>5 DEF Same
    <3>9. CASE stores' = stores /\ Same(m, n) /\ Delegates(m, n)
      BY <3>9 DEF Delegates, Same
    <3>10. CASE Same(m, n) /\ Resumes(m, n)
      <4>1. m.ret = "bind" /\ m.pc = "count" /\ n.lvl = m.lvl /\ n.view = m.view
        BY <3>4, <3>10 DEF Resumes, below, Same
      <4> QED  BY <3>1, <3>3, <3>4, <4>1 DEF LevelOK, below
    <3>11. CASE Same(m, n) /\ (Prepares(m, n) \/ Replaces(m, n))
      BY <3>3, <3>4, <3>11 DEF Prepares, Replaces, below, Same
    <3>12. CASE Copies(m, n)
      BY <3>4, <3>12 DEF Copies, below
    <3> QED  BY <3>2, <3>6, <3>7, <3>8, <3>9, <3>10, <3>11, <3>12 DEF Moves
  <2> QED  BY <2>4, <2>5
<1> QED  BY <1>1, <1>2

LEMMA OneWriterStart == Init => OneWriter
BY IdleFacts DEF Init, OneWriter, below

(* A slot that is not empty is given another object by CreateObject, by    *)
(* updateObject if it holds an object, or by a copy from a delegate.       *)
LEMMA Overwrites ==
  ASSUME ViewInv, NEW t \in Threads, Calls(t) \/ ThreadStep(t), NEW v \in Views, NEW k \in Keys,
         stores'[v][k] \in Refs, stores'[v][k] # stores[v][k]
  PROVE  /\ v = threads[t].view /\ k = threads[t].key /\ threads'[t] # threads[t]
         /\ \/ threads[t].op = "Create"
            \/ /\ stores[v][k] \in Refs /\ threads[t].pc \in {"update", "updateAgain"}
               /\ stores'[v][k] = threads[t].new
            \/ threads[t].pc = "materialise"
            \/ threads[t].pc = "bind" /\ threads[t].lvl < threads[t].view
<1> DEFINE m == threads[t]
<1>m. Me(t) = m /\ ThreadOK(t, m) /\ m.view \in Views /\ m.key \in Keys
  BY MyState
<1>s. stores \in [Views -> [Keys -> Slot]] /\ Absent \notin Refs /\ Tombstone \notin Refs
  BY RefFacts DEF ViewInv
<1>p. \A x : At(t, x) <=> m.pc = x
  BY DEF At
<1>1. SlotWrite(t) \/ StoreWipe(t)
  BY StoreStep
<1>2. ~StoreWipe(t)
  BY <1>m, <1>s DEF StoreWipe
<1>3. v = m.view /\ k = m.key /\ threads'[t] # m
  <2>1. SlotWrite(t)
    BY <1>1, <1>2
  <2>2. threads'[t] # m
    BY <2>1 DEF SlotWrite
  <2>3. PICK s : stores' = [stores EXCEPT ![m.view][m.key] = s]
    BY <2>1 DEF SlotWrite, SetStore
  <2> HIDE DEF m
  <2> QED  BY <1>m, <1>s, <2>2, <2>3
<1> HIDE DEF m
<1>4. CASE StoreAdd(t)
  <2>1. m.op = "Create"
    BY <1>4, <1>m, <1>p DEF StoreAdd, ThreadOK, heading
  <2> QED  BY <1>3, <2>1 DEF m
<1>5. CASE StoreUpdate(t)
  <2>1. /\ m.pc \in {"update", "updateAgain"} /\ stores[m.view][m.key] \in Refs
        /\ SetStore(m.view, m.key, m.new)
    BY <1>5, <1>m DEF StoreUpdate
  <2>2. stores'[v][k] = m.new
    BY <1>3, <1>m, <1>s, <2>1 DEF SetStore
  <2> QED  BY <1>3, <2>1, <2>2 DEF m
<1>6. CASE Materialise(t) \/ BindMaterialise(t)
  <2>1. m.pc = "materialise" \/ (m.pc = "bind" /\ m.lvl < m.view)
    BY <1>6, <1>m, <1>p DEF Materialise, BindMaterialise
  <2> QED  BY <1>3, <2>1 DEF m
<1>7. CASE StoreDelete(t)
  <2>1. \E s \in {Absent, Tombstone} : SetStore(m.view, m.key, s)
    BY <1>7, <1>m DEF StoreDelete
  <2> QED  BY <1>3, <1>m, <1>s, <2>1 DEF SetStore
<1>8. CASE StoreDeleteObjects(t)
  <2>1. stores' = [stores EXCEPT ![0] = [j \in Keys |-> Absent]] /\ m.view = 0
    BY <1>8, <1>m, <1>p DEF StoreDeleteObjects, ThreadOK, heading
  <2> QED  BY <1>3, <1>m, <1>s, <2>1
<1>9. CASE ResetStore(t)
  <2>1. stores' = [stores EXCEPT ![m.view] = [j \in Keys |-> Absent]]
    BY <1>9, <1>m DEF ResetStore
  <2> QED  BY <1>3, <1>m, <1>s, <2>1
<1>10. CASE Calls(t)
  BY <1>10 DEF Calls, Begin
<1> QED
  BY <1>4, <1>5, <1>6, <1>7, <1>8, <1>9, <1>10
  DEF ThreadStep, Lookup, Count, BindCopy, BindCheck, Patch, PatchStatus, DeleteProbe, ListForDelete,
      TombstonesForDelete, NextKey, ResetCount

(* OnlyCreateResurrects: as long as no two threads work on the same view,  *)
(* UpdateObject, the patches, pod binding and the copying of a delegate's  *)
(* object never replace the tombstone of an object that was deleted in a   *)
(* sandbox.  The copy is the delicate case: between the lookup that found  *)
(* no entry and the store.Add of the copy other threads run, but none of   *)
(* them writes to this view.                                               *)
THEOREM TombstonesStand == Spec => OnlyCreateResurrects
<1> DEFINE I == ViewInv /\ Levels /\ OneWriter
<1>1. I /\ [Next]_vars => I'
  BY ViewStep, LevelsStep, OneWriterStep
<1>2. Init => I
  BY ViewStart, LevelsStart, OneWriterStart
<1>3. ASSUME I, [Next]_vars, oneThreadPerView, NEW v \in Views, NEW k \in Keys,
             stores[v][k] = Tombstone, stores'[v][k] \in Refs
      PROVE  \E t \in Threads : threads'[t] # threads[t] /\ threads[t].op = "Create"
  <2>1. stores'[v][k] # stores[v][k] /\ Tombstone \notin Refs /\ Tombstone # Absent
    BY <1>3, RefFacts
  <2>2. Next
    BY <1>3, <2>1 DEF vars
  <2>3. PICK t \in Threads : Calls(t) \/ ThreadStep(t)
    BY <2>2 DEF Next
  <2>4. /\ v = threads[t].view /\ k = threads[t].key /\ threads'[t] # threads[t]
        /\ \/ threads[t].op = "Create" \/ stores[v][k] \in Refs \/ threads[t].pc = "materialise"
           \/ threads[t].pc = "bind" /\ threads[t].lvl < threads[t].view
    BY <1>3, <2>1, <2>3, Overwrites
  <2>5. LevelOK(threads[t]) /\ (below(threads[t]) => stores[v][k] = Absent)
    BY <1>3, <2>4 DEF Levels, OneWriter
  <2>6. threads[t].pc = "materialise" => below(threads[t])
    BY <2>5 DEF LevelOK, heading, below
  <2>7. threads[t].op = "Create"
    BY <1>3, <2>1, <2>4, <2>5, <2>6 DEF below
  <2> QED  BY <2>4, <2>7
<1>4. I /\ [Next]_vars =>
        [oneThreadPerView => \A v \in Views, k \in Keys :
           stores[v][k] = Tombstone /\ isLive(v, k)' =>
             \E t \in Threads : threads'[t] # threads[t] /\ threads[t].op = "Create"]_vars
  BY <1>3 DEF isLive
<1> HIDE DEF I
<1> QED  BY <1>1, <1>2, <1>4, PTL DEF Spec, OnlyCreateResurrects

-----------------------------------------------------------------------------
(* Binding.                                                                *)

(* The view that decides is the one where the lookup found the object.     *)
LEMMA DecidesOnce ==
  ASSUME NEW m, m.view \in Views, m.lvl \in Views, m.lvl <= m.view, clear(m, m.lvl),
         stores[m.lvl][m.key] \in Refs
  PROVE  decides(m, m.lvl) /\ \A u \in Views : decides(m, u) => u = m.lvl
<1>1. decides(m, m.lvl)
  BY DEF decides
<1>2. ASSUME NEW u \in Views, decides(m, u)  PROVE u = m.lvl
  <2>1. u \in Nat /\ m.lvl \in Nat /\ Absent \notin Refs
    BY RefFacts
  <2>2. ~(u < m.lvl)
    BY <1>2, <2>1 DEF decides, clear
  <2>3. ~(m.lvl < u)
    BY <1>2, <2>1 DEF decides, clear
  <2> QED  BY <2>1, <2>2, <2>3
<1> QED  BY <1>1, <1>2

(* What Sight asks of the thread's state n after a step.                   *)
LEMMA SightParts ==
  ASSUME NEW n,
         n.pc = "lookup" \/ sees(n) => clear(n, n.lvl)',
         sees(n) => n.found = stores'[n.lvl][n.key],
         replaces(n) => \A u \in Views : decides(n, u)' =>
           heap'[stores'[u][n.key]].node = IF n.op = "Bind" THEN NoNode ELSE heap'[n.new].node
  PROVE  Sight(n)'
BY DEF Sight, nodeBefore, sees, replaces, heading

LEMMA SightMove ==
  ASSUME ViewInv, ViewInv', NEW t \in Threads, Calls(t) \/ ThreadStep(t),
         LevelOK(threads[t]), Sight(threads[t]), NEW n, n = threads'[t]
  PROVE  Sight(n)'
<1> DEFINE m == threads[t]
<1>m. ThreadOK(t, m) /\ LevelOK(m) /\ Sight(m) /\ Moves(m, n)
  BY MyState, StepMoves
<1>t. m \in ThreadState /\ n \in ThreadState
  BY DEF ViewInv
<1>v. /\ m.view \in Views /\ m.lvl \in Views /\ n.view \in Views /\ n.lvl \in Views
      /\ m.key \in Keys /\ n.key \in Keys /\ m.new \in Refs \union {0}
  BY <1>t DEF ThreadState
<1>n. /\ m.view \in Nat /\ m.lvl \in Nat /\ n.view \in Nat /\ n.lvl \in Nat /\ Views \subseteq Nat
      /\ Absent \notin Refs
  BY <1>v, RefFacts
<1>h. \A r \in Refs : r \in reachable /\ r \in reachable' => heap'[r].node = heap[r].node
  BY HeapWrite
<1>r. /\ \A v \in Views, k \in Keys : stores[v][k] \in reachable /\ stores'[v][k] \in reachable'
      /\ m.new \in reachable /\ n.new \in reachable'
  BY InReach, InReachNext
<1>k. stores' = stores => \A v \in Views, k \in Keys : stores[v][k] \in Refs =>
        heap'[stores[v][k]].node = heap[stores[v][k]].node
  BY <1>h, <1>r
<1>w. m.new \in Refs /\ n.new = m.new => heap'[n.new].node = heap[m.new].node
  BY <1>h, <1>r
<1>c. stores' = stores => \A x, l : clear(x, l)' <=> clear(x, l)
  BY DEF clear
<1>d. stores' = stores => \A x, l : decides(x, l)' <=> decides(x, l)
  BY DEF decides, clear
<1> HIDE DEF m
<1>1. CASE Rests(n)
  BY <1>1, SightParts DEF Rests, sees, replaces, heading
<1>2. CASE Starts(n)
  <2>1. clear(n, n.lvl)'
    BY <1>n, <1>2 DEF Starts, clear
  <2> QED  BY <1>2, <2>1, SightParts DEF Starts, sees, replaces, heading
(* The object that is replaced stays the same.                             *)
<1>3. ASSUME stores' = stores, Same(m, n), n.new = m.new, replaces(m), m.new \in Refs,
             NEW u \in Views, decides(n, u)
      PROVE  heap'[stores'[u][n.key]].node = IF n.op = "Bind" THEN NoNode ELSE heap'[n.new].node
  <2>1. decides(m, u) /\ stores[u][m.key] \in Refs
    BY <1>3 DEF decides, clear, Same
  <2>2. heap[stores[u][m.key]].node = IF m.op = "Bind" THEN NoNode ELSE heap[m.new].node
    BY <1>m, <1>3, <2>1 DEF Sight, nodeBefore
  <2>3. heap'[stores[u][m.key]].node = heap[stores[u][m.key]].node
    BY <1>3, <1>k, <1>v, <2>1
  <2> QED  BY <1>3, <1>w, <2>2, <2>3 DEF Same
<1>4. replaces(m) => m.new \in Refs
  BY <1>m DEF ThreadOK, replaces
<1>5. CASE stores' = stores /\ Same(m, n) /\ Hits(m, n)
  <2>1. m.ret \in {"bind", "patch", "patchStatus", "bindCheck", "materialise"}
    BY <1>5, <1>m DEF Hits, ThreadOK
  <2>2. clear(n, n.lvl)'
    BY <1>5, <1>m, <1>c DEF Hits, Same, Sight, clear
  <2>3. replaces(n) => replaces(m)
    BY <1>5, <2>1 DEF Hits, Same, replaces, heading
  <2>4. n.found = stores'[n.lvl][n.key]
    BY <1>5 DEF Hits, Same
  <2>5. replaces(n) => \A u \in Views : decides(n, u)' =>
           heap'[stores'[u][n.key]].node = IF n.op = "Bind" THEN NoNode ELSE heap'[n.new].node
    BY <1>3, <1>4, <1>5, <1>d, <2>3 DEF Hits
  <2> QED  BY <2>2, <2>4, <2>5, SightParts
<1>6. CASE stores' = stores /\ Same(m, n) /\ Descends(m, n)
  <2>1. clear(n, n.lvl)'
    <3>1. clear(m, m.lvl) /\ stores[m.lvl][m.key] = Absent /\ n.lvl = m.lvl - 1
      BY <1>6, <1>m DEF Sight, Descends
    <3>2. ASSUME NEW u \in Views, n.lvl < u  PROVE u = m.lvl \/ m.lvl < u
      <4>1. u \in Nat /\ m.lvl \in Nat /\ m.lvl - 1 < u
        BY <1>n, <3>1, <3>2
      <4> QED  BY <4>1
    <3>3. clear(n, n.lvl)
      BY <1>6, <3>1, <3>2 DEF clear, Same
    <3> QED  BY <1>6, <1>c, <3>3
  <2>2. ~sees(n)
    BY <1>6 DEF Descends, sees
  <2>3. replaces(n) => replaces(m)
    BY <1>6 DEF Descends, Same, replaces, heading
  <2>4. replaces(n) => \A u \in Views : decides(n, u)' =>
           heap'[stores'[u][n.key]].node = IF n.op = "Bind" THEN NoNode ELSE heap'[n.new].node
    BY <1>3, <1>4, <1>6, <1>d, <2>3 DEF Descends
  <2> QED  BY <2>1, <2>2, <2>4, SightParts
<1>7. CASE stores' = stores /\ Same(m, n) /\ Delegates(m, n)
  <2>1. clear(n, n.lvl)'
    <3>1. stores[m.view][m.key] = Absent /\ n.lvl = m.view - 1 /\ n.view = m.view /\ n.key = m.key
      BY <1>7 DEF Delegates, Same
    <3>2. \A u \in Views : n.lvl < u /\ u <= m.view => u = m.view
      BY <1>n, <3>1
    <3>3. clear(n, n.lvl)
      BY <3>1, <3>2 DEF clear
    <3> QED  BY <1>7, <1>c, <3>3
  <2>2. ~sees(n)
    BY <1>7 DEF Delegates, sees
  <2>3. replaces(n) => replaces(m)
    BY <1>7, <1>m DEF Delegates, Same, replaces, heading, ThreadOK
  <2>4. replaces(n) => \A u \in Views : decides(n, u)' =>
           heap'[stores'[u][n.key]].node = IF n.op = "Bind" THEN NoNode ELSE heap'[n.new].node
    BY <1>3, <1>4, <1>7, <1>d, <2>3 DEF Delegates
  <2> QED  BY <2>1, <2>2, <2>4, SightParts
<1>8. CASE stores' = stores /\ Same(m, n) /\ Resumes(m, n)
  <2>1. n.pc # "lookup" /\ (sees(n) => sees(m)) /\ (replaces(n) => replaces(m))
    BY <1>8 DEF Resumes, Same, sees, replaces, heading
  <2>2. sees(n) => clear(n, n.lvl)' /\ n.found = stores'[n.lvl][n.key]
    BY <1>8, <1>m, <1>c, <2>1 DEF Resumes, Same, Sight, clear
  <2>3. replaces(n) => \A u \in Views : decides(n, u)' =>
           heap'[stores'[u][n.key]].node = IF n.op = "Bind" THEN NoNode ELSE heap'[n.new].node
    BY <1>3, <1>4, <1>8, <1>d, <2>1 DEF Resumes
  <2> QED  BY <2>1, <2>2, <2>3, SightParts
<1>9. CASE stores' = stores /\ Same(m, n) /\ Prepares(m, n)
  <2>1. n.lvl = n.view /\ ~sees(n) /\ ~replaces(n)
    BY <1>9 DEF Prepares, Same, sees, replaces, heading
  <2>2. ASSUME NEW u \in Views  PROVE ~(n.lvl < u /\ u <= n.view)
    <3>1. u \in Nat /\ n.view \in Nat
      BY <1>n
    <3> QED  BY <2>1, <3>1
  <2>3. clear(n, n.lvl)'
    BY <2>2 DEF clear
  <2> QED  BY <2>1, <2>3, SightParts
<1>10. CASE stores' = stores /\ Same(m, n) /\ Replaces(m, n)
  <2>1. n.pc # "lookup" /\ ~sees(n) /\ sees(m) /\ m.found \in Refs
    BY <1>10, <1>m DEF Replaces, sees, ThreadOK
  <2>2. clear(m, m.lvl) /\ m.found = stores[m.lvl][m.key]
    BY <1>m, <2>1 DEF Sight
  <2>3. \A u \in Views : decides(m, u) => u = m.lvl
    BY <1>m, <1>v, <2>1, <2>2, DecidesOnce DEF LevelOK
  <2>4. ASSUME NEW u \in Views, decides(n, u)'
        PROVE  heap'[stores'[u][n.key]].node = IF n.op = "Bind" THEN NoNode ELSE heap'[n.new].node
    <3>1. decides(m, u)
      BY <1>10, <1>d, <2>4 DEF decides, clear, Same
    <3>2. stores'[u][n.key] = m.found
      BY <1>10, <2>2, <2>3, <3>1 DEF Same
    <3>3. heap'[m.found].node = heap[m.found].node
      BY <1>10, <1>k, <1>v, <2>1, <2>2
    <3>4. CASE m.pc = "bindCheck" /\ heap[m.found].node = NoNode
      <4>1. n.op = "Bind"
        BY <1>10, <1>m, <3>4 DEF ThreadOK, heading, Same
      <4> QED  BY <3>2, <3>3, <3>4, <4>1
    <3>5. CASE m.pc \in {"patch", "patchStatus"}
      <4>1. n.op # "Bind"
        BY <1>10, <1>m, <3>5 DEF ThreadOK, heading, Same
      <4>2. heap'[n.new].node = heap'[m.found].node
        BY <1>10, <3>3, <3>5 DEF Replaces
      <4> QED  BY <3>2, <4>1, <4>2
    <3> QED  BY <1>10, <3>4, <3>5 DEF Replaces
  <2> QED  BY <2>1, <2>4, SightParts
<1>11. CASE Same(m, n) /\ Copies(m, n)
  <2>1. /\ SetStore(m.view, m.key, fresh) /\ fresh \in Refs /\ heap'[fresh] = heap[m.found]
        /\ n.view = m.view /\ n.key = m.key /\ n.op = m.op /\ n.new = m.new /\ n.pc = "count"
    BY <1>11, FreshFacts DEF Copies, Same
  <2>2. stores \in [Views -> [Keys -> Slot]]
    BY DEF ViewInv
  <2>3. stores'[m.view][m.key] = fresh
    BY <1>v, <2>1, <2>2 DEF SetStore
  <2>4. sees(n) => n.lvl = n.view /\ n.found = fresh
    BY <1>11, <2>1 DEF Copies, sees
  <2>5. sees(n) => clear(n, n.lvl)' /\ n.found = stores'[n.lvl][n.key]
    BY <1>n, <2>1, <2>3, <2>4 DEF clear
  <2>6. ASSUME replaces(n), NEW u \in Views, decides(n, u)'
        PROVE  heap'[stores'[u][n.key]].node = IF n.op = "Bind" THEN NoNode ELSE heap'[n.new].node
    <3>1. u = m.view
      <4>1. u <= m.view /\ (u < m.view => stores'[m.view][m.key] = Absent)
        BY <1>v, <1>n, <2>1, <2>6 DEF decides, clear
      <4> QED  BY <1>n, <2>1, <2>3, <4>1
    <3>2. m.pc = "materialise"
      BY <1>11, <2>1, <2>6 DEF Copies, replaces, heading
    <3>3. replaces(m) /\ sees(m) /\ m.found \in Refs
      BY <1>m, <2>1, <2>6, <3>2 DEF replaces, heading, sees, ThreadOK
    <3>4. clear(m, m.lvl) /\ m.found = stores[m.lvl][m.key]
      BY <1>m, <3>3 DEF Sight
    <3>5. decides(m, m.lvl)
      BY <1>m, <1>v, <3>3, <3>4, DecidesOnce DEF LevelOK
    <3>6. heap[m.found].node = IF m.op = "Bind" THEN NoNode ELSE heap[m.new].node
      BY <1>m, <1>v, <3>3, <3>4, <3>5 DEF Sight, nodeBefore
    <3>7. heap'[n.new].node = heap[m.new].node
      BY <1>4, <1>w, <2>1, <3>3
    <3>8. stores'[u][n.key] = fresh
      BY <2>1, <2>3, <3>1
    <3> QED  BY <2>1, <3>6, <3>7, <3>8
  <2> QED  BY <2>1, <2>5, <2>6, SightParts
<1> QED  BY <1>m, <1>1, <1>2, <1>5, <1>6, <1>7, <1>8, <1>9, <1>10, <1>11 DEF Moves

(* With one active thread every step is that thread's.                     *)
LEMMA OnlyActive ==
  ASSUME Cardinality(active) = 1, NEW t \in active
  PROVE  active = {t}
<1>1. IsFiniteSet(active)
  <2>1. active \subseteq Threads /\ IsFiniteSet(Threads)
    BY ViewAssumption DEF active
  <2> QED  BY <2>1, FS_Subset
<1>2. PICK x : active = {x}
  BY <1>1, FS_Singleton
<1> QED  BY <1>2

LEMMA AloneStep ==
  ASSUME ViewInv, ViewInv', Levels, AloneSees, [Next]_vars
  PROVE  AloneSees'
<1>1. CASE UNCHANGED vars
  BY <1>1 DEF AloneSees, active, Sight, sees, replaces, heading, nodeBefore, clear, decides, vars
<1>2. CASE Next
  <2>1. PICK t \in Threads : Calls(t) \/ ThreadStep(t)
    BY <1>2 DEF Next
  <2>2. active' = active
    BY <1>2 DEF Next, active
  <2>3. SUFFICES ASSUME Cardinality(active) = 1  PROVE (\A u \in active : Sight(threads[u]))'
    BY <2>2 DEF AloneSees
  <2>4. t \in active
    BY <2>1, Acting
  <2>5. active = {t}
    BY <2>3, <2>4, OnlyActive
  <2>6. PICK n : Go(t, n) /\ ThreadOK(t, n)
    BY <2>1, AnyStep
  <2>7. n = threads'[t] /\ LevelOK(threads[t]) /\ Sight(threads[t])
    BY <2>3, <2>4, <2>6, MyState DEF Levels, AloneSees
  <2>8. Sight(n)'
    BY <2>1, <2>7, SightMove
  <2>9. Sight(threads[t])'
    BY <2>7, <2>8 DEF Sight, sees, replaces, heading, nodeBefore, clear, decides
  <2> QED  BY <2>2, <2>5, <2>9
<1> QED  BY <1>1, <1>2

LEMMA AloneStart == Init => AloneSees
<1> SUFFICES ASSUME Init, NEW t \in Threads  PROVE Sight(threads[t])
  BY DEF AloneSees, active
<1>1. threads[t] = Idle
  BY DEF Init
<1> QED  BY <1>1, IdleFacts DEF Sight, sees, replaces, heading

LEMMA BoundStep ==
  ASSUME ViewInv, Levels, OneWriter, AloneSees, [Next]_vars, Cardinality(active) = 1,
         NEW v \in Views, NEW k \in Keys, stores[v][k] \in Refs,
         heap[stores[v][k]].node # NoNode, stores'[v][k] \in Refs
  PROVE  \/ heap'[stores'[v][k]].node = heap[stores[v][k]].node
         \/ \E t \in Threads : threads'[t] # threads[t] /\ threads[t].op \in {"Create", "Update"}
<1>1. CASE UNCHANGED vars
  BY <1>1 DEF vars
<1>2. CASE Next
  <2>1. PICK t \in Threads : Calls(t) \/ ThreadStep(t)
    BY <1>2 DEF Next
  <2>2. \A r \in Refs : r \in reachable /\ r \in reachable' => heap'[r].node = heap[r].node
    BY <2>1, HeapWrite
  <2>3. CASE stores'[v][k] = stores[v][k]
    <3>1. stores[v][k] \in reachable /\ stores[v][k] \in reachable'
      BY <2>3, InReach, InReachNext
    <3> QED  BY <2>2, <2>3, <3>1
  <2>4. CASE stores'[v][k] # stores[v][k]
    <3> DEFINE m == threads[t]
    <3>1. /\ v = m.view /\ k = m.key /\ threads'[t] # m
          /\ \/ m.op = "Create"
             \/ m.pc \in {"update", "updateAgain"} /\ stores'[v][k] = m.new
             \/ m.pc = "materialise"
             \/ m.pc = "bind" /\ m.lvl < m.view
      BY <2>1, <2>4, Overwrites
    <3>2. t \in active /\ active = {t}
      BY <2>1, Acting, OnlyActive
    <3>3. oneThreadPerView
      BY <3>2 DEF oneThreadPerView
    <3>4. LevelOK(m) /\ Sight(m) /\ (below(m) => stores[m.view][m.key] = Absent)
      BY <3>2, <3>3 DEF Levels, AloneSees, OneWriter
    <3>5. m.pc \in {"materialise", "bind"} /\ (m.pc = "bind" => m.lvl < m.view) => below(m)
      BY <3>4 DEF LevelOK, heading, below
    <3>6. ~below(m)
      BY <3>1, <3>4, RefFacts
    <3>7. CASE m.pc \in {"update", "updateAgain"} /\ stores'[v][k] = m.new
      <4>1. m.op \in {"Update", "Bind", "Patch", "PatchStatus"}
        BY <3>4, <3>7 DEF LevelOK, heading
      <4>2. CASE m.op # "Update"
        <5>1. replaces(m)
          BY <3>7, <4>1, <4>2 DEF replaces, heading
        <5>2. clear(m, m.view)
          <6>1. \A u \in Views : ~(m.view < u /\ u <= m.view)
            BY <3>1, RefFacts
          <6> QED  BY <6>1 DEF clear
        <5>3. decides(m, m.view)
          BY <3>1, <5>2, RefFacts DEF decides
        <5>4. heap[stores[v][k]].node = IF m.op = "Bind" THEN NoNode ELSE heap[m.new].node
          BY <3>1, <3>4, <5>1, <5>3 DEF Sight, nodeBefore
        <5>5. m.new \in reachable /\ m.new \in reachable'
          BY <3>7, InReach, InReachNext
        <5>6. heap'[m.new].node = heap[m.new].node
          BY <2>2, <3>7, <5>5
        <5> QED  BY <3>7, <5>4, <5>6
      <4> QED  BY <3>1, <4>2
    <3> QED  BY <3>1, <3>5, <3>6, <3>7
  <2> QED  BY <2>3, <2>4
<1> QED  BY <1>1, <1>2

(* BoundOnce: a single caller of the views can never move a bound pod to   *)
(* another node, neither by binding it again through another view, nor by  *)
(* the patches, which replace the object they found, perhaps in a          *)
(* delegate, after a copy of it was made, nor by those copies.             *)
THEOREM PodsAreBoundOnce == Spec => BoundOnce
<1> DEFINE I == ViewInv /\ Levels /\ OneWriter /\ AloneSees
<1>1. I /\ [Next]_vars => I'
  BY ViewStep, LevelsStep, OneWriterStep, AloneStep
<1>2. Init => I
  BY ViewStart, LevelsStart, OneWriterStart, AloneStart
<1>3. I /\ [Next]_vars =>
        [Cardinality(active) = 1 => \A v \in Views, k \in Keys :
           isLive(v, k) /\ heap[stores[v][k]].node # NoNode /\ isLive(v, k)' =>
             \/ (heap[stores[v][k]].node)' = heap[stores[v][k]].node
             \/ \E t \in Threads :
                  threads'[t] # threads[t] /\ threads[t].op \in {"Create", "Update"}]_vars
  BY BoundStep DEF isLive
<1> HIDE DEF I
<1> QED  BY <1>1, <1>2, <1>3, PTL DEF Spec, BoundOnce

-----------------------------------------------------------------------------
(* What a list says.                                                       *)

LEMMA LeastNumber ==
  ASSUME NEW S, S \subseteq Nat, S # {}
  PROVE  \E m \in S : \A n \in S : m <= n
<1> DEFINE less == {p \in Nat \X Nat : p[1] < p[2]}
<1>1. IsWellFoundedOn(less, Nat)
  BY NatLessThanWellFounded DEF OpToRel
<1>2. \A m, n \in Nat : ~(<<n, m>> \in less) => m <= n
  OBVIOUS
<1> HIDE DEF less
<1>3. \E m \in S : \A n \in S : ~(<<n, m>> \in less)
  BY <1>1, WFMin
<1> QED BY <1>2, <1>3

LEMMA GreatestNumber ==
  ASSUME NEW n \in Nat, NEW S, S \subseteq 0..n, S # {}
  PROVE  \E m \in S : \A x \in S : x <= m
<1> DEFINE T == {i \in 0..n : n - i \in S}
<1>1. T \subseteq Nat
  OBVIOUS
<1>2. T # {}
  <2>1. PICK x \in S : TRUE
    OBVIOUS
  <2>2. n - x \in 0..n /\ n - (n - x) = x
    OBVIOUS
  <2> QED BY <2>1, <2>2
<1>3. PICK i \in T : \A j \in T : i <= j
  <2> HIDE DEF T
  <2> QED BY <1>1, <1>2, LeastNumber
<1>4. \A x \in S : n - x \in T
  OBVIOUS
<1>5. n - i \in S /\ i \in 0..n
  OBVIOUS
<1> HIDE DEF T
<1>6. \A x \in S : x <= n - i
  BY <1>3, <1>4, <1>5
<1> QED BY <1>5, <1>6

(* GetObject takes the topmost entry.                                      *)
LEMMA TopEntry ==
  ASSUME NEW v \in Nat, NEW k, NEW u \in 0..v, stores[u][k] # Absent,
         \A w \in (u + 1)..v : stores[w][k] = Absent
  PROVE  GetObject(v, k) = stores[u][k]
<1>1. u \in holders(v, k) /\ \A x \in holders(v, k) : x <= u /\ x \in 0..v
  BY DEF holders
<1>2. (CHOOSE x \in holders(v, k) : \A y \in holders(v, k) : y <= x) = u
  <2>1. ASSUME NEW x \in holders(v, k), \A y \in holders(v, k) : y <= x PROVE x = u
    <3>1. x <= u /\ u <= x /\ x \in Nat /\ u \in Nat
      BY <1>1, <2>1
    <3> QED BY <3>1
  <2>2. \A y \in holders(v, k) : y <= u
    BY <1>1
  <2>3. \E x \in holders(v, k) : \A y \in holders(v, k) : y <= x
    BY <1>1, <2>2
  <2> DEFINE c == CHOOSE x \in holders(v, k) : \A y \in holders(v, k) : y <= x
  <2>4. c \in holders(v, k) /\ \A y \in holders(v, k) : y <= c
    BY <2>3
  <2> HIDE DEF c
  <2>5. c = u
    BY <2>1, <2>4
  <2> QED BY <2>5 DEF c
<1> QED BY <1>1, <1>2 DEF GetObject

LEMMA FoundEntry ==
  ASSUME NEW v \in Nat, NEW k, GetObject(v, k) # Absent
  PROVE  \E u \in 0..v : /\ stores[u][k] = GetObject(v, k)
                         /\ \A w \in (u + 1)..v : stores[w][k] = Absent
<1>1. holders(v, k) # {} /\ holders(v, k) \subseteq 0..v
  BY DEF GetObject, holders
<1>2. PICK u \in holders(v, k) : \A x \in holders(v, k) : x <= u
  BY <1>1, GreatestNumber
<1>3. u \in 0..v /\ stores[u][k] # Absent /\ \A w \in (u + 1)..v : stores[w][k] = Absent
  BY <1>2 DEF holders
<1>4. GetObject(v, k) = stores[u][k]
  BY <1>3, TopEntry
<1> QED BY <1>3, <1>4

(* The objects that view u contributes to a list of view v: the names left *)
(* out are those of the criteria, or the tombstones of the view above it.  *)
layer(u, v, exclude) ==
  storeList(u, IF u = v THEN exclude ELSE ListTombstonedKeys(u + 1))
layered(v, exclude) ==
  UNION {{o \in layer(u, v, exclude) :
            \A w \in (u + 1)..v : \A p \in layer(w, v, exclude) : p[1] # o[1]} : u \in 0..v}

LEMMA LayeredMember ==
  ASSUME NEW v, NEW exclude, NEW o
  PROVE  o \in layered(v, exclude) <=>
           \E u \in 0..v : /\ o \in layer(u, v, exclude)
                           /\ \A w \in (u + 1)..v : \A p \in layer(w, v, exclude) : p[1] # o[1]
BY DEF layered

(* The layers satisfy the recursion of ListMetaObjects.                    *)
LEMMA LayeredRecursion ==
  ASSUME NEW v \in Nat, NEW exclude
  PROVE  layered(v, exclude) =
           IF v = 0 THEN storeList(0, exclude)
           ELSE combinePrimarySecondary(storeList(v, exclude),
                                        layered(v - 1, ListTombstonedKeys(v)))
<1>1. layer(v, v, exclude) = storeList(v, exclude)
  BY DEF layer
<1>2. CASE v = 0
  <2>1. 0..v = {0} /\ (0 + 1)..v = {}
    BY <1>2
  <2>2. ASSUME NEW o PROVE o \in layered(v, exclude) <=> o \in storeList(0, exclude)
    <3>1. o \in layered(v, exclude) <=>
            \E u \in {0} : /\ o \in layer(u, v, exclude)
                          /\ \A w \in (u + 1)..v :
                               \A p \in layer(w, v, exclude) : p[1] # o[1]
      BY <2>1, LayeredMember
    <3>2. layer(0, v, exclude) = storeList(0, exclude)
      BY <1>1, <1>2
    <3> QED BY <2>1, <3>1, <3>2
  <2>3. layered(v, exclude) = storeList(0, exclude)
    <3>1. \A a, b : (\A o : o \in a <=> o \in b) => a = b
      BY Zenon
    <3> QED BY <2>2, <3>1
  <2> QED BY <2>3, <1>2
<1>3. CASE v # 0
  <2>1. v - 1 \in Nat /\ 0..v = (0..(v - 1)) \union {v} /\ (v + 1)..v = {}
    BY <1>3
  <2>2. ASSUME NEW u \in 0..(v - 1)
        PROVE  layer(u, v - 1, ListTombstonedKeys(v)) = layer(u, v, exclude)
    <3>1. u # v /\ (u = v - 1 => u + 1 = v)
      BY <1>3
    <3>2. (IF u = v - 1 THEN ListTombstonedKeys(v) ELSE ListTombstonedKeys(u + 1))
            = ListTombstonedKeys(u + 1)
      BY <3>1
    <3> QED BY <3>1, <3>2 DEF layer
  <2>3. ASSUME NEW o
        PROVE  o \in layered(v, exclude) <=>
                 o \in combinePrimarySecondary(storeList(v, exclude),
                                               layered(v - 1, ListTombstonedKeys(v)))
    <3>1. \A u \in 0..(v - 1) : /\ (u + 1)..v = ((u + 1)..(v - 1)) \union {v}
                                /\ (u + 1)..(v - 1) \subseteq 0..(v - 1)
      BY <1>3
    <3>2. o \in layered(v - 1, ListTombstonedKeys(v)) <=>
            \E u \in 0..(v - 1) :
              /\ o \in layer(u, v, exclude)
              /\ \A w \in (u + 1)..(v - 1) : \A p \in layer(w, v, exclude) : p[1] # o[1]
      BY <2>2, <3>1, LayeredMember
    <3>3. o \in combinePrimarySecondary(storeList(v, exclude),
                                        layered(v - 1, ListTombstonedKeys(v))) <=>
            \/ o \in layer(v, v, exclude)
            \/ /\ o \in layered(v - 1, ListTombstonedKeys(v))
               /\ \A p \in layer(v, v, exclude) : p[1] # o[1]
      BY <1>1 DEF combinePrimarySecondary
    <3>4. o \in layered(v, exclude) <=>
            \/ o \in layer(v, v, exclude)
            \/ \E u \in 0..(v - 1) :
                 /\ o \in layer(u, v, exclude)
                 /\ \A w \in (u + 1)..v : \A p \in layer(w, v, exclude) : p[1] # o[1]
      BY <2>1, LayeredMember
    <3> QED BY <3>1, <3>2, <3>3, <3>4
  <2> QED BY <2>3, <1>3
<1> QED BY <1>2, <1>3

LEMMA ListRecursion ==
  ListMetaObjects =
    [v \in Views |->
       [exclude \in SUBSET Keys |->
          IF v = 0 THEN storeList(0, exclude)
          ELSE combinePrimarySecondary(storeList(v, exclude),
                                       ListMetaObjects[v - 1][ListTombstonedKeys(v)])]]
<1> DEFINE g == [v \in Views |-> [exclude \in SUBSET Keys |-> layered(v, exclude)]]
<1>1. \A v \in Views \ {0} : v - 1 \in Views /\ ListTombstonedKeys(v) \in SUBSET Keys
  BY ViewAssumption DEF Views, ListTombstonedKeys
<1>2. \A v \in Views : v \in Nat
  BY ViewAssumption DEF Views
<1>3. ASSUME NEW v \in Views, NEW exclude \in SUBSET Keys
      PROVE  layered(v, exclude) =
               IF v = 0 THEN storeList(0, exclude)
               ELSE combinePrimarySecondary(storeList(v, exclude),
                                            g[v - 1][ListTombstonedKeys(v)])
  BY <1>1, <1>2, LayeredRecursion
<1>4. g = [v \in Views |->
             [exclude \in SUBSET Keys |->
                IF v = 0 THEN storeList(0, exclude)
                ELSE combinePrimarySecondary(storeList(v, exclude),
                                             g[v - 1][ListTombstonedKeys(v)])]]
  BY <1>3
<1> HIDE DEF g
<1> QED BY <1>4 DEF ListMetaObjects

LEMMA ListIsLayered ==
  ASSUME NEW v \in Views, NEW exclude \in SUBSET Keys
  PROVE  ListMetaObjects[v][exclude] = layered(v, exclude)
<1> DEFINE bad == {u \in Views : \E e \in SUBSET Keys : ListMetaObjects[u][e] # layered(u, e)}
<1>0. Views \subseteq Nat /\ \A u \in Views \ {0} : u - 1 \in Views
  BY ViewAssumption DEF Views
<1>1. ASSUME NEW u \in Views, NEW e \in SUBSET Keys
      PROVE  ListMetaObjects[u][e] =
               IF u = 0 THEN storeList(0, e)
               ELSE combinePrimarySecondary(storeList(u, e),
                                            ListMetaObjects[u - 1][ListTombstonedKeys(u)])
  <2> DEFINE row(f, w) ==
               [x \in SUBSET Keys |->
                  IF w = 0 THEN storeList(0, x)
                  ELSE combinePrimarySecondary(storeList(w, x), f[w - 1][ListTombstonedKeys(w)])]
  <2>1. ListMetaObjects = [w \in Views |-> row(ListMetaObjects, w)]
    BY ListRecursion, Zenon
  <2> HIDE DEF row
  <2>2. ListMetaObjects[u] = row(ListMetaObjects, u)
    BY <2>1, Zenon
  <2> USE DEF row
  <2> QED BY <2>2, Zenon
<1>2. ASSUME bad # {} PROVE FALSE
  <2>1. PICK u \in bad : \A w \in bad : u <= w
    <3>1. bad \subseteq Nat
      BY <1>0
    <3> HIDE DEF bad
    <3> QED BY <3>1, <1>2, LeastNumber
  <2>2. PICK e \in SUBSET Keys : ListMetaObjects[u][e] # layered(u, e)
    OBVIOUS
  <2>3. u \in Views /\ u \in Nat
    BY <1>0
  <2>4. CASE u = 0
    BY <2>2, <2>3, <2>4, <1>1, LayeredRecursion
  <2>5. CASE u # 0
    <3>1. u - 1 \in Views /\ u - 1 \notin bad /\ ListTombstonedKeys(u) \in SUBSET Keys
      <4>1. u - 1 \in Views
        BY <2>3, <2>5, <1>0
      <4>2. u - 1 \notin bad
        <5> HIDE DEF bad
        <5> QED BY <2>1, <2>3
      <4> QED BY <4>1, <4>2 DEF ListTombstonedKeys
    <3>2. ListMetaObjects[u - 1][ListTombstonedKeys(u)] = layered(u - 1, ListTombstonedKeys(u))
      BY <3>1
    <3> QED BY <3>2, <2>2, <2>3, <2>5, <1>1, LayeredRecursion
  <2> QED BY <2>4, <2>5
<1> QED BY <1>2

LEMMA InLayer ==
  ASSUME NEW u, NEW v, NEW o
  PROVE  /\ o \in layer(u, v, {}) <=>
              \E k \in Keys : /\ o = <<k, stores[u][k]>> /\ stores[u][k] \in Refs
                              /\ u = v \/ bareName(k) \notin ListTombstonedKeys(u + 1)
         /\ o \in layer(u, v, {}) => o[1] \in Keys
BY DEF layer, storeList, isLive, Matches

LEMMA ListsAgree == ViewInv => ListAgreesWithGet
<1> SUFFICES ASSUME ViewInv, \A k \in Keys : bareName(k) = k
             PROVE  /\ \A v \in Views, k \in Keys : GetObject(v, k) \in Refs =>
                         {o \in ListMetaObjects[v][{}] : o[1] = k} = {<<k, GetObject(v, k)>>}
                    /\ \A v \in {0, 1} \intersect Views : \A o \in ListMetaObjects[v][{}] :
                         GetObject(v, o[1]) \in Refs
  BY DEF ListAgreesWithGet
<1>1. /\ Views \subseteq Nat /\ Absent \notin Refs /\ Tombstone \notin Refs
      /\ Absent # Tombstone
  BY RefFacts, ViewAssumption DEF Views
<1>2. /\ \A v \in Views : 0..v \subseteq Views
      /\ \A v \in Views, k \in Keys : stores[v][k] \in Refs \union {Absent, Tombstone}
  BY ViewAssumption DEF ViewInv, Views, Slot
<1>3. \A v \in Views : ListMetaObjects[v][{}] = layered(v, {})
  BY ListIsLayered
<1>4. ASSUME NEW v \in Views, NEW k \in Keys, GetObject(v, k) \in Refs
      PROVE  {o \in ListMetaObjects[v][{}] : o[1] = k} = {<<k, GetObject(v, k)>>}
  <2>1. PICK u \in 0..v : /\ stores[u][k] = GetObject(v, k)
                          /\ \A w \in (u + 1)..v : stores[w][k] = Absent
    BY <1>1, <1>4, FoundEntry
  <2>2. \A w \in (u + 1)..v : \A p \in layer(w, v, {}) : p[1] # k
    BY <2>1, <1>1, InLayer
  <2>3. <<k, stores[u][k]>> \in layer(u, v, {})
    <3>1. u = v \/ u + 1 \in (u + 1)..v
      BY <1>1
    <3>2. u = v \/ bareName(k) \notin ListTombstonedKeys(u + 1)
      BY <3>1, <2>1, <1>1 DEF ListTombstonedKeys
    <3> QED BY <3>2, <2>1, <1>4, InLayer
  <2>4. <<k, stores[u][k]>> \in layered(v, {})
    <3>1. <<k, stores[u][k]>>[1] = k
      OBVIOUS
    <3> QED BY <3>1, <2>2, <2>3, LayeredMember
  <2>5. ASSUME NEW o \in layered(v, {}), o[1] = k
        PROVE  o = <<k, stores[u][k]>>
    <3>1. PICK x \in 0..v : /\ o \in layer(x, v, {})
                            /\ \A w \in (x + 1)..v : \A p \in layer(w, v, {}) : p[1] # o[1]
      BY LayeredMember
    <3>2. x \notin (u + 1)..v
      BY <3>1, <2>2, <2>5
    <3>3. u \notin (x + 1)..v
      <4>1. <<k, stores[u][k]>>[1] = k
        OBVIOUS
      <4> QED BY <4>1, <3>1, <2>3, <2>5
    <3>4. x = u
      BY <3>2, <3>3, <1>1
    <3> QED BY <3>1, <3>4, <2>5, InLayer
  <2>6. <<k, stores[u][k]>>[1] = k
    OBVIOUS
  <2> QED BY <2>1, <2>4, <2>5, <2>6, <1>3
<1>5. ASSUME NEW v \in {0, 1} \intersect Views, NEW o \in ListMetaObjects[v][{}]
      PROVE  GetObject(v, o[1]) \in Refs
  <2>1. PICK u \in 0..v : /\ o \in layer(u, v, {})
                          /\ \A w \in (u + 1)..v : \A p \in layer(w, v, {}) : p[1] # o[1]
    BY <1>3, <1>5, LayeredMember
  <2>2. PICK k \in Keys : /\ o = <<k, stores[u][k]>> /\ stores[u][k] \in Refs
                          /\ u = v \/ bareName(k) \notin ListTombstonedKeys(u + 1)
    BY <2>1, InLayer
  <2>3. o[1] = k
    BY <2>2
  <2>4. ASSUME NEW w \in (u + 1)..v
        PROVE  stores[w][k] = Absent
    <3>1. w = v /\ v = 1 /\ u = 0 /\ u # v /\ u + 1 = v
      BY <1>5
    <3>2. stores[v][k] # Tombstone
      BY <3>1, <2>2 DEF ListTombstonedKeys
    <3>3. stores[v][k] \notin Refs
      <4> SUFFICES ASSUME stores[v][k] \in Refs PROVE FALSE
        OBVIOUS
      <4>1. <<k, stores[v][k]>> \in layer(v, v, {})
        BY InLayer
      <4>2. <<k, stores[v][k]>>[1] = k
        OBVIOUS
      <4> QED BY <4>1, <4>2, <3>1, <2>1, <2>3
    <3> QED BY <3>1, <3>2, <3>3, <1>2
  <2>5. GetObject(v, k) = stores[u][k]
    <3>1. v \in Nat /\ stores[u][k] # Absent
      BY <2>2, <1>1
    <3> QED BY <3>1, <2>4, TopEntry
  <2> QED BY <2>2, <2>3, <2>5
<1> QED BY <1>4, <1>5

(* ListMetaObjects and GetObject of a view and of any stack of sandboxes   *)
(* over it: a list has what GetObject finds, in the same version, in every *)
(* state that the threads can reach, and up to one sandbox nothing else.   *)
THEOREM ListsTellWhatGetFinds == Spec => []ListAgreesWithGet
BY ViewInvariant, ListsAgree, PTL
=============================================================================
