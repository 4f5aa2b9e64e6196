--------------------------- MODULE ClientFacades ---------------------------
(***************************************************************************)
(* The two ways of GetClientFacades to reach a view: over the network,     *)
(* through client-go, the routes and the handlers of the MinKAPI server    *)
(* (src/minkapi/server/server.go), and in memory, through the typed        *)
(* accesses of src/minkapi/view/inmclient.                                 *)
(*                                                                         *)
(* One client makes the same calls, for objects of one kind and one name   *)
(* in several namespaces, on two views that start empty: on net over the   *)
(* network, on mem in memory.  Objects live on a heap: a network client    *)
(* only ever holds copies, an in-memory client is handed the very objects  *)
(* that the stores hold.  Views are base views; SandboxView models what a  *)
(* sandbox adds, ResourceStore and EmbeddedScheduler model watches.        *)
(***************************************************************************)
EXTENDS Naturals, FiniteSets, Functions

CONSTANTS
  Namespaces,  \* namespaces other than "default" that a client uses
  MaxWrites    \* bound: writes to each view

ASSUME FacadesAssumption ==
  IsFiniteSet(Namespaces) /\ {"", "default"} \cap Namespaces = {} /\ MaxWrites \in Nat

(* Keys of a store: the namespace tells objects of the same name apart.    *)
(* "" is the namespace of cluster-scoped objects, and "all namespaces".    *)
Keys == Namespaces \union {"default", ""}

(* Fields have value 0 when they are not set, and are then left out of the *)
(* JSON of the object.                                                     *)
Object == [ns : Keys, spec : 0..2, status : 0..1, ver : 0..MaxWrites]
Blank == [ns |-> "", spec |-> 0, status |-> 0, ver |-> 0]

(* Heap addresses: every key may hold an object, the client holds one and  *)
(* one more is being made.                                                 *)
Ids == Keys \union {"held", "new"}
Nil == "nil"
-----------------------------------------------------------------------------
(* The kinds and what the two facades offer for each.                      *)

(* typeinfo.NewDescriptor: the group, the scope, whether the Go type has a *)
(* Status field.                                                           *)
NewDescriptor(core, namespaced, status) ==
  [core |-> core, namespaced |-> namespaced, status |-> status]

CoreDescriptors ==
  [namespaces |-> NewDescriptor(TRUE, FALSE, TRUE),
   serviceaccounts |-> NewDescriptor(TRUE, TRUE, FALSE),
   configmaps |-> NewDescriptor(TRUE, TRUE, FALSE),
   nodes |-> NewDescriptor(TRUE, FALSE, TRUE),
   pods |-> NewDescriptor(TRUE, TRUE, TRUE),
   services |-> NewDescriptor(TRUE, TRUE, TRUE),
   persistentvolumes |-> NewDescriptor(TRUE, FALSE, TRUE),
   persistentvolumeclaims |-> NewDescriptor(TRUE, TRUE, TRUE),
   replicationcontrollers |-> NewDescriptor(TRUE, TRUE, TRUE)]

GroupDescriptors ==
  [priorityclasses |-> NewDescriptor(FALSE, FALSE, FALSE),
   leases |-> NewDescriptor(FALSE, TRUE, FALSE),
   events |-> NewDescriptor(FALSE, TRUE, FALSE),
   roles |-> NewDescriptor(FALSE, TRUE, FALSE),
   deployments |-> NewDescriptor(FALSE, TRUE, TRUE),
   replicasets |-> NewDescriptor(FALSE, TRUE, TRUE),
   statefulsets |-> NewDescriptor(FALSE, TRUE, TRUE),
   poddisruptionbudgets |-> NewDescriptor(FALSE, TRUE, TRUE),
   storageclasses |-> NewDescriptor(FALSE, FALSE, FALSE),
   csidrivers |-> NewDescriptor(FALSE, FALSE, FALSE),
   csistoragecapacities |-> NewDescriptor(FALSE, TRUE, FALSE),
   csinodes |-> NewDescriptor(FALSE, FALSE, FALSE),
   volumeattachments |-> NewDescriptor(FALSE, FALSE, TRUE),
   volumeattributesclasses |-> NewDescriptor(FALSE, FALSE, FALSE),
   runtimeclasses |-> NewDescriptor(FALSE, FALSE, FALSE),
   resourceslices |-> NewDescriptor(FALSE, FALSE, FALSE),
   resourceclaims |-> NewDescriptor(FALSE, TRUE, TRUE),
   deviceclasses |-> NewDescriptor(FALSE, FALSE, FALSE)]

Kinds == DOMAIN CoreDescriptors \union DOMAIN GroupDescriptors
Descriptor(kd) ==
  IF kd \in DOMAIN CoreDescriptors THEN CoreDescriptors[kd] ELSE GroupDescriptors[kd]

(* GetNewest is a Get that asks for the version the view has reached,      *)
(* ListFields a List with a field selector, PatchStatus a Patch of the     *)
(* status, and PutUnfit a PUT of JSON that does not fit the type, as only  *)
(* an untyped client can send it.                                          *)
Verbs == {"Create", "Get", "GetNewest", "List", "ListFields", "Update", "UpdateStatus", "PutUnfit",
          "Delete", "DeleteCollection", "Patch", "PatchStatus", "Bind", "CreateWithNamespace",
          "UpdateWithNamespace", "PatchWithNamespace", "UpdateEphemeralContainers", "GetScale"}

(* What GenericResourceAccess gives to every typed access.                 *)
Generic == {"Create", "Get", "GetNewest", "List", "ListFields", "Update", "Delete", "Patch",
            "PatchStatus"}

(* The verbs each typed access implements.                                 *)
podAccess == Generic \union {"UpdateStatus", "DeleteCollection", "Bind",
                             "UpdateEphemeralContainers"}
eventAccess == Generic \union {"DeleteCollection", "CreateWithNamespace", "UpdateWithNamespace",
                               "PatchWithNamespace"}
replicationControllerAccess == Generic \union {"UpdateStatus", "DeleteCollection", "GetScale"}
pvcAccess == Generic \union {"UpdateStatus", "DeleteCollection", "CreateWithNamespace"}
pvAccess == Generic \union {"UpdateStatus", "DeleteCollection"}
nodeAccess == Generic \union {"UpdateStatus", "DeleteCollection"}
serviceAccess == Generic \union {"UpdateStatus"}
namespaceAccess == Generic \union {"UpdateStatus"}
configMapAccess == Generic \union {"DeleteCollection"}
replicaSetAccess == Generic \union {"UpdateStatus", "DeleteCollection"}
statefulSetAccess == Generic \union {"UpdateStatus", "DeleteCollection"}
podDisruptionBudgetAccess == Generic \union {"UpdateStatus", "DeleteCollection"}
storageClassAccess == Generic \union {"DeleteCollection"}
csiDriverAccess == Generic \union {"DeleteCollection"}
csiNodeAccess == Generic \union {"DeleteCollection"}
csiStorageCapacityAccess == Generic \union {"DeleteCollection", "CreateWithNamespace"}
volumeAttachmentAccess == Generic \union {"UpdateStatus", "DeleteCollection"}
volumeAttributesClassAccess == Generic \union {"DeleteCollection"}
resourceClaimAccess == Generic \union {"UpdateStatus", "DeleteCollection"}
resourceSliceAccess == Generic \union {"DeleteCollection"}
deviceClassAccess == Generic \union {"DeleteCollection"}

(* CoreV1 of the in-memory client; the accesses it lacks panic.            *)
coreV1 ==
  [pods |-> podAccess, events |-> eventAccess, persistentvolumeclaims |-> pvcAccess,
   replicationcontrollers |-> replicationControllerAccess, persistentvolumes |-> pvAccess,
   nodes |-> nodeAccess, services |-> serviceAccess, namespaces |-> namespaceAccess,
   configmaps |-> configMapAccess]

(* AppsV1, PolicyV1, StorageV1 and ResourceV1.                             *)
appsV1 == [replicasets |-> replicaSetAccess, statefulsets |-> statefulSetAccess]
policyV1 == [poddisruptionbudgets |-> podDisruptionBudgetAccess]
storageV1 ==
  [storageclasses |-> storageClassAccess, csidrivers |-> csiDriverAccess,
   csinodes |-> csiNodeAccess, csistoragecapacities |-> csiStorageCapacityAccess,
   volumeattachments |-> volumeAttachmentAccess,
   volumeattributesclasses |-> volumeAttributesClassAccess]
resourceV1 ==
  [resourceclaims |-> resourceClaimAccess, resourceslices |-> resourceSliceAccess,
   deviceclasses |-> deviceClassAccess]

(* The in-memory clientset: every other group panics when asked for.       *)
inMemClient(kd) ==
  CASE kd \in DOMAIN coreV1 -> coreV1[kd]
    [] kd \in DOMAIN appsV1 -> appsV1[kd]
    [] kd \in DOMAIN policyV1 -> policyV1[kd]
    [] kd \in DOMAIN storageV1 -> storageV1[kd]
    [] kd \in DOMAIN resourceV1 -> resourceV1[kd]
    [] OTHER -> {}

(* registerResourceRoutes: the verbs with a route, below a namespace and   *)
(* without one.  CoreV1().Events() asks below /api/v1, where events of     *)
(* events.k8s.io have no route.                                            *)
registerResourceRoutes(kd, ns) ==
  LET any == {"Create", "CreateWithNamespace", "Get", "GetNewest", "List", "ListFields", "Delete"}
      put == {"Update", "UpdateStatus", "PutUnfit"}
  IN CASE kd = "events" -> {}
       [] Descriptor(kd).core /\ ns # "" ->
            any \union put \union {"Patch", "PatchStatus"}
                \union (IF kd = "pods" THEN {"Bind"} ELSE {})
       [] Descriptor(kd).core /\ ns = "" -> any \union put \union {"Patch"}
       [] ~Descriptor(kd).core /\ ns # "" ->
            any \union (put \ {"UpdateStatus"}) \union {"Patch"}
       [] OTHER -> any
-----------------------------------------------------------------------------
VARIABLES
  kind,      \* the kind of the objects
  net, mem,  \* the two worlds: the heap, the store of the view, the object held
  outcome,   \* how the last call ended for the two clients
  diverged   \* history: a call was made on which the facades are known to differ

vars == <<kind, net, mem, outcome, diverged>>

EmptyWorld ==
  [heap |-> [i \in Ids |-> Blank], store |-> [k \in Keys |-> Nil], held |-> Nil, ctr |-> 0]

NoCall == [net |-> "none", mem |-> "none"]

Init ==
  /\ kind \in Kinds
  /\ net = EmptyWorld /\ mem = EmptyWorld
  /\ outcome = NoCall
  /\ diverged = FALSE

(* The object stored under a key, and the contents of a view.              *)
at(w, k) == w.heap[w.store[k]]
contents(w) == [k \in {j \in Keys : w.store[j] # Nil} |-> at(w, k)]

inUse(w) == Range(w.store) \union {w.held}

(* Forget what no one refers to, and name an object by a key it is stored  *)
(* under, so that equal worlds have equal addresses.                       *)
collect(w) ==
  LET used == inUse(w) \ {Nil}
      name == [i \in used |-> IF \E k \in Keys : w.store[k] = i
                             THEN CHOOSE k \in Keys : w.store[k] = i ELSE "held"]
      named(i) == IF i = Nil THEN Nil ELSE name[i]
      object == [a \in Range(name) |-> w.heap[CHOOSE i \in used : name[i] = a]]
  IN [w EXCEPT !.heap = [a \in Ids |-> IF a \in DOMAIN object THEN object[a] ELSE Blank],
               !.store = [k \in Keys |-> named(w.store[k])],
               !.held = named(w.held)]

(* A new address, holding o.                                               *)
fresh(w) ==
  LET used == inUse(w)
  IN CHOOSE i \in Ids : i \notin used
alloc(w, o) == [w EXCEPT !.heap[fresh(w)] = o]

(* Fields that are set replace those of the object the JSON is read into.  *)
readInto(o, body) ==
  [ns |-> IF body.ns # "" THEN body.ns ELSE o.ns,
   spec |-> IF body.spec # 0 THEN body.spec ELSE o.spec,
   status |-> IF body.status # 0 THEN body.status ELSE o.status,
   ver |-> IF body.ver # 0 THEN body.ver ELSE o.ver]

(* Results: the world after the call, how it ended, the address returned.  *)
(* "half done" is an error after the stored object was changed.            *)
ok(w, i) == [w |-> w, out |-> "ok", id |-> i]
fails(w, how) == [w |-> w, out |-> how, id |-> Nil]
-----------------------------------------------------------------------------
(* The view.                                                               *)

(* storeObject: the object itself goes into the store, over any other.     *)
CreateObject(w, i) ==
  ok([w EXCEPT !.store[w.heap[i].ns] = i, !.heap[i].ver = w.ctr + 1, !.ctr = w.ctr + 1], i)

GetObject(w, k) == IF w.store[k] = Nil THEN fails(w, "not found") ELSE ok(w, w.store[k])

UpdateObject(w, i) ==
  IF w.store[w.heap[i].ns] = Nil THEN fails(w, "not found") ELSE CreateObject(w, i)

DeleteObject(w, k) ==
  IF w.store[k] = Nil THEN fails(w, "not found") ELSE ok([w EXCEPT !.store[k] = Nil], Nil)

(* DeleteObjects and ListObjects with a namespace, "" for all.             *)
inNamespace(ns) == IF ns = "" THEN Keys ELSE {ns}
DeleteObjects(w, ns) ==
  ok([w EXCEPT !.store = [k \in Keys |-> IF k \in inNamespace(ns) THEN Nil ELSE w.store[k]]], Nil)

(* A patch has a type ("json" stands for the ones that are not supported), *)
(* may name a namespace, and may have further fields that do not fit the   *)
(* Go type.  A status of 0 is a patch without the key.                     *)
Patches ==
  LET plain(s) == [type |-> "strategic", fit |-> TRUE, ns |-> "", spec |-> s, status |-> 1 - s,
                   ver |-> 0]
  IN {plain(0), plain(1), [plain(1) EXCEPT !.fit = FALSE]}
       \union {[plain(0) EXCEPT !.type = t] : t \in {"merge", "json"}}
       \union {[plain(1) EXCEPT !.ns = n] : n \in Namespaces}

(* Mutant of PatchObject: the patched object is not stored again.          *)
PatchObjectInPlace(w, k, patch) ==
  IF w.store[k] = Nil THEN fails(w, "not found")
  ELSE ok([w EXCEPT !.heap[w.store[k]] = readInto(at(w, k), patch)], w.store[k])

(* patchObject reads the patched JSON into the stored object: a field that *)
(* the patch removes keeps its value, and what was read stays when another *)
(* field does not fit, or when the namespace turns out to be changed.      *)
PatchObject(w, k, patch) ==
  LET patched == [w EXCEPT !.heap[w.store[k]] = readInto(at(w, k), patch)]
  IN CASE w.store[k] = Nil -> fails(w, "not found")
       [] patch.type = "json" -> fails(w, "error")
       [] ~patch.fit \/ at(patched, k).ns # k -> fails(patched, "half done")
       [] OTHER -> UpdateObject(patched, w.store[k])

(* patchObjectStatus works on a copy, and takes every patch for a strategic*)
(* one; it fails for a type without a status and a patch without the key.  *)
PatchObjectStatus(w, k, patch) ==
  CASE w.store[k] = Nil -> fails(w, "not found")
    [] ~Descriptor(kind).status \/ patch.status = 0 \/ ~patch.fit -> fails(w, "error")
    [] OTHER -> UpdateObject(alloc(w, [at(w, k) EXCEPT !.status = patch.status]), fresh(w))

(* UpdatePodNodeBinding sets the node, which stands in spec, on a copy.    *)
UpdatePodNodeBinding(w, k) ==
  CASE w.store[k] = Nil -> fails(w, "not found")
    [] at(w, k).spec # 0 -> fails(w, "error")
    [] OTHER -> UpdateObject(alloc(w, [at(w, k) EXCEPT !.spec = 1, !.status = 1]), fresh(w))
-----------------------------------------------------------------------------
(* The handlers.  ns is the namespace of the URL, body the decoded JSON.   *)

(* GetObjectName.                                                          *)
GetObjectName(ns) == IF ns = "" /\ Descriptor(kind).namespaced THEN "default" ELSE ns

(* Mutant of handleCreate: the namespace of the URL is ignored.            *)
handleCreateBodyOnly(w, ns, body) == CreateObject(alloc(w, body), fresh(w))

handleCreate(w, ns, body) ==
  CreateObject(alloc(w, [body EXCEPT !.ns = IF body.ns = "" THEN GetObjectName(ns) ELSE body.ns]),
               fresh(w))

handleGet(w, ns) == GetObject(w, GetObjectName(ns))

(* The body is read into the stored object before it is updated, and what  *)
(* was read stays if the rest does not fit, or the update fails.           *)
handlePut(w, ns, body, fit) ==
  LET k == GetObjectName(ns)
      read == [w EXCEPT !.heap[w.store[k]] = readInto(at(w, k), body)]
      r == UpdateObject(read, w.store[k])
  IN CASE w.store[k] = Nil -> fails(w, "not found")
       [] ~fit \/ r.out # "ok" -> fails(read, "half done")
       [] OTHER -> r

handleDelete(w, ns) == DeleteObject(w, GetObjectName(ns))

(* The content type is checked before the object is looked up.             *)
handlePatch(w, ns, patch) ==
  IF patch.type \notin {"strategic", "merge"} THEN fails(w, "error")
  ELSE PatchObject(w, GetObjectName(ns), patch)

handlePatchStatus(w, ns, patch) ==
  IF patch.type # "strategic" THEN fails(w, "error")
  ELSE PatchObjectStatus(w, GetObjectName(ns), patch)

handleCreatePodBinding(w, ns) == UpdatePodNodeBinding(w, GetObjectName(ns))

(* The client holds what the response decodes to.                          *)
respond(r) ==
  IF r.id = Nil THEN r
  ELSE [r EXCEPT !.w = [alloc(r.w, r.w.heap[r.id]) EXCEPT !.held = fresh(r.w)]]

(* A call over the network.                                                *)
NetCall(verb, ns, patch) ==
  LET body == IF net.held = Nil THEN Blank ELSE net.heap[net.held]
  IN IF verb \notin registerResourceRoutes(kind, ns) THEN fails(net, "unsupported")
     ELSE CASE verb = "Create" -> respond(handleCreate(net, ns, body))
            [] verb = "CreateWithNamespace" -> respond(handleCreate(net, body.ns, body))
            [] verb \in {"Get", "GetNewest"} -> respond(handleGet(net, ns))
            [] verb \in {"List", "ListFields"} -> ok(net, Nil)
            [] verb \in {"Update", "UpdateStatus"} -> respond(handlePut(net, ns, body, TRUE))
            [] verb = "PutUnfit" -> respond(handlePut(net, ns, body, FALSE))
            [] verb = "Delete" -> handleDelete(net, ns)
            [] verb = "Patch" -> respond(handlePatch(net, ns, patch))
            [] verb = "PatchStatus" -> respond(handlePatchStatus(net, ns, patch))
            [] verb = "Bind" -> [handleCreatePodBinding(net, ns) EXCEPT !.id = Nil]
-----------------------------------------------------------------------------
(* The typed accesses.  ns is the namespace of the access.                 *)

(* CreateObjectWithAccessNamespace changes the object of the caller.       *)
CreateObjectWithAccessNamespace(w, ns) ==
  CreateObject([w EXCEPT !.heap[w.held].ns = ns], w.held)

(* validateMinimumResourceVersion of GetObject.                            *)
GetNewest(w, k) ==
  IF w.store[k] # Nil /\ at(w, k).ver < w.ctr THEN fails(w, "error") ELSE GetObject(w, k)

(* UpdateObject, then GetObject.                                           *)
UpdateThenGet(w, i) ==
  LET r == UpdateObject(w, i)
  IN IF r.out = "ok" THEN GetObject(r.w, w.heap[i].ns) ELSE r

(* UpdateWithEventNamespaceWithContext: the only update that compares      *)
(* versions; the fields of the event go into a copy of the stored one.     *)
UpdateWithEventNamespace(w, ns) ==
  LET o == w.heap[w.held]
  IN CASE o.ns = "" -> fails(w, "error")
       [] w.store[ns] = Nil -> fails(w, "not found")
       [] o.ver \notin {0, at(w, ns).ver} -> fails(w, "conflict")
       [] OTHER -> UpdateThenGet(alloc(w, [at(w, ns) EXCEPT !.spec = o.spec]), fresh(w))

(* UpdateEphemeralContainers: part of the spec, on a copy.                 *)
UpdateEphemeralContainers(w, ns) ==
  IF w.store[ns] = Nil THEN fails(w, "not found")
  ELSE UpdateThenGet(alloc(w, [at(w, ns) EXCEPT !.spec = w.heap[w.held].spec]), fresh(w))

(* The client holds the object that the view returned.                     *)
hold(r) == IF r.id = Nil THEN r ELSE [r EXCEPT !.w.held = r.id]

(* A call in memory.  A field selector is refused by                       *)
(* checkUnimplementedRequiredListOptions; PatchWithEventNamespace asks for *)
(* a JSON patch, a type that no view supports.                             *)
MemCall(verb, ns, patch) ==
  IF verb \notin inMemClient(kind) THEN fails(mem, "unsupported")
  ELSE CASE verb = "Create" -> hold(CreateObjectWithAccessNamespace(mem, ns))
         [] verb = "CreateWithNamespace" -> hold(CreateObject(mem, mem.held))
         [] verb \in {"Get", "GetScale"} -> hold(GetObject(mem, ns))
         [] verb = "GetNewest" -> hold(GetNewest(mem, ns))
         [] verb = "List" -> ok(mem, Nil)
         [] verb = "ListFields" -> fails(mem, "error")
         [] verb \in {"Update", "UpdateStatus"} -> hold(UpdateThenGet(mem, mem.held))
         [] verb = "UpdateWithNamespace" -> hold(UpdateWithEventNamespace(mem, ns))
         [] verb = "UpdateEphemeralContainers" -> hold(UpdateEphemeralContainers(mem, ns))
         [] verb = "Delete" -> DeleteObject(mem, ns)
         [] verb = "DeleteCollection" -> DeleteObjects(mem, ns)
         [] verb = "Patch" -> hold(PatchObject(mem, ns, patch))
         [] verb = "PatchStatus" -> hold(PatchObjectStatus(mem, ns, patch))
         [] verb = "PatchWithNamespace" ->
              fails(mem, IF mem.store[ns] = Nil THEN "not found" ELSE "error")
         [] verb = "Bind" -> [UpdatePodNodeBinding(mem, ns) EXCEPT !.id = Nil]
-----------------------------------------------------------------------------
(* The client.                                                             *)

writes == {"Create", "CreateWithNamespace", "Update", "UpdateStatus", "PutUnfit",
           "UpdateWithNamespace", "UpdateEphemeralContainers"}

(* The namespaces a client of this kind can ask for, and put in an object. *)
scope == IF Descriptor(kind).namespaced THEN Keys ELSE {""}

(* The calls on which the facades are known to differ.                     *)

(* One of them does not offer the call.                                    *)
offeredByOne(verb, ns) ==
  (verb \in registerResourceRoutes(kind, ns)) # (verb \in inMemClient(kind))

(* Without a namespace the server takes the default one, an access none.   *)
noNamespace(verb, ns) ==
  Descriptor(kind).namespaced /\ ns = "" /\ verb \notin {"List", "CreateWithNamespace"}

(* The object names another namespace than the access: the server goes by  *)
(* the object for a create and by the URL for an update, an access the     *)
(* other way round.                                                        *)
otherNamespace(verb, ns) ==
  LET o == mem.heap[mem.held]
  IN \/ verb = "Create" /\ o.ns \notin {"", ns}
     \/ verb = "CreateWithNamespace" /\ o.ns = "" /\ Descriptor(kind).namespaced
     \/ verb \in {"Update", "UpdateStatus"} /\ o.ns # ns

(* The server cannot unset a field by an update.                           *)
unsetsField(verb, ns) ==
  LET o == mem.heap[mem.held]
      s == at(mem, ns)
  IN /\ verb \in {"Update", "UpdateStatus"} /\ mem.store[ns] # Nil
     /\ \/ o.spec = 0 /\ s.spec # 0
        \/ o.status = 0 /\ s.status # 0

(* The server refuses some types of patches, before it looks for the       *)
(* object; an access refuses fewer, after it has found it.                 *)
otherType(verb, ns, patch) ==
  \/ verb = "Patch" /\ patch.type = "json" /\ mem.store[ns] = Nil
  \/ verb = "PatchStatus" /\ patch.type # "strategic"

(* The server ignores the version that a Get asks for.                     *)
newerVersion(verb, ns) ==
  verb = "GetNewest" /\ mem.store[ns] # Nil /\ at(mem, ns).ver < mem.ctr

(* A patch that fails half way: it leaves an object in another's place, or *)
(* it has changed the object that the client in memory holds.              *)
halfPatched(verb, ns, patch) ==
  /\ verb = "Patch" /\ mem.store[ns] # Nil
  /\ patch.ns \notin {"", ns} \/ (~patch.fit /\ mem.store[ns] = mem.held)

differs(verb, ns, patch) ==
  \/ offeredByOne(verb, ns) \/ noNamespace(verb, ns) \/ verb = "ListFields"
  \/ verb \in writes /\ (otherNamespace(verb, ns) \/ unsetsField(verb, ns))
  \/ otherType(verb, ns, patch) \/ newerVersion(verb, ns) \/ halfPatched(verb, ns, patch)

Call(verb, ns, patch) ==
  /\ ~diverged
  /\ verb \in writes => mem.held # Nil
  /\ mem.ctr < MaxWrites /\ net.ctr < MaxWrites
  /\ LET n == NetCall(verb, ns, patch)
         m == MemCall(verb, ns, patch)
     IN /\ net' = collect(n.w) /\ mem' = collect(m.w)
        /\ outcome' = [net |-> n.out, mem |-> m.out]
  /\ diverged' = differs(verb, ns, patch)
  /\ UNCHANGED kind

(* The client makes an object of its own.                                  *)
NewObject(ns, spec) ==
  /\ ~diverged
  /\ LET new(w) == collect([alloc(w, [Blank EXCEPT !.ns = ns, !.spec = spec, !.status = 1])
                              EXCEPT !.held = fresh(w)])
     IN net' = new(net) /\ mem' = new(mem)
  /\ outcome' = NoCall /\ UNCHANGED <<kind, diverged>>

(* DeepCopy of the object the client holds.                                *)
DeepCopy ==
  /\ ~diverged /\ mem.held # Nil
  /\ LET copy(w) == collect([alloc(w, w.heap[w.held]) EXCEPT !.held = fresh(w)])
     IN net' = copy(net) /\ mem' = copy(mem)
  /\ outcome' = NoCall /\ UNCHANGED <<kind, diverged>>

(* The client changes the object it holds, which may be the stored one.    *)
Change(spec) ==
  /\ ~diverged /\ mem.held # Nil
  /\ mem.heap[mem.held].spec # spec
  /\ net' = [net EXCEPT !.heap[net.held].spec = spec]
  /\ mem' = [mem EXCEPT !.heap[mem.held].spec = spec]
  /\ diverged' = (mem.held \in Range(mem.store))
  /\ outcome' = NoCall /\ UNCHANGED kind

Next ==
  \/ \E verb \in Verbs \ {"Patch", "PatchStatus"}, ns \in scope : Call(verb, ns, Nil)
  \/ \E verb \in {"Patch", "PatchStatus"}, ns \in scope, patch \in Patches :
       Call(verb, ns, patch)
  \/ \E ns \in scope, s \in 0..1 : NewObject(ns, s)
  \/ DeepCopy
  \/ \E s \in 0..2 : Change(s)

Spec == Init /\ [][Next]_vars
-----------------------------------------------------------------------------
(* Properties.                                                             *)

World == [heap : [Ids -> Object], store : [Keys -> Ids \union {Nil}], held : Ids \union {Nil},
          ctr : 0..MaxWrites]
Outcomes == {"none", "ok", "not found", "error", "half done", "conflict", "unsupported"}

TypeOK ==
  /\ kind \in Kinds /\ net \in World /\ mem \in World
  /\ outcome \in [net : Outcomes, mem : Outcomes] /\ diverged \in BOOLEAN

(* The access mode does not show: as long as no call was made on which the *)
(* facades are known to differ, both clients have had the same answers,    *)
(* hold equal objects, and have left equal views behind, versions          *)
(* included, with every object stored under its own namespace, where Get,  *)
(* List and Delete look for it.                                            *)
AccessModesAgree ==
  ~diverged =>
    /\ contents(net) = contents(mem) /\ net.ctr = mem.ctr
    /\ \A w \in {net, mem} : \A k \in Keys : w.store[k] # Nil => at(w, k).ns = k
    /\ outcome.net = outcome.mem
    /\ (net.held = Nil) = (mem.held = Nil)
    /\ net.held # Nil => net.heap[net.held] = mem.heap[mem.held]

(* A stored object never changes without a new version, which caches and   *)
(* informers go by: no handler and no access that works on the stored      *)
(* object changes it otherwise, whether the facades agree on the call or   *)
(* not.  Excepted are a PUT and a PATCH that fail half way, and a client   *)
(* in memory that changes the object which it shares with the view.        *)
versioned(before, after) ==
  \A k \in Keys :
    (before.store[k] # Nil /\ after.store[k] # Nil /\ at(before, k).ver = at(after, k).ver)
      => at(before, k) = at(after, k)
ChangesAreVersioned ==
  [][/\ outcome'.net # "half done" => versioned(net, net')
     /\ outcome'.mem \notin {"none", "half done"} => versioned(mem, mem')]_vars
=============================================================================
