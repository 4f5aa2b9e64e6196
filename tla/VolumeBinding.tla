--------------------------- MODULE VolumeBinding ---------------------------
(***************************************************************************)
(* Binding of volume claims in a view (src/common/volutil/volutil.go, with *)
(* the lists of src/common/viewutil/viewutil.go).                          *)
(*                                                                         *)
(* Claims of Immediate mode are bound once, when the request view has been *)
(* populated and nobody else uses it.  Claims that wait for their first    *)
(* consumer are bound in rounds (doWork of a simulation run), while the    *)
(* kube-scheduler (external) writes to the same view: it names the node    *)
(* for which a volume should be provisioned, or gives an existing volume a *)
(* reference to the claim.                                                 *)
(*                                                                         *)
(* A round works on the objects it listed at its beginning, and binds by   *)
(* two updates with copies of them, first the claim and then the volume.   *)
(***************************************************************************)
EXTENDS Naturals, Sequences, FiniteSets

CONSTANTS
  Claims, Volumes, \* claims and volumes of the snapshot
  SimVolume(_),    \* simVol-<namespace>-<name> of a claim
  Nodes,
  ZoneOf,          \* [Nodes -> zone], NoZone without the label
  Snapshots,       \* inputs: classes, claims and volumes of a cluster
  None,
  Gone,            \* a claim that the snapshot does not have
  MaxDecisions     \* bound: [Claims -> times the scheduler decides for it]

NoZone == "no zone"
VolNames == Volumes \union {SimVolume(c) : c \in Claims}

VolumeModes == {"Filesystem", "Block"}
Claim == [size : Nat, class : STRING \union {None}, mode : VolumeModes,
          phase : {"Pending", "Bound"}, volume : VolNames \union {None},
          node : Nodes \union {None}]
Volume == [capacity : Nat, class : STRING, mode : VolumeModes,
           phase : {"Available", "Bound", "Released"},
           claimRef : Claims \union {Gone, None}, zone : STRING]
Class == [mode : {"Immediate", "WaitForFirstConsumer"}, default : BOOLEAN, created : Nat,
          topology : STRING]

(* Names of claims that differ in where the namespace ends could give the  *)
(* same volume name; such claims are left out.                             *)
ASSUME VolumeAssumption ==
  /\ IsFiniteSet(Claims) /\ IsFiniteSet(Volumes)
  /\ \A c, d \in Claims : SimVolume(c) = SimVolume(d) => c = d
  /\ \A c \in Claims : SimVolume(c) \notin Volumes
  /\ Nodes \intersect VolNames = {}
  /\ MaxDecisions \in [Claims -> Nat]
  /\ ZoneOf \in [Nodes -> STRING]
  /\ None \notin Claims \union Nodes \union STRING \union Claim \union Volume
  /\ Gone \notin Claims \union {None}

(* A snapshot is taken of a cluster in which no binding is under way: a    *)
(* bound claim and its volume refer to each other, and a volume refers to  *)
(* no claim that is pending.  It may be released, and still refer to a     *)
(* claim that is gone.  A node is selected only for a claim with a class,  *)
(* and not for one of Immediate mode.                                      *)
ASSUME SnapshotAssumption ==
  \A s \in Snapshots :
    /\ s.pvcs \in [Claims -> Claim]
    /\ DOMAIN s.pvs \subseteq Volumes /\ s.pvs \in [DOMAIN s.pvs -> Volume]
    /\ DOMAIN s.classes \subseteq STRING /\ s.classes \in [DOMAIN s.classes -> Class]
    /\ \A c \in Claims :
         LET pvc == s.pvcs[c]
         IN  /\ pvc.phase = "Bound" => /\ pvc.volume \in DOMAIN s.pvs
                                       /\ s.pvs[pvc.volume].phase = "Bound"
                                       /\ s.pvs[pvc.volume].claimRef = c
             /\ pvc.phase = "Pending" =>
                  /\ \A v \in DOMAIN s.pvs : s.pvs[v].claimRef # c
                  /\ pvc.node # None => /\ pvc.class # None
                                        /\ pvc.class \in DOMAIN s.classes
                                             => s.classes[pvc.class].mode # "Immediate"
    /\ \A v \in DOMAIN s.pvs :
         s.pvs[v].claimRef \in Claims => s.pvcs[s.pvs[v].claimRef].volume = v

VARIABLES
  input,   \* the snapshot, and BindVolumeClaimsForImmediateMode
  claims,  \* [Claims -> claim or None], stored in the view
  vols,    \* [VolNames -> volume or None]
  pc, todo,
  listedClaims, listedVols, \* the objects as listed
  cur,     \* BindClaimAndVolume: the claim and the copies to be written
  err,     \* FinalizeStaticBindingsForSelectedClaimsInWFFC holds an error
  claimWrite, \* [Claims -> the copy that the scheduler is about to write, or None]
  volWrite,   \* [VolNames -> the same of volumes]
  decided  \* history: [Claims -> what a scheduler decided for the claim]

view == <<claims, vols>>
listed == <<listedClaims, listedVols>>
writes == <<claimWrite, volWrite>>
vars == <<input, claims, vols, pc, todo, listedClaims, listedVols, cur, err, claimWrite,
          volWrite, decided>>

NoBinding == [claim |-> None, vol |-> None, pvc |-> None, pv |-> None, next |-> None]

Init ==
  /\ input \in [snapshot : Snapshots, bindImmediate : BOOLEAN]
  /\ claims = [c \in Claims |-> None] /\ vols = [v \in VolNames |-> None]
  /\ pc = "populate" /\ todo = {}
  /\ listedClaims = claims /\ listedVols = vols
  /\ cur = NoBinding
  /\ err = FALSE
  /\ claimWrite = claims /\ volWrite = vols
  /\ decided = [c \in Claims |-> <<>>]

-----------------------------------------------------------------------------
(* The request view.                                                       *)

classes == input.snapshot.classes
(* AsPVC keeps the annotation of a node that was selected in the cluster.  *)
(* AsPV does not carry the volume mode over, and the API's default for it  *)
(* is Filesystem.                                                          *)
AsPVC(info) == info
AsPV(info) == [info EXCEPT !.mode = "Filesystem"]

PopulateView ==
  /\ pc = "populate" /\ pc' = "requestView"
  /\ claims' = [c \in Claims |-> AsPVC(input.snapshot.pvcs[c])]
  /\ vols' = [v \in VolNames |->
                IF v \in DOMAIN input.snapshot.pvs THEN AsPV(input.snapshot.pvs[v]) ELSE None]
  /\ decided' = [c \in Claims |-> IF claims'[c].node = None THEN <<>> ELSE <<claims'[c].node>>]
  /\ UNCHANGED <<input, todo, listed, cur, err, writes>>

(* The newest class with the annotation; more than one if equally old.     *)
GetDefaultStorageClass ==
  LET defaults == {s \in DOMAIN classes : classes[s].default}
  IN  {s \in defaults : \A t \in defaults : classes[t].created <= classes[s].created}

(* storagevolume.FindMatchingVolume without a node: a volume that already  *)
(* refers to the claim, else the smallest that is free and fits.           *)
FindMatchingVolume(c, pvc, pvs) ==
  LET existing == {v \in DOMAIN pvs : pvs[v] # None}
      large == {v \in existing : pvs[v].capacity >= pvc.size /\ pvs[v].mode = pvc.mode}
      prebound == {v \in large : pvs[v].claimRef = c}
      free == {v \in large : /\ pvs[v].claimRef = None /\ pvs[v].phase = "Available"
                             /\ pvs[v].class = pvc.class}
  IN  IF prebound # {} THEN prebound
      ELSE {v \in free : \A w \in free : pvs[v].capacity <= pvs[w].capacity}

(* Mutant of simulatedVolume: the capacity is not set.                     *)
simulatedVolumeEmpty(c, pvc, zone) ==
  IF vols[SimVolume(c)] # None THEN vols[SimVolume(c)]
  ELSE [capacity |-> 0, class |-> pvc.class, mode |-> pvc.mode,
        phase |-> "Available", claimRef |-> None, zone |-> zone]

(* createSimulatedVolumeMatchingClaim: the volume of that name if there is *)
(* one, whatever it is, else a new one.                                    *)
simulatedVolume(c, pvc, zone) ==
  IF vols[SimVolume(c)] # None THEN vols[SimVolume(c)]
  ELSE [capacity |-> pvc.size, class |-> pvc.class, mode |-> pvc.mode,
        phase |-> "Available", claimRef |-> None, zone |-> zone]

(* Copies of the claim and the volume, bound to each other.                *)
bindWith(c, pvc, v, pv, next) ==
  /\ cur' = [claim |-> c, vol |-> v, next |-> next,
             pvc |-> [pvc EXCEPT !.volume = v, !.phase = "Bound"],
             pv |-> [pv EXCEPT !.claimRef = c, !.phase = "Bound"]]
  /\ pc' = "updateClaim"

(* BindClaimAndVolume, its first update and its second.  UpdateObject      *)
(* stores the copy whatever was stored in between.                         *)
UpdateClaim ==
  /\ pc = "updateClaim" /\ pc' = "updateVolume"
  /\ claims' = [claims EXCEPT ![cur.claim] = cur.pvc]
  /\ UNCHANGED <<input, vols, todo, listed, cur, decided, err, writes>>

(* Mutant of UpdateVolume: the volume is not written.                      *)
UpdateVolumeMissing ==
  /\ pc = "updateVolume" /\ pc' = cur.next
  /\ cur' = NoBinding
  /\ UNCHANGED <<input, view, todo, listed, decided, err, writes>>

UpdateVolume ==
  /\ pc = "updateVolume" /\ pc' = cur.next
  /\ vols' = [vols EXCEPT ![cur.vol] = cur.pv]
  /\ cur' = NoBinding
  /\ UNCHANGED <<input, claims, todo, listed, decided, err, writes>>

-----------------------------------------------------------------------------
(* BindClaimsForImmediateMode.                                             *)

BindClaimsForImmediateMode ==
  /\ pc = "requestView"
  /\ IF input.bindImmediate /\ DOMAIN classes # {}
     THEN /\ pc' = "immediate" /\ todo' = Claims
          /\ listedClaims' = claims /\ listedVols' = vols
     ELSE pc' = "idle" /\ UNCHANGED <<todo, listed>>
  /\ UNCHANGED <<input, view, cur, decided, err, writes>>

(* The storage class of a claim: its own, or the default if it names none. *)
classOf(pvc) ==
  IF pvc.class = None THEN GetDefaultStorageClass
  ELSE IF pvc.class \in DOMAIN classes THEN {pvc.class} ELSE {}

(* The next claim in the order of increasing storage is not bound.         *)
isNext(c) == c \in todo /\ \A d \in todo : listedClaims[c].size <= listedClaims[d].size

SkipImmediate(c) ==
  /\ pc = "immediate" /\ isNext(c)
  /\ \/ listedClaims[c].phase # "Pending" /\ UNCHANGED claims
     \/ listedClaims[c].phase = "Pending" /\ classOf(listedClaims[c]) = {} /\ UNCHANGED claims
     \/ \* the name of the default class is set in the stored object
        /\ listedClaims[c].phase = "Pending"
        /\ \E s \in classOf(listedClaims[c]) :
             /\ classes[s].mode = "WaitForFirstConsumer"
             /\ claims' = [claims EXCEPT ![c].class = s]
  /\ todo' = todo \ {c}
  /\ UNCHANGED <<input, vols, pc, listed, cur, decided, err, writes>>

(* The first zone of the class's topology; a topology that names no zone   *)
(* is an error.                                                            *)
pickZoneFromAllowedTopologies(s) == classes[s].topology

(* The volumes it may return, none on an error.  It looks at the volumes   *)
(* as they were listed: chosenPVs, which should exclude the ones chosen    *)
(* for claims before this one, is always empty.                            *)
FindExistingOrCreateSimulatedBindableVolume(c, pvc, s) ==
  LET matching == FindMatchingVolume(c, pvc, listedVols)
      zone == pickZoneFromAllowedTopologies(s)
      sim == simulatedVolume(c, pvc, zone)
  IN  IF matching # {} THEN {[name |-> v, pv |-> listedVols[v]] : v \in matching}
      ELSE {o \in {[name |-> SimVolume(c), pv |-> sim]} :
              /\ zone # "without zones"
              /\ FindMatchingVolume(c, pvc, [v \in {SimVolume(c)} |-> sim]) # {}}

(* One claim of the round: the volume is created if need be, then bound.   *)
BindImmediate(c) ==
  /\ pc = "immediate" /\ isNext(c) /\ listedClaims[c].phase = "Pending"
  /\ \E s \in classOf(listedClaims[c]) :
       LET pvc == [listedClaims[c] EXCEPT !.class = s]
           chosen == FindExistingOrCreateSimulatedBindableVolume(c, pvc, s)
       IN  /\ classes[s].mode = "Immediate"
           /\ claims' = [claims EXCEPT ![c].class = s]
           /\ \/ \E o \in chosen :
                   /\ vols' = IF vols[o.name] = None THEN [vols EXCEPT ![o.name] = o.pv] ELSE vols
                   /\ bindWith(c, pvc, o.name, o.pv, "immediate")
              \/ /\ chosen = {}
                 /\ pc' = "failed" /\ UNCHANGED <<vols, cur>>
  /\ todo' = todo \ {c}
  /\ UNCHANGED <<input, listed, decided, err, writes>>

ImmediateDone ==
  /\ pc = "immediate" /\ todo = {} /\ pc' = "idle"
  /\ UNCHANGED <<input, view, todo, listed, cur, decided, err, writes>>

-----------------------------------------------------------------------------
(* The volume work of a simulation run, a round per poll.                  *)

DoWork ==
  /\ pc = "idle" /\ pc' = "provision"
  /\ todo' = Claims /\ listedClaims' = claims
  /\ UNCHANGED <<input, view, listedVols, cur, decided, err, writes>>

(* Mutant of selected: the phase of the claim is not looked at.            *)
selectedAnyPhase(c) == listedClaims[c].node # None

(* A pending claim with the annotation of the selected node.               *)
selected(c) == listedClaims[c].phase = "Pending" /\ listedClaims[c].node # None

SkipProvision(c) ==
  /\ pc = "provision" /\ c \in todo /\ ~selected(c)
  /\ todo' = todo \ {c}
  /\ UNCHANGED <<input, view, pc, listed, cur, decided, err, writes>>

(* The zone label of the node named by the claim's annotation.             *)
getSelectedNodeZone(pvc) == ZoneOf[pvc.node]

(* ProvisionAndBindVolumesFoSelectedClaimsInWFFC for one claim, up to the  *)
(* creation of the volume in the zone of the selected node.  A node        *)
(* without a zone ends the round, and the run with it.                     *)
ProvisionVolume(c) ==
  /\ pc = "provision" /\ c \in todo /\ selected(c)
  /\ LET pvc == listedClaims[c]
         zone == getSelectedNodeZone(pvc)
         sim == simulatedVolume(c, pvc, zone)
     IN  \/ /\ zone # NoZone
            /\ vols' = [vols EXCEPT ![SimVolume(c)] = sim]
            /\ bindWith(c, pvc, SimVolume(c), sim, "provision")
         \/ /\ zone = NoZone
            /\ pc' = "failed" /\ UNCHANGED <<vols, cur>>
  /\ todo' = todo \ {c}
  /\ UNCHANGED <<input, claims, listed, decided, err, writes>>

(* Mutant of Finalize: the volumes are those of an earlier list.           *)
FinalizeStale ==
  /\ pc = "provision" /\ todo = {} /\ pc' = "finalize"
  /\ todo' = {v \in VolNames : listedVols[v] # None}
  /\ UNCHANGED <<input, view, listed, cur, decided, err, writes>>

(* FinalizeStaticBindingsForSelectedClaimsInWFFC lists the volumes.        *)
Finalize ==
  /\ pc = "provision" /\ todo = {} /\ pc' = "finalize"
  /\ todo' = {v \in VolNames : vols[v] # None} /\ listedVols' = vols
  /\ err' = FALSE
  /\ UNCHANGED <<input, view, listedClaims, cur, decided, writes>>

(* A volume that refers to a claim and is not bound.                       *)
referenced(v) == listedVols[v].claimRef # None /\ listedVols[v].phase # "Bound"

SkipFinalize(v) ==
  /\ pc = "finalize" /\ v \in todo /\ ~referenced(v)
  /\ todo' = todo \ {v}
  /\ UNCHANGED <<input, view, pc, listed, cur, decided, err, writes>>

(* The claim is read anew; whether it has a volume already is not checked. *)
FinalizeVolume(v) ==
  /\ pc = "finalize" /\ v \in todo /\ referenced(v) /\ listedVols[v].claimRef \in Claims
  /\ LET c == listedVols[v].claimRef
     IN  bindWith(c, claims[c], v, listedVols[v], "finalize")
  /\ todo' = todo \ {v} /\ err' = FALSE
  /\ UNCHANGED <<input, view, listed, decided, writes>>

(* A claim that does not exist is passed over, but the error stays, and    *)
(* fails the round unless a later claim is found.                          *)
FinalizeOrphan(v) ==
  /\ pc = "finalize" /\ v \in todo /\ referenced(v) /\ listedVols[v].claimRef = Gone
  /\ todo' = todo \ {v} /\ err' = TRUE
  /\ UNCHANGED <<input, view, pc, listed, cur, decided, writes>>

FinalizeDone ==
  /\ pc = "finalize" /\ todo = {} /\ pc' = IF err THEN "failed" ELSE "idle"
  /\ UNCHANGED <<input, view, todo, listed, cur, decided, err, writes>>

(* The run ends between two polls.                                         *)
RunEnds ==
  /\ pc = "idle" /\ pc' = "ended"
  /\ UNCHANGED <<input, view, todo, listed, cur, decided, err, writes>>

-----------------------------------------------------------------------------
(* The kube-scheduler's VolumeBinding plugin.  It decides by what it has   *)
(* read, and by its own copies of what it is still about to write; a copy  *)
(* is written later, whatever was stored in between.                       *)

running == pc \notin {"populate", "requestView", "immediate", "failed", "ended"}
           /\ cur.next # "immediate"
awaitsConsumer(c) ==
  /\ claims[c].phase = "Pending" /\ claims[c].class \in DOMAIN classes
  /\ classes[claims[c].class].mode = "WaitForFirstConsumer"
assumed(v) == IF volWrite[v] # None THEN volWrite[v] ELSE vols[v]
usableOn(n, c) ==
  {v \in VolNames : /\ vols[v] # None
                    /\ vols[v].zone \in {NoZone, ZoneOf[n]}
                    /\ v \in FindMatchingVolume(c, claims[c], [w \in {v} |-> assumed(v)])}
decides(c) ==
  running /\ awaitsConsumer(c) /\ claimWrite[c] = None /\ Len(decided[c]) < MaxDecisions[c]

(* No volume fits: the node is to be written to the claim for provisioning.*)
SelectNode(c, n) ==
  /\ decides(c) /\ usableOn(n, c) = {}
  /\ claimWrite' = [claimWrite EXCEPT ![c] = [claims[c] EXCEPT !.node = n]]
  /\ decided' = [decided EXCEPT ![c] = Append(@, n)]
  /\ UNCHANGED <<input, view, pc, todo, listed, cur, err, volWrite>>

(* A volume fits: it is to get a reference to the claim.                   *)
SetClaimRef(c, n, v) ==
  /\ decides(c) /\ v \in usableOn(n, c) /\ volWrite[v] = None
  /\ volWrite' = [volWrite EXCEPT ![v] = [vols[v] EXCEPT !.claimRef = c]]
  /\ decided' = [decided EXCEPT ![c] = Append(@, v)]
  /\ UNCHANGED <<input, view, pc, todo, listed, cur, err, claimWrite>>

(* UpdateObject of the scheduler's copies.                                 *)
WriteClaim(c) ==
  /\ running /\ claimWrite[c] # None
  /\ claims' = [claims EXCEPT ![c] = claimWrite[c]]
  /\ claimWrite' = [claimWrite EXCEPT ![c] = None]
  /\ UNCHANGED <<input, vols, pc, todo, listed, cur, err, volWrite, decided>>

WriteVolume(v) ==
  /\ running /\ volWrite[v] # None
  /\ vols' = [vols EXCEPT ![v] = volWrite[v]]
  /\ volWrite' = [volWrite EXCEPT ![v] = None]
  /\ UNCHANGED <<input, claims, pc, todo, listed, cur, err, claimWrite, decided>>

-----------------------------------------------------------------------------
RoundSteps ==
  \/ PopulateView \/ BindClaimsForImmediateMode \/ ImmediateDone
  \/ UpdateClaim \/ UpdateVolume \/ Finalize \/ FinalizeDone
  \/ \E c \in Claims : \/ SkipImmediate(c) \/ BindImmediate(c)
                       \/ SkipProvision(c) \/ ProvisionVolume(c)
  \/ \E v \in VolNames : SkipFinalize(v) \/ FinalizeVolume(v) \/ FinalizeOrphan(v)
SchedulerSteps ==
  \E c \in Claims, n \in Nodes : SelectNode(c, n) \/ \E v \in VolNames : SetClaimRef(c, n, v)
SchedulerWrites ==
  (\E c \in Claims : WriteClaim(c)) \/ \E v \in VolNames : WriteVolume(v)

Next == RoundSteps \/ DoWork \/ RunEnds \/ SchedulerSteps \/ SchedulerWrites

Spec == Init /\ [][Next]_vars
(* A run polls until it ends, the calls of a round are in memory, and a    *)
(* write that the scheduler has begun is made.                             *)
FairSpec == Spec /\ WF_vars(RoundSteps) /\ WF_vars(DoWork) /\ WF_vars(SchedulerWrites)

-----------------------------------------------------------------------------
(* Properties.                                                             *)

(* Where BindClaimAndVolume was called.                                    *)
stage == IF pc \in {"updateClaim", "updateVolume"} THEN cur.next ELSE pc

TypeOK ==
  /\ input \in [snapshot : Snapshots, bindImmediate : BOOLEAN]
  /\ pc \in {"populate", "requestView", "immediate", "updateClaim", "updateVolume", "idle",
             "provision", "finalize", "failed", "ended"}
  /\ claims \in [Claims -> IF pc = "populate" THEN {None} ELSE Claim]
  /\ vols \in [VolNames -> Volume \union {None}]
  /\ listedClaims \in [Claims -> Claim \union {None}]
  /\ stage \in {"immediate", "provision"} =>
       todo \subseteq Claims /\ listedClaims \in [Claims -> Claim]
  /\ listedVols \in [VolNames -> Volume \union {None}]
  /\ stage = "finalize" => todo \subseteq VolNames
  /\ cur \in IF pc \in {"updateClaim", "updateVolume"}
             THEN [claim : Claims, vol : VolNames, pvc : Claim, pv : Volume,
                   next : {"immediate", "provision", "finalize"}]
             ELSE {NoBinding}
  /\ err \in BOOLEAN
  /\ claimWrite \in [Claims -> Claim \union {None}]
  /\ volWrite \in [VolNames -> Volume \union {None}]
  /\ decided \in [Claims -> Seq(Nodes \union VolNames)]

bound == {c \in Claims : claims[c] # None /\ claims[c].phase = "Bound"}
(* A claim that Immediate mode was applied to.                             *)
immediate(c) == claims[c].class \in DOMAIN classes /\ classes[claims[c].class].mode = "Immediate"
(* Volumes that the round of Immediate mode chose for several claims.      *)
contended(v) == \E c, d \in bound : /\ c # d /\ immediate(c) /\ immediate(d)
                                    /\ claims[c].volume = v /\ claims[d].volume = v
(* Volumes that were provisioned for one claim while the scheduler chose   *)
(* them for another: they look free between their creation and their update*)
disputed(v) ==
  \E c, d \in Claims : c # d /\ v = SimVolume(d) /\ \E i \in DOMAIN decided[c] : decided[c][i] = v
(* Claims for which the scheduler did not decide twice, the decision that  *)
(* the cluster was left with included.                                     *)
settled(c) == Len(decided[c]) <= 1
atRest == pc \in {"idle", "ended"}

(* A claim that is to get a volume: the scheduler has decided for it, or   *)
(* the round of Immediate mode, which uses the default class for a claim   *)
(* without one, has just begun.                                            *)
due(c) ==
  \/ decided[c] # <<>>
  \/ pc = "immediate" /\ claims[c].phase = "Pending" /\ immediate(c)
  \/ /\ pc = "immediate" /\ claims[c].phase = "Pending" /\ claims[c].class = None
     /\ GetDefaultStorageClass # {}
     /\ \A s \in GetDefaultStorageClass : classes[s].mode = "Immediate"

(* What the kube-scheduler's VolumeBinding plugin needs (comment of        *)
(* BindClaimsForImmediateMode): between rounds a bound claim names a       *)
(* volume that refers back to it and, if the scheduler decided once, is    *)
(* bound; and at no time have two claims one volume.  This holds although  *)
(* the scheduler and the rounds write copies read before the other's write *)
(* (UpdateObject compares no versions), but for two kinds of volumes: one  *)
(* that the round of Immediate mode gave to several claims, and one that   *)
(* the scheduler chose while it was provisioned for another claim.         *)
BindingsMutual ==
  /\ atRest => \A c \in bound :
                 LET v == claims[c].volume
                 IN  /\ v \in VolNames /\ vols[v] # None
                     /\ \/ contended(v) \/ disputed(v)
                        \/ vols[v].claimRef = c /\ (settled(c) => vols[v].phase = "Bound")
  /\ \A c, d \in bound : c # d /\ claims[c].volume = claims[d].volume
                           => contended(claims[c].volume) \/ disputed(claims[c].volume)

(* The volume of a claim bound here is large enough and of the claim's     *)
(* class and mode, found, provisioned or chosen by the scheduler;          *)
(* and it is in the zone of the node selected for the claim, if the        *)
(* scheduler has not selected another one meanwhile.                       *)
VolumeFitsClaim ==
  \A c \in bound :
    input.snapshot.pvcs[c].phase = "Pending" =>
      LET v == vols[claims[c].volume]
      IN  /\ v.capacity >= claims[c].size /\ v.class = claims[c].class /\ v.mode = claims[c].mode
          /\ settled(c) /\ claims[c].node # None => v.zone = ZoneOf[claims[c].node]

(* A claim that has a volume keeps it, unless the scheduler decided twice: *)
(* FinalizeStaticBindingsForSelectedClaimsInWFFC says that it binds a      *)
(* claim only if its "VolumeName is empty", and does not look.             *)
KeepsVolume ==
  [][\A c \in Claims : c \in bound /\ settled(c) => claims'[c].volume = claims[c].volume]_vars

(* Every claim that is to get a volume gets one while the run goes on and  *)
(* no round fails.  Excepted is a claim for which the scheduler chose a    *)
(* disputed volume: the update for the other claim writes over its choice. *)
DecisionCarriedOut ==
  \A c \in Claims :
    due(c)
      ~> (\/ c \in bound \/ pc \in {"failed", "ended"}
          \/ \E i \in DOMAIN decided[c] : disputed(decided[c][i]))
=============================================================================
