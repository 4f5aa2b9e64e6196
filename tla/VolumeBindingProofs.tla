------------------------ MODULE VolumeBindingProofs ------------------------
(* Proofs about VolumeBinding: bindings are mutual and exclusive, a volume *)
(* fits its claim, and a claim keeps its volume, but for the exceptions    *)
(* that the properties name.                                               *)
EXTENDS VolumeBinding, TLAPS

pvcs == input.snapshot.pvcs
snapshotVols ==
  [v \in VolNames |->
     IF v \in DOMAIN input.snapshot.pvs THEN AsPV(input.snapshot.pvs[v]) ELSE None]
updating == pc \in {"updateClaim", "updateVolume"}
(* A decision for the claim named x, a node or a volume.                   *)
chose(c, x) == \E i \in DOMAIN decided[c] : decided[c][i] = x
(* The volume refers to the claim and is not bound.                        *)
refers(v, c) == vols[v] # None /\ vols[v].phase # "Bound" /\ vols[v].claimRef = c
(* The scheduler is about to write such a reference.                       *)
promised(v, c) == volWrite[v] # None /\ volWrite[v].claimRef = c
NoWrites == (\A c \in Claims : claimWrite[c] = None) /\ (\A v \in VolNames : volWrite[v] = None)

sameVolume(p, q) ==
  p.capacity = q.capacity /\ p.class = q.class /\ p.mode = q.mode /\ p.zone = q.zone
sameClaim(p, q) == p.size = q.size /\ p.class = q.class /\ p.mode = q.mode
fits(pv, pvc) == pv.capacity >= pvc.size /\ pv.class = pvc.class /\ pv.mode = pvc.mode

-----------------------------------------------------------------------------
(* The inductive invariant.                                                *)

(* A bound claim and its volume, between the two updates of a binding too. *)
BoundToVolume ==
  \A c \in bound :
    LET v == claims[c].volume
    IN  /\ v \in VolNames /\ vols[v] # None
        /\ v \in Volumes \union {SimVolume(c)} \/ chose(c, v)
        /\ \/ contended(v) \/ disputed(v)
           \/ pc = "updateVolume" /\ cur.claim = c
           \/ vols[v].claimRef = c /\ (settled(c) => vols[v].phase = "Bound")
Exclusive ==
  \A c, d \in bound : c # d /\ claims[c].volume = claims[d].volume
                        => contended(claims[c].volume) \/ disputed(claims[c].volume)
BoundRef ==
  \A v \in VolNames, c \in Claims :
    vols[v] # None /\ vols[v].phase = "Bound" /\ vols[v].claimRef = c =>
      /\ c \in bound \/ ~settled(c)
      /\ pvcs[c].phase = "Bound" \/ fits(vols[v], claims[c])
(* A simulated volume exists only with its claim's binding, which a        *)
(* scheduler that decides twice may undo.                                  *)
SimNew ==
  \A c \in Claims :
    vols[SimVolume(c)] # None =>
      /\ c \in bound \/ ~settled(c) \/ (pc = "updateClaim" /\ cur.claim = c)
      /\ fits(vols[SimVolume(c)], claims[c])

(* References of the scheduler, written or about to be.                    *)
RefFits ==
  \A v \in VolNames, c \in Claims :
    refers(v, c) \/ promised(v, c) => chose(c, v) /\ ~immediate(c) /\ fits(vols[v], claims[c])
RefOnce ==
  \A v \in VolNames, c \in Claims :
    settled(c) =>
      /\ promised(v, c) => c \notin bound /\ vols[v].claimRef # c
      /\ refers(v, c) /\ c \in bound => pc = "updateVolume" /\ cur.claim = c /\ cur.vol = v
VolumeWrites ==
  \A v \in VolNames :
    volWrite[v] # None =>
      /\ vols[v] # None /\ sameVolume(volWrite[v], vols[v]) /\ volWrite[v].claimRef \in Claims
      /\ vols[v].claimRef \in {None, volWrite[v].claimRef} \/ disputed(v)
      /\ volWrite[v].phase = "Bound" => ~settled(volWrite[v].claimRef)
(* Nodes that the scheduler named, written or about to be.                 *)
NodeChosen == \A c \in Claims : claims[c].node # None => chose(c, claims[c].node)
ClaimWrites ==
  \A c \in Claims :
    claimWrite[c] # None =>
      /\ chose(c, claimWrite[c].node) /\ claimWrite[c].node # None
      /\ claimWrite[c].phase = "Pending" /\ claimWrite[c].class # None
      /\ ~immediate(c) /\ sameClaim(claimWrite[c], claims[c])
      /\ settled(c) => c \notin bound /\ claims[c].node = None
(* A claim that the cluster had bound is never decided for.                *)
SnapshotBound ==
  \A c \in Claims : pvcs[c].phase = "Bound" => c \in bound /\ claimWrite[c] = None

(* What the lists still tell.                                              *)
NodeClass == \A c \in Claims \ bound : claims[c].node # None => claims[c].class # None
ListedVolume ==
  \A v \in VolNames : listedVols[v] # None => vols[v] # None /\ sameVolume(listedVols[v], vols[v])

Fits ==
  \A c \in bound :
    pvcs[c].phase = "Pending" =>
      /\ fits(vols[claims[c].volume], claims[c])
      /\ settled(c) /\ claims[c].node # None
           => vols[claims[c].volume].zone = ZoneOf[claims[c].node]

(* The binding under way.                                                  *)
UpdateInv ==
  updating =>
    /\ vols[cur.vol] # None /\ sameVolume(cur.pv, vols[cur.vol])
    /\ sameClaim(cur.pvc, claims[cur.claim])
    /\ fits(cur.pv, cur.pvc)
    /\ cur.pvc.phase = "Bound" /\ cur.pvc.volume = cur.vol
    /\ cur.pv.phase = "Bound" /\ cur.pv.claimRef = cur.claim
    /\ cur.pvc.node # None => chose(cur.claim, cur.pvc.node)
    /\ pc = "updateVolume" => \/ claims[cur.claim] = cur.pvc
                              \/ cur.claim \notin bound /\ ~settled(cur.claim)
    /\ pc = "updateClaim" /\ cur.claim \in bound => ~settled(cur.claim)

RequestInv ==
  stage = "requestView" =>
    /\ claims = pvcs /\ vols = snapshotVols
    /\ NoWrites /\ \A c \in Claims : settled(c)
    /\ \A v \in VolNames, c \in Claims : ~refers(v, c)

ImmediateInv ==
  stage = "immediate" =>
    /\ listedClaims = pvcs /\ listedVols = snapshotVols
    /\ \A c \in todo : claims[c] = pvcs[c]
    /\ \A c \in Claims : pvcs[c].phase = "Bound" => claims[c] = pvcs[c]
    /\ \A c \in bound : pvcs[c].phase = "Bound" \/ immediate(c)
    /\ NoWrites /\ \A c \in Claims : settled(c)
    /\ \A v \in VolNames, c \in Claims : ~refers(v, c)
    /\ updating =>
         /\ pvcs[cur.claim].phase = "Pending" /\ cur.claim \notin todo
         /\ immediate(cur.claim) /\ cur.pvc.node = None
         /\ cur.vol \in Volumes \union {SimVolume(cur.claim)}
         /\ \A d \in bound : claims[d].volume = cur.vol => immediate(d)

ProvisionInv ==
  stage = "provision" =>
    /\ \A c \in Claims : sameClaim(listedClaims[c], claims[c])
    /\ \A c \in todo : /\ listedClaims[c].phase = "Pending" => claims[c].phase = "Pending"
                       /\ listedClaims[c].node # None => /\ claims[c].node # None
                                                         /\ chose(c, listedClaims[c].node)
    /\ updating => /\ cur.claim \notin todo /\ cur.vol = SimVolume(cur.claim)
                   /\ claims[cur.claim].node # None /\ cur.pvc.node # None
                   /\ pc = "updateClaim" => cur.claim \notin bound
                   /\ settled(cur.claim) => cur.pv.zone = ZoneOf[cur.pvc.node]

FinalizeInv ==
  stage = "finalize" =>
    /\ \A v \in todo, c \in Claims :
         listedVols[v] # None /\ listedVols[v].claimRef = c =>
           /\ vols[v].claimRef = c \/ disputed(v)
           /\ listedVols[v].phase # "Bound" =>
                /\ chose(c, v) /\ ~immediate(c) /\ fits(listedVols[v], claims[c])
                /\ settled(c) => c \notin bound /\ ~promised(v, c)
    /\ \A v \in todo : listedVols[v] # None
    /\ updating => /\ cur.vol \notin todo /\ chose(cur.claim, cur.vol) /\ ~immediate(cur.claim)
                   /\ vols[cur.vol].claimRef = cur.claim \/ disputed(cur.vol)
                   /\ settled(cur.claim) => ~promised(cur.vol, cur.claim)

BindInv == BoundToVolume /\ Exclusive /\ BoundRef /\ SimNew
RefInv == RefFits /\ RefOnce /\ VolumeWrites /\ NodeChosen /\ ClaimWrites /\ SnapshotBound
ListInv == NodeClass /\ ListedVolume
StageInv == RequestInv /\ ImmediateInv /\ ProvisionInv /\ FinalizeInv

VInv ==
  /\ TypeOK
  /\ pc # "populate" => BindInv /\ RefInv /\ ListInv /\ Fits /\ UpdateInv /\ StageInv
  /\ pc = "populate" => listedVols = [v \in VolNames |-> None] /\ NoWrites

-----------------------------------------------------------------------------
(* Types.                                                                  *)

LEMMA SnapshotFacts ==
  ASSUME TypeOK
  PROVE  /\ pvcs \in [Claims -> Claim]
         /\ DOMAIN input.snapshot.pvs \subseteq Volumes
         /\ input.snapshot.pvs \in [DOMAIN input.snapshot.pvs -> Volume]
         /\ DOMAIN classes \subseteq STRING
         /\ \A s \in DOMAIN classes : classes[s] \in Class
         /\ \A c \in Claims : pvcs[c].phase = "Bound" =>
              /\ pvcs[c].volume \in DOMAIN input.snapshot.pvs
              /\ input.snapshot.pvs[pvcs[c].volume].phase = "Bound"
              /\ input.snapshot.pvs[pvcs[c].volume].claimRef = c
         /\ \A c \in Claims : pvcs[c].phase = "Pending" =>
              /\ \A v \in DOMAIN input.snapshot.pvs : input.snapshot.pvs[v].claimRef # c
              /\ pvcs[c].node # None => /\ pvcs[c].class # None
                                        /\ pvcs[c].class \in DOMAIN classes
                                             => classes[pvcs[c].class].mode # "Immediate"
         /\ \A v \in DOMAIN input.snapshot.pvs :
              input.snapshot.pvs[v].claimRef \in Claims
                => pvcs[input.snapshot.pvs[v].claimRef].volume = v
<1>1. input.snapshot \in Snapshots
  BY DEF TypeOK
<1> QED BY <1>1, SnapshotAssumption DEF pvcs, classes

LEMMA NoneFacts ==
  /\ None \notin Claims /\ None \notin Nodes /\ None \notin STRING
  /\ None \notin Claim /\ None \notin Volume
BY VolumeAssumption

(* A claim is pending unless it is bound.                                  *)
LEMMA ClaimFacts ==
  ASSUME TypeOK, pc # "populate"
  PROVE  /\ claims \in [Claims -> Claim]
         /\ \A c \in Claims : claims[c] \in Claim /\ claims[c] # None
         /\ bound = {c \in Claims : claims[c].phase = "Bound"}
         /\ \A c \in Claims : c \notin bound <=> claims[c].phase = "Pending"
<1>1. claims \in [Claims -> Claim]
  BY DEF TypeOK
<1>2. \A c \in Claims : claims[c] \in Claim /\ claims[c] # None
  BY <1>1, NoneFacts
<1>3. \A c \in Claims : claims[c].phase \in {"Pending", "Bound"}
  BY <1>2 DEF Claim
<1>4. bound = {c \in Claims : claims[c].phase = "Bound"}
  BY <1>2 DEF bound
<1> QED BY <1>1, <1>2, <1>3, <1>4

LEMMA SimVolumeName == ASSUME NEW c \in Claims PROVE SimVolume(c) \in VolNames
BY DEF VolNames

(* The simulated volume of one claim is no volume of another.              *)
LEMMA SimVolumeOther ==
  ASSUME NEW c \in Claims, NEW d \in Claims, c # d
  PROVE  SimVolume(c) \notin Volumes \union {SimVolume(d)}
BY VolumeAssumption

LEMMA DecidedFacts ==
  ASSUME TypeOK, NEW c \in Claims
  PROVE  /\ decided[c] \in Seq(Nodes \union VolNames) /\ DOMAIN decided[c] = 1..Len(decided[c])
         /\ Len(decided[c]) \in Nat
<1>1. decided[c] \in Seq(Nodes \union VolNames)
  BY DEF TypeOK
<1> QED BY <1>1

(* Two decisions for a claim are more than one.                            *)
LEMMA TwoChoices ==
  ASSUME TypeOK, NEW c \in Claims, NEW x, NEW y, chose(c, x), chose(c, y), x # y
  PROVE  ~settled(c)
<1>1. DOMAIN decided[c] = 1..Len(decided[c]) /\ Len(decided[c]) \in Nat
  BY DecidedFacts
<1>2. PICK i \in DOMAIN decided[c] : decided[c][i] = x
  BY DEF chose
<1>3. PICK j \in DOMAIN decided[c] : decided[c][j] = y
  BY DEF chose
<1>4. i # j /\ i \in 1..Len(decided[c]) /\ j \in 1..Len(decided[c])
  BY <1>1, <1>2, <1>3
<1> QED BY <1>1, <1>4 DEF settled

LEMMA NodeAndVolume ==
  ASSUME TypeOK, NEW c \in Claims, NEW n \in Nodes, NEW v \in VolNames, chose(c, n), chose(c, v)
  PROVE  ~settled(c)
<1>1. n # v
  BY VolumeAssumption
<1> QED BY <1>1, TwoChoices

(* A simulated volume that was chosen for another claim is disputed.       *)
LEMMA Disputed ==
  ASSUME NEW c \in Claims, NEW d \in Claims, c # d, chose(c, SimVolume(d))
  PROVE  disputed(SimVolume(d))
BY DEF disputed, chose

LEMMA DecidedSame ==
  ASSUME decided' = decided
  PROVE  /\ \A c : settled(c)' <=> settled(c)
         /\ \A c, x : chose(c, x)' <=> chose(c, x)
         /\ \A v : disputed(v)' <=> disputed(v)
BY DEF settled, chose, disputed

(* The volumes of the snapshot in the view.                                *)
LEMMA SnapshotVolsFacts ==
  ASSUME TypeOK
  PROVE  /\ snapshotVols \in [VolNames -> Volume \union {None}]
         /\ \A c \in Claims : snapshotVols[SimVolume(c)] = None
         /\ \A v \in DOMAIN input.snapshot.pvs :
              /\ v \in VolNames /\ snapshotVols[v] # None
              /\ snapshotVols[v].phase = input.snapshot.pvs[v].phase
              /\ snapshotVols[v].claimRef = input.snapshot.pvs[v].claimRef
         /\ \A v \in VolNames : snapshotVols[v] # None => v \in DOMAIN input.snapshot.pvs
         /\ \A v \in VolNames, c \in Claims :
              snapshotVols[v] # None /\ snapshotVols[v].claimRef = c => pvcs[c].phase = "Bound"
<1> DEFINE pvs == input.snapshot.pvs
<1>1. pvs \in [DOMAIN pvs -> Volume] /\ DOMAIN pvs \subseteq Volumes
  BY SnapshotFacts
<1>2. \A v \in DOMAIN pvs : /\ AsPV(pvs[v]) \in Volume /\ AsPV(pvs[v]).phase = pvs[v].phase
                            /\ AsPV(pvs[v]).claimRef = pvs[v].claimRef
  <2> TAKE v \in DOMAIN pvs
  <2>1. pvs[v] \in Volume
    BY <1>1
  <2> HIDE DEF pvs
  <2> QED BY <2>1 DEF AsPV, Volume, VolumeModes
<1>3. DOMAIN pvs \subseteq VolNames
  BY <1>1 DEF VolNames
<1>4. \A v \in VolNames : snapshotVols[v] = IF v \in DOMAIN pvs THEN AsPV(pvs[v]) ELSE None
  BY DEF snapshotVols
<1>5. snapshotVols \in [VolNames -> Volume \union {None}]
  BY <1>2, <1>4 DEF snapshotVols
<1>6. \A c \in Claims : SimVolume(c) \notin DOMAIN pvs
  BY <1>1, VolumeAssumption
<1>7. \A c \in Claims : snapshotVols[SimVolume(c)] = None
  BY <1>4, <1>6, SimVolumeName
<1>8. \A v \in DOMAIN pvs : /\ v \in VolNames /\ snapshotVols[v] # None
                            /\ snapshotVols[v].phase = pvs[v].phase
                            /\ snapshotVols[v].claimRef = pvs[v].claimRef
  BY <1>2, <1>3, <1>4, NoneFacts
<1>9. \A v \in VolNames : snapshotVols[v] # None => v \in DOMAIN pvs
  BY <1>4
<1>10. ASSUME NEW v \in VolNames, NEW c \in Claims, snapshotVols[v] # None,
              snapshotVols[v].claimRef = c
       PROVE  pvcs[c].phase = "Bound"
  <2>1. v \in DOMAIN pvs /\ pvs[v].claimRef = c
    BY <1>8, <1>9, <1>10
  <2>2. pvcs[c].phase # "Pending"
    BY <2>1, SnapshotFacts
  <2>3. pvcs[c] \in Claim
    BY SnapshotFacts
  <2> QED BY <2>2, <2>3 DEF Claim
<1> QED BY <1>5, <1>7, <1>8, <1>9, <1>10

LEMMA BindWithFacts ==
  ASSUME NEW c \in Claims, NEW pvc \in Claim, NEW v \in VolNames, NEW pv \in Volume,
         NEW next \in {"immediate", "provision", "finalize"}, bindWith(c, pvc, v, pv, next)
  PROVE  /\ pc' = "updateClaim"
         /\ cur' \in [claim : Claims, vol : VolNames, pvc : Claim, pv : Volume,
                      next : {"immediate", "provision", "finalize"}]
         /\ cur'.claim = c /\ cur'.vol = v /\ cur'.next = next
         /\ sameClaim(cur'.pvc, pvc) /\ cur'.pvc.node = pvc.node
         /\ cur'.pvc.phase = "Bound" /\ cur'.pvc.volume = v
         /\ sameVolume(cur'.pv, pv) /\ cur'.pv.phase = "Bound" /\ cur'.pv.claimRef = c
<1> DEFINE p == [pvc EXCEPT !.volume = v, !.phase = "Bound"]
           q == [pv EXCEPT !.claimRef = c, !.phase = "Bound"]
<1>1. p \in Claim /\ sameClaim(p, pvc) /\ p.node = pvc.node /\ p.phase = "Bound" /\ p.volume = v
  BY DEF Claim, sameClaim
<1>2. q \in Volume /\ sameVolume(q, pv) /\ q.phase = "Bound" /\ q.claimRef = c
  BY DEF Volume, sameVolume
<1>3. cur' = [claim |-> c, vol |-> v, next |-> next, pvc |-> p, pv |-> q] /\ pc' = "updateClaim"
  BY DEF bindWith
<1> HIDE DEF p, q
<1> QED BY <1>1, <1>2, <1>3

(* A volume of the claim's size, class and mode is new if there was none.  *)
LEMMA SimulatedFacts ==
  ASSUME NEW c \in Claims, NEW pvc \in Claim, pvc.class # None, NEW zone \in STRING,
         vols[SimVolume(c)] = None
  PROVE  LET sim == simulatedVolume(c, pvc, zone)
         IN  /\ sim \in Volume /\ sim.phase = "Available" /\ sim.claimRef = None
             /\ sim.zone = zone /\ fits(sim, pvc)
<1>1. pvc.size \in Nat /\ pvc.class \in STRING /\ pvc.mode \in VolumeModes
  BY DEF Claim
<1>2. simulatedVolume(c, pvc, zone) =
        [capacity |-> pvc.size, class |-> pvc.class, mode |-> pvc.mode,
         phase |-> "Available", claimRef |-> None, zone |-> zone]
  BY DEF simulatedVolume
<1> QED BY <1>1, <1>2 DEF Volume, fits

(* Facts about the binding under way, by their types.                      *)
LEMMA CurFacts ==
  ASSUME TypeOK, updating
  PROVE  /\ cur.claim \in Claims /\ cur.vol \in VolNames /\ cur.pvc \in Claim
         /\ cur.pv \in Volume /\ cur.next \in {"immediate", "provision", "finalize"}
         /\ cur \in [claim : Claims, vol : VolNames, pvc : Claim, pv : Volume,
                     next : {"immediate", "provision", "finalize"}]
         /\ stage = cur.next /\ pc # "populate"
<1>1. cur \in [claim : Claims, vol : VolNames, pvc : Claim, pv : Volume,
              next : {"immediate", "provision", "finalize"}]
  BY DEF TypeOK, updating
<1> QED BY <1>1 DEF updating, stage
-----------------------------------------------------------------------------
(* Steps of a round between two bindings: no claim is bound, a claim gets  *)
(* the default class in Immediate mode, and a volume is at most created.   *)

GrowStep(c) ==
  /\ ~updating /\ pc # "populate" /\ pc' \notin {"populate", "updateVolume"}
  /\ UNCHANGED <<input, decided, claimWrite, volWrite>>
  /\ claims' \in [Claims -> Claim]
  /\ \A d \in Claims : claims'[d].phase = claims[d].phase /\ claims'[d].node = claims[d].node
  /\ \/ claims' = claims
     \/ /\ NoWrites /\ \A d \in Claims : settled(d)
        /\ \A v \in VolNames, d \in Claims : ~refers(v, d)
        /\ \A d \in Claims : \/ claims'[d] = claims[d]
                             \/ d \notin bound /\ vols[SimVolume(d)] = None
  /\ \A v \in VolNames :
       \/ vols'[v] = vols[v]
       \/ /\ vols[v] = None /\ vols'[v] # None
          /\ vols'[v].phase = "Available" /\ vols'[v].claimRef = None
          /\ c \in Claims /\ v = SimVolume(c) /\ pc' = "updateClaim" /\ cur'.claim = c
          /\ fits(vols'[v], claims'[c])

LEMMA GrowKeeps ==
  ASSUME VInv, TypeOK', NEW c, GrowStep(c)
  PROVE  /\ bound' = bound
         /\ \A v \in VolNames, d \in Claims : refers(v, d)' <=> refers(v, d)
         /\ \A d \in bound : immediate(d)' <=> immediate(d)
         /\ (BindInv /\ RefInv /\ Fits)'
<1>1. TypeOK /\ pc # "populate" /\ ~updating /\ pc' # "populate"
  BY DEF VInv, GrowStep
<1>2. BindInv /\ RefInv /\ Fits
  BY <1>1 DEF VInv
<1>3. UNCHANGED <<input, decided, claimWrite, volWrite>>
  BY DEF GrowStep
<1>4. \A d \in Claims : claims[d] # None /\ claims'[d] # None
  BY <1>1, ClaimFacts, NoneFacts DEF GrowStep
<1>5. bound' = bound /\ bound \subseteq Claims
  BY <1>4 DEF bound, GrowStep
<1>6. \A v \in VolNames, d \in Claims : refers(v, d)' <=> refers(v, d)
  BY NoneFacts DEF refers, GrowStep
<1>7. \A d \in bound : claims'[d] = claims[d]
  BY <1>5 DEF GrowStep
<1>8. \A d \in bound : immediate(d)' <=> immediate(d)
  BY <1>3, <1>7 DEF immediate, classes
<1>9. \A v : contended(v)' <=> contended(v)
  BY <1>5, <1>7, <1>8 DEF contended
<1>10. /\ \A d : settled(d)' <=> settled(d)
       /\ \A d, x : chose(d, x)' <=> chose(d, x)
       /\ \A v : disputed(v)' <=> disputed(v)
  BY <1>3, DecidedSame
<1>11. pc # "updateVolume" /\ pc # "updateClaim" /\ pc' # "updateVolume"
  BY <1>1 DEF updating, GrowStep
<1>12. \A v \in VolNames : vols[v] # None => vols'[v] = vols[v]
  BY DEF GrowStep
<1>13. pvcs' = pvcs /\ \A v, d : promised(v, d)' <=> promised(v, d)
  BY <1>3 DEF pvcs, promised
<1>14. ASSUME NEW d \in Claims
       PROVE  \/ claims'[d] = claims[d]
              \/ /\ d \notin bound /\ vols[SimVolume(d)] = None
                 /\ settled(d) /\ claimWrite[d] = None
                 /\ \A v \in VolNames : ~refers(v, d) /\ ~promised(v, d)
  BY <1>14 DEF GrowStep, NoWrites, promised
<1>15. BoundToVolume'
  <2>0. BoundToVolume
    BY <1>2 DEF BindInv
  <2> SUFFICES ASSUME NEW d \in bound, NEW v, v = claims[d].volume
               PROVE  /\ v \in VolNames /\ vols'[v] # None
                      /\ v \in Volumes \union {SimVolume(d)} \/ chose(d, v)
                      /\ \/ contended(v) \/ disputed(v)
                         \/ vols'[v].claimRef = d /\ (settled(d) => vols'[v].phase = "Bound")
    BY <1>5, <1>7, <1>9, <1>10 DEF BoundToVolume
  <2>1. v \in VolNames /\ vols[v] # None
    BY <2>0 DEF BoundToVolume
  <2>2. vols'[v] = vols[v]
    BY <2>1, <1>12
  <2> QED BY <2>0, <2>1, <2>2, <1>11 DEF BoundToVolume
<1>16. Exclusive'
  <2>1. Exclusive
    BY <1>2 DEF BindInv
  <2> QED BY <2>1, <1>5, <1>7, <1>9, <1>10 DEF Exclusive
<1>17. BoundRef'
  <2>0. BoundRef /\ SnapshotBound
    BY <1>2 DEF BindInv, RefInv
  <2> SUFFICES ASSUME NEW v \in VolNames, NEW d \in Claims,
                      vols'[v] # None, vols'[v].phase = "Bound", vols'[v].claimRef = d
               PROVE  /\ d \in bound \/ ~settled(d)
                      /\ pvcs[d].phase = "Bound" \/ fits(vols'[v], claims'[d])
    BY <1>5, <1>10, <1>13 DEF BoundRef
  <2>1. vols'[v] = vols[v]
    BY DEF GrowStep
  <2>2. /\ d \in bound \/ ~settled(d)
        /\ pvcs[d].phase = "Bound" \/ fits(vols[v], claims[d])
    BY <2>0, <2>1 DEF BoundRef
  <2>3. claims'[d] = claims[d]
    BY <2>2, <1>14
  <2> QED BY <2>1, <2>2, <2>3
<1>18. SimNew'
  <2>0. SimNew
    BY <1>2 DEF BindInv
  <2> SUFFICES ASSUME NEW d \in Claims, NEW w, w = SimVolume(d), vols'[w] # None
               PROVE  /\ d \in bound \/ ~settled(d) \/ (pc' = "updateClaim" /\ cur'.claim = d)
                      /\ fits(vols'[w], claims'[d])
    BY <1>5, <1>10 DEF SimNew
  <2>1. w \in VolNames
    BY SimVolumeName
  <2>2. CASE vols[w] = None
    <3>1. /\ c \in Claims /\ SimVolume(d) = SimVolume(c) /\ pc' = "updateClaim" /\ cur'.claim = c
          /\ fits(vols'[w], claims'[c])
      BY <2>1, <2>2 DEF GrowStep
    <3>2. c = d
      BY <3>1, VolumeAssumption
    <3> QED BY <3>1, <3>2
  <2>3. CASE vols[w] # None
    <3>1. vols'[w] = vols[w] /\ claims'[d] = claims[d]
      BY <2>1, <2>3, <1>12, <1>14
    <3> QED BY <3>1, <2>0, <2>3, <1>11 DEF SimNew
  <2> QED BY <2>2, <2>3
<1>19. RefFits'
  <2> SUFFICES ASSUME NEW v \in VolNames, NEW d \in Claims, refers(v, d) \/ promised(v, d)
               PROVE  (chose(d, v) /\ ~immediate(d) /\ fits(vols[v], claims[d]))'
    BY <1>6, <1>13 DEF RefFits
  <2>1. chose(d, v) /\ ~immediate(d) /\ fits(vols[v], claims[d])
    BY <1>2 DEF RefInv, RefFits
  <2>2. claims'[d] = claims[d]
    BY <1>14
  <2>3. vols'[v] = vols[v]
    BY <1>2, <1>12 DEF RefInv, VolumeWrites, refers, promised
  <2> QED BY <2>1, <2>2, <2>3, <1>3, <1>10 DEF immediate, classes
<1>20. RefOnce'
  <2> SUFFICES ASSUME NEW v \in VolNames, NEW d \in Claims, settled(d)
               PROVE  /\ promised(v, d) => d \notin bound /\ vols'[v].claimRef # d
                      /\ ~(refers(v, d) /\ d \in bound)
    BY <1>5, <1>6, <1>10, <1>13 DEF RefOnce
  <2>1. /\ promised(v, d) => d \notin bound /\ vols[v].claimRef # d
        /\ ~(refers(v, d) /\ d \in bound)
    BY <1>2, <1>11 DEF RefInv, RefOnce
  <2>2. promised(v, d) => vols'[v] = vols[v]
    BY <1>2, <1>12 DEF RefInv, VolumeWrites, promised
  <2> QED BY <2>1, <2>2
<1>21. VolumeWrites'
  <2>1. \A v \in VolNames : volWrite[v] # None => vols'[v] = vols[v]
    BY <1>2, <1>12 DEF RefInv, VolumeWrites
  <2> QED BY <2>1, <1>2, <1>3, <1>10 DEF RefInv, VolumeWrites
<1>22. NodeChosen'
  <2>1. \A d \in Claims : claims'[d].node = claims[d].node
    BY DEF GrowStep
  <2> QED BY <2>1, <1>2, <1>10 DEF RefInv, NodeChosen
<1>23. ClaimWrites'
  <2> SUFFICES ASSUME NEW d \in Claims, claimWrite[d] # None
               PROVE  (/\ chose(d, claimWrite[d].node) /\ claimWrite[d].node # None
                       /\ claimWrite[d].phase = "Pending" /\ claimWrite[d].class # None
                       /\ ~immediate(d) /\ sameClaim(claimWrite[d], claims[d])
                       /\ settled(d) => d \notin bound /\ claims[d].node = None)'
    BY <1>3 DEF ClaimWrites
  <2>1. claims'[d] = claims[d]
    BY <1>14
  <2>2. /\ chose(d, claimWrite[d].node) /\ claimWrite[d].node # None
        /\ claimWrite[d].phase = "Pending" /\ claimWrite[d].class # None
        /\ ~immediate(d) /\ sameClaim(claimWrite[d], claims[d])
        /\ settled(d) => d \notin bound /\ claims[d].node = None
    BY <1>2 DEF RefInv, ClaimWrites
  <2> QED BY <2>1, <2>2, <1>3, <1>5, <1>10 DEF immediate, classes
<1>24. SnapshotBound'
  BY <1>2, <1>3, <1>5, <1>13 DEF RefInv, SnapshotBound
<1>25. Fits'
  <2> SUFFICES ASSUME NEW d \in bound, pvcs[d].phase = "Pending"
               PROVE  (/\ fits(vols[claims[d].volume], claims[d])
                       /\ settled(d) /\ claims[d].node # None
                            => vols[claims[d].volume].zone = ZoneOf[claims[d].node])'
    BY <1>5, <1>13 DEF Fits
  <2>1. vols'[claims[d].volume] = vols[claims[d].volume] /\ claims'[d] = claims[d]
    <3>1. claims[d].volume \in VolNames /\ vols[claims[d].volume] # None
      BY <1>2 DEF BindInv, BoundToVolume
    <3> QED BY <3>1, <1>7, <1>12
  <2>2. /\ fits(vols[claims[d].volume], claims[d])
        /\ settled(d) /\ claims[d].node # None
             => vols[claims[d].volume].zone = ZoneOf[claims[d].node]
    BY <1>2 DEF Fits
  <2> QED BY <2>1, <2>2, <1>10 DEF fits
<1> QED BY <1>5, <1>6, <1>8, <1>15, <1>16, <1>17, <1>18, <1>19, <1>20, <1>21, <1>22, <1>23,
           <1>24, <1>25
        DEF BindInv, RefInv
-----------------------------------------------------------------------------
(* Steps of the scheduler.                                                 *)

(* A decision for a pending claim: the copy of the claim or of the volume  *)
(* is kept to be written.                                                  *)
DecideStep(c, x) ==
  /\ running /\ claims[c].phase = "Pending" /\ ~immediate(c)
  /\ decided' = [decided EXCEPT ![c] = Append(@, x)]
  /\ UNCHANGED <<input, claims, vols, pc, todo, listedClaims, listedVols, cur, err>>
  /\ claimWrite' \in [Claims -> Claim \union {None}]
  /\ volWrite' \in [VolNames -> Volume \union {None}]
  /\ \A d \in Claims :
       \/ claimWrite'[d] = claimWrite[d]
       \/ /\ d = c /\ claimWrite'[d].node = x /\ x # None
          /\ claimWrite'[d].phase = "Pending" /\ claimWrite'[d].class # None
          /\ sameClaim(claimWrite'[d], claims[d])
  /\ \A v \in VolNames :
       \/ volWrite'[v] = volWrite[v]
       \/ /\ v = x /\ vols[v] # None /\ sameVolume(volWrite'[v], vols[v])
          /\ volWrite'[v].claimRef = c /\ vols[v].claimRef \in {None, c}
          /\ volWrite'[v].phase = vols[v].phase
          /\ vols[v].claimRef = None => vols[v].phase # "Bound" /\ fits(vols[v], claims[c])

LEMMA DecideFacts ==
  ASSUME VInv, NEW c \in Claims, NEW x \in Nodes \union VolNames, DecideStep(c, x)
  PROVE  /\ TypeOK /\ pc # "populate" /\ stage' = stage /\ (updating' <=> updating)
         /\ c \in Claims \ bound /\ stage \notin {"requestView", "immediate"}
         /\ BindInv /\ RefInv /\ ListInv /\ Fits /\ UpdateInv /\ StageInv
         /\ decided' \in [Claims -> Seq(Nodes \union VolNames)]
         /\ \A d \in Claims : settled(d)' => settled(d)
         /\ settled(c)' => \A y : ~chose(c, y)
         /\ \A d \in Claims : \A y : chose(d, y) => chose(d, y)'
         /\ \A v : disputed(v) => disputed(v)'
         /\ chose(c, x)'
         /\ updating => cur.claim \in Claims /\ cur.vol \in VolNames
<1>1. TypeOK /\ pc # "populate"
  BY DEF VInv, DecideStep, running
<1>2. BindInv /\ RefInv /\ ListInv /\ Fits /\ UpdateInv /\ StageInv
  BY <1>1 DEF VInv
<1>3. stage' = stage /\ (updating' <=> updating)
  BY DEF DecideStep, stage, updating
<1>4. stage \notin {"requestView", "immediate"}
  BY <1>1, CurFacts DEF DecideStep, running, stage, updating
<1>5. c \in Claims \ bound
  BY <1>1, ClaimFacts DEF DecideStep
<1>6. decided \in [Claims -> Seq(Nodes \union VolNames)]
  BY <1>1 DEF TypeOK
<1>7. decided[c] \in Seq(Nodes \union VolNames)
  BY <1>6
<1>8. /\ Append(decided[c], x) \in Seq(Nodes \union VolNames)
      /\ Len(Append(decided[c], x)) = Len(decided[c]) + 1 /\ Len(decided[c]) \in Nat
      /\ DOMAIN decided[c] = 1..Len(decided[c])
      /\ DOMAIN Append(decided[c], x) = 1..(Len(decided[c]) + 1)
      /\ \A i \in 1..Len(decided[c]) : Append(decided[c], x)[i] = decided[c][i]
      /\ Append(decided[c], x)[Len(decided[c]) + 1] = x
  BY <1>7
<1>9. /\ decided'[c] = Append(decided[c], x)
      /\ \A d \in Claims \ {c} : decided'[d] = decided[d]
      /\ decided' \in [Claims -> Seq(Nodes \union VolNames)]
  BY <1>6, <1>8 DEF DecideStep
<1>10. \A d \in Claims : settled(d)' => settled(d)
  <2>1. \A d \in Claims \ {c} : settled(d)' => settled(d)
    BY <1>9 DEF settled
  <2>2. settled(c)' => settled(c)
    BY <1>8, <1>9 DEF settled
  <2> QED BY <2>1, <2>2
<1>11. settled(c)' => \A y : ~chose(c, y)
  <2> HAVE settled(c)'
  <2>1. Len(decided[c]) = 0
    BY <1>8, <1>9 DEF settled
  <2> QED BY <2>1, <1>8 DEF chose
<1>12. \A d \in Claims : \A y : chose(d, y) => chose(d, y)'
  <2>1. \A i \in DOMAIN decided[c] : i \in DOMAIN decided'[c] /\ decided'[c][i] = decided[c][i]
    BY <1>8, <1>9
  <2> QED BY <2>1, <1>9 DEF chose
<1>13. \A v : disputed(v) => disputed(v)'
  BY <1>12 DEF disputed, chose
<1>14. chose(c, x)'
  BY <1>8, <1>9 DEF chose
<1> QED BY <1>1, <1>2, <1>3, <1>4, <1>5, <1>9, <1>10, <1>11, <1>12, <1>13, <1>14, CurFacts

LEMMA DecideKeeps ==
  ASSUME VInv, NEW c \in Claims, NEW x \in Nodes \union VolNames, DecideStep(c, x)
  PROVE  VInv'
<1>1. /\ TypeOK /\ pc # "populate" /\ stage' = stage /\ (updating' <=> updating)
      /\ c \in Claims \ bound /\ stage \notin {"requestView", "immediate"}
      /\ BindInv /\ RefInv /\ ListInv /\ Fits /\ UpdateInv /\ StageInv
      /\ decided' \in [Claims -> Seq(Nodes \union VolNames)]
  BY DecideFacts
<1>2. /\ \A d \in Claims : settled(d)' => settled(d)
      /\ settled(c)' => \A y : ~chose(c, y)
      /\ \A d \in Claims : \A y : chose(d, y) => chose(d, y)'
      /\ \A v : disputed(v) => disputed(v)'
      /\ chose(c, x)'
      /\ updating => cur.claim \in Claims /\ cur.vol \in VolNames
  BY DecideFacts
<1>3. UNCHANGED <<input, claims, vols, pc, todo, listedClaims, listedVols, cur, err>>
  BY DEF DecideStep
<1>4. TypeOK'
  BY <1>1, <1>3 DEF TypeOK, stage, DecideStep
<1>5. /\ bound' = bound /\ bound \subseteq Claims /\ pvcs' = pvcs
      /\ \A d : immediate(d)' <=> immediate(d)
      /\ \A v : contended(v)' <=> contended(v)
      /\ \A v, d : refers(v, d)' <=> refers(v, d)
  BY <1>3 DEF bound, pvcs, immediate, classes, contended, refers
<1>6. ~immediate(c) /\ pvcs[c].phase # "Bound"
  BY <1>1 DEF DecideStep, RefInv, SnapshotBound
<1>7. \A v \in VolNames, d \in Claims :
        promised(v, d)' => promised(v, d) \/ (d = c /\ v = x)
  BY DEF DecideStep, promised
<1>8. ASSUME NEW v \in VolNames, volWrite'[v] # volWrite[v]
      PROVE  /\ v = x /\ vols[v] # None /\ sameVolume(volWrite'[v], vols[v])
             /\ volWrite'[v].claimRef = c /\ vols[v].claimRef \in {None, c}
             /\ fits(vols[v], claims[c])
             /\ volWrite'[v].phase = "Bound" => ~settled(c)'
             /\ settled(c)' => vols[v].claimRef # c
  <2>1. /\ v = x /\ vols[v] # None /\ sameVolume(volWrite'[v], vols[v])
        /\ volWrite'[v].claimRef = c /\ vols[v].claimRef \in {None, c}
        /\ volWrite'[v].phase = vols[v].phase
        /\ vols[v].claimRef = None => vols[v].phase # "Bound" /\ fits(vols[v], claims[c])
    BY <1>8 DEF DecideStep
  <2>2. CASE vols[v].claimRef = None
    BY <2>1, <2>2, NoneFacts
  <2>3. CASE vols[v].claimRef = c /\ vols[v].phase = "Bound"
    <3>1. ~settled(c) /\ fits(vols[v], claims[c])
      BY <2>1, <2>3, <1>1, <1>6 DEF BindInv, BoundRef
    <3> QED BY <2>1, <3>1, <1>2
  <2>4. CASE vols[v].claimRef = c /\ vols[v].phase # "Bound"
    <3>1. chose(c, v) /\ fits(vols[v], claims[c])
      BY <2>1, <2>4, <1>1 DEF RefInv, RefFits, refers
    <3> QED BY <2>1, <2>4, <3>1, <1>2
  <2> QED BY <2>1, <2>2, <2>3, <2>4
<1>9. ASSUME NEW d \in Claims, claimWrite'[d] # claimWrite[d]
      PROVE  /\ d = c /\ claimWrite'[c].node = x /\ x # None
             /\ claimWrite'[c].phase = "Pending" /\ claimWrite'[c].class # None
             /\ sameClaim(claimWrite'[c], claims[c])
             /\ settled(c)' => claims[c].node = None
  <2>1. settled(c)' => claims[c].node = None
    BY <1>1, <1>2 DEF RefInv, NodeChosen
  <2> QED BY <2>1, <1>9 DEF DecideStep
<1>10. BindInv'
  <2>0. BoundToVolume /\ Exclusive /\ BoundRef /\ SimNew
    BY <1>1 DEF BindInv
  <2>1. BoundToVolume'
    <3> SUFFICES ASSUME NEW d \in bound, NEW v, v = claims[d].volume
                 PROVE  /\ v \in VolNames /\ vols[v] # None
                        /\ v \in Volumes \union {SimVolume(d)} \/ chose(d, v)'
                        /\ \/ contended(v) \/ disputed(v)'
                           \/ pc = "updateVolume" /\ cur.claim = d
                           \/ vols[v].claimRef = d /\ (settled(d)' => vols[v].phase = "Bound")
      BY <1>3, <1>5 DEF BoundToVolume
    <3> QED BY <2>0, <1>2, <1>5 DEF BoundToVolume
  <2>2. Exclusive'
    BY <2>0, <1>2, <1>3, <1>5 DEF Exclusive
  <2>3. BoundRef'
    BY <2>0, <1>2, <1>3, <1>5 DEF BoundRef, fits
  <2>4. SimNew'
    BY <2>0, <1>2, <1>3, <1>5 DEF SimNew, fits
  <2> QED BY <2>1, <2>2, <2>3, <2>4 DEF BindInv
<1>11. RefFits'
  <2> SUFFICES ASSUME NEW v \in VolNames, NEW d \in Claims, refers(v, d) \/ promised(v, d)'
               PROVE  chose(d, v)' /\ ~immediate(d) /\ fits(vols[v], claims[d])
    BY <1>3, <1>5 DEF RefFits, fits
  <2>1. CASE refers(v, d) \/ promised(v, d)
    BY <2>1, <1>1, <1>2 DEF RefInv, RefFits
  <2>2. CASE ~refers(v, d) /\ ~promised(v, d)
    <3>1. volWrite'[v] # volWrite[v] /\ d = c
      BY <2>2, <1>7 DEF promised
    <3> QED BY <3>1, <1>2, <1>6, <1>8
  <2> QED BY <2>1, <2>2
<1>12. RefOnce'
  <2> SUFFICES ASSUME NEW v \in VolNames, NEW d \in Claims, settled(d)'
               PROVE  /\ promised(v, d)' => d \notin bound /\ vols[v].claimRef # d
                      /\ refers(v, d) /\ d \in bound
                           => pc = "updateVolume" /\ cur.claim = d /\ cur.vol = v
    BY <1>3, <1>5 DEF RefOnce
  <2>1. /\ promised(v, d) => d \notin bound /\ vols[v].claimRef # d
        /\ refers(v, d) /\ d \in bound
             => pc = "updateVolume" /\ cur.claim = d /\ cur.vol = v
    BY <1>1, <1>2 DEF RefInv, RefOnce
  <2>2. ASSUME promised(v, d)', ~promised(v, d)
        PROVE  d \notin bound /\ vols[v].claimRef # d
    <3>1. volWrite'[v] # volWrite[v] /\ d = c
      BY <2>2, <1>7 DEF promised
    <3> QED BY <3>1, <1>1, <1>8
  <2> QED BY <2>1, <2>2
<1>13. VolumeWrites'
  <2> SUFFICES ASSUME NEW v \in VolNames, volWrite'[v] # None
               PROVE  /\ vols[v] # None /\ sameVolume(volWrite'[v], vols[v])
                      /\ volWrite'[v].claimRef \in Claims
                      /\ vols[v].claimRef \in {None, volWrite'[v].claimRef} \/ disputed(v)'
                      /\ volWrite'[v].phase = "Bound" => ~settled(volWrite[v].claimRef)'
    BY <1>3 DEF VolumeWrites, sameVolume
  <2>1. CASE volWrite'[v] = volWrite[v]
    <3>1. /\ vols[v] # None /\ sameVolume(volWrite[v], vols[v]) /\ volWrite[v].claimRef \in Claims
          /\ vols[v].claimRef \in {None, volWrite[v].claimRef} \/ disputed(v)
          /\ volWrite[v].phase = "Bound" => ~settled(volWrite[v].claimRef)
      BY <2>1, <1>1 DEF RefInv, VolumeWrites
    <3>2. settled(volWrite[v].claimRef)' => settled(volWrite[v].claimRef)
      BY <3>1, <2>1, <1>2 DEF settled
    <3> QED BY <2>1, <3>1, <3>2, <1>2
  <2>2. CASE volWrite'[v] # volWrite[v]
    <3>1. settled(volWrite[v].claimRef)' <=> settled(c)'
      BY <2>2, <1>8 DEF settled
    <3> QED BY <2>2, <3>1, <1>8
  <2> QED BY <2>1, <2>2
<1>14. NodeChosen' /\ SnapshotBound'
  <2>1. NodeChosen'
    BY <1>1, <1>2, <1>3 DEF RefInv, NodeChosen
  <2>2. SnapshotBound'
    <3> SUFFICES ASSUME NEW d \in Claims, pvcs[d].phase = "Bound"
                 PROVE  d \in bound /\ claimWrite'[d] = None
      BY <1>5 DEF SnapshotBound
    <3>1. d \in bound /\ claimWrite[d] = None /\ d # c
      BY <1>1, <1>6 DEF RefInv, SnapshotBound
    <3> QED BY <3>1, <1>9
  <2> QED BY <2>1, <2>2
<1>15. ClaimWrites'
  <2> SUFFICES ASSUME NEW d \in Claims, claimWrite'[d] # None
               PROVE  /\ chose(d, claimWrite[d].node)' /\ claimWrite'[d].node # None
                      /\ claimWrite'[d].phase = "Pending" /\ claimWrite'[d].class # None
                      /\ ~immediate(d) /\ sameClaim(claimWrite'[d], claims[d])
                      /\ settled(d)' => d \notin bound /\ claims[d].node = None
    BY <1>3, <1>5 DEF ClaimWrites, sameClaim
  <2>1. CASE claimWrite'[d] = claimWrite[d]
    <3>1. /\ chose(d, claimWrite[d].node) /\ claimWrite[d].node # None
          /\ claimWrite[d].phase = "Pending" /\ claimWrite[d].class # None
          /\ ~immediate(d) /\ sameClaim(claimWrite[d], claims[d])
          /\ settled(d) => d \notin bound /\ claims[d].node = None
      BY <2>1, <1>1 DEF RefInv, ClaimWrites
    <3>2. chose(d, claimWrite[d].node)'
      <4>1. PICK y : y = claimWrite[d].node
        OBVIOUS
      <4>2. chose(d, y)'
        BY <3>1, <4>1, <1>2
      <4> QED BY <2>1, <4>1, <4>2 DEF chose
    <3> QED BY <2>1, <3>1, <3>2, <1>2
  <2>2. CASE claimWrite'[d] # claimWrite[d]
    <3>1. chose(d, claimWrite[d].node)'
      BY <2>2, <1>2, <1>9 DEF chose
    <3> QED BY <2>2, <3>1, <1>1, <1>6, <1>9
  <2> QED BY <2>1, <2>2
<1>16. ListInv' /\ Fits'
  <2>1. NodeClass' /\ ListedVolume'
    BY <1>1, <1>3, <1>5 DEF ListInv, NodeClass, ListedVolume, sameVolume
  <2>2. Fits'
    BY <1>1, <1>2, <1>3, <1>5 DEF Fits, fits
  <2> QED BY <2>1, <2>2 DEF ListInv
<1>17. UpdateInv'
  <2> SUFFICES ASSUME updating PROVE UpdateInv'
    BY <1>1 DEF UpdateInv
  <2>0. PICK d, n : d \in Claims /\ d = cur.claim /\ n = cur.pvc.node
    BY <1>2
  <2>1. n # None => chose(d, n)'
    BY <2>0, <1>1, <1>2 DEF UpdateInv
  <2>2. cur.pvc.node # None => chose(cur.claim, cur.pvc.node)'
    BY <2>0, <2>1, <1>3 DEF chose
  <2>3. settled(cur.claim)' => settled(cur.claim)
    BY <2>0, <1>2, <1>3 DEF settled
  <2> QED BY <2>2, <2>3, <1>1, <1>3, <1>5 DEF UpdateInv, sameVolume, sameClaim, fits
<1>18. ProvisionInv'
  <2> SUFFICES ASSUME stage = "provision" PROVE ProvisionInv'
    BY <1>1 DEF ProvisionInv
  <2>1. ProvisionInv /\ todo \subseteq Claims
    BY <1>1 DEF StageInv, TypeOK
  <2>2. ASSUME NEW d \in todo, listedClaims[d].node # None
        PROVE  chose(d, listedClaims[d].node)'
    <3>1. PICK n : n = listedClaims[d].node
      OBVIOUS
    <3>2. chose(d, n)'
      BY <2>1, <2>2, <3>1, <1>2 DEF ProvisionInv
    <3> QED BY <3>1, <3>2, <1>3 DEF chose
  <2>3. updating => (settled(cur.claim)' => settled(cur.claim))
    <3> SUFFICES ASSUME updating, NEW d \in Claims, d = cur.claim
                 PROVE  settled(cur.claim)' => settled(cur.claim)
      BY <1>2
    <3>1. settled(d)' => settled(d)
      BY <1>2
    <3> QED BY <3>1, <1>3 DEF settled
  <2> QED BY <2>1, <2>2, <2>3, <1>1, <1>3, <1>5 DEF ProvisionInv, chose, sameClaim
<1>19. FinalizeInv'
  <2> SUFFICES ASSUME stage = "finalize" PROVE FinalizeInv'
    BY <1>1 DEF FinalizeInv
  <2>0. FinalizeInv /\ todo \subseteq VolNames
    BY <1>1 DEF StageInv, TypeOK
  <2>1. ASSUME NEW v \in todo, NEW d \in Claims, listedVols[v] # None, listedVols[v].claimRef = d
        PROVE  /\ vols[v].claimRef = d \/ disputed(v)'
               /\ listedVols[v].phase # "Bound" =>
                    /\ chose(d, v)' /\ ~immediate(d) /\ fits(listedVols[v], claims[d])
                    /\ settled(d)' => d \notin bound /\ ~promised(v, d)'
    <3>1. /\ vols[v].claimRef = d \/ disputed(v)
          /\ listedVols[v].phase # "Bound" =>
               /\ chose(d, v) /\ ~immediate(d) /\ fits(listedVols[v], claims[d])
               /\ settled(d) => d \notin bound /\ ~promised(v, d)
      BY <2>0, <2>1 DEF FinalizeInv
    <3>2. chose(d, v) /\ settled(d)' /\ promised(v, d)' => promised(v, d)
      BY <2>0, <2>1, <1>2, <1>7
    <3> QED BY <3>1, <3>2, <1>2
  <2>2. ASSUME updating
        PROVE  /\ cur.vol \notin todo /\ chose(cur.claim, cur.vol)' /\ ~immediate(cur.claim)
               /\ vols[cur.vol].claimRef = cur.claim \/ disputed(cur.vol)'
               /\ settled(cur.claim)' => ~promised(cur.vol, cur.claim)'
    <3>0. PICK d \in Claims, v \in VolNames : d = cur.claim /\ v = cur.vol
      BY <2>2, <1>2
    <3>1. /\ v \notin todo /\ chose(d, v) /\ ~immediate(d)
          /\ vols[v].claimRef = d \/ disputed(v)
          /\ settled(d) => ~promised(v, d)
      BY <2>0, <2>2, <3>0, <1>1 DEF FinalizeInv
    <3>2. settled(d)' /\ promised(v, d)' => promised(v, d)
      BY <3>1, <1>2, <1>7
    <3>3. chose(d, v)' /\ (settled(d)' => ~promised(v, d)') /\ (disputed(v) => disputed(v)')
      BY <3>1, <3>2, <1>2
    <3>4. /\ chose(d, v)' => chose(cur.claim, cur.vol)'
          /\ disputed(v)' => disputed(cur.vol)'
          /\ settled(cur.claim)' => settled(d)'
          /\ promised(cur.vol, cur.claim)' => promised(v, d)'
      BY <3>0, <1>3 DEF chose, disputed, settled, promised
    <3> QED BY <3>0, <3>1, <3>3, <3>4
  <2>3. /\ \A v \in todo, d \in Claims :
             listedVols[v] # None /\ listedVols[v].claimRef = d =>
               /\ vols[v].claimRef = d \/ disputed(v)'
               /\ listedVols[v].phase # "Bound" =>
                    /\ chose(d, v)' /\ ~immediate(d) /\ fits(listedVols[v], claims[d])
                    /\ settled(d)' => d \notin bound /\ ~promised(v, d)'
        /\ \A v \in todo : listedVols[v] # None
    BY <2>0, <2>1 DEF FinalizeInv
  <2> QED BY <2>2, <2>3, <1>1, <1>3, <1>5 DEF FinalizeInv, fits
<1>20. StageInv'
  BY <1>1, <1>18, <1>19 DEF StageInv, RequestInv, ImmediateInv
<1> QED BY <1>1, <1>3, <1>4, <1>10, <1>11, <1>12, <1>13, <1>14, <1>15, <1>16, <1>17, <1>20
        DEF VInv, RefInv
LEMMA SelectNodeStep ==
  ASSUME VInv, NEW c \in Claims, NEW n \in Nodes, SelectNode(c, n)
  PROVE  VInv'
<1>1. TypeOK /\ pc # "populate" /\ running /\ awaitsConsumer(c) /\ claimWrite[c] = None
  BY DEF VInv, SelectNode, decides, running
<1>2. claims[c] \in Claim /\ claims[c].phase = "Pending" /\ ~immediate(c)
  BY <1>1, ClaimFacts DEF awaitsConsumer, immediate
<1>3. claims[c].class # None
  <2>1. DOMAIN classes \subseteq STRING
    BY <1>1, SnapshotFacts
  <2> QED BY <2>1, <1>1, NoneFacts DEF awaitsConsumer
<1>4. PICK p : p = [claims[c] EXCEPT !.node = n]
  OBVIOUS
<1>5. /\ p \in Claim /\ p.node = n /\ p.phase = "Pending" /\ p.class # None
      /\ sameClaim(p, claims[c])
  BY <1>2, <1>3, <1>4 DEF Claim, sameClaim
<1>6. claimWrite \in [Claims -> Claim \union {None}] /\ volWrite \in [VolNames -> Volume \union {None}]
  BY <1>1 DEF TypeOK
<1>7. claimWrite' = [claimWrite EXCEPT ![c] = p] /\ volWrite' = volWrite
  BY <1>4 DEF SelectNode
<1>8. /\ claimWrite' \in [Claims -> Claim \union {None}] /\ claimWrite'[c] = p
      /\ \A d \in Claims \ {c} : claimWrite'[d] = claimWrite[d]
  BY <1>5, <1>6, <1>7
<1>9. DecideStep(c, n)
  <2>1. /\ decided' = [decided EXCEPT ![c] = Append(@, n)]
        /\ UNCHANGED <<input, claims, vols, pc, todo, listedClaims, listedVols, cur, err>>
    BY DEF SelectNode, view, listed
  <2> QED BY <2>1, <1>1, <1>2, <1>5, <1>6, <1>7, <1>8, NoneFacts DEF DecideStep
<1> QED BY <1>9, DecideKeeps

(* What storagevolume.FindMatchingVolume returns.                          *)
LEMMA MatchFacts ==
  ASSUME NEW c, NEW pvc, NEW pvs, NEW v \in FindMatchingVolume(c, pvc, pvs)
  PROVE  /\ v \in DOMAIN pvs /\ pvs[v] # None
         /\ pvs[v].capacity >= pvc.size /\ pvs[v].mode = pvc.mode
         /\ \/ pvs[v].claimRef = c
            \/ /\ pvs[v].claimRef = None /\ pvs[v].phase = "Available"
               /\ pvs[v].class = pvc.class
BY DEF FindMatchingVolume

LEMMA SetClaimRefStep ==
  ASSUME VInv, NEW c \in Claims, NEW n \in Nodes, NEW v \in VolNames, SetClaimRef(c, n, v)
  PROVE  VInv'
<1>1. /\ TypeOK /\ pc # "populate" /\ running /\ awaitsConsumer(c)
      /\ volWrite[v] = None /\ vols[v] # None
  BY DEF VInv, SetClaimRef, decides, running, usableOn
<1>2. claims[c].phase = "Pending" /\ ~immediate(c)
  BY <1>1 DEF awaitsConsumer, immediate
<1>3. /\ vols[v].capacity >= claims[c].size /\ vols[v].mode = claims[c].mode
      /\ \/ vols[v].claimRef = c
         \/ /\ vols[v].claimRef = None /\ vols[v].phase = "Available"
            /\ vols[v].class = claims[c].class
  <2> DEFINE pvs == [w \in {v} |-> assumed(w)]
  <2>1. pvs[v] = vols[v]
    BY <1>1 DEF assumed
  <2>2. v \in FindMatchingVolume(c, claims[c], pvs)
    <3>1. v \in FindMatchingVolume(c, claims[c], [w \in {v} |-> assumed(v)])
      BY DEF SetClaimRef, usableOn
    <3>2. pvs = [w \in {v} |-> assumed(v)]
      OBVIOUS
    <3> QED BY <3>1, <3>2
  <2> HIDE DEF pvs
  <2> QED BY <2>1, <2>2, MatchFacts
<1>4. vols[v] \in Volume
  BY <1>1 DEF TypeOK
<1>5. PICK q : q = [vols[v] EXCEPT !.claimRef = c]
  OBVIOUS
<1>6. /\ q \in Volume /\ sameVolume(q, vols[v]) /\ q.phase = vols[v].phase /\ q.claimRef = c
  BY <1>4, <1>5 DEF Volume, sameVolume
<1>7. claimWrite \in [Claims -> Claim \union {None}] /\ volWrite \in [VolNames -> Volume \union {None}]
  BY <1>1 DEF TypeOK
<1>8. volWrite' = [volWrite EXCEPT ![v] = q] /\ claimWrite' = claimWrite
  BY <1>5 DEF SetClaimRef
<1>9. /\ volWrite' \in [VolNames -> Volume \union {None}] /\ volWrite'[v] = q
      /\ \A w \in VolNames \ {v} : volWrite'[w] = volWrite[w]
  BY <1>6, <1>7, <1>8
<1>10. vols[v].claimRef = None => vols[v].phase # "Bound" /\ fits(vols[v], claims[c])
  BY <1>3, NoneFacts DEF fits
<1>11. DecideStep(c, v)
  <2>1. /\ decided' = [decided EXCEPT ![c] = Append(@, v)]
        /\ UNCHANGED <<input, claims, vols, pc, todo, listedClaims, listedVols, cur, err>>
    BY DEF SetClaimRef, view, listed
  <2>2. vols[v].claimRef \in {None, c}
    BY <1>3
  <2> QED BY <2>1, <2>2, <1>1, <1>2, <1>6, <1>7, <1>8, <1>9, <1>10 DEF DecideStep
<1> QED BY <1>11, DecideKeeps

LEMMA WriteClaimStep ==
  ASSUME VInv, NEW c \in Claims, WriteClaim(c)
  PROVE  VInv'
<1>1. /\ TypeOK /\ pc # "populate" /\ running /\ claimWrite[c] # None
      /\ UNCHANGED <<input, vols, pc, todo, listedClaims, listedVols, cur, err, volWrite, decided>>
  BY DEF VInv, WriteClaim, running, listed
<1>2. BindInv /\ RefInv /\ ListInv /\ Fits /\ UpdateInv /\ StageInv
  BY <1>1 DEF VInv
<1>3. stage' = stage /\ (updating' <=> updating) /\ stage \notin {"requestView", "immediate"}
  BY <1>1, CurFacts DEF running, stage, updating
<1>4. /\ chose(c, claimWrite[c].node) /\ claimWrite[c].node # None
      /\ claimWrite[c].phase = "Pending" /\ claimWrite[c].class # None
      /\ ~immediate(c) /\ sameClaim(claimWrite[c], claims[c])
      /\ c \in bound => ~settled(c)
  BY <1>1, <1>2 DEF RefInv, ClaimWrites
<1>5. claims \in [Claims -> Claim] /\ claimWrite \in [Claims -> Claim \union {None}]
  BY <1>1, ClaimFacts DEF TypeOK
<1>6. /\ claims'[c] = claimWrite[c] /\ claims' \in [Claims -> Claim]
      /\ \A d \in Claims \ {c} : claims'[d] = claims[d]
      /\ claimWrite'[c] = None /\ claimWrite' \in [Claims -> Claim \union {None}]
      /\ \A d \in Claims \ {c} : claimWrite'[d] = claimWrite[d]
  BY <1>1, <1>5 DEF WriteClaim
<1>7. TypeOK'
  BY <1>1, <1>3, <1>6 DEF TypeOK
<1>8. bound' = bound \ {c} /\ bound \subseteq Claims
  <2>1. bound = {d \in Claims : claims[d].phase = "Bound"}
    BY <1>1, ClaimFacts
  <2>2. bound' = {d \in Claims : claims'[d].phase = "Bound"}
    BY <1>6, NoneFacts DEF bound
  <2> QED BY <2>1, <2>2, <1>4, <1>6
<1>9. \A d \in Claims : sameClaim(claims'[d], claims[d]) /\ (immediate(d)' <=> immediate(d))
  BY <1>1, <1>4, <1>6 DEF sameClaim, immediate, classes
<1>10. \A v : contended(v) => contended(v)'
  BY <1>4, <1>6, <1>8, <1>9 DEF contended
<1>11. /\ \A d : settled(d)' <=> settled(d)
       /\ \A d, x : chose(d, x)' <=> chose(d, x)
       /\ \A v : disputed(v)' <=> disputed(v)
  BY <1>1, DecidedSame
<1>12. /\ pvcs' = pvcs /\ \A v, d : refers(v, d)' <=> refers(v, d)
       /\ \A v, d : promised(v, d)' <=> promised(v, d)
  BY <1>1 DEF pvcs, refers, promised
<1>13. \A d \in Claims : \A pv : fits(pv, claims[d]) => fits(pv, claims'[d])
  BY <1>9 DEF fits, sameClaim
<1>14. BindInv'
  <2>0. BoundToVolume /\ Exclusive /\ BoundRef /\ SimNew
    BY <1>2 DEF BindInv
  <2>1. BoundToVolume'
    <3> SUFFICES ASSUME NEW d \in bound \ {c}, NEW v, v = claims[d].volume
                 PROVE  /\ v \in VolNames /\ vols[v] # None
                        /\ v \in Volumes \union {SimVolume(d)} \/ chose(d, v)
                        /\ \/ contended(v)' \/ disputed(v)
                           \/ pc = "updateVolume" /\ cur.claim = d
                           \/ vols[v].claimRef = d /\ (settled(d) => vols[v].phase = "Bound")
      BY <1>1, <1>6, <1>8, <1>11 DEF BoundToVolume
    <3> QED BY <2>0, <1>10 DEF BoundToVolume
  <2>2. Exclusive'
    <3> SUFFICES ASSUME NEW d \in bound \ {c}, NEW e \in bound \ {c}, d # e,
                        claims[d].volume = claims[e].volume
                 PROVE  contended(claims[d].volume)' \/ disputed(claims[d].volume)'
      BY <1>6, <1>8 DEF Exclusive
    <3>0. PICK v : v = claims[d].volume
      OBVIOUS
    <3>1. contended(v) \/ disputed(v)
      BY <2>0, <3>0 DEF Exclusive
    <3>2. contended(v)' \/ disputed(v)'
      BY <3>1, <1>10, <1>11
    <3>3. claims'[d].volume = v
      BY <3>0, <1>6, <1>8
    <3> QED BY <3>2, <3>3 DEF contended, disputed
  <2>3. BoundRef'
    <3> SUFFICES ASSUME NEW v \in VolNames, NEW d \in Claims,
                        vols[v] # None, vols[v].phase = "Bound", vols[v].claimRef = d
                 PROVE  /\ d \in bound' \/ ~settled(d)
                        /\ pvcs[d].phase = "Bound" \/ fits(vols[v], claims'[d])
      BY <1>1, <1>11, <1>12 DEF BoundRef
    <3>1. /\ d \in bound \/ ~settled(d)
          /\ pvcs[d].phase = "Bound" \/ fits(vols[v], claims[d])
      BY <2>0 DEF BoundRef
    <3> QED BY <3>1, <1>4, <1>8, <1>13
  <2>4. SimNew'
    <3> SUFFICES ASSUME NEW d \in Claims, vols[SimVolume(d)] # None
                 PROVE  /\ d \in bound' \/ ~settled(d) \/ (pc = "updateClaim" /\ cur.claim = d)
                        /\ fits(vols[SimVolume(d)], claims'[d])
      BY <1>1, <1>11 DEF SimNew
    <3>1. /\ d \in bound \/ ~settled(d) \/ (pc = "updateClaim" /\ cur.claim = d)
          /\ fits(vols[SimVolume(d)], claims[d])
      BY <2>0 DEF SimNew
    <3> QED BY <3>1, <1>4, <1>8, <1>13
  <2> QED BY <2>1, <2>2, <2>3, <2>4 DEF BindInv
<1>15. RefFits'
  <2> SUFFICES ASSUME NEW v \in VolNames, NEW d \in Claims, refers(v, d) \/ promised(v, d)
               PROVE  chose(d, v) /\ ~immediate(d)' /\ fits(vols[v], claims'[d])
    BY <1>1, <1>11, <1>12 DEF RefFits
  <2>1. chose(d, v) /\ ~immediate(d) /\ fits(vols[v], claims[d])
    BY <1>2 DEF RefInv, RefFits
  <2> QED BY <2>1, <1>9, <1>13
<1>16. RefOnce' /\ VolumeWrites'
  <2>1. RefOnce'
    BY <1>1, <1>2, <1>8, <1>11, <1>12 DEF RefInv, RefOnce
  <2>2. VolumeWrites'
    BY <1>1, <1>2, <1>11 DEF RefInv, VolumeWrites
  <2> QED BY <2>1, <2>2
<1>17. NodeChosen' /\ SnapshotBound'
  <2>1. NodeChosen'
    BY <1>2, <1>4, <1>6, <1>11 DEF RefInv, NodeChosen
  <2>2. SnapshotBound'
    BY <1>1, <1>2, <1>6, <1>8, <1>12 DEF RefInv, SnapshotBound
  <2> QED BY <2>1, <2>2
<1>18. ClaimWrites'
  <2> SUFFICES ASSUME NEW d \in Claims \ {c}, claimWrite[d] # None
               PROVE  /\ chose(d, claimWrite[d].node) /\ claimWrite[d].node # None
                      /\ claimWrite[d].phase = "Pending" /\ claimWrite[d].class # None
                      /\ ~immediate(d) /\ sameClaim(claimWrite[d], claims[d])
                      /\ settled(d) => d \notin bound /\ claims[d].node = None
    BY <1>6, <1>8, <1>9, <1>11 DEF ClaimWrites
  <2> QED BY <1>2 DEF RefInv, ClaimWrites
<1>19. ListInv' /\ Fits'
  <2>1. NodeClass'
    BY <1>2, <1>4, <1>6, <1>8 DEF ListInv, NodeClass
  <2>2. ListedVolume'
    BY <1>1, <1>2 DEF ListInv, ListedVolume
  <2>3. Fits'
    BY <1>1, <1>2, <1>6, <1>8, <1>11, <1>12 DEF Fits
  <2> QED BY <2>1, <2>2, <2>3 DEF ListInv
<1>20. UpdateInv'
  <2> SUFFICES ASSUME updating PROVE UpdateInv'
    BY <1>3 DEF UpdateInv
  <2>0. PICK d \in Claims : d = cur.claim
    BY <1>1, CurFacts
  <2>1. /\ vols[cur.vol] # None /\ sameVolume(cur.pv, vols[cur.vol])
        /\ sameClaim(cur.pvc, claims[d]) /\ fits(cur.pv, cur.pvc)
        /\ cur.pvc.phase = "Bound" /\ cur.pvc.volume = cur.vol
        /\ cur.pv.phase = "Bound" /\ cur.pv.claimRef = d
        /\ cur.pvc.node # None => chose(d, cur.pvc.node)
        /\ pc = "updateVolume" => claims[d] = cur.pvc \/ (d \notin bound /\ ~settled(d))
        /\ pc = "updateClaim" /\ d \in bound => ~settled(d)
    BY <2>0, <1>2 DEF UpdateInv
  <2>2. sameClaim(cur.pvc, claims'[d])
    BY <2>1, <1>9 DEF sameClaim
  <2>3. pc = "updateVolume" => claims'[d] = cur.pvc \/ (d \notin bound' /\ ~settled(d))
    <3>1. CASE d = c
      <4>1. claims[d] = cur.pvc => d \in bound
        BY <2>1, <1>1, ClaimFacts
      <4> QED BY <3>1, <4>1, <2>1, <1>4, <1>8
    <3>2. CASE d # c
      BY <3>2, <2>1, <1>6, <1>8
    <3> QED BY <3>1, <3>2
  <2>4. pc = "updateClaim" /\ d \in bound' => ~settled(d)
    BY <2>1, <1>8
  <2>5. (cur.pvc.node # None => chose(d, cur.pvc.node))'
    BY <2>1, <1>1 DEF chose
  <2> QED BY <2>0, <2>1, <2>2, <2>3, <2>4, <2>5, <1>1, <1>11 DEF UpdateInv
<1>21. ProvisionInv'
  <2> SUFFICES ASSUME stage = "provision" PROVE ProvisionInv'
    BY <1>3 DEF ProvisionInv
  <2>0. ProvisionInv /\ todo \subseteq Claims
    BY <1>1, <1>2 DEF StageInv, TypeOK
  <2>1. \A d \in Claims : sameClaim(listedClaims[d], claims'[d])
    <3>1. \A d \in Claims : sameClaim(listedClaims[d], claims[d])
      BY <2>0 DEF ProvisionInv
    <3> QED BY <3>1, <1>9 DEF sameClaim
  <2>2. \A d \in Claims : /\ claims[d].phase = "Pending" => claims'[d].phase = "Pending"
                          /\ claims[d].node # None => claims'[d].node # None
    BY <1>4, <1>6
  <2>3. updating => cur.claim \in Claims
    BY <1>1, CurFacts
  <2> QED BY <2>0, <2>1, <2>2, <2>3, <1>1, <1>3, <1>8, <1>11 DEF ProvisionInv
<1>22. FinalizeInv'
  <2> SUFFICES ASSUME stage = "finalize" PROVE FinalizeInv'
    BY <1>3 DEF FinalizeInv
  <2>1. FinalizeInv
    BY <1>2 DEF StageInv
  <2>2. updating => cur.claim \in Claims
    BY <1>1, CurFacts
  <2> QED BY <2>1, <2>2, <1>1, <1>3, <1>8, <1>9, <1>11, <1>12, <1>13 DEF FinalizeInv
<1>23. StageInv'
  BY <1>3, <1>21, <1>22 DEF StageInv, RequestInv, ImmediateInv
<1> QED BY <1>1, <1>7, <1>14, <1>15, <1>16, <1>17, <1>18, <1>19, <1>20, <1>23 DEF VInv, RefInv

LEMMA WriteVolumeStep ==
  ASSUME VInv, NEW v \in VolNames, WriteVolume(v)
  PROVE  VInv'
<1>1. /\ TypeOK /\ pc # "populate" /\ running /\ volWrite[v] # None
      /\ UNCHANGED <<input, claims, pc, todo, listedClaims, listedVols, cur, err, claimWrite,
                     decided>>
  BY DEF VInv, WriteVolume, running, listed
<1>2. BindInv /\ RefInv /\ ListInv /\ Fits /\ UpdateInv /\ StageInv
  BY <1>1 DEF VInv
<1>3. stage' = stage /\ (updating' <=> updating) /\ stage \notin {"requestView", "immediate"}
  BY <1>1, CurFacts DEF running, stage, updating
<1>4. PICK e \in Claims : e = volWrite[v].claimRef
  BY <1>1, <1>2 DEF RefInv, VolumeWrites
<1>5. /\ vols[v] # None /\ sameVolume(volWrite[v], vols[v])
      /\ vols[v].claimRef \in {None, e} \/ disputed(v)
      /\ volWrite[v].phase = "Bound" => ~settled(e)
      /\ promised(v, e)
  BY <1>1, <1>2, <1>4 DEF RefInv, VolumeWrites, promised
<1>6. vols \in [VolNames -> Volume \union {None}] /\ volWrite \in [VolNames -> Volume \union {None}]
  BY <1>1 DEF TypeOK
<1>7. /\ vols'[v] = volWrite[v] /\ vols' \in [VolNames -> Volume \union {None}]
      /\ \A w \in VolNames \ {v} : vols'[w] = vols[w]
      /\ volWrite'[v] = None /\ volWrite' \in [VolNames -> Volume \union {None}]
      /\ \A w \in VolNames \ {v} : volWrite'[w] = volWrite[w]
  BY <1>1, <1>6 DEF WriteVolume
<1>8. TypeOK'
  BY <1>1, <1>3, <1>7 DEF TypeOK
<1>9. /\ bound' = bound /\ bound \subseteq Claims /\ pvcs' = pvcs
      /\ \A d : immediate(d)' <=> immediate(d)
      /\ \A w : contended(w)' <=> contended(w)
  BY <1>1 DEF bound, pvcs, immediate, classes, contended
<1>10. /\ \A d : settled(d)' <=> settled(d)
       /\ \A d, x : chose(d, x)' <=> chose(d, x)
       /\ \A w : disputed(w)' <=> disputed(w)
  BY <1>1, DecidedSame
<1>11. \A w \in VolNames : vols[w] # None => vols'[w] # None /\ sameVolume(vols'[w], vols[w])
  BY <1>1, <1>5, <1>7 DEF sameVolume
<1>12. \A w \in VolNames : vols'[w] # None => vols[w] # None
  BY <1>5, <1>7
<1>13. /\ \A w \in VolNames : \A d : promised(w, d)' => promised(w, d) /\ w # v
       /\ \A w \in VolNames, d \in Claims : refers(w, d)' => refers(w, d) \/ (w = v /\ d = e)
  BY <1>4, <1>7 DEF promised, refers
<1>14. settled(e) => e \notin bound /\ vols[v].claimRef # e
  BY <1>2, <1>5 DEF RefInv, RefOnce
<1>15. chose(e, v) /\ ~immediate(e) /\ fits(vols[v], claims[e])
  BY <1>2, <1>5 DEF RefInv, RefFits
<1>16. \A w \in VolNames, d \in Claims :
         vols[w].claimRef = d \/ disputed(w) => vols'[w].claimRef = d \/ disputed(w)
  BY <1>4, <1>5, <1>7, NoneFacts
<1>17. BindInv'
  <2>0. BoundToVolume /\ Exclusive /\ BoundRef /\ SimNew
    BY <1>2 DEF BindInv
  <2>1. BoundToVolume'
    <3> SUFFICES ASSUME NEW d \in bound, NEW w, w = claims[d].volume
                 PROVE  /\ w \in VolNames /\ vols'[w] # None
                        /\ w \in Volumes \union {SimVolume(d)} \/ chose(d, w)
                        /\ \/ contended(w) \/ disputed(w)
                           \/ pc = "updateVolume" /\ cur.claim = d
                           \/ vols'[w].claimRef = d /\ (settled(d) => vols'[w].phase = "Bound")
      BY <1>1, <1>9, <1>10 DEF BoundToVolume
    <3>1. /\ w \in VolNames /\ vols[w] # None
          /\ w \in Volumes \union {SimVolume(d)} \/ chose(d, w)
          /\ \/ contended(w) \/ disputed(w)
             \/ pc = "updateVolume" /\ cur.claim = d
             \/ vols[w].claimRef = d /\ (settled(d) => vols[w].phase = "Bound")
      BY <2>0 DEF BoundToVolume
    <3>2. CASE w = v /\ vols[w].claimRef = d
      <4>1. d = e \/ disputed(v)
        BY <3>2, <1>5, <1>9, NoneFacts
      <4> QED BY <3>1, <3>2, <4>1, <1>4, <1>7, <1>11, <1>14
    <3>3. CASE w # v
      BY <3>1, <3>3, <1>7
    <3> QED BY <3>1, <3>2, <3>3, <1>11
  <2>2. Exclusive'
    BY <2>0, <1>1, <1>9, <1>10 DEF Exclusive
  <2>3. BoundRef'
    <3> SUFFICES ASSUME NEW w \in VolNames, NEW d \in Claims,
                        vols'[w] # None, vols'[w].phase = "Bound", vols'[w].claimRef = d
                 PROVE  /\ d \in bound \/ ~settled(d)
                        /\ pvcs[d].phase = "Bound" \/ fits(vols'[w], claims[d])
      BY <1>1, <1>9, <1>10 DEF BoundRef, fits
    <3>1. CASE w = v
      BY <3>1, <1>4, <1>5, <1>7, <1>15 DEF fits, sameVolume
    <3>2. CASE w # v
      BY <3>2, <2>0, <1>7 DEF BoundRef
    <3> QED BY <3>1, <3>2
  <2>4. SimNew'
    <3> SUFFICES ASSUME NEW d \in Claims, NEW w, w = SimVolume(d), vols'[w] # None
                 PROVE  /\ d \in bound \/ ~settled(d) \/ (pc = "updateClaim" /\ cur.claim = d)
                        /\ fits(vols'[w], claims[d])
      BY <1>1, <1>9, <1>10 DEF SimNew, fits
    <3>1. w \in VolNames /\ vols[w] # None
      BY <1>12, SimVolumeName
    <3>2. /\ d \in bound \/ ~settled(d) \/ (pc = "updateClaim" /\ cur.claim = d)
          /\ fits(vols[w], claims[d])
      BY <2>0, <3>1 DEF SimNew
    <3> QED BY <3>1, <3>2, <1>11 DEF fits, sameVolume
  <2> QED BY <2>1, <2>2, <2>3, <2>4 DEF BindInv
<1>18. RefFits'
  <2> SUFFICES ASSUME NEW w \in VolNames, NEW d \in Claims, refers(w, d)' \/ promised(w, d)'
               PROVE  chose(d, w) /\ ~immediate(d) /\ fits(vols'[w], claims[d])
    BY <1>1, <1>9, <1>10 DEF RefFits, fits
  <2>1. chose(d, w) /\ ~immediate(d) /\ fits(vols[w], claims[d]) /\ vols[w] # None
    <3>1. CASE refers(w, d) \/ promised(w, d)
      BY <3>1, <1>2 DEF RefInv, RefFits, VolumeWrites, refers, promised
    <3>2. CASE w = v /\ d = e
      BY <3>2, <1>5, <1>15
    <3> QED BY <3>1, <3>2, <1>13
  <2> QED BY <2>1, <1>11 DEF fits, sameVolume
<1>19. RefOnce'
  <2> SUFFICES ASSUME NEW w \in VolNames, NEW d \in Claims, settled(d)
               PROVE  /\ promised(w, d)' => d \notin bound /\ vols'[w].claimRef # d
                      /\ refers(w, d)' /\ d \in bound
                           => pc = "updateVolume" /\ cur.claim = d /\ cur.vol = w
    BY <1>1, <1>9, <1>10 DEF RefOnce
  <2>1. /\ promised(w, d) => d \notin bound /\ vols[w].claimRef # d
        /\ refers(w, d) /\ d \in bound
             => pc = "updateVolume" /\ cur.claim = d /\ cur.vol = w
    BY <1>2 DEF RefInv, RefOnce
  <2> QED BY <2>1, <1>7, <1>13, <1>14
<1>20. VolumeWrites'
  <2> SUFFICES ASSUME NEW w \in VolNames \ {v}, volWrite[w] # None
               PROVE  /\ vols[w] # None /\ sameVolume(volWrite[w], vols[w])
                      /\ volWrite[w].claimRef \in Claims
                      /\ vols[w].claimRef \in {None, volWrite[w].claimRef} \/ disputed(w)
                      /\ volWrite[w].phase = "Bound" => ~settled(volWrite[w].claimRef)
    BY <1>7, <1>10 DEF VolumeWrites, settled
  <2> QED BY <1>2 DEF RefInv, VolumeWrites
<1>21. NodeChosen' /\ ClaimWrites' /\ SnapshotBound'
  <2>1. NodeChosen'
    BY <1>1, <1>2, <1>10 DEF RefInv, NodeChosen
  <2>2. ClaimWrites'
    BY <1>1, <1>2, <1>9, <1>10 DEF RefInv, ClaimWrites
  <2>3. SnapshotBound'
    BY <1>1, <1>2, <1>9 DEF RefInv, SnapshotBound
  <2> QED BY <2>1, <2>2, <2>3
<1>22. ListInv'
  <2>1. NodeClass'
    BY <1>1, <1>2, <1>9 DEF ListInv, NodeClass
  <2>2. \A w \in VolNames : listedVols[w] # None =>
          vols'[w] # None /\ sameVolume(listedVols[w], vols'[w])
    <3>1. ListedVolume
      BY <1>2 DEF ListInv
    <3> QED BY <3>1, <1>11 DEF ListedVolume, sameVolume
  <2> QED BY <2>1, <2>2, <1>1 DEF ListInv, ListedVolume
<1>23. Fits'
  <2> SUFFICES ASSUME NEW d \in bound, pvcs[d].phase = "Pending"
               PROVE  /\ fits(vols'[claims[d].volume], claims[d])
                      /\ settled(d) /\ claims[d].node # None
                           => vols'[claims[d].volume].zone = ZoneOf[claims[d].node]
    BY <1>1, <1>9, <1>10 DEF Fits, fits
  <2>1. sameVolume(vols'[claims[d].volume], vols[claims[d].volume])
    BY <1>2, <1>11 DEF BindInv, BoundToVolume
  <2>2. /\ fits(vols[claims[d].volume], claims[d])
        /\ settled(d) /\ claims[d].node # None
             => vols[claims[d].volume].zone = ZoneOf[claims[d].node]
    BY <1>2 DEF Fits
  <2> QED BY <2>1, <2>2 DEF fits, sameVolume
<1>24. UpdateInv'
  <2> SUFFICES ASSUME updating PROVE UpdateInv'
    BY <1>3 DEF UpdateInv
  <2>1. vols'[cur.vol] # None /\ sameVolume(cur.pv, vols'[cur.vol])
    <3>1. vols[cur.vol] # None /\ sameVolume(cur.pv, vols[cur.vol]) /\ cur.vol \in VolNames
      BY <1>1, <1>2, CurFacts DEF UpdateInv
    <3> QED BY <3>1, <1>11 DEF sameVolume
  <2>2. (cur.pvc.node # None => chose(cur.claim, cur.pvc.node))'
    BY <1>1, <1>2 DEF UpdateInv, chose
  <2> QED BY <2>1, <2>2, <1>1, <1>2, <1>9, <1>10 DEF UpdateInv, sameClaim, fits
<1>25. ProvisionInv'
  BY <1>1, <1>2, <1>3, <1>9, <1>10 DEF StageInv, ProvisionInv, sameClaim
<1>26. FinalizeInv'
  <2> SUFFICES ASSUME stage = "finalize" PROVE FinalizeInv'
    BY <1>3 DEF FinalizeInv
  <2>0. FinalizeInv /\ todo \subseteq VolNames
    BY <1>1, <1>2 DEF StageInv, TypeOK
  <2>1. ASSUME NEW w \in todo, NEW d \in Claims, listedVols[w] # None, listedVols[w].claimRef = d
        PROVE  /\ vols'[w].claimRef = d \/ disputed(w)
               /\ listedVols[w].phase # "Bound" =>
                    /\ chose(d, w) /\ ~immediate(d) /\ fits(listedVols[w], claims[d])
                    /\ settled(d) => d \notin bound /\ ~promised(w, d)'
    <3>1. /\ vols[w].claimRef = d \/ disputed(w)
          /\ listedVols[w].phase # "Bound" =>
               /\ chose(d, w) /\ ~immediate(d) /\ fits(listedVols[w], claims[d])
               /\ settled(d) => d \notin bound /\ ~promised(w, d)
      BY <2>0, <2>1 DEF FinalizeInv
    <3>2. w \in VolNames
      BY <2>0
    <3> QED BY <3>1, <3>2, <1>13, <1>16
  <2>2. ASSUME updating
        PROVE  /\ cur.vol \notin todo /\ chose(cur.claim, cur.vol) /\ ~immediate(cur.claim)
               /\ vols'[cur.vol].claimRef = cur.claim \/ disputed(cur.vol)
               /\ settled(cur.claim) => ~promised(cur.vol, cur.claim)'
    <3>0. cur.claim \in Claims /\ cur.vol \in VolNames
      BY <2>2, <1>1, CurFacts
    <3>1. /\ cur.vol \notin todo /\ chose(cur.claim, cur.vol) /\ ~immediate(cur.claim)
          /\ vols[cur.vol].claimRef = cur.claim \/ disputed(cur.vol)
          /\ settled(cur.claim) => ~promised(cur.vol, cur.claim)
      BY <2>0, <2>2 DEF FinalizeInv
    <3>2. promised(cur.vol, cur.claim)' => promised(cur.vol, cur.claim)
      BY <3>0, <1>1, <1>13 DEF promised
    <3> QED BY <3>0, <3>1, <3>2, <1>16
  <2>3. \A w \in todo : listedVols[w] # None
    BY <2>0 DEF FinalizeInv
  <2> QED BY <2>1, <2>2, <2>3, <1>1, <1>3, <1>9, <1>10 DEF FinalizeInv, fits
<1>27. StageInv'
  BY <1>3, <1>25, <1>26 DEF StageInv, RequestInv, ImmediateInv
<1> QED BY <1>1, <1>8, <1>17, <1>18, <1>19, <1>20, <1>21, <1>22, <1>23, <1>24, <1>27
        DEF VInv, RefInv
-----------------------------------------------------------------------------
(* The two updates of a binding.                                           *)

(* Other claims that the volume of the binding under way is bound to, or   *)
(* promised to.                                                            *)
LEMMA UpdateFacts ==
  ASSUME VInv, updating
  PROVE  /\ \A d \in bound \ {cur.claim} :
              claims[d].volume = cur.vol
                => \/ contended(cur.vol) \/ disputed(cur.vol)
                   \/ immediate(d) /\ immediate(cur.claim) /\ cur.next = "immediate"
         /\ \A e \in Claims \ {cur.claim} : promised(cur.vol, e) =>
              disputed(cur.vol)
         /\ cur.next # "immediate" => chose(cur.claim, cur.vol) \/ cur.vol = SimVolume(cur.claim)
         /\ cur.next = "immediate" => cur.vol \in Volumes \union {SimVolume(cur.claim)}
<1>1. TypeOK /\ pc # "populate"
  BY CurFacts DEF VInv
<1>2. BindInv /\ RefInv /\ UpdateInv /\ StageInv
  BY <1>1 DEF VInv
<1>3. /\ cur.claim \in Claims /\ cur.vol \in VolNames /\ stage = cur.next
      /\ cur.next \in {"immediate", "provision", "finalize"} /\ bound \subseteq Claims
  BY <1>1, CurFacts DEF bound
<1>4. CASE cur.next = "immediate"
  <2>1. /\ immediate(cur.claim) /\ cur.vol \in Volumes \union {SimVolume(cur.claim)}
        /\ \A d \in bound : claims[d].volume = cur.vol => immediate(d)
        /\ \A e \in Claims : ~promised(cur.vol, e)
    BY <1>2, <1>3, <1>4 DEF StageInv, ImmediateInv, NoWrites, promised
  <2> QED BY <2>1, <1>4
<1>5. CASE cur.next = "provision"
  <2>1. cur.vol = SimVolume(cur.claim)
    BY <1>2, <1>3, <1>5 DEF StageInv, ProvisionInv
  <2>2. ASSUME NEW d \in Claims \ {cur.claim}, chose(d, cur.vol)
        PROVE  disputed(cur.vol)
    BY <2>1, <2>2, <1>3, Disputed
  <2>3. ASSUME NEW d \in bound \ {cur.claim}, claims[d].volume = cur.vol
        PROVE  disputed(cur.vol)
    <3>1. cur.vol \notin Volumes \union {SimVolume(d)}
      BY <2>1, <1>3, SimVolumeOther
    <3>2. chose(d, cur.vol)
      BY <2>3, <3>1, <1>2 DEF BindInv, BoundToVolume
    <3> QED BY <2>2, <3>2, <1>3
  <2>4. \A e \in Claims : promised(cur.vol, e) => chose(e, cur.vol)
    BY <1>2, <1>3 DEF RefInv, RefFits
  <2> QED BY <2>1, <2>2, <2>3, <2>4, <1>5
<1>6. CASE cur.next = "finalize"
  <2>1. /\ chose(cur.claim, cur.vol)
        /\ vols[cur.vol].claimRef = cur.claim \/ disputed(cur.vol)
    BY <1>2, <1>3, <1>6 DEF StageInv, FinalizeInv
  <2>2. ASSUME NEW d \in bound \ {cur.claim}, claims[d].volume = cur.vol
        PROVE  contended(cur.vol) \/ disputed(cur.vol)
    BY <2>1, <2>2, <1>2 DEF BindInv, BoundToVolume
  <2>3. ASSUME NEW e \in Claims \ {cur.claim}, promised(cur.vol, e)
        PROVE  disputed(cur.vol)
    <3>1. vols[cur.vol].claimRef \in {None, e} \/ disputed(cur.vol)
      BY <2>3, <1>2, <1>3 DEF RefInv, VolumeWrites, promised
    <3> QED BY <2>1, <3>1, <1>3, NoneFacts
  <2> QED BY <2>1, <2>2, <2>3, <1>6
<1> QED BY <1>3, <1>4, <1>5, <1>6

(* The claim of a binding whose claim is not updated yet.                  *)
LEMMA UpdateClaimFacts ==
  ASSUME VInv, pc = "updateClaim"
  PROVE  /\ cur.claim \in bound => ~immediate(cur.claim)
         /\ settled(cur.claim) =>
              /\ claimWrite[cur.claim] = None
              /\ \A v \in VolNames : /\ ~promised(v, cur.claim)
                                     /\ refers(v, cur.claim) => v = cur.vol
              /\ cur.pvc.node # None => cur.pv.zone = ZoneOf[cur.pvc.node]
<1>1. TypeOK /\ updating /\ pc # "populate"
  BY DEF VInv, updating
<1>2. BindInv /\ RefInv /\ UpdateInv /\ StageInv
  BY <1>1 DEF VInv
<1>3. PICK c \in Claims, v \in VolNames : c = cur.claim /\ v = cur.vol
  BY <1>1, CurFacts
<1>4. stage = cur.next /\ cur.next \in {"immediate", "provision", "finalize"} /\ cur.pvc \in Claim
  BY <1>1, CurFacts
<1>5. CASE cur.next = "immediate"
  <2>1. /\ \A w \in VolNames, d \in Claims : ~refers(w, d)
        /\ NoWrites /\ settled(c) /\ cur.pvc.node = None
    BY <1>1, <1>2, <1>3, <1>4, <1>5 DEF StageInv, ImmediateInv
  <2>2. c \notin bound
    BY <2>1, <1>1, <1>2, <1>3 DEF UpdateInv, settled
  <2> QED BY <2>1, <2>2, <1>3 DEF NoWrites, promised
<1>6. \A n \in Nodes, w \in VolNames : chose(c, n) /\ chose(c, w) => ~settled(c)
  BY <1>1, NodeAndVolume
<1>7. /\ cur.pvc.node # None => cur.pvc.node \in Nodes /\ chose(c, cur.pvc.node)
      /\ \A w \in VolNames : refers(w, c) \/ promised(w, c) => chose(c, w)
      /\ claimWrite[c] # None => /\ claimWrite[c].node \in Nodes /\ chose(c, claimWrite[c].node)
                                 /\ settled(c) => claims[c].node = None
  <2>1. cur.pvc.node # None => cur.pvc.node \in Nodes /\ chose(c, cur.pvc.node)
    BY <1>1, <1>2, <1>3, <1>4 DEF UpdateInv, Claim, chose
  <2>2. \A w \in VolNames : refers(w, c) \/ promised(w, c) => chose(c, w)
    BY <1>2 DEF RefInv, RefFits
  <2>3. claimWrite[c] # None => /\ claimWrite[c].node # None /\ chose(c, claimWrite[c].node)
                                /\ settled(c) => claims[c].node = None
    BY <1>2 DEF RefInv, ClaimWrites
  <2>4. claimWrite[c] # None => claimWrite[c] \in Claim
    BY <1>1 DEF TypeOK
  <2> QED BY <2>1, <2>2, <2>3, <2>4 DEF Claim
<1>8. CASE cur.next = "provision"
  <2>1. /\ claims[c].node # None /\ cur.pvc.node # None /\ c \notin bound
        /\ settled(c) => cur.pv.zone = ZoneOf[cur.pvc.node]
    BY <1>1, <1>2, <1>3, <1>4, <1>8 DEF StageInv, ProvisionInv, settled
  <2>2. settled(c) => \A w \in VolNames : ~refers(w, c) /\ ~promised(w, c)
    BY <2>1, <1>6, <1>7
  <2>3. settled(c) => claimWrite[c] = None
    BY <2>1, <1>7
  <2> QED BY <2>1, <2>2, <2>3, <1>3
<1>9. CASE cur.next = "finalize"
  <2>1. chose(c, v) /\ ~immediate(c) /\ (settled(c) => ~promised(v, c))
    BY <1>1, <1>2, <1>3, <1>4, <1>9 DEF StageInv, FinalizeInv
  <2>2. \A w \in VolNames : chose(c, w) /\ settled(c) => w = v
    BY <2>1, <1>1, TwoChoices
  <2>3. settled(c) => claimWrite[c] = None /\ cur.pvc.node = None
    BY <2>1, <1>6, <1>7
  <2> QED BY <2>1, <2>2, <2>3, <1>3, <1>7
<1> QED BY <1>4, <1>5, <1>8, <1>9

LEMMA UpdateClaimStep ==
  ASSUME VInv, UpdateClaim
  PROVE  VInv'
<1>0. PICK cc, vv : cc = cur.claim /\ vv = cur.vol
  OBVIOUS
<1>1. /\ pc = "updateClaim" /\ pc' = "updateVolume"
      /\ UNCHANGED <<input, vols, todo, listedClaims, listedVols, cur, decided, err, claimWrite,
                     volWrite>>
  BY DEF UpdateClaim, listed, writes
<1>2. TypeOK /\ updating /\ updating' /\ pc # "populate"
  BY <1>1 DEF VInv, updating
<1>3. BindInv /\ RefInv /\ ListInv /\ Fits /\ UpdateInv /\ StageInv
  BY <1>2 DEF VInv
<1>4. /\ cc \in Claims /\ vv \in VolNames /\ cur.pvc \in Claim /\ stage = cur.next
      /\ cur \in [claim : Claims, vol : VolNames, pvc : Claim, pv : Volume,
                  next : {"immediate", "provision", "finalize"}]
      /\ cur.next \in {"immediate", "provision", "finalize"}
  BY <1>0, <1>2, CurFacts
<1>5. stage' = stage
  BY <1>1 DEF stage
<1>6. claims \in [Claims -> Claim]
  BY <1>2, ClaimFacts
<1>7. /\ claims'[cc] = cur.pvc /\ claims' \in [Claims -> Claim]
      /\ \A d \in Claims \ {cc} : claims'[d] = claims[d]
  BY <1>0, <1>4, <1>6 DEF UpdateClaim
<1>8. TypeOK'
  BY <1>1, <1>2, <1>4, <1>5, <1>7 DEF TypeOK
<1>9. /\ vols[vv] # None /\ sameVolume(cur.pv, vols[vv])
      /\ sameClaim(cur.pvc, claims[cc]) /\ fits(cur.pv, cur.pvc)
      /\ cur.pvc.phase = "Bound" /\ cur.pvc.volume = vv
      /\ cur.pvc.node # None => chose(cc, cur.pvc.node)
      /\ cc \in bound => ~settled(cc)
  BY <1>0, <1>1, <1>2, <1>3 DEF UpdateInv
<1>10. bound' = bound \union {cc} /\ bound \subseteq Claims
  <2>1. bound = {d \in Claims : claims[d].phase = "Bound"}
    BY <1>2, ClaimFacts
  <2>2. bound' = {d \in Claims : claims'[d].phase = "Bound"}
    BY <1>7, NoneFacts DEF bound
  <2> QED BY <2>1, <2>2, <1>4, <1>7, <1>9
<1>11. \A d \in Claims : sameClaim(claims'[d], claims[d]) /\ (immediate(d)' <=> immediate(d))
  BY <1>1, <1>7, <1>9 DEF sameClaim, immediate, classes
<1>12. /\ cc \in bound => ~immediate(cc)
       /\ settled(cc) =>
            /\ claimWrite[cc] = None
            /\ \A v \in VolNames : ~promised(v, cc) /\ (refers(v, cc) => v = vv)
            /\ cur.pvc.node # None => cur.pv.zone = ZoneOf[cur.pvc.node]
  BY <1>0, <1>1, UpdateClaimFacts
<1>13. /\ \A d \in bound \ {cc} :
            claims[d].volume = vv => \/ contended(vv) \/ disputed(vv)
                                     \/ immediate(d) /\ immediate(cc)
       /\ vv \in Volumes \union {SimVolume(cc)} \/ chose(cc, vv)
  BY <1>0, <1>2, <1>4, UpdateFacts
<1>14. \A v : contended(v) => contended(v)'
  BY <1>7, <1>10, <1>11, <1>12 DEF contended
<1>15. /\ \A d : settled(d)' <=> settled(d)
       /\ \A d, x : chose(d, x)' <=> chose(d, x)
       /\ \A v : disputed(v)' <=> disputed(v)
  BY <1>1, DecidedSame
<1>16. /\ pvcs' = pvcs /\ \A v, d : refers(v, d)' <=> refers(v, d)
       /\ \A v, d : promised(v, d)' <=> promised(v, d)
  BY <1>1 DEF pvcs, refers, promised
<1>17. \A d \in bound' : d # cc => d \in bound /\ d \in Claims /\ claims'[d] = claims[d]
  BY <1>7, <1>10
<1>18. cur'.claim = cc /\ cur'.vol = vv /\ cur.claim = cc /\ cur.vol = vv
  BY <1>0, <1>1
<1>19. \A d \in Claims : \A pv : fits(pv, claims[d]) => fits(pv, claims'[d])
  BY <1>11 DEF fits, sameClaim
<1>20. BindInv'
  <2>0. BoundToVolume /\ Exclusive /\ BoundRef /\ SimNew
    BY <1>3 DEF BindInv
  <2>1. BoundToVolume'
    <3> SUFFICES ASSUME NEW d \in bound', NEW v, v = claims'[d].volume
                 PROVE  /\ v \in VolNames /\ vols[v] # None
                        /\ v \in Volumes \union {SimVolume(d)} \/ chose(d, v)
                        /\ \/ contended(v)' \/ disputed(v)
                           \/ cc = d
                           \/ vols[v].claimRef = d /\ (settled(d) => vols[v].phase = "Bound")
      BY <1>1, <1>15, <1>18 DEF BoundToVolume
    <3>1. CASE d = cc
      BY <3>1, <1>4, <1>7, <1>9, <1>13
    <3>2. CASE d # cc
      <4>1. d \in bound /\ claims'[d] = claims[d]
        BY <3>2, <1>17
      <4> QED BY <4>1, <2>0, <1>1, <1>14 DEF BoundToVolume
    <3> QED BY <3>1, <3>2
  <2>2. Exclusive'
    <3> SUFFICES ASSUME NEW c \in bound', NEW d \in bound', c # d, NEW v,
                        claims'[c].volume = v, claims'[d].volume = v
                 PROVE  contended(v)' \/ disputed(v)
      BY <1>15 DEF Exclusive
    <3>1. CASE c # cc /\ d # cc
      BY <3>1, <2>0, <1>14, <1>17 DEF Exclusive
    <3>2. ASSUME NEW e \in bound', e # cc, claims'[e].volume = vv
          PROVE  contended(vv)' \/ disputed(vv)
      <4>1. e \in bound /\ e \in Claims /\ claims[e].volume = vv
        BY <3>2, <1>17
      <4>2. CASE immediate(e) /\ immediate(cc)
        <5>1. immediate(e)' /\ immediate(cc)'
          BY <4>1, <4>2, <1>4, <1>11
        <5>2. cc \in bound' /\ claims'[cc].volume = vv
          BY <1>7, <1>9, <1>10
        <5> QED BY <3>2, <5>1, <5>2 DEF contended
      <4>3. CASE contended(vv) \/ disputed(vv)
        BY <4>3, <1>14
      <4> QED BY <3>2, <4>1, <4>2, <4>3, <1>13
    <3>3. claims'[cc].volume = vv
      BY <1>7, <1>9
    <3> QED BY <3>1, <3>2, <3>3
  <2>3. BoundRef'
    BY <2>0, <1>1, <1>10, <1>15, <1>16, <1>19 DEF BoundRef
  <2>4. SimNew'
    BY <2>0, <1>1, <1>10, <1>15, <1>18, <1>19 DEF SimNew
  <2> QED BY <2>1, <2>2, <2>3, <2>4 DEF BindInv
<1>21. RefFits' /\ RefOnce'
  <2>1. RefFits'
    <3> SUFFICES ASSUME NEW v \in VolNames, NEW d \in Claims, refers(v, d) \/ promised(v, d)
                 PROVE  chose(d, v) /\ ~immediate(d)' /\ fits(vols[v], claims'[d])
      BY <1>1, <1>15, <1>16 DEF RefFits
    <3>1. chose(d, v) /\ ~immediate(d) /\ fits(vols[v], claims[d])
      BY <1>3 DEF RefInv, RefFits
    <3> QED BY <3>1, <1>11, <1>19
  <2>2. RefOnce'
    <3> SUFFICES ASSUME NEW v \in VolNames, NEW d \in Claims, settled(d)
                 PROVE  /\ promised(v, d) => d \notin bound' /\ vols[v].claimRef # d
                        /\ refers(v, d) /\ d \in bound' => cc = d /\ vv = v
      BY <1>1, <1>15, <1>16, <1>18 DEF RefOnce
    <3>1. /\ promised(v, d) => d \notin bound /\ vols[v].claimRef # d
          /\ ~(refers(v, d) /\ d \in bound)
      BY <1>1, <1>3 DEF RefInv, RefOnce
    <3> QED BY <3>1, <1>10, <1>12
  <2> QED BY <2>1, <2>2
<1>22. VolumeWrites' /\ NodeChosen' /\ SnapshotBound'
  <2>1. VolumeWrites'
    BY <1>1, <1>3, <1>15 DEF RefInv, VolumeWrites
  <2>2. NodeChosen'
    <3>1. \A d \in Claims : claims'[d].node # None => chose(d, claims'[d].node)
      <4> TAKE d \in Claims
      <4>1. CASE d = cc
        BY <4>1, <1>7, <1>9
      <4>2. CASE d # cc
        BY <4>2, <1>3, <1>7 DEF RefInv, NodeChosen
      <4> QED BY <4>1, <4>2
    <3> QED BY <3>1, <1>15 DEF NodeChosen
  <2>3. SnapshotBound'
    BY <1>1, <1>3, <1>10, <1>16 DEF RefInv, SnapshotBound
  <2> QED BY <2>1, <2>2, <2>3
<1>23. ClaimWrites'
  <2> SUFFICES ASSUME NEW d \in Claims, claimWrite[d] # None
               PROVE  /\ chose(d, claimWrite[d].node) /\ claimWrite[d].node # None
                      /\ claimWrite[d].phase = "Pending" /\ claimWrite[d].class # None
                      /\ ~immediate(d)' /\ sameClaim(claimWrite[d], claims'[d])
                      /\ settled(d) => d \notin bound' /\ claims'[d].node = None
    BY <1>1, <1>15 DEF ClaimWrites
  <2>1. /\ chose(d, claimWrite[d].node) /\ claimWrite[d].node # None
        /\ claimWrite[d].phase = "Pending" /\ claimWrite[d].class # None
        /\ ~immediate(d) /\ sameClaim(claimWrite[d], claims[d])
        /\ settled(d) => d \notin bound /\ claims[d].node = None
    BY <1>3 DEF RefInv, ClaimWrites
  <2>2. sameClaim(claimWrite[d], claims'[d])
    BY <2>1, <1>11 DEF sameClaim
  <2>3. settled(d) => d # cc
    BY <1>12
  <2> QED BY <2>1, <2>2, <2>3, <1>7, <1>10, <1>11
<1>24. ListInv'
  <2>1. NodeClass'
    BY <1>3, <1>7, <1>10 DEF ListInv, NodeClass
  <2>2. ListedVolume'
    BY <1>1, <1>3 DEF ListInv, ListedVolume
  <2> QED BY <2>1, <2>2 DEF ListInv
<1>25. Fits'
  <2> SUFFICES ASSUME NEW d \in bound', pvcs[d].phase = "Pending"
               PROVE  /\ fits(vols[claims'[d].volume], claims'[d])
                      /\ settled(d) /\ claims'[d].node # None
                           => vols[claims'[d].volume].zone = ZoneOf[claims'[d].node]
    BY <1>1, <1>15, <1>16 DEF Fits
  <2>1. CASE d = cc
    BY <2>1, <1>7, <1>9, <1>12 DEF fits, sameVolume
  <2>2. CASE d # cc
    BY <2>2, <1>3, <1>17 DEF Fits
  <2> QED BY <2>1, <2>2
<1>26. UpdateInv'
  <2>1. sameClaim(cur.pvc, claims'[cc]) /\ claims'[cc] = cur.pvc
    BY <1>7 DEF sameClaim
  <2>2. (cur.pvc.node # None => chose(cur.claim, cur.pvc.node))'
    BY <1>0, <1>1, <1>9 DEF chose
  <2> QED BY <2>1, <2>2, <1>1, <1>2, <1>3, <1>18 DEF UpdateInv, sameVolume, fits
<1>27. StageInv'
  <2>0. RequestInv' /\ ImmediateInv /\ ProvisionInv /\ FinalizeInv
    BY <1>3, <1>4, <1>5 DEF StageInv, RequestInv
  <2>1. ImmediateInv'
    <3> SUFFICES ASSUME stage = "immediate" PROVE ImmediateInv'
      BY <1>5 DEF ImmediateInv
    <3>0. todo \subseteq Claims
      BY <1>2 DEF TypeOK
    <3>1. /\ listedClaims = pvcs /\ listedVols = snapshotVols
          /\ \A c \in todo : claims[c] = pvcs[c]
          /\ \A c \in Claims : pvcs[c].phase = "Bound" => claims[c] = pvcs[c]
          /\ \A c \in bound : pvcs[c].phase = "Bound" \/ immediate(c)
          /\ NoWrites /\ \A c \in Claims : settled(c)
          /\ \A v \in VolNames, c \in Claims : ~refers(v, c)
          /\ pvcs[cc].phase = "Pending" /\ cc \notin todo
          /\ immediate(cc) /\ cur.pvc.node = None /\ vv \in Volumes \union {SimVolume(cc)}
          /\ \A d \in bound : claims[d].volume = vv => immediate(d)
      BY <2>0, <1>2, <1>18 DEF ImmediateInv
    <3>2. snapshotVols' = snapshotVols /\ NoWrites'
      BY <3>1, <1>1 DEF snapshotVols, NoWrites
    <3>3. /\ \A c \in todo : claims'[c] = pvcs[c]
          /\ \A c \in Claims : pvcs[c].phase = "Bound" => claims'[c] = pvcs[c]
      BY <3>0, <3>1, <1>7
    <3>4. /\ \A c \in bound' : pvcs[c].phase = "Bound" \/ immediate(c)'
          /\ \A d \in bound' : claims'[d].volume = vv => immediate(d)'
          /\ immediate(cc)'
      BY <3>1, <1>4, <1>11, <1>17
    <3>5. immediate(cc)' => immediate(cur.claim)'
      BY <1>1, <1>18 DEF immediate
    <3> QED BY <3>1, <3>2, <3>3, <3>4, <3>5, <1>1, <1>15, <1>16, <1>18 DEF ImmediateInv
  <2>2. ProvisionInv'
    <3> SUFFICES ASSUME stage = "provision" PROVE ProvisionInv'
      BY <1>5 DEF ProvisionInv
    <3>0. todo \subseteq Claims
      BY <1>2 DEF TypeOK
    <3>1. /\ \A c \in Claims : sameClaim(listedClaims[c], claims[c])
          /\ \A c \in todo : /\ listedClaims[c].phase = "Pending" => claims[c].phase = "Pending"
                             /\ listedClaims[c].node # None =>
                                  claims[c].node # None /\ chose(c, listedClaims[c].node)
          /\ cc \notin todo /\ vv = SimVolume(cc) /\ cur.pvc.node # None
          /\ settled(cc) => cur.pv.zone = ZoneOf[cur.pvc.node]
      BY <2>0, <1>2, <1>18 DEF ProvisionInv
    <3>2. \A c \in Claims : sameClaim(listedClaims[c], claims'[c])
      BY <3>1, <1>11 DEF sameClaim
    <3>3. \A c \in todo : claims'[c] = claims[c]
      BY <3>0, <3>1, <1>7
    <3>4. settled(cur.claim)' => settled(cc)
      BY <1>15, <1>18 DEF settled
    <3>5. \A c \in todo : listedClaims[c].node # None => chose(c, listedClaims[c].node)'
      BY <3>1, <1>1 DEF chose
    <3>6. claims'[cur.claim].node # None
      BY <3>1, <1>7, <1>18
    <3> QED BY <3>1, <3>2, <3>3, <3>4, <3>5, <3>6, <1>1, <1>18 DEF ProvisionInv, chose
  <2>3. FinalizeInv'
    <3> SUFFICES ASSUME stage = "finalize" PROVE FinalizeInv'
      BY <1>5 DEF FinalizeInv
    <3>0. FinalizeInv /\ todo \subseteq VolNames
      BY <2>0, <1>2 DEF TypeOK
    <3>1. /\ vv \notin todo /\ chose(cc, vv) /\ ~immediate(cc)
          /\ vols[vv].claimRef = cc \/ disputed(vv)
          /\ settled(cc) => ~promised(vv, cc)
      BY <3>0, <1>2, <1>18 DEF FinalizeInv
    <3>2. ASSUME NEW w \in todo, NEW d \in Claims, listedVols[w] # None, listedVols[w].claimRef = d
          PROVE  /\ vols[w].claimRef = d \/ disputed(w)
                 /\ listedVols[w].phase # "Bound" =>
                      /\ chose(d, w) /\ ~immediate(d)' /\ fits(listedVols[w], claims'[d])
                      /\ settled(d) => d \notin bound' /\ ~promised(w, d)
      <4>1. /\ vols[w].claimRef = d \/ disputed(w)
            /\ listedVols[w].phase # "Bound" =>
                 /\ chose(d, w) /\ ~immediate(d) /\ fits(listedVols[w], claims[d])
                 /\ settled(d) => d \notin bound /\ ~promised(w, d)
        BY <3>0, <3>2 DEF FinalizeInv
      <4>2. chose(d, w) /\ d = cc => ~settled(d)
        BY <3>0, <3>1, <1>2, <1>4, TwoChoices
      <4> QED BY <4>1, <4>2, <1>10, <1>11, <1>19
    <3>3. /\ chose(cc, vv) => chose(cur.claim, cur.vol)'
          /\ ~immediate(cc) => ~immediate(cur.claim)'
          /\ vols[vv].claimRef = cc \/ disputed(vv)
               => vols'[cur.vol].claimRef = cc \/ disputed(cur.vol)'
          /\ (settled(cc) => ~promised(vv, cc))
               => (settled(cur.claim)' => ~promised(cur.vol, cur.claim)')
      <4>1. immediate(cur.claim)' => immediate(cc)'
        BY <1>18 DEF immediate
      <4> QED BY <4>1, <1>1, <1>4, <1>11, <1>18 DEF chose, disputed, settled, promised
    <3>4. \A w \in todo : listedVols[w] # None
      BY <3>0 DEF FinalizeInv
    <3> QED BY <3>1, <3>2, <3>3, <3>4, <1>1, <1>15, <1>16, <1>18 DEF FinalizeInv
  <2> QED BY <2>0, <2>1, <2>2, <2>3 DEF StageInv
<1> QED BY <1>1, <1>8, <1>20, <1>21, <1>22, <1>23, <1>24, <1>25, <1>26, <1>27 DEF VInv, RefInv

LEMMA UpdateVolumeStep ==
  ASSUME VInv, UpdateVolume
  PROVE  VInv'
<1>0. PICK cc, vv : cc = cur.claim /\ vv = cur.vol
  OBVIOUS
<1>1. /\ pc = "updateVolume" /\ pc' = cur.next /\ cur' = NoBinding
      /\ UNCHANGED <<input, claims, todo, listedClaims, listedVols, decided, err, claimWrite,
                     volWrite>>
  BY DEF UpdateVolume, listed, writes
<1>2. TypeOK /\ updating /\ pc # "populate"
  BY <1>1 DEF VInv, updating
<1>3. BindInv /\ RefInv /\ ListInv /\ Fits /\ UpdateInv /\ StageInv
  BY <1>2 DEF VInv
<1>4. /\ cc \in Claims /\ vv \in VolNames /\ cur.pvc \in Claim /\ stage = cur.next
      /\ cur.pv \in Volume /\ cur.next \in {"immediate", "provision", "finalize"}
  BY <1>0, <1>2, CurFacts
<1>5. stage' = stage /\ ~updating' /\ pc' # "populate"
  BY <1>1, <1>4 DEF stage, updating
<1>6. /\ claims \in [Claims -> Claim]
      /\ vols \in [VolNames -> Volume \union {None}]
  BY <1>2, ClaimFacts DEF TypeOK
<1>7. /\ vols'[vv] = cur.pv /\ vols' \in [VolNames -> Volume \union {None}]
      /\ \A w \in VolNames \ {vv} : vols'[w] = vols[w]
  BY <1>0, <1>4, <1>6 DEF UpdateVolume
<1>8. TypeOK'
  BY <1>1, <1>2, <1>4, <1>5, <1>6, <1>7 DEF TypeOK, updating
<1>9. /\ vols[vv] # None /\ sameVolume(cur.pv, vols[vv])
      /\ cur.pv.phase = "Bound" /\ cur.pv.claimRef = cc
      /\ fits(cur.pv, cur.pvc) /\ sameClaim(cur.pvc, claims[cc])
      /\ \/ claims[cc] = cur.pvc /\ cur.pvc.phase = "Bound" /\ cur.pvc.volume = vv
         \/ cc \notin bound /\ ~settled(cc)
  BY <1>0, <1>1, <1>2, <1>3 DEF UpdateInv
<1>10. cur.pv # None /\ fits(cur.pv, claims[cc])
  BY <1>4, <1>9, NoneFacts DEF fits, sameClaim
<1>11. /\ bound' = bound /\ bound \subseteq Claims /\ pvcs' = pvcs
       /\ \A d : immediate(d)' <=> immediate(d)
       /\ \A w : contended(w)' <=> contended(w)
  BY <1>1 DEF bound, pvcs, immediate, classes, contended
<1>12. /\ \A d : settled(d)' <=> settled(d)
       /\ \A d, x : chose(d, x)' <=> chose(d, x)
       /\ \A w : disputed(w)' <=> disputed(w)
       /\ \A w, d : promised(w, d)' <=> promised(w, d)
  BY <1>1, DecidedSame DEF promised
<1>13. \A w \in VolNames : \A d : refers(w, d)' => refers(w, d) /\ w # vv
  BY <1>7, <1>9 DEF refers
<1>14. \A w \in VolNames : vols[w] # None => vols'[w] # None /\ sameVolume(vols'[w], vols[w])
  BY <1>7, <1>9, <1>10 DEF sameVolume
<1>15. \A w \in VolNames : vols'[w] # None => vols[w] # None
  BY <1>7, <1>9
<1>16. cc \in bound \/ ~settled(cc)
  BY <1>2, <1>4, <1>9, ClaimFacts
<1>17. ASSUME NEW d \in bound, d # cc, claims[d].volume = vv
       PROVE  contended(vv) \/ disputed(vv)
  <2>1. \/ contended(vv) \/ disputed(vv)
        \/ immediate(d) /\ immediate(cc) /\ cur.next = "immediate"
    BY <1>0, <1>2, <1>17, UpdateFacts
  <2>2. ASSUME immediate(d), immediate(cc), cur.next = "immediate"
        PROVE  contended(vv)
    <3>1. settled(cc)
      BY <2>2, <1>3, <1>4 DEF StageInv, ImmediateInv
    <3>2. cc \in bound /\ claims[cc].volume = vv
      BY <3>1, <1>9, <1>16
    <3> QED BY <2>2, <3>2, <1>17 DEF contended
  <2> QED BY <2>1, <2>2
<1>18. BindInv'
  <2>0. BoundToVolume /\ Exclusive /\ BoundRef /\ SimNew
    BY <1>3 DEF BindInv
  <2>1. BoundToVolume'
    <3> SUFFICES ASSUME NEW d \in bound, NEW v, v = claims[d].volume
                 PROVE  /\ v \in VolNames /\ vols'[v] # None
                        /\ v \in Volumes \union {SimVolume(d)} \/ chose(d, v)
                        /\ \/ contended(v) \/ disputed(v)
                           \/ vols'[v].claimRef = d /\ (settled(d) => vols'[v].phase = "Bound")
      BY <1>1, <1>11, <1>12 DEF BoundToVolume
    <3>1. /\ v \in VolNames /\ vols[v] # None
          /\ v \in Volumes \union {SimVolume(d)} \/ chose(d, v)
          /\ \/ contended(v) \/ disputed(v)
             \/ cc = d
             \/ vols[v].claimRef = d /\ (settled(d) => vols[v].phase = "Bound")
      BY <2>0, <1>0 DEF BoundToVolume
    <3>2. CASE v = vv /\ d = cc
      BY <3>1, <3>2, <1>7, <1>9, <1>14
    <3>3. CASE v = vv /\ d # cc
      BY <3>1, <3>3, <1>14, <1>17
    <3>4. CASE v # vv
      <4>1. d # cc
        BY <3>4, <1>9
      <4> QED BY <3>1, <3>4, <4>1, <1>7
    <3> QED BY <3>2, <3>3, <3>4
  <2>2. Exclusive'
    BY <2>0, <1>1, <1>11, <1>12 DEF Exclusive
  <2>3. BoundRef'
    <3> SUFFICES ASSUME NEW w \in VolNames, NEW d \in Claims,
                        vols'[w] # None, vols'[w].phase = "Bound", vols'[w].claimRef = d
                 PROVE  /\ d \in bound \/ ~settled(d)
                        /\ pvcs[d].phase = "Bound" \/ fits(vols'[w], claims[d])
      BY <1>1, <1>11, <1>12 DEF BoundRef, fits
    <3>1. CASE w = vv
      BY <3>1, <1>7, <1>9, <1>10, <1>16
    <3>2. CASE w # vv
      BY <3>2, <2>0, <1>7 DEF BoundRef
    <3> QED BY <3>1, <3>2
  <2>4. SimNew'
    <3> SUFFICES ASSUME NEW d \in Claims, NEW w, w = SimVolume(d), vols'[w] # None
                 PROVE  (d \in bound \/ ~settled(d)) /\ fits(vols'[w], claims[d])
      BY <1>1, <1>11, <1>12 DEF SimNew, fits
    <3>1. w \in VolNames /\ vols[w] # None
      BY <1>15, SimVolumeName
    <3>2. (d \in bound \/ ~settled(d)) /\ fits(vols[w], claims[d])
      BY <2>0, <3>1, <1>1 DEF SimNew
    <3> QED BY <3>1, <3>2, <1>14 DEF fits, sameVolume
  <2> QED BY <2>1, <2>2, <2>3, <2>4 DEF BindInv
<1>19. RefFits'
  <2> SUFFICES ASSUME NEW w \in VolNames, NEW d \in Claims, refers(w, d) \/ promised(w, d)
               PROVE  chose(d, w) /\ ~immediate(d) /\ fits(vols'[w], claims[d])
    BY <1>1, <1>11, <1>12, <1>13 DEF RefFits, fits
  <2>1. chose(d, w) /\ ~immediate(d) /\ fits(vols[w], claims[d]) /\ vols[w] # None
    BY <1>3 DEF RefInv, RefFits, VolumeWrites, refers, promised
  <2> QED BY <2>1, <1>14 DEF fits, sameVolume
<1>20. RefOnce'
  <2> SUFFICES ASSUME NEW w \in VolNames, NEW d \in Claims, settled(d)
               PROVE  /\ promised(w, d) => d \notin bound /\ vols'[w].claimRef # d
                      /\ ~(refers(w, d)' /\ d \in bound)
    BY <1>1, <1>11, <1>12 DEF RefOnce
  <2>1. /\ promised(w, d) => d \notin bound /\ vols[w].claimRef # d
        /\ refers(w, d) /\ d \in bound => cc = d /\ vv = w
    BY <1>0, <1>3 DEF RefInv, RefOnce
  <2>2. promised(w, d) => d # cc
    BY <2>1, <1>16
  <2> QED BY <2>1, <2>2, <1>7, <1>9, <1>13
<1>21. VolumeWrites'
  <2> SUFFICES ASSUME NEW w \in VolNames, volWrite[w] # None
               PROVE  /\ vols'[w] # None /\ sameVolume(volWrite[w], vols'[w])
                      /\ volWrite[w].claimRef \in Claims
                      /\ vols'[w].claimRef \in {None, volWrite[w].claimRef} \/ disputed(w)
                      /\ volWrite[w].phase = "Bound" => ~settled(volWrite[w].claimRef)
    BY <1>1, <1>12 DEF VolumeWrites, sameVolume
  <2>1. /\ vols[w] # None /\ sameVolume(volWrite[w], vols[w]) /\ volWrite[w].claimRef \in Claims
        /\ vols[w].claimRef \in {None, volWrite[w].claimRef} \/ disputed(w)
        /\ volWrite[w].phase = "Bound" => ~settled(volWrite[w].claimRef)
    BY <1>3 DEF RefInv, VolumeWrites
  <2>2. vols'[w] # None /\ sameVolume(volWrite[w], vols'[w])
    BY <2>1, <1>14 DEF sameVolume
  <2>3. CASE w = vv
    <3>1. volWrite[vv].claimRef # cc => disputed(vv)
      <4>1. volWrite[vv].claimRef # cc => promised(vv, volWrite[vv].claimRef)
        BY <2>3 DEF promised
      <4> QED BY <4>1, <2>1, <2>3, <1>0, <1>2, UpdateFacts
    <3> QED BY <2>1, <2>2, <2>3, <3>1, <1>7, <1>9
  <2>4. CASE w # vv
    BY <2>1, <2>2, <2>4, <1>7
  <2> QED BY <2>3, <2>4
<1>22. NodeChosen' /\ ClaimWrites' /\ SnapshotBound'
  <2>1. NodeChosen'
    BY <1>1, <1>3, <1>12 DEF RefInv, NodeChosen
  <2>2. ClaimWrites'
    BY <1>1, <1>3, <1>11, <1>12 DEF RefInv, ClaimWrites
  <2>3. SnapshotBound'
    BY <1>1, <1>3, <1>11 DEF RefInv, SnapshotBound
  <2> QED BY <2>1, <2>2, <2>3
<1>23. ListInv'
  <2>1. NodeClass'
    BY <1>1, <1>3, <1>11 DEF ListInv, NodeClass
  <2>2. \A w \in VolNames : listedVols[w] # None =>
          vols'[w] # None /\ sameVolume(listedVols[w], vols'[w])
    <3>1. ListedVolume
      BY <1>3 DEF ListInv
    <3> QED BY <3>1, <1>14 DEF ListedVolume, sameVolume
  <2>3. ListedVolume'
    BY <2>2, <1>1 DEF ListedVolume
  <2> QED BY <2>1, <2>3 DEF ListInv
<1>24. Fits'
  <2> SUFFICES ASSUME NEW d \in bound, pvcs[d].phase = "Pending"
               PROVE  /\ fits(vols'[claims[d].volume], claims[d])
                      /\ settled(d) /\ claims[d].node # None
                           => vols'[claims[d].volume].zone = ZoneOf[claims[d].node]
    BY <1>1, <1>11, <1>12 DEF Fits, fits
  <2>1. sameVolume(vols'[claims[d].volume], vols[claims[d].volume])
    BY <1>3, <1>14 DEF BindInv, BoundToVolume
  <2>2. /\ fits(vols[claims[d].volume], claims[d])
        /\ settled(d) /\ claims[d].node # None
             => vols[claims[d].volume].zone = ZoneOf[claims[d].node]
    BY <1>3 DEF Fits
  <2> QED BY <2>1, <2>2 DEF fits, sameVolume
<1>25. UpdateInv'
  BY <1>5 DEF UpdateInv
<1>26. StageInv'
  <2>0. RequestInv' /\ ImmediateInv /\ ProvisionInv /\ FinalizeInv
    BY <1>3, <1>4, <1>5 DEF StageInv, RequestInv
  <2>1. ImmediateInv'
    <3> SUFFICES ASSUME stage = "immediate" PROVE ImmediateInv'
      BY <1>5 DEF ImmediateInv
    <3>1. snapshotVols' = snapshotVols /\ (NoWrites => NoWrites')
      BY <1>1 DEF snapshotVols, NoWrites
    <3> QED BY <2>0, <3>1, <1>1, <1>5, <1>11, <1>12, <1>13 DEF ImmediateInv
  <2>2. ProvisionInv'
    BY <2>0, <1>1, <1>5, <1>12 DEF ProvisionInv, sameClaim
  <2>3. FinalizeInv'
    <3> SUFFICES ASSUME stage = "finalize" PROVE FinalizeInv'
      BY <1>5 DEF FinalizeInv
    <3>1. todo \subseteq VolNames /\ vv \notin todo
      BY <2>0, <1>0, <1>2 DEF TypeOK, FinalizeInv
    <3>2. \A w \in todo : vols'[w] = vols[w]
      BY <3>1, <1>7
    <3> QED BY <2>0, <3>2, <1>1, <1>5, <1>11, <1>12 DEF FinalizeInv, fits
  <2> QED BY <2>0, <2>1, <2>2, <2>3 DEF StageInv
<1> QED BY <1>5, <1>8, <1>18, <1>19, <1>20, <1>21, <1>22, <1>23, <1>24, <1>25, <1>26
        DEF VInv, RefInv
-----------------------------------------------------------------------------
(* The request view.                                                       *)

LEMMA PopulateViewStep ==
  ASSUME VInv, PopulateView
  PROVE  VInv'
<1>1. /\ TypeOK /\ pc = "populate" /\ pc' = "requestView" /\ NoWrites
      /\ listedVols = [v \in VolNames |-> None]
  BY DEF VInv, PopulateView
<1>2. UNCHANGED <<input, todo, listedClaims, listedVols, cur, err, claimWrite, volWrite>>
  BY DEF PopulateView, listed, writes
<1>3. pvcs \in [Claims -> Claim]
  BY <1>1, SnapshotFacts
<1>4. claims' = pvcs /\ vols' = snapshotVols
  BY <1>3 DEF PopulateView, pvcs, snapshotVols, AsPVC
<1>5. pvcs' = pvcs /\ snapshotVols' = snapshotVols /\ NoWrites'
  BY <1>1, <1>2 DEF pvcs, snapshotVols, NoWrites
<1>6. snapshotVols \in [VolNames -> Volume \union {None}]
  BY <1>1, SnapshotVolsFacts
<1>7. \A c \in Claims : decided'[c] = IF pvcs[c].node = None THEN <<>> ELSE <<pvcs[c].node>>
  BY <1>4 DEF PopulateView
<1>8. \A c \in Claims : pvcs[c].node \in Nodes \union {None}
  BY <1>3 DEF Claim
<1>9. ASSUME NEW c \in Claims
      PROVE  /\ decided'[c] \in Seq(Nodes \union VolNames) /\ settled(c)'
             /\ claims'[c].node # None => chose(c, claims[c].node)'
  <2>1. CASE pvcs[c].node = None
    <3>1. decided'[c] = <<>> /\ Len(<<>>) = 0
      BY <2>1, <1>7
    <3>2. <<>> \in Seq(Nodes \union VolNames)
      OBVIOUS
    <3> QED BY <2>1, <3>1, <3>2, <1>4 DEF settled
  <2>2. CASE pvcs[c].node # None
    <3>1. pvcs[c].node \in Nodes \union VolNames /\ decided'[c] = <<pvcs[c].node>>
      BY <2>2, <1>7, <1>8
    <3>2. /\ <<pvcs[c].node>> \in Seq(Nodes \union VolNames)
          /\ Len(<<pvcs[c].node>>) = 1 /\ 1 \in DOMAIN <<pvcs[c].node>>
          /\ <<pvcs[c].node>>[1] = pvcs[c].node
      BY <3>1
    <3>3. settled(c)'
      BY <3>1, <3>2 DEF settled
    <3>4. chose(c, claims[c].node)'
      BY <3>1, <3>2, <1>4 DEF chose
    <3> QED BY <3>1, <3>2, <3>3, <3>4
  <2> QED BY <2>1, <2>2
<1>10. stage' = "requestView" /\ ~updating' /\ cur' = NoBinding
  BY <1>1, <1>2 DEF stage, updating, TypeOK
<1>11. TypeOK'
  <2>1. decided' \in [Claims -> Seq(Nodes \union VolNames)]
    BY <1>9 DEF PopulateView
  <2> QED BY <2>1, <1>1, <1>2, <1>3, <1>4, <1>6, <1>10 DEF TypeOK
<1>12. bound' = {c \in Claims : pvcs[c].phase = "Bound"}
  BY <1>1, <1>4, <1>11, ClaimFacts, NoneFacts, <1>3 DEF bound
<1>13. \A v \in VolNames, c \in Claims :
         snapshotVols[v] # None /\ snapshotVols[v].claimRef = c => pvcs[c].phase = "Bound"
  BY <1>1, SnapshotVolsFacts
<1>14. ASSUME NEW c \in bound', NEW v, v = pvcs[c].volume
       PROVE  /\ v \in VolNames /\ v \in Volumes /\ snapshotVols[v] # None
              /\ snapshotVols[v].phase = "Bound" /\ snapshotVols[v].claimRef = c
  <2>1. /\ v \in DOMAIN input.snapshot.pvs
        /\ input.snapshot.pvs[v].phase = "Bound"
        /\ input.snapshot.pvs[v].claimRef = c
    BY <1>1, <1>12, <1>14, SnapshotFacts
  <2> QED BY <2>1, <1>1, SnapshotVolsFacts, SnapshotFacts
<1>15. \A v \in VolNames, c \in Claims : ~refers(v, c)'
  <2> SUFFICES ASSUME NEW v \in VolNames, NEW c \in Claims, snapshotVols[v] # None,
                      snapshotVols[v].claimRef = c
               PROVE  snapshotVols[v].phase = "Bound"
    BY <1>4 DEF refers
  <2>1. v \in DOMAIN input.snapshot.pvs /\ input.snapshot.pvs[v].claimRef = c
    BY <1>1, SnapshotVolsFacts
  <2>2. pvcs[c].volume = v
    BY <2>1, <1>1, SnapshotFacts
  <2>3. c \in bound'
    BY <1>12, <1>13
  <2> QED BY <2>2, <2>3, <1>14
<1>16. BindInv'
  <2>1. BoundToVolume'
    BY <1>4, <1>14 DEF BoundToVolume
  <2>2. Exclusive'
    BY <1>4, <1>14 DEF Exclusive, bound
  <2>3. BoundRef'
    BY <1>4, <1>5, <1>12, <1>13 DEF BoundRef
  <2>4. SimNew'
    BY <1>1, <1>4, SnapshotVolsFacts DEF SimNew
  <2> QED BY <2>1, <2>2, <2>3, <2>4 DEF BindInv
<1>17. RefInv'
  <2>1. \A v \in VolNames, c \in Claims : ~promised(v, c)' /\ ~refers(v, c)'
    BY <1>5, <1>15 DEF NoWrites, promised
  <2>2. RefFits'
    BY <2>1 DEF RefFits
  <2>6. RefOnce'
    BY <2>1 DEF RefOnce
  <2>5. VolumeWrites' /\ ClaimWrites'
    BY <1>5 DEF VolumeWrites, ClaimWrites, NoWrites
  <2>3. NodeChosen'
    BY <1>9 DEF NodeChosen
  <2>4. SnapshotBound'
    BY <1>5, <1>12 DEF SnapshotBound, NoWrites
  <2> QED BY <2>2, <2>3, <2>4, <2>5, <2>6 DEF RefInv
<1>18. ListInv'
  <2>1. NodeClass'
    <3> SUFFICES ASSUME NEW c \in Claims, c \notin bound', pvcs[c].node # None
                 PROVE  pvcs[c].class # None
      BY <1>4 DEF NodeClass
    <3>1. pvcs[c].phase = "Pending"
      <4>1. pvcs[c].phase \in {"Pending", "Bound"}
        BY <1>3 DEF Claim
      <4> QED BY <4>1, <1>12
    <3> QED BY <3>1, <1>1, SnapshotFacts
  <2>2. ListedVolume'
    BY <1>1, <1>2 DEF ListedVolume
  <2> QED BY <2>1, <2>2 DEF ListInv
<1>19. Fits'
  BY <1>5, <1>12 DEF Fits
<1>20. UpdateInv' /\ StageInv'
  <2>1. RequestInv'
    BY <1>4, <1>5, <1>9, <1>15 DEF RequestInv
  <2> QED BY <2>1, <1>10 DEF UpdateInv, StageInv, ImmediateInv, ProvisionInv, FinalizeInv
<1> QED BY <1>1, <1>11, <1>16, <1>17, <1>18, <1>19, <1>20 DEF VInv
-----------------------------------------------------------------------------
(* The steps of a round that bind nothing and create nothing.              *)

LEMMA FrameKeeps ==
  ASSUME VInv, TypeOK', pc # "populate", pc' \notin {"populate", "requestView"},
         ~updating, ~updating', UNCHANGED <<input, claims, vols, decided, claimWrite, volWrite>>
  PROVE  /\ bound' = bound
         /\ (BindInv /\ RefInv /\ NodeClass /\ Fits /\ UpdateInv /\ RequestInv)'
<1>1. TypeOK
  BY DEF VInv
<1>2. GrowStep(None)
  <2>1. claims \in [Claims -> Claim]
    BY <1>1, ClaimFacts
  <2> QED BY <2>1 DEF GrowStep, updating
<1>3. bound' = bound /\ (BindInv /\ RefInv /\ Fits)'
  BY <1>2, GrowKeeps
<1>4. NodeClass'
  BY <1>3 DEF VInv, ListInv, NodeClass
<1>5. UpdateInv' /\ RequestInv'
  BY DEF UpdateInv, RequestInv, stage, updating
<1> QED BY <1>3, <1>4, <1>5

(* A step to where nothing is listed or bound.                             *)
LEMMA RestStep ==
  ASSUME VInv, pc # "populate", ~updating, pc' \in {"idle", "failed", "ended"}, err' \in BOOLEAN,
         UNCHANGED <<input, claims, vols, listedClaims, listedVols, cur, decided, claimWrite,
                     volWrite>>
  PROVE  VInv'
<1>1. TypeOK /\ stage' = pc' /\ ~updating'
  BY DEF VInv, stage, updating
<1>2. TypeOK'
  BY <1>1 DEF TypeOK, updating
<1>3. (BindInv /\ RefInv /\ NodeClass /\ Fits /\ UpdateInv /\ RequestInv)'
  BY <1>1, <1>2, FrameKeeps
<1>4. ListedVolume'
  BY DEF VInv, ListInv, ListedVolume
<1>5. StageInv'
  BY <1>1, <1>3 DEF StageInv, ImmediateInv, ProvisionInv, FinalizeInv
<1> QED BY <1>2, <1>3, <1>4, <1>5 DEF VInv, ListInv

LEMMA ImmediateModeStep ==
  ASSUME VInv, BindClaimsForImmediateMode
  PROVE  VInv'
<1>1. /\ TypeOK /\ pc = "requestView" /\ ~updating /\ pc # "populate"
      /\ UNCHANGED <<input, claims, vols, cur, decided, err, claimWrite, volWrite>>
  BY DEF VInv, BindClaimsForImmediateMode, updating, view, writes
<1>2. CASE pc' = "idle" /\ UNCHANGED <<todo, listedClaims, listedVols>>
  BY <1>1, <1>2, RestStep DEF TypeOK
<1>3. CASE /\ pc' = "immediate" /\ todo' = Claims
           /\ listedClaims' = claims /\ listedVols' = vols
  <2>1. stage' = "immediate" /\ ~updating' /\ stage = "requestView"
    BY <1>1, <1>3 DEF stage, updating
  <2>2. TypeOK'
    <3>1. claims \in [Claims -> Claim]
      BY <1>1, ClaimFacts
    <3> QED BY <3>1, <2>1, <1>1, <1>3 DEF TypeOK, updating
  <2>3. bound' = bound /\ (BindInv /\ RefInv /\ NodeClass /\ Fits /\ UpdateInv /\ RequestInv)'
    BY <2>1, <2>2, <1>1, <1>3, FrameKeeps
  <2>4. ListedVolume'
    BY <1>1, <1>3 DEF ListedVolume, sameVolume
  <2>5. /\ claims = pvcs /\ vols = snapshotVols /\ NoWrites
        /\ \A c \in Claims : settled(c)
        /\ \A v \in VolNames, c \in Claims : ~refers(v, c)
    BY <2>1, <1>1 DEF VInv, StageInv, RequestInv
  <2>6. pvcs' = pvcs /\ snapshotVols' = snapshotVols
    BY <1>1 DEF pvcs, snapshotVols
  <2>7. \A c \in bound : pvcs[c].phase = "Bound"
    BY <2>5, <1>1, ClaimFacts
  <2>8. /\ \A v \in VolNames, c \in Claims : ~refers(v, c)'
        /\ NoWrites' /\ \A c \in Claims : settled(c)'
    BY <2>5, <1>1 DEF refers, NoWrites, settled
  <2>9. ImmediateInv'
    BY <2>1, <2>3, <2>5, <2>6, <2>7, <2>8, <1>1, <1>3 DEF ImmediateInv
  <2>10. StageInv'
    BY <2>1, <2>3, <2>9 DEF StageInv, ProvisionInv, FinalizeInv
  <2> QED BY <2>2, <2>3, <2>4, <2>10, <1>3 DEF VInv, ListInv
<1> QED BY <1>2, <1>3 DEF BindClaimsForImmediateMode, listed

LEMMA DoWorkStep ==
  ASSUME VInv, DoWork
  PROVE  VInv'
<1>1. /\ TypeOK /\ pc = "idle" /\ pc' = "provision" /\ ~updating /\ ~updating'
      /\ todo' = Claims /\ listedClaims' = claims
      /\ UNCHANGED <<input, claims, vols, listedVols, cur, decided, err, claimWrite, volWrite>>
  BY DEF VInv, DoWork, view, writes, updating
<1>2. stage' = "provision"
  BY <1>1 DEF stage
<1>3. TypeOK'
  <2>1. claims \in [Claims -> Claim]
    BY <1>1, ClaimFacts
  <2> QED BY <2>1, <1>1, <1>2 DEF TypeOK
<1>4. (BindInv /\ RefInv /\ NodeClass /\ Fits /\ UpdateInv /\ RequestInv)'
  BY <1>1, <1>3, FrameKeeps
<1>5. ListedVolume'
  BY <1>1 DEF VInv, ListInv, ListedVolume
<1>6. ProvisionInv'
  <2>1. NodeChosen'
    BY <1>4 DEF RefInv
  <2>2. \A c \in Claims : claims[c].node # None => chose(c, claims[c].node)'
    BY <2>1, <1>1 DEF NodeChosen
  <2> QED BY <2>2, <1>1 DEF ProvisionInv, sameClaim
<1>7. StageInv'
  BY <1>2, <1>4, <1>6 DEF StageInv, ImmediateInv, FinalizeInv
<1> QED BY <1>1, <1>3, <1>4, <1>5, <1>7 DEF VInv, ListInv

LEMMA SkipProvisionStep ==
  ASSUME VInv, NEW c \in Claims, SkipProvision(c)
  PROVE  VInv'
<1>1. /\ TypeOK /\ pc = "provision" /\ pc' = "provision" /\ ~updating /\ ~updating'
      /\ todo' = todo \ {c}
      /\ UNCHANGED <<input, claims, vols, listedClaims, listedVols, cur, decided, err,
                     claimWrite, volWrite>>
  BY DEF VInv, SkipProvision, view, listed, writes, updating
<1>2. stage = "provision" /\ stage' = "provision"
  BY <1>1 DEF stage
<1>3. TypeOK'
  BY <1>1, <1>2 DEF TypeOK
<1>4. (BindInv /\ RefInv /\ NodeClass /\ Fits /\ UpdateInv /\ RequestInv)'
  BY <1>1, <1>3, FrameKeeps
<1>5. ListedVolume'
  BY <1>1 DEF VInv, ListInv, ListedVolume
<1>6. ProvisionInv'
  <2>1. ProvisionInv
    BY <1>1 DEF VInv, StageInv
  <2>2. \A d, x : chose(d, x)' <=> chose(d, x)
    BY <1>1, DecidedSame
  <2> QED BY <2>1, <2>2, <1>1, <1>2 DEF ProvisionInv
<1>7. StageInv'
  BY <1>2, <1>4, <1>6 DEF StageInv, ImmediateInv, FinalizeInv
<1> QED BY <1>1, <1>3, <1>4, <1>5, <1>7 DEF VInv, ListInv

LEMMA FinalizeStep ==
  ASSUME VInv, Finalize
  PROVE  VInv'
<1>1. /\ TypeOK /\ pc = "provision" /\ pc' = "finalize" /\ ~updating /\ ~updating'
      /\ todo' = {v \in VolNames : vols[v] # None} /\ listedVols' = vols /\ err' = FALSE
      /\ UNCHANGED <<input, claims, vols, listedClaims, cur, decided, claimWrite, volWrite>>
  BY DEF VInv, Finalize, view, writes, updating
<1>2. stage' = "finalize"
  BY <1>1 DEF stage
<1>3. TypeOK'
  BY <1>1, <1>2 DEF TypeOK
<1>4. (BindInv /\ RefInv /\ NodeClass /\ Fits /\ UpdateInv /\ RequestInv)' /\ bound' = bound
  BY <1>1, <1>3, FrameKeeps
<1>5. ListedVolume'
  BY <1>1 DEF ListedVolume, sameVolume
<1>6. FinalizeInv'
  <2>1. RefInv
    BY <1>1 DEF VInv
  <2>2. ASSUME NEW v \in VolNames, NEW c \in Claims, refers(v, c)
        PROVE  /\ chose(c, v) /\ ~immediate(c) /\ fits(vols[v], claims[c])
               /\ settled(c) => c \notin bound /\ ~promised(v, c)
    <3>1. settled(c) => c \notin bound /\ ~promised(v, c)
      BY <2>1, <2>2, <1>1 DEF RefInv, RefOnce, refers
    <3> QED BY <2>1, <2>2, <3>1 DEF RefInv, RefFits
  <2>3. ASSUME NEW v \in VolNames, NEW c \in Claims
        PROVE  /\ (settled(c)' <=> settled(c)) /\ (promised(v, c)' <=> promised(v, c))
               /\ (chose(c, v)' <=> chose(c, v)) /\ (immediate(c)' <=> immediate(c))
    BY <1>1 DEF settled, promised, chose, immediate, classes
  <2> QED BY <2>2, <2>3, <1>1, <1>4 DEF FinalizeInv, refers
<1>7. StageInv'
  BY <1>2, <1>4, <1>6 DEF StageInv, ImmediateInv, ProvisionInv
<1> QED BY <1>1, <1>3, <1>4, <1>5, <1>7 DEF VInv, ListInv

(* A volume is passed over, with an error or without.                      *)
LEMMA PassOver ==
  ASSUME VInv, NEW v \in VolNames, pc = "finalize", pc' = "finalize", todo' = todo \ {v},
         err' \in BOOLEAN,
         UNCHANGED <<input, claims, vols, listedClaims, listedVols, cur, decided, claimWrite,
                     volWrite>>
  PROVE  VInv'
<1>1. TypeOK /\ stage = "finalize" /\ stage' = "finalize" /\ ~updating /\ ~updating'
  BY DEF VInv, stage, updating
<1>2. TypeOK'
  BY <1>1 DEF TypeOK
<1>3. (BindInv /\ RefInv /\ NodeClass /\ Fits /\ UpdateInv /\ RequestInv)' /\ bound' = bound
  BY <1>1, <1>2, FrameKeeps
<1>4. ListedVolume'
  BY DEF VInv, ListInv, ListedVolume
<1>5. FinalizeInv'
  <2>1. FinalizeInv
    BY DEF VInv, StageInv
  <2>2. \A w, c : /\ (settled(c)' <=> settled(c)) /\ (promised(w, c)' <=> promised(w, c))
                  /\ (chose(c, w)' <=> chose(c, w)) /\ (immediate(c)' <=> immediate(c))
                  /\ (disputed(w)' <=> disputed(w))
    BY DEF settled, promised, chose, immediate, classes, disputed
  <2> QED BY <2>1, <2>2, <1>1, <1>3 DEF FinalizeInv
<1>6. StageInv'
  BY <1>1, <1>3, <1>5 DEF StageInv, ImmediateInv, ProvisionInv
<1> QED BY <1>2, <1>3, <1>4, <1>6 DEF VInv, ListInv

LEMMA SkipFinalizeStep ==
  ASSUME VInv, NEW v \in VolNames, SkipFinalize(v) \/ FinalizeOrphan(v)
  PROVE  VInv'
<1>1. err \in BOOLEAN
  BY DEF VInv, TypeOK
<1> QED BY <1>1, PassOver DEF SkipFinalize, FinalizeOrphan, view, listed, writes

LEMMA SkipImmediateStep ==
  ASSUME VInv, NEW c \in Claims, SkipImmediate(c)
  PROVE  VInv'
<1>1. /\ TypeOK /\ pc = "immediate" /\ pc' = "immediate" /\ ~updating /\ ~updating'
      /\ todo' = todo \ {c} /\ c \in todo
      /\ UNCHANGED <<input, vols, listedClaims, listedVols, cur, decided, err, claimWrite,
                     volWrite>>
  BY DEF VInv, SkipImmediate, isNext, listed, writes, updating
<1>2. stage = "immediate" /\ stage' = "immediate"
  BY <1>1 DEF stage
<1>3. ImmediateInv /\ ListInv /\ BindInv
  BY <1>1 DEF VInv, StageInv
<1>4. /\ claims \in [Claims -> Claim] /\ claims[c] = listedClaims[c] /\ listedClaims[c] = pvcs[c]
      /\ NoWrites /\ \A d \in Claims : settled(d)
      /\ \A v \in VolNames, d \in Claims : ~refers(v, d)
  BY <1>1, <1>2, <1>3, ClaimFacts DEF ImmediateInv
<1>5. \/ claims' = claims
      \/ /\ claims[c].phase = "Pending"
         /\ \E s \in classOf(claims[c]) : claims' = [claims EXCEPT ![c].class = s]
  BY <1>4 DEF SkipImmediate
<1>6. \/ claims' = claims
      \/ /\ claims[c].phase = "Pending"
         /\ \E s \in STRING : claims' = [claims EXCEPT ![c].class = s]
  <2>1. classOf(claims[c]) \subseteq DOMAIN classes
    BY DEF classOf, GetDefaultStorageClass
  <2> QED BY <2>1, <1>1, <1>5, SnapshotFacts
<1>7. /\ claims' \in [Claims -> Claim] /\ \A d \in Claims \ {c} : claims'[d] = claims[d]
      /\ claims'[c].phase = claims[c].phase /\ claims'[c].node = claims[c].node
      /\ claims'[c] = claims[c] \/ (claims[c].phase = "Pending" /\ claims'[c].class # None)
  <2>1. CASE claims' = claims
    BY <2>1, <1>4
  <2>2. ASSUME NEW s \in STRING, claims' = [claims EXCEPT ![c].class = s],
               claims[c].phase = "Pending"
        PROVE  /\ claims' \in [Claims -> Claim]
               /\ \A d \in Claims \ {c} : claims'[d] = claims[d]
               /\ claims'[c].phase = claims[c].phase /\ claims'[c].node = claims[c].node
               /\ claims'[c].class # None
    <3>1. claims[c] \in Claim
      BY <1>4
    <3>2. claims'[c] = [claims[c] EXCEPT !.class = s]
      BY <2>2, <1>4
    <3>3. /\ claims'[c] \in Claim /\ claims'[c].phase = claims[c].phase
          /\ claims'[c].node = claims[c].node /\ claims'[c].class = s
      BY <3>1, <3>2 DEF Claim
    <3> QED BY <2>2, <3>3, <1>4, NoneFacts
  <2> QED BY <2>1, <2>2, <1>6
<1>8. TypeOK'
  BY <1>1, <1>2, <1>7 DEF TypeOK
<1>9. c \notin bound => vols[SimVolume(c)] = None
  BY <1>1, <1>3, <1>4 DEF BindInv, SimNew
<1>10. c \in bound => claims'[c] = claims[c]
  BY <1>1, <1>7, ClaimFacts
<1>11. GrowStep(None)
  <2>1. \A d \in Claims : \/ claims'[d] = claims[d]
                          \/ d \notin bound /\ vols[SimVolume(d)] = None
    BY <1>7, <1>9, <1>10
  <2> QED BY <2>1, <1>1, <1>4, <1>7 DEF GrowStep
<1>12. /\ bound' = bound /\ (BindInv /\ RefInv /\ Fits)'
       /\ \A v \in VolNames, d \in Claims : refers(v, d)' <=> refers(v, d)
       /\ \A d \in bound : immediate(d)' <=> immediate(d)
  BY <1>8, <1>11, GrowKeeps
<1>13. NodeClass' /\ ListedVolume'
  BY <1>1, <1>3, <1>7, <1>12 DEF ListInv, NodeClass, ListedVolume
<1>14. ImmediateInv'
  <2>1. pvcs' = pvcs /\ snapshotVols' = snapshotVols /\ NoWrites'
        /\ \A d \in Claims : settled(d)'
    BY <1>1, <1>4 DEF pvcs, snapshotVols, NoWrites, settled
  <2>2. todo \subseteq Claims
    BY <1>1, <1>2 DEF TypeOK
  <2>3. \A d \in todo' : claims'[d] = pvcs[d]
    BY <2>2, <1>1, <1>2, <1>3, <1>7 DEF ImmediateInv
  <2>4. \A d \in Claims : pvcs[d].phase = "Bound" => claims'[d] = pvcs[d]
    BY <1>2, <1>3, <1>4, <1>7 DEF ImmediateInv
  <2> QED BY <2>1, <2>3, <2>4, <1>1, <1>2, <1>3, <1>4, <1>12 DEF ImmediateInv
<1>15. UpdateInv' /\ StageInv'
  BY <1>1, <1>2, <1>14 DEF UpdateInv, StageInv, RequestInv, ProvisionInv, FinalizeInv
<1> QED BY <1>1, <1>8, <1>12, <1>13, <1>15 DEF VInv, ListInv
-----------------------------------------------------------------------------
(* The steps that begin a binding.                                         *)

LEMMA BeginBinding ==
  ASSUME NEW c \in Claims, NEW pvc \in Claim, NEW v \in VolNames, NEW pv \in Volume,
         NEW next \in {"immediate", "provision", "finalize"}, bindWith(c, pvc, v, pv, next),
         vols'[v] # None, sameVolume(pv, vols'[v]), sameClaim(pvc, claims'[c]), fits(pv, pvc),
         decided' = decided, c \in bound' => ~settled(c), pvc.node # None => chose(c, pvc.node)
  PROVE  /\ UpdateInv' /\ updating' /\ stage' = next /\ pc' = "updateClaim"
         /\ cur'.claim = c /\ cur'.vol = v /\ cur'.next = next /\ cur'.pvc.node = pvc.node
         /\ cur'.pv.zone = pv.zone
         /\ cur' \in [claim : Claims, vol : VolNames, pvc : Claim, pv : Volume,
                      next : {"immediate", "provision", "finalize"}]
<1>1. /\ pc' = "updateClaim"
      /\ cur' \in [claim : Claims, vol : VolNames, pvc : Claim, pv : Volume,
                   next : {"immediate", "provision", "finalize"}]
      /\ cur'.claim = c /\ cur'.vol = v /\ cur'.next = next
      /\ sameClaim(cur'.pvc, pvc) /\ cur'.pvc.node = pvc.node
      /\ cur'.pvc.phase = "Bound" /\ cur'.pvc.volume = v
      /\ sameVolume(cur'.pv, pv) /\ cur'.pv.phase = "Bound" /\ cur'.pv.claimRef = c
  BY BindWithFacts
<1>2. updating' /\ stage' = next
  BY <1>1 DEF updating, stage
<1>3. sameVolume(cur'.pv, vols'[v]) /\ cur'.pv.zone = pv.zone
  BY <1>1 DEF sameVolume
<1>4. sameClaim(cur'.pvc, claims'[c])
  BY <1>1 DEF sameClaim
<1>5. fits(cur'.pv, cur'.pvc)
  BY <1>1 DEF fits, sameClaim, sameVolume
<1>6. settled(cur.claim)' <=> settled(c)
  BY <1>1 DEF settled
<1>7. cur'.pvc.node # None => chose(cur.claim, cur.pvc.node)'
  BY <1>1 DEF chose
<1>8. UpdateInv'
  BY <1>1, <1>2, <1>3, <1>4, <1>5, <1>6, <1>7 DEF UpdateInv
<1> QED BY <1>1, <1>2, <1>3, <1>8

LEMMA FinalizeVolumeStep ==
  ASSUME VInv, NEW v \in VolNames, FinalizeVolume(v)
  PROVE  VInv'
<1>0. PICK c : c = listedVols[v].claimRef
  OBVIOUS
<1>1. /\ TypeOK /\ pc = "finalize" /\ ~updating /\ v \in todo /\ todo' = todo \ {v}
      /\ err' = FALSE
      /\ UNCHANGED <<input, claims, vols, listedClaims, listedVols, decided, claimWrite, volWrite>>
  BY DEF VInv, FinalizeVolume, view, listed, writes, updating
<1>2. /\ c \in Claims /\ listedVols[v].phase # "Bound"
      /\ bindWith(c, claims[c], v, listedVols[v], "finalize")
  BY <1>0 DEF FinalizeVolume, referenced
<1>3. BindInv /\ RefInv /\ ListInv /\ StageInv /\ stage = "finalize"
  BY <1>1 DEF VInv, stage
<1>4. /\ todo \subseteq VolNames /\ listedVols[v] # None
      /\ vols[v].claimRef = c \/ disputed(v)
      /\ chose(c, v) /\ ~immediate(c) /\ fits(listedVols[v], claims[c])
      /\ settled(c) => c \notin bound /\ ~promised(v, c)
  BY <1>0, <1>1, <1>2, <1>3 DEF TypeOK, StageInv, FinalizeInv
<1>5. vols[v] # None /\ sameVolume(listedVols[v], vols[v]) /\ listedVols[v] \in Volume
  BY <1>1, <1>3, <1>4 DEF ListInv, ListedVolume, TypeOK
<1>6. claims[c] \in Claim /\ claims \in [Claims -> Claim]
  BY <1>1, <1>2, ClaimFacts
<1>7. claims[c].node # None => chose(c, claims[c].node)
  BY <1>2, <1>3 DEF RefInv, NodeChosen
<1>8. bound' = bound
  BY <1>1 DEF bound
<1>9. /\ UpdateInv' /\ updating' /\ stage' = "finalize" /\ pc' = "updateClaim"
      /\ cur'.claim = c /\ cur'.vol = v
      /\ cur' \in [claim : Claims, vol : VolNames, pvc : Claim, pv : Volume,
                   next : {"immediate", "provision", "finalize"}]
  <2>1. vols'[v] # None /\ sameVolume(listedVols[v], vols'[v])
    BY <1>1, <1>5
  <2>2. sameClaim(claims[c], claims'[c])
    BY <1>1 DEF sameClaim
  <2> QED BY <2>1, <2>2, <1>1, <1>2, <1>4, <1>5, <1>6, <1>7, <1>8, BeginBinding
<1>10. TypeOK'
  BY <1>1, <1>4, <1>9 DEF TypeOK
<1>11. GrowStep(None)
  BY <1>1, <1>6, <1>9 DEF GrowStep
<1>12. (BindInv /\ RefInv /\ Fits)'
  BY <1>10, <1>11, GrowKeeps
<1>13. ListInv'
  BY <1>1, <1>3, <1>8 DEF ListInv, NodeClass, ListedVolume
<1>14. FinalizeInv'
  <2>1. \A w, d : /\ (settled(d)' <=> settled(d)) /\ (promised(w, d)' <=> promised(w, d))
                  /\ (chose(d, w)' <=> chose(d, w)) /\ (immediate(d)' <=> immediate(d))
                  /\ (disputed(w)' <=> disputed(w))
    BY <1>1 DEF settled, promised, chose, immediate, classes, disputed
  <2>2. FinalizeInv
    BY <1>3 DEF StageInv
  <2>3. /\ chose(cur.claim, cur.vol)' /\ ~immediate(cur.claim)'
        /\ (vols[cur.vol].claimRef = cur.claim \/ disputed(cur.vol))'
        /\ (settled(cur.claim) => ~promised(cur.vol, cur.claim))'
    BY <1>1, <1>4, <1>9 DEF settled, promised, chose, immediate, classes, disputed
  <2> QED BY <2>1, <2>2, <2>3, <1>1, <1>3, <1>8, <1>9 DEF FinalizeInv
<1>15. StageInv'
  BY <1>9, <1>14 DEF StageInv, RequestInv, ImmediateInv, ProvisionInv
<1> QED BY <1>9, <1>10, <1>12, <1>13, <1>15 DEF VInv

LEMMA ProvisionVolumeStep ==
  ASSUME VInv, NEW c \in Claims, ProvisionVolume(c)
  PROVE  VInv'
<1>0. PICK pvc, zone, sim : /\ pvc = listedClaims[c] /\ zone = getSelectedNodeZone(pvc)
                            /\ sim = simulatedVolume(c, pvc, zone)
  OBVIOUS
<1>1. /\ TypeOK /\ pc = "provision" /\ ~updating /\ c \in todo /\ todo' = todo \ {c}
      /\ pvc.phase = "Pending" /\ pvc.node # None
      /\ UNCHANGED <<input, claims, listedClaims, listedVols, decided, err, claimWrite, volWrite>>
  BY <1>0 DEF VInv, ProvisionVolume, selected, listed, writes, updating
<1>2. BindInv /\ RefInv /\ ListInv /\ StageInv /\ stage = "provision"
  BY <1>1 DEF VInv, stage
<1>3. CASE pc' = "failed" /\ UNCHANGED <<vols, cur>>
  BY <1>1, <1>3, RestStep DEF TypeOK
<1>4. CASE /\ vols' = [vols EXCEPT ![SimVolume(c)] = sim]
           /\ bindWith(c, pvc, SimVolume(c), sim, "provision")
  <2>1. /\ todo \subseteq Claims /\ pvc \in Claim /\ claims[c].phase = "Pending"
        /\ claims[c].node # None /\ sameClaim(pvc, claims[c]) /\ chose(c, pvc.node)
    BY <1>0, <1>1, <1>2 DEF TypeOK, StageInv, ProvisionInv
  <2>2. c \notin bound
    BY <2>1, <1>1, ClaimFacts
  <2>3. pvc.class # None
    BY <2>1, <2>2, <1>2 DEF ListInv, NodeClass, sameClaim
  <2>4. zone \in STRING /\ zone = ZoneOf[pvc.node]
    <3>1. pvc.node \in Nodes
      BY <2>1, <1>1 DEF Claim
    <3> QED BY <3>1, <1>0, VolumeAssumption DEF getSelectedNodeZone
  <2>5. SimVolume(c) \in VolNames /\ vols \in [VolNames -> Volume \union {None}]
    BY <1>1, SimVolumeName DEF TypeOK
  <2>6. /\ sim \in Volume /\ fits(sim, pvc)
        /\ vols[SimVolume(c)] # None => sim = vols[SimVolume(c)] /\ ~settled(c)
        /\ vols[SimVolume(c)] = None =>
             sim.phase = "Available" /\ sim.claimRef = None /\ sim.zone = zone
    <3>1. CASE vols[SimVolume(c)] = None
      BY <2>1, <2>3, <2>4, <3>1, <1>0, SimulatedFacts
    <3>2. CASE vols[SimVolume(c)] # None
      <4>1. sim = vols[SimVolume(c)]
        BY <3>2, <1>0 DEF simulatedVolume
      <4>2. ~settled(c) /\ fits(vols[SimVolume(c)], claims[c])
        BY <2>2, <3>2, <1>1, <1>2 DEF BindInv, SimNew
      <4>3. fits(sim, pvc)
        BY <4>1, <4>2, <2>1 DEF fits, sameClaim
      <4> QED BY <3>2, <4>1, <4>2, <4>3, <2>5
    <3> QED BY <3>1, <3>2
  <2>7. /\ vols' \in [VolNames -> Volume \union {None}]
        /\ vols'[SimVolume(c)] = sim /\ sim # None
        /\ \A w \in VolNames \ {SimVolume(c)} : vols'[w] = vols[w]
        /\ \A w \in VolNames : vols[w] # None => vols'[w] = vols[w]
    BY <2>5, <2>6, <1>4, NoneFacts
  <2>8. bound' = bound
    BY <1>1 DEF bound
  <2>9. /\ UpdateInv' /\ updating' /\ stage' = "provision" /\ pc' = "updateClaim"
        /\ cur'.claim = c /\ cur'.vol = SimVolume(c)
        /\ cur'.pvc.node = pvc.node /\ cur'.pv.zone = sim.zone
        /\ cur' \in [claim : Claims, vol : VolNames, pvc : Claim, pv : Volume,
                     next : {"immediate", "provision", "finalize"}]
    <3>1. sameVolume(sim, vols'[SimVolume(c)])
      BY <2>7 DEF sameVolume
    <3>2. sameClaim(pvc, claims'[c])
      BY <2>1, <1>1
    <3> QED BY <2>1, <2>2, <2>5, <2>6, <2>7, <2>8, <3>1, <3>2, <1>1, <1>4, BeginBinding
  <2>10. TypeOK'
    BY <2>1, <2>7, <2>9, <1>1, <1>2 DEF TypeOK
  <2>11. GrowStep(c)
    <3>1. claims \in [Claims -> Claim]
      BY <1>1, ClaimFacts
    <3>2. fits(sim, claims'[c])
      BY <2>1, <2>6, <1>1 DEF fits, sameClaim
    <3> QED BY <2>6, <2>7, <2>9, <3>1, <3>2, <1>1 DEF GrowStep
  <2>12. (BindInv /\ RefInv /\ Fits)'
    BY <2>10, <2>11, GrowKeeps
  <2>13. NodeClass'
    BY <2>8, <1>1, <1>2 DEF ListInv, NodeClass
  <2>14. ListedVolume'
    BY <2>7, <1>1, <1>2 DEF ListInv, ListedVolume
  <2>15. ProvisionInv'
    <3>1. ProvisionInv
      BY <1>2 DEF StageInv
    <3>2. \A d, x : (chose(d, x)' <=> chose(d, x)) /\ (settled(d)' <=> settled(d))
      BY <1>1, DecidedSame
    <3>3. settled(cur.claim)' => settled(c)
      BY <2>9, <1>1 DEF settled
    <3>4. settled(c) => sim.zone = ZoneOf[pvc.node]
      BY <2>4, <2>6
    <3> QED BY <3>1, <3>2, <3>3, <3>4, <2>1, <2>2, <2>8, <2>9, <1>1, <1>2 DEF ProvisionInv
  <2>16. StageInv'
    BY <2>9, <2>15 DEF StageInv, RequestInv, ImmediateInv, FinalizeInv
  <2> QED BY <2>9, <2>10, <2>12, <2>13, <2>14, <2>16 DEF VInv, ListInv
<1> QED BY <1>0, <1>3, <1>4 DEF ProvisionVolume
(* The volume chosen in Immediate mode is one of the snapshot that no      *)
(* claim of the snapshot has, or a new one, and fits.                      *)
LEMMA ChosenFacts ==
  ASSUME VInv, pc = "immediate", NEW c \in todo, listedClaims[c].phase = "Pending",
         NEW s \in DOMAIN classes, NEW pvc \in Claim, pvc.class = s,
         NEW o \in FindExistingOrCreateSimulatedBindableVolume(c, pvc, s)
  PROVE  /\ o.name \in VolNames /\ o.pv \in Volume /\ fits(o.pv, pvc)
         /\ \/ vols[o.name] # None /\ sameVolume(o.pv, vols[o.name])
            \/ /\ vols[o.name] = None /\ o.name = SimVolume(c)
               /\ o.pv.phase = "Available" /\ o.pv.claimRef = None
         /\ o.name \in Volumes \union {SimVolume(c)}
         /\ \A d \in bound : claims[d].volume = o.name => immediate(d)
<1>1. TypeOK /\ stage = "immediate"
  BY DEF VInv, stage
<1>2. BindInv /\ ListInv /\ ImmediateInv
  BY DEF VInv, StageInv
<1>3. /\ listedClaims = pvcs /\ listedVols = snapshotVols /\ claims[c] = pvcs[c]
      /\ \A d \in Claims : pvcs[d].phase = "Bound" => claims[d] = pvcs[d]
      /\ \A d \in bound : pvcs[d].phase = "Bound" \/ immediate(d)
      /\ \A d \in Claims : settled(d)
  BY <1>1, <1>2 DEF ImmediateInv
<1>4. c \in Claims /\ c \notin bound
  BY <1>1, <1>3, ClaimFacts DEF TypeOK
<1>5. s \in STRING /\ classes[s].topology \in STRING
  BY <1>1, SnapshotFacts DEF Class
<1>6. PICK zone, sim : /\ zone = pickZoneFromAllowedTopologies(s)
                       /\ sim = simulatedVolume(c, pvc, zone)
  OBVIOUS
<1>7. \/ \E v \in FindMatchingVolume(c, pvc, listedVols) : o = [name |-> v, pv |-> listedVols[v]]
      \/ o = [name |-> SimVolume(c), pv |-> sim]
  BY <1>6 DEF FindExistingOrCreateSimulatedBindableVolume
<1>8. CASE o = [name |-> SimVolume(c), pv |-> sim]
  <2>1. SimVolume(c) \in VolNames /\ vols[SimVolume(c)] = None
    BY <1>2, <1>3, <1>4, SimVolumeName DEF BindInv, SimNew
  <2>2. zone \in STRING /\ pvc.class # None
    BY <1>5, <1>6, NoneFacts DEF pickZoneFromAllowedTopologies
  <2>3. sim \in Volume /\ sim.phase = "Available" /\ sim.claimRef = None /\ fits(sim, pvc)
    BY <2>1, <2>2, <1>4, <1>6, SimulatedFacts
  <2>4. \A d \in bound : claims[d].volume # SimVolume(c)
    BY <2>1, <1>2 DEF BindInv, BoundToVolume
  <2>5. o.name = SimVolume(c) /\ o.pv = sim
    BY <1>8
  <2> QED BY <2>1, <2>3, <2>4, <2>5
<1>9. ASSUME NEW v \in FindMatchingVolume(c, pvc, listedVols), o = [name |-> v, pv |-> listedVols[v]]
      PROVE  /\ o.name \in VolNames /\ o.pv \in Volume /\ fits(o.pv, pvc)
             /\ o.name \in Volumes
             /\ vols[o.name] # None /\ sameVolume(o.pv, vols[o.name])
             /\ \A d \in bound : claims[d].volume = o.name => immediate(d)
  <2>0. o.name = v /\ o.pv = listedVols[v]
    BY <1>9
  <2>1. /\ v \in DOMAIN listedVols /\ listedVols[v] # None
        /\ listedVols[v].capacity >= pvc.size /\ listedVols[v].mode = pvc.mode
        /\ \/ listedVols[v].claimRef = c
           \/ /\ listedVols[v].claimRef = None /\ listedVols[v].phase = "Available"
              /\ listedVols[v].class = pvc.class
    BY <1>9, MatchFacts
  <2>2. v \in VolNames /\ listedVols[v] \in Volume
    BY <2>1, <1>1 DEF TypeOK
  <2>3. listedVols[v].claimRef # c
    <3>1. snapshotVols[v] # None /\ snapshotVols[v].claimRef = c => pvcs[c].phase = "Bound"
      BY <2>2, <1>1, <1>4, SnapshotVolsFacts
    <3> QED BY <3>1, <2>1, <1>3
  <2>4. vols[v] # None /\ sameVolume(listedVols[v], vols[v])
    BY <2>1, <2>2, <1>2 DEF ListInv, ListedVolume
  <2>5. ASSUME NEW d \in bound, claims[d].volume = v
        PROVE  immediate(d)
    <3> SUFFICES ASSUME pvcs[d].phase = "Bound" PROVE FALSE
      BY <1>3
    <3>1. d \in Claims
      BY DEF bound
    <3>2. pvcs[d].volume = v
      BY <3>1, <2>5, <1>3
    <3>3. v \in DOMAIN input.snapshot.pvs /\ input.snapshot.pvs[v].phase = "Bound"
      BY <3>1, <3>2, <1>1, SnapshotFacts
    <3>4. snapshotVols[v].phase = "Bound"
      BY <3>3, <1>1, SnapshotVolsFacts
    <3> QED BY <3>4, <2>1, <2>3, <1>3
  <2>6. fits(listedVols[v], pvc)
    BY <2>1, <2>3 DEF fits
  <2>7. v \in Volumes
    BY <2>1, <2>2, <1>1, <1>3, SnapshotVolsFacts, SnapshotFacts
  <2> QED BY <2>0, <2>2, <2>4, <2>5, <2>6, <2>7
<1> QED BY <1>7, <1>8, <1>9

LEMMA BindImmediateStep ==
  ASSUME VInv, NEW c \in Claims, BindImmediate(c)
  PROVE  VInv'
<1>1. /\ TypeOK /\ pc = "immediate" /\ ~updating /\ c \in todo /\ todo' = todo \ {c}
      /\ listedClaims[c].phase = "Pending" /\ stage = "immediate"
      /\ UNCHANGED <<input, listedClaims, listedVols, decided, err, claimWrite, volWrite>>
  BY DEF VInv, BindImmediate, isNext, listed, writes, updating, stage
<1>2. BindInv /\ ListInv /\ ImmediateInv
  BY <1>1 DEF VInv, StageInv
<1>3. /\ listedClaims = pvcs /\ listedVols = snapshotVols /\ claims[c] = pvcs[c]
      /\ \A d \in todo : claims[d] = pvcs[d]
      /\ \A d \in Claims : pvcs[d].phase = "Bound" => claims[d] = pvcs[d]
      /\ \A d \in bound : pvcs[d].phase = "Bound" \/ immediate(d)
      /\ \A v \in VolNames, d \in Claims : ~refers(v, d)
      /\ NoWrites /\ \A d \in Claims : settled(d)
  BY <1>1, <1>2 DEF ImmediateInv
<1>4. PICK s, pvc, chosen :
        /\ s \in classOf(listedClaims[c])
        /\ pvc = [listedClaims[c] EXCEPT !.class = s] /\ classes[s].mode = "Immediate"
        /\ chosen = FindExistingOrCreateSimulatedBindableVolume(c, pvc, s)
        /\ claims' = [claims EXCEPT ![c].class = s]
        /\ \/ \E o \in chosen :
                /\ vols' = IF vols[o.name] = None THEN [vols EXCEPT ![o.name] = o.pv] ELSE vols
                /\ bindWith(c, pvc, o.name, o.pv, "immediate")
           \/ pc' = "failed" /\ UNCHANGED <<vols, cur>>
  BY DEF BindImmediate
<1>5. s \in DOMAIN classes /\ s \in STRING /\ s # None
  <2>1. s \in DOMAIN classes
    BY <1>4 DEF classOf, GetDefaultStorageClass
  <2> QED BY <2>1, <1>1, SnapshotFacts, NoneFacts
<1>6. claims \in [Claims -> Claim] /\ claims[c] \in Claim /\ c \notin bound
  BY <1>1, <1>3, ClaimFacts
<1>7. /\ claims'[c] = pvc /\ pvc = [claims[c] EXCEPT !.class = s]
      /\ \A d \in Claims \ {c} : claims'[d] = claims[d]
  BY <1>3, <1>4, <1>6
<1>8. /\ pvc \in Claim /\ pvc.class = s /\ pvc.phase = claims[c].phase
      /\ pvc.node = claims[c].node
  BY <1>5, <1>6, <1>7 DEF Claim
<1>9. claims' \in [Claims -> Claim]
  BY <1>4, <1>6, <1>7, <1>8
<1>10. pvc.node = None
  <2> SUFFICES ASSUME pvcs[c].node # None PROVE FALSE
    BY <1>3, <1>8
  <2>1. /\ pvcs[c].class # None
        /\ pvcs[c].class \in DOMAIN classes => classes[pvcs[c].class].mode # "Immediate"
    BY <1>1, <1>3, SnapshotFacts
  <2>2. s = pvcs[c].class
    BY <2>1, <1>3, <1>4 DEF classOf
  <2> QED BY <2>1, <2>2, <1>4, <1>5
<1>11. \A d \in bound : d \in Claims /\ claims'[d] = claims[d]
  BY <1>6, <1>7 DEF bound
<1>12. immediate(c)'
  BY <1>1, <1>4, <1>5, <1>7, <1>8 DEF immediate, classes
<1>13. /\ \A d \in Claims : claims'[d].phase = claims[d].phase /\ claims'[d].node = claims[d].node
       /\ \A d \in Claims : claims'[d].node # None => claims'[d] = claims[d]
  BY <1>7, <1>8, <1>10
<1>14. bound' = bound
  BY <1>6, <1>9, <1>13, NoneFacts DEF bound
<1>15. \A d \in Claims : \/ claims'[d] = claims[d]
                         \/ d \notin bound /\ vols[SimVolume(d)] = None
  <2>1. vols[SimVolume(c)] = None
    BY <1>1, <1>2, <1>3, <1>6 DEF BindInv, SimNew
  <2> QED BY <2>1, <1>6, <1>7
<1>16. \A d \in Claims : claims'[d].phase = claims[d].phase /\ claims'[d].node = claims[d].node
  BY <1>13
<1>17. NodeClass'
  BY <1>2, <1>13, <1>14 DEF ListInv, NodeClass
<1>18. CASE pc' = "failed" /\ UNCHANGED <<vols, cur>>
  <2>1. stage' = "failed" /\ ~updating'
    BY <1>18 DEF stage, updating
  <2>2. TypeOK'
    BY <2>1, <1>1, <1>9, <1>18 DEF TypeOK, updating
  <2>3. GrowStep(None)
    BY <2>1, <1>1, <1>3, <1>9, <1>18, <1>15, <1>16 DEF GrowStep
  <2>4. (BindInv /\ RefInv /\ Fits)'
    BY <2>2, <2>3, GrowKeeps
  <2>5. ListedVolume'
    BY <1>1, <1>2, <1>18 DEF ListInv, ListedVolume
  <2>6. UpdateInv' /\ StageInv'
    BY <2>1 DEF UpdateInv, StageInv, RequestInv, ImmediateInv, ProvisionInv, FinalizeInv
  <2> QED BY <2>2, <2>4, <2>5, <2>6, <1>17, <1>18 DEF VInv, ListInv
<1>19. ASSUME NEW o \in chosen,
              vols' = IF vols[o.name] = None THEN [vols EXCEPT ![o.name] = o.pv] ELSE vols,
              bindWith(c, pvc, o.name, o.pv, "immediate")
       PROVE  VInv'
  <2>0. PICK v, pv : v = o.name /\ pv = o.pv
    OBVIOUS
  <2>1. /\ v \in VolNames /\ pv \in Volume /\ fits(pv, pvc)
        /\ \/ vols[v] # None /\ sameVolume(pv, vols[v])
           \/ /\ vols[v] = None /\ v = SimVolume(c)
              /\ pv.phase = "Available" /\ pv.claimRef = None
        /\ v \in Volumes \union {SimVolume(c)}
        /\ \A d \in bound : claims[d].volume = v => immediate(d)
    BY <2>0, <1>1, <1>4, <1>5, <1>8, ChosenFacts
  <2>2. vols \in [VolNames -> Volume \union {None}]
    BY <1>1 DEF TypeOK
  <2>3. /\ vols' \in [VolNames -> Volume \union {None}]
        /\ \A w \in VolNames \ {v} : vols'[w] = vols[w]
        /\ vols'[v] = IF vols[v] = None THEN pv ELSE vols[v]
    BY <2>0, <2>1, <2>2, <1>19
  <2>4. vols'[v] # None /\ sameVolume(pv, vols'[v])
    BY <2>1, <2>3, NoneFacts DEF sameVolume
  <2>5. /\ UpdateInv' /\ updating' /\ stage' = "immediate" /\ pc' = "updateClaim"
        /\ cur'.claim = c /\ cur'.vol = v /\ cur'.pvc.node = pvc.node
        /\ cur' \in [claim : Claims, vol : VolNames, pvc : Claim, pv : Volume,
                     next : {"immediate", "provision", "finalize"}]
    <3>1. sameClaim(pvc, claims'[c])
      BY <1>7 DEF sameClaim
    <3> QED BY <3>1, <2>0, <2>1, <2>4, <1>1, <1>6, <1>8, <1>10, <1>14, <1>19, BeginBinding
  <2>6. todo \subseteq Claims
    BY <1>1 DEF TypeOK
  <2>7. TypeOK'
    BY <2>3, <2>5, <2>6, <1>1, <1>9 DEF TypeOK
  <2>8. GrowStep(c)
    BY <2>1, <2>3, <2>4, <2>5, <1>1, <1>3, <1>7, <1>9, <1>15, <1>16 DEF GrowStep
  <2>9. /\ (BindInv /\ RefInv /\ Fits)'
        /\ \A w \in VolNames, d \in Claims : refers(w, d)' <=> refers(w, d)
        /\ \A d \in bound : immediate(d)' <=> immediate(d)
    BY <2>7, <2>8, GrowKeeps
  <2>10. ListedVolume'
    <3>1. \A w \in VolNames : vols[w] # None => vols'[w] = vols[w]
      BY <2>3
    <3> QED BY <3>1, <1>1, <1>2 DEF ListInv, ListedVolume
  <2>11. ImmediateInv'
    <3>1. pvcs' = pvcs /\ snapshotVols' = snapshotVols /\ NoWrites'
          /\ \A d \in Claims : settled(d)'
      BY <1>1, <1>3 DEF pvcs, snapshotVols, NoWrites, settled
    <3>2. \A d \in todo' : claims'[d] = pvcs[d]
      BY <2>6, <1>1, <1>3, <1>7
    <3>3. \A d \in Claims : pvcs[d].phase = "Bound" => claims'[d] = pvcs[d]
      BY <1>1, <1>3, <1>7
    <3>4. \A d \in bound' : pvcs[d].phase = "Bound" \/ immediate(d)'
      BY <2>9, <1>3, <1>14
    <3>5. \A d \in bound' : claims'[d].volume = v => immediate(d)'
      BY <2>1, <2>9, <1>11, <1>14
    <3>6. immediate(c)' <=> immediate(cur.claim)'
      BY <2>5 DEF immediate
    <3> QED BY <3>1, <3>2, <3>3, <3>4, <3>5, <3>6, <2>1, <2>5, <2>9, <1>1, <1>3, <1>10, <1>12
            DEF ImmediateInv
  <2>12. StageInv'
    BY <2>5, <2>11 DEF StageInv, RequestInv, ProvisionInv, FinalizeInv
  <2> QED BY <2>5, <2>7, <2>9, <2>10, <2>12, <1>17 DEF VInv, ListInv
<1> QED BY <1>4, <1>18, <1>19

-----------------------------------------------------------------------------
(* The theorems.                                                           *)

LEMMA InitVInv == Init => VInv
<1> SUFFICES ASSUME Init PROVE VInv
  OBVIOUS
<1>1. /\ input \in [snapshot : Snapshots, bindImmediate : BOOLEAN]
      /\ claims = [c \in Claims |-> None] /\ vols = [v \in VolNames |-> None]
      /\ pc = "populate" /\ listedClaims = claims /\ listedVols = vols /\ cur = NoBinding
      /\ err = FALSE /\ claimWrite = claims /\ volWrite = vols
      /\ decided = [c \in Claims |-> <<>>]
  BY DEF Init
<1>2. decided \in [Claims -> Seq(Nodes \union VolNames)]
  BY <1>1
<1> QED BY <1>1, <1>2 DEF VInv, TypeOK, NoWrites, stage

LEMMA NextVInv == VInv /\ [Next]_vars => VInv'
<1> SUFFICES ASSUME VInv, [Next]_vars PROVE VInv'
  OBVIOUS
<1>1. CASE PopulateView
  BY <1>1, PopulateViewStep
<1>2. CASE BindClaimsForImmediateMode
  BY <1>2, ImmediateModeStep
<1>3. CASE UpdateClaim
  BY <1>3, UpdateClaimStep
<1>4. CASE UpdateVolume
  BY <1>4, UpdateVolumeStep
<1>5. CASE Finalize
  BY <1>5, FinalizeStep
<1>6. CASE ImmediateDone \/ FinalizeDone \/ RunEnds
  <2>1. err \in BOOLEAN
    BY DEF VInv, TypeOK
  <2> QED BY <2>1, <1>6, RestStep
          DEF ImmediateDone, FinalizeDone, RunEnds, view, listed, writes, updating
<1>7. CASE DoWork
  BY <1>7, DoWorkStep
<1>8. ASSUME NEW c \in Claims, \/ SkipImmediate(c) \/ BindImmediate(c)
                               \/ SkipProvision(c) \/ ProvisionVolume(c)
      PROVE  VInv'
  BY <1>8, SkipImmediateStep, BindImmediateStep, SkipProvisionStep, ProvisionVolumeStep
<1>9. ASSUME NEW v \in VolNames, SkipFinalize(v) \/ FinalizeVolume(v) \/ FinalizeOrphan(v)
      PROVE  VInv'
  BY <1>9, SkipFinalizeStep, FinalizeVolumeStep
<1>10. ASSUME NEW c \in Claims, NEW n \in Nodes,
              SelectNode(c, n) \/ \E v \in VolNames : SetClaimRef(c, n, v)
       PROVE  VInv'
  BY <1>10, SelectNodeStep, SetClaimRefStep
<1>11. CASE SchedulerWrites
  BY <1>11, WriteClaimStep, WriteVolumeStep DEF SchedulerWrites
<1>12. CASE UNCHANGED vars
  <2>1. UNCHANGED <<input, claims, vols, pc, todo, listedClaims, listedVols, cur, err, claimWrite,
                    volWrite, decided>>
    BY <1>12 DEF vars
  <2>2. TypeOK' = TypeOK /\ NoWrites' = NoWrites
    BY <2>1 DEF TypeOK, NoWrites, stage
  <2>3. BindInv' = BindInv
    BY <2>1 DEF BindInv, BoundToVolume, Exclusive, BoundRef, SimNew, bound, contended, disputed,
                immediate, classes, settled, chose, pvcs
  <2>4. RefInv' = RefInv
    BY <2>1 DEF RefInv, RefFits, RefOnce, VolumeWrites, NodeChosen, ClaimWrites, SnapshotBound,
                bound, disputed, immediate, classes, settled, chose, refers, promised, pvcs
  <2>5. ListInv' = ListInv /\ Fits' = Fits
    BY <2>1 DEF ListInv, NodeClass, ListedVolume, Fits, bound, settled, pvcs
  <2>6. UpdateInv' = UpdateInv
    BY <2>1 DEF UpdateInv, updating, bound, settled, chose
  <2>7. RequestInv' = RequestInv
    BY <2>1 DEF RequestInv, stage, pvcs, snapshotVols, NoWrites, settled, refers
  <2>8. ImmediateInv' = ImmediateInv
    BY <2>1 DEF ImmediateInv, stage, updating, pvcs, snapshotVols, bound, immediate, classes,
                NoWrites, settled, refers
  <2>9. ProvisionInv' = ProvisionInv
    BY <2>1 DEF ProvisionInv, stage, updating, bound, settled, chose
  <2>10. FinalizeInv' = FinalizeInv
    BY <2>1 DEF FinalizeInv, stage, updating, bound, immediate, classes, disputed, settled, chose,
                promised
  <2> QED BY <2>1, <2>2, <2>3, <2>4, <2>5, <2>6, <2>7, <2>8, <2>9, <2>10 DEF VInv, StageInv
<1> QED BY <1>1, <1>2, <1>3, <1>4, <1>5, <1>6, <1>7, <1>8, <1>9, <1>10, <1>11, <1>12
        DEF Next, RoundSteps, SchedulerSteps

(* The claims, the volumes, the lists and the binding under way keep their *)
(* types through rounds and decisions, on every cluster.                   *)
THEOREM VTypes == Spec => []TypeOK
<1>1. VInv => TypeOK
  BY DEF VInv
<1> QED BY <1>1, InitVInv, NextVInv, PTL DEF Spec

(* BindClaimAndVolume and its callers: between rounds a bound claim and    *)
(* its volume refer to each other, and no volume has two claims, for any   *)
(* number of claims, volumes, rounds and decisions of a scheduler that     *)
(* writes copies as stale as they may be.  Excepted are the volumes that   *)
(* the code does give to two claims: contended and disputed ones.          *)
THEOREM Mutual == Spec => []BindingsMutual
<1>1. VInv => BindingsMutual
  <2> SUFFICES ASSUME VInv PROVE BindingsMutual
    OBVIOUS
  <2>1. CASE pc = "populate"
    <3>1. \A c \in Claims : claims[c] = None
      BY <2>1 DEF VInv, TypeOK
    <3> QED BY <3>1, <2>1 DEF BindingsMutual, atRest, bound
  <2>2. CASE pc # "populate"
    BY <2>2 DEF VInv, BindInv, BoundToVolume, Exclusive, BindingsMutual, atRest
  <2> QED BY <2>1, <2>2
<1> QED BY <1>1, InitVInv, NextVInv, PTL DEF Spec

(* createSimulatedVolumeMatchingClaim, FindMatchingVolume and the rounds   *)
(* on stale lists: the volume of a claim that was bound here fits it, and  *)
(* is in the zone of the node selected for it.                             *)
THEOREM FitsClaim == Spec => []VolumeFitsClaim
<1>1. VInv => VolumeFitsClaim
  <2> SUFFICES ASSUME VInv PROVE VolumeFitsClaim
    OBVIOUS
  <2>1. CASE pc = "populate"
    <3>1. \A c \in Claims : claims[c] = None
      BY <2>1 DEF VInv, TypeOK
    <3> QED BY <3>1 DEF VolumeFitsClaim, bound
  <2>2. CASE pc # "populate"
    BY <2>2 DEF VInv, Fits, fits, pvcs, VolumeFitsClaim
  <2> QED BY <2>1, <2>2
<1> QED BY <1>1, InitVInv, NextVInv, PTL DEF Spec

(* A claim for which the scheduler decided at most once keeps the volume   *)
(* it is bound to, although FinalizeStaticBindingsForSelectedClaimsInWFFC  *)
(* does not look whether the claim has one.                                *)
THEOREM Keeps == Spec => KeepsVolume
<1> DEFINE Kept == \A c \in Claims : c \in bound /\ settled(c)
                                       => claims'[c].volume = claims[c].volume
<1>1. VInv /\ [Next]_vars => Kept
  <2> SUFFICES ASSUME VInv, [Next]_vars, NEW c \in Claims, c \in bound, settled(c)
               PROVE  claims'[c].volume = claims[c].volume
    OBVIOUS
  <2>0. TypeOK /\ pc # "populate"
    <3>1. pc = "populate" => claims[c] = None
      BY DEF VInv, TypeOK
    <3> QED BY <3>1 DEF VInv, bound
  <2>1. claims \in [Claims -> Claim] /\ claims[c].phase = "Bound"
    BY <2>0, ClaimFacts DEF bound
  <2>2. CASE UpdateClaim
    <3>1. pc = "updateClaim" /\ claims' = [claims EXCEPT ![cur.claim] = cur.pvc]
      BY <2>2 DEF UpdateClaim
    <3>2. cur.claim # c
      BY <3>1, <2>0 DEF VInv, UpdateInv, updating
    <3> QED BY <3>1, <3>2, <2>1
  <2>3. ASSUME NEW d \in Claims, SkipImmediate(d) \/ BindImmediate(d)
        PROVE  claims'[c].volume = claims[c].volume
    <3>1. claims' = claims \/ \E s : claims' = [claims EXCEPT ![d].class = s]
      BY <2>3 DEF SkipImmediate, BindImmediate
    <3>2. ASSUME NEW s, claims' = [claims EXCEPT ![d].class = s]
          PROVE  claims'[c].volume = claims[c].volume
      <4>1. claims'[c] = IF c = d THEN [claims[c] EXCEPT !.class = s] ELSE claims[c]
        BY <3>2, <2>1
      <4>2. claims[c] \in Claim
        BY <2>1
      <4> QED BY <4>1, <4>2 DEF Claim
    <3> QED BY <3>1, <3>2
  <2>4. ASSUME NEW d \in Claims, WriteClaim(d)
        PROVE  claims'[c].volume = claims[c].volume
    <3>1. claimWrite[d] # None /\ claims' = [claims EXCEPT ![d] = claimWrite[d]]
      BY <2>4 DEF WriteClaim
    <3>2. d # c
      BY <3>1, <2>0 DEF VInv, RefInv, ClaimWrites
    <3> QED BY <3>1, <3>2, <2>1
  <2>5. CASE claims' = claims
    BY <2>5
  <2>6. \/ UpdateClaim \/ claims' = claims
        \/ \E d \in Claims : SkipImmediate(d) \/ BindImmediate(d)
        \/ \E d \in Claims : WriteClaim(d)
    BY <2>0 DEF Next, RoundSteps, SchedulerSteps, SchedulerWrites, PopulateView,
                BindClaimsForImmediateMode, ImmediateDone, UpdateVolume, Finalize, FinalizeDone,
                SkipProvision, ProvisionVolume, SkipFinalize, FinalizeVolume, FinalizeOrphan,
                DoWork, RunEnds, SelectNode, SetClaimRef, WriteVolume, view, vars
  <2> QED BY <2>2, <2>3, <2>4, <2>5, <2>6
<1>2. VInv /\ [Next]_vars => [Kept]_vars
  BY <1>1
<1> QED BY <1>2, InitVInv, NextVInv, PTL DEF Spec, KeepsVolume

=============================================================================
