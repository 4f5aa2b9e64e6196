-------------------------- MODULE MCVolumeBinding --------------------------
(* VolumeBinding with small constants for TLC. *)
EXTENDS VolumeBinding, TLC

CONSTANTS c1, c2, v1, s1, s2, n1, n2, n3
SimVolumes(c) == IF c = c1 THEN s1 ELSE s2
Zones == n1 :> "A" @@ n2 :> "B" @@ n3 :> NoZone

StorageClass(mode, default, created, topology) ==
  [mode |-> mode, default |-> default, created |-> created, topology |-> topology]
(* No class at all, the newer of two default classes, one of them, none.   *)
NewerDefault ==
  [imm |-> StorageClass("Immediate", TRUE, 2, NoZone),
   wait |-> StorageClass("WaitForFirstConsumer", TRUE, 1, NoZone)]
WaitDefault ==
  [imm |-> StorageClass("Immediate", FALSE, 1, "without zones"),
   wait |-> StorageClass("WaitForFirstConsumer", TRUE, 1, NoZone)]
NoDefault ==
  [imm |-> StorageClass("Immediate", FALSE, 2, "A"),
   wait |-> StorageClass("WaitForFirstConsumer", FALSE, 1, NoZone)]
Unbound(size, class, mode) ==
  [size |-> size, class |-> class, mode |-> mode, phase |-> "Pending", volume |-> None,
   node |-> None]
Free(capacity, class, mode) ==
  [capacity |-> capacity, class |-> class, mode |-> mode, phase |-> "Available",
   claimRef |-> None, zone |-> "A"]
(* c2 asks for more than c1, or both for the same.  A claim may name no    *)
(* class, or one that is not there in some clusters.                       *)
TwoClaims(named) ==
  {[c \in {c1, c2} |-> IF c = c1 THEN Unbound(1, s, "Filesystem")
                       ELSE Unbound(2, t, "Filesystem")] : s \in named, t \in named}
EqualClaims(class) == {[c \in {c1, c2} |-> Unbound(1, class, "Filesystem")]}
FreeVolume(capacity, class) == {[v \in {v1} |-> Free(capacity, class, "Filesystem")]}
(* Claims for block devices, and a cluster in which a claim is bound.      *)
BlockClaims == {[c \in {c1, c2} |-> Unbound(1, "wait", "Block")]}
BlockVolume == {[v \in {v1} |-> Free(1, "wait", "Block")]}
BoundClaim(class, node) ==
  {[c \in {c1, c2} |-> IF c = c1 THEN Unbound(1, s, "Filesystem")
      ELSE [size |-> 1, class |-> class, mode |-> "Filesystem", phase |-> "Bound",
            volume |-> v1, node |-> node]] : s \in {"imm", "wait"}}
BoundVolume(class) ==
  {[v \in {v1} |-> [Free(1, class, "Filesystem") EXCEPT !.phase = "Bound", !.claimRef = c2]]}
(* A volume whose claim is gone.                                           *)
OrphanVolume ==
  {[v \in {v1} |-> [Free(1, "wait", "Filesystem") EXCEPT !.phase = "Released", !.claimRef = Gone]]}
(* A pending claim for which a node was selected already.                  *)
SelectedClaim(n) ==
  {[c \in {c1, c2} |-> IF c = c1 THEN [Unbound(1, s, "Filesystem") EXCEPT !.node = n]
      ELSE Unbound(1, "wait", "Filesystem")] : s \in {"wait", "other"}}

SmallSnapshots ==
  [classes : {<<>>, NewerDefault, WaitDefault, NoDefault}, pvcs : TwoClaims({None, "imm"}),
   pvs : FreeVolume(1, "imm") \union FreeVolume(2, "imm")]
  \union [classes : {WaitDefault, NoDefault}, pvcs : TwoClaims({"imm", "wait"}),
          pvs : FreeVolume(1, "wait") \union FreeVolume(2, "wait")]
  \union [classes : {NewerDefault, NoDefault}, pvcs : EqualClaims("imm"), pvs : FreeVolume(1, "imm")]
  \union [classes : {NoDefault}, pvcs : EqualClaims("wait"), pvs : FreeVolume(1, "wait")]
  \union [classes : {NoDefault}, pvcs : BlockClaims, pvs : BlockVolume]
  \union [classes : {NoDefault}, pvcs : BoundClaim("imm", None), pvs : BoundVolume("imm")]
  \union [classes : {NoDefault}, pvcs : BoundClaim("wait", n1), pvs : BoundVolume("wait")]
  \union [classes : {NoDefault}, pvcs : SelectedClaim(n1), pvs : FreeVolume(1, "wait")]
  \union [classes : {NoDefault}, pvcs : SelectedClaim(None), pvs : OrphanVolume]

(* The scheduler may change its mind about c1.                             *)
TwoAndOne == [c \in {c1, c2} |-> IF c = c1 THEN 2 ELSE 1]
=============================================================================
