---------------------- MODULE EmbeddedSchedulerProofs ----------------------
(***************************************************************************)
(* Proofs about EmbeddedScheduler, for any calls of Launch, any size of    *)
(* the semaphore and any number of watches and events.                     *)
(*                                                                         *)
(* The slots: SlotsAccountedFor speaks of cardinalities, which a step of   *)
(* the semaphore changes by the number of calls it wakes.  QueueInv says   *)
(* where those calls are (the queue has each waiting call exactly once),   *)
(* from which SlotsInv can count.                                          *)
(*                                                                         *)
(* The watches: MergeLosesNothing is inductive only with WatchShape: a     *)
(* merging goroutine in its select holds no event, and a callback that is  *)
(* sending has one.                                                        *)
(***************************************************************************)
EXTENDS EmbeddedScheduler, FiniteSetTheorems, SequenceTheorems, TLAPS

-----------------------------------------------------------------------------
(* Facts about sequences without repetition.                               *)

Distinct(s) == \A i, j \in DOMAIN s : s[i] = s[j] => i = j

(* As many values are in such a sequence as it is long.                    *)
LEMMA DistinctCount ==
  ASSUME NEW S, NEW s \in Seq(S), Distinct(s), NEW k \in 0..Len(s)
  PROVE  /\ IsFiniteSet({s[i] : i \in 1..k})
         /\ Cardinality({s[i] : i \in 1..k}) = k
<1> DEFINE T == {s[i] : i \in 1..k}
           f == [i \in 1..k |-> s[i]]
<1>1. f \in Bijection(1..k, T)
  BY DEF Distinct, Bijection, Injection, Surjection, IsInjective
<1>2. ExistsBijection(1..k, T)
  BY <1>1 DEF ExistsBijection
<1>3. IsFiniteSet(1..k) /\ Cardinality(1..k) = k
  BY FS_Interval
<1>4. QED BY <1>2, <1>3, FS_Bijection

(* What is left when the first k elements are taken away.                  *)
LEMMA DropFront ==
  ASSUME NEW S, NEW s \in Seq(S), Distinct(s), NEW k \in 0..Len(s)
  PROVE  LET t == SubSeq(s, k + 1, Len(s)) IN
         /\ t \in Seq(S) /\ Distinct(t) /\ Len(t) = Len(s) - k
         /\ Range(t) = Range(s) \ {s[i] : i \in 1..k}
<1> DEFINE t == SubSeq(s, k + 1, Len(s))
<1>1. /\ t \in Seq(S) /\ Len(t) = Len(s) - k
      /\ \A i \in 1..(Len(s) - k) : t[i] = s[k + i]
  BY SubSeqProperties
<1> HIDE DEF t
<1>2. Distinct(t)
  <2> SUFFICES ASSUME NEW i \in 1..(Len(s) - k), NEW j \in 1..(Len(s) - k), t[i] = t[j]
               PROVE  i = j
    BY <1>1 DEF Distinct
  <2>1. k + i \in DOMAIN s /\ k + j \in DOMAIN s /\ s[k + i] = s[k + j]
    BY <1>1
  <2>2. k + i = k + j
    BY <2>1 DEF Distinct
  <2>3. QED BY <2>2
<1>3. Range(t) = Range(s) \ {s[i] : i \in 1..k}
  <2>1. ASSUME NEW x \in Range(t) PROVE x \in Range(s) \ {s[i] : i \in 1..k}
    <3>1. PICK i \in 1..(Len(s) - k) : x = s[k + i]
      BY <1>1 DEF Range
    <3>2. k + i \in DOMAIN s /\ \A j \in 1..k : j \in DOMAIN s /\ j # k + i
      OBVIOUS
    <3>3. QED BY <3>1, <3>2 DEF Range, Distinct
  <2>2. ASSUME NEW x \in Range(s) \ {s[i] : i \in 1..k} PROVE x \in Range(t)
    <3>1. PICK i \in 1..Len(s) : x = s[i]
      BY DEF Range
    <3>2. i > k /\ i - k \in 1..(Len(s) - k) /\ k + (i - k) = i
      BY <3>1
    <3>3. i - k \in DOMAIN t /\ t[i - k] = x
      BY <3>1, <3>2, <1>1
    <3>4. QED BY <3>3 DEF Range
  <2>3. QED BY <2>1, <2>2
<1>4. QED BY <1>1, <1>2, <1>3 DEF t

(* ... and when the element at p is taken out.                             *)
LEMMA DropOne ==
  ASSUME NEW S, NEW s \in Seq(S), Distinct(s), NEW p \in DOMAIN s
  PROVE  LET t == RemoveAt(s, p) IN
         /\ t \in Seq(S) /\ Distinct(t) /\ Range(t) = Range(s) \ {s[p]}
<1> DEFINE a == SubSeq(s, 1, p - 1)
           b == SubSeq(s, p + 1, Len(s))
           t == RemoveAt(s, p)
<1>1. /\ a \in Seq(S) /\ Len(a) = p - 1 /\ \A i \in 1..(p - 1) : a[i] = s[i]
      /\ b \in Seq(S) /\ Len(b) = Len(s) - p /\ \A i \in 1..(Len(s) - p) : b[i] = s[p + i]
  <2>1. p \in 1..Len(s)
    OBVIOUS
  <2>2. a \in Seq(S) /\ Len(a) = p - 1 /\ \A i \in 1..(p - 1) : a[i] = s[i]
    BY <2>1, SubSeqProperties
  <2>3. b \in Seq(S) /\ Len(b) = Len(s) - p /\ \A i \in 1..(Len(s) - p) : b[i] = s[p + i]
    BY <2>1, SubSeqProperties
  <2>4. QED BY <2>2, <2>3
<1>2. t = a \o b
  BY DEF RemoveAt
<1> HIDE DEF a, b, t
<1>3. /\ t \in Seq(S) /\ Len(t) = Len(s) - 1
      /\ \A i \in 1..(Len(s) - 1) : t[i] = IF i < p THEN s[i] ELSE s[i + 1]
  <2>1. /\ t \in Seq(S) /\ Len(t) = Len(s) - 1
        /\ \A i \in 1..(Len(s) - 1) : t[i] = IF i <= p - 1 THEN a[i] ELSE b[i - (p - 1)]
    BY <1>1, <1>2, ConcatProperties
  <2>2. ASSUME NEW i \in 1..(Len(s) - 1) PROVE t[i] = IF i < p THEN s[i] ELSE s[i + 1]
    <3>1. CASE i < p
      BY <2>1, <1>1, <3>1
    <3>2. CASE i >= p
      <4>1. i - (p - 1) \in 1..(Len(s) - p) /\ p + (i - (p - 1)) = i + 1
        BY <3>2
      <4>2. t[i] = b[i - (p - 1)]
        <5>1. p \in Nat /\ i \in Nat /\ ~(i <= p - 1)
          BY <3>2
        <5>2. QED BY <2>1, <5>1
      <4>3. b[i - (p - 1)] = s[p + (i - (p - 1))]
        BY <4>1, <1>1
      <4>4. QED BY <4>1, <4>2, <4>3, <3>2
    <3>3. QED BY <3>1, <3>2
  <2>3. QED BY <2>1, <2>2
<1>4. Distinct(t)
  <2> SUFFICES ASSUME NEW i \in 1..(Len(s) - 1), NEW j \in 1..(Len(s) - 1), t[i] = t[j]
               PROVE  i = j
    BY <1>3 DEF Distinct
  <2> DEFINE at(n) == IF n < p THEN n ELSE n + 1
  <2>1. at(i) \in DOMAIN s /\ at(j) \in DOMAIN s /\ t[i] = s[at(i)] /\ t[j] = s[at(j)]
    BY <1>3
  <2>2. at(i) = at(j)
    BY <2>1 DEF Distinct
  <2>3. QED BY <2>2
<1>5. Range(t) = Range(s) \ {s[p]}
  <2>1. ASSUME NEW x \in Range(t) PROVE x \in Range(s) \ {s[p]}
    <3>1. PICK i \in 1..(Len(s) - 1) : x = t[i]
      BY <1>3 DEF Range
    <3>2. PICK j \in DOMAIN s : x = s[j] /\ j # p
      BY <3>1, <1>3
    <3>3. QED BY <3>2 DEF Range, Distinct
  <2>2. ASSUME NEW x \in Range(s) \ {s[p]} PROVE x \in Range(t)
    <3>1. PICK i \in 1..Len(s) : x = s[i] /\ i # p
      BY DEF Range
    <3>2. CASE i < p
      <4>1. i \in DOMAIN t /\ t[i] = x
        BY <3>1, <3>2, <1>3
      <4>2. QED BY <4>1 DEF Range
    <3>3. CASE i > p
      <4>1. i - 1 \in DOMAIN t /\ (i - 1) + 1 = i
        BY <3>1, <3>3, <1>3
      <4>2. t[i - 1] = x
        BY <4>1, <3>1, <3>3, <1>3
      <4>3. QED BY <4>1, <4>2 DEF Range
    <3>4. QED BY <3>1, <3>2, <3>3
  <2>3. QED BY <2>1, <2>2
<1>6. QED BY <1>3, <1>4, <1>5 DEF t

LEMMA AddLast ==
  ASSUME NEW S, NEW s \in Seq(S), Distinct(s), NEW x \in S, x \notin Range(s)
  PROVE  LET t == Append(s, x) IN
         t \in Seq(S) /\ Distinct(t) /\ Range(t) = Range(s) \union {x} /\ t # <<>>
<1> DEFINE t == Append(s, x)
<1>1. /\ t \in Seq(S) /\ Len(t) = Len(s) + 1 /\ t[Len(s) + 1] = x /\ t # <<>>
      /\ \A i \in 1..Len(s) : t[i] = s[i]
  BY AppendProperties
<1> HIDE DEF t
<1>2. Distinct(t)
  BY <1>1 DEF Distinct, Range
<1>3. Range(t) = Range(s) \union {x}
  BY <1>1 DEF Range
<1>4. QED BY <1>1, <1>2, <1>3 DEF t

-----------------------------------------------------------------------------
(* The semaphore.                                                          *)

waitingCalls == {c \in Calls : pc[c] = "waiting"}

SemaphoreTypes ==
  /\ launcher \in {"none", "ready", "ErrLoadSchedulerConfig", "ErrParseSchedulerConfig"}
  /\ cur \in 0..MaxParallel
  /\ waiters \in Seq(Calls)
  /\ pc \in [Calls -> States]

(* The queue has every waiting call exactly once, and exists only while    *)
(* all slots are taken.                                                    *)
QueueInv ==
  /\ waitingCalls = Range(waiters)
  /\ Distinct(waiters)
  /\ waiters # <<>> => cur = MaxParallel

SlotsInv == cur = Cardinality(holders) + Cardinality(lost)

SemaphoreInv == SemaphoreTypes /\ QueueInv /\ SlotsInv

LEMMA FiniteCalls ==
  /\ IsFiniteSet(holders) /\ Cardinality(holders) \in Nat
  /\ IsFiniteSet(lost) /\ Cardinality(lost) \in Nat
<1>1. holders \in SUBSET Calls /\ lost \in SUBSET Calls
  BY DEF holders, lost
<1>2. QED BY <1>1, LauncherAssumption, FS_Subset, FS_CardinalityType

(* What the invariant says implies the property that the run checks.       *)
LEMMA SemaphoreImplies ==
  ASSUME SemaphoreInv
  PROVE  SlotsAccountedFor
<1>1. waiters \in Seq(Calls) /\ Distinct(waiters) /\ Len(waiters) \in 0..Len(waiters)
  BY DEF SemaphoreInv, SemaphoreTypes, QueueInv
<1>2. Range(waiters) = {waiters[i] : i \in 1..Len(waiters)}
  BY <1>1 DEF Range
<1>3. Len(waiters) = Cardinality(Range(waiters))
  BY <1>1, <1>2, DistinctCount
<1>4. QED
  BY <1>3 DEF SemaphoreInv, QueueInv, SlotsInv, SlotsAccountedFor, waitingCalls

(* One call moves to another place of Launch.                              *)
LEMMA CallMoves ==
  ASSUME pc \in [Calls -> States], NEW c \in Calls, NEW q \in States,
         pc' = [pc EXCEPT ![c] = q]
  PROVE  /\ pc' \in [Calls -> States]
         /\ holders' = IF q \in Holding THEN holders \union {c} ELSE holders \ {c}
         /\ lost' = IF q = "failed" THEN lost \union {c} ELSE lost \ {c}
         /\ waitingCalls' = IF q = "waiting" THEN waitingCalls \union {c}
                            ELSE waitingCalls \ {c}
  BY DEF holders, lost, waitingCalls

(* Steps that leave the semaphore alone and keep the call's slot.          *)
LEMMA KeepsSlot ==
  ASSUME SemaphoreInv, NEW c \in Calls, NEW q \in States,
         \/ pc[c] \in Holding /\ q \in Holding \union {"failed"}
         \/ pc[c] = "idle" /\ q = "refused",
         pc' = [pc EXCEPT ![c] = q], UNCHANGED <<launcher, semaphore>>
  PROVE  SemaphoreInv'
<1>t. SemaphoreTypes /\ QueueInv /\ SlotsInv
  BY DEF SemaphoreInv
<1>1. /\ pc' \in [Calls -> States]
      /\ holders' = IF q \in Holding THEN holders \union {c} ELSE holders \ {c}
      /\ lost' = IF q = "failed" THEN lost \union {c} ELSE lost \ {c}
      /\ waitingCalls' = IF q = "waiting" THEN waitingCalls \union {c}
                         ELSE waitingCalls \ {c}
  BY <1>t, CallMoves DEF SemaphoreTypes
<1>2. waitingCalls' = waitingCalls
  BY <1>1 DEF waitingCalls, Holding
<1>3. SemaphoreTypes' /\ QueueInv'
  BY <1>1, <1>2, <1>t DEF SemaphoreTypes, QueueInv, semaphore
<1>4. SlotsInv'
  <2>1. CASE q = "failed"
    <3>1. holders' = holders \ {c} /\ lost' = lost \union {c} /\ c \in holders /\ c \notin lost
      BY <1>1, <2>1 DEF holders, lost, Holding
    <3>2. /\ Cardinality(holders') = Cardinality(holders) - 1
          /\ Cardinality(lost') = Cardinality(lost) + 1
      BY <3>1, FiniteCalls, FS_AddElement, FS_RemoveElement
    <3>3. QED BY <3>2, <1>t, FiniteCalls DEF SlotsInv, semaphore
  <2>2. CASE q # "failed"
    <3>1. holders' = holders /\ lost' = lost
      BY <1>1, <2>2 DEF holders, lost, Holding
    <3>2. QED BY <3>1, <1>t DEF SlotsInv, semaphore
  <2>3. QED BY <2>1, <2>2
<1>5. QED BY <1>3, <1>4 DEF SemaphoreInv

LEMMA LaunchStep ==
  ASSUME SemaphoreInv, NEW c \in Calls, Launch(c)
  PROVE  SemaphoreInv'
<1>t. SemaphoreTypes /\ QueueInv /\ SlotsInv
  BY DEF SemaphoreInv
<1>u. pc[c] = "idle" /\ UNCHANGED launcher
  BY DEF Launch
<1>1. CASE c \in ctxDone /\ pc' = [pc EXCEPT ![c] = "refused"] /\ UNCHANGED semaphore
  BY <1>1, <1>u, KeepsSlot DEF States
<1>2. CASE /\ cur < MaxParallel /\ waiters = <<>> /\ cur' = cur + 1
           /\ pc' = [pc EXCEPT ![c] = "creating"] /\ UNCHANGED waiters
  <2>1. /\ pc' \in [Calls -> States] /\ holders' = holders \union {c} /\ lost' = lost \ {c}
        /\ waitingCalls' = waitingCalls \ {c}
    BY <1>2, <1>t, CallMoves DEF SemaphoreTypes, States, Holding
  <2>2. c \notin holders /\ c \notin lost /\ c \notin waitingCalls
    BY <1>u DEF holders, lost, Holding, waitingCalls
  <2>3. Cardinality(holders') = Cardinality(holders) + 1 /\ lost' = lost
    <3>1. lost' = lost
      BY <2>1, <2>2
    <3>2. Cardinality(holders \union {c}) = Cardinality(holders) + 1
      BY <2>2, FiniteCalls, FS_AddElement
    <3>3. QED BY <3>1, <3>2, <2>1
  <2>4. SlotsInv'
    BY <2>3, <1>2, <1>t, FiniteCalls DEF SlotsInv
  <2>5. cur' \in 0..MaxParallel
    BY <1>2, <1>t, LauncherAssumption DEF SemaphoreTypes
  <2>6. QueueInv'
    BY <2>1, <2>2, <1>2, <1>t DEF QueueInv
  <2>7. QED BY <2>1, <2>4, <2>5, <2>6, <1>u, <1>2, <1>t DEF SemaphoreInv, SemaphoreTypes
<1>3. CASE /\ ~(cur < MaxParallel /\ waiters = <<>>) /\ waiters' = Append(waiters, c)
           /\ pc' = [pc EXCEPT ![c] = "waiting"] /\ UNCHANGED cur
  <2>1. /\ pc' \in [Calls -> States] /\ holders' = holders \ {c} /\ lost' = lost \ {c}
        /\ waitingCalls' = waitingCalls \union {c}
    BY <1>3, <1>t, CallMoves DEF SemaphoreTypes, States, Holding
  <2>2. c \notin holders /\ c \notin lost /\ c \notin waitingCalls
    BY <1>u DEF holders, lost, Holding, waitingCalls
  <2>3. /\ waiters' \in Seq(Calls) /\ Distinct(waiters')
        /\ Range(waiters') = Range(waiters) \union {c}
    BY <2>2, <1>3, <1>t, AddLast DEF QueueInv, SemaphoreTypes
  <2>4. cur' = MaxParallel
    <3>1. CASE waiters = <<>>
      BY <3>1, <1>3, <1>t, LauncherAssumption DEF SemaphoreTypes
    <3>2. CASE waiters # <<>>
      BY <3>2, <1>3, <1>t DEF QueueInv
    <3>3. QED BY <3>1, <3>2
  <2>5. SlotsInv'
    <3>1. holders' = holders /\ lost' = lost
      BY <2>1, <2>2
    <3>2. QED BY <3>1, <1>3, <1>t DEF SlotsInv
  <2>6. QueueInv'
    BY <2>1, <2>3, <2>4, <1>t DEF QueueInv
  <2>7. QED
    BY <2>1, <2>3, <2>5, <2>6, <1>u, <1>3, <1>t DEF SemaphoreInv, SemaphoreTypes
<1>4. QED BY <1>1, <1>2, <1>3 DEF Launch

(* The call that gives up leaves the queue; no slot becomes free.          *)
LEMMA GivesUpStep ==
  ASSUME SemaphoreInv, NEW c \in Calls, pc[c] = "waiting", leaveQueue(c),
         pc' = [pc EXCEPT ![c] = "refused"], UNCHANGED <<launcher, cur>>
  PROVE  SemaphoreInv'
<1>t. SemaphoreTypes /\ QueueInv /\ SlotsInv
  BY DEF SemaphoreInv
<1>1. PICK i \in DOMAIN waiters : waiters[i] = c /\ waiters' = RemoveAt(waiters, i)
  BY DEF leaveQueue
<1>2. /\ waiters' \in Seq(Calls) /\ Distinct(waiters')
      /\ Range(waiters') = Range(waiters) \ {c}
  BY <1>1, <1>t, DropOne DEF QueueInv, SemaphoreTypes
<1>3. /\ pc' \in [Calls -> States] /\ holders' = holders \ {c} /\ lost' = lost \ {c}
      /\ waitingCalls' = waitingCalls \ {c}
  BY <1>t, CallMoves DEF SemaphoreTypes, States, Holding
<1>4. holders' = holders /\ lost' = lost
  BY <1>3 DEF holders, lost, Holding
<1>5. waiters # <<>>
  BY <1>1
<1>6. SlotsInv' /\ QueueInv'
  BY <1>2, <1>3, <1>4, <1>5, <1>t DEF SlotsInv, QueueInv
<1>7. QED BY <1>2, <1>3, <1>6, <1>t DEF SemaphoreInv, SemaphoreTypes

(* Release wakes as many calls as there are free slots, in their order.    *)
LEMMA ReleaseStep ==
  ASSUME SemaphoreInv, NEW c \in Calls, pc[c] \in Holding,
         NEW q \in {"refused", "ended"}, Release(c, q), UNCHANGED launcher
  PROVE  SemaphoreInv'
<1>t. SemaphoreTypes /\ QueueInv /\ SlotsInv
  BY DEF SemaphoreInv
<1> DEFINE n == cur - 1
           k == IF MaxParallel - n < Len(waiters) THEN MaxParallel - n ELSE Len(waiters)
           G == {waiters[i] : i \in 1..k}
           at == [pc EXCEPT ![c] = q]
<1>1. /\ cur' = n + k /\ waiters' = SubSeq(waiters, k + 1, Len(waiters))
      /\ pc' = [d \in Calls |-> IF \E i \in 1..k : waiters[i] = d THEN "granted" ELSE at[d]]
  BY DEF Release, notifyWaiters
<1>2. c \in holders /\ c \notin lost /\ c \notin waitingCalls
  BY DEF holders, lost, waitingCalls, Holding
<1>3. cur \in 1..MaxParallel
  <2>1. holders # {}
    BY <1>2
  <2>2. Cardinality(holders) >= 1
    BY <2>1, FiniteCalls, FS_EmptySet
  <2>3. cur >= 1
    BY <2>2, <1>t, FiniteCalls DEF SlotsInv
  <2>4. QED BY <2>3, <1>t DEF SemaphoreTypes
<1>4. k \in 0..Len(waiters) /\ n + k \in 0..MaxParallel
      /\ (k < Len(waiters) => n + k = MaxParallel)
  BY <1>3, <1>t, LauncherAssumption DEF SemaphoreTypes
<1> HIDE DEF k
<1>5. IsFiniteSet(G) /\ Cardinality(G) = k
  BY <1>4, <1>t, DistinctCount DEF QueueInv, SemaphoreTypes
<1>6. /\ waiters' \in Seq(Calls) /\ Distinct(waiters') /\ Len(waiters') = Len(waiters) - k
      /\ Range(waiters') = Range(waiters) \ G
  BY <1>1, <1>4, <1>t, DropFront DEF QueueInv, SemaphoreTypes
<1>7. G \subseteq waitingCalls
  BY <1>4, <1>t DEF QueueInv, Range, SemaphoreTypes
<1>8. \A d \in Calls : pc'[d] = IF d \in G THEN "granted" ELSE IF d = c THEN q ELSE pc[d]
  BY <1>1, <1>t DEF SemaphoreTypes
<1>9. pc' \in [Calls -> States]
  <2>1. \A d \in Calls : pc'[d] \in States
    BY <1>8, <1>t DEF SemaphoreTypes, States, Holding
  <2>2. pc' = [d \in Calls |-> pc'[d]]
    BY <1>1
  <2>3. QED BY <2>1, <2>2
<1> HIDE DEF G
<1>10. G \intersect holders = {} /\ G \intersect lost = {} /\ c \notin G
  BY <1>7, <1>2 DEF waitingCalls, holders, lost, Holding
<1>11. G \subseteq Calls
  BY <1>7 DEF waitingCalls
<1>12. /\ holders' = (holders \ {c}) \union G /\ lost' = lost
       /\ waitingCalls' = waitingCalls \ G
  <2>1. \A d \in Calls : pc'[d] \in Holding <=> d \in (holders \ {c}) \union G
    BY <1>8, <1>10 DEF holders, Holding
  <2>2. \A d \in Calls : pc'[d] = "failed" <=> pc[d] = "failed"
    BY <1>8, <1>10, <1>2, <1>7 DEF lost, waitingCalls
  <2>3. \A d \in Calls : pc'[d] = "waiting" <=> pc[d] = "waiting" /\ d \notin G
    BY <1>8, <1>2 DEF waitingCalls
  <2>4. holders' = (holders \ {c}) \union G
    BY <2>1, <1>11 DEF holders
  <2>5. lost' = lost
    BY <2>2 DEF lost
  <2>6. waitingCalls' = waitingCalls \ G
    BY <2>3 DEF waitingCalls
  <2>7. QED BY <2>4, <2>5, <2>6
<1>13. Cardinality(holders') = Cardinality(holders) - 1 + k
  <2>1. IsFiniteSet(holders \ {c}) /\ Cardinality(holders \ {c}) = Cardinality(holders) - 1
    BY <1>2, FiniteCalls, FS_RemoveElement
  <2>2. (holders \ {c}) \intersect G = {}
    BY <1>10
  <2>3. Cardinality((holders \ {c}) \union G)
          = Cardinality(holders \ {c}) + Cardinality(G) - Cardinality({})
    BY <2>1, <2>2, <1>5, FS_Union
  <2>4. Cardinality({}) = 0
    BY FS_EmptySet
  <2>5. QED BY <1>12, <1>4, <2>1, <2>3, <2>4, <1>5, FiniteCalls
<1>14. SlotsInv'
  BY <1>13, <1>12, <1>1, <1>4, <1>t, FiniteCalls DEF SlotsInv
<1>15. QueueInv'
  <2>1. waiters' # <<>> => cur' = MaxParallel
    BY <1>6, <1>4, <1>1
  <2>2. QED BY <2>1, <1>6, <1>12, <1>t DEF QueueInv
<1>16. QED
  BY <1>14, <1>15, <1>9, <1>6, <1>4, <1>1, <1>t DEF SemaphoreInv, SemaphoreTypes

(* Steps that touch neither the semaphore nor a call's place.              *)
LEMMA SemaphoreUntouched ==
  ASSUME SemaphoreInv, UNCHANGED <<semaphore, pc>>,
         launcher' \in {"none", "ready", "ErrLoadSchedulerConfig", "ErrParseSchedulerConfig"}
  PROVE  SemaphoreInv'
<1>1. holders' = holders /\ lost' = lost /\ waitingCalls' = waitingCalls
  BY DEF holders, lost, waitingCalls
<1>2. QED
  BY <1>1 DEF SemaphoreInv, SemaphoreTypes, QueueInv, SlotsInv, semaphore

LEMMA SemaphoreStep ==
  ASSUME SemaphoreInv, [Next]_vars
  PROVE  SemaphoreInv'
<1>l. launcher \in {"none", "ready", "ErrLoadSchedulerConfig", "ErrParseSchedulerConfig"}
  BY DEF SemaphoreInv, SemaphoreTypes
<1>1. ASSUME NewLauncher PROVE SemaphoreInv'
  BY <1>1, SemaphoreUntouched DEF NewLauncher
<1>2. ASSUME NEW c \in Calls, Launch(c) PROVE SemaphoreInv'
  BY <1>2, LaunchStep
<1>3. ASSUME NEW c \in Calls, Acquired(c) PROVE SemaphoreInv'
  BY <1>3, KeepsSlot DEF Acquired, Holding, States
<1>4. ASSUME NEW c \in Calls, AcquireFails(c) PROVE SemaphoreInv'
  <2>1. CASE pc[c] = "granted" /\ Release(c, "refused")
    BY <2>1, <1>4, ReleaseStep DEF AcquireFails, Holding
  <2>2. CASE pc[c] = "waiting" /\ leaveQueue(c) /\ pc' = [pc EXCEPT ![c] = "refused"]
             /\ UNCHANGED cur
    BY <2>2, <1>4, GivesUpStep DEF AcquireFails
  <2>3. QED BY <1>4, <2>1, <2>2 DEF AcquireFails
<1>5. ASSUME NEW c \in Calls, NewScheduler(c) PROVE SemaphoreInv'
  BY <1>5, KeepsSlot DEF NewScheduler, launchFails, Holding, States
<1>6. ASSUME NEW c \in Calls, HandlersSynced(c) PROVE SemaphoreInv'
  BY <1>6, KeepsSlot DEF HandlersSynced, launchFails, Holding, States
<1>7. ASSUME NEW c \in Calls, RunReturns(c) PROVE SemaphoreInv'
  BY <1>7, ReleaseStep DEF RunReturns, Holding
<1>8. ASSUME NEW c \in Calls, Close(c) \/ EndContext(c) PROVE SemaphoreInv'
  BY <1>8, <1>l, SemaphoreUntouched DEF Close, EndContext
<1>9. ASSUME NEW c \in Watching, WatchSteps(c) PROVE SemaphoreInv'
  <2>1. UNCHANGED <<launcher, semaphore, pc>>
    BY <1>9 DEF WatchSteps, GetWatcher, CombineLoop, CombineTake, CombineSourceClosed,
       CombineSend, CombineReturns, StopWatch, SourceEvent, SourceTimeout, SourceCancelled,
       setWatch
  <2>2. QED BY <2>1, <1>l, SemaphoreUntouched
<1>10. CASE UNCHANGED vars
  BY <1>10, <1>l, SemaphoreUntouched DEF vars, semaphore
<1>11. QED
  BY <1>1, <1>2, <1>3, <1>4, <1>5, <1>6, <1>7, <1>8, <1>9, <1>10 DEF Next, LaunchSteps

(* For any calls of Launch and any size of the semaphore, in whatever      *)
(* order launches wait, are granted, give up, fail and end: every slot in  *)
(* use is held by a scheduler or was lost by a failed launch, no more      *)
(* schedulers than MaxParallel exist, the queue has each waiting call      *)
(* once, and nobody waits while a slot is free (SlotsAccountedFor).        *)
THEOREM SlotsAreExact == Spec => []SlotsAccountedFor
<1>1. Init => SemaphoreInv
  <2> SUFFICES ASSUME Init PROVE SemaphoreInv
    OBVIOUS
  <2>1. holders = {} /\ lost = {} /\ waitingCalls = {}
    BY DEF Init, holders, lost, waitingCalls, Holding
  <2>2. Range(<<>>) = {} /\ Distinct(<<>>)
    BY DEF Range, Distinct
  <2>3. SemaphoreTypes
    BY LauncherAssumption DEF Init, SemaphoreTypes, States
  <2>4. QED BY <2>1, <2>2, <2>3, FS_EmptySet DEF Init, SemaphoreInv, QueueInv, SlotsInv
<1>2. SemaphoreInv /\ [Next]_vars => SemaphoreInv'
  BY SemaphoreStep
<1>3. QED BY <1>1, <1>2, SemaphoreImplies, PTL DEF Spec

-----------------------------------------------------------------------------
(* The merged watches.                                                     *)

Events == Nat \X Nat

(* An event of another source changes nothing for source i, ...            *)
LEMMA OtherSource ==
  ASSUME NEW s \in Seq(Events), NEW e \in Events, NEW i \in Nat, e[1] # i, NEW m \in Int
  PROVE  inOrder(Append(s, e), i, m) <=> inOrder(s, i, m)
<1> DEFINE t == Append(s, e)
<1>1. /\ t \in Seq(Events) /\ Len(t) = Len(s) + 1 /\ t[Len(s) + 1] = e
      /\ \A j \in 1..Len(s) : t[j] = s[j]
  BY AppendProperties
<1> HIDE DEF t
<1>d. /\ DOMAIN t = 1..(Len(s) + 1) /\ DOMAIN s = 1..Len(s) /\ Len(s) \in Nat
      /\ \A j \in DOMAIN t : j \in DOMAIN s \/ j = Len(s) + 1
      /\ \A j \in DOMAIN s : j \in DOMAIN t
  BY <1>1
<1>2. ASSUME inOrder(s, i, m) PROVE inOrder(t, i, m)
  <2>1. \A k \in 1..m : \E j \in DOMAIN t : t[j] = <<i, k>>
    BY <1>1, <1>d, <1>2 DEF inOrder
  <2>2. \A j \in DOMAIN t : t[j][1] = i => j \in DOMAIN s /\ t[j] = s[j]
    BY <1>1, <1>d
  <2>3. \A j \in DOMAIN t : t[j][1] = i => t[j][2] \in 1..m
    BY <2>2, <1>2 DEF inOrder
  <2>4. \A j, k \in DOMAIN t : j < k /\ t[j][1] = i /\ t[k][1] = i => t[j][2] < t[k][2]
    BY <2>2, <1>2 DEF inOrder
  <2>5. QED BY <2>1, <2>3, <2>4 DEF inOrder
<1>3. ASSUME inOrder(t, i, m) PROVE inOrder(s, i, m)
  <2>1. \A k \in 1..m : \E j \in DOMAIN s : s[j] = <<i, k>>
    <3> TAKE k \in 1..m
    <3>1. PICK j \in DOMAIN t : t[j] = <<i, k>>
      BY <1>3 DEF inOrder
    <3>2. j # Len(s) + 1
      BY <3>1, <1>1
    <3>3. QED BY <3>1, <3>2, <1>1, <1>d
  <2>2. \A j \in DOMAIN s : j \in DOMAIN t /\ t[j] = s[j]
    BY <1>1, <1>d
  <2>3. \A j \in DOMAIN s : s[j][1] = i => s[j][2] \in 1..m
    BY <2>2, <1>3 DEF inOrder
  <2>4. \A j, k \in DOMAIN s : j < k /\ s[j][1] = i /\ s[k][1] = i => s[j][2] < s[k][2]
    BY <2>2, <1>3 DEF inOrder
  <2>5. QED BY <2>1, <2>3, <2>4 DEF inOrder
<1>4. QED BY <1>2, <1>3 DEF t

(* ... and the next event of source i continues its order.                 *)
LEMMA NextOfSource ==
  ASSUME NEW s \in Seq(Events), NEW i \in Nat, NEW m \in Nat, inOrder(s, i, m)
  PROVE  inOrder(Append(s, <<i, m + 1>>), i, m + 1)
<1> DEFINE e == <<i, m + 1>>
           t == Append(s, e)
<1>1. /\ t \in Seq(Events) /\ Len(t) = Len(s) + 1 /\ t[Len(s) + 1] = e
      /\ \A j \in 1..Len(s) : t[j] = s[j]
  <2>1. e \in Events
    BY DEF Events
  <2>2. QED BY <2>1, AppendProperties
<1> HIDE DEF t
<1>d. /\ DOMAIN t = 1..(Len(s) + 1) /\ DOMAIN s = 1..Len(s) /\ Len(s) \in Nat
      /\ \A j \in DOMAIN t : j \in DOMAIN s \/ j = Len(s) + 1
      /\ \A j \in DOMAIN s : j \in DOMAIN t /\ t[j] = s[j]
  BY <1>1
<1>2. \A k \in 1..(m + 1) : \E j \in DOMAIN t : t[j] = <<i, k>>
  <2> TAKE k \in 1..(m + 1)
  <2>1. CASE k = m + 1
    BY <2>1, <1>1, <1>d
  <2>2. CASE k \in 1..m
    BY <2>2, <1>d DEF inOrder
  <2>3. QED BY <2>1, <2>2
<1>3. \A j \in DOMAIN s : s[j][1] = i => s[j][2] \in 1..m
  BY DEF inOrder
<1>4. \A j \in DOMAIN t : t[j][1] = i => t[j][2] \in 1..(m + 1)
  <2> TAKE j \in DOMAIN t
  <2>1. CASE j \in DOMAIN s
    BY <2>1, <1>3, <1>d
  <2>2. CASE j = Len(s) + 1
    BY <2>2, <1>1
  <2>3. QED BY <2>1, <2>2, <1>d
<1>5. \A j, k \in DOMAIN t : j < k /\ t[j][1] = i /\ t[k][1] = i => t[j][2] < t[k][2]
  <2> SUFFICES ASSUME NEW j \in DOMAIN t, NEW k \in DOMAIN t, j < k, t[j][1] = i, t[k][1] = i
               PROVE  t[j][2] < t[k][2]
    OBVIOUS
  <2>1. j \in DOMAIN s
    BY <1>d
  <2>2. CASE k \in DOMAIN s
    BY <2>1, <2>2, <1>d DEF inOrder
  <2>3. CASE k = Len(s) + 1
    <3>1. t[j][2] \in 1..m
      BY <2>1, <1>3, <1>d
    <3>2. t[k][2] = m + 1
      BY <2>3, <1>1
    <3>3. QED BY <3>1, <3>2
  <2>4. QED BY <2>2, <2>3, <1>d
<1>6. inOrder(t, i, m + 1)
  BY <1>2, <1>4, <1>5 DEF inOrder
<1>7. QED BY <1>6 DEF t

Merged(w) == \A i \in Sources : inOrder(Append(w.got, w.hold), i, taken(w, i))
(* A merging goroutine in its select holds no event, and a store's         *)
(* callback that is sending has an event to send.                          *)
WatchShape(w) ==
  /\ w.comb = "select" => w.hold = <<0, 0>>
  /\ \A i \in Sources : w.src[i].pc = "calling" => w.src[i].sent > 0

WatchInv ==
  /\ ctxDone \subseteq Calls /\ cancelled \subseteq Calls
  /\ watches \in [Watching -> Seq(WatchState)]
  /\ \A c \in Watching : \A n \in DOMAIN watches[c] :
       /\ WatchShape(watches[c][n])
       /\ ~watches[c][n].stopped /\ ~schedulerCtxDone(c) => Merged(watches[c][n])

(* A step of one watch.                                                    *)
LEMMA OneWatchStep ==
  ASSUME WatchInv, NEW c \in Watching, NEW n, isWatch(c, n), NEW v \in WatchState,
         WatchShape(v), ~v.stopped /\ ~schedulerCtxDone(c) => Merged(v),
         setWatch(c, n, v)
  PROVE  WatchInv'
<1>1. n \in DOMAIN watches[c] /\ watches[c] \in Seq(WatchState)
  BY DEF isWatch, WatchInv
<1>2. /\ watches' = [watches EXCEPT ![c] = [watches[c] EXCEPT ![n] = v]]
      /\ UNCHANGED <<ctxDone, cancelled>>
  BY DEF setWatch
<1>3. [watches[c] EXCEPT ![n] = v] \in Seq(WatchState)
  BY <1>1, ExceptSeq
<1>4. watches' \in [Watching -> Seq(WatchState)]
  BY <1>2, <1>3 DEF WatchInv
<1>5. ASSUME NEW d \in Watching, NEW m \in DOMAIN watches'[d]
      PROVE  IF d = c /\ m = n THEN watches'[d][m] = v
             ELSE m \in DOMAIN watches[d] /\ watches'[d][m] = watches[d][m]
  BY <1>1, <1>2 DEF WatchInv
<1>6. \A d \in Calls : schedulerCtxDone(d)' = schedulerCtxDone(d)
  BY <1>2 DEF schedulerCtxDone
<1>7. ASSUME NEW d \in Watching, NEW m \in DOMAIN watches'[d]
      PROVE  /\ WatchShape(watches'[d][m])
             /\ ~watches'[d][m].stopped /\ ~schedulerCtxDone(d)' => Merged(watches'[d][m])
  <2>1. schedulerCtxDone(d)' = schedulerCtxDone(d)
    BY <1>6, LauncherAssumption
  <2>2. CASE d = c /\ m = n
    BY <1>5, <2>1, <2>2
  <2>3. CASE ~(d = c /\ m = n)
    BY <1>5, <2>1, <2>3 DEF WatchInv
  <2>4. QED BY <2>2, <2>3
<1>8. QED BY <1>2, <1>4, <1>7 DEF WatchInv, WatchShape, Merged, taken, inOrder

(* Changes of a watch that leave its events where they are.                *)
LEMMA SameEvents ==
  ASSUME NEW w \in WatchState, NEW v \in WatchState, v.got = w.got, v.hold = w.hold,
         \A i \in Sources : taken(v, i) = taken(w, i), Merged(w)
  PROVE  Merged(v)
  BY DEF Merged

(* The merging goroutine takes an event.                                   *)
LEMMA TakeMerges ==
  ASSUME NEW w \in WatchState, NEW i \in Sources, w.comb = "select", WatchShape(w),
         w.src[i].pc = "calling"
  PROVE  LET v == [w EXCEPT !.src[i].pc = "watching", !.comb = "sending",
                            !.hold = <<i, w.src[i].sent>>]
         IN  v \in WatchState /\ WatchShape(v) /\ v.stopped = w.stopped
             /\ (Merged(w) => Merged(v))
<1> DEFINE e == <<i, w.src[i].sent>>
           v == [w EXCEPT !.src[i].pc = "watching", !.comb = "sending", !.hold = e]
<1>1. /\ w.got \in Seq(Events) /\ w.hold \in Events /\ w.src \in [Sources -> SourceState]
      /\ \A j \in Sources : w.src[j].sent \in Nat /\ j \in Nat /\ j # 0
  BY DEF WatchState, SourceState, Events, Sources
<1>2. e \in Events
  BY <1>1 DEF Events
<1>3. [w.src EXCEPT ![i].pc = "watching"] \in [Sources -> SourceState]
  BY <1>1 DEF SourceState
<1>4. v \in WatchState
  BY <1>2, <1>3 DEF WatchState, Events
<1>5. /\ v.got = w.got /\ v.hold = e /\ v.comb = "sending" /\ v.stopped = w.stopped
      /\ v.src = [w.src EXCEPT ![i].pc = "watching"]
  BY DEF WatchState
<1> HIDE DEF v
<1>6. /\ taken(v, i) = w.src[i].sent /\ taken(w, i) = w.src[i].sent - 1
      /\ \A j \in Sources \ {i} : taken(v, j) = taken(w, j)
  BY <1>5, <1>1 DEF taken, SourceState
<1>7. ASSUME Merged(w) PROVE Merged(v)
  <2>1. \A j \in Sources : taken(w, j) \in Int
    BY <1>1 DEF taken
  <2>2. \A j \in Sources : inOrder(w.got, j, taken(w, j))
    <3> TAKE j \in Sources
    <3>1. w.hold[1] # j
      BY <1>1 DEF WatchShape
    <3>2. inOrder(Append(w.got, w.hold), j, taken(w, j))
      BY <1>7 DEF Merged
    <3>3. QED BY <3>1, <3>2, <1>1, <2>1, OtherSource
  <2>3. inOrder(Append(w.got, e), i, w.src[i].sent)
    <3>1. w.src[i].sent > 0
      BY DEF WatchShape
    <3>2. inOrder(w.got, i, w.src[i].sent - 1)
      BY <1>6, <2>2
    <3>3. w.src[i].sent - 1 \in Nat /\ (w.src[i].sent - 1) + 1 = w.src[i].sent
      BY <3>1, <1>1
    <3>4. QED BY <3>2, <3>3, <1>1, NextOfSource
  <2>4. ASSUME NEW j \in Sources \ {i} PROVE inOrder(Append(w.got, e), j, taken(w, j))
    BY <2>2, <1>1, <1>2, <2>1, OtherSource
  <2>5. Merged(v)
    BY <1>5, <1>6, <2>3, <2>4 DEF Merged
  <2>6. QED BY <2>5
<1>8. WatchShape(v)
  BY <1>1, <1>5 DEF WatchShape, SourceState
<1>9. QED BY <1>4, <1>5, <1>7, <1>8 DEF v

(* The informer receives the event that the merging goroutine holds.       *)
LEMMA SendMerges ==
  ASSUME NEW w \in WatchState, WatchShape(w)
  PROVE  LET v == [w EXCEPT !.comb = "select", !.got = Append(@, w.hold), !.hold = <<0, 0>>]
         IN  v \in WatchState /\ WatchShape(v) /\ v.stopped = w.stopped
             /\ (Merged(w) => Merged(v))
<1> DEFINE g == Append(w.got, w.hold)
           v == [w EXCEPT !.comb = "select", !.got = g, !.hold = <<0, 0>>]
<1>1. /\ w.got \in Seq(Events) /\ w.hold \in Events /\ w.src \in [Sources -> SourceState]
      /\ \A j \in Sources : w.src[j].sent \in Nat /\ j \in Nat /\ j # 0
      /\ <<0, 0>> \in Events
  BY DEF WatchState, SourceState, Events, Sources
<1>2. g \in Seq(Events)
  BY <1>1, AppendProperties
<1> HIDE DEF g
<1>3. v \in WatchState
  BY <1>1, <1>2 DEF WatchState, Events
<1>4. /\ v.got = g /\ v.hold = <<0, 0>> /\ v.comb = "select" /\ v.stopped = w.stopped
      /\ v.src = w.src
  BY DEF WatchState
<1> HIDE DEF v
<1>5. ASSUME Merged(w) PROVE Merged(v)
  <2> SUFFICES ASSUME NEW j \in Sources
               PROVE  inOrder(Append(v.got, v.hold), j, taken(v, j))
    BY DEF Merged
  <2>1. inOrder(g, j, taken(w, j))
    BY <1>5 DEF Merged, g
  <2>2. taken(v, j) = taken(w, j) /\ taken(w, j) \in Int
    BY <1>4, <1>1 DEF taken
  <2>3. <<0, 0>>[1] # j
    BY <1>1
  <2>4. inOrder(Append(g, <<0, 0>>), j, taken(w, j))
    BY <2>1, <2>2, <2>3, <1>1, <1>2, OtherSource
  <2>5. QED BY <2>4, <2>2, <1>4
<1>6. WatchShape(v)
  BY <1>4 DEF WatchShape
<1>7. QED BY <1>3, <1>4, <1>5, <1>6 DEF v, g

(* The store's callback sends an event, or a goroutine of a store ends.    *)
LEMMA SourceMoves ==
  ASSUME NEW w \in WatchState, WatchShape(w), NEW i \in Sources, NEW r \in SourceState,
         \/ w.src[i].pc = "watching" /\ r = [pc |-> "calling", sent |-> w.src[i].sent + 1]
         \/ r.pc = "closed" /\ r.sent = w.src[i].sent
  PROVE  LET v == [w EXCEPT !.src[i] = r]
         IN  v \in WatchState /\ WatchShape(v) /\ v.stopped = w.stopped
             /\ (Merged(w) /\ w.src[i].pc # "closed"
                  /\ (r.pc = "closed" => w.src[i].pc = "watching") => Merged(v))
<1> DEFINE v == [w EXCEPT !.src[i] = r]
<1>1. /\ w.src \in [Sources -> SourceState] /\ \A j \in Sources : w.src[j].sent \in Nat
  BY DEF WatchState, SourceState
<1>2. [w.src EXCEPT ![i] = r] \in [Sources -> SourceState]
  BY <1>1
<1>3. v \in WatchState
  BY <1>2 DEF WatchState
<1>4. /\ v.got = w.got /\ v.hold = w.hold /\ v.comb = w.comb /\ v.stopped = w.stopped
      /\ v.src = [w.src EXCEPT ![i] = r]
  BY DEF WatchState
<1> HIDE DEF v
<1>5. WatchShape(v)
  <2>1. \A j \in Sources : v.src[j] = IF j = i THEN r ELSE w.src[j]
    BY <1>4, <1>1
  <2>2. r.pc = "calling" => r.sent > 0
    BY <1>1 DEF SourceState
  <2>3. QED BY <2>1, <2>2, <1>4 DEF WatchShape
<1>6. ASSUME Merged(w), w.src[i].pc # "closed", r.pc = "closed" => w.src[i].pc = "watching"
      PROVE  Merged(v)
  <2>1. taken(v, i) = taken(w, i)
    <3>1. v.src[i] = r
      BY <1>4, <1>1
    <3>2. CASE r = [pc |-> "calling", sent |-> w.src[i].sent + 1] /\ w.src[i].pc = "watching"
      BY <3>1, <3>2, <1>1 DEF taken
    <3>3. CASE r.pc = "closed" /\ r.sent = w.src[i].sent
      BY <3>1, <3>3, <1>1, <1>6 DEF taken
    <3>4. QED BY <3>2, <3>3
  <2>2. \A j \in Sources : taken(v, j) = taken(w, j)
    BY <2>1, <1>4, <1>1 DEF taken
  <2>3. QED BY <2>2, <1>3, <1>4, <1>6, SameEvents
<1>7. QED BY <1>3, <1>4, <1>5, <1>6 DEF v

(* The merging goroutine or its consumer goes on without moving an event.  *)
LEMMA LoopMoves ==
  ASSUME NEW w \in WatchState, WatchShape(w), NEW v \in WatchState,
         v.got = w.got, v.hold = w.hold, v.src = w.src, v.comb = "select" => w.comb = "select"
  PROVE  WatchShape(v) /\ (Merged(w) => Merged(v))
<1>1. WatchShape(v)
  BY DEF WatchShape
<1>2. \A i \in Sources : taken(v, i) = taken(w, i)
  BY DEF taken
<1>3. QED BY <1>1, <1>2, SameEvents

(* Calls and contexts: the watches stay, contexts only end.                *)
LEMMA ContextsEnd ==
  ASSUME WatchInv, UNCHANGED watches, ctxDone \subseteq ctxDone', ctxDone' \subseteq Calls,
         cancelled \subseteq cancelled', cancelled' \subseteq Calls
  PROVE  WatchInv'
<1>1. \A c \in Watching : schedulerCtxDone(c) => schedulerCtxDone(c)'
  BY DEF schedulerCtxDone
<1>2. ASSUME NEW c \in Watching, NEW n \in DOMAIN watches'[c]
      PROVE  /\ WatchShape(watches'[c][n])
             /\ ~watches'[c][n].stopped /\ ~schedulerCtxDone(c)' => Merged(watches'[c][n])
  BY <1>1 DEF WatchInv
<1>3. QED BY <1>2 DEF WatchInv, WatchShape, Merged, taken, inOrder

LEMMA WatchStep ==
  ASSUME WatchInv, NEW c \in Watching, WatchSteps(c)
  PROVE  WatchInv'
<1>1. ASSUME GetWatcher(c) PROVE WatchInv'
  <2> DEFINE s == watches[c]
             t == Append(s, NewWatch)
  <2>1. NewWatch \in WatchState
    BY DEF NewWatch, WatchState, Source, SourceState, Sources
  <2>2. /\ NewWatch.hold = <<0, 0>> /\ NewWatch.got = <<>>
        /\ \A i \in Sources : NewWatch.src[i].pc = "watching" /\ NewWatch.src[i].sent = 0
    BY DEF NewWatch, Source
  <2>3. WatchShape(NewWatch)
    BY <2>2 DEF WatchShape
  <2>4. Merged(NewWatch)
    <3> SUFFICES ASSUME NEW i \in Sources
                 PROVE  inOrder(Append(<<>>, <<0, 0>>), i, 0)
      BY <2>2 DEF Merged, taken
    <3>1. inOrder(<<>>, i, 0)
      BY DEF inOrder
    <3>2. <<0, 0>> \in Events /\ <<>> \in Seq(Events) /\ i \in Nat /\ <<0, 0>>[1] # i
      BY DEF Events, Sources
    <3>3. 0 \in Int
      OBVIOUS
    <3> DEFINE e == <<0, 0>>
               z == <<>>
    <3>4. e \in Events /\ z \in Seq(Events) /\ i \in Nat /\ e[1] # i /\ inOrder(z, i, 0)
      BY <3>1, <3>2
    <3> HIDE DEF e, z
    <3>5. inOrder(Append(z, e), i, 0)
      BY <3>3, <3>4, OtherSource
    <3>6. QED BY <3>5 DEF e, z
  <2>5. /\ s \in Seq(WatchState) /\ watches' = [watches EXCEPT ![c] = t]
        /\ UNCHANGED <<ctxDone, cancelled>>
    BY <1>1 DEF GetWatcher, WatchInv
  <2>6. /\ t \in Seq(WatchState) /\ Len(t) = Len(s) + 1 /\ t[Len(s) + 1] = NewWatch
        /\ \A n \in 1..Len(s) : t[n] = s[n]
    BY <2>1, <2>5, AppendProperties
  <2> HIDE DEF t
  <2>7. watches' \in [Watching -> Seq(WatchState)]
    BY <2>5, <2>6 DEF WatchInv
  <2>c. \A d \in Watching \ {c} : watches'[d] = watches[d]
    BY <2>5 DEF WatchInv
  <2>d. watches'[c] = t
    BY <2>5 DEF WatchInv
  <2>8. ASSUME NEW d \in Watching, NEW n \in DOMAIN watches'[d]
        PROVE  /\ WatchShape(watches'[d][n])
               /\ ~watches'[d][n].stopped /\ ~schedulerCtxDone(d)' => Merged(watches'[d][n])
    <3>1. schedulerCtxDone(d)' = schedulerCtxDone(d)
      BY <2>5 DEF schedulerCtxDone
    <3>2. \/ n \in DOMAIN watches[d] /\ watches'[d][n] = watches[d][n]
          \/ watches'[d][n] = NewWatch
      <4>1. CASE d # c
        BY <4>1, <2>c
      <4>2. CASE d = c
        <5>1. n \in 1..(Len(s) + 1)
          BY <4>2, <2>d, <2>6
        <5>2. n \in 1..Len(s) \/ n = Len(s) + 1
          BY <5>1, <2>5
        <5>3. QED BY <4>2, <5>2, <2>d, <2>5, <2>6
      <4>3. QED BY <4>1, <4>2
    <3>3. CASE n \in DOMAIN watches[d] /\ watches'[d][n] = watches[d][n]
      BY <3>1, <3>3 DEF WatchInv
    <3>4. CASE watches'[d][n] = NewWatch
      BY <3>4, <2>3, <2>4
    <3>5. QED BY <3>2, <3>3, <3>4
  <2>9. QED BY <2>5, <2>7, <2>8 DEF WatchInv, WatchShape, Merged, taken, inOrder
<1>2. ASSUME NEW n \in 1..MaxWatches, isWatch(c, n),
             \/ CombineLoop(c, n) \/ CombineSend(c, n) \/ CombineReturns(c, n)
             \/ StopWatch(c, n)
             \/ \E i \in Sources : SourceEvent(c, n, i) \/ SourceTimeout(c, n, i)
                                   \/ SourceCancelled(c, n, i)
      PROVE  WatchInv'
  <2> DEFINE w == watches[c][n]
  <2>1. /\ w \in WatchState /\ WatchShape(w)
        /\ ~w.stopped /\ ~schedulerCtxDone(c) => Merged(w)
    BY <1>2 DEF isWatch, WatchInv
  <2>2. ASSUME NEW i \in Sources, CombineTake(c, n, i) PROVE WatchInv'
    <3> DEFINE v == [w EXCEPT !.src[i].pc = "watching", !.comb = "sending",
                              !.hold = <<i, w.src[i].sent>>]
    <3>1. setWatch(c, n, v) /\ w.comb = "select" /\ w.src[i].pc = "calling"
      BY <2>2 DEF CombineTake
    <3>2. /\ v \in WatchState /\ WatchShape(v) /\ v.stopped = w.stopped
          /\ Merged(w) => Merged(v)
      BY <2>1, <3>1, TakeMerges
    <3> HIDE DEF v
    <3>3. QED BY <2>1, <3>1, <3>2, <1>2, OneWatchStep
  <2>3. ASSUME NEW i \in Sources, CombineSourceClosed(c, n, i) PROVE WatchInv'
    <3> DEFINE v == afterClosed(w, i)
    <3>1. setWatch(c, n, v) /\ w.comb = "select"
      BY <2>3 DEF CombineSourceClosed
    <3>2. /\ v \in WatchState /\ v.got = w.got /\ v.hold = w.hold /\ v.src = w.src
          /\ v.stopped = w.stopped
      BY <2>1 DEF afterClosed, WatchState
    <3> HIDE DEF v
    <3>3. WatchShape(v) /\ (Merged(w) => Merged(v))
      BY <2>1, <3>1, <3>2, LoopMoves
    <3>4. QED BY <2>1, <3>1, <3>2, <3>3, <1>2, OneWatchStep
  <2>4. ASSUME CombineSend(c, n) PROVE WatchInv'
    <3> DEFINE v == [w EXCEPT !.comb = "select", !.got = Append(@, w.hold), !.hold = <<0, 0>>]
    <3>1. setWatch(c, n, v)
      BY <2>4 DEF CombineSend
    <3>2. /\ v \in WatchState /\ WatchShape(v) /\ v.stopped = w.stopped
          /\ Merged(w) => Merged(v)
      BY <2>1, SendMerges
    <3> HIDE DEF v
    <3>3. QED BY <2>1, <3>1, <3>2, <1>2, OneWatchStep
  <2>5. ASSUME CombineReturns(c, n) PROVE WatchInv'
    <3> DEFINE v == [w EXCEPT !.comb = "closed"]
    <3>1. setWatch(c, n, v)
      BY <2>5 DEF CombineReturns
    <3>2. /\ v \in WatchState /\ v.got = w.got /\ v.hold = w.hold /\ v.src = w.src
          /\ v.stopped = w.stopped /\ v.comb = "closed"
      BY <2>1 DEF WatchState
    <3> HIDE DEF v
    <3>3. WatchShape(v) /\ (Merged(w) => Merged(v))
      BY <2>1, <3>2, LoopMoves
    <3>4. QED BY <2>1, <3>1, <3>2, <3>3, <1>2, OneWatchStep
  <2>6. ASSUME StopWatch(c, n) PROVE WatchInv'
    <3> DEFINE v == [w EXCEPT !.stopped = TRUE]
    <3>1. setWatch(c, n, v)
      BY <2>6 DEF StopWatch
    <3>2. /\ v \in WatchState /\ v.got = w.got /\ v.hold = w.hold /\ v.src = w.src
          /\ v.comb = w.comb
      BY <2>1 DEF WatchState
    <3>3. v.stopped
      BY <2>1 DEF WatchState
    <3> HIDE DEF v
    <3>4. WatchShape(v)
      BY <2>1, <3>2, LoopMoves
    <3>5. QED BY <3>1, <3>2, <3>3, <3>4, <1>2, OneWatchStep
  <2>7. ASSUME NEW i \in Sources, SourceEvent(c, n, i) PROVE WatchInv'
    <3> DEFINE r == [pc |-> "calling", sent |-> w.src[i].sent + 1]
               v == [w EXCEPT !.src[i] = r]
    <3>1. setWatch(c, n, v) /\ w.src[i].pc = "watching"
      BY <2>7 DEF SourceEvent
    <3>2. r \in SourceState /\ r.pc = "calling"
      BY <2>1 DEF WatchState, SourceState
    <3> HIDE DEF r
    <3>3. /\ v \in WatchState /\ WatchShape(v) /\ v.stopped = w.stopped
          /\ Merged(w) => Merged(v)
      BY <2>1, <3>1, <3>2, SourceMoves DEF r
    <3> HIDE DEF v
    <3>4. QED BY <2>1, <3>1, <3>3, <1>2, OneWatchStep
  <2>8. ASSUME NEW i \in Sources, SourceTimeout(c, n, i) \/ SourceCancelled(c, n, i)
        PROVE  WatchInv'
    <3> DEFINE r == [w.src[i] EXCEPT !.pc = "closed"]
               v == [w EXCEPT !.src[i] = r]
    <3>1. /\ setWatch(c, n, v) /\ w.src[i].pc # "closed"
          /\ w.src[i].pc = "watching" \/ schedulerCtxDone(c)
      BY <2>8 DEF SourceTimeout, SourceCancelled
    <3>2. r \in SourceState /\ r.pc = "closed" /\ r.sent = w.src[i].sent
      BY <2>1 DEF WatchState, SourceState
    <3> HIDE DEF r
    <3>3. /\ v \in WatchState /\ WatchShape(v) /\ v.stopped = w.stopped
          /\ Merged(w) /\ w.src[i].pc = "watching" => Merged(v)
      BY <2>1, <3>2, SourceMoves
    <3> HIDE DEF v
    <3>4. QED BY <2>1, <3>1, <3>3, <1>2, OneWatchStep
  <2>9. QED BY <1>2, <2>2, <2>3, <2>4, <2>5, <2>6, <2>7, <2>8 DEF CombineLoop
<1>3. ASSUME NEW n \in 1..MaxWatches,
             \/ CombineLoop(c, n) \/ CombineSend(c, n) \/ CombineReturns(c, n)
             \/ StopWatch(c, n)
             \/ \E i \in Sources : SourceEvent(c, n, i) \/ SourceTimeout(c, n, i)
                                   \/ SourceCancelled(c, n, i)
      PROVE  isWatch(c, n)
  BY <1>3 DEF CombineLoop, CombineTake, CombineSourceClosed, CombineSend, CombineReturns,
     StopWatch, SourceEvent, SourceTimeout, SourceCancelled
<1>4. QED BY <1>1, <1>2, <1>3 DEF WatchSteps

LEMMA WatchInvStep ==
  ASSUME WatchInv, [Next]_vars
  PROVE  WatchInv'
<1>t. ctxDone \subseteq Calls /\ cancelled \subseteq Calls
  BY DEF WatchInv
<1>1. ASSUME NEW c \in Calls, Launch(c) \/ LaunchSteps(c) \/ Close(c) \/ EndContext(c)
      PROVE  WatchInv'
  <2>1. /\ UNCHANGED watches
        /\ ctxDone' = ctxDone \/ ctxDone' = ctxDone \union {c}
        /\ cancelled' = cancelled \/ cancelled' = cancelled \union {c}
    BY <1>1 DEF Launch, LaunchSteps, Acquired, AcquireFails, NewScheduler, HandlersSynced,
       RunReturns, launchFails, Close, EndContext
  <2>2. /\ ctxDone \subseteq ctxDone' /\ ctxDone' \subseteq Calls
        /\ cancelled \subseteq cancelled' /\ cancelled' \subseteq Calls
    BY <2>1, <1>t
  <2>3. QED BY <2>1, <2>2, ContextsEnd
<1>2. ASSUME NewLauncher \/ UNCHANGED vars PROVE WatchInv'
  BY <1>2, <1>t, ContextsEnd DEF NewLauncher, vars
<1>3. QED BY <1>1, <1>2, WatchStep DEF Next

(* CombineTwoWatchers of watchutil.go, between the two goroutines of the   *)
(* stores and the informer: for any number of watches and events, and in   *)
(* whatever order the goroutines run, while a merged watcher is open the   *)
(* informer has of each store exactly what left its callback, in order     *)
(* (MergeLosesNothing).                                                    *)
THEOREM MergeIsLossless == Spec => []MergeLosesNothing
<1>1. Init => WatchInv
  BY DEF Init, WatchInv
<1>2. WatchInv /\ [Next]_vars => WatchInv'
  BY WatchInvStep
<1>3. WatchInv => MergeLosesNothing
  BY DEF WatchInv, MergeLosesNothing, Merged
<1>4. QED BY <1>1, <1>2, <1>3, PTL DEF Spec
=============================================================================
