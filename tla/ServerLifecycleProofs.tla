----------------------- MODULE ServerLifecycleProofs -----------------------
(***************************************************************************)
(* Proofs about ServerLifecycle, for any number of callers and any names   *)
(* of views: one view per name, and no store closed under a request that   *)
(* the server has not drained.                                             *)
(***************************************************************************)
EXTENDS ServerLifecycle, FiniteSetTheorems, TLAPS

(* The callers that have got a view from GetSandboxViewOverDelegate.       *)
served == {c \in Callers : caller[c].op \in {"sandbox", "delegate"} /\ caller[c].view # NoView}

(* Views are numbered without gaps, and each new one is for a new caller.  *)
CountInv == \E m \in Nat : created = 0..m /\ m <= Cardinality(served)

(* What a call has done when it gets to a step.                            *)
CallInv ==
  \A c \in Callers :
    /\ caller[c].pc \in {"idle", "get"} => caller[c].view = NoView
    /\ caller[c].pc \in {"get", "config", "register"} => caller[c].op \in {"sandbox", "delegate"}
    /\ caller[c].pc \in {"config", "register"} => caller[c].view # NoView
    /\ caller[c].pc = "register" =>
         caller[c].name \in files /\ caller[c].view \in kubeconfig

(* How far Stop has come: once Shutdown has been called no request begins, *)
(* and views are closed only after it has returned.                        *)
StopInv ==
  /\ mainPc \in {"draining", "closing", "stopped"} => stopping
  /\ mainPc \in {"closing", "stopped"} => active = {} \/ stopErr
  /\ closed # {} => mainPc \in {"stopped", "exited"}
  /\ mainPc # "exited" => exit = "none"

(* The inductive invariant.                                                *)
ServerInv == TypeOK /\ CountInv /\ CallInv /\ OneViewPerName /\ StopInv /\ DrainedBeforeClose
-----------------------------------------------------------------------------
(* The number of a view that is yet to be created.                         *)
LEMMA NextView ==
  ASSUME TypeOK, CountInv, NEW c \in Callers, c \notin served
  PROVE  /\ Cardinality(created) \in Views \ created
         /\ Cardinality(created) # NoView
         /\ NoView \notin Views
         /\ Cardinality(served \union {c}) = Cardinality(served) + 1
         /\ created \union {Cardinality(created)} = 0..Cardinality(created)
         /\ Cardinality(created) <= Cardinality(served) + 1
<1> USE ServerAssumption
<1>1. PICK m \in Nat : created = 0..m /\ m <= Cardinality(served)
  BY DEF CountInv
<1>2. Cardinality(created) = m + 1
  BY <1>1, FS_Interval
<1>3. IsFiniteSet(served) /\ served \subseteq Callers /\ served # Callers
  BY FS_Subset DEF served
<1>4. /\ Cardinality(served) \in Nat /\ Cardinality(Callers) \in Nat
      /\ Cardinality(served) < Cardinality(Callers)
  BY <1>3, FS_Subset, FS_CardinalityType
<1>5. Cardinality(served \union {c}) = Cardinality(served) + 1
  BY <1>3, FS_AddElement
<1>6. QED BY <1>1, <1>2, <1>4, <1>5 DEF Views, NoView

LEMMA InitServerInv == Init => ServerInv
<1> SUFFICES ASSUME Init PROVE ServerInv
  OBVIOUS
<1> USE ServerAssumption DEF Init, Idle
<1>0. Cardinality(Callers) \in Nat
  BY FS_CardinalityType
<1>1. TypeOK
  <2>1. Idle \in CallerState(created)
    BY DEF CallerState
  <2>2. caller \in [Callers -> CallerState(created)]
    BY <2>1
  <2>3. /\ cache \in [Names \union {Base} -> created \union {NoView}]
        /\ routes \in [Names \union {Base} -> created \union {NoView}]
    OBVIOUS
  <2>4. /\ kubeconfig \subseteq Views /\ created \subseteq Views /\ closed \subseteq created
        /\ files \subseteq Names \union {Base}
    BY <1>0 DEF Views, BaseView
  <2>5. appDone \in BOOLEAN /\ stopping \in BOOLEAN /\ stopErr \in BOOLEAN
    OBVIOUS
  <2>6. QED BY <2>2, <2>3, <2>4, <2>5 DEF TypeOK, MainPcs, HowExited, StartPcs
<1>2. CountInv
  <2>1. served = {}
    BY DEF served
  <2>2. created = 0..0
    BY DEF BaseView
  <2>3. QED BY <2>1, <2>2, FS_EmptySet DEF CountInv
<1>3. CallInv /\ OneViewPerName
  BY DEF CallInv, OneViewPerName
<1>4. StopInv /\ DrainedBeforeClose
  BY DEF StopInv, DrainedBeforeClose, active
<1>5. QED BY <1>1, <1>2, <1>3, <1>4 DEF ServerInv
-----------------------------------------------------------------------------
(* Steps that change neither views nor callers.                            *)
LEMMA SameViews ==
  ASSUME ServerInv, UNCHANGED <<viewVars, caller>>
  PROVE  CountInv' /\ CallInv' /\ OneViewPerName'
<1>1. CountInv'
  BY DEF ServerInv, CountInv, served, viewVars
<1>2. CallInv'
  BY DEF ServerInv, CallInv, viewVars
<1>3. OneViewPerName'
  BY DEF ServerInv, OneViewPerName, viewVars
<1>4. QED BY <1>1, <1>2, <1>3

(* The steps of the main goroutine.                                        *)
LEMMA MainKeepsInv == ServerInv /\ MainStep => ServerInv'
<1> SUFFICES ASSUME ServerInv, MainStep PROVE ServerInv'
  OBVIOUS
<1>1. UNCHANGED <<app, viewVars, caller>>
  BY DEF MainStep, ParseFails, InitFails, LaunchApp, LaunchReturns, Signal, ShutdownApp,
         ShutdownReturns, CloseViews, Exit
<1>2. active' = active
  BY <1>1 DEF active
<1>3. TypeOK /\ StopInv /\ DrainedBeforeClose
  BY DEF ServerInv
<1>b. BaseView \in created
  BY DEF ServerInv, CountInv, BaseView
<1>4. ASSUME /\ mainPc' \in MainPcs /\ exit' \in HowExited /\ startPc' \in StartPcs
             /\ appDone' \in BOOLEAN /\ stopping' \in BOOLEAN /\ stopErr' \in BOOLEAN
             /\ closed' \subseteq created
      PROVE  TypeOK'
  BY <1>1, <1>3, <1>4 DEF TypeOK, viewVars
<1>5. SUFFICES TypeOK' /\ StopInv' /\ DrainedBeforeClose'
  BY <1>1, SameViews DEF ServerInv
<1> USE <1>3, <1>4, <1>2 DEF StopInv, DrainedBeforeClose, TypeOK, MainPcs, HowExited, StartPcs
<1>6. CASE ParseFails
  BY <1>6 DEF ParseFails, Exits, validate
<1>7. CASE InitFails
  BY <1>7 DEF InitFails, Exits
<1>8. CASE LaunchApp
  BY <1>8 DEF LaunchApp
<1>9. CASE LaunchReturns
  BY <1>9 DEF LaunchReturns, Exits
<1>10. CASE Signal
  BY <1>10 DEF Signal
<1>11. CASE ShutdownApp
  BY <1>11 DEF ShutdownApp
<1>12. CASE ShutdownReturns
  BY <1>12 DEF ShutdownReturns
<1>13. CASE CloseViews
  <2>1. closed' \subseteq created
    <3>2. \A n \in DOMAIN cache : cache[n] # NoView => cache[n] \in created
      OBVIOUS
    <3>3. closed' = closed \union {cache[n] : n \in {m \in DOMAIN cache : cache[m] # NoView}}
                           \union {BaseView}
      BY <1>13 DEF CloseViews
    <3>4. QED BY <1>b, <3>2, <3>3
  <2>2. TypeOK'
    BY <1>13, <2>1 DEF CloseViews
  <2>3. StopInv' /\ DrainedBeforeClose'
    BY <1>13 DEF CloseViews
  <2>4. QED BY <2>2, <2>3
<1>14. CASE Exit
  BY <1>14 DEF Exit, Exits
<1>15. QED
  BY <1>6, <1>7, <1>8, <1>9, <1>10, <1>11, <1>12, <1>13, <1>14 DEF MainStep

(* The steps of Start.                                                     *)
LEMMA StartKeepsInv == ServerInv /\ StartStep => ServerInv'
<1> SUFFICES ASSUME ServerInv, StartStep PROVE ServerInv'
  OBVIOUS
<1> USE DEF ServerInv, mainVars, viewVars
<1>1. CASE RegisterBase
  <2>1. UNCHANGED <<caller, cache, created, closed, files, kubeconfig>>
    BY <1>1 DEF RegisterBase
  <2>2. active' = active /\ served' = served
    BY <2>1 DEF active, served
  <2>3. BaseView \in created
    BY DEF CountInv, BaseView
  <2>4. \A n \in Names : routes'[n] = routes[n]
    BY <1>1, ServerAssumption DEF RegisterBase, TypeOK
  <2>5. /\ routes' \in [Names \union {Base} -> created \union {NoView}]
        /\ mainPc' \in MainPcs /\ exit' \in HowExited /\ startPc' \in StartPcs
    BY <1>1, <2>3 DEF RegisterBase, Exits, TypeOK, MainPcs, HowExited, StartPcs
  <2>6. TypeOK'
    BY <1>1, <2>1, <2>5 DEF RegisterBase, TypeOK
  <2>7. CountInv'
    BY <2>1, <2>2 DEF CountInv
  <2>8. CallInv'
    BY <2>1 DEF CallInv
  <2>9. OneViewPerName'
    BY <2>1, <2>4 DEF OneViewPerName
  <2>10. StopInv' /\ DrainedBeforeClose'
    BY <1>1, <2>1, <2>2 DEF RegisterBase, Running, Exits, StopInv, DrainedBeforeClose, TypeOK
  <2>11. QED BY <2>6, <2>7, <2>8, <2>9, <2>10
<1>2. CASE Listen
  <2>1. /\ UNCHANGED <<app, mainVars, stopping, stopErr, kubeconfig, cache, created, closed, routes,
                       caller>>
        /\ startPc' \in {"set path", "failed"}
        /\ files \subseteq files' /\ files' \subseteq files \union {Base}
    BY <1>2 DEF Listen, GenKubeConfig
  <2>2. active' = active /\ served' = served
    BY <2>1 DEF active, served
  <2>3. TypeOK'
    BY <2>1 DEF TypeOK, StartPcs
  <2>4. CountInv'
    BY <2>1, <2>2 DEF CountInv
  <2>5. CallInv'
    BY <2>1 DEF CallInv
  <2>6. OneViewPerName'
    BY <2>1 DEF OneViewPerName
  <2>7. StopInv' /\ DrainedBeforeClose'
    BY <2>1, <2>2 DEF StopInv, DrainedBeforeClose
  <2>8. QED BY <2>3, <2>4, <2>5, <2>6, <2>7
<1>3. CASE SetKubeConfigPath
  <2>1. /\ UNCHANGED <<app, mainVars, stopping, stopErr, files, cache, created, closed, routes>>
        /\ startPc' = "serve" /\ kubeconfig' = kubeconfig \union {BaseView}
    BY <1>3 DEF SetKubeConfigPath
  <2>2. caller' \in [Callers -> CallerState(created)]
    <3>1. \A r \in CallerState(created) : [r EXCEPT !.pc = "woken"] \in CallerState(created)
      BY DEF CallerState
    <3>2. QED BY <1>3, <3>1 DEF SetKubeConfigPath, TypeOK
  <2>3. \A c \in Callers :
          /\ caller'[c].http = caller[c].http /\ caller'[c].op = caller[c].op
          /\ caller'[c].name = caller[c].name /\ caller'[c].view = caller[c].view
          /\ caller'[c].pc = IF caller[c].pc = "await" THEN "woken" ELSE caller[c].pc
    BY <1>3 DEF SetKubeConfigPath, TypeOK, CallerState
  <2>4. active' = active /\ served' = served
    BY <2>3 DEF active, served
  <2>5. TypeOK'
    <3>1. BaseView \in Views
      BY DEF CountInv, TypeOK, BaseView
    <3>2. QED BY <2>1, <2>2, <3>1 DEF TypeOK, StartPcs
  <2>6. CountInv'
    BY <2>1, <2>4 DEF CountInv
  <2>7. CallInv'
    BY <2>1, <2>3 DEF CallInv
  <2>8. OneViewPerName'
    BY <2>1, <2>3 DEF OneViewPerName
  <2>9. StopInv' /\ DrainedBeforeClose'
    BY <2>1, <2>4 DEF StopInv, DrainedBeforeClose
  <2>10. QED BY <2>5, <2>6, <2>7, <2>8, <2>9
<1>4. CASE Serve \/ ServeReturns
  <2>1. /\ UNCHANGED <<app, mainVars, stopping, stopErr, viewVars, closed, caller>>
        /\ startPc' \in {"failed", "ended", "serving"}
    BY <1>4 DEF Serve, ServeReturns
  <2>2. active' = active
    BY <2>1 DEF active
  <2>3. TypeOK'
    BY <2>1 DEF TypeOK, StartPcs
  <2>4. StopInv' /\ DrainedBeforeClose'
    BY <2>1, <2>2 DEF StopInv, DrainedBeforeClose
  <2>5. QED BY <2>1, <2>3, <2>4, SameViews
<1>5. QED BY <1>1, <1>2, <1>3, <1>4 DEF StartStep
-----------------------------------------------------------------------------
(* A step of a caller c that has begun, to the state r: it asks the views  *)
(* for nothing.                                                            *)
LEMMA CallerGoesOn ==
  ASSUME ServerInv, NEW c \in Callers, NEW pc, caller[c].pc \in {"config", "register", "watching", "woken"},
         caller' = [caller EXCEPT ![c].pc = pc],
         pc \in {"register", "done", "failed", "panicked"},
         pc = "register" => /\ caller[c].pc = "config"
                            /\ caller[c].name \in files' /\ caller[c].view \in kubeconfig',
         UNCHANGED <<app, stopping, stopErr, startPc, cache, created, closed, appDone>>,
         files \subseteq files', files' \subseteq Names \union {Base},
         kubeconfig \subseteq kubeconfig', kubeconfig' \subseteq Views
  PROVE  /\ CountInv' /\ CallInv' /\ served' = served
         /\ active' \subseteq active
         /\ caller' \in [Callers -> CallerState(created')]
<1> USE DEF ServerInv, TypeOK, CallerState
<1>1. \A d \in Callers :
        /\ caller'[d].http = caller[d].http /\ caller'[d].op = caller[d].op
        /\ caller'[d].name = caller[d].name /\ caller'[d].view = caller[d].view
        /\ caller'[d].pc = IF d = c THEN pc ELSE caller[d].pc
  OBVIOUS
<1>2. served' = served
  BY <1>1 DEF served
<1>3. active' \subseteq active
  BY <1>1 DEF active
<1>4. CountInv'
  BY <1>2 DEF CountInv
<1>5. CallInv'
  <2>1. CallInv
    OBVIOUS
  <2>2. QED BY <1>1, <2>1 DEF CallInv
<1>6. caller' \in [Callers -> CallerState(created')]
  <2>1. [caller[c] EXCEPT !.pc = pc] \in CallerState(created)
    OBVIOUS
  <2>2. QED BY <2>1
<1>7. QED BY <1>2, <1>3, <1>4, <1>5, <1>6

(* A call begins; it is a request only while the server accepts them.      *)
LEMMA CallBegins ==
  ASSUME ServerInv, NEW c \in Callers, NEW http \in BOOLEAN,
         NEW op \in {"sandbox", "delegate", "watch", "facade"}, NEW n \in Names \union {Base},
         NEW v \in created \union {NoView}, NEW to \in {"get", "watching", "await", "woken"},
         begins(c, http, op, n, v, to), http => ~stopping,
         op \in {"sandbox", "delegate"} => v = NoView /\ to = "get",
         to = "get" => op \in {"sandbox", "delegate"}
  PROVE  ServerInv'
<1> DEFINE r == [pc |-> to, http |-> http, op |-> op, name |-> n, view |-> v]
<1>1. /\ caller[c].pc = "idle" /\ Running
      /\ caller' = [caller EXCEPT ![c] = r]
      /\ UNCHANGED <<app, mainVars, startPc, stopping, stopErr, viewVars, closed>>
  BY DEF begins
<1>2. TypeOK /\ CountInv /\ CallInv /\ OneViewPerName /\ StopInv /\ DrainedBeforeClose
  BY DEF ServerInv
<1>3. r \in CallerState(created)
  BY DEF CallerState
<1>4. caller'[c] = r /\ \A d \in Callers : d # c => caller'[d] = caller[d]
  BY <1>1, <1>2 DEF TypeOK
<1>5. TypeOK'
  BY <1>1, <1>2, <1>3 DEF TypeOK, mainVars, viewVars
<1>6. served' = served
  <2>1. c \notin served
    BY <1>1, <1>2 DEF served, CallInv
  <2>2. c \notin served'
    BY <1>4 DEF served, NoView
  <2>3. QED BY <1>4, <2>1, <2>2 DEF served, NoView
<1>7. CountInv'
  BY <1>1, <1>2, <1>6 DEF CountInv, viewVars
<1>8. CallInv'
  BY <1>1, <1>2, <1>4 DEF CallInv, viewVars, NoView
<1>9. OneViewPerName'
  BY <1>1, <1>2, <1>4 DEF OneViewPerName, viewVars, NoView
<1>10. stopping => active' = active
  <2>1. stopping => c \notin active /\ c \notin active'
    BY <1>1, <1>4 DEF active
  <2>2. \A d \in Callers : d # c => (d \in active' <=> d \in active)
    BY <1>4 DEF active
  <2>3. QED BY <2>1, <2>2 DEF active
<1>11. StopInv' /\ DrainedBeforeClose'
  BY <1>1, <1>2, <1>10 DEF StopInv, DrainedBeforeClose, mainVars, Running
<1>12. QED BY <1>5, <1>7, <1>8, <1>9, <1>11 DEF ServerInv

(* GetSandboxViewOverDelegate: a caller gets its view.                     *)
LEMMA CallerGetsView ==
  ASSUME ServerInv, NEW c \in Callers, GetSandboxViewOverDelegate(c)
  PROVE  ServerInv'
<1> DEFINE n == caller[c].name
           v == IF cache[n] = NoView THEN Cardinality(created) ELSE cache[n]
           r == [caller[c] EXCEPT !.view = v,
                                  !.pc = IF caller[c].op = "sandbox" THEN "config" ELSE "done"]
<1>1. /\ Running /\ caller[c].pc = "get"
      /\ cache' = [cache EXCEPT ![n] = v] /\ created' = created \union {v}
      /\ UNCHANGED <<app, mainVars, startPc, stopping, stopErr, kubeconfig, files, closed, routes>>
  BY DEF GetSandboxViewOverDelegate
<1>2. TypeOK /\ CountInv /\ CallInv /\ OneViewPerName /\ StopInv /\ DrainedBeforeClose
  BY DEF ServerInv
<1>3. caller' = [caller EXCEPT ![c] = r]
  BY <1>2 DEF GetSandboxViewOverDelegate, TypeOK, CallerState
<1>4. n \in Names \union {Base} /\ c \notin served /\ caller[c].op \in {"sandbox", "delegate"}
  BY <1>1, <1>2 DEF TypeOK, CallerState, CallInv, served
<1>5. v \in Views /\ v # NoView /\ (cache[n] = NoView => v \notin created)
  BY <1>2, <1>4, NextView DEF TypeOK
<1>6. r \in CallerState(created') /\ r.view = v /\ r.name = n /\ r.op = caller[c].op
      /\ r.http = caller[c].http /\ r.pc \in {"config", "done"}
  BY <1>1, <1>2 DEF TypeOK, CallerState
<1>7. caller'[c] = r /\ \A d \in Callers : d # c => caller'[d] = caller[d]
  BY <1>2, <1>3 DEF TypeOK
<1>8. cache'[n] = v /\ \A m \in Names \union {Base} : m # n => cache'[m] = cache[m]
  BY <1>1, <1>2, <1>4 DEF TypeOK
<1>v. v = IF cache[n] = NoView THEN Cardinality(created) ELSE cache[n]
  OBVIOUS
<1> HIDE DEF n, v, r
<1>9. TypeOK'
  <2>1. \A d \in Callers : caller[d] \in CallerState(created')
    BY <1>1, <1>2 DEF TypeOK, CallerState
  <2>2. caller' \in [Callers -> CallerState(created')]
    BY <1>2, <1>3, <1>6, <2>1 DEF TypeOK
  <2>3. /\ cache' \in [Names \union {Base} -> created' \union {NoView}]
        /\ routes' \in [Names \union {Base} -> created' \union {NoView}]
        /\ created' \subseteq Views /\ closed' \subseteq created'
    BY <1>1, <1>2, <1>5 DEF TypeOK
  <2>4. QED BY <1>1, <1>2, <2>2, <2>3 DEF TypeOK, mainVars
<1>10. CountInv'
  <2>1. served' = served \union {c}
    BY <1>4, <1>5, <1>6, <1>7 DEF served
  <2>2. Cardinality(served') = Cardinality(served) + 1
    BY <1>2, <1>4, <2>1, NextView
  <2>3. PICK m \in Nat : created = 0..m /\ m <= Cardinality(served)
    BY <1>2 DEF CountInv
  <2>4. IsFiniteSet(served) /\ Cardinality(served) \in Nat
    BY ServerAssumption, FS_Subset, FS_CardinalityType DEF served
  <2>5. CASE cache[n] = NoView
    <3>1. created' = 0..(m + 1)
      BY <1>1, <1>2, <1>4, <1>v, <2>3, <2>5, NextView, FS_Interval
    <3>2. QED BY <2>2, <2>3, <2>4, <3>1 DEF CountInv
  <2>6. CASE cache[n] # NoView
    <3>1. created' = created
      BY <1>1, <1>2, <1>4, <1>v, <2>6 DEF TypeOK
    <3>2. QED BY <2>2, <2>3, <2>4, <3>1 DEF CountInv
  <2>7. QED BY <2>5, <2>6
<1>11. CallInv'
  BY <1>1, <1>2, <1>4, <1>5, <1>6, <1>7 DEF CallInv
<1>12. OneViewPerName'
  <2>1. \A m \in Names \union {Base} : cache'[m] # cache[m] => m = n /\ cache[n] = NoView
    BY <1>8, <1>v
  <2>2. \A m \in Names \union {Base} : m # n /\ cache[m] = v => v = NoView
    BY <1>2, <1>4, <1>5, <1>v DEF OneViewPerName, TypeOK
  <2>3. \A m, k \in Names \union {Base} : cache'[m] = cache'[k] /\ cache'[k] # NoView => m = k
    BY <1>2, <1>5, <1>8, <2>2 DEF OneViewPerName
  <2>4. ASSUME NEW d \in Callers, caller'[d].op \in {"sandbox", "delegate"}, caller'[d].view # NoView
        PROVE  caller'[d].view = cache'[caller'[d].name]
    <3>1. CASE d = c
      BY <3>1, <1>6, <1>7, <1>8
    <3>2. CASE d # c
      BY <3>2, <2>4, <1>2, <1>7, <1>8, <1>v DEF OneViewPerName, TypeOK, CallerState
    <3>3. QED BY <3>1, <3>2
  <2>5. \A m \in Names : routes'[m] # NoView => /\ routes'[m] = cache'[m] /\ m \in files'
                                               /\ routes'[m] \in kubeconfig'
    BY <1>1, <1>2, <2>1 DEF OneViewPerName
  <2>6. QED BY <2>3, <2>4, <2>5 DEF OneViewPerName, NoView
<1>13. active' \subseteq active
  BY <1>1, <1>6, <1>7 DEF active
<1>14. StopInv' /\ DrainedBeforeClose'
  BY <1>1, <1>2, <1>13 DEF StopInv, DrainedBeforeClose, mainVars
<1>15. QED BY <1>9, <1>10, <1>11, <1>12, <1>14 DEF ServerInv
-----------------------------------------------------------------------------
(* The steps of callers.                                                   *)
LEMMA CallerKeepsInv == ASSUME ServerInv, NEW c \in Callers, CallerStep(c) PROVE ServerInv'
<1>1. TypeOK /\ CountInv /\ CallInv /\ OneViewPerName /\ StopInv /\ DrainedBeforeClose
  BY DEF ServerInv
<1>2. ASSUME NEW n \in Names \union {Base}, HandleCreateSandboxView(c, n) PROVE ServerInv'
  BY <1>2, CallBegins DEF HandleCreateSandboxView, accepting
<1>3. ASSUME NEW n \in Names \union {Base}, HandleWatch(c, n) PROVE ServerInv'
  <2>1. routes[n] \in created
    BY <1>1, <1>3 DEF HandleWatch, free, TypeOK
  <2>2. QED BY <1>3, <2>1, CallBegins DEF HandleWatch, accepting
<1>4. ASSUME NEW n \in Names \union {Base}, NEW op \in {"sandbox", "delegate"},
             CallGetSandboxView(c, op, n)
      PROVE  ServerInv'
  BY <1>4, CallBegins DEF CallGetSandboxView
<1>5. CASE CallGetClientFacades(c)
  <2>1. BaseView \in created
    BY <1>1 DEF CountInv, BaseView
  <2>2. QED BY <1>5, <2>1, CallBegins DEF CallGetClientFacades
<1>6. CASE GenSandboxConfig(c)
  <2>1. /\ caller[c].pc = "config"
        /\ UNCHANGED <<app, mainVars, startPc, stopping, stopErr, cache, created, closed, routes>>
        /\ \/ step(c, "register") /\ caller[c].name \in files' /\ caller[c].view \in kubeconfig'
           \/ step(c, "done")
        /\ files \subseteq files' /\ files' \subseteq files \union {caller[c].name}
        /\ kubeconfig \subseteq kubeconfig' /\ kubeconfig' \subseteq kubeconfig \union {caller[c].view}
    BY <1>6 DEF GenSandboxConfig, GenKubeConfig
  <2>2. caller[c].name \in Names \union {Base} /\ caller[c].view \in Views
    BY <1>1, <2>1 DEF TypeOK, CallerState, CallInv
  <2>3. files' \subseteq Names \union {Base} /\ kubeconfig' \subseteq Views
    BY <1>1, <2>1, <2>2 DEF TypeOK
  <2>4. /\ CountInv' /\ CallInv' /\ served' = served
        /\ active' \subseteq active
        /\ caller' \in [Callers -> CallerState(created')]
    BY <2>1, <2>3, CallerGoesOn DEF step, mainVars
  <2>5. TypeOK'
    BY <1>1, <2>1, <2>3, <2>4 DEF TypeOK, mainVars
  <2>6. \A d \in Callers : /\ caller'[d].op = caller[d].op /\ caller'[d].view = caller[d].view
                           /\ caller'[d].name = caller[d].name
    BY <1>1, <2>1 DEF step, TypeOK, CallerState
  <2>7. OneViewPerName'
    BY <1>1, <2>1, <2>6 DEF OneViewPerName
  <2>8. StopInv' /\ DrainedBeforeClose'
    BY <1>1, <2>1, <2>4 DEF StopInv, DrainedBeforeClose, mainVars
  <2>9. QED BY <2>4, <2>5, <2>7, <2>8 DEF ServerInv
<1>7. CASE RegisterSandbox(c)
  <2>1. /\ Running /\ caller[c].pc = "register"
        /\ UNCHANGED <<app, appDone, startPc, stopping, stopErr, kubeconfig, files, cache, created,
                       closed>>
        /\ \/ /\ step(c, "done") /\ free(caller[c].name)
              /\ routes' = [routes EXCEPT ![caller[c].name] = caller[c].view]
              /\ UNCHANGED <<mainPc, exit>>
           \/ /\ step(c, "panicked") /\ UNCHANGED routes
              /\ UNCHANGED <<mainPc, exit>> \/ Exits("crashed")
    BY <1>7 DEF RegisterSandbox
  <2>2. /\ CountInv' /\ CallInv' /\ served' = served
        /\ active' \subseteq active
        /\ caller' \in [Callers -> CallerState(created')]
    BY <1>1, <2>1, CallerGoesOn DEF step, TypeOK
  <2>3. /\ caller[c].name \in files /\ caller[c].view \in kubeconfig
        /\ caller[c].view = cache[caller[c].name]
        /\ caller[c].name \in Names \union {Base} /\ caller[c].view \in created
    BY <1>1, <2>1 DEF TypeOK, CallerState, CallInv, OneViewPerName
  <2>4. TypeOK'
    <3>1. routes' \in [Names \union {Base} -> created \union {NoView}]
      BY <1>1, <2>1, <2>3 DEF TypeOK
    <3>2. mainPc' \in MainPcs /\ exit' \in HowExited
      BY <1>1, <2>1 DEF TypeOK, Exits, MainPcs, HowExited
    <3>3. QED BY <1>1, <2>1, <2>2, <3>1, <3>2 DEF TypeOK
  <2>5. \A d \in Callers : /\ caller'[d].op = caller[d].op /\ caller'[d].view = caller[d].view
                           /\ caller'[d].name = caller[d].name
    BY <1>1, <2>1 DEF step, TypeOK, CallerState
  <2>6. \A m \in Names : routes'[m] = routes[m] \/ (m = caller[c].name /\ routes'[m] = caller[c].view)
    BY <1>1, <2>1 DEF TypeOK
  <2>7. OneViewPerName'
    BY <1>1, <2>1, <2>3, <2>5, <2>6 DEF OneViewPerName
  <2>8. StopInv' /\ DrainedBeforeClose'
    BY <1>1, <2>1, <2>2 DEF StopInv, DrainedBeforeClose, Exits, Running
  <2>9. QED BY <2>2, <2>4, <2>7, <2>8 DEF ServerInv
<1>8. CASE WatchReturns(c) \/ WatchTimeout(c) \/ FacadesReturn(c)
  <2>1. /\ caller[c].pc \in {"watching", "woken"} /\ (step(c, "done") \/ step(c, "failed"))
        /\ UNCHANGED <<app, mainVars, startPc, stopping, stopErr, viewVars, closed>>
    BY <1>8 DEF WatchReturns, WatchTimeout, FacadesReturn
  <2>2. /\ CountInv' /\ CallInv' /\ served' = served
        /\ active' \subseteq active
        /\ caller' \in [Callers -> CallerState(created')]
    BY <1>1, <2>1, CallerGoesOn DEF step, TypeOK, mainVars, viewVars
  <2>3. TypeOK'
    BY <1>1, <2>1, <2>2 DEF TypeOK, mainVars, viewVars
  <2>4. \A d \in Callers : /\ caller'[d].op = caller[d].op /\ caller'[d].view = caller[d].view
                           /\ caller'[d].name = caller[d].name
    BY <1>1, <2>1 DEF step, TypeOK, CallerState
  <2>5. OneViewPerName'
    BY <1>1, <2>1, <2>4 DEF OneViewPerName, viewVars
  <2>6. StopInv' /\ DrainedBeforeClose'
    BY <1>1, <2>1, <2>2 DEF StopInv, DrainedBeforeClose, mainVars
  <2>7. QED BY <2>2, <2>3, <2>5, <2>6 DEF ServerInv
<1>9. QED
  BY <1>2, <1>3, <1>4, <1>5, <1>6, <1>7, <1>8, CallerGetsView DEF CallerStep

LEMMA StutterKeepsInv == ServerInv /\ UNCHANGED vars => ServerInv'
<1> SUFFICES ASSUME ServerInv, UNCHANGED vars PROVE ServerInv'
  OBVIOUS
<1>1. TypeOK'
  BY DEF ServerInv, TypeOK, vars, mainVars, viewVars
<1>2. StopInv' /\ DrainedBeforeClose'
  BY DEF ServerInv, StopInv, DrainedBeforeClose, active, vars, mainVars
<1>3. QED BY <1>1, <1>2, SameViews DEF ServerInv, vars
-----------------------------------------------------------------------------
THEOREM ServerInvariant == Spec => []ServerInv
<1>1. ServerInv /\ [Next]_vars => ServerInv'
  BY MainKeepsInv, StartKeepsInv, CallerKeepsInv, StutterKeepsInv DEF Next
<1>2. QED BY InitServerInv, <1>1, PTL DEF Spec

(* Types, which hold because no more views are created than calls made.    *)
THEOREM ServerTypeCorrect == Spec => []TypeOK
<1>1. ServerInv => TypeOK
  BY DEF ServerInv
<1>2. QED BY ServerInvariant, <1>1, PTL

(* Any number of requests and goroutines that ask for views under the same *)
(* name get the same view, under different names different ones, and that  *)
(* view is the one served.                                                 *)
THEOREM NameHasOneView == Spec => []OneViewPerName
<1>1. ServerInv => OneViewPerName
  BY DEF ServerInv
<1>2. QED BY ServerInvariant, <1>1, PTL

(* Stop closes no store under a request, unless its deadline has passed,   *)
(* which the exit code then tells.                                         *)
THEOREM StopDrainsFirst == Spec => []DrainedBeforeClose
<1>1. ServerInv => DrainedBeforeClose
  BY DEF ServerInv
<1>2. QED BY ServerInvariant, <1>1, PTL
=============================================================================
