-------------------------- MODULE ServerLifecycle --------------------------
(***************************************************************************)
(* The life of a MinKAPI server: the process that launches it              *)
(* (src/minkapi/cli/cli.go, src/service/cli/cli.go and the two main.go),   *)
(* its Start and Stop (src/minkapi/server/server.go), the views it gives   *)
(* out (src/minkapi/view/access.go) and the kubeconfig of a view           *)
(* (src/minkapi/view/base.go).                                             *)
(*                                                                         *)
(* Start runs in a goroutine of its own.  Callers are HTTP requests, which *)
(* the server must drain when it stops, or goroutines of the process that  *)
(* use the server as a ViewAccess, which nobody waits for.                 *)
(***************************************************************************)
EXTENDS Naturals, FiniteSets

CONSTANTS
  Callers,   \* HTTP requests and goroutines of the process, one call each
  Names,     \* names of sandbox views
  Base       \* the name of the base view, which a caller may ask for too

ASSUME ServerAssumption == IsFiniteSet(Callers) /\ Base \notin Names

(* Views are numbered in the order of their creation, the base view first. *)
BaseView == 0
Views == 0 .. Cardinality(Callers)
NoView == Cardinality(Callers) + 1

VARIABLES
  app,       \* which program this is, and the settings that matter here
  appDone,   \* the application context is cancelled by a signal
  mainPc,    \* the main goroutine
  exit,      \* how the process ended
  startPc,   \* the goroutine that runs Start
  stopping,  \* http.Server.Shutdown has been called
  stopErr,   \* Shutdown gave up before all requests had ended
  kubeconfig,\* the views whose KubeConfigPath is set
  files,     \* the names whose kubeconfig file has been written
  cache,     \* viewAccess.sandboxViews
  created,   \* the views created so far
  closed,    \* the views that have been closed
  routes,    \* the view served under each name
  caller     \* the state of each caller

mainVars == <<appDone, mainPc, exit>>
viewVars == <<kubeconfig, files, cache, created, routes>>
vars == <<app, mainVars, startPc, stopping, stopErr, viewVars, closed, caller>>

(* A caller that has not called, and the record of its call.               *)
Idle == [pc |-> "idle", http |-> FALSE, op |-> "none", name |-> Base, view |-> NoView]

(* ShutdownApp of minkapi always sets a deadline, that of the service only *)
(* with a positive --shutdown-timeout.  pathGiven: the server was made     *)
(* with a KubeConfigPath, as both programs do; New also takes none.        *)
Programs ==
  {p \in [name : {"minkapi", "service"}, deadline : BOOLEAN, pathGiven : BOOLEAN] :
     p.name = "minkapi" => p.deadline}

(* New and NewUsingViews, NewAccess and NewBase: no route of a view yet.   *)
Init ==
  /\ app \in Programs
  /\ appDone = FALSE /\ mainPc = "parse" /\ exit = "none"
  /\ startPc = "none" /\ stopping = FALSE /\ stopErr = FALSE
  /\ kubeconfig = IF app.pathGiven THEN {BaseView} ELSE {}
  /\ files = {}
  /\ cache = [n \in Names \union {Base} |-> NoView]
  /\ created = {BaseView} /\ closed = {}
  /\ routes = [n \in Names \union {Base} |-> NoView]
  /\ caller = [c \in Callers |-> Idle]

Exits(how) == mainPc' = "exited" /\ exit' = how

(* Everything ends with the process.                                       *)
Running == mainPc # "exited"

(* Whether the name is free for http.ServeMux.Handle, which panics on a    *)
(* pattern that is already registered.                                     *)
free(n) == routes[n] = NoView

(* GenKubeConfig writes the kubeconfig of the view of that name.           *)
GenKubeConfig(n) == files' = files \union {n}
-----------------------------------------------------------------------------
(* The main goroutine.                                                     *)

(* validate of the service: fInfo of a pricing file that cannot be read is *)
(* nil, and is used.                                                       *)
validate == {"invalid"} \union (IF app.name = "service" THEN {"crashed"} ELSE {})

(* ParseProgramFlags fails; --help is an error with exit code 0.           *)
ParseFails ==
  /\ mainPc = "parse"
  /\ \E how \in validate \union {"help"} : Exits(how)
  /\ UNCHANGED <<app, appDone, startPc, stopping, stopErr, viewVars, closed, caller>>

(* server.New, pricing.GetInstancePricingAccess or core.NewService fails.  *)
InitFails ==
  /\ mainPc = "parse"
  /\ Exits("start error")
  /\ UNCHANGED <<app, appDone, startPc, stopping, stopErr, viewVars, closed, caller>>

(* LaunchApp has built the server and starts it in a goroutine.            *)
LaunchApp ==
  /\ mainPc = "parse"
  /\ mainPc' = "launched" /\ startPc' = "routes"
  /\ UNCHANGED <<app, appDone, exit, stopping, stopErr, viewVars, closed, caller>>

(* LaunchApp returns.  Its named result err is also assigned by the        *)
(* goroutine: once Start has failed, each unsynchronised read of err may   *)
(* see the failure.  The service reads it once more, before it returns.    *)
LaunchReturns ==
  /\ mainPc = "launched"
  /\ \/ mainPc' = "waiting" /\ exit' = exit
     \/ startPc = "failed" /\ Exits("success")
     \/ startPc = "failed" /\ app.name = "service" /\ Exits("start error")
  /\ UNCHANGED <<app, appDone, startPc, stopping, stopErr, viewVars, closed, caller>>

(* SIGINT, SIGTERM or SIGQUIT.                                             *)
Signal ==
  /\ mainPc \in {"launched", "waiting"} /\ ~appDone
  /\ appDone' = TRUE
  /\ UNCHANGED <<app, mainPc, exit, startPc, stopping, stopErr, viewVars, closed, caller>>

(* Mutant of ShutdownApp: Stop closes the views before the server.         *)
ShutdownAppViewsFirst ==
  /\ mainPc = "waiting" /\ appDone
  /\ mainPc' = "closing" /\ stopping' = TRUE
  /\ UNCHANGED <<app, appDone, exit, startPc, stopErr, viewVars, closed, caller>>

(* ShutdownApp calls Stop, which calls http.Server.Shutdown: from here on  *)
(* no request is accepted.                                                 *)
ShutdownApp ==
  /\ mainPc = "waiting" /\ appDone
  /\ mainPc' = "draining" /\ stopping' = TRUE
  /\ UNCHANGED <<app, appDone, exit, startPc, stopErr, viewVars, closed, caller>>

(* The requests whose handlers have not returned.                          *)
active == {c \in Callers : caller[c].http /\ caller[c].pc \notin {"idle", "done", "panicked"}}

(* Shutdown returns when every request has ended or the context is over.   *)
ShutdownReturns ==
  /\ mainPc = "draining"
  /\ active = {} \/ app.deadline
  /\ stopErr' = (active # {})
  /\ mainPc' = "closing"
  /\ UNCHANGED <<app, appDone, exit, startPc, stopping, viewVars, closed, caller>>

(* viewAccess.Close, under its mutex: the sandbox views, then the base.    *)
CloseViews ==
  /\ mainPc = "closing"
  /\ closed' = closed \union {cache[n] : n \in {m \in DOMAIN cache : cache[m] # NoView}}
                      \union {BaseView}
  /\ mainPc' = "stopped"
  /\ UNCHANGED <<app, appDone, exit, startPc, stopping, stopErr, viewVars, caller>>

(* Stop joins the errors, ShutdownApp turns them into the exit code.       *)
Exit ==
  /\ mainPc = "stopped"
  /\ Exits(IF stopErr THEN "shutdown error" ELSE "success")
  /\ UNCHANGED <<app, appDone, startPc, stopping, stopErr, viewVars, closed, caller>>
-----------------------------------------------------------------------------
(* Start.                                                                  *)

(* registerRoutes for the base view.  A sandbox view that took the name of *)
(* the base view makes Handle panic and takes the process down.            *)
RegisterBase ==
  /\ Running /\ startPc = "routes"
  /\ IF free(Base)
     THEN /\ routes' = [routes EXCEPT ![Base] = BaseView]
          /\ startPc' = "listen" /\ UNCHANGED <<mainPc, exit>>
     ELSE /\ Exits("crashed") /\ UNCHANGED <<routes, startPc>>
  /\ UNCHANGED <<app, appDone, stopping, stopErr, kubeconfig, files, cache, created, closed,
                 caller>>

(* net.Listen and GenKubeConfig; either may fail.                          *)
Listen ==
  /\ Running /\ startPc = "listen"
  /\ \/ startPc' = "set path" /\ GenKubeConfig(Base)
     \/ startPc' = "failed" /\ files' = files
  /\ UNCHANGED <<app, mainVars, stopping, stopErr, kubeconfig, cache, created, closed, routes,
                 caller>>

(* Mutant of SetKubeConfigPath: no broadcast.                              *)
SetKubeConfigPathQuietly ==
  /\ Running /\ startPc = "set path"
  /\ kubeconfig' = kubeconfig \union {BaseView}
  /\ startPc' = "serve"
  /\ UNCHANGED <<app, mainVars, stopping, stopErr, files, cache, created, closed, routes, caller>>

(* SetKubeConfigPath of the base view wakes the callers that wait for it.  *)
SetKubeConfigPath ==
  /\ Running /\ startPc = "set path"
  /\ kubeconfig' = kubeconfig \union {BaseView}
  /\ caller' = [c \in Callers |->
                  IF caller[c].pc = "await" THEN [caller[c] EXCEPT !.pc = "woken"] ELSE caller[c]]
  /\ startPc' = "serve"
  /\ UNCHANGED <<app, mainVars, stopping, stopErr, files, cache, created, closed, routes>>

(* GenKubeSchedulerConfig and Serve; Serve returns at once when Shutdown   *)
(* has already been called.                                                *)
Serve ==
  /\ Running /\ startPc = "serve"
  /\ startPc' \in {"failed", IF stopping THEN "ended" ELSE "serving"}
  /\ UNCHANGED <<app, mainVars, stopping, stopErr, viewVars, closed, caller>>

(* Serve returns: ErrServerClosed after Shutdown, or the listener failed.  *)
ServeReturns ==
  /\ Running /\ startPc = "serving"
  /\ startPc' = IF stopping THEN "ended" ELSE "failed"
  /\ UNCHANGED <<app, mainVars, stopping, stopErr, viewVars, closed, caller>>
-----------------------------------------------------------------------------
(* Callers.                                                                *)

step(c, to) == caller' = [caller EXCEPT ![c].pc = to]

(* A call begins.                                                          *)
begins(c, isHttp, op, n, v, to) ==
  /\ Running /\ caller[c].pc = "idle"
  /\ caller' = [caller EXCEPT ![c] =
                  [pc |-> to, http |-> isHttp, op |-> op, name |-> n, view |-> v]]
  /\ UNCHANGED <<app, mainVars, startPc, stopping, stopErr, viewVars, closed>>

accepting == startPc = "serving" /\ ~stopping

(* POST /views/{name}.                                                     *)
HandleCreateSandboxView(c, n) ==
  accepting /\ begins(c, TRUE, "sandbox", n, NoView, "get")

(* A goroutine calls GetSandboxView or GetSandboxViewOverDelegate.         *)
CallGetSandboxView(c, op, n) ==
  mainPc # "parse" /\ begins(c, FALSE, op, n, NoView, "get")

(* GET ...?watch=1 below /{name}/ runs until WatchObjects returns.         *)
HandleWatch(c, n) ==
  accepting /\ ~free(n) /\ begins(c, TRUE, "watch", n, routes[n], "watching")

(* GetClientFacades of the base view for network access calls              *)
(* GetKubeConfigPath, which waits when there is no path.                   *)
CallGetClientFacades(c) ==
  /\ mainPc # "parse"
  /\ begins(c, FALSE, "facade", Base, BaseView,
            IF BaseView \in kubeconfig THEN "woken" ELSE "await")

(* Mutant of GetSandboxViewOverDelegate: the cache is not consulted.       *)
GetSandboxViewAnew(c) ==
  LET v == Cardinality(created)
  IN /\ Running /\ caller[c].pc = "get"
     /\ caller' = [caller EXCEPT ![c].view = v,
                     ![c].pc = IF caller[c].op = "sandbox" THEN "config" ELSE "done"]
     /\ cache' = [cache EXCEPT ![caller[c].name] = v]
     /\ created' = created \union {v}
     /\ UNCHANGED <<app, mainVars, startPc, stopping, stopErr, kubeconfig, files, closed, routes>>

(* viewAccess.GetSandboxViewOverDelegate under its mutex: the cached view  *)
(* of that name or a new one.  Only the server's GetSandboxView goes on to *)
(* serve the view.                                                         *)
GetSandboxViewOverDelegate(c) ==
  LET n == caller[c].name
      new == cache[n] = NoView
      v == IF new THEN Cardinality(created) ELSE cache[n]
  IN /\ Running /\ caller[c].pc = "get"
     /\ caller' = [caller EXCEPT ![c].view = v,
                     ![c].pc = IF caller[c].op = "sandbox" THEN "config" ELSE "done"]
     /\ cache' = [cache EXCEPT ![n] = v]
     /\ created' = created \union {v}
     /\ UNCHANGED <<app, mainVars, startPc, stopping, stopErr, kubeconfig, files, closed, routes>>

(* The kubeconfig of the sandbox view is written and its path set, then    *)
(* the scheduler configuration is written; a failed write ends the call    *)
(* with an error and leaves the view in the cache.                         *)
GenSandboxConfig(c) ==
  /\ Running /\ caller[c].pc = "config"
  /\ \/ /\ GenKubeConfig(caller[c].name)
        /\ kubeconfig' = kubeconfig \union {caller[c].view}
        /\ step(c, "register") \/ step(c, "done")
     \/ step(c, "done") /\ UNCHANGED <<files, kubeconfig>>
  /\ UNCHANGED <<app, mainVars, startPc, stopping, stopErr, cache, created, closed, routes>>

(* registerRoutes.  The panic of a second registration ends the request    *)
(* that ran into it; in any other goroutine it ends the process.           *)
RegisterSandbox(c) ==
  LET n == caller[c].name
  IN /\ Running /\ caller[c].pc = "register"
     /\ \/ /\ free(n)
           /\ routes' = [routes EXCEPT ![n] = caller[c].view]
           /\ step(c, "done") /\ UNCHANGED <<mainPc, exit>>
        \/ /\ ~free(n) /\ step(c, "panicked")
           /\ UNCHANGED routes
           /\ IF caller[c].http THEN UNCHANGED <<mainPc, exit>> ELSE Exits("crashed")
     /\ UNCHANGED <<app, appDone, startPc, stopping, stopErr, kubeconfig, files, cache, created,
                    closed>>

(* Mutant of WatchReturns: requests do not get the application context.    *)
WatchReturnsLate(c) ==
  /\ Running /\ caller[c].pc = "watching"
  /\ caller[c].view \in closed
  /\ step(c, "done")
  /\ UNCHANGED <<app, mainVars, startPc, stopping, stopErr, viewVars, closed>>

(* WatchObjects returns: the context of the request is the application's,  *)
(* and a closed store has no events to give.                               *)
WatchReturns(c) ==
  /\ Running /\ caller[c].pc = "watching"
  /\ appDone \/ caller[c].view \in closed
  /\ step(c, "done")
  /\ UNCHANGED <<app, mainVars, startPc, stopping, stopErr, viewVars, closed>>

(* The watch times out or its client goes away.                            *)
WatchTimeout(c) ==
  /\ Running /\ caller[c].pc = "watching"
  /\ step(c, "done")
  /\ UNCHANGED <<app, mainVars, startPc, stopping, stopErr, viewVars, closed>>

(* GetKubeConfigPath returns and the kubeconfig file is read.              *)
FacadesReturn(c) ==
  /\ Running /\ caller[c].pc = "woken"
  /\ step(c, IF Base \in files THEN "done" ELSE "failed")
  /\ UNCHANGED <<app, mainVars, startPc, stopping, stopErr, viewVars, closed>>
-----------------------------------------------------------------------------
MainStep ==
  \/ ParseFails \/ InitFails \/ LaunchApp \/ LaunchReturns \/ Signal
  \/ ShutdownApp \/ ShutdownReturns \/ CloseViews \/ Exit

StartStep == RegisterBase \/ Listen \/ SetKubeConfigPath \/ Serve \/ ServeReturns

CallerStep(c) ==
  \/ \E n \in Names \union {Base} :
       \/ HandleCreateSandboxView(c, n) \/ HandleWatch(c, n)
       \/ \E op \in {"sandbox", "delegate"} : CallGetSandboxView(c, op, n)
  \/ CallGetClientFacades(c)
  \/ GetSandboxViewOverDelegate(c) \/ GenSandboxConfig(c) \/ RegisterSandbox(c)
  \/ WatchReturns(c) \/ WatchTimeout(c) \/ FacadesReturn(c)

Next == MainStep \/ StartStep \/ \E c \in Callers : CallerStep(c)

Spec == Init /\ [][Next]_vars

(* The scheduler runs every goroutine that can run.  Nothing makes a       *)
(* signal, a failure, a call or a watch timeout happen; the deadline of a  *)
(* stop does expire.                                                       *)
Fairness ==
  /\ WF_vars(LaunchReturns) /\ WF_vars(ShutdownApp) /\ WF_vars(ShutdownReturns)
  /\ WF_vars(CloseViews) /\ WF_vars(Exit)
  /\ WF_vars(RegisterBase) /\ WF_vars(Listen) /\ WF_vars(SetKubeConfigPath) /\ WF_vars(Serve)
  /\ \A c \in Callers : WF_vars(\/ GetSandboxViewOverDelegate(c) \/ GenSandboxConfig(c)
                                \/ RegisterSandbox(c) \/ WatchReturns(c) \/ FacadesReturn(c))

FairSpec == Spec /\ Fairness
-----------------------------------------------------------------------------
(* Properties.                                                             *)

MainPcs == {"parse", "launched", "waiting", "draining", "closing", "stopped", "exited"}
HowExited == {"none", "invalid", "help", "start error", "crashed", "success", "shutdown error"}
StartPcs == {"none", "routes", "listen", "set path", "serve", "serving", "failed", "ended"}
(* The state of a caller, once the views vs have been created.             *)
CallerState(vs) ==
  [pc : {"idle", "get", "config", "register", "watching", "await", "woken", "done", "failed",
         "panicked"},
   http : BOOLEAN, op : {"none", "sandbox", "delegate", "watch", "facade"},
   name : Names \union {Base}, view : vs \union {NoView}]

TypeOK ==
  /\ app \in Programs /\ appDone \in BOOLEAN
  /\ mainPc \in MainPcs /\ exit \in HowExited /\ startPc \in StartPcs
  /\ stopping \in BOOLEAN /\ stopErr \in BOOLEAN
  /\ kubeconfig \subseteq Views /\ files \subseteq Names \union {Base}
  /\ created \subseteq Views /\ closed \subseteq created
  /\ cache \in [Names \union {Base} -> created \union {NoView}]
  /\ routes \in [Names \union {Base} -> created \union {NoView}]
  /\ caller \in [Callers -> CallerState(created)]

(* Callers that asked for the same name share one view, callers that asked *)
(* for different names do not, and what is served under a name is its view *)
(* with its kubeconfig written: a change made through one of them is seen  *)
(* by the others and by the HTTP clients, and by nobody else.              *)
OneViewPerName ==
  /\ \A m, n \in Names \union {Base} : cache[m] = cache[n] /\ cache[n] # NoView => m = n
  /\ \A c \in Callers : caller[c].op \in {"sandbox", "delegate"} /\ caller[c].view # NoView
                          => caller[c].view = cache[caller[c].name]
  /\ \A n \in Names : routes[n] # NoView => /\ routes[n] = cache[n] /\ n \in files
                                            /\ routes[n] \in kubeconfig

(* Stop closes no store under a request that is still being handled,       *)
(* unless the deadline of the stop ended the wait for it; then the process *)
(* does not end with exit code 0: the error of Shutdown is not lost behind *)
(* the result of Close.                                                    *)
DrainedBeforeClose == closed # {} /\ active # {} => stopErr /\ exit # "success"

(* A signal ends the process: Stop waits neither for a watch, whose        *)
(* request ends with the application context, nor for the views.           *)
SignalEndsProcess == appDone ~> mainPc = "exited"

(* A caller that waits for the kubeconfig of the base view goes on and     *)
(* finds the file, unless the server never gets as far as setting it.      *)
WaiterReleased ==
  \A c \in Callers : caller[c].pc = "await" ~> caller[c].pc = "done" \/ startPc = "failed"
                                               \/ mainPc = "exited"
=============================================================================
