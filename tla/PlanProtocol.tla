---------------------------- MODULE PlanProtocol ----------------------------
(***************************************************************************)
(* The goroutines behind one call of ScalingPlanner.Plan: the caller that  *)
(* reads the response channel, the goroutine of Plan and doPlan            *)
(* (src/planner/planner.go), and the goroutine of Simulate and doSimulate  *)
(* (singlenode.go and scaleout.go under src/planner/simulator/scaleout).   *)
(* Both channels are unbuffered: a send and its receive are one step.      *)
(*                                                                         *)
(* Module Simulator has what the simulations compute.  Here a cycle over a *)
(* group just ends in one way or another, and what counts is when the      *)
(* goroutine reads the fields that SimulatorState.Reset clears.            *)
(***************************************************************************)
EXTENDS Naturals, Sequences

CONSTANTS
  Callers,      \* how the caller reads, see Receive
  Cancellable,  \* whether the context may end before the plan is made
  MaxCycles     \* bound: cycles over the groups

ASSUME CallersAssumption ==
  Callers \subseteq {"drains", "breaks on error"} /\ Callers # {}
ASSUME CancellableAssumption == Cancellable \in BOOLEAN
ASSUME MaxCyclesAssumption == MaxCycles \in Nat \ {0}

VARIABLES
  mode,        \* the request's AdviceGenerationMode
  caller,      \* how the caller reads, or "gone"
  ctxDone,     \* the context is cancelled or timed out
  plannerPc,   \* the goroutine of Plan
  err,         \* the error that doPlan returns
  forwarding,  \* the result that doPlan is about to forward
  simPc,       \* the goroutine of Simulate
  result,      \* the result it is about to send
  next,        \* where it goes on after sending
  cycles,      \* the cycles it has run
  won,         \* some cycle had winners
  cleared,     \* SimulatorState.Reset has cleared Request, SimulationGroups, views
  resultCh,    \* "open", "closed"
  responseCh,  \* "open", "closed"
  responses,   \* what the caller has received
  panicked     \* the process is gone

plannerVars == <<plannerPc, err, forwarding, responseCh>>
callerVars == <<caller, responses>>
simVars == <<simPc, result, next, cycles, won, resultCh>>
vars == <<mode, ctxDone, cleared, panicked, plannerVars, callerVars, simVars>>

Message == {"plan", "error", "context error"}
isError(m) == m # "plan"
SimulatorPc == {"off", "request view", "populate", "create groups", "group", "cycle",
                "winners", "end", "send", "close", "done"}

Init ==
  /\ mode \in {"Incremental", "AllAtOnce"} /\ caller \in Callers
  /\ ctxDone = FALSE /\ cleared = FALSE /\ panicked = FALSE
  /\ plannerPc = "start" /\ err = "none" /\ forwarding = "none"
  /\ simPc = "off" /\ result = "none" /\ next = "off" /\ cycles = 0 /\ won = FALSE
  /\ resultCh = "open" /\ responseCh = "open"
  /\ responses = <<>>

-----------------------------------------------------------------------------
(* The goroutine of Plan.                                                  *)

PlannerAt(l) == plannerPc = l /\ ~panicked

(* The caller receives m.  One that ranges over the channel as the doc of  *)
(* ScalingPlanner.Plan shows stops at the first error.                     *)
Receive(m) ==
  /\ caller # "gone"
  /\ responses' = Append(responses, m)
  /\ caller' = IF caller = "breaks on error" /\ isError(m) THEN "gone" ELSE caller

(* doPlan up to its loop: a request may be rejected, or else Simulate      *)
(* starts the second goroutine.                                            *)
doPlan ==
  /\ PlannerAt("start")
  /\ \/ plannerPc' = "send error" /\ err' = "error" /\ simPc' = simPc
     \/ plannerPc' = "select" /\ err' = err /\ simPc' = "request view"
  /\ UNCHANGED <<mode, ctxDone, cleared, panicked, forwarding, responseCh, callerVars,
                 result, next, cycles, won, resultCh>>

(* If several cases of the select are ready, any of them is taken.         *)
SelectDone ==
  /\ PlannerAt("select") /\ ctxDone
  /\ plannerPc' = "close simulator" /\ err' = "context error"
  /\ UNCHANGED <<mode, ctxDone, cleared, panicked, forwarding, responseCh, callerVars, simVars>>

SelectClosed ==
  /\ PlannerAt("select") /\ resultCh = "closed"
  /\ plannerPc' = "close simulator"
  /\ UNCHANGED <<mode, ctxDone, cleared, panicked, err, forwarding, responseCh, callerVars,
                 simVars>>

SelectResult ==
  /\ PlannerAt("select") /\ simPc = "send"
  /\ plannerPc' = "forward" /\ forwarding' = result
  /\ simPc' = next /\ result' = "none"
  /\ UNCHANGED <<mode, ctxDone, cleared, panicked, err, responseCh, callerVars,
                 next, cycles, won, resultCh>>

(* Mutant of Forward: doPlan returns after the first result.               *)
ForwardOnce ==
  /\ PlannerAt("forward") /\ Receive(forwarding)
  /\ plannerPc' = "close" /\ forwarding' = "none"
  /\ UNCHANGED <<mode, ctxDone, cleared, panicked, err, responseCh, simVars>>

Forward ==
  /\ PlannerAt("forward") /\ Receive(forwarding)
  /\ plannerPc' = "select" /\ forwarding' = "none"
  /\ UNCHANGED <<mode, ctxDone, cleared, panicked, err, responseCh, simVars>>

(* The deferred close of the simulator, SimulatorState.Reset.              *)
CloseSimulator ==
  /\ PlannerAt("close simulator")
  /\ cleared' = TRUE
  /\ plannerPc' = IF err = "none" THEN "close" ELSE "send error"
  /\ UNCHANGED <<mode, ctxDone, panicked, err, forwarding, responseCh, callerVars, simVars>>

SendErrorResponse ==
  /\ PlannerAt("send error") /\ Receive(err)
  /\ plannerPc' = "close"
  /\ UNCHANGED <<mode, ctxDone, cleared, panicked, err, forwarding, responseCh, simVars>>

(* Mutant of CloseResponses: the response channel stays open.              *)
LeaveResponsesOpen ==
  /\ PlannerAt("close")
  /\ plannerPc' = "done"
  /\ UNCHANGED <<mode, ctxDone, cleared, panicked, err, forwarding, responseCh, callerVars,
                 simVars>>

CloseResponses ==
  /\ PlannerAt("close")
  /\ responseCh' = "closed" /\ plannerPc' = "done"
  /\ UNCHANGED <<mode, ctxDone, cleared, panicked, err, forwarding, callerVars, simVars>>

-----------------------------------------------------------------------------
(* The goroutine of Simulate.                                              *)

SimulatorAt(l) == simPc = l /\ ~panicked
goto(l) == simPc' = l /\ UNCHANGED <<result, next>>
send(m, l) == simPc' = "send" /\ result' = m /\ next' = l
(* SendPlanError, then the deferred close.                                 *)
SendPlanError(m) == send(m, "close")

(* A step that reads s.state.Request, an element of SimulationGroups or    *)
(* the request view: a nil dereference once they are cleared.              *)
ReadsState(step) ==
  /\ IF cleared THEN panicked' = TRUE /\ UNCHANGED <<simPc, result, next>>
                ELSE panicked' = panicked /\ step
  /\ UNCHANGED <<mode, ctxDone, cleared, plannerVars, callerVars, cycles, won, resultCh>>

InitializeRequestView ==
  /\ SimulatorAt("request view")
  /\ ReadsState(goto("populate") \/ SendPlanError("error"))

PopulateView ==
  /\ SimulatorAt("populate")
  /\ ReadsState(goto("create groups") \/ SendPlanError("error"))

createAndGroupSimulations ==
  /\ SimulatorAt("create groups")
  /\ ReadsState(goto("group") \/ SendPlanError("error"))

(* The loop head of runStabilizationCyclesForAllGroups picks the group.    *)
NextGroup ==
  /\ SimulatorAt("group")
  /\ ReadsState(goto("cycle"))

(* runStabilizationCycleForGroup.  Cancellation makes it fail unless the   *)
(* last run was already over.  Without a winner the next group is taken,   *)
(* if there is one.                                                        *)
runStabilizationCycleForGroup ==
  /\ SimulatorAt("cycle")
  /\ \/ SendPlanError(IF ctxDone THEN "context error" ELSE "error") /\ UNCHANGED <<cycles, won>>
     \/ goto("winners") /\ cycles' = cycles + 1 /\ won' = TRUE
     \/ cycles + 1 < MaxCycles /\ goto("group") /\ cycles' = cycles + 1 /\ won' = won
     \/ goto("end") /\ cycles' = cycles + 1 /\ won' = won
  /\ UNCHANGED <<mode, ctxDone, cleared, panicked, plannerVars, callerVars, resultCh>>

(* Mutant of HandleWinners: the mode is not looked at, and every cycle     *)
(* sends its plan.                                                         *)
HandleWinnersAnyMode ==
  /\ SimulatorAt("winners")
  /\ ReadsState(
       \/ \E l \in {"group", "end"} :
            (l = "group" => cycles < MaxCycles) /\ send("plan", l)
       \/ SendPlanError("error"))

(* A cycle with winners: the mode is read, an incremental plan is sent     *)
(* unless it cannot be put together, and leftover pods lead to another     *)
(* cycle.                                                                  *)
HandleWinners ==
  /\ SimulatorAt("winners")
  /\ ReadsState(
       \/ \E l \in {"group", "end"} :
            /\ l = "group" => cycles < MaxCycles
            /\ IF mode = "Incremental" THEN send("plan", l) ELSE goto(l)
       \/ mode = "Incremental" /\ SendPlanError("error"))

EndWithoutPlan ==
  /\ SimulatorAt("end") /\ ~won
  /\ SendPlanError("error")
  /\ UNCHANGED <<mode, ctxDone, cleared, panicked, plannerVars, callerVars, cycles, won,
                 resultCh>>

EndWithPlan ==
  /\ SimulatorAt("end") /\ won
  /\ ReadsState(
       \/ IF mode = "AllAtOnce" THEN send("plan", "close") ELSE goto("close")
       \/ mode = "AllAtOnce" /\ SendPlanError("error"))

CloseResults ==
  /\ SimulatorAt("close")
  /\ resultCh' = "closed" /\ goto("done")
  /\ UNCHANGED <<mode, ctxDone, cleared, panicked, plannerVars, callerVars, cycles, won>>

CancelContext ==
  /\ Cancellable /\ ~ctxDone /\ ~panicked
  /\ ctxDone' = TRUE
  /\ UNCHANGED <<mode, cleared, panicked, plannerVars, callerVars, simVars>>

-----------------------------------------------------------------------------
PlannerSteps ==
  doPlan \/ SelectDone \/ SelectClosed \/ SelectResult \/ Forward
  \/ CloseSimulator \/ SendErrorResponse \/ CloseResponses

SimulatorSteps ==
  InitializeRequestView \/ PopulateView \/ createAndGroupSimulations \/ NextGroup
  \/ runStabilizationCycleForGroup \/ HandleWinners \/ EndWithoutPlan \/ EndWithPlan
  \/ CloseResults

Next == PlannerSteps \/ SimulatorSteps \/ CancelContext

Spec == Init /\ [][Next]_vars

(* Both goroutines run, and a cycle of simulations ends (SimulationRun).   *)
FairSpec == Spec /\ WF_vars(PlannerSteps) /\ WF_vars(SimulatorSteps)

-----------------------------------------------------------------------------
(* Properties.                                                             *)

TypeOK ==
  /\ mode \in {"Incremental", "AllAtOnce"}
  /\ caller \in {"drains", "breaks on error", "gone"}
  /\ ctxDone \in BOOLEAN /\ cleared \in BOOLEAN /\ panicked \in BOOLEAN
  /\ plannerPc \in {"start", "select", "forward", "close simulator", "send error", "close",
                    "done"}
  /\ err \in {"none", "error", "context error"}
  /\ forwarding \in Message \union {"none"} /\ result \in Message \union {"none"}
  /\ simPc \in SimulatorPc
  /\ next \in {"off", "group", "end", "close"}
  /\ cycles \in Nat /\ won \in BOOLEAN
  /\ resultCh \in {"open", "closed"} /\ responseCh \in {"open", "closed"}
  /\ responses \in Seq(Message)

Contract ==
  INSTANCE PlanContract WITH channel <- responseCh, cancelled <- ctxDone, crashed <- panicked

(* The goroutines of Plan and Simulate together do what PlanContract says  *)
(* of the response channel: plans before any error, at most one plan in    *)
(* mode AllAtOnce, ctx.Err() only after cancellation, and one close, after *)
(* which nothing comes.                                                    *)
ImplementsContract == Contract!Spec

(* The response channel is never closed on a caller that got no answer,    *)
(* neither a plan nor an error.                                            *)
Answered == responseCh = "closed" => responses # <<>>

(* An error is "a terminal error [...]. No further responses will be sent  *)
(* for the associated request." (api/planner/scaleout_types.go:70)  What   *)
(* holds: an error is the last response, except that after cancellation    *)
(* doPlan adds its ctx.Err() to an error of the simulator, and then        *)
(* nothing more.                                                           *)
ErrorsComeLast ==
  \A i \in DOMAIN responses : isError(responses[i]) =>
    \/ i = Len(responses)
    \/ ctxDone /\ i + 1 = Len(responses) /\ responses[Len(responses)] = "context error"

(* "The channel will be closed when plan generation has completed, an      *)
(* error has occurred, context is canceled or timed-out."                  *)
(* (api/planner/types.go:412)  The exception: a caller that has stopped    *)
(* reading at an error when the context ends.                              *)
ResponsesClosed ==
  <>(responseCh = "closed" \/ panicked \/ (caller = "gone" /\ ctxDone))

(* The goroutine of Simulate ends too, whether the caller consumes all     *)
(* responses (api/planner/types.go:415) or stops at the first error,       *)
(* unless the context ends before it.                                      *)
NoGoroutineLeak == (simPc # "off") ~> (simPc = "done" \/ ctxDone)

(* Without cancellation neither goroutine reads what the other has         *)
(* cleared: doPlan closes the simulator only when Simulate is over.        *)
PanicNeedsCancel == panicked => ctxDone

(* The context may "be used to cancel generation prematurely"              *)
(* (api/planner/types.go:418): cancellation does not make one goroutine    *)
(* read what the other has cleared.                                        *)
NoPanic == ~panicked

(* The comments on errors and cancellation taken at their word: no         *)
(* response after an error, and after cancellation "the channel will be    *)
(* closed without further events" (api/planner/types.go:418).              *)
ErrorIsTerminal ==
  \A i \in DOMAIN responses : isError(responses[i]) => i = Len(responses)
CancelIsQuiet == \A i \in DOMAIN responses : responses[i] # "context error"
=============================================================================
