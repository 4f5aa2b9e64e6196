---------------------------- MODULE PlanContract ----------------------------
(***************************************************************************)
(* What one call of ScalingPlanner.Plan means to its caller: the response  *)
(* channel and the context, without the goroutines behind them             *)
(* (src/api/planner/types.go:407, scaleout_types.go:70).  PlanProtocol     *)
(* implements this.                                                        *)
(*                                                                         *)
(* Two clauses are weaker than the comments, which the code does not keep: *)
(* after cancellation ctx.Err() may still arrive, also after an error, and *)
(* the process may crash.                                                  *)
(***************************************************************************)
EXTENDS Naturals, Sequences

VARIABLES
  mode,       \* the request's AdviceGenerationMode
  responses,  \* what the caller has received
  channel,    \* "open" or "closed"
  cancelled,  \* the context has ended
  crashed

contractVars == <<mode, responses, channel, cancelled, crashed>>

Init ==
  /\ mode \in {"Incremental", "AllAtOnce"}
  /\ responses = <<>> /\ channel = "open"
  /\ cancelled = FALSE /\ crashed = FALSE

noErrorYet == \A i \in DOMAIN responses : responses[i] = "plan"
errorLast == \A i \in DOMAIN responses : responses[i] # "plan" => i = Len(responses)

Respond(m) ==
  /\ channel = "open" /\ ~crashed
  /\ responses' = Append(responses, m)
  /\ UNCHANGED <<mode, channel, cancelled, crashed>>

(* Plans come one by one before any error, or all at once as the only      *)
(* plan of the call.                                                       *)
DeliverPlan ==
  /\ noErrorYet
  /\ mode = "AllAtOnce" => responses = <<>>
  /\ Respond("plan")

(* "A terminal error": at most one.                                        *)
Fail == noErrorYet /\ Respond("error")

FailCancelled == cancelled /\ errorLast /\ Respond("context error")

(* The channel is closed once, after an answer.                            *)
CloseChannel ==
  /\ channel = "open" /\ ~crashed /\ responses # <<>>
  /\ channel' = "closed"
  /\ UNCHANGED <<mode, responses, cancelled, crashed>>

Cancel ==
  /\ ~cancelled /\ ~crashed
  /\ cancelled' = TRUE
  /\ UNCHANGED <<mode, responses, channel, crashed>>

Crash ==
  /\ cancelled /\ ~crashed
  /\ crashed' = TRUE
  /\ UNCHANGED <<mode, responses, channel, cancelled>>

Next == DeliverPlan \/ Fail \/ FailCancelled \/ CloseChannel \/ Cancel \/ Crash

Spec == Init /\ [][Next]_contractVars
=============================================================================
