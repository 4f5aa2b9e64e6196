------------------------- MODULE PlanProtocolProofs -------------------------
(***************************************************************************)
(* Proofs about PlanProtocol: an answer always precedes the end of the     *)
(* response channel, an error is the last response but for ctx.Err(), and  *)
(* only cancellation makes a goroutine read what the other has cleared.    *)
(***************************************************************************)
EXTENDS PlanProtocol, TLAPS

(* Where the two goroutines are with respect to each other.                *)
ControlInv ==
  /\ plannerPc = "start" => simPc = "off"
  /\ simPc = "send" => result \in Message /\ next \in {"group", "end", "close"}
  /\ plannerPc = "forward" => forwarding \in Message
  /\ plannerPc = "send error" => err \in Message
  /\ resultCh = "closed" => simPc = "done"
  /\ responseCh = "closed" => plannerPc = "done"
  /\ simPc \in {"off", "request view", "populate", "create groups"} => won = FALSE

(* A result has been handed over by the simulator: the caller has it, or   *)
(* the planner is forwarding it.                                           *)
Delivered == responses # <<>> \/ plannerPc = "forward"

(* What is true of the answers at each point of the two goroutines.        *)
AnswerInv ==
  /\ simPc \in {"close", "done"} => Delivered
  /\ (mode = "Incremental" /\ won /\ simPc \in {"group", "cycle", "end"}) => Delivered
  /\ (plannerPc = "close simulator" /\ err = "none") => responses # <<>>
  /\ plannerPc \in {"close", "done"} => responses # <<>>

(* The protocol starts in its types.                                       *)
LEMMA InitTypes == Init => TypeOK /\ ControlInv
<1>1. Init => caller \in {"drains", "breaks on error", "gone"}
  BY CallersAssumption DEF Init
<1>2. Init => cycles \in Nat /\ responses \in Seq(Message)
  BY DEF Init
<1>3. Init => /\ ctxDone \in BOOLEAN /\ cleared \in BOOLEAN
              /\ panicked \in BOOLEAN /\ won \in BOOLEAN
  BY DEF Init
<1>4. Init => /\ mode \in {"Incremental", "AllAtOnce"} /\ plannerPc = "start" /\ simPc = "off"
              /\ err = "none" /\ forwarding = "none" /\ result = "none" /\ next = "off"
              /\ resultCh = "open" /\ responseCh = "open"
  BY DEF Init
<1>5. Init => TypeOK
  BY <1>1, <1>2, <1>3, <1>4 DEF TypeOK, SimulatorPc
<1>6. Init => ControlInv
  BY DEF Init, ControlInv
<1>7. QED
  BY <1>5, <1>6

(* Receiving a message leaves the caller with at least that one.           *)
LEMMA ReceiveTypes ==
  ASSUME NEW m \in Message, TypeOK, Receive(m)
  PROVE  /\ caller' \in {"drains", "breaks on error", "gone"}
         /\ responses' = Append(responses, m)
         /\ responses' \in Seq(Message) /\ responses' # <<>>
<1>1. caller' \in {"drains", "breaks on error", "gone"}
  BY DEF TypeOK, Receive
<1>2. responses' = Append(responses, m) /\ responses \in Seq(Message)
  BY DEF TypeOK, Receive
<1>3. Append(responses, m) \in Seq(Message) /\ Append(responses, m) # <<>>
  BY <1>2
<1>4. QED
  BY <1>1, <1>2, <1>3

(* The steps of Plan's goroutine keep the types.                           *)
LEMMA PlannerKeepsTypes == TypeOK /\ ControlInv /\ PlannerSteps => TypeOK'
<1> USE DEF TypeOK, ControlInv, Message, SimulatorPc, PlannerAt, callerVars, simVars
<1>1. TypeOK /\ ControlInv /\ doPlan => TypeOK'
  BY DEF doPlan
<1>2. TypeOK /\ ControlInv /\ SelectDone => TypeOK'
  BY DEF SelectDone
<1>3. TypeOK /\ ControlInv /\ SelectClosed => TypeOK'
  BY DEF SelectClosed
<1>4. TypeOK /\ ControlInv /\ SelectResult => TypeOK'
  BY DEF SelectResult
<1>5. TypeOK /\ ControlInv /\ Forward => TypeOK'
  <2>1. ASSUME TypeOK, ControlInv, Forward
        PROVE  responses' \in Seq(Message) /\ caller' \in {"drains", "breaks on error", "gone"}
    BY <2>1, ReceiveTypes DEF Forward
  <2>2. /\ TypeOK /\ Forward
        /\ responses' \in Seq(Message) /\ caller' \in {"drains", "breaks on error", "gone"}
        => TypeOK'
    BY DEF Forward
  <2>3. QED
    BY <2>1, <2>2
<1>6. TypeOK /\ ControlInv /\ CloseSimulator => TypeOK'
  BY DEF CloseSimulator
<1>7. TypeOK /\ ControlInv /\ SendErrorResponse => TypeOK'
  <2>1. ASSUME TypeOK, ControlInv, SendErrorResponse
        PROVE  responses' \in Seq(Message) /\ caller' \in {"drains", "breaks on error", "gone"}
    BY <2>1, ReceiveTypes DEF SendErrorResponse
  <2>2. /\ TypeOK /\ SendErrorResponse
        /\ responses' \in Seq(Message) /\ caller' \in {"drains", "breaks on error", "gone"}
        => TypeOK'
    BY DEF SendErrorResponse
  <2>3. QED
    BY <2>1, <2>2
<1>8. TypeOK /\ ControlInv /\ CloseResponses => TypeOK'
  BY DEF CloseResponses
<1>9. QED
  BY <1>1, <1>2, <1>3, <1>4, <1>5, <1>6, <1>7, <1>8 DEF PlannerSteps

(* The steps of Simulate's goroutine keep the types.                       *)
LEMMA SimulatorKeepsTypes == TypeOK /\ ControlInv /\ SimulatorSteps => TypeOK'
<1> USE DEF TypeOK, Message, SimulatorPc,
            SimulatorAt, ReadsState, goto, send, SendPlanError, plannerVars, callerVars
<1>1. TypeOK /\ ControlInv /\ InitializeRequestView => TypeOK'
  BY DEF InitializeRequestView
<1>2. TypeOK /\ ControlInv /\ PopulateView => TypeOK'
  BY DEF PopulateView
<1>3. TypeOK /\ ControlInv /\ createAndGroupSimulations => TypeOK'
  BY DEF createAndGroupSimulations
<1>4. TypeOK /\ ControlInv /\ NextGroup => TypeOK'
  BY DEF NextGroup
<1>5. TypeOK /\ ControlInv /\ runStabilizationCycleForGroup => TypeOK'
  <2>1. TypeOK /\ runStabilizationCycleForGroup => cycles' \in {cycles, cycles + 1}
    BY DEF runStabilizationCycleForGroup
  <2>2. TypeOK /\ runStabilizationCycleForGroup =>
          /\ won' \in BOOLEAN /\ result' \in Message \union {"none"}
          /\ simPc' \in SimulatorPc /\ next' \in {"off", "group", "end", "close"}
    BY DEF runStabilizationCycleForGroup
  <2>3. /\ TypeOK /\ runStabilizationCycleForGroup
        /\ cycles' \in Nat /\ won' \in BOOLEAN /\ result' \in Message \union {"none"}
        /\ simPc' \in SimulatorPc /\ next' \in {"off", "group", "end", "close"}
        => TypeOK'
    BY DEF runStabilizationCycleForGroup
  <2>4. TypeOK => cycles \in Nat
    OBVIOUS
  <2>5. cycles \in Nat => cycles + 1 \in Nat
    OBVIOUS
  <2>6. QED
    BY <2>1, <2>2, <2>3, <2>4, <2>5
<1>6. TypeOK /\ ControlInv /\ HandleWinners => TypeOK'
  BY DEF HandleWinners
<1>7. TypeOK /\ ControlInv /\ EndWithoutPlan => TypeOK'
  BY DEF EndWithoutPlan
<1>8. TypeOK /\ ControlInv /\ EndWithPlan => TypeOK'
  BY DEF EndWithPlan
<1>9. TypeOK /\ ControlInv /\ CloseResults => TypeOK'
  BY DEF CloseResults
<1>10. QED
  BY <1>1, <1>2, <1>3, <1>4, <1>5, <1>6, <1>7, <1>8, <1>9 DEF SimulatorSteps

(* The steps of Plan's goroutine keep the control facts.                   *)
LEMMA PlannerKeepsControl == TypeOK /\ ControlInv /\ PlannerSteps => ControlInv'
<1> SUFFICES ASSUME TypeOK, ControlInv, PlannerSteps PROVE ControlInv'
  OBVIOUS
<1> USE DEF TypeOK, ControlInv, Message, SimulatorPc, PlannerAt, callerVars, simVars
<1>1. CASE doPlan
  BY <1>1 DEF doPlan
<1>2. CASE SelectDone
  BY <1>2 DEF SelectDone
<1>3. CASE SelectClosed
  BY <1>3 DEF SelectClosed
<1>4. CASE SelectResult
  BY <1>4 DEF SelectResult
<1>5. CASE Forward
  BY <1>5 DEF Forward
<1>6. CASE CloseSimulator
  BY <1>6 DEF CloseSimulator
<1>7. CASE SendErrorResponse
  BY <1>7 DEF SendErrorResponse
<1>8. CASE CloseResponses
  BY <1>8 DEF CloseResponses
<1>9. QED
  BY <1>1, <1>2, <1>3, <1>4, <1>5, <1>6, <1>7, <1>8 DEF PlannerSteps

(* The steps of Simulate's goroutine keep the control facts.               *)
LEMMA SimulatorKeepsControl == TypeOK /\ ControlInv /\ SimulatorSteps => ControlInv'
<1> SUFFICES ASSUME TypeOK, ControlInv, SimulatorSteps PROVE ControlInv'
  OBVIOUS
<1> USE DEF TypeOK, ControlInv, Message, SimulatorPc,
            SimulatorAt, ReadsState, goto, send, SendPlanError, plannerVars, callerVars
<1>1. CASE InitializeRequestView
  BY <1>1 DEF InitializeRequestView
<1>2. CASE PopulateView
  BY <1>2 DEF PopulateView
<1>3. CASE createAndGroupSimulations
  BY <1>3 DEF createAndGroupSimulations
<1>4. CASE NextGroup
  BY <1>4 DEF NextGroup
<1>5. CASE runStabilizationCycleForGroup
  BY <1>5 DEF runStabilizationCycleForGroup
<1>6. CASE HandleWinners
  BY <1>6 DEF HandleWinners
<1>7. CASE EndWithoutPlan
  BY <1>7 DEF EndWithoutPlan
<1>8. CASE EndWithPlan
  BY <1>8 DEF EndWithPlan
<1>9. CASE CloseResults
  BY <1>9 DEF CloseResults
<1>10. QED
  BY <1>1, <1>2, <1>3, <1>4, <1>5, <1>6, <1>7, <1>8, <1>9 DEF SimulatorSteps

(* A step of the context changes neither.                                  *)
LEMMA CancelKeepsTypes == TypeOK /\ ControlInv /\ CancelContext => TypeOK' /\ ControlInv'
<1> USE DEF CancelContext, plannerVars, callerVars, simVars
<1>1. TypeOK /\ CancelContext => TypeOK'
  BY DEF TypeOK
<1>2. ControlInv /\ CancelContext => ControlInv'
  BY DEF ControlInv
<1>3. QED
  BY <1>1, <1>2

(* And neither does a step that changes nothing.                           *)
LEMMA StutterKeepsTypes == TypeOK /\ ControlInv /\ UNCHANGED vars => TypeOK' /\ ControlInv'
<1> USE DEF vars, plannerVars, callerVars, simVars
<1>1. TypeOK /\ UNCHANGED vars => TypeOK'
  BY DEF TypeOK
<1>2. ControlInv /\ UNCHANGED vars => ControlInv'
  BY DEF ControlInv
<1>3. QED
  BY <1>1, <1>2

(* Plan's goroutine comes to its end only after an answer: an error that   *)
(* it sends itself or a result that it has forwarded.                      *)
LEMMA PlannerKeepsAnswer == TypeOK /\ ControlInv /\ AnswerInv /\ PlannerSteps => AnswerInv'
<1> SUFFICES ASSUME TypeOK, ControlInv, AnswerInv, PlannerSteps PROVE AnswerInv'
  OBVIOUS
<1> USE DEF ControlInv, AnswerInv, Delivered, PlannerAt, callerVars, simVars
<1>1. CASE doPlan
  BY <1>1 DEF doPlan
<1>2. CASE SelectDone
  BY <1>2 DEF SelectDone
<1>3. CASE SelectClosed
  BY <1>3 DEF SelectClosed
<1>4. CASE SelectResult
  BY <1>4 DEF SelectResult
<1>5. CASE Forward
  <2>1. responses' # <<>>
    BY <1>5, ReceiveTypes DEF Forward
  <2>2. QED
    BY <1>5, <2>1 DEF Forward
<1>6. CASE CloseSimulator
  BY <1>6 DEF CloseSimulator
<1>7. CASE SendErrorResponse
  <2>1. responses' # <<>>
    BY <1>7, ReceiveTypes DEF SendErrorResponse
  <2>2. QED
    BY <1>7, <2>1 DEF SendErrorResponse
<1>8. CASE CloseResponses
  BY <1>8 DEF CloseResponses
<1>9. QED
  BY <1>1, <1>2, <1>3, <1>4, <1>5, <1>6, <1>7, <1>8 DEF PlannerSteps

(* Simulate's goroutine closes its channel only after a result: the error  *)
(* of a failed step, a plan, or the error that no group has a winner.      *)
LEMMA SimulatorKeepsAnswer == TypeOK /\ ControlInv /\ AnswerInv /\ SimulatorSteps => AnswerInv'
<1> SUFFICES ASSUME TypeOK, ControlInv, AnswerInv, SimulatorSteps PROVE AnswerInv'
  OBVIOUS
<1> USE DEF ControlInv, AnswerInv, Delivered,
            SimulatorAt, ReadsState, goto, send, SendPlanError, plannerVars, callerVars
<1>1. CASE InitializeRequestView
  BY <1>1 DEF InitializeRequestView
<1>2. CASE PopulateView
  BY <1>2 DEF PopulateView
<1>3. CASE createAndGroupSimulations
  BY <1>3 DEF createAndGroupSimulations
<1>4. CASE NextGroup
  BY <1>4 DEF NextGroup
<1>5. CASE runStabilizationCycleForGroup
  <2>1. CASE simPc' = "winners"
    BY <1>5, <2>1 DEF runStabilizationCycleForGroup
  <2>2. CASE simPc' = "send"
    BY <1>5, <2>2 DEF runStabilizationCycleForGroup
  <2>3. CASE simPc' \in {"group", "end"}
    <3>1. won' = won
      BY <1>5, <2>3 DEF runStabilizationCycleForGroup
    <3>2. QED
      BY <1>5, <2>3, <3>1 DEF runStabilizationCycleForGroup
  <2>4. QED
    BY <1>5, <2>1, <2>2, <2>3 DEF runStabilizationCycleForGroup
<1>6. CASE HandleWinners
  BY <1>6 DEF HandleWinners
<1>7. CASE EndWithoutPlan
  BY <1>7 DEF EndWithoutPlan
<1>8. CASE EndWithPlan
  <2>1. mode \in {"Incremental", "AllAtOnce"}
    BY DEF TypeOK
  <2>2. QED
    BY <1>8, <2>1 DEF EndWithPlan
<1>9. CASE CloseResults
  BY <1>9 DEF CloseResults
<1>10. QED
  BY <1>1, <1>2, <1>3, <1>4, <1>5, <1>6, <1>7, <1>8, <1>9 DEF SimulatorSteps

(* The initial and the unchanged states, for the answers.                  *)
LEMMA InitAnswer == Init => AnswerInv
BY DEF Init, AnswerInv, Delivered

(* A cancelled context, and a step that changes nothing, leave the answers *)
(* as they are.                                                            *)
LEMMA OthersKeepAnswer == AnswerInv /\ (CancelContext \/ UNCHANGED vars) => AnswerInv'
<1> USE DEF AnswerInv, Delivered, plannerVars, callerVars, simVars
<1>1. ASSUME AnswerInv, CancelContext PROVE AnswerInv'
  BY <1>1 DEF CancelContext
<1>2. ASSUME AnswerInv, UNCHANGED vars PROVE AnswerInv'
  BY <1>2 DEF vars
<1>3. QED
  BY <1>1, <1>2

(* One step of the protocol keeps everything proved so far.                *)
LEMMA StepKeepsProtocol ==
  TypeOK /\ ControlInv /\ AnswerInv /\ [Next]_vars => TypeOK' /\ ControlInv' /\ AnswerInv'
<1>1. TypeOK /\ ControlInv /\ [Next]_vars => TypeOK' /\ ControlInv'
  BY PlannerKeepsTypes, PlannerKeepsControl, SimulatorKeepsTypes, SimulatorKeepsControl,
     CancelKeepsTypes, StutterKeepsTypes DEF Next
<1>2. TypeOK /\ ControlInv /\ AnswerInv /\ [Next]_vars => AnswerInv'
  BY PlannerKeepsAnswer, SimulatorKeepsAnswer, OthersKeepAnswer DEF Next
<1>3. QED
  BY <1>1, <1>2

(* The invariants hold in every state, whatever the callers, with or       *)
(* without cancellation.                                                   *)
THEOREM ProtocolInvariant == Spec => [](TypeOK /\ ControlInv /\ AnswerInv)
<1>1. Init => TypeOK /\ ControlInv /\ AnswerInv
  BY InitTypes, InitAnswer
<1>2. QED
  BY <1>1, StepKeepsProtocol, PTL DEF Spec

(* The variables of PlanProtocol keep their types.                         *)
THEOREM ProtocolTypeCorrect == Spec => []TypeOK
BY ProtocolInvariant, PTL

(* Plan never closes the response channel on a caller that it has given    *)
(* neither a plan nor an error: when the request is rejected, when the     *)
(* context ends, when a simulation fails and when no group has a winner.   *)
THEOREM PlanAnswers == Spec => []Answered
<1>1. ControlInv /\ AnswerInv => Answered
  BY DEF ControlInv, AnswerInv, Answered
<1>2. QED
  BY <1>1, ProtocolInvariant, PTL

-----------------------------------------------------------------------------
(* Errors and cancellation.                                                *)

(* Unless the context has ended, doPlan closes the simulator only once     *)
(* Simulate's goroutine has closed its channel, and has no error of its    *)
(* own to add to the simulator's.                                          *)
QuietInv ==
  /\ panicked = TRUE => ctxDone = TRUE
  /\ cleared = TRUE => simPc = "done" \/ ctxDone = TRUE
  /\ plannerPc \in {"start", "select", "forward"} => err = "none"
  /\ plannerPc = "close simulator" =>
       \/ err = "none" /\ simPc = "done"
       \/ err = "context error" /\ ctxDone = TRUE
  /\ plannerPc = "send error" =>
       \/ simPc = "off" /\ responses = <<>>
       \/ err = "context error" /\ ctxDone = TRUE
  /\ plannerPc = "start" => simPc = "off" /\ responses = <<>>
  /\ simPc = "off" => plannerPc \notin {"select", "forward"}

(* What Append does to the elements of a sequence.                         *)
LEMMA AppendElements ==
  ASSUME NEW S, NEW s \in Seq(S), NEW m \in S, NEW t, t = Append(s, m)
  PROVE  /\ t[Len(t)] = m /\ Len(t) = Len(s) + 1
         /\ \A i \in DOMAIN t : i = Len(t) \/ (i \in DOMAIN s /\ t[i] = s[i])
OBVIOUS

(* The empty sequence has no elements.                                     *)
LEMMA EmptyHasNone == DOMAIN <<>> = {}
OBVIOUS

(* An error is the last result of Simulate, and the last response until    *)
(* doPlan has sent its own.                                                *)
ErrorInv ==
  /\ (simPc = "send" /\ isError(result)) => next = "close"
  /\ (plannerPc = "forward" /\ isError(forwarding)) => simPc \in {"close", "done"}
  /\ \A i \in DOMAIN responses : isError(responses[i]) =>
       \/ i = Len(responses) /\ simPc \in {"off", "close", "done"} /\ plannerPc # "forward"
       \/ /\ plannerPc \in {"close", "done"}
          /\ \/ i = Len(responses)
             \/ /\ ctxDone = TRUE /\ i + 1 = Len(responses)
                /\ responses[Len(responses)] = "context error"

(* Plan's goroutine waits for Simulate's.                                  *)
LEMMA PlannerStaysQuiet == TypeOK /\ ControlInv /\ QuietInv /\ PlannerSteps => QuietInv'
<1> SUFFICES ASSUME TypeOK, ControlInv, QuietInv, PlannerSteps PROVE QuietInv'
  OBVIOUS
<1> USE DEF ControlInv, QuietInv, Receive, PlannerAt, callerVars, simVars
<1>1. CASE doPlan
  BY <1>1 DEF doPlan
<1>2. CASE SelectDone
  BY <1>2 DEF SelectDone
<1>3. CASE SelectClosed
  BY <1>3 DEF SelectClosed
<1>4. CASE SelectResult
  BY <1>4 DEF SelectResult
<1>5. CASE Forward
  BY <1>5 DEF Forward
<1>6. CASE CloseSimulator
  BY <1>6 DEF CloseSimulator
<1>7. CASE SendErrorResponse
  BY <1>7 DEF SendErrorResponse
<1>8. CASE CloseResponses
  BY <1>8 DEF CloseResponses
<1>9. QED
  BY <1>1, <1>2, <1>3, <1>4, <1>5, <1>6, <1>7, <1>8 DEF PlannerSteps

(* Simulate's goroutine finds nothing cleared.                             *)
LEMMA SimulatorStaysQuiet == TypeOK /\ ControlInv /\ QuietInv /\ SimulatorSteps => QuietInv'
<1> SUFFICES ASSUME TypeOK, ControlInv, QuietInv, SimulatorSteps PROVE QuietInv'
  OBVIOUS
<1> USE DEF ControlInv, QuietInv,
            SimulatorAt, ReadsState, goto, send, SendPlanError, plannerVars, callerVars
<1>1. CASE InitializeRequestView
  BY <1>1 DEF InitializeRequestView
<1>2. CASE PopulateView
  BY <1>2 DEF PopulateView
<1>3. CASE createAndGroupSimulations
  BY <1>3 DEF createAndGroupSimulations
<1>4. CASE NextGroup
  BY <1>4 DEF NextGroup
<1>5. CASE runStabilizationCycleForGroup
  BY <1>5 DEF runStabilizationCycleForGroup
<1>6. CASE HandleWinners
  BY <1>6 DEF HandleWinners
<1>7. CASE EndWithoutPlan
  BY <1>7 DEF EndWithoutPlan
<1>8. CASE EndWithPlan
  BY <1>8 DEF EndWithPlan
<1>9. CASE CloseResults
  BY <1>9 DEF CloseResults
<1>10. QED
  BY <1>1, <1>2, <1>3, <1>4, <1>5, <1>6, <1>7, <1>8, <1>9 DEF SimulatorSteps

(* Plan's goroutine forwards nothing after an error.                       *)
LEMMA PlannerKeepsErrorLast ==
  TypeOK /\ ControlInv /\ QuietInv /\ ErrorInv /\ PlannerSteps
  => ErrorInv'
<1> SUFFICES ASSUME TypeOK, ControlInv, QuietInv, ErrorInv, PlannerSteps PROVE ErrorInv'
  OBVIOUS
<1> USE DEF ControlInv, QuietInv, ErrorInv, PlannerAt, callerVars, simVars
<1>1. CASE doPlan
  <2>1. responses' = <<>> /\ plannerPc' # "forward" /\ simPc' # "send"
    BY <1>1 DEF doPlan
  <2>2. QED
    BY <2>1, EmptyHasNone
<1>2. CASE SelectDone
  BY <1>2 DEF SelectDone
<1>3. CASE SelectClosed
  BY <1>3 DEF SelectClosed
<1>4. CASE SelectResult
  BY <1>4 DEF SelectResult
<1>5. CASE Forward
  <2>1. forwarding \in Message /\ responses \in Seq(Message)
        /\ responses' = Append(responses, forwarding)
    BY <1>5 DEF Forward, TypeOK, Receive
  <2>2. \A i \in DOMAIN responses : ~isError(responses[i])
    BY <1>5, EmptyHasNone DEF Forward
  <2>3. \A i \in DOMAIN responses' :
          i = Len(responses') \/ (i \in DOMAIN responses /\ responses'[i] = responses[i])
    BY ONLY <2>1, AppendElements
  <2>4. \A i \in DOMAIN responses' : isError(responses'[i]) => i = Len(responses')
    BY <2>2, <2>3
  <2>5. responses'[Len(responses')] = forwarding
    BY ONLY <2>1, AppendElements
  <2>6. plannerPc' # "forward" /\ simPc' = simPc
    BY <1>5 DEF Forward
  <2>7. isError(forwarding) => simPc \in {"off", "close", "done"}
    BY <1>5 DEF Forward
  <2>8. UNCHANGED <<simPc, result, next>>
    BY <1>5 DEF Forward
  <2>9. QED
    BY <2>4, <2>5, <2>6, <2>7, <2>8
<1>6. CASE CloseSimulator
  BY <1>6 DEF CloseSimulator
<1>7. CASE SendErrorResponse
  <2>1. err \in Message /\ responses \in Seq(Message) /\ responses' = Append(responses, err)
    BY <1>7 DEF SendErrorResponse, TypeOK, Receive
  <2>2. /\ responses'[Len(responses')] = err /\ Len(responses') = Len(responses) + 1
        /\ \A i \in DOMAIN responses' :
             i = Len(responses') \/ (i \in DOMAIN responses /\ responses'[i] = responses[i])
    BY ONLY <2>1, AppendElements
  <2>3. \A i \in DOMAIN responses : isError(responses[i]) =>
          i = Len(responses) /\ ctxDone = TRUE /\ err = "context error"
    BY <1>7, EmptyHasNone DEF SendErrorResponse
  <2>4. ctxDone' = ctxDone /\ plannerPc' = "close" /\ UNCHANGED <<simPc, result, next>>
    BY <1>7 DEF SendErrorResponse
  <2>5. \A i \in DOMAIN responses' : isError(responses'[i]) =>
          \/ i = Len(responses')
          \/ /\ ctxDone' = TRUE /\ i + 1 = Len(responses')
             /\ responses'[Len(responses')] = "context error"
    BY <2>2, <2>3, <2>4
  <2>6. QED
    BY <2>4, <2>5
<1>8. CASE CloseResponses
  BY <1>8 DEF CloseResponses
<1>9. QED
  BY <1>1, <1>2, <1>3, <1>4, <1>5, <1>6, <1>7, <1>8 DEF PlannerSteps

(* Simulate's goroutine sends nothing after an error.                      *)
LEMMA SimulatorKeepsErrorLast ==
  TypeOK /\ ControlInv /\ QuietInv /\ ErrorInv /\ SimulatorSteps
  => ErrorInv'
<1> SUFFICES ASSUME TypeOK, ControlInv, QuietInv, ErrorInv, SimulatorSteps PROVE ErrorInv'
  OBVIOUS
<1> USE DEF ControlInv, QuietInv, ErrorInv, isError,
            SimulatorAt, ReadsState, goto, send, SendPlanError, plannerVars, callerVars
<1>1. CASE InitializeRequestView
  BY <1>1 DEF InitializeRequestView
<1>2. CASE PopulateView
  BY <1>2 DEF PopulateView
<1>3. CASE createAndGroupSimulations
  BY <1>3 DEF createAndGroupSimulations
<1>4. CASE NextGroup
  BY <1>4 DEF NextGroup
<1>5. CASE runStabilizationCycleForGroup
  BY <1>5 DEF runStabilizationCycleForGroup
<1>6. CASE HandleWinners
  BY <1>6 DEF HandleWinners
<1>7. CASE EndWithoutPlan
  BY <1>7 DEF EndWithoutPlan
<1>8. CASE EndWithPlan
  BY <1>8 DEF EndWithPlan
<1>9. CASE CloseResults
  BY <1>9 DEF CloseResults
<1>10. QED
  BY <1>1, <1>2, <1>3, <1>4, <1>5, <1>6, <1>7, <1>8, <1>9 DEF SimulatorSteps

(* The initial state, a cancellation, and a step that changes nothing.     *)
LEMMA OthersStayQuiet ==
  /\ Init => QuietInv /\ ErrorInv
  /\ QuietInv /\ ErrorInv /\ (CancelContext \/ UNCHANGED vars) => QuietInv' /\ ErrorInv'
<1>1. ASSUME Init PROVE QuietInv
  BY <1>1 DEF Init, QuietInv
<1>2. ASSUME Init PROVE ErrorInv
  BY <1>2, EmptyHasNone DEF Init, ErrorInv
<1>3. ASSUME QuietInv, CancelContext PROVE QuietInv'
  BY <1>3 DEF QuietInv, CancelContext, plannerVars, callerVars, simVars
<1>4. ASSUME ErrorInv, CancelContext PROVE ErrorInv'
  BY <1>4 DEF ErrorInv, CancelContext, plannerVars, callerVars, simVars
<1>5. ASSUME QuietInv, UNCHANGED vars PROVE QuietInv'
  BY <1>5 DEF QuietInv, vars, plannerVars, callerVars, simVars
<1>6. ASSUME ErrorInv, UNCHANGED vars PROVE ErrorInv'
  BY <1>6 DEF ErrorInv, vars, plannerVars, callerVars, simVars
<1>7. QED
  BY <1>1, <1>2, <1>3, <1>4, <1>5, <1>6

(* The inductive invariant behind the two theorems that follow.            *)
THEOREM ErrorInvariant == Spec => [](TypeOK /\ ControlInv /\ QuietInv /\ ErrorInv)
<1> DEFINE Inv == TypeOK /\ ControlInv /\ QuietInv /\ ErrorInv
<1>1. Init => Inv
  BY InitTypes, OthersStayQuiet
<1>2. Inv /\ [Next]_vars => Inv'
  <2>1. TypeOK /\ ControlInv /\ [Next]_vars => TypeOK' /\ ControlInv'
    BY PlannerKeepsTypes, PlannerKeepsControl, SimulatorKeepsTypes, SimulatorKeepsControl,
       CancelKeepsTypes, StutterKeepsTypes DEF Next
  <2>2. Inv /\ [Next]_vars => QuietInv' /\ ErrorInv'
    BY PlannerStaysQuiet, PlannerKeepsErrorLast, SimulatorStaysQuiet, SimulatorKeepsErrorLast,
       OthersStayQuiet DEF Next
  <2>3. QED
    BY <2>1, <2>2
<1>3. QED
  BY <1>1, <1>2, PTL DEF Spec

(* As long as the context has not ended, Simulate's goroutine never reads  *)
(* what SimulatorState.Reset has cleared, whatever the simulations do and  *)
(* however the caller reads.  Cancellation has to be excepted: TLC refutes *)
(* NoPanic with it.                                                        *)
THEOREM NoPanicWithoutCancel == Spec => []PanicNeedsCancel
<1>1. TypeOK /\ QuietInv => PanicNeedsCancel
  BY DEF TypeOK, QuietInv, PanicNeedsCancel
<1>2. QED
  BY <1>1, ErrorInvariant, PTL

(* The caller gets at most one error, as its last response, or else a      *)
(* second one that is ctx.Err() and comes last.                            *)
THEOREM ErrorEndsPlan == Spec => []ErrorsComeLast
<1>1. TypeOK /\ ErrorInv => ErrorsComeLast
  BY DEF TypeOK, ErrorInv, ErrorsComeLast
<1>2. QED
  BY <1>1, ErrorInvariant, PTL

-----------------------------------------------------------------------------
(* The protocol implements PlanContract.                                   *)

(* In mode AllAtOnce Simulate sends one result and closes its channel, so  *)
(* nothing was forwarded before; and both goroutines report the end of the *)
(* context only when the context has ended.                                *)
ContractInv ==
  /\ mode = "AllAtOnce" =>
       /\ simPc = "send" => next = "close"
       /\ plannerPc = "forward" => responses = <<>> /\ simPc \in {"close", "done"}
       /\ plannerPc = "select" /\ responses # <<>> => simPc \in {"close", "done"}
  /\ simPc = "send" /\ result = "context error" => ctxDone = TRUE
  /\ plannerPc = "forward" /\ forwarding = "context error" => ctxDone = TRUE
  /\ err = "context error" => ctxDone = TRUE

(* Plan's goroutine keeps ContractInv.                                     *)
LEMMA PlannerKeepsContract ==
  TypeOK /\ ControlInv /\ QuietInv /\ ContractInv /\ PlannerSteps => ContractInv'
<1> SUFFICES ASSUME TypeOK, ControlInv, QuietInv, ContractInv, PlannerSteps PROVE ContractInv'
  OBVIOUS
<1> USE DEF ContractInv, PlannerAt, callerVars, simVars
<1>1. CASE doPlan
  BY <1>1 DEF doPlan, QuietInv
<1>2. CASE SelectDone
  BY <1>2 DEF SelectDone
<1>3. CASE SelectClosed
  BY <1>3 DEF SelectClosed
<1>4. CASE SelectResult
  BY <1>4 DEF SelectResult
<1>5. CASE Forward
  BY <1>5 DEF Forward, Receive
<1>6. CASE CloseSimulator
  BY <1>6 DEF CloseSimulator
<1>7. CASE SendErrorResponse
  BY <1>7 DEF SendErrorResponse, Receive
<1>8. CASE CloseResponses
  BY <1>8 DEF CloseResponses
<1>9. QED
  BY <1>1, <1>2, <1>3, <1>4, <1>5, <1>6, <1>7, <1>8 DEF PlannerSteps

(* Simulate's goroutine keeps ContractInv.                                 *)
LEMMA SimulatorKeepsContract ==
  TypeOK /\ ContractInv /\ SimulatorSteps => ContractInv'
<1> SUFFICES ASSUME TypeOK, ContractInv, SimulatorSteps PROVE ContractInv'
  OBVIOUS
<1> USE DEF ContractInv, SimulatorAt, ReadsState, goto, send, SendPlanError, plannerVars,
            callerVars
<1>1. CASE InitializeRequestView
  BY <1>1 DEF InitializeRequestView
<1>2. CASE PopulateView
  BY <1>2 DEF PopulateView
<1>3. CASE createAndGroupSimulations
  BY <1>3 DEF createAndGroupSimulations
<1>4. CASE NextGroup
  BY <1>4 DEF NextGroup
<1>5. CASE runStabilizationCycleForGroup
  BY <1>5 DEF runStabilizationCycleForGroup, TypeOK
<1>6. CASE HandleWinners
  BY <1>6 DEF HandleWinners
<1>7. CASE EndWithoutPlan
  BY <1>7 DEF EndWithoutPlan
<1>8. CASE EndWithPlan
  BY <1>8 DEF EndWithPlan
<1>9. CASE CloseResults
  BY <1>9 DEF CloseResults
<1>10. QED
  BY <1>1, <1>2, <1>3, <1>4, <1>5, <1>6, <1>7, <1>8, <1>9 DEF SimulatorSteps

(* The initial state, a cancellation, and a step that changes nothing.     *)
LEMMA OthersKeepContract ==
  /\ Init => ContractInv
  /\ ContractInv /\ (CancelContext \/ UNCHANGED vars) => ContractInv'
<1>1. ASSUME Init PROVE ContractInv
  BY <1>1 DEF Init, ContractInv
<1>2. ASSUME ContractInv, CancelContext PROVE ContractInv'
  BY <1>2 DEF ContractInv, CancelContext, plannerVars, callerVars, simVars
<1>3. ASSUME ContractInv, UNCHANGED vars PROVE ContractInv'
  BY <1>3 DEF ContractInv, vars, plannerVars, callerVars, simVars
<1>4. QED
  BY <1>1, <1>2, <1>3

(* ContractInv holds in every state.                                       *)
THEOREM ContractInvariant == Spec => []ContractInv
<1>1. Init => ContractInv
  BY OthersKeepContract
<1>2. TypeOK /\ ControlInv /\ QuietInv /\ ContractInv /\ [Next]_vars => ContractInv'
  BY PlannerKeepsContract, SimulatorKeepsContract, OthersKeepContract DEF Next
<1>3. QED
  BY <1>1, <1>2, ErrorInvariant, PTL DEF Spec

(* A step of Plan's goroutine is a step of the contract, or does not show. *)
LEMMA PlannerStepsMap ==
  ASSUME TypeOK, ControlInv, AnswerInv, QuietInv, ErrorInv, ContractInv, PlannerSteps
  PROVE  [Contract!Next]_(Contract!contractVars)
<1> USE DEF PlannerAt, callerVars, simVars
<1>1. CASE Forward
  <2>1. /\ forwarding \in Message /\ responses' = Append(responses, forwarding)
        /\ UNCHANGED <<mode, responseCh, ctxDone, panicked>> /\ ~panicked
    BY <1>1 DEF Forward, Receive, ControlInv
  <2>2. responseCh = "open"
    BY <1>1 DEF Forward, ControlInv, TypeOK
  <2>3. Contract!Respond(forwarding)
    BY <2>1, <2>2 DEF Contract!Respond
  <2>4. \A i \in DOMAIN responses : ~isError(responses[i])
    BY <1>1 DEF Forward, ErrorInv
  <2>5. Contract!noErrorYet /\ Contract!errorLast
    BY <2>4 DEF Contract!noErrorYet, Contract!errorLast, isError
  <2>6. CASE forwarding = "plan"
    <3>1. mode = "AllAtOnce" => responses = <<>>
      BY <1>1 DEF Forward, ContractInv
    <3>2. Contract!DeliverPlan
      BY <2>3, <2>5, <2>6, <3>1 DEF Contract!DeliverPlan
    <3>3. QED
      BY <3>2 DEF Contract!Next
  <2>7. CASE forwarding = "error"
    BY <2>3, <2>5, <2>7 DEF Contract!Fail, Contract!Next
  <2>8. CASE forwarding = "context error"
    <3>1. ctxDone
      BY <1>1, <2>8 DEF Forward, ContractInv
    <3>2. QED
      BY <2>3, <2>5, <2>8, <3>1 DEF Contract!FailCancelled, Contract!Next
  <2>9. QED
    BY <2>1, <2>6, <2>7, <2>8 DEF Message
<1>2. CASE SendErrorResponse
  <2>1. /\ err \in Message /\ responses' = Append(responses, err)
        /\ UNCHANGED <<mode, responseCh, ctxDone, panicked>> /\ ~panicked
    BY <1>2 DEF SendErrorResponse, Receive, ControlInv
  <2>2. responseCh = "open"
    BY <1>2 DEF SendErrorResponse, ControlInv, TypeOK
  <2>3. Contract!Respond(err)
    BY <2>1, <2>2 DEF Contract!Respond
  <2>4. CASE err = "context error" /\ ctxDone = TRUE
    <3>1. Contract!errorLast
      BY <1>2 DEF SendErrorResponse, ErrorInv, isError, Contract!errorLast
    <3>2. QED
      BY <2>3, <2>4, <3>1 DEF Contract!FailCancelled, Contract!Next
  <2>5. CASE responses = <<>> /\ err = "error"
    <3>1. Contract!noErrorYet
      BY <2>5, EmptyHasNone DEF Contract!noErrorYet
    <3>2. QED
      BY <2>3, <2>5, <3>1 DEF Contract!Fail, Contract!Next
  <2>6. (err = "context error" /\ ctxDone = TRUE) \/ (responses = <<>> /\ err = "error")
    BY <1>2, <2>1 DEF SendErrorResponse, QuietInv, ContractInv, TypeOK, Message
  <2>7. QED
    BY <2>4, <2>5, <2>6
<1>3. CASE CloseResponses
  <2>1. responses # <<>> /\ responseCh = "open"
    BY <1>3 DEF CloseResponses, AnswerInv, ControlInv, TypeOK
  <2>2. Contract!CloseChannel
    BY <1>3, <2>1 DEF CloseResponses, Contract!CloseChannel
  <2>3. QED
    BY <2>2 DEF Contract!Next
<1>4. CASE doPlan
  BY <1>4 DEF doPlan, Contract!contractVars
<1>5. CASE SelectDone
  BY <1>5 DEF SelectDone, Contract!contractVars
<1>6. CASE SelectClosed
  BY <1>6 DEF SelectClosed, Contract!contractVars
<1>7. CASE SelectResult
  BY <1>7 DEF SelectResult, Contract!contractVars
<1>8. CASE CloseSimulator
  BY <1>8 DEF CloseSimulator, Contract!contractVars
<1>9. QED
  BY <1>1, <1>2, <1>3, <1>4, <1>5, <1>6, <1>7, <1>8 DEF PlannerSteps

(* Simulate's goroutine never touches what the caller sees, except by a    *)
(* crash after cancellation.                                               *)
LEMMA SimulatorStepsMap ==
  ASSUME TypeOK, QuietInv, QuietInv', SimulatorSteps
  PROVE  [Contract!Next]_(Contract!contractVars)
<1>1. UNCHANGED <<mode, ctxDone, responses, responseCh>> /\ panicked = FALSE
  BY DEF SimulatorSteps, InitializeRequestView, PopulateView, createAndGroupSimulations,
         NextGroup, runStabilizationCycleForGroup, HandleWinners, EndWithoutPlan, EndWithPlan,
         CloseResults, SimulatorAt, ReadsState, plannerVars, callerVars, TypeOK
<1>2. panicked' \in BOOLEAN
  BY DEF SimulatorSteps, InitializeRequestView, PopulateView, createAndGroupSimulations,
         NextGroup, runStabilizationCycleForGroup, HandleWinners, EndWithoutPlan, EndWithPlan,
         CloseResults, SimulatorAt, ReadsState, TypeOK
<1>3. CASE panicked' = FALSE
  BY <1>1, <1>3 DEF Contract!contractVars
<1>4. CASE panicked' = TRUE
  <2>1. ctxDone = TRUE
    BY <1>1, <1>4 DEF QuietInv
  <2>2. Contract!Crash
    BY <1>1, <1>4, <2>1 DEF Contract!Crash
  <2>3. QED
    BY <2>2 DEF Contract!Next
<1>5. QED
  BY <1>2, <1>3, <1>4

(* What the goroutines of Plan and Simulate do is what PlanContract allows *)
(* on the response channel, for every caller and any number of cycles.     *)
THEOREM PlanImplementsContract == Spec => ImplementsContract
<1> DEFINE Inv == TypeOK /\ ControlInv /\ AnswerInv /\ QuietInv /\ ErrorInv /\ ContractInv
<1>1. Init => Contract!Init
  BY DEF Init, Contract!Init
<1>2. Inv /\ Inv' /\ [Next]_vars => [Contract!Next]_(Contract!contractVars)
  <2>1. ASSUME Inv, CancelContext PROVE [Contract!Next]_(Contract!contractVars)
    BY <2>1 DEF CancelContext, Contract!Cancel, Contract!Next, plannerVars, callerVars
  <2>2. ASSUME UNCHANGED vars PROVE [Contract!Next]_(Contract!contractVars)
    BY <2>2 DEF vars, plannerVars, callerVars, Contract!contractVars
  <2>3. QED
    BY <2>1, <2>2, PlannerStepsMap, SimulatorStepsMap DEF Next
<1>3. QED
  BY <1>1, <1>2, ProtocolInvariant, ErrorInvariant, ContractInvariant, PTL
     DEF Spec, ImplementsContract, Contract!Spec
=============================================================================
