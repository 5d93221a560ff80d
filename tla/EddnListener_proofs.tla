------------------------ MODULE EddnListener_proofs -------------------------
(***************************************************************************)
(* Proofs about the EDDN listener and its watchdog, for every timeout,     *)
(* check interval and number of messages.                                  *)
(***************************************************************************)
EXTENDS EddnListener, FiniteSetTheorems, TLAPS

LEMMA UnboundIsNat == Unbound \in Nat
BY DEF Unbound

LEMMA AppendKind ==
    ASSUME log \in Seq(Kind), NEW kind \in Kind, log' = Append(log, kind)
    PROVE  /\ log' \in Seq(Kind)
           /\ Len(log') = Len(log) + 1
           /\ log'[Len(log')] = kind
           /\ \A i \in 1..Len(log) : log'[i] = log[i]
           /\ Len(log) \in Nat
OBVIOUS

LEMMA AppendCall ==
    ASSUME dispatched \in Seq(Call), NEW c \in Call,
           dispatched' = Append(dispatched, c)
    PROVE  /\ dispatched' \in Seq(Call)
           /\ DOMAIN dispatched = 1..Len(dispatched)
           /\ DOMAIN dispatched' = 1..(Len(dispatched) + 1)
           /\ Len(dispatched) \in Nat
           /\ dispatched'[Len(dispatched) + 1] = c
           /\ \A i \in DOMAIN dispatched : dispatched'[i] = dispatched[i]
OBVIOUS

LEMMA AtRest ==
    /\ Stop => WatchdogTypeOK'
    /\ WatchdogInit => WatchdogTypeOK
<1>1. 0 \in Nat /\ 0 \in 0..CheckInterval
  BY WatchdogAssumption
<1>2. FALSE \in BOOLEAN
  OBVIOUS
<1>3. QED
  BY <1>1, <1>2, Zenon DEF Stop, WatchdogInit, WatchdogTypeOK

(***************************************************************************)
(* The listener is typed: every variable, the history included, stays in   *)
(* its set whatever the feed brings.                                       *)
(***************************************************************************)
LEMMA TypesStep == ListenerTypes /\ [Next]_vars => ListenerTypes'
<1> SUFFICES ASSUME ListenerTypes, [Next]_vars PROVE ListenerTypes'
  OBVIOUS
<1> USE WatchdogAssumption DEF ListenerTypes, WatchdogTypeOK, PC
<1>1. CASE Boot
  <2>1. Len(log) \in Nat /\ UNCHANGED <<log, dispatched>>
    BY <1>1 DEF Boot
  <2>2. pc' = "recv" /\ bootMark' = Len(log) /\ obj' = 0
    BY <1>1 DEF Boot, Unbound
  <2>3. WatchdogTypeOK'
    BY <1>1 DEF Boot, Start
  <2>4. 0 \in Nat /\ 0 \in 0..Len(log) /\ Len(log) \in 0..Len(log)
    BY <2>1
  <2>5. log' = log /\ dispatched' = dispatched /\ "recv" \in PC
    BY <2>1
  <2>6. QED
    BY <2>2, <2>3, <2>4, <2>5, Zenon
<1>2. CASE TakeGarbage
  <2>1. "garbage" \in Kind
    BY DEF Kind
  <2>2. log' = Append(log, "garbage") /\ pc' = "down"
    BY <1>2 DEF TakeGarbage, Take
  <2>3. UNCHANGED <<bootMark, obj, dispatched>> /\ WatchdogTypeOK'
    BY <1>2, AtRest DEF TakeGarbage
  <2>4. log' \in Seq(Kind) /\ Len(log') = Len(log) + 1 /\ Len(log) \in Nat
    BY <2>1, <2>2, AppendKind
  <2>5. QED
    BY <2>2, <2>3, <2>4
<1>3. CASE TakeWithoutSchema
  <2>1. "noSchema" \in Kind
    BY DEF Kind
  <2>2. log' = Append(log, "noSchema")
    BY <1>3 DEF TakeWithoutSchema, Take
  <2>3. UNCHANGED <<pc, bootMark, obj, dispatched>> /\ WatchdogTypeOK'
    BY <1>3 DEF TakeWithoutSchema, watchdogVars
  <2>4. log' \in Seq(Kind) /\ Len(log') = Len(log) + 1 /\ Len(log) \in Nat
    BY <2>1, <2>2, AppendKind
  <2>5. QED
    BY <2>2, <2>3, <2>4
<1>4. CASE TakeForValidation
  <2>1. PICK kind \in Kind : Take(kind)
    BY <1>4 DEF TakeForValidation
  <2>2. log' = Append(log, kind)
    BY <2>1 DEF Take
  <2>3. UNCHANGED <<bootMark, obj, dispatched>> /\ WatchdogTypeOK' /\ pc' = "validate"
    BY <1>4 DEF TakeForValidation, watchdogVars
  <2>4. log' \in Seq(Kind) /\ Len(log') = Len(log) + 1 /\ Len(log) \in Nat
    BY <2>2, AppendKind
  <2>5. QED
    BY <2>2, <2>3, <2>4
<1>5. CASE Accept
  BY <1>5 DEF Accept, Current, watchdogVars
<1>6. CASE FallThrough \/ Drop \/ Hang
  BY <1>6 DEF FallThrough, Drop, Hang, watchdogVars
<1>7. CASE FallThroughUnbound
  BY <1>7, AtRest DEF FallThroughUnbound, Exit
<1>8. CASE Skip \/ Finish
  BY <1>8 DEF Skip, Finish, Heartbeat
<1>9. CASE Dispatch
  <2>1. [obj |-> obj, trigger |-> Current] \in Call
    BY DEF Call, Current
  <2>2. dispatched' = Append(dispatched, [obj |-> obj, trigger |-> Current])
    BY <1>9 DEF Dispatch
  <2>3. dispatched' \in Seq(Call)
    BY <2>1, <2>2, AppendCall
  <2>4. WatchdogTypeOK'
    BY <1>9 DEF Dispatch, watchdogVars
  <2>5. pc' = "process" /\ UNCHANGED <<log, bootMark, obj>> /\ "process" \in PC
    BY <1>9 DEF Dispatch
  <2>6. QED
    BY <2>3, <2>4, <2>5, Zenon
<1>10. CASE Tick
  BY <1>10 DEF Tick, Elapse
<1>11. CASE Recheck
  BY <1>11 DEF Recheck, CheckPasses, listenerVars
<1>12. CASE Kill
  BY <1>12, AtRest DEF Kill, CheckExpires
<1>13. CASE UNCHANGED vars
  BY <1>13 DEF vars, watchdogVars, listenerVars
<1>14. QED
  BY <1>1, <1>2, <1>3, <1>4, <1>5, <1>6, <1>7, <1>8, <1>9, <1>10, <1>11,
     <1>12, <1>13 DEF Next, Loop

\* Whatever starts or ends the process starts or ends the watch, and nothing
\* else does either.
LEMMA WatchedStep ==
    ASSUME watching <=> pc # "down", [Next]_vars
    PROVE  (watching <=> pc # "down")'
<1>1. CASE Boot
  BY <1>1 DEF Boot, Start
<1>2. CASE TakeGarbage \/ FallThroughUnbound \/ Kill
  BY <1>2 DEF TakeGarbage, FallThroughUnbound, Exit, Kill, CheckExpires, Stop
<1>3. CASE TakeWithoutSchema \/ TakeForValidation \/ Accept \/ FallThrough \/ Drop
  BY <1>3 DEF TakeWithoutSchema, TakeForValidation, Take, Accept, FallThrough, Drop,
     watchdogVars
<1>4. CASE Skip \/ Finish
  BY <1>4 DEF Skip, Finish, Heartbeat
<1>5. CASE Dispatch \/ Hang
  BY <1>5 DEF Dispatch, Hang, watchdogVars
<1>6. CASE Tick \/ Recheck
  BY <1>6 DEF Tick, Elapse, Recheck, CheckPasses, listenerVars
<1>7. CASE UNCHANGED vars
  BY <1>7 DEF vars, watchdogVars, listenerVars
<1>8. QED
  BY <1>1, <1>2, <1>3, <1>4, <1>5, <1>6, <1>7 DEF Next, Loop

LEMMA TypeStep == ListenerTypeOK /\ [Next]_vars => ListenerTypeOK'
BY TypesStep, WatchedStep DEF ListenerTypeOK

LEMMA TypeInit == Init => ListenerTypeOK
<1>1. <<>> \in Seq(Kind) /\ <<>> \in Seq(Call) /\ Len(<<>>) = 0
  OBVIOUS
<1>2. 0 \in Nat /\ 0 \in 0..0 /\ "down" \in PC
  BY DEF PC
<1>3. Init => WatchdogTypeOK
  BY AtRest DEF Init
<1>4. QED
  <2>1. Init => ListenerTypes
    BY <1>1, <1>2, <1>3, Zenon DEF Init, ListenerTypes, Unbound
  <2>2. Init => (watching <=> pc # "down")
    BY DEF Init, WatchdogInit
  <2>3. QED
    BY <2>1, <2>2 DEF ListenerTypeOK

THEOREM ListenerTypeCorrect == Spec => []ListenerTypeOK
BY TypeInit, TypeStep, PTL DEF Spec

-----------------------------------------------------------------------------
(***************************************************************************)
(* Every step of the listener is a step of the watchdog or leaves it       *)
(* alone, so that what holds of the watchdog holds inside the listener.    *)
(***************************************************************************)
LEMMA WatchdogStep == [Next]_vars => [WatchdogNext]_watchdogVars
<1> SUFFICES ASSUME [Next]_vars PROVE [WatchdogNext]_watchdogVars
  OBVIOUS
<1> USE DEF WatchdogNext
<1>1. CASE Boot
  BY <1>1 DEF Boot
<1>2. CASE Loop
  BY <1>2 DEF Loop, TakeGarbage, TakeWithoutSchema, TakeForValidation, Accept,
     FallThrough, FallThroughUnbound, Exit, Drop, Skip, Dispatch, Finish
<1>3. CASE Hang \/ Tick \/ Recheck \/ Kill
  BY <1>3 DEF Hang, Tick, Recheck, Kill
<1>4. CASE UNCHANGED vars
  BY <1>4 DEF vars
<1>5. QED
  BY <1>1, <1>2, <1>3, <1>4 DEF Next

LEMMA BudgetStep ==
    WatchdogTypeOK /\ QuietBudget /\ [WatchdogNext]_watchdogVars
    => QuietBudget'
<1> SUFFICES ASSUME WatchdogTypeOK, QuietBudget, [WatchdogNext]_watchdogVars
             PROVE  QuietBudget'
  OBVIOUS
<1> USE WatchdogAssumption DEF WatchdogTypeOK, QuietBudget
<1>1. CASE Start
  BY <1>1 DEF Start
<1>2. CASE Heartbeat
  BY <1>2 DEF Heartbeat
<1>3. CASE Stop \/ CheckExpires
  BY <1>3 DEF Stop, CheckExpires
<1>4. CASE Elapse
  BY <1>4 DEF Elapse
<1>5. CASE CheckPasses
  BY <1>5 DEF CheckPasses
<1>6. CASE UNCHANGED watchdogVars
  BY <1>6 DEF watchdogVars
<1>7. QED
  BY <1>1, <1>2, <1>3, <1>4, <1>5, <1>6 DEF WatchdogNext

(***************************************************************************)
(* A listener that stops reporting progress is ended within one check      *)
(* interval after the timeout, for every timeout and every interval.       *)
(***************************************************************************)
THEOREM DetectionIsPrompt == Spec => []PromptDetection
<1>1. Init => QuietBudget
  BY DEF Init, WatchdogInit, QuietBudget
<1>2. ListenerTypeOK /\ QuietBudget /\ [Next]_vars => QuietBudget'
  BY WatchdogStep, BudgetStep DEF ListenerTypeOK, ListenerTypes
<1>3. ListenerTypeOK /\ QuietBudget => PromptDetection
  BY WatchdogAssumption
  DEF ListenerTypeOK, ListenerTypes, WatchdogTypeOK, QuietBudget, PromptDetection
<1>4. QED
  BY <1>1, <1>2, <1>3, ListenerTypeCorrect, PTL DEF Spec

-----------------------------------------------------------------------------
(***************************************************************************)
(* What a processor is called with.  Position and CallsSoFar make the      *)
(* three properties inductive.                                             *)
(***************************************************************************)
CallInv ==
    Position /\ CallsSoFar /\ NewestValid /\ OneCallPerMessage
             /\ StaleOnlyWhenRejected

\* A step that leaves the history and the local variable alone, and moves to a
\* place of which Position and CallsSoFar ask nothing new.
LEMMA QuietStep ==
    ASSUME ListenerTypeOK, CallInv,
           UNCHANGED <<log, bootMark, obj, dispatched>>,
           \/ pc' = "down"
           \/ pc' = pc
           \/ pc \in {"dispatch", "process"} /\ pc' \in {"recv", "hung"}
    PROVE  CallInv'
<1> USE DEF ListenerTypeOK, ListenerTypes
<1>1. Position'
  BY DEF CallInv, Position, Current
<1>2. CallsSoFar'
  BY DEF CallInv, CallsSoFar
<1>3. NewestValid'
  BY DEF CallInv, NewestValid
<1>4. OneCallPerMessage' /\ StaleOnlyWhenRejected'
  BY DEF CallInv, OneCallPerMessage, StaleOnlyWhenRejected
<1>5. QED
  BY <1>1, <1>2, <1>3, <1>4 DEF CallInv

\* The message is appended; it is not a valid one unless it is to be validated.
LEMMA TakeStep ==
    ASSUME ListenerTypeOK, CallInv, NEW kind \in Kind, Take(kind),
           UNCHANGED <<bootMark, obj, dispatched>>,
           \/ pc' = "down"
           \/ pc' = "recv" /\ kind \notin Valid
           \/ pc' = "validate"
    PROVE  CallInv'
<1> USE DEF ListenerTypeOK, ListenerTypes
<1>1. /\ pc = "recv" /\ Len(log) \in Nat
      /\ Len(log') = Len(log) + 1
      /\ log'[Len(log')] = kind
      /\ \A i \in 1..Len(log) : log'[i] = log[i]
  BY AppendKind DEF Take
<1>2. dispatched' = dispatched /\ \A i \in DOMAIN dispatched : dispatched[i] \in Call
  OBVIOUS
<1>3. Position'
  <2>1. pc' \notin {"dispatch", "process", "hung"} /\ (pc' = "validate" => Len(log') > bootMark')
    BY <1>1
  <2>2. QED
    BY <2>1 DEF Position
<1>4. CallsSoFar'
  BY <1>1, <1>2 DEF CallInv, CallsSoFar, Call
<1>5. NewestValid'
  <2>1. ASSUME pc' # "down", obj # Unbound PROVE obj > bootMark /\ log'[obj] \in Valid
    BY <1>1, <2>1 DEF CallInv, NewestValid, Unbound
  <2>2. ASSUME pc' # "down", NEW i \in (bootMark + 1)..Len(log'), log'[i] \in Valid,
               i < Len(log') \/ pc' # "validate"
        PROVE  i <= obj
    <3>1. i # Len(log')
      BY <1>1, <2>2
    <3>2. i \in (bootMark + 1)..Len(log) /\ i \in 1..Len(log)
      BY <1>1, <3>1
    <3>3. log[i] \in Valid
      BY <1>1, <2>2, <3>2
    <3>4. QED
      BY <1>1, <3>2, <3>3 DEF CallInv, NewestValid
  <2>3. QED
    BY <2>1, <2>2 DEF NewestValid
<1>6. OneCallPerMessage'
  BY DEF CallInv, OneCallPerMessage
<1>7. StaleOnlyWhenRejected'
  <2> SUFFICES ASSUME NEW i \in DOMAIN dispatched,
                      dispatched[i].obj # dispatched[i].trigger
               PROVE  /\ log'[dispatched[i].trigger] = "rejected"
                      /\ \A k \in (dispatched[i].obj + 1)..dispatched[i].trigger :
                            log'[k] \notin Valid
    BY DEF StaleOnlyWhenRejected
  <2>1. /\ dispatched[i].obj \in Nat /\ dispatched[i].trigger \in Nat
        /\ dispatched[i].obj < dispatched[i].trigger
        /\ dispatched[i].trigger <= Len(log)
    BY <1>2 DEF CallInv, CallsSoFar, Call
  <2>2. /\ log[dispatched[i].trigger] = "rejected"
        /\ \A k \in (dispatched[i].obj + 1)..dispatched[i].trigger : log[k] \notin Valid
    BY DEF CallInv, StaleOnlyWhenRejected
  <2>3. dispatched[i].trigger \in 1..Len(log)
    BY <2>1, <1>1
  <2>4. \A k \in (dispatched[i].obj + 1)..dispatched[i].trigger : k \in 1..Len(log)
    BY <2>1, <1>1
  <2>5. QED
    BY <1>1, <2>2, <2>3, <2>4
<1>8. QED
  BY <1>3, <1>4, <1>5, <1>6, <1>7 DEF CallInv

LEMMA BootStep ==
    ASSUME ListenerTypeOK, CallInv, Boot PROVE CallInv'
<1> USE DEF ListenerTypeOK, ListenerTypes
<1>1. /\ pc' = "recv" /\ bootMark' = Len(log) /\ obj' = Unbound
      /\ log' = log /\ dispatched' = dispatched /\ Len(log) \in Nat
  BY DEF Boot, Start
<1>2. \A i \in DOMAIN dispatched : dispatched[i] \in Call
  OBVIOUS
<1>3. Position' /\ NewestValid'
  BY <1>1 DEF Position, NewestValid
<1>4. CallsSoFar'
  BY <1>1, <1>2 DEF CallInv, CallsSoFar, Call
<1>5. OneCallPerMessage' /\ StaleOnlyWhenRejected'
  BY <1>1 DEF CallInv, OneCallPerMessage, StaleOnlyWhenRejected
<1>6. QED
  BY <1>3, <1>4, <1>5 DEF CallInv

\* From validation to the choice of the processor, or back to the socket.
LEMMA ValidateStep ==
    ASSUME ListenerTypeOK, CallInv, Accept \/ FallThrough \/ Drop PROVE CallInv'
<1> USE DEF ListenerTypeOK, ListenerTypes
<1>1. /\ pc = "validate" /\ pc' \in {"dispatch", "recv"}
      /\ log' = log /\ bootMark' = bootMark /\ dispatched' = dispatched
      /\ Len(log) \in Nat
  BY DEF Accept, FallThrough, Drop, watchdogVars
<1>2. \/ pc' = "dispatch" /\ obj' = Len(log) /\ log[Len(log)] \in Valid
      \/ /\ obj' = obj /\ log[Len(log)] \notin Valid
         /\ pc' = "dispatch" => obj # Unbound /\ log[Len(log)] = "rejected"
  BY DEF Accept, FallThrough, Drop, Current, Valid
<1>3. \A i \in DOMAIN dispatched : dispatched[i] \in Call
  OBVIOUS
<1>4. bootMark \in Nat /\ bootMark < Len(log)
  BY <1>1 DEF CallInv, Position
<1>5. Position'
  BY <1>1, <1>2, <1>4 DEF CallInv, Position, Current, Unbound
<1>6. CallsSoFar'
  BY <1>1, <1>2, <1>3, <1>4 DEF CallInv, CallsSoFar, Call, Unbound
<1>7. NewestValid'
  BY <1>1, <1>2, <1>4 DEF CallInv, NewestValid, Unbound
<1>8. OneCallPerMessage' /\ StaleOnlyWhenRejected'
  BY <1>1 DEF CallInv, OneCallPerMessage, StaleOnlyWhenRejected
<1>9. QED
  BY <1>5, <1>6, <1>7, <1>8 DEF CallInv

LEMMA DispatchStep ==
    ASSUME ListenerTypeOK, CallInv, Dispatch PROVE CallInv'
<1> USE DEF ListenerTypeOK, ListenerTypes
<1> DEFINE new == [obj |-> obj, trigger |-> Len(log)]
<1>1. /\ pc = "dispatch" /\ pc' = "process"
      /\ log' = log /\ bootMark' = bootMark /\ obj' = obj
      /\ Len(log) \in Nat /\ obj \in Nat /\ obj <= Len(log) /\ obj # Unbound
  BY DEF Dispatch, watchdogVars, CallInv, Position
<1>2. /\ DOMAIN dispatched = 1..Len(dispatched)
      /\ DOMAIN dispatched' = 1..(Len(dispatched) + 1)
      /\ Len(dispatched) \in Nat
      /\ dispatched'[Len(dispatched) + 1] = new
      /\ \A i \in DOMAIN dispatched : dispatched'[i] = dispatched[i]
  <2>1. new \in Call /\ dispatched' = Append(dispatched, new)
    BY <1>1 DEF Dispatch, Call, Current
  <2>2. QED
    BY <2>1, AppendCall
<1>3. \A i \in DOMAIN dispatched :
         /\ dispatched[i].obj \in Nat /\ dispatched[i].trigger \in Nat
         /\ dispatched[i].obj <= dispatched[i].trigger
         /\ dispatched[i].trigger < Len(log)
         /\ dispatched[i].obj <= obj
  <2>1. \A i \in DOMAIN dispatched : dispatched[i] \in Call
    OBVIOUS
  <2>2. \A i \in DOMAIN dispatched :
           dispatched[i].obj \in Nat /\ dispatched[i].trigger \in Nat
    BY <2>1 DEF Call
  <2>3. \A i \in DOMAIN dispatched :
           /\ dispatched[i].obj <= dispatched[i].trigger
           /\ dispatched[i].trigger < Len(log)
           /\ dispatched[i].obj <= obj
    BY <1>1 DEF CallInv, CallsSoFar
  <2>4. QED
    BY <2>2, <2>3
<1>4. new.obj = obj /\ new.trigger = Len(log)
  OBVIOUS
<1> HIDE DEF new
<1>5. Position'
  BY <1>1 DEF CallInv, Position
<1>6. CallsSoFar'
  BY <1>1, <1>2, <1>3, <1>4 DEF CallsSoFar
<1>7. NewestValid'
  BY <1>1 DEF CallInv, NewestValid
<1>8. OneCallPerMessage'
  <2> SUFFICES ASSUME NEW i \in DOMAIN dispatched', NEW j \in DOMAIN dispatched', i < j
               PROVE  /\ dispatched'[i].trigger < dispatched'[j].trigger
                      /\ dispatched'[i].obj <= dispatched'[j].obj
    BY DEF OneCallPerMessage
  <2>1. i \in DOMAIN dispatched
    BY <1>2
  <2>2. CASE j \in DOMAIN dispatched
    BY <1>2, <2>1, <2>2 DEF CallInv, OneCallPerMessage
  <2>3. CASE j = Len(dispatched) + 1
    BY <1>2, <1>3, <1>4, <2>1, <2>3
  <2>4. QED
    BY <1>2, <2>2, <2>3
<1>9. StaleOnlyWhenRejected'
  <2>1. ASSUME obj # Len(log)
        PROVE  /\ log[Len(log)] = "rejected"
               /\ \A k \in (obj + 1)..Len(log) : log[k] \notin Valid
    <3>1. log[Len(log)] = "rejected"
      BY <1>1, <2>1 DEF CallInv, Position, Current
    <3>2. ASSUME NEW k \in (obj + 1)..Len(log) PROVE log[k] \notin Valid
      <4>1. obj > bootMark /\ bootMark \in Nat
        BY <1>1 DEF CallInv, NewestValid
      <4>2. k \in (bootMark + 1)..Len(log) /\ ~(k <= obj)
        BY <1>1, <4>1
      <4>3. QED
        BY <1>1, <4>2 DEF CallInv, NewestValid
    <3>3. QED
      BY <3>1, <3>2
  <2>2. ASSUME NEW i \in DOMAIN dispatched', dispatched'[i].obj # dispatched'[i].trigger
        PROVE  /\ log[dispatched'[i].trigger] = "rejected"
               /\ \A k \in (dispatched'[i].obj + 1)..dispatched'[i].trigger :
                     log[k] \notin Valid
    <3>1. CASE i \in DOMAIN dispatched
      BY <1>2, <2>2, <3>1 DEF CallInv, StaleOnlyWhenRejected
    <3>2. CASE i = Len(dispatched) + 1
      BY <1>2, <1>4, <2>1, <2>2, <3>2
    <3>3. QED
      BY <1>2, <3>1, <3>2
  <2>3. QED
    BY <1>1, <2>2 DEF StaleOnlyWhenRejected
<1>10. QED
  BY <1>5, <1>6, <1>7, <1>8, <1>9 DEF CallInv

LEMMA CallInvCorrect == Spec => []CallInv
<1>1. Init => CallInv
  BY DEF Init, CallInv, Position, CallsSoFar, NewestValid, OneCallPerMessage,
     StaleOnlyWhenRejected
<1>2. ListenerTypeOK /\ CallInv /\ [Next]_vars => CallInv'
  <2> SUFFICES ASSUME ListenerTypeOK, CallInv, [Next]_vars PROVE CallInv'
    OBVIOUS
  <2>1. CASE Boot
    BY <2>1, BootStep
  <2>2. CASE TakeGarbage
    BY <2>2, TakeStep DEF TakeGarbage, Kind
  <2>3. CASE TakeWithoutSchema
    BY <2>3, TakeStep DEF TakeWithoutSchema, Kind, Valid, watchdogVars, Take
  <2>4. CASE TakeForValidation
    <3>1. PICK kind \in Kind : Take(kind)
      BY <2>4 DEF TakeForValidation
    <3>2. QED
      BY <2>4, <3>1, TakeStep DEF TakeForValidation, watchdogVars
  <2>5. CASE Accept \/ FallThrough \/ Drop
    BY <2>5, ValidateStep
  <2>6. CASE Dispatch
    BY <2>6, DispatchStep
  <2>7. CASE FallThroughUnbound \/ Kill
    BY <2>7, QuietStep DEF FallThroughUnbound, Exit, Kill
  <2>8. CASE Skip \/ Finish \/ Hang
    BY <2>8, QuietStep DEF Skip, Finish, Hang, Heartbeat, watchdogVars
  <2>9. CASE Tick \/ Recheck \/ UNCHANGED vars
    BY <2>9, QuietStep
    DEF Tick, Elapse, Recheck, CheckPasses, listenerVars, vars, watchdogVars
  <2>10. QED
    BY <2>1, <2>2, <2>3, <2>4, <2>5, <2>6, <2>7, <2>8, <2>9 DEF Next, Loop
<1>3. QED
  BY <1>1, <1>2, ListenerTypeCorrect, PTL DEF Spec

(***************************************************************************)
(* A processor is given the newest message its own process validated.      *)
(***************************************************************************)
THEOREM NewestValidCorrect == Spec => []NewestValid
BY CallInvCorrect, PTL DEF CallInv

(***************************************************************************)
(* One message taken is at most one call of a processor, in the order of   *)
(* the feed: across rejected messages, kills and restarts.                 *)
(***************************************************************************)
THEOREM OneCallPerMessageCorrect == Spec => []OneCallPerMessage
BY CallInvCorrect, PTL DEF CallInv

(***************************************************************************)
(* A processor sees a message again only because the next one was rejected *)
(* with no valid message in between.                                       *)
(***************************************************************************)
THEOREM StaleOnlyWhenRejectedCorrect == Spec => []StaleOnlyWhenRejected
BY CallInvCorrect, PTL DEF CallInv

-----------------------------------------------------------------------------
\* Calls are only added, so that one that was made stays made.
LEMMA CallsStay ==
    ASSUME ListenerTypeOK, NEW i, Calls(i, i) # {},
           dispatched' = dispatched \/ \E c \in Call : dispatched' = Append(dispatched, c)
    PROVE  Calls(i, i)' # {}
<1>1. CASE dispatched' = dispatched
  BY <1>1 DEF Calls
<1>2. CASE \E c \in Call : dispatched' = Append(dispatched, c)
  <2>1. \A n \in DOMAIN dispatched : n \in DOMAIN dispatched' /\ dispatched'[n] = dispatched[n]
    BY <1>2, AppendCall DEF ListenerTypeOK, ListenerTypes
  <2>2. QED
    BY <2>1 DEF Calls
<1>3. QED
  BY <1>1, <1>2

\* The log, the calls and the mark of the process are left alone, and the loop does
\* not turn its back on a message that waits for its call.
LEMMA OwnCallRests ==
    ASSUME OwnCallMade, UNCHANGED <<log, bootMark, dispatched>>,
           \/ pc' = "down"
           \/ pc' = pc
           \/ pc \notin {"down", "validate", "dispatch"}
           \/ pc = "validate" /\ pc' = "dispatch"
           \/ pc # "down" /\ log[Len(log)] # "handled"
    PROVE  OwnCallMade'
BY DEF OwnCallMade, Calls

LEMMA OwnCallStep ==
    ASSUME ListenerTypeOK, CallInv, OwnCallMade, [Next]_vars PROVE OwnCallMade'
<1> USE DEF ListenerTypeOK, ListenerTypes
<1>1. CASE Boot
  BY <1>1 DEF Boot, OwnCallMade
<1>2. CASE TakeGarbage \/ FallThroughUnbound \/ Kill
  BY <1>2 DEF TakeGarbage, FallThroughUnbound, Exit, Kill, OwnCallMade
<1>3. CASE TakeWithoutSchema \/ TakeForValidation
  <2>1. PICK kind \in Kind : Take(kind) /\ (pc' = "validate" \/ kind # "handled")
    BY <1>3 DEF TakeWithoutSchema, TakeForValidation, Kind
  <2>2. /\ pc = "recv" /\ Len(log) \in Nat /\ Len(log') = Len(log) + 1
        /\ log'[Len(log')] = kind /\ \A i \in 1..Len(log) : log'[i] = log[i]
    BY <2>1, AppendKind DEF Take
  <2>3. bootMark' = bootMark /\ bootMark \in Nat /\ dispatched' = dispatched
    BY <1>3 DEF TakeWithoutSchema, TakeForValidation
  <2>4. ASSUME NEW i \in (bootMark + 1)..Len(log'), log'[i] = "handled",
               ~(i = Len(log') /\ pc' \in {"validate", "dispatch"})
        PROVE  Calls(i, i)' # {}
    <3>1. i # Len(log')
      BY <2>1, <2>2, <2>4
    <3>2. i \in (bootMark + 1)..Len(log) /\ i \in 1..Len(log)
      BY <2>2, <2>3, <3>1
    <3>3. Calls(i, i) # {}
      BY <2>2, <2>4, <3>2 DEF OwnCallMade
    <3>4. QED
      BY <2>3, <3>3, CallsStay
  <2>5. QED
    BY <2>3, <2>4 DEF OwnCallMade
<1>4. CASE Accept \/ FallThrough
  BY <1>4, OwnCallRests DEF Accept, FallThrough
<1>5. CASE Drop
  BY <1>5, OwnCallRests DEF Drop, Current
<1>6. CASE Skip
  <2>1. log[Len(log)] # "handled"
    BY <1>6 DEF Skip, CallInv, Position, Current
  <2>2. QED
    BY <1>6, <2>1, OwnCallRests DEF Skip
<1>7. CASE Dispatch
  <2> DEFINE new == [obj |-> obj, trigger |-> Len(log)]
  <2>1. /\ pc = "dispatch" /\ log' = log /\ bootMark' = bootMark /\ new \in Call
        /\ dispatched' = Append(dispatched, new)
    BY <1>7 DEF Dispatch, Current, Call
  <2>2. Len(dispatched) + 1 \in DOMAIN dispatched'
        /\ dispatched'[Len(dispatched) + 1] = new
    BY <2>1, AppendCall
  <2>3. ASSUME NEW i \in (bootMark + 1)..Len(log), log[i] = "handled"
        PROVE  Calls(i, i)' # {}
    <3>1. CASE Calls(i, i) # {}
      BY <2>1, <3>1, CallsStay
    <3>2. CASE i = Len(log)
      <4>1. obj = i
        BY <2>1, <2>3, <3>2 DEF CallInv, Position, Current
      <4>2. QED
        BY <2>2, <3>2, <4>1 DEF Calls
    <3>3. QED
      BY <2>1, <2>3, <3>1, <3>2 DEF OwnCallMade
  <2>4. QED
    BY <2>1, <2>3 DEF OwnCallMade
<1>8. CASE Finish \/ Hang
  BY <1>8, OwnCallRests DEF Finish, Hang
<1>9. CASE Tick \/ Recheck \/ UNCHANGED vars
  BY <1>9, OwnCallRests DEF Tick, Recheck, listenerVars, vars
<1>10. QED
  BY <1>1, <1>2, <1>3, <1>4, <1>5, <1>6, <1>7, <1>8, <1>9 DEF Next, Loop

\* The triggers increase, so that no call is made twice.
LEMMA CalledOnce ==
    ASSUME ListenerTypeOK, OneCallPerMessage, NEW i, Calls(i, i) # {}
    PROVE  Cardinality(Calls(i, i)) = 1
<1>1. PICK n \in DOMAIN dispatched : dispatched[n] = [obj |-> i, trigger |-> i]
  BY DEF Calls
<1>2. ASSUME NEW k \in Calls(i, i) PROVE k = n
  <2>1. k \in DOMAIN dispatched /\ dispatched[k].trigger = dispatched[n].trigger
    BY <1>1 DEF Calls
  <2>2. n \in Nat /\ k \in Nat /\ dispatched[n].trigger \in Nat
    BY <1>1, <2>1 DEF ListenerTypeOK, ListenerTypes, Call
  <2>3. ~(k < n) /\ ~(n < k)
    BY <2>1, <2>2 DEF OneCallPerMessage
  <2>4. QED
    BY <2>2, <2>3
<1>3. Calls(i, i) = {n}
  BY <1>1, <1>2 DEF Calls
<1>4. QED
  BY <1>3, FS_Singleton

(***************************************************************************)
(* Back at the socket, the loop has called the processor of every message  *)
(* that has one, once, for the message itself: whatever was rejected or    *)
(* broken in between, and however often the process was restarted.         *)
(***************************************************************************)
THEOREM NothingOverlookedCorrect == Spec => []NothingOverlooked
<1>1. Init => OwnCallMade
  BY DEF Init, OwnCallMade
<1>2. ListenerTypeOK /\ CallInv /\ OwnCallMade /\ [Next]_vars => OwnCallMade'
  BY OwnCallStep
<1>3. ListenerTypeOK /\ CallInv /\ OwnCallMade => NothingOverlooked
  BY CalledOnce DEF CallInv, OwnCallMade, NothingOverlooked
<1>4. QED
  BY <1>1, <1>2, <1>3, ListenerTypeCorrect, CallInvCorrect, PTL DEF Spec

=============================================================================
