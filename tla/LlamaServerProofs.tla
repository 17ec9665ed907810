------------------------- MODULE LlamaServerProofs -------------------------
(***************************************************************************)
(* Proofs about LlamaServer for every set of models, every fault and any   *)
(* number of restarts.                                                     *)
(***************************************************************************)
EXTENDS LlamaServer, TLAPS

\* Every variable keeps its type.
THEOREM TypeCorrect == Spec => []TypeOK
<1>1. Init => TypeOK
  <2> SUFFICES ASSUME Init PROVE TypeOK
    OBVIOUS
  <2>1. loaded \in BOOLEAN
    BY Zenon DEF Init
  <2>2. /\ step = "off" /\ want = None /\ current = None /\ child = None
        /\ disk \in [Models -> {"absent", "partial", "complete"}]
        /\ answered = <<None, None>> /\ restarts = 0
    BY DEF Init
  <2> QED BY <2>1, <2>2 DEF TypeOK
<1>2. TypeOK /\ [Next]_vars => TypeOK'
  <2> SUFFICES ASSUME TypeOK, [Next]_vars PROVE TypeOK'
    OBVIOUS
  <2> USE DEF TypeOK
  <2>1. CASE new
    BY <2>1, ModelAssumption DEF new
  <2>2. ASSUME NEW m \in Models, run(m) PROVE TypeOK'
    BY <2>2 DEF run, KeepModel, KillChild
  <2>3. CASE prepare_model
    BY <2>3 DEF prepare_model, UseFile, Download, NoDataNode, DownloadFails, Abandon
  <2>4. CASE Spawn
    BY <2>4 DEF Spawn
  <2>5. CASE Wake
    BY <2>5 DEF Wake
  <2>6. CASE Answer \/ NoAnswer
    BY <2>6 DEF Answer, NoAnswer
  <2>7. CASE Load \/ Exit
    BY <2>7 DEF Load, Exit
  <2>8. CASE Restart
    <3>1. disk' \in [Models -> {"absent", "partial", "complete"}]
      BY <2>8 DEF Restart
    <3>2. loaded' \in BOOLEAN
      BY <2>8, Zenon DEF Restart
    <3>3. /\ step' = "off" /\ want' = None /\ current' = None /\ child' = None
          /\ answered' = answered /\ restarts' = restarts + 1
      BY <2>8 DEF Restart
    <3> QED BY <3>1, <3>2, <3>3
  <2>9. CASE UNCHANGED vars
    BY <2>9 DEF vars
  <2> QED BY <2>1, <2>2, <2>3, <2>4, <2>5, <2>6, <2>7, <2>8, <2>9 DEF Next
<1> QED BY <1>1, <1>2, PTL DEF Spec

-----------------------------------------------------------------------------
(* The child at each step of a switch.                                     *)

\* The inductive invariant.  A child is killed before current_model names a
\* model it does not run, and spawned for the model of the request in hand:
\* between the two there is none.
Switching ==
    /\ step \in {"off", "idle"} <=> want = None
    /\ step = "off" => current = None
    /\ step \in {"off", "prepare", "spawn", "panicked"} => child = None
    /\ step = "sleep" => child \in {None, want}
    /\ step = "request" => want = current
    /\ ChildIsCurrent
    /\ loaded => child # None

LEMMA SwitchingInit == Init => Switching
BY DEF Init, Switching, ChildIsCurrent

LEMMA SwitchingStep ==
    ASSUME TypeOK, Switching, [Next]_vars
    PROVE  Switching'
<1> USE ModelAssumption DEF TypeOK, Switching, ChildIsCurrent
<1>1. CASE new
  BY <1>1 DEF new
<1>2. ASSUME NEW m \in Models, run(m) PROVE Switching'
  BY <1>2 DEF run, KeepModel, KillChild
<1>3. CASE prepare_model
  BY <1>3 DEF prepare_model, UseFile, Download, NoDataNode, DownloadFails, Abandon
<1>4. CASE Spawn
  BY <1>4 DEF Spawn
<1>5. CASE Wake
  BY <1>5 DEF Wake
<1>6. CASE Answer \/ NoAnswer
  BY <1>6 DEF Answer, NoAnswer
<1>7. CASE Load \/ Exit
  BY <1>7 DEF Load, Exit
<1>8. CASE Restart
  BY <1>8 DEF Restart
<1>9. CASE UNCHANGED vars
  BY <1>9 DEF vars
<1> QED BY <1>1, <1>2, <1>3, <1>4, <1>5, <1>6, <1>7, <1>8, <1>9 DEF Next

LEMMA AlwaysSwitching == Spec => []Switching
BY SwitchingInit, SwitchingStep, TypeCorrect, PTL DEF Spec

\* Between requests no model but current_model is behind the port.
THEOREM ChildAlwaysCurrent == Spec => []ChildIsCurrent
<1>1. Switching => ChildIsCurrent
  BY DEF Switching
<1> QED BY <1>1, AlwaysSwitching, PTL

-----------------------------------------------------------------------------
(* Refinement of ModelService.                                             *)

LEMMA ServiceStep ==
    ASSUME TypeOK, Switching, [Next]_vars
    PROVE  [Service!Next]_(Service!vars)
<1> SUFFICES Service!Next \/ UNCHANGED Service!vars
  OBVIOUS
<1> USE ModelAssumption DEF TypeOK, Switching, ChildIsCurrent, Service!vars
<1>1. CASE new
  <2>1. Service!Ask(Default)
    BY <1>1 DEF new, Service!Ask
  <2> QED BY <2>1 DEF Service!Next
<1>2. ASSUME NEW m \in Models, run(m) PROVE Service!Next
  <2>1. Service!Ask(m) \/ Service!Swap(m)
    BY <1>2 DEF run, KeepModel, KillChild, Service!Ask, Service!Swap
  <2> QED BY <2>1 DEF Service!Next
<1>3. CASE prepare_model
  <2>1. UNCHANGED Service!vars \/ Service!Fail
    BY <1>3 DEF prepare_model, UseFile, Download, NoDataNode, DownloadFails, Abandon, Service!Fail
  <2> QED BY <2>1 DEF Service!Next
<1>4. CASE Spawn
  <2>1. Service!Serve
    BY <1>4 DEF Spawn, Service!Serve
  <2> QED BY <2>1 DEF Service!Next
<1>5. CASE Wake
  <2>1. UNCHANGED Service!vars \/ Service!Fail
    BY <1>5 DEF Wake, Service!Fail
  <2> QED BY <2>1 DEF Service!Next
<1>6. CASE Answer
  <2>1. Service!Answer
    BY <1>6 DEF Answer, Service!Answer
  <2> QED BY <2>1 DEF Service!Next
<1>7. CASE NoAnswer
  <2>1. Service!Fail
    BY <1>7 DEF NoAnswer, Service!Fail
  <2> QED BY <2>1 DEF Service!Next
<1>8. CASE Load
  BY <1>8 DEF Load
<1>9. CASE Exit \/ Restart
  <2>1. Service!Stop
    BY <1>9 DEF Exit, Restart, Service!Stop
  <2> QED BY <2>1 DEF Service!Next
<1>10. CASE UNCHANGED vars
  BY <1>10 DEF vars
<1> QED
  BY <1>1, <1>2, <1>3, <1>4, <1>5, <1>6, <1>7, <1>8, <1>9, <1>10 DEF Next

\* Whatever is downloaded, killed or lost, an answer comes from the model that
\* was asked for.
THEOREM LlamaImplementsService == Spec => ImplementsService
<1>1. Init => Service!Init
  BY DEF Init, Service!Init
<1> QED BY <1>1, ServiceStep, TypeCorrect, AlwaysSwitching, PTL
        DEF Spec, ImplementsService, Service!Spec
=============================================================================
