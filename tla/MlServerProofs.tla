--------------------------- MODULE MlServerProofs ---------------------------
(***************************************************************************)
(* Proofs about MlServer for every set of models, every fault and any      *)
(* number of restarts.                                                     *)
(***************************************************************************)
EXTENDS MlServer, TLAPS

\* Types alone are not inductive: a copy is looked up for the model in hand,
\* and there is one but for an idle worker.
Typed == TypeOK /\ (step = "idle" <=> want = None)

\* Every variable keeps its type.
THEOREM TypeCorrect == Spec => []TypeOK
<1>1. Init => Typed
  <2> SUFFICES ASSUME Init PROVE Typed
    OBVIOUS
  <2>1. loaded \in BOOLEAN /\ dir \in BOOLEAN
    BY Zenon DEF Init
  <2>2. /\ step = "idle" /\ want = None /\ current = None /\ child = None
        /\ archive \in [Models -> {"absent", "partial", "complete"}]
        /\ config = None /\ saved \in [Models -> Models \cup {None, Torn}]
        /\ answered = <<None, None>> /\ restarts = 0
    BY DEF Init
  <2> QED BY <2>1, <2>2 DEF Typed, TypeOK
<1>2. Typed /\ [Next]_vars => Typed'
  <2> SUFFICES ASSUME Typed, [Next]_vars PROVE Typed'
    OBVIOUS
  <2> USE NoneAssumption DEF Typed, TypeOK, files
  <2>1. ASSUME NEW m \in Models, run(m) PROVE Typed'
    BY <2>1 DEF run, KeepModel, KillChild
  <2>2. CASE CopyDir
    BY <2>2 DEF CopyDir, Abandon
  <2>3. CASE prepare_model
    BY <2>3 DEF prepare_model, recover_model_config, Download, NoDataNode, DownloadFails, Abandon
  <2>4. CASE Unpack
    BY <2>4 DEF Unpack
  <2>5. CASE save_model_config
    BY <2>5 DEF save_model_config
  <2>6. CASE Spawn
    BY <2>6 DEF Spawn
  <2>7. CASE Wake
    BY <2>7 DEF Wake
  <2>8. CASE Answer \/ NoAnswer
    BY <2>8 DEF Answer, NoAnswer
  <2>9. CASE Load \/ Exit
    BY <2>9 DEF Load, Exit
  <2>10. CASE Restart
    <3>1. /\ archive' \in [Models -> {"absent", "partial", "complete"}]
          /\ config' \in Models \cup {None, Torn}
          /\ saved' \in [Models -> Models \cup {None, Torn}]
      BY <2>10 DEF Restart, Tear
    <3>2. loaded' \in BOOLEAN /\ dir' \in BOOLEAN
      BY <2>10, Zenon DEF Restart
    <3>3. /\ step' = "idle" /\ want' = None /\ current' = None /\ child' = None
          /\ answered' = answered /\ restarts' = restarts + 1
      BY <2>10 DEF Restart
    <3> QED BY <3>1, <3>2, <3>3
  <2>11. CASE UNCHANGED vars
    BY <2>11 DEF vars
  <2> QED
    BY <2>1, <2>2, <2>3, <2>4, <2>5, <2>6, <2>7, <2>8, <2>9, <2>10, <2>11 DEF Next
<1>3. Typed => TypeOK
  BY DEF Typed
<1> QED BY <1>1, <1>2, <1>3, PTL DEF Spec

-----------------------------------------------------------------------------
(* The files and the child at each step of a switch.                       *)

\* The inductive invariant.  models.json is shared, but from the moment it is
\* replaced until the child has read it no other switch can start: what is
\* saved, and what the child is spawned with, is the model in hand.
Switching ==
    /\ step = "idle" <=> want = None
    /\ step \in {"copy_dir", "prepare", "unpack", "save", "spawn", "panicked"} => child = None
    /\ step = "save" => config = want
    /\ step = "spawn" => config \in {want, Torn}
    /\ step = "sleep" => child \in {None, want}
    /\ step = "request" => want = current
    /\ step \in {"idle", "request"} => child \in {None, current}
    /\ loaded => child # None
    /\ SavedIsOwn

LEMMA SwitchingInit == Init => Switching
BY DEF Init, Switching, SavedIsOwn

LEMMA SwitchingStep ==
    ASSUME TypeOK, Switching, [Next]_vars
    PROVE  Switching'
<1> USE NoneAssumption DEF TypeOK, Switching, SavedIsOwn, files
<1>1. ASSUME NEW m \in Models, run(m) PROVE Switching'
  BY <1>1 DEF run, KeepModel, KillChild
<1>2. CASE CopyDir
  BY <1>2 DEF CopyDir, Abandon
<1>3. CASE prepare_model
  BY <1>3 DEF prepare_model, recover_model_config, Download, NoDataNode, DownloadFails, Abandon
<1>4. CASE Unpack
  BY <1>4 DEF Unpack
<1>5. CASE save_model_config
  BY <1>5 DEF save_model_config
<1>6. CASE Spawn
  BY <1>6 DEF Spawn
<1>7. CASE Wake
  BY <1>7 DEF Wake
<1>8. CASE Answer \/ NoAnswer
  BY <1>8 DEF Answer, NoAnswer
<1>9. CASE Load \/ Exit
  BY <1>9 DEF Load, Exit
<1>10. CASE Restart
  BY <1>10 DEF Restart, Tear
<1>11. CASE UNCHANGED vars
  BY <1>11 DEF vars
<1> QED
  BY <1>1, <1>2, <1>3, <1>4, <1>5, <1>6, <1>7, <1>8, <1>9, <1>10, <1>11 DEF Next

LEMMA AlwaysSwitching == Spec => []Switching
BY SwitchingInit, SwitchingStep, TypeCorrect, PTL DEF Spec

\* No copy of a configuration describes another model than its own, wherever
\* the node died.
THEOREM SavedAlwaysOwn == Spec => []SavedIsOwn
<1>1. Switching => SavedIsOwn
  BY DEF Switching
<1> QED BY <1>1, AlwaysSwitching, PTL

-----------------------------------------------------------------------------
(* Archives without a copy of their configuration.                         *)

\* While the node has not restarted, only the model in hand can be in that
\* state, and only until its copy is saved or the worker has panicked.
Fetched ==
    restarts = 0 =>
        \A m \in Models :
            archive[m] = "complete"
                => saved[m] # None \/ (m = want /\ step \in {"unpack", "save", "panicked"})

LEMMA FetchedStep ==
    ASSUME TypeOK, Switching, Fetched, [Next]_vars
    PROVE  Fetched'
<1> USE NoneAssumption DEF TypeOK, Switching, Fetched, files
<1>1. ASSUME NEW m \in Models, run(m) PROVE Fetched'
  BY <1>1 DEF run, KeepModel, KillChild
<1>2. CASE CopyDir
  BY <1>2 DEF CopyDir, Abandon
<1>3. CASE prepare_model
  BY <1>3 DEF prepare_model, recover_model_config, Download, NoDataNode, DownloadFails, Abandon
<1>4. CASE Unpack
  BY <1>4 DEF Unpack
<1>5. CASE save_model_config
  BY <1>5 DEF save_model_config
<1>6. CASE Spawn \/ Wake \/ Answer \/ NoAnswer \/ Load \/ Exit
  <2>1. /\ UNCHANGED <<archive, saved, restarts>>
        /\ \A m \in Models :
             m = want /\ step \in {"unpack", "save", "panicked"}
               => m = want' /\ step' \in {"unpack", "save", "panicked"}
    BY <1>6 DEF Spawn, Wake, Answer, NoAnswer, Load, Exit
  <2> QED BY <2>1
<1>7. CASE Restart
  BY <1>7 DEF Restart
<1>8. CASE UNCHANGED vars
  BY <1>8 DEF vars
<1> QED BY <1>1, <1>2, <1>3, <1>4, <1>5, <1>6, <1>7, <1>8 DEF Next

\* A model that was fetched can be switched back to, whichever switches failed
\* in between, until the node restarts.
THEOREM AlwaysRecoverable == Spec => []Recoverable
<1>1. Init => Fetched
  BY DEF Init, Fetched
<1>2. Fetched => Recoverable
  BY DEF Fetched, Recoverable
<1> QED BY <1>1, <1>2, FetchedStep, TypeCorrect, AlwaysSwitching, PTL DEF Spec

-----------------------------------------------------------------------------
(* Refinement of ModelService.                                             *)

LEMMA ServiceStep ==
    ASSUME TypeOK, Switching, [Next]_vars
    PROVE  [Service!Next]_(Service!vars)
<1> SUFFICES Service!Next \/ UNCHANGED Service!vars
  OBVIOUS
<1> USE NoneAssumption DEF TypeOK, Switching, Service!vars
<1>1. ASSUME NEW m \in Models, run(m) PROVE Service!Next
  <2>1. Service!Ask(m) \/ Service!Swap(m)
    BY <1>1 DEF run, KeepModel, KillChild, Service!Ask, Service!Swap
  <2> QED BY <2>1 DEF Service!Next
<1>2. CASE CopyDir
  <2>1. UNCHANGED Service!vars \/ Service!Fail
    BY <1>2 DEF CopyDir, Abandon, Service!Fail
  <2> QED BY <2>1 DEF Service!Next
<1>3. CASE prepare_model
  <2>1. UNCHANGED Service!vars \/ Service!Fail
    BY <1>3 DEF prepare_model, recover_model_config, Download, NoDataNode, DownloadFails, Abandon,
                Service!Fail
  <2> QED BY <2>1 DEF Service!Next
<1>4. CASE Unpack \/ save_model_config
  BY <1>4 DEF Unpack, save_model_config
<1>5. CASE Spawn
  <2>1. UNCHANGED Service!vars \/ Service!Serve
    BY <1>5 DEF Spawn, Service!Serve
  <2> QED BY <2>1 DEF Service!Next
<1>6. CASE Wake \/ Load
  BY <1>6 DEF Wake, Load
<1>7. CASE Answer
  <2>1. Service!Answer
    BY <1>7 DEF Answer, Service!Answer
  <2> QED BY <2>1 DEF Service!Next
<1>8. CASE NoAnswer
  <2>1. Service!Fail
    BY <1>8 DEF NoAnswer, Service!Fail
  <2> QED BY <2>1 DEF Service!Next
<1>9. CASE Exit \/ Restart
  <2>1. Service!Stop
    BY <1>9 DEF Exit, Restart, Service!Stop
  <2> QED BY <2>1 DEF Service!Next
<1>10. CASE UNCHANGED vars
  BY <1>10 DEF vars
<1> QED
  BY <1>1, <1>2, <1>3, <1>4, <1>5, <1>6, <1>7, <1>8, <1>9, <1>10 DEF Next

\* An answer comes from the model that was asked for, although neither the
\* request nor models.json names it.
THEOREM MlImplementsService == Spec => ImplementsService
<1>1. Init => Service!Init
  BY DEF Init, Service!Init
<1> QED BY <1>1, ServiceStep, TypeCorrect, AlwaysSwitching, PTL
        DEF Spec, ImplementsService, Service!Spec
=============================================================================
