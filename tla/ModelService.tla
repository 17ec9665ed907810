---------------------------- MODULE ModelService ----------------------------
(***************************************************************************)
(* What a network's worker relies on when it asks a model server: however  *)
(* models are fetched, swapped and lost, an answer to a request for a      *)
(* model comes from that model.                                            *)
(***************************************************************************)
CONSTANTS Models, None   \* None is not one of Models

VARIABLES
    want,      \* the model of the request in hand
    serving,   \* the model behind the server's port
    answered   \* the model that gave the last answer, and the one asked for

vars == <<want, serving, answered>>

Init ==
    /\ want = None
    /\ serving = None
    /\ answered = <<None, None>>

Ask(m)  == want = None /\ want' = m /\ UNCHANGED <<serving, answered>>

\* The server comes up with the model of the request in hand.
Serve == /\ want \in Models
         /\ serving = None
         /\ serving' = want
         /\ UNCHANGED <<want, answered>>

\* The server goes down, and perhaps the worker with the request in hand.
Stop == /\ serving' = None
        /\ want' \in {want, None}
        /\ UNCHANGED answered

\* A request for another model takes the server down.
Swap(m) == want = None /\ want' = m /\ serving' = None /\ UNCHANGED answered

Answer == /\ want \in Models
          /\ serving = want
          /\ answered' = <<want, want>>
          /\ want' = None
          /\ UNCHANGED serving

Fail == want' = None /\ UNCHANGED <<serving, answered>>

Next ==
    \/ \E m \in Models : Ask(m) \/ Swap(m)
    \/ Serve \/ Stop \/ Answer \/ Fail

Spec == Init /\ [][Next]_vars
=============================================================================
