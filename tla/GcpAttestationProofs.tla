------------------------ MODULE GcpAttestationProofs ------------------------
(***************************************************************************)
(* Proofs about GcpAttestation for any calls, images, audiences and times, *)
(* and every fault.                                                        *)
(***************************************************************************)
EXTENDS GcpAttestation, TLAPS

\* What connections and reports carry is a token of their own call; only the
\* report of a call that is over is checked.
Own ==
    /\ \A c \in Calls : reply[c] \in Tokens => reply[c].nonce = c
    /\ OwnNonce
    /\ \A c \in Calls : check[c] # "none" => call[c] = "done"

\* The keys that a check fetched lie between those published throughout and those
\* published at some time of it.
Window ==
    \A c \in Calls :
        /\ check[c] \in Checking => published \subseteq offered[c] /\ steady[c] \subseteq published
        /\ check[c] = "decide" => keySets[c] \subseteq offered[c] /\ steady[c] \subseteq keySets[c]

Inv == TypeOK /\ Own /\ Window /\ AcceptedGenuine /\ RefusedForCause

LEMMA Start == Init => Inv
<1> SUFFICES ASSUME Init PROVE Inv
  OBVIOUS
<1>1. 0 \in 0 .. MaxTime /\ 1 \in Kids
  BY BoundAssumption DEF Kids
<1>2. TypeOK
  BY <1>1 DEF Init, TypeOK, Checking
<1>3. Own
  BY ReportAssumption DEF Init, Own, OwnNonce
<1>4. Window /\ AcceptedGenuine /\ RefusedForCause
  BY DEF Init, Window, Checking, AcceptedGenuine, RefusedForCause
<1> QED BY <1>2, <1>3, <1>4 DEF Inv

\* The node asks for reports, is answered, fails or is deployed anew.
LEMMA NodeStep ==
    ASSUME Inv,
           \/ \E c \in Calls : SendRequest(c) \/ Answer(c) \/ Collect(c) \/ GetReportFails(c)
           \/ \E i \in Images : Deploy(i)
    PROVE  Inv'
<1> USE DEF Inv
<1>1. /\ now' = now /\ signer' = signer /\ published' = published
      /\ check' = check /\ skip' = skip /\ keySets' = keySets /\ decided' = decided
      /\ offered' = offered /\ steady' = steady
  BY DEF SendRequest, Answer, Collect, GetReportFails, Deploy, service, verifier, history
<1> DEFINE Good ==
    /\ image' \in Images
    /\ call' \in [Calls -> {"idle", "asked", "done", "failed"}]
    /\ reply' \in [Calls -> Tokens \cup {None, Text}]
    /\ \A c \in Calls : reply'[c] \in Tokens => reply'[c].nonce = c
    /\ \A c \in Calls : call[c] = "done" => call'[c] = "done" /\ report'[c] = report[c]
    /\ report' \in [Calls -> Tokens \cup {None, Text}]
    /\ \A c \in Calls : call'[c] = "done" => report'[c] # None
    /\ \A c \in Calls : report'[c] \in Tokens => report'[c].nonce = c
<1>2. Good
  <2>1. ASSUME NEW c \in Calls, SendRequest(c) \/ GetReportFails(c)
        PROVE  Good
    <3>1. /\ image' = image /\ report' = report
          /\ reply' = reply \/ reply' = [reply EXCEPT ![c] = None]
          /\ call[c] # "done"
          /\ call' = [call EXCEPT ![c] = "asked"] \/ call' = [call EXCEPT ![c] = "failed"]
      BY <2>1 DEF SendRequest, GetReportFails, Step
    <3> QED BY <3>1, ReportAssumption DEF TypeOK, Own, OwnNonce
  <2>2. ASSUME NEW c \in Calls, Answer(c)
        PROVE  Good
    <3> DEFINE t == [nonce |-> c, kid |-> signer, image |-> image,
                     audience |-> NodeAudience, exp |-> now + Life]
    <3>1. /\ image' = image /\ report' = report /\ call' = call
          /\ reply' = [reply EXCEPT ![c] = t] \/ reply' = [reply EXCEPT ![c] = Text]
      BY <2>2 DEF Answer
    <3>2. now + Life \in 0 .. (MaxTime + Life)
      BY BoundAssumption DEF TypeOK
    <3>3. t \in Tokens
      BY <3>2 DEF TypeOK, Tokens
    <3>4. t.nonce = c
      OBVIOUS
    <3> HIDE DEF t
    <3> QED BY <3>1, <3>3, <3>4, ReportAssumption DEF TypeOK, Own, OwnNonce
  <2>3. ASSUME NEW c \in Calls, Collect(c)
        PROVE  Good
    <3>1. /\ image' = image /\ reply[c] # None /\ call[c] = "asked"
          /\ report' = [report EXCEPT ![c] = reply[c]]
          /\ reply' = [reply EXCEPT ![c] = None]
          /\ call' = [call EXCEPT ![c] = "done"]
      BY <2>3 DEF Collect, Step
    <3> QED BY <3>1, ReportAssumption DEF TypeOK, Own, OwnNonce
  <2>4. ASSUME NEW i \in Images, Deploy(i)
        PROVE  Good
    BY <2>4, ReportAssumption DEF Deploy, TypeOK, Own, OwnNonce
  <2> QED BY <2>1, <2>2, <2>3, <2>4
<1>3. \A c \in Calls : check[c] # "none" => report'[c] = report[c]
  BY <1>2 DEF Own
<1>4. TypeOK'
  BY <1>1, <1>2, <1>3 DEF TypeOK, Checking
<1>5. Own'
  BY <1>1, <1>2 DEF Own, OwnNonce
<1>6. Window'
  BY <1>1 DEF Window
<1>7. AcceptedGenuine' /\ RefusedForCause'
  BY <1>1, <1>3 DEF AcceptedGenuine, RefusedForCause
<1> QED BY <1>4, <1>5, <1>6, <1>7

-----------------------------------------------------------------------------
\* One step of verify changes one check.
LEMMA VerifyStep ==
    ASSUME Inv, NEW c \in Calls, Verify(c)
    PROVE  Inv'
<1> USE DEF Inv
<1>1. /\ now' = now /\ signer' = signer /\ published' = published
      /\ image' = image /\ call' = call /\ reply' = reply /\ report' = report
  BY DEF Verify, DecodeHeader, GetConfiguration, GetKeySets, Decide, service, node
<1>2. /\ call[c] = "done"
      /\ \A d \in Calls \ {c} : /\ check'[d] = check[d] /\ skip'[d] = skip[d]
                                /\ keySets'[d] = keySets[d] /\ decided'[d] = decided[d]
                                /\ offered'[d] = offered[d] /\ steady'[d] = steady[d]
  BY DEF Verify, DecodeHeader, GetConfiguration, GetKeySets, Decide, Goto, history,
         TypeOK, Own
<1>3. /\ skip' \in [Calls -> BOOLEAN]
      /\ keySets' \in [Calls -> SUBSET Kids]
      /\ decided' \in [Calls -> 0 .. MaxTime]
      /\ offered' \in [Calls -> SUBSET Kids]
      /\ steady' \in [Calls -> SUBSET Kids]
  BY DEF Verify, DecodeHeader, GetConfiguration, GetKeySets, Decide, history, TypeOK
<1>4. /\ check' \in [Calls -> Checking \cup {"none", "accepted", "refused", "error"}]
      /\ check'[c] \in Checking => report[c] \in Tokens
      /\ check'[c] # "none"
  BY <1>2 DEF Verify, DecodeHeader, GetConfiguration, GetKeySets, Decide, Goto, TypeOK,
              Checking
<1>5. TypeOK'
  BY <1>1, <1>2, <1>3, <1>4 DEF TypeOK
<1>6. Own'
  BY <1>1, <1>2 DEF Own, OwnNonce
<1>7. /\ check'[c] \in Checking => published \subseteq offered'[c] /\ steady'[c] \subseteq published
      /\ check'[c] = "decide" => keySets'[c] \subseteq offered'[c] /\ steady'[c] \subseteq keySets'[c]
  BY DEF Verify, DecodeHeader, GetConfiguration, GetKeySets, Decide, Goto, history,
         TypeOK, Checking, Window
<1>8. Window'
  BY <1>1, <1>2, <1>7 DEF Window
<1>9. CASE Decide(c)
  <2> DEFINE t == report[c]
  <2>1. /\ check[c] = "decide" /\ decided'[c] = now
        /\ skip'[c] = skip[c] /\ keySets'[c] = keySets[c]
        /\ offered'[c] = offered[c] /\ steady'[c] = steady[c]
        /\ \/ Passes(c) /\ check'[c] = "accepted"
           \/ ~Passes(c) /\ check'[c] = "refused"
    <3>1. /\ check[c] = "decide" /\ decided' = [decided EXCEPT ![c] = now]
          /\ skip' = skip /\ keySets' = keySets /\ offered' = offered /\ steady' = steady
          /\ \/ Passes(c) /\ check' = [check EXCEPT ![c] = "accepted"]
             \/ ~Passes(c) /\ check' = [check EXCEPT ![c] = "refused"]
      BY <1>9 DEF Decide, Goto, history
    <3> QED BY <3>1 DEF TypeOK
  <2>2. t \in Tokens
    BY <2>1 DEF TypeOK, Checking
  <2>3. t.exp + Leeway \in Nat /\ now \in Nat /\ t.image \in Images
    BY <2>2, BoundAssumption DEF Tokens, TypeOK
  <2>4. t.kid \in steady[c] => t.kid \in keySets[c]
    BY <2>1 DEF Window
  <2>5. t.kid \in keySets[c] => t.kid \in offered[c]
    BY <2>1 DEF Window
  <2>6. t.image.reference = Golden.reference /\ t.image.digest = Golden.digest
        => t.image = Golden
    BY <2>3, ImageAssumption
  <2>7. ASSUME Passes(c)
        PROVE  /\ t.audience = Audience /\ t.kid \in offered'[c]
               /\ t.exp + Leeway >= decided'[c]
               /\ t.image.reference = Golden.reference
               /\ skip'[c] \/ t.image = Golden
    BY <2>1, <2>5, <2>6, <2>7 DEF Passes, FindKey, Decoded, GoldenValues
  <2>8. ASSUME ~Passes(c)
        PROVE  \/ t.exp + Leeway < decided'[c]
               \/ t.kid \notin steady'[c]
               \/ t.audience # Audience
               \/ t.image.reference # Golden.reference
               \/ t.image # Golden /\ ~skip'[c]
    BY <2>1, <2>3, <2>4, <2>8 DEF Passes, FindKey, Decoded, GoldenValues
  <2>9. AcceptedGenuine'
    BY <1>1, <1>2, <2>1, <2>2, <2>7 DEF AcceptedGenuine
  <2>10. RefusedForCause'
    BY <1>1, <1>2, <2>1, <2>8 DEF RefusedForCause
  <2> QED BY <1>5, <1>6, <1>8, <2>9, <2>10
<1>10. CASE ~Decide(c)
  <2>1. check'[c] # "accepted" /\ (check'[c] = "refused" => report[c] = Text)
    BY <1>10 DEF Verify, DecodeHeader, GetConfiguration, GetKeySets, Goto, TypeOK
  <2>2. AcceptedGenuine'
    BY <1>1, <1>2, <2>1 DEF AcceptedGenuine
  <2>3. RefusedForCause'
    BY <1>1, <1>2, <2>1, ReportAssumption DEF RefusedForCause
  <2> QED BY <1>5, <1>6, <1>8, <2>2, <2>3
<1> QED BY <1>9, <1>10

\* Time passes; the service renews or withdraws a key.
LEMMA ServiceStep ==
    ASSUME Inv, Tick \/ Renew \/ \E k \in Kids : Withdraw(k)
    PROVE  Inv'
<1> USE DEF Inv
<1>1. /\ image' = image /\ call' = call /\ reply' = reply /\ report' = report
      /\ check' = check /\ skip' = skip /\ keySets' = keySets /\ decided' = decided
  BY DEF Tick, Renew, Withdraw, node, verifier
<1>2. /\ now' \in 0 .. MaxTime
      /\ signer' \in published' /\ published' \subseteq Kids
      /\ offered' \in [Calls -> SUBSET Kids]
      /\ steady' \in [Calls -> SUBSET Kids]
  <2>1. CASE Tick
    BY <2>1, BoundAssumption DEF Tick, service, history, TypeOK
  <2>2. CASE Renew
    <3>1. signer + 1 \in Kids
      BY <2>2, BoundAssumption DEF Renew, TypeOK, Kids
    <3> QED BY <2>2, <3>1 DEF Renew, TypeOK
  <2>3. ASSUME NEW k \in Kids, Withdraw(k)
        PROVE  /\ now' \in 0 .. MaxTime
               /\ signer' \in published' /\ published' \subseteq Kids
               /\ offered' \in [Calls -> SUBSET Kids]
               /\ steady' \in [Calls -> SUBSET Kids]
    BY <2>3 DEF Withdraw, TypeOK
  <2> QED BY <2>1, <2>2, <2>3
<1>3. ASSUME NEW c \in Calls
      PROVE  /\ check[c] \notin Checking => offered'[c] = offered[c] /\ steady'[c] = steady[c]
             /\ check[c] \in Checking =>
                    /\ published' \subseteq offered'[c] /\ steady'[c] \subseteq published'
                    /\ offered[c] \subseteq offered'[c] /\ steady'[c] \subseteq steady[c]
  BY DEF Tick, Renew, Withdraw, service, history, TypeOK, Window
<1>4. TypeOK'
  BY <1>1, <1>2 DEF TypeOK
<1>5. Own'
  BY <1>1 DEF Own, OwnNonce
<1>6. Window'
  BY <1>1, <1>3 DEF Window, Checking
<1>7. AcceptedGenuine' /\ RefusedForCause'
  BY <1>1, <1>3 DEF AcceptedGenuine, RefusedForCause, Checking
<1> QED BY <1>4, <1>5, <1>6, <1>7

LEMMA Always == Spec => []Inv
<1>1. Inv /\ [Next]_vars => Inv'
  <2>1. CASE UNCHANGED vars
    BY <2>1 DEF vars, service, node, verifier, history, Inv, TypeOK, Own, OwnNonce, Window,
                AcceptedGenuine, RefusedForCause
  <2> QED BY <2>1, NodeStep, VerifyStep, ServiceStep DEF Next, GetReport
<1> QED BY <1>1, Start, PTL DEF Spec

\* Every variable keeps its type: only a token is checked beyond its header.
THEOREM TypeCorrect == Spec => []TypeOK
<1>1. Inv => TypeOK
  BY DEF Inv
<1> QED BY <1>1, Always, PTL

\* A call never gets the token of another call.
THEOREM NoncesOwn == Spec => []OwnNonce
<1>1. Inv => OwnNonce
  BY DEF Inv, Own
<1> QED BY <1>1, Always, PTL

\* What verify accepts is a token of the expected image, signed with a key that was
\* published during the check and not expired for longer than the library's leeway.
THEOREM AcceptsGenuine == Spec => []AcceptedGenuine
<1>1. Inv => AcceptedGenuine
  BY DEF Inv
<1> QED BY <1>1, Always, PTL

\* What verify refuses was not good throughout the check.
THEOREM RefusesForCause == Spec => []RefusedForCause
<1>1. Inv => RefusedForCause
  BY DEF Inv
<1> QED BY <1>1, Always, PTL
=============================================================================
