------------------------ MODULE TdxAttestationProofs ------------------------
(***************************************************************************)
(* Proofs about TdxAttestation for any calls, any number of security       *)
(* versions and of editions of the collateral.                             *)
(***************************************************************************)
EXTENDS TdxAttestation, SequenceTheorems, TLAPS

Edition == [revoked : 0 .. (MaxSvn + 1), advised : 0 .. (MaxSvn + 1)]

-----------------------------------------------------------------------------
(* Type correctness. *)

\* The numbers that the typed variables hold.
LEMMA Numbers ==
    ASSUME TypeOK
    PROVE  /\ svn \in Nat \ {0} /\ cached \in Nat \ {0} /\ cached <= Len(tcb)
           /\ Len(tcb) \in Nat \ {0} /\ DOMAIN tcb = 1 .. Len(tcb)
           /\ \A i \in 1 .. Len(tcb) : tcb[i] \in Edition /\ tcb[i].revoked \in Nat
           /\ \A c \in Calls : /\ quote[c] \in Nat
                               /\ used[c] \in 0 .. cached /\ start[c] \in 0 .. cached
<1> USE BoundAssumption
<1>1. tcb \in Seq(Edition) /\ Len(tcb) \in 1 .. MaxTcb /\ svn \in 1 .. MaxSvn
  BY DEF TypeOK, Edition
<1>2. \A i \in 1 .. Len(tcb) : tcb[i] \in Edition
  BY <1>1
<1>3. \A e \in Edition : e.revoked \in Nat
  BY DEF Edition
<1>4. Len(tcb) \in Nat \ {0} /\ DOMAIN tcb = 1 .. Len(tcb) /\ svn \in Nat \ {0}
  BY <1>1
<1>5. cached \in 1 .. Len(tcb) /\ quote \in [Calls -> 0 .. svn]
  BY DEF TypeOK
<1>6. used \in [Calls -> 0 .. cached] /\ start \in [Calls -> 0 .. cached]
  BY DEF TypeOK
<1>7. cached \in Nat \ {0} /\ cached <= Len(tcb)
  BY <1>4, <1>5
<1>8. \A c \in Calls : quote[c] \in Nat
  BY <1>4, <1>5
<1> QED BY <1>2, <1>3, <1>4, <1>6, <1>7, <1>8

\* Taking a report and a quote: the quote is of the platform's version.
LEMMA NodeTyped ==
    ASSUME TypeOK, NEW c \in Calls, GetReport(c)
    PROVE  TypeOK'
<1>1. UNCHANGED <<svn, tcb, cached, check, used, result, start>>
  BY DEF GetReport, GetTdxReport, GetQuote, collateral, verifier
<1>2. svn \in 0 .. svn /\ svn # 0
  BY Numbers
<1>3. call' \in [Calls -> {"idle", "reported", "done", "failed"}]
  BY DEF GetReport, GetTdxReport, GetQuote, Step, TypeOK
<1>4. quote' \in [Calls -> 0 .. svn]
  <2>1. quote' = quote \/ quote' = [quote EXCEPT ![c] = svn]
    BY DEF GetReport, GetTdxReport, GetQuote
  <2>2. quote \in [Calls -> 0 .. svn]
    BY DEF TypeOK
  <2> QED BY <1>2, <2>1, <2>2
<1>5. \A d \in Calls : call'[d] = "done" => quote'[d] # 0
  <2>1. \/ quote' = quote /\ call' = [call EXCEPT ![c] = "reported"]
        \/ quote' = quote /\ call' = [call EXCEPT ![c] = "failed"]
        \/ quote' = [quote EXCEPT ![c] = svn] /\ call' = [call EXCEPT ![c] = "done"]
    BY DEF GetReport, GetTdxReport, GetQuote, Step
  <2>2. /\ DOMAIN quote = Calls /\ DOMAIN call = Calls
        /\ \A d \in Calls : call[d] = "done" => quote[d] # 0
    BY DEF TypeOK
  <2> QED BY <1>2, <2>1, <2>2
<1> QED BY <1>1, <1>3, <1>4, <1>5 DEF TypeOK

\* A check: it begins with, and goes by, the edition that is in the cache.
LEMMA VerifierTyped ==
    ASSUME TypeOK, NEW c \in Calls, Verify(c)
    PROVE  TypeOK'
<1>1. UNCHANGED <<svn, tcb, cached, call, quote>>
  BY DEF Verify, GetSupplementalSize, GetCollateral, VerifyQuote, collateral, node
<1>2. check' \in [Calls -> {"none", "collateral", "verify", "accepted", "refused", "error"}]
  BY DEF Verify, GetSupplementalSize, GetCollateral, VerifyQuote, Goto, TypeOK
<1>3. used' \in [Calls -> 0 .. cached] /\ start' \in [Calls -> 0 .. cached]
  <2>1. /\ used' = used \/ used' = [used EXCEPT ![c] = cached]
        /\ start' = start \/ start' = [start EXCEPT ![c] = cached]
    BY DEF Verify, GetSupplementalSize, GetCollateral, VerifyQuote
  <2>2. used \in [Calls -> 0 .. cached] /\ start \in [Calls -> 0 .. cached]
    BY DEF TypeOK
  <2>3. cached \in 0 .. cached
    BY Numbers
  <2> QED BY <2>1, <2>2, <2>3
<1>4. result' \in [Calls -> Current \cup Outdated \cup Unnamed \cup {"REVOKED", "none"}]
  <2>1. \/ result' = result
        \/ \E s, e : \E r \in Results(s, e) : result' = [result EXCEPT ![c] = r]
    BY DEF Verify, GetSupplementalSize, GetCollateral, VerifyQuote
  <2>2. \A s, e : Results(s, e) \subseteq Current \cup Outdated \cup Unnamed \cup {"REVOKED"}
    BY DEF Results
  <2>3. result' = result \/ \E r \in Current \cup Outdated \cup Unnamed \cup {"REVOKED"} :
                                result' = [result EXCEPT ![c] = r]
    BY <2>1, <2>2
  <2>4. result \in [Calls -> Current \cup Outdated \cup Unnamed \cup {"REVOKED", "none"}]
    BY DEF TypeOK
  <2> QED BY <2>3, <2>4
<1> QED BY <1>1, <1>2, <1>3, <1>4 DEF TypeOK

\* An edition joins the others, of which it is the last.
LEMMA Issued ==
    ASSUME TypeOK, Issue
    PROVE  /\ Len(tcb') = Len(tcb) + 1 /\ Len(tcb') <= MaxTcb
           /\ tcb' \in Seq(Edition)
           /\ \A i \in 1 .. Len(tcb) : tcb'[i] = tcb[i]
           /\ tcb'[Len(tcb) + 1].revoked >= tcb[Len(tcb)].revoked
           /\ UNCHANGED <<svn, cached, node, verifier>>
<1>1. PICK r, a \in 0 .. (MaxSvn + 1) :
        /\ r >= tcb[Len(tcb)].revoked
        /\ tcb' = Append(tcb, [revoked |-> r, advised |-> a])
  BY DEF Issue
<1>2. [revoked |-> r, advised |-> a] \in Edition /\ tcb \in Seq(Edition)
  BY DEF Edition, TypeOK
<1> QED BY <1>1, <1>2, AppendProperties, BoundAssumption DEF Issue, TypeOK

\* The steps around: what was in range stays so as the ranges grow.
LEMMA AroundTyped ==
    ASSUME TypeOK, Update \/ Issue \/ Refresh
    PROVE  TypeOK'
<1>1. UNCHANGED <<call, quote, check, used, result, start>>
  BY DEF Update, Issue, Refresh, node, verifier
<1>2. /\ svn' \in 1 .. MaxSvn /\ svn <= svn'
      /\ tcb' \in Seq(Edition) /\ Len(tcb') \in 1 .. MaxTcb
      /\ cached' \in 1 .. Len(tcb') /\ cached <= cached'
  <2> USE BoundAssumption
  <2>0. /\ svn \in 1 .. MaxSvn /\ tcb \in Seq(Edition) /\ Len(tcb) \in 1 .. MaxTcb
        /\ cached \in 1 .. Len(tcb)
    BY DEF TypeOK, Edition
  <2>1. CASE Update
    BY <2>0, <2>1 DEF Update, collateral
  <2>2. CASE Issue
    <3>1. tcb' \in Seq(Edition) /\ Len(tcb') = Len(tcb) + 1 /\ Len(tcb') <= MaxTcb
      BY <2>2, Issued
    <3>2. UNCHANGED <<svn, cached>>
      BY <2>2 DEF Issue
    <3> QED BY <2>0, <3>1, <3>2
  <2>3. CASE Refresh
    <3>1. UNCHANGED <<svn, tcb>> /\ cached' = Len(tcb)
      BY <2>3 DEF Refresh
    <3> QED BY <2>0, <3>1
  <2> QED BY <2>1, <2>2, <2>3
<1>3. 0 .. svn \subseteq 0 .. svn' /\ 0 .. cached \subseteq 0 .. cached'
  BY <1>2, Numbers, BoundAssumption
<1>4. quote \in [Calls -> 0 .. svn'] /\ used \in [Calls -> 0 .. cached']
      /\ start \in [Calls -> 0 .. cached']
  BY <1>3 DEF TypeOK
<1> QED BY <1>1, <1>2, <1>4 DEF TypeOK, Edition

\* Every variable keeps its type: no call is done without a quote, and no check
\* uses an edition that the cache never had.
THEOREM TypeCorrect == Spec => []TypeOK
<1>1. Init => TypeOK
  <2> SUFFICES ASSUME Init PROVE TypeOK
    OBVIOUS
  <2>1. tcb \in Seq(Edition) /\ Len(tcb) = 1
    BY BoundAssumption DEF Init, Edition
  <2> QED BY <2>1, BoundAssumption DEF Init, TypeOK, Edition
<1>2. TypeOK /\ [Next]_vars => TypeOK'
  <2>1. TypeOK /\ UNCHANGED vars => TypeOK'
    BY DEF TypeOK, vars, collateral, node, verifier
  <2> QED BY <2>1, NodeTyped, VerifierTyped, AroundTyped DEF Next
<1> QED BY <1>1, <1>2, PTL DEF Spec

-----------------------------------------------------------------------------
(* What a check goes by.                                                   *)

\* What was revoked stays so in every later edition.
NeverUnrevoked ==
    \A i, j \in DOMAIN tcb : i <= j => tcb[i].revoked <= tcb[j].revoked

\* A check is of a quote that was made, by an edition at least as new as the one in
\* the cache when the check began, and its verdict is what that edition says, but for the
\* results that say nothing of a version, which are all refusals.
Judged ==
    \A c \in Calls :
        /\ check[c] # "none" => call[c] = "done" /\ start[c] \in 1 .. Len(tcb)
        /\ check[c] \in {"verify", "accepted", "refused"} =>
             used[c] \in start[c] .. Len(tcb)
        /\ check[c] = "accepted" => quote[c] >= tcb[used[c]].revoked
        /\ check[c] = "refused" => quote[c] < tcb[used[c]].revoked \/ result[c] \in Unnamed

\* A result that does not end the check clears the version of the edition's
\* revocation; one that does is a revocation, or says nothing of the version.
LEMMA ResultsSayWhy ==
    ASSUME NEW s \in Nat, NEW e, e.revoked \in Nat, NEW r \in Results(s, e)
    PROVE  /\ ~Terminal(r) => s >= e.revoked
           /\ Terminal(r) => s < e.revoked \/ r \in Unnamed
<1>1. \A q \in Unnamed \cup {"REVOKED"} : Terminal(q)
  BY DEF Terminal, Unnamed, Current, Outdated
<1>2. CASE r \in Unnamed
  BY <1>1, <1>2
<1>3. CASE s < e.revoked /\ r = "REVOKED"
  BY <1>1, <1>3
<1>4. CASE ~(s < e.revoked) /\ r \in Current \cup Outdated
  BY <1>4 DEF Terminal
<1> QED BY <1>2, <1>3, <1>4 DEF Results

\* A step of a check: what changes is that check alone.
LEMMA JudgedVerifier ==
    ASSUME TypeOK, Judged, NEW c \in Calls, Verify(c)
    PROVE  Judged'
<1> USE DEF Goto
<1>1. /\ UNCHANGED <<svn, tcb, cached, call, quote>>
      /\ \A d \in Calls : d # c =>
           /\ check'[d] = check[d] /\ used'[d] = used[d]
           /\ result'[d] = result[d] /\ start'[d] = start[d]
  BY DEF Verify, GetSupplementalSize, GetCollateral, VerifyQuote, collateral, node, TypeOK
<1>2. SUFFICES
        /\ check'[c] # "none" => call[c] = "done" /\ start'[c] \in 1 .. Len(tcb)
        /\ check'[c] \in {"verify", "accepted", "refused"} =>
             used'[c] \in start'[c] .. Len(tcb)
        /\ check'[c] = "accepted" => quote[c] >= tcb[used'[c]].revoked
        /\ check'[c] = "refused" => quote[c] < tcb[used'[c]].revoked \/ result'[c] \in Unnamed
  BY <1>1 DEF Judged
<1>3. CASE GetSupplementalSize(c)
  BY <1>3, Numbers DEF GetSupplementalSize, TypeOK
<1>4. CASE GetCollateral(c)
  BY <1>4, Numbers DEF GetCollateral, TypeOK, Judged
<1>5. CASE VerifyQuote(c)
  <2>1. /\ check[c] = "verify" /\ used' = used /\ start' = start
        /\ \/ \E r \in Results(quote[c], tcb[used[c]]) :
                /\ result'[c] = r
                /\ \/ ~Terminal(r) /\ check'[c] = "accepted"
                   \/ Terminal(r) /\ check'[c] = "refused"
           \/ check'[c] = "error"
    BY <1>5 DEF VerifyQuote, TypeOK
  <2>2. used[c] \in 1 .. Len(tcb) /\ tcb[used[c]].revoked \in Nat /\ quote[c] \in Nat
    <3>1. start[c] \in Nat /\ start[c] # 0 /\ used[c] \in start[c] .. Len(tcb)
      BY <2>1, Numbers DEF Judged
    <3> QED BY <3>1, Numbers
  <2>3. \/ check'[c] = "error"
        \/ check'[c] = "accepted" /\ quote[c] >= tcb[used[c]].revoked
        \/ /\ check'[c] = "refused"
           /\ quote[c] < tcb[used[c]].revoked \/ result'[c] \in Unnamed
    BY <2>1, <2>2, ResultsSayWhy
  <2> QED BY <2>1, <2>3 DEF Judged
<1> QED BY <1>3, <1>4, <1>5 DEF Verify

LEMMA JudgedStep ==
    ASSUME TypeOK, NeverUnrevoked, Judged, [Next]_vars
    PROVE  NeverUnrevoked' /\ Judged'
<1>1. ASSUME NEW c \in Calls, GetReport(c) PROVE NeverUnrevoked' /\ Judged'
  <2>1. /\ UNCHANGED <<tcb, check, used, result, start>> /\ call[c] # "done"
        /\ \A d \in Calls : d # c => call'[d] = call[d] /\ quote'[d] = quote[d]
    BY <1>1 DEF GetReport, GetTdxReport, GetQuote, Step, collateral, verifier, TypeOK
  <2>2. check[c] = "none"
    BY <2>1 DEF Judged
  <2> QED BY <2>1, <2>2 DEF NeverUnrevoked, Judged
<1>2. ASSUME NEW c \in Calls, Verify(c) PROVE NeverUnrevoked' /\ Judged'
  <2>1. tcb' = tcb
    BY <1>2 DEF Verify, GetSupplementalSize, GetCollateral, VerifyQuote, collateral
  <2> QED BY <1>2, <2>1, JudgedVerifier DEF NeverUnrevoked
<1>3. CASE Update \/ Refresh
  <2>1. UNCHANGED <<tcb, node, verifier>>
    BY <1>3 DEF Update, Refresh, collateral
  <2> QED BY <2>1 DEF NeverUnrevoked, Judged, node, verifier
<1>4. CASE Issue
  <2>1. /\ \A i \in 1 .. Len(tcb) : tcb'[i] = tcb[i]
        /\ Len(tcb) \in Nat \ {0} /\ DOMAIN tcb = 1 .. Len(tcb)
        /\ DOMAIN tcb' = 1 .. (Len(tcb) + 1) /\ Len(tcb') = Len(tcb) + 1
        /\ tcb'[Len(tcb) + 1].revoked >= tcb[Len(tcb)].revoked
        /\ UNCHANGED <<node, verifier>>
    BY <1>4, Issued, BoundAssumption DEF TypeOK
  <2>2. /\ \A i \in 1 .. Len(tcb) : tcb[i].revoked \in Nat
        /\ tcb'[Len(tcb) + 1].revoked \in Nat
    <3>1. tcb' \in Seq(Edition) /\ tcb'[Len(tcb) + 1] \in Edition
      BY <1>4, <2>1, Issued
    <3> QED BY <3>1, Numbers, BoundAssumption DEF Edition
  <2>3. NeverUnrevoked'
    <3>1. SUFFICES ASSUME NEW i \in 1 .. (Len(tcb) + 1), NEW j \in 1 .. (Len(tcb) + 1), i <= j
                   PROVE  tcb'[i].revoked <= tcb'[j].revoked
      BY <2>1 DEF NeverUnrevoked
    <3>2. CASE j <= Len(tcb)
      BY <2>1, <3>1, <3>2 DEF NeverUnrevoked
    <3>3. CASE j = Len(tcb) + 1 /\ i <= Len(tcb)
      <4>1. tcb[i].revoked <= tcb[Len(tcb)].revoked
        BY <2>1, <3>3 DEF NeverUnrevoked
      <4> QED BY <2>1, <2>2, <3>3, <4>1
    <3>4. CASE i = Len(tcb) + 1
      BY <2>1, <2>2, <3>1, <3>4
    <3> QED BY <2>1, <3>1, <3>2, <3>3, <3>4
  <2>4. Judged'
    BY <2>1 DEF Judged, node, verifier
  <2> QED BY <2>3, <2>4
<1>5. CASE UNCHANGED vars
  BY <1>5 DEF vars, collateral, node, verifier, NeverUnrevoked, Judged
<1> QED BY <1>1, <1>2, <1>3, <1>4, <1>5 DEF Next

LEMMA AlwaysJudged == Spec => [](NeverUnrevoked /\ Judged)
<1>1. Init => NeverUnrevoked /\ Judged
  BY DEF Init, NeverUnrevoked, Judged
<1>2. TypeOK /\ (NeverUnrevoked /\ Judged) /\ [Next]_vars => (NeverUnrevoked /\ Judged)'
  BY JudgedStep
<1> QED BY <1>1, <1>2, TypeCorrect, PTL DEF Spec

-----------------------------------------------------------------------------
(* The theorems.                                                           *)

\* A platform whose version was revoked in the collateral the cache had when the
\* check began is not accepted, whatever is issued and refreshed during the check.
THEOREM HonoursRevocations == Spec => []RevocationHonoured
<1>1. TypeOK /\ NeverUnrevoked /\ Judged => RevocationHonoured
  <2> SUFFICES ASSUME TypeOK, NeverUnrevoked, Judged, NEW c \in Calls, check[c] = "accepted"
               PROVE  quote[c] >= tcb[start[c]].revoked
    BY DEF RevocationHonoured
  <2>1. /\ start[c] \in 1 .. Len(tcb) /\ used[c] \in 1 .. Len(tcb) /\ start[c] <= used[c]
        /\ quote[c] >= tcb[used[c]].revoked
    BY Numbers DEF Judged
  <2>2. tcb[start[c]].revoked <= tcb[used[c]].revoked
    BY <2>1, Numbers DEF NeverUnrevoked
  <2>3. /\ tcb[start[c]].revoked \in Nat /\ tcb[used[c]].revoked \in Nat /\ quote[c] \in Nat
    BY <2>1, Numbers
  <2> QED BY <2>1, <2>2, <2>3
<1> QED BY <1>1, TypeCorrect, AlwaysJudged, PTL

\* A refusal means that the version is revoked, in every edition since the one the
\* check went by, or that the library's result was one of those that say nothing of
\* the version: no edition issued, advice given or refresh made during the check makes
\* a result that names the version's standing refuse it for less.
THEOREM RefusesForCause == Spec => []RefusedForCause
<1>1. TypeOK /\ NeverUnrevoked /\ Judged => RefusedForCause
  <2> SUFFICES ASSUME TypeOK, NeverUnrevoked, Judged, NEW c \in Calls, check[c] = "refused",
                      result[c] \notin Unnamed
               PROVE  quote[c] < tcb[Len(tcb)].revoked
    BY DEF RefusedForCause
  <2>1. used[c] \in 1 .. Len(tcb) /\ quote[c] < tcb[used[c]].revoked
    BY Numbers DEF Judged
  <2>2. tcb[used[c]].revoked <= tcb[Len(tcb)].revoked
    BY <2>1, Numbers DEF NeverUnrevoked
  <2>3. /\ tcb[Len(tcb)].revoked \in Nat /\ tcb[used[c]].revoked \in Nat /\ quote[c] \in Nat
    BY <2>1, Numbers
  <2> QED BY <2>1, <2>2, <2>3
<1> QED BY <1>1, TypeCorrect, AlwaysJudged, PTL
=============================================================================
