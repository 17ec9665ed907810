--------------------------- MODULE TdxAttestation ---------------------------
(***************************************************************************)
(* Attestation reports on AliCloud: the node takes a TDX quote             *)
(* (tee/alicloud.rs, tdx-attest-rs), which names the security version of   *)
(* its platform; a verifier (alicloud_verifier.rs) judges it by collateral *)
(* from a cache, while platforms are updated, versions revoked and the     *)
(* cache refreshed.  Whether collateral has expired changes nothing but a  *)
(* log message, and is left out.                                           *)
(***************************************************************************)
EXTENDS Naturals, Sequences

CONSTANTS
    Calls,   \* requests for a report, and their checks
    MaxSvn,  \* bound on security versions
    MaxTcb,  \* bound on the editions of the collateral
    Faults   \* {"device", "library"} or fewer

ASSUME BoundAssumption == MaxSvn \in Nat \ {0} /\ MaxTcb \in Nat \ {0}
ASSUME FaultAssumption == Faults \subseteq {"device", "library"}

VARIABLES
    svn,     \* the security version of the node's platform
    tcb,     \* the editions: versions below "revoked" and below "advised"
    cached,  \* the edition in the cache
    call,    \* where internal_get_report is, by call
    quote,   \* the security version in the quote it returned, or 0
    check,   \* where ecdsa_quote_verification is, by call
    used,    \* the edition it got, or 0
    result,  \* quote_verification_result, or "none"
    start    \* history: the edition in the cache when the check began, or 0

node == <<call, quote>>
verifier == <<check, used, result, start>>
collateral == <<tcb, cached>>
vars == <<svn, collateral, node, verifier>>

Init ==
    /\ svn = 1
    /\ tcb = <<[revoked |-> 0, advised |-> 0]>>
    /\ cached = 1
    /\ call = [c \in Calls |-> "idle"]
    /\ quote = [c \in Calls |-> 0]
    /\ check = [c \in Calls |-> "none"]
    /\ used = [c \in Calls |-> 0]
    /\ result = [c \in Calls |-> "none"]
    /\ start = [c \in Calls |-> 0]

-----------------------------------------------------------------------------
(* internal_get_report *)

Step(c, from, to) == call[c] = from /\ call' = [call EXCEPT ![c] = to]

\* tdx_att_get_report; its result is only looked at for success.
GetTdxReport(c) ==
    /\ \/ Step(c, "idle", "reported")
       \/ "device" \in Faults /\ Step(c, "idle", "failed")
    /\ UNCHANGED <<svn, quote, collateral, verifier>>

\* Mutant: success is believed although there is no buffer.
GetQuoteUnchecked(c) ==
    /\ \/ Step(c, "reported", "done") /\ quote' = [quote EXCEPT ![c] = svn]
       \/ "device" \in Faults /\ Step(c, "reported", "done") /\ UNCHANGED quote
    /\ UNCHANGED <<svn, collateral, verifier>>

\* tdx_att_get_quote: an error, or a panic when the library reports success
\* without a buffer.
GetQuote(c) ==
    /\ \/ Step(c, "reported", "done") /\ quote' = [quote EXCEPT ![c] = svn]
       \/ "device" \in Faults /\ Step(c, "reported", "failed") /\ UNCHANGED quote
    /\ UNCHANGED <<svn, collateral, verifier>>

-----------------------------------------------------------------------------
(* AliCloudVerifier::verify, of the report of call c. *)

Goto(c, from, to) == check[c] = from /\ check' = [check EXCEPT ![c] = to]

\* hex::decode and tee_get_supplemental_data_version_and_size; a size that
\* differs only means that no supplemental data is asked for.
GetSupplementalSize(c) ==
    /\ call[c] = "done"
    /\ \/ Goto(c, "none", "collateral")
       \/ "library" \in Faults /\ Goto(c, "none", "error")
    /\ start' = [start EXCEPT ![c] = cached]
    /\ UNCHANGED <<svn, used, result, collateral, node>>

\* Mutant: the collateral of an earlier check, if there is one, serves again.
GetCollateralKept(c) ==
    /\ Goto(c, "collateral", "verify")
    /\ \/ used' = [used EXCEPT ![c] = cached]
       \/ \E d \in Calls : used[d] # 0 /\ used' = [used EXCEPT ![c] = used[d]]
    /\ UNCHANGED <<svn, result, start, collateral, node>>

\* tee_qv_get_collateral
GetCollateral(c) ==
    /\ \/ Goto(c, "collateral", "verify") /\ used' = [used EXCEPT ![c] = cached]
       \/ "library" \in Faults /\ Goto(c, "collateral", "error") /\ UNCHANGED used
    /\ UNCHANGED <<svn, result, start, collateral, node>>

\* The results of tee_verify_quote that say of a version that it is not revoked,
\* whether or not a newer one is advised.
Current  == {"OK", "CONFIG_NEEDED", "SW_HARDENING_NEEDED", "CONFIG_AND_SW_HARDENING_NEEDED"}
Outdated == {"OUT_OF_DATE", "OUT_OF_DATE_CONFIG_NEEDED"}

\* Those that may say anything: the library could not tell, or answers with a value
\* that the match has no arm for but `_`, as another edition of it may.
Unnamed == {"UNSPECIFIED", "OTHER"}

\* tee_verify_quote, for a quote whose signature is the platform's (of another it is
\* "INVALID_SIGNATURE").
Results(s, edition) ==
    Unnamed \cup (IF s < edition.revoked THEN {"REVOKED"}
                 ELSE IF s < edition.advised THEN Outdated ELSE Current)

\* Mutant: only a platform that is up to date passes.
TerminalStrict(r) == r \notin Current

\* The results that end in an error; the others are logged.
Terminal(r) == r \notin Current \cup Outdated

VerifyQuote(c) ==
    /\ check[c] = "verify"
    /\ \/ \E r \in Results(quote[c], tcb[used[c]]) :
            /\ result' = [result EXCEPT ![c] = r]
            /\ \/ ~Terminal(r) /\ Goto(c, "verify", "accepted")
               \/ Terminal(r) /\ Goto(c, "verify", "refused")
       \/ "library" \in Faults /\ Goto(c, "verify", "error") /\ UNCHANGED result
    /\ UNCHANGED <<svn, used, start, collateral, node>>

-----------------------------------------------------------------------------
(* Around them. *)

\* The node's platform is updated.
Update ==
    /\ svn < MaxSvn
    /\ svn' = svn + 1
    /\ UNCHANGED <<collateral, node, verifier>>

\* Intel issues collateral; what was revoked or advised against stays so.
Issue ==
    /\ Len(tcb) < MaxTcb
    /\ \E r, a \in 0 .. (MaxSvn + 1) :
          /\ r >= tcb[Len(tcb)].revoked /\ a >= tcb[Len(tcb)].advised /\ a >= r
          /\ tcb' = Append(tcb, [revoked |-> r, advised |-> a])
    /\ UNCHANGED <<svn, cached, node, verifier>>

\* The cache fetches it.
Refresh ==
    /\ cached' = Len(tcb)
    /\ UNCHANGED <<svn, tcb, node, verifier>>

GetReport(c) == GetTdxReport(c) \/ GetQuote(c)
Verify(c) == GetSupplementalSize(c) \/ GetCollateral(c) \/ VerifyQuote(c)

Next ==
    \/ \E c \in Calls : GetReport(c) \/ Verify(c)
    \/ Update \/ Issue \/ Refresh

Spec == Init /\ [][Next]_vars

-----------------------------------------------------------------------------
(* Properties. *)

\* The type of every variable.
TypeOK ==
    /\ svn \in 1 .. MaxSvn
    /\ tcb \in Seq([revoked : 0 .. (MaxSvn + 1), advised : 0 .. (MaxSvn + 1)])
    /\ Len(tcb) \in 1 .. MaxTcb
    /\ cached \in 1 .. Len(tcb)
    /\ call \in [Calls -> {"idle", "reported", "done", "failed"}]
    /\ quote \in [Calls -> 0 .. svn]
    /\ check \in [Calls -> {"none", "collateral", "verify", "accepted", "refused", "error"}]
    /\ used \in [Calls -> 0 .. cached]
    /\ result \in [Calls -> Current \cup Outdated \cup Unnamed \cup {"REVOKED", "none"}]
    /\ start \in [Calls -> 0 .. cached]
    /\ \A c \in Calls : call[c] = "done" => quote[c] # 0

\* A revocation that reached the cache before a check began is honoured by it.
RevocationHonoured ==
    \A c \in Calls : check[c] = "accepted" => quote[c] >= tcb[start[c]].revoked

\* A check that the library answers with one of the results it names for versions
\* refuses only a version that is revoked, in the latest collateral too, not one
\* older than advised.  Of what the library could not tell, or tells in a value the
\* match does not name, every quote is refused.
RefusedForCause ==
    \A c \in Calls : check[c] = "refused" =>
        quote[c] < tcb[Len(tcb)].revoked \/ result[c] \in Unnamed
=============================================================================
