--------------------------- MODULE GcpAttestation ---------------------------
(***************************************************************************)
(* Attestation reports on GCP Confidential Space, from the node that asks  *)
(* for one (tee/gcp.rs) to the verifier that checks it (gcp_verifier.rs).  *)
(* A report is a token that the attestation service signs.  Its keys are   *)
(* renewed and withdrawn, tokens expire and the node's image is replaced   *)
(* while requests and checks are under way.                                *)
(***************************************************************************)
EXTENDS Naturals

CONSTANTS
    Calls,       \* requests for a report, each with its nonce, and their checks
    Images,      \* container images, [reference |-> ..., digest |-> ...]
    Golden,      \* the image the verifier expects
    NodeAudience, Audience, \* AIZEL_DEFAULT_AUDIENCE; GcpVerifier.audience
    MaxKid,      \* bound on the key ids of the service
    Life,        \* life of a token
    Leeway,      \* leeway of jsonwebtoken's Validation
    MaxTime,     \* bound on time
    None,
    Text,        \* the body of a response that is no token
    Faults       \* {"socket", "text", "network"} or fewer

ASSUME ImageAssumption ==
    /\ Images # {}
    /\ \A i \in Images \cup {Golden} : i = [reference |-> i.reference, digest |-> i.digest]
ASSUME BoundAssumption ==
    MaxKid \in Nat \ {0} /\ Life \in Nat /\ Leeway \in Nat /\ MaxTime \in Nat
ASSUME FaultAssumption == Faults \subseteq {"socket", "text", "network"}

Kids == 1 .. MaxKid

Tokens == [nonce : Calls, kid : Kids, audience : {NodeAudience}, image : Images,
           exp : 0 .. (MaxTime + Life)]

ASSUME ReportAssumption == None \notin Tokens \cup {Text} /\ Text \notin Tokens

VARIABLES
    now,        \* the time
    image,      \* the image the node runs
    signer,     \* the key the service signs with
    published,  \* the key ids at jwks_uri
    call,       \* where internal_get_report is, by call
    reply,      \* what its connection carries
    report,     \* what it returned
    check,      \* where verify is, by call
    skip,       \* its argument skip_verify_image_digest
    keySets,    \* the key ids it fetched
    decided,    \* history: the time at which verify returned
    offered,    \* history: the keys published at some time of the check
    steady      \* history: the keys published throughout the check

service == <<signer, published>>
node == <<image, call, reply, report>>
verifier == <<check, skip, keySets, decided>>
history == <<offered, steady>>
vars == <<now, service, node, verifier, history>>

Init ==
    /\ now = 0
    /\ image \in Images
    /\ signer = 1 /\ published = {1}
    /\ call = [c \in Calls |-> "idle"]
    /\ reply = [c \in Calls |-> None]
    /\ report = [c \in Calls |-> None]
    /\ check = [c \in Calls |-> "none"]
    /\ skip = [c \in Calls |-> FALSE]
    /\ keySets = [c \in Calls |-> {}]
    /\ decided = [c \in Calls |-> 0]
    /\ offered = [c \in Calls |-> {}]
    /\ steady = [c \in Calls |-> {}]

-----------------------------------------------------------------------------
(* internal_get_report: a connection of its own for each call. *)

Step(c, from, to) == call[c] = from /\ call' = [call EXCEPT ![c] = to]

\* UnixStream::connect, handshake and send_request; nothing is kept between them.
SendRequest(c) ==
    /\ Step(c, "idle", "asked")
    /\ UNCHANGED <<now, image, reply, report, service, verifier, history>>

\* The container launcher's answer: a token, or an error in words.
Answer(c) ==
    /\ call[c] = "asked"
    /\ reply[c] = None
    /\ \/ reply' = [reply EXCEPT ![c] = [nonce |-> c, kid |-> signer, image |-> image,
                                         audience |-> NodeAudience, exp |-> now + Life]]
       \/ "text" \in Faults /\ reply' = [reply EXCEPT ![c] = Text]
    /\ UNCHANGED <<now, image, call, report, service, verifier, history>>

\* Mutant: all calls share a connection and take the first response on it.
CollectAny(c) ==
    \E d \in Calls :
        /\ reply[d] # None
        /\ Step(c, "asked", "done")
        /\ report' = [report EXCEPT ![c] = reply[d]]
        /\ reply' = [reply EXCEPT ![d] = None]
        /\ UNCHANGED <<now, image, service, verifier, history>>

\* The body of the response, whatever its status.
Collect(c) ==
    /\ reply[c] # None
    /\ Step(c, "asked", "done")
    /\ report' = [report EXCEPT ![c] = reply[c]]
    /\ reply' = [reply EXCEPT ![c] = None]
    /\ UNCHANGED <<now, image, service, verifier, history>>

\* The socket fails in one of the calls above.
GetReportFails(c) ==
    /\ "socket" \in Faults
    /\ call[c] \in {"idle", "asked"}
    /\ call' = [call EXCEPT ![c] = "failed"]
    /\ reply' = [reply EXCEPT ![c] = None]
    /\ UNCHANGED <<now, image, report, service, verifier, history>>

-----------------------------------------------------------------------------
(* GcpVerifier::verify, of the report of call c. *)

Checking == {"config", "keys", "decide"}

Goto(c, from, to) == check[c] = from /\ check' = [check EXCEPT ![c] = to]

\* Mutant: the header is not looked at.
DecodeHeaderAny(c) ==
    /\ call[c] = "done"
    /\ Goto(c, "none", "config")
    /\ \E b \in BOOLEAN : skip' = [skip EXCEPT ![c] = b]
    /\ offered' = [offered EXCEPT ![c] = published]
    /\ steady' = [steady EXCEPT ![c] = published]
    /\ UNCHANGED <<now, service, node, keySets, decided>>

\* decode_header; a token's header has algorithm RS256 and a kid.
DecodeHeader(c) ==
    /\ call[c] = "done"
    /\ \/ report[c] # Text /\ Goto(c, "none", "config")
       \/ report[c] = Text /\ Goto(c, "none", "refused")
    /\ \E b \in BOOLEAN : skip' = [skip EXCEPT ![c] = b]
    /\ offered' = [offered EXCEPT ![c] = published]
    /\ steady' = [steady EXCEPT ![c] = published]
    /\ UNCHANGED <<now, service, node, keySets, decided>>

\* get_openid_configuration
GetConfiguration(c) ==
    /\ \/ Goto(c, "config", "keys")
       \/ "network" \in Faults /\ Goto(c, "config", "error")
    /\ UNCHANGED <<now, service, node, skip, keySets, decided, history>>

\* Mutant: the key sets of another check, if there are any, are used again.
GetKeySetsCached(c) ==
    /\ Goto(c, "keys", "decide")
    /\ \/ keySets' = [keySets EXCEPT ![c] = published]
       \/ \E d \in Calls : keySets[d] # {} /\ keySets' = [keySets EXCEPT ![c] = keySets[d]]
    /\ UNCHANGED <<now, service, node, skip, decided, history>>

\* get_json_web_key_sets
GetKeySets(c) ==
    /\ \/ Goto(c, "keys", "decide") /\ keySets' = [keySets EXCEPT ![c] = published]
       \/ "network" \in Faults /\ Goto(c, "keys", "error") /\ UNCHANGED keySets
    /\ UNCHANGED <<now, service, node, skip, decided, history>>

\* Mutant: the newest key is taken, whatever the kid.
FindNewest(t, kids) == t.kid \in kids /\ \A k \in kids : k <= t.kid

\* find_jwt_key_set
FindKey(t, kids) == t.kid \in kids

\* decode: the signature, the audience and the expiry; the issuer is always that
\* of the service.
Decoded(t) == t.audience = Audience /\ t.exp + Leeway >= now

\* The comparison with the golden values.
GoldenValues(c, t) ==
    /\ t.image.reference = Golden.reference
    /\ skip[c] \/ t.image.digest = Golden.digest

Passes(c) ==
    FindKey(report[c], keySets[c]) /\ Decoded(report[c]) /\ GoldenValues(c, report[c])

Decide(c) ==
    /\ check[c] = "decide"
    /\ \/ Passes(c) /\ Goto(c, "decide", "accepted")
       \/ ~Passes(c) /\ Goto(c, "decide", "refused")
    /\ decided' = [decided EXCEPT ![c] = now]
    /\ UNCHANGED <<now, service, node, skip, keySets, history>>

-----------------------------------------------------------------------------
(* Around them. *)

Tick ==
    /\ now < MaxTime
    /\ now' = now + 1
    /\ UNCHANGED <<service, node, verifier, history>>

\* The service takes a new key.
Renew ==
    /\ signer < MaxKid
    /\ signer' = signer + 1
    /\ published' = published \cup {signer'}
    /\ offered' = [c \in Calls |->
                     IF check[c] \in Checking THEN offered[c] \cup {signer'} ELSE offered[c]]
    /\ UNCHANGED <<now, node, verifier, steady>>

\* It takes an old one from the list.
Withdraw(k) ==
    /\ k \in published \ {signer}
    /\ published' = published \ {k}
    /\ steady' = [c \in Calls |->
                    IF check[c] \in Checking THEN steady[c] \ {k} ELSE steady[c]]
    /\ UNCHANGED <<now, signer, node, verifier, offered>>

\* The node is deployed anew, with image i; calls under way are lost.
Deploy(i) ==
    /\ i # image
    /\ image' = i
    /\ call' = [c \in Calls |->
                  IF call[c] = "asked" THEN "failed" ELSE call[c]]
    /\ reply' = [c \in Calls |-> None]
    /\ UNCHANGED <<now, report, service, verifier, history>>

GetReport(c) == SendRequest(c) \/ Collect(c)
Verify(c) == DecodeHeader(c) \/ GetConfiguration(c) \/ GetKeySets(c) \/ Decide(c)

Next ==
    \/ \E c \in Calls : GetReport(c) \/ Answer(c) \/ GetReportFails(c) \/ Verify(c)
    \/ Tick \/ Renew
    \/ \E k \in Kids : Withdraw(k)
    \/ \E i \in Images : Deploy(i)

Spec == Init /\ [][Next]_vars

-----------------------------------------------------------------------------
(* Properties. *)

\* The type of every variable.
TypeOK ==
    /\ now \in 0 .. MaxTime
    /\ image \in Images
    /\ signer \in published /\ published \subseteq Kids
    /\ call \in [Calls -> {"idle", "asked", "done", "failed"}]
    /\ reply \in [Calls -> Tokens \cup {None, Text}]
    /\ report \in [Calls -> Tokens \cup {None, Text}]
    /\ check \in [Calls -> Checking \cup {"none", "accepted", "refused", "error"}]
    /\ skip \in [Calls -> BOOLEAN]
    /\ keySets \in [Calls -> SUBSET Kids]
    /\ decided \in [Calls -> 0 .. MaxTime]
    /\ offered \in [Calls -> SUBSET Kids]
    /\ steady \in [Calls -> SUBSET Kids]
    /\ \A c \in Calls : call[c] = "done" => report[c] # None
    /\ \A c \in Calls : check[c] \in Checking => report[c] \in Tokens

\* A token that a call got is about its own nonce, however many calls ask at once.
OwnNonce == \A c \in Calls : report[c] \in Tokens => report[c].nonce = c

\* A report that was accepted is a token for the verifier's audience, signed with
\* a key that was published during the check, and at its end had not expired for
\* longer than the library's leeway; the node ran the expected image when it got it.
AcceptedGenuine ==
    \A c \in Calls : check[c] = "accepted" =>
        /\ report[c] \in Tokens
        /\ report[c].audience = Audience
        /\ report[c].kid \in offered[c]
        /\ report[c].exp + Leeway >= decided[c]
        /\ report[c].image.reference = Golden.reference
        /\ skip[c] \/ report[c].image = Golden

\* A report is refused only if it is no token, expired longer ago than the library's
\* leeway, names a key that was not published throughout the check, or is for another audience or image.
RefusedForCause ==
    \A c \in Calls : check[c] = "refused" =>
        \/ report[c] \notin Tokens
        \/ report[c].exp + Leeway < decided[c]
        \/ report[c].kid \notin steady[c]
        \/ report[c].audience # Audience
        \/ report[c].image.reference # Golden.reference
        \/ report[c].image # Golden /\ ~skip[c]
=============================================================================
