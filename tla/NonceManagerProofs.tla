------------------------- MODULE NonceManagerProofs -------------------------
(***************************************************************************)
(* Proofs about NonceManager for every set of callers and every bound.     *)
(***************************************************************************)
EXTENDS NonceManager, SequenceTheorems, TLAPS

-----------------------------------------------------------------------------
(* The queue of returned nonces. *)

\* A sequence's range after Append.
LEMMA RangeOfAppend ==
    ASSUME NEW S, NEW s \in Seq(S), NEW n \in S
    PROVE  Range(Append(s, n)) = Range(s) \cup {n}
BY AppendProperties, LenProperties DEF Range

\* Appending what a sequence does not hold keeps it free of repetition.
LEMMA InjectiveAppend ==
    ASSUME NEW S, NEW s \in Seq(S), NEW n \in S, IsInjective(s), n \notin Range(s)
    PROVE  IsInjective(Append(s, n))
BY AppendProperties, LenProperties DEF Range, IsInjective

\* Taking the head of a sequence without repetition takes it out of its range.
LEMMA RangeOfTail ==
    ASSUME NEW S, NEW s \in Seq(S), s # << >>, IsInjective(s)
    PROVE  /\ Head(s) \in Range(s)
           /\ Head(s) \in S
           /\ Tail(s) \in Seq(S)
           /\ Range(Tail(s)) = Range(s) \ {Head(s)}
           /\ IsInjective(Tail(s))
<1>1. /\ Tail(s) \in Seq(S)
      /\ DOMAIN Tail(s) = 1 .. (Len(s) - 1)
      /\ \A i \in 1 .. (Len(s) - 1) : Tail(s)[i] = s[i + 1]
      /\ Head(s) = s[1] /\ Head(s) \in S
      /\ DOMAIN s = 1 .. Len(s) /\ Len(s) \in Nat \ {0}
  BY HeadTailProperties, LenProperties, EmptySeq
<1>2. \A i \in DOMAIN s : i # 1 => i - 1 \in DOMAIN Tail(s) /\ Tail(s)[i - 1] = s[i]
  BY <1>1
<1>3. \A i \in DOMAIN Tail(s) : i + 1 \in DOMAIN s /\ Tail(s)[i] = s[i + 1]
  BY <1>1
<1>4. Range(Tail(s)) \subseteq Range(s) \ {Head(s)}
  BY <1>1, <1>3 DEF Range, IsInjective
<1>5. Range(s) \ {Head(s)} \subseteq Range(Tail(s))
  BY <1>1, <1>2 DEF Range
<1>6. IsInjective(Tail(s)) /\ Head(s) \in Range(s)
  BY <1>1, <1>3 DEF Range, IsInjective
<1> QED BY <1>1, <1>4, <1>5, <1>6

-----------------------------------------------------------------------------
(* Held under the steps that change it. *)

\* An idle caller takes n.
LEMMA HeldTake ==
    ASSUME TypeOK, NEW c \in Callers, NEW n, step[c] = "idle",
           step' = [step EXCEPT ![c] = "sending"],
           nonce' = [nonce EXCEPT ![c] = n]
    PROVE  Held' = Held \cup {n}
<1>1. \A d \in Callers : d # c => step'[d] = step[d] /\ nonce'[d] = nonce[d]
  BY DEF TypeOK
<1>2. step'[c] = "sending" /\ nonce'[c] = n
  BY DEF TypeOK
<1> QED BY <1>1, <1>2 DEF Held

\* A caller lets its nonce go.
LEMMA HeldLeave ==
    ASSUME TypeOK, Exclusive, NEW c \in Callers, step[c] # "idle",
           step' = [step EXCEPT ![c] = "idle"],
           nonce' = [nonce EXCEPT ![c] = 0]
    PROVE  /\ nonce[c] \in Held
           /\ Held' = Held \ {nonce[c]}
<1>1. \A d \in Callers : d # c => step'[d] = step[d] /\ nonce'[d] = nonce[d]
  BY DEF TypeOK
<1>2. step'[c] = "idle"
  BY DEF TypeOK
<1>3. \A d \in Callers : d # c /\ step[d] # "idle" => nonce[d] # nonce[c]
  BY DEF Exclusive
<1> QED BY <1>1, <1>2, <1>3 DEF Held

\* send() fails: the caller keeps its nonce.
LEMMA HeldKeep ==
    ASSUME TypeOK, NEW c \in Callers, step[c] = "sending",
           step' = [step EXCEPT ![c] = "failed"], nonce' = nonce
    PROVE  Held' = Held
<1>1. \A d \in Callers : step'[d] # "idle" <=> step[d] # "idle"
  BY DEF TypeOK
<1> QED BY <1>1 DEF Held

-----------------------------------------------------------------------------
(* Type correctness. *)

\* Every variable keeps its type, for any callers, faults and bounds.
THEOREM TypeCorrect == Spec => []TypeOK
<1>1. Init => TypeOK
  <2> SUFFICES ASSUME Init PROVE TypeOK
    OBVIOUS
  <2>1. << >> \in Seq(Nat)
    BY EmptySeq
  <2> QED BY <2>1 DEF Init, TypeOK
<1>2. TypeOK /\ [Next]_vars => TypeOK'
  <2> SUFFICES ASSUME TypeOK, [Next]_vars PROVE TypeOK'
    OBVIOUS
  <2> USE DEF TypeOK
  <2>1. CASE initialize_nonce
    BY <2>1 DEF initialize_nonce, callers, chain
  <2>2. CASE Crash
    <3>1. nonce' \in [Callers -> Nat] /\ step' \in [Callers -> {"idle", "sending", "failed"}]
      BY <2>2 DEF Crash
    <3>2. Flying \subseteq Nat
      BY DEF Flying
    <3>3. wire' \subseteq Nat
      BY <2>2, <3>2 DEF Crash
    <3>4. unused' \in Seq(Nat)
      BY <2>2, EmptySeq DEF Crash
    <3>5. up' \in BOOLEAN
      BY <2>2, Zenon DEF Crash
    <3>6. nonces' = 0 /\ first' = 0 /\ restarts' = restarts + 1
      BY <2>2, Zenon DEF Crash
    <3>7. sent' \subseteq Nat
      BY <2>2 DEF Crash
    <3>8. /\ mined' \in Nat /\ pool' \subseteq Nat
          /\ dropped' \subseteq Nat /\ astray' \subseteq Nat
      BY <2>2 DEF Crash
    <3> QED BY <3>1, <3>3, <3>4, <3>5, <3>6, <3>7, <3>8
  <2>3. CASE Mine
    BY <2>3 DEF Mine, manager, callers
  <2>4. ASSUME NEW n \in wire, LateArrival(n) PROVE TypeOK'
    BY <2>4 DEF LateArrival, manager, callers
  <2>5. ASSUME NEW n \in pool, Evict(n) PROVE TypeOK'
    BY <2>5 DEF Evict, manager, callers
  <2>6. ASSUME NEW c \in Callers, next(c) PROVE TypeOK'
    <3>1. CASE NextFresh(c)
      BY <2>6, <3>1 DEF next, NextFresh, chain
    <3>2. CASE NextUnused(c)
      <4>1. Head(unused) \in Nat /\ Tail(unused) \in Seq(Nat)
        BY <3>2, HeadTailProperties DEF NextUnused
      <4> QED BY <2>6, <3>2, <4>1 DEF next, NextUnused, chain
    <3> QED BY <2>6, <3>1, <3>2 DEF next
  <2>7. ASSUME NEW c \in Callers, SendOk(c) PROVE TypeOK'
    BY <2>7 DEF SendOk
  <2>8. ASSUME NEW c \in Callers, SendRefused(c) PROVE TypeOK'
    BY <2>8 DEF SendRefused, manager, chain
  <2>9. ASSUME NEW c \in Callers, SendTimeout(c) PROVE TypeOK'
    BY <2>9 DEF SendTimeout, manager
  <2>10. ASSUME NEW c \in Callers, save_unused(c) PROVE TypeOK'
    <3>1. unused' \in Seq(Nat)
      BY <2>10, AppendProperties DEF save_unused
    <3> QED BY <2>10, <3>1 DEF save_unused, chain
  <2>11. CASE UNCHANGED vars
    BY <2>11 DEF vars, manager, callers, chain
  <2> QED
    BY <2>1, <2>2, <2>3, <2>4, <2>5, <2>6, <2>7, <2>8, <2>9, <2>10, <2>11 DEF Next
<1> QED BY <1>1, <1>2, PTL DEF Spec

-----------------------------------------------------------------------------
(* Where the nonces are. *)

\* Before initialize_nonce, and after a crash, the manager holds nothing.
Down ==
    ~up =>
        /\ nonces = 0 /\ first = 0
        /\ unused = << >> /\ sent = {}
        /\ \A c \in Callers : step[c] = "idle"

\* The inductive invariant: Conserved bounds every nonce in use by nonces,
\* which is why a fresh one is new, and Down says why opening starts clean.
Accounted == TypeOK /\ Exclusive /\ Conserved /\ Down /\ first <= nonces

LEMMA AccountedInit == Init => Accounted
<1> SUFFICES ASSUME Init PROVE Accounted
  OBVIOUS
<1>1. TypeOK
  BY EmptySeq DEF Init, TypeOK
<1>2. Held = {} /\ Returned = {} /\ IsInjective(unused)
  BY DEF Init, Held, Returned, Range, IsInjective
<1> QED BY <1>1, <1>2 DEF Init, Accounted, Exclusive, Conserved, Down

\* A step that leaves the manager and the callers alone.
LEMMA AccountedFrame ==
    ASSUME Accounted, UNCHANGED <<manager, callers>>, TypeOK'
    PROVE  Accounted'
<1>1. Held' = Held /\ Returned' = Returned
  BY DEF Held, Returned, Range, manager, callers
<1> QED
  BY <1>1 DEF Accounted, Exclusive, Conserved, Down, IsInjective, manager, callers

\* A nonce enters a caller's hands: fresh, or the head of unused.
LEMMA AccountedTake ==
    ASSUME Accounted, NEW c \in Callers, next(c), TypeOK'
    PROVE  Accounted'
<1> USE DEF Accounted
<1>1. PICK n \in Nat :
        /\ n \notin Held \cup sent
        /\ nonce' = [nonce EXCEPT ![c] = n]
        /\ n \notin Returned'
        /\ Returned' \subseteq Returned
        /\ IsInjective(unused')
        /\ first .. (nonces' - 1) = Held \cup {n} \cup Returned' \cup sent
  <2>1. CASE NextFresh(c)
    <3>1. nonces \notin Held \cup Returned \cup sent
      BY DEF next, Conserved, TypeOK
    <3>2. unused' = unused /\ Returned' = Returned
      BY <2>1 DEF NextFresh, Returned, Range
    <3>4. first .. (nonces' - 1) = (first .. (nonces - 1)) \cup {nonces}
      BY <2>1 DEF NextFresh, TypeOK
    <3>5. nonces \in Nat /\ up
      BY DEF TypeOK, next
    <3>6. IsInjective(unused')
      BY <3>2 DEF Exclusive
    <3> QED BY <2>1, <3>1, <3>2, <3>4, <3>5, <3>6 DEF NextFresh, Conserved
  <2>2. CASE NextUnused(c)
    <3>1. /\ Head(unused) \in Returned
          /\ Head(unused) \in Nat
          /\ Returned' = Returned \ {Head(unused)}
          /\ IsInjective(unused')
      BY <2>2, RangeOfTail DEF NextUnused, Returned, TypeOK, Exclusive
    <3>2. Head(unused) \notin Held \cup sent
      BY <3>1 DEF Exclusive
    <3>3. first .. (nonces' - 1)
            = Held \cup {Head(unused)} \cup Returned' \cup sent
      BY <2>2, <3>1 DEF NextUnused, Conserved, next
    <3>4. nonce' = [nonce EXCEPT ![c] = Head(unused)]
      BY <2>2 DEF NextUnused
    <3>5. Head(unused) \notin Returned' /\ Returned' \subseteq Returned
      BY <3>1
    <3> QED BY <3>1, <3>2, <3>3, <3>4, <3>5
  <2> QED BY <2>1, <2>2 DEF next
<1>2. Held' = Held \cup {n}
  BY <1>1, HeldTake DEF next
<1>3. Exclusive'
  <2>1. \A d, e \in Callers :
          step'[d] # "idle" /\ step'[e] # "idle" /\ nonce'[d] = nonce'[e] => d = e
    <3>1. /\ \A d \in Callers : d # c => step'[d] = step[d] /\ nonce'[d] = nonce[d]
          /\ nonce'[c] = n
      BY <1>1 DEF next, TypeOK
    <3>2. \A d \in Callers : step[d] # "idle" => nonce[d] # n
      BY <1>1 DEF Held
    <3> QED BY <3>1, <3>2 DEF Exclusive
  <2> QED BY <1>1, <1>2, <2>1 DEF Exclusive, next
<1>4. Conserved'
  BY <1>1, <1>2 DEF Conserved, next
<1>5. Down'
  BY DEF Down, next
<1>6. first' <= nonces'
  BY DEF next, NextFresh, NextUnused, TypeOK
<1> QED BY <1>3, <1>4, <1>5, <1>6

\* A nonce leaves a caller's hands for the chain or for unused.
LEMMA AccountedLeave ==
    ASSUME Accounted, NEW c \in Callers, SendOk(c) \/ save_unused(c), TypeOK'
    PROVE  Accounted'
<1> USE DEF Accounted
<1>1. /\ step[c] # "idle"
      /\ step' = [step EXCEPT ![c] = "idle"]
      /\ nonce' = [nonce EXCEPT ![c] = 0]
      /\ up' = up /\ nonces' = nonces /\ first' = first
  BY DEF SendOk, save_unused
<1>2. nonce[c] \in Held /\ Held' = Held \ {nonce[c]}
  BY <1>1, HeldLeave
<1>3. /\ nonce[c] \notin Returned \cup sent
      /\ nonce[c] \in Nat
  BY <1>2 DEF Exclusive, TypeOK
<1>4. \/ Returned' = Returned \cup {nonce[c]} /\ sent' = sent
      \/ Returned' = Returned /\ sent' = sent \cup {nonce[c]}
  <2>1. CASE SendOk(c)
    BY <2>1 DEF SendOk, Returned, Range
  <2>2. CASE save_unused(c)
    BY <2>2, <1>3, RangeOfAppend DEF save_unused, Returned, TypeOK
  <2> QED BY <2>1, <2>2
<1>5. IsInjective(unused')
  <2>1. CASE SendOk(c)
    BY <2>1 DEF SendOk, Exclusive
  <2>2. CASE save_unused(c)
    BY <2>2, <1>3, InjectiveAppend DEF save_unused, Exclusive, TypeOK, Returned
  <2> QED BY <2>1, <2>2
<1>6. Exclusive'
  <2>1. \A d \in Callers : step'[d] # "idle" => d # c /\ step[d] # "idle" /\ nonce'[d] = nonce[d]
    BY <1>1 DEF TypeOK
  <2>2. \A d, e \in Callers :
          step'[d] # "idle" /\ step'[e] # "idle" /\ nonce'[d] = nonce'[e] => d = e
    BY <2>1 DEF Exclusive
  <2>3. Held' \cap Returned' = {} /\ sent' \cap (Held' \cup Returned') = {}
    BY <1>2, <1>3, <1>4 DEF Exclusive
  <2> QED BY <1>5, <2>2, <2>3 DEF Exclusive
<1>7. Conserved'
  BY <1>1, <1>2, <1>4 DEF Conserved
<1>8. Down'
  BY <1>1 DEF Down
<1> QED BY <1>1, <1>6, <1>7, <1>8

LEMMA AccountedStep == Accounted /\ TypeOK' /\ [Next]_vars => Accounted'
<1> SUFFICES ASSUME Accounted, TypeOK', [Next]_vars PROVE Accounted'
  OBVIOUS
<1>1. CASE initialize_nonce
  <2>1. Held' = {} /\ Returned' = {} /\ sent' = {} /\ up' = TRUE
    BY <1>1 DEF initialize_nonce, callers, Accounted, Down, Held, Returned, Range
  <2>2. \A c \in Callers : step'[c] = "idle"
    BY <1>1 DEF initialize_nonce, callers, Accounted, Down
  <2>3. IsInjective(unused')
    BY <1>1 DEF initialize_nonce, Accounted, Exclusive
  <2>4. Exclusive'
    BY <2>1, <2>2, <2>3 DEF Exclusive
  <2>5. Conserved'
    BY <1>1, <2>1 DEF initialize_nonce, Conserved, Accounted, TypeOK
  <2>6. first' <= nonces'
    BY <1>1 DEF initialize_nonce, Accounted, TypeOK
  <2> QED BY <2>1, <2>4, <2>5, <2>6 DEF Accounted, Down
<1>2. CASE Crash
  <2>1. up' = FALSE /\ nonces' = 0 /\ first' = 0 /\ unused' = << >> /\ sent' = {}
    BY <1>2 DEF Crash
  <2>2. \A c \in Callers : step'[c] = "idle"
    BY <1>2 DEF Crash
  <2>3. Held' = {} /\ Returned' = {} /\ IsInjective(unused')
    BY <2>1, <2>2 DEF Held, Returned, Range, IsInjective
  <2> QED BY <2>1, <2>2, <2>3 DEF Accounted, Exclusive, Conserved, Down
<1>3. CASE Mine
  BY <1>3, AccountedFrame DEF Mine
<1>4. ASSUME NEW n \in wire, LateArrival(n) PROVE Accounted'
  BY <1>4, AccountedFrame DEF LateArrival
<1>5. ASSUME NEW n \in pool, Evict(n) PROVE Accounted'
  BY <1>5, AccountedFrame DEF Evict
<1>6. ASSUME NEW c \in Callers, next(c) PROVE Accounted'
  BY <1>6, AccountedTake
<1>7. ASSUME NEW c \in Callers, SendOk(c) \/ save_unused(c) PROVE Accounted'
  BY <1>7, AccountedLeave
<1>8. ASSUME NEW c \in Callers, SendRefused(c) \/ SendTimeout(c) PROVE Accounted'
  <2>1. /\ step[c] = "sending" /\ step' = [step EXCEPT ![c] = "failed"]
        /\ nonce' = nonce /\ UNCHANGED manager
    BY <1>8 DEF SendRefused, SendTimeout
  <2>2. Held' = Held /\ Returned' = Returned
    BY <2>1, HeldKeep DEF Accounted, Returned, Range, manager
  <2>3. \A d \in Callers : step'[d] # "idle" <=> step[d] # "idle"
    BY <2>1 DEF Accounted, TypeOK
  <2>4. Exclusive'
    BY <2>1, <2>2, <2>3 DEF Accounted, Exclusive, manager
  <2> QED BY <2>1, <2>2, <2>3, <2>4 DEF Accounted, Conserved, Down, manager
<1>9. CASE UNCHANGED vars
  BY <1>9, AccountedFrame DEF vars
<1> QED
  BY <1>1, <1>2, <1>3, <1>4, <1>5, <1>6, <1>7, <1>8, <1>9 DEF Next

LEMMA AlwaysAccounted == Spec => []Accounted
<1>1. Spec => []TypeOK
  BY TypeCorrect
<1> QED BY <1>1, AccountedInit, AccountedStep, PTL DEF Spec

\* No nonce is ever in two hands.
THEOREM NoncesExclusive == Spec => []Exclusive
<1>1. Accounted => Exclusive
  BY DEF Accounted
<1> QED BY <1>1, AlwaysAccounted, PTL

\* No error path loses a nonce.
THEOREM NoncesConserved == Spec => []Conserved
<1>1. Accounted => Conserved
  BY DEF Accounted
<1> QED BY <1>1, AlwaysAccounted, PTL

-----------------------------------------------------------------------------
(* Nonces handed out twice: the chain knows of nothing that was neither      *)
(* marked as sent nor went astray.                                           *)

Known ==
    up => /\ first <= mined
          /\ wire \subseteq astray
          /\ pool \subseteq sent \cup astray
          /\ \A n \in first .. (mined - 1) : n \in sent \cup astray

LEMMA KnownStep ==
    ASSUME Accounted, Known, [Next]_vars
    PROVE  Known'
<1> USE DEF Accounted
<1>1. CASE initialize_nonce
  <2>1. /\ first' = mined /\ mined' = mined /\ pool' = pool /\ wire' = wire
        /\ astray' = pool \cup wire
    BY <1>1 DEF initialize_nonce, chain
  <2> QED BY <2>1 DEF Known, TypeOK
<1>2. CASE Crash
  BY <1>2 DEF Crash, Known
<1>3. CASE Mine
  <2>1. mined \in pool /\ mined' = mined + 1 /\ pool' = pool \ {mined}
    BY <1>3 DEF Mine
  <2>2. UNCHANGED <<up, first, sent, wire, astray>>
    BY <1>3 DEF Mine, manager
  <2> QED BY <2>1, <2>2 DEF Known, TypeOK
<1>4. ASSUME NEW n \in wire, LateArrival(n) PROVE Known'
  <2>1. /\ wire' = wire \ {n} /\ pool' \subseteq pool \cup {n}
        /\ UNCHANGED <<up, first, sent, mined, astray>>
    BY <1>4 DEF LateArrival, manager
  <2> QED BY <2>1 DEF Known
<1>5. ASSUME NEW n \in pool, Evict(n) PROVE Known'
  BY <1>5 DEF Evict, Known, manager, callers
<1>6. ASSUME NEW c \in Callers, next(c) \/ SendRefused(c) \/ save_unused(c)
      PROVE  Known'
  <2>1. UNCHANGED <<up, first, sent, mined, pool, wire, astray>>
    BY <1>6 DEF next, SendRefused, save_unused, manager, chain
  <2> QED BY <2>1 DEF Known
<1>7. ASSUME NEW c \in Callers, SendOk(c) PROVE Known'
  <2>1. /\ pool' = pool \cup {nonce[c]} /\ sent' = sent \cup {nonce[c]}
        /\ UNCHANGED <<up, first, mined, wire, astray>>
    BY <1>7 DEF SendOk
  <2> QED BY <2>1 DEF Known
<1>8. ASSUME NEW c \in Callers, SendTimeout(c) PROVE Known'
  <2>1. /\ wire' = wire \cup {nonce[c]} /\ astray' = astray \cup {nonce[c]}
        /\ UNCHANGED <<up, first, sent, mined, pool>>
    BY <1>8 DEF SendTimeout, manager
  <2> QED BY <2>1 DEF Known
<1>9. CASE UNCHANGED vars
  BY <1>9 DEF vars, manager, chain, Known
<1> QED
  BY <1>1, <1>2, <1>3, <1>4, <1>5, <1>6, <1>7, <1>8, <1>9 DEF Next

LEMMA KnownReused == Accounted /\ Known => OnlyAstrayReused
<1> SUFFICES ASSUME Accounted, Known,
                    NEW c \in Callers, step[c] = "sending", nonce[c] \notin astray
             PROVE  nonce[c] >= mined /\ nonce[c] \notin pool
  BY DEF OnlyAstrayReused
<1>1. up /\ nonce[c] \in Held
  BY DEF Accounted, Down, Held
<1>2. nonce[c] \in Nat /\ nonce[c] \notin sent /\ first <= nonce[c]
  BY <1>1 DEF Accounted, Exclusive, Conserved, TypeOK
<1> QED BY <1>1, <1>2 DEF Known, Accounted, TypeOK

LEMMA AlwaysKnown == Spec => []Known
<1>1. Init => Known
  BY DEF Init, Known
<1>2. Accounted /\ Known /\ [Next]_vars => Known'
  BY KnownStep
<1> QED BY <1>1, <1>2, AlwaysAccounted, PTL DEF Spec

\* A spent nonce is handed out again only if its transaction went astray, for
\* every fault, any number of crashes and any number of callers.
THEOREM OnlyAstrayNoncesReused == Spec => []OnlyAstrayReused
BY AlwaysAccounted, AlwaysKnown, KnownReused, PTL

\* Nothing goes astray while no reply is lost and the process does not crash.
Quiet == wire = {} /\ astray = {} /\ (~up => pool = {})

LEMMA QuietStep ==
    ASSUME "timeout" \notin Faults, MaxRestarts = 0,
           Accounted, Quiet, [Next]_vars
    PROVE  Quiet'
<1> USE DEF Accounted, Quiet
<1>1. CASE initialize_nonce
  BY <1>1 DEF initialize_nonce, chain
<1>2. CASE Crash
  BY <1>2 DEF Crash, TypeOK
<1>3. CASE Mine
  BY <1>3 DEF Mine, manager
<1>4. ASSUME NEW n \in wire PROVE Quiet'
  BY <1>4
<1>5. ASSUME NEW n \in pool, Evict(n) PROVE Quiet'
  BY <1>5 DEF Evict, manager
<1>6. ASSUME NEW c \in Callers, next(c) \/ SendRefused(c) \/ save_unused(c)
      PROVE  Quiet'
  BY <1>6 DEF next, SendRefused, save_unused, manager, chain
<1>7. ASSUME NEW c \in Callers, SendOk(c) PROVE Quiet'
  <2>1. up
    BY <1>7 DEF SendOk, Down
  <2> QED BY <1>7, <2>1 DEF SendOk
<1>8. ASSUME NEW c \in Callers, SendTimeout(c) PROVE Quiet'
  BY <1>8 DEF SendTimeout
<1>9. CASE UNCHANGED vars
  BY <1>9 DEF vars, manager, chain
<1> QED
  BY <1>1, <1>2, <1>3, <1>4, <1>5, <1>6, <1>7, <1>8, <1>9 DEF Next

\* A nonce taken from the manager is neither pending nor mined, as long as a
\* failed send() left nothing behind and the process has not restarted: the
\* two faults of the runs that violate NextIsUnspent are the only ones.
THEOREM NextUnspent ==
    ASSUME "timeout" \notin Faults, MaxRestarts = 0
    PROVE  Spec => []NextIsUnspent
<1>1. Init => Quiet
  BY DEF Init, Quiet
<1>2. Accounted /\ Quiet /\ [Next]_vars => Quiet'
  BY QuietStep
<1>3. Quiet /\ OnlyAstrayReused => NextIsUnspent
  BY DEF Quiet, OnlyAstrayReused, NextIsUnspent
<1> QED BY <1>1, <1>2, <1>3, AlwaysAccounted, OnlyAstrayNoncesReused, PTL DEF Spec

-----------------------------------------------------------------------------
(* Gaps: what was sent is mined or pending, unless the chain dropped it.     *)

Kept ==
    up => first <= mined /\ \A n \in sent : n < mined \/ n \in pool \cup dropped

LEMMA KeptStep ==
    ASSUME Accounted, Kept, [Next]_vars
    PROVE  Kept'
<1> USE DEF Accounted
<1>1. CASE initialize_nonce
  <2>1. first' = mined /\ mined' = mined /\ sent' = {}
    BY <1>1 DEF initialize_nonce, chain, Down
  <2> QED BY <2>1 DEF Kept, TypeOK
<1>2. CASE Crash
  BY <1>2 DEF Crash, Kept
<1>3. CASE Mine
  <2>1. /\ mined' = mined + 1 /\ pool' = pool \ {mined}
        /\ UNCHANGED <<up, first, sent, dropped>>
    BY <1>3 DEF Mine, manager
  <2> QED BY <2>1 DEF Kept, TypeOK
<1>4. ASSUME NEW n \in wire, LateArrival(n) PROVE Kept'
  <2>1. /\ n \in Nat
        /\ UNCHANGED <<up, first, sent, mined>>
        /\ dropped' = dropped \ {n}
        /\ pool \subseteq pool'
        /\ n < mined \/ n \in pool'
    BY <1>4 DEF LateArrival, manager, TypeOK
  <2> QED BY <2>1 DEF Kept
<1>5. ASSUME NEW n \in pool, Evict(n) PROVE Kept'
  <2>1. /\ pool' = pool \ {n} /\ dropped' = dropped \cup {n}
        /\ UNCHANGED <<up, first, sent, mined>>
    BY <1>5 DEF Evict, manager
  <2> QED BY <2>1 DEF Kept
<1>6. ASSUME NEW c \in Callers,
             next(c) \/ SendRefused(c) \/ SendTimeout(c) \/ save_unused(c)
      PROVE  Kept'
  <2>1. UNCHANGED <<up, first, sent, mined, pool, dropped>>
    BY <1>6 DEF next, SendRefused, SendTimeout, save_unused, manager, chain
  <2> QED BY <2>1 DEF Kept
<1>7. ASSUME NEW c \in Callers, SendOk(c) PROVE Kept'
  <2>1. /\ pool' = pool \cup {nonce[c]} /\ sent' = sent \cup {nonce[c]}
        /\ dropped' = dropped \ {nonce[c]}
        /\ UNCHANGED <<up, first, mined>>
    BY <1>7 DEF SendOk
  <2> QED BY <2>1 DEF Kept
<1>8. CASE UNCHANGED vars
  BY <1>8 DEF vars, manager, chain, Kept
<1> QED
  BY <1>1, <1>2, <1>3, <1>4, <1>5, <1>6, <1>7, <1>8 DEF Next

LEMMA KeptNoOrphan == Accounted /\ Kept => NoOrphanGap
<1> SUFFICES ASSUME Accounted, Kept, up, NEW n \in pool, NEW k \in mined .. n,
                    k < nonces
             PROVE  k \in pool \cup Held \cup Returned \cup dropped
  BY DEF NoOrphanGap, Accounted, TypeOK
<1>1. k \in first .. (nonces - 1)
  BY DEF Kept, Accounted, TypeOK
<1>2. k \in Held \cup Returned \cup sent
  BY <1>1 DEF Accounted, Conserved
<1> QED BY <1>2 DEF Kept, Accounted, TypeOK

\* No gap below a pending transaction is out of the manager's reach unless the
\* chain made it, lost replies and restarts included.
THEOREM GapsReachable == Spec => []NoOrphanGap
<1>1. Init => Kept
  BY DEF Init, Kept
<1>2. Accounted /\ Kept /\ [Next]_vars => Kept'
  BY KeptStep
<1> QED BY <1>1, <1>2, AlwaysAccounted, KeptNoOrphan, PTL DEF Spec

-----------------------------------------------------------------------------
(* Refinement of NoncePool. *)

\* A step that changes none of the pool's variables.
LEMMA PoolStutter ==
    ASSUME UNCHANGED <<up, first, nonces, unused, sent>>, Held' = Held
    PROVE  UNCHANGED Pool!vars
BY DEF Pool!vars, Returned, Range

LEMMA PoolStep == Accounted /\ TypeOK' /\ [Next]_vars => [Pool!Next]_(Pool!vars)
<1> SUFFICES ASSUME Accounted, TypeOK', [Next]_vars
             PROVE  Pool!Next \/ UNCHANGED Pool!vars
  OBVIOUS
<1> USE DEF Accounted
<1>1. CASE initialize_nonce
  <2>1. Held' = Held /\ Returned' = Returned
    BY <1>1 DEF initialize_nonce, callers, Held, Returned, Range
  <2>2. Pool!Open
    BY <1>1, <2>1 DEF Pool!Open, initialize_nonce, TypeOK
  <2> QED BY <2>2 DEF Pool!Next
<1>2. CASE Crash
  <2>1. Held' = {} /\ Returned' = {}
    BY <1>2 DEF Crash, Held, Returned, Range
  <2>2. Pool!Close
    BY <1>2, <2>1 DEF Pool!Close, Crash
  <2> QED BY <2>2 DEF Pool!Next
<1>3. CASE Mine
  BY <1>3, PoolStutter DEF Mine, manager, callers, Held
<1>4. ASSUME NEW n \in wire, LateArrival(n) PROVE UNCHANGED Pool!vars
  BY <1>4, PoolStutter DEF LateArrival, manager, callers, Held
<1>5. ASSUME NEW n \in pool, Evict(n) PROVE UNCHANGED Pool!vars
  BY <1>5, PoolStutter DEF Evict, manager, callers, Held
<1>6. ASSUME NEW c \in Callers, next(c), NextFresh(c) PROVE Pool!Next
  <2>1. Held' = Held \cup {nonces}
    BY <1>6, HeldTake DEF next, NextFresh
  <2>2. Returned = {} /\ Returned' = {}
    BY <1>6 DEF NextFresh, Returned, Range
  <2>3. Pool!TakeFresh
    BY <1>6, <2>1, <2>2 DEF Pool!TakeFresh, next, NextFresh
  <2> QED BY <2>3 DEF Pool!Next
<1>7. ASSUME NEW c \in Callers, next(c), NextUnused(c) PROVE Pool!Next
  <2>1. Held' = Held \cup {Head(unused)}
    BY <1>7, HeldTake DEF next, NextUnused
  <2>2. Head(unused) \in Returned /\ Returned' = Returned \ {Head(unused)}
    BY <1>7, RangeOfTail DEF NextUnused, Returned, TypeOK, Exclusive
  <2>3. Pool!TakeFree(Head(unused))
    BY <1>7, <2>1, <2>2 DEF Pool!TakeFree, next, NextUnused
  <2> QED BY <2>2, <2>3 DEF Pool!Next
<1>8. ASSUME NEW c \in Callers, SendOk(c) PROVE Pool!Next
  <2>1. nonce[c] \in Held /\ Held' = Held \ {nonce[c]}
    BY <1>8, HeldLeave DEF SendOk
  <2>2. Returned' = Returned
    BY <1>8 DEF SendOk, Returned, Range
  <2>3. Pool!Spend(nonce[c])
    BY <1>8, <2>1, <2>2 DEF Pool!Spend, SendOk
  <2> QED BY <2>1, <2>3 DEF Pool!Next
<1>9. ASSUME NEW c \in Callers, SendRefused(c) \/ SendTimeout(c)
      PROVE  UNCHANGED Pool!vars
  <2>1. Held' = Held
    BY <1>9, HeldKeep DEF SendRefused, SendTimeout
  <2> QED BY <1>9, <2>1, PoolStutter DEF SendRefused, SendTimeout, manager
<1>10. ASSUME NEW c \in Callers, save_unused(c) PROVE Pool!Next
  <2>1. nonce[c] \in Held /\ Held' = Held \ {nonce[c]} /\ nonce[c] \in Nat
    BY <1>10, HeldLeave DEF save_unused, TypeOK
  <2>2. Returned' = Returned \cup {nonce[c]}
    <3>1. unused \in Seq(Nat) /\ unused' = Append(unused, nonce[c])
      BY <1>10 DEF save_unused, TypeOK
    <3> QED BY <2>1, <3>1, RangeOfAppend DEF Returned
  <2>3. Pool!GiveBack(nonce[c])
    BY <1>10, <2>1, <2>2 DEF Pool!GiveBack, save_unused
  <2> QED BY <2>1, <2>3 DEF Pool!Next
<1>11. CASE UNCHANGED vars
  BY <1>11, PoolStutter DEF vars, manager, callers, Held
<1> QED
  BY <1>1, <1>2, <1>3, <1>4, <1>5, <1>6, <1>7, <1>8, <1>9, <1>10, <1>11
  DEF Next, next

\* The manager and its callers implement the abstract pool of nonces.
THEOREM ManagerImplementsPool == Spec => ImplementsPool
<1>1. Init => Pool!Init
  BY DEF Init, Pool!Init, Held, Returned, Range
<1> QED BY <1>1, PoolStep, AlwaysAccounted, TypeCorrect, PTL
        DEF Spec, ImplementsPool, Pool!Spec
=============================================================================
