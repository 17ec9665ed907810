-------------------------- MODULE AizelServerProofs --------------------------
(***************************************************************************)
(* Proofs about AizelServer for every set of networks and calls, every     *)
(* capacity and every fault.                                               *)
(***************************************************************************)
EXTENDS AizelServer, SequenceTheorems, FiniteSetTheorems, TLAPS

-----------------------------------------------------------------------------
(* The channels, and the sequence of what was sent. *)

\* A sequence's range after Append.
LEMMA RangeOfAppend ==
    ASSUME NEW S, NEW s \in Seq(S), NEW n \in S
    PROVE  Range(Append(s, n)) = Range(s) \cup {n}
BY AppendProperties, LenProperties DEF Range

\* Appending what a sequence does not hold keeps it free of repetition.
LEMMA InjectiveAppend ==
    ASSUME NEW S, NEW s \in Seq(S), NEW n \in S, IsInjective(s), n \notin Range(s)
    PROVE  IsInjective(Append(s, n))
BY AppendProperties, LenProperties DEF Range, IsInjective

\* Taking the head of a sequence without repetition takes it out of its range.
LEMMA RangeOfTail ==
    ASSUME NEW S, NEW s \in Seq(S), s # << >>, IsInjective(s)
    PROVE  /\ Head(s) \in Range(s)
           /\ Head(s) \in S
           /\ Tail(s) \in Seq(S)
           /\ Range(Tail(s)) = Range(s) \ {Head(s)}
           /\ IsInjective(Tail(s))
<1>1. /\ Tail(s) \in Seq(S)
      /\ DOMAIN Tail(s) = 1 .. (Len(s) - 1)
      /\ \A i \in 1 .. (Len(s) - 1) : Tail(s)[i] = s[i + 1]
      /\ Head(s) = s[1] /\ Head(s) \in S
      /\ DOMAIN s = 1 .. Len(s) /\ Len(s) \in Nat \ {0}
  BY HeadTailProperties, LenProperties, EmptySeq
<1>2. \A i \in DOMAIN s : i # 1 => i - 1 \in DOMAIN Tail(s) /\ Tail(s)[i - 1] = s[i]
  BY <1>1
<1>3. \A i \in DOMAIN Tail(s) : i + 1 \in DOMAIN s /\ Tail(s)[i] = s[i + 1]
  BY <1>1
<1>4. Range(Tail(s)) \subseteq Range(s) \ {Head(s)}
  BY <1>1, <1>3 DEF Range, IsInjective
<1>5. Range(s) \ {Head(s)} \subseteq Range(Tail(s))
  BY <1>1, <1>2 DEF Range
<1>6. IsInjective(Tail(s)) /\ Head(s) \in Range(s)
  BY <1>1, <1>3 DEF Range, IsInjective
<1> QED BY <1>1, <1>4, <1>5, <1>6

-----------------------------------------------------------------------------
(* Type correctness. *)

\* Every variable keeps its type: no channel overflows, and a worker has a
\* request in its hands exactly while it works on one.
THEOREM TypeCorrect == Spec => []TypeOK
<1>1. Init => TypeOK
  <2> SUFFICES ASSUME Init PROVE TypeOK
    OBVIOUS
  <2>1. << >> \in Seq(Calls) /\ Len(<< >>) = 0
    BY EmptySeq
  <2>2. << >> \in Seq(Transactions)
    BY EmptySeq
  <2> QED BY <2>1, <2>2, CapacityAssumption DEF Init, TypeOK, None
<1>2. TypeOK /\ [Next]_vars => TypeOK'
  <2> SUFFICES ASSUME TypeOK, [Next]_vars PROVE TypeOK'
    OBVIOUS
  <2> USE DEF TypeOK, None, Goto, At
  <2>1. ASSUME NEW c \in Calls, Receive(c) \/ Reject(c) PROVE TypeOK'
    BY <2>1 DEF Receive, Reject
  <2>2. ASSUME NEW c \in Calls, Enqueue(c) PROVE TypeOK'
    <3>1. ASSUME NEW n \in Networks
          PROVE  queue'[n] \in Seq(Calls) /\ Len(queue'[n]) <= Capacity
      BY <2>2, <3>1, CapacityAssumption, AppendProperties, LenProperties DEF Enqueue
    <3> QED BY <2>2, <3>1 DEF Enqueue
  <2>3. ASSUME NEW c \in Calls, Submit(c) PROVE TypeOK'
    <3>1. CASE UploadOutput(c)
      <4>1. /\ gate' \subseteq Calls \X {"output", "error"}
            /\ task' \in [Calls -> {"none", "upload", "submit"}]
            /\ end' \in [Calls -> {"open", "verdict", "unsent", "dropped", "lost"}]
        <5>1. gate' \in {gate, gate \cup {<<c, "output">>}}
          BY <3>1 DEF UploadOutput
        <5>2. <<c, "output">> \in Calls \X {"output", "error"}
          OBVIOUS
        <5>3. gate' \subseteq Calls \X {"output", "error"}
          BY <5>1, <5>2
        <5>4. /\ task' \in [Calls -> {"none", "upload", "submit"}]
              /\ end' \in [Calls -> {"open", "verdict", "unsent", "dropped", "lost"}]
          BY <3>1 DEF UploadOutput
        <5> QED BY <5>3, <5>4
      <4>2. UNCHANGED <<rpc, queue, worker, job, chain>>
        BY <3>1 DEF UploadOutput
      <4> QED BY <4>1, <4>2
    <3>2. CASE SubmitOutput(c)
      <4>1. /\ task' \in [Calls -> {"none", "upload", "submit"}]
            /\ end' \in [Calls -> {"open", "verdict", "unsent", "dropped", "lost"}]
        BY <3>2 DEF SubmitOutput
      <4>2. chain' \in Seq(Transactions)
        <5>1. <<c, "output">> \in Transactions
          BY DEF Transactions
        <5>2. chain' = chain \/ chain' = Append(chain, <<c, "output">>)
          BY <3>2 DEF SubmitOutput
        <5>3. chain \in Seq(Transactions) /\ Append(chain, <<c, "output">>) \in Seq(Transactions)
          BY <5>1, AppendProperties
        <5> QED BY <5>2, <5>3
      <4>3. UNCHANGED <<rpc, queue, worker, job, gate>>
        BY <3>2 DEF SubmitOutput
      <4> QED BY <4>1, <4>2, <4>3
    <3> QED BY <2>3, <3>1, <3>2 DEF Submit
  <2>4. ASSUME NEW n \in Networks, Start(n) PROVE TypeOK'
    BY <2>4 DEF Start
  <2>5. ASSUME NEW n \in Networks, Recv(n) PROVE TypeOK'
    <3>1. Head(queue[n]) \in Calls /\ Tail(queue[n]) \in Seq(Calls)
          /\ Len(Tail(queue[n])) <= Capacity
      BY <2>5, CapacityAssumption, HeadTailProperties, LenProperties DEF Recv
    <3> QED BY <2>5, <3>1 DEF Recv
  <2>6. ASSUME NEW n \in Networks, Die(n) PROVE TypeOK'
    <3>1. << >> \in Seq(Calls) /\ Len(<< >>) = 0
      BY EmptySeq
    <3> QED BY <2>6, <3>1, CapacityAssumption DEF Die
  <2>7. ASSUME NEW n \in Networks, NEW c \in Calls,
               QueryModel(n, c) \/ GetInput(n, c) \/ Infer(n, c) \/ HandleError(n, c)
        PROVE  TypeOK'
    BY <2>7 DEF QueryModel, GetInput, Infer, AskModel, AskAgent, HandleError
  <2>8. ASSUME NEW n \in Networks, NEW c \in Calls, RunModel(n, c)
        PROVE  TypeOK'
    BY <2>8 DEF RunModel, Leave
  <2>9. ASSUME NEW n \in Networks, NEW c \in Calls, Transfer(n, c)
        PROVE  TypeOK'
    <3>1. chain' \in Seq(Transactions)
      <4>1. <<c, "transfer">> \in Transactions
        BY DEF Transactions
      <4>2. chain' = chain \/ chain' = Append(chain, <<c, "transfer">>)
        BY <2>9 DEF Transfer
      <4>3. chain \in Seq(Transactions) /\ Append(chain, <<c, "transfer">>) \in Seq(Transactions)
        BY <4>1, AppendProperties
      <4> QED BY <4>2, <4>3
    <3>2. /\ worker' \in {[worker EXCEPT ![n] = "report"], [worker EXCEPT ![n] = "handle_error"]}
          /\ worker[n] = "transfer" /\ UNCHANGED <<rpc, queue, job, task, gate, end>>
      BY <2>9 DEF Transfer
    <3> QED BY <3>1, <3>2
  <2>10. ASSUME NEW n \in Networks, NEW c \in Calls, Report(n, c)
         PROVE  TypeOK'
    BY <2>10 DEF Report
  <2>11. ASSUME NEW n \in Networks, NEW c \in Calls, UploadError(n, c)
         PROVE  TypeOK'
    BY <2>11 DEF UploadError
  <2>12. ASSUME NEW n \in Networks, NEW c \in Calls, SubmitError(n, c)
         PROVE  TypeOK'
    <3>1. chain' \in Seq(Transactions)
      <4>1. <<c, "error">> \in Transactions
        BY DEF Transactions
      <4>2. chain' = chain \/ chain' = Append(chain, <<c, "error">>)
        BY <2>12 DEF SubmitError
      <4>3. chain \in Seq(Transactions) /\ Append(chain, <<c, "error">>) \in Seq(Transactions)
        BY <4>1, AppendProperties
      <4> QED BY <4>2, <4>3
    <3>2. /\ worker' = [worker EXCEPT ![n] = "recv"]
          /\ job' = [job EXCEPT ![n] = << >>]
          /\ end' \in {[end EXCEPT ![c] = "verdict"], [end EXCEPT ![c] = "unsent"]}
          /\ UNCHANGED <<rpc, queue, task, gate>>
      BY <2>12 DEF SubmitError, Leave
    <3> QED BY <3>1, <3>2
  <2>13. CASE UNCHANGED vars
    BY <2>13 DEF vars
  <2> QED
    BY <2>1, <2>2, <2>3, <2>4, <2>5, <2>6, <2>7, <2>8, <2>9, <2>10, <2>11, <2>12, <2>13
    DEF Next, Handle, Work
<1> QED BY <1>1, <1>2, PTL DEF Spec

-----------------------------------------------------------------------------
(* The place of a call.                                                    *)

\* The inductive invariant: each place excludes the others, and what is not
\* accepted is in none.
Placed ==
    /\ \A c \in Calls : rpc[c] \in {"sending", "acked"} => NetworkOf[c] \in Networks
    /\ \A n \in Networks : IsInjective(queue[n])
    /\ \A n \in Networks : \A c \in Range(queue[n]) :
        /\ n = NetworkOf[c] /\ rpc[c] = "acked"
        /\ job[n] # <<c>> /\ task[c] = "none" /\ end[c] = "open"
    /\ \A n \in Networks : \A c \in Calls : job[n] = <<c>> =>
        n = NetworkOf[c] /\ rpc[c] = "acked" /\ task[c] = "none" /\ end[c] = "open"
    /\ \A c \in Calls : task[c] # "none" => rpc[c] = "acked" /\ end[c] = "open"
    /\ \A c \in Calls : end[c] # "open" => rpc[c] = "acked"
    /\ \A c \in Calls : rpc[c] = "acked" =>
        \/ c \in Range(queue[NetworkOf[c]])
        \/ job[NetworkOf[c]] = <<c>>
        \/ task[c] # "none"
        \/ end[c] # "open"

LEMMA PlacedInit == Init => Placed
BY DEF Init, Placed, None, Range, IsInjective

\* Steps of the worker that leave the call in its hands.
LEMMA PlacedFrame ==
    ASSUME Placed, UNCHANGED <<rpc, queue, job, task, end>>
    PROVE  Placed'
BY DEF Placed, Range, IsInjective

\* A call leaves its worker's hands for a task or for good.
LEMMA PlacedLeave ==
    ASSUME TypeOK, Placed, NEW n \in Networks, NEW c \in Calls, job[n] = <<c>>,
           job' = [job EXCEPT ![n] = None],
           \/ /\ task' = task
              /\ \E how \in {"verdict", "unsent", "dropped"} : end' = [end EXCEPT ![c] = how]
           \/ task' = [task EXCEPT ![c] = "upload"] /\ end' = end,
           UNCHANGED <<rpc, queue>>
    PROVE  Placed'
<1>1. \A m \in Networks : Range(queue'[m]) = Range(queue[m]) /\ Range(queue[m]) \subseteq Calls
  BY DEF Range, TypeOK
<1>2. n = NetworkOf[c] /\ rpc[c] = "acked" /\ task[c] = "none" /\ end[c] = "open"
  BY DEF Placed
<1>3. \A m \in Networks : c \notin Range(queue[m])
  BY <1>2 DEF Placed
<1>4. /\ \A d \in Calls : d # c => task'[d] = task[d] /\ end'[d] = end[d]
      /\ \/ task'[c] # "none" /\ end'[c] = "open"
         \/ task'[c] = "none" /\ end'[c] # "open"
  <2>1. CASE /\ task' = task
             /\ \E how \in {"verdict", "unsent", "dropped"} : end' = [end EXCEPT ![c] = how]
    BY <1>2, <2>1 DEF TypeOK
  <2>2. CASE task' = [task EXCEPT ![c] = "upload"] /\ end' = end
    BY <1>2, <2>2 DEF TypeOK
  <2> QED BY <2>1, <2>2
<1>5. /\ job'[n] = << >>
      /\ \A m \in Networks : m # n => job'[m] = job[m]
  BY DEF TypeOK, None
<1>6. \A d \in Calls : << >> # <<d>>
  OBVIOUS
<1>7. \A m \in Networks : \A d \in Calls : job'[m] = <<d>> => job[m] = <<d>> /\ d # c
  BY <1>2, <1>5, <1>6 DEF Placed
<1>8. \A d \in Calls : rpc[d] = "acked" /\ d # c =>
        \/ d \in Range(queue[NetworkOf[d]])
        \/ job'[NetworkOf[d]] = <<d>>
        \/ task[d] # "none"
        \/ end[d] # "open"
  BY <1>2, <1>5 DEF Placed
<1>9. \A m \in Networks : \A d \in Range(queue[m]) :
        /\ m = NetworkOf[d] /\ rpc[d] = "acked"
        /\ job'[m] # <<d>> /\ task'[d] = "none" /\ end'[d] = "open"
  BY <1>1, <1>3, <1>4, <1>7 DEF Placed
<1>10. \A m \in Networks : \A d \in Calls : job'[m] = <<d>> =>
        m = NetworkOf[d] /\ rpc[d] = "acked" /\ task'[d] = "none" /\ end'[d] = "open"
  BY <1>4, <1>7 DEF Placed
<1>11. \A d \in Calls : (task'[d] # "none" => rpc[d] = "acked" /\ end'[d] = "open")
                       /\ (end'[d] # "open" => rpc[d] = "acked")
  BY <1>2, <1>4 DEF Placed
<1> QED BY <1>1, <1>4, <1>8, <1>9, <1>10, <1>11 DEF Placed

\* Only the acknowledgement of a call that is not accepted changes.
LEMMA PlacedReceive ==
    ASSUME TypeOK, Placed, NEW c \in Calls, Receive(c) \/ Reject(c)
    PROVE  Placed'
<1>1. /\ rpc[c] # "acked" /\ rpc'[c] # "acked"
      /\ rpc'[c] = "sending" => NetworkOf[c] \in Networks
      /\ \A d \in Calls : d # c => rpc'[d] = rpc[d]
      /\ queue' = queue /\ job' = job /\ task' = task /\ end' = end
  BY DEF Receive, Reject, TypeOK
<1>2. \A d \in Calls : (rpc'[d] = "acked" <=> rpc[d] = "acked")
  BY <1>1
<1>3. \A n \in Networks : Range(queue'[n]) = Range(queue[n]) /\ Range(queue[n]) \subseteq Calls
  BY <1>1 DEF Range, TypeOK
<1>4. \A d \in Calls : rpc'[d] \in {"sending", "acked"} => NetworkOf[d] \in Networks
  BY <1>1 DEF Placed
<1> QED BY <1>1, <1>2, <1>3, <1>4 DEF Placed

\* An accepted call is in its channel, and was nowhere before.
LEMMA PlacedEnqueue ==
    ASSUME TypeOK, Placed, NEW c \in Calls, Enqueue(c)
    PROVE  Placed'
<1> DEFINE n == NetworkOf[c]
<1>1. /\ n \in Networks
      /\ rpc[c] # "acked" /\ rpc'[c] = "acked"
      /\ \A d \in Calls : d # c => rpc'[d] = rpc[d]
      /\ queue'[n] = Append(queue[n], c)
      /\ \A m \in Networks : m # n => queue'[m] = queue[m]
      /\ job' = job /\ task' = task /\ end' = end
  BY DEF Enqueue, TypeOK, Placed
<1>2. \A m \in Networks : queue[m] \in Seq(Calls) /\ Range(queue[m]) \subseteq Calls
  BY DEF Range, TypeOK
<1>3. /\ \A m \in Networks : c \notin Range(queue[m]) /\ job[m] # <<c>>
      /\ task[c] = "none" /\ end[c] = "open"
  <2>1. task[c] \in {"none", "upload", "submit"}
    BY DEF TypeOK
  <2> QED BY <1>1, <2>1 DEF Placed
<1>4. Range(queue'[n]) = Range(queue[n]) \cup {c} /\ IsInjective(queue'[n])
  BY <1>1, <1>2, <1>3, RangeOfAppend, InjectiveAppend DEF Placed
<1>5. /\ \A m \in Networks : IsInjective(queue'[m])
      /\ \A m \in Networks : \A d :
            d \in Range(queue'[m]) <=> d \in Range(queue[m]) \/ (m = n /\ d = c)
  <2>1. ASSUME NEW m \in Networks
        PROVE  IsInjective(queue'[m])
    BY <1>1, <1>4, <2>1 DEF Placed
  <2>2. ASSUME NEW m \in Networks, NEW d
        PROVE  d \in Range(queue'[m]) <=> d \in Range(queue[m]) \/ (m = n /\ d = c)
    <3>1. CASE m = n
      BY <1>4, <3>1
    <3>2. CASE m # n
      BY <1>1, <3>2
    <3> QED BY <3>1, <3>2
  <2> QED BY <2>1, <2>2
<1>6. \A m \in Networks : \A d \in Range(queue'[m]) :
        /\ m = NetworkOf[d] /\ rpc'[d] = "acked"
        /\ job[m] # <<d>> /\ task[d] = "none" /\ end[d] = "open"
  BY <1>1, <1>2, <1>3, <1>5 DEF Placed
<1>7. \A d \in Calls : rpc'[d] \in {"sending", "acked"} => NetworkOf[d] \in Networks
  BY <1>1 DEF Placed
<1>8. \A d \in Calls : rpc'[d] = "acked" =>
        \/ d \in Range(queue'[NetworkOf[d]])
        \/ job[NetworkOf[d]] = <<d>>
        \/ task[d] # "none"
        \/ end[d] # "open"
  <2>1. c \in Range(queue'[NetworkOf[c]])
    BY <1>4
  <2>2. ASSUME NEW d \in Calls, d # c, rpc[d] = "acked", task[d] = "none", end[d] = "open"
        PROVE  d \in Range(queue'[NetworkOf[d]]) \/ job[NetworkOf[d]] = <<d>>
    <3>1. NetworkOf[d] \in Networks
      BY <2>2 DEF Placed
    <3>2. d \in Range(queue[NetworkOf[d]]) \/ job[NetworkOf[d]] = <<d>>
      BY <2>2 DEF Placed
    <3> QED BY <1>5, <3>1, <3>2
  <2> QED BY <1>1, <2>1, <2>2
<1>9. \A d \in Calls : rpc[d] = "acked" => rpc'[d] = "acked"
  BY <1>1
<1>10. /\ \A m \in Networks : \A d \in Calls : job[m] = <<d>> =>
            m = NetworkOf[d] /\ rpc'[d] = "acked" /\ task[d] = "none" /\ end[d] = "open"
       /\ \A d \in Calls : task[d] # "none" => rpc'[d] = "acked" /\ end[d] = "open"
       /\ \A d \in Calls : end[d] # "open" => rpc'[d] = "acked"
  BY <1>9 DEF Placed
<1>11. \A m \in Networks : IsInjective(queue'[m])
  BY <1>5
<1> QED BY <1>1, <1>6, <1>7, <1>8, <1>10, <1>11 DEF Placed

\* The submission task goes on, or ends with the call.
LEMMA PlacedSubmit ==
    ASSUME TypeOK, Placed, NEW c \in Calls, Submit(c)
    PROVE  Placed'
<1>1. /\ task[c] # "none"
      /\ \A d \in Calls : d # c => task'[d] = task[d] /\ end'[d] = end[d]
      /\ \/ task'[c] # "none" /\ end'[c] = end[c]
         \/ task'[c] = "none" /\ end'[c] # "open"
      /\ rpc' = rpc /\ queue' = queue /\ job' = job
  BY DEF Submit, UploadOutput, SubmitOutput, TypeOK
<1>2. rpc[c] = "acked" /\ end[c] = "open"
  BY <1>1 DEF Placed
<1>3. \A n \in Networks : c \notin Range(queue[n]) /\ job[n] # <<c>>
  BY <1>1 DEF Placed
<1>4. \A n \in Networks : Range(queue'[n]) = Range(queue[n]) /\ Range(queue[n]) \subseteq Calls
  BY <1>1 DEF Range, TypeOK
<1>5. \A n \in Networks : \A d \in Range(queue[n]) :
        /\ n = NetworkOf[d] /\ rpc[d] = "acked"
        /\ job[n] # <<d>> /\ task'[d] = "none" /\ end'[d] = "open"
  BY <1>1, <1>3, <1>4 DEF Placed
<1>6. \A n \in Networks : \A d \in Calls : job[n] = <<d>> =>
        n = NetworkOf[d] /\ rpc[d] = "acked" /\ task'[d] = "none" /\ end'[d] = "open"
  BY <1>1, <1>3 DEF Placed
<1>7. \A d \in Calls : /\ task'[d] # "none" => rpc[d] = "acked" /\ end'[d] = "open"
                       /\ end'[d] # "open" => rpc[d] = "acked"
  BY <1>1, <1>2 DEF Placed
<1>8. \A d \in Calls : rpc[d] = "acked" =>
        \/ d \in Range(queue[NetworkOf[d]])
        \/ job[NetworkOf[d]] = <<d>>
        \/ task'[d] # "none"
        \/ end'[d] # "open"
  BY <1>1, <1>2 DEF Placed
<1> QED BY <1>1, <1>4, <1>5, <1>6, <1>7, <1>8 DEF Placed

\* The head of the channel moves into the worker's empty hands.
LEMMA PlacedRecv ==
    ASSUME TypeOK, Placed, NEW n \in Networks, Recv(n)
    PROVE  Placed'
<1> DEFINE c == Head(queue[n])
<1>1. /\ queue[n] # << >> /\ queue[n] \in Seq(Calls) /\ IsInjective(queue[n])
      /\ queue'[n] = Tail(queue[n])
      /\ job'[n] = <<c>>
      /\ \A m \in Networks : m # n => queue'[m] = queue[m] /\ job'[m] = job[m]
      /\ rpc' = rpc /\ task' = task /\ end' = end
  BY DEF Recv, TypeOK, Placed
<1>2. /\ c \in Range(queue[n]) /\ c \in Calls
      /\ Range(queue'[n]) = Range(queue[n]) \ {c}
      /\ IsInjective(queue'[n])
  BY <1>1, RangeOfTail
<1>3. /\ \A m \in Networks : IsInjective(queue'[m])
      /\ \A m \in Networks : Range(queue[m]) \subseteq Calls
      /\ \A m \in Networks : \A d :
            d \in Range(queue'[m]) <=> d \in Range(queue[m]) /\ ~(m = n /\ d = c)
  <2>1. ASSUME NEW m \in Networks
        PROVE  IsInjective(queue'[m])
    BY <1>1, <1>2, <2>1 DEF Placed
  <2>2. ASSUME NEW m \in Networks
        PROVE  Range(queue[m]) \subseteq Calls
    BY <2>2 DEF Range, TypeOK
  <2>3. ASSUME NEW m \in Networks, NEW d
        PROVE  d \in Range(queue'[m]) <=> d \in Range(queue[m]) /\ ~(m = n /\ d = c)
    <3>1. CASE m = n
      BY <1>2, <3>1
    <3>2. CASE m # n
      BY <1>1, <3>2
    <3> QED BY <3>1, <3>2
  <2> QED BY <2>1, <2>2, <2>3
<1>4. n = NetworkOf[c] /\ rpc[c] = "acked" /\ task[c] = "none" /\ end[c] = "open"
  BY <1>2 DEF Placed
<1>5. \A d \in Calls : job'[n] = <<d>> <=> d = c
  BY <1>1
<1>6. \A m \in Networks : \A d \in Range(queue'[m]) :
        /\ m = NetworkOf[d] /\ rpc[d] = "acked"
        /\ job'[m] # <<d>> /\ task[d] = "none" /\ end[d] = "open"
  BY <1>1, <1>3, <1>5 DEF Placed
<1>7. \A m \in Networks : \A d \in Calls : job'[m] = <<d>> =>
        m = NetworkOf[d] /\ rpc[d] = "acked" /\ task[d] = "none" /\ end[d] = "open"
  BY <1>1, <1>4, <1>5 DEF Placed
<1>8. job[n] = << >>
  BY DEF Recv, TypeOK, None
<1>9. \A d \in Calls : rpc[d] = "acked" =>
        \/ d \in Range(queue'[NetworkOf[d]])
        \/ job'[NetworkOf[d]] = <<d>>
        \/ task[d] # "none"
        \/ end[d] # "open"
  <2>1. ASSUME NEW d \in Calls, rpc[d] = "acked", task[d] = "none", end[d] = "open"
        PROVE  d \in Range(queue'[NetworkOf[d]]) \/ job'[NetworkOf[d]] = <<d>>
    <3>1. NetworkOf[d] \in Networks
      BY <2>1 DEF Placed
    <3>2. d \in Range(queue[NetworkOf[d]]) \/ job[NetworkOf[d]] = <<d>>
      BY <2>1 DEF Placed
    <3>3. CASE NetworkOf[d] # n
      BY <1>1, <1>3, <3>1, <3>2, <3>3
    <3>4. CASE NetworkOf[d] = n
      <4>1. << >> # <<d>>
        OBVIOUS
      <4>2. d \in Range(queue[n])
        BY <1>8, <3>2, <3>4, <4>1
      <4> QED BY <1>2, <1>5, <3>4, <4>2
    <3> QED BY <3>3, <3>4
  <2> QED BY <2>1
<1> QED BY <1>1, <1>3, <1>6, <1>7, <1>9 DEF Placed

\* A panic ends the calls in the worker's hands and in its channel, no other.
LEMMA PlacedDie ==
    ASSUME TypeOK, Placed, NEW n \in Networks, Die(n)
    PROVE  Placed'
<1> DEFINE hit(c) == job[n] = <<c>> \/ c \in Range(queue[n])
<1>1. /\ job'[n] = << >> /\ queue'[n] = << >>
      /\ \A m \in Networks : m # n => job'[m] = job[m] /\ queue'[m] = queue[m]
      /\ \A c \in Calls : end'[c] = IF hit(c) THEN "lost" ELSE end[c]
      /\ rpc' = rpc /\ task' = task
  BY DEF Die, TypeOK, None
<1>2. Range(<< >>) = {} /\ IsInjective(<< >>)
  BY DEF Range, IsInjective
<1>3. /\ \A m \in Networks : IsInjective(queue'[m])
      /\ \A m \in Networks : Range(queue[m]) \subseteq Calls
      /\ \A m \in Networks : \A d :
            d \in Range(queue'[m]) <=> d \in Range(queue[m]) /\ m # n
  <2>1. ASSUME NEW m \in Networks
        PROVE  IsInjective(queue'[m])
    BY <1>1, <1>2, <2>1 DEF Placed
  <2>2. ASSUME NEW m \in Networks
        PROVE  Range(queue[m]) \subseteq Calls
    BY <2>2 DEF Range, TypeOK
  <2>3. ASSUME NEW m \in Networks, NEW d
        PROVE  d \in Range(queue'[m]) <=> d \in Range(queue[m]) /\ m # n
    <3>1. CASE m = n
      BY <1>1, <1>2, <3>1
    <3>2. CASE m # n
      BY <1>1, <3>2
    <3> QED BY <3>1, <3>2
  <2> QED BY <2>1, <2>2, <2>3
<1>4. \A c \in Calls : hit(c) =>
        n = NetworkOf[c] /\ rpc[c] = "acked" /\ task[c] = "none"
  BY DEF Placed
<1>5. \A c \in Calls : << >> # <<c>>
  OBVIOUS
<1>6. \A m \in Networks : \A c \in Range(queue'[m]) :
        /\ m = NetworkOf[c] /\ rpc[c] = "acked"
        /\ job'[m] # <<c>> /\ task[c] = "none" /\ end'[c] = "open"
  <2>1. ASSUME NEW m \in Networks, NEW c \in Range(queue'[m])
        PROVE  m # n /\ c \in Range(queue[m]) /\ c \in Calls
    BY <1>3, <2>1
  <2>2. ASSUME NEW m \in Networks, NEW c \in Range(queue'[m])
        PROVE  m = NetworkOf[c]
    BY <2>1, <2>2 DEF Placed
  <2>3. ASSUME NEW m \in Networks, NEW c \in Range(queue'[m])
        PROVE  ~hit(c)
    BY <1>4, <2>1, <2>2, <2>3
  <2> QED BY <1>1, <2>1, <2>2, <2>3 DEF Placed
<1>7. \A m \in Networks : \A c \in Calls : job'[m] = <<c>> =>
        m = NetworkOf[c] /\ rpc[c] = "acked" /\ task[c] = "none" /\ end'[c] = "open"
  <2>1. SUFFICES ASSUME NEW m \in Networks, NEW c \in Calls, job'[m] = <<c>>
                 PROVE  m = NetworkOf[c] /\ rpc[c] = "acked" /\ task[c] = "none" /\ end'[c] = "open"
    OBVIOUS
  <2>2. m # n /\ job[m] = <<c>>
    BY <1>1, <1>5, <2>1
  <2>3. m = NetworkOf[c] /\ rpc[c] = "acked" /\ task[c] = "none" /\ end[c] = "open"
    BY <2>2 DEF Placed
  <2>4. ~hit(c)
    BY <1>4, <2>2, <2>3
  <2> QED BY <1>1, <2>3, <2>4
<1>8. \A c \in Calls : /\ task[c] # "none" => rpc[c] = "acked" /\ end'[c] = "open"
                       /\ end'[c] # "open" => rpc[c] = "acked"
  BY <1>1, <1>4 DEF Placed
<1>9. \A c \in Calls : rpc[c] = "acked" =>
        \/ c \in Range(queue'[NetworkOf[c]])
        \/ job'[NetworkOf[c]] = <<c>>
        \/ task[c] # "none"
        \/ end'[c] # "open"
  <2>1. ASSUME NEW c \in Calls, rpc[c] = "acked", task[c] = "none", ~hit(c), end[c] = "open"
        PROVE  c \in Range(queue'[NetworkOf[c]]) \/ job'[NetworkOf[c]] = <<c>>
    <3>1. NetworkOf[c] \in Networks
      BY <2>1 DEF Placed
    <3>2. c \in Range(queue[NetworkOf[c]]) \/ job[NetworkOf[c]] = <<c>>
      BY <2>1 DEF Placed
    <3>3. NetworkOf[c] # n
      BY <2>1, <3>2
    <3> QED BY <1>1, <3>1, <3>2, <3>3
  <2> QED BY <1>1, <2>1
<1> QED BY <1>1, <1>3, <1>6, <1>7, <1>8, <1>9 DEF Placed

LEMMA AlwaysPlaced == Spec => []Placed
<1>1. TypeOK /\ Placed /\ [Next]_vars => Placed'
  <2> SUFFICES ASSUME TypeOK, Placed, [Next]_vars PROVE Placed'
    OBVIOUS
  <2>1. ASSUME NEW c \in Calls, Handle(c) \/ Submit(c) PROVE Placed'
    BY <2>1, PlacedReceive, PlacedEnqueue, PlacedSubmit DEF Handle
  <2>2. ASSUME NEW n \in Networks, Start(n) PROVE Placed'
    BY <2>2, PlacedFrame DEF Start
  <2>3. ASSUME NEW n \in Networks, Recv(n) \/ Die(n) PROVE Placed'
    BY <2>3, PlacedRecv, PlacedDie
  <2>4. ASSUME NEW n \in Networks, NEW c \in Calls,
               \/ QueryModel(n, c) \/ GetInput(n, c) \/ Infer(n, c)
               \/ Transfer(n, c) \/ HandleError(n, c) \/ UploadError(n, c)
        PROVE  Placed'
    <3>1. UNCHANGED <<rpc, queue, job, task, end>>
      BY <2>4 DEF QueryModel, GetInput, Infer, Transfer, HandleError, UploadError
    <3> QED BY <3>1, PlacedFrame
  <2>5. ASSUME NEW n \in Networks, NEW c \in Calls, RunModel(n, c) PROVE Placed'
    <3>1. CASE UNCHANGED <<job, end>>
      BY <2>5, <3>1, PlacedFrame DEF RunModel
    <3>2. CASE Leave(n, c, "dropped")
      BY <2>5, <3>2, PlacedLeave DEF RunModel, Leave, At
    <3> QED BY <2>5, <3>1, <3>2 DEF RunModel
  <2>6. ASSUME NEW n \in Networks, NEW c \in Calls, Report(n, c) PROVE Placed'
    <3>1. CASE UNCHANGED <<task, job>>
      BY <2>6, <3>1, PlacedFrame DEF Report
    <3>2. CASE task' = [task EXCEPT ![c] = "upload"] /\ job' = [job EXCEPT ![n] = None]
      BY <2>6, <3>2, PlacedLeave DEF Report, At
    <3> QED BY <2>6, <3>1, <3>2 DEF Report
  <2>7. ASSUME NEW n \in Networks, NEW c \in Calls, SubmitError(n, c) PROVE Placed'
    <3>1. job[n] = <<c>> /\ UNCHANGED <<rpc, queue, task>>
      BY <2>7 DEF SubmitError, At
    <3>2. PICK how \in {"verdict", "unsent", "dropped"} : Leave(n, c, how)
      BY <2>7 DEF SubmitError
    <3> QED BY <3>1, <3>2, PlacedLeave DEF Leave
  <2>8. CASE UNCHANGED vars
    BY <2>8, PlacedFrame DEF vars
  <2> QED BY <2>1, <2>2, <2>3, <2>4, <2>5, <2>6, <2>7, <2>8 DEF Next, Work
<1> QED BY <1>1, PlacedInit, TypeCorrect, PTL DEF Spec

\* In a channel without repetition a call has one place, in no other channel any.
LEMMA QueuedCount ==
    ASSUME TypeOK, Placed, NEW c \in Calls
    PROVE  /\ rpc[c] = "acked" /\ c \in Range(queue[NetworkOf[c]]) => Cardinality(Queued(c)) = 1
           /\ rpc[c] # "acked" \/ c \notin Range(queue[NetworkOf[c]]) => Cardinality(Queued(c)) = 0
<1> DEFINE n == NetworkOf[c]
<1>1. \A m \in Networks : \A i \in 1 .. Capacity :
        i <= Len(queue[m]) /\ queue[m][i] = c => c \in Range(queue[m])
  BY LenProperties, CapacityAssumption DEF Range, TypeOK
<1>2. \A at \in Queued(c) :
        /\ at[1] \in Networks /\ at[2] \in 1 .. Capacity /\ at = <<at[1], at[2]>>
        /\ at[2] <= Len(queue[at[1]]) /\ queue[at[1]][at[2]] = c
  BY DEF Queued
<1>3. \A at \in Queued(c) : at[1] = n /\ rpc[c] = "acked" /\ c \in Range(queue[n])
  BY <1>1, <1>2 DEF Placed
<1>4. ASSUME rpc[c] # "acked" \/ c \notin Range(queue[n])
      PROVE  Cardinality(Queued(c)) = 0
  <2>1. Queued(c) = {}
    BY <1>3, <1>4
  <2> QED BY <2>1, FS_EmptySet
<1>5. ASSUME rpc[c] = "acked", c \in Range(queue[n])
      PROVE  Cardinality(Queued(c)) = 1
  <2>1. n \in Networks
    BY <1>5 DEF Placed
  <2>2. PICK i \in DOMAIN queue[n] : queue[n][i] = c
    BY <1>5 DEF Range
  <2>3. /\ queue[n] \in Seq(Calls) /\ IsInjective(queue[n])
        /\ Len(queue[n]) <= Capacity
    BY <2>1 DEF TypeOK, Placed
  <2>4. /\ DOMAIN queue[n] = 1 .. Len(queue[n]) /\ Len(queue[n]) \in Nat
        /\ i \in 1 .. Capacity /\ i <= Len(queue[n])
    BY <2>2, <2>3, LenProperties, CapacityAssumption
  <2>5. <<n, i>> \in Queued(c)
    BY <2>1, <2>2, <2>4 DEF Queued
  <2>6. ASSUME NEW at \in Queued(c) PROVE at = <<n, i>>
    <3>1. at[1] = n /\ at[2] \in DOMAIN queue[n] /\ queue[n][at[2]] = c
      BY <1>2, <1>3, <2>4, <2>6, CapacityAssumption
    <3>2. at[2] = i
      BY <2>2, <2>3, <3>1 DEF IsInjective
    <3> QED BY <1>2, <2>6, <3>1, <3>2
  <2>7. Queued(c) = {<<n, i>>}
    BY <2>5, <2>6
  <2> QED BY <2>7, FS_Singleton
<1> QED BY <1>4, <1>5

\* The worker of the call's own network may have it in its hands, no other.
LEMMA WorkedCount ==
    ASSUME TypeOK, Placed, NEW c \in Calls
    PROVE  /\ rpc[c] = "acked" /\ job[NetworkOf[c]] = <<c>> => Cardinality(Worked(c)) = 1
           /\ rpc[c] # "acked" \/ job[NetworkOf[c]] # <<c>> => Cardinality(Worked(c)) = 0
<1>1. \A n \in Worked(c) : n = NetworkOf[c] /\ rpc[c] = "acked" /\ job[NetworkOf[c]] = <<c>>
  BY DEF Worked, Placed
<1>2. ASSUME rpc[c] # "acked" \/ job[NetworkOf[c]] # <<c>>
      PROVE  Cardinality(Worked(c)) = 0
  <2>1. Worked(c) = {}
    BY <1>1, <1>2
  <2> QED BY <2>1, FS_EmptySet
<1>3. ASSUME rpc[c] = "acked", job[NetworkOf[c]] = <<c>>
      PROVE  Cardinality(Worked(c)) = 1
  <2>1. NetworkOf[c] \in Worked(c)
    BY <1>3 DEF Worked, Placed
  <2>2. Worked(c) = {NetworkOf[c]}
    BY <1>1, <2>1
  <2> QED BY <2>2, FS_Singleton
<1> QED BY <1>2, <1>3

\* Each accepted call is in exactly one place or over, whatever panics; any
\* other is nowhere: the gRPC handler, the worker and the submission tasks
\* hand every call on exactly once.
THEOREM CallsAccounted == Spec => []Accounted
<1>1. TypeOK /\ Placed => Accounted
  <2>1. SUFFICES ASSUME TypeOK, Placed, NEW c \in Calls
                 PROVE  Cardinality(Queued(c)) + Cardinality(Worked(c))
                            + Cardinality(Tasked(c)) + Cardinality(Ended(c))
                        = IF rpc[c] = "acked" THEN 1 ELSE 0
    BY DEF Accounted
  <2> DEFINE n == NetworkOf[c]
  <2>2. Cardinality(Tasked(c)) = IF task[c] = "none" THEN 0 ELSE 1
    <3>1. Tasked(c) = IF task[c] = "none" THEN {} ELSE {task[c]}
      BY DEF Tasked
    <3> QED BY <3>1, FS_EmptySet, FS_Singleton
  <2>3. Cardinality(Ended(c)) = IF end[c] = "open" THEN 0 ELSE 1
    <3>1. Ended(c) = IF end[c] = "open" THEN {} ELSE {end[c]}
      BY DEF Ended
    <3> QED BY <3>1, FS_EmptySet, FS_Singleton
  <2>4. rpc[c] # "acked" => task[c] = "none" /\ end[c] = "open"
    BY <2>1 DEF Placed
  <2>5. rpc[c] = "acked" => n \in Networks
    BY <2>1 DEF Placed
  <2>6. rpc[c] = "acked" =>
          \/ c \in Range(queue[n]) \/ job[n] = <<c>>
          \/ task[c] # "none" \/ end[c] # "open"
    BY <2>1 DEF Placed
  <2>7. rpc[c] = "acked" /\ c \in Range(queue[n]) =>
          job[n] # <<c>> /\ task[c] = "none" /\ end[c] = "open"
    BY <2>1, <2>5 DEF Placed
  <2>8. rpc[c] = "acked" /\ job[n] = <<c>> => task[c] = "none" /\ end[c] = "open"
    BY <2>1, <2>5 DEF Placed
  <2>9. task[c] # "none" => end[c] = "open"
    BY <2>1 DEF Placed
  <2> QED
    BY <2>1, <2>2, <2>3, <2>4, <2>6, <2>7, <2>8, <2>9, QueuedCount, WorkedCount
<1> QED BY <1>1, TypeCorrect, AlwaysPlaced, PTL

-----------------------------------------------------------------------------
(* What the chain is told about a call.                                    *)

\* The call has not reached the point where its transfer is sent.
Before(c) ==
    \/ rpc[c] # "acked"
    \/ c \in Range(queue[NetworkOf[c]])
    \/ /\ job[NetworkOf[c]] = <<c>>
       /\ worker[NetworkOf[c]] \in {"query", "run", "input", "infer", "transfer"}

\* The order of the chain's transactions about one call.
Ordered ==
    /\ IsInjective(chain)
    /\ \A i, j \in DOMAIN chain :
        i < j /\ chain[i][1] = chain[j][1] => chain[i][2] = "transfer"

\* The inductive invariant: when a call's transfer and its verdict are sent,
\* and what the steps on the way to the verdict rely on.
Told ==
    /\ Ordered
    /\ \A c \in Calls : Sent(c, "transfer") => Kind[c] = "transfer" /\ ~Before(c)
    /\ \A c \in Calls : Sent(c, "output") \/ Sent(c, "error") => end[c] = "verdict"
    /\ \A c \in Calls : Sent(c, "output") =>
        <<c, "output">> \in gate /\ (Kind[c] = "transfer" => Sent(c, "transfer"))
    /\ \A n \in Networks : \A c \in Calls : job[n] = <<c>> =>
        /\ worker[n] = "transfer" => Kind[c] = "transfer"
        /\ worker[n] = "report" => (Kind[c] = "transfer" => Sent(c, "transfer"))
    /\ \A c \in Calls : task[c] # "none" => (Kind[c] = "transfer" => Sent(c, "transfer"))
    /\ \A c \in Calls : task[c] = "submit" => <<c, "output">> \in gate

LEMMA ToldInit == Init => Told
BY DEF Init, Told, Ordered, Sent, None, Range, IsInjective

\* Steps that send no transaction.
LEMMA ToldQuiet ==
    ASSUME Told, chain' = chain, gate \subseteq gate',
           \A c \in Calls : end[c] = "verdict" => end'[c] = "verdict",
           \A c \in Calls : Before(c)' => Before(c),
           \A n \in Networks : \A c \in Calls : job'[n] = <<c>> =>
             /\ worker'[n] = "transfer" => Kind[c] = "transfer"
             /\ worker'[n] = "report" => (Kind[c] = "transfer" => Sent(c, "transfer")),
           \A c \in Calls : task'[c] # "none" => (Kind[c] = "transfer" => Sent(c, "transfer")),
           \A c \in Calls : task'[c] = "submit" => <<c, "output">> \in gate'
    PROVE  Told'
<1>1. Ordered'
  BY DEF Told, Ordered
<1>2. \A c \in Calls : (Sent(c, "transfer") => Kind[c] = "transfer" /\ ~Before(c))'
  BY DEF Told, Sent
<1>3. \A c \in Calls : (Sent(c, "output") \/ Sent(c, "error") => end[c] = "verdict")'
  BY DEF Told, Sent
<1>4. \A c \in Calls : (Sent(c, "output") =>
        <<c, "output">> \in gate /\ (Kind[c] = "transfer" => Sent(c, "transfer")))'
  BY DEF Told, Sent
<1> QED BY <1>1, <1>2, <1>3, <1>4 DEF Told, Sent

\* A transaction about c is sent: what was sent before it, if anything, is c's
\* transfer.
LEMMA OrderedSend ==
    ASSUME TypeOK, Ordered, NEW c \in Calls, NEW what \in {"transfer", "output", "error"},
           chain' = Append(chain, <<c, what>>), ~Sent(c, what),
           ~Sent(c, "output"), ~Sent(c, "error")
    PROVE  /\ Ordered'
           /\ \A d \in Calls : \A other \in {"transfer", "output", "error"} :
                Sent(d, other)' <=> Sent(d, other) \/ (d = c /\ other = what)
<1> DEFINE x == <<c, what>>
<1>1. x \in Transactions /\ chain \in Seq(Transactions)
  BY DEF Transactions, TypeOK
<1>2. Range(chain') = Range(chain) \cup {x} /\ x \notin Range(chain)
  BY <1>1, RangeOfAppend DEF Sent
<1>3. IsInjective(chain')
  BY <1>1, <1>2, InjectiveAppend DEF Ordered
<1>4. /\ DOMAIN chain' = 1 .. (Len(chain) + 1)
      /\ DOMAIN chain = 1 .. Len(chain)
      /\ \A i \in 1 .. Len(chain) : chain'[i] = chain[i] /\ chain[i] \in Transactions
      /\ chain'[Len(chain) + 1] = x
      /\ Len(chain) \in Nat
  BY <1>1, AppendProperties, LenProperties, ElementOfSeq
<1>5. ASSUME NEW i \in DOMAIN chain', NEW j \in DOMAIN chain',
             i < j, chain'[i][1] = chain'[j][1]
      PROVE  chain'[i][2] = "transfer"
  <2>1. i \in DOMAIN chain
    BY <1>4, <1>5
  <2>2. CASE j \in DOMAIN chain
    BY <1>4, <1>5, <2>1, <2>2 DEF Ordered
  <2>3. CASE j \notin DOMAIN chain
    <3>1. chain'[j] = x
      BY <1>4, <1>5, <2>3
    <3>2. chain[i][1] = c /\ chain[i] \in Transactions /\ chain'[i] = chain[i]
      BY <1>4, <1>5, <2>1, <3>1
    <3>3. chain[i] = <<c, chain[i][2]>> /\ chain[i][2] \in {"transfer", "output", "error"}
      BY <3>2 DEF Transactions
    <3>4. chain[i] \in Range(chain)
      BY <2>1 DEF Range
    <3>5. <<c, chain[i][2]>> \in Range(chain)
      BY <3>3, <3>4
    <3>6. chain[i][2] # "output" /\ chain[i][2] # "error"
      BY <3>5 DEF Sent
    <3> QED BY <3>2, <3>3, <3>6
  <2> QED BY <2>2, <2>3
<1>6. Ordered'
  BY <1>3, <1>5 DEF Ordered
<1>7. ASSUME NEW d \in Calls, NEW other \in {"transfer", "output", "error"}
      PROVE  Sent(d, other)' <=> Sent(d, other) \/ (d = c /\ other = what)
  BY <1>2 DEF Sent
<1> QED BY <1>6, <1>7

\* The handler's steps.
LEMMA ToldHandle ==
    ASSUME TypeOK, Placed, Told, NEW c \in Calls, Handle(c)
    PROVE  Told'
<1>1. /\ chain' = chain /\ gate' = gate /\ end' = end /\ task' = task
      /\ job' = job /\ worker' = worker
  BY DEF Handle, Receive, Enqueue, Reject
<1>2. ASSUME NEW d \in Calls, Before(d)' PROVE Before(d)
  <2>1. CASE Receive(c) \/ Reject(c)
    <3>1. rpc'[d] = "acked" => rpc[d] = "acked"
      BY <2>1 DEF Receive, Reject, TypeOK
    <3>2. queue' = queue
      BY <2>1 DEF Receive, Reject
    <3>3. rpc[d] = "acked" => rpc'[d] = "acked"
      BY <2>1 DEF Receive, Reject, TypeOK
    <3> QED BY <1>1, <1>2, <3>1, <3>2, <3>3 DEF Before
  <2>2. CASE Enqueue(c)
    <3>1. CASE d = c
      BY <2>2, <3>1 DEF Enqueue, Before
    <3>2. CASE d # c
      <4>1. rpc'[d] = rpc[d]
        BY <2>2, <3>2 DEF Enqueue, TypeOK
      <4>2. SUFFICES ASSUME rpc[d] = "acked" PROVE Before(d)
        BY DEF Before
      <4>3. NetworkOf[d] \in Networks
        BY <4>2 DEF Placed
      <4>4. CASE NetworkOf[d] # NetworkOf[c]
        <5>1. queue'[NetworkOf[d]] = queue[NetworkOf[d]]
          BY <2>2, <4>3, <4>4 DEF Enqueue, TypeOK
        <5> QED BY <1>1, <1>2, <4>1, <4>2, <5>1 DEF Before
      <4>5. CASE NetworkOf[d] = NetworkOf[c]
        <5>1. queue'[NetworkOf[d]] = Append(queue[NetworkOf[d]], c)
          BY <2>2, <4>3, <4>5 DEF Enqueue, TypeOK
        <5>2. queue[NetworkOf[d]] \in Seq(Calls)
          BY <4>3 DEF TypeOK
        <5>3. Range(queue'[NetworkOf[d]]) = Range(queue[NetworkOf[d]]) \cup {c}
          BY <5>1, <5>2, RangeOfAppend
        <5> QED BY <1>1, <1>2, <3>2, <4>1, <4>2, <5>3 DEF Before
      <4> QED BY <4>4, <4>5
    <3> QED BY <3>1, <3>2
  <2> QED BY <2>1, <2>2 DEF Handle
<1> QED BY <1>1, <1>2, ToldQuiet DEF Told

\* The steps in which a worker takes a request or dies.
LEMMA ToldTake ==
    ASSUME TypeOK, Placed, Told, NEW n \in Networks, Recv(n) \/ Die(n)
    PROVE  Told'
<1>1. /\ chain' = chain /\ gate' = gate /\ task' = task /\ rpc' = rpc
      /\ worker'[n] \in {"query", "dead"}
      /\ \A m \in Networks : m # n =>
            worker'[m] = worker[m] /\ job'[m] = job[m] /\ queue'[m] = queue[m]
  BY DEF Recv, Die, Goto, TypeOK
<1>2. \A c \in Calls : end[c] = "verdict" => end'[c] = "verdict"
  <2>1. CASE Recv(n)
    BY <2>1 DEF Recv
  <2>2. CASE Die(n)
    BY <2>2 DEF Die, Placed
  <2> QED BY <2>1, <2>2
<1>3. ASSUME NEW c \in Calls, Before(c)', rpc[c] = "acked" PROVE Before(c)
  <2>1. NetworkOf[c] \in Networks
    BY <1>3 DEF Placed
  <2>2. CASE NetworkOf[c] # n
    BY <1>1, <1>3, <2>1, <2>2 DEF Before
  <2>3. CASE NetworkOf[c] = n /\ Recv(n)
    <3>1. /\ queue[n] \in Seq(Calls) /\ queue[n] # << >> /\ IsInjective(queue[n])
          /\ queue'[n] = Tail(queue[n]) /\ job'[n] = <<Head(queue[n])>>
      BY <2>3 DEF Recv, TypeOK, Placed
    <3>2. Range(queue'[n]) \subseteq Range(queue[n]) /\ Head(queue[n]) \in Range(queue[n])
      BY <3>1, RangeOfTail
    <3>3. job'[n] = <<c>> => c = Head(queue[n])
      BY <3>1
    <3> QED BY <1>1, <1>3, <2>3, <3>2, <3>3 DEF Before
  <2>4. CASE NetworkOf[c] = n /\ Die(n)
    <3>1. queue'[n] = << >> /\ worker'[n] = "dead"
      BY <2>4 DEF Die, Goto, TypeOK
    <3>2. Range(<< >>) = {}
      BY DEF Range
    <3> QED BY <1>1, <1>3, <2>4, <3>1, <3>2 DEF Before
  <2> QED BY <2>2, <2>3, <2>4
<1>4. \A c \in Calls : Before(c)' => Before(c)
  BY <1>3 DEF Before
<1>5. \A m \in Networks : \A c \in Calls : job'[m] = <<c>> =>
        /\ worker'[m] = "transfer" => Kind[c] = "transfer"
        /\ worker'[m] = "report" => (Kind[c] = "transfer" => Sent(c, "transfer"))
  <2>1. \A c \in Calls : /\ worker'[n] = "transfer" => Kind[c] = "transfer"
                         /\ worker'[n] = "report" => (Kind[c] = "transfer" => Sent(c, "transfer"))
    BY <1>1
  <2> QED BY <1>1, <2>1 DEF Told
<1> QED BY <1>1, <1>2, <1>4, <1>5, ToldQuiet DEF Told

\* The worker's steps with a call in its hands, but those that send.
LEMMA ToldWork ==
    ASSUME TypeOK, Placed, Told, NEW n \in Networks, NEW c \in Calls,
           \/ QueryModel(n, c) \/ RunModel(n, c) \/ GetInput(n, c)
           \/ Infer(n, c) \/ Report(n, c) \/ HandleError(n, c) \/ UploadError(n, c)
    PROVE  Told'
<1>1. /\ chain' = chain /\ gate \subseteq gate' /\ rpc' = rpc /\ queue' = queue
      /\ job[n] = <<c>> /\ job'[n] \in {<<c>>, << >>}
      /\ \A m \in Networks : m # n => worker'[m] = worker[m] /\ job'[m] = job[m]
  <2>1. chain' = chain /\ gate \subseteq gate' /\ rpc' = rpc /\ queue' = queue
    BY DEF QueryModel, RunModel, GetInput, Infer, Report, HandleError, UploadError
  <2>2. /\ job[n] = <<c>>
        /\ job' = job \/ job' = [job EXCEPT ![n] = << >>]
        /\ \E label : worker' = [worker EXCEPT ![n] = label]
    BY DEF QueryModel, RunModel, GetInput, Infer, AskModel, AskAgent, Report, HandleError,
           UploadError, At, Goto, Leave, None
  <2> QED BY <2>1, <2>2 DEF TypeOK
<1>2. n = NetworkOf[c] /\ end[c] = "open"
  BY <1>1 DEF Placed
<1>3. \A d \in Calls : end[d] = "verdict" => end'[d] = "verdict"
  BY <1>2 DEF QueryModel, RunModel, GetInput, Infer, Report, HandleError, UploadError,
              Leave, TypeOK
<1>4. /\ worker[n] \notin {"query", "run", "input", "infer", "transfer"} =>
            worker'[n] \notin {"query", "run", "input", "infer", "transfer"}
      /\ worker'[n] = "transfer" => Kind[c] = "transfer"
      /\ worker'[n] = "report" => Kind[c] # "transfer"
  BY DEF QueryModel, RunModel, GetInput, Infer, AskModel, AskAgent, Report, HandleError,
         UploadError, At, Goto, Leave, TypeOK
<1>5. ASSUME NEW d \in Calls, Before(d)', rpc[d] = "acked" PROVE Before(d)
  <2>1. NetworkOf[d] \in Networks
    BY <1>5 DEF Placed
  <2>2. CASE NetworkOf[d] # n
    BY <1>1, <1>5, <2>1, <2>2 DEF Before
  <2>3. CASE NetworkOf[d] = n
    <3>1. job'[n] = <<d>> => d = c /\ job[n] = <<d>>
      BY <1>1
    <3> QED BY <1>1, <1>4, <1>5, <2>3, <3>1 DEF Before
  <2> QED BY <2>2, <2>3
<1>6. \A d \in Calls : Before(d)' => Before(d)
  BY <1>5 DEF Before
<1>7. \A m \in Networks : \A d \in Calls : job'[m] = <<d>> =>
        /\ worker'[m] = "transfer" => Kind[d] = "transfer"
        /\ worker'[m] = "report" => (Kind[d] = "transfer" => Sent(d, "transfer"))
  <2>1. \A d \in Calls : job'[n] = <<d>> => d = c
    BY <1>1
  <2>2. \A d \in Calls : job'[n] = <<d>> =>
          /\ worker'[n] = "transfer" => Kind[d] = "transfer"
          /\ worker'[n] = "report" => (Kind[d] = "transfer" => Sent(d, "transfer"))
    BY <1>4, <2>1
  <2> QED BY <1>1, <2>2 DEF Told
<1>8. \A d \in Calls :
        /\ task'[d] # "none" => (Kind[d] = "transfer" => Sent(d, "transfer"))
        /\ task'[d] = "submit" => <<d, "output">> \in gate'
  <2>1. CASE task' = task
    BY <1>1, <2>1 DEF Told
  <2>2. CASE Report(n, c) /\ task' = [task EXCEPT ![c] = "upload"]
    <3>1. Kind[c] = "transfer" => Sent(c, "transfer")
      BY <2>2 DEF Report, At, Told
    <3>2. task'[c] = "upload" /\ \A d \in Calls : d # c => task'[d] = task[d]
      BY <2>2 DEF TypeOK
    <3> QED BY <1>1, <3>1, <3>2 DEF Told
  <2> QED
    BY <2>1, <2>2
    DEF QueryModel, RunModel, GetInput, Infer, Report, HandleError, UploadError
<1> QED BY <1>1, <1>3, <1>6, <1>7, <1>8, ToldQuiet

\* Contract::transfer, whether or not its reply comes back.
LEMMA ToldTransfer ==
    ASSUME TypeOK, Placed, Told, NEW n \in Networks, NEW c \in Calls, Transfer(n, c)
    PROVE  Told'
<1>1. /\ job[n] = <<c>> /\ worker[n] = "transfer"
      /\ rpc' = rpc /\ queue' = queue /\ job' = job /\ task' = task
      /\ gate' = gate /\ end' = end
      /\ worker'[n] \in {"report", "handle_error"}
      /\ \A m \in Networks : m # n => worker'[m] = worker[m]
  BY DEF Transfer, At, Goto, TypeOK
<1>2. n = NetworkOf[c] /\ end[c] = "open" /\ Kind[c] = "transfer" /\ Before(c)
  BY <1>1 DEF Placed, Told, Before
<1>3. ~Before(c)'
  BY <1>1, <1>2 DEF Before, Placed
<1>4. ASSUME NEW d \in Calls, Before(d)', rpc[d] = "acked" PROVE Before(d)
  <2>1. NetworkOf[d] \in Networks
    BY <1>4 DEF Placed
  <2> QED BY <1>1, <1>4, <2>1 DEF Before
<1>5. \A d \in Calls : Before(d)' => Before(d)
  BY <1>1, <1>4 DEF Before
<1>6. CASE chain' = Append(chain, <<c, "transfer">>)
  <2>1. ~Sent(c, "transfer") /\ ~Sent(c, "output") /\ ~Sent(c, "error")
    BY <1>2 DEF Told
  <2>2. /\ Ordered'
        /\ \A d \in Calls : \A other \in {"transfer", "output", "error"} :
            Sent(d, other)' <=> Sent(d, other) \/ (d = c /\ other = "transfer")
    BY <1>6, <2>1, OrderedSend DEF Told
  <2>3. \A d \in Calls :
          /\ Sent(d, "transfer")' <=> Sent(d, "transfer") \/ d = c
          /\ Sent(d, "output")' <=> Sent(d, "output")
          /\ Sent(d, "error")' <=> Sent(d, "error")
    BY <2>2
  <2>4. \A d \in Calls : (Sent(d, "transfer") => Kind[d] = "transfer" /\ ~Before(d))'
    BY <1>2, <1>3, <1>5, <2>3 DEF Told
  <2>5. \A m \in Networks : \A d \in Calls : job'[m] = <<d>> =>
          /\ worker'[m] = "transfer" => Kind[d] = "transfer"
          /\ worker'[m] = "report" => (Kind[d] = "transfer" => Sent(d, "transfer")')
    <3>1. \A d \in Calls : job[n] = <<d>> => d = c
      BY <1>1
    <3> QED BY <1>1, <2>3, <3>1 DEF Told
  <2>6. /\ \A d \in Calls : (Sent(d, "output") \/ Sent(d, "error") => end[d] = "verdict")'
        /\ \A d \in Calls : (Sent(d, "output") =>
             <<d, "output">> \in gate /\ (Kind[d] = "transfer" => Sent(d, "transfer")))'
        /\ \A d \in Calls : (task[d] # "none" => (Kind[d] = "transfer" => Sent(d, "transfer")))'
        /\ \A d \in Calls : (task[d] = "submit" => <<d, "output">> \in gate)'
    BY <1>1, <2>3 DEF Told
  <2> QED BY <2>2, <2>4, <2>5, <2>6 DEF Told
<1>7. CASE chain' = chain /\ worker'[n] = "handle_error"
  <2>1. \A m \in Networks : \A d \in Calls : job'[m] = <<d>> =>
          /\ worker'[m] = "transfer" => Kind[d] = "transfer"
          /\ worker'[m] = "report" => (Kind[d] = "transfer" => Sent(d, "transfer"))
    BY <1>1, <1>7 DEF Told
  <2> QED BY <1>1, <1>5, <1>7, <2>1, ToldQuiet DEF Told
<1> QED BY <1>6, <1>7 DEF Transfer, Goto, TypeOK

\* A call's verdict, whoever sends it, ends the call.
LEMMA ToldVerdict ==
    ASSUME TypeOK, Placed, Told, NEW c \in Calls, NEW what \in {"output", "error"},
           chain' = Append(chain, <<c, what>>), end' = [end EXCEPT ![c] = "verdict"],
           end[c] = "open", gate' = gate,
           what = "output" =>
             <<c, "output">> \in gate /\ (Kind[c] = "transfer" => Sent(c, "transfer")),
           \A d \in Calls : Before(d)' => Before(d),
           \A n \in Networks : \A d \in Calls : job'[n] = <<d>> =>
             job[n] = <<d>> /\ worker'[n] = worker[n],
           \A d \in Calls : task'[d] # "none" => task'[d] = task[d]
    PROVE  Told'
<1>1. ~Sent(c, "output") /\ ~Sent(c, "error")
  BY DEF Told
<1>2. ~Sent(c, what)
  BY <1>1
<1>3. /\ Ordered'
      /\ \A d \in Calls : \A other \in {"transfer", "output", "error"} :
          Sent(d, other)' <=> Sent(d, other) \/ (d = c /\ other = what)
  BY <1>1, <1>2, OrderedSend DEF Told
<1>4. \A d \in Calls :
        /\ Sent(d, "transfer")' <=> Sent(d, "transfer")
        /\ Sent(d, "output")' <=> Sent(d, "output") \/ (d = c /\ what = "output")
        /\ Sent(d, "error")' <=> Sent(d, "error") \/ (d = c /\ what = "error")
  BY <1>3
<1>5. end'[c] = "verdict" /\ \A d \in Calls : d # c => end'[d] = end[d]
  BY DEF TypeOK
<1>6. /\ \A d \in Calls : (Sent(d, "transfer") => Kind[d] = "transfer" /\ ~Before(d))'
      /\ \A d \in Calls : (Sent(d, "output") \/ Sent(d, "error") => end[d] = "verdict")'
      /\ \A d \in Calls : (Sent(d, "output") =>
           <<d, "output">> \in gate /\ (Kind[d] = "transfer" => Sent(d, "transfer")))'
  BY <1>4, <1>5 DEF Told
<1>7. \A n \in Networks : \A d \in Calls : (job[n] = <<d>> =>
        /\ worker[n] = "transfer" => Kind[d] = "transfer"
        /\ worker[n] = "report" => (Kind[d] = "transfer" => Sent(d, "transfer")))'
  BY <1>4 DEF Told
<1>8. /\ \A d \in Calls : (task[d] # "none" => (Kind[d] = "transfer" => Sent(d, "transfer")))'
      /\ \A d \in Calls : (task[d] = "submit" => <<d, "output">> \in gate)'
  BY <1>4 DEF Told
<1> QED BY <1>3, <1>6, <1>7, <1>8 DEF Told

\* The error a worker submits.
LEMMA ToldSubmitError ==
    ASSUME TypeOK, Placed, Told, NEW n \in Networks, NEW c \in Calls, SubmitError(n, c)
    PROVE  Told'
<1>1. /\ job[n] = <<c>> /\ worker[n] = "submit"
      /\ rpc' = rpc /\ queue' = queue /\ task' = task /\ gate' = gate
      /\ job'[n] = << >> /\ worker'[n] = "recv"
      /\ \A m \in Networks : m # n => worker'[m] = worker[m] /\ job'[m] = job[m]
  BY DEF SubmitError, At, Leave, Goto, TypeOK, None
<1>2. end[c] = "open"
  BY <1>1 DEF Placed
<1>3. ASSUME NEW d \in Calls, Before(d)', rpc[d] = "acked" PROVE Before(d)
  <2>1. NetworkOf[d] \in Networks
    BY <1>3 DEF Placed
  <2> QED BY <1>1, <1>3, <2>1 DEF Before
<1>4. \A d \in Calls : Before(d)' => Before(d)
  BY <1>1, <1>3 DEF Before
<1>5. \A m \in Networks : \A d \in Calls : job'[m] = <<d>> =>
        job[m] = <<d>> /\ worker'[m] = worker[m]
  <2>1. \A d \in Calls : << >> # <<d>>
    OBVIOUS
  <2> QED BY <1>1, <2>1
<1>6. CASE chain' = Append(chain, <<c, "error">>) /\ end' = [end EXCEPT ![c] = "verdict"]
  BY <1>1, <1>2, <1>4, <1>5, <1>6, ToldVerdict
<1>7. CASE chain' = chain /\ end' = [end EXCEPT ![c] = "unsent"]
  <2>1. \A d \in Calls : end[d] = "verdict" => end'[d] = "verdict"
    BY <1>2, <1>7 DEF TypeOK
  <2>2. \A m \in Networks : \A d \in Calls : job'[m] = <<d>> =>
          /\ worker'[m] = "transfer" => Kind[d] = "transfer"
          /\ worker'[m] = "report" => (Kind[d] = "transfer" => Sent(d, "transfer"))
    BY <1>5 DEF Told
  <2> QED BY <1>1, <1>4, <1>7, <2>1, <2>2, ToldQuiet DEF Told
<1> QED BY <1>6, <1>7 DEF SubmitError, Leave

\* The task that uploads and submits an output.
LEMMA ToldSubmit ==
    ASSUME TypeOK, Placed, Told, NEW c \in Calls, Submit(c)
    PROVE  Told'
<1>1. /\ task[c] # "none" /\ rpc' = rpc /\ queue' = queue /\ worker' = worker /\ job' = job
      /\ \A d \in Calls : d # c => task'[d] = task[d]
  BY DEF Submit, UploadOutput, SubmitOutput, TypeOK
<1>2. end[c] = "open" /\ (Kind[c] = "transfer" => Sent(c, "transfer"))
  BY <1>1 DEF Placed, Told
<1>3. \A d \in Calls : Before(d)' => Before(d)
  BY <1>1 DEF Before
<1>4. CASE UploadOutput(c)
  <2>1. chain' = chain /\ gate \subseteq gate'
    BY <1>4 DEF UploadOutput
  <2>2. \A d \in Calls : end[d] = "verdict" => end'[d] = "verdict"
    BY <1>2, <1>4 DEF UploadOutput, TypeOK
  <2>3. task'[c] = "submit" => <<c, "output">> \in gate'
    BY <1>4 DEF UploadOutput, TypeOK
  <2>4. \A d \in Calls :
          /\ task'[d] # "none" => (Kind[d] = "transfer" => Sent(d, "transfer"))
          /\ task'[d] = "submit" => <<d, "output">> \in gate'
    BY <1>1, <1>2, <2>1, <2>3 DEF Told
  <2> QED BY <1>1, <1>3, <2>1, <2>2, <2>4, ToldQuiet DEF Told
<1>5. CASE SubmitOutput(c)
  <2>1. gate' = gate /\ task[c] = "submit" /\ task'[c] = "none"
    BY <1>5 DEF SubmitOutput, TypeOK
  <2>2. <<c, "output">> \in gate
    BY <2>1 DEF Told
  <2>3. CASE chain' = Append(chain, <<c, "output">>) /\ end' = [end EXCEPT ![c] = "verdict"]
    BY <1>1, <1>2, <1>3, <2>1, <2>2, <2>3, ToldVerdict
  <2>4. CASE chain' = chain /\ end' = [end EXCEPT ![c] = "unsent"]
    <3>1. \A d \in Calls : end[d] = "verdict" => end'[d] = "verdict"
      BY <1>2, <2>4 DEF TypeOK
    <3> QED BY <1>1, <1>3, <2>1, <2>4, <3>1, ToldQuiet DEF Told
  <2> QED BY <1>5, <2>3, <2>4 DEF SubmitOutput
<1> QED BY <1>4, <1>5 DEF Submit

\* Steps that change none of what Told speaks of, but let a worker start.
LEMMA ToldFrame ==
    ASSUME TypeOK, Placed, Told,
           (\E n \in Networks : Start(n)) \/ UNCHANGED vars
    PROVE  Told'
<1>1. /\ rpc' = rpc /\ queue' = queue /\ job' = job /\ task' = task
      /\ gate' = gate /\ chain' = chain /\ end' = end
      /\ \A m \in Networks : worker'[m] \in {worker[m], "recv"}
  BY DEF Start, Goto, vars, TypeOK
<1>2. ASSUME NEW d \in Calls, Before(d)', rpc[d] = "acked" PROVE Before(d)
  <2>1. NetworkOf[d] \in Networks
    BY <1>2 DEF Placed
  <2> QED BY <1>1, <1>2, <2>1 DEF Before
<1>3. \A d \in Calls : Before(d)' => Before(d)
  BY <1>1, <1>2 DEF Before
<1>4. \A m \in Networks : \A d \in Calls : job'[m] = <<d>> =>
        /\ worker'[m] = "transfer" => Kind[d] = "transfer"
        /\ worker'[m] = "report" => (Kind[d] = "transfer" => Sent(d, "transfer"))
  BY <1>1 DEF Told
<1> QED BY <1>1, <1>3, <1>4, ToldQuiet DEF Told

LEMMA AlwaysTold == Spec => []Told
<1>1. TypeOK /\ Placed /\ Told /\ [Next]_vars => Told'
  <2> SUFFICES ASSUME TypeOK, Placed, Told, [Next]_vars PROVE Told'
    OBVIOUS
  <2>1. ASSUME NEW c \in Calls, Handle(c) PROVE Told'
    BY <2>1, ToldHandle
  <2>2. ASSUME NEW c \in Calls, Submit(c) PROVE Told'
    BY <2>2, ToldSubmit
  <2>3. ASSUME NEW n \in Networks, Work(n) PROVE Told'
    BY <2>3, ToldFrame, ToldTake, ToldWork, ToldTransfer, ToldSubmitError DEF Work
  <2>4. CASE UNCHANGED vars
    BY <2>4, ToldFrame
  <2> QED BY <2>1, <2>2, <2>3, <2>4 DEF Next
<1> QED BY <1>1, ToldInit, TypeCorrect, AlwaysPlaced, PTL DEF Spec

\* Whatever fails or panics, the chain sees at most one transfer and at most one
\* verdict of a call, the verdict last, and the output of a transfer only after
\* it: no path of process_inference and handle_error sends twice.
THEOREM OneStoryTold == Spec => []OneStory
<1>1. Told => OneStory
  BY DEF Told, Ordered, OneStory
<1> QED BY <1>1, AlwaysTold, PTL

\* The submission task submits no output it could not upload.
THEOREM OutputsAvailable == Spec => []OutputAvailable
<1>1. Told => OutputAvailable
  BY DEF Told, OutputAvailable
<1> QED BY <1>1, AlwaysTold, PTL

-----------------------------------------------------------------------------
(* The promise of CallOutcome.                                             *)

\* What the gate server was told of each call, and the calls that are over.
Answer == [c \in Calls |-> IF rpc[c] \in {"new", "sending"} THEN "none" ELSE rpc[c]]
Over == {c \in Calls : end[c] # "open"}

\* A step that tells nobody anything.
LEMMA OutcomeQuiet ==
    ASSUME UNCHANGED <<rpc, chain, end>>
    PROVE  UNCHANGED Outcome!vars
BY DEF Outcome!vars

\* Calls in the node's hands end without a word.
LEMMA OutcomeForget ==
    ASSUME TypeOK, NEW S \in SUBSET Calls, UNCHANGED <<rpc, chain>>,
           \A c \in S : rpc[c] = "acked" /\ end[c] = "open" /\ end'[c] # "open",
           \A c \in Calls \ S : end'[c] = end[c]
    PROVE  Outcome!Forget
<1>1. S \in SUBSET {c \in Calls : Outcome!Alive(c)}
  BY DEF Outcome!Alive, TypeOK
<1>2. {c \in Calls : end[c] # "open"}' = {c \in Calls : end[c] # "open"} \cup S
  OBVIOUS
<1> QED BY <1>1, <1>2 DEF Outcome!Forget

\* The verdict on a call in the node's hands.
LEMMA OutcomeConclude ==
    ASSUME TypeOK, NEW c \in Calls, NEW what \in {"output", "error"},
           rpc[c] = "acked", end[c] = "open", rpc' = rpc,
           chain' = Append(chain, <<c, what>>), end' = [end EXCEPT ![c] = "verdict"],
           what = "output" => (Kind[c] = "transfer" => Sent(c, "transfer"))
    PROVE  Outcome!Conclude(c, what)
<1>1. Outcome!Alive(c)
  BY DEF Outcome!Alive
<1>2. {d \in Calls : end[d] # "open"}' = {d \in Calls : end[d] # "open"} \cup {c}
  BY DEF TypeOK
<1> QED BY <1>1, <1>2 DEF Outcome!Conclude, Outcome!Sent, Sent, Range, Outcome!Range

\* A call is answered once.
LEMMA OutcomeHandle ==
    ASSUME TypeOK, NEW c \in Calls, Handle(c)
    PROVE  Outcome!Next \/ UNCHANGED Outcome!vars
<1>1. chain' = chain /\ end' = end
  BY DEF Handle, Receive, Enqueue, Reject
<1>2. CASE rpc' = [rpc EXCEPT ![c] = "sending"] /\ rpc[c] = "new"
  BY <1>1, <1>2 DEF Outcome!vars, TypeOK
<1>3. ASSUME NEW word \in {"acked", "refused"}, rpc[c] \in {"new", "sending"},
             rpc' = [rpc EXCEPT ![c] = word]
      PROVE  Outcome!Reply(c)
  <2>1. Answer[c] = "none" /\ Answer' = [Answer EXCEPT ![c] = word]
    BY <1>3 DEF Answer, TypeOK
  <2> QED BY <1>1, <2>1 DEF Outcome!Reply, Answer
<1>4. \/ rpc[c] = "new" /\ rpc' = [rpc EXCEPT ![c] = "sending"]
      \/ /\ rpc[c] \in {"new", "sending"}
         /\ \E word \in {"acked", "refused"} : rpc' = [rpc EXCEPT ![c] = word]
  BY DEF Handle, Receive, Enqueue, Reject
<1> QED BY <1>2, <1>3, <1>4 DEF Outcome!Next

\* The task that submits an output concludes its call or gives it up.
LEMMA OutcomeSubmit ==
    ASSUME TypeOK, Placed, Told, NEW c \in Calls, Submit(c)
    PROVE  Outcome!Next \/ UNCHANGED Outcome!vars
<1>1. task[c] # "none" /\ rpc' = rpc
  BY DEF Submit, UploadOutput, SubmitOutput
<1>2. rpc[c] = "acked" /\ end[c] = "open" /\ (Kind[c] = "transfer" => Sent(c, "transfer"))
  BY <1>1 DEF Placed, Told
<1>3. CASE chain' = chain /\ end' = [end EXCEPT ![c] = "unsent"]
  <2>1. end'[c] # "open" /\ \A d \in Calls \ {c} : end'[d] = end[d]
    BY <1>3 DEF TypeOK
  <2>2. Outcome!Forget
    BY <1>1, <1>2, <1>3, <2>1, OutcomeForget, {c} \in SUBSET Calls
  <2> QED BY <2>2 DEF Outcome!Next
<1>4. CASE chain' = Append(chain, <<c, "output">>) /\ end' = [end EXCEPT ![c] = "verdict"]
  <2>1. Outcome!Conclude(c, "output")
    BY <1>1, <1>2, <1>4, OutcomeConclude
  <2> QED BY <2>1 DEF Outcome!Next
<1>5. CASE chain' = chain /\ end' = end
  BY <1>1, <1>5, OutcomeQuiet
<1> QED BY <1>3, <1>4, <1>5 DEF Submit, UploadOutput, SubmitOutput

\* The worker with a call in its hands.
LEMMA OutcomeWork ==
    ASSUME TypeOK, Placed, Told, NEW n \in Networks, NEW c \in Calls,
           \/ QueryModel(n, c) \/ RunModel(n, c) \/ GetInput(n, c)
           \/ Infer(n, c) \/ Transfer(n, c) \/ Report(n, c)
           \/ HandleError(n, c) \/ UploadError(n, c) \/ SubmitError(n, c)
    PROVE  Outcome!Next \/ UNCHANGED Outcome!vars
<1>1. job[n] = <<c>> /\ rpc' = rpc
  BY DEF QueryModel, RunModel, GetInput, Infer, Transfer, Report, HandleError,
         UploadError, SubmitError, At
<1>2. n = NetworkOf[c] /\ rpc[c] = "acked" /\ end[c] = "open"
  BY <1>1 DEF Placed
<1>3. CASE chain' = chain /\ end' = end
  BY <1>1, <1>3, OutcomeQuiet
<1>4. CASE chain' = chain /\ \E how \in {"dropped", "unsent"} : end' = [end EXCEPT ![c] = how]
  <2>1. end'[c] # "open" /\ \A d \in Calls \ {c} : end'[d] = end[d]
    BY <1>4 DEF TypeOK
  <2>2. Outcome!Forget
    BY <1>1, <1>2, <1>4, <2>1, OutcomeForget, {c} \in SUBSET Calls
  <2> QED BY <2>2 DEF Outcome!Next
<1>5. CASE chain' = Append(chain, <<c, "error">>) /\ end' = [end EXCEPT ![c] = "verdict"]
  <2>1. Outcome!Conclude(c, "error")
    BY <1>1, <1>2, <1>5, OutcomeConclude
  <2> QED BY <2>1 DEF Outcome!Next
<1>6. CASE /\ worker[n] = "transfer"
           /\ chain' = Append(chain, <<c, "transfer">>) /\ end' = end
  <2>1. Kind[c] = "transfer" /\ Before(c)
    BY <1>1, <1>2, <1>6 DEF Told, Before
  <2>2. ~Sent(c, "transfer")
    BY <2>1 DEF Told
  <2>3. Outcome!Pay(c)
    BY <1>1, <1>2, <1>6, <2>1, <2>2
       DEF Outcome!Pay, Outcome!Alive, Outcome!Sent, Sent, Range, Outcome!Range
  <2> QED BY <2>3 DEF Outcome!Next
<1>7. CASE QueryModel(n, c) \/ GetInput(n, c) \/ Infer(n, c) \/ Report(n, c)
           \/ HandleError(n, c) \/ UploadError(n, c)
  BY <1>3, <1>7 DEF QueryModel, GetInput, Infer, Report, HandleError, UploadError
<1>8. CASE RunModel(n, c)
  BY <1>3, <1>4, <1>8 DEF RunModel, Leave
<1>9. CASE Transfer(n, c)
  BY <1>3, <1>6, <1>9 DEF Transfer, At
<1>10. CASE SubmitError(n, c)
  BY <1>4, <1>5, <1>10 DEF SubmitError, Leave
<1> QED BY <1>7, <1>8, <1>9, <1>10

\* A panic ends the call in the worker's hands and those in its channel.
LEMMA OutcomeDie ==
    ASSUME TypeOK, Placed, NEW n \in Networks, Die(n)
    PROVE  Outcome!Next
<1> DEFINE S == {c \in Calls : job[n] = <<c>> \/ c \in Range(queue[n])}
<1>1. \A c \in S : rpc[c] = "acked" /\ end[c] = "open" /\ end'[c] # "open"
  BY DEF Placed, Die
<1>2. \A c \in Calls \ S : end'[c] = end[c]
  BY DEF Die
<1>3. UNCHANGED <<rpc, chain>> /\ S \in SUBSET Calls
  BY DEF Die
<1>4. Outcome!Forget
  BY <1>1, <1>2, <1>3, OutcomeForget
<1> QED BY <1>4 DEF Outcome!Next

\* The node keeps its promise about every call: whatever fails, is lost or
\* panics, each step of it is one that CallOutcome allows, or no word to anyone.
THEOREM ServerImplementsOutcome == Spec => ImplementsOutcome
<1>1. Init => Outcome!Init
  BY DEF Init, Outcome!Init
<1>2. TypeOK /\ Placed /\ Told /\ [Next]_vars => [Outcome!Next]_(Outcome!vars)
  <2> SUFFICES ASSUME TypeOK, Placed, Told, [Next]_vars
               PROVE  Outcome!Next \/ UNCHANGED Outcome!vars
    OBVIOUS
  <2>1. ASSUME NEW n \in Networks, Start(n) \/ Recv(n)
        PROVE  UNCHANGED Outcome!vars
    BY <2>1, OutcomeQuiet DEF Start, Recv
  <2>2. CASE UNCHANGED vars
    BY <2>2, OutcomeQuiet DEF vars
  <2> QED BY <2>1, <2>2, OutcomeHandle, OutcomeSubmit, OutcomeWork, OutcomeDie
          DEF Next, Work
<1> QED BY <1>1, <1>2, AlwaysPlaced, AlwaysTold, TypeCorrect, PTL
        DEF Spec, ImplementsOutcome, Outcome!Spec

-----------------------------------------------------------------------------
(* Each network by itself.                                                 *)

\* The part of chain about the calls of each network, in order.
VARIABLE onChain

SplitInit == onChain = [n \in Networks |-> << >>]

\* How it follows chain: what is sent joins the sequence of its call's network.
SplitStep ==
    LET new == chain'[Len(chain')] IN
    onChain' = [n \in Networks |->
                  IF chain' # chain /\ NetworkOf[new[1]] = n
                  THEN Append(onChain[n], new) ELSE onChain[n]]

Split == SplitInit /\ [][SplitStep]_<<chain, onChain>>

Of(n) == {c \in Calls : NetworkOf[c] = n}

\* A node that serves network n alone: its calls, faults, channel, worker, tasks, and
\* what they store and send.
Alone(n) == INSTANCE AizelServer WITH
    Networks <- {n}, Calls <- Of(n), NetworkOf <- [c \in Of(n) |-> n],
    Kind <- [c \in Of(n) |-> Kind[c]], BadKey <- BadKey \cap Of(n),
    Faults <- Faults \cap ({n} \X FaultNames),
    rpc <- [c \in Of(n) |-> rpc[c]], task <- [c \in Of(n) |-> task[c]],
    end <- [c \in Of(n) |-> end[c]],
    queue <- [m \in {n} |-> queue[m]], worker <- [m \in {n} |-> worker[m]],
    job <- [m \in {n} |-> job[m]],
    gate <- {g \in gate : g[1] \in Of(n)}, chain <- onChain[n]

\* The faults of network n are its own.
LEMMA AloneMay ==
    ASSUME NEW n \in Networks, NEW f
    PROVE  Alone(n)!May(n, f) <=> May(n, f)
BY FaultAssumption DEF Alone!May, May

\* Where its worker is, and where it goes.
LEMMA AloneAt ==
    ASSUME NEW n \in Networks, NEW c, NEW label
    PROVE  Alone(n)!At(n, c, label) <=> At(n, c, label)
BY DEF Alone!At, At

LEMMA AloneGoto ==
    ASSUME TypeOK, NEW n \in Networks, NEW label, Goto(n, label)
    PROVE  Alone(n)!Goto(n, label)
BY DEF Alone!Goto, Goto, TypeOK

LEMMA AloneLeave ==
    ASSUME TypeOK, NEW n \in Networks, NEW c \in Of(n), NEW how, Leave(n, c, how)
    PROVE  Alone(n)!Leave(n, c, how)
<1>1. Alone(n)!Goto(n, "recv")
  BY AloneGoto DEF Leave
<1>2. [m \in {n} |-> job'[m]] = [[m \in {n} |-> job[m]] EXCEPT ![n] = << >>]
  BY DEF Leave, None, TypeOK
<1>3. [d \in Of(n) |-> end'[d]] = [[d \in Of(n) |-> end[d]] EXCEPT ![c] = how]
  BY DEF Leave, Of, TypeOK
<1> QED BY <1>1, <1>2, <1>3 DEF Alone!Leave, Alone!None

\* The handler of one of its calls.
LEMMA AloneHandle ==
    ASSUME TypeOK, Placed, NEW n \in Networks, NEW c \in Of(n), Handle(c),
           onChain'[n] = onChain[n]
    PROVE  Alone(n)!Handle(c)
<1> USE DEF Of, TypeOK
<1>1. CASE Receive(c)
  BY <1>1 DEF Receive, Alone!Handle, Alone!Receive
<1>2. CASE Enqueue(c)
  <2>1. NetworkOf[c] = n /\ UNCHANGED <<worker, job, task, gate, end>>
    BY <1>2 DEF Enqueue
  <2>2. [m \in {n} |-> queue'[m]] = [[m \in {n} |-> queue[m]] EXCEPT ![n] = Append(@, c)]
    BY <1>2, <2>1 DEF Enqueue
  <2>3. [d \in Of(n) |-> rpc'[d]] = [[d \in Of(n) |-> rpc[d]] EXCEPT ![c] = "acked"]
    BY <1>2 DEF Enqueue
  <2> QED BY <1>2, <2>1, <2>2, <2>3 DEF Enqueue, Alone!Handle, Alone!Enqueue
<1>3. CASE Reject(c)
  BY <1>3 DEF Reject, Alone!Handle, Alone!Reject
<1> QED BY <1>1, <1>2, <1>3 DEF Handle

\* A transaction about call c joins the sequence of c's network.
LEMMA SplitSend ==
    ASSUME TypeOK, [SplitStep]_<<chain, onChain>>, NEW n \in Networks, NEW c \in Calls,
           NEW what \in {"transfer", "output", "error"}, chain' = Append(chain, <<c, what>>)
    PROVE  onChain'[n] = IF NetworkOf[c] = n THEN Append(onChain[n], <<c, what>>)
                                             ELSE onChain[n]
<1>1. <<c, what>> \in Transactions /\ chain \in Seq(Transactions)
  BY DEF Transactions, TypeOK
<1>2. Len(chain') = Len(chain) + 1 /\ chain'[Len(chain')] = <<c, what>> /\ Len(chain) \in Nat
  BY <1>1, AppendProperties, LenProperties
<1>3. chain' # chain
  BY <1>2
<1>4. SplitStep
  BY <1>3
<1> QED BY <1>2, <1>3, <1>4 DEF SplitStep

LEMMA SplitQuiet ==
    ASSUME [SplitStep]_<<chain, onChain>>, chain' = chain, NEW n \in Networks
    PROVE  onChain'[n] = onChain[n]
BY DEF SplitStep

\* The submission task of one of its calls.
LEMMA AloneSubmit ==
    ASSUME TypeOK, Placed, [SplitStep]_<<chain, onChain>>, NEW n \in Networks, NEW c \in Of(n), Submit(c)
    PROVE  Alone(n)!Submit(c)
<1> USE AloneMay DEF Of
<1>0. NetworkOf[c] = n /\ c \in Calls
  OBVIOUS
<1>1. ASSUME NEW to, task' = [task EXCEPT ![c] = to]
      PROVE  [d \in Of(n) |-> task'[d]] = [[d \in Of(n) |-> task[d]] EXCEPT ![c] = to]
  BY <1>1 DEF TypeOK
<1>2. ASSUME NEW how, end' = [end EXCEPT ![c] = how]
      PROVE  [d \in Of(n) |-> end'[d]] = [[d \in Of(n) |-> end[d]] EXCEPT ![c] = how]
  BY <1>2 DEF TypeOK
<1>3. chain' = Append(chain, <<c, "output">>) => onChain'[n] = Append(onChain[n], <<c, "output">>)
  BY SplitSend
<1>4. chain' = chain => onChain'[n] = onChain[n]
  BY SplitQuiet
<1>5. CASE UploadOutput(c)
  <2>1. gate' = gate \cup {<<c, "output">>} =>
          {g \in gate' : g[1] \in Of(n)} = {g \in gate : g[1] \in Of(n)} \cup {<<c, "output">>}
    OBVIOUS
  <2> QED BY <1>0, <1>1, <1>2, <1>4, <1>5, <2>1
          DEF UploadOutput, Alone!Submit, Alone!UploadOutput
<1>6. CASE SubmitOutput(c)
  <2>1. task[c] = "submit" /\ [d \in Of(n) |-> task[d]][c] = "submit"
    BY <1>6 DEF SubmitOutput
  <2>2. [d \in Of(n) |-> task'[d]] = [[d \in Of(n) |-> task[d]] EXCEPT ![c] = "none"]
    BY <1>1, <1>6 DEF SubmitOutput
  <2>3. \/ /\ onChain'[n] = Append(onChain[n], <<c, "output">>)
           /\ [d \in Of(n) |-> end'[d]] = [[d \in Of(n) |-> end[d]] EXCEPT ![c] = "verdict"]
        \/ /\ Alone(n)!May(n, "refuse")
           /\ [d \in Of(n) |-> end'[d]] = [[d \in Of(n) |-> end[d]] EXCEPT ![c] = "unsent"]
           /\ onChain'[n] = onChain[n]
    BY <1>0, <1>2, <1>3, <1>4, <1>6 DEF SubmitOutput
  <2>4. UNCHANGED <<rpc, queue, worker, job, gate>>
    BY <1>6 DEF SubmitOutput
  <2> QED BY <1>0, <2>1, <2>2, <2>3, <2>4 DEF Alone!Submit, Alone!SubmitOutput
<1> QED BY <1>5, <1>6 DEF Submit

\* The worker of the network takes a request or dies.
LEMMA AloneTake ==
    ASSUME TypeOK, Placed, NEW n \in Networks, Start(n) \/ Recv(n) \/ Die(n),
           onChain'[n] = onChain[n]
    PROVE  Alone(n)!Work(n)
<1> USE DEF Alone!Work
<1>1. CASE Start(n)
  BY <1>1, AloneGoto DEF Start, Alone!Start
<1>2. CASE Recv(n)
  BY <1>2, AloneGoto DEF Recv, Alone!Recv, TypeOK
<1>3. CASE Die(n)
  <2>1. ASSUME NEW c \in Calls, job[n] = <<c>>, Panics(n, c)
        PROVE  c \in Of(n) /\ Alone(n)!Panics(n, c)
    <3>1. c \in Of(n)
      BY <2>1 DEF Placed, Of
    <3> QED BY <2>1, <3>1, AloneMay DEF Panics, Alone!Panics
  <2>2. \/ worker[n] = "start" /\ Alone(n)!May(n, "attest")
        \/ \E c \in Of(n) : job[n] = <<c>> /\ Alone(n)!Panics(n, c)
    BY <1>3, <2>1, AloneMay DEF Die
  <2>3. [c \in Of(n) |-> end'[c]] =
          [c \in Of(n) |-> IF \/ [m \in {n} |-> job[m]][n] = <<c>>
                              \/ c \in Alone(n)!Range([m \in {n} |-> queue[m]][n])
                           THEN "lost" ELSE [d \in Of(n) |-> end[d]][c]]
    BY <1>3 DEF Die, Of, Range, Alone!Range
  <2>4. /\ Alone(n)!Goto(n, "dead")
        /\ [m \in {n} |-> job'[m]] = [[m \in {n} |-> job[m]] EXCEPT ![n] = << >>]
        /\ [m \in {n} |-> queue'[m]] = [[m \in {n} |-> queue[m]] EXCEPT ![n] = << >>]
    BY <1>3, AloneGoto DEF Die, None, TypeOK
  <2>5. UNCHANGED <<rpc, task, gate>>
    BY <1>3 DEF Die
  <2> QED BY <2>2, <2>3, <2>4, <2>5 DEF Alone!Die, Alone!None
<1> QED BY <1>1, <1>2, <1>3

\* The worker of the network, with a call in its hands.
LEMMA AloneWork ==
    ASSUME TypeOK, Placed, [SplitStep]_<<chain, onChain>>, NEW n \in Networks, NEW c \in Of(n),
           \/ QueryModel(n, c) \/ RunModel(n, c) \/ GetInput(n, c)
           \/ Infer(n, c) \/ Report(n, c) \/ HandleError(n, c) \/ UploadError(n, c)
    PROVE  Alone(n)!Work(n)
<1> USE AloneMay, AloneAt, AloneGoto, AloneLeave DEF Alone!Work
<1>1. onChain'[n] = onChain[n]
  BY SplitQuiet DEF QueryModel, RunModel, GetInput, Infer, Report, HandleError, UploadError
<1>2. CASE QueryModel(n, c)
  BY <1>1, <1>2 DEF QueryModel, Alone!QueryModel
<1>3. CASE RunModel(n, c)
  BY <1>1, <1>3 DEF RunModel, Alone!RunModel
<1>4. CASE GetInput(n, c)
  BY <1>1, <1>4 DEF GetInput, Alone!GetInput
<1>5. CASE Infer(n, c)
  BY <1>1, <1>5 DEF Infer, AskModel, AskAgent, Alone!Infer, Alone!AskModel, Alone!AskAgent, Of
<1>6. CASE Report(n, c)
  <2>1. /\ task' = [task EXCEPT ![c] = "upload"] =>
             [d \in Of(n) |-> task'[d]] = [[d \in Of(n) |-> task[d]] EXCEPT ![c] = "upload"]
        /\ job' = [job EXCEPT ![n] = None] =>
             [m \in {n} |-> job'[m]] = [[m \in {n} |-> job[m]] EXCEPT ![n] = << >>]
    BY DEF TypeOK, Of, None
  <2> QED BY <1>1, <1>6, <2>1 DEF Report, Alone!Report, Alone!None
<1>7. CASE HandleError(n, c)
  BY <1>1, <1>7 DEF HandleError, Alone!HandleError
<1>8. CASE UploadError(n, c)
  <2>1. gate' = gate \cup {<<c, "error">>} =>
          {g \in gate' : g[1] \in Of(n)} = {g \in gate : g[1] \in Of(n)} \cup {<<c, "error">>}
    OBVIOUS
  <2> QED BY <1>1, <1>8, <2>1 DEF UploadError, Alone!UploadError
<1> QED BY <1>2, <1>3, <1>4, <1>5, <1>6, <1>7, <1>8

\* The worker of the network, when it sends.
LEMMA AloneSend ==
    ASSUME TypeOK, Placed, [SplitStep]_<<chain, onChain>>, NEW n \in Networks, NEW c \in Of(n),
           Transfer(n, c) \/ SubmitError(n, c)
    PROVE  Alone(n)!Work(n)
<1> USE AloneMay, AloneAt, AloneGoto, AloneLeave DEF Alone!Work
<1>1. ASSUME NEW what \in {"transfer", "error"}, chain' = Append(chain, <<c, what>>)
      PROVE  onChain'[n] = Append(onChain[n], <<c, what>>)
  BY <1>1, SplitSend DEF Of
<1>2. chain' = chain => onChain'[n] = onChain[n]
  BY SplitQuiet
<1>3. CASE Transfer(n, c)
  BY <1>1, <1>2, <1>3 DEF Transfer, Alone!Transfer
<1>4. CASE SubmitError(n, c)
  BY <1>1, <1>2, <1>4 DEF SubmitError, Alone!SubmitError
<1> QED BY <1>3, <1>4

\* What the others do leaves the network as it is: the handler of a call that is not its
\* own, or of none of the networks, and such a call's submission task.
LEMMA AloneFrame ==
    ASSUME NEW n \in Networks,
           \A c \in Of(n) : rpc'[c] = rpc[c] /\ task'[c] = task[c] /\ end'[c] = end[c],
           queue'[n] = queue[n], worker'[n] = worker[n], job'[n] = job[n],
           \A g \in gate \cup gate' : g[1] \in Of(n) => (g \in gate <=> g \in gate'),
           onChain'[n] = onChain[n]
    PROVE  UNCHANGED Alone(n)!vars
<1>1. {g \in gate' : g[1] \in Of(n)} = {g \in gate : g[1] \in Of(n)}
  OBVIOUS
<1>2. /\ [c \in Of(n) |-> rpc'[c]] = [c \in Of(n) |-> rpc[c]]
      /\ [c \in Of(n) |-> task'[c]] = [c \in Of(n) |-> task[c]]
      /\ [c \in Of(n) |-> end'[c]] = [c \in Of(n) |-> end[c]]
  OBVIOUS
<1>3. /\ [m \in {n} |-> queue'[m]] = [m \in {n} |-> queue[m]]
      /\ [m \in {n} |-> worker'[m]] = [m \in {n} |-> worker[m]]
      /\ [m \in {n} |-> job'[m]] = [m \in {n} |-> job[m]]
  OBVIOUS
<1> QED BY <1>1, <1>2, <1>3 DEF Alone!vars

LEMMA AloneOtherCall ==
    ASSUME TypeOK, Placed, [SplitStep]_<<chain, onChain>>, NEW n \in Networks,
           NEW c \in Calls \ Of(n), Handle(c) \/ Submit(c)
    PROVE  UNCHANGED Alone(n)!vars
<1>1. NetworkOf[c] # n /\ \A d \in Of(n) : d # c /\ d \in Calls
  BY DEF Of
<1>2. onChain'[n] = onChain[n]
  <2>1. chain' = chain \/ chain' = Append(chain, <<c, "output">>)
    BY DEF Handle, Receive, Enqueue, Reject, Submit, UploadOutput, SubmitOutput
  <2> QED BY <1>1, <2>1, SplitSend, SplitQuiet
<1>3. /\ worker' = worker /\ job' = job
      /\ \/ queue' = queue
         \/ queue' = [queue EXCEPT ![NetworkOf[c]] = Append(@, c)]
  BY DEF Handle, Receive, Enqueue, Reject, Submit, UploadOutput, SubmitOutput
<1>4. queue'[n] = queue[n]
  BY <1>1, <1>3 DEF TypeOK
<1>5. \A d \in Of(n) : rpc'[d] = rpc[d] /\ task'[d] = task[d] /\ end'[d] = end[d]
  BY <1>1 DEF Handle, Receive, Enqueue, Reject, Submit, UploadOutput, SubmitOutput, TypeOK
<1>6. gate' = gate \/ gate' = gate \cup {<<c, "output">>}
  BY DEF Handle, Receive, Enqueue, Reject, Submit, UploadOutput, SubmitOutput
<1>7. \A g \in gate \cup gate' : g[1] \in Of(n) => (g \in gate <=> g \in gate')
  BY <1>1, <1>6
<1> QED BY <1>2, <1>3, <1>4, <1>5, <1>7, AloneFrame

\* Nor does the worker of another network touch it, even when it dies: the calls in its
\* channel and in its hands are of its own network.
LEMMA AloneOtherWorker ==
    ASSUME TypeOK, Placed, [SplitStep]_<<chain, onChain>>, NEW n \in Networks,
           NEW m \in Networks \ {n}, Work(m)
    PROVE  UNCHANGED Alone(n)!vars
<1>1. \A d \in Of(n) : NetworkOf[d] = n /\ d \in Calls /\ job[m] # <<d>> /\ d \notin Range(queue[m])
  BY DEF Of, Placed
<1>2. CASE Start(m) \/ Recv(m) \/ Die(m)
  <2>1. onChain'[n] = onChain[n]
    BY <1>2, SplitQuiet DEF Start, Recv, Die
  <2>2. queue'[n] = queue[n] /\ worker'[n] = worker[n] /\ job'[n] = job[n]
    BY <1>2 DEF Start, Recv, Die, Goto, TypeOK
  <2>3. rpc' = rpc /\ task' = task /\ gate' = gate /\ \A d \in Of(n) : end'[d] = end[d]
    BY <1>1, <1>2 DEF Start, Recv, Die
  <2> QED BY <2>1, <2>2, <2>3, AloneFrame
<1>3. ASSUME NEW c \in Calls,
             \/ QueryModel(m, c) \/ RunModel(m, c) \/ GetInput(m, c)
             \/ Infer(m, c) \/ Transfer(m, c) \/ Report(m, c)
             \/ HandleError(m, c) \/ UploadError(m, c) \/ SubmitError(m, c)
      PROVE  UNCHANGED Alone(n)!vars
  <2> USE DEF QueryModel, RunModel, GetInput, Infer, AskModel, AskAgent, Transfer, Report,
              HandleError, UploadError, SubmitError, At, Goto, Leave
  <2>1. job[m] = <<c>>
    BY <1>3
  <2>2. NetworkOf[c] # n /\ \A d \in Of(n) : d # c
    BY <1>1, <2>1 DEF Placed
  <2>3. onChain'[n] = onChain[n]
    <3>1. \/ chain' = chain
          \/ chain' = Append(chain, <<c, "transfer">>)
          \/ chain' = Append(chain, <<c, "error">>)
      BY <1>3
    <3> QED BY <2>2, <3>1, SplitSend, SplitQuiet
  <2>4. queue'[n] = queue[n] /\ worker'[n] = worker[n] /\ job'[n] = job[n]
    BY <1>3 DEF TypeOK
  <2>5. \A d \in Of(n) : rpc'[d] = rpc[d] /\ task'[d] = task[d] /\ end'[d] = end[d]
    BY <1>1, <1>3, <2>2 DEF TypeOK
  <2>6. gate' = gate \/ gate' = gate \cup {<<c, "error">>}
    BY <1>3
  <2>7. \A g \in gate \cup gate' : g[1] \in Of(n) => (g \in gate <=> g \in gate')
    BY <2>2, <2>6
  <2> QED BY <2>3, <2>4, <2>5, <2>7, AloneFrame
<1> QED BY <1>2, <1>3 DEF Work

\* The networks do not meet: whatever the others' services, calls and panics, each
\* network of the node goes through the states a node goes through that serves this
\* network alone, with its own calls and faults (one channel, worker and chain per network,
\* AizelServer::new).
THEOREM NetworksApart ==
    ASSUME NEW n \in Networks
    PROVE  Spec /\ Split => Alone(n)!Spec
<1>1. Init /\ SplitInit => Alone(n)!Init
  BY DEF Init, SplitInit, Alone!Init, None, Alone!None, Of
<1>2. TypeOK /\ Placed /\ [Next]_vars /\ [SplitStep]_<<chain, onChain>>
        => [Alone(n)!Next]_(Alone(n)!vars)
  <2> SUFFICES ASSUME TypeOK, Placed, [Next]_vars, [SplitStep]_<<chain, onChain>>
               PROVE  Alone(n)!Next \/ UNCHANGED Alone(n)!vars
    OBVIOUS
  <2>1. CASE UNCHANGED vars
    <3>1. onChain'[n] = onChain[n]
      BY <2>1, SplitQuiet DEF vars
    <3> QED BY <2>1, <3>1, AloneFrame DEF vars
  <2>2. ASSUME NEW c \in Of(n), Handle(c) \/ Submit(c)
        PROVE  Alone(n)!Next
    <3>1. Handle(c) => onChain'[n] = onChain[n]
      BY SplitQuiet DEF Handle, Receive, Enqueue, Reject
    <3> QED BY <2>2, <3>1, AloneHandle, AloneSubmit DEF Alone!Next
  <2>3. ASSUME Work(n)
        PROVE  Alone(n)!Next
    <3>1. ASSUME NEW c \in Calls, job[n] = <<c>>
          PROVE  c \in Of(n)
      BY <3>1 DEF Placed, Of
    <3>2. Start(n) \/ Recv(n) \/ Die(n) => Alone(n)!Work(n)
      <4>1. Start(n) \/ Recv(n) \/ Die(n) => onChain'[n] = onChain[n]
        BY SplitQuiet DEF Start, Recv, Die
      <4> QED BY <4>1, AloneTake
    <3>3. ASSUME NEW c \in Calls,
                 \/ QueryModel(n, c) \/ RunModel(n, c) \/ GetInput(n, c)
                 \/ Infer(n, c) \/ Transfer(n, c) \/ Report(n, c)
                 \/ HandleError(n, c) \/ UploadError(n, c) \/ SubmitError(n, c)
          PROVE  Alone(n)!Work(n)
      <4>1. c \in Of(n)
        BY <3>1, <3>3 DEF QueryModel, RunModel, GetInput, Infer, Transfer, Report,
                          HandleError, UploadError, SubmitError, At
      <4> QED BY <3>3, <4>1, AloneWork, AloneSend
    <3>4. Alone(n)!Work(n)
      BY <2>3, <3>2, <3>3 DEF Work
    <3> QED BY <3>4 DEF Alone!Next
  <2> QED BY <2>1, <2>2, <2>3, AloneOtherCall, AloneOtherWorker DEF Next
<1> QED BY <1>1, <1>2, TypeCorrect, AlwaysPlaced, PTL DEF Spec, Split, Alone!Spec

-----------------------------------------------------------------------------
(* A network whose services do not fail, and whose users' keys are keys.   *)

\* Its worker lives, it refuses and drops no call, and a call is over only by a verdict
\* that left for the chain: the safety that HealthyAnswers rests on.
Spared(n) ==
    /\ worker[n] # "dead"
    /\ \A c \in Of(n) :
        /\ rpc[c] # "refused"
        /\ end[c] \in {"open", "verdict"}
        /\ end[c] = "verdict" => Sent(c, "output") \/ Sent(c, "error")

\* Nothing of what ends a worker is possible there.
LEMMA HealthyMay ==
    ASSUME NEW n \in Healthy, NEW fault \in FaultNames
    PROVE  ~May(n, fault)
BY DEF Healthy

LEMMA HealthyLives ==
    ASSUME TypeOK, Placed, NEW n \in Healthy
    PROVE  ~Die(n)
<1>1. \A f \in {"query", "malformed", "model", "attest", "gate_reply"} : ~May(n, f)
  BY HealthyMay DEF FaultNames
<1>2. \A c \in Calls : job[n] = <<c>> => c \notin BadKey
  BY DEF Placed, Healthy
<1> QED BY <1>1, <1>2 DEF Die, Panics

\* What was sent stays sent.
LEMMA SentStays ==
    ASSUME TypeOK, NEW c, NEW what,
           \/ chain' = chain
           \/ \E t \in Transactions : chain' = Append(chain, t)
    PROVE  /\ Sent(c, what) => Sent(c, what)'
           /\ <<c, what>> \in Transactions /\ chain' = Append(chain, <<c, what>>)
                => Sent(c, what)'
<1>1. \A t \in Transactions : chain' = Append(chain, t) => Range(chain') = Range(chain) \cup {t}
  <2> SUFFICES ASSUME NEW t \in Transactions PROVE Range(Append(chain, t)) = Range(chain) \cup {t}
    OBVIOUS
  <2> QED BY RangeOfAppend DEF TypeOK
<1>2. chain' = chain => Range(chain') = Range(chain)
  OBVIOUS
<1> QED BY <1>1, <1>2 DEF Sent

\* The network's handler and submission tasks.
LEMMA SparedCall ==
    ASSUME TypeOK, Placed, NEW n \in Healthy, Spared(n),
           NEW c \in Calls, Handle(c) \/ Submit(c)
    PROVE  Spared(n)'
<1> n \in Networks
  BY DEF Healthy
<1>1. CASE Handle(c)
  <2>1. /\ UNCHANGED <<worker, end, chain>>
        /\ \A d \in Of(n) : rpc'[d] # "refused"
    BY <1>1 DEF Handle, Receive, Enqueue, Reject, Of, Spared, TypeOK
  <2> QED BY <2>1 DEF Spared, Sent
<1>2. CASE Submit(c)
  <2>1. NetworkOf[c] = n => ~May(n, "gate_down") /\ ~May(n, "gate_reply") /\ ~May(n, "refuse")
    BY HealthyMay DEF FaultNames
  <2>2. <<c, "output">> \in Transactions
    BY DEF Transactions
  <2>3. chain' = chain \/ chain' = Append(chain, <<c, "output">>)
    BY <1>2 DEF Submit, UploadOutput, SubmitOutput
  <2>4. UNCHANGED <<worker, rpc>>
    BY <1>2 DEF Submit, UploadOutput, SubmitOutput
  <2>5. \A d \in Of(n) : Sent(d, "output") \/ Sent(d, "error")
                           => (Sent(d, "output") \/ Sent(d, "error"))'
    BY <2>2, <2>3, SentStays
  <2>6. ASSUME NEW d \in Of(n)
        PROVE  \/ end'[d] = end[d]
               \/ end'[d] = "verdict" /\ Sent(d, "output")'
    <3>1. d \in Calls /\ NetworkOf[d] = n
      BY DEF Of
    <3>2. CASE d # c
      BY <1>2, <3>1, <3>2 DEF Submit, UploadOutput, SubmitOutput, TypeOK
    <3>3. CASE d = c
      <4>1. \/ end'[d] = end[d]
            \/ end'[d] = "verdict" /\ chain' = Append(chain, <<c, "output">>)
        BY <1>2, <2>1, <3>1, <3>3 DEF Submit, UploadOutput, SubmitOutput, TypeOK
      <4> QED BY <2>2, <3>3, <4>1, SentStays
    <3> QED BY <3>2, <3>3
  <2> QED BY <2>4, <2>5, <2>6 DEF Spared
<1> QED BY <1>1, <1>2

\* A worker with a call of any network in its hands.
LEMMA SparedWork ==
    ASSUME TypeOK, Placed, NEW n \in Healthy, Spared(n),
           NEW m \in Networks, NEW c \in Calls,
           \/ QueryModel(m, c) \/ RunModel(m, c) \/ GetInput(m, c)
           \/ Infer(m, c) \/ Transfer(m, c) \/ Report(m, c)
           \/ HandleError(m, c) \/ UploadError(m, c) \/ SubmitError(m, c)
    PROVE  Spared(n)'
<1> n \in Networks
  BY DEF Healthy
<1> USE DEF QueryModel, RunModel, GetInput, Infer, AskModel, AskAgent, Transfer, Report,
            HandleError, UploadError, SubmitError, At, Goto, Leave
<1>1. NetworkOf[c] = m
  BY DEF Placed
<1>2. m = n => ~May(m, "run") /\ ~May(m, "refuse")
  BY HealthyMay DEF FaultNames
<1>3. rpc' = rpc /\ worker'[n] # "dead"
  BY DEF Spared, TypeOK
<1>4. \/ chain' = chain
      \/ chain' = Append(chain, <<c, "transfer">>)
      \/ chain' = Append(chain, <<c, "error">>)
  OBVIOUS
<1>5. <<c, "transfer">> \in Transactions /\ <<c, "error">> \in Transactions
  BY DEF Transactions
<1>6. \A d \in Of(n) : Sent(d, "output") \/ Sent(d, "error")
                         => (Sent(d, "output") \/ Sent(d, "error"))'
  BY <1>4, <1>5, SentStays
<1>7. ASSUME NEW d \in Of(n)
      PROVE  \/ end'[d] = end[d]
             \/ end'[d] = "verdict" /\ Sent(d, "error")'
  <2>1. d \in Calls /\ NetworkOf[d] = n
    BY DEF Of
  <2>2. CASE d # c
    BY <2>1, <2>2 DEF TypeOK
  <2>3. CASE d = c
    <3>1. \/ end'[d] = end[d]
          \/ end'[d] = "verdict" /\ chain' = Append(chain, <<c, "error">>)
      BY <1>1, <1>2, <2>1, <2>3 DEF TypeOK
    <3> QED BY <1>5, <2>3, <3>1, SentStays
  <2> QED BY <2>2, <2>3
<1> QED BY <1>3, <1>6, <1>7 DEF Spared

\* A worker that takes a request; one that dies is another's.
LEMMA SparedTake ==
    ASSUME TypeOK, Placed, NEW n \in Healthy, Spared(n),
           NEW m \in Networks, Start(m) \/ Recv(m) \/ Die(m)
    PROVE  Spared(n)'
<1> n \in Networks
  BY DEF Healthy
<1>1. UNCHANGED <<rpc, chain>>
  BY DEF Start, Recv, Die
<1>2. worker'[n] # "dead"
  BY HealthyLives DEF Start, Recv, Die, Goto, Spared, TypeOK
<1>3. \A d \in Of(n) : end'[d] = end[d]
  <2>1. CASE Start(m) \/ Recv(m)
    BY <2>1 DEF Start, Recv
  <2>2. CASE Die(m)
    <3>1. m # n
      BY <2>2, HealthyLives
    <3>2. \A d \in Of(n) : job[m] # <<d>> /\ d \notin Range(queue[m]) /\ d \in Calls
      BY <3>1 DEF Placed, Of
    <3> QED BY <2>2, <3>2 DEF Die
  <2> QED BY <2>1, <2>2
<1> QED BY <1>1, <1>2, <1>3 DEF Spared, Sent

\* A network whose services answer loses nobody's request, whatever panics, hangs or
\* fails on the others: no call to it is refused, dropped or forgotten, its worker
\* never dies, and a call that is over left its output or its error for the chain.
THEOREM HealthySpared ==
    ASSUME NEW n \in Healthy
    PROVE  Spec => []Spared(n)
<1> n \in Networks
  BY DEF Healthy
<1>1. Init => Spared(n)
  BY DEF Init, Spared, Of
<1>2. TypeOK /\ Placed /\ Spared(n) /\ [Next]_vars => Spared(n)'
  <2>1. Spared(n) /\ UNCHANGED vars => Spared(n)'
    BY DEF Spared, Sent, vars
  <2> QED BY <2>1, SparedCall, SparedWork, SparedTake DEF Next, Work
<1> QED BY <1>1, <1>2, TypeCorrect, AlwaysPlaced, PTL DEF Spec

=============================================================================
