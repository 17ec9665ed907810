---------------------------- MODULE CallOutcome ----------------------------
(***************************************************************************)
(* What the node promises to a user about a call, however it works on it:  *)
(* an accepted call may move the user's token once, and is over with at    *)
(* most one verdict on the chain; the verdict "output" of a call that is   *)
(* to move a token says that it did.  A call may also end without a word,  *)
(* several at once when what worked on them dies.                          *)
(***************************************************************************)
EXTENDS Sequences, Functions

CONSTANTS
    Calls,
    Kind      \* "transfer" for the calls that move a token

VARIABLES
    answer,   \* what the gate server was told: "none", "acked", "refused"
    over,     \* the calls the node is done with
    chain     \* the transactions sent, <<call, what>>

vars == <<answer, over, chain>>

Init ==
    /\ answer = [c \in Calls |-> "none"]
    /\ over = {}
    /\ chain = << >>

Alive(c) == answer[c] = "acked" /\ c \notin over

Sent(c, what) == <<c, what>> \in Range(chain)

Reply(c) ==
    /\ answer[c] = "none"
    /\ \E word \in {"acked", "refused"} : answer' = [answer EXCEPT ![c] = word]
    /\ UNCHANGED <<over, chain>>

\* The token is moved.
Pay(c) ==
    /\ Alive(c)
    /\ Kind[c] = "transfer"
    /\ ~Sent(c, "transfer")
    /\ chain' = Append(chain, <<c, "transfer">>)
    /\ UNCHANGED <<answer, over>>

Conclude(c, verdict) ==
    /\ Alive(c)
    /\ verdict = "output" /\ Kind[c] = "transfer" => Sent(c, "transfer")
    /\ chain' = Append(chain, <<c, verdict>>)
    /\ over' = over \cup {c}
    /\ UNCHANGED answer

Forget ==
    /\ \E S \in SUBSET {c \in Calls : Alive(c)} : over' = over \cup S
    /\ UNCHANGED <<answer, chain>>

Next ==
    \/ \E c \in Calls : Reply(c) \/ Pay(c)
    \/ \E c \in Calls, verdict \in {"output", "error"} : Conclude(c, verdict)
    \/ Forget

Spec == Init /\ [][Next]_vars
=============================================================================
