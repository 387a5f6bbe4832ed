----------------------------- MODULE MppService -----------------------------
(***************************************************************************)
(* The receiving side of a Service Payment: MppPaidServiceAgent              *)
(* (services/rcao/app/mpp_service.py).  Its tables live in memory and every  *)
(* operation holds the agent's lock, the executor's call included.           *)
(***************************************************************************)
EXTENDS Integers

CONSTANTS
    Challenges,  \* payment Challenges, equal to their canonical hash
    KeyOf,       \* KeyOf[c]: the idempotency key it carries
    Foreign,     \* those another provider hands out
    Payments,    \* what a Signer may send: names a receipt and a signature
    MaxRaises    \* bound: calls of the executor that raise after their effect

ASSUME ServiceAssumption ==
    /\ DOMAIN KeyOf = Challenges
    /\ Foreign \subseteq Challenges
    /\ MaxRaises \in Nat

VARIABLES
    issued,   \* _issued and _idempotency: the Challenges handed out
    expired,  \* the Challenges whose expires_at has passed
    results,  \* _results, _used_receipts, _used_signatures: what a Challenge was served for
    effects,  \* per Challenge: how often the executor took effect
    raised    \* per Challenge: how often it raised afterwards

serviceVars == <<issued, expired, results, effects, raised>>

NoResult == [receipt |-> <<>>, signature |-> <<>>]

\* MppServicePaymentSubmission: its proof names the Challenge or does not
\* match it, the payment behind it is confirmed or not.
Flaws == {"none", "mismatch", "unconfirmed"}
Submissions == [challenge : Challenges, receipt : Payments, signature : Payments, flaw : Flaws]

ServiceInit ==
    /\ issued = {} /\ expired = {}
    /\ results = [c \in Challenges |-> NoResult]
    /\ effects = [c \in Challenges |-> 0]
    /\ raised = [c \in Challenges |-> 0]

\* issue_challenge: one key gets one Challenge; the same request gets it again.
Issue(c) ==
    /\ c \notin Foreign
    /\ \A d \in issued : KeyOf[d] # KeyOf[c]
    /\ issued' = issued \cup {c}
    /\ UNCHANGED <<expired, results, effects, raised>>

Expire(c) ==
    /\ c \in (issued \cup Foreign) \ expired
    /\ expired' = expired \cup {c}
    /\ UNCHANGED <<issued, results, effects, raised>>

Open(c) == c \in issued /\ c \notin expired

Served(c) == results[c] # NoResult

\* Mutant: the receipt is looked up, the signature of the proof is not.
ReceiptUsedElsewhere(s) == \E d \in Challenges \ {s.challenge} :
    Served(d) /\ results[d].receipt = s.receipt

\* A receipt or a signature that served another Challenge serves no other.
UsedElsewhere(s) == \E d \in Challenges \ {s.challenge} :
    Served(d) /\ (results[d].receipt = s.receipt \/ results[d].signature = s.signature)

Considered(s) == Open(s.challenge) /\ s.flaw # "mismatch" /\ ~UsedElsewhere(s)

\* The stored result, for the original receipt only; nothing is executed.
Replayed(s) == Considered(s) /\ Served(s.challenge) /\ results[s.challenge].receipt = s.receipt

\* Mutant: the stored result is not looked up.
ExecutableAgain(s) == Considered(s) /\ s.flaw = "none"

Executable(s) == Considered(s) /\ ~Served(s.challenge) /\ s.flaw = "none"

\* Every other submission is refused and changes nothing.
Refused(s) == ~Replayed(s) /\ ~Executable(s)

ExecuteService(s) ==
    /\ Executable(s)
    /\ effects' = [effects EXCEPT ![s.challenge] = @ + 1]
    /\ results' = [results EXCEPT ![s.challenge] = [receipt |-> s.receipt, signature |-> s.signature]]
    /\ UNCHANGED <<issued, expired, raised>>

\* The executor raises after its effect: nothing is stored.
ExecuteRaises(s) ==
    /\ Executable(s) /\ raised[s.challenge] < MaxRaises
    /\ effects' = [effects EXCEPT ![s.challenge] = @ + 1]
    /\ raised' = [raised EXCEPT ![s.challenge] = @ + 1]
    /\ UNCHANGED <<issued, expired, results>>
=============================================================================
