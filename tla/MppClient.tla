----------------------------- MODULE MppClient ------------------------------
(***************************************************************************)
(* The paying side, MppClient (services/rcao/app/mpp_client.py), composed    *)
(* with the Service it pays over a network that loses, delays and repeats.   *)
(*                                                                         *)
(* pay_challenge and resume hold the Client's lock for the whole payment, so *)
(* one call is under way at a time; the Service and the network move         *)
(* between its steps.  Sessions live in memory: a restart of the process     *)
(* forgets them, and the Signer's results with them.  A call that is         *)
(* answered from a session, or refused because of one, changes nothing and   *)
(* is no action.                                                            *)
(***************************************************************************)
EXTENDS MppService

CONSTANTS
    NonceOf,   \* NonceOf[c]: its challenge_id and nonce
    Malformed, \* Challenges the strict wire contract rejects
    Barred,    \* Challenges outside the Profile or the Client's scope
    MaxLives   \* bound: lives of the Client's process

ASSUME ClientAssumption ==
    /\ DOMAIN NonceOf = Challenges
    /\ MaxLives \in Nat \ {0}
    /\ Payments = Challenges \X (1..MaxLives)

Keys == {KeyOf[c] : c \in Challenges}

VARIABLES
    life,      \* which life of the process this is
    session,   \* _sessions: per key the Challenge, its result and its sequence
    bound,     \* _challenge_keys: the Challenges whose nonce is bound to their key
    call,      \* the call that holds the lock
    sent,      \* per payment: how often the Signer's transport took it
    wire,      \* the proofs ever sent
    attempts   \* mvp_mpp_client_attempts: key, attempt number, status

clientState == <<life, session, bound, call, sent, wire, attempts>>
clientVars == <<clientState, serviceVars>>

NoSession == [challenge |-> "NONE", status |-> "ABSENT", sequence |-> 0]
Unfinished == {"NONE", "PENDING_APPROVAL"}
Ends == {"SUCCEEDED", "DENIED", "FAILED", "STOPPED"}
Idle == [pc |-> "idle"]
Calls == [pc : {"policy", "reevaluate", "sign", "send", "wait", "paid", "refused"}, challenge : Challenges]

ClientInit ==
    /\ ServiceInit
    /\ life = 1
    /\ session = [k \in Keys |-> NoSession]
    /\ bound = {} /\ wire = {} /\ attempts = {}
    /\ call = Idle
    /\ sent = [p \in Payments |-> 0]

-----------------------------------------------------------------------------
(* One payment *)

Key == KeyOf[call.challenge]
Payment == <<call.challenge, life>>
Proof == [challenge |-> call.challenge, receipt |-> Payment, signature |-> Payment, flaw |-> "none"]

At(pc) == call.pc = pc
Goto(pc) == call' = [call EXCEPT !.pc = pc]

\* record_attempt: ON CONFLICT (idempotency_key, attempt_number) DO NOTHING.
Record(k, status) == LET n == session[k].sequence + 1 IN
    IF \E a \in attempts : a.key = k /\ a.number = n THEN attempts
    ELSE attempts \cup {[key |-> k, number |-> n, status |-> status]}

\* Mutant: every result of a session is counted as its first.
FinishUncounted(k, status) ==
    /\ session' = [session EXCEPT ![k].status = status, ![k].sequence = 1]
    /\ attempts' \in {attempts, Record(k, status)}
    /\ call' = Idle

\* _finish: the result is in the session before the attempt is recorded, and
\* stays there when recording raises.
Finish(k, status) ==
    /\ session' = [session EXCEPT ![k].status = status, ![k].sequence = @ + 1]
    /\ attempts' \in {attempts, Record(k, status)}
    /\ call' = Idle

\* A 402 response that parses as a Challenge.
Offered(c) == c \in (issued \cup Foreign) \ Malformed

\* Mutant: a session that ended FAILED makes room for a new one.
PayFailedAgain(c) ==
    /\ At("idle") /\ Offered(c)
    /\ session[KeyOf[c]].status \in {"ABSENT", "FAILED"}
    /\ bound' = bound \cup {c}
    /\ session' = [session EXCEPT ![KeyOf[c]] = [challenge |-> c, status |-> "NONE", sequence |-> 0]]
    /\ call' = [pc |-> "policy", challenge |-> c]
    /\ UNCHANGED <<life, sent, wire, attempts, serviceVars>>

\* The key has no session, and no other key has bound the nonce.
Fresh(c) ==
    /\ At("idle") /\ Offered(c)
    /\ session[KeyOf[c]] = NoSession
    /\ \A d \in bound : NonceOf[d] = NonceOf[c] => KeyOf[d] = KeyOf[c]

\* The Challenge makes no valid Payment: its nonce stays bound, without a session.
PaymentInvalid(c) ==
    /\ Fresh(c)
    /\ bound' = bound \cup {c}
    /\ UNCHANGED <<life, session, call, sent, wire, attempts, serviceVars>>

PayChallenge(c) ==
    /\ Fresh(c)
    /\ bound' = bound \cup {c}
    /\ session' = [session EXCEPT ![KeyOf[c]] = [challenge |-> c, status |-> "NONE", sequence |-> 0]]
    /\ call' = [pc |-> "policy", challenge |-> c]
    /\ UNCHANGED <<life, sent, wire, attempts, serviceVars>>

\* Phase, Service, Profile, scope and expiry deny whatever else is asked.
MustDeny == call.challenge \in Barred \cup expired

\* The gates before the Policy, then its decision; when evaluate raises the
\* session stays without a result.
Evaluate ==
    /\ At("policy")
    /\ \/ Finish(Key, "DENIED")
       \/ ~MustDeny /\ Finish(Key, "PENDING_APPROVAL")
       \/ ~MustDeny /\ Goto("sign") /\ UNCHANGED <<session, attempts>>
       \/ call' = Idle /\ UNCHANGED <<session, attempts>>
    /\ UNCHANGED <<life, bound, sent, wire, serviceVars>>

\* resume of a session that waits for the Owner: refused, or evaluated again.
Resume(k) ==
    /\ At("idle") /\ session[k].status = "PENDING_APPROVAL"
    /\ \/ Finish(k, "DENIED")
       \/ /\ call' = [pc |-> "reevaluate", challenge |-> session[k].challenge]
          /\ UNCHANGED <<session, attempts>>
    /\ UNCHANGED <<life, bound, sent, wire, serviceVars>>

\* Anything but ALLOW denies now; when evaluate raises the session still waits.
Reevaluate ==
    /\ At("reevaluate")
    /\ \/ Finish(Key, "DENIED")
       \/ ~MustDeny /\ Goto("sign") /\ UNCHANGED <<session, attempts>>
       \/ call' = Idle /\ UNCHANGED <<session, attempts>>
    /\ UNCHANGED <<life, bound, sent, wire, serviceVars>>

\* Mutant: the exception of a lost answer is not caught.
SignUncaught ==
    /\ At("sign")
    /\ \/ \E status \in {"FAILED", "STOPPED"} : Finish(Key, status) /\ UNCHANGED sent
       \/ sent' = [sent EXCEPT ![Payment] = @ + 1] /\ call' = Idle /\ UNCHANGED <<session, attempts>>
       \/ sent' = [sent EXCEPT ![Payment] = @ + 1] /\ Goto("send") /\ UNCHANGED <<session, attempts>>
    /\ UNCHANGED <<life, bound, wire, serviceVars>>

\* The Signer refuses, or its transport takes the payment; its answer may be
\* lost, which ends in an exception and a FAILED session as well.
Sign ==
    /\ At("sign")
    /\ \/ \E status \in {"FAILED", "STOPPED"} : Finish(Key, status) /\ UNCHANGED sent
       \/ sent' = [sent EXCEPT ![Payment] = @ + 1] /\ Finish(Key, "FAILED")
       \/ sent' = [sent EXCEPT ![Payment] = @ + 1] /\ Goto("send") /\ UNCHANGED <<session, attempts>>
    /\ UNCHANGED <<life, bound, wire, serviceVars>>

SubmitProof ==
    /\ At("send") /\ Goto("wait")
    /\ wire' = wire \cup {Proof}
    /\ UNCHANGED <<life, session, bound, sent, attempts, serviceVars>>

\* The provider's receipt, an error status, a receipt that does not match or
\* cannot be read, or no answer in time.
Conclude ==
    /\ \/ At("paid") /\ Finish(Key, "SUCCEEDED")
       \/ (At("paid") \/ At("refused") \/ At("wait")) /\ Finish(Key, "FAILED")
    /\ UNCHANGED <<life, bound, sent, wire, serviceVars>>

\* The process ends, at any point of a payment, and another begins.
Restart ==
    /\ life < MaxLives /\ life' = life + 1
    /\ session' = [k \in Keys |-> NoSession]
    /\ bound' = {} /\ call' = Idle
    /\ UNCHANGED <<sent, wire, attempts, serviceVars>>

-----------------------------------------------------------------------------
(* The Service, as the network lets it see the proofs *)

\* A proof arrives as it was sent, or a caller has mixed it up with another:
\* its receipt or its signature, for another Challenge, unconfirmed or unlike.
Arriving ==
    {[challenge |-> c, receipt |-> u.receipt, signature |-> v.signature, flaw |-> f] :
        c \in Challenges, u \in wire, v \in wire, f \in Flaws}

\* The answer is lost, or reaches the call that waits for it.
Answer(s, pc) ==
    \/ UNCHANGED call
    \/ At("wait") /\ s = Proof /\ Goto(pc)

Deliver(s) ==
    /\ \/ ExecuteService(s) /\ Answer(s, "paid")
       \/ Replayed(s) /\ Answer(s, "paid") /\ UNCHANGED serviceVars
       \/ ExecuteRaises(s) /\ Answer(s, "refused")
       \/ Refused(s) /\ Answer(s, "refused") /\ UNCHANGED serviceVars
    /\ UNCHANGED <<life, session, bound, sent, wire, attempts>>

ClientNext ==
    \/ \E c \in Challenges : PayChallenge(c) \/ PaymentInvalid(c)
    \/ \E k \in Keys : Resume(k)
    \/ Evaluate \/ Reevaluate \/ Sign \/ SubmitProof \/ Conclude
    \/ Restart
    \/ \E s \in Arriving : Deliver(s)
    \/ \E c \in Challenges : (Issue(c) \/ Expire(c)) /\ UNCHANGED clientState

ClientSpec == ClientInit /\ [][ClientNext]_clientVars

-----------------------------------------------------------------------------
(* Properties *)

ClientTypeOK ==
    /\ issued \subseteq Challenges /\ expired \subseteq Challenges
    /\ results \in [Challenges -> {NoResult} \cup [receipt : Payments, signature : Payments]]
    /\ effects \in [Challenges -> Nat] /\ raised \in [Challenges -> 0..MaxRaises]
    /\ life \in 1..MaxLives
    /\ session \in [Keys -> {NoSession} \cup
          [challenge : Challenges, status : Unfinished \cup Ends, sequence : Nat]]
    /\ bound \subseteq Challenges
    /\ call \in {Idle} \cup Calls
    /\ sent \in [Payments -> Nat]
    /\ wire \subseteq Submissions
    /\ attempts \subseteq [key : Keys, number : Nat, status : Unfinished \cup Ends]

\* In one life of its process the Client has a Challenge paid once at most,
\* however often it is offered, resumed, refused or left unanswered.
PaidOnce == \A p \in Payments : sent[p] <= 1

\* Money has left only for the Challenge a session is bound to, and only when
\* that session passed its gates: it has ended by the payment, or its call is
\* past the Policy.  A session left without a result has paid nothing.
PastPolicy(c) == call # Idle /\ call.challenge = c /\ call.pc \in {"sign", "send", "wait", "paid", "refused"}
OnlyAllowedIsPaid == \A c \in Challenges : sent[<<c, life>>] > 0 =>
    /\ session[KeyOf[c]].challenge = c
    /\ \/ session[KeyOf[c]].status \in {"SUCCEEDED", "FAILED"}
       \/ session[KeyOf[c]].status \in Unfinished /\ PastPolicy(c)

\* The executor takes effect once per Challenge, and once more for every time
\* it raised before its result was stored.
EffectsAccounted == \A c \in Challenges :
    effects[c] = raised[c] + (IF Served(c) THEN 1 ELSE 0)

\* The attempts of a process that never restarted tell, number by number, what
\* its sessions went through: no later row than the session's own count, and
\* the row of that count, when there is one, tells the session's result.
HistoryKeepsPace == life = 1 => \A a \in attempts :
    /\ a.number <= session[a.key].sequence
    /\ a.number = session[a.key].sequence => a.status = session[a.key].status

Promise == INSTANCE PaidService WITH
    paid <- {p \in Payments : sent[p] > 0},
    paidBy <- [c \in Challenges |-> IF Served(c) THEN results[c].signature ELSE <<>>],
    told <- {c \in Challenges : session[KeyOf[c]].challenge = c /\ session[KeyOf[c]].status = "SUCCEEDED"}

\* Client, network and Service keep what a paid Service promises: an execution
\* has a payment of its own, and success means execution.
ImplementsPaidService == Promise!PromiseSpec
=============================================================================
