------------------------------- MODULE Signer -------------------------------
(***************************************************************************)
(* The Signer: PolicyBoundSignerGateway.execute and                         *)
(* Signer._execute_from_policy (services/rcao/app/signer.py), with the       *)
(* authorization registry, the Signer-side budget ledger, the key store and  *)
(* the transport they use.                                                   *)
(*                                                                         *)
(* Each of those parts has its own lock, held for one access only, so the    *)
(* steps of two calls interleave between the accesses, and so do wallet      *)
(* rotations, revocations and stops.  A call ends with a stored Result, or   *)
(* with an exception that leaves none.                                       *)
(***************************************************************************)
EXTENDS Integers, FiniteSets

CONSTANTS
    Threads,         \* callers of the gateway
    Requests,        \* SignerRequests, equal to their request_hash
    KeyOf,           \* KeyOf[r]: its idempotency key
    NonceOf,         \* NonceOf[r]: its wallet and nonce
    AuthOf,          \* AuthOf[r]: the authorization it carries
    Unprepared,      \* devnet requests without a recent blockhash
    Outcomes,        \* what the transport may do with a submission
    PersistenceFails,\* whether a SignerPersistence hook may raise
    MaxCalls,        \* bound: calls of the gateway
    MaxVersion       \* bound: rotation versions of the wallet

ASSUME SignerAssumption ==
    /\ DOMAIN KeyOf = Requests /\ DOMAIN NonceOf = Requests /\ DOMAIN AuthOf = Requests
    /\ Unprepared \subseteq Requests
    /\ Outcomes \subseteq {"accepted", "refused", "raised", "lost"}
    /\ PersistenceFails \in BOOLEAN
    /\ MaxCalls \in Nat /\ MaxVersion \in Nat

Keys == {KeyOf[r] : r \in Requests}
Nonces == {NonceOf[r] : r \in Requests}
Authorizations == {AuthOf[r] : r \in Requests}

VARIABLES
    calls,      \* per thread: the call it is in
    made,       \* calls made so far
    results,    \* _results: per idempotency key the stored hash and status
    nonces,     \* _request_nonces: the nonces bound
    reserved,   \* SignerBudgetLedger.reservations: per key the request, or None
    spent,      \* SignerBudgetLedger.consumed
    consumed,   \* SignerAuthorizationRegistry.consumed
    revoked,    \* SignerAuthorizationRegistry.revoked
    wallet,     \* the key store's record: rotation version and status
    stopped,    \* whether a stop control covers the requests
    expired,    \* whether requests and authorizations have expired
    sent        \* history, per caller and request: how often the transport took it

books == <<results, nonces, reserved, spent, consumed>>
world == <<revoked, wallet, stopped, expired>>
signerVars == <<calls, made, books, world, sent>>

None == [status |-> "NONE"]
Failures == {"STOPPED", "EXPIRED", "REJECTED", "FAILED"}

\* A prepared devnet request carries a blockhash, so its hash is another one.
Hash(r, prepared) == <<r, prepared>>
Prepared(r) == Hash(r, r \in Unprepared)

Idle == [pc |-> "idle", answer |-> "none"]
Answered(r, a) == [pc |-> "idle", request |-> r, answer |-> a]

SignerInit ==
    /\ calls = [t \in Threads |-> Idle]
    /\ made = 0
    /\ results = [k \in Keys |-> None]
    /\ nonces = {}
    /\ reserved = [k \in Keys |-> None]
    /\ spent = {} /\ consumed = {} /\ revoked = {}
    /\ wallet = [version |-> 1, active |-> TRUE]
    /\ stopped = FALSE /\ expired = FALSE
    /\ sent = [t \in Threads |-> [r \in Requests |-> 0]]

-----------------------------------------------------------------------------
(* Control flow of one call *)

At(t, pc) == calls[t].pc = pc
Goto(t, pc) == calls' = [calls EXCEPT ![t].pc = pc]
Return(t, a) == calls' = [calls EXCEPT ![t] = Answered(calls[t].request, a)]

\* Leave for _failure_result with this status and stored hash.
Fail(t, pc, status, hash) ==
    calls' = [calls EXCEPT ![t].pc = pc, ![t].status = status, ![t].hash = hash]

\* The first except block: nothing is released.
Reject(t, status) == Fail(t, "store_failure", status, Hash(calls[t].request, FALSE))

\* The second except block releases the budget first.
Abort(t) == Goto(t, "abort")

\* Mutant: only a success is replayed.
HasSucceeded(r) == results[KeyOf[r]].status = "CONFIRMED"

HasResult(r) == results[KeyOf[r]] # None

\* Under _lock: a stored result is replayed when its hash is the request's own,
\* a nonce that is bound already is refused.  "now" is read once, here.
Enter(t, r) ==
    LET stored == results[KeyOf[r]] IN
    /\ At(t, "idle") /\ made < MaxCalls
    /\ made' = made + 1
    /\ calls' = [calls EXCEPT ![t] =
          IF HasResult(r)
          THEN Answered(r, IF stored.hash = Hash(r, FALSE) THEN stored.status ELSE "conflict")
          ELSE IF NonceOf[r] \in nonces
          THEN Answered(r, "nonce")
          ELSE [pc |-> "audit", request |-> r, late |-> expired,
                status |-> "NONE", hash |-> Hash(r, FALSE)]]
    /\ UNCHANGED <<books, world, sent>>

\* _audit_request runs outside the try: its exception reaches the caller.
AuditRequest(t) ==
    /\ At(t, "audit")
    /\ \/ Goto(t, "authorize")
       \/ PersistenceFails /\ Return(t, "exception")
    /\ UNCHANGED <<made, books, world, sent>>

\* Mutant: a consumed authorization is usable.
AuthorizeAgain(t) ==
    /\ At(t, "authorize")
    /\ IF AuthOf[calls[t].request] \in revoked THEN Reject(t, "REJECTED")
       ELSE IF calls[t].late THEN Reject(t, "EXPIRED")
       ELSE Goto(t, "wallet")
    /\ UNCHANGED <<made, books, world, sent>>

\* assert_usable
Authorize(t) ==
    LET a == AuthOf[calls[t].request] IN
    /\ At(t, "authorize")
    /\ IF a \in revoked \/ a \in consumed THEN Reject(t, "REJECTED")
       ELSE IF calls[t].late THEN Reject(t, "EXPIRED")
       ELSE Goto(t, "wallet")
    /\ UNCHANGED <<made, books, world, sent>>

\* The requests name the wallet's first version.
WalletFits == wallet = [version |-> 1, active |-> TRUE]

\* public_identity and _assert_wallet_matches
CheckWallet(t) ==
    /\ At(t, "wallet")
    /\ IF WalletFits
       THEN Goto(t, "stops")
       ELSE Reject(t, "REJECTED")
    /\ UNCHANGED <<made, books, world, sent>>

\* _assert_stop_controls
CheckStops(t) ==
    /\ At(t, "stops")
    /\ IF stopped THEN Reject(t, "STOPPED") ELSE Goto(t, "reserve")
    /\ UNCHANGED <<made, books, world, sent>>

\* SignerBudgetLedger.reserve; the limits of a request are checked against its
\* own spent units, which its constructor has checked already.
ReserveBudget(t) ==
    LET r == calls[t].request
        held == reserved[KeyOf[r]]
    IN
    /\ At(t, "reserve")
    /\ IF held = None
       THEN /\ reserved' = [reserved EXCEPT ![KeyOf[r]] = [status |-> "HELD", request |-> r]]
            /\ Goto(t, "bind")
       ELSE /\ UNCHANGED reserved
            /\ IF held.request = r THEN Goto(t, "bind") ELSE Reject(t, "REJECTED")
    /\ UNCHANGED <<made, results, nonces, spent, consumed, world, sent>>

\* Mutant: only the call itself knows of its nonce.
BindNothing(t) ==
    /\ At(t, "bind")
    /\ Goto(t, "decrypt")
    /\ UNCHANGED <<made, books, world, sent>>

BindNonce(t) ==
    /\ At(t, "bind")
    /\ nonces' = nonces \cup {NonceOf[calls[t].request]}
    /\ Goto(t, "decrypt")
    /\ UNCHANGED <<made, results, reserved, spent, consumed, world, sent>>

\* recent_blockhash may raise; _decrypt_private_key compares the record with
\* the wallet read before.
Decrypt(t) ==
    /\ At(t, "decrypt")
    /\ \/ WalletFits /\ Goto(t, "submit")
       \/ /\ \/ ~WalletFits
             \/ calls[t].request \in Unprepared /\ "raised" \in Outcomes
          /\ Abort(t)
    /\ UNCHANGED <<made, books, world, sent>>

\* transport.submit: taken, refused with a FAILED submission, failed with an
\* exception, or taken with the answer lost in an exception.
Submit(t, outcome) ==
    LET r == calls[t].request IN
    /\ At(t, "submit")
    /\ sent' = IF outcome \in {"accepted", "lost"} THEN [sent EXCEPT ![t][r] = @ + 1] ELSE sent
    /\ \/ outcome = "accepted" /\ Goto(t, "consume_budget")
       \/ outcome = "refused" /\ Goto(t, "refused")
       \/ outcome \in {"raised", "lost"} /\ Abort(t)
    /\ UNCHANGED <<made, books, world>>

\* Mutant: nothing is released.
ReleaseForgotten(t) ==
    /\ At(t, "refused") \/ At(t, "abort")
    /\ Fail(t, "store_failure", "FAILED", Hash(calls[t].request, FALSE))
    /\ UNCHANGED <<made, books, world, sent>>

\* budget_ledger.release, after a refusal and in the second except block.
ReleaseBudget(t) ==
    LET r == calls[t].request IN
    /\ \/ At(t, "refused") /\ Fail(t, "store_refusal", "FAILED", Prepared(r))
       \/ At(t, "abort") /\ Fail(t, "store_failure", "FAILED", Hash(r, FALSE))
    /\ reserved' = [reserved EXCEPT ![KeyOf[r]] = None]
    /\ UNCHANGED <<made, results, nonces, spent, consumed, world, sent>>

ConsumeBudget(t) ==
    LET k == KeyOf[calls[t].request] IN
    /\ At(t, "consume_budget")
    /\ IF reserved[k] = None
       THEN Abort(t) /\ UNCHANGED spent
       ELSE Goto(t, "consume_auth") /\ spent' = spent \cup {k}
    /\ UNCHANGED <<made, results, nonces, reserved, consumed, world, sent>>

\* Mutant: a revoked authorization is not consumed, and nobody hears of it.
ConsumeIfUsable(t) ==
    LET a == AuthOf[calls[t].request] IN
    /\ At(t, "consume_auth")
    /\ Goto(t, "store_success")
    /\ consumed' = IF a \in revoked THEN consumed ELSE consumed \cup {a}
    /\ UNCHANGED <<made, results, nonces, reserved, spent, world, sent>>

ConsumeAuthorization(t) ==
    LET a == AuthOf[calls[t].request] IN
    /\ At(t, "consume_auth")
    /\ IF a \in revoked
       THEN Abort(t) /\ UNCHANGED consumed
       ELSE Goto(t, "store_success") /\ consumed' = consumed \cup {a}
    /\ UNCHANGED <<made, results, nonces, reserved, spent, world, sent>>

\* _store_result, first the persistence hooks, then _results under _lock.
Store(t, status, hash) ==
    /\ results' = [results EXCEPT ![KeyOf[calls[t].request]] = [status |-> status, hash |-> hash]]
    /\ Return(t, status)

StoreSuccess(t) ==
    /\ At(t, "store_success")
    /\ \/ Store(t, "CONFIRMED", Prepared(calls[t].request))
       \/ PersistenceFails /\ Abort(t) /\ UNCHANGED results
    /\ UNCHANGED <<made, nonces, reserved, spent, consumed, world, sent>>

\* A hook that raises while a refusal is stored ends in the second except
\* block; one that raises in an except block ends the call.
StoreFailure(t) ==
    /\ \/ /\ At(t, "store_refusal") \/ At(t, "store_failure")
          /\ Store(t, calls[t].status, calls[t].hash)
       \/ /\ PersistenceFails /\ UNCHANGED results
          /\ \/ At(t, "store_refusal") /\ Abort(t)
             \/ At(t, "store_failure") /\ Return(t, "exception")
    /\ UNCHANGED <<made, nonces, reserved, spent, consumed, world, sent>>

-----------------------------------------------------------------------------
(* Everybody else *)

RotateWallet ==
    /\ wallet.active /\ wallet.version < MaxVersion
    /\ wallet' = [wallet EXCEPT !.version = @ + 1]
    /\ UNCHANGED <<calls, made, books, revoked, stopped, expired, sent>>

RevokeWallet ==
    /\ wallet' = [wallet EXCEPT !.active = FALSE]
    /\ UNCHANGED <<calls, made, books, revoked, stopped, expired, sent>>

RevokeAuthorization(a) ==
    /\ revoked' = revoked \cup {a}
    /\ UNCHANGED <<calls, made, books, wallet, stopped, expired, sent>>

ToggleStop ==
    /\ stopped' = ~stopped
    /\ UNCHANGED <<calls, made, books, revoked, wallet, expired, sent>>

Expire ==
    /\ expired' = TRUE
    /\ UNCHANGED <<calls, made, books, revoked, wallet, stopped, sent>>

SignerNext ==
    \/ \E t \in Threads :
         \/ \E r \in Requests : Enter(t, r)
         \/ AuditRequest(t) \/ Authorize(t) \/ CheckWallet(t) \/ CheckStops(t)
         \/ ReserveBudget(t) \/ BindNonce(t) \/ Decrypt(t)
         \/ \E outcome \in Outcomes : Submit(t, outcome)
         \/ ReleaseBudget(t) \/ ConsumeBudget(t) \/ ConsumeAuthorization(t)
         \/ StoreSuccess(t) \/ StoreFailure(t)
    \/ RotateWallet \/ RevokeWallet \/ ToggleStop \/ Expire
    \/ \E a \in Authorizations : RevokeAuthorization(a)

SignerSpec == SignerInit /\ [][SignerNext]_signerVars

-----------------------------------------------------------------------------
(* Properties *)

Working == {"audit", "authorize", "wallet", "stops", "reserve", "bind", "decrypt", "submit",
            "refused", "abort", "consume_budget", "consume_auth", "store_success", "store_refusal", "store_failure"}
Answers == Failures \cup {"none", "CONFIRMED", "conflict", "nonce", "exception"}
Hashes == Requests \X BOOLEAN
Waiting == [pc : {"idle"}, request : Requests, answer : Answers] \cup {Idle}
Running == [pc : Working, request : Requests, late : BOOLEAN,
            status : Failures \cup {"NONE"}, hash : Hashes]

\* The books and the calls hold what their vocabularies allow.
SignerTypeOK ==
    /\ calls \in [Threads -> Waiting \cup Running]
    /\ made \in 0..MaxCalls
    /\ results \in [Keys -> {None} \cup [status : Failures \cup {"CONFIRMED"}, hash : Hashes]]
    /\ nonces \in SUBSET Nonces
    /\ reserved \in [Keys -> {None} \cup [status : {"HELD"}, request : Requests]]
    /\ spent \in SUBSET Keys
    /\ consumed \in SUBSET Authorizations /\ revoked \in SUBSET Authorizations
    /\ wallet \in [version : Nat, active : BOOLEAN]
    /\ stopped \in BOOLEAN /\ expired \in BOOLEAN
    /\ sent \in [Threads -> [Requests -> Nat]]

Taken(r) == \E t \in Threads : sent[t][r] > 0

\* A stored CONFIRMED means the whole effect: some request of that key was taken
\* by the transport, and its budget and its authorization are used up, however
\* calls, rotations, revocations and failing hooks interleave.
ConfirmedIsComplete == \A k \in Keys : results[k].status = "CONFIRMED" =>
    /\ k \in spent
    /\ \E r \in Requests : KeyOf[r] = k /\ Taken(r) /\ AuthOf[r] \in consumed

\* No reservation is left behind: it is spent, or a call still works on its key
\* that will spend or release it.
Holding == {"bind", "decrypt", "submit", "refused", "abort", "consume_budget"}
NoLeakedReservation == \A k \in Keys : reserved[k] # None =>
    \/ k \in spent
    \/ \E t \in Threads : calls[t].pc \in Holding /\ KeyOf[calls[t].request] = k

\* However many callers there are, and whatever answers are lost, hooks fail or
\* results are missing: no caller brings a request to the transport again, nor
\* another one with its nonce.  What is sent twice is sent by calls that overlap
\* (_request_nonces, bound before the submission and never forgotten).
EachCallerSendsOnce == \A t \in Threads :
    /\ \A r \in Requests : sent[t][r] <= 1
    /\ \A r, s \in Requests : sent[t][r] > 0 /\ sent[t][s] > 0 /\ NonceOf[r] = NonceOf[s] => r = s

\* With one caller at a time and a transport that tells what it did, no two
\* requests of one nonce or one authorization reach the transport, and none
\* twice, whatever else fails on the way (assert_usable, _request_nonces, _results).
EffectIsSingle ==
    /\ \A t \in Threads, r \in Requests : sent[t][r] <= 1
    /\ \A r, s \in Requests : r # s /\ Taken(r) /\ Taken(s) =>
          NonceOf[r] # NonceOf[s] /\ AuthOf[r] # AuthOf[s]

\* With one caller at a time, the stored result of a key never changes.
ResultIsFinal ==
    [][\A k \in Keys : results[k] # None => results'[k] = results[k]]_signerVars

-----------------------------------------------------------------------------
(* What SIGNER-BOUNDARY.md says of results, and the code does not keep.      *)

\* "The same idempotency key and the same request hash return the stored Result
\* and do not execute the transport again" -- not with two callers at once.
TransportRunsOnce == \A r \in Requests, t, u \in Threads :
    sent[t][r] <= 1 /\ (sent[t][r] > 0 /\ sent[u][r] > 0 => t = u)
=============================================================================
