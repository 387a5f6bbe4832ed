---------------------------- MODULE Signer_proofs ----------------------------
(***************************************************************************)
(* Proofs about Signer for any number of callers, requests and calls, and    *)
(* any outcomes of the transport; the last one is about a single caller.     *)
(***************************************************************************)
EXTENDS Signer, TLAPS

-----------------------------------------------------------------------------
(* What a step does to the calls                                             *)

\* t, in the middle of a call, goes on with the same request at pc.
GoesOn(t, pc) ==
    /\ calls'[t] \in Running /\ calls'[t].pc = pc
    /\ calls'[t].request = calls[t].request
    /\ \A u \in Threads \ {t} : calls'[u] = calls[u]

\* t is back at the caller.
Returns(t) ==
    /\ calls'[t] \in Waiting /\ calls'[t].pc = "idle"
    /\ \A u \in Threads \ {t} : calls'[u] = calls[u]

CallsTyped == calls \in [Threads -> Waiting \cup Running]

LEMMA InCall ==
    ASSUME CallsTyped, NEW t \in Threads, calls[t].pc \in Working
    PROVE  /\ calls[t] \in Running
           /\ calls[t].request \in Requests /\ calls[t].late \in BOOLEAN
           /\ calls[t].status \in Failures \cup {"NONE"} /\ calls[t].hash \in Hashes
BY DEF CallsTyped, Waiting, Running, Working, Idle

LEMMA GotoStep ==
    ASSUME CallsTyped, NEW t \in Threads, NEW pc \in Working,
           calls[t].pc \in Working, Goto(t, pc)
    PROVE  GoesOn(t, pc) /\ CallsTyped' /\ calls'[t].status = calls[t].status
<1>1. calls[t] \in Running
  BY InCall
<1>2. calls'[t] = [calls[t] EXCEPT !.pc = pc]
  BY DEF Goto, CallsTyped
<1>3. [calls[t] EXCEPT !.pc = pc] \in Running
  BY <1>1 DEF Running
<1>4. \A u \in Threads \ {t} : calls'[u] = calls[u]
  BY DEF Goto, CallsTyped
<1>5. CallsTyped'
  BY <1>2, <1>3 DEF Goto, CallsTyped
<1>6. QED
  BY <1>1, <1>2, <1>3, <1>4, <1>5 DEF GoesOn, Running

LEMMA FailStep ==
    ASSUME CallsTyped, NEW t \in Threads, NEW pc \in Working, NEW status \in Failures,
           NEW hash \in Hashes, calls[t].pc \in Working, Fail(t, pc, status, hash)
    PROVE  GoesOn(t, pc) /\ CallsTyped' /\ calls'[t].status = status
<1>1. calls[t] \in Running
  BY InCall
<1>2. calls'[t] = [calls[t] EXCEPT !.pc = pc, !.status = status, !.hash = hash]
  BY DEF Fail, CallsTyped
<1>3. [calls[t] EXCEPT !.pc = pc, !.status = status, !.hash = hash] \in Running
  BY <1>1 DEF Running
<1>4. \A u \in Threads \ {t} : calls'[u] = calls[u]
  BY DEF Fail, CallsTyped
<1>5. CallsTyped'
  BY <1>2, <1>3 DEF Fail, CallsTyped
<1>6. QED
  BY <1>1, <1>2, <1>3, <1>4, <1>5 DEF GoesOn, Running

LEMMA ReturnStep ==
    ASSUME CallsTyped, NEW t \in Threads, NEW a \in Answers,
           calls[t].pc \in Working, Return(t, a)
    PROVE  Returns(t) /\ CallsTyped'
<1>1. calls[t].request \in Requests
  BY InCall
<1>2. calls'[t] = Answered(calls[t].request, a)
  BY DEF Return, CallsTyped
<1>3. Answered(calls[t].request, a) \in Waiting /\ Answered(calls[t].request, a).pc = "idle"
  BY <1>1 DEF Answered, Waiting
<1>4. QED
  BY <1>2, <1>3 DEF Return, CallsTyped, Returns

-----------------------------------------------------------------------------
(* The invariant: a call knows what it has done so far.                      *)

Committing == {"consume_budget", "consume_auth", "store_success"}
Storing == {"store_refusal", "store_failure"}

HasDone(t) ==
    /\ calls[t].pc \in Committing => Taken(calls[t].request)
    /\ calls[t].pc \in {"consume_auth", "store_success"} => KeyOf[calls[t].request] \in spent
    /\ calls[t].pc = "store_success" => AuthOf[calls[t].request] \in consumed
    /\ calls[t].pc \in Storing => calls[t].status \in Failures

CallInv == \A t \in Threads : HasDone(t)

SignerInv == SignerTypeOK /\ CallInv /\ ConfirmedIsComplete /\ NoLeakedReservation

Safe == CallInv /\ ConfirmedIsComplete /\ NoLeakedReservation

\* A step that touches no book these facts are about, and no call but t's.
LEMMA QuietStep ==
    ASSUME SignerInv, NEW t \in Threads, NEW pc \in Working \ Committing, GoesOn(t, pc),
           calls[t].pc \in Holding => pc \in Holding,
           pc \in Storing => calls'[t].status \in Failures,
           UNCHANGED <<results, reserved, spent, consumed, sent>>
    PROVE  Safe'
<1>1. CallInv'
  BY DEF SignerInv, CallInv, HasDone, GoesOn, Taken, Committing, Storing, Working
<1>2. ConfirmedIsComplete'
  BY DEF SignerInv, ConfirmedIsComplete, Taken
<1>3. NoLeakedReservation'
  BY DEF SignerInv, NoLeakedReservation, GoesOn
<1>4. QED
  BY <1>1, <1>2, <1>3 DEF Safe

\* A call that ends outside the steps that hold a reservation.
LEMMA EndStep ==
    ASSUME SignerInv, NEW t \in Threads, Returns(t), calls[t].pc \notin Holding,
           UNCHANGED <<results, reserved, spent, consumed, sent>>
    PROVE  Safe'
<1>1. CallInv'
  BY DEF SignerInv, CallInv, HasDone, Returns, Taken, Committing, Storing
<1>2. ConfirmedIsComplete'
  BY DEF SignerInv, ConfirmedIsComplete, Taken
<1>3. NoLeakedReservation'
  BY DEF SignerInv, NoLeakedReservation, Returns
<1>4. QED
  BY <1>1, <1>2, <1>3 DEF Safe

LEMMA HashTyped == ASSUME NEW r \in Requests, NEW b \in BOOLEAN PROVE Hash(r, b) \in Hashes
BY DEF Hash, Hashes

LEMMA PreparedTyped == ASSUME NEW r \in Requests PROVE Prepared(r) \in Hashes
<1>1. (r \in Unprepared) \in BOOLEAN
  OBVIOUS
<1>2. QED
  BY <1>1, HashTyped DEF Prepared

\* The first except block, reached from the checks that hold nothing.
LEMMA RejectStep ==
    ASSUME SignerInv, NEW t \in Threads, NEW status \in Failures, Reject(t, status),
           calls[t].pc \in {"authorize", "wallet", "stops", "reserve"},
           UNCHANGED <<results, reserved, spent, consumed, sent>>
    PROVE  Safe' /\ CallsTyped'
<1>1. CallsTyped /\ calls[t].pc \in Working /\ "store_failure" \in Working
  BY DEF SignerInv, SignerTypeOK, CallsTyped, Working
<1>2. Hash(calls[t].request, FALSE) \in Hashes
  BY <1>1, InCall, HashTyped
<1>3. GoesOn(t, "store_failure") /\ CallsTyped' /\ calls'[t].status = status
  BY <1>1, <1>2, FailStep DEF Reject
<1>4. "store_failure" \in Working \ Committing /\ calls[t].pc \notin Holding
  BY DEF Working, Committing, Holding
<1>5. QED
  BY <1>3, <1>4, QuietStep

-----------------------------------------------------------------------------
(* One lemma per step                                                        *)

LEMMA EnterStep ==
    ASSUME SignerInv, NEW t \in Threads, NEW r \in Requests, Enter(t, r)
    PROVE  SignerInv'
<1> USE DEF SignerInv
<1> DEFINE next == calls'[t]
<1>1. \/ next \in Waiting /\ next.pc = "idle"
      \/ next \in Running /\ next.pc = "audit"
  <2>1. CASE HasResult(r)
    <3>1. results[KeyOf[r]].status \in Failures \cup {"CONFIRMED"}
      BY <2>1, SignerAssumption DEF HasResult, SignerTypeOK, Keys
    <3>2. \E a \in Answers : next = Answered(r, a)
      BY <2>1, <3>1 DEF Enter, SignerTypeOK, Answers
    <3>3. QED
      BY <3>2 DEF Answered, Waiting
  <2>2. CASE ~HasResult(r) /\ NonceOf[r] \in nonces
    <3>1. next = Answered(r, "nonce")
      BY <2>2 DEF Enter, SignerTypeOK
    <3>2. QED
      BY <3>1 DEF Answered, Waiting, Answers
  <2>3. CASE ~HasResult(r) /\ NonceOf[r] \notin nonces
    <3>1. next = [pc |-> "audit", request |-> r, late |-> expired,
                  status |-> "NONE", hash |-> Hash(r, FALSE)]
      BY <2>3 DEF Enter, SignerTypeOK
    <3>2. Hash(r, FALSE) \in Hashes /\ expired \in BOOLEAN
      BY HashTyped DEF SignerTypeOK
    <3>3. [pc |-> "audit", request |-> r, late |-> expired,
           status |-> "NONE", hash |-> Hash(r, FALSE)] \in Running
      BY <3>2 DEF Running, Working
    <3>4. QED
      BY <3>1, <3>3
  <2>4. QED
    BY <2>1, <2>2, <2>3
<1>2. \A u \in Threads \ {t} : calls'[u] = calls[u]
  BY DEF Enter, SignerTypeOK
<1>3. calls[t].pc = "idle" /\ UNCHANGED <<books, world, sent>>
  BY DEF Enter, At
<1>4. SignerTypeOK'
  <2>1. calls' \in [Threads -> Waiting \cup Running]
    BY <1>1 DEF Enter, SignerTypeOK
  <2>2. made' \in 0..MaxCalls
    BY SignerAssumption DEF Enter, SignerTypeOK
  <2>3. QED
    BY <1>3, <2>1, <2>2 DEF SignerTypeOK, books, world
<1>5. CallInv'
  BY <1>1, <1>2, <1>3 DEF Taken, CallInv, HasDone, Committing, Storing, books
<1>6. ConfirmedIsComplete'
  BY <1>3 DEF Taken, ConfirmedIsComplete, books
<1>7. NoLeakedReservation'
  BY <1>2, <1>3 DEF NoLeakedReservation, Holding, books
<1>8. QED
  BY <1>4, <1>5, <1>6, <1>7

\* What is left of the type invariant once the calls are typed.
BooksTyped ==
    /\ made \in 0..MaxCalls
    /\ results \in [Keys -> {None} \cup [status : Failures \cup {"CONFIRMED"}, hash : Hashes]]
    /\ nonces \in SUBSET Nonces
    /\ reserved \in [Keys -> {None} \cup [status : {"HELD"}, request : Requests]]
    /\ spent \in SUBSET Keys
    /\ consumed \in SUBSET Authorizations /\ revoked \in SUBSET Authorizations
    /\ wallet \in [version : Nat, active : BOOLEAN]
    /\ stopped \in BOOLEAN /\ expired \in BOOLEAN
    /\ sent \in [Threads -> [Requests -> Nat]]

LEMMA TypedTogether == SignerTypeOK <=> CallsTyped /\ BooksTyped
BY DEF SignerTypeOK, CallsTyped, BooksTyped

LEMMA Together == CallsTyped' /\ BooksTyped' /\ Safe' => SignerInv'
BY DEF SignerTypeOK, CallsTyped, BooksTyped, Safe, SignerInv

\* The steps that look and do not touch.
LEMMA LookStep ==
    ASSUME SignerInv, NEW t \in Threads,
           \/ AuditRequest(t) \/ Authorize(t) \/ CheckWallet(t) \/ CheckStops(t) \/ Decrypt(t)
    PROVE  SignerInv'
<1> USE DEF SignerInv
<1>1. CallsTyped /\ UNCHANGED <<made, books, world, sent>>
  BY TypedTogether DEF AuditRequest, Authorize, CheckWallet, CheckStops, Decrypt
<1>2. BooksTyped'
  BY <1>1, TypedTogether DEF BooksTyped, books, world
<1>3. \A pc \in {"authorize", "wallet", "stops", "reserve", "submit", "abort"} :
        Goto(t, pc) /\ calls[t].pc \in Working /\ (calls[t].pc \in Holding => pc \in Holding)
          => Safe' /\ CallsTyped'
  <2>1. SUFFICES ASSUME NEW pc \in {"authorize", "wallet", "stops", "reserve", "submit", "abort"},
                        Goto(t, pc), calls[t].pc \in Working, calls[t].pc \in Holding => pc \in Holding
                 PROVE  Safe' /\ CallsTyped'
    OBVIOUS
  <2>2. pc \in Working \ Committing /\ pc \notin Storing
    BY DEF Working, Committing, Storing
  <2>3. GoesOn(t, pc) /\ CallsTyped'
    BY <1>1, <2>1, <2>2, GotoStep
  <2>4. QED
    BY <1>1, <2>1, <2>2, <2>3, QuietStep DEF books
<1>4. ASSUME AuditRequest(t) PROVE Safe' /\ CallsTyped'
  <2>1. calls[t].pc = "audit" /\ calls[t].pc \in Working /\ calls[t].pc \notin Holding
    BY <1>4 DEF AuditRequest, At, Working, Holding
  <2>2. CASE Goto(t, "authorize")
    BY <1>3, <2>1, <2>2
  <2>3. CASE Return(t, "exception")
    <3>1. Returns(t) /\ CallsTyped'
      BY <1>1, <2>1, <2>3, ReturnStep DEF Answers
    <3>2. QED
      BY <1>1, <2>1, <3>1, EndStep DEF books
  <2>4. QED
    BY <1>4, <2>2, <2>3 DEF AuditRequest
<1>5. ASSUME Authorize(t) PROVE Safe' /\ CallsTyped'
  <2>1. calls[t].pc = "authorize" /\ calls[t].pc \in Working /\ calls[t].pc \notin Holding
    BY <1>5 DEF Authorize, At, Working, Holding
  <2>2. Goto(t, "wallet") \/ (\E status \in Failures : Reject(t, status))
    BY <1>5 DEF Authorize, Failures
  <2>3. QED
    BY <1>1, <1>3, <2>1, <2>2, RejectStep DEF books
<1>6. ASSUME CheckWallet(t) PROVE Safe' /\ CallsTyped'
  <2>1. calls[t].pc = "wallet" /\ calls[t].pc \in Working /\ calls[t].pc \notin Holding
    BY <1>6 DEF CheckWallet, At, Working, Holding
  <2>2. Goto(t, "stops") \/ (\E status \in Failures : Reject(t, status))
    BY <1>6 DEF CheckWallet, Failures
  <2>3. QED
    BY <1>1, <1>3, <2>1, <2>2, RejectStep DEF books
<1>7. ASSUME CheckStops(t) PROVE Safe' /\ CallsTyped'
  <2>1. calls[t].pc = "stops" /\ calls[t].pc \in Working /\ calls[t].pc \notin Holding
    BY <1>7 DEF CheckStops, At, Working, Holding
  <2>2. Goto(t, "reserve") \/ (\E status \in Failures : Reject(t, status))
    BY <1>7 DEF CheckStops, Failures
  <2>3. QED
    BY <1>1, <1>3, <2>1, <2>2, RejectStep DEF books
<1>8. ASSUME Decrypt(t) PROVE Safe' /\ CallsTyped'
  <2>1. calls[t].pc = "decrypt" /\ calls[t].pc \in Working
    BY <1>8 DEF Decrypt, At, Working
  <2>2. Goto(t, "submit") \/ Goto(t, "abort")
    BY <1>8 DEF Decrypt, Abort
  <2>3. "submit" \in Holding /\ "abort" \in Holding
    BY DEF Holding
  <2>4. QED
    BY <1>3, <2>1, <2>2, <2>3
<1>9. QED
  BY <1>2, <1>4, <1>5, <1>6, <1>7, <1>8, Together

-----------------------------------------------------------------------------
(* The steps that write a book.  Only the call of t and the key it works on   *)
(* change; what was sent, spent or consumed stays so.                         *)

\* Nothing is unsent, unspent or unconsumed.
Grown ==
    /\ \A r \in Requests : Taken(r) => Taken(r)'
    /\ spent \subseteq spent' /\ consumed \subseteq consumed'

OthersWait(t) == \A u \in Threads \ {t} : calls'[u] = calls[u]

Covered(k) == reserved[k] # None =>
    k \in spent \/ \E t \in Threads : calls[t].pc \in Holding /\ KeyOf[calls[t].request] = k

LEMMA OthersKeep ==
    ASSUME SignerInv, NEW t \in Threads, Grown, OthersWait(t), HasDone(t)'
    PROVE  CallInv'
<1>1. SUFFICES ASSUME NEW u \in Threads PROVE HasDone(u)'
  BY DEF CallInv
<1>2. CASE u = t
  BY <1>2
<1>3. CASE u # t
  <2>1. HasDone(u) /\ calls'[u] = calls[u] /\ CallsTyped
    BY <1>3 DEF SignerInv, CallInv, OthersWait, SignerTypeOK, CallsTyped
  <2>2. calls[u].pc \in Committing => calls[u].request \in Requests
    BY <2>1, InCall DEF Committing, Working
  <2>3. QED
    BY <2>1, <2>2 DEF HasDone, Grown, Committing, Storing
<1>4. QED
  BY <1>2, <1>3

LEMMA CompleteKeeps ==
    ASSUME SignerInv, Grown,
           \A k \in Keys : results'[k].status = "CONFIRMED" => results[k].status = "CONFIRMED"
    PROVE  ConfirmedIsComplete'
BY DEF SignerInv, ConfirmedIsComplete, Grown

LEMMA HeldKeeps ==
    ASSUME SignerInv, NEW t \in Threads, NEW key, spent \subseteq spent', OthersWait(t),
           Covered(key)', \A k \in Keys \ {key} : reserved'[k] = reserved[k],
           calls[t].pc \in Holding => KeyOf[calls[t].request] = key
    PROVE  NoLeakedReservation'
<1>1. SUFFICES ASSUME NEW k \in Keys, k # key PROVE Covered(k)'
  BY DEF NoLeakedReservation, Covered
<1>2. Covered(k)
  BY DEF SignerInv, NoLeakedReservation, Covered
<1>3. reserved'[k] = reserved[k]
  BY <1>1
<1>4. ASSUME NEW u \in Threads, calls[u].pc \in Holding, KeyOf[calls[u].request] = k
      PROVE  calls'[u].pc \in Holding /\ KeyOf[calls'[u].request] = k
  BY <1>1, <1>4 DEF OthersWait
<1>5. QED
  BY <1>2, <1>3, <1>4 DEF Covered

LEMMA ReserveStep ==
    ASSUME SignerInv, NEW t \in Threads, NEW key, key = KeyOf[calls[t].request],
           ReserveBudget(t)
    PROVE  SignerInv'
<1> DEFINE r == calls[t].request
<1> USE DEF SignerInv
<1>1. /\ CallsTyped /\ BooksTyped /\ calls[t].pc = "reserve"
      /\ calls[t].pc \in Working /\ calls[t].pc \notin Holding
  BY TypedTogether DEF ReserveBudget, At, Working, Holding
<1>2. r \in Requests /\ KeyOf[r] \in Keys
  BY <1>1, InCall DEF Keys
<1>3. UNCHANGED <<made, results, nonces, spent, consumed, world, sent>>
  BY DEF ReserveBudget
<1>4. CASE UNCHANGED reserved /\ Reject(t, "REJECTED")
  <2>1. Safe' /\ CallsTyped'
    BY <1>1, <1>3, <1>4, RejectStep DEF Failures
  <2>2. BooksTyped'
    BY <1>1, <1>3, <1>4 DEF BooksTyped, world
  <2>3. QED
    BY <2>1, <2>2, Together
<1>5. CASE /\ Goto(t, "bind")
           /\ \/ reserved' = [reserved EXCEPT ![KeyOf[r]] = [status |-> "HELD", request |-> r]]
              \/ UNCHANGED reserved
  <2>1. "bind" \in Working /\ "bind" \in Holding /\ "bind" \notin Committing \cup Storing
    BY DEF Working, Holding, Committing, Storing
  <2>2. GoesOn(t, "bind") /\ CallsTyped'
    BY <1>1, <1>5, <2>1, GotoStep
  <2>3. BooksTyped'
    <3>1. reserved' \in [Keys -> {None} \cup [status : {"HELD"}, request : Requests]]
      BY <1>1, <1>2, <1>5 DEF BooksTyped
    <3>2. QED
      BY <1>1, <1>3, <3>1 DEF BooksTyped, world
  <2>4. HasDone(t)' /\ OthersWait(t) /\ Grown
    BY <1>3, <2>1, <2>2 DEF Taken, HasDone, GoesOn, OthersWait, Grown, Committing
  <2>5. Covered(key)'
    BY <2>1, <2>2 DEF Covered, GoesOn
  <2>6. \A k \in Keys \ {key} : reserved'[k] = reserved[k]
    BY <1>1, <1>5 DEF BooksTyped
  <2>7. CallInv' /\ ConfirmedIsComplete'
    BY <1>3, <2>4, OthersKeep, CompleteKeeps
  <2>8. NoLeakedReservation'
    BY <1>1, <1>3, <2>4, <2>5, <2>6, HeldKeeps
  <2>9. QED
    BY <2>2, <2>3, <2>7, <2>8, Together DEF Safe
<1>6. QED
  BY <1>4, <1>5 DEF ReserveBudget

LEMMA BindStep ==
    ASSUME SignerInv, NEW t \in Threads, BindNonce(t)
    PROVE  SignerInv'
<1> USE DEF SignerInv
<1>1. /\ CallsTyped /\ BooksTyped /\ calls[t].pc = "bind" /\ calls[t].pc \in Working
      /\ Goto(t, "decrypt") /\ nonces' = nonces \cup {NonceOf[calls[t].request]}
      /\ UNCHANGED <<made, results, reserved, spent, consumed, world, sent>>
  BY TypedTogether DEF BindNonce, At, Working
<1>2. "decrypt" \in Working \ Committing /\ "decrypt" \in Holding /\ "decrypt" \notin Storing
  BY DEF Working, Holding, Committing, Storing
<1>3. GoesOn(t, "decrypt") /\ CallsTyped'
  BY <1>1, <1>2, GotoStep
<1>4. NonceOf[calls[t].request] \in Nonces
  BY <1>1, InCall DEF Nonces
<1>5. BooksTyped'
  BY <1>1, <1>4 DEF BooksTyped, world
<1>6. QED
  BY <1>1, <1>2, <1>3, <1>5, QuietStep, Together

\* The transport takes q from t: one count more, and no other changes.
CountedOnce(t, q) ==
    /\ sent' \in [Threads -> [Requests -> Nat]]
    /\ sent'[t][q] = sent[t][q] + 1
    /\ \A s \in Requests \ {q} : sent'[t][s] = sent[t][s]
    /\ \A u \in Threads \ {t}, s \in Requests : sent'[u][s] = sent[u][s]

LEMMA Counting ==
    ASSUME sent \in [Threads -> [Requests -> Nat]], NEW t \in Threads, NEW q \in Requests,
           sent' = [sent EXCEPT ![t][q] = sent[t][q] + 1]
    PROVE  CountedOnce(t, q)
<1>1. sent[t] \in [Requests -> Nat] /\ sent[t][q] + 1 \in Nat
  OBVIOUS
<1>2. sent'[t] = [sent[t] EXCEPT ![q] = sent[t][q] + 1] /\ \A u \in Threads \ {t} : sent'[u] = sent[u]
  OBVIOUS
<1>3. sent'[t] \in [Requests -> Nat] /\ sent'[t][q] = sent[t][q] + 1
  BY <1>1, <1>2
<1>4. \A s \in Requests \ {q} : sent'[t][s] = sent[t][s]
  BY <1>1, <1>2
<1>5. sent' \in [Threads -> [Requests -> Nat]]
  BY <1>2, <1>3
<1>6. QED
  BY <1>2, <1>3, <1>4, <1>5 DEF CountedOnce

LEMMA SubmitStep ==
    ASSUME SignerInv, NEW t \in Threads, NEW outcome \in Outcomes, NEW key, key = KeyOf[calls[t].request],
           Submit(t, outcome)
    PROVE  SignerInv'
<1> DEFINE r == calls[t].request
<1> USE DEF SignerInv
<1>1. /\ CallsTyped /\ BooksTyped /\ calls[t].pc = "submit" /\ calls[t].pc \in Working
      /\ UNCHANGED <<made, books, world>>
  BY TypedTogether DEF Submit, At, Working
<1>2. r \in Requests /\ sent \in [Threads -> [Requests -> Nat]]
  BY <1>1, InCall DEF BooksTyped
<1>3. /\ sent' \in [Threads -> [Requests -> Nat]]
      /\ \A s \in Requests : Taken(s) => Taken(s)'
      /\ outcome = "accepted" => \E u \in Threads : sent'[u][r] > 0
  <2>1. PICK q \in Requests : q = r
    BY <1>2
  <2>2. CASE outcome \in {"accepted", "lost"}
    <3>1. sent' = [sent EXCEPT ![t][q] = sent[t][q] + 1]
      BY <2>1, <2>2 DEF Submit
    <3>2. CountedOnce(t, q)
      BY <1>2, <3>1, Counting
    <3>3. /\ sent'[t][q] > 0
          /\ \A u \in Threads, s \in Requests : sent[u][s] > 0 => sent'[u][s] > 0
      BY <1>2, <3>2 DEF CountedOnce
    <3>4. \A s \in Requests : Taken(s) => Taken(s)'
      BY <3>3 DEF Taken
    <3>5. QED
      BY <2>1, <3>2, <3>3, <3>4 DEF CountedOnce
  <2>3. CASE outcome \notin {"accepted", "lost"}
    BY <1>2, <2>3 DEF Submit, Taken
  <2>4. QED
    BY <2>2, <2>3
<1>4. BooksTyped' /\ Grown
  BY <1>1, <1>3 DEF BooksTyped, Grown, books, world
<1>5. ASSUME NEW pc \in {"consume_budget", "refused", "abort"}, Goto(t, pc),
             pc = "consume_budget" => outcome = "accepted"
      PROVE  CallsTyped' /\ HasDone(t)' /\ OthersWait(t) /\ Covered(key)'
  <2>1. pc \in Working /\ pc \in Holding /\ pc \notin Storing
    BY DEF Working, Holding, Storing
  <2>2. GoesOn(t, pc) /\ CallsTyped'
    BY <1>1, <1>5, <2>1, GotoStep
  <2>3. HasDone(t)'
    BY <1>3, <1>5, <2>1, <2>2 DEF HasDone, GoesOn, Committing, Taken
  <2>4. Covered(key)'
    BY <2>1, <2>2 DEF Covered, GoesOn
  <2>5. QED
    BY <2>2, <2>3, <2>4 DEF GoesOn, OthersWait
<1>6. CallsTyped' /\ HasDone(t)' /\ OthersWait(t) /\ Covered(key)'
  BY <1>5 DEF Submit, Abort
<1>7. CallInv' /\ ConfirmedIsComplete'
  BY <1>1, <1>4, <1>6, OthersKeep, CompleteKeeps DEF books
<1>8. NoLeakedReservation'
  BY <1>1, <1>6, HeldKeeps DEF books
<1>9. QED
  BY <1>4, <1>6, <1>7, <1>8, Together DEF Safe

LEMMA ReleaseStep ==
    ASSUME SignerInv, NEW t \in Threads, NEW key, key = KeyOf[calls[t].request],
           ReleaseBudget(t)
    PROVE  SignerInv'
<1> DEFINE r == calls[t].request
<1> USE DEF SignerInv
<1>1. /\ CallsTyped /\ BooksTyped /\ calls[t].pc \in {"refused", "abort"} /\ calls[t].pc \in Working
      /\ reserved' = [reserved EXCEPT ![key] = None]
      /\ UNCHANGED <<made, results, nonces, spent, consumed, world, sent>>
  BY TypedTogether DEF ReleaseBudget, At, Working
<1>2. r \in Requests /\ KeyOf[r] \in Keys /\ Prepared(r) \in Hashes /\ Hash(r, FALSE) \in Hashes
  BY <1>1, InCall, PreparedTyped, HashTyped DEF Keys
<1>3. PICK pc \in Storing, hash \in Hashes : Fail(t, pc, "FAILED", hash)
  BY <1>2 DEF ReleaseBudget, Storing
<1>4. pc \in Working /\ pc \notin Committing /\ "FAILED" \in Failures
  BY DEF Working, Committing, Storing, Failures
<1>5. GoesOn(t, pc) /\ CallsTyped' /\ calls'[t].status = "FAILED"
  BY <1>1, <1>3, <1>4, FailStep
<1>6. HasDone(t)' /\ OthersWait(t) /\ Grown
  BY <1>1, <1>4, <1>5 DEF Taken, HasDone, GoesOn, OthersWait, Grown, Committing
<1>7. BooksTyped'
  <2>1. reserved' \in [Keys -> {None} \cup [status : {"HELD"}, request : Requests]]
    BY <1>1, <1>2 DEF BooksTyped
  <2>2. QED
    BY <1>1, <2>1 DEF BooksTyped, world
<1>8. Covered(key)' /\ (\A k \in Keys \ {key} : reserved'[k] = reserved[k])
  BY <1>1, <1>2 DEF BooksTyped, Covered
<1>9. CallInv' /\ ConfirmedIsComplete'
  BY <1>1, <1>6, OthersKeep, CompleteKeeps
<1>10. NoLeakedReservation'
  BY <1>1, <1>6, <1>8, HeldKeeps
<1>11. QED
  BY <1>5, <1>7, <1>9, <1>10, Together DEF Safe

LEMMA ConsumeBudgetStep ==
    ASSUME SignerInv, NEW t \in Threads, NEW key, key = KeyOf[calls[t].request],
           ConsumeBudget(t)
    PROVE  SignerInv'
<1> DEFINE r == calls[t].request
<1> USE DEF SignerInv
<1>1. /\ CallsTyped /\ BooksTyped /\ calls[t].pc = "consume_budget" /\ calls[t].pc \in Working
      /\ UNCHANGED <<made, results, nonces, reserved, consumed, world, sent>>
  BY TypedTogether DEF ConsumeBudget, At, Working
<1>2. r \in Requests /\ KeyOf[r] \in Keys /\ Taken(r)
  BY <1>1, InCall DEF Keys, CallInv, HasDone, Committing
<1>3. CASE Goto(t, "abort") /\ UNCHANGED spent
  <2>1. "abort" \in Working \ Committing /\ "abort" \in Holding /\ "abort" \notin Storing
    BY DEF Working, Holding, Committing, Storing
  <2>2. GoesOn(t, "abort") /\ CallsTyped'
    BY <1>1, <1>3, <2>1, GotoStep
  <2>3. BooksTyped'
    BY <1>1, <1>3 DEF BooksTyped, world
  <2>4. QED
    BY <1>1, <1>3, <2>1, <2>2, <2>3, QuietStep, Together
<1>4. CASE Goto(t, "consume_auth") /\ spent' = spent \cup {KeyOf[r]}
  <2>1. "consume_auth" \in Working /\ "consume_auth" \notin Storing
    BY DEF Working, Storing
  <2>2. GoesOn(t, "consume_auth") /\ CallsTyped'
    BY <1>1, <1>4, <2>1, GotoStep
  <2>3. BooksTyped'
    BY <1>1, <1>2, <1>4 DEF BooksTyped, world
  <2>4. HasDone(t)' /\ OthersWait(t) /\ Grown
    BY <1>1, <1>2, <1>4, <2>1, <2>2 DEF Taken, HasDone, GoesOn, OthersWait, Grown
  <2>5. Covered(key)'
    BY <1>4 DEF Covered
  <2>6. CallInv' /\ ConfirmedIsComplete'
    BY <1>1, <2>4, OthersKeep, CompleteKeeps
  <2>7. NoLeakedReservation'
    BY <1>1, <1>4, <2>4, <2>5, HeldKeeps
  <2>8. QED
    BY <2>2, <2>3, <2>6, <2>7, Together DEF Safe
<1>5. QED
  BY <1>3, <1>4 DEF ConsumeBudget, Abort

LEMMA ConsumeAuthorizationStep ==
    ASSUME SignerInv, NEW t \in Threads, ConsumeAuthorization(t)
    PROVE  SignerInv'
<1> DEFINE r == calls[t].request
<1> USE DEF SignerInv
<1>1. /\ CallsTyped /\ BooksTyped /\ calls[t].pc = "consume_auth" /\ calls[t].pc \in Working
      /\ calls[t].pc \notin Holding
      /\ UNCHANGED <<made, results, nonces, reserved, spent, world, sent>>
  BY TypedTogether DEF ConsumeAuthorization, At, Working, Holding
<1>2. r \in Requests /\ AuthOf[r] \in Authorizations /\ Taken(r) /\ KeyOf[r] \in spent
  BY <1>1, InCall DEF Authorizations, CallInv, HasDone, Committing
<1>3. CASE Goto(t, "abort") /\ UNCHANGED consumed
  <2>1. "abort" \in Working \ Committing /\ "abort" \in Holding /\ "abort" \notin Storing
    BY DEF Working, Holding, Committing, Storing
  <2>2. GoesOn(t, "abort") /\ CallsTyped'
    BY <1>1, <1>3, <2>1, GotoStep
  <2>3. BooksTyped'
    BY <1>1, <1>3 DEF BooksTyped, world
  <2>4. QED
    BY <1>1, <1>3, <2>1, <2>2, <2>3, QuietStep, Together
<1>4. CASE Goto(t, "store_success") /\ consumed' = consumed \cup {AuthOf[r]}
  <2>1. "store_success" \in Working /\ "store_success" \notin Storing
    BY DEF Working, Storing
  <2>2. GoesOn(t, "store_success") /\ CallsTyped'
    BY <1>1, <1>4, <2>1, GotoStep
  <2>3. BooksTyped'
    BY <1>1, <1>2, <1>4 DEF BooksTyped, world
  <2>4. HasDone(t)' /\ OthersWait(t) /\ Grown
    BY <1>1, <1>2, <1>4, <2>1, <2>2 DEF Taken, HasDone, GoesOn, OthersWait, Grown
  <2>5. CallInv' /\ ConfirmedIsComplete'
    BY <1>1, <2>4, OthersKeep, CompleteKeeps
  <2>6. NoLeakedReservation'
    BY <1>1, <2>2 DEF NoLeakedReservation, GoesOn
  <2>7. QED
    BY <2>2, <2>3, <2>5, <2>6, Together DEF Safe
<1>5. QED
  BY <1>3, <1>4 DEF ConsumeAuthorization, Abort

\* A call that ends by storing its result.
LEMMA StoreStep ==
    ASSUME SignerInv, NEW t \in Threads, NEW status \in Failures \cup {"CONFIRMED"}, NEW hash \in Hashes,
           calls[t].pc \in Working, calls[t].pc \notin Holding, Store(t, status, hash),
           status = "CONFIRMED" =>
               /\ KeyOf[calls[t].request] \in spent
               /\ Taken(calls[t].request) /\ AuthOf[calls[t].request] \in consumed,
           UNCHANGED <<made, nonces, reserved, spent, consumed, world, sent>>
    PROVE  SignerInv'
<1> DEFINE r == calls[t].request
<1> USE DEF SignerInv
<1>1. CallsTyped /\ BooksTyped
  BY TypedTogether
<1>2. r \in Requests /\ KeyOf[r] \in Keys
  BY <1>1, InCall DEF Keys
<1>3. results' = [results EXCEPT ![KeyOf[r]] = [status |-> status, hash |-> hash]]
  BY DEF Store
<1>4. Returns(t) /\ CallsTyped'
  BY <1>1, ReturnStep DEF Store, Answers
<1>5. BooksTyped'
  <2>1. results' \in [Keys -> {None} \cup [status : Failures \cup {"CONFIRMED"}, hash : Hashes]]
    BY <1>1, <1>2, <1>3 DEF BooksTyped
  <2>2. QED
    BY <1>1, <2>1 DEF BooksTyped, world
<1>6. CallInv'
  BY <1>4 DEF Taken, CallInv, HasDone, Returns, Committing, Storing
<1>7. ConfirmedIsComplete'
  <2>1. SUFFICES ASSUME NEW k \in Keys, results'[k].status = "CONFIRMED"
                 PROVE  k \in spent /\ \E s \in Requests : KeyOf[s] = k /\ Taken(s)' /\ AuthOf[s] \in consumed
    BY DEF ConfirmedIsComplete
  <2>2. CASE k = KeyOf[r]
    <3>1. status = "CONFIRMED"
      BY <1>1, <1>3, <2>1, <2>2 DEF BooksTyped
    <3>2. QED
      BY <1>2, <2>2, <3>1 DEF Taken
  <2>3. CASE k # KeyOf[r]
    BY <1>1, <1>3, <2>1, <2>3 DEF BooksTyped, ConfirmedIsComplete, Taken
  <2>4. QED
    BY <2>2, <2>3
<1>8. NoLeakedReservation'
  BY <1>4 DEF NoLeakedReservation, Returns
<1>9. QED
  BY <1>4, <1>5, <1>6, <1>7, <1>8, Together DEF Safe

LEMMA StoreSuccessStep ==
    ASSUME SignerInv, NEW t \in Threads, StoreSuccess(t)
    PROVE  SignerInv'
<1> USE DEF SignerInv
<1>1. /\ CallsTyped /\ BooksTyped /\ calls[t].pc = "store_success" /\ calls[t].pc \in Working
      /\ calls[t].pc \notin Holding
      /\ UNCHANGED <<made, nonces, reserved, spent, consumed, world, sent>>
  BY TypedTogether DEF StoreSuccess, At, Working, Holding
<1>2. CASE Store(t, "CONFIRMED", Prepared(calls[t].request))
  <2>1. Prepared(calls[t].request) \in Hashes
    BY <1>1, InCall, PreparedTyped
  <2>2. /\ KeyOf[calls[t].request] \in spent
        /\ Taken(calls[t].request) /\ AuthOf[calls[t].request] \in consumed
    BY <1>1 DEF CallInv, HasDone, Committing
  <2>3. QED
    BY <1>1, <1>2, <2>1, <2>2, StoreStep
<1>3. CASE Goto(t, "abort") /\ UNCHANGED results
  <2>1. "abort" \in Working \ Committing /\ "abort" \notin Storing
    BY DEF Working, Committing, Storing
  <2>2. GoesOn(t, "abort") /\ CallsTyped'
    BY <1>1, <1>3, <2>1, GotoStep
  <2>3. BooksTyped'
    BY <1>1, <1>3 DEF BooksTyped, world
  <2>4. QED
    BY <1>1, <1>3, <2>1, <2>2, <2>3, QuietStep, Together
<1>4. QED
  BY <1>2, <1>3 DEF StoreSuccess, Abort

LEMMA StoreFailureStep ==
    ASSUME SignerInv, NEW t \in Threads, StoreFailure(t)
    PROVE  SignerInv'
<1> USE DEF SignerInv
<1>1. /\ CallsTyped /\ BooksTyped /\ calls[t].pc \in Storing /\ calls[t].pc \in Working
      /\ calls[t].pc \notin Holding
      /\ UNCHANGED <<made, nonces, reserved, spent, consumed, world, sent>>
  BY TypedTogether DEF StoreFailure, At, Working, Holding, Storing
<1>2. calls[t].status \in Failures /\ calls[t].status # "CONFIRMED" /\ calls[t].hash \in Hashes
  BY <1>1, InCall DEF CallInv, HasDone, Failures
<1>3. CASE Store(t, calls[t].status, calls[t].hash)
  BY <1>1, <1>2, <1>3, StoreStep
<1>4. CASE Goto(t, "abort") /\ UNCHANGED results
  <2>1. "abort" \in Working \ Committing /\ "abort" \notin Storing
    BY DEF Working, Committing, Storing
  <2>2. GoesOn(t, "abort") /\ CallsTyped'
    BY <1>1, <1>4, <2>1, GotoStep
  <2>3. BooksTyped'
    BY <1>1, <1>4 DEF BooksTyped, world
  <2>4. QED
    BY <1>1, <1>4, <2>1, <2>2, <2>3, QuietStep, Together
<1>5. CASE Return(t, "exception") /\ UNCHANGED results
  <2>1. Returns(t) /\ CallsTyped'
    BY <1>1, <1>5, ReturnStep DEF Answers
  <2>2. BooksTyped'
    BY <1>1, <1>5 DEF BooksTyped, world
  <2>3. QED
    BY <1>1, <1>5, <2>1, <2>2, EndStep, Together
<1>6. QED
  BY <1>3, <1>4, <1>5 DEF StoreFailure, Abort

\* Rotations, revocations, stops and the clock touch nothing of a call.
LEMMA WorldStep ==
    ASSUME SignerInv,
           \/ RotateWallet \/ RevokeWallet \/ ToggleStop \/ Expire
           \/ \E a \in Authorizations : RevokeAuthorization(a)
    PROVE  SignerInv'
<1> USE DEF SignerInv
<1>1. CallsTyped /\ BooksTyped /\ UNCHANGED <<calls, made, books, sent>>
  BY TypedTogether DEF RotateWallet, RevokeWallet, ToggleStop, Expire, RevokeAuthorization
<1>2. revoked' \in SUBSET Authorizations
  BY <1>1 DEF BooksTyped, RotateWallet, RevokeWallet, ToggleStop, Expire, RevokeAuthorization
<1>3. wallet' \in [version : Nat, active : BOOLEAN]
  <2>1. wallet \in [version : Nat, active : BOOLEAN]
    BY <1>1 DEF BooksTyped
  <2>2. CASE RotateWallet
    <3>1. wallet.version + 1 \in Nat /\ wallet' = [wallet EXCEPT !.version = wallet.version + 1]
      BY <2>1, <2>2 DEF RotateWallet
    <3>2. QED
      BY <2>1, <3>1
  <2>3. CASE RevokeWallet
    <3>1. wallet' = [wallet EXCEPT !.active = FALSE]
      BY <2>3 DEF RevokeWallet
    <3>2. QED
      BY <2>1, <3>1
  <2>4. CASE UNCHANGED wallet
    BY <2>1, <2>4
  <2>5. QED
    BY <2>2, <2>3, <2>4 DEF ToggleStop, Expire, RevokeAuthorization
<1>4. stopped' \in BOOLEAN /\ expired' \in BOOLEAN
  BY <1>1 DEF BooksTyped, RotateWallet, RevokeWallet, ToggleStop, Expire, RevokeAuthorization
<1>5. CallsTyped' /\ BooksTyped'
  BY <1>1, <1>2, <1>3, <1>4 DEF CallsTyped, BooksTyped, books
<1>6. Safe'
  BY <1>1 DEF Taken, Safe, CallInv, HasDone, ConfirmedIsComplete, NoLeakedReservation, books
<1>7. QED
  BY <1>5, <1>6, Together

-----------------------------------------------------------------------------
(* The invariant holds                                                       *)

LEMMA SignerInvInit == SignerInit => SignerInv
<1> SUFFICES ASSUME SignerInit PROVE SignerInv
  OBVIOUS
<1>1. CallsTyped /\ CallInv
  BY DEF SignerInit, CallsTyped, CallInv, HasDone, Waiting, Idle, Committing, Storing
<1>2. BooksTyped
  <2>1. 0 \in 0..MaxCalls
    BY SignerAssumption
  <2>2. QED
    BY <2>1 DEF SignerInit, BooksTyped
<1>3. ConfirmedIsComplete /\ NoLeakedReservation
  BY DEF SignerInit, ConfirmedIsComplete, NoLeakedReservation, None
<1>4. QED
  BY <1>1, <1>2, <1>3, TypedTogether DEF SignerInv

LEMMA SignerInvStep == SignerInv /\ [SignerNext]_signerVars => SignerInv'
<1> SUFFICES ASSUME SignerInv, [SignerNext]_signerVars PROVE SignerInv'
  OBVIOUS
<1>1. ASSUME NEW t \in Threads, NEW r \in Requests, Enter(t, r) PROVE SignerInv'
  BY <1>1, EnterStep
<1>2. ASSUME NEW t \in Threads,
             AuditRequest(t) \/ Authorize(t) \/ CheckWallet(t) \/ CheckStops(t) \/ Decrypt(t)
      PROVE  SignerInv'
  BY <1>2, LookStep
<1>3. ASSUME NEW t \in Threads, ReserveBudget(t) PROVE SignerInv'
  BY <1>3, ReserveStep
<1>4. ASSUME NEW t \in Threads, BindNonce(t) PROVE SignerInv'
  BY <1>4, BindStep
<1>5. ASSUME NEW t \in Threads, NEW outcome \in Outcomes, Submit(t, outcome) PROVE SignerInv'
  BY <1>5, SubmitStep
<1>6. ASSUME NEW t \in Threads, ReleaseBudget(t) PROVE SignerInv'
  BY <1>6, ReleaseStep
<1>7. ASSUME NEW t \in Threads, ConsumeBudget(t) PROVE SignerInv'
  BY <1>7, ConsumeBudgetStep
<1>8. ASSUME NEW t \in Threads, ConsumeAuthorization(t) PROVE SignerInv'
  BY <1>8, ConsumeAuthorizationStep
<1>9. ASSUME NEW t \in Threads, StoreSuccess(t) PROVE SignerInv'
  BY <1>9, StoreSuccessStep
<1>10. ASSUME NEW t \in Threads, StoreFailure(t) PROVE SignerInv'
  BY <1>10, StoreFailureStep
<1>11. CASE \/ RotateWallet \/ RevokeWallet \/ ToggleStop \/ Expire
            \/ \E a \in Authorizations : RevokeAuthorization(a)
  BY <1>11, WorldStep
<1>12. CASE UNCHANGED signerVars
  BY <1>12 DEF Taken, signerVars, books, world, SignerInv, SignerTypeOK, CallInv, HasDone,
               ConfirmedIsComplete, NoLeakedReservation
<1>13. QED
  BY <1>1, <1>2, <1>3, <1>4, <1>5, <1>6, <1>7, <1>8, <1>9, <1>10, <1>11, <1>12 DEF SignerNext

\* For any number of callers, any sharing of keys, nonces and authorizations,
\* and any outcome of the transport and the persistence hooks: a call of the
\* gateway stores CONFIRMED only when the whole effect is on the books, and
\* leaves no reservation behind (_execute_from_policy).
THEOREM SignerSafe ==
    SignerSpec => [](SignerTypeOK /\ ConfirmedIsComplete /\ NoLeakedReservation)
<1>1. SignerInit => SignerInv
  BY SignerInvInit
<1>2. SignerInv /\ [SignerNext]_signerVars => SignerInv'
  BY SignerInvStep
<1>3. SignerInv => SignerTypeOK /\ ConfirmedIsComplete /\ NoLeakedReservation
  BY DEF SignerInv
<1>4. QED
  BY <1>1, <1>2, <1>3, PTL DEF SignerSpec

\* No call leaves a reservation behind, for any number of callers.
THEOREM ReservationsAreReturned == SignerSpec => []NoLeakedReservation
BY SignerSafe, PTL

-----------------------------------------------------------------------------
(* What one caller sends.  A nonce is bound before its request is submitted   *)
(* and never forgotten, so whoever sent it does not get past Enter with it    *)
(* again; until the submission a call carries a nonce its caller has not sent. *)

\* The steps from Enter to the submission.
Before == {"audit", "authorize", "wallet", "stops", "reserve", "bind", "decrypt", "submit"}

SentIsBound == \A t \in Threads, r \in Requests : sent[t][r] > 0 => NonceOf[r] \in nonces

NonceFresh(t) == calls[t].pc \in Before =>
    \A r \in Requests : sent[t][r] > 0 => NonceOf[r] # NonceOf[calls[t].request]

BoundFirst(t) == calls[t].pc \in {"decrypt", "submit"} => NonceOf[calls[t].request] \in nonces

OnceInv ==
    /\ SentIsBound
    /\ \A t \in Threads : NonceFresh(t) /\ BoundFirst(t)
    /\ EachCallerSendsOnce

\* A step of t that sends nothing, and leaves it with a fresh nonce or none.
LEMMA NothingSent ==
    ASSUME OnceInv, NEW t \in Threads, OthersWait(t), UNCHANGED sent, nonces \subseteq nonces',
           NonceFresh(t)', BoundFirst(t)'
    PROVE  OnceInv'
<1>1. SentIsBound' /\ EachCallerSendsOnce'
  BY DEF OnceInv, SentIsBound, EachCallerSendsOnce
<1>2. ASSUME NEW u \in Threads \ {t} PROVE NonceFresh(u)' /\ BoundFirst(u)'
  <2>1. calls'[u] = calls[u] /\ NonceFresh(u) /\ BoundFirst(u)
    BY DEF OnceInv, OthersWait
  <2>2. QED
    BY <2>1 DEF NonceFresh, BoundFirst
<1>3. QED
  BY <1>1, <1>2 DEF OnceInv

\* t is past the submission, or back at the caller.
LEMMA PastSending ==
    ASSUME OnceInv, NEW t \in Threads, OthersWait(t), UNCHANGED <<nonces, sent>>,
           calls'[t].pc \notin Before
    PROVE  OnceInv'
<1>1. NonceFresh(t)' /\ BoundFirst(t)'
  BY DEF NonceFresh, BoundFirst, Before
<1>2. QED
  BY <1>1, NothingSent

\* t goes on towards the submission.
LEMMA TowardsSending ==
    ASSUME OnceInv, NEW t \in Threads, NEW pc \in Before, GoesOn(t, pc), calls[t].pc \in Before,
           UNCHANGED sent, nonces \subseteq nonces',
           pc \in {"decrypt", "submit"} => NonceOf[calls[t].request] \in nonces'
    PROVE  OnceInv'
<1>1. NonceFresh(t)
  BY DEF OnceInv
<1>2. NonceFresh(t)' /\ BoundFirst(t)'
  BY <1>1 DEF NonceFresh, BoundFirst, GoesOn
<1>3. QED
  BY <1>2, NothingSent DEF GoesOn, OthersWait

\* The ways out: to a step past the submission, or to the caller.
LEMMA WayOut ==
    ASSUME CallsTyped, NEW t \in Threads, calls[t].pc \in Working, OnceInv, UNCHANGED <<nonces, sent>>,
           \/ \E pc \in Working \ Before : Goto(t, pc)
           \/ \E pc \in Storing, status \in Failures, hash \in Hashes : Fail(t, pc, status, hash)
           \/ \E a \in Answers : Return(t, a)
    PROVE  OnceInv'
<1>1. ASSUME NEW pc \in Working \ Before, Goto(t, pc) PROVE OnceInv'
  BY <1>1, GotoStep, PastSending DEF GoesOn, OthersWait
<1>2. ASSUME NEW pc \in Storing, NEW status \in Failures, NEW hash \in Hashes, Fail(t, pc, status, hash)
      PROVE  OnceInv'
  <2>1. pc \in Working /\ pc \notin Before
    BY DEF Storing, Working, Before
  <2>2. QED
    BY <1>2, <2>1, FailStep, PastSending DEF GoesOn, OthersWait
<1>3. ASSUME NEW a \in Answers, Return(t, a) PROVE OnceInv'
  <2>1. "idle" \notin Before
    BY DEF Before
  <2>2. QED
    BY <1>3, <2>1, ReturnStep, PastSending DEF Returns, OthersWait
<1>4. QED
  BY <1>1, <1>2, <1>3

LEMMA EnterSends ==
    ASSUME SignerInv, OnceInv, NEW t \in Threads, NEW r \in Requests, Enter(t, r)
    PROVE  OnceInv'
<1>1. OthersWait(t) /\ UNCHANGED <<nonces, sent>>
  BY DEF Enter, OthersWait, SignerInv, SignerTypeOK, books
<1>2. \/ calls'[t].pc = "idle"
      \/ calls'[t].pc = "audit" /\ calls'[t].request = r /\ NonceOf[r] \notin nonces
  BY DEF Enter, Answered, SignerInv, SignerTypeOK
<1>3. NonceFresh(t)' /\ BoundFirst(t)'
  BY <1>1, <1>2 DEF OnceInv, SentIsBound, NonceFresh, BoundFirst, Before
<1>4. QED
  BY <1>1, <1>3, NothingSent

\* The steps before the submission.
LEMMA PrepareSends ==
    ASSUME SignerInv, OnceInv, NEW t \in Threads,
           \/ AuditRequest(t) \/ Authorize(t) \/ CheckWallet(t) \/ CheckStops(t)
           \/ ReserveBudget(t) \/ BindNonce(t) \/ Decrypt(t)
    PROVE  OnceInv'
<1>1. /\ CallsTyped /\ calls[t].pc \in Working /\ calls[t].pc \in Before
      /\ nonces \subseteq nonces' /\ UNCHANGED sent
  BY TypedTogether DEF SignerInv, AuditRequest, Authorize, CheckWallet, CheckStops, ReserveBudget,
     BindNonce, Decrypt, At, Working, Before, books
<1>2. calls[t].request \in Requests /\ Hash(calls[t].request, FALSE) \in Hashes
  BY <1>1, InCall, HashTyped
<1>3. CASE /\ UNCHANGED nonces
           /\ \/ Return(t, "exception") \/ Abort(t)
              \/ \E status \in Failures : Reject(t, status)
  <2>1. "exception" \in Answers /\ "abort" \in Working \ Before /\ "store_failure" \in Storing
    BY DEF Answers, Working, Before, Storing
  <2>2. QED
    BY <1>1, <1>2, <1>3, <2>1, WayOut DEF Reject, Abort
<1>4. CASE /\ UNCHANGED nonces
           /\ \E pc \in {"authorize", "wallet", "stops", "reserve", "bind"} : Goto(t, pc)
  <2>1. PICK pc \in {"authorize", "wallet", "stops", "reserve", "bind"} : Goto(t, pc)
    BY <1>4
  <2>2. pc \in Working /\ pc \in Before /\ pc \notin {"decrypt", "submit"}
    BY DEF Working, Before
  <2>3. QED
    BY <1>1, <2>1, <2>2, GotoStep, TowardsSending
<1>5. CASE BindNonce(t)
  <2>1. Goto(t, "decrypt") /\ NonceOf[calls[t].request] \in nonces'
    BY <1>5 DEF BindNonce
  <2>2. "decrypt" \in Working /\ "decrypt" \in Before
    BY DEF Working, Before
  <2>3. QED
    BY <1>1, <2>1, <2>2, GotoStep, TowardsSending
<1>6. CASE Decrypt(t) /\ Goto(t, "submit")
  <2>1. NonceOf[calls[t].request] \in nonces /\ UNCHANGED nonces
    BY <1>6 DEF Decrypt, At, OnceInv, BoundFirst, books
  <2>2. "submit" \in Working /\ "submit" \in Before
    BY DEF Working, Before
  <2>3. QED
    BY <1>1, <1>6, <2>1, <2>2, GotoStep, TowardsSending
<1>7. CASE AuditRequest(t)
  BY <1>3, <1>4, <1>7 DEF AuditRequest, books
<1>8. CASE Authorize(t)
  BY <1>3, <1>4, <1>8 DEF Authorize, Failures, books
<1>9. CASE CheckWallet(t)
  BY <1>3, <1>4, <1>9 DEF CheckWallet, Failures, books
<1>10. CASE CheckStops(t)
  BY <1>3, <1>4, <1>10 DEF CheckStops, Failures, books
<1>11. CASE ReserveBudget(t)
  BY <1>3, <1>4, <1>11 DEF ReserveBudget, Failures
<1>12. CASE Decrypt(t)
  BY <1>3, <1>6, <1>12 DEF Decrypt, books
<1>13. QED
  BY <1>5, <1>7, <1>8, <1>9, <1>10, <1>11, <1>12

LEMMA SubmitSends ==
    ASSUME SignerInv, OnceInv, NEW t \in Threads, NEW outcome \in Outcomes, Submit(t, outcome)
    PROVE  OnceInv'
<1>1. /\ CallsTyped /\ calls[t].pc = "submit" /\ calls[t].pc \in Working
      /\ sent \in [Threads -> [Requests -> Nat]] /\ UNCHANGED nonces
  BY TypedTogether DEF SignerInv, BooksTyped, Submit, At, Working, books
<1>2. PICK pc \in {"consume_budget", "refused", "abort"} : Goto(t, pc)
  BY DEF Submit, Abort
<1>3. pc \in Working /\ pc \notin Before
  BY DEF Working, Before
<1>4. CASE outcome \notin {"accepted", "lost"}
  <2>1. UNCHANGED sent
    BY <1>4 DEF Submit
  <2>2. QED
    BY <1>1, <1>2, <1>3, <2>1, WayOut
<1>5. CASE outcome \in {"accepted", "lost"}
  <2>1. PICK q \in Requests : q = calls[t].request
    BY <1>1, InCall
  <2>2. sent' = [sent EXCEPT ![t][q] = sent[t][q] + 1]
    BY <1>5, <2>1 DEF Submit
  <2>3. CountedOnce(t, q)
    BY <1>1, <2>2, Counting
  <2>4. NonceOf[q] \in nonces /\ \A s \in Requests : sent[t][s] > 0 => NonceOf[s] # NonceOf[q]
    BY <1>1, <2>1 DEF OnceInv, NonceFresh, BoundFirst, Before
  <2>5. sent[t][q] = 0 /\ sent'[t][q] = 1
    BY <1>1, <2>3, <2>4 DEF CountedOnce
  <2>6. SentIsBound'
    BY <1>1, <2>3, <2>4 DEF OnceInv, SentIsBound, CountedOnce
  <2>7. EachCallerSendsOnce'
    <3>1. ASSUME NEW u \in Threads PROVE \A r \in Requests : sent'[u][r] <= 1
      BY <2>3, <2>5 DEF OnceInv, EachCallerSendsOnce, CountedOnce
    <3>2. ASSUME NEW u \in Threads, NEW r \in Requests, NEW s \in Requests,
                 sent'[u][r] > 0, sent'[u][s] > 0, NonceOf[r] = NonceOf[s]
          PROVE  r = s
      <4>1. CASE u # t
        BY <2>3, <3>2, <4>1 DEF OnceInv, EachCallerSendsOnce, CountedOnce
      <4>2. CASE u = t /\ r = q
        BY <2>3, <2>4, <3>2, <4>2 DEF CountedOnce
      <4>3. CASE u = t /\ s = q
        BY <2>3, <2>4, <3>2, <4>3 DEF CountedOnce
      <4>4. CASE u = t /\ r # q /\ s # q
        BY <2>3, <3>2, <4>4 DEF OnceInv, EachCallerSendsOnce, CountedOnce
      <4>5. QED
        BY <4>1, <4>2, <4>3, <4>4
    <3>3. QED
      BY <3>1, <3>2 DEF EachCallerSendsOnce
  <2>8. GoesOn(t, pc)
    BY <1>1, <1>2, <1>3, GotoStep
  <2>9. ASSUME NEW u \in Threads PROVE NonceFresh(u)' /\ BoundFirst(u)'
    <3>1. CASE u = t
      BY <1>3, <2>8, <3>1 DEF NonceFresh, BoundFirst, GoesOn, Before
    <3>2. CASE u # t
      <4>1. NonceFresh(u) /\ BoundFirst(u) /\ calls'[u] = calls[u]
        BY <2>8, <3>2 DEF OnceInv, GoesOn
      <4>2. \A s \in Requests : sent'[u][s] = sent[u][s]
        BY <2>3, <3>2 DEF CountedOnce
      <4>3. QED
        BY <1>1, <4>1, <4>2 DEF NonceFresh, BoundFirst
    <3>3. QED
      BY <3>1, <3>2
  <2>10. QED
    BY <2>6, <2>7, <2>9 DEF OnceInv
<1>6. QED
  BY <1>4, <1>5

\* The steps after the submission.
LEMMA FinishSends ==
    ASSUME SignerInv, OnceInv, NEW t \in Threads,
           \/ ReleaseBudget(t) \/ ConsumeBudget(t) \/ ConsumeAuthorization(t)
           \/ StoreSuccess(t) \/ StoreFailure(t)
    PROVE  OnceInv'
<1>1. CallsTyped /\ calls[t].pc \in Working /\ UNCHANGED <<nonces, sent>>
  BY TypedTogether DEF SignerInv, ReleaseBudget, ConsumeBudget, ConsumeAuthorization,
     StoreSuccess, StoreFailure, At, Working
<1>2. Prepared(calls[t].request) \in Hashes /\ Hash(calls[t].request, FALSE) \in Hashes
  BY <1>1, InCall, PreparedTyped, HashTyped
<1>3. StoreFailure(t) => calls[t].status \in Failures
  BY DEF StoreFailure, At, SignerInv, CallInv, HasDone, Storing
<1>4. \/ \E pc \in {"abort", "consume_auth", "store_success"} : Goto(t, pc)
      \/ \E pc \in Storing, status \in Failures, hash \in Hashes : Fail(t, pc, status, hash)
      \/ \E a \in Answers : Return(t, a)
  <2>1. CASE ReleaseBudget(t)
    BY <1>2, <2>1 DEF ReleaseBudget, Storing, Failures
  <2>2. CASE ConsumeBudget(t) \/ ConsumeAuthorization(t)
    BY <2>2 DEF ConsumeBudget, ConsumeAuthorization, Abort
  <2>3. CASE StoreSuccess(t) \/ StoreFailure(t)
    BY <1>3, <2>3 DEF StoreSuccess, StoreFailure, Store, Abort, Answers
  <2>4. QED
    BY <2>1, <2>2, <2>3
<1>5. {"abort", "consume_auth", "store_success"} \subseteq Working \ Before
  BY DEF Working, Before
<1>6. QED
  BY <1>1, <1>4, <1>5, WayOut

LEMMA OnceInvInit == SignerInit => OnceInv
<1> SUFFICES ASSUME SignerInit PROVE OnceInv
  OBVIOUS
<1>1. \A t \in Threads, r \in Requests : sent[t][r] = 0
  BY DEF SignerInit
<1>2. \A t \in Threads : calls[t].pc = "idle"
  BY DEF SignerInit, Idle
<1>3. QED
  BY <1>1, <1>2 DEF OnceInv, SentIsBound, NonceFresh, BoundFirst, EachCallerSendsOnce, Before

LEMMA OnceInvStep == SignerInv /\ OnceInv /\ [SignerNext]_signerVars => OnceInv'
<1> SUFFICES ASSUME SignerInv, OnceInv, [SignerNext]_signerVars PROVE OnceInv'
  OBVIOUS
<1>1. ASSUME NEW t \in Threads, NEW r \in Requests, Enter(t, r) PROVE OnceInv'
  BY <1>1, EnterSends
<1>2. ASSUME NEW t \in Threads,
             \/ AuditRequest(t) \/ Authorize(t) \/ CheckWallet(t) \/ CheckStops(t)
             \/ ReserveBudget(t) \/ BindNonce(t) \/ Decrypt(t)
      PROVE  OnceInv'
  BY <1>2, PrepareSends
<1>3. ASSUME NEW t \in Threads, NEW outcome \in Outcomes, Submit(t, outcome) PROVE OnceInv'
  BY <1>3, SubmitSends
<1>4. ASSUME NEW t \in Threads,
             \/ ReleaseBudget(t) \/ ConsumeBudget(t) \/ ConsumeAuthorization(t)
             \/ StoreSuccess(t) \/ StoreFailure(t)
      PROVE  OnceInv'
  BY <1>4, FinishSends
<1>5. CASE \/ RotateWallet \/ RevokeWallet \/ ToggleStop \/ Expire
           \/ \E a \in Authorizations : RevokeAuthorization(a)
           \/ UNCHANGED signerVars
  <2>1. UNCHANGED <<calls, nonces, sent>>
    BY <1>5 DEF RotateWallet, RevokeWallet, ToggleStop, Expire, RevokeAuthorization, books, signerVars
  <2>2. QED
    BY <2>1 DEF OnceInv, SentIsBound, NonceFresh, BoundFirst, EachCallerSendsOnce
<1>6. QED
  BY <1>1, <1>2, <1>3, <1>4, <1>5 DEF SignerNext

\* For any number of callers, any sharing of keys, nonces and authorizations,
\* and any outcome of the transport, lost answers included: no caller brings a
\* request, or another one with its nonce, to the transport a second time, so
\* that only calls that overlap can send one twice (_request_nonces).
THEOREM CallersSendOnce == SignerSpec => []EachCallerSendsOnce
<1>1. SignerInit => SignerInv /\ OnceInv
  BY SignerInvInit, OnceInvInit
<1>2. SignerInv /\ OnceInv /\ [SignerNext]_signerVars => (SignerInv /\ OnceInv)'
  BY SignerInvStep, OnceInvStep
<1>3. OnceInv => EachCallerSendsOnce
  BY DEF OnceInv
<1>4. QED
  BY <1>1, <1>2, <1>3, PTL DEF SignerSpec

-----------------------------------------------------------------------------
(* Results of one caller.  A call under way found no result of its key, and  *)
(* nobody else stores one.                                                   *)

KeyIsFresh(c) == calls[c].pc # "idle" => results[KeyOf[calls[c].request]] = None

\* A step of a call that stores nothing.
LEMMA FreshStays ==
    ASSUME NEW c, KeyIsFresh(c), calls[c].pc # "idle", UNCHANGED results,
           calls'[c].pc = "idle" \/ calls'[c].request = calls[c].request
    PROVE  KeyIsFresh(c)'
BY DEF KeyIsFresh

\* How a call under way goes on: with its request, or back to the caller.
LEMMA CallGoesOn ==
    ASSUME CallsTyped, NEW c \in Threads, calls[c].pc \in Working,
           \/ \E pc : Goto(c, pc)
           \/ \E pc, status, hash : Fail(c, pc, status, hash)
           \/ \E a : Return(c, a)
    PROVE  calls'[c].pc = "idle" \/ calls'[c].request = calls[c].request
<1>1. calls[c] \in Running
  BY InCall
<1>2. ASSUME NEW pc, Goto(c, pc) PROVE calls'[c].request = calls[c].request
  <2>1. calls'[c] = [calls[c] EXCEPT !.pc = pc]
    BY <1>2 DEF Goto, CallsTyped
  <2>2. QED
    BY <1>1, <2>1 DEF Running
<1>3. ASSUME NEW pc, NEW status, NEW hash, Fail(c, pc, status, hash)
      PROVE  calls'[c].request = calls[c].request
  <2>1. calls'[c] = [calls[c] EXCEPT !.pc = pc, !.status = status, !.hash = hash]
    BY <1>3 DEF Fail, CallsTyped
  <2>2. QED
    BY <1>1, <2>1 DEF Running
<1>4. ASSUME NEW a, Return(c, a) PROVE calls'[c].pc = "idle"
  BY <1>4 DEF Return, CallsTyped, Answered
<1>5. QED
  BY <1>2, <1>3, <1>4

\* What one caller does stores a result only where there was none.
LEMMA FreshStep ==
    ASSUME SignerInv, NEW c, Threads = {c}, KeyIsFresh(c), [SignerNext]_signerVars
    PROVE  /\ KeyIsFresh(c)'
           /\ \A k \in Keys : results[k] # None => results'[k] = results[k]
<1>1. c \in Threads /\ CallsTyped /\ DOMAIN results = Keys
  BY DEF SignerInv, SignerTypeOK, CallsTyped
<1>2. CASE calls[c].pc # "idle" /\ UNCHANGED results
           /\ (calls'[c].pc = "idle" \/ calls'[c].request = calls[c].request)
  BY <1>2, FreshStays
<1>3. ASSUME NEW r \in Requests, Enter(c, r) PROVE KeyIsFresh(c)' /\ UNCHANGED results
  <2>1. UNCHANGED results
    BY <1>3 DEF Enter, books
  <2>2. \/ calls'[c].pc = "idle"
        \/ calls'[c].request = r /\ ~HasResult(r)
    BY <1>1, <1>3 DEF Enter, CallsTyped, Answered
  <2>3. QED
    BY <2>1, <2>2 DEF KeyIsFresh, HasResult
<1>4. CASE \/ AuditRequest(c) \/ Authorize(c) \/ CheckWallet(c) \/ CheckStops(c)
           \/ ReserveBudget(c) \/ BindNonce(c) \/ Decrypt(c)
  <2>1. calls[c].pc \in Working /\ calls[c].pc # "idle" /\ UNCHANGED results
    BY <1>4 DEF AuditRequest, Authorize, CheckWallet, CheckStops, ReserveBudget, BindNonce,
       Decrypt, At, Working, books
  <2>2. \/ \E pc : Goto(c, pc)
        \/ \E pc, status, hash : Fail(c, pc, status, hash)
        \/ \E a : Return(c, a)
    BY <1>4 DEF AuditRequest, Authorize, CheckWallet, CheckStops, ReserveBudget, BindNonce,
       Decrypt, Reject, Abort
  <2>3. QED
    BY <1>1, <1>2, <2>1, <2>2, CallGoesOn
<1>5. CASE \/ \E outcome \in Outcomes : Submit(c, outcome)
           \/ ReleaseBudget(c) \/ ConsumeBudget(c) \/ ConsumeAuthorization(c)
  <2>1. calls[c].pc \in Working /\ calls[c].pc # "idle" /\ UNCHANGED results
    BY <1>5 DEF Submit, ReleaseBudget, ConsumeBudget, ConsumeAuthorization, At, Working, books
  <2>2. \/ \E pc : Goto(c, pc)
        \/ \E pc, status, hash : Fail(c, pc, status, hash)
    BY <1>5 DEF Submit, ReleaseBudget, ConsumeBudget, ConsumeAuthorization, Abort
  <2>3. QED
    BY <1>1, <1>2, <2>1, <2>2, CallGoesOn
<1>6. CASE StoreSuccess(c) \/ StoreFailure(c)
  <2>1. calls[c].pc \in Working /\ calls[c].pc # "idle"
    BY <1>6 DEF StoreSuccess, StoreFailure, At, Working
  <2>2. CASE \E status, hash : Store(c, status, hash)
    <3>1. PICK status, hash : Store(c, status, hash)
      BY <2>2
    <3>2. calls'[c].pc = "idle"
      BY <1>1, <3>1 DEF Store, Return, CallsTyped, Answered
    <3>3. \A k \in Keys : k # KeyOf[calls[c].request] => results'[k] = results[k]
      BY <1>1, <3>1 DEF Store
    <3>4. QED
      BY <2>1, <3>2, <3>3 DEF KeyIsFresh
  <2>3. CASE UNCHANGED results /\ ((\E pc : Goto(c, pc)) \/ (\E a : Return(c, a)))
    BY <1>1, <1>2, <2>1, <2>3, CallGoesOn
  <2>4. QED
    BY <1>6, <2>2, <2>3 DEF StoreSuccess, StoreFailure, Abort
<1>7. CASE \/ RotateWallet \/ RevokeWallet \/ ToggleStop \/ Expire
           \/ \E a \in Authorizations : RevokeAuthorization(a)
           \/ UNCHANGED signerVars
  <2>1. UNCHANGED <<calls, results>>
    BY <1>7 DEF RotateWallet, RevokeWallet, ToggleStop, Expire, RevokeAuthorization, books, signerVars
  <2>2. QED
    BY <2>1 DEF KeyIsFresh
<1>8. QED
  BY <1>3, <1>4, <1>5, <1>6, <1>7 DEF SignerNext

\* With one caller at a time the stored result of a key never changes, whatever
\* the transport, the hooks and the world do (_store_result).
THEOREM SerialResultsAreFinal ==
    ASSUME NEW c, Threads = {c}
    PROVE  SignerSpec => ResultIsFinal
<1>1. SignerInit => SignerInv /\ KeyIsFresh(c)
  <2>1. SignerInit => calls[c].pc = "idle"
    BY DEF SignerInit, Idle
  <2>2. QED
    BY <2>1, SignerInvInit DEF KeyIsFresh
<1>2. SignerInv /\ KeyIsFresh(c) /\ [SignerNext]_signerVars => SignerInv' /\ KeyIsFresh(c)'
  BY SignerInvStep, FreshStep
<1>3. SignerInv /\ KeyIsFresh(c) /\ [SignerNext]_signerVars =>
          [\A k \in Keys : results[k] # None => results'[k] = results[k]]_signerVars
  BY FreshStep
<1>4. QED
  BY <1>1, <1>2, <1>3, PTL DEF SignerSpec, ResultIsFinal
=============================================================================
