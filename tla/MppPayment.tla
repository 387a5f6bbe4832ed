----------------------------- MODULE MppPayment -----------------------------
(***************************************************************************)
(* The life of an MPP Service Payment in the control plane: a proposal is   *)
(* evaluated and stored, the Owner decides its POLICY_EXCEPTION approval,    *)
(* a Signer authorization is issued, the Owner may cancel.                   *)
(*                                                                         *)
(* payment_boundary.py (propose), mpp_policy.py (engine and repository) and  *)
(* payment_profile.py (Profile policy).  A proposal is two steps, because    *)
(* the transaction reads stops, Profile and spent units without a lock and   *)
(* writes later; the other commands lock the payment row first and are one   *)
(* step each.  Nothing executes a payment here: see Signer.                  *)
(***************************************************************************)
EXTENDS MppBudget

CONSTANTS
    Workers,        \* proposals that can be in flight at the same time
    ChallengeOf,    \* ChallengeOf[p]: the idempotency key, challenge id and nonce
                    \* payment p carries (all three UNIQUE, taken as one)
    Outside,        \* payments outside a Profile allowlist or its expiry limit
    Expires,        \* Expires[p]: the time the challenge of p expires
    Terms,          \* what the callers of propose say of the service
    Settings,       \* the states the Owner may put a Profile in
    StopTargets,    \* the stop controls that are operated
    TTL,            \* MPP_SIGNER_AUTHORIZATION_TTL_SECONDS, in clock ticks
    DayLength,      \* clock ticks per UTC day
    MaxTime         \* bound of the clock

ProposalStops == {"GLOBAL", "MPP", "PAYMENT", "AGENT", "RUN", "PROVIDER", "SIGNER"}
\* The Agent, Provider run or MPP status of a request that is not ACTIVE.
Capability == "CAPABILITY"
Modes == {"AUTO", "OWNER_APPROVAL", "DENY"}

\* The arguments of propose: "plain" are its defaults, the only ones main.py
\* passes; the others are owner_approval_required, profile_allows=False and
\* service_registered=False.
AllTerms == {"plain", "owner", "unlisted", "unregistered"}

ASSUME PaymentAssumption ==
    /\ Outside \subseteq Payments
    /\ Expires \in [Payments -> Nat]
    /\ Settings \subseteq [active : BOOLEAN, mode : Modes, auto : Nat, limits : Limits]
    /\ StopTargets \subseteq ProposalStops \cup {Capability}
    /\ Terms \subseteq AllTerms
    /\ TTL \in Nat \ {0} /\ DayLength \in Nat \ {0} /\ MaxTime \in Nat
    /\ \A t \in 0..MaxTime : (t \div DayLength) + 1 \in Days
    /\ DOMAIN ChallengeOf = Payments

VARIABLES
    now,            \* the clock
    stops,          \* active rows of mvp_stop_controls, and Capability
    profile,        \* per Profile: its row (active: ACTIVE, CURRENT and not expired)
    proposal,       \* per worker: what its open proposal has read
    status,         \* mvp_service_payments.status, "NONE" while there is no row
    decision,       \* mvp_mpp_policy_decisions.decision, "NONE" while there is no row
    approval,       \* approval_requests.owner_decision, "PENDING" once requested
    authorization,  \* expiry of the ISSUED Signer authorization, 0 if none
    cancelAudited   \* payments whose audit-mpp-cancel row exists

controlVars == <<status, decision, approval, authorization, cancelAudited>>
environmentVars == <<now, stops, profile>>
paymentVars == <<budgetVars, environmentVars, proposal, controlVars>>

Verdicts == {"allow", "require_owner_approval", "deny"}
NoProposal == [verdict |-> "NONE"]
OwnerDecisions == {"APPROVE", "REJECT", "REQUEST_CHANGES", "HOLD"}

Today == (now \div DayLength) + 1

PaymentInit ==
    /\ BudgetInit
    /\ now = 0
    /\ stops = {}
    /\ profile \in [Profiles -> Settings]
    /\ proposal = [w \in Workers |-> NoProposal]
    /\ status = [p \in Payments |-> "NONE"]
    /\ decision = [p \in Payments |-> "NONE"]
    /\ approval = [p \in Payments |-> "NONE"]
    /\ authorization = [p \in Payments |-> 0]
    /\ cancelAudited = {}

-----------------------------------------------------------------------------
(* MppPolicyEngine.evaluate with the request of payment p.                   *)

ProfileRow(p) == profile[ProfileOf[p]]
Fits(p) == FitsLimits(p, Today, ProfileRow(p).limits)

\* AgentPaymentProfilePolicy denies with "outside" or "exceeds"; the engine
\* turns that denial into an approval route.
Exception(p) == p \in Outside \/ ~Fits(p)

\* A Profile of HIGH or CRITICAL risk asks for every payment, as auto = 0 does.
NeedsOwner(p) ==
    \/ ProfileRow(p).mode = "OWNER_APPROVAL"
    \/ Amount[p] > ProfileRow(p).auto

\* The order of the checks decides: a service that is not registered goes to
\* the Owner before any stop row is asked, one that is not allowed before the
\* Profile is, and the Profile's limits before its mode.
Evaluate(p, terms) ==
    IF Expires[p] <= now \/ Capability \in stops THEN "deny"
    ELSE IF terms = "unregistered" THEN "require_owner_approval"
    ELSE IF stops \cap ProposalStops # {} THEN "deny"
    ELSE IF terms = "unlisted" THEN "require_owner_approval"
    ELSE IF ~ProfileRow(p).active THEN "deny"
    ELSE IF Exception(p) THEN "require_owner_approval"
    ELSE IF ProfileRow(p).mode = "DENY" THEN "deny"
    ELSE IF terms = "owner" \/ NeedsOwner(p) THEN "require_owner_approval"
    ELSE "allow"

-----------------------------------------------------------------------------
(* ServicePaymentRepository.propose                                          *)

\* A row with the same key, challenge or nonce is a replay or a conflict, and
\* changes nothing either way.
ChallengeFree(p) ==
    \A q \in Payments : status[q] # "NONE" => ChallengeOf[q] # ChallengeOf[p]

ProposeRead(w, p, terms) ==
    /\ proposal[w] = NoProposal
    /\ ChallengeFree(p)
    /\ proposal' = [proposal EXCEPT ![w] =
          [verdict |-> Evaluate(p, terms), payment |-> p, fits |-> Fits(p),
           day |-> Today, limits |-> ProfileRow(p).limits]]
    /\ UNCHANGED <<budgetVars, environmentVars, controlVars>>

Close(w) == proposal' = [proposal EXCEPT ![w] = NoProposal]

\* Any exception rolls the whole transaction back.
ProposeRollback(w) ==
    /\ proposal[w] # NoProposal
    /\ Close(w)
    /\ UNCHANGED <<budgetVars, environmentVars, controlVars>>

\* record_decision: the one decision row of a payment stands; the same
\* decision finds it, another one is a conflict.
RecordDecision(p, verdict) ==
    /\ decision[p] \in {"NONE", verdict}
    /\ decision' = [decision EXCEPT ![p] = verdict]

\* Mutant: the decision row is overwritten.
OverwriteDenied(w) ==
    /\ proposal[w].verdict = "deny"
    /\ decision' = [decision EXCEPT ![proposal[w].payment] = "deny"]
    /\ Close(w)
    /\ UNCHANGED <<budgetVars, environmentVars, status, approval, authorization, cancelAudited>>

\* A denial stores its decision row, and nothing else.
CommitDenied(w) ==
    LET p == proposal[w].payment IN
    /\ proposal[w].verdict = "deny"
    /\ RecordDecision(p, "deny")
    /\ Close(w)
    /\ UNCHANGED <<budgetVars, environmentVars, status, approval, authorization, cancelAudited>>

\* The rest stores payment, decision, approval request and reservation.  The
\* UNIQUE columns, the decision recorded before and the locked counters are
\* what the transaction can still fail on.
CommitProposed(w) ==
    LET t == proposal[w]
        p == t.payment
    IN
    /\ t.verdict \in {"allow", "require_owner_approval"}
    /\ ChallengeFree(p)
    /\ IF t.fits THEN Reserve(p, t.day, t.limits) ELSE UNCHANGED budgetVars
    /\ RecordDecision(p, t.verdict)
    /\ status' = [status EXCEPT ![p] =
          IF t.verdict = "allow" THEN "PROPOSED" ELSE "APPROVAL_REQUIRED"]
    /\ approval' = [approval EXCEPT ![p] = IF t.verdict = "allow" THEN "NONE" ELSE "PENDING"]
    /\ Close(w)
    /\ UNCHANGED <<environmentVars, authorization, cancelAudited>>

-----------------------------------------------------------------------------
(* Owner commands on a stored payment                                        *)

\* Mutant: the cancelled payment keeps its units.
KeepHeld(p) == UNCHANGED budgetVars

\* Mutant: the reservation row moves without its counters.
ReleaseRowOnly(p) ==
    /\ reservations' = [reservations EXCEPT ![p].status = "CANCELLED"]
    /\ UNCHANGED counters

\* Mutant: the units leave the counter of today, and not of their own day.
ReleaseToday(p) ==
    IF reservations[p].status = OpenStatus
    THEN /\ counters' = Moved(p, ScopesOf(p, Today), "CANCELLED")
         /\ reservations' = [reservations EXCEPT ![p].status = "CANCELLED"]
    ELSE UNCHANGED budgetVars

\* release_reservation(cancelled=True); a reservation already CANCELLED stays.
ReleaseHeld(p) ==
    IF reservations[p].status = OpenStatus THEN Release(p, TRUE) ELSE UNCHANGED budgetVars

\* Mutant: an approval can be given again.
MayApproveAgain(p) == approval[p] \in {"PENDING", "APPROVE"}

Undecided(p) == approval[p] = "PENDING"

\* Each approval is decided once; the payment's own status is not asked.
DecideOwnerApproval(p, d) ==
    /\ Undecided(p)
    /\ approval' = [approval EXCEPT ![p] = d]
    /\ status' = [status EXCEPT ![p] =
          IF d = "APPROVE" THEN "APPROVED"
          ELSE IF d \in {"REJECT", "REQUEST_CHANGES"} THEN "CANCELLED" ELSE @]
    /\ IF d \in {"REJECT", "REQUEST_CHANGES"} THEN ReleaseHeld(p) ELSE UNCHANGED budgetVars
    /\ UNCHANGED <<environmentVars, proposal, decision, authorization, cancelAudited>>

\* Stops of the Provider are not in the list this command checks.
AuthorizationStops == ProposalStops \ {"PROVIDER"}

\* Mutant: a request that is still pending counts as agreement.
OwnerNotAgainst(p) == status[p] # "CANCELLED"

\* Only a payment that needed the Owner has its status and approval checked.
OwnerAgreed(p) == status[p] = "APPROVED" /\ approval[p] = "APPROVE"

IssueSignerAuthorization(p) ==
    /\ status[p] # "NONE"
    /\ ProfileRow(p).active
    /\ \/ decision[p] = "allow"
       \/ decision[p] = "require_owner_approval" /\ OwnerAgreed(p)
    /\ now < Expires[p]
    /\ stops \cap AuthorizationStops = {}
    \* a second call finds the row and fails on the UNIQUE key of its own event
    /\ authorization[p] = 0
    /\ authorization' = [authorization EXCEPT ![p] =
          IF Expires[p] <= now + TTL THEN Expires[p] ELSE now + TTL]
    /\ status' = [status EXCEPT ![p] =
          IF @ \in {"PROPOSED", "APPROVED", "SIGNER_REQUESTED"} THEN "SIGNER_REQUESTED" ELSE @]
    /\ UNCHANGED <<budgetVars, environmentVars, proposal, decision, approval, cancelAudited>>

\* A payment can be cancelled in every status, but only once: the audit id of
\* a second cancellation is a duplicate key.
CancelPayment(p) ==
    /\ status[p] # "NONE"
    /\ p \notin cancelAudited
    /\ ReleaseHeld(p)
    /\ status' = [status EXCEPT ![p] = "CANCELLED"]
    /\ cancelAudited' = cancelAudited \cup {p}
    /\ UNCHANGED <<environmentVars, proposal, decision, approval, authorization>>

-----------------------------------------------------------------------------
(* Everybody else: the clock, the stop controls, the Profile's Owner.        *)

Tick ==
    /\ now < MaxTime
    /\ now' = now + 1
    /\ UNCHANGED <<budgetVars, stops, profile, proposal, controlVars>>

\* The Owner stops or resumes a target; an Agent or a Run stops or goes on.
SetStop(s) ==
    /\ stops' = IF s \in stops THEN stops \ {s} ELSE stops \cup {s}
    /\ UNCHANGED <<budgetVars, now, profile, proposal, controlVars>>

ChangeProfile(f, setting) ==
    /\ profile' = [profile EXCEPT ![f] = setting]
    /\ UNCHANGED <<budgetVars, now, stops, proposal, controlVars>>

PaymentNext ==
    \/ \E w \in Workers :
         \/ \E p \in Payments, terms \in Terms : ProposeRead(w, p, terms)
         \/ ProposeRollback(w) \/ CommitDenied(w) \/ CommitProposed(w)
    \/ \E p \in Payments :
         \/ \E d \in OwnerDecisions : DecideOwnerApproval(p, d)
         \/ IssueSignerAuthorization(p)
         \/ CancelPayment(p)
    \/ Tick
    \/ \E s \in StopTargets : SetStop(s)
    \/ \E f \in Profiles, setting \in Settings : ChangeProfile(f, setting)

PaymentSpec == PaymentInit /\ [][PaymentNext]_paymentVars

-----------------------------------------------------------------------------
(* Properties *)

Proposal == [verdict : Verdicts, payment : Payments, fits : BOOLEAN,
             day : Days, limits : Limits]
Statuses == {"NONE", "PROPOSED", "APPROVAL_REQUIRED", "APPROVED", "SIGNER_REQUESTED", "CANCELLED"}

\* Every row stays in the vocabulary of its columns (the CHECKs of 0013, 0015).
PaymentTypeOK ==
    /\ BudgetTypeOK
    /\ now \in 0..MaxTime
    /\ stops \in SUBSET StopTargets
    /\ profile \in [Profiles -> Settings]
    /\ proposal \in [Workers -> Proposal \cup {NoProposal}]
    /\ status \in [Payments -> Statuses]
    /\ decision \in [Payments -> Verdicts \cup {"NONE"}]
    /\ approval \in [Payments -> OwnerDecisions \cup {"NONE", "PENDING"}]
    /\ authorization \in [Payments -> Nat]
    /\ cancelAudited \in SUBSET Payments

\* A payment that needs the Owner has a Signer authorization only if its own
\* approval was decided APPROVE, in whatever order approval, cancellation and
\* authorization were called (decide_owner_approval, issue_signer_authorization).
ApprovalGate == \A p \in Payments :
    authorization[p] > 0 /\ decision[p] = "require_owner_approval" => approval[p] = "APPROVE"

\* A payment with a Signer authorization is SIGNER_REQUESTED or CANCELLED for
\* ever after: no late approval, proposal or second authorization reopens it.
AuthorizedIsMarked == \A p \in Payments :
    authorization[p] > 0 => status[p] \in {"SIGNER_REQUESTED", "CANCELLED"}

\* A payment denied once stays denied: no later or concurrent proposal of the
\* same payment, evaluated at another moment, ever stores it (record_decision).
DeniedStaysDenied == \A p \in Payments :
    decision[p] = "deny" => status[p] = "NONE" /\ authorization[p] = 0

\* The reservation follows the payment: units are held only for a stored
\* payment that is not cancelled, and every payment allowed without the Owner
\* holds its units until it is cancelled (propose, _move_reservation).
BudgetFollowsPayment == \A p \in Payments :
    /\ reservations[p].status = OpenStatus => status[p] \notin {"NONE", "CANCELLED"}
    /\ decision[p] = "allow" /\ status[p] # "CANCELLED" => reservations[p].status = OpenStatus

\* Payments on their way to the Signer that no Owner looked at never exceed,
\* per Task and per day, the limit in the counter row, however proposals with
\* stale spent units, cancellations and limit changes interleave.
Unapproved(s) == {p \in Payments :
    /\ decision[p] = "allow" /\ status[p] = "SIGNER_REQUESTED"
    /\ s \in ScopesOf(p, reservations[p].day)}
UnapprovedWithinLimit == \A s \in Scopes : Total(Unapproved(s)) <= counters[s].limit

\* Every step moves the budget as one MppBudget operation, or not at all: the
\* counters of a payment's scopes and its reservation never drift apart.
MovesBudget == BudgetSpec
=============================================================================
