------------------------- MODULE MppPayment_proofs -------------------------
(***************************************************************************)
(* Proofs about MppPayment for any number of payments, workers, Profiles    *)
(* and stop controls, and any clock.                                        *)
(***************************************************************************)
EXTENDS MppPayment, MppBudget_proofs

-----------------------------------------------------------------------------
(* Every step is a budget operation or leaves the budget alone.              *)

\* The part of the type invariant the budget does not cover.
ControlTypeOK ==
    /\ now \in 0..MaxTime
    /\ stops \in SUBSET StopTargets
    /\ profile \in [Profiles -> Settings]
    /\ proposal \in [Workers -> Proposal \cup {NoProposal}]
    /\ status \in [Payments -> Statuses]
    /\ decision \in [Payments -> Verdicts \cup {"NONE"}]
    /\ approval \in [Payments -> OwnerDecisions \cup {"NONE", "PENDING"}]
    /\ authorization \in [Payments -> Nat]
    /\ cancelAudited \in SUBSET Payments

\* An open proposal carries a payment, a day and limits of the right type.
LEMMA OpenProposal ==
    ASSUME ControlTypeOK, NEW w \in Workers, proposal[w].verdict \in Verdicts
    PROVE  proposal[w] \in Proposal
BY DEF ControlTypeOK, NoProposal, Verdicts

LEMMA ReleaseHeldStep ==
    ASSUME NEW p \in Payments, ReleaseHeld(p)
    PROVE  [BudgetNext]_budgetVars
BY DEF ReleaseHeld, BudgetNext

\* The steps that are not operations of the budget, and those that are.
LEMMA BudgetMove ==
    ASSUME ControlTypeOK, PaymentNext
    PROVE  [BudgetNext]_budgetVars
<1>1. ASSUME NEW w \in Workers, CommitProposed(w)
      PROVE  [BudgetNext]_budgetVars
  <2>1. proposal[w] \in Proposal
    BY <1>1, OpenProposal DEF CommitProposed, Verdicts
  <2>2. QED
    BY <1>1, <2>1 DEF CommitProposed, Proposal, BudgetNext
<1>2. ASSUME NEW w \in Workers, \/ \E p \in Payments, terms \in Terms : ProposeRead(w, p, terms)
                               \/ ProposeRollback(w) \/ CommitDenied(w)
      PROVE  UNCHANGED budgetVars
  BY <1>2 DEF ProposeRead, ProposeRollback, CommitDenied
<1>3. ASSUME NEW p \in Payments, NEW d \in OwnerDecisions, DecideOwnerApproval(p, d)
      PROVE  [BudgetNext]_budgetVars
  BY <1>3, ReleaseHeldStep DEF DecideOwnerApproval
<1>4. ASSUME NEW p \in Payments, CancelPayment(p)
      PROVE  [BudgetNext]_budgetVars
  BY <1>4, ReleaseHeldStep DEF CancelPayment
<1>5. ASSUME NEW p \in Payments, IssueSignerAuthorization(p)
      PROVE  UNCHANGED budgetVars
  BY <1>5 DEF IssueSignerAuthorization
<1>6. ASSUME \/ Tick
             \/ \E s \in StopTargets : SetStop(s)
             \/ \E f \in Profiles, setting \in Settings : ChangeProfile(f, setting)
      PROVE  UNCHANGED budgetVars
  BY <1>6 DEF Tick, SetStop, ChangeProfile
<1>7. QED
  BY <1>1, <1>2, <1>3, <1>4, <1>5, <1>6 DEF PaymentNext

-----------------------------------------------------------------------------
(* Types *)

LEMMA TodayTyped == ControlTypeOK => Today \in Days
BY PaymentAssumption DEF ControlTypeOK, Today

LEMMA ProposalTyped ==
    ASSUME ControlTypeOK, NEW p \in Payments, NEW terms
    PROVE  [verdict |-> Evaluate(p, terms), payment |-> p, fits |-> Fits(p),
            day |-> Today, limits |-> ProfileRow(p).limits] \in Proposal
<1>1. ProfileRow(p).limits \in Limits
  BY BudgetAssumption, PaymentAssumption DEF ControlTypeOK, ProfileRow
<1>2. Evaluate(p, terms) \in Verdicts
  BY DEF Evaluate, Verdicts
<1>3. Fits(p) \in BOOLEAN
  BY DEF Fits, FitsLimits
<1>4. QED
  BY <1>1, <1>2, <1>3, TodayTyped DEF Proposal

LEMMA ControlInit == PaymentInit => ControlTypeOK
BY PaymentAssumption DEF PaymentInit, ControlTypeOK, Statuses

LEMMA ControlStep == ControlTypeOK /\ [PaymentNext]_paymentVars => ControlTypeOK'
<1> SUFFICES ASSUME ControlTypeOK, [PaymentNext]_paymentVars PROVE ControlTypeOK'
  OBVIOUS
<1>1. ASSUME NEW w \in Workers, NEW p \in Payments, NEW terms \in Terms,
             ProposeRead(w, p, terms)
      PROVE  ControlTypeOK'
  BY <1>1, ProposalTyped DEF ProposeRead, ControlTypeOK, environmentVars, controlVars
<1>2. ASSUME NEW w \in Workers, ProposeRollback(w)
      PROVE  ControlTypeOK'
  BY <1>2 DEF ProposeRollback, Close, ControlTypeOK, environmentVars, controlVars
<1>3. ASSUME NEW w \in Workers, CommitDenied(w)
      PROVE  ControlTypeOK'
  BY <1>3, OpenProposal
     DEF CommitDenied, RecordDecision, Close, ControlTypeOK, environmentVars, Verdicts, Proposal
<1>4. ASSUME NEW w \in Workers, CommitProposed(w)
      PROVE  ControlTypeOK'
  BY <1>4, OpenProposal
     DEF CommitProposed, RecordDecision, Close, ControlTypeOK, environmentVars, Verdicts, Proposal, Statuses
<1>5. ASSUME NEW p \in Payments, NEW d \in OwnerDecisions, DecideOwnerApproval(p, d)
      PROVE  ControlTypeOK'
  <2>1. status' \in [Payments -> Statuses]
    BY <1>5 DEF DecideOwnerApproval, ControlTypeOK, Statuses
  <2>2. QED
    BY <1>5, <2>1 DEF DecideOwnerApproval, ControlTypeOK, environmentVars
<1>6. ASSUME NEW p \in Payments, IssueSignerAuthorization(p)
      PROVE  ControlTypeOK'
  <2>1. Expires[p] \in Nat /\ now + TTL \in Nat
    BY PaymentAssumption DEF ControlTypeOK
  <2>2. QED
    BY <1>6, <2>1 DEF IssueSignerAuthorization, ControlTypeOK, environmentVars, Statuses
<1>7. ASSUME NEW p \in Payments, CancelPayment(p)
      PROVE  ControlTypeOK'
  BY <1>7 DEF CancelPayment, ControlTypeOK, environmentVars, Statuses
<1>8. CASE Tick
  BY <1>8, PaymentAssumption DEF Tick, ControlTypeOK, controlVars
<1>9. ASSUME NEW s \in StopTargets, SetStop(s)
      PROVE  ControlTypeOK'
  BY <1>9 DEF SetStop, ControlTypeOK, controlVars
<1>10. ASSUME NEW f \in Profiles, NEW setting \in Settings, ChangeProfile(f, setting)
       PROVE  ControlTypeOK'
  BY <1>10 DEF ChangeProfile, ControlTypeOK, controlVars
<1>11. CASE UNCHANGED paymentVars
  BY <1>11 DEF paymentVars, environmentVars, controlVars, ControlTypeOK
<1>12. QED
  BY <1>1, <1>2, <1>3, <1>4, <1>5, <1>6, <1>7, <1>8, <1>9, <1>10, <1>11 DEF PaymentNext

\* The control plane drives the budget through its operations only, whatever
\* proposals, decisions and cancellations interleave.
THEOREM PaymentsMoveBudget == PaymentSpec => MovesBudget
<1>1. PaymentInit => BudgetInit
  BY DEF PaymentInit
<1>2. ControlTypeOK /\ [PaymentNext]_paymentVars => [BudgetNext]_budgetVars
  BY BudgetMove DEF paymentVars
<1>3. QED
  BY <1>1, <1>2, ControlInit, ControlStep, PTL DEF PaymentSpec, BudgetSpec, MovesBudget

\* Every row keeps its type.
THEOREM PaymentTypes == PaymentSpec => []PaymentTypeOK
<1>1. PaymentSpec => [](BudgetTypeOK /\ Conserved /\ WithinLimit)
  BY PaymentsMoveBudget, BudgetSafe, PTL DEF MovesBudget
<1>2. BudgetTypeOK /\ ControlTypeOK => PaymentTypeOK
  BY DEF ControlTypeOK, PaymentTypeOK
<1>3. QED
  BY <1>1, <1>2, ControlInit, ControlStep, PTL DEF PaymentSpec

-----------------------------------------------------------------------------
(* The approval gate.  A row and its decision come and go together, only a   *)
(* payment that needs the Owner has an approval, an approval is open only     *)
(* while nothing is authorized, and a verdict "allow" was read with units     *)
(* that fit.                                                                 *)

GateInv == \A p \in Payments :
    /\ status[p] = "NONE" <=> decision[p] \in {"NONE", "deny"}
    /\ status[p] = "NONE" => authorization[p] = 0 /\ approval[p] = "NONE"
    /\ decision[p] = "allow" => /\ approval[p] = "NONE"
                                 /\ status[p] \in {"PROPOSED", "SIGNER_REQUESTED", "CANCELLED"}
    /\ approval[p] = "PENDING" => authorization[p] = 0
    /\ authorization[p] > 0 => status[p] \in {"SIGNER_REQUESTED", "CANCELLED"}
    /\ authorization[p] > 0 /\ decision[p] = "require_owner_approval" => approval[p] = "APPROVE"

AllowedFits == \A w \in Workers : proposal[w].verdict = "allow" => proposal[w].fits

ControlInv == ControlTypeOK /\ GateInv /\ AllowedFits /\ BudgetFollowsPayment

\* The engine allows only what fits the limits.
LEMMA AllowFits == ASSUME NEW p, NEW terms, Evaluate(p, terms) = "allow" PROVE Fits(p)
BY DEF Evaluate, Exception

LEMMA ControlInvInit == PaymentInit => ControlInv
<1> SUFFICES ASSUME PaymentInit PROVE ControlInv
  OBVIOUS
<1>1. GateInv
  BY DEF PaymentInit, GateInv
<1>2. AllowedFits
  BY DEF PaymentInit, AllowedFits, NoProposal
<1>3. BudgetFollowsPayment
  BY DEF PaymentInit, BudgetInit, BudgetFollowsPayment, NoReservation, OpenStatus
<1>4. QED
  BY <1>1, <1>2, <1>3, ControlInit DEF ControlInv

\* Commands on stored payments touch one payment; these three facts say what.
LEMMA ReleaseHeldEffect ==
    ASSUME BudgetTypeOK, NEW p \in Payments, ReleaseHeld(p)
    PROVE  /\ reservations'[p].status # OpenStatus
           /\ \A q \in Payments \ {p} : reservations'[q] = reservations[q]
<1>1. CASE reservations[p].status = OpenStatus
  BY <1>1 DEF ReleaseHeld, Release, MoveReservation, BudgetTypeOK, OpenStatus
<1>2. CASE reservations[p].status # OpenStatus
  BY <1>2 DEF ReleaseHeld, budgetVars
<1>3. QED
  BY <1>1, <1>2

LEMMA ProposedStep ==
    ASSUME ControlInv, BudgetTypeOK, NEW w \in Workers, CommitProposed(w)
    PROVE  GateInv' /\ AllowedFits' /\ BudgetFollowsPayment'
<1> DEFINE p == proposal[w].payment
<1> USE DEF ControlInv
<1>1. proposal[w] \in Proposal /\ p \in Payments
  BY OpenProposal DEF CommitProposed, Verdicts, Proposal
<1> HIDE DEF p
<1>2. status[p] = "NONE"
  BY <1>1 DEF p, CommitProposed, ChallengeFree
<1>3. decision[p] = "NONE"
  BY <1>1, <1>2 DEF p, CommitProposed, RecordDecision, GateInv
<1> USE DEF p
<1>4. /\ decision[p] = "NONE" /\ status[p] = "NONE"
      /\ decision'[p] \in {"allow", "require_owner_approval"}
      /\ status'[p] \in {"PROPOSED", "APPROVAL_REQUIRED"}
      /\ decision'[p] = "allow" => status'[p] = "PROPOSED" /\ approval'[p] = "NONE"
      /\ authorization' = authorization
      /\ \A q \in Payments \ {p} : /\ decision'[q] = decision[q]
                                   /\ status'[q] = status[q]
                                   /\ approval'[q] = approval[q]
  BY <1>1, <1>2, <1>3 DEF CommitProposed, RecordDecision, ControlTypeOK
<1>5. GateInv'
  BY <1>1, <1>4 DEF GateInv
<1>6. AllowedFits'
  BY DEF AllowedFits, CommitProposed, Close, ControlTypeOK, NoProposal
<1>7. BudgetFollowsPayment'
  <2>1. CASE proposal[w].fits
    <3>1. reservations'[p].status = OpenStatus
      BY <2>1, <1>1 DEF CommitProposed, Reserve, BudgetTypeOK
    <3>2. \A q \in Payments \ {p} : reservations'[q] = reservations[q]
      BY <2>1, <1>1 DEF CommitProposed, Reserve, BudgetTypeOK
    <3>3. QED
      BY <3>1, <3>2, <1>1, <1>4 DEF BudgetFollowsPayment
  <2>2. CASE ~proposal[w].fits
    <3>1. reservations' = reservations
      BY <2>2 DEF CommitProposed, budgetVars
    <3>2. decision'[p] = "require_owner_approval"
      BY <2>2, <1>1 DEF CommitProposed, RecordDecision, AllowedFits, ControlTypeOK
    <3>3. QED
      BY <3>1, <3>2, <1>1, <1>4 DEF BudgetFollowsPayment
  <2>3. QED
    BY <2>1, <2>2
<1>8. QED
  BY <1>5, <1>6, <1>7

LEMMA DecisionStep ==
    ASSUME ControlInv, BudgetTypeOK, NEW p \in Payments, NEW d \in OwnerDecisions,
           DecideOwnerApproval(p, d)
    PROVE  GateInv' /\ AllowedFits' /\ BudgetFollowsPayment'
<1> USE DEF ControlInv
<1>1. /\ authorization[p] = 0 /\ decision[p] = "require_owner_approval" /\ status[p] # "NONE"
      /\ decision' = decision /\ authorization' = authorization /\ proposal' = proposal
      /\ approval'[p] = d
      /\ status'[p] = IF d = "APPROVE" THEN "APPROVED"
                      ELSE IF d \in {"REJECT", "REQUEST_CHANGES"} THEN "CANCELLED"
                      ELSE status[p]
      /\ \A q \in Payments \ {p} : status'[q] = status[q] /\ approval'[q] = approval[q]
  BY DEF DecideOwnerApproval, Undecided, ControlTypeOK, GateInv, Verdicts
<1>2. GateInv'
  BY <1>1 DEF GateInv, OwnerDecisions
<1>3. AllowedFits'
  BY <1>1 DEF AllowedFits
<1>4. BudgetFollowsPayment'
  <2>1. CASE d \in {"REJECT", "REQUEST_CHANGES"}
    <3>1. ReleaseHeld(p)
      BY <2>1 DEF DecideOwnerApproval, Undecided
    <3>2. QED
      BY <3>1, <1>1, ReleaseHeldEffect DEF BudgetFollowsPayment
  <2>2. CASE d \notin {"REJECT", "REQUEST_CHANGES"}
    <3>1. reservations' = reservations
      BY <2>2 DEF DecideOwnerApproval, Undecided, budgetVars
    <3>2. QED
      BY <2>2, <3>1, <1>1 DEF BudgetFollowsPayment
  <2>3. QED
    BY <2>1, <2>2
<1>5. QED
  BY <1>2, <1>3, <1>4

LEMMA AuthorizationStep ==
    ASSUME ControlInv, NEW p \in Payments, IssueSignerAuthorization(p)
    PROVE  GateInv' /\ AllowedFits' /\ BudgetFollowsPayment'
<1> USE DEF ControlInv
<1>1. /\ status[p] # "NONE"
      /\ decision' = decision /\ approval' = approval /\ proposal' = proposal
      /\ reservations' = reservations
      /\ decision[p] = "allow" \/ (status[p] = "APPROVED" /\ approval[p] = "APPROVE")
      /\ status'[p] = IF status[p] \in {"PROPOSED", "APPROVED", "SIGNER_REQUESTED"}
                      THEN "SIGNER_REQUESTED" ELSE status[p]
      /\ \A q \in Payments \ {p} :
           status'[q] = status[q] /\ authorization'[q] = authorization[q]
  BY DEF IssueSignerAuthorization, OwnerAgreed, ControlTypeOK, budgetVars
<1>2. GateInv'
  BY <1>1 DEF GateInv
<1>3. AllowedFits'
  BY <1>1 DEF AllowedFits
<1>4. BudgetFollowsPayment'
  BY <1>1 DEF BudgetFollowsPayment
<1>5. QED
  BY <1>2, <1>3, <1>4

LEMMA CancelStep ==
    ASSUME ControlInv, BudgetTypeOK, NEW p \in Payments, CancelPayment(p)
    PROVE  GateInv' /\ AllowedFits' /\ BudgetFollowsPayment'
<1> USE DEF ControlInv
<1>1. /\ status[p] # "NONE" /\ status'[p] = "CANCELLED"
      /\ decision' = decision /\ approval' = approval
      /\ authorization' = authorization /\ proposal' = proposal
      /\ \A q \in Payments \ {p} : status'[q] = status[q]
  BY DEF CancelPayment, ControlTypeOK
<1>2. GateInv'
  BY <1>1 DEF GateInv
<1>3. AllowedFits'
  BY <1>1 DEF AllowedFits
<1>4. BudgetFollowsPayment'
  BY <1>1, ReleaseHeldEffect DEF BudgetFollowsPayment, CancelPayment
<1>5. QED
  BY <1>2, <1>3, <1>4

\* Reading for a proposal, abandoning one and recording a denial store no payment.
LEMMA UnstoredStep ==
    ASSUME ControlInv, NEW w \in Workers,
           \/ \E p \in Payments, terms \in Terms : ProposeRead(w, p, terms)
           \/ ProposeRollback(w)
           \/ CommitDenied(w)
    PROVE  GateInv' /\ AllowedFits' /\ BudgetFollowsPayment'
<1> USE DEF ControlInv
<1>1. /\ status' = status /\ approval' = approval /\ authorization' = authorization
      /\ reservations' = reservations
  BY DEF ProposeRead, ProposeRollback, CommitDenied, budgetVars, controlVars
<1>2. \A p \in Payments : \/ decision'[p] = decision[p]
                          \/ decision[p] = "NONE" /\ decision'[p] = "deny"
  BY DEF ProposeRead, ProposeRollback, CommitDenied, RecordDecision, controlVars, ControlTypeOK
<1>3. GateInv'
  BY <1>1, <1>2 DEF GateInv
<1>4. AllowedFits'
  BY AllowFits
     DEF AllowedFits, ProposeRead, ProposeRollback, CommitDenied, Close, ControlTypeOK, NoProposal
<1>5. BudgetFollowsPayment'
  BY <1>1, <1>2 DEF BudgetFollowsPayment
<1>6. QED
  BY <1>3, <1>4, <1>5

LEMMA ControlInvStep == ControlInv /\ BudgetTypeOK /\ [PaymentNext]_paymentVars => ControlInv'
<1> SUFFICES ASSUME ControlInv, BudgetTypeOK, [PaymentNext]_paymentVars PROVE ControlInv'
  OBVIOUS
<1>1. ControlTypeOK'
  BY ControlStep DEF ControlInv
<1>2. CASE \/ UNCHANGED <<proposal, controlVars, budgetVars>>
           \/ Tick
           \/ \E s \in StopTargets : SetStop(s)
           \/ \E f \in Profiles, setting \in Settings : ChangeProfile(f, setting)
  <2>1. UNCHANGED <<proposal, controlVars, budgetVars>>
    BY <1>2 DEF Tick, SetStop, ChangeProfile
  <2>2. QED
    BY <2>1, <1>1 DEF controlVars, budgetVars, ControlInv, GateInv, AllowedFits,
       BudgetFollowsPayment
<1>3. QED
  BY <1>1, <1>2, ProposedStep, DecisionStep, AuthorizationStep, CancelStep, UnstoredStep
     DEF PaymentNext, ControlInv, paymentVars

LEMMA BudgetTyped == PaymentSpec => [](BudgetTypeOK /\ Conserved /\ WithinLimit)
BY PaymentsMoveBudget, BudgetSafe, PTL DEF MovesBudget

LEMMA ControlInvariant == PaymentSpec => []ControlInv
BY BudgetTyped, ControlInvInit, ControlInvStep, PTL DEF PaymentSpec

\* In whatever order proposals, approvals, cancellations and authorizations come,
\* a payment that needs the Owner is authorized only after its approval, an
\* authorized payment is never reopened and a denied one is never stored.
THEOREM ApprovalGateHolds ==
    PaymentSpec => [](ApprovalGate /\ AuthorizedIsMarked /\ DeniedStaysDenied)
<1>1. ControlInv => ApprovalGate /\ AuthorizedIsMarked /\ DeniedStaysDenied
  BY DEF ControlInv, GateInv, ApprovalGate, AuthorizedIsMarked, DeniedStaysDenied
<1>2. QED
  BY <1>1, ControlInvariant, PTL

-----------------------------------------------------------------------------
(* Capacity *)

\* A smaller set of payments has a smaller total.
LEMMA TotalMonotone ==
    ASSUME NEW S \in SUBSET Payments, NEW R \in SUBSET S
    PROVE  Total(R) <= Total(S)
<1>1. UnitsOf(R) \in SUBSET UnitsOf(S)
  BY DEF UnitsOf
<1>2. QED
  BY <1>1, UnitsFinite, FS_Subset DEF Total

\* What goes to the Signer without the Owner fits the limits of Task and day.
THEOREM UnapprovedFits == PaymentSpec => []UnapprovedWithinLimit
<1>1. ASSUME ControlInv, BudgetTypeOK, Conserved, WithinLimit
      PROVE  UnapprovedWithinLimit
  <2> SUFFICES ASSUME NEW s \in Scopes PROVE Total(Unapproved(s)) <= counters[s].limit
    BY DEF UnapprovedWithinLimit
  <2>1. Unapproved(s) \in SUBSET Holders(s, OpenStatus)
    BY <1>1 DEF ControlInv, BudgetFollowsPayment, Unapproved, Holders
  <2>2. Holders(s, OpenStatus) \in SUBSET Payments
    BY HoldersArePayments
  <2>3. Total(Unapproved(s)) <= Total(Holders(s, OpenStatus))
    BY <2>1, <2>2, TotalMonotone
  <2>4. counters[s] \in Counter
    BY <1>1 DEF BudgetTypeOK
  <2>5. /\ Total(Holders(s, OpenStatus)) = counters[s].reserved
        /\ counters[s].reserved + counters[s].consumed <= counters[s].limit
    BY <1>1 DEF Conserved, WithinLimit, Spent
  <2>6. Total(Unapproved(s)) \in Nat
    BY <2>1, <2>2, UnitsFinite
  <2>7. QED
    BY <2>3, <2>4, <2>5, <2>6 DEF Counter
<1>2. QED
  BY <1>1, BudgetTyped, ControlInvariant, PTL

\* Conservation and the limits hold of the control plane's counters too.
THEOREM PaymentsKeepLimits == PaymentSpec => []WithinLimit
BY PaymentsMoveBudget, BudgetSafe, PTL DEF MovesBudget

\* A decision given after the authorization does not reopen it
\* (decide_owner_approval, issue_signer_authorization).
THEOREM AuthorizationsStand == PaymentSpec => []AuthorizedIsMarked
BY ApprovalGateHolds, PTL

\* A recorded denial is final, whatever evaluations of the payment are under way.
THEOREM DenialsStand == PaymentSpec => []DeniedStaysDenied
BY ApprovalGateHolds, PTL

\* The reservation of a payment is open, released or cancelled with it.
THEOREM ReservationsFollow == PaymentSpec => []BudgetFollowsPayment
<1>1. ControlInv => BudgetFollowsPayment
  BY DEF ControlInv
<1>2. QED
  BY <1>1, ControlInvariant, PTL
=============================================================================
