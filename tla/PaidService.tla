---------------------------- MODULE PaidService ----------------------------
(***************************************************************************)
(* What a paid Service promises its payers, whatever the parties between    *)
(* them do: a Challenge is served at most once, for a payment that was made  *)
(* and that serves no other Challenge, and a payer is told of success only   *)
(* for a Challenge that was served.                                         *)
(***************************************************************************)
CONSTANTS Challenges, Payments

VARIABLES
    paid,     \* the payments made
    paidBy,   \* per Challenge: the payment it was served for, or Unserved
    told      \* the Challenges their payer knows to be served

promise == <<paid, paidBy, told>>

Unserved == <<>>

PromiseInit ==
    /\ paid = {}
    /\ paidBy = [c \in Challenges |-> Unserved]
    /\ told = {}

Pay(p) ==
    /\ paid' = paid \cup {p}
    /\ UNCHANGED <<paidBy, told>>

Serve(c, p) ==
    /\ paidBy[c] = Unserved
    /\ p \in paid /\ \A d \in Challenges : paidBy[d] # p
    /\ paidBy' = [paidBy EXCEPT ![c] = p]
    /\ UNCHANGED <<paid, told>>

Tell(c) ==
    /\ paidBy[c] # Unserved
    /\ told' = told \cup {c}
    /\ UNCHANGED <<paid, paidBy>>

\* The payer restarts.
Forget ==
    /\ told' = {}
    /\ UNCHANGED <<paid, paidBy>>

PromiseNext ==
    \/ \E p \in Payments : Pay(p)
    \/ \E c \in Challenges : Tell(c) \/ \E p \in Payments : Serve(c, p)
    \/ Forget

PromiseSpec == PromiseInit /\ [][PromiseNext]_promise
=============================================================================
