-------------------------- MODULE MppClient_proofs --------------------------
(***************************************************************************)
(* What holds of a paying Client and the Service it pays for every number   *)
(* of Challenges, keys and restarts, over every network of the model: money  *)
(* leaves once and for what was allowed, and the two of them implement the   *)
(* promise of a paid Service.                                               *)
(***************************************************************************)
EXTENDS MppClient, Sequences, TLAPS

Sessions == [challenge : Challenges, status : Unfinished \cup Ends, sequence : Nat]

\* A key has the session of one of its Challenges.
SessionsFit == \A k \in Keys : session[k] # NoSession => KeyOf[session[k].challenge] = k

\* The call that holds the lock works on a session that has not ended.
CallFits == call # Idle =>
    /\ session[Key].challenge = call.challenge /\ session[Key].status \in Unfinished
    /\ At("sign") => sent[Payment] = 0
    /\ call.pc \in {"send", "wait", "paid", "refused"} => sent[Payment] > 0
    /\ At("paid") => Served(call.challenge)

\* Nobody has paid in a life that is to come.
NotYetPaid == \A c \in Challenges, l \in 1..MaxLives : l > life => sent[<<c, l>>] = 0

\* A proof on the wire, and so in any result, is of money that was sent.
WireIsPaid == \A u \in wire : sent[u.receipt] > 0 /\ sent[u.signature] > 0

\* Attempts are counted from one.
HistoryFits == HistoryKeepsPace /\ \A a \in attempts : a.number # 0

MoneyInv == SessionsFit /\ CallFits /\ NotYetPaid /\ PaidOnce /\ OnlyAllowedIsPaid /\ HistoryFits
ClientInv == ClientTypeOK /\ MoneyInv /\ WireIsPaid /\ EffectsAccounted

-----------------------------------------------------------------------------
(* Data *)

\* A Challenge has a key, a payment names one Challenge and one life, and is
\* not the empty tuple that stands for no payment.
LEMMA PaymentNames ==
    /\ \A c \in Challenges : KeyOf[c] \in Keys
    /\ \A c \in Challenges, l \in 1..MaxLives : <<c, l>> \in Payments
    /\ \A c, d \in Challenges, l, m \in 1..MaxLives : <<c, l>> = <<d, m>> => c = d /\ l = m
<1>1. Payments = Challenges \X (1..MaxLives)
  BY ClientAssumption
<1>2. QED
  BY <1>1 DEF Keys

\* A payment is not what stands for none.
LEMMA PaymentIsNotEmpty == \A p \in Payments : p # <<>>
<1> SUFFICES ASSUME NEW p \in Challenges \X (1..MaxLives) PROVE p # <<>>
  BY ClientAssumption
<1>1. PICK c \in Challenges, l \in 1..MaxLives : p = <<c, l>>
  OBVIOUS
<1>2. Len(<<c, l>>) = 2 /\ Len(<<>>) = 0
  OBVIOUS
<1>3. QED
  BY <1>1, <1>2

\* Nothing is offered, sent or served at the start.
LEMMA ClientInvInit == ClientInit => ClientInv
<1> SUFFICES ASSUME ClientInit PROVE ClientInv
  OBVIOUS
<1> USE DEF ClientInit, ServiceInit
<1>1. ClientTypeOK
  BY ClientAssumption, ServiceAssumption DEF ClientTypeOK, Idle
<1>2. SessionsFit /\ CallFits
  BY DEF SessionsFit, CallFits
<1>3. NotYetPaid /\ PaidOnce /\ OnlyAllowedIsPaid /\ WireIsPaid
  BY PaymentNames, ClientAssumption DEF NotYetPaid, PaidOnce, OnlyAllowedIsPaid, WireIsPaid
<1>4. HistoryFits
  BY DEF HistoryFits, HistoryKeepsPace
<1>5. EffectsAccounted
  <2> SUFFICES ASSUME NEW c \in Challenges
               PROVE  effects[c] = raised[c] + (IF results[c] # NoResult THEN 1 ELSE 0)
    BY DEF EffectsAccounted, Served
  <2>1. results[c] = NoResult /\ effects[c] = 0 /\ raised[c] = 0
    OBVIOUS
  <2>2. QED
    BY <2>1
<1>6. QED
  BY <1>1, <1>2, <1>3, <1>4, <1>5 DEF ClientInv, MoneyInv

\* What a call that is under way works on.
LEMMA Working ==
    ASSUME ClientInv, call # Idle
    PROVE  /\ call.challenge \in Challenges /\ Key \in Keys /\ Payment \in Payments
           /\ Payment = <<call.challenge, life>> /\ Key = KeyOf[call.challenge]
           /\ session[Key] # NoSession /\ session[Key] \in Sessions
           /\ session[Key].challenge = call.challenge /\ session[Key].status \in Unfinished
           /\ sent[Payment] \in {0, 1}
<1> USE DEF ClientInv, MoneyInv
<1>1. call.challenge \in Challenges
  BY DEF ClientTypeOK, Calls
<1>2. Key = KeyOf[call.challenge] /\ Payment = <<call.challenge, life>>
  BY DEF Key, Payment
<1>3. life \in 1..MaxLives
  BY DEF ClientTypeOK
<1>4. Key \in Keys /\ Payment \in Payments
  BY <1>1, <1>2, <1>3, PaymentNames
<1>5. session[Key].challenge = call.challenge /\ session[Key].status \in Unfinished
  BY DEF CallFits
<1>6. session[Key] # NoSession
  BY <1>5 DEF NoSession, Unfinished
<1>7. session[Key] \in Sessions
  BY <1>4, <1>6 DEF ClientTypeOK, Sessions
<1>8. sent[Payment] \in Nat /\ sent[Payment] <= 1
  BY <1>4 DEF ClientTypeOK, PaidOnce
<1>9. sent[Payment] \in {0, 1}
  BY <1>8
<1>10. QED
  BY <1>1, <1>2, <1>4, <1>5, <1>6, <1>7, <1>9

-----------------------------------------------------------------------------
(* Sessions and what they send *)

\* A payment goes on to another of its steps, and may leave money sent.
LEMMA CallMoves ==
    ASSUME ClientInv, call # Idle, NEW pc, pc # "idle", NEW n \in {0, 1},
           call' = [call EXCEPT !.pc = pc],
           sent' = [sent EXCEPT ![Payment] = n], sent[Payment] <= n,
           UNCHANGED <<life, session, attempts>>,
           pc = "sign" => n = 0,
           pc \in {"send", "wait", "paid", "refused"} => n = 1,
           n = 1 => pc \in {"send", "wait", "paid", "refused"},
           pc = "paid" => Served(call.challenge)'
    PROVE  MoneyInv'
<1> DEFINE c == call.challenge
<1> USE DEF ClientInv, MoneyInv
<1>1. /\ c \in Challenges /\ KeyOf[c] \in Keys /\ <<c, life>> \in Payments
      /\ Payment = <<c, life>> /\ Key = KeyOf[c]
      /\ session[KeyOf[c]].challenge = c /\ session[KeyOf[c]].status \in Unfinished
  BY Working
<1>2. call'.pc = pc /\ call'.challenge = c /\ call \in Calls /\ call' # Idle
  BY DEF ClientTypeOK, Calls, Idle
<1>3. sent'[<<c, life>>] = n /\ \A p \in Payments : p # <<c, life>> => sent'[p] = sent[p]
  BY <1>1 DEF ClientTypeOK
<1>4. SessionsFit' /\ HistoryFits'
  BY DEF SessionsFit, HistoryFits, HistoryKeepsPace
<1>5. CallFits'
  BY <1>1, <1>2, <1>3 DEF CallFits, Key, Payment, At, Served
<1>6. life \in 1..MaxLives /\ life' = life
  BY DEF ClientTypeOK
<1>7. \A d \in Challenges, l \in 1..MaxLives :
          /\ <<d, l>> \in Payments
          /\ d # c \/ l # life => sent'[<<d, l>>] = sent[<<d, l>>]
  BY <1>1, <1>3, <1>6, PaymentNames
<1>8. NotYetPaid'
  BY <1>6, <1>7 DEF NotYetPaid
<1>9. PaidOnce'
  BY <1>3 DEF PaidOnce
<1>10. OnlyAllowedIsPaid'
  <2> SUFFICES ASSUME NEW d \in Challenges, sent'[<<d, life>>] > 0
               PROVE  /\ session[KeyOf[d]].challenge = d
                      /\ \/ session[KeyOf[d]].status \in {"SUCCEEDED", "FAILED"}
                         \/ session[KeyOf[d]].status \in Unfinished /\ PastPolicy(d)'
    BY <1>6 DEF OnlyAllowedIsPaid, PastPolicy
  <2>1. CASE d = c
    BY <2>1, <1>1, <1>2, <1>3 DEF PastPolicy
  <2>2. CASE d # c
    <3>1. sent[<<d, life>>] > 0
      BY <2>2, <1>6, <1>7
    <3>2. QED
      BY <3>1, <2>2 DEF OnlyAllowedIsPaid, PastPolicy
  <2>3. QED
    BY <2>1, <2>2
<1>11. QED
  BY <1>4, <1>5, <1>8, <1>9, <1>10

\* A session gets a result and its call gives the lock back.
LEMMA SessionResult ==
    ASSUME ClientInv, NEW k \in Keys, NEW c \in Challenges, NEW status \in {"PENDING_APPROVAL"} \cup Ends,
           NEW n \in {0, 1},
           session[k].challenge = c, session[k].status \in Unfinished,
           call = Idle \/ call.challenge = c,
           Finish(k, status), UNCHANGED life,
           sent' = [sent EXCEPT ![<<c, life>>] = n], sent[<<c, life>>] <= n,
           n = 1 => status \in {"SUCCEEDED", "FAILED"}
    PROVE  MoneyInv'
<1> USE DEF ClientInv, MoneyInv
<1>1. life \in 1..MaxLives /\ life' = life /\ <<c, life>> \in Payments
  BY PaymentNames DEF ClientTypeOK
<1>2. /\ session[k] # NoSession /\ session[k] \in Sessions /\ KeyOf[c] = k
  <2>1. session[k] # NoSession
    BY DEF NoSession, Unfinished
  <2>2. QED
    BY <2>1 DEF SessionsFit, ClientTypeOK, Sessions
<1>3. /\ session'[k].challenge = c /\ session'[k].status = status
      /\ session'[k].sequence = session[k].sequence + 1 /\ session[k].sequence \in Nat
      /\ \A q \in Keys : q # k => session'[q] = session[q]
      /\ call' = Idle
  BY <1>2 DEF Finish, ClientTypeOK, Sessions
<1>4. sent'[<<c, life>>] = n /\ \A p \in Payments : p # <<c, life>> => sent'[p] = sent[p]
  BY <1>1 DEF ClientTypeOK
<1>5. CallFits'
  BY <1>3 DEF CallFits
<1>6. SessionsFit'
  BY <1>2, <1>3 DEF SessionsFit
<1>7. \A d \in Challenges, l \in 1..MaxLives :
          /\ <<d, l>> \in Payments
          /\ d # c \/ l # life => sent'[<<d, l>>] = sent[<<d, l>>]
  BY <1>1, <1>4, PaymentNames
<1>8. NotYetPaid'
  BY <1>1, <1>7 DEF NotYetPaid
<1>9. PaidOnce'
  BY <1>4 DEF PaidOnce
<1>10. OnlyAllowedIsPaid'
  <2> SUFFICES ASSUME NEW d \in Challenges, sent'[<<d, life>>] > 0
               PROVE  /\ session'[KeyOf[d]].challenge = d
                      /\ session'[KeyOf[d]].status \in {"SUCCEEDED", "FAILED"}
    BY <1>1 DEF OnlyAllowedIsPaid
  <2>1. CASE d = c
    BY <2>1, <1>2, <1>3, <1>4
  <2>2. CASE d # c
    <3>1. sent[<<d, life>>] > 0
      BY <2>2, <1>1, <1>7
    <3>2. session[KeyOf[d]].challenge = d /\ session[KeyOf[d]].status \in {"SUCCEEDED", "FAILED"}
      BY <3>1, <2>2 DEF OnlyAllowedIsPaid, PastPolicy
    <3>3. KeyOf[d] # k /\ KeyOf[d] \in Keys
      BY <3>2, <2>2, PaymentNames
    <3>4. QED
      BY <3>2, <3>3, <1>3
  <2>3. QED
    BY <2>1, <2>2
<1>11. HistoryFits'
  <2> SUFFICES ASSUME life = 1, NEW a \in attempts'
               PROVE  /\ a.number <= session'[a.key].sequence
                      /\ a.number = session'[a.key].sequence => a.status = session'[a.key].status
    <3>1. \A a \in attempts' : a.number # 0
      BY <1>3 DEF HistoryFits, Finish, Record
    <3>2. QED
      BY <1>1, <3>1 DEF HistoryFits, HistoryKeepsPace
  <2>1. a \in attempts \/ a = [key |-> k, number |-> session[k].sequence + 1, status |-> status]
    BY DEF Finish, Record
  <2>2. CASE a \in attempts
    <3>1. /\ a.key \in Keys /\ a.number \in Nat /\ a.number <= session[a.key].sequence
          /\ a.number = session[a.key].sequence => a.status = session[a.key].status
      BY <2>2 DEF ClientTypeOK, HistoryFits, HistoryKeepsPace
    <3>2. QED
      BY <3>1, <1>3
  <2>3. CASE a = [key |-> k, number |-> session[k].sequence + 1, status |-> status]
    BY <2>3, <1>3
  <2>4. QED
    BY <2>1, <2>2, <2>3
<1>12. QED
  BY <1>5, <1>6, <1>8, <1>9, <1>10, <1>11

\* What a step that keeps the Service's state and sends no less owes besides.
LEMMA KeepsService ==
    ASSUME ClientInv, UNCHANGED serviceVars, ClientTypeOK', MoneyInv',
           \A p \in Payments : sent'[p] >= sent[p],
           \A u \in wire' : u \in wire \/ (sent'[u.receipt] > 0 /\ sent'[u.signature] > 0)
    PROVE  ClientInv'
<1> USE DEF ClientInv
<1>1. EffectsAccounted'
  BY DEF EffectsAccounted, Served, serviceVars
<1>2. WireIsPaid'
  <2> SUFFICES ASSUME NEW u \in wire PROVE sent'[u.receipt] > 0 /\ sent'[u.signature] > 0
    BY DEF WireIsPaid
  <2>1. u.receipt \in Payments /\ u.signature \in Payments
    BY DEF ClientTypeOK, Submissions
  <2>2. /\ sent[u.receipt] \in Nat /\ sent'[u.receipt] \in Nat
        /\ sent[u.signature] \in Nat /\ sent'[u.signature] \in Nat
    BY <2>1 DEF ClientTypeOK
  <2>3. sent[u.receipt] > 0 /\ sent[u.signature] > 0
    BY DEF WireIsPaid
  <2>4. QED
    BY <2>1, <2>2, <2>3
<1>3. QED
  BY <1>1, <1>2

\* A result, an attempt's row and a payment that is sent have their types.
LEMMA ResultTypes ==
    ASSUME ClientInv, NEW k \in Keys, NEW c \in Challenges, NEW status \in {"PENDING_APPROVAL"} \cup Ends,
           NEW n \in {0, 1}, session[k] # NoSession, Finish(k, status),
           UNCHANGED <<life, bound, wire, serviceVars>>,
           sent' = [sent EXCEPT ![<<c, life>>] = n]
    PROVE  ClientTypeOK'
<1> USE DEF ClientInv
<1>1. session[k] \in Sessions /\ session[k].sequence \in Nat
  BY DEF ClientTypeOK, Sessions
<1>2. session' \in [Keys -> {NoSession} \cup Sessions]
  <2> DEFINE new == [challenge |-> session[k].challenge, status |-> status, sequence |-> session[k].sequence + 1]
  <2>1. new \in Sessions
    BY <1>1 DEF Sessions, Unfinished
  <2>2. /\ session'[k] = new /\ DOMAIN session' = Keys
        /\ session' = [q \in Keys |-> session'[q]]
        /\ \A q \in Keys : q # k => session'[q] = session[q]
    BY <1>1 DEF Finish, Sessions, ClientTypeOK
  <2> HIDE DEF new
  <2>3. \A q \in Keys : session'[q] \in {NoSession} \cup Sessions
    BY <2>1, <2>2 DEF ClientTypeOK, Sessions
  <2>4. QED
    BY <2>2, <2>3
<1>3. attempts' \subseteq [key : Keys, number : Nat, status : Unfinished \cup Ends]
  <2>1. [key |-> k, number |-> session[k].sequence + 1, status |-> status]
            \in [key : Keys, number : Nat, status : Unfinished \cup Ends]
    BY <1>1 DEF Unfinished
  <2>2. attempts' \subseteq attempts \cup {[key |-> k, number |-> session[k].sequence + 1, status |-> status]}
    BY DEF Finish, Record
  <2>3. QED
    BY <2>1, <2>2 DEF ClientTypeOK
<1>4. sent' \in [Payments -> Nat]
  <2>1. n \in Nat /\ sent \in [Payments -> Nat]
    BY DEF ClientTypeOK
  <2>2. QED
    BY <2>1
<1>5. call' = Idle
  BY DEF Finish
<1>6. QED
  BY <1>2, <1>3, <1>4, <1>5 DEF ClientTypeOK, Sessions, serviceVars

\* Offering, refusing and raising before any result leave all payments alone.
LEMMA PayStep ==
    ASSUME ClientInv, NEW c \in Challenges, PayChallenge(c) PROVE ClientInv'
<1> USE DEF ClientInv, MoneyInv
<1> DEFINE k == KeyOf[c]
           new == [challenge |-> c, status |-> "NONE", sequence |-> 0]
<1>0. /\ k \in Keys /\ session[k] = NoSession /\ call = Idle
      /\ session' = [session EXCEPT ![k] = new]
      /\ call' = [pc |-> "policy", challenge |-> c]
      /\ UNCHANGED <<life, sent, wire, attempts, serviceVars>> /\ bound' = bound \cup {c}
  <2>1. k \in Keys
    BY PaymentNames
  <2>2. call = Idle
    BY DEF PayChallenge, Fresh, At, ClientTypeOK, Calls
  <2>3. QED
    BY <2>1, <2>2 DEF PayChallenge, Fresh
<1>1. /\ session'[k] = new /\ \A q \in Keys : q # k => session'[q] = session[q]
  BY <1>0 DEF ClientTypeOK
<1>2. ClientTypeOK'
  <2>1. new \in Sessions
    BY DEF Sessions, Unfinished
  <2>2. call' \in Calls
    BY <1>0 DEF Calls
  <2> HIDE DEF new
  <2>3. session' \in [Keys -> {NoSession} \cup Sessions]
    BY <1>0, <2>1 DEF ClientTypeOK, Sessions
  <2>4. QED
    BY <1>0, <2>2, <2>3 DEF ClientTypeOK, Sessions, serviceVars
<1>3. CallFits'
  BY <1>0, <1>1 DEF CallFits, Key, At, Unfinished
<1>4. SessionsFit'
  BY <1>0, <1>1 DEF SessionsFit
<1>5. NotYetPaid' /\ PaidOnce'
  BY <1>0 DEF NotYetPaid, PaidOnce
<1>6. OnlyAllowedIsPaid'
  <2> SUFFICES ASSUME NEW d \in Challenges, sent[<<d, life>>] > 0
               PROVE  /\ session'[KeyOf[d]].challenge = d
                      /\ session'[KeyOf[d]].status \in {"SUCCEEDED", "FAILED"}
    BY <1>0 DEF OnlyAllowedIsPaid
  <2>1. session[KeyOf[d]].challenge = d /\ session[KeyOf[d]].status \in {"SUCCEEDED", "FAILED"}
    BY <1>0 DEF OnlyAllowedIsPaid, PastPolicy
  <2>2. KeyOf[d] # k /\ KeyOf[d] \in Keys
    BY <2>1, <1>0, PaymentNames DEF NoSession
  <2>3. QED
    BY <2>1, <2>2, <1>1
<1>7. HistoryFits'
  <2>1. \A a \in attempts : a.number \in Nat /\ a.key \in Keys /\ a.number # 0
    BY DEF HistoryFits, ClientTypeOK
  <2>2. life = 1 => \A a \in attempts : a.key # k
    BY <1>0, <2>1 DEF HistoryFits, HistoryKeepsPace, NoSession
  <2>3. QED
    BY <1>0, <1>1, <2>1, <2>2 DEF HistoryFits, HistoryKeepsPace
<1>8. MoneyInv'
  BY <1>3, <1>4, <1>5, <1>6, <1>7
<1>9. \A p \in Payments : sent'[p] >= sent[p]
  BY <1>0 DEF ClientTypeOK
<1>10. QED
  BY <1>0, <1>2, <1>8, <1>9, KeepsService DEF ClientInv

\* A result is stored, and its payment sent with it or before it.
LEMMA FinishStep ==
    ASSUME ClientInv, NEW k \in Keys, NEW c \in Challenges, NEW status \in {"PENDING_APPROVAL"} \cup Ends,
           NEW n \in {0, 1},
           session[k].challenge = c, session[k].status \in Unfinished,
           call = Idle \/ call.challenge = c,
           Finish(k, status), UNCHANGED <<life, bound, wire, serviceVars>>,
           sent' = [sent EXCEPT ![<<c, life>>] = n], sent[<<c, life>>] <= n,
           n = 1 => status \in {"SUCCEEDED", "FAILED"}
    PROVE  ClientInv'
<1>1. MoneyInv'
  BY SessionResult
<1>2. session[k] # NoSession
  BY DEF NoSession, Unfinished
<1>3. ClientTypeOK'
  BY <1>2, ResultTypes
<1>4. \A p \in Payments : sent'[p] >= sent[p]
  BY DEF ClientInv, ClientTypeOK
<1>5. QED
  BY <1>1, <1>3, <1>4, KeepsService

\* The call in hand ends with nothing sent in it since it was taken up.
LEMMA EndStep ==
    ASSUME ClientInv, call # Idle, NEW status \in {"PENDING_APPROVAL"} \cup Ends, Finish(Key, status),
           UNCHANGED <<life, bound, sent, wire, serviceVars>>,
           sent[Payment] = 0 \/ status \in {"SUCCEEDED", "FAILED"}
    PROVE  ClientInv'
<1>1. /\ call.challenge \in Challenges /\ Key \in Keys /\ Payment \in Payments
      /\ Payment = <<call.challenge, life>>
      /\ session[Key].challenge = call.challenge /\ session[Key].status \in Unfinished
      /\ sent[Payment] \in {0, 1}
  BY Working
<1>2. sent' = [sent EXCEPT ![Payment] = sent[Payment]]
  BY <1>1 DEF ClientInv, ClientTypeOK
<1> DEFINE n == sent[Payment]
           k == Key
           c == call.challenge
<1>3. n \in {0, 1} /\ <<c, life>> = Payment /\ (n = 1 => status \in {"SUCCEEDED", "FAILED"})
  BY <1>1
<1>4. sent[<<c, life>>] <= n /\ sent' = [sent EXCEPT ![<<c, life>>] = n]
  <2>1. sent[<<c, life>>] = n
    BY <1>3
  <2>2. n <= n
    BY <1>3
  <2>3. QED
    BY <1>2, <1>3, <2>1, <2>2
<1>5. /\ k \in Keys /\ c \in Challenges /\ session[k].challenge = c /\ session[k].status \in Unfinished
      /\ Finish(k, status) /\ call.challenge = c
  BY <1>1
<1> HIDE DEF n, k, c
<1>6. QED
  BY <1>3, <1>4, <1>5, FinishStep

\* Before its payment a call has sent nothing.
LEMMA NothingSentYet ==
    ASSUME ClientInv, call # Idle, call.pc \in {"policy", "reevaluate", "sign"}
    PROVE  sent[Payment] = 0
<1>1. /\ call.challenge \in Challenges /\ Key = KeyOf[call.challenge] /\ Payment = <<call.challenge, life>>
      /\ session[Key].status \in Unfinished /\ sent[Payment] \in {0, 1}
  BY Working
<1>2. CASE call.pc = "sign"
  BY <1>2 DEF ClientInv, MoneyInv, CallFits, At
<1>3. CASE call.pc # "sign"
  <2>1. ~PastPolicy(call.challenge)
    BY <1>3 DEF PastPolicy
  <2>2. ~(sent[Payment] > 0)
    BY <1>1, <2>1 DEF ClientInv, MoneyInv, OnlyAllowedIsPaid, Unfinished
  <2>3. QED
    BY <1>1, <2>2
<1>4. QED
  BY <1>2, <1>3

\* A call goes on; what it has sent is told by where it is.
LEMMA GoOnStep ==
    ASSUME ClientInv, call # Idle, NEW pc \in {"sign", "send", "wait"}, NEW n \in {0, 1},
           Goto(pc), sent' = [sent EXCEPT ![Payment] = n], sent[Payment] <= n,
           n = 1 <=> pc \in {"send", "wait"},
           UNCHANGED <<life, session, bound, attempts, serviceVars>>,
           wire' = wire \/ (wire' = wire \cup {Proof} /\ n = 1)
    PROVE  ClientInv'
<1>1. /\ call.challenge \in Challenges /\ Payment \in Payments /\ call \in Calls
  BY Working DEF ClientInv, ClientTypeOK
<1>2. call' = [call EXCEPT !.pc = pc] /\ call' \in Calls
  BY <1>1 DEF Goto, Calls
<1>3. MoneyInv'
  BY <1>2, CallMoves
<1>4. sent' \in [Payments -> Nat] /\ sent'[Payment] = n /\ \A p \in Payments : sent'[p] >= sent[p]
  <2>1. n \in Nat /\ sent \in [Payments -> Nat]
    BY DEF ClientInv, ClientTypeOK
  <2>2. QED
    BY <2>1, <1>1
<1>5. Proof \in Submissions /\ Proof.receipt = Payment /\ Proof.signature = Payment
  BY <1>1 DEF Proof, Submissions, Flaws
<1>6. ClientTypeOK'
  BY <1>2, <1>4, <1>5 DEF ClientInv, ClientTypeOK, serviceVars
<1>7. \A u \in wire' : u \in wire \/ (sent'[u.receipt] > 0 /\ sent'[u.signature] > 0)
  BY <1>4, <1>5
<1>8. QED
  BY <1>3, <1>4, <1>6, <1>7, KeepsService

\* The lock is given back and the session left as it was.
LEMMA LeaveStep ==
    ASSUME ClientInv, call # Idle, call.pc \in {"policy", "reevaluate"}, call' = Idle,
           UNCHANGED <<life, session, bound, sent, wire, attempts, serviceVars>>
    PROVE  ClientInv'
<1> USE DEF ClientInv, MoneyInv
<1>1. ClientTypeOK'
  BY DEF ClientTypeOK, serviceVars
<1>2. SessionsFit' /\ CallFits' /\ NotYetPaid' /\ PaidOnce' /\ HistoryFits'
  BY DEF SessionsFit, CallFits, NotYetPaid, PaidOnce, HistoryFits, HistoryKeepsPace
<1>3. OnlyAllowedIsPaid'
  <2>1. \A c \in Challenges : ~PastPolicy(c)
    BY DEF PastPolicy
  <2>2. QED
    BY <2>1 DEF OnlyAllowedIsPaid
<1>4. \A p \in Payments : sent'[p] >= sent[p]
  BY DEF ClientTypeOK
<1>5. QED
  BY <1>1, <1>2, <1>3, <1>4, KeepsService

\* The gates and the Policy, and what a resumed session is asked again.
LEMMA PolicySteps ==
    ASSUME ClientInv, Evaluate \/ Reevaluate PROVE ClientInv'
<1>1. /\ call # Idle /\ call.pc \in {"policy", "reevaluate"}
      /\ UNCHANGED <<life, bound, sent, wire, serviceVars>>
  BY DEF Evaluate, Reevaluate, At, Idle
<1>2. sent[Payment] = 0 /\ Payment \in Payments
  BY <1>1, NothingSentYet, Working
<1>3. CASE Finish(Key, "DENIED") \/ Finish(Key, "PENDING_APPROVAL")
  <2>1. {"DENIED", "PENDING_APPROVAL"} \subseteq {"PENDING_APPROVAL"} \cup Ends
    BY DEF Ends
  <2>2. PICK status \in {"DENIED", "PENDING_APPROVAL"} : Finish(Key, status)
    BY <1>3
  <2>3. QED
    BY <1>1, <1>2, <2>1, <2>2, EndStep
<1>4. CASE Goto("sign") /\ UNCHANGED <<session, attempts>>
  <2>1. sent' = [sent EXCEPT ![Payment] = 0]
    BY <1>1, <1>2 DEF ClientInv, ClientTypeOK
  <2>2. sent[Payment] <= 0
    BY <1>2
  <2>3. \A pc, n : pc = "sign" /\ n = 0 =>
            /\ pc \in {"sign", "send", "wait"} /\ n \in {0, 1}
            /\ n = 1 <=> pc \in {"send", "wait"}
    OBVIOUS
  <2>4. QED
    BY <1>1, <1>4, <2>1, <2>2, <2>3, GoOnStep
<1>5. CASE call' = Idle /\ UNCHANGED <<session, attempts>>
  BY <1>1, <1>5, LeaveStep
<1>6. QED
  BY <1>3, <1>4, <1>5 DEF Evaluate, Reevaluate

\* The session that waits for the Owner is taken up, or ends.
LEMMA ResumeStep ==
    ASSUME ClientInv, NEW k \in Keys, Resume(k) PROVE ClientInv'
<1> DEFINE c == session[k].challenge
<1> USE DEF ClientInv, MoneyInv
<1>0. /\ call = Idle /\ session[k].status = "PENDING_APPROVAL"
      /\ UNCHANGED <<life, bound, sent, wire, serviceVars>>
  BY DEF Resume, At, ClientTypeOK, Calls
<1>1. /\ session[k] # NoSession /\ c \in Challenges /\ KeyOf[c] = k
  <2>1. session[k] # NoSession
    BY <1>0 DEF NoSession
  <2>2. QED
    BY <2>1 DEF SessionsFit, ClientTypeOK
<1>2. life \in 1..MaxLives /\ <<c, life>> \in Payments /\ sent[<<c, life>>] = 0
  <2>1. life \in 1..MaxLives /\ <<c, life>> \in Payments
    BY <1>1, PaymentNames DEF ClientTypeOK
  <2>2. ~(sent[<<c, life>>] > 0)
    BY <1>0, <1>1 DEF OnlyAllowedIsPaid, PastPolicy
  <2>3. sent[<<c, life>>] \in Nat
    BY <2>1 DEF ClientTypeOK
  <2>4. QED
    BY <2>1, <2>2, <2>3
<1>3. CASE Finish(k, "DENIED")
  <2>1. sent' = [sent EXCEPT ![<<c, life>>] = 0] /\ sent[<<c, life>>] <= 0
    BY <1>0, <1>2 DEF ClientTypeOK
  <2>2. c \in Challenges /\ session[k].challenge = c /\ session[k].status \in Unfinished
    BY <1>0, <1>1 DEF Unfinished
  <2>3. \A q, n : q = "DENIED" /\ n = 0 =>
            /\ q \in {"PENDING_APPROVAL"} \cup Ends /\ n \in {0, 1}
            /\ n = 1 => q \in {"SUCCEEDED", "FAILED"}
    BY DEF Ends
  <2> HIDE DEF c
  <2>4. QED
    BY <1>0, <1>3, <2>1, <2>2, <2>3, FinishStep
<1>4. CASE /\ call' = [pc |-> "reevaluate", challenge |-> c]
           /\ UNCHANGED <<session, attempts>>
  <2>1. ClientTypeOK'
    BY <1>0, <1>1, <1>4 DEF ClientTypeOK, Calls, serviceVars
  <2>2. SessionsFit' /\ NotYetPaid' /\ PaidOnce' /\ HistoryFits'
    BY <1>0, <1>4 DEF SessionsFit, NotYetPaid, PaidOnce, HistoryFits, HistoryKeepsPace
  <2>3. CallFits'
    BY <1>0, <1>1, <1>4 DEF CallFits, Key, At, Unfinished
  <2>4. OnlyAllowedIsPaid'
    BY <1>0, <1>4 DEF OnlyAllowedIsPaid, PastPolicy
  <2>5. \A p \in Payments : sent'[p] >= sent[p]
    BY <1>0 DEF ClientTypeOK
  <2>6. QED
    BY <1>0, <2>1, <2>2, <2>3, <2>4, <2>5, KeepsService
<1>5. QED
  BY <1>3, <1>4 DEF Resume

\* The Signer sends the payment of a call that has sent none.
LEMMA SignStep ==
    ASSUME ClientInv, Sign PROVE ClientInv'
<1>1. /\ call # Idle /\ call.pc = "sign"
      /\ UNCHANGED <<life, bound, wire, serviceVars>>
  BY DEF Sign, At, Idle
<1>2. /\ sent[Payment] = 0 /\ Payment \in Payments /\ Payment = <<call.challenge, life>>
      /\ call.challenge \in Challenges /\ Key \in Keys
      /\ session[Key].challenge = call.challenge /\ session[Key].status \in Unfinished
  BY <1>1, NothingSentYet, Working
<1>0. sent[Payment] = 0 /\ sent[Payment] + 1 = 1
  BY <1>2
<1>3. CASE \E status \in {"FAILED", "STOPPED"} : Finish(Key, status) /\ UNCHANGED sent
  BY <1>1, <1>2, <1>3, EndStep DEF Ends
<1>4. CASE sent' = [sent EXCEPT ![Payment] = @ + 1] /\ Finish(Key, "FAILED")
  <2> DEFINE k == Key
             c == call.challenge
  <2>0. sent' = [sent EXCEPT ![Payment] = 1]
    BY <1>0, <1>4
  <2>1. sent' = [sent EXCEPT ![<<c, life>>] = 1] /\ sent[<<c, life>>] <= 1
    BY <1>2, <2>0
  <2>2. /\ k \in Keys /\ c \in Challenges /\ session[k].challenge = c /\ session[k].status \in Unfinished
        /\ Finish(k, "FAILED") /\ call.challenge = c
    BY <1>2, <1>4
  <2> HIDE DEF k, c
  <2>3. QED
    BY <1>1, <2>1, <2>2, FinishStep DEF Ends
<1>5. CASE /\ sent' = [sent EXCEPT ![Payment] = @ + 1] /\ Goto("send")
           /\ UNCHANGED <<session, attempts>>
  <2>1. sent' = [sent EXCEPT ![Payment] = 1] /\ sent[Payment] <= 1
    BY <1>0, <1>5
  <2>2. QED
    BY <1>1, <1>5, <2>1, GoOnStep
<1>6. QED
  BY <1>3, <1>4, <1>5 DEF Sign

\* The proof of a payment that was sent goes on the wire.
LEMMA SubmitStep ==
    ASSUME ClientInv, SubmitProof PROVE ClientInv'
<1>1. /\ call # Idle /\ call.pc = "send" /\ Goto("wait") /\ wire' = wire \cup {Proof}
      /\ UNCHANGED <<life, session, bound, sent, attempts, serviceVars>>
  BY DEF SubmitProof, At, Idle
<1>2. sent[Payment] \in {0, 1} /\ sent[Payment] > 0
  BY <1>1, Working DEF ClientInv, MoneyInv, CallFits
<1>3. sent[Payment] = 1
  BY <1>2
<1>4. sent' = [sent EXCEPT ![Payment] = 1] /\ sent[Payment] <= 1
  BY <1>1, <1>3 DEF ClientInv, ClientTypeOK
<1>5. QED
  BY <1>1, <1>4, GoOnStep

\* What the provider answered, or did not.
LEMMA ConcludeStep ==
    ASSUME ClientInv, Conclude PROVE ClientInv'
<1>1. call # Idle /\ UNCHANGED <<life, bound, sent, wire, serviceVars>>
  BY DEF Conclude, At, Idle
<1>2. Finish(Key, "SUCCEEDED") \/ Finish(Key, "FAILED")
  BY DEF Conclude
<1>3. QED
  BY <1>1, <1>2, EndStep DEF Ends

\* A new life of the process has paid nothing and knows nothing.
LEMMA RestartStep ==
    ASSUME ClientInv, Restart PROVE ClientInv'
<1> USE DEF ClientInv, MoneyInv
<1>1. /\ life \in 1..MaxLives /\ life' = life + 1 /\ life' \in 1..MaxLives /\ life' # 1
      /\ session' = [k \in Keys |-> NoSession] /\ bound' = {} /\ call' = Idle
      /\ UNCHANGED <<sent, wire, attempts, serviceVars>>
  BY ClientAssumption DEF Restart, ClientTypeOK
<1>2. ClientTypeOK'
  BY <1>1 DEF ClientTypeOK, serviceVars
<1>3. SessionsFit' /\ CallFits' /\ PaidOnce' /\ HistoryFits'
  BY <1>1 DEF SessionsFit, CallFits, PaidOnce, HistoryFits, HistoryKeepsPace
<1>4. \A c \in Challenges : sent[<<c, life'>>] = 0
  BY <1>1 DEF NotYetPaid
<1>5. NotYetPaid' /\ OnlyAllowedIsPaid'
  BY <1>1, <1>4 DEF NotYetPaid, OnlyAllowedIsPaid
<1>6. \A p \in Payments : sent'[p] >= sent[p]
  BY <1>1 DEF ClientTypeOK
<1>7. QED
  BY <1>1, <1>2, <1>3, <1>5, <1>6, KeepsService

-----------------------------------------------------------------------------
(* The Service *)

\* What is done at the Service alone, or on its answer, keeps all the rest.
LEMMA ServiceSide ==
    ASSUME ClientInv, ClientTypeOK', UNCHANGED <<life, session, sent, wire, attempts>>,
           EffectsAccounted', \A c \in Challenges : Served(c) => Served(c)',
           \/ UNCHANGED call
           \/ /\ At("wait")
              /\ \E pc \in {"paid", "refused"} :
                     Goto(pc) /\ (pc = "paid" => Served(call.challenge)')
    PROVE  ClientInv'
<1> USE DEF ClientInv
<1>1. WireIsPaid'
  BY DEF WireIsPaid
<1>2. CASE UNCHANGED call
  <2>1. call # Idle => call.challenge \in Challenges
    BY DEF ClientTypeOK, Calls
  <2>2. SessionsFit' /\ NotYetPaid' /\ PaidOnce' /\ OnlyAllowedIsPaid' /\ HistoryFits'
    BY <1>2 DEF MoneyInv, SessionsFit, NotYetPaid, PaidOnce, OnlyAllowedIsPaid, PastPolicy,
                HistoryFits, HistoryKeepsPace
  <2>3. CallFits'
    BY <1>2, <2>1 DEF MoneyInv, CallFits, Key, Payment, At
  <2>4. QED
    BY <1>1, <2>2, <2>3 DEF MoneyInv
<1>3. ASSUME NEW pc \in {"paid", "refused"}, At("wait"), Goto(pc), pc = "paid" => Served(call.challenge)'
      PROVE  ClientInv'
  <2>1. call # Idle /\ call' = [call EXCEPT !.pc = pc]
    BY <1>3 DEF At, Goto, Idle
  <2>2. sent[Payment] \in {0, 1} /\ sent[Payment] > 0 /\ Payment \in Payments
    BY <1>3, <2>1, Working DEF MoneyInv, CallFits, At
  <2>3. sent[Payment] = 1
    BY <2>2
  <2>4. sent' = [sent EXCEPT ![Payment] = 1] /\ sent[Payment] <= 1
    BY <2>2, <2>3 DEF ClientTypeOK
  <2>5. MoneyInv'
    BY <1>3, <2>1, <2>4, CallMoves
  <2>6. QED
    BY <1>1, <2>5
<1>4. QED
  BY <1>2, <1>3

\* Of a submission that is executed: its Challenge was not served, and the
\* receipt and the signature served no other.
LEMMA ExecuteStep ==
    ASSUME ClientInv, NEW s \in Submissions, Executable(s), ExecuteService(s) \/ ExecuteRaises(s),
           call' = call \/ call' \in Calls
    PROVE  /\ issued' \subseteq Challenges /\ expired' \subseteq Challenges
           /\ results' \in [Challenges -> {NoResult} \cup [receipt : Payments, signature : Payments]]
           /\ effects' \in [Challenges -> Nat] /\ raised' \in [Challenges -> 0..MaxRaises]
           /\ EffectsAccounted' /\ \A c \in Challenges : Served(c) => Served(c)'
           /\ ExecuteService(s) => Served(s.challenge)'
<1> DEFINE c == s.challenge
           new == [receipt |-> s.receipt, signature |-> s.signature]
<1> USE DEF ClientInv
<1>1. /\ c \in Challenges /\ s.receipt \in Payments /\ s.signature \in Payments
      /\ new \in [receipt : Payments, signature : Payments]
      /\ ~Served(c)
  BY DEF Submissions, Executable
<1>2. new # NoResult
  <2>1. s.receipt # <<>>
    BY <1>1, PaymentIsNotEmpty
  <2>2. QED
    BY <2>1 DEF NoResult
<1>3. issued' \subseteq Challenges /\ expired' \subseteq Challenges
  BY DEF ExecuteService, ExecuteRaises, ClientTypeOK
<1>4. \A d \in Challenges : effects[d] \in Nat /\ raised[d] \in 0..MaxRaises
  BY DEF ClientTypeOK
<1>5. effects[c] = raised[c]
  <2>1. effects[c] = raised[c] + (IF results[c] # NoResult THEN 1 ELSE 0)
    BY <1>1 DEF EffectsAccounted, Served
  <2>2. results[c] = NoResult
    BY <1>1 DEF Served
  <2>3. QED
    BY <1>1, <1>4, <2>1, <2>2
<1>6. \A d \in Challenges : effects[d] = raised[d] + (IF results[d] # NoResult THEN 1 ELSE 0)
  BY DEF EffectsAccounted, Served
<1>7. CASE ExecuteService(s)
  <2> HIDE DEF new
  <2>1. /\ effects' = [effects EXCEPT ![c] = @ + 1] /\ results' = [results EXCEPT ![c] = new]
        /\ raised' = raised
    BY <1>7 DEF ExecuteService, new
  <2>2. /\ effects' \in [Challenges -> Nat] /\ raised' \in [Challenges -> 0..MaxRaises]
        /\ results' \in [Challenges -> {NoResult} \cup [receipt : Payments, signature : Payments]]
    BY <1>1, <2>1 DEF ClientTypeOK
  <2>3. /\ effects'[c] = effects[c] + 1 /\ results'[c] = new
        /\ \A d \in Challenges : d # c => effects'[d] = effects[d] /\ results'[d] = results[d]
    BY <1>1, <2>1 DEF ClientTypeOK
  <2>4. \A d \in Challenges : effects'[d] = raised'[d] + (IF results'[d] # NoResult THEN 1 ELSE 0)
    <3> SUFFICES ASSUME NEW d \in Challenges
                 PROVE  effects'[d] = raised[d] + (IF results'[d] # NoResult THEN 1 ELSE 0)
      BY <2>1
    <3>1. CASE d = c
      BY <3>1, <1>2, <1>4, <1>5, <2>3
    <3>2. CASE d # c
      BY <3>2, <1>6, <2>3
    <3>3. QED
      BY <3>1, <3>2
  <2>5. \A d \in Challenges : results[d] # NoResult => results'[d] # NoResult
    BY <1>2, <2>3
  <2>6. results'[s.challenge] # NoResult
    BY <1>2, <2>3
  <2>7. QED
    BY <1>3, <2>2, <2>4, <2>5, <2>6 DEF EffectsAccounted, Served
<1>8. CASE ExecuteRaises(s)
  <2>1. /\ effects' = [effects EXCEPT ![c] = @ + 1] /\ raised' = [raised EXCEPT ![c] = @ + 1]
        /\ results' = results /\ raised[c] < MaxRaises
    BY <1>8 DEF ExecuteRaises
  <2>2. raised[c] + 1 \in 0..MaxRaises
    BY <1>1, <1>4, <2>1, ServiceAssumption
  <2>3. /\ effects' \in [Challenges -> Nat] /\ raised' \in [Challenges -> 0..MaxRaises]
        /\ results' \in [Challenges -> {NoResult} \cup [receipt : Payments, signature : Payments]]
    BY <1>1, <2>1, <2>2 DEF ClientTypeOK
  <2>4. /\ effects'[c] = effects[c] + 1 /\ raised'[c] = raised[c] + 1
        /\ \A d \in Challenges : d # c => effects'[d] = effects[d] /\ raised'[d] = raised[d]
    BY <1>1, <2>1 DEF ClientTypeOK
  <2>5. \A d \in Challenges : effects'[d] = raised'[d] + (IF results'[d] # NoResult THEN 1 ELSE 0)
    <3> SUFFICES ASSUME NEW d \in Challenges
                 PROVE  effects'[d] = raised'[d] + (IF results[d] # NoResult THEN 1 ELSE 0)
      BY <2>1
    <3>1. CASE d = c
      <4>1. results[c] = NoResult
        BY <1>1 DEF Served
      <4>2. QED
        BY <3>1, <4>1, <1>1, <1>4, <1>5, <2>4
    <3>2. CASE d # c
      BY <3>2, <1>6, <2>4
    <3>3. QED
      BY <3>1, <3>2
  <2>6. ~ExecuteService(s)
    <3>1. results'[c] = NoResult
      BY <1>1, <2>1 DEF Served
    <3>2. ExecuteService(s) => results'[c] = new
      BY <1>1 DEF ExecuteService, ClientTypeOK
    <3> HIDE DEF new
    <3>3. QED
      BY <3>1, <3>2, <1>2
  <2>7. QED
    BY <1>3, <2>1, <2>3, <2>5, <2>6 DEF EffectsAccounted, Served
<1>9. QED
  BY <1>7, <1>8

\* A proof arrives: it is executed, replayed, refused, or its executor raises.
LEMMA DeliverStep ==
    ASSUME ClientInv, NEW s \in Arriving, Deliver(s) PROVE ClientInv'
<1> USE DEF ClientInv
<1>1. s \in Submissions
  BY DEF Arriving, Submissions, ClientTypeOK
<1>2. UNCHANGED <<life, session, bound, sent, wire, attempts>>
  BY DEF Deliver
<1>3. \A pc \in {"paid", "refused"} : Answer(s, pc) =>
          /\ \/ UNCHANGED call
             \/ At("wait") /\ Goto(pc) /\ s.challenge = call'.challenge
          /\ call' = call \/ call' \in Calls
  <2> SUFFICES ASSUME NEW pc \in {"paid", "refused"}, Answer(s, pc), ~UNCHANGED call
               PROVE  At("wait") /\ Goto(pc) /\ s.challenge = call'.challenge /\ call' \in Calls
    OBVIOUS
  <2>1. At("wait") /\ Goto(pc) /\ s = Proof
    BY DEF Answer
  <2>2. s.challenge = call.challenge
    BY <2>1 DEF Proof
  <2>3. call \in Calls
    BY <2>1 DEF At, ClientTypeOK, Idle
  <2>4. call' \in Calls /\ call'.challenge = call.challenge
    BY <2>1, <2>3 DEF Goto, Calls
  <2>5. QED
    BY <2>1, <2>2, <2>4
<1>4. CASE (ExecuteService(s) /\ Answer(s, "paid")) \/ (ExecuteRaises(s) /\ Answer(s, "refused"))
  <2>1. Executable(s) /\ (call' = call \/ call' \in Calls)
    BY <1>3, <1>4 DEF ExecuteService, ExecuteRaises
  <2>2. /\ issued' \subseteq Challenges /\ expired' \subseteq Challenges
        /\ results' \in [Challenges -> {NoResult} \cup [receipt : Payments, signature : Payments]]
        /\ effects' \in [Challenges -> Nat] /\ raised' \in [Challenges -> 0..MaxRaises]
        /\ EffectsAccounted' /\ \A c \in Challenges : Served(c) => Served(c)'
        /\ ExecuteService(s) => Served(s.challenge)'
    BY <1>1, <1>4, <2>1, ExecuteStep
  <2>3. ClientTypeOK'
    BY <1>2, <2>1, <2>2 DEF ClientTypeOK
  <2>4. CASE ExecuteService(s) /\ Answer(s, "paid")
    <3>1. Served(s.challenge)'
      BY <2>2, <2>4
    <3>2. \/ UNCHANGED call
          \/ At("wait") /\ Goto("paid") /\ s.challenge = call'.challenge
      BY <1>3, <2>4
    <3>3. CASE UNCHANGED call
      BY <1>2, <2>2, <2>3, <3>3, ServiceSide
    <3>4. CASE At("wait") /\ Goto("paid") /\ s.challenge = call'.challenge
      <4>1. Served(call.challenge)'
        BY <3>1, <3>4 DEF Served
      <4>2. At("wait") /\ \E pc \in {"paid", "refused"} :
                Goto(pc) /\ (pc = "paid" => Served(call.challenge)')
        BY <3>4, <4>1
      <4>3. QED
        BY <1>2, <2>2, <2>3, <4>2, ServiceSide
    <3>5. QED
      BY <3>2, <3>3, <3>4
  <2>5. CASE Answer(s, "refused")
    <3>1. UNCHANGED call \/ (At("wait") /\ Goto("refused"))
      BY <1>3, <2>5
    <3>2. UNCHANGED call \/ (At("wait") /\ \E pc \in {"paid", "refused"} :
                Goto(pc) /\ (pc = "paid" => Served(call.challenge)'))
      BY <3>1
    <3>3. QED
      BY <1>2, <2>2, <2>3, <3>2, ServiceSide
  <2>6. QED
    BY <1>4, <2>4, <2>5
<1>5. CASE UNCHANGED serviceVars /\ ((Replayed(s) /\ Answer(s, "paid")) \/ Answer(s, "refused"))
  <2>1. EffectsAccounted' /\ \A c \in Challenges : Served(c) => Served(c)'
    BY <1>5 DEF EffectsAccounted, Served, serviceVars
  <2>2. ClientTypeOK'
    <3>1. call' = call \/ call' \in Calls
      BY <1>3, <1>5
    <3>2. QED
      BY <1>2, <1>5, <3>1 DEF ClientTypeOK, serviceVars
  <2>3. \/ UNCHANGED call
        \/ /\ At("wait")
           /\ \E pc \in {"paid", "refused"} :
                  Goto(pc) /\ (pc = "paid" => Served(call.challenge)')
    <3>1. CASE Replayed(s) /\ Answer(s, "paid")
      <4>1. Served(s.challenge) /\ s.challenge \in Challenges
        BY <1>1, <3>1 DEF Replayed, Submissions
      <4>2. s.challenge = call'.challenge => Served(call.challenge)'
        BY <1>5, <4>1 DEF Served, serviceVars
      <4>3. QED
        BY <1>3, <3>1, <4>2
    <3>2. CASE Answer(s, "refused")
      BY <1>3, <3>2
    <3>3. QED
      BY <1>5, <3>1, <3>2
  <2>4. QED
    BY <1>2, <2>1, <2>2, <2>3, ServiceSide
<1>6. QED
  BY <1>4, <1>5 DEF Deliver

\* Challenges are handed out and expire.
LEMMA IssueStep ==
    ASSUME ClientInv, NEW c \in Challenges, Issue(c) \/ Expire(c), UNCHANGED clientState
    PROVE  ClientInv'
<1> USE DEF ClientInv
<1>1. /\ issued' \subseteq Challenges /\ expired' \subseteq Challenges
      /\ UNCHANGED <<results, effects, raised, life, session, bound, call, sent, wire, attempts>>
  BY ServiceAssumption DEF Issue, Expire, ClientTypeOK, clientState
<1>2. ClientTypeOK'
  BY <1>1 DEF ClientTypeOK
<1>3. EffectsAccounted' /\ \A d \in Challenges : Served(d) => Served(d)'
  BY <1>1 DEF EffectsAccounted, Served
<1>4. QED
  BY <1>1, <1>2, <1>3, ServiceSide

\* A nonce that is bound without a session.
LEMMA InvalidStep ==
    ASSUME ClientInv, NEW c \in Challenges, PaymentInvalid(c) PROVE ClientInv'
<1> USE DEF ClientInv
<1>1. /\ UNCHANGED <<issued, expired, results, effects, raised>>
      /\ UNCHANGED <<life, session, call, sent, wire, attempts>>
      /\ bound' = bound \cup {c}
  BY DEF PaymentInvalid, serviceVars
<1>2. ClientTypeOK'
  BY <1>1 DEF ClientTypeOK
<1>3. EffectsAccounted' /\ \A d \in Challenges : Served(d) => Served(d)'
  BY <1>1 DEF EffectsAccounted, Served
<1>4. QED
  BY <1>1, <1>2, <1>3, ServiceSide

\* Every step of the Client, the network and the Service.
LEMMA ClientInvStep == ClientInv /\ [ClientNext]_clientVars => ClientInv'
<1> SUFFICES ASSUME ClientInv, [ClientNext]_clientVars PROVE ClientInv'
  OBVIOUS
<1>1. CASE UNCHANGED clientVars
  <2>1. /\ UNCHANGED <<issued, expired, results, effects, raised>>
        /\ UNCHANGED <<life, session, bound, call, sent, wire, attempts>>
    BY <1>1 DEF clientVars, clientState, serviceVars
  <2>2. ClientTypeOK' /\ EffectsAccounted' /\ \A d \in Challenges : Served(d) => Served(d)'
    BY <2>1 DEF ClientInv, ClientTypeOK, EffectsAccounted, Served
  <2>3. QED
    BY <2>1, <2>2, ServiceSide
<1>2. CASE \E c \in Challenges : PayChallenge(c) \/ PaymentInvalid(c)
  BY <1>2, PayStep, InvalidStep
<1>3. CASE \E k \in Keys : Resume(k)
  BY <1>3, ResumeStep
<1>4. CASE Evaluate \/ Reevaluate
  BY <1>4, PolicySteps
<1>5. CASE Sign \/ SubmitProof \/ Conclude \/ Restart
  BY <1>5, SignStep, SubmitStep, ConcludeStep, RestartStep
<1>6. CASE \E s \in Arriving : Deliver(s)
  BY <1>6, DeliverStep
<1>7. CASE \E c \in Challenges : (Issue(c) \/ Expire(c)) /\ UNCHANGED clientState
  BY <1>7, IssueStep
<1>8. QED
  BY <1>1, <1>2, <1>3, <1>4, <1>5, <1>6, <1>7 DEF ClientNext

\* One invariant holds of every state of Client and Service.
LEMMA ClientKeepsInv == ClientSpec => []ClientInv
<1>1. QED
  BY ClientInvInit, ClientInvStep, PTL DEF ClientSpec

-----------------------------------------------------------------------------
(* What the Client and the Service are for *)

\* The types of the tables of both sides.
THEOREM ClientTypes == ClientSpec => []ClientTypeOK
<1>1. ClientInv => ClientTypeOK
  BY DEF ClientInv
<1>2. QED
  BY <1>1, ClientKeepsInv, PTL

\* A Challenge is paid at most once in a life of the Client's process, whatever
\* it is offered, resumes and leaves unanswered (pay_challenge, resume).
THEOREM ChallengeIsPaidOnce == ClientSpec => []PaidOnce
<1>1. ClientInv => PaidOnce
  BY DEF ClientInv, MoneyInv
<1>2. QED
  BY <1>1, ClientKeepsInv, PTL

\* Money leaves only for the Challenge of a session that passed its gates.
THEOREM MoneyWasAllowed == ClientSpec => []OnlyAllowedIsPaid
<1>1. ClientInv => OnlyAllowedIsPaid
  BY DEF ClientInv, MoneyInv
<1>2. QED
  BY <1>1, ClientKeepsInv, PTL

\* The executor takes effect once per Challenge, and once more for every time it
\* raised (execute of the Service Agent).
THEOREM EffectsAreAccounted == ClientSpec => []EffectsAccounted
<1>1. ClientInv => EffectsAccounted
  BY DEF ClientInv
<1>2. QED
  BY <1>1, ClientKeepsInv, PTL

\* The attempts of a process that never restarted tell what its sessions went
\* through (_finish, record_attempt).
THEOREM AttemptsKeepPace == ClientSpec => []HistoryKeepsPace
<1>1. ClientInv => HistoryKeepsPace
  BY DEF ClientInv, MoneyInv, HistoryFits
<1>2. QED
  BY <1>1, ClientKeepsInv, PTL

-----------------------------------------------------------------------------
(* The promise of a paid Service *)

Paid == {p \in Payments : sent[p] > 0}
PaidBy == [c \in Challenges |-> IF Served(c) THEN results[c].signature ELSE <<>>]
Told == {c \in Challenges : session[KeyOf[c]].challenge = c /\ session[KeyOf[c]].status = "SUCCEEDED"}

\* A session that neither was nor becomes a success tells nobody anything.
LEMMA ToldKept ==
    ASSUME NEW k \in Keys, session[k].status # "SUCCEEDED", session'[k].status # "SUCCEEDED",
           \A q \in Keys : q # k => session'[q] = session[q]
    PROVE  Told' = Told
<1>1. \A c \in Challenges : KeyOf[c] \in Keys
  BY PaymentNames
<1>2. \A c \in Challenges :
          (session'[KeyOf[c]].challenge = c /\ session'[KeyOf[c]].status = "SUCCEEDED")
          <=> (session[KeyOf[c]].challenge = c /\ session[KeyOf[c]].status = "SUCCEEDED")
  BY <1>1
<1>3. QED
  BY <1>2 DEF Told

\* The same, of a result.
LEMMA FinishTells ==
    ASSUME ClientInv, NEW k \in Keys, session[k].status \in Unfinished, NEW status, Finish(k, status)
    PROVE  /\ status # "SUCCEEDED" => Told' = Told
           /\ status = "SUCCEEDED" => Told' = Told \cup {session[k].challenge}
<1>1. session[k] # NoSession
  BY DEF NoSession, Unfinished
<1>2. session[k] \in Sessions /\ KeyOf[session[k].challenge] = k
  BY <1>1 DEF ClientInv, MoneyInv, SessionsFit, ClientTypeOK, Sessions
<1>3. /\ session'[k].status = status /\ session'[k].challenge = session[k].challenge
      /\ \A q \in Keys : q # k => session'[q] = session[q]
  BY <1>2 DEF Finish, ClientInv, ClientTypeOK, Sessions
<1>4. session[k].status # "SUCCEEDED"
  BY DEF Unfinished
<1>5. status # "SUCCEEDED" => Told' = Told
  BY <1>3, <1>4, ToldKept
<1>6. ASSUME status = "SUCCEEDED" PROVE Told' = Told \cup {session[k].challenge}
  <2> DEFINE c == session[k].challenge
  <2>1. c \in Challenges /\ KeyOf[c] = k
    BY <1>2 DEF Sessions
  <2>2. \A d \in Challenges : d # c =>
            ((session'[KeyOf[d]].challenge = d /\ session'[KeyOf[d]].status = "SUCCEEDED")
             <=> (session[KeyOf[d]].challenge = d /\ session[KeyOf[d]].status = "SUCCEEDED"))
    <3> SUFFICES ASSUME NEW d \in Challenges, d # c
                 PROVE  (session'[KeyOf[d]].challenge = d /\ session'[KeyOf[d]].status = "SUCCEEDED")
                        <=> (session[KeyOf[d]].challenge = d /\ session[KeyOf[d]].status = "SUCCEEDED")
      OBVIOUS
    <3>1. CASE KeyOf[d] = k
      BY <3>1, <1>3
    <3>2. CASE KeyOf[d] # k
      <4>1. session'[KeyOf[d]] = session[KeyOf[d]]
        BY <3>2, <1>3, PaymentNames
      <4>2. QED
        BY <4>1
    <3>3. QED
      BY <3>1, <3>2
  <2>3. session'[KeyOf[c]].challenge = c /\ session'[KeyOf[c]].status = "SUCCEEDED"
    BY <2>1, <1>3, <1>6
  <2> HIDE DEF c
  <2>4. Told' = Told \cup {c}
    BY <2>1, <2>2, <2>3 DEF Told
  <2>5. QED
    BY <2>4 DEF c
<1>7. QED
  BY <1>5, <1>6

\* Where the Service and what was sent stay, so do the payments and what was served.
LEMMA PaidKept ==
    ASSUME UNCHANGED <<sent, results>> PROVE Paid' = Paid /\ PaidBy' = PaidBy
BY DEF Paid, PaidBy, Served

\* Nothing is promised at the start.
LEMMA PromiseStarts == ClientInit => Promise!PromiseInit
<1> SUFFICES ASSUME ClientInit PROVE Promise!PromiseInit
  OBVIOUS
<1> USE DEF ClientInit, ServiceInit
<1>1. {p \in Payments : sent[p] > 0} = {}
  OBVIOUS
<1>2. [c \in Challenges |-> IF Served(c) THEN results[c].signature ELSE <<>>] = [c \in Challenges |-> <<>>]
  BY DEF Served
<1>3. {c \in Challenges : session[KeyOf[c]].challenge = c /\ session[KeyOf[c]].status = "SUCCEEDED"} = {}
  BY PaymentNames DEF NoSession
<1>4. QED
  BY <1>1, <1>2, <1>3 DEF Promise!PromiseInit, Promise!Unserved

\* What the promise says of the mapped state, move by move.
LEMMA PromiseMoves ==
    /\ Paid' = Paid /\ PaidBy' = PaidBy /\ Told' = Told => UNCHANGED Promise!promise
    /\ \A p \in Payments : Paid' = Paid \cup {p} /\ PaidBy' = PaidBy /\ Told' = Told => Promise!PromiseNext
    /\ \A c \in Challenges : PaidBy[c] # <<>> /\ Told' = Told \cup {c} /\ Paid' = Paid /\ PaidBy' = PaidBy
           => Promise!PromiseNext
    /\ \A c \in Challenges, p \in Payments :
           /\ PaidBy[c] = <<>> /\ p \in Paid /\ \A d \in Challenges : PaidBy[d] # p
           /\ PaidBy' = [PaidBy EXCEPT ![c] = p] /\ Paid' = Paid /\ Told' = Told
           => Promise!PromiseNext
    /\ Told' = {} /\ Paid' = Paid /\ PaidBy' = PaidBy => Promise!PromiseNext
<1>1. Paid' = Paid /\ PaidBy' = PaidBy /\ Told' = Told => UNCHANGED Promise!promise
  BY DEF Promise!promise, Paid, PaidBy, Told
<1>2. \A p \in Payments : Paid' = Paid \cup {p} /\ PaidBy' = PaidBy /\ Told' = Told => Promise!PromiseNext
  BY DEF Promise!PromiseNext, Promise!Pay, Paid, PaidBy, Told
<1>3. \A c \in Challenges : PaidBy[c] # <<>> /\ Told' = Told \cup {c} /\ Paid' = Paid /\ PaidBy' = PaidBy
          => Promise!PromiseNext
  BY DEF Promise!PromiseNext, Promise!Tell, Promise!Unserved, Paid, PaidBy, Told
<1>4. \A c \in Challenges, p \in Payments :
          /\ PaidBy[c] = <<>> /\ p \in Paid /\ \A d \in Challenges : PaidBy[d] # p
          /\ PaidBy' = [PaidBy EXCEPT ![c] = p] /\ Paid' = Paid /\ Told' = Told
          => Promise!PromiseNext
  BY DEF Promise!PromiseNext, Promise!Serve, Promise!Unserved, Paid, PaidBy, Told
<1>5. Told' = {} /\ Paid' = Paid /\ PaidBy' = PaidBy => Promise!PromiseNext
  BY DEF Promise!PromiseNext, Promise!Forget, Paid, PaidBy, Told
<1>6. QED
  BY <1>1, <1>2, <1>3, <1>4, <1>5

\* A step with one of these effects is a step of the promise, or none.
PromiseMove ==
    \/ Paid' = Paid /\ PaidBy' = PaidBy /\ Told' = Told
    \/ \E p \in Payments : Paid' = Paid \cup {p} /\ PaidBy' = PaidBy /\ Told' = Told
    \/ \E c \in Challenges : PaidBy[c] # <<>> /\ Told' = Told \cup {c} /\ Paid' = Paid /\ PaidBy' = PaidBy
    \/ \E c \in Challenges, p \in Payments :
           /\ PaidBy[c] = <<>> /\ p \in Paid /\ \A d \in Challenges : PaidBy[d] # p
           /\ PaidBy' = [PaidBy EXCEPT ![c] = p] /\ Paid' = Paid /\ Told' = Told
    \/ Told' = {} /\ Paid' = Paid /\ PaidBy' = PaidBy

\* Offers, gates, resumes and the end of a process.
LEMMA SessionMoves ==
    ASSUME ClientInv,
           \/ \E c \in Challenges : PayChallenge(c) \/ PaymentInvalid(c)
           \/ \E k \in Keys : Resume(k)
           \/ Evaluate \/ Reevaluate \/ SubmitProof \/ Restart
    PROVE  PromiseMove
<1>0. Paid' = Paid /\ PaidBy' = PaidBy
  BY PaidKept DEF PayChallenge, PaymentInvalid, Resume, Evaluate, Reevaluate, SubmitProof, Restart, serviceVars
<1>1. ASSUME UNCHANGED session PROVE PromiseMove
  BY <1>0, <1>1 DEF PromiseMove, Told
<1>2. ASSUME NEW c \in Challenges, PayChallenge(c) PROVE PromiseMove
  <2>1. KeyOf[c] \in Keys /\ session[KeyOf[c]].status = "ABSENT"
    BY <1>2, PaymentNames DEF PayChallenge, Fresh, NoSession
  <2>2. /\ session'[KeyOf[c]].status = "NONE"
        /\ \A q \in Keys : q # KeyOf[c] => session'[q] = session[q]
    BY <1>2, <2>1 DEF PayChallenge, ClientInv, ClientTypeOK
  <2>3. Told' = Told
    BY <2>1, <2>2, ToldKept
  <2>4. QED
    BY <1>0, <2>3 DEF PromiseMove
<1>3. ASSUME NEW k \in Keys, Resume(k) PROVE PromiseMove
  <2>1. CASE UNCHANGED session
    BY <1>1, <2>1
  <2>2. CASE Finish(k, "DENIED")
    <3>1. session[k].status \in Unfinished
      BY <1>3 DEF Resume, Unfinished
    <3>2. Told' = Told
      BY <2>2, <3>1, FinishTells
    <3>3. QED
      BY <1>0, <3>2 DEF PromiseMove
  <2>3. QED
    BY <1>3, <2>1, <2>2 DEF Resume
<1>4. CASE Evaluate \/ Reevaluate
  <2>1. call # Idle
    BY <1>4 DEF Evaluate, Reevaluate, At, Idle
  <2>2. Key \in Keys /\ session[Key].status \in Unfinished
    BY <2>1, Working
  <2>3. CASE UNCHANGED session
    BY <1>1, <2>3
  <2>4. CASE Finish(Key, "DENIED") \/ Finish(Key, "PENDING_APPROVAL")
    <3>1. Told' = Told
      BY <2>2, <2>4, FinishTells
    <3>2. QED
      BY <1>0, <3>1 DEF PromiseMove
  <2>5. QED
    BY <1>4, <2>3, <2>4 DEF Evaluate, Reevaluate
<1>5. CASE SubmitProof
  BY <1>1, <1>5 DEF SubmitProof
<1>6. CASE Restart
  <2>1. \A k \in Keys : session'[k].status = "ABSENT"
    BY <1>6 DEF Restart, NoSession
  <2>2. Told' = {}
    BY <2>1, PaymentNames DEF Told
  <2>3. QED
    BY <1>0, <2>2 DEF PromiseMove
<1>7. ASSUME NEW c \in Challenges, PaymentInvalid(c) PROVE PromiseMove
  BY <1>1, <1>7 DEF PaymentInvalid
<1>8. QED
  BY <1>2, <1>3, <1>4, <1>5, <1>6, <1>7

\* Money is sent; success is told of a Challenge whose answer said it was served.
LEMMA PaymentMoves ==
    ASSUME ClientInv, Sign \/ Conclude PROVE PromiseMove
<1>1. call # Idle
  BY DEF Sign, Conclude, At, Idle
<1>2. /\ Key \in Keys /\ Payment \in Payments /\ session[Key].status \in Unfinished
      /\ session[Key].challenge = call.challenge /\ call.challenge \in Challenges
  BY <1>1, Working
<1>3. CASE Sign
  <2>1. PaidBy' = PaidBy
    BY <1>3 DEF Sign, PaidBy, Served, serviceVars
  <2>2. Told' = Told
    <3>1. CASE UNCHANGED session
      BY <3>1 DEF Told
    <3>2. CASE Finish(Key, "FAILED") \/ Finish(Key, "STOPPED")
      BY <1>2, <3>2, FinishTells
    <3>3. QED
      BY <1>3, <3>1, <3>2 DEF Sign
  <2>3. CASE UNCHANGED sent
    BY <2>1, <2>2, <2>3 DEF PromiseMove, Paid
  <2>4. CASE sent' = [sent EXCEPT ![Payment] = @ + 1]
    <3>1. /\ sent[Payment] \in Nat /\ sent'[Payment] = sent[Payment] + 1
          /\ \A p \in Payments : p # Payment => sent'[p] = sent[p]
      BY <1>2, <2>4 DEF ClientInv, ClientTypeOK
    <3>2. sent'[Payment] > 0
      BY <3>1
    <3> DEFINE q == Payment
    <3>3. q \in Payments /\ sent'[q] > 0 /\ \A p \in Payments : p # q => sent'[p] = sent[p]
      BY <1>2, <3>1, <3>2
    <3> HIDE DEF q
    <3>4. Paid' = Paid \cup {q}
      BY <3>3 DEF Paid
    <3>5. QED
      BY <2>1, <2>2, <3>3, <3>4 DEF PromiseMove
  <2>5. QED
    BY <1>3, <2>3, <2>4 DEF Sign
<1>4. CASE Conclude
  <2>1. Paid' = Paid /\ PaidBy' = PaidBy
    BY <1>4, PaidKept DEF Conclude, serviceVars
  <2>2. CASE Finish(Key, "FAILED")
    <3>1. Told' = Told
      BY <1>2, <2>2, FinishTells
    <3>2. QED
      BY <2>1, <3>1 DEF PromiseMove
  <2>3. CASE At("paid") /\ Finish(Key, "SUCCEEDED")
    <3>1. Told' = Told \cup {call.challenge}
      BY <1>2, <2>3, FinishTells
    <3>2. Served(call.challenge)
      BY <1>1, <2>3 DEF ClientInv, MoneyInv, CallFits
    <3>3. results[call.challenge].signature \in Payments
      BY <1>2, <3>2 DEF Served, ClientInv, ClientTypeOK
    <3>4. results[call.challenge].signature # <<>>
      BY <3>3, PaymentIsNotEmpty
    <3>5. PaidBy[call.challenge] # <<>>
      BY <1>2, <3>2, <3>4 DEF PaidBy
    <3> DEFINE c == call.challenge
    <3>6. c \in Challenges /\ PaidBy[c] # <<>> /\ Told' = Told \cup {c}
      BY <1>2, <3>1, <3>5
    <3> HIDE DEF c
    <3>7. QED
      BY <2>1, <3>6 DEF PromiseMove
  <2>4. QED
    BY <1>4, <2>2, <2>3 DEF Conclude
<1>5. QED
  BY <1>3, <1>4

\* An execution is served for a payment that was sent and serves no other.
LEMMA ServiceMoves ==
    ASSUME ClientInv, NEW s \in Arriving, Deliver(s) PROVE PromiseMove
<1> DEFINE c == s.challenge
           p == s.signature
<1> USE DEF ClientInv
<1>1. Paid' = Paid /\ Told' = Told
  BY DEF Deliver, Paid, Told
<1>2. CASE UNCHANGED results
  <2>1. PaidBy' = PaidBy
    BY <1>2 DEF PaidBy, Served
  <2>2. QED
    BY <1>1, <2>1 DEF PromiseMove
<1>3. CASE ExecuteService(s)
  <2>1. /\ c \in Challenges /\ ~Served(c)
        /\ \A d \in Challenges \ {c} : Served(d) => results[d].signature # p
        /\ results' = [results EXCEPT ![c] = [receipt |-> s.receipt, signature |-> p]]
    BY <1>3 DEF Arriving, ExecuteService, Executable, Considered, UsedElsewhere
  <2>2. PICK v \in wire : p = v.signature
    BY DEF Arriving
  <2>3. p \in Payments /\ p \in Paid
    BY <2>2 DEF ClientTypeOK, Submissions, WireIsPaid, Paid
  <2>4. p # <<>>
    BY <2>3, PaymentIsNotEmpty
  <2>5. PaidBy[c] = <<>> /\ \A d \in Challenges : PaidBy[d] # p
    BY <2>1, <2>4 DEF PaidBy
  <2>6. results'[c].signature = p /\ results'[c] # NoResult
        /\ \A d \in Challenges : d # c => results'[d] = results[d]
    BY <2>1, <2>4 DEF ClientTypeOK, NoResult
  <2>7. PaidBy' = [PaidBy EXCEPT ![c] = p]
    <3>1. PaidBy' = [d \in Challenges |-> IF results'[d] # NoResult THEN results'[d].signature ELSE <<>>]
      BY DEF PaidBy, Served
    <3>2. \A d \in Challenges : (IF results'[d] # NoResult THEN results'[d].signature ELSE <<>>)
              = IF d = c THEN p ELSE PaidBy[d]
      BY <2>6 DEF PaidBy, Served
    <3>3. DOMAIN PaidBy = Challenges
      BY DEF PaidBy
    <3>4. [PaidBy EXCEPT ![c] = p] = [d \in Challenges |-> IF d = c THEN p ELSE PaidBy[d]]
      BY <3>3
    <3>5. QED
      BY <3>1, <3>2, <3>4
  <2>8. QED
    BY <1>1, <2>1, <2>3, <2>5, <2>7 DEF PromiseMove
<1>4. QED
  BY <1>2, <1>3 DEF Deliver, ExecuteRaises, serviceVars

\* Client, network and Service together are a paid Service that keeps its
\* promise, for every number of Challenges, keys and restarts: an execution has a payment of its own, and a
\* session ends in success only for a Challenge that was served.
THEOREM ClientKeepsPromise == ClientSpec => ImplementsPaidService
<1>1. ClientInv /\ [ClientNext]_clientVars => [Promise!PromiseNext]_(Promise!promise)
  <2> SUFFICES ASSUME ClientInv, [ClientNext]_clientVars
               PROVE  [Promise!PromiseNext]_(Promise!promise)
    OBVIOUS
  <2>1. PromiseMove
    <3>1. CASE UNCHANGED clientVars
      BY <3>1, PaidKept DEF PromiseMove, Told, clientVars, clientState, serviceVars
    <3>2. CASE \E s \in Arriving : Deliver(s)
      BY <3>2, ServiceMoves
    <3>3. CASE \E c \in Challenges : (Issue(c) \/ Expire(c)) /\ UNCHANGED clientState
      BY <3>3, PaidKept DEF PromiseMove, Told, Issue, Expire, clientState
    <3>4. QED
      BY <3>1, <3>2, <3>3, SessionMoves, PaymentMoves DEF ClientNext
  <2>2. QED
    BY <2>1, PromiseMoves DEF PromiseMove
<1>2. QED
  BY <1>1, PromiseStarts, ClientKeepsInv, PTL DEF ClientSpec, ImplementsPaidService, Promise!PromiseSpec
=============================================================================
