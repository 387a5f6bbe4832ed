------------------------- MODULE MC_MessageGateway --------------------------
(* A message and a reply that uses the key of a Task command; a second        *)
(* request with the key of the first message; two commands for one version.   *)
(* Evidence registered again with another scope, with another secret and with *)
(* another content, and a Memory of it.                                      *)
EXTENDS MessageGateway, TLC

CONSTANTS m1, m2, e1, y1, k1, k2, k3, n1, n2, alice, bob, t1, s1, s2

Env(id, key, from, nonce, to, parent) ==
    [id |-> id, key |-> key, from |-> from, nonce |-> nonce, to |-> to, task |-> t1,
     parent |-> parent, expiry |-> 1]
MCEnvelopes == {Env(m1, k1, alice, n1, bob, NoParent), Env(m2, k2, bob, n1, alice, m1),
                Env(m2, k1, alice, n2, bob, NoParent)}
MCCommands == {[key |-> k2, task |-> t1, expected |-> 1, actor |-> alice],
               [key |-> k3, task |-> t1, expected |-> 1, actor |-> bob]}

Evidence(content, scope) ==
    [kind |-> "EVIDENCE", id |-> e1, key |-> k1, content |-> content, scope |-> scope, source |-> NoSource]
MCRegistrations == {Evidence("text", "TASK"), Evidence("secret text", "OWNER_ONLY"), Evidence("other", "TASK"),
    [kind |-> "MEMORY", id |-> y1, key |-> k1, content |-> "text", scope |-> "TASK", source |-> e1]}
MCMaskOf == "text" :> "text" @@ "secret text" :> "text" @@ "other" :> "other"

\* Records meet messages and commands in the log and the Outbox only: states
\* that hold both, or records while somebody is suspended, are left out.
Recording == Registered # {} \/ Doing({"seek", "enter", "registered"}) # {}
RecordsApart == Recording => Stored = {} /\ claimed = {} /\ members = {alice, bob}
=============================================================================
