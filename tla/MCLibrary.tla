------------------------------ MODULE MCLibrary ------------------------------
(* Two payments of one agent in a host, a signer with two keys to choose   *)
(* from, two commands of the operator, and a clock of half seconds.        *)
EXTENDS Library, TLC

CONSTANTS a1, usd, shop, usdc, base, k1, k2, x, y

MCCallers == [agent: {a1}, principal: {1, 2}]

MCEnvelopeOf == [agent \in {a1} |->
    [maxPerTx |-> 2, hosts |-> {shop}, currencies |-> {usd}, expiresAt |-> None]]

(* One payment that fills the allowance of the account.                    *)
MCPaymentRequests ==
    {[principal |-> 1, agent |-> a1, host |-> shop, price |-> 2, currency |-> usd]}

MCAllowances == {[cap |-> 2, period |-> 1, currency |-> usd]}

(* Payments of what was authorized, that expire with the first second or   *)
(* with the second one, which is beyond the horizon during the first.      *)
MCPayload(from, value, validBefore) ==
    [expectedTypes |-> TRUE, numbers |-> "bigint", chain |-> base, token |-> usdc,
     from |-> from, value |-> value, validBefore |-> validBefore]

(* One whose integers are strings, which JSON does not turn into bigints.  *)
AsStrings(payload) == [payload EXCEPT !.numbers = "string"]

MCPayloads ==
    {MCPayload(from, 2, validBefore) : from \in {k1, k2}, validBefore \in {1, 2}}
        \cup {AsStrings(MCPayload(from, 2, 1)) : from \in {k1, k2}}

(* Bound: two first commands race to their end before payments begin, and  *)
(* then one command at a time is between its query and what it does, while *)
(* there is a payment to come that reads it.  Before its statement it has  *)
(* changed nothing that a payment reads, and a second row of principals is *)
(* nothing that a payment reads.                                           *)
Begun(p) == call[p].pc # "new"

Read(p) == call[p].pc \notin {"new", "checked"}

MCBound ==
    (\E p \in Payments : Begun(p)) =>
        /\ principals = 1
        /\ \A q \in Procs : command[q].pc \in {"idle", "serving"}
        /\ \E q \in Procs : \A other \in Procs \ {q} : command[other].pc = "idle"
        /\ (\A p \in Payments : Read(p)) => \A q \in Procs : command[q].pc = "idle"

MCSymmetry == Permutations({x, y}) \cup Permutations({k1, k2})
=============================================================================
