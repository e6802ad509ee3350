------------------------------ MODULE MCLedger ------------------------------
(* Small instances of the ledger: two agents that share one principal.     *)
EXTENDS Ledger, TLC

CONSTANTS a1, a2, p1, usd, r1

MCCallers == {[agent |-> a1, principal |-> p1], [agent |-> a2, principal |-> p1]}

(* The account's allowance before and after the operator lowers it.        *)
MCAllowances == {[cap |-> 2, period |-> 2, currency |-> usd],
                 [cap |-> 1, period |-> 1, currency |-> usd]}

MCSymmetry == Permutations({a1, a2})
=============================================================================
