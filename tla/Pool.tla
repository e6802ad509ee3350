-------------------------------- MODULE Pool --------------------------------
(***************************************************************************)
(* What the ledger promises to the account owner, without its columns, its *)
(* in_doubt state or its query.  Money is held before it is spent; a hold  *)
(* is spent or freed once and for all; and a hold is placed only if no     *)
(* rolling window then holds or has spent more than its allowance.  An     *)
(* allowance governs a window when the window's newest hold was placed     *)
(* under it, so a lowered allowance binds the next hold and does not make  *)
(* the earlier ones illegal.                                               *)
(***************************************************************************)
EXTENDS Integers, Sequences, Sums

CONSTANTS
    Principals, Amounts, Currencies, Allowances, Times,
    MaxHolds       \* bound: holds placed in a behaviour

VARIABLE holds     \* the holds, in the order they were placed

Hold == [principal: Principals, amount: Amounts, currency: Currencies,
         at: Times, phase: {"held", "spent", "freed"}, terms: Allowances]

(* The holds of a principal that count in the window of an allowance that  *)
(* ends at a given time.                                                   *)
Window(hs, principal, allowance, end) ==
    {i \in DOMAIN hs :
        /\ hs[i].phase # "freed"
        /\ hs[i].principal = principal
        /\ hs[i].currency = allowance.currency
        /\ end - allowance.period < hs[i].at
        /\ hs[i].at <= end}

SumOver(hs, W) ==
    Total([i \in DOMAIN hs |-> IF i \in W THEN hs[i].amount ELSE 0], Len(hs))

Governs(hs, allowance, W) ==
    \E last \in W : hs[last].terms = allowance /\ \A i \in W : i <= last

WithinEveryWindow(hs) ==
    \A principal \in Principals, allowance \in Allowances, end \in Times :
        LET W == Window(hs, principal, allowance, end)
        IN  Governs(hs, allowance, W) => SumOver(hs, W) <= allowance.cap

-----------------------------------------------------------------------------
PoolInit == holds = <<>>

Place ==
    /\ Len(holds) < MaxHolds
    /\ \E principal \in Principals, amount \in Amounts, at \in Times,
          allowance \in Allowances :
          holds' = Append(holds, [principal |-> principal, amount |-> amount,
                                  currency |-> allowance.currency, at |-> at,
                                  phase |-> "held", terms |-> allowance])
    /\ WithinEveryWindow(holds')

Settle(i, phase) ==
    /\ holds[i].phase = "held"
    /\ holds' = [holds EXCEPT ![i].phase = phase]

PoolNext ==
    \/ Place
    \/ \E i \in DOMAIN holds, phase \in {"spent", "freed"} : Settle(i, phase)

PoolSpec == PoolInit /\ [][PoolNext]_holds

=============================================================================
