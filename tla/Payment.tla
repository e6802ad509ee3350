------------------------------ MODULE Payment ------------------------------
(***************************************************************************)
(* What the daemon promises about each payment it is asked for, without    *)
(* its gate, its wallet, its tables or its sellers.  Budget is held before *)
(* an authorization leaves, and an authorization leaves once; budget is    *)
(* freed only before that, or when the seller refuses what it was sent;    *)
(* and a payment that has ended, by an answer or with the process, is      *)
(* never touched again, except that a seller may still settle what it has. *)
(***************************************************************************)

CONSTANT Requests

VARIABLES
    payment,    \* how far each payment got and what became of its budget
    moved       \* the payments whose money moved

paymentVars == <<payment, moved>>

NewPayment == [stage |-> "new", budget |-> "none", sent |-> FALSE, answer |-> "none"]

Becomes(r, stage, budget, sent, answer) ==
    /\ payment' = [payment EXCEPT ![r] = [stage |-> stage, budget |-> budget,
                                          sent |-> sent, answer |-> answer]]
    /\ UNCHANGED moved

Stands(r, stage, budget, sent) ==
    payment[r].stage = stage /\ payment[r].budget = budget /\ payment[r].sent = sent

-----------------------------------------------------------------------------
Ask(r) == Stands(r, "new", "none", FALSE) /\ Becomes(r, "open", "none", FALSE, "none")

(* Without budget there is no payment: the request is refused, or it was   *)
(* free, or the seller failed.                                             *)
Deny(r) ==
    \/ /\ Stands(r, "new", "none", FALSE)
       /\ Becomes(r, "ended", "none", FALSE, "refused")
    \/ /\ Stands(r, "open", "none", FALSE)
       /\ \E answer \in {"refused", "free", "seller_error"} :
             Becomes(r, "ended", "none", FALSE, answer)

(* The process fails over what was asked.                                  *)
Ignore(r) == Stands(r, "new", "none", FALSE) /\ Becomes(r, "ended", "none", FALSE, "none")

HoldBudget(r) == Stands(r, "open", "none", FALSE) /\ Becomes(r, "open", "held", FALSE, "none")

(* A failure before the authorization left costs nothing.                  *)
GiveUp(r) == Stands(r, "open", "held", FALSE) /\ Becomes(r, "ended", "freed", FALSE, "refused")

Authorize(r) == Stands(r, "open", "held", FALSE) /\ Becomes(r, "open", "held", TRUE, "none")

Spend(r) == Stands(r, "open", "held", TRUE) /\ Becomes(r, "open", "spent", TRUE, "none")

(* The seller refuses the authorization.                                   *)
Reject(r) == Stands(r, "open", "held", TRUE) /\ Becomes(r, "ended", "freed", TRUE, "seller_error")

(* The last word: paid only if it is spent.                                *)
Deliver(r) == Stands(r, "open", "spent", TRUE) /\ Becomes(r, "ended", "spent", TRUE, "paid")

Lose(r) ==
    \E budget \in {"held", "spent"} :
        Stands(r, "open", budget, TRUE) /\ Becomes(r, "ended", budget, TRUE, "refused")

(* The process ends, and with it what was open.                            *)
Interrupt ==
    /\ payment' = [r \in Requests |->
                     IF payment[r].stage = "open"
                     THEN [payment[r] EXCEPT !.stage = "ended"]
                     ELSE payment[r]]
    /\ UNCHANGED moved

(* A seller settles what it was sent, at any time.                         *)
Move(r) == payment[r].sent /\ moved' = moved \cup {r} /\ UNCHANGED payment

-----------------------------------------------------------------------------
PaymentInit == payment = [r \in Requests |-> NewPayment] /\ moved = {}

PaymentStep(r) ==
    \/ Ask(r) \/ Deny(r) \/ Ignore(r) \/ HoldBudget(r) \/ GiveUp(r)
    \/ Authorize(r) \/ Spend(r) \/ Reject(r) \/ Deliver(r) \/ Lose(r) \/ Move(r)

PaymentNext == (\E r \in Requests : PaymentStep(r)) \/ Interrupt

PaymentSpec == PaymentInit /\ [][PaymentNext]_paymentVars

=============================================================================
