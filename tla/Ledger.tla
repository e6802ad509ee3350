------------------------------- MODULE Ledger -------------------------------
(***************************************************************************)
(* The pooled budget ledger (src/ledger.ts): the agent_ledger table, the   *)
(* operations of AgentLedger, and the wall clock they read.                *)
(*                                                                         *)
(* Every operation runs in one BEGIN IMMEDIATE transaction (storage.ts,    *)
(* writeTransactionSync), so several processes that share the database     *)
(* file see it as one step, and each operation is one action.  An          *)
(* operation that throws changes nothing and is a step not taken.          *)
(*                                                                         *)
(* rows[i] is the row whose id is i: rows are inserted and never deleted.  *)
(* Columns nothing reads back (resource_url, clock_source, settled_at and  *)
(* the unused nonce and signature columns) are left out.                   *)
(***************************************************************************)
EXTENDS Integers, Sequences, Sums

CONSTANTS
    Agents,
    Principals,
    Callers,       \* records [agent, principal]: the LedgerCaller of a call
    Amounts,       \* atomic amounts that are reserved
    Currencies,
    Allowances,    \* records [cap, period, currency] a reserve is checked against
    TxRefs,        \* transaction references
    EmptyRef,      \* the empty string, which confirm would take as a reference
    NoRef,         \* NULL in the transaction_ref column
    Intents,       \* what the intent_id column may hold
    Attempts,      \* what the attempt_no column may hold
    Times,         \* what the wall clock may read
    MaxRows        \* bound: rows inserted in a behaviour

ASSUME LedgerAssumption ==
    /\ Callers \subseteq [agent: Agents, principal: Principals]
    /\ Amounts \subseteq Nat
    /\ Allowances \subseteq [cap: Nat, period: Nat \ {0}, currency: Currencies]
    /\ NoRef \notin TxRefs
    /\ Times \subseteq Int
    /\ MaxRows \in Nat

VARIABLES
    rows,     \* the agent_ledger table, in the order of the row ids
    terms,    \* history: terms[i] is the allowance row i was admitted under
    clock     \* the wall clock of the machine

ledgerVars == <<rows, terms, clock>>

LedgerStates == {"reserved", "confirmed", "released", "in_doubt"}

Row == [agent: Agents,
        principal: Principals,
        state: LedgerStates,
        amount: Amounts,
        currency: Currencies,
        reservedAt: Times,
        ref: TxRefs \cup {NoRef},
        intent: Intents,
        attempt: Attempts]

(***************************************************************************)
(* Everything is a value of its type, and one allowance is on record for   *)
(* each row.                                                               *)
(***************************************************************************)
TypeOK ==
    /\ rows \in Seq(Row)
    /\ Len(rows) <= MaxRows
    /\ terms \in Seq(Allowances)
    /\ Len(terms) = Len(rows)
    /\ clock \in Times

-----------------------------------------------------------------------------
(* What a row weighs in a query over a rolling window.                     *)

ConsumingWithoutInDoubt == {"reserved", "confirmed"}    \* mutant
ConsumingStates == {"reserved", "confirmed", "in_doubt"}

Counts(row, principal, currency, since) ==
    /\ row.principal = principal
    /\ row.currency = currency
    /\ row.reservedAt > since
    /\ row.state \in ConsumingStates

Weights(principal, currency, since) ==
    [i \in DOMAIN rows |->
        IF Counts(rows[i], principal, currency, since) THEN rows[i].amount ELSE 0]

(* The sum over the first n rows.                                          *)
SpentBy(n, principal, currency, since) ==
    Total(Weights(principal, currency, since), n)

CommittedIgnoringWindow(principal, period, currency) ==    \* mutant
    SpentBy(Len(rows), principal, currency, clock)
CommittedAtomic(principal, period, currency) ==
    SpentBy(Len(rows), principal, currency, clock - period)

-----------------------------------------------------------------------------
(* The operations.                                                         *)

(* The two checks of reserve: its currency, and room under the cap.        *)
Fits(c, amount, currency, allowance) ==
    /\ currency = allowance.currency
    /\ CommittedAtomic(c.principal, allowance.period, currency) + amount <= allowance.cap

(***************************************************************************)
(* reserve: the sum, the check and the insert in one transaction.  The     *)
(* clock is read once for the window and again for reserved_at; it may     *)
(* move on in between, so the stamp is any time not earlier than the first *)
(* reading.                                                                *)
(***************************************************************************)
Reserve(c, amount, currency, allowance, intent, attempt) ==
    /\ Len(rows) < MaxRows
    /\ Fits(c, amount, currency, allowance)
    /\ \E stamp \in Times :
          /\ stamp >= clock
          /\ clock' = stamp
          /\ rows' = Append(rows, [agent |-> c.agent,
                                   principal |-> c.principal,
                                   state |-> "reserved",
                                   amount |-> amount,
                                   currency |-> currency,
                                   reservedAt |-> stamp,
                                   ref |-> NoRef,
                                   intent |-> intent,
                                   attempt |-> attempt])
    /\ terms' = Append(terms, allowance)

(***************************************************************************)
(* transition: one UPDATE guarded by id, caller and the states allowed;    *)
(* COALESCE keeps the old reference when none is given.                    *)
(***************************************************************************)
TransitionFromAnyState(id, c, next, ref, from) ==    \* mutant
    /\ id \in DOMAIN rows
    /\ rows[id].agent = c.agent
    /\ rows[id].principal = c.principal
    /\ rows' = [rows EXCEPT ![id].state = next,
                            ![id].ref = IF ref = NoRef THEN @ ELSE ref]
    /\ UNCHANGED <<terms, clock>>
Transition(id, c, next, ref, from) ==
    /\ id \in DOMAIN rows
    /\ rows[id].agent = c.agent
    /\ rows[id].principal = c.principal
    /\ rows[id].state \in from
    /\ rows' = [rows EXCEPT ![id].state = next,
                            ![id].ref = IF ref = NoRef THEN @ ELSE ref]
    /\ UNCHANGED <<terms, clock>>

ConfirmableFrom == {"reserved", "in_doubt"}

Confirm(id, c, ref) == Transition(id, c, "confirmed", ref, ConfirmableFrom)

ReleasableFrom == {"reserved"}

Release(id, c) == Transition(id, c, "released", NoRef, ReleasableFrom)

MarkInDoubt(id, c, ref) ==
    /\ ref # EmptyRef
    /\ Transition(id, c, "in_doubt", ref, {"reserved"})

(***************************************************************************)
(* reconcileInDoubt reads the row outside the transaction, then updates it *)
(* in one.  A reference, once set, changes only when the row leaves        *)
(* in_doubt, and then the update throws, so read and update are one step.  *)
(* The status vocabulary is reduced to settled, failed and anything else.  *)
(***************************************************************************)
Statuses == {"settled", "failed", "pending"}

ReconcileStoringStatus(id, c, ref, status) ==    \* mutant
    /\ id \in DOMAIN rows
    /\ rows[id].agent = c.agent
    /\ rows[id].principal = c.principal
    /\ rows[id].ref = ref
    /\ Transition(id, c, status, ref, {"in_doubt"})
ReconcileInDoubt(id, c, ref, status) ==
    /\ id \in DOMAIN rows
    /\ rows[id].agent = c.agent
    /\ rows[id].principal = c.principal
    /\ rows[id].ref = ref
    /\ CASE status = "settled" -> Transition(id, c, "confirmed", ref, {"in_doubt"})
         [] status = "failed"  -> Transition(id, c, "released", ref, {"in_doubt"})
         [] OTHER              -> UNCHANGED ledgerVars

(* The machine's clock is set: forwards as time passes, or to any other    *)
(* time when it is corrected.                                              *)
SetClock ==
    /\ clock' \in Times
    /\ UNCHANGED <<rows, terms>>

-----------------------------------------------------------------------------
LedgerInit ==
    /\ rows = <<>>
    /\ terms = <<>>
    /\ clock \in Times

SomeReserve ==
    \E c \in Callers, amount \in Amounts, currency \in Currencies,
       allowance \in Allowances, intent \in Intents, attempt \in Attempts :
        Reserve(c, amount, currency, allowance, intent, attempt)

SomeConfirm ==
    \E c \in Callers, id \in DOMAIN rows, ref \in TxRefs : Confirm(id, c, ref)

SomeRelease ==
    \E c \in Callers, id \in DOMAIN rows : Release(id, c)

SomeMarkInDoubt ==
    \E c \in Callers, id \in DOMAIN rows, ref \in TxRefs : MarkInDoubt(id, c, ref)

SomeReconcile ==
    \E c \in Callers, id \in DOMAIN rows, ref \in TxRefs, status \in Statuses :
        ReconcileInDoubt(id, c, ref, status)

LedgerNext ==
    \/ SomeReserve
    \/ SomeConfirm
    \/ SomeRelease
    \/ SomeMarkInDoubt
    \/ SomeReconcile
    \/ SetClock

LedgerSpec == LedgerInit /\ [][LedgerNext]_ledgerVars

-----------------------------------------------------------------------------
(* The ledger as a pool of holds: a row in doubt is still held.            *)

Phase(state) ==
    CASE state = "confirmed" -> "spent"
      [] state = "released"  -> "freed"
      [] OTHER               -> "held"

Holds == [i \in DOMAIN rows |->
            [principal |-> rows[i].principal, amount |-> rows[i].amount,
             currency |-> rows[i].currency, at |-> rows[i].reservedAt,
             phase |-> Phase(rows[i].state), terms |-> terms[i]]]

Abstract == INSTANCE Pool WITH holds <- Holds, MaxHolds <- MaxRows

(***************************************************************************)
(* No rolling window ever holds or has spent more than the allowance that  *)
(* governs it, wherever the window lies and however the clock was set:     *)
(* the query at each reserve (committedAtomic), whose window has no upper  *)
(* end, is enough.  This is "total exposure equals the principal's cap".   *)
(***************************************************************************)
EveryWindowWithinAllowance == Abstract!WithinEveryWindow(Holds)

(***************************************************************************)
(* A confirmed or released row is never touched again, whatever sequence   *)
(* of confirm, release, markInDoubt and reconcile calls is made: no        *)
(* payment is settled twice, and none is freed after it was settled.       *)
(***************************************************************************)
SettledIsFinal ==
    [][\A i \in DOMAIN rows :
          rows[i].state \in {"confirmed", "released"} => rows'[i] = rows[i]]_ledgerVars

(***************************************************************************)
(* The ledger implements the pool: its query over rows admits a payment    *)
(* only when the declarative condition on all windows allows it, and its   *)
(* state machine only ever spends or frees what is held.                   *)
(***************************************************************************)
ImplementsPool == Abstract!PoolSpec

(***************************************************************************)
(* ledger.ts, reconcileInDoubt: a row in doubt "keeps consuming the pool   *)
(* until the truth is known".  Its amount is part of what the next reserve *)
(* counts, whatever allowance that reserve is made under.                  *)
(***************************************************************************)
InDoubtKeepsConsuming ==
    \A i \in DOMAIN rows :
        rows[i].state = "in_doubt" =>
            \A allowance \in Allowances :
                allowance.currency = rows[i].currency =>
                    Counts(rows[i], rows[i].principal, rows[i].currency,
                           clock - allowance.period)

=============================================================================
