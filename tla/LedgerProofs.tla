---------------------------- MODULE LedgerProofs ----------------------------
(***************************************************************************)
(* The theorems about the ledger, for every set of callers, amounts,       *)
(* allowances and times and any number of rows.  The inductive invariant   *)
(* looks at the rows in the order of their ids: row k and the rows before  *)
(* it that lie in the window row k was checked against do not exceed the   *)
(* allowance row k was admitted under.  A window anywhere on the time line *)
(* is then judged by its newest row.                                       *)
(***************************************************************************)
EXTENDS Ledger, SumsProofs, SequenceTheorems

(* The rows up to k that lie in the window row k was checked against.      *)
SpentUpTo(k) ==
    SpentBy(k, rows[k].principal, rows[k].currency, rows[k].reservedAt - terms[k].period)

AdmittedWithinCap ==
    \A k \in DOMAIN rows :
        rows[k].state \in ConsumingStates => SpentUpTo(k) <= terms[k].cap

UnderItsTerms == \A k \in DOMAIN rows : rows[k].currency = terms[k].currency

IInv == TypeOK /\ UnderItsTerms /\ AdmittedWithinCap

-----------------------------------------------------------------------------
(* What each kind of step does to the table.                               *)

(* A step of reserve appends one row that fits, stamped no earlier than    *)
(* the clock the window was computed from.                                 *)
Appends(c, amount, currency, allowance, intent, attempt, stamp) ==
    /\ stamp \in Times /\ stamp >= clock
    /\ Len(rows) < MaxRows
    /\ currency = allowance.currency
    /\ CommittedAtomic(c.principal, allowance.period, currency) + amount <= allowance.cap
    /\ clock' = stamp
    /\ rows' = Append(rows, [agent |-> c.agent, principal |-> c.principal,
                             state |-> "reserved", amount |-> amount,
                             currency |-> currency, reservedAt |-> stamp,
                             ref |-> NoRef, intent |-> intent, attempt |-> attempt])
    /\ terms' = Append(terms, allowance)

(* The states a row may still leave.                                       *)
OpenStates == {"reserved", "in_doubt"}

(* Any other step on the table moves one open row to another state.        *)
Moves(id, next, ref) ==
    /\ id \in DOMAIN rows
    /\ rows[id].state \in OpenStates
    /\ next \in LedgerStates
    /\ ref \in TxRefs \cup {NoRef}
    /\ rows' = [rows EXCEPT ![id].state = next,
                            ![id].ref = IF ref = NoRef THEN @ ELSE ref]
    /\ UNCHANGED <<terms, clock>>

(* Every step of the ledger is one of these, a stutter, or a clock step.   *)
LEMMA StepShapes ==
  ASSUME LedgerAssumption, TypeOK, [LedgerNext]_ledgerVars
  PROVE  \/ \E c \in Callers, amount \in Amounts, currency \in Currencies,
                allowance \in Allowances, intent \in Intents, attempt \in Attempts,
                stamp \in Times :
              Appends(c, amount, currency, allowance, intent, attempt, stamp)
         \/ \E id \in DOMAIN rows, next \in LedgerStates, ref \in TxRefs \cup {NoRef} :
              Moves(id, next, ref)
         \/ UNCHANGED <<rows, terms>> /\ clock' \in Times
<1>1. CASE SomeReserve
  BY <1>1 DEF SomeReserve, Reserve, Fits, Appends
<1>2. CASE SomeConfirm
  BY <1>2 DEF SomeConfirm, Confirm, Transition, ConfirmableFrom, Moves,
              OpenStates, LedgerStates
<1>3. CASE SomeRelease
  BY <1>3 DEF SomeRelease, Release, Transition, ReleasableFrom, Moves,
              OpenStates, LedgerStates
<1>4. CASE SomeMarkInDoubt
  BY <1>4 DEF SomeMarkInDoubt, MarkInDoubt, Transition, Moves,
              OpenStates, LedgerStates
<1>5. CASE SomeReconcile
  <2>1. PICK c \in Callers, id \in DOMAIN rows, ref \in TxRefs, status \in Statuses :
            ReconcileInDoubt(id, c, ref, status)
    BY <1>5 DEF SomeReconcile
  <2>2. CASE status = "settled"
    BY <2>1, <2>2 DEF ReconcileInDoubt, Transition, Moves, OpenStates, LedgerStates
  <2>3. CASE status = "failed"
    BY <2>1, <2>3 DEF ReconcileInDoubt, Transition, Moves, OpenStates, LedgerStates
  <2>4. CASE status = "pending"
    BY <2>1, <2>4 DEF ReconcileInDoubt, ledgerVars, TypeOK
  <2> QED BY <2>2, <2>3, <2>4 DEF Statuses
<1>6. CASE SetClock
  BY <1>6 DEF SetClock
<1>7. CASE UNCHANGED ledgerVars
  BY <1>7 DEF ledgerVars, TypeOK
<1> QED BY <1>1, <1>2, <1>3, <1>4, <1>5, <1>6, <1>7 DEF LedgerNext

-----------------------------------------------------------------------------
(* The type invariant holds initially and is kept by every step.           *)
LEMMA InitTypeOK ==
  ASSUME LedgerAssumption, LedgerInit
  PROVE  TypeOK
  BY DEF LedgerAssumption, LedgerInit, TypeOK

LEMMA StepTypeOK ==
  ASSUME LedgerAssumption, TypeOK, [LedgerNext]_ledgerVars
  PROVE  TypeOK'
<1>1. ASSUME NEW c \in Callers, NEW amount \in Amounts, NEW currency \in Currencies,
             NEW allowance \in Allowances, NEW intent \in Intents,
             NEW attempt \in Attempts, NEW stamp \in Times,
             Appends(c, amount, currency, allowance, intent, attempt, stamp)
      PROVE TypeOK'
  <2> DEFINE new == [agent |-> c.agent, principal |-> c.principal,
                     state |-> "reserved", amount |-> amount,
                     currency |-> currency, reservedAt |-> stamp,
                     ref |-> NoRef, intent |-> intent, attempt |-> attempt]
  <2>1. new \in Row
    BY DEF LedgerAssumption, Row, LedgerStates
  <2>2. rows' = Append(rows, new) /\ terms' = Append(terms, allowance) /\ clock' = stamp
    BY <1>1 DEF Appends
  <2>3. Len(rows) < MaxRows
    BY <1>1 DEF Appends
  <2> HIDE DEF new
  <2>4. rows' \in Seq(Row) /\ Len(rows') = Len(rows) + 1
    BY <2>1, <2>2 DEF TypeOK
  <2>5. terms' \in Seq(Allowances) /\ Len(terms') = Len(terms) + 1
    BY <2>2 DEF TypeOK
  <2> QED BY <2>2, <2>3, <2>4, <2>5 DEF TypeOK, LedgerAssumption
<1>2. ASSUME NEW id \in DOMAIN rows, NEW next \in LedgerStates,
             NEW ref \in TxRefs \cup {NoRef}, Moves(id, next, ref)
      PROVE TypeOK'
  <2>1. rows[id] \in Row
    BY DEF TypeOK
  <2> DEFINE new == [rows[id] EXCEPT !.state = next,
                                     !.ref = IF ref = NoRef THEN @ ELSE ref]
  <2>2. new \in Row
    BY <2>1 DEF Row
  <2>3. rows' = [rows EXCEPT ![id] = new]
    BY <1>2 DEF Moves
  <2> HIDE DEF new
  <2>4. rows' \in Seq(Row) /\ Len(rows') = Len(rows)
    BY <2>2, <2>3 DEF TypeOK
  <2> QED BY <1>2, <2>4 DEF Moves, TypeOK
<1>3. ASSUME UNCHANGED <<rows, terms>>, clock' \in Times
      PROVE TypeOK'
  BY <1>3 DEF TypeOK
<1> QED BY <1>1, <1>2, <1>3, StepShapes

(* Ledger rows, allowances and the clock always have their types.          *)
THEOREM TypeCorrect == LedgerSpec => []TypeOK
<1>1. LedgerInit => TypeOK
  BY InitTypeOK, LedgerAssumption
<1>2. TypeOK /\ [LedgerNext]_ledgerVars => TypeOK'
  BY StepTypeOK, LedgerAssumption
<1> QED BY <1>1, <1>2, PTL DEF LedgerSpec

-----------------------------------------------------------------------------
(* What one operation does to the rows, for the modules that call it.      *)

(* Two rows, or two versions of a row, of the same reservation.            *)
SameReservation(row, old) ==
    /\ row.agent = old.agent
    /\ row.principal = old.principal
    /\ row.amount = old.amount
    /\ row.currency = old.currency
    /\ row.intent = old.intent
    /\ row.attempt = old.attempt

(* A step that moves a row changes neither what it reserves nor any other  *)
(* row.                                                                    *)
LEMMA TransitionMovesOneRow ==
  ASSUME TypeOK, NEW id, NEW c, NEW next, NEW ref, NEW from, Transition(id, c, next, ref, from)
  PROVE  /\ DOMAIN rows' = DOMAIN rows /\ Len(rows') = Len(rows) /\ id \in DOMAIN rows
         /\ rows[id].state \in from
         /\ rows'[id].state = next
         /\ rows'[id].ref = IF ref = NoRef THEN rows[id].ref ELSE ref
         /\ \A i \in DOMAIN rows :
               /\ i # id => rows'[i] = rows[i]
               /\ SameReservation(rows'[i], rows[i])
<1>1. rows \in Seq(Row)
  BY DEF TypeOK
<1>2. id \in DOMAIN rows /\ rows[id].state \in from
      /\ rows' = [rows EXCEPT ![id].state = next,
                              ![id].ref = IF ref = NoRef THEN @ ELSE ref]
  BY DEF Transition
<1>3. DOMAIN rows = 1..Len(rows) /\ Len(rows) \in Nat /\ rows[id] \in Row
  BY <1>1, <1>2, LenProperties
<1> DEFINE new == [rows[id] EXCEPT !.state = next,
                                   !.ref = IF ref = NoRef THEN @ ELSE ref]
<1>4. rows' = [rows EXCEPT ![id] = new]
  BY <1>2
<1>5. /\ new.state = next /\ new.ref = IF ref = NoRef THEN rows[id].ref ELSE ref
      /\ SameReservation(new, rows[id])
  BY <1>3 DEF Row, SameReservation
<1> HIDE DEF new
<1>6. DOMAIN rows' = DOMAIN rows
  BY <1>4
<1>7. Len(rows') = Len(rows)
  BY <1>3, <1>4, <1>6
<1>8. ASSUME NEW i \in DOMAIN rows
      PROVE  (i # id => rows'[i] = rows[i]) /\ SameReservation(rows'[i], rows[i])
  BY <1>4, <1>5 DEF SameReservation
<1> QED BY <1>2, <1>4, <1>5, <1>6, <1>7, <1>8

(* A row as reserve inserts it.                                            *)
ReservedFor(row, c, amount, currency, intent, attempt) ==
    /\ row.state = "reserved"
    /\ row.agent = c.agent
    /\ row.principal = c.principal
    /\ row.amount = amount
    /\ row.currency = currency
    /\ row.intent = intent
    /\ row.attempt = attempt

(* reserve appends the row of its caller.                                  *)
LEMMA ReserveAppends ==
  ASSUME TypeOK, NEW c, NEW amount, NEW currency, NEW limit, NEW intent, NEW attempt,
         Reserve(c, amount, currency, limit, intent, attempt)
  PROVE  /\ DOMAIN rows' = DOMAIN rows \cup {Len(rows) + 1} /\ Len(rows') = Len(rows) + 1
         /\ \A i \in DOMAIN rows : rows'[i] = rows[i]
         /\ ReservedFor(rows'[Len(rows) + 1], c, amount, currency, intent, attempt)
<1>1. PICK stamp : rows' = Append(rows, [agent |-> c.agent, principal |-> c.principal,
                                         state |-> "reserved", amount |-> amount,
                                         currency |-> currency, reservedAt |-> stamp,
                                         ref |-> NoRef, intent |-> intent, attempt |-> attempt])
  BY DEF Reserve
<1> DEFINE new == [agent |-> c.agent, principal |-> c.principal,
                   state |-> "reserved", amount |-> amount,
                   currency |-> currency, reservedAt |-> stamp,
                   ref |-> NoRef, intent |-> intent, attempt |-> attempt]
<1>2. ReservedFor(new, c, amount, currency, intent, attempt)
  BY DEF ReservedFor
<1>3. rows' = Append(rows, new)
  BY <1>1
<1> HIDE DEF new
<1>4. rows \in Seq(Row \cup {new})
  <2>1. rows \in Seq(Row)
    BY DEF TypeOK
  <2> QED BY <2>1
<1>5. /\ rows' \in Seq(Row \cup {new}) /\ Len(rows') = Len(rows) + 1
      /\ \A i \in 1..Len(rows) : rows'[i] = rows[i]
      /\ rows'[Len(rows) + 1] = new
  BY <1>3, <1>4, AppendProperties
<1>6. DOMAIN rows = 1..Len(rows) /\ DOMAIN rows' = 1..Len(rows') /\ Len(rows) \in Nat
  BY <1>4, <1>5, LenProperties
<1> QED BY <1>2, <1>5, <1>6

-----------------------------------------------------------------------------
(* Sums of weights.                                                        *)

(* The numbers in the rows and in their terms.                             *)
LEMMA RowNumbers ==
  ASSUME LedgerAssumption, TypeOK
  PROVE  /\ DOMAIN rows = 1..Len(rows) /\ DOMAIN terms = DOMAIN rows
         /\ Len(rows) \in Nat
         /\ clock \in Int
         /\ \A i \in DOMAIN rows :
               /\ rows[i] \in Row
               /\ rows[i].amount \in Nat
               /\ rows[i].reservedAt \in Int
               /\ terms[i] \in Allowances
               /\ terms[i].cap \in Nat
               /\ terms[i].period \in Nat
<1>1. /\ DOMAIN rows = 1..Len(rows) /\ DOMAIN terms = DOMAIN rows
      /\ Len(rows) \in Nat /\ clock \in Int
  BY DEF TypeOK, LedgerAssumption
<1>2. ASSUME NEW i \in DOMAIN rows
      PROVE  /\ rows[i] \in Row
             /\ rows[i].amount \in Nat
             /\ rows[i].reservedAt \in Int
             /\ terms[i] \in Allowances
             /\ terms[i].cap \in Nat
             /\ terms[i].period \in Nat
  <2>1. rows[i] \in Row /\ terms[i] \in Allowances
    BY <1>1 DEF TypeOK
  <2>2. rows[i].amount \in Amounts /\ rows[i].reservedAt \in Times
    BY <2>1 DEF Row
  <2>3. terms[i] \in [cap: Nat, period: Nat \ {0}, currency: Currencies]
    BY <2>1 DEF LedgerAssumption
  <2> QED BY <2>1, <2>2, <2>3 DEF LedgerAssumption
<1> QED BY <1>1, <1>2

(* What a row weighs is a natural number.                                  *)
LEMMA WeightsNat ==
  ASSUME LedgerAssumption, TypeOK, NEW principal, NEW currency, NEW since
  PROVE  \A i \in 1..Len(rows) :
            /\ Weights(principal, currency, since)[i] \in Nat
            /\ Weights(principal, currency, since)[i] =
                  IF Counts(rows[i], principal, currency, since)
                  THEN rows[i].amount ELSE 0
  BY RowNumbers DEF Weights

(* Moving a consuming row to any state adds weight nowhere.                *)
LEMMA MoveWeighsLess ==
  ASSUME LedgerAssumption, TypeOK, TypeOK',
         NEW id \in DOMAIN rows, NEW next \in LedgerStates,
         NEW ref \in TxRefs \cup {NoRef}, Moves(id, next, ref)
  PROVE  /\ DOMAIN rows' = DOMAIN rows
         /\ \A i \in DOMAIN rows :
               /\ rows'[i].principal = rows[i].principal
               /\ rows'[i].currency = rows[i].currency
               /\ rows'[i].reservedAt = rows[i].reservedAt
               /\ rows'[i].amount = rows[i].amount
               /\ rows'[i].state \in ConsumingStates => rows[i].state \in ConsumingStates
         /\ \A k \in DOMAIN rows :
               /\ SpentUpTo(k)' \in Nat /\ SpentUpTo(k) \in Nat
               /\ SpentUpTo(k)' <= SpentUpTo(k)
<1>1. DOMAIN rows' = DOMAIN rows
  BY DEF TypeOK, Moves
<1>2. ASSUME NEW i \in DOMAIN rows
      PROVE  /\ rows'[i].principal = rows[i].principal
             /\ rows'[i].currency = rows[i].currency
             /\ rows'[i].reservedAt = rows[i].reservedAt
             /\ rows'[i].amount = rows[i].amount
             /\ rows'[i].state \in ConsumingStates => rows[i].state \in ConsumingStates
  <2>1. rows[i] \in Row
    BY RowNumbers
  <2>2. CASE i = id
    BY <2>1, <2>2 DEF Moves, Row, OpenStates, ConsumingStates
  <2>3. CASE i # id
    BY <2>3 DEF Moves
  <2> QED BY <2>2, <2>3
<1>3. ASSUME NEW k \in DOMAIN rows
      PROVE  /\ SpentUpTo(k)' \in Nat /\ SpentUpTo(k) \in Nat
             /\ SpentUpTo(k)' <= SpentUpTo(k)
  <2> DEFINE p == rows[k].principal
             c == rows[k].currency
             s == rows[k].reservedAt - terms[k].period
             w == Weights(p, c, s)
             v == [i \in DOMAIN rows |-> IF Counts(rows'[i], p, c, s)
                                         THEN rows[i].amount ELSE 0]
  <2>1. v = Weights(rows[k].principal, rows[k].currency,
                    rows[k].reservedAt - terms[k].period)'
    BY <1>1, <1>2 DEF Weights, Moves
  <2>2. k \in Nat /\ 1..k \subseteq DOMAIN rows
    BY RowNumbers
  <2>3. ASSUME NEW i \in 1..k
        PROVE  w[i] \in Nat /\ v[i] \in Nat /\ v[i] <= w[i]
    <3>1. i \in DOMAIN rows /\ rows[i].amount \in Nat
      BY <2>2, RowNumbers
    <3>2. w[i] = IF Counts(rows[i], p, c, s) THEN rows[i].amount ELSE 0
      BY <3>1 DEF Weights
    <3>3. v[i] = IF Counts(rows'[i], p, c, s) THEN rows[i].amount ELSE 0
      BY <3>1
    <3>4. Counts(rows'[i], p, c, s) => Counts(rows[i], p, c, s)
      BY <3>1, <1>2 DEF Counts
    <3> HIDE DEF w, v
    <3> QED BY <3>1, <3>2, <3>3, <3>4
  <2>4. Total(v, k) \in Nat /\ Total(w, k) \in Nat /\ Total(v, k) <= Total(w, k)
    <3> HIDE DEF v, w
    <3> QED BY <2>2, <2>3, TotalMono, TotalNat
  <2>5. SpentUpTo(k) = Total(w, k)
    BY DEF SpentUpTo, SpentBy
  <2>6. SpentUpTo(k)' = Total(v, k)
    BY <2>1 DEF SpentUpTo, SpentBy
  <2> QED BY <2>4, <2>5, <2>6
<1> QED BY <1>1, <1>2, <1>3

(* Appending a row leaves the sums up to the rows before it alone.         *)
LEMMA AppendKeepsSums ==
  ASSUME LedgerAssumption, TypeOK, TypeOK', NEW row, NEW allowance,
         rows' = Append(rows, row), terms' = Append(terms, allowance)
  PROVE  /\ Len(rows') = Len(rows) + 1
         /\ \A k \in DOMAIN rows :
               /\ rows'[k] = rows[k]
               /\ terms'[k] = terms[k]
               /\ SpentUpTo(k)' \in Nat /\ SpentUpTo(k) \in Nat
               /\ SpentUpTo(k)' <= SpentUpTo(k)
         /\ rows'[Len(rows) + 1] = row
         /\ terms'[Len(rows) + 1] = allowance
<1>1. /\ Len(rows') = Len(rows) + 1
      /\ \A k \in DOMAIN rows : rows'[k] = rows[k] /\ terms'[k] = terms[k]
      /\ rows'[Len(rows) + 1] = row
      /\ terms'[Len(rows) + 1] = allowance
  BY DEF TypeOK
<1>2. ASSUME NEW k \in DOMAIN rows
      PROVE  /\ SpentUpTo(k)' \in Nat /\ SpentUpTo(k) \in Nat
             /\ SpentUpTo(k)' <= SpentUpTo(k)
  <2> DEFINE p == rows[k].principal
             c == rows[k].currency
             s == rows[k].reservedAt - terms[k].period
             w == Weights(p, c, s)
             v == [i \in DOMAIN rows' |-> IF Counts(rows'[i], p, c, s)
                                          THEN rows'[i].amount ELSE 0]
  <2>1. v = Weights(rows[k].principal, rows[k].currency,
                    rows[k].reservedAt - terms[k].period)'
    BY <1>1 DEF Weights
  <2>2. k \in Nat /\ 1..k \subseteq DOMAIN rows
    BY RowNumbers
  <2>3. DOMAIN rows \subseteq DOMAIN rows'
    BY <1>1 DEF TypeOK
  <2>4. ASSUME NEW i \in 1..k
        PROVE  w[i] \in Nat /\ v[i] \in Nat /\ v[i] <= w[i]
    <3>1. i \in DOMAIN rows /\ rows[i].amount \in Nat /\ i \in DOMAIN rows'
      BY <2>2, <2>3, RowNumbers
    <3>2. w[i] = IF Counts(rows[i], p, c, s) THEN rows[i].amount ELSE 0
      BY <3>1 DEF Weights
    <3>3. v[i] = IF Counts(rows[i], p, c, s) THEN rows[i].amount ELSE 0
      BY <3>1, <1>1
    <3> HIDE DEF w, v
    <3> QED BY <3>1, <3>2, <3>3
  <2>5. Total(v, k) \in Nat /\ Total(w, k) \in Nat /\ Total(v, k) <= Total(w, k)
    <3> HIDE DEF v, w
    <3> QED BY <2>2, <2>4, TotalMono, TotalNat
  <2>6. SpentUpTo(k) = Total(w, k)
    BY DEF SpentUpTo, SpentBy
  <2>7. SpentUpTo(k)' = Total(v, k)
    BY <2>1 DEF SpentUpTo, SpentBy
  <2> QED BY <2>5, <2>6, <2>7
<1> QED BY <1>1, <1>2

-----------------------------------------------------------------------------
(* A reservation that fits the cap at its own time fits it by its row.     *)
LEMMA AppendFits ==
  ASSUME LedgerAssumption, TypeOK, TypeOK',
         NEW c \in Callers, NEW amount \in Amounts, NEW currency \in Currencies,
         NEW allowance \in Allowances, NEW intent \in Intents,
         NEW attempt \in Attempts, NEW stamp \in Times,
         Appends(c, amount, currency, allowance, intent, attempt, stamp),
         NEW k, k = Len(rows) + 1
  PROVE  SpentUpTo(k)' <= terms'[k].cap
<1> DEFINE n == Len(rows)
           new == [agent |-> c.agent, principal |-> c.principal,
                   state |-> "reserved", amount |-> amount,
                   currency |-> currency, reservedAt |-> stamp,
                   ref |-> NoRef, intent |-> intent, attempt |-> attempt]
           p == c.principal
           w == Weights(p, currency, clock - allowance.period)
           v == [i \in DOMAIN rows' |-> IF Counts(rows'[i], p, currency,
                                                  stamp - allowance.period)
                                        THEN rows'[i].amount ELSE 0]
<1>1. rows' = Append(rows, new) /\ terms' = Append(terms, allowance)
  BY DEF Appends
<1>2. /\ Len(rows') = n + 1
      /\ \A i \in DOMAIN rows : rows'[i] = rows[i]
      /\ rows'[n + 1] = new
      /\ terms'[n + 1] = allowance
  <2> HIDE DEF new
  <2> QED BY <1>1, AppendKeepsSums
<1>3. n \in Nat /\ DOMAIN rows = 1..n /\ DOMAIN rows' = 1..(n + 1)
  BY <1>2, RowNumbers DEF TypeOK
<1>4. v = Weights(rows[k].principal, rows[k].currency,
                  rows[k].reservedAt - terms[k].period)'
  BY <1>2 DEF Weights
<1>5. /\ amount \in Nat /\ stamp \in Int /\ clock \in Int /\ stamp >= clock
      /\ allowance.period \in Nat /\ allowance.cap \in Nat
  BY RowNumbers DEF Appends, LedgerAssumption
<1>6. ASSUME NEW i \in 1..n
      PROVE  v[i] \in Nat /\ w[i] \in Nat /\ v[i] <= w[i]
  <2>1. /\ i \in DOMAIN rows /\ i \in DOMAIN rows' /\ rows'[i] = rows[i]
        /\ rows[i].amount \in Nat /\ rows[i].reservedAt \in Int
    BY <1>2, <1>3, RowNumbers
  <2>2. w[i] = IF Counts(rows[i], p, currency, clock - allowance.period)
               THEN rows[i].amount ELSE 0
    BY <2>1 DEF Weights
  <2>3. v[i] = IF Counts(rows[i], p, currency, stamp - allowance.period)
               THEN rows[i].amount ELSE 0
    BY <2>1
  <2>4. Counts(rows[i], p, currency, stamp - allowance.period)
           => Counts(rows[i], p, currency, clock - allowance.period)
    BY <2>1, <1>5 DEF Counts
  <2> HIDE DEF v, w
  <2> QED BY <2>1, <2>2, <2>3, <2>4
<1>7. v[n + 1] \in Nat /\ v[n + 1] <= amount
  <2>1. n + 1 \in DOMAIN rows'
    BY <1>3
  <2>2. v[n + 1] = IF Counts(new, p, currency, stamp - allowance.period)
                   THEN amount ELSE 0
    BY <2>1, <1>2
  <2> HIDE DEF v
  <2> QED BY <2>2, <1>5
<1>8. Total(v, n) <= Total(w, n) /\ Total(v, n) \in Nat /\ Total(w, n) \in Nat
  <2> HIDE DEF v, w
  <2> QED BY <1>3, <1>6, TotalMono, TotalNat
<1>9. Total(v, n + 1) = Total(v, n) + v[n + 1]
  <2> HIDE DEF v
  <2> QED BY <1>3, TotalSteps
<1>10. Total(w, n) + amount <= allowance.cap
  BY DEF Appends, CommittedAtomic, SpentBy
<1>11. SpentUpTo(k)' = Total(v, n + 1)
  BY <1>4 DEF SpentUpTo, SpentBy
<1> QED
  <2> HIDE DEF v, w
  <2>1. Total(v, n + 1) <= allowance.cap
    BY <1>5, <1>7, <1>8, <1>9, <1>10
  <2> QED BY <2>1, <1>2, <1>11

(* The invariant holds initially and is kept by every step.                *)
LEMMA InitIInv ==
  ASSUME LedgerAssumption, LedgerInit
  PROVE  IInv
  BY InitTypeOK DEF IInv, LedgerInit, UnderItsTerms, AdmittedWithinCap

LEMMA StepIInv ==
  ASSUME LedgerAssumption, IInv, [LedgerNext]_ledgerVars
  PROVE  IInv'
<1> USE DEF IInv
<1>1. TypeOK'
  BY StepTypeOK
<1>2. ASSUME NEW c \in Callers, NEW amount \in Amounts, NEW currency \in Currencies,
             NEW allowance \in Allowances, NEW intent \in Intents,
             NEW attempt \in Attempts, NEW stamp \in Times,
             Appends(c, amount, currency, allowance, intent, attempt, stamp)
      PROVE (UnderItsTerms /\ AdmittedWithinCap)'
  <2> DEFINE new == [agent |-> c.agent, principal |-> c.principal,
                     state |-> "reserved", amount |-> amount,
                     currency |-> currency, reservedAt |-> stamp,
                     ref |-> NoRef, intent |-> intent, attempt |-> attempt]
  <2>1. /\ rows' = Append(rows, new) /\ terms' = Append(terms, allowance)
        /\ currency = allowance.currency
    BY <1>2 DEF Appends
  <2>2. /\ Len(rows') = Len(rows) + 1
        /\ \A k \in DOMAIN rows :
              /\ rows'[k] = rows[k]
              /\ terms'[k] = terms[k]
              /\ SpentUpTo(k)' \in Nat /\ SpentUpTo(k) \in Nat
              /\ SpentUpTo(k)' <= SpentUpTo(k)
        /\ rows'[Len(rows) + 1] = new
        /\ terms'[Len(rows) + 1] = allowance
    <3> HIDE DEF new
    <3> QED BY <1>1, <2>1, AppendKeepsSums
  <2>3. ASSUME NEW k \in DOMAIN rows'
        PROVE  k \in DOMAIN rows \/ k = Len(rows) + 1
    BY <1>1, <2>2, RowNumbers DEF TypeOK
  <2>4. ASSUME NEW k \in DOMAIN rows'
        PROVE  rows'[k].currency = terms'[k].currency
    <3>1. CASE k = Len(rows) + 1
      <4>1. new.currency = allowance.currency
        BY <2>1
      <4> HIDE DEF new
      <4> QED BY <4>1, <2>2, <3>1
    <3>2. CASE k \in DOMAIN rows
      BY <2>2, <3>2 DEF UnderItsTerms
    <3> QED BY <2>3, <3>1, <3>2
  <2>5. ASSUME NEW k \in DOMAIN rows', rows'[k].state \in ConsumingStates
        PROVE  SpentUpTo(k)' <= terms'[k].cap
    <3>1. CASE k = Len(rows) + 1
      BY <1>1, <1>2, <3>1, AppendFits
    <3>2. CASE k \in DOMAIN rows
      <4>1. SpentUpTo(k)' <= SpentUpTo(k) /\ SpentUpTo(k) <= terms[k].cap
        BY <2>2, <2>5, <3>2 DEF AdmittedWithinCap
      <4>2. SpentUpTo(k)' \in Nat /\ SpentUpTo(k) \in Nat /\ terms[k].cap \in Nat
        BY <2>2, <3>2, RowNumbers
      <4>3. terms'[k] = terms[k]
        BY <2>2, <3>2
      <4> QED BY <4>1, <4>2, <4>3
    <3> QED BY <2>3, <3>1, <3>2
  <2> QED BY <2>4, <2>5 DEF UnderItsTerms, AdmittedWithinCap
<1>3. ASSUME NEW id \in DOMAIN rows, NEW next \in LedgerStates,
             NEW ref \in TxRefs \cup {NoRef}, Moves(id, next, ref)
      PROVE (UnderItsTerms /\ AdmittedWithinCap)'
  <2>1. /\ DOMAIN rows' = DOMAIN rows
        /\ \A i \in DOMAIN rows :
              /\ rows'[i].currency = rows[i].currency
              /\ rows'[i].state \in ConsumingStates => rows[i].state \in ConsumingStates
        /\ \A k \in DOMAIN rows :
              /\ SpentUpTo(k)' \in Nat /\ SpentUpTo(k) \in Nat
              /\ SpentUpTo(k)' <= SpentUpTo(k)
    BY <1>1, <1>3, MoveWeighsLess
  <2>2. terms' = terms
    BY <1>3 DEF Moves
  <2>3. UnderItsTerms'
    BY <2>1, <2>2 DEF UnderItsTerms
  <2>4. ASSUME NEW k \in DOMAIN rows', rows'[k].state \in ConsumingStates
        PROVE  SpentUpTo(k)' <= terms'[k].cap
    <3>1. k \in DOMAIN rows /\ rows[k].state \in ConsumingStates
      BY <2>1, <2>4
    <3>2. SpentUpTo(k) <= terms[k].cap
      BY <3>1 DEF AdmittedWithinCap
    <3>3. /\ terms[k].cap \in Nat /\ SpentUpTo(k)' \in Nat /\ SpentUpTo(k) \in Nat
          /\ SpentUpTo(k)' <= SpentUpTo(k)
      BY <2>1, <3>1, RowNumbers
    <3> QED BY <2>2, <3>2, <3>3
  <2> QED BY <2>3, <2>4 DEF AdmittedWithinCap
<1>4. ASSUME UNCHANGED <<rows, terms>>
      PROVE (UnderItsTerms /\ AdmittedWithinCap)'
  BY <1>4 DEF UnderItsTerms, AdmittedWithinCap, SpentUpTo, SpentBy, Weights
<1> QED BY <1>1, <1>2, <1>3, <1>4, StepShapes

-----------------------------------------------------------------------------
(* The table as a pool of holds.                                           *)

(* Holds is a sequence as long as the table, entry by entry.               *)
LEMMA HoldsShape ==
  ASSUME LedgerAssumption, TypeOK
  PROVE  /\ Holds \in Seq(Range(Holds))
         /\ Len(Holds) = Len(rows)
         /\ DOMAIN Holds = DOMAIN rows
         /\ \A i \in DOMAIN rows :
               Holds[i] = [principal |-> rows[i].principal, amount |-> rows[i].amount,
                           currency |-> rows[i].currency, at |-> rows[i].reservedAt,
                           phase |-> Phase(rows[i].state), terms |-> terms[i]]
<1>1. DOMAIN Holds = 1..Len(rows) /\ Len(rows) \in Nat
  BY RowNumbers DEF Holds
<1>2. Holds \in [1..Len(rows) -> Range(Holds)]
  BY <1>1 DEF Holds, Range
<1> QED BY <1>1, <1>2, RowNumbers, SeqDef, LenProperties DEF Holds

(***************************************************************************)
(* Any window is judged by its newest row: the rows of the window are      *)
(* among those that row was checked with, since the row is not stamped     *)
(* after the window ends.                                                  *)
(***************************************************************************)
LEMMA WindowsFromIInv ==
  ASSUME LedgerAssumption, IInv
  PROVE  EveryWindowWithinAllowance
<1> USE DEF IInv
<1> SUFFICES ASSUME NEW principal \in Principals, NEW allowance \in Allowances,
                    NEW end \in Times,
                    NEW last \in Abstract!Window(Holds, principal, allowance, end),
                    Holds[last].terms = allowance,
                    \A i \in Abstract!Window(Holds, principal, allowance, end) : i <= last
             PROVE  Abstract!SumOver(Holds, Abstract!Window(Holds, principal, allowance, end))
                       <= allowance.cap
  BY DEF EveryWindowWithinAllowance, Abstract!WithinEveryWindow, Abstract!Governs
<1> DEFINE n == Len(rows)
           W == Abstract!Window(Holds, principal, allowance, end)
           u == [i \in DOMAIN Holds |-> IF i \in W THEN Holds[i].amount ELSE 0]
           p == rows[last].principal
           c == rows[last].currency
           s == rows[last].reservedAt - terms[last].period
           w == Weights(p, c, s)
<1>1. /\ n \in Nat /\ DOMAIN rows = 1..n /\ DOMAIN Holds = 1..n /\ Len(Holds) = n
  BY HoldsShape, RowNumbers
<1>2. \A i \in W : /\ i \in DOMAIN rows
                   /\ rows[i].state \in ConsumingStates
                   /\ rows[i].principal = principal
                   /\ rows[i].currency = allowance.currency
                   /\ end - allowance.period < rows[i].reservedAt
                   /\ rows[i].reservedAt <= end
                   /\ i <= last
  <2> SUFFICES ASSUME NEW i \in W
               PROVE  /\ i \in DOMAIN rows
                      /\ rows[i].state \in ConsumingStates
                      /\ rows[i].principal = principal
                      /\ rows[i].currency = allowance.currency
                      /\ end - allowance.period < rows[i].reservedAt
                      /\ rows[i].reservedAt <= end
                      /\ i <= last
    OBVIOUS
  <2>1. i \in DOMAIN rows /\ rows[i] \in Row
    <3>1. i \in DOMAIN Holds
      BY DEF Abstract!Window
    <3> QED BY <1>1, <3>1, RowNumbers
  <2>2. /\ Holds[i].principal = rows[i].principal
        /\ Holds[i].currency = rows[i].currency
        /\ Holds[i].at = rows[i].reservedAt
        /\ Holds[i].phase = Phase(rows[i].state)
    <3>1. Holds[i] = [principal |-> rows[i].principal, amount |-> rows[i].amount,
                      currency |-> rows[i].currency, at |-> rows[i].reservedAt,
                      phase |-> Phase(rows[i].state), terms |-> terms[i]]
      BY <2>1, HoldsShape
    <3> QED BY <3>1
  <2>3. Phase(rows[i].state) # "freed"
    BY <2>2 DEF Abstract!Window
  <2>4. rows[i].state \in ConsumingStates
    BY <2>1, <2>3 DEF Phase, Row, LedgerStates, ConsumingStates
  <2> QED BY <2>1, <2>2, <2>4 DEF Abstract!Window
<1>3. last \in 1..n /\ terms[last] = allowance
  BY <1>1, <1>2, HoldsShape
<1>4. /\ end \in Int /\ allowance.period \in Nat /\ allowance.cap \in Nat
  <2>1. allowance \in [cap: Nat, period: Nat \ {0}, currency: Currencies]
    BY DEF LedgerAssumption
  <2> QED BY <2>1 DEF LedgerAssumption
<1>5. ASSUME NEW i \in 1..n
      PROVE  /\ u[i] \in Nat /\ w[i] \in Nat /\ u[i] <= w[i]
             /\ i \notin W => u[i] = 0
  <2>1. /\ i \in DOMAIN rows /\ rows[i].amount \in Nat /\ rows[i].reservedAt \in Int
        /\ rows[last].reservedAt \in Int
    BY <1>1, <1>3, RowNumbers
  <2>2. w[i] = IF Counts(rows[i], p, c, s) THEN rows[i].amount ELSE 0
    BY <2>1 DEF Weights
  <2>3. u[i] = IF i \in W THEN rows[i].amount ELSE 0
    BY <1>1, <2>1, HoldsShape
  <2>4. i \in W => Counts(rows[i], p, c, s)
    <3> SUFFICES ASSUME i \in W PROVE Counts(rows[i], p, c, s)
      OBVIOUS
    <3>1. rows[i].principal = p /\ rows[i].currency = c /\ rows[i].state \in ConsumingStates
      BY <1>2
    <3>2. end - allowance.period < rows[i].reservedAt /\ rows[last].reservedAt <= end
      BY <1>2
    <3>3. rows[i].reservedAt > s
      BY <2>1, <1>3, <1>4, <3>2
    <3> QED BY <3>1, <3>3 DEF Counts
  <2> HIDE DEF u, w, W
  <2> QED BY <2>1, <2>2, <2>3, <2>4
<1>6. Total(u, n) = Total(u, last)
  <2>1. \A i \in (last + 1)..n : u[i] = 0
    <3> SUFFICES ASSUME NEW i \in (last + 1)..n PROVE u[i] = 0
      OBVIOUS
    <3>1. i \in 1..n /\ ~ (i <= last)
      BY <1>1, <1>3
    <3>2. i \notin W
      BY <1>2, <3>1
    <3> HIDE DEF u, W
    <3> QED BY <1>5, <3>1, <3>2
  <2>2. n \in Nat /\ last \in Nat /\ last <= n
    BY <1>1, <1>3
  <2>3. \A i \in 1..n : u[i] \in Nat
    BY <1>5
  <2> HIDE DEF u, n
  <2> QED BY <2>1, <2>2, <2>3, TotalZeroTail
<1>7. Total(u, last) <= Total(w, last) /\ Total(u, last) \in Nat /\ Total(w, last) \in Nat
  <2> HIDE DEF u, w, W
  <2>1. \A i \in 1..last : u[i] \in Nat /\ w[i] \in Nat /\ u[i] <= w[i]
    BY <1>1, <1>3, <1>5
  <2> QED BY <1>1, <1>3, <2>1, TotalMono, TotalNat
<1>8. Total(w, last) <= allowance.cap
  <2>1. last \in DOMAIN rows /\ rows[last].state \in ConsumingStates
    BY <1>2
  <2>2. SpentUpTo(last) <= terms[last].cap
    BY <2>1 DEF AdmittedWithinCap
  <2>3. SpentUpTo(last) = Total(w, last)
    BY DEF SpentUpTo, SpentBy
  <2> QED BY <1>3, <2>2, <2>3
<1>9. Abstract!SumOver(Holds, W) = Total(u, n)
  <2>1. Abstract!SumOver(Holds, W) = Abstract!Total(u, n)
    BY <1>1 DEF Abstract!SumOver
  <2>2. Abstract!Total(u, n) = Total(u, n)
    BY DEF Abstract!Total, Total, Abstract!PrefixSums, PrefixSums
  <2> QED BY <2>1, <2>2
<1> HIDE DEF u, w, W
<1> QED BY <1>4, <1>6, <1>7, <1>8, <1>9 DEF W

(* No rolling window ever exceeds the allowance that governs it.           *)
THEOREM PoolNeverExceeded == LedgerSpec => []EveryWindowWithinAllowance
<1>1. LedgerInit => IInv
  BY InitIInv, LedgerAssumption
<1>2. IInv /\ [LedgerNext]_ledgerVars => IInv'
  BY StepIInv, LedgerAssumption
<1>3. IInv => EveryWindowWithinAllowance
  BY WindowsFromIInv, LedgerAssumption
<1> QED BY <1>1, <1>2, <1>3, PTL DEF LedgerSpec

-----------------------------------------------------------------------------
(* A step either stutters on the table, settles one row or appends one.    *)

(***************************************************************************)
(* A confirmed or released row is never touched again: a step on the table *)
(* appends a row or moves one that is reserved or in doubt.                *)
(***************************************************************************)
THEOREM SettledStaysSettled == LedgerSpec => SettledIsFinal
<1>1. ASSUME TypeOK, [LedgerNext]_ledgerVars,
             NEW i \in DOMAIN rows, rows[i].state \in {"confirmed", "released"}
      PROVE  rows'[i] = rows[i]
  <2>1. ASSUME NEW c \in Callers, NEW amount \in Amounts, NEW currency \in Currencies,
               NEW allowance \in Allowances, NEW intent \in Intents,
               NEW attempt \in Attempts, NEW stamp \in Times,
               Appends(c, amount, currency, allowance, intent, attempt, stamp)
        PROVE  rows'[i] = rows[i]
    <3> DEFINE new == [agent |-> c.agent, principal |-> c.principal,
                       state |-> "reserved", amount |-> amount,
                       currency |-> currency, reservedAt |-> stamp,
                       ref |-> NoRef, intent |-> intent, attempt |-> attempt]
    <3>1. rows' = Append(rows, new)
      BY <2>1 DEF Appends
    <3>2. rows \in Seq(Row)
      BY <1>1 DEF TypeOK
    <3> HIDE DEF new
    <3> QED BY <1>1, <3>1, <3>2
  <2>2. ASSUME NEW id \in DOMAIN rows, NEW next \in LedgerStates,
               NEW ref \in TxRefs \cup {NoRef}, Moves(id, next, ref)
        PROVE  rows'[i] = rows[i]
    BY <1>1, <2>2 DEF Moves, OpenStates
  <2>3. ASSUME UNCHANGED <<rows, terms>>
        PROVE  rows'[i] = rows[i]
    BY <2>3
  <2> QED BY <1>1, <2>1, <2>2, <2>3, StepShapes, LedgerAssumption
<1>2. TypeOK /\ [LedgerNext]_ledgerVars =>
        [\A i \in DOMAIN rows :
            rows[i].state \in {"confirmed", "released"} => rows'[i] = rows[i]]_ledgerVars
  BY <1>1
<1> QED BY <1>2, TypeCorrect, PTL DEF LedgerSpec, SettledIsFinal

(* Append as a function.                                                   *)
LEMMA AppendAsFunction ==
  ASSUME NEW S, NEW s \in Seq(S), NEW e \in S
  PROVE  Append(s, e) = [i \in 1..(Len(s) + 1) |-> IF i = Len(s) + 1 THEN e ELSE s[i]]
<1>1. /\ Append(s, e) \in Seq(S) /\ Len(Append(s, e)) = Len(s) + 1
      /\ \A i \in 1..Len(s) : Append(s, e)[i] = s[i]
      /\ Append(s, e)[Len(s) + 1] = e
      /\ Len(s) \in Nat
  BY AppendProperties, LenProperties
<1>2. DOMAIN Append(s, e) = 1..(Len(s) + 1)
      /\ Append(s, e) = [i \in DOMAIN Append(s, e) |-> Append(s, e)[i]]
  BY <1>1, LenProperties
<1>3. \A i \in 1..(Len(s) + 1) :
        Append(s, e)[i] = IF i = Len(s) + 1 THEN e ELSE s[i]
  BY <1>1
<1> QED BY <1>2, <1>3, Zenon

(* The ledger starts as the empty pool.                                    *)
LEMMA InitMapsToPool ==
  ASSUME LedgerAssumption, LedgerInit
  PROVE  Abstract!PoolInit
<1>1. TypeOK
  BY InitTypeOK
<1>2. Len(Holds) = 0 /\ Holds \in Seq(Range(Holds))
  BY <1>1, HoldsShape DEF LedgerInit
<1> QED BY <1>2 DEF Abstract!PoolInit

(* Each step of the ledger places a hold, settles one, or leaves the pool. *)
LEMMA StepMapsToPool ==
  ASSUME LedgerAssumption, IInv, IInv', EveryWindowWithinAllowance',
         [LedgerNext]_ledgerVars
  PROVE  [Abstract!PoolNext]_Holds
<1> USE DEF IInv
<1>1. /\ TypeOK /\ TypeOK'
      /\ rows \in Seq(Row) /\ Len(rows) \in Nat /\ terms \in Seq(Allowances)
      /\ Len(terms) = Len(rows)
  BY DEF TypeOK
<1>2. /\ Len(Holds) = Len(rows) /\ DOMAIN Holds = 1..Len(rows)
      /\ Holds \in Seq(Range(Holds))
  BY <1>1, HoldsShape, RowNumbers
<1>3. ASSUME NEW c \in Callers, NEW amount \in Amounts, NEW currency \in Currencies,
             NEW allowance \in Allowances, NEW intent \in Intents,
             NEW attempt \in Attempts, NEW stamp \in Times,
             Appends(c, amount, currency, allowance, intent, attempt, stamp)
      PROVE  Abstract!Place
  <2> DEFINE row == [agent |-> c.agent, principal |-> c.principal,
                     state |-> "reserved", amount |-> amount,
                     currency |-> currency, reservedAt |-> stamp,
                     ref |-> NoRef, intent |-> intent, attempt |-> attempt]
             hold == [principal |-> c.principal, amount |-> amount,
                      currency |-> allowance.currency, at |-> stamp,
                      phase |-> "held", terms |-> allowance]
             n == Len(rows) + 1
  <2>1. rows' = Append(rows, row) /\ terms' = Append(terms, allowance)
        /\ Len(rows) < MaxRows /\ currency = allowance.currency
    BY <1>3 DEF Appends
  <2>2. c.principal \in Principals
    BY DEF LedgerAssumption
  <2>3. /\ rows' = [i \in 1..n |-> IF i = n THEN row ELSE rows[i]]
        /\ terms' = [i \in 1..n |-> IF i = n THEN allowance ELSE terms[i]]
    <3>1. row \in Row
      BY DEF LedgerAssumption, Row, LedgerStates
    <3> HIDE DEF row
    <3> QED BY <1>1, <2>1, <3>1, AppendAsFunction
  <2>4. Holds' = [i \in 1..n |-> IF i = n THEN hold ELSE Holds[i]]
    <3>1. Holds' = [i \in 1..n |->
                      [principal |-> rows'[i].principal, amount |-> rows'[i].amount,
                       currency |-> rows'[i].currency, at |-> rows'[i].reservedAt,
                       phase |-> Phase(rows'[i].state), terms |-> terms'[i]]]
      BY <2>3 DEF Holds, Phase
    <3>2. ASSUME NEW i \in 1..n
          PROVE  [principal |-> rows'[i].principal, amount |-> rows'[i].amount,
                  currency |-> rows'[i].currency, at |-> rows'[i].reservedAt,
                  phase |-> Phase(rows'[i].state), terms |-> terms'[i]]
                   = IF i = n THEN hold ELSE Holds[i]
      <4>1. CASE i = n
        BY <2>1, <2>3, <4>1 DEF Phase
      <4>2. CASE i # n
        <5>1. i \in DOMAIN rows /\ rows'[i] = rows[i] /\ terms'[i] = terms[i]
          BY <1>1, <2>3, <4>2
        <5> QED BY <4>2, <5>1 DEF Holds
      <4> QED BY <4>1, <4>2
    <3> HIDE DEF hold
    <3> QED BY <3>1, <3>2
  <2>5. Holds' = Append(Holds, hold)
    <3> HIDE DEF hold
    <3>1. Holds \in Seq(Range(Holds) \cup {hold})
      BY <1>2
    <3> QED BY <1>2, <2>4, <3>1, AppendAsFunction
  <2>6. Abstract!WithinEveryWindow(Holds')
    BY DEF EveryWindowWithinAllowance
  <2> QED BY <1>2, <2>1, <2>2, <2>5, <2>6 DEF Abstract!Place
<1>4. ASSUME NEW id \in DOMAIN rows, NEW next \in LedgerStates,
             NEW ref \in TxRefs \cup {NoRef}, Moves(id, next, ref)
      PROVE  \/ \E phase \in {"spent", "freed"} : Abstract!Settle(id, phase)
             \/ Holds' = Holds
  <2>1. /\ rows' = [rows EXCEPT ![id].state = next,
                                ![id].ref = IF ref = NoRef THEN @ ELSE ref]
        /\ terms' = terms /\ DOMAIN rows' = DOMAIN rows
        /\ rows[id].state \in OpenStates
    BY <1>1, <1>4 DEF Moves
  <2>2. Holds[id].phase = "held"
    BY <2>1 DEF Holds, Phase, OpenStates
  <2>3. Holds' = [Holds EXCEPT ![id].phase = Phase(next)]
    <3>1. Holds' = [i \in DOMAIN rows |->
                      [principal |-> rows'[i].principal, amount |-> rows'[i].amount,
                       currency |-> rows'[i].currency, at |-> rows'[i].reservedAt,
                       phase |-> Phase(rows'[i].state), terms |-> terms[i]]]
      BY <2>1 DEF Holds, Phase
    <3>2. ASSUME NEW i \in DOMAIN rows, i # id
          PROVE  rows'[i] = rows[i]
      BY <2>1, <3>2
    <3>3. /\ rows'[id].principal = rows[id].principal
          /\ rows'[id].amount = rows[id].amount
          /\ rows'[id].currency = rows[id].currency
          /\ rows'[id].reservedAt = rows[id].reservedAt
          /\ rows'[id].state = next
      <4>1. rows[id] \in Row
        BY <1>1, RowNumbers
      <4> QED BY <2>1, <4>1 DEF Row
    <3>4. ASSUME NEW i \in DOMAIN rows
          PROVE  [principal |-> rows'[i].principal, amount |-> rows'[i].amount,
                  currency |-> rows'[i].currency, at |-> rows'[i].reservedAt,
                  phase |-> Phase(rows'[i].state), terms |-> terms[i]]
                   = IF i = id THEN [Holds[i] EXCEPT !.phase = Phase(next)] ELSE Holds[i]
      <4>1. CASE i = id
        BY <3>3, <4>1 DEF Holds
      <4>2. CASE i # id
        BY <3>2, <4>2 DEF Holds
      <4> QED BY <4>1, <4>2
    <3>5. Holds' = [i \in DOMAIN rows |->
                      IF i = id THEN [Holds[i] EXCEPT !.phase = Phase(next)] ELSE Holds[i]]
      BY <3>1, <3>4, Zenon
    <3>6. DOMAIN Holds = DOMAIN rows
      BY DEF Holds
    <3> QED BY <3>5, <3>6
  <2>4. Phase(next) \in {"held", "spent", "freed"}
    BY DEF Phase
  <2>5. CASE Phase(next) = "held"
    BY <2>2, <2>3, <2>5 DEF Holds
  <2>6. CASE Phase(next) # "held"
    BY <2>2, <2>3, <2>4, <2>6 DEF Abstract!Settle
  <2> QED BY <2>5, <2>6
<1>5. ASSUME UNCHANGED <<rows, terms>>
      PROVE  Holds' = Holds
  BY <1>5 DEF Holds, Phase
<1>6. DOMAIN Holds = DOMAIN rows
  BY DEF Holds
<1> QED BY <1>3, <1>4, <1>5, <1>6, StepShapes DEF Abstract!PoolNext

(***************************************************************************)
(* The ledger implements the pool: reserve places a hold that leaves every *)
(* window within its allowance, confirm, release and a settled or failed   *)
(* reconciliation settle one, and markInDoubt changes nothing the pool     *)
(* shows.                                                                  *)
(***************************************************************************)
THEOREM LedgerImplementsPool == LedgerSpec => ImplementsPool
<1>1. LedgerInit => IInv /\ Abstract!PoolInit
  BY InitIInv, InitMapsToPool, LedgerAssumption
<1>2. IInv /\ [LedgerNext]_ledgerVars => IInv'
  BY StepIInv, LedgerAssumption
<1>3. /\ IInv /\ IInv' /\ EveryWindowWithinAllowance'
      /\ [LedgerNext]_ledgerVars
      => [Abstract!PoolNext]_Holds
  BY StepMapsToPool, LedgerAssumption
<1> QED BY <1>1, <1>2, <1>3, PoolNeverExceeded, PTL DEF LedgerSpec, ImplementsPool, Abstract!PoolSpec

=============================================================================
