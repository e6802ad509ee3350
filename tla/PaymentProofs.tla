---------------------------- MODULE PaymentProofs ----------------------------
(***************************************************************************)
(* That the daemon implements Payment: each of its steps is one step of    *)
(* one payment, the end of all that are open, or none.  The invariant of   *)
(* DaemonProofs says where the payment of a request stands before a step;  *)
(* what is left to see is that the step moves this payment only.           *)
(***************************************************************************)
EXTENDS DaemonProofs

LEMMA Stages ==
  /\ StageOf("idle") = "new"
  /\ \A pc \in InFlight : StageOf(pc) = "open"
  /\ \A pc \in Finished : StageOf(pc) = "ended"
  BY DEF StageOf, InFlight, Finished

LEMMA Budgets ==
  BudgetIn("reserved") = "held" /\ BudgetIn("confirmed") = "spent" /\ BudgetIn("released") = "freed"
  BY DEF BudgetIn

(* What the payment of a request with this job and this table is.          *)
Shown(j, table) ==
    [stage  |-> StageOf(j.pc),
     budget |-> IF j.reservation = 0 THEN "none" ELSE BudgetIn(table[j.reservation].state),
     sent   |-> j.sent,
     answer |-> j.outcome]

LEMMA PaymentsAreShown ==
  ASSUME NEW r \in Requests
  PROVE  PaymentOf(r) = Shown(job[r], rows) /\ PaymentOf(r)' = Shown(job'[r], rows')
  BY DEF PaymentOf, Shown, Admitted, RowOf

(* One request moves, and no row but its own: one payment moves.           *)
LEMMA OnePaymentMoves ==
  ASSUME TypeOK, DaemonParts, NEW r \in Requests, NEW new \in Jobs,
         job' = [job EXCEPT ![r] = new],
         \A i \in DOMAIN rows : i # job[r].reservation => rows'[i] = rows[i]
  PROVE  [q \in Requests |-> PaymentOf(q)]'
           = [[q \in Requests |-> PaymentOf(q)] EXCEPT ![r] = Shown(new, rows')]
<1>1. job'[r] = new /\ \A q \in Requests \ {r} : job'[q] = job[q]
  BY DEF DaemonParts
<1>2. PaymentOf(r)' = Shown(new, rows')
  BY <1>1, PaymentsAreShown
<1>3. ASSUME NEW q \in Requests, q # r
      PROVE  PaymentOf(q)' = PaymentOf(q)
  <2>1. Shown(job[q], rows') = Shown(job[q], rows)
    <3>1. CASE job[q].reservation = 0
      BY <3>1 DEF Shown
    <3>2. CASE job[q].reservation # 0
      <4>1. job[q].reservation \in DOMAIN rows /\ job[q].reservation # job[r].reservation
        BY <1>3, <3>2, WhereItStands DEF DaemonParts, OwnReservations
      <4> QED BY <4>1 DEF Shown
    <3> QED BY <3>1, <3>2
  <2> QED BY <1>1, <1>3, <2>1, PaymentsAreShown
<1> QED BY <1>2, <1>3

(* The same, said with the operators of Payment.                           *)
LEMMA PaymentBecomes ==
  ASSUME TypeOK, DaemonParts, NEW r \in Requests, NEW new \in Jobs,
         job' = [job EXCEPT ![r] = new],
         \A i \in DOMAIN rows : i # job[r].reservation => rows'[i] = rows[i],
         moved' = moved,
         NEW stage, NEW budget, NEW sent, NEW answer,
         Shown(new, rows') = [stage |-> stage, budget |-> budget, sent |-> sent, answer |-> answer]
  PROVE  Promised!Becomes(r, stage, budget, sent, answer)
<1>1. [q \in Requests |-> PaymentOf(q)]'
        = [[q \in Requests |-> PaymentOf(q)] EXCEPT ![r] = Shown(new, rows')]
  BY OnePaymentMoves
<1> QED BY <1>1 DEF Promised!Becomes

LEMMA PaymentStays ==
  ASSUME TypeOK, DaemonParts, NEW r \in Requests, NEW new \in Jobs,
         job' = [job EXCEPT ![r] = new],
         \A i \in DOMAIN rows : i # job[r].reservation => rows'[i] = rows[i],
         moved' = moved,
         Shown(new, rows') = Shown(job[r], rows)
  PROVE  UNCHANGED Promised!paymentVars
<1>1. [q \in Requests |-> PaymentOf(q)]'
        = [[q \in Requests |-> PaymentOf(q)] EXCEPT ![r] = Shown(new, rows')]
  BY OnePaymentMoves
<1>2. Shown(new, rows') = PaymentOf(r)
  BY PaymentsAreShown
<1>3. [q \in Requests |-> PaymentOf(q)]' = [q \in Requests |-> PaymentOf(q)]
  BY <1>1, <1>2
<1> QED BY <1>3 DEF Promised!paymentVars

LEMMA PaymentStands ==
  ASSUME NEW r \in Requests, NEW stage, NEW budget, NEW sent,
         Shown(job[r], rows).stage = stage,
         Shown(job[r], rows).budget = budget,
         Shown(job[r], rows).sent = sent
  PROVE  Promised!Stands(r, stage, budget, sent)
  BY PaymentsAreShown DEF Promised!Stands

-----------------------------------------------------------------------------
(* The steps of one request.                                               *)

(* A request without a row is answered, and holds nothing.                 *)
LEMMA AnswerIsADenial ==
  ASSUME TypeOK, DaemonParts, NEW r \in Requests, job[r].reservation = 0, ~ job[r].sent,
         job[r].pc \in {"probing", "gating", "reserving"},
         NEW outcome \in {"refused", "free", "seller_error"}, Answer(r, outcome),
         rows' = rows, moved' = moved
  PROVE  Promised!Deny(r)
<1>1. PICK new \in Jobs : job' = [job EXCEPT ![r] = new] /\ Answered(new, job[r], outcome)
  BY AnswerShape DEF DaemonParts
<1>2. Promised!Stands(r, "open", "none", FALSE)
  <2>1. job[r].pc \in InFlight /\ job[r].sent = FALSE
    BY DEF InFlight, DaemonParts, Jobs
  <2> QED BY <2>1, PaymentStands, Stages DEF Shown
<1>3. Shown(new, rows') = [stage |-> "ended", budget |-> "none", sent |-> FALSE, answer |-> outcome]
  <2>1. /\ new.pc = "answered" /\ new.outcome = outcome
        /\ new.reservation = 0 /\ new.sent = FALSE
    BY <1>1 DEF Answered, DaemonParts, Jobs
  <2> QED BY <2>1, Stages DEF Shown, Finished
<1>4. Promised!Becomes(r, "ended", "none", FALSE, outcome)
  BY <1>1, <1>3, PaymentBecomes
<1> QED BY <1>2, <1>4 DEF Promised!Deny

LEMMA ReceivePays ==
  ASSUME TypeOK, DaemonParts, NEW r \in Requests, NEW claim \in Claims, Receive(r, claim)
  PROVE  Promised!Ask(r) \/ Promised!Deny(r)
<1> DEFINE ok == Authentic(claim)
           new == [job[r] EXCEPT !.claim = claim,
                                 !.pc = IF ok THEN "probing" ELSE "answered",
                                 !.outcome = IF ok THEN "none" ELSE "refused"]
<1>1. job[r].pc = "idle" /\ job[r] \in Jobs
  BY DEF DaemonParts, Receive, Runs
<1>2. job' = [job EXCEPT ![r] = new] /\ rows' = rows /\ moved' = moved
  BY DEF Receive, ledgerVars, pathVars
<1>3. job[r].reservation = 0 /\ ~ job[r].sent
  BY <1>1, WhereItStands DEF WithoutRow, WithRow, Progress
<1>4. /\ new \in Jobs /\ new.reservation = 0 /\ ~ new.sent
      /\ new.pc = (IF ok THEN "probing" ELSE "answered")
      /\ new.outcome = (IF ok THEN "none" ELSE "refused")
  BY <1>1, <1>3 DEF Jobs, InFlight, Finished
<1>5. new.sent = FALSE
  BY <1>4 DEF Jobs
<1> HIDE DEF new, ok
<1>6. Promised!Stands(r, "new", "none", FALSE)
  BY <1>1, <1>3, PaymentStands, Stages DEF Shown, Jobs
<1>7. CASE ok
  <2>1. Shown(new, rows') = [stage |-> "open", budget |-> "none", sent |-> FALSE, answer |-> "none"]
    BY <1>4, <1>5, <1>7, Stages DEF Shown, InFlight
  <2>2. Promised!Becomes(r, "open", "none", FALSE, "none")
    BY <1>2, <1>4, <2>1, PaymentBecomes
  <2> QED BY <1>6, <2>2 DEF Promised!Ask
<1>8. CASE ~ ok
  <2>1. Shown(new, rows') = [stage |-> "ended", budget |-> "none", sent |-> FALSE, answer |-> "refused"]
    BY <1>4, <1>5, <1>8, Stages DEF Shown, Finished
  <2>2. Promised!Becomes(r, "ended", "none", FALSE, "refused")
    BY <1>2, <1>4, <2>1, PaymentBecomes
  <2> QED BY <1>6, <2>2 DEF Promised!Deny
<1> QED BY <1>7, <1>8

(* Until it reserves, a request that goes on is a payment that stays.      *)
LEMMA StillOpen ==
  ASSUME TypeOK, DaemonParts, NEW r \in Requests, NEW new \in Jobs,
         job' = [job EXCEPT ![r] = new], rows' = rows, moved' = moved,
         job[r].pc \in InFlight, new.pc \in InFlight,
         new.reservation = job[r].reservation, new.sent = job[r].sent,
         new.outcome = job[r].outcome
  PROVE  UNCHANGED Promised!paymentVars
<1>1. Shown(new, rows') = Shown(job[r], rows)
  BY Stages DEF Shown
<1> QED BY <1>1, PaymentStays

LEMMA ProbePays ==
  ASSUME TypeOK, DaemonParts, NEW r \in Requests, Probe(r)
  PROVE  Promised!Deny(r) \/ UNCHANGED Promised!paymentVars
<1>1. job[r].pc = "probing" /\ job[r] \in Jobs /\ rows' = rows /\ moved' = moved
  BY DEF DaemonParts, Probe, Runs, ledgerVars, pathVars
<1>2. job[r].reservation = 0 /\ ~ job[r].sent
  BY <1>1, WhereItStands DEF WithoutRow, WithRow, Progress
<1>3. ASSUME NEW outcome \in {"free", "seller_error", "refused"}, Answer(r, outcome)
      PROVE  Promised!Deny(r)
  BY <1>1, <1>2, <1>3, AnswerIsADenial
<1>4. ASSUME NEW offer \in Offers, Usable(offer),
             job' = [job EXCEPT ![r].quote = QuoteFromRequirements(offer), ![r].pc = "gating"]
      PROVE  UNCHANGED Promised!paymentVars
  <2> DEFINE quote == QuoteFromRequirements(offer)
             new == [job[r] EXCEPT !.quote = quote, !.pc = "gating"]
  <2>1. quote \in Quotes
    BY <1>4 DEF Quotes
  <2>2. job' = [job EXCEPT ![r] = new]
    BY <1>4
  <2> HIDE DEF quote
  <2>3. /\ new \in Jobs /\ new.pc = "gating" /\ new.outcome = job[r].outcome
        /\ new.reservation = job[r].reservation /\ new.sent = job[r].sent
    BY <1>1, <2>1 DEF Jobs, InFlight
  <2> HIDE DEF new
  <2> QED BY <1>1, <2>2, <2>3, StillOpen DEF InFlight
<1> QED BY <1>3, <1>4 DEF Probe

LEMMA DecidePays ==
  ASSUME DaemonAssumption, TypeOK, DaemonParts, NEW r \in Requests, Decide(r), DaemonParts'
  PROVE  Promised!Deny(r) \/ UNCHANGED Promised!paymentVars
<1>1. job[r].pc = "gating" /\ job \in [Requests -> Jobs] /\ rows' = rows /\ moved' = moved
  BY DEF DaemonParts, Decide, Runs, ledgerVars
<1>2. job[r].reservation = 0 /\ ~ job[r].sent
  BY <1>1, WhereItStands DEF WithoutRow, WithRow, Progress
<1>3. CASE Answer(r, "refused")
  BY <1>1, <1>2, <1>3, AnswerIsADenial
<1>4. ASSUME NEW plan,
             job' = [job EXCEPT ![r].pc = "reserving", ![r].plan = plan]
      PROVE  UNCHANGED Promised!paymentVars
  <2> DEFINE new == [job[r] EXCEPT !.pc = "reserving", !.plan = plan]
  <2>1. job' = [job EXCEPT ![r] = new]
    BY <1>4
  <2>2. new \in Jobs
    BY <1>1, <2>1 DEF DaemonParts
  <2>3. /\ new.pc = "reserving" /\ new.outcome = job[r].outcome
        /\ new.reservation = job[r].reservation /\ new.sent = job[r].sent
    BY <1>1 DEF Jobs
  <2> HIDE DEF new
  <2> QED BY <1>1, <2>1, <2>2, <2>3, StillOpen DEF InFlight
<1> QED BY <1>3, <1>4 DEF Decide

LEMMA ReserveBudgetPays ==
  ASSUME TypeOK, DaemonParts, NEW r \in Requests, ReserveBudget(r)
  PROVE  Promised!HoldBudget(r) \/ Promised!Deny(r)
<1>1. job[r].pc = "reserving" /\ job[r] \in Jobs /\ moved' = moved
  BY DEF DaemonParts, ReserveBudget, pathVars
<1>2. job[r].reservation = 0 /\ ~ job[r].sent /\ job[r].outcome = "none"
  BY <1>1, WhereItStands DEF WithoutRow, WithRow, Progress
<1>3. CASE Answer(r, "refused") /\ UNCHANGED ledgerVars
  BY <1>1, <1>2, <1>3, AnswerIsADenial DEF ledgerVars
<1>4. CASE /\ Reserve(JobCaller(r), job[r].quote.price, job[r].quote.currency,
                      job[r].plan.allowance, job[r].plan.intent, job[r].plan.attempt)
           /\ job' = [job EXCEPT ![r].pc = "admitted", ![r].plan = None,
                                 ![r].reservation = InsertedRowId]
  <2> DEFINE n == Len(rows)
             new == [job[r] EXCEPT !.pc = "admitted", !.plan = None, !.reservation = n + 1]
  <2>1. n + 1 \in Nat /\ n + 1 # 0
    BY RowsAreNumbered
  <2>2. job' = [job EXCEPT ![r] = new]
    BY <1>4 DEF InsertedRowId
  <2>3. (\A i \in DOMAIN rows : rows'[i] = rows[i]) /\ rows'[n + 1].state = "reserved"
    BY <1>4, ReservedRow
  <2> HIDE DEF n
  <2>4. /\ new \in Jobs /\ new.pc = "admitted" /\ new.reservation = n + 1
        /\ new.sent = job[r].sent /\ new.outcome = "none"
    BY <1>1, <1>2, <2>1 DEF Jobs, InFlight
  <2> HIDE DEF new
  <2>5. new.sent = FALSE /\ job[r].sent = FALSE
    BY <1>1, <1>2, <2>4 DEF Jobs
  <2>6. Promised!Stands(r, "open", "none", FALSE)
    BY <1>1, <1>2, <2>5, PaymentStands, Stages DEF Shown, InFlight
  <2>7. Shown(new, rows') = [stage |-> "open", budget |-> "held", sent |-> FALSE, answer |-> "none"]
    BY <2>1, <2>3, <2>4, <2>5, Stages, Budgets DEF Shown, InFlight
  <2>8. Promised!Becomes(r, "open", "held", FALSE, "none")
    BY <1>1, <2>2, <2>3, <2>4, <2>7, PaymentBecomes
  <2> QED BY <2>6, <2>8 DEF Promised!HoldBudget
<1> QED BY <1>3, <1>4 DEF ReserveBudget

(* Beyond the gate a request holds its budget, and spends it once it reads.*)
LEMMA HolderPays ==
  ASSUME TypeOK, DaemonParts, NEW r \in Requests, NEW new \in Jobs,
         job[r].pc \in {"admitted", "signing", "replaying", "reading"},
         job' = [job EXCEPT ![r] = new], new.reservation = job[r].reservation,
         OwnRowMoves(r), moved' = moved
  PROVE  /\ Promised!Stands(r, "open", IF job[r].pc = "reading" THEN "spent" ELSE "held",
                            job[r].pc \in {"replaying", "reading"})
         /\ Promised!Becomes(r, StageOf(new.pc), BudgetIn(rows'[job[r].reservation].state),
                             new.sent, new.outcome)
<1>1. /\ job[r].reservation # 0
      /\ job[r].sent <=> job[r].pc \in {"replaying", "reading"}
      /\ rows[job[r].reservation].state = IF job[r].pc = "reading" THEN "confirmed" ELSE "reserved"
  BY BeyondTheGate
<1>2. job[r].sent = (job[r].pc \in {"replaying", "reading"})
  BY <1>1 DEF DaemonParts, Jobs
<1>3. job[r].pc \in InFlight
  BY DEF InFlight
<1>4. Promised!Stands(r, "open", IF job[r].pc = "reading" THEN "spent" ELSE "held",
                      job[r].pc \in {"replaying", "reading"})
  <2>1. Shown(job[r], rows).budget = IF job[r].pc = "reading" THEN "spent" ELSE "held"
    BY <1>1, Budgets DEF Shown
  <2>2. Shown(job[r], rows).stage = "open" /\ Shown(job[r], rows).sent = job[r].sent
    BY <1>3, Stages DEF Shown
  <2> QED BY <1>2, <2>1, <2>2, PaymentStands
<1>5. Shown(new, rows') = [stage  |-> StageOf(new.pc),
                           budget |-> BudgetIn(rows'[job[r].reservation].state),
                           sent   |-> new.sent, answer |-> new.outcome]
  BY <1>1 DEF Shown
<1>6. Promised!Becomes(r, StageOf(new.pc), BudgetIn(rows'[job[r].reservation].state),
                       new.sent, new.outcome)
  BY <1>5, PaymentBecomes DEF OwnRowMoves
<1> QED BY <1>4, <1>6

(* An answer beyond the gate ends the payment, with what its row became.   *)
LEMMA HolderIsAnswered ==
  ASSUME TypeOK, DaemonParts, NEW r \in Requests,
         job[r].pc \in {"admitted", "signing", "replaying", "reading"},
         NEW outcome \in {"paid", "refused", "seller_error"}, Answer(r, outcome),
         OwnRowMoves(r), moved' = moved
  PROVE  /\ Promised!Stands(r, "open", IF job[r].pc = "reading" THEN "spent" ELSE "held",
                            job[r].pc \in {"replaying", "reading"})
         /\ Promised!Becomes(r, "ended", BudgetIn(rows'[job[r].reservation].state),
                             job[r].pc \in {"replaying", "reading"}, outcome)
<1>1. PICK new \in Jobs : job' = [job EXCEPT ![r] = new] /\ Answered(new, job[r], outcome)
  BY AnswerShape DEF DaemonParts
<1>2. /\ new.outcome = outcome /\ new.reservation = job[r].reservation
      /\ StageOf(new.pc) = "ended"
  BY <1>1, Stages DEF Answered, Finished
<1>3. new.sent = (job[r].pc \in {"replaying", "reading"})
  BY <1>1, BeyondTheGate DEF Answered, DaemonParts, Jobs
<1> QED BY <1>1, <1>2, <1>3, HolderPays

LEMMA ReleaseAnswers ==
  ASSUME TypeOK, DaemonParts, NEW r \in Requests,
         Release(job[r].reservation, JobCaller(r)), moved' = moved
  PROVE  /\ job[r].pc \in {"admitted", "signing"} /\ Answer(r, "refused")
              => Promised!GiveUp(r)
         /\ job[r].pc = "replaying" /\ Answer(r, "seller_error")
              => Promised!Reject(r)
<1>1. OwnRowMoves(r) /\ BudgetIn(rows'[job[r].reservation].state) = "freed"
  BY OwnTransition, Budgets DEF Release
<1>2. CASE job[r].pc \in {"admitted", "signing"} /\ Answer(r, "refused")
  <2>1. (job[r].pc \in {"replaying", "reading"}) = FALSE /\ job[r].pc # "reading"
    BY <1>2
  <2>2. /\ Promised!Stands(r, "open", "held", FALSE)
        /\ Promised!Becomes(r, "ended", "freed", FALSE, "refused")
    BY <1>1, <1>2, <2>1, HolderIsAnswered
  <2> QED BY <1>2, <2>2 DEF Promised!GiveUp
<1>3. CASE job[r].pc = "replaying" /\ Answer(r, "seller_error")
  <2>1. /\ Promised!Stands(r, "open", "held", TRUE)
        /\ Promised!Becomes(r, "ended", "freed", TRUE, "seller_error")
    BY <1>1, <1>3, HolderIsAnswered
  <2> QED BY <1>3, <2>1 DEF Promised!Reject
<1> QED BY <1>2, <1>3

LEMMA UnrecordedMove ==
  ASSUME TypeOK, DaemonParts, NEW r \in Requests, NEW pc \in InFlight,
         job[r].pc \in InFlight, Goto(r, pc), UNCHANGED <<rows, moved>>
  PROVE  UNCHANGED Promised!paymentVars
<1>1. PICK new \in Jobs : job' = [job EXCEPT ![r] = new] /\ MovedTo(new, job[r], pc, job[r].sent)
  BY GotoShape DEF DaemonParts
<1> QED BY <1>1, StillOpen DEF MovedTo

LEMMA SignedPays ==
  ASSUME TypeOK, DaemonParts, NEW r \in Requests, Signed(r)
  PROVE  Promised!Authorize(r)
<1> DEFINE new == [job[r] EXCEPT !.pc = "replaying", !.sent = TRUE]
<1>1. /\ job[r] \in Jobs /\ job[r].pc = "signing"
      /\ job' = [job EXCEPT ![r] = new] /\ UNCHANGED ledgerVars /\ moved' = moved
  BY DEF DaemonParts, Signed, Runs, pathVars
<1>2. /\ new \in Jobs /\ new.pc = "replaying" /\ new.sent = TRUE
      /\ new.reservation = job[r].reservation /\ new.outcome = job[r].outcome
  BY <1>1 DEF Jobs, InFlight
<1> HIDE DEF new
<1>3. rows[job[r].reservation].state = "reserved" /\ job[r].outcome = "none"
  BY <1>1, BeyondTheGate
<1>4. OwnRowMoves(r) /\ rows' = rows
  BY <1>1, RowsStay
<1>5. StageOf(new.pc) = "open" /\ BudgetIn(rows'[job[r].reservation].state) = "held"
  BY <1>2, <1>3, <1>4, Stages, Budgets DEF InFlight
<1>6. (job[r].pc \in {"replaying", "reading"}) = FALSE /\ job[r].pc # "reading"
  BY <1>1
<1>7. /\ Promised!Stands(r, "open", "held", FALSE)
      /\ Promised!Becomes(r, "open", "held", TRUE, "none")
  BY <1>1, <1>2, <1>3, <1>4, <1>5, <1>6, HolderPays
<1> QED BY <1>7 DEF Promised!Authorize

LEMMA ReplayOkPays ==
  ASSUME TypeOK, DaemonParts, NEW r \in Requests, ReplayOk(r)
  PROVE  Promised!Spend(r)
<1>1. job[r].pc = "replaying" /\ moved' = moved /\ Goto(r, "reading")
  BY DEF ReplayOk, Runs, pathVars
<1>2. PICK ref \in TxRefs : Transition(job[r].reservation, JobCaller(r), "confirmed", ref,
                                       ConfirmableFrom)
  BY DEF ReplayOk, Confirm
<1>3. OwnRowMoves(r) /\ BudgetIn(rows'[job[r].reservation].state) = "spent"
  BY <1>2, OwnTransition, Budgets
<1>4. PICK new \in Jobs :
         job' = [job EXCEPT ![r] = new] /\ MovedTo(new, job[r], "reading", job[r].sent)
  BY <1>1, GotoShape DEF DaemonParts, InFlight
<1>5. /\ StageOf(new.pc) = "open" /\ new.sent = TRUE /\ new.outcome = "none"
      /\ new.reservation = job[r].reservation
  BY <1>1, <1>4, BeyondTheGate, Stages DEF MovedTo, InFlight, Jobs
<1>6. /\ Promised!Stands(r, "open", "held", TRUE)
      /\ Promised!Becomes(r, "open", "spent", TRUE, "none")
  BY <1>1, <1>3, <1>4, <1>5, HolderPays
<1> QED BY <1>6 DEF Promised!Spend

(* An answer that leaves the row: the replay is lost, or the body is read  *)
(* or lost.                                                                *)
LEMMA LastWordPays ==
  ASSUME TypeOK, DaemonParts, NEW r \in Requests, ReplayLost(r) \/ ReadBody(r)
  PROVE  Promised!Deliver(r) \/ Promised!Lose(r)
<1>1. UNCHANGED ledgerVars /\ moved' = moved
  BY DEF ReplayLost, ReadBody, pathVars
<1>2. OwnRowMoves(r) /\ rows' = rows
  BY <1>1, RowsStay
<1>3. CASE job[r].pc = "replaying" /\ Answer(r, "refused")
  <2>1. BudgetIn(rows'[job[r].reservation].state) = "held"
    BY <1>2, <1>3, BeyondTheGate, Budgets
  <2>2. /\ Promised!Stands(r, "open", "held", TRUE)
        /\ Promised!Becomes(r, "ended", "held", TRUE, "refused")
    BY <1>1, <1>2, <1>3, <2>1, HolderIsAnswered
  <2> QED BY <2>2 DEF Promised!Lose
<1>4. ASSUME NEW outcome \in {"paid", "refused"}, job[r].pc = "reading", Answer(r, outcome)
      PROVE  Promised!Deliver(r) \/ Promised!Lose(r)
  <2>1. BudgetIn(rows'[job[r].reservation].state) = "spent"
    BY <1>2, <1>4, BeyondTheGate, Budgets
  <2>2. /\ Promised!Stands(r, "open", "spent", TRUE)
        /\ Promised!Becomes(r, "ended", "spent", TRUE, outcome)
    BY <1>1, <1>2, <1>4, <2>1, HolderIsAnswered
  <2> QED BY <2>2 DEF Promised!Deliver, Promised!Lose
<1> QED BY <1>3, <1>4 DEF ReplayLost, ReadBody, Runs

LEMMA AdvancePays ==
  ASSUME DaemonAssumption, TypeOK, DaemonParts, DaemonParts', NEW r \in Requests, Advance(r)
  PROVE  Promised!PaymentStep(r) \/ UNCHANGED Promised!paymentVars
<1>1. Probe(r) \/ Decide(r) => Promised!Deny(r) \/ UNCHANGED Promised!paymentVars
  BY ProbePays, DecidePays
<1>2. ReserveBudget(r) => Promised!HoldBudget(r) \/ Promised!Deny(r)
  BY ReserveBudgetPays
<1>3. BeginSigning(r) => Promised!GiveUp(r) \/ UNCHANGED Promised!paymentVars
  BY ReleaseAnswers, UnrecordedMove
     DEF BeginSigning, RefusedAfterAdmission, Runs, InFlight, ledgerVars, pathVars
<1>4. Signed(r) => Promised!Authorize(r)
  BY SignedPays
<1>5. SigningFails(r) => Promised!GiveUp(r)
  BY ReleaseAnswers DEF SigningFails, RefusedAfterAdmission, Runs, pathVars
<1>6. SignerGone(r) => UNCHANGED Promised!paymentVars
  BY UnrecordedMove DEF SignerGone, Runs, InFlight, ledgerVars, pathVars
<1>7. ReplayOk(r) => Promised!Spend(r)
  BY ReplayOkPays
<1>8. ReplayRefused(r) => Promised!Reject(r)
  BY ReleaseAnswers DEF ReplayRefused, Runs, pathVars
<1>9. ReplayLost(r) \/ ReadBody(r) => Promised!Deliver(r) \/ Promised!Lose(r)
  BY LastWordPays
<1> QED BY <1>1, <1>2, <1>3, <1>4, <1>5, <1>6, <1>7, <1>8, <1>9 DEF Advance, Promised!PaymentStep

-----------------------------------------------------------------------------
(* The other steps.                                                        *)

LEMMA StopPays ==
  ASSUME TypeOK, DaemonParts, Stop
  PROVE  Promised!Interrupt
<1>1. rows' = rows /\ moved' = moved
  BY DEF Stop, ledgerVars
<1>2. ASSUME NEW r \in Requests
      PROVE  PaymentOf(r)' = IF PaymentOf(r).stage = "open"
                             THEN [PaymentOf(r) EXCEPT !.stage = "ended"]
                             ELSE PaymentOf(r)
  <2>1. job[r] \in Jobs
    BY DEF DaemonParts
  <2>2. CASE job[r].pc \in InFlight
    <3> DEFINE new == [job[r] EXCEPT !.pc = "dropped", !.plan = None]
    <3>1. job'[r] = new
      BY <2>2 DEF Stop
    <3>2. /\ new.pc = "dropped" /\ new.reservation = job[r].reservation
          /\ new.sent = job[r].sent /\ new.outcome = job[r].outcome
      BY <2>1 DEF Jobs
    <3> HIDE DEF new
    <3>3. StageOf(new.pc) = "ended" /\ StageOf(job[r].pc) = "open"
      BY <2>2, <3>2, Stages DEF Finished
    <3>4. Shown(new, rows) = [Shown(job[r], rows) EXCEPT !.stage = "ended"]
          /\ Shown(job[r], rows).stage = "open"
      BY <3>2, <3>3 DEF Shown
    <3> QED BY <1>1, <3>1, <3>4, PaymentsAreShown
  <2>3. CASE job[r].pc \notin InFlight
    <3>1. job'[r] = job[r]
      BY <2>3 DEF Stop
    <3>2. StageOf(job[r].pc) # "open"
      BY <2>1, <2>3, Stages DEF Jobs
    <3>3. Shown(job[r], rows).stage # "open"
      BY <3>2 DEF Shown
    <3> QED BY <1>1, <3>1, <3>3, PaymentsAreShown
  <2> QED BY <2>2, <2>3
<1> QED BY <1>1, <1>2 DEF Promised!Interrupt

(* A step that leaves requests and rows alone leaves payments alone.       *)
LEMMA PaymentsStay ==
  ASSUME UNCHANGED <<rows, job>>
  PROVE  [r \in Requests |-> PaymentOf(r)]' = [r \in Requests |-> PaymentOf(r)]
<1>1. ASSUME NEW r \in Requests
      PROVE  PaymentOf(r)' = PaymentOf(r)
  BY PaymentsAreShown
<1> QED BY <1>1

LEMMA SettlementPays ==
  ASSUME NEW r \in Requests, SellerSettles(r)
  PROVE  Promised!Move(r)
<1>1. UNCHANGED <<rows, job>> /\ job[r].sent /\ moved' = moved \cup {r}
  BY DEF SellerSettles, ledgerVars
<1>2. [q \in Requests |-> PaymentOf(q)][r].sent
  BY <1>1 DEF PaymentOf
<1> QED BY <1>1, <1>2, PaymentsStay DEF Promised!Move

LEMMA StepPays ==
  ASSUME Assumptions, DaemonInv, DaemonInv', [Next]_vars
  PROVE  [Promised!PaymentNext]_(Promised!paymentVars)
<1>1. TypeOK /\ DaemonParts /\ DaemonParts' /\ DaemonAssumption
  BY DEF DaemonInv, Assumptions
<1>2. ASSUME NEW r \in Requests, NEW claim \in Claims, Receive(r, claim)
      PROVE  Promised!PaymentNext
  BY <1>1, <1>2, ReceivePays DEF Promised!PaymentNext, Promised!PaymentStep
<1>3. ASSUME NEW r \in Requests, Advance(r)
      PROVE  [Promised!PaymentNext]_(Promised!paymentVars)
  BY <1>1, <1>3, AdvancePays DEF Promised!PaymentNext
<1>4. Stop => Promised!PaymentNext
  BY <1>1, StopPays DEF Promised!PaymentNext
<1>5. ASSUME NEW r \in Requests, SellerSettles(r)
      PROVE  Promised!PaymentNext
  BY <1>5, SettlementPays DEF Promised!PaymentNext, Promised!PaymentStep
<1>6. ASSUME UNCHANGED <<rows, job, moved>>
      PROVE  UNCHANGED Promised!paymentVars
  BY <1>6, PaymentsStay DEF Promised!paymentVars
<1>7. Shutdown \/ Start \/ SetAllowance \/ TimePasses \/ UNCHANGED vars
        => UNCHANGED <<rows, job, moved>>
  BY DEF Shutdown, Start, SetAllowance, TimePasses, SetClock, vars, ledgerVars, pathVars
<1>8. ASSUME NEW agent \in Agents, Revoke(agent)
      PROVE  UNCHANGED <<rows, job, moved>>
  BY <1>8 DEF Revoke, ledgerVars
<1> QED BY <1>2, <1>3, <1>4, <1>5, <1>6, <1>7, <1>8 DEF Next

LEMMA InitPays ==
  ASSUME Init
  PROVE  Promised!PaymentInit
<1>1. ASSUME NEW r \in Requests
      PROVE  PaymentOf(r) = Promised!NewPayment
  <2>1. /\ job[r].pc = "idle" /\ job[r].reservation = 0
        /\ job[r].sent = FALSE /\ job[r].outcome = "none"
    BY DEF Init, NewJob
  <2> QED BY <2>1, Stages DEF PaymentOf, Admitted, Promised!NewPayment
<1> QED BY <1>1 DEF Promised!PaymentInit, Init

-----------------------------------------------------------------------------
(***************************************************************************)
(* pay.ts, gate.ts, server.ts and ledger.ts together: however requests,    *)
(* commands, sellers, crashes and restarts interleave, each request runs   *)
(* the course of one payment: budget before an authorization, one          *)
(* authorization, budget back only before it or on the seller's refusal,   *)
(* and nothing that touches a payment again once it has ended.             *)
(***************************************************************************)
THEOREM DaemonImplementsPayment == Spec => ImplementsPayment
<1>1. Init => Promised!PaymentInit
  BY InitPays
<1>2. DaemonInv /\ DaemonInv' /\ [Next]_vars => [Promised!PaymentNext]_(Promised!paymentVars)
  BY StepPays, LedgerAssumption, DaemonAssumption DEF Assumptions
<1> QED BY <1>1, <1>2, AlwaysDaemonInv, PTL DEF Spec, ImplementsPayment, Promised!PaymentSpec

=============================================================================
