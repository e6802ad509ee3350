--------------------------- MODULE LibraryProofs ---------------------------
(***************************************************************************)
(* The theorems about a host that links the library, its signer and the    *)
(* operator's commands, for every number of payments, asks, keys, commands *)
(* and rows, any policy, any allowances and any clock.                     *)
(***************************************************************************)
EXTENDS Library, LedgerProofs, SignerProofs

-----------------------------------------------------------------------------
(* The host and the ledger.                                                *)

(* A payment is checked under a request and an allowance that exist.       *)
RequestsKnown ==
    \A p \in Payments :
        /\ call[p].pc \in {"checked", "authorized"} => call[p].request \in PaymentRequests
        /\ call[p].pc = "checked" => call[p].allowance \in Allowances

RowsHaveCallers ==
    \A i \in DOMAIN rows :
        [agent |-> rows[i].agent, principal |-> rows[i].principal] \in Callers

(* LedgerTellsTheTruth with what is known of a row that was released: a    *)
(* payment that was never sent was reported, so that it is not sent later. *)
RowTellsTheTruth(p, row, fate, report) ==
    /\ row.state = "confirmed" => fate = "moved"
    /\ row.state = "in_doubt" => row.ref = p /\ fate # "none"
    /\ row.state = "released" =>
          \/ report = "untraced"
          \/ fate = "void"
          \/ fate = "none" /\ report # "none"

RowsTellTheTruth ==
    \A p \in Payments : call[p].reservation # 0 =>
        RowTellsTheTruth(p, rows[call[p].reservation], onChain[p], call[p].report)

Assumptions == LedgerAssumption /\ EnforcementAssumption

(* The steps of the host, as the enforcement API and the ledger see them.  *)
HostMoves(p) ==
    \/ \E request \in PaymentRequests : Check(p, request)
    \/ ReservePool(p)
    \/ Report(p)
    \/ Reconcile(p)
    \/ Mine(p)
    \/ Send(p)

(* What the commands of the operator do to what payments read.             *)
OperatorMoves ==
    /\ allowance' \in [Principals -> Allowances \cup {None}]
    /\ account' \in [Agents -> Principals \cup {None}]
    /\ revoked' \subseteq Agents
    /\ UNCHANGED <<ledgerVars, call, onChain>>

LEMMA CommandsMove ==
  ASSUME EnforcementTypeOK, NEW p \in Procs, CommandStep(p)
  PROVE  OperatorMoves
<1>1. CASE FindsNothing(p) \/ InsertPrincipal(p) \/ FindsPrincipal(p) \/ CommandEnds(p)
  BY <1>1 DEF FindsNothing, InsertPrincipal, FindsPrincipal, CommandEnds, enforcementVars,
              OperatorMoves, EnforcementTypeOK, ledgerVars
<1>2. ASSUME NEW principal \in Principals, NEW limit \in Allowances, RunInit(p, principal, limit)
      PROVE  OperatorMoves
  BY <1>2 DEF RunInit, OperatorMoves, EnforcementTypeOK
<1>3. ASSUME NEW principal \in Principals, NEW agent \in Agents, RunAgentAdd(p, principal, agent)
      PROVE  OperatorMoves
  BY <1>3 DEF RunAgentAdd, OperatorMoves, EnforcementTypeOK
<1>4. ASSUME NEW principal \in Principals, NEW agent \in Agents, RunAgentRevoke(p, principal, agent)
      PROVE  OperatorMoves
  BY <1>4 DEF RunAgentRevoke, OperatorMoves, EnforcementTypeOK
<1> QED BY <1>1, <1>2, <1>3, <1>4 DEF CommandStep

(* Every step of the whole is one of these.                                *)
LEMMA LibraryStepShapes ==
  ASSUME EnforcementTypeOK, [Next]_vars
  PROVE  \/ \E p \in Payments : HostMoves(p)
         \/ HostEnds
         \/ TimePasses
         \/ OperatorMoves
<1>1. ASSUME NEW p \in Payments, Account(p) \/ AskSignature(p) \/ SendSigned(p)
      PROVE  HostMoves(p) \/ UNCHANGED enforcementVars
  BY <1>1 DEF Account, AskSignature, SendSigned, HostMoves
<1>2. CASE HostProcessEnds
  BY <1>2 DEF HostProcessEnds
<1>3. CASE Operate
  BY <1>3, CommandsMove DEF Operate
<1>4. UNCHANGED enforcementVars => OperatorMoves
  BY DEF enforcementVars, OperatorMoves, EnforcementTypeOK, ledgerVars
<1>5. UNCHANGED vars => UNCHANGED enforcementVars
  BY DEF vars
<1>6. Sign => UNCHANGED enforcementVars
  BY DEF Sign
<1> QED BY <1>1, <1>2, <1>3, <1>4, <1>5, <1>6 DEF Next

-----------------------------------------------------------------------------
(* What a step of the host does to the ledger is a step of the ledger.     *)
LEMMA HostStepsTheLedger ==
  ASSUME Assumptions, EnforcementTypeOK, RequestsKnown, RowsHaveCallers,
         NEW p \in Payments, HostMoves(p)
  PROVE  [LedgerNext]_ledgerVars
<1>1. p \in TxRefs
  BY DEF Assumptions, EnforcementAssumption
<1>2. ASSUME NEW request \in PaymentRequests, Check(p, request)
      PROVE  UNCHANGED ledgerVars
  BY <1>2 DEF Check
<1>3. CASE ReservePool(p)
  <2>1. call[p].request \in PaymentRequests /\ call[p].allowance \in Allowances
    BY <1>3 DEF ReservePool, RequestsKnown
  <2>2. /\ CallerOf(call[p].request) \in Callers
        /\ call[p].request.price \in Amounts
        /\ call[p].request.currency \in Currencies
        /\ None \in Intents /\ 1 \in Attempts
    BY <2>1 DEF Assumptions, EnforcementAssumption, CallerOf
  <2>3. \/ Reserve(CallerOf(call[p].request), call[p].request.price,
                   call[p].request.currency, call[p].allowance, None, 1)
        \/ UNCHANGED ledgerVars
    BY <1>3 DEF ReservePool
  <2> QED BY <2>1, <2>2, <2>3 DEF LedgerNext, SomeReserve
<1>4. CASE Report(p)
  <2>1. call[p].request \in PaymentRequests
    BY <1>4 DEF Report, Held, RequestsKnown
  <2>2. CallerOf(call[p].request) \in Callers
    BY <2>1 DEF Assumptions, EnforcementAssumption, CallerOf
  <2>3. PICK report \in {"settled", "failed", "unknown", "untraced"} :
            SettlePayment(call[p].reservation, CallerOf(call[p].request), p, report)
    BY <1>4 DEF Report
  <2> DEFINE id == call[p].reservation
             c == CallerOf(call[p].request)
  <2> HIDE DEF id, c
  <2>4. \/ Confirm(id, c, p) \/ Release(id, c) \/ MarkInDoubt(id, c, p)
    BY <2>3 DEF SettlePayment, id, c
  <2>5. id \in DOMAIN rows
    BY <2>4 DEF Confirm, Release, MarkInDoubt, Transition
  <2>6. c \in Callers
    BY <2>2 DEF c
  <2> QED BY <1>1, <2>4, <2>5, <2>6 DEF LedgerNext, SomeConfirm, SomeRelease, SomeMarkInDoubt
<1>5. CASE Reconcile(p)
  <2>1. Evidence(p) \in Statuses
    BY DEF Evidence, Statuses
  <2> QED BY <1>1, <1>5, <2>1 DEF Reconcile, RowsHaveCallers, LedgerNext, SomeReconcile
<1>6. CASE Mine(p) \/ Send(p)
  BY <1>6 DEF Mine, Send
<1> QED BY <1>2, <1>3, <1>4, <1>5, <1>6 DEF HostMoves

LEMMA LibraryStepsTheLedger ==
  ASSUME Assumptions, EnforcementTypeOK, RequestsKnown, RowsHaveCallers, [Next]_vars
  PROVE  [LedgerNext]_ledgerVars
<1>1. HostEnds => UNCHANGED ledgerVars
  BY DEF HostEnds
<1>2. TimePasses => LedgerNext
  BY DEF TimePasses, LedgerNext
<1>3. OperatorMoves => UNCHANGED ledgerVars
  BY DEF OperatorMoves
<1> QED BY <1>1, <1>2, <1>3, LibraryStepShapes, HostStepsTheLedger

-----------------------------------------------------------------------------
(* The invariant of the host is kept.                                      *)

Calls == [pc: {"new", "checked", "authorized", "refused", "lost"},
          request: PaymentRequests \cup {None},
          allowance: Allowances \cup {None},
          reservation: Nat,
          report: {"none", "made", "untraced"}]

(* EnforcementTypeOK, with what changes together kept together.            *)
CallsOK(last) ==
    /\ call \in [Payments -> Calls]
    /\ \A p \in Payments :
          /\ call[p].reservation <= last
          /\ call[p].pc = "authorized" => call[p].reservation # 0
    /\ \A p, q \in Payments :
          call[p].reservation = call[q].reservation => p = q \/ call[p].reservation = 0

AccountOK ==
    /\ allowance \in [Principals -> Allowances \cup {None}]
    /\ account \in [Agents -> Principals \cup {None}]
    /\ revoked \subseteq Agents
    /\ onChain \in [Payments -> {"none", "sent", "moved", "void"}]

LEMMA EnforcementTypeInParts ==
  ASSUME rows \in Seq(Row)
  PROVE  EnforcementTypeOK <=> TypeOK /\ CallsOK(Len(rows)) /\ AccountOK
<1>1. Len(rows) \in Nat
  BY LenProperties
<1> DEFINE bounded == [pc: {"new", "checked", "authorized", "refused", "lost"},
                       request: PaymentRequests \cup {None},
                       allowance: Allowances \cup {None},
                       reservation: 0..Len(rows),
                       report: {"none", "made", "untraced"}]
<1>2. call \in [Payments -> bounded] <=>
        call \in [Payments -> Calls] /\ \A p \in Payments : call[p].reservation <= Len(rows)
  BY <1>1 DEF Calls
<1>3. EnforcementTypeOK <=>
        /\ TypeOK
        /\ call \in [Payments -> bounded]
        /\ AccountOK
        /\ \A p \in Payments : call[p].pc = "authorized" => call[p].reservation # 0
        /\ \A p, q \in Payments :
              call[p].reservation = call[q].reservation => p = q \/ call[p].reservation = 0
  BY DEF EnforcementTypeOK, AccountOK
<1> HIDE DEF bounded
<1> QED BY <1>2, <1>3 DEF CallsOK

(* The invariant but for the types of the ledger, in the parts a step may  *)
(* disturb.                                                                *)
HostParts ==
    /\ CallsOK(Len(rows))
    /\ AccountOK
    /\ RequestsKnown
    /\ RowsHaveCallers
    /\ RowsTellTheTruth

HostInv == TypeOK /\ HostParts

LEMMA HostInvTypes ==
  ASSUME HostInv
  PROVE  EnforcementTypeOK
  BY EnforcementTypeInParts DEF HostInv, HostParts, TypeOK

LEMMA CheckKeepsParts ==
  ASSUME TypeOK, HostParts, NEW p \in Payments, NEW request \in PaymentRequests,
         Assumptions, Check(p, request)
  PROVE  HostParts'
<1> DEFINE admitted == Permitted(request) /\ allowance[request.principal] # None
<1>1. /\ UNCHANGED <<rows, terms, clock, allowance, account, revoked, onChain>>
      /\ call[p].pc = "new"
      /\ call' = [call EXCEPT ![p].request = request,
                              ![p].allowance = allowance[request.principal],
                              ![p].pc = IF admitted THEN "checked" ELSE "refused"]
  BY DEF Check, ledgerVars, accountVars
<1>2. allowance[request.principal] \in Allowances \cup {None}
      /\ (admitted => allowance[request.principal] \in Allowances)
  <2>1. request.principal \in Principals
    BY DEF Assumptions, EnforcementAssumption, LedgerAssumption
  <2> QED BY <2>1 DEF HostParts, AccountOK
<1> HIDE DEF admitted
<1> DEFINE new == [call[p] EXCEPT !.request = request,
                                  !.allowance = allowance[request.principal],
                                  !.pc = IF admitted THEN "checked" ELSE "refused"]
<1>3. call \in [Payments -> Calls] /\ call[p] \in Calls
  BY DEF HostParts, CallsOK
<1>4. /\ new \in Calls
      /\ new.pc \in {"checked", "refused"}
      /\ new.request \in PaymentRequests
      /\ new.pc = "checked" => new.allowance \in Allowances
      /\ new.reservation = call[p].reservation
      /\ new.report = call[p].report
  BY <1>2, <1>3 DEF Calls
<1>5. call' = [call EXCEPT ![p] = new]
  BY <1>1, <1>3 DEF Calls
<1> HIDE DEF new
<1>6. /\ call' \in [Payments -> Calls]
      /\ \A q \in Payments : q # p => call'[q] = call[q]
      /\ call'[p] = new
  BY <1>3, <1>4, <1>5
<1>7. \A q \in Payments : call'[q].reservation = call[q].reservation
                          /\ call'[q].report = call[q].report
  BY <1>4, <1>6
<1>8. CallsOK(Len(rows))'
  BY <1>1, <1>4, <1>6, <1>7 DEF HostParts, CallsOK
<1>9. AccountOK' /\ RowsHaveCallers'
  BY <1>1 DEF HostParts, AccountOK, RowsHaveCallers
<1>10. RequestsKnown'
  BY <1>4, <1>6 DEF HostParts, RequestsKnown
<1>11. RowsTellTheTruth'
  BY <1>1, <1>7 DEF HostParts, RowsTellTheTruth
<1> QED BY <1>8, <1>9, <1>10, <1>11 DEF HostParts

LEMMA ReservePoolKeepsParts ==
  ASSUME TypeOK, HostParts, NEW p \in Payments, Assumptions, ReservePool(p)
  PROVE  HostParts'
<1> DEFINE c == CallerOf(call[p].request)
<1>1. /\ UNCHANGED <<allowance, account, revoked, onChain>>
      /\ call[p].pc = "checked"
  BY DEF ReservePool, accountVars
<1>2. call \in [Payments -> Calls] /\ call[p] \in Calls
  BY DEF HostParts, CallsOK
<1>3. call[p].request \in PaymentRequests /\ c \in Callers
  BY <1>1 DEF HostParts, RequestsKnown, Assumptions, EnforcementAssumption, CallerOf
<1>4. AccountOK'
  BY <1>1 DEF HostParts, AccountOK
<1>5. rows \in Seq(Row) /\ Len(rows) \in Nat /\ DOMAIN rows = 1..Len(rows)
  BY LenProperties DEF TypeOK
<1>6. CASE /\ Reserve(c, call[p].request.price, call[p].request.currency,
                      call[p].allowance, None, 1)
           /\ call' = [call EXCEPT ![p].pc = "authorized", ![p].reservation = ReservedRow]
  <2> DEFINE new == [call[p] EXCEPT !.pc = "authorized", !.reservation = Len(rows) + 1]
  <2>10. Len(rows) + 1 \in Nat
    BY <1>5
  <2>1. /\ new \in Calls
        /\ new.pc = "authorized"
        /\ new.request = call[p].request
        /\ new.reservation = Len(rows) + 1
    BY <1>2, <2>10 DEF Calls
  <2>2. call' = [call EXCEPT ![p] = new]
    BY <1>2, <1>6 DEF ReservedRow, Calls
  <2> HIDE DEF new, c
  <2>3. /\ call' \in [Payments -> Calls]
        /\ \A q \in Payments : q # p => call'[q] = call[q]
        /\ call'[p] = new
    BY <1>2, <2>1, <2>2
  <2>4. /\ DOMAIN rows' = DOMAIN rows \cup {Len(rows) + 1} /\ Len(rows') = Len(rows) + 1
        /\ \A i \in DOMAIN rows : rows'[i] = rows[i]
        /\ rows'[Len(rows) + 1].state = "reserved"
        /\ rows'[Len(rows) + 1].agent = c.agent
        /\ rows'[Len(rows) + 1].principal = c.principal
    BY <1>6, ReserveAppends DEF ReservedFor
  <2>5. \A q \in Payments : call[q].reservation \in Nat /\ call[q].reservation <= Len(rows)
    BY DEF HostParts, CallsOK, Calls
  <2>6. CallsOK(Len(rows))'
    <3>1. \A q \in Payments : /\ call'[q].reservation <= Len(rows')
                              /\ call'[q].pc = "authorized" => call'[q].reservation # 0
      BY <1>5, <2>1, <2>3, <2>4, <2>5 DEF HostParts, CallsOK
    <3>2. ASSUME NEW q \in Payments, NEW r \in Payments,
                 call'[q].reservation = call'[r].reservation
          PROVE  q = r \/ call'[q].reservation = 0
      BY <1>5, <2>1, <2>3, <2>5, <3>2 DEF HostParts, CallsOK
    <3> QED BY <2>3, <3>1, <3>2 DEF CallsOK
  <2>7. RequestsKnown'
    BY <1>3, <2>1, <2>3 DEF HostParts, RequestsKnown
  <2>8. RowsHaveCallers'
    <3>1. c = [agent |-> c.agent, principal |-> c.principal]
      BY DEF c, CallerOf
    <3> QED BY <1>3, <1>5, <2>4, <3>1 DEF HostParts, RowsHaveCallers
  <2>9. RowsTellTheTruth'
    <3>1. ASSUME NEW q \in Payments, call'[q].reservation # 0, q # p
          PROVE  call'[q] = call[q] /\ rows'[call[q].reservation] = rows[call[q].reservation]
      BY <1>5, <2>3, <2>4, <2>5, <3>1
    <3>2. rows'[call'[p].reservation].state = "reserved"
      BY <2>1, <2>3, <2>4
    <3> QED BY <1>1, <3>1, <3>2 DEF HostParts, RowsTellTheTruth, RowTellsTheTruth
  <2> QED BY <1>4, <2>6, <2>7, <2>8, <2>9 DEF HostParts
<1>7. CASE /\ call' = [call EXCEPT ![p].pc = "refused"]
           /\ UNCHANGED ledgerVars
  <2> DEFINE new == [call[p] EXCEPT !.pc = "refused"]
  <2>1. /\ new \in Calls
        /\ new.pc = "refused"
        /\ new.reservation = call[p].reservation
        /\ new.report = call[p].report
    BY <1>2 DEF Calls
  <2>2. call' = [call EXCEPT ![p] = new]
    BY <1>7
  <2> HIDE DEF new
  <2>3. /\ call' \in [Payments -> Calls]
        /\ \A q \in Payments : q # p => call'[q] = call[q]
        /\ call'[p] = new
    BY <1>2, <2>1, <2>2
  <2>4. rows' = rows
    BY <1>7 DEF ledgerVars
  <2>5. CallsOK(Len(rows))'
    BY <2>1, <2>3, <2>4 DEF HostParts, CallsOK
  <2>6. RequestsKnown' /\ RowsHaveCallers'
    BY <2>1, <2>3, <2>4 DEF HostParts, RequestsKnown, RowsHaveCallers
  <2>7. RowsTellTheTruth'
    BY <1>1, <2>1, <2>3, <2>4 DEF HostParts, RowsTellTheTruth
  <2> QED BY <1>4, <2>5, <2>6, <2>7 DEF HostParts
<1> QED BY <1>6, <1>7 DEF ReservePool

(* A payment has its reservation for itself.                               *)
LEMMA OwnReservation ==
  ASSUME HostParts, NEW p \in Payments, NEW q \in Payments, p # q,
         call[q].reservation # 0
  PROVE  call[p].reservation # call[q].reservation
  BY DEF HostParts, CallsOK

LEMMA ReportKeepsParts ==
  ASSUME TypeOK, HostParts, NEW p \in Payments, Assumptions, Report(p)
  PROVE  HostParts'
<1> DEFINE id == call[p].reservation
           c == CallerOf(call[p].request)
<1>1. PICK report \in {"settled", "failed", "unknown", "untraced"} :
          /\ Held(p)
          /\ Truthful(p, report)
          /\ SettlePayment(id, c, p, report)
          /\ call' = [call EXCEPT ![p].report = IF report = "untraced" THEN report ELSE "made"]
          /\ UNCHANGED <<allowance, account, revoked, onChain>>
  BY DEF Report, accountVars
<1> DEFINE told == IF report = "untraced" THEN report ELSE "made"
           new == [call[p] EXCEPT !.report = told]
<1>2. call \in [Payments -> Calls] /\ call[p] \in Calls
  BY DEF HostParts, CallsOK
<1>3. /\ new \in Calls
      /\ new.pc = call[p].pc /\ new.request = call[p].request
      /\ new.allowance = call[p].allowance
      /\ new.reservation = call[p].reservation
      /\ new.report = told
  <2>1. told \in {"untraced", "made"}
    OBVIOUS
  <2> HIDE DEF told
  <2> QED BY <1>2, <2>1 DEF Calls
<1>4. call' = [call EXCEPT ![p] = new]
  BY <1>1
<1> HIDE DEF new
<1>5. /\ call' \in [Payments -> Calls]
      /\ \A q \in Payments : q # p => call'[q] = call[q]
      /\ call'[p] = new
  BY <1>2, <1>3, <1>4
<1> HIDE DEF c
<1>6. PICK next \in {"confirmed", "released", "in_doubt"},
           ref \in {p, NoRef}, from \in {{"reserved"}, {"reserved", "in_doubt"}} :
          /\ Transition(id, c, next, ref, from)
          /\ next = "confirmed" => report = "settled"
          /\ next = "in_doubt" => report = "unknown" /\ ref = p
          /\ next = "released" => report \in {"failed", "untraced"} /\ from = {"reserved"}
  BY <1>1 DEF SettlePayment, Confirm, Release, MarkInDoubt, ConfirmableFrom, ReleasableFrom
<1>7. /\ DOMAIN rows' = DOMAIN rows /\ Len(rows') = Len(rows) /\ id \in DOMAIN rows
      /\ rows'[id].state = next
      /\ rows'[id].ref = IF ref = NoRef THEN rows[id].ref ELSE ref
      /\ \A i \in DOMAIN rows :
            /\ i # id => rows'[i] = rows[i]
            /\ rows'[i].agent = rows[i].agent /\ rows'[i].principal = rows[i].principal
  BY <1>6, TransitionMovesOneRow DEF SameReservation
<1>8. CallsOK(Len(rows))'
  BY <1>3, <1>5, <1>7 DEF HostParts, CallsOK
<1>9. AccountOK' /\ RowsHaveCallers'
  BY <1>1, <1>7 DEF HostParts, AccountOK, RowsHaveCallers
<1>10. RequestsKnown'
  BY <1>3, <1>5 DEF HostParts, RequestsKnown
<1>11. RowsTellTheTruth'
  <2>1. ASSUME NEW q \in Payments, q # p, call'[q].reservation # 0
        PROVE  RowTellsTheTruth(q, rows'[call'[q].reservation], onChain'[q], call'[q].report)
    <3>1. call'[q] = call[q] /\ call[q].reservation # id
      BY <1>5, <2>1, OwnReservation
    <3>2. call[q].reservation \in DOMAIN rows
      <4>1. call[q].reservation \in Nat /\ call[q].reservation <= Len(rows)
        BY DEF HostParts, CallsOK, Calls
      <4>2. DOMAIN rows = 1..Len(rows) /\ Len(rows) \in Nat
        BY LenProperties DEF TypeOK
      <4> QED BY <2>1, <3>1, <4>1, <4>2
    <3>3. rows'[call[q].reservation] = rows[call[q].reservation]
      BY <1>7, <3>1, <3>2
    <3> QED BY <1>1, <2>1, <3>1, <3>3 DEF HostParts, RowsTellTheTruth
  <2>2. RowTellsTheTruth(p, rows'[id], onChain[p], told)
    <3>1. p # NoRef
      BY DEF Assumptions, LedgerAssumption, EnforcementAssumption
    <3>2. onChain[p] \in {"none", "sent", "moved", "void"}
      BY DEF HostParts, AccountOK
    <3> QED BY <1>1, <1>6, <1>7, <3>1, <3>2 DEF RowTellsTheTruth, Truthful
  <2>3. call'[p].reservation = id /\ call'[p].report = told /\ onChain' = onChain
    BY <1>1, <1>3, <1>5
  <2> QED BY <2>1, <2>2, <2>3 DEF RowsTellTheTruth
<1> QED BY <1>8, <1>9, <1>10, <1>11 DEF HostParts

LEMMA ReconcileKeepsParts ==
  ASSUME TypeOK, HostParts, NEW p \in Payments, Assumptions, Reconcile(p)
  PROVE  HostParts'
<1>1. UNCHANGED <<call, allowance, account, revoked, onChain>>
  BY DEF Reconcile, accountVars
<1>2. PICK id \in DOMAIN rows :
          ReconcileInDoubt(id, [agent |-> rows[id].agent, principal |-> rows[id].principal],
                           p, Evidence(p))
  BY DEF Reconcile
<1> DEFINE c == [agent |-> rows[id].agent, principal |-> rows[id].principal]
<1>3. rows[id].ref = p
  BY <1>2 DEF ReconcileInDoubt
<1>4. AccountOK'
  BY <1>1 DEF HostParts, AccountOK
<1>5. CASE UNCHANGED ledgerVars
  <2>1. rows' = rows
    BY <1>5 DEF ledgerVars
  <2> QED BY <1>1, <1>4, <2>1 DEF HostParts, CallsOK, RequestsKnown, RowsHaveCallers,
                                  RowsTellTheTruth
<1>6. ASSUME NEW next \in {"confirmed", "released"},
             Transition(id, c, next, p, {"in_doubt"}),
             next = "confirmed" => onChain[p] = "moved",
             next = "released" => onChain[p] = "void"
      PROVE  HostParts'
  <2> HIDE DEF c
  <2>1. /\ DOMAIN rows' = DOMAIN rows /\ Len(rows') = Len(rows)
        /\ rows[id].state = "in_doubt"
        /\ rows'[id].state = next
        /\ \A i \in DOMAIN rows :
              /\ i # id => rows'[i] = rows[i]
              /\ rows'[i].agent = rows[i].agent /\ rows'[i].principal = rows[i].principal
    BY <1>6, TransitionMovesOneRow DEF SameReservation
  <2>2. CallsOK(Len(rows))' /\ RequestsKnown' /\ RowsHaveCallers'
    BY <1>1, <2>1 DEF HostParts, CallsOK, RequestsKnown, RowsHaveCallers
  <2>3. ASSUME NEW q \in Payments, call[q].reservation # 0
        PROVE  RowTellsTheTruth(q, rows'[call[q].reservation], onChain[q], call[q].report)
    <3>1. RowTellsTheTruth(q, rows[call[q].reservation], onChain[q], call[q].report)
      BY <2>3 DEF HostParts, RowsTellTheTruth
    <3>2. call[q].reservation \in DOMAIN rows
      <4>1. call[q].reservation \in Nat /\ call[q].reservation <= Len(rows)
        BY DEF HostParts, CallsOK, Calls
      <4>2. DOMAIN rows = 1..Len(rows) /\ Len(rows) \in Nat
        BY LenProperties DEF TypeOK
      <4> QED BY <2>3, <4>1, <4>2
    <3>3. CASE call[q].reservation # id
      BY <2>1, <3>1, <3>2, <3>3
    <3>4. CASE call[q].reservation = id
      <4>1. q = p
        BY <1>3, <2>1, <3>1, <3>4 DEF RowTellsTheTruth
      <4> QED BY <1>6, <2>1, <3>4, <4>1 DEF RowTellsTheTruth
    <3> QED BY <3>3, <3>4
  <2>4. RowsTellTheTruth'
    BY <1>1, <2>3 DEF RowsTellTheTruth
  <2> QED BY <1>4, <2>2, <2>4 DEF HostParts
<1>7. \/ UNCHANGED ledgerVars
      \/ Transition(id, c, "confirmed", p, {"in_doubt"}) /\ onChain[p] = "moved"
      \/ Transition(id, c, "released", p, {"in_doubt"}) /\ onChain[p] = "void"
  <2>1. CASE onChain[p] = "moved"
    BY <1>2, <2>1 DEF ReconcileInDoubt, Evidence
  <2>2. CASE onChain[p] = "void"
    BY <1>2, <2>2 DEF ReconcileInDoubt, Evidence
  <2>3. CASE onChain[p] \notin {"moved", "void"}
    BY <1>2, <2>3 DEF ReconcileInDoubt, Evidence
  <2> QED BY <2>1, <2>2, <2>3
<1> QED BY <1>5, <1>6, <1>7

(* The transaction of a payment is sent once and then has one fate.        *)
LEMMA ChainKeepsParts ==
  ASSUME TypeOK, HostParts, NEW p \in Payments, Mine(p) \/ Send(p)
  PROVE  HostParts'
<1>1. /\ UNCHANGED <<rows, call, allowance, account, revoked>>
      /\ \E fate \in {"sent", "moved", "void"} :
            /\ onChain' = [onChain EXCEPT ![p] = fate]
            /\ fate = "sent" => onChain[p] = "none" /\ call[p].report = "none"
            /\ fate # "sent" => onChain[p] = "sent"
  BY DEF Mine, Send, ledgerVars, accountVars
<1>2. AccountOK'
  BY <1>1 DEF HostParts, AccountOK
<1>3. RowsTellTheTruth'
  <2>1. ASSUME NEW q \in Payments, call[q].reservation # 0
        PROVE  RowTellsTheTruth(q, rows[call[q].reservation], onChain'[q], call[q].report)
    <3>1. RowTellsTheTruth(q, rows[call[q].reservation], onChain[q], call[q].report)
      BY <2>1 DEF HostParts, RowsTellTheTruth
    <3>2. CASE q # p
      BY <1>1, <3>1, <3>2 DEF HostParts, AccountOK
    <3>3. CASE q = p
      BY <1>1, <3>1, <3>3 DEF HostParts, AccountOK, RowTellsTheTruth
    <3> QED BY <3>2, <3>3
  <2> QED BY <1>1, <2>1 DEF RowsTellTheTruth
<1> QED BY <1>1, <1>2, <1>3 DEF HostParts, CallsOK, RequestsKnown, RowsHaveCallers

LEMMA HostEndsKeepsParts ==
  ASSUME TypeOK, HostParts, HostEnds
  PROVE  HostParts'
<1>1. UNCHANGED <<rows, allowance, account, revoked, onChain>>
  BY DEF HostEnds, ledgerVars, accountVars
<1>2. call \in [Payments -> Calls]
  BY DEF HostParts, CallsOK
<1>3. ASSUME NEW p \in Payments
      PROVE  /\ call'[p] \in Calls
             /\ call'[p].pc \notin {"checked", "authorized"}
             /\ call'[p].reservation = call[p].reservation
             /\ call'[p].report = call[p].report
  <2>1. call[p] \in Calls
    BY <1>2
  <2>2. CASE call[p].pc \in {"checked", "authorized"}
    <3>1. call'[p] = [call[p] EXCEPT !.pc = "lost"]
      BY <2>2 DEF HostEnds
    <3> QED BY <2>1, <3>1 DEF Calls
  <2>3. CASE call[p].pc \notin {"checked", "authorized"}
    <3>1. call'[p] = call[p]
      BY <2>3 DEF HostEnds
    <3> QED BY <2>1, <2>3, <3>1
  <2> QED BY <2>2, <2>3
<1>4. call' \in [Payments -> Calls]
  <2>1. call' = [p \in Payments |-> call'[p]]
    BY DEF HostEnds
  <2> QED BY <1>3, <2>1
<1>5. CallsOK(Len(rows))'
  BY <1>1, <1>3, <1>4 DEF HostParts, CallsOK
<1>6. AccountOK' /\ RowsHaveCallers'
  BY <1>1 DEF HostParts, AccountOK, RowsHaveCallers
<1>7. RequestsKnown'
  BY <1>3 DEF RequestsKnown
<1>8. RowsTellTheTruth'
  BY <1>1, <1>3 DEF HostParts, RowsTellTheTruth
<1> QED BY <1>5, <1>6, <1>7, <1>8 DEF HostParts

LEMMA StepHostInv ==
  ASSUME Assumptions, HostInv, [Next]_vars
  PROVE  HostInv' /\ [LedgerNext]_ledgerVars
<1>1. EnforcementTypeOK /\ TypeOK /\ HostParts
  BY HostInvTypes DEF HostInv
<1>2. [LedgerNext]_ledgerVars
  BY <1>1, LibraryStepsTheLedger DEF HostParts
<1>3. TypeOK'
  BY <1>1, <1>2, StepTypeOK DEF Assumptions
<1>4. ASSUME NEW p \in Payments, HostMoves(p)
      PROVE  HostParts'
  BY <1>1, <1>4, CheckKeepsParts, ReservePoolKeepsParts, ReportKeepsParts,
     ReconcileKeepsParts, ChainKeepsParts DEF HostMoves
<1>5. HostEnds => HostParts'
  BY <1>1, HostEndsKeepsParts
<1>6. TimePasses => HostParts'
  BY <1>1 DEF TimePasses, SetClock, accountVars, HostParts, CallsOK, AccountOK, RequestsKnown,
              RowsHaveCallers, RowsTellTheTruth
<1>7. OperatorMoves => HostParts'
  BY <1>1 DEF OperatorMoves, ledgerVars, HostParts, CallsOK, AccountOK, RequestsKnown,
              RowsHaveCallers, RowsTellTheTruth
<1>8. HostParts'
  BY <1>1, <1>4, <1>5, <1>6, <1>7, LibraryStepShapes
<1> QED BY <1>2, <1>3, <1>8 DEF HostInv

LEMMA InitHostInv ==
  ASSUME Assumptions, EnforcementInit
  PROVE  HostInv
<1>1. TypeOK
  BY InitTypeOK DEF Assumptions, EnforcementInit
<1>2. rows = <<>> /\ Len(rows) = 0 /\ DOMAIN rows = {}
  BY DEF EnforcementInit, LedgerInit
<1>3. CallsOK(Len(rows)) /\ AccountOK
  BY <1>2 DEF EnforcementInit, CallsOK, AccountOK, Calls, NoCall
<1>4. RequestsKnown /\ RowsHaveCallers /\ RowsTellTheTruth
  BY <1>2 DEF EnforcementInit, NoCall, RequestsKnown, RowsHaveCallers, RowsTellTheTruth
<1> QED BY <1>1, <1>3, <1>4 DEF HostInv, HostParts

-----------------------------------------------------------------------------
(* The signer and the commands in the whole.                               *)

LEMMA StepsOfSigner ==
  ASSUME [Next]_vars
  PROVE  SignerMoves(clock) \/ UNCHANGED signerVars
<1>1. ASSUME NEW p \in Payments, Account(p) \/ AskSignature(p) \/ SendSigned(p)
      PROVE  SignerMoves(clock) \/ UNCHANGED signerVars
  BY <1>1 DEF Account, AskSignature, SendSigned, SignerMoves
<1>2. HostProcessEnds => SignerMoves(clock)
  BY DEF HostProcessEnds, SignerMoves
<1>3. Sign => SignerMoves(clock)
  BY DEF Sign, SignerMoves
<1>4. Operate \/ (TimePasses /\ UNCHANGED <<commandVars, signerVars>>) => UNCHANGED signerVars
  BY DEF Operate
<1>5. UNCHANGED vars => UNCHANGED signerVars
  BY DEF vars
<1> QED BY <1>1, <1>2, <1>3, <1>4, <1>5 DEF Next

(* The least id of a table that has rows is 1, however many there are.      *)
LEMMA FirstRowIsOne ==
  ASSUME principals \in Nat, principals > 0
  PROVE  FirstRow = 1 /\ 1 \in PrincipalIds
<1>1. /\ 1 \in PrincipalIds
      /\ \A other \in PrincipalIds : 1 <= other
  BY DEF PrincipalIds
<1>2. /\ FirstRow \in PrincipalIds
      /\ \A other \in PrincipalIds : FirstRow <= other
  BY <1>1 DEF FirstRow
<1> QED BY <1>1, <1>2 DEF PrincipalIds

(* A command that serves has found the principal of the gate: the part that *)
(* carries what a process read of the table to the statements it runs with *)
(* it, past all that others inserted meanwhile.                            *)
ServesThePrincipal ==
    \A p \in Procs : At(p, "serving") => command[p].principal = ThePrincipal

AccountInv == CommandsTypeOK /\ ServesThePrincipal /\ OneAccount

(* A process takes a step of its own, to a place that is in order.         *)
LEMMA ProceedsInOrder ==
  ASSUME AccountInv, NEW p \in Procs,
         NEW pc \in {"idle", "inserting", "inserted", "serving"},
         NEW principal \in Nat \cup {None}, Proceeds(p, pc, principal),
         principals' \in Nat, principals' >= principals,
         pc = "serving" => principal = ThePrincipal /\ principal \in 1..principals'
  PROVE  CommandsTypeOK' /\ ServesThePrincipal'
<1>1. command' \in [Procs -> [pc: {"idle", "inserting", "inserted", "serving"},
                             principal: Nat \cup {None}]]
  BY DEF AccountInv, CommandsTypeOK, Proceeds
<1>2. /\ command'[p].pc = pc /\ command'[p].principal = principal
      /\ \A q \in Procs \ {p} : command'[q] = command[q]
  BY DEF AccountInv, CommandsTypeOK, Proceeds
<1>3. \A q \in Procs \ {p} : command[q].pc = "serving" =>
         /\ command[q].principal = ThePrincipal
         /\ command[q].principal \in 1..principals'
  BY DEF AccountInv, CommandsTypeOK, ServesThePrincipal, At, PrincipalIds
<1> QED BY <1>1, <1>2, <1>3 DEF CommandsTypeOK, ServesThePrincipal, At, PrincipalIds

(* A command that serves or ends lets its process start anew.              *)
LEMMA EndsInOrder ==
  ASSUME AccountInv, NEW p \in Procs, UNCHANGED principals,
         command' = [command EXCEPT ![p] = NoCommand]
  PROVE  CommandsTypeOK' /\ ServesThePrincipal'
<1>1. Proceeds(p, "idle", None) /\ principals' \in Nat /\ principals' >= principals
  BY DEF NoCommand, Proceeds, AccountInv, CommandsTypeOK
<1>2. "idle" \in {"idle", "inserting", "inserted", "serving"} /\ "idle" # "serving"
  OBVIOUS
<1> QED BY <1>1, <1>2, ProceedsInOrder

LEMMA StepAccountInv ==
  ASSUME CommandsAssumption, EnforcementTypeOK, AccountInv, [Next]_vars
  PROVE  AccountInv'
<1>1. CASE UNCHANGED <<allowance, account, commandVars>>
  BY <1>1 DEF AccountInv, CommandsTypeOK, ServesThePrincipal, At, PrincipalIds, OneAccount,
              commandVars
<1>2. ASSUME NEW p \in Procs, CommandStep(p)
      PROVE  AccountInv'
  <2> principals \in Nat
    BY DEF AccountInv, CommandsTypeOK
  <2>1. CASE FindsNothing(p)
    <3>1. CommandsTypeOK' /\ ServesThePrincipal'
      <4>1. Proceeds(p, "inserting", None) /\ principals' \in Nat /\ principals' >= principals
        BY <2>1 DEF FindsNothing
      <4>2. "inserting" \in {"idle", "inserting", "inserted", "serving"} /\ "inserting" # "serving"
        OBVIOUS
      <4> QED BY <4>1, <4>2, ProceedsInOrder
    <3> QED BY <2>1, <3>1 DEF FindsNothing, enforcementVars, AccountInv, OneAccount
  <2>2. CASE InsertPrincipal(p)
    <3>1. CommandsTypeOK' /\ ServesThePrincipal'
      <4>1. Proceeds(p, "inserted", None) /\ principals' \in Nat /\ principals' >= principals
        BY <2>2 DEF InsertPrincipal
      <4>2. "inserted" \in {"idle", "inserting", "inserted", "serving"} /\ "inserted" # "serving"
        OBVIOUS
      <4> QED BY <4>1, <4>2, ProceedsInOrder
    <3> QED BY <2>2, <3>1 DEF InsertPrincipal, enforcementVars, AccountInv, OneAccount
  <2>3. CASE FindsPrincipal(p)
    <3>1. FirstRow = ThePrincipal /\ FirstRow \in 1..principals
      BY <2>3, FirstRowIsOne DEF FindsPrincipal, CommandsAssumption, PrincipalIds
    <3>2. CommandsTypeOK' /\ ServesThePrincipal'
      <4>1. /\ Proceeds(p, "serving", FirstRow)
            /\ FirstRow \in Nat /\ principals' \in Nat /\ principals' >= principals
            /\ FirstRow = ThePrincipal /\ FirstRow \in 1..principals'
        BY <2>3, <3>1 DEF FindsPrincipal
      <4>2. "serving" \in {"idle", "inserting", "inserted", "serving"}
        OBVIOUS
      <4> QED BY <4>1, <4>2, ProceedsInOrder
    <3> QED BY <2>3, <3>2 DEF FindsPrincipal, enforcementVars, AccountInv, OneAccount
  <2>4. ASSUME NEW principal \in Principals, Serves(p, principal)
        PROVE  CommandsTypeOK' /\ ServesThePrincipal' /\ principal = ThePrincipal
    <3>1. principal = ThePrincipal
      BY <2>4 DEF Serves, AccountInv, ServesThePrincipal
    <3> QED BY <2>4, <3>1, EndsInOrder DEF Serves
  <2>5. ASSUME NEW principal \in Principals, NEW limit \in Allowances,
               RunInit(p, principal, limit)
        PROVE  AccountInv'
    BY <2>4, <2>5 DEF RunInit, AccountInv, OneAccount, EnforcementTypeOK
  <2>6. ASSUME NEW principal \in Principals, NEW agent \in Agents,
               RunAgentAdd(p, principal, agent)
        PROVE  AccountInv'
    BY <2>4, <2>6 DEF RunAgentAdd, AccountInv, OneAccount, EnforcementTypeOK
  <2>7. ASSUME NEW principal \in Principals, NEW agent \in Agents,
               RunAgentRevoke(p, principal, agent)
        PROVE  AccountInv'
    BY <2>4, <2>7 DEF RunAgentRevoke, AccountInv, OneAccount
  <2>8. CASE CommandEnds(p)
    <3>1. CommandsTypeOK' /\ ServesThePrincipal'
      BY <2>8, EndsInOrder DEF CommandEnds
    <3> QED BY <2>8, <3>1 DEF CommandEnds, enforcementVars, AccountInv, OneAccount
  <2> QED BY <1>2, <2>1, <2>2, <2>3, <2>5, <2>6, <2>7, <2>8 DEF CommandStep
<1>3. ASSUME NEW p \in Payments, Account(p) \/ AskSignature(p) \/ SendSigned(p)
      PROVE  UNCHANGED <<allowance, account, commandVars>>
  BY <1>3 DEF Account, AskSignature, SendSigned, Check, ReservePool, Report, Reconcile, Mine, Send,
              accountVars, enforcementVars
<1>4. HostProcessEnds => UNCHANGED <<allowance, account, commandVars>>
  BY DEF HostProcessEnds, HostEnds, accountVars
<1>5. Sign => UNCHANGED <<allowance, account, commandVars>>
  BY DEF Sign, enforcementVars
<1>6. TimePasses /\ UNCHANGED <<commandVars, signerVars>> =>
        UNCHANGED <<allowance, account, commandVars>>
  BY DEF TimePasses, accountVars
<1>7. UNCHANGED vars => UNCHANGED <<allowance, account, commandVars>>
  BY DEF vars, enforcementVars
<1> QED BY <1>1, <1>2, <1>3, <1>4, <1>5, <1>6, <1>7 DEF Next, Operate

-----------------------------------------------------------------------------
(* The theorems.                                                           *)

LibraryInv == HostInv /\ SignerInv /\ AccountInv

LEMMA InitLibraryInv ==
  ASSUME Assumptions, CommandsAssumption, SignerAssumption, Init
  PROVE  LibraryInv
<1>1. HostInv /\ SignerInv
  BY InitHostInv, InitSignerInv DEF Init
<1>2. AccountInv
  BY DEF Init, CommandsInit, NoCommand, EnforcementInit, AccountInv, CommandsTypeOK,
         ServesThePrincipal, At, OneAccount
<1> QED BY <1>1, <1>2 DEF LibraryInv

LEMMA StepLibraryInv ==
  ASSUME Assumptions, CommandsAssumption, SignerAssumption, PolicyAssumption,
         LibraryInv, [Next]_vars
  PROVE  LibraryInv'
<1>1. HostInv'
  BY StepHostInv DEF LibraryInv
<1>2. AccountInv'
  BY StepAccountInv, HostInvTypes DEF LibraryInv
<1>3. SignerInv'
  <2>1. clock \in Int
    BY DEF LibraryInv, HostInv, TypeOK, Assumptions, LedgerAssumption
  <2>2. CASE SignerMoves(clock)
    BY <2>1, <2>2, StepSignerInv DEF LibraryInv
  <2>3. CASE UNCHANGED signerVars
    BY <2>3 DEF LibraryInv, SignerInv, SignerTypeOK, SignedWithinPolicy, RefusedForAReason,
                signerVars
  <2> QED BY <2>2, <2>3, StepsOfSigner
<1> QED BY <1>1, <1>2, <1>3 DEF LibraryInv

LEMMA AlwaysLibraryInv == Spec => []LibraryInv
<1>1. Init => LibraryInv
  BY InitLibraryInv, LedgerAssumption, EnforcementAssumption, CommandsAssumption,
     SignerAssumption DEF Assumptions
<1>2. LibraryInv /\ [Next]_vars => LibraryInv'
  BY StepLibraryInv, LedgerAssumption, EnforcementAssumption, CommandsAssumption,
     SignerAssumption, PolicyAssumption DEF Assumptions
<1> QED BY <1>1, <1>2, PTL DEF Spec

(* Everything in the host, the signer and the database keeps its type, and *)
(* no two payments of enforcement.ts ever hold the same reservation.       *)
THEOREM LibraryTypeCorrect == Spec => []LibraryTypeOK
<1>1. LibraryInv => LibraryTypeOK
  BY HostInvTypes DEF LibraryInv, LibraryTypeOK, AccountInv, SignerInv
<1> QED BY <1>1, AlwaysLibraryInv, PTL

(***************************************************************************)
(* Whatever hosts report, in whatever order, and wherever they end: what   *)
(* the ledger says of a payment of enforcement.ts is true, and money that  *)
(* moved or may move is held unless the host could not name the payment.   *)
(***************************************************************************)
THEOREM LedgerIsTruthful == Spec => []LedgerTellsTheTruth
<1>1. HostInv => LedgerTellsTheTruth
  BY DEF HostInv, HostParts, RowsTellTheTruth, RowTellsTheTruth, LedgerTellsTheTruth
<1>2. LibraryInv => LedgerTellsTheTruth
  BY <1>1 DEF LibraryInv
<1> QED BY <1>2, AlwaysLibraryInv, PTL

(***************************************************************************)
(* Whatever hosts, CLI and crashes do to the table of agent_ledger is a    *)
(* behaviour of ledger.ts that the theorems of LedgerProofs are about: the *)
(* callers, amounts and references the hosts pass are the ledger's.        *)
(***************************************************************************)
THEOREM LibraryIsALedger == Spec => LedgerSpec
<1>1. Init => LedgerInit
  BY DEF Init, EnforcementInit
<1>2. LibraryInv /\ [Next]_vars => [LedgerNext]_ledgerVars
  BY StepHostInv, LedgerAssumption, EnforcementAssumption DEF Assumptions, LibraryInv
<1> QED BY <1>1, <1>2, AlwaysLibraryInv, PTL DEF Spec, LedgerSpec

(***************************************************************************)
(* So hosts that pay through enforcement.ts stay, in every window, within  *)
(* the allowance that governs it: the theorem on the ledger, of the whole. *)
(***************************************************************************)
THEOREM HostsStayWithinAllowance == Spec => []EveryWindowWithinAllowance
  BY LibraryIsALedger, PoolNeverExceeded, PTL

(***************************************************************************)
(* validate.ts, for every policy, key, payload and clock: each signature   *)
(* is a payment inside the policy, unexpired, and inside the horizon.      *)
(***************************************************************************)
THEOREM SignsWithinPolicy == Spec => []SignedWithinPolicy
<1>1. LibraryInv => SignedWithinPolicy
  BY DEF LibraryInv, SignerInv
<1> QED BY <1>1, AlwaysLibraryInv, PTL

(* And a payment inside the policy that reached validate.ts was refused    *)
(* for no reason but that the signer had been told to stop.                *)
THEOREM RefusesForAReason == Spec => []RefusedForAReason
<1>1. LibraryInv => RefusedForAReason
  BY DEF LibraryInv, SignerInv
<1> QED BY <1>1, AlwaysLibraryInv, PTL

(***************************************************************************)
(* storage.ts and cli.ts: however many first commands race between their   *)
(* query and their insert, however many rows they leave and wherever they  *)
(* fail, all agents and allowances belong to the principal that is served. *)
(***************************************************************************)
THEOREM OneAccountForAll == Spec => []OneAccount
<1>1. LibraryInv => OneAccount
  BY DEF LibraryInv, AccountInv
<1> QED BY <1>1, AlwaysLibraryInv, PTL

=============================================================================
