----------------------------- MODULE Enforcement -----------------------------
(***************************************************************************)
(* The enforcement API (src/enforcement.ts) in a host program that links   *)
(* the library: authorizePayment before it pays, settlePayment with what   *)
(* came of the payment, reconcileInDoubt when it finds out later.  The     *)
(* host pays with its own code and may end at any time; the ledger, the    *)
(* allowance and the agents are in the database file it shares with the    *)
(* CLI (module Commands).                                                  *)
(*                                                                         *)
(* authorizePayment is synchronous.  It reads the agent and the allowance, *)
(* each once, and then reserves: a change another process makes between    *)
(* the two reads is as good as one before or after both, so they are one   *)
(* step, and the reservation is the other.                                 *)
(***************************************************************************)
EXTENDS Ledger

CONSTANTS
    Payments,          \* bound: the payments of the host, by their transactions
    PaymentRequests,   \* [principal, agent, host, price, currency]
    EnvelopeOf,        \* agent -> [maxPerTx, hosts, currencies, expiresAt]
    None               \* null: no expiry, no allowance, no row, no request

ASSUME EnforcementAssumption ==
    /\ Payments \subseteq TxRefs
    /\ EmptyRef \notin Payments
    /\ \A request \in PaymentRequests :
          /\ [agent |-> request.agent, principal |-> request.principal] \in Callers
          /\ request.price \in Amounts
          /\ request.currency \in Currencies
    /\ None \notin Principals /\ None \notin Allowances /\ None \notin PaymentRequests
    /\ None \in Intents
    /\ 1 \in Attempts

VARIABLES
    call,         \* each payment: its authorizePayment, its Authorization, its report
    allowance,    \* the row of principal_allowance of each principal, or None
    account,      \* the principal_id of the row of each agent, or None
    revoked,      \* the agents with a revoked_at
    onChain       \* each payment's transaction: "none", "sent", "moved" or "void"

accountVars == <<allowance, account, revoked>>
enforcementVars == <<rows, terms, clock, call, allowance, account, revoked, onChain>>

NoCall == [pc |-> "new", request |-> None, allowance |-> None,
           reservation |-> 0, report |-> "none"]

(***************************************************************************)
(* Everything is a value of its type; an authorization has a reservation,  *)
(* and no other payment has it.                                            *)
(***************************************************************************)
EnforcementTypeOK ==
    /\ TypeOK
    /\ call \in [Payments -> [pc: {"new", "checked", "authorized", "refused", "lost"},
                              request: PaymentRequests \cup {None},
                              allowance: Allowances \cup {None},
                              reservation: 0..Len(rows),
                              report: {"none", "made", "untraced"}]]
    /\ allowance \in [Principals -> Allowances \cup {None}]
    /\ account \in [Agents -> Principals \cup {None}]
    /\ revoked \subseteq Agents
    /\ onChain \in [Payments -> {"none", "sent", "moved", "void"}]
    /\ \A p \in Payments : call[p].pc = "authorized" => call[p].reservation # 0
    /\ \A p, q \in Payments :
          call[p].reservation = call[q].reservation => p = q \/ call[p].reservation = 0

-----------------------------------------------------------------------------
(* authorizePayment.                                                       *)

CallerOf(request) == [agent |-> request.agent, principal |-> request.principal]

(* describe finds an agent under its own principal only.                   *)
Described(request) == account[request.agent] = request.principal

(* The checks.  A price or URL that is malformed and a cleartext scheme    *)
(* are a host outside the envelope.                                        *)
Permitted(request) ==
    LET envelope == EnvelopeOf[request.agent] IN
    /\ Described(request)
    /\ request.agent \notin revoked
    /\ envelope.expiresAt # None => clock <= envelope.expiresAt
    /\ request.host \in envelope.hosts
    /\ request.currency \in envelope.currencies
    /\ request.price <= envelope.maxPerTx

(* Nothing else of the host runs inside authorizePayment.                  *)
HostFree == \A p \in Payments : call[p].pc # "checked"

Check(p, request) ==
    /\ HostFree
    /\ call[p].pc = "new"
    /\ call' = [call EXCEPT
                  ![p].request = request,
                  ![p].allowance = allowance[request.principal],
                  ![p].pc = IF Permitted(request) /\ allowance[request.principal] # None
                            THEN "checked" ELSE "refused"]
    /\ UNCHANGED <<ledgerVars, accountVars, onChain>>

PreviousRow == Len(rows)    \* mutant
(* The id reserve returns: that of the row it inserts.                     *)
ReservedRow == Len(rows) + 1

(* ledger.reserve with the allowance that was read, or PoolExceededError.  *)
ReservePool(p) ==
    LET request == call[p].request
        limit == call[p].allowance
        fits == Fits(CallerOf(request), request.price, request.currency, limit)
    IN  /\ call[p].pc = "checked"
        /\ \/ /\ fits
              /\ Reserve(CallerOf(request), request.price, request.currency, limit, None, 1)
              /\ call' = [call EXCEPT ![p].pc = "authorized", ![p].reservation = ReservedRow]
           \/ /\ ~ fits
              /\ call' = [call EXCEPT ![p].pc = "refused"]
              /\ UNCHANGED ledgerVars
        /\ UNCHANGED <<accountVars, onChain>>

-----------------------------------------------------------------------------
(* The payment: the host's own code, and the chain.                        *)

Held(p) == HostFree /\ call[p].pc = "authorized"

Send(p) ==
    /\ Held(p)
    /\ call[p].report = "none"
    /\ onChain[p] = "none"
    /\ onChain' = [onChain EXCEPT ![p] = "sent"]
    /\ UNCHANGED <<ledgerVars, call, accountVars>>

Mine(p) ==
    /\ onChain[p] = "sent"
    /\ \E fate \in {"moved", "void"} : onChain' = [onChain EXCEPT ![p] = fate]
    /\ UNCHANGED <<ledgerVars, call, accountVars>>

-----------------------------------------------------------------------------
(* settlePayment.  It may be called again, and late; a call that throws    *)
(* changes nothing and is not a step.                                      *)

(* What a host that reports truthfully may say of its payment: settled and *)
(* failed when it knows, unknown (with the reference, or without one when  *)
(* it has none) once it was sent.                                          *)
Truthful(p, report) ==
    CASE report = "settled" -> onChain[p] = "moved"
      [] report = "failed"  -> onChain[p] \in {"none", "void"}
      [] OTHER              -> onChain[p] # "none"

ReleaseUnlessSettled(id, c, ref, report) ==    \* mutant
    IF report = "settled" THEN Confirm(id, c, ref) ELSE Release(id, c)
SettlePayment(id, c, ref, report) ==
    CASE report = "settled"  -> Confirm(id, c, ref)
      [] report = "failed"   -> Release(id, c)
      [] report = "untraced" -> Release(id, c)
      [] OTHER               -> MarkInDoubt(id, c, ref)

Report(p) ==
    \E report \in {"settled", "failed", "unknown", "untraced"} :
        /\ Held(p)
        /\ Truthful(p, report)
        /\ SettlePayment(call[p].reservation, CallerOf(call[p].request), p, report)
        /\ call' = [call EXCEPT ![p].report = IF report = "untraced" THEN report ELSE "made"]
        /\ UNCHANGED <<accountVars, onChain>>

(* Evidence on the transaction of p, put to a row: by this host, or by one *)
(* that found the row in the database after this one ended.                *)
Evidence(p) ==
    CASE onChain[p] = "moved" -> "settled"
      [] onChain[p] = "void"  -> "failed"
      [] OTHER                -> "pending"

Reconcile(p) ==
    /\ \E id \in DOMAIN rows :
          ReconcileInDoubt(id, [agent |-> rows[id].agent, principal |-> rows[id].principal],
                           p, Evidence(p))
    /\ UNCHANGED <<call, accountVars, onChain>>

(* The host ends.  An Authorization is an object in its memory.            *)
HostEnds ==
    /\ call' = [p \in Payments |->
                  IF call[p].pc \in {"checked", "authorized"}
                  THEN [call[p] EXCEPT !.pc = "lost"] ELSE call[p]]
    /\ UNCHANGED <<ledgerVars, accountVars, onChain>>

TimePasses == SetClock /\ UNCHANGED <<call, accountVars, onChain>>

-----------------------------------------------------------------------------
EnforcementInit ==
    /\ LedgerInit
    /\ call = [p \in Payments |-> NoCall]
    /\ allowance = [principal \in Principals |-> None]
    /\ account = [agent \in Agents |-> None]
    /\ revoked = {}
    /\ onChain = [p \in Payments |-> "none"]

-----------------------------------------------------------------------------
(* Properties.                                                             *)

(***************************************************************************)
(* Whatever the order of reports, repeats, crashes, evidence and what the  *)
(* chain does: a confirmed row is a payment that moved; a row is in doubt  *)
(* under the payment's own reference, so that reconciliation can resolve   *)
(* it; and a payment whose money moved, or still may, is held by its row,  *)
(* unless the host could not name the transaction (enforcement.ts: "so no  *)
(* payment exists to be in doubt about", which is the host's to know).     *)
(***************************************************************************)
LedgerTellsTheTruth ==
    \A p \in Payments : call[p].reservation # 0 =>
        LET row == rows[call[p].reservation] IN
        /\ row.state = "confirmed" => onChain[p] = "moved"
        /\ row.state = "in_doubt" => row.ref = p /\ onChain[p] # "none"
        /\ row.state = "released" /\ onChain[p] \in {"sent", "moved"} =>
               call[p].report = "untraced"

=============================================================================
