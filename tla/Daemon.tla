------------------------------- MODULE Daemon -------------------------------
(***************************************************************************)
(* The purser daemon: requests in flight on its socket (server.ts), the    *)
(* drive of one paid request (pay.ts), the hook and the gate that admit it *)
(* (client.ts, gate.ts), the intents, the allowance and the revocations it *)
(* reads (intent.ts, allowance.ts, store.ts), over the ledger.  Around it  *)
(* run the CLI processes of the operator, which share the database file,   *)
(* and the sellers.                                                        *)
(*                                                                         *)
(* One step of a request is what the event loop runs between two awaits,   *)
(* or the part of it between two database statements where a CLI process   *)
(* may get in.  Amounts of money that really moved are known to the chain  *)
(* and not to the daemon: moved is a history variable.                     *)
(***************************************************************************)
EXTENDS Ledger, Quoting, FiniteSets

CONSTANTS
    Requests,      \* bound: the requests agents send, each at most once
    Claims,        \* [agent, host, ceiling, stamp, genuine, intent]
    EnvelopeOf,    \* agent -> [maxPerTx, spendCap, period, hosts, currencies, expiresAt]
    ParentOf,      \* agent -> its parent, or itself for a root
    MaxSkew,       \* MAX_CLAIM_SKEW_MS in units of Times
    SplitSigner,   \* the wallet is a signer process behind a socket
    None,          \* null: no expiry, no intent named, no allowance configured
    ThePrincipal   \* principalId is fixed at 1 in the gate

Caller(agent) == [agent |-> agent, principal |-> ThePrincipal]

ASSUME DaemonAssumption ==
    /\ ThePrincipal \in Principals
    /\ \A agent \in Agents : Caller(agent) \in Callers
    /\ \A claim \in Claims :
          /\ claim.agent \in Agents
          /\ claim.ceiling \in Amounts
          /\ claim.intent \in Nat \cup {None}
    /\ \A quote \in Quotes : quote.price \in Amounts /\ quote.currency \in Currencies
    /\ IsFiniteSet(Requests)
    /\ Intents = 1..Cardinality(Requests)
    /\ Attempts = 1..Cardinality(Requests)
    /\ MaxRows >= Cardinality(Requests)

VARIABLES
    job,          \* what the daemon holds about each request
    intents,      \* the intents table, in the order of the ids
    allowance,    \* the row of principal_allowance, or None
    revoked,      \* the agents with a revoked_at
    daemon,       \* "up", "closing" (wallet locked) or "down"
    moved         \* history: requests whose authorization was settled on chain

pathVars == <<intents, allowance, revoked, daemon, moved>>
vars == <<rows, terms, clock, job, intents, allowance, revoked, daemon, moved>>

Finished == {"answered", "dropped"}
InFlight == {"probing", "gating", "reserving", "admitted", "signing",
             "replaying", "reading", "hung"}

NewJob == [pc |-> "idle", claim |-> None, quote |-> None, plan |-> None,
           reservation |-> 0, sent |-> FALSE, outcome |-> "none"]

Plans == [intent: Nat, attempt: Attempts, allowance: Allowances]

(***************************************************************************)
(* Everything is a value of its type; a request past a step has what that  *)
(* step established.                                                       *)
(***************************************************************************)
DaemonTypeOK ==
    /\ TypeOK
    /\ job \in [Requests -> [pc: {"idle"} \cup InFlight \cup Finished,
                             claim: Claims \cup {None},
                             quote: Quotes \cup {None},
                             plan: Plans \cup {None},
                             reservation: 0..Len(rows),
                             sent: BOOLEAN,
                             outcome: {"none", "paid", "refused", "free", "seller_error"}]]
    /\ intents \in Seq([agent: Agents, ceiling: Amounts, currency: Currencies])
    /\ allowance \in Allowances \cup {None}
    /\ revoked \subseteq Agents
    /\ daemon \in {"up", "closing", "down"}
    /\ moved \subseteq Requests

-----------------------------------------------------------------------------
(* The checks of the gate.                                                 *)

Distance(s, t) == IF s < t THEN t - s ELSE s - t

(* authenticate: genuine stands for a known agent, a signature that        *)
(* verifies under its public key, and a URL with a usable scheme.          *)
Authentic(claim) ==
    LET envelope == EnvelopeOf[claim.agent] IN
    /\ claim.genuine
    /\ Distance(clock, claim.stamp) <= MaxSkew
    /\ claim.agent \notin revoked
    /\ envelope.expiresAt # None => clock <= envelope.expiresAt
    /\ claim.host \in envelope.hosts

AdmissibleUnderEnvelopeOnly(claim, quote) ==    \* mutant
    LET envelope == EnvelopeOf[claim.agent] IN
    /\ Authentic(claim)
    /\ quote.currency \in envelope.currencies
    /\ quote.price <= envelope.maxPerTx

(* admit, up to the intent: authenticate again, then the quote's checks.   *)
Admissible(claim, quote) ==
    LET envelope == EnvelopeOf[claim.agent] IN
    /\ Authentic(claim)
    /\ quote.currency \in envelope.currencies
    /\ quote.price <= claim.ceiling
    /\ quote.price <= envelope.maxPerTx

AttemptCount(intent) == Cardinality({i \in DOMAIN rows : rows[i].intent = intent})

-----------------------------------------------------------------------------
(* One request.                                                            *)

NoLock == TRUE                   \* mutant
RowIdTooFar == Len(rows) + 2     \* mutant

(* The stretch from the gate's reads to the reservation is synchronous:    *)
(* no other request runs meanwhile, but other processes may.               *)
EventLoopFree == \A r \in Requests : job[r].pc # "reserving"

(* last_insert_rowid, read in the transaction of the insert.               *)
InsertedRowId == Len(rows) + 1

Runs(r, pc) == job[r].pc = pc /\ EventLoopFree

Goto(r, pc) == job' = [job EXCEPT ![r].pc = pc]

Answer(r, outcome) ==
    job' = [job EXCEPT ![r].pc = "answered", ![r].outcome = outcome,
                       ![r].plan = None]

JobCaller(r) == Caller(job[r].claim.agent)

(* handle and the first lines of pay: nothing is fetched for a claim that  *)
(* does not authenticate.  A closing server still reads from the           *)
(* connections it has.                                                     *)
Receive(r, claim) ==
    /\ Runs(r, "idle")
    /\ daemon # "down"
    /\ job' = [job EXCEPT ![r].claim = claim,
                          ![r].pc = IF Authentic(claim) THEN "probing" ELSE "answered",
                          ![r].outcome = IF Authentic(claim) THEN "none" ELSE "refused"]
    /\ UNCHANGED <<ledgerVars, pathVars>>

(* The probe comes back: without a 402, not at all (or with a 402 the x402 *)
(* client cannot read), or with an offer that gives a quote or not.        *)
Probe(r) ==
    /\ Runs(r, "probing")
    /\ \/ \E outcome \in {"free", "seller_error", "refused"} : Answer(r, outcome)
       \/ \E offer \in Offers :
             \/ /\ Usable(offer)
                /\ job' = [job EXCEPT ![r].quote = QuoteFromRequirements(offer),
                                      ![r].pc = "gating"]
             \/ ~ Usable(offer) /\ Answer(r, "refused")
    /\ UNCHANGED <<ledgerVars, pathVars>>

(* IntentStore.open: the id is the row's.                                  *)
OpenIntent(claim, quote) ==
    intents' = Append(intents, [agent |-> claim.agent, ceiling |-> claim.ceiling,
                                currency |-> quote.currency])

(***************************************************************************)
(* admit, up to the ledger: the agent is read again, the quote is checked, *)
(* the intent is opened, attempts are counted and the allowance is read.   *)
(* Of what these statements read, only revoked and the allowance are       *)
(* written by other processes, and each is read once, so a CLI step        *)
(* between two of them has the effect of one before or after this step.    *)
(***************************************************************************)
Decide(r) ==
    LET claim  == job[r].claim
        quote  == job[r].quote
        opens  == claim.intent = None
        intent == IF opens THEN Len(intents) + 1 ELSE claim.intent
    IN  /\ Runs(r, "gating")
        /\ \/ /\ ~ Admissible(claim, quote)
              /\ Answer(r, "refused")
              /\ UNCHANGED intents
           \/ /\ Admissible(claim, quote)
              /\ IF opens THEN OpenIntent(claim, quote) ELSE UNCHANGED intents
              /\ IF allowance = None
                 THEN Answer(r, "refused")
                 ELSE job' = [job EXCEPT ![r].pc = "reserving",
                                         ![r].plan = [intent |-> intent,
                                                      attempt |-> AttemptCount(intent) + 1,
                                                      allowance |-> allowance]]
        /\ UNCHANGED <<ledgerVars, allowance, revoked, daemon, moved>>

(* admit, the ledger: reserve, or the refusal when it throws.  An intent   *)
(* that does not exist fails the foreign key of the insert.                *)
ReserveBudget(r) ==
    LET plan == job[r].plan
        quote == job[r].quote
        possible == /\ plan.intent \in DOMAIN intents
                    /\ Fits(JobCaller(r), quote.price, quote.currency, plan.allowance)
    IN  /\ job[r].pc = "reserving"
        /\ \/ /\ possible
              /\ Reserve(JobCaller(r), quote.price, quote.currency, plan.allowance,
                         plan.intent, plan.attempt)
              /\ job' = [job EXCEPT ![r].pc = "admitted", ![r].plan = None,
                                    ![r].reservation = InsertedRowId]
           \/ /\ ~ possible
              /\ Answer(r, "refused")
              /\ UNCHANGED ledgerVars
        /\ UNCHANGED pathVars

RefusedKeepingBudget(r) ==    \* mutant
    Answer(r, "refused") /\ UNCHANGED ledgerVars

(* The catch around createPaymentPayload: what was admitted is released.   *)
RefusedAfterAdmission(r) ==
    /\ Release(job[r].reservation, JobCaller(r))
    /\ Answer(r, "refused")

(* signTypedData is called: a locked wallet throws.                        *)
BeginSigning(r) ==
    /\ Runs(r, "admitted")
    /\ \/ daemon = "up" /\ Goto(r, "signing") /\ UNCHANGED ledgerVars
       \/ daemon # "up" /\ RefusedAfterAdmission(r)
    /\ UNCHANGED pathVars

(* The signature arrives and the request is replayed with it.              *)
Signed(r) ==
    /\ Runs(r, "signing")
    /\ job' = [job EXCEPT ![r].pc = "replaying", ![r].sent = TRUE]
    /\ UNCHANGED <<ledgerVars, pathVars>>

(* Signing throws: malformed data, or a signer that refuses or is gone.    *)
SigningFails(r) ==
    /\ Runs(r, "signing")
    /\ RefusedAfterAdmission(r)
    /\ UNCHANGED pathVars

(* The signer process ends after it accepted the connection: ask resolves  *)
(* on a line and rejects on an error, and the end of the stream is         *)
(* neither.                                                                *)
SignerGone(r) ==
    /\ SplitSigner
    /\ Runs(r, "signing")
    /\ Goto(r, "hung")
    /\ UNCHANGED <<ledgerVars, pathVars>>

(* The replay is answered with success: confirm, then read the body.       *)
ReplayOk(r) ==
    /\ Runs(r, "replaying")
    /\ \E ref \in TxRefs : Confirm(job[r].reservation, JobCaller(r), ref)
    /\ Goto(r, "reading")
    /\ UNCHANGED pathVars

(* The replay is answered, and not with success: release.                  *)
ReplayRefused(r) ==
    /\ Runs(r, "replaying")
    /\ Release(job[r].reservation, JobCaller(r))
    /\ Answer(r, "seller_error")
    /\ UNCHANGED pathVars

ReplayLostReleases(r) ==    \* mutant
    /\ Runs(r, "replaying")
    /\ Release(job[r].reservation, JobCaller(r))
    /\ Answer(r, "refused")
    /\ UNCHANGED pathVars

ReplayLostUncaught(r) ==    \* mutant
    /\ Runs(r, "replaying")
    /\ Goto(r, "hung")
    /\ UNCHANGED <<ledgerVars, pathVars>>

(* The replay is not answered: fetch throws, and handle's catch refuses.   *)
ReplayLost(r) ==
    /\ Runs(r, "replaying")
    /\ Answer(r, "refused")
    /\ UNCHANGED <<ledgerVars, pathVars>>

(* The paid body arrives, or the connection breaks while it does.          *)
ReadBody(r) ==
    /\ Runs(r, "reading")
    /\ \E outcome \in {"paid", "refused"} : Answer(r, outcome)
    /\ UNCHANGED <<ledgerVars, pathVars>>

Advance(r) ==
    \/ Probe(r)
    \/ Decide(r)
    \/ ReserveBudget(r)
    \/ BeginSigning(r)
    \/ Signed(r)
    \/ SigningFails(r)
    \/ SignerGone(r)
    \/ ReplayOk(r)
    \/ ReplayRefused(r)
    \/ ReplayLost(r)
    \/ ReadBody(r)

-----------------------------------------------------------------------------
(* The process, the operator and the world.                                *)

(* SIGTERM: the wallet is locked and the server stops accepting.           *)
Shutdown ==
    /\ daemon = "up"
    /\ EventLoopFree
    /\ daemon' = "closing"
    /\ UNCHANGED <<ledgerVars, job, intents, allowance, revoked, moved>>

(* The process ends, by exit once its connections are closed or by a       *)
(* crash: what was in flight is lost, what was committed stays.            *)
Stop ==
    /\ daemon # "down"
    /\ daemon' = "down"
    /\ job' = [r \in Requests |->
                 IF job[r].pc \in InFlight
                 THEN [job[r] EXCEPT !.pc = "dropped", !.plan = None]
                 ELSE job[r]]
    /\ UNCHANGED <<ledgerVars, intents, allowance, revoked, moved>>

(* A start unlocks a wallet and recovers nothing from the tables.          *)
Start ==
    /\ daemon = "down"
    /\ daemon' = "up"
    /\ UNCHANGED <<ledgerVars, job, intents, allowance, revoked, moved>>

(* purser init, in its own process.                                        *)
SetAllowance ==
    /\ allowance' \in Allowances
    /\ UNCHANGED <<ledgerVars, job, intents, revoked, daemon, moved>>

(* The recursive query of revokeSubtree: the least set with the agent in   *)
(* it and with the children of its members.                                *)
ClosedUnderChildren(S) == \A a \in Agents : ParentOf[a] \in S => a \in S

Subtree ==
    [ancestor \in Agents |->
        {a \in Agents : \A S \in SUBSET Agents :
                            ancestor \in S /\ ClosedUnderChildren(S) => a \in S}]

RevokeOne(agent) ==    \* mutant
    /\ revoked' = revoked \cup {agent}
    /\ UNCHANGED <<ledgerVars, job, intents, allowance, daemon, moved>>

(* purser agent revoke, in its own process.                                *)
Revoke(agent) ==
    /\ revoked' = revoked \cup Subtree[agent]
    /\ UNCHANGED <<ledgerVars, job, intents, allowance, daemon, moved>>

(* A seller that holds an authorization presents it on chain, before or    *)
(* after it answers, and whatever it answers.  A nonce settles once.       *)
SellerSettles(r) ==
    /\ job[r].sent
    /\ moved' = moved \cup {r}
    /\ UNCHANGED <<ledgerVars, job, intents, allowance, revoked, daemon>>

TimePasses == SetClock /\ UNCHANGED <<job, pathVars>>

-----------------------------------------------------------------------------
Init ==
    /\ LedgerInit
    /\ job = [r \in Requests |-> NewJob]
    /\ intents = <<>>
    /\ allowance \in Allowances \cup {None}
    /\ revoked = {}
    /\ daemon = "up"
    /\ moved = {}

Next ==
    \/ \E r \in Requests, claim \in Claims : Receive(r, claim)
    \/ \E r \in Requests : Advance(r)
    \/ Shutdown
    \/ Stop
    \/ Start
    \/ SetAllowance
    \/ \E agent \in Agents : Revoke(agent)
    \/ \E r \in Requests : SellerSettles(r)
    \/ TimePasses

Spec == Init /\ [][Next]_vars

(* A probe that was answered reads a body, and so does a replay.           *)
AwaitsBody(r) == job[r].pc \in {"probing", "reading"}

(* The event loop runs what is ready, fetch gives up on a seller that      *)
(* sends no headers, and signing in the process is a computation.  A body  *)
(* has no limit of its own, only the pauses in it do: a seller that keeps  *)
(* sending is waited for.  Nothing makes agents send requests, sellers     *)
(* settle, or the operator act.                                            *)
FairSpec == Spec /\ \A r \in Requests : WF_vars(~ AwaitsBody(r) /\ Advance(r))

-----------------------------------------------------------------------------
(* Properties.                                                             *)

Admitted(r) == job[r].reservation # 0
RowOf(r) == rows[job[r].reservation]
HoldsNothing(r) == Admitted(r) => RowOf(r).state = "released"

(***************************************************************************)
(* Whatever happened since the gate's decision, an authorization that left *)
(* the daemon stands against a reservation of its own, of the agent that   *)
(* asked and of exactly the price quoted, within both ceilings: the one    *)
(* the agent signed and the one of its envelope.                           *)
(***************************************************************************)
AuthorizedWithinLimits ==
    \A r \in Requests :
        job[r].sent =>
            /\ Admitted(r)
            /\ \A other \in Requests \ {r} : job[other].reservation # job[r].reservation
            /\ RowOf(r).agent = job[r].claim.agent
            /\ RowOf(r).currency = job[r].quote.currency
            /\ RowOf(r).amount = job[r].quote.price
            /\ RowOf(r).amount <= job[r].claim.ceiling
            /\ RowOf(r).amount <= EnvelopeOf[job[r].claim.agent].maxPerTx

(***************************************************************************)
(* Money that moved is covered: its reservation still consumes the pool,   *)
(* through lost answers, lost bodies, crashes and restarts, unless the     *)
(* seller itself answered the replay with a refusal (pay.ts releases then, *)
(* see ReleasedMeansNoMoney).                                              *)
(***************************************************************************)
MovedIsCoveredOrRefused ==
    \A r \in moved : HoldsNothing(r) => job[r].outcome = "seller_error"

(***************************************************************************)
(* The answer an agent gets and the ledger tell one story: paid is         *)
(* confirmed; free and a seller's error hold nothing; a refusal holds      *)
(* nothing either ("A refusal costs nothing") unless the authorization had *)
(* left, when the row stays reserved (the answer was lost) or confirmed    *)
(* (the body was).                                                         *)
(***************************************************************************)
AnswerMatchesLedger ==
    \A r \in Requests :
        job[r].pc = "answered" =>
            CASE job[r].outcome = "paid" -> Admitted(r) /\ RowOf(r).state = "confirmed"
              [] job[r].outcome \in {"free", "seller_error"} -> HoldsNothing(r)
              [] job[r].outcome = "refused" ->
                    IF job[r].sent THEN RowOf(r).state \in {"reserved", "confirmed"}
                                   ELSE HoldsNothing(r)

(***************************************************************************)
(* Attempts are "visible rather than hidden": the attempts of an intent    *)
(* are numbered 1, 2, 3, ... in the order they were reserved, although the *)
(* count is read outside the transaction that inserts the row.             *)
(***************************************************************************)
AttemptsNumbered ==
    \A i \in DOMAIN rows :
        rows[i].attempt = Cardinality({j \in 1..i : rows[j].intent = rows[i].intent})

(***************************************************************************)
(* The daemon implements Payment: whatever other requests, commands,       *)
(* sellers, crashes and restarts do, a request goes through the stages of  *)
(* one payment, its row with it, and both stay as they are once it ended.  *)
(***************************************************************************)
StageOf(pc) ==
    CASE pc = "idle" -> "new"
      [] pc \in InFlight -> "open"
      [] pc \in Finished -> "ended"

BudgetIn(state) ==
    CASE state \in {"reserved", "in_doubt"} -> "held"
      [] state = "confirmed" -> "spent"
      [] state = "released" -> "freed"

PaymentOf(r) ==
    [stage  |-> StageOf(job[r].pc),
     budget |-> IF Admitted(r) THEN BudgetIn(RowOf(r).state) ELSE "none",
     sent   |-> job[r].sent,
     answer |-> job[r].outcome]

Promised == INSTANCE Payment WITH payment <- [r \in Requests |-> PaymentOf(r)]

ImplementsPayment == Promised!PaymentSpec

(***************************************************************************)
(* Revoking an agent stops it and all its descendants: a request the gate  *)
(* has not decided when an agent of the chain is revoked stays undecided   *)
(* until it ends without an authorization, whatever is revoked, restarted  *)
(* or lost meanwhile.                                                      *)
(***************************************************************************)
Condemned(r) ==
    /\ job[r].pc \in {"probing", "gating"}
    /\ \E ancestor \in revoked : job[r].claim.agent \in Subtree[ancestor]

RevocationStopsRequests ==
    [][\A r \in Requests :
          Condemned(r) => \/ Condemned(r)'
                          \/ job'[r].pc \in Finished /\ ~ job'[r].sent]_vars

(***************************************************************************)
(* server.ts: "every request gets a terminal answer on the same            *)
(* connection".  It does unless the process ends first, whatever rejects   *)
(* or is refused on the way and whatever other requests do, with one       *)
(* exception: pay.ts waits for a seller's body as long as it keeps coming. *)
(***************************************************************************)
AnsweredUnlessBodyNeverEnds ==
    \A r \in Requests :
        job[r].pc # "idle" ~> job[r].pc \in Finished \/ [] AwaitsBody(r)

(***************************************************************************)
(* pay.ts, where a replay is refused: "The seller saw the payload and      *)
(* still refused, so no money moved", and the budget is released.          *)
(***************************************************************************)
ReleasedMeansNoMoney ==
    \A r \in Requests : Admitted(r) /\ HoldsNothing(r) => r \notin moved

(***************************************************************************)
(* README: "An indeterminate outcome enters in_doubt and keeps consuming   *)
(* the allowance until reconciled."  A refusal after the authorization     *)
(* left, with nothing confirmed, is such an outcome.                       *)
(***************************************************************************)
LostSettlementInDoubt ==
    \A r \in Requests :
        /\ job[r].pc = "answered"
        /\ job[r].sent
        /\ job[r].outcome = "refused"
        => RowOf(r).state \in {"confirmed", "in_doubt"}

(***************************************************************************)
(* envelope.ts: spendCapAtomic is the agent's "Maximum spend across        *)
(* periodSeconds", a rolling window.                                       *)
(***************************************************************************)
AgentSpendCap ==
    \A agent \in Agents, end \in Times :
        LET envelope == EnvelopeOf[agent]
            W == {i \in DOMAIN rows :
                    /\ rows[i].agent = agent
                    /\ rows[i].state # "released"
                    /\ end - envelope.period < rows[i].reservedAt
                    /\ rows[i].reservedAt <= end}
        IN  Abstract!SumOver(Holds, W) <= envelope.spendCap

(***************************************************************************)
(* gate.ts: "Two ceilings apply and both bind", the intent's among them,   *)
(* and a retry "re-checks the NEW quote against both".  No attempt of an   *)
(* intent reserves more than the ceiling the intent was opened with.       *)
(***************************************************************************)
IntentCeilingBinds ==
    \A i \in DOMAIN rows : rows[i].amount <= intents[rows[i].intent].ceiling

=============================================================================
