# Purser, specified

A TLA+ development of Purser (`src/`): a daemon that holds a wallet key and
decides whether an agent may spend. It says what the daemon, its ledger and its
agent store do, checks it with TLC on small instances, and proves the parts that
matter most with TLAPS for every instance. Paths below are relative to the
repository (`src/` is its implementation directory, so `ledger.ts` is
`src/ledger.ts`).

## 1. Inventory

| Component | State | Operations | Talks to |
| --- | --- | --- | --- |
| Pooled ledger (`ledger.ts`) | `agent_ledger` rows | reserve, confirm, release, markInDoubt, reconcileInDoubt, committedAtomic | the database, the clock |
| Agent store (`store.ts`) | `agents` rows: a forest | create, revoke, list, describe | allowances, the database |
| Envelopes (`envelope.ts`) | none | validateEnvelope, attenuates | |
| Allowance (`allowance.ts`) | one row per principal | set, require | the database |
| Intents (`intent.ts`) | `intents` rows | open, attemptCount, nextAttemptNo | the ledger's rows |
| Gate (`gate.ts`, `currency.ts`) | none | authenticate, admit, quoteFromRequirements | store, intents, allowance, ledger |
| Payment drive (`pay.ts`, `client.ts`) | one call in progress per request | pay | gate, wallet, seller, ledger |
| Server (`server.ts`) | connections, a buffer each | data, handle, error, close | agents, pay |
| Wallet (`wallet.ts`, `socket-wallet.ts`) | locked or not, the address it learned | signTypedData, lock | signer process |
| Signer (`signer/`) | key, policy | address, sign (validate, then sign), shutdown | wallets |
| Enforcement API (`enforcement.ts`) | none; the host holds the `Authorization` | authorizePayment, settlePayment | store, allowance, ledger |
| CLI (`cli.ts`) | a process per command | init, agent add, agent list, agent revoke, run | the same database file |
| Storage (`storage.ts`) | the SQLite file | transactions, ensurePrincipal | |
| Credentials, entry point | none | sign and verify a claim, re-exports | |

How they interact. An agent writes a signed claim to the socket. The daemon
authenticates it, probes the seller, reads the price from its 402, and in the
payment hook runs `admit`: authenticate again, check the price, open an intent,
count its attempts, read the allowance, reserve. Then it signs, replays the
request with the signature, and confirms or releases the reservation. All this is
one `async` function per request, over one event loop. The CLI commands are other
processes on the same database file. A host program can do without the daemon: it
links the library, calls `authorizePayment`, pays by itself (with a wallet that
asks the signer process, if it likes) and reports with `settlePayment`.

What is hard: several requests between their awaits; CLI processes between two
statements of the gate; a process that ends anywhere; answers of sellers that are
lost or that do not match what they do on chain; a clock that is set back; a
signer that disappears, or comes back with another key; bytes that arrive in
pieces, on connections that several requests share; hosts that end between paying
and reporting; first commands that race. PROJECT.json lists each of these under `hazards`, at its
line, with the property that would catch it going wrong.

What makes the parts correct:

- ledger: in every rolling window the money held or spent is within the
  allowance; a settled row is final; a row in doubt counts;
- store: a revocation covers the subtree; envelopes only narrow downwards, and each
  fits an allowance its account had at some time before the agent was issued;
- drive: no authorization leaves without a reservation of its price; money that
  moved stays covered; the answer and the ledger agree; a request is answered unless it waits for a
  body that never ends;
- gate: a request not decided when its agent is revoked never pays;
- server: a line is handled once, whole, and answered once, where it was written,
  as long as the process lives, and a line that is no request does not end it;
- signer: it signs what the policy allows and nothing else;
- enforcement: what the ledger says of a payment is what became of it;
- bootstrap: there is one account, whatever the first commands did.

## 2. Modules

| Module | What it is |
| --- | --- |
| `Sums` | the sum of the first n entries of a function, as a recursive function |
| `Pool` | abstract: money is held, then spent or freed; no window exceeds its allowance |
| `Ledger` | `ledger.ts` with its rows and the clock; `Abstract` is the mapping to `Pool` |
| `Payment` | abstract: the course of one payment and of its budget, from asked to ended |
| `Quoting` | from an offer of a seller to a quote: `quoteFromRequirements`, `currency.ts` |
| `Daemon` | requests in flight, gate, wallet, CLI, sellers, over `Ledger` and `Quoting`; `Promised` is the mapping to `Payment` |
| `Sockets` | the connections of the daemon, over `Daemon`, whole |
| `Envelope` | `envelope.ts` |
| `AgentStore` | `store.ts` and `allowance.ts`, by concurrent processes |
| `Enforcement` | `enforcement.ts` in a host that pays, reports, reconciles and ends, over `Ledger` |
| `Commands` | the CLI's commands and `ensurePrincipal`, over `Enforcement` |
| `SigningPolicy` | `validate.ts` and the wire of `protocol.ts`, as operators |
| `Signer` | the signer process and the wallet that asks it, over `SigningPolicy` |
| `Library` | a host with the API, the commands and the signer together |
| `SumsProofs`, `LedgerProofs`, `AgentStoreProofs`, `SignerProofs`, `LibraryProofs`, `DaemonProofs`, `PaymentProofs`, `SocketsProofs` | lemmas and theorems |
| `MCLedger`, `MCDaemon`, `MCSockets`, `MCAgentStore`, `MCLibrary` | small instances |

Composition: `Daemon` extends `Ledger` and takes its steps as parts of its own
(`Reserve`, `Confirm`, `Release`); `Sockets` extends `Daemon`, begins its requests
from lines and turns their outcomes into replies. `Commands` extends `Enforcement`,
which extends `Ledger`; `Library` joins them with `Signer`: one clock, one host
process that holds payments and wallet, and a payment that is sent once it is
signed. `AgentStore` extends `Envelope`.

### Correspondence

*Ledger.* A row of `agent_ledger` is a record; its id is its position, since rows
are inserted and never deleted. Each operation runs in one `BEGIN IMMEDIATE`
transaction, so it is one action; one that throws changes nothing and is not a
step. `reserve` reads the clock twice, for the window and for `reserved_at`: the
stamp is any time not before the first reading. A clock that is set back between
these two readings of one call is not modelled; between calls it may be set to
anything (`SetClock`). A period so large that the window starts before the range
of dates makes `toISOString` throw, and the reservation with it: the model's
times are integers and have no such limit. `reconcileInDoubt` reads the row
before its transaction; the reference it compares can change only when the row
leaves `in_doubt`, and then the update matches no row, so read and update are one
step. Statuses are reduced to settled, failed and the rest. `terms` is a history
variable: the allowance each row was admitted under.

*Pool.* `Governs` says which allowance judges a window: that of its newest
counted hold. An operator who lowers the allowance binds the next reservation;
the earlier ones were legal when made.

*Daemon.* `job[r].pc` is where the call of `pay` for request `r` stands:
`probing` (awaiting the seller's 402), `gating` (about to run `admit`),
`reserving` (inside `admit`, between its reads and the ledger's transaction),
`admitted`, `signing`, `replaying`, `reading` (the paid body), `hung`, `answered`
or `dropped` (the process ended). A step is what runs between two awaits, or a
part of it between two database statements where another process can get in.
`EventLoopFree` keeps other requests out of the synchronous stretch of `admit`.
Of what the statements of `Decide` read, only `revoked` and the allowance are
written by other processes, and each is read once, so a CLI step between two of
them is equivalent to one before or after `Decide`. In `admitted` the code has
only microtasks before it asks the wallet; letting other requests and a shutdown
in there adds behaviours and removes none. Amounts of money that moved are known
to the chain only: `moved` is a history variable, and `SellerSettles` may happen
at any time once an authorization was sent, whatever the seller answered. An
authorization's expiry is not modelled: it only ends what a seller may do.
Signatures and URL schemes are verdicts (`genuine`, or a probe that ends in a
refusal).

`AwaitsBody` says where a request waits for a body of a seller: of the probe
(`probing`, where the headers are awaited as well) or of the paid replay
(`reading`). A failing `release` inside the `catch` of `pay` (the database is busy
for longer than its timeout) is not modelled, and one daemon per database is
assumed: a second one would count attempts beside the first.

*Payment.* What `pay.ts`, `gate.ts`, `server.ts` and `ledger.ts` promise together
about one payment: its stage (new, open, ended), its budget (none, held, spent,
freed), whether an authorization left, and the answer. Budget is held before an
authorization leaves, one leaves at most, budget is freed only before that or when
the seller refuses, and after the end only the seller can still act. The mapping
reads the stage off `job[r].pc` and the budget off the state of the request's row,
in doubt included, so a step that touched another request's row, or the row of a
request that ended, would be no step of `Payment`. `Ignore` is a request the
process fails over before it is asked for anything.

*Quoting.* An offer is what the x402 client selected from a 402. `Usable` is what
the hook turns into a quote; an asset is looked up by its address alone, because
`cli.ts` passes no network, so the first entry of the table with that address
decides. Amounts are integers or `Malformed`.

*Sockets.* A line is a message and a newline, two symbols, so a chunk can end in
every way that matters: before the newline, at it, or after more. `Deliver` is a
`data` event with any part of what was written; it only appends to the buffer, and
the turns of the `while` loop are `HandleLine`, one per line. `LoopDone` keeps
everything else of the process out of the loop, because it is synchronous.
`handle` runs up to its first await in `HandleLine`; a line that is no request is
refused there, but for one: `null` is JSON, so reading its version throws, outside
any `try` (`server.ts` 51), and nobody handles the rejection of the promise (line
91). `FailLine` ends that request without an answer and sets `failing`; the rest of
the chunk is still handled, no other callback runs, and `UnhandledRejection` ends
the process. `Respond` writes the answer of each request that a step finishes to
the connection its line came on. When an agent closes its end, Node ends the other
one too (`allowHalfOpen` is not set), so answers of requests still in flight have
nowhere to go: `ReadEnd`. `Exit` is the callback of `server.close`, which waits for
all connections; `Crash` does not.

*AgentStore.* `create` reads the allowance and checks the envelope before its
transaction, so it is two actions, `CheckAccount` and `Issue`; `GiveUp` is a
transaction that throws or a process that ends between them. The recursive query
of `revoke` is the least set that holds the root and the children of its members.
In `Daemon` the agents are fixed and `Subtree` is that least set over `ParentOf`;
`AgentStore` is where agents come and go.

*Enforcement.* `authorizePayment` is synchronous, so within the host nothing runs
beside it (`HostFree`). It reads the agent and the allowance once each, then
reserves: a command that changes something between the reads is as good as one
before or after both, so `Check` is one step and `ReservePool`, in its own
transaction, the other. `onChain` is what became of the transaction of a payment,
known to the chain. The host is a truthful one (`Truthful`): it says `settled` or
`failed` when it knows, and `unknown`, with the reference or without, once it
sent. It may call `settlePayment` again and late, and reconcile any row it finds in
the database against the truth about any of its transactions (`Evidence`), also
after a host that ended took its `Authorization` objects with it.

*Commands.* Each statement of `ensurePrincipal` is a transaction of its own and a
step of its own, with any steps of other commands in between: a query that finds
nothing (`FindsNothing`), the insert (`InsertPrincipal`), and the query that finds
a row, be it the first or the one after the insert (`FindsPrincipal`). What the
command then does with the id it found is one more step (`Serves`); it may end
before each (`CommandEnds`, which also is all that `agent list` does). Two first
commands that both find nothing leave two rows. Ids are 1 to `principals`, since
rows are inserted without an id and never deleted. `get` returns the first row the
query finds; `label` has no index, so SQLite scans the table by id and `FirstRow` is
the least id there is at that time. That is a property of the engine and of the
schema, not of the query, which has no ORDER BY: with an index that orders rows
otherwise, or the id of the insert returned instead, `OneAccount` fails (its
mutant).

*SigningPolicy.* A payload is reduced to what `validateSigningRequest` looks at.
The wire is what it does to integers: a bigint goes as a tagged string and comes
back, a string stays a string. `Seconds` rounds the clock down.

*Signer.* An ask is a connection with one line and one reply. A wallet that is
locked and no wallet at all answer alike, so `wallet = Nobody` is both. A signer
told to stop locks its wallet and stays until its connections are closed; an exit
and a crash do the same to what waits, so they are one action (`SignerEnds`), and
a connection that is cut is an error to the asking side or an end that `ask` does
not notice (the finding of `daemon_signer`). The asking process may end too; what
it sent is still judged (`orphaned`).

*Library.* A payment is sent when its signature is there. Payments outside `Asks`
are signed by means of the host's own, which the API does not ask about.

## 3. Runs

| Run | Configuration | Shows |
| --- | --- | --- |
| `ledger` | `MCLedger.cfg` | windows stay within their allowance, settled rows are final, the ledger implements the pool |
| `ledger_in_doubt_ageing` | `MCLedgerDoubt.cfg` | finding: a row in doubt stops counting when it leaves the window |
| `store` | `MCAgentStore.cfg` | subtree revocation, attenuation along chains, the limit on agents, with two issuing processes |
| `daemon` | `MCDaemon.cfg` | authorizations, money moved, answers, attempt numbers, revocation of requests in flight |
| `sockets` | `MCSockets.cfg` | lines cut anywhere are handled once and answered where they came from; every line of an agent that stays is answered, a graceful exit included, unless the process dies or a body never ends; each request runs the course of a `Payment` |
| `sockets_null` | `MCSocketsNull.cfg` | finding: a line that is `null` ends the daemon instead of being refused |
| `library` | `MCLibrary.cfg` | the ledger is truthful about hosts that crash, the signer keeps to its policy, and commands that race for their principal share one account |
| `daemon_release` | `MCDaemonRelease.cfg` | finding: a refused replay releases budget the seller can still take |
| `daemon_lost` | `MCDaemonLost.cfg` | finding: a lost answer never enters `in_doubt` |
| `daemon_agent_cap` | `MCDaemonAgentCap.cfg` | finding: an envelope's spend cap is not enforced on payments |
| `daemon_intent` | `MCDaemonIntent.cfg` | finding: a retry is not held to the intent's ceiling |
| `daemon_signer` | `MCDaemonSigner.cfg` | finding: a signer that ends leaves a request unanswered, no body being awaited |

In the passing runs these findings are allowed for where the code's own
behaviour makes the stronger statement false: `MovedIsCoveredOrRefused` excepts a
seller's refusal (what the release run refutes), and `AnswerMatchesLedger`
describes what a refusal after a lost answer really leaves. `EveryLineAnswered`
excepts connections the process died over, whatever killed it; that a line did is
what `sockets_null` shows. `MovedIsCoveredOrRefused` is about the state of a row: a
row that ages out of the window is what `ledger_in_doubt_ageing` is about, for rows
in doubt. `IssuedUnderAnAllowance` says of an agent that it fits an allowance its
account once had, which is less than that it fits the one in force at the instant
of its row: `create` reads the allowance before its transaction.

### Bounds, and why they are enough

- *ledger*: three rows, three instants, two callers of one principal, two
  allowances with different caps and periods. The hazard needs a row that leaves
  a window, one that stays and a third that is admitted; the smaller allowance
  comes before or after the larger. Larger instances are covered by the theorem.
- *store*: three agents, so that an ancestor that is not a parent exists; two
  principals, two issuing processes, a limit of two live agents. Four envelopes:
  one with a higher rate but no higher cap, which only the cross-multiplication
  refuses, and one that is not valid.
- *daemon*: two requests, which is what it takes for one to interfere with
  another; each is sent at most once per behaviour, so a third party's retry is
  the second request. Claims: first tries, a retry of intent 1, a child agent
  bound by its envelope, a stale one, a forged one. Two prices, two allowances,
  two instants.
  The offers are one that is usable, one from another network with the same asset,
  and one for each way of not being usable.
- *sockets*: any two of three lines (a request, one that is none, and `null`), two
  connections, two requests. Both lines on one connection is the case for framing and shared
  buffers; on two, for answers that go astray. Time stands still and there is one
  price: the daemon's own run varies those.
- *library*: two payments for one place under the cap, one of them signed by the
  signer process; a clock of half seconds, so that rounding matters; a horizon of
  one second; two keys, so that a signer comes back with another one; two commands
  at once. Payloads carry bigints or, for each key, strings in their place. Before
  any payment begins, `MCBound` lets the commands race to their end and leave one
  row or two; payments then run beside commands that found the one row there is, at
  most one of which is between its query and what it does, as long as a payment is
  to come that reads it. What is left out (a second row or an insert beside
  payments, a command after the last payment was reserved) is nothing a payment
  reads. The theorems have no such bound.
- *daemon_signer* has one instant, since time only makes requests be refused.

Symmetry is used on requests, on processes, principals and keys, and on ledger
callers, only in runs without liveness properties. No run may deadlock: the clock or the
operator can always act.

### Fairness

`FairSpec` assumes weak fairness of the steps of each request, but of none while
the request waits for a body, and of nothing else. A ready continuation of the
event loop is run. `fetch` gives up on a peer that sends no headers (the HTTP
client of Node limits the connection and the headers), so a replay ends. It has no
such limit for a body: the one it has runs from chunk to chunk, so a seller that
streams or drips keeps `probe.text()` (`pay.ts` 37 and 48) and `replay.text()` (77)
pending for as long as it likes, and `pay` sets no limit of its own. Hence no
fairness in `probing` and `reading`, and the exception in
`AnsweredUnlessBodyNeverEnds`: a request that began ends, or waits for one body for
ever. Everything before, between and after the bodies is covered: lost
answers, refusals, a failing signature. Signing with a key in the process is a
computation. Agents need not send, sellers need not settle, the operator need not
act, and the process may end at any time. With `SplitSigner` the step `SignerGone`
is one of the steps of a request, and fairness does not help a request that waits on
a closed connection (`hung`, which is no body), which is what `daemon_signer`
shows.

`SocketsSpec` adds weak fairness of what the server does with each connection (bytes
that arrived are read, lines are handled, and the end of a connection is noticed)
and of `UnhandledRejection`, since Node ends a process over such a rejection.
Nothing is assumed of agents, of signals or of the connection lasting. It
uses the in-process wallet; the split one is the subject of `daemon_signer`.
`Library` assumes no fairness: nothing in it promises that a host reports.

## 4. Proofs

All proofs are checked by TLAPS, from the named assumptions on the constants
(`LedgerAssumption`, `EnvelopeAssumption`, `StoreAssumption`,
`EnforcementAssumption`, `CommandsAssumption`, `PolicyAssumption`,
`SignerAssumption`, `DaemonAssumption`, `SocketsAssumption`), which TLC also
evaluates in the runs.

*Ledger* (`LedgerProofs`), for any callers, amounts, allowances and times, any
number of rows, and a clock that jumps:

- `TypeCorrect`, `PoolNeverExceeded`, `SettledStaysSettled`, `LedgerImplementsPool`.

`EveryWindowWithinAllowance` speaks of windows anywhere on the time line, and
stamps may go back and forth, so it is not inductive. The invariant (`IInv`)
orders rows by id instead: for each consuming row k, the rows *up to k* that lie
in the window k was checked against weigh no more than the cap k was admitted
under. Appending a row leaves these sums alone for the earlier rows, and the
check in `reserve`, whose query has no upper end of the window, gives it for the
new one. Any other step only lowers sums. Given a window, its newest row k has
all the window's rows at or before it in id order, and since k's stamp is at most
the window's end, they all lie in k's own window; so the window weighs at most
k's cap. The refinement follows step by step: every step of the ledger appends a
row (`Place`, whose window condition is the invariant in the next state) or moves
an open row (`Settle`, or a stutter for `markInDoubt`).

The sums are recursive functions; `SumsProofs` proves what is needed about them
(monotone, additive, zero tails) by the least-number principle.

*Store* (`AgentStoreProofs`), for any envelopes, principals and processes:

- `StoreTypeCorrect`, `RevocationIsComplete`, `AttenuationIsInherited`,
  `TreesBelongToOnePrincipal`, `LimitNeverExceeded`, `AgentsFitTheirAccount`.

The invariant speaks of an agent and its parent only. `AttenuatesTransitive`
(with `RatesCompose` for the products) and the fact that the subtree lies in
every set closed under children carry it to all descendants without induction on
depth.

*Library* (`SignerProofs`, `LibraryProofs`), for any payments, asks, keys,
commands, rows, policies and clocks:

- `LibraryTypeCorrect`, `LedgerIsTruthful`, `LibraryIsALedger`,
  `HostsStayWithinAllowance`, `SignsWithinPolicy`, `RefusesForAReason`,
  `OneAccountForAll`.

`LedgerTellsTheTruth` is not inductive: a released row of a payment that was never
sent says nothing about what happens if it is sent afterwards. `RowsTellTheTruth`
adds that such a payment was reported, after which a truthful host does not send.
Reconciliation takes any row and any transaction; that only the payment's own row
moves follows from the reference an in-doubt row carries. The refinement needs
that a payment is reserved for a caller, a price and an allowance that exist
(`RequestsKnown`, `RowsHaveCallers`); with it each step of the host is a step of
the ledger or none, and the ledger's theorem on windows carries over.
`AcceptsWhatThePolicyAllows` is the policy part: the comparison in whole seconds
that `validate.ts` makes is the one on the clock (`WholeSeconds`), after a trip over
the wire. `OneAccount` is not inductive, for any number of commands and rows: what
a command writes depends on what it found some steps ago. `ServesThePrincipal`
carries that along: each command that serves found the principal of the gate
(`CommandsAssumption`: `principalId` is 1), which holds when it finds it because the
least id of a table with rows is 1 however many rows the race left
(`FirstRowIsOne`), and stays so because rows are only added.

*Daemon* (`DaemonProofs`), for any agents, claims, offers, envelopes, allowances
and times, and any finite number of requests:

- `DaemonTypeCorrect`, `LimitsBindAuthorizations`, `MovedMoneyIsCovered`,
  `AnswersTellTheLedger`, `AttemptsAreNumbered`, `RevocationReachesRequests`,
  `DaemonIsALedger`, `DaemonStaysWithinAllowance`.

One invariant, `DaemonInv`, carries all of them. None of the properties is
inductive: `AnswerMatchesLedger` speaks of requests that ended and
`AuthorizedWithinLimits` of those whose authorization left, and both depend on
what was true while the request was on its way.

- `JobsMatchRows` says for each place a request may be at what the daemon holds
  about it (`WithoutRow`, before the reservation) and in which state its own row is
  (`WithRow`, `Progress`, after it), a request dropped by a crash included. That
  `confirm` and `release` find the row in a state they move it from follows from
  it, and so do the answers.
- `OwnReservations` keeps a transition of one request's row away from the others.
- `RowsHaveHolders` counts: as many rows as requests with a reservation. A request
  without one leaves a number for its attempt, which is why the attempts stay in
  range; `IntentsHaveOpeners` does the same for intents.
- `OneReserves` and `CountIsCurrent`: at most one request is between the count of
  attempts and the insert, so the count is still right at the insert, although it
  is read outside the transaction. Without the first the second is not kept.
- the revoked agents are closed under children, so a request whose agent is below
  a revoked one fails `authenticate` whenever it reaches the gate.

`DaemonIsALedger` is the step-by-step simulation: a call of the daemon on the
ledger has a caller, a price, an allowance, an intent and an attempt of the
ledger's types (`Entitled`, `PlannedReservation`), every other step leaves the
table alone. With it the ledger's theorem on windows holds of the daemon,
although it reads the allowance before the transaction that checks it.

*Payment* (`PaymentProofs`), under the same assumptions:

- `DaemonImplementsPayment`, and in `SocketsProofs` `SocketsImplementPayment`.

A step of one request changes its own payment at most, because a row it moves is
its own (`OnePaymentMoves`, from `OwnReservations`); where that payment stood is
what `WithoutRow` and `BeyondTheGate` say of the request. Each action of the
daemon then is one of `Payment`, or none: probing further, deciding, beginning to
sign and losing the signer leave the payment alone, `Stop` is `Interrupt`, and a
line that is no request is a payment denied before it was asked for, or ignored
when the process fails over it (`TurnedAwayPays`). `Payment`
does not restrict what the answer `refused` after an authorization leaves (held or
spent), because the code does not.

*Sockets* (`SocketsProofs`), for any connections and messages, and any way of
cutting bytes into chunks:

- `SocketsTypeCorrect`, `AnswersGoWhereAsked`,
  `SocketsKeepTheDaemonsPromises`, `RevocationReachesTheSocket`,
  `SocketsImplementPayment`, `SocketsStayWithinAllowance`.

The invariant follows the bytes. `InOrder` says that on every connection there is
a number h such that what the server has not handled, the buffer followed by the
unread stream, is the messages after the first h, each with its newline
(`Framed`), and that each request of the connection is one of the first h. Writing
adds a message at the end (`FramedWithAnother`), a chunk moves bytes from the
stream to the buffer and leaves their concatenation alone, and a turn of the loop
cuts exactly message h + 1 (`FirstNewline`, `CutFirstLine`) and makes h one
larger, so no message becomes two requests. A step of a request finishes at most
that one (`AdvanceMoves`, `HandlingMoves`), so `Respond` writes at most one reply;
`NoReplyTooMany` counts replies against the answered requests of the connection.
A step of `Sockets` is a step of `Daemon` or turns a line away
(`SocketsStepTheDaemon`); the latter is not a step of `Daemon` and keeps
`DaemonInv` by itself, so that all of the daemon's theorems hold behind the
socket.

The refinement is checked in the `sockets` run, whose steps are those of the daemon
and the socket's; in the larger state space of the `daemon` run it holds too, but
takes longer than the rest of that run. `DaemonInv` and the parts of `SocketsInv` were checked with TLC on the instances
of the `daemon` and `sockets` runs before they were proved.

*Only model-checked*: the liveness properties `EveryLineAnswered` and
`AnsweredUnlessBodyNeverEnds`, since fairness and ENABLED are out of the prover's reach (so
is induction over data that takes an operator as a parameter). Every safety
property of a passing run has a theorem. What the findings say is shown by the
counterexamples of their runs.

## 5. Not modelled

- `credential.ts`: signatures and their canonical bytes; the verdict is part of a
  claim (`genuine`).
- `index.ts`, wording of reasons, file permissions, key input, the smoke scripts:
  re-exports, I/O, and things no property here is about.
- Socket paths: two daemons on one path remove each other's socket. So does the
  start of one while another closes.
- Chunks that end inside a multi-byte character, which `chunk.toString()` turns
  into replacement characters: characters are whole. Requests and replies of the
  signer's socket arrive whole too; its framing is that of `server.ts`.
- Digits: that a uint256 keeps its value as a decimal string.
- The clock set back between two readings of one call, and periods too large for
  a date, as said under *Ledger*.

- A `release` that fails inside the `catch` of `pay`, and two daemons on one
  database, as said under *Daemon*.
- The signer's `handle` reads the version of `null` outside a `try` too
  (`signer/server.ts` 38); it is no action of its own, since `SignerEnds` may happen
  at any time.

Disagreements of the code with what is written beside it that no run is about:

- `ledger.ts` calls reconciliation "the only path out of `in_doubt`" (line 174);
  `confirm` (line 156) takes a row out of it as well, under any reference. The model
  follows the code (`ConfirmableFrom`): a host that reports `unknown` and later
  `settled` does it, and `library` shows that the row then tells the truth.
- `enforcement.ts` says at its head and over `settlePayment` that an unknown outcome
  never releases (lines 7 and 127); its code releases one that comes without a
  reference, and says why there (lines 136 to 141). The model follows the code, and
  `LedgerTellsTheTruth` makes the exception explicit.
- `server.ts` says every request gets a terminal answer (line 8); one whose seller
  never ends a body does not, as said under *Fairness*. The two liveness properties
  make the exception explicit.

## 6. Plan

Done: `Sums`, `Pool`, `Ledger` and its proofs, the refinement to `Pool`, `Quoting`,
`Daemon` with its safety and findings and its proofs, its refinement of `Payment`, `Sockets` with liveness and
its proofs, `Envelope`, `AgentStore` and its proofs, `Enforcement`, `Commands`,
`SigningPolicy`, `Signer`, `Library` and its proofs.

`Commands` and `Sockets` keep the races of the first commands and the end of the
process over a line, statement by statement.

Next: two daemons on one database, each with its own event loop, to see which of the
daemon's properties rest on there being one.
