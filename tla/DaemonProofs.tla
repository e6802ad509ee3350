---------------------------- MODULE DaemonProofs ----------------------------
(***************************************************************************)
(* The theorems about the daemon, for every set of agents, claims, offers, *)
(* envelopes, allowances and times, and any finite number of requests.     *)
(* The inductive invariant tells, for each place a request may be at, what *)
(* the daemon holds about it and in which state its own row is.            *)
(***************************************************************************)
EXTENDS Daemon, LedgerProofs, FiniteSetTheorems

Jobs == [pc: {"idle"} \cup InFlight \cup Finished,
         claim: Claims \cup {None},
         quote: Quotes \cup {None},
         plan: Plans \cup {None},
         reservation: Nat,
         sent: BOOLEAN,
         outcome: {"none", "paid", "refused", "free", "seller_error"}]

IntentRow == [agent: Agents, ceiling: Amounts, currency: Currencies]

TablesOK ==
    /\ intents \in Seq(IntentRow)
    /\ allowance \in Allowances \cup {None}
    /\ revoked \subseteq Agents
    /\ daemon \in {"up", "closing", "down"}
    /\ moved \subseteq Requests

(* The quote of the request is within the ceiling its agent signed and the *)
(* one of its envelope.                                                    *)
Entitled(j) ==
    /\ j.claim \in Claims
    /\ j.quote \in Quotes
    /\ j.quote.price <= j.claim.ceiling
    /\ j.quote.price <= EnvelopeOf[j.claim.agent].maxPerTx

(* What is known of a request that has no reservation.                     *)
WithoutRow(j) ==
    /\ ~ j.sent
    /\ \/ j.pc \in {"idle", "dropped"} /\ j.outcome = "none"
       \/ j.pc = "probing" /\ j.outcome = "none" /\ j.claim \in Claims
       \/ j.pc = "gating" /\ j.outcome = "none" /\ j.claim \in Claims /\ j.quote \in Quotes
       \/ j.pc = "reserving" /\ j.outcome = "none" /\ Entitled(j) /\ j.plan \in Plans
       \/ j.pc = "answered" /\ j.outcome \in {"refused", "free", "seller_error"}

(* How far a request got, what it was answered and the state of its row.   *)
Progress(pc, sent, outcome, state) ==
    \/ /\ pc \in {"admitted", "signing", "hung"} /\ ~ sent
       /\ outcome = "none" /\ state = "reserved"
    \/ pc = "replaying" /\ sent /\ outcome = "none" /\ state = "reserved"
    \/ pc = "reading" /\ sent /\ outcome = "none" /\ state = "confirmed"
    \/ pc = "dropped" /\ outcome = "none" /\ state \in {"reserved", "confirmed"}
    \/ pc = "answered" /\ sent /\ outcome = "paid" /\ state = "confirmed"
    \/ pc = "answered" /\ sent /\ outcome = "seller_error" /\ state = "released"
    \/ pc = "answered" /\ sent /\ outcome = "refused" /\ state \in {"reserved", "confirmed"}
    \/ pc = "answered" /\ ~ sent /\ outcome = "refused" /\ state = "released"

(* What is known of a request that has one, and of its row.                *)
WithRow(j, row) ==
    /\ Entitled(j)
    /\ row.agent = j.claim.agent
    /\ row.principal = ThePrincipal
    /\ row.currency = j.quote.currency
    /\ row.amount = j.quote.price
    /\ Progress(j.pc, j.sent, j.outcome, row.state)

JobsMatchRows ==
    \A r \in Requests :
        IF job[r].reservation = 0
        THEN WithoutRow(job[r])
        ELSE /\ job[r].reservation <= Len(rows)
             /\ WithRow(job[r], rows[job[r].reservation])

OwnReservations ==
    \A q, r \in Requests :
        job[q].reservation = job[r].reservation => q = r \/ job[q].reservation = 0

(* Each row is held by one request, so a request without one leaves room   *)
(* for its attempt.                                                        *)
Holders == {r \in Requests : job[r].reservation # 0}
RowsHaveHolders == Cardinality(Holders) = Len(rows)

(* An intent is opened by a request that leaves the gate with it.          *)
Undecided == {"idle", "probing", "gating"}
Decided == {r \in Requests : job[r].pc \notin Undecided}
IntentsHaveOpeners == Len(intents) <= Cardinality(Decided)

(* The count of attempts a decision was made with is the count at the      *)
(* insert, since one request at a time is between the two.                 *)
OneReserves ==
    \A q, r \in Requests : job[q].pc = "reserving" /\ job[r].pc = "reserving" => q = r

CountIsCurrent ==
    \A r \in Requests :
        job[r].pc = "reserving" =>
            job[r].plan.attempt = AttemptCount(job[r].plan.intent) + 1

DaemonParts ==
    /\ job \in [Requests -> Jobs]
    /\ TablesOK
    /\ JobsMatchRows
    /\ OwnReservations
    /\ RowsHaveHolders
    /\ IntentsHaveOpeners
    /\ OneReserves
    /\ CountIsCurrent
    /\ AttemptsNumbered
    /\ \A r \in moved : job[r].sent
    /\ ClosedUnderChildren(revoked)

DaemonInv == TypeOK /\ DaemonParts

Assumptions == LedgerAssumption /\ DaemonAssumption

-----------------------------------------------------------------------------
(* Subtrees.                                                               *)

LEMMA SubtreeIsClosed ==
  ASSUME NEW agent \in Agents
  PROVE  agent \in Subtree[agent] /\ ClosedUnderChildren(Subtree[agent])
<1>1. Subtree[agent] = {a \in Agents : \A S \in SUBSET Agents :
                           agent \in S /\ ClosedUnderChildren(S) => a \in S}
  BY DEF Subtree
<1> QED BY <1>1 DEF ClosedUnderChildren

(* A set that is closed under children has the subtrees of its members.    *)
LEMMA SubtreeWithin ==
  ASSUME NEW S \in SUBSET Agents, ClosedUnderChildren(S), NEW agent \in S
  PROVE  Subtree[agent] \subseteq S
<1>1. Subtree[agent] = {a \in Agents : \A T \in SUBSET Agents :
                           agent \in T /\ ClosedUnderChildren(T) => a \in T}
  BY DEF Subtree
<1> QED BY <1>1

-----------------------------------------------------------------------------
(* Counting.                                                               *)

LEMMA RowsAreNumbered ==
  ASSUME TypeOK
  PROVE  DOMAIN rows = 1..Len(rows) /\ Len(rows) \in Nat /\ \A i \in DOMAIN rows : rows[i] \in Row
  BY LenProperties DEF TypeOK

LEMMA RequestsFinite ==
  ASSUME DaemonAssumption
  PROVE  /\ IsFiniteSet(Requests) /\ Cardinality(Requests) \in Nat
         /\ IsFiniteSet(Holders) /\ Cardinality(Holders) \in Nat
         /\ IsFiniteSet(Decided) /\ Cardinality(Decided) \in Nat
         /\ Cardinality(Holders) <= Cardinality(Requests)
         /\ Cardinality(Decided) <= Cardinality(Requests)
<1>1. IsFiniteSet(Requests)
  BY DEF DaemonAssumption
<1>2. Holders \in SUBSET Requests /\ Decided \in SUBSET Requests
  BY DEF Holders, Decided
<1> QED BY <1>1, <1>2, FS_Subset, FS_CardinalityType

(* The attempts of an intent are among the rows.                           *)
LEMMA AttemptsAmongRows ==
  ASSUME TypeOK, NEW intent
  PROVE  /\ IsFiniteSet({i \in DOMAIN rows : rows[i].intent = intent})
         /\ AttemptCount(intent) \in Nat
         /\ AttemptCount(intent) <= Len(rows)
<1> DEFINE S == {i \in DOMAIN rows : rows[i].intent = intent}
<1>1. Len(rows) \in Nat /\ S \in SUBSET (1..Len(rows))
  BY RowsAreNumbered
<1>2. IsFiniteSet(1..Len(rows)) /\ Cardinality(1..Len(rows)) = Len(rows)
  <2>1. ASSUME NEW n \in Nat
        PROVE  IsFiniteSet(1..n) /\ Cardinality(1..n) = n
    <3>1. /\ IsFiniteSet(1..n)
          /\ Cardinality(1..n) = IF 1 > n THEN 0 ELSE n - 1 + 1
      BY FS_Interval
    <3> QED BY <3>1
  <2> QED BY <1>1, <2>1
<1>3. IsFiniteSet(S) /\ Cardinality(S) <= Len(rows)
  BY <1>1, <1>2, FS_Subset
<1>4. Cardinality(S) \in Nat
  BY <1>3, FS_CardinalityType
<1> QED BY <1>3, <1>4 DEF AttemptCount

(* A request without a row leaves one number for its attempt.              *)
LEMMA RoomForAnAttempt ==
  ASSUME DaemonAssumption, TypeOK, RowsHaveHolders,
         NEW r \in Requests, job[r].reservation = 0, NEW intent
  PROVE  AttemptCount(intent) + 1 \in Attempts
<1>1. Holders \in SUBSET (Requests \ {r})
  BY DEF Holders
<1>2. /\ IsFiniteSet(Requests \ {r})
      /\ Cardinality(Requests \ {r}) = Cardinality(Requests) - 1
  BY FS_RemoveElement DEF DaemonAssumption
<1>3. Cardinality(Holders) <= Cardinality(Requests) - 1
  BY <1>1, <1>2, FS_Subset
<1>4. Len(rows) + 1 <= Cardinality(Requests) /\ Cardinality(Requests) \in Nat
  BY <1>3, RequestsFinite, RowsAreNumbered DEF RowsHaveHolders
<1>5. AttemptCount(intent) \in Nat /\ AttemptCount(intent) <= Len(rows) /\ Len(rows) \in Nat
  BY AttemptsAmongRows, RowsAreNumbered
<1>6. AttemptCount(intent) + 1 \in 1..Cardinality(Requests)
  BY <1>4, <1>5
<1> QED BY <1>6 DEF DaemonAssumption

(* A step that keeps what each row reserves keeps the counts of attempts.  *)
LEMMA SameRowsSameCounts ==
  ASSUME TypeOK, DOMAIN rows' = DOMAIN rows,
         \A i \in DOMAIN rows : SameReservation(rows'[i], rows[i])
  PROVE  /\ \A intent : AttemptCount(intent)' = AttemptCount(intent)
         /\ AttemptsNumbered => AttemptsNumbered'
<1>1. ASSUME NEW intent
      PROVE  AttemptCount(intent)' = AttemptCount(intent)
  <2>1. {i \in DOMAIN rows' : rows'[i].intent = intent}
          = {i \in DOMAIN rows : rows[i].intent = intent}
    BY DEF SameReservation
  <2> QED BY <2>1 DEF AttemptCount
<1>2. ASSUME AttemptsNumbered, NEW i \in DOMAIN rows
      PROVE  rows'[i].attempt = Cardinality({j \in 1..i : rows'[j].intent = rows'[i].intent})
  <2>1. 1..i \subseteq DOMAIN rows
    BY RowsAreNumbered
  <2>2. {j \in 1..i : rows'[j].intent = rows'[i].intent}
          = {j \in 1..i : rows[j].intent = rows[i].intent}
    BY <2>1 DEF SameReservation
  <2>3. rows[i].attempt = Cardinality({j \in 1..i : rows[j].intent = rows[i].intent})
    BY <1>2 DEF AttemptsNumbered
  <2> QED BY <2>2, <2>3 DEF SameReservation
<1> QED BY <1>1, <1>2 DEF AttemptsNumbered

-----------------------------------------------------------------------------
(* One request moves, and its own row with it or none.                     *)

OwnRowMoves(r) ==
    /\ DOMAIN rows' = DOMAIN rows
    /\ Len(rows') = Len(rows)
    /\ \A i \in DOMAIN rows : /\ SameReservation(rows'[i], rows[i])
                              /\ i # job[r].reservation => rows'[i] = rows[i]

LEMMA OneJobMoves ==
  ASSUME DaemonAssumption, TypeOK, DaemonParts,
         NEW r \in Requests, NEW new \in Jobs,
         job' = [job EXCEPT ![r] = new],
         new.reservation = job[r].reservation,
         job[r].sent => new.sent,
         job[r].pc \notin Undecided => new.pc \notin Undecided,
         new.pc = "reserving" => /\ EventLoopFree
                                 /\ new.plan.attempt = AttemptCount(new.plan.intent) + 1,
         OwnRowMoves(r),
         IF new.reservation = 0 THEN WithoutRow(new) ELSE WithRow(new, rows'[new.reservation]),
         intents' \in Seq(IntentRow),
         \/ Len(intents') = Len(intents)
         \/ /\ Len(intents') = Len(intents) + 1
            /\ job[r].pc \in Undecided /\ new.pc \notin Undecided,
         UNCHANGED <<allowance, revoked, daemon, moved>>
  PROVE  DaemonParts'
<1>1. job \in [Requests -> Jobs]
  BY DEF DaemonParts
<1>2. job' \in [Requests -> Jobs] /\ job'[r] = new /\ \A q \in Requests \ {r} : job'[q] = job[q]
  BY <1>1
<1>3. \A q \in Requests : job'[q].reservation = job[q].reservation
  BY <1>2
<1>4. TablesOK'
  BY DEF DaemonParts, TablesOK
<1>5. JobsMatchRows'
  <2>1. ASSUME NEW q \in Requests
        PROVE  IF job'[q].reservation = 0
               THEN WithoutRow(job'[q])
               ELSE /\ job'[q].reservation <= Len(rows')
                    /\ WithRow(job'[q], rows'[job'[q].reservation])
    <3>1. IF job[q].reservation = 0
          THEN WithoutRow(job[q])
          ELSE /\ job[q].reservation <= Len(rows)
               /\ WithRow(job[q], rows[job[q].reservation])
      BY DEF DaemonParts, JobsMatchRows
    <3>2. CASE q = r
      BY <1>2, <3>1, <3>2 DEF OwnRowMoves
    <3>3. CASE q # r
      <4>1. job'[q] = job[q] /\ job[q].reservation \in Nat
        BY <1>1, <1>2, <3>3 DEF Jobs
      <4>2. CASE job[q].reservation = 0
        BY <3>1, <4>1, <4>2
      <4>3. CASE job[q].reservation # 0
        <5>1. job[q].reservation \in DOMAIN rows
          BY <3>1, <4>1, <4>3, RowsAreNumbered
        <5>2. job[q].reservation # job[r].reservation
          BY <3>3, <4>3 DEF DaemonParts, OwnReservations
        <5> QED BY <3>1, <4>1, <4>3, <5>1, <5>2 DEF OwnRowMoves
      <4> QED BY <4>2, <4>3
    <3> QED BY <3>2, <3>3
  <2> QED BY <2>1 DEF JobsMatchRows
<1>6. OwnReservations'
  BY <1>3 DEF DaemonParts, OwnReservations
<1>7. RowsHaveHolders'
  <2>1. Holders' = Holders
    BY <1>3 DEF Holders
  <2> QED BY <2>1 DEF DaemonParts, RowsHaveHolders, OwnRowMoves
<1>8. IntentsHaveOpeners'
  <2>1. CASE job[r].pc \in Undecided /\ new.pc \notin Undecided
    <3>1. Decided' = Decided \cup {r} /\ r \notin Decided
      BY <1>2, <2>1 DEF Decided
    <3>2. Cardinality(Decided') = Cardinality(Decided) + 1
      BY <3>1, RequestsFinite, FS_AddElement
    <3>3. Len(intents) \in Nat /\ Cardinality(Decided) \in Nat
      BY LenProperties, RequestsFinite DEF DaemonParts, TablesOK
    <3> QED BY <3>2, <3>3 DEF DaemonParts, IntentsHaveOpeners
  <2>2. CASE ~ (job[r].pc \in Undecided /\ new.pc \notin Undecided)
    <3>1. Decided' = Decided
      BY <1>2, <2>2 DEF Decided
    <3> QED BY <2>2, <3>1 DEF DaemonParts, IntentsHaveOpeners
  <2> QED BY <2>1, <2>2
<1>9. OneReserves'
  <2>1. CASE new.pc = "reserving"
    BY <1>2, <2>1 DEF EventLoopFree, OneReserves
  <2>2. CASE new.pc # "reserving"
    BY <1>2, <2>2 DEF DaemonParts, OneReserves
  <2> QED BY <2>1, <2>2
<1>10. \A intent : AttemptCount(intent)' = AttemptCount(intent)
  BY SameRowsSameCounts DEF OwnRowMoves
<1>11. CountIsCurrent'
  BY <1>2, <1>10 DEF DaemonParts, CountIsCurrent
<1>12. AttemptsNumbered'
  BY SameRowsSameCounts DEF OwnRowMoves, DaemonParts
<1>13. (\A q \in moved : job[q].sent)' /\ ClosedUnderChildren(revoked)'
  <2>1. moved' = moved /\ revoked' = revoked /\ moved \subseteq Requests
    BY DEF DaemonParts, TablesOK
  <2> QED BY <1>2, <2>1 DEF DaemonParts, ClosedUnderChildren
<1> QED BY <1>2, <1>4, <1>5, <1>6, <1>7, <1>8, <1>9, <1>11, <1>12, <1>13 DEF DaemonParts

-----------------------------------------------------------------------------
(* The reservation.                                                        *)

(* Where a request may be tells whether it has a row.                      *)
LEMMA WhereItStands ==
  ASSUME TypeOK, DaemonParts, NEW r \in Requests
  PROVE  /\ job[r] \in Jobs
         /\ job[r].reservation = 0 => WithoutRow(job[r])
         /\ job[r].reservation # 0 => /\ job[r].reservation \in DOMAIN rows
                                      /\ WithRow(job[r], rows[job[r].reservation])
<1>1. job[r] \in Jobs
  BY DEF DaemonParts
<1>2. job[r].reservation \in Nat
  BY <1>1 DEF Jobs
<1> QED BY <1>1, <1>2, RowsAreNumbered DEF DaemonParts, JobsMatchRows

(* What the gate passes on to the ledger is of the ledger's types.         *)
LEMMA PlannedReservation ==
  ASSUME DaemonAssumption, TypeOK, DaemonParts, NEW r \in Requests, job[r].pc = "reserving",
         job[r].plan.intent \in DOMAIN intents
  PROVE  /\ job[r].reservation = 0 /\ ~ job[r].sent /\ job[r].outcome = "none"
         /\ Entitled(job[r])
         /\ JobCaller(r) \in Callers
         /\ job[r].quote.price \in Amounts
         /\ job[r].quote.currency \in Currencies
         /\ job[r].plan.allowance \in Allowances
         /\ job[r].plan.intent \in Intents
         /\ job[r].plan.attempt \in Attempts
         /\ job[r].plan.attempt = AttemptCount(job[r].plan.intent) + 1
<1>1. /\ job[r].reservation = 0 /\ ~ job[r].sent /\ job[r].outcome = "none"
      /\ Entitled(job[r]) /\ job[r].plan \in Plans
  BY WhereItStands DEF WithoutRow, WithRow, Progress
<1>2. JobCaller(r) \in Callers /\ job[r].quote.price \in Amounts /\ job[r].quote.currency \in Currencies
  BY <1>1 DEF DaemonAssumption, Entitled, JobCaller
<1>3. job[r].plan.allowance \in Allowances /\ job[r].plan.attempt \in Attempts
  BY <1>1 DEF Plans
<1>4. job[r].plan.intent \in Intents
  <2>1. DOMAIN intents = 1..Len(intents) /\ Len(intents) \in Nat
    BY LenProperties DEF DaemonParts, TablesOK
  <2>2. Len(intents) <= Cardinality(Requests) /\ Cardinality(Requests) \in Nat
    BY <2>1, RequestsFinite DEF DaemonParts, IntentsHaveOpeners
  <2>3. job[r].plan.intent \in 1..Cardinality(Requests)
    BY <2>1, <2>2
  <2> QED BY <2>3 DEF DaemonAssumption
<1>5. job[r].plan.attempt = AttemptCount(job[r].plan.intent) + 1
  BY DEF DaemonParts, CountIsCurrent
<1> QED BY <1>1, <1>2, <1>3, <1>4, <1>5

(* The attempt of an appended row counts the row itself.                   *)
LEMMA AppendedAttempt ==
  ASSUME TypeOK, AttemptsNumbered, NEW intent,
         DOMAIN rows' = DOMAIN rows \cup {Len(rows) + 1}, Len(rows') = Len(rows) + 1,
         \A i \in DOMAIN rows : rows'[i] = rows[i],
         rows'[Len(rows) + 1].intent = intent,
         rows'[Len(rows) + 1].attempt = AttemptCount(intent) + 1
  PROVE  AttemptsNumbered'
<1> DEFINE n == Len(rows)
<1>1. DOMAIN rows = 1..n /\ n \in Nat
  BY RowsAreNumbered
<1>2. ASSUME NEW i \in DOMAIN rows
      PROVE  rows'[i].attempt = Cardinality({j \in 1..i : rows'[j].intent = rows'[i].intent})
  <2>1. 1..i \subseteq DOMAIN rows
    BY <1>1
  <2>2. {j \in 1..i : rows'[j].intent = rows'[i].intent}
          = {j \in 1..i : rows[j].intent = rows[i].intent}
    BY <2>1
  <2> QED BY <2>2 DEF AttemptsNumbered
<1>3. rows'[n + 1].attempt = Cardinality({j \in 1..(n + 1) : rows'[j].intent = intent})
  <2> DEFINE S == {i \in DOMAIN rows : rows[i].intent = intent}
  <2>1. 1..(n + 1) = DOMAIN rows \cup {n + 1} /\ n + 1 \notin DOMAIN rows
    BY <1>1
  <2>2. {j \in 1..(n + 1) : rows'[j].intent = intent} = S \cup {n + 1} /\ n + 1 \notin S
    BY <2>1
  <2>3. IsFiniteSet(S) /\ Cardinality(S) = AttemptCount(intent)
    BY AttemptsAmongRows DEF AttemptCount
  <2> HIDE DEF S, n
  <2>4. Cardinality(S \cup {n + 1}) = Cardinality(S) + 1
    BY <2>2, <2>3, FS_AddElement
  <2> QED BY <2>2, <2>3, <2>4 DEF n
<1>4. ASSUME NEW i \in DOMAIN rows'
      PROVE  rows'[i].attempt = Cardinality({j \in 1..i : rows'[j].intent = rows'[i].intent})
  <2>1. CASE i \in DOMAIN rows
    BY <1>2, <2>1
  <2>2. CASE i = n + 1
    BY <1>3, <2>2
  <2> QED BY <2>1, <2>2
<1> QED BY <1>4 DEF AttemptsNumbered

(* The row of the request that reserves.                                   *)
LEMMA ReservedRow ==
  ASSUME TypeOK, NEW r \in Requests,
         Reserve(JobCaller(r), job[r].quote.price, job[r].quote.currency,
                 job[r].plan.allowance, job[r].plan.intent, job[r].plan.attempt)
  PROVE  /\ DOMAIN rows' = DOMAIN rows \cup {Len(rows) + 1} /\ Len(rows') = Len(rows) + 1
         /\ \A i \in DOMAIN rows : rows'[i] = rows[i]
         /\ rows'[Len(rows) + 1].state = "reserved"
         /\ rows'[Len(rows) + 1].agent = job[r].claim.agent
         /\ rows'[Len(rows) + 1].principal = ThePrincipal
         /\ rows'[Len(rows) + 1].amount = job[r].quote.price
         /\ rows'[Len(rows) + 1].currency = job[r].quote.currency
         /\ rows'[Len(rows) + 1].intent = job[r].plan.intent
         /\ rows'[Len(rows) + 1].attempt = job[r].plan.attempt
<1>1. JobCaller(r).agent = job[r].claim.agent /\ JobCaller(r).principal = ThePrincipal
  BY DEF JobCaller, Caller
<1>2. /\ DOMAIN rows' = DOMAIN rows \cup {Len(rows) + 1} /\ Len(rows') = Len(rows) + 1
      /\ \A i \in DOMAIN rows : rows'[i] = rows[i]
      /\ ReservedFor(rows'[Len(rows) + 1], JobCaller(r), job[r].quote.price, job[r].quote.currency,
                     job[r].plan.intent, job[r].plan.attempt)
  BY ReserveAppends
<1> QED BY <1>1, <1>2 DEF ReservedFor

LEMMA ReservationKeepsParts ==
  ASSUME DaemonAssumption, TypeOK, DaemonParts, NEW r \in Requests, job[r].pc = "reserving",
         job[r].plan.intent \in DOMAIN intents,
         Reserve(JobCaller(r), job[r].quote.price, job[r].quote.currency,
                 job[r].plan.allowance, job[r].plan.intent, job[r].plan.attempt),
         job' = [job EXCEPT ![r].pc = "admitted", ![r].plan = None,
                            ![r].reservation = InsertedRowId],
         UNCHANGED pathVars
  PROVE  DaemonParts'
<1> DEFINE n == Len(rows)
           new == [job[r] EXCEPT !.pc = "admitted", !.plan = None, !.reservation = n + 1]
<1>1. n \in Nat /\ n + 1 \in Nat /\ n + 1 # 0 /\ DOMAIN rows = 1..n
  BY RowsAreNumbered
<1>2. job \in [Requests -> Jobs] /\ job[r] \in Jobs
  BY DEF DaemonParts
<1>3. /\ new \in Jobs /\ new.pc = "admitted" /\ new.reservation = n + 1
      /\ new.claim = job[r].claim /\ new.quote = job[r].quote
      /\ new.sent = job[r].sent /\ new.outcome = job[r].outcome
  BY <1>1, <1>2 DEF Jobs, InFlight
<1>4. job' = [job EXCEPT ![r] = new]
  BY DEF InsertedRowId
<1> HIDE DEF new
<1>5. job' \in [Requests -> Jobs] /\ job'[r] = new /\ \A q \in Requests \ {r} : job'[q] = job[q]
  BY <1>2, <1>3, <1>4
<1>6. /\ DOMAIN rows' = DOMAIN rows \cup {n + 1} /\ Len(rows') = n + 1
      /\ \A i \in DOMAIN rows : rows'[i] = rows[i]
      /\ rows'[n + 1].state = "reserved"
      /\ rows'[n + 1].agent = job[r].claim.agent
      /\ rows'[n + 1].principal = ThePrincipal
      /\ rows'[n + 1].amount = job[r].quote.price
      /\ rows'[n + 1].currency = job[r].quote.currency
      /\ rows'[n + 1].intent = job[r].plan.intent
      /\ rows'[n + 1].attempt = job[r].plan.attempt
  BY ReservedRow
<1>7. /\ job[r].reservation = 0 /\ ~ job[r].sent /\ job[r].outcome = "none"
      /\ Entitled(job[r])
      /\ job[r].plan.attempt = AttemptCount(job[r].plan.intent) + 1
  BY PlannedReservation
<1>8. WithRow(new, rows'[n + 1])
  BY <1>3, <1>6, <1>7 DEF WithRow, Entitled, Progress
<1>9. \A q \in Requests \ {r} : job[q].reservation \in Nat /\ job[q].reservation <= n
  <2> SUFFICES ASSUME NEW q \in Requests PROVE job[q].reservation \in Nat /\ job[q].reservation <= n
    OBVIOUS
  <2> QED BY <1>1, <1>2, WhereItStands DEF Jobs
<1>10. JobsMatchRows'
  <2>1. ASSUME NEW q \in Requests
        PROVE  IF job'[q].reservation = 0
               THEN WithoutRow(job'[q])
               ELSE /\ job'[q].reservation <= Len(rows')
                    /\ WithRow(job'[q], rows'[job'[q].reservation])
    <3>1. CASE q = r
      <4>1. job'[q] = new /\ new.reservation = n + 1 /\ n + 1 # 0 /\ n + 1 <= Len(rows')
        BY <1>1, <1>3, <1>5, <1>6, <3>1
      <4> QED BY <1>8, <4>1
    <3>2. CASE q # r
      <4>1. job'[q] = job[q] /\ job[q].reservation \in Nat /\ job[q].reservation <= n
        BY <1>5, <1>9, <3>2
      <4>2. job[q].reservation <= Len(rows')
        BY <1>1, <1>6, <4>1
      <4> QED BY <1>6, <4>1, <4>2, WhereItStands
    <3> QED BY <3>1, <3>2
  <2> QED BY <2>1 DEF JobsMatchRows
<1>11. OwnReservations'
  <2>1. \A q \in Requests \ {r} : job'[q].reservation = job[q].reservation /\ job[q].reservation # n + 1
    BY <1>1, <1>5, <1>9
  <2>2. job'[r].reservation = n + 1
    BY <1>3, <1>5
  <2> HIDE DEF n
  <2> QED BY <2>1, <2>2 DEF DaemonParts, OwnReservations
<1>12. RowsHaveHolders'
  <2>1. Holders' = Holders \cup {r} /\ r \notin Holders
    BY <1>1, <1>3, <1>5, <1>7 DEF Holders
  <2>2. Cardinality(Holders') = Cardinality(Holders) + 1
    BY <2>1, RequestsFinite, FS_AddElement
  <2> QED BY <1>6, <2>2 DEF DaemonParts, RowsHaveHolders
<1>13. IntentsHaveOpeners'
  <2>1. Decided' = Decided /\ intents' = intents
    BY <1>3, <1>5 DEF Decided, Undecided, pathVars
  <2> QED BY <2>1 DEF DaemonParts, IntentsHaveOpeners
<1>14. \A q \in Requests : job'[q].pc # "reserving"
  BY <1>3, <1>5 DEF DaemonParts, OneReserves
<1>15. OneReserves' /\ CountIsCurrent'
  BY <1>14 DEF OneReserves, CountIsCurrent
<1>16. AttemptsNumbered'
  BY <1>6, <1>7, AppendedAttempt DEF DaemonParts
<1>17. TablesOK' /\ (\A q \in moved : job[q].sent)' /\ ClosedUnderChildren(revoked)'
  <2>1. UNCHANGED <<intents, allowance, revoked, daemon, moved>> /\ moved \subseteq Requests
    BY DEF pathVars, DaemonParts, TablesOK
  <2> QED BY <1>5, <1>7, <2>1 DEF DaemonParts, TablesOK, ClosedUnderChildren
<1> QED BY <1>5, <1>10, <1>11, <1>12, <1>13, <1>15, <1>16, <1>17 DEF DaemonParts

-----------------------------------------------------------------------------
(* The steps of one request.                                               *)

(* What an answer, a move to another point and a move of the own row are.  *)
Answered(new, j, outcome) ==
    /\ new.pc = "answered" /\ new.outcome = outcome /\ new.plan = None
    /\ new.claim = j.claim /\ new.quote = j.quote
    /\ new.reservation = j.reservation /\ new.sent = j.sent

LEMMA AnswerShape ==
  ASSUME job \in [Requests -> Jobs], NEW r \in Requests,
         NEW outcome \in {"paid", "refused", "free", "seller_error"}, Answer(r, outcome)
  PROVE  \E new \in Jobs : job' = [job EXCEPT ![r] = new] /\ Answered(new, job[r], outcome)
<1> DEFINE new == [job[r] EXCEPT !.pc = "answered", !.outcome = outcome, !.plan = None]
<1>1. new \in Jobs /\ Answered(new, job[r], outcome)
  BY DEF Jobs, Answered, Finished
<1>2. job' = [job EXCEPT ![r] = new]
  BY DEF Answer
<1> QED BY <1>1, <1>2

MovedTo(new, j, pc, sent) ==
    /\ new.pc = pc /\ new.outcome = j.outcome /\ new.plan = j.plan
    /\ new.claim = j.claim /\ new.quote = j.quote
    /\ new.reservation = j.reservation /\ new.sent = sent

LEMMA GotoShape ==
  ASSUME job \in [Requests -> Jobs], NEW r \in Requests, NEW pc \in InFlight, Goto(r, pc)
  PROVE  \E new \in Jobs : job' = [job EXCEPT ![r] = new] /\ MovedTo(new, job[r], pc, job[r].sent)
<1> DEFINE new == [job[r] EXCEPT !.pc = pc]
<1>1. new \in Jobs /\ MovedTo(new, job[r], pc, job[r].sent)
  BY DEF Jobs, MovedTo
<1>2. job' = [job EXCEPT ![r] = new]
  BY DEF Goto
<1> QED BY <1>1, <1>2

LEMMA OwnTransition ==
  ASSUME TypeOK, NEW r \in Requests, NEW c, NEW next, NEW ref, NEW from,
         Transition(job[r].reservation, c, next, ref, from)
  PROVE  /\ OwnRowMoves(r)
         /\ job[r].reservation \in DOMAIN rows
         /\ rows'[job[r].reservation].state = next
         /\ SameReservation(rows'[job[r].reservation], rows[job[r].reservation])
<1> DEFINE id == job[r].reservation
<1>1. Transition(id, c, next, ref, from)
  OBVIOUS
<1> HIDE DEF id
<1>2. /\ DOMAIN rows' = DOMAIN rows /\ Len(rows') = Len(rows) /\ id \in DOMAIN rows
      /\ rows'[id].state = next
      /\ \A i \in DOMAIN rows : /\ i # id => rows'[i] = rows[i]
                                /\ SameReservation(rows'[i], rows[i])
  BY <1>1, TransitionMovesOneRow
<1> QED BY <1>2 DEF id, OwnRowMoves

LEMMA RowsStay ==
  ASSUME UNCHANGED ledgerVars, NEW r
  PROVE  OwnRowMoves(r) /\ rows' = rows
  BY DEF ledgerVars, OwnRowMoves, SameReservation

(* What a request with a row needs for its next step.                      *)
LEMMA RowAfterStep ==
  ASSUME NEW j, NEW new, NEW old, NEW row, WithRow(j, old), SameReservation(row, old),
         new.claim = j.claim, new.quote = j.quote,
         Progress(new.pc, new.sent, new.outcome, row.state)
  PROVE  WithRow(new, row)
  BY DEF WithRow, SameReservation, Entitled

(* Without a row, an answer is the end.                                    *)
LEMMA AnswerWithoutRow ==
  ASSUME NEW j, NEW new, NEW outcome \in {"refused", "free", "seller_error"},
         WithoutRow(j), Answered(new, j, outcome)
  PROVE  WithoutRow(new) /\ ~ new.sent
  BY DEF WithoutRow, Answered

LEMMA ReceiveKeepsParts ==
  ASSUME DaemonAssumption, TypeOK, DaemonParts, NEW r \in Requests, NEW claim \in Claims,
         Receive(r, claim)
  PROVE  DaemonParts'
<1> DEFINE ok == Authentic(claim)
           new == [job[r] EXCEPT !.claim = claim,
                                 !.pc = IF ok THEN "probing" ELSE "answered",
                                 !.outcome = IF ok THEN "none" ELSE "refused"]
<1>1. job \in [Requests -> Jobs] /\ job[r].pc = "idle"
  BY DEF DaemonParts, Receive, Runs
<1>2. job' = [job EXCEPT ![r] = new] /\ UNCHANGED <<ledgerVars, pathVars>>
  BY DEF Receive
<1>3. job[r].reservation = 0 /\ ~ job[r].sent
  BY <1>1, WhereItStands DEF WithoutRow, WithRow, Progress
<1>4. /\ new \in Jobs /\ new.reservation = 0 /\ new.sent = job[r].sent /\ new.claim = claim
      /\ new.pc = (IF ok THEN "probing" ELSE "answered")
      /\ new.outcome = (IF ok THEN "none" ELSE "refused")
  BY <1>1, <1>3 DEF Jobs, InFlight, Finished
<1> HIDE DEF new
<1>5. WithoutRow(new)
  BY <1>3, <1>4 DEF WithoutRow
<1>6. OwnRowMoves(r) /\ UNCHANGED <<intents, allowance, revoked, daemon, moved>>
  BY <1>2, RowsStay DEF pathVars
<1>7. intents' \in Seq(IntentRow) /\ Len(intents') = Len(intents)
  BY <1>6 DEF DaemonParts, TablesOK
<1>8. new.pc # "reserving" /\ (job[r].pc \notin Undecided => new.pc \notin Undecided)
  BY <1>1, <1>4 DEF Undecided
<1> QED BY <1>2, <1>3, <1>4, <1>5, <1>6, <1>7, <1>8, OneJobMoves

LEMMA ProbeKeepsParts ==
  ASSUME DaemonAssumption, TypeOK, DaemonParts, NEW r \in Requests, Probe(r)
  PROVE  DaemonParts'
<1>1. job \in [Requests -> Jobs] /\ job[r].pc = "probing" /\ job[r] \in Jobs
  BY DEF DaemonParts, Probe, Runs
<1>2. /\ job[r].reservation = 0 /\ ~ job[r].sent /\ WithoutRow(job[r])
      /\ job[r].claim \in Claims /\ job[r].outcome = "none"
  BY <1>1, WhereItStands DEF WithoutRow, WithRow, Progress
<1>3. UNCHANGED <<ledgerVars, pathVars>>
  BY DEF Probe
<1>4. OwnRowMoves(r) /\ UNCHANGED <<intents, allowance, revoked, daemon, moved>>
  BY <1>3, RowsStay DEF pathVars
<1>5. intents' \in Seq(IntentRow) /\ Len(intents') = Len(intents)
  BY <1>4 DEF DaemonParts, TablesOK
<1>6. job[r].pc \in Undecided
  BY <1>1 DEF Undecided
<1>7. ASSUME NEW outcome \in {"free", "seller_error", "refused"}, Answer(r, outcome)
      PROVE  DaemonParts'
  <2>1. PICK new \in Jobs : job' = [job EXCEPT ![r] = new] /\ Answered(new, job[r], outcome)
    BY <1>1, <1>7, AnswerShape
  <2>2. WithoutRow(new) /\ new.reservation = 0 /\ new.pc # "reserving"
    BY <1>2, <2>1, AnswerWithoutRow DEF Answered
  <2> QED BY <1>2, <1>4, <1>5, <1>6, <2>1, <2>2, OneJobMoves
<1>8. ASSUME NEW offer \in Offers, Usable(offer),
             job' = [job EXCEPT ![r].quote = QuoteFromRequirements(offer), ![r].pc = "gating"]
      PROVE  DaemonParts'
  <2> DEFINE quote == QuoteFromRequirements(offer)
             new == [job[r] EXCEPT !.quote = quote, !.pc = "gating"]
  <2>1. quote \in Quotes
    BY <1>8 DEF Quotes
  <2>2. job' = [job EXCEPT ![r] = new]
    BY <1>8
  <2> HIDE DEF quote
  <2>3. /\ new \in Jobs /\ new.reservation = 0 /\ new.sent = job[r].sent
        /\ new.claim = job[r].claim /\ new.quote = quote /\ new.pc = "gating"
        /\ new.outcome = "none"
    BY <1>1, <1>2, <2>1 DEF Jobs, InFlight
  <2> HIDE DEF new
  <2>4. WithoutRow(new) /\ new.pc # "reserving"
    BY <1>2, <2>1, <2>3 DEF WithoutRow
  <2> QED BY <1>2, <1>4, <1>5, <1>6, <2>2, <2>3, <2>4, OneJobMoves
<1> QED BY <1>7, <1>8 DEF Probe

(* The intent of a decision: opened with it, or named by the claim.        *)
LEMMA IntentOfDecision ==
  ASSUME DaemonAssumption, DaemonParts, NEW claim \in Claims, NEW quote \in Quotes,
         IF claim.intent = None THEN OpenIntent(claim, quote) ELSE UNCHANGED intents
  PROVE  /\ intents' \in Seq(IntentRow)
         /\ Len(intents') = Len(intents) \/ Len(intents') = Len(intents) + 1
         /\ (IF claim.intent = None THEN Len(intents) + 1 ELSE claim.intent) \in Nat
<1>1. intents \in Seq(IntentRow) /\ Len(intents) \in Nat
  BY LenProperties DEF DaemonParts, TablesOK
<1>2. CASE claim.intent = None
  <2> DEFINE row == [agent |-> claim.agent, ceiling |-> claim.ceiling, currency |-> quote.currency]
  <2>1. row \in IntentRow
    BY DEF DaemonAssumption, IntentRow
  <2>2. intents' = Append(intents, row)
    BY <1>2 DEF OpenIntent
  <2> HIDE DEF row
  <2> QED BY <1>1, <1>2, <2>1, <2>2, AppendProperties
<1>3. CASE claim.intent # None
  BY <1>1, <1>3 DEF DaemonAssumption
<1> QED BY <1>2, <1>3

LEMMA DecideKeepsParts ==
  ASSUME DaemonAssumption, TypeOK, DaemonParts, NEW r \in Requests, Decide(r)
  PROVE  DaemonParts'
<1> DEFINE claim == job[r].claim
           quote == job[r].quote
           intent == IF claim.intent = None THEN Len(intents) + 1 ELSE claim.intent
<1>1. job \in [Requests -> Jobs] /\ job[r].pc = "gating" /\ job[r] \in Jobs /\ EventLoopFree
  BY DEF DaemonParts, Decide, Runs
<1>2. /\ job[r].reservation = 0 /\ ~ job[r].sent /\ WithoutRow(job[r])
      /\ claim \in Claims /\ quote \in Quotes /\ job[r].outcome = "none"
  BY <1>1, WhereItStands DEF WithoutRow, WithRow, Progress
<1>3. UNCHANGED <<ledgerVars, allowance, revoked, daemon, moved>>
  BY DEF Decide
<1>4. OwnRowMoves(r) /\ UNCHANGED <<allowance, revoked, daemon, moved>>
  BY <1>3, RowsStay
<1>5. job[r].pc \in Undecided
  BY <1>1 DEF Undecided
<1>6. ASSUME Answer(r, "refused"), intents' \in Seq(IntentRow),
             Len(intents') = Len(intents) \/ Len(intents') = Len(intents) + 1
      PROVE  DaemonParts'
  <2>1. PICK new \in Jobs : job' = [job EXCEPT ![r] = new] /\ Answered(new, job[r], "refused")
    BY <1>1, <1>6, AnswerShape
  <2>2. /\ WithoutRow(new) /\ new.reservation = 0 /\ new.pc # "reserving"
        /\ new.pc \notin Undecided
    BY <1>2, <2>1, AnswerWithoutRow DEF Answered, Undecided
  <2> QED BY <1>2, <1>4, <1>5, <1>6, <2>1, <2>2, OneJobMoves
<1>7. CASE ~ Admissible(claim, quote)
  <2>1. Answer(r, "refused") /\ UNCHANGED intents
    BY <1>7 DEF Decide
  <2>2. intents' \in Seq(IntentRow) /\ Len(intents') = Len(intents)
    BY <2>1 DEF DaemonParts, TablesOK
  <2> QED BY <1>6, <2>1, <2>2
<1>8. CASE Admissible(claim, quote)
  <2>1. /\ IF claim.intent = None THEN OpenIntent(claim, quote) ELSE UNCHANGED intents
        /\ IF allowance = None
           THEN Answer(r, "refused")
           ELSE job' = [job EXCEPT ![r].pc = "reserving",
                                   ![r].plan = [intent |-> intent,
                                                attempt |-> AttemptCount(intent) + 1,
                                                allowance |-> allowance]]
    BY <1>8 DEF Decide
  <2>2. /\ intents' \in Seq(IntentRow)
        /\ Len(intents') = Len(intents) \/ Len(intents') = Len(intents) + 1
        /\ intent \in Nat
    BY <1>2, <2>1, IntentOfDecision
  <2>3. CASE allowance = None
    BY <1>6, <2>1, <2>2, <2>3
  <2>4. CASE allowance # None
    <3> HIDE DEF intent
    <3> DEFINE plan == [intent |-> intent, attempt |-> AttemptCount(intent) + 1,
                        allowance |-> allowance]
               new == [job[r] EXCEPT !.pc = "reserving", !.plan = plan]
    <3>1. plan \in Plans
      <4>1. AttemptCount(intent) + 1 \in Attempts
        BY <1>2, RoomForAnAttempt DEF DaemonParts
      <4>2. allowance \in Allowances
        BY <2>4 DEF DaemonParts, TablesOK
      <4> QED BY <2>2, <4>1, <4>2 DEF Plans
    <3>2. plan.attempt = AttemptCount(plan.intent) + 1
      OBVIOUS
    <3>3. job' = [job EXCEPT ![r] = new]
      BY <2>1, <2>4
    <3> HIDE DEF plan
    <3>4. /\ new \in Jobs /\ new.reservation = 0 /\ new.sent = job[r].sent
          /\ new.claim = claim /\ new.quote = quote /\ new.pc = "reserving"
          /\ new.outcome = "none" /\ new.plan = plan
      BY <1>1, <1>2, <3>1 DEF Jobs, InFlight
    <3> HIDE DEF new
    <3>5. Entitled(new)
      BY <1>2, <1>8, <3>4 DEF Entitled, Admissible
    <3>6. WithoutRow(new) /\ new.pc \notin Undecided
      BY <1>2, <3>1, <3>4, <3>5 DEF WithoutRow, Undecided
    <3>7. new.plan.attempt = AttemptCount(new.plan.intent) + 1
      BY <3>2, <3>4
    <3> QED BY <1>1, <1>2, <1>4, <1>5, <2>2, <3>3, <3>4, <3>6, <3>7, OneJobMoves
  <2> QED BY <2>3, <2>4
<1> QED BY <1>7, <1>8

(* A request with a row takes its next step, alone or with the row.        *)
LEMMA RowHolderMoves ==
  ASSUME DaemonAssumption, TypeOK, DaemonParts, NEW r \in Requests, NEW new \in Jobs,
         job[r].reservation # 0,
         job' = [job EXCEPT ![r] = new],
         new.claim = job[r].claim, new.quote = job[r].quote,
         new.reservation = job[r].reservation, job[r].sent => new.sent,
         OwnRowMoves(r),
         Progress(new.pc, new.sent, new.outcome, rows'[job[r].reservation].state),
         UNCHANGED pathVars
  PROVE  DaemonParts'
<1> DEFINE id == job[r].reservation
<1>1. id \in DOMAIN rows /\ WithRow(job[r], rows[id])
  BY WhereItStands
<1>2. SameReservation(rows'[id], rows[id])
  BY <1>1 DEF OwnRowMoves
<1>3. WithRow(new, rows'[id])
  BY <1>1, <1>2, RowAfterStep
<1>4. new.pc # "reserving" /\ new.pc \notin Undecided
  BY DEF Progress, Undecided
<1>5. UNCHANGED <<intents, allowance, revoked, daemon, moved>>
  BY DEF pathVars
<1>6. intents' \in Seq(IntentRow) /\ Len(intents') = Len(intents)
  BY <1>5 DEF DaemonParts, TablesOK
<1> QED BY <1>3, <1>4, <1>5, <1>6, OneJobMoves

LEMMA BeyondTheGate ==
  ASSUME TypeOK, DaemonParts, NEW r \in Requests,
         job[r].pc \in {"admitted", "signing", "replaying", "reading"}
  PROVE  /\ job[r].reservation # 0 /\ job[r].outcome = "none"
         /\ job[r].reservation \in DOMAIN rows
         /\ job[r].sent <=> job[r].pc \in {"replaying", "reading"}
         /\ rows[job[r].reservation].state = IF job[r].pc = "reading" THEN "confirmed" ELSE "reserved"
<1>1. job[r].reservation # 0
  BY WhereItStands DEF WithoutRow
<1>2. job[r].reservation \in DOMAIN rows
      /\ Progress(job[r].pc, job[r].sent, job[r].outcome, rows[job[r].reservation].state)
  BY <1>1, WhereItStands DEF WithRow
<1> QED BY <1>1, <1>2 DEF Progress

(* The request goes on, and its row stays.                                 *)
LEMMA GotoKeepsParts ==
  ASSUME DaemonAssumption, TypeOK, DaemonParts, NEW r \in Requests, UNCHANGED pathVars,
         \/ job[r].pc = "admitted" /\ Goto(r, "signing") /\ UNCHANGED ledgerVars
         \/ job[r].pc = "signing" /\ Goto(r, "hung") /\ UNCHANGED ledgerVars
         \/ /\ job[r].pc = "replaying" /\ Goto(r, "reading")
            /\ \E ref \in TxRefs : Confirm(job[r].reservation, JobCaller(r), ref)
  PROVE  DaemonParts'
<1>1. job \in [Requests -> Jobs]
  BY DEF DaemonParts
<1>2. PICK pc \in {"signing", "hung", "reading"} :
            /\ Goto(r, pc)
            /\ pc = "signing" => job[r].pc = "admitted" /\ UNCHANGED ledgerVars
            /\ pc = "hung" => job[r].pc = "signing" /\ UNCHANGED ledgerVars
            /\ pc = "reading" =>
                  /\ job[r].pc = "replaying"
                  /\ \E ref \in TxRefs : Confirm(job[r].reservation, JobCaller(r), ref)
  OBVIOUS
<1>3. /\ job[r].reservation # 0 /\ job[r].outcome = "none"
      /\ job[r].sent <=> pc = "reading"
      /\ rows[job[r].reservation].state = "reserved"
  BY <1>2, BeyondTheGate
<1>4. PICK new \in Jobs : /\ job' = [job EXCEPT ![r] = new]
                          /\ MovedTo(new, job[r], pc, job[r].sent)
  BY <1>1, <1>2, GotoShape DEF InFlight
<1>5. /\ OwnRowMoves(r)
      /\ rows'[job[r].reservation].state = IF pc = "reading" THEN "confirmed" ELSE "reserved"
  <2>1. CASE pc = "reading"
    <3>1. PICK ref \in TxRefs : Transition(job[r].reservation, JobCaller(r), "confirmed", ref,
                                           ConfirmableFrom)
      BY <1>2, <2>1 DEF Confirm
    <3> QED BY <2>1, <3>1, OwnTransition
  <2>2. CASE pc # "reading"
    BY <1>2, <1>3, <2>2, RowsStay
  <2> QED BY <2>1, <2>2
<1>6. Progress(new.pc, new.sent, new.outcome, rows'[job[r].reservation].state)
  BY <1>3, <1>4, <1>5 DEF MovedTo, Progress
<1> QED BY <1>3, <1>4, <1>5, <1>6, RowHolderMoves DEF MovedTo

LEMMA SignedKeepsParts ==
  ASSUME DaemonAssumption, TypeOK, DaemonParts, NEW r \in Requests, Signed(r)
  PROVE  DaemonParts'
<1> DEFINE new == [job[r] EXCEPT !.pc = "replaying", !.sent = TRUE]
<1>1. job \in [Requests -> Jobs] /\ job[r] \in Jobs /\ job[r].pc = "signing"
  BY DEF DaemonParts, Signed, Runs
<1>2. /\ job[r].reservation # 0 /\ job[r].outcome = "none"
      /\ rows[job[r].reservation].state = "reserved"
  BY <1>1, BeyondTheGate
<1>3. job' = [job EXCEPT ![r] = new] /\ UNCHANGED <<ledgerVars, pathVars>>
  BY DEF Signed
<1>4. new \in Jobs /\ MovedTo(new, job[r], "replaying", TRUE)
  BY <1>1 DEF Jobs, InFlight, MovedTo
<1> HIDE DEF new
<1>5. OwnRowMoves(r) /\ rows' = rows
  BY <1>3, RowsStay
<1>6. Progress(new.pc, new.sent, new.outcome, rows'[job[r].reservation].state)
  BY <1>2, <1>4, <1>5 DEF MovedTo, Progress
<1> QED BY <1>2, <1>3, <1>4, <1>5, <1>6, RowHolderMoves DEF MovedTo

(* The request with a row ends, and its row stays or is released.          *)
LEMMA EndKeepsParts ==
  ASSUME DaemonAssumption, TypeOK, DaemonParts, NEW r \in Requests, UNCHANGED pathVars,
         NEW outcome \in {"paid", "refused", "seller_error"}, Answer(r, outcome),
         \/ /\ job[r].pc \in {"admitted", "signing"} /\ outcome = "refused"
            /\ Release(job[r].reservation, JobCaller(r))
         \/ /\ job[r].pc = "replaying" /\ outcome = "seller_error"
            /\ Release(job[r].reservation, JobCaller(r))
         \/ job[r].pc = "replaying" /\ outcome = "refused" /\ UNCHANGED ledgerVars
         \/ job[r].pc = "reading" /\ outcome \in {"paid", "refused"} /\ UNCHANGED ledgerVars
  PROVE  DaemonParts'
<1>1. job \in [Requests -> Jobs]
  BY DEF DaemonParts
<1>2. PICK new \in Jobs : job' = [job EXCEPT ![r] = new] /\ Answered(new, job[r], outcome)
  BY <1>1, AnswerShape
<1>3. /\ job[r].reservation # 0 /\ job[r].outcome = "none"
      /\ job[r].sent <=> job[r].pc \in {"replaying", "reading"}
      /\ rows[job[r].reservation].state = IF job[r].pc = "reading" THEN "confirmed" ELSE "reserved"
  BY BeyondTheGate
<1>4. CASE Release(job[r].reservation, JobCaller(r)) /\ job[r].pc # "reading"
           /\ (job[r].pc = "replaying" => outcome = "seller_error")
           /\ (job[r].pc # "replaying" => outcome = "refused")
  <2>1. OwnRowMoves(r) /\ rows'[job[r].reservation].state = "released"
    BY <1>4, OwnTransition DEF Release
  <2>2. Progress(new.pc, new.sent, new.outcome, rows'[job[r].reservation].state)
    BY <1>2, <1>3, <1>4, <2>1 DEF Answered, Progress
  <2> QED BY <1>2, <1>3, <2>1, <2>2, RowHolderMoves DEF Answered
<1>5. CASE UNCHANGED ledgerVars /\ job[r].pc \in {"replaying", "reading"}
           /\ (job[r].pc = "replaying" => outcome = "refused")
           /\ (job[r].pc = "reading" => outcome \in {"paid", "refused"})
  <2>1. OwnRowMoves(r) /\ rows' = rows
    BY <1>5, RowsStay
  <2>2. Progress(new.pc, new.sent, new.outcome, rows'[job[r].reservation].state)
    BY <1>2, <1>3, <1>5, <2>1 DEF Answered, Progress
  <2> QED BY <1>2, <1>3, <2>1, <2>2, RowHolderMoves DEF Answered
<1> QED BY <1>4, <1>5

LEMMA ReserveBudgetKeepsParts ==
  ASSUME DaemonAssumption, TypeOK, DaemonParts, NEW r \in Requests, ReserveBudget(r)
  PROVE  DaemonParts'
<1>1. job[r].pc = "reserving" /\ job \in [Requests -> Jobs] /\ UNCHANGED pathVars
  BY DEF DaemonParts, ReserveBudget
<1>2. CASE /\ job[r].plan.intent \in DOMAIN intents
           /\ Reserve(JobCaller(r), job[r].quote.price, job[r].quote.currency,
                      job[r].plan.allowance, job[r].plan.intent, job[r].plan.attempt)
           /\ job' = [job EXCEPT ![r].pc = "admitted", ![r].plan = None,
                                 ![r].reservation = InsertedRowId]
  BY <1>1, <1>2, ReservationKeepsParts
<1>3. CASE Answer(r, "refused") /\ UNCHANGED ledgerVars
  <2>1. job[r].reservation = 0 /\ ~ job[r].sent /\ WithoutRow(job[r])
    BY <1>1, WhereItStands DEF WithoutRow, WithRow, Progress
  <2>2. PICK new \in Jobs : job' = [job EXCEPT ![r] = new] /\ Answered(new, job[r], "refused")
    BY <1>1, <1>3, AnswerShape
  <2>3. /\ WithoutRow(new) /\ new.reservation = 0 /\ new.pc # "reserving"
        /\ new.pc \notin Undecided
    BY <2>1, <2>2, AnswerWithoutRow DEF Answered, Undecided
  <2>4. OwnRowMoves(r) /\ UNCHANGED <<intents, allowance, revoked, daemon, moved>>
    BY <1>1, <1>3, RowsStay DEF pathVars
  <2>5. intents' \in Seq(IntentRow) /\ Len(intents') = Len(intents)
    BY <2>4 DEF DaemonParts, TablesOK
  <2> QED BY <2>1, <2>2, <2>3, <2>4, <2>5, OneJobMoves
<1> QED BY <1>2, <1>3 DEF ReserveBudget

LEMMA AdvanceKeepsParts ==
  ASSUME DaemonAssumption, TypeOK, DaemonParts, NEW r \in Requests, Advance(r)
  PROVE  DaemonParts'
<1>1. Probe(r) => DaemonParts'
  BY ProbeKeepsParts
<1>2. Decide(r) => DaemonParts'
  BY DecideKeepsParts
<1>3. ReserveBudget(r) => DaemonParts'
  BY ReserveBudgetKeepsParts
<1>4. BeginSigning(r) => DaemonParts'
  BY GotoKeepsParts, EndKeepsParts DEF BeginSigning, Runs, RefusedAfterAdmission
<1>5. Signed(r) => DaemonParts'
  BY SignedKeepsParts
<1>6. SigningFails(r) => DaemonParts'
  BY EndKeepsParts DEF SigningFails, Runs, RefusedAfterAdmission
<1>7. SignerGone(r) => DaemonParts'
  BY GotoKeepsParts DEF SignerGone, Runs
<1>8. ReplayOk(r) => DaemonParts'
  BY GotoKeepsParts DEF ReplayOk, Runs
<1>9. ReplayRefused(r) => DaemonParts'
  BY EndKeepsParts DEF ReplayRefused, Runs
<1>10. ReplayLost(r) => DaemonParts'
  BY EndKeepsParts DEF ReplayLost, Runs
<1>11. ReadBody(r) => DaemonParts'
  BY EndKeepsParts DEF ReadBody, Runs
<1> QED BY <1>1, <1>2, <1>3, <1>4, <1>5, <1>6, <1>7, <1>8, <1>9, <1>10, <1>11 DEF Advance

-----------------------------------------------------------------------------
(* The other steps.                                                        *)

LEMMA StopKeepsParts ==
  ASSUME DaemonAssumption, TypeOK, DaemonParts, Stop
  PROVE  DaemonParts'
<1>1. job \in [Requests -> Jobs]
  BY DEF DaemonParts
<1>2. UNCHANGED <<ledgerVars, intents, allowance, revoked, moved>> /\ daemon' = "down"
  BY DEF Stop
<1>3. ASSUME NEW r \in Requests
      PROVE  /\ job'[r] \in Jobs
             /\ job'[r].claim = job[r].claim /\ job'[r].quote = job[r].quote
             /\ job'[r].reservation = job[r].reservation
             /\ job'[r].sent = job[r].sent
             /\ job'[r].outcome = job[r].outcome
             /\ job'[r].pc = IF job[r].pc \in InFlight THEN "dropped" ELSE job[r].pc
  <2>1. CASE job[r].pc \in InFlight
    <3>1. job'[r] = [job[r] EXCEPT !.pc = "dropped", !.plan = None]
      BY <2>1 DEF Stop
    <3> DEFINE new == [job[r] EXCEPT !.pc = "dropped", !.plan = None]
    <3>2. job[r] \in Jobs
      BY <1>1
    <3>3. /\ new \in Jobs /\ new.pc = "dropped"
          /\ new.claim = job[r].claim /\ new.quote = job[r].quote
          /\ new.reservation = job[r].reservation
          /\ new.sent = job[r].sent
          /\ new.outcome = job[r].outcome
      BY <3>2 DEF Jobs, Finished
    <3> HIDE DEF new
    <3>4. job'[r] = new
      BY <3>1 DEF new
    <3> QED BY <2>1, <3>3, <3>4
  <2>2. CASE job[r].pc \notin InFlight
    <3>1. job'[r] = job[r]
      BY <2>2 DEF Stop
    <3> QED BY <1>1, <2>2, <3>1
  <2> QED BY <2>1, <2>2
<1>4. job' \in [Requests -> Jobs]
  <2>1. job' = [r \in Requests |-> job'[r]]
    BY DEF Stop
  <2> QED BY <1>3, <2>1
<1>5. TablesOK'
  BY <1>2 DEF DaemonParts, TablesOK
<1>6. rows' = rows
  BY <1>2 DEF ledgerVars
<1>7. JobsMatchRows'
  <2>1. ASSUME NEW r \in Requests
        PROVE  IF job'[r].reservation = 0
               THEN WithoutRow(job'[r])
               ELSE /\ job'[r].reservation <= Len(rows')
                    /\ WithRow(job'[r], rows'[job'[r].reservation])
    <3>1. IF job[r].reservation = 0
          THEN WithoutRow(job[r])
          ELSE /\ job[r].reservation <= Len(rows)
               /\ WithRow(job[r], rows[job[r].reservation])
      BY DEF DaemonParts, JobsMatchRows
    <3>2. CASE job[r].reservation = 0
      <4>1. WithoutRow(job[r])
        BY <3>1, <3>2
      <4>2. WithoutRow(job'[r])
        <5>1. CASE job[r].pc \in InFlight
          BY <1>3, <4>1, <5>1 DEF WithoutRow, InFlight
        <5>2. CASE job[r].pc \notin InFlight
          BY <1>3, <4>1, <5>2 DEF WithoutRow, InFlight
        <5> QED BY <5>1, <5>2
      <4> QED BY <1>3, <3>2, <4>2
    <3>3. CASE job[r].reservation # 0
      <4> DEFINE row == rows[job[r].reservation]
      <4>1. WithRow(job[r], row)
        BY <3>1, <3>3
      <4>2. Progress(job'[r].pc, job'[r].sent, job'[r].outcome, row.state)
        <5>1. Progress(job[r].pc, job[r].sent, job[r].outcome, row.state)
          BY <4>1 DEF WithRow
        <5> HIDE DEF row
        <5>2. CASE job[r].pc \in InFlight
          BY <1>3, <5>1, <5>2 DEF Progress, InFlight
        <5>3. CASE job[r].pc \notin InFlight
          BY <1>3, <5>1, <5>3
        <5> QED BY <5>2, <5>3
      <4>3. SameReservation(row, row)
        BY DEF SameReservation
      <4> HIDE DEF row
      <4>4. WithRow(job'[r], row)
        BY <1>3, <4>1, <4>2, <4>3, RowAfterStep
      <4> QED BY <1>3, <1>6, <3>1, <3>3, <4>4 DEF row
    <3> QED BY <3>2, <3>3
  <2> QED BY <2>1 DEF JobsMatchRows
<1>8. OwnReservations'
  BY <1>3 DEF DaemonParts, OwnReservations
<1>9. RowsHaveHolders'
  <2>1. Holders' = Holders
    BY <1>3 DEF Holders
  <2> QED BY <1>6, <2>1 DEF DaemonParts, RowsHaveHolders
<1>10. IntentsHaveOpeners'
  <2>1. \A r \in Requests : job'[r].pc = job[r].pc \/ job'[r].pc = "dropped"
    BY <1>3
  <2>2. Decided \in SUBSET (Decided') /\ Decided' \in SUBSET Requests
    BY <2>1 DEF Decided, Undecided
  <2>3. IsFiniteSet(Decided')
    BY <2>2, RequestsFinite, FS_Subset
  <2>4. Cardinality(Decided) <= Cardinality(Decided') /\ Cardinality(Decided') \in Nat
    BY <2>2, <2>3, FS_Subset, FS_CardinalityType
  <2>5. Len(intents) \in Nat /\ Cardinality(Decided) \in Nat
    BY LenProperties, RequestsFinite DEF DaemonParts, TablesOK
  <2>6. intents' = intents
    BY <1>2
  <2> QED BY <2>4, <2>5, <2>6 DEF DaemonParts, IntentsHaveOpeners
<1>11. \A r \in Requests : job'[r].pc # "reserving"
  BY <1>3 DEF InFlight
<1>12. OneReserves' /\ CountIsCurrent'
  BY <1>11 DEF OneReserves, CountIsCurrent
<1>13. AttemptsNumbered'
  BY <1>6 DEF DaemonParts, AttemptsNumbered
<1>14. (\A r \in moved : job[r].sent)' /\ ClosedUnderChildren(revoked)'
  <2>1. moved' = moved /\ revoked' = revoked /\ moved \subseteq Requests
    BY <1>2 DEF DaemonParts, TablesOK
  <2> QED BY <1>3, <2>1 DEF DaemonParts, ClosedUnderChildren
<1> QED BY <1>4, <1>5, <1>7, <1>8, <1>9, <1>10, <1>12, <1>13, <1>14 DEF DaemonParts

(* The parts, while neither a request nor the tables of a request move.    *)
LEMMA OutsideKeepsParts ==
  ASSUME DaemonParts, UNCHANGED <<rows, job, intents>>, TablesOK',
         ClosedUnderChildren(revoked)', \A r \in moved' : job[r].sent
  PROVE  DaemonParts'
  BY DEF DaemonParts, JobsMatchRows, OwnReservations, RowsHaveHolders, Holders,
         IntentsHaveOpeners, Decided, OneReserves, CountIsCurrent, AttemptCount,
         AttemptsNumbered

LEMMA RevokeKeepsClosed ==
  ASSUME DaemonParts, NEW agent \in Agents, Revoke(agent)
  PROVE  revoked' \subseteq Agents /\ ClosedUnderChildren(revoked)'
<1>1. revoked' = revoked \cup Subtree[agent]
  BY DEF Revoke
<1>2. Subtree[agent] \subseteq Agents
  BY DEF Subtree
<1> QED BY <1>1, <1>2, SubtreeIsClosed DEF DaemonParts, TablesOK, ClosedUnderChildren

LEMMA OthersKeepParts ==
  ASSUME DaemonAssumption, TypeOK, DaemonParts,
         \/ Shutdown \/ Start \/ SetAllowance \/ TimePasses
         \/ \E agent \in Agents : Revoke(agent)
         \/ \E r \in Requests : SellerSettles(r)
         \/ UNCHANGED vars
  PROVE  DaemonParts'
<1>1. CASE Shutdown \/ Start \/ SetAllowance
  BY <1>1, OutsideKeepsParts DEF Shutdown, Start, SetAllowance, ledgerVars, DaemonParts, TablesOK,
                                 ClosedUnderChildren
<1>2. CASE TimePasses \/ UNCHANGED vars
  BY <1>2, OutsideKeepsParts DEF TimePasses, SetClock, pathVars, vars, DaemonParts, TablesOK,
                                 ClosedUnderChildren
<1>3. ASSUME NEW agent \in Agents, Revoke(agent)
      PROVE  DaemonParts'
  <2>1. UNCHANGED <<rows, job, intents, allowance, daemon, moved>>
    BY <1>3 DEF Revoke, ledgerVars
  <2>2. revoked' \subseteq Agents /\ ClosedUnderChildren(revoked)'
    BY <1>3, RevokeKeepsClosed
  <2>3. TablesOK' /\ \A r \in moved' : job[r].sent
    BY <2>1, <2>2 DEF DaemonParts, TablesOK
  <2> QED BY <2>1, <2>2, <2>3, OutsideKeepsParts
<1>4. ASSUME NEW r \in Requests, SellerSettles(r)
      PROVE  DaemonParts'
  <2>1. UNCHANGED <<rows, job, intents, allowance, revoked, daemon>>
        /\ moved' = moved \cup {r} /\ job[r].sent
    BY <1>4 DEF SellerSettles, ledgerVars
  <2>2. TablesOK' /\ ClosedUnderChildren(revoked)' /\ \A q \in moved' : job[q].sent
    BY <2>1 DEF DaemonParts, TablesOK, ClosedUnderChildren
  <2> QED BY <2>1, <2>2, OutsideKeepsParts
<1> QED BY <1>1, <1>2, <1>3, <1>4

-----------------------------------------------------------------------------
(* The daemon uses the ledger as ledger.ts allows.                         *)

LEMMA HolderIsACaller ==
  ASSUME DaemonAssumption, TypeOK, DaemonParts, NEW r \in Requests, job[r].reservation # 0
  PROVE  JobCaller(r) \in Callers
<1>1. Entitled(job[r])
  BY WhereItStands DEF WithRow
<1> QED BY <1>1 DEF Entitled, DaemonAssumption, JobCaller

LEMMA ReleaseIsALedgerStep ==
  ASSUME DaemonAssumption, TypeOK, DaemonParts, NEW r \in Requests,
         job[r].pc \in {"admitted", "signing", "replaying", "reading"},
         Release(job[r].reservation, JobCaller(r))
  PROVE  LedgerNext
<1>1. JobCaller(r) \in Callers /\ job[r].reservation \in DOMAIN rows
  BY BeyondTheGate, HolderIsACaller
<1> QED BY <1>1 DEF LedgerNext, SomeRelease

LEMMA AdvanceStepsTheLedger ==
  ASSUME DaemonAssumption, TypeOK, DaemonParts, NEW r \in Requests, Advance(r)
  PROVE  [LedgerNext]_ledgerVars
<1>1. CASE Probe(r) \/ Decide(r) \/ Signed(r) \/ SignerGone(r) \/ ReplayLost(r) \/ ReadBody(r)
  BY <1>1 DEF Probe, Decide, Signed, SignerGone, ReplayLost, ReadBody
<1>2. CASE ReserveBudget(r)
  <2>1. CASE UNCHANGED ledgerVars
    BY <2>1
  <2>2. CASE /\ job[r].pc = "reserving"
             /\ job[r].plan.intent \in DOMAIN intents
             /\ Reserve(JobCaller(r), job[r].quote.price, job[r].quote.currency,
                        job[r].plan.allowance, job[r].plan.intent, job[r].plan.attempt)
    <3>1. /\ JobCaller(r) \in Callers
          /\ job[r].quote.price \in Amounts
          /\ job[r].quote.currency \in Currencies
          /\ job[r].plan.allowance \in Allowances
          /\ job[r].plan.intent \in Intents
          /\ job[r].plan.attempt \in Attempts
      BY <2>2, PlannedReservation
    <3>2. SomeReserve
      BY <2>2, <3>1 DEF SomeReserve
    <3> QED BY <3>2 DEF LedgerNext
  <2> QED BY <1>2, <2>1, <2>2 DEF ReserveBudget
<1>3. CASE BeginSigning(r) \/ SigningFails(r) \/ ReplayRefused(r)
  BY <1>3, ReleaseIsALedgerStep
     DEF BeginSigning, SigningFails, ReplayRefused, RefusedAfterAdmission, Runs
<1>4. CASE ReplayOk(r)
  <2>1. PICK ref \in TxRefs : Confirm(job[r].reservation, JobCaller(r), ref)
    BY <1>4 DEF ReplayOk
  <2>2. JobCaller(r) \in Callers /\ job[r].reservation \in DOMAIN rows
    BY <1>4, BeyondTheGate, HolderIsACaller DEF ReplayOk, Runs
  <2> QED BY <2>1, <2>2 DEF LedgerNext, SomeConfirm
<1> QED BY <1>1, <1>2, <1>3, <1>4 DEF Advance

LEMMA DaemonStepsTheLedger ==
  ASSUME DaemonAssumption, TypeOK, DaemonParts, [Next]_vars
  PROVE  [LedgerNext]_ledgerVars
<1>1. ASSUME NEW r \in Requests, NEW claim \in Claims, Receive(r, claim)
      PROVE  UNCHANGED ledgerVars
  BY <1>1 DEF Receive
<1>2. Shutdown \/ Stop \/ Start \/ SetAllowance => UNCHANGED ledgerVars
  BY DEF Shutdown, Stop, Start, SetAllowance
<1>3. ASSUME NEW agent \in Agents, Revoke(agent)
      PROVE  UNCHANGED ledgerVars
  BY <1>3 DEF Revoke
<1>4. ASSUME NEW r \in Requests, SellerSettles(r)
      PROVE  UNCHANGED ledgerVars
  BY <1>4 DEF SellerSettles
<1>5. TimePasses => LedgerNext
  BY DEF TimePasses, LedgerNext
<1>6. UNCHANGED vars => UNCHANGED ledgerVars
  BY DEF vars, ledgerVars
<1> QED BY <1>1, <1>2, <1>3, <1>4, <1>5, <1>6, AdvanceStepsTheLedger DEF Next

-----------------------------------------------------------------------------
(* The invariant.                                                          *)

LEMMA InitDaemonInv ==
  ASSUME Assumptions, Init
  PROVE  DaemonInv
<1>1. TypeOK
  BY InitTypeOK DEF Assumptions, Init
<1>2. rows = <<>> /\ Len(rows) = 0 /\ DOMAIN rows = {}
  BY DEF Init, LedgerInit
<1>3. job = [r \in Requests |-> NewJob] /\ NewJob \in Jobs
  BY DEF Init, NewJob, Jobs
<1>4. \A r \in Requests : /\ job[r].pc = "idle" /\ job[r].reservation = 0
                          /\ ~ job[r].sent /\ job[r].outcome = "none"
  BY <1>3 DEF NewJob
<1>5. TablesOK
  BY DEF Init, TablesOK
<1>6. JobsMatchRows /\ OwnReservations
  BY <1>4 DEF JobsMatchRows, OwnReservations, WithoutRow
<1>7. RowsHaveHolders
  <2>1. Holders = {}
    BY <1>4 DEF Holders
  <2> QED BY <1>2, <2>1, FS_EmptySet DEF RowsHaveHolders
<1>8. IntentsHaveOpeners
  <2>1. Decided = {} /\ Len(intents) = 0
    BY <1>4 DEF Decided, Undecided, Init
  <2> QED BY <2>1, FS_EmptySet DEF IntentsHaveOpeners
<1>9. OneReserves /\ CountIsCurrent /\ AttemptsNumbered
  BY <1>2, <1>4 DEF OneReserves, CountIsCurrent, AttemptsNumbered
<1>10. moved = {} /\ ClosedUnderChildren(revoked)
  BY DEF Init, ClosedUnderChildren
<1> QED BY <1>1, <1>3, <1>5, <1>6, <1>7, <1>8, <1>9, <1>10 DEF DaemonInv, DaemonParts

LEMMA StepDaemonInv ==
  ASSUME Assumptions, DaemonInv, [Next]_vars
  PROVE  DaemonInv' /\ [LedgerNext]_ledgerVars
<1>1. TypeOK /\ DaemonParts /\ DaemonAssumption /\ LedgerAssumption
  BY DEF DaemonInv, Assumptions
<1>2. [LedgerNext]_ledgerVars
  BY <1>1, DaemonStepsTheLedger
<1>3. TypeOK'
  BY <1>1, <1>2, StepTypeOK
<1>4. ASSUME NEW r \in Requests, NEW claim \in Claims, Receive(r, claim)
      PROVE  DaemonParts'
  BY <1>1, <1>4, ReceiveKeepsParts
<1>5. ASSUME NEW r \in Requests, Advance(r)
      PROVE  DaemonParts'
  BY <1>1, <1>5, AdvanceKeepsParts
<1>6. Stop => DaemonParts'
  BY <1>1, StopKeepsParts
<1>7. (\/ Shutdown \/ Start \/ SetAllowance \/ TimePasses
       \/ \E agent \in Agents : Revoke(agent)
       \/ \E r \in Requests : SellerSettles(r)
       \/ UNCHANGED vars) => DaemonParts'
  BY <1>1, OthersKeepParts
<1>8. DaemonParts'
  BY <1>4, <1>5, <1>6, <1>7 DEF Next
<1> QED BY <1>2, <1>3, <1>8 DEF DaemonInv

LEMMA AlwaysDaemonInv == Spec => []DaemonInv
<1>1. Init => DaemonInv
  BY InitDaemonInv, LedgerAssumption, DaemonAssumption DEF Assumptions
<1>2. DaemonInv /\ [Next]_vars => DaemonInv'
  BY StepDaemonInv, LedgerAssumption, DaemonAssumption DEF Assumptions
<1> QED BY <1>1, <1>2, PTL DEF Spec

-----------------------------------------------------------------------------
(* What the invariant says.                                                *)

LEMMA InvTypes ==
  ASSUME DaemonInv
  PROVE  DaemonTypeOK
<1>1. TypeOK /\ DaemonParts
  BY DEF DaemonInv
<1> DEFINE bounded == [pc: {"idle"} \cup InFlight \cup Finished,
                       claim: Claims \cup {None},
                       quote: Quotes \cup {None},
                       plan: Plans \cup {None},
                       reservation: 0..Len(rows),
                       sent: BOOLEAN,
                       outcome: {"none", "paid", "refused", "free", "seller_error"}]
<1>2. ASSUME NEW r \in Requests
      PROVE  job[r] \in bounded
  <2>1. job[r] \in Jobs /\ job[r].reservation \in Nat
    BY <1>1 DEF DaemonParts, Jobs
  <2>2. job[r].reservation \in 0..Len(rows)
    <3>1. job[r].reservation = 0 \/ job[r].reservation \in DOMAIN rows
      BY <1>1, WhereItStands
    <3> QED BY <1>1, <2>1, <3>1, RowsAreNumbered
  <2> QED BY <2>1, <2>2 DEF Jobs
<1>3. job \in [Requests -> bounded]
  <2>1. job = [r \in Requests |-> job[r]]
    BY <1>1 DEF DaemonParts
  <2> HIDE DEF bounded
  <2> QED BY <1>2, <2>1
<1>4. TablesOK
  BY <1>1 DEF DaemonParts
<1> QED BY <1>1, <1>3, <1>4 DEF DaemonTypeOK, TablesOK, IntentRow

LEMMA InvLimits ==
  ASSUME DaemonInv
  PROVE  AuthorizedWithinLimits /\ MovedIsCoveredOrRefused /\ AnswerMatchesLedger
<1>1. TypeOK /\ DaemonParts
  BY DEF DaemonInv
<1>2. ASSUME NEW r \in Requests, job[r].sent
      PROVE  job[r].reservation # 0 /\ WithRow(job[r], rows[job[r].reservation])
  BY <1>1, <1>2, WhereItStands DEF WithoutRow
<1>3. AuthorizedWithinLimits
  <2>1. ASSUME NEW r \in Requests, job[r].sent
        PROVE  /\ Admitted(r)
               /\ \A other \in Requests \ {r} : job[other].reservation # job[r].reservation
               /\ RowOf(r).agent = job[r].claim.agent
               /\ RowOf(r).currency = job[r].quote.currency
               /\ RowOf(r).amount = job[r].quote.price
               /\ RowOf(r).amount <= job[r].claim.ceiling
               /\ RowOf(r).amount <= EnvelopeOf[job[r].claim.agent].maxPerTx
    <3>1. job[r].reservation # 0 /\ WithRow(job[r], rows[job[r].reservation])
      BY <1>2, <2>1
    <3>2. \A other \in Requests \ {r} : job[other].reservation # job[r].reservation
      BY <1>1, <3>1 DEF DaemonParts, OwnReservations
    <3> QED BY <3>1, <3>2 DEF Admitted, RowOf, WithRow, Entitled
  <2> QED BY <2>1 DEF AuthorizedWithinLimits
<1>4. MovedIsCoveredOrRefused
  <2>1. ASSUME NEW r \in moved, HoldsNothing(r)
        PROVE  job[r].outcome = "seller_error"
    <3>1. r \in Requests /\ job[r].sent
      BY <1>1 DEF DaemonParts, TablesOK
    <3> QED BY <1>2, <2>1, <3>1 DEF HoldsNothing, Admitted, RowOf, WithRow, Progress
  <2> QED BY <2>1 DEF MovedIsCoveredOrRefused
<1>5. AnswerMatchesLedger
  <2>1. ASSUME NEW r \in Requests, job[r].pc = "answered"
        PROVE  CASE job[r].outcome = "paid" -> Admitted(r) /\ RowOf(r).state = "confirmed"
                 [] job[r].outcome \in {"free", "seller_error"} -> HoldsNothing(r)
                 [] job[r].outcome = "refused" ->
                       IF job[r].sent THEN RowOf(r).state \in {"reserved", "confirmed"}
                                      ELSE HoldsNothing(r)
    <3>1. CASE job[r].reservation = 0
      <4>1. ~ job[r].sent /\ job[r].outcome \in {"refused", "free", "seller_error"}
        BY <1>1, <2>1, <3>1, WhereItStands DEF WithoutRow
      <4> QED BY <3>1, <4>1 DEF HoldsNothing, Admitted
    <3>2. CASE job[r].reservation # 0
      <4>1. Progress(job[r].pc, job[r].sent, job[r].outcome, rows[job[r].reservation].state)
        BY <1>1, <3>2, WhereItStands DEF WithRow
      <4> QED BY <2>1, <3>2, <4>1 DEF HoldsNothing, Admitted, RowOf, Progress
    <3> QED BY <3>1, <3>2
  <2> QED BY <2>1 DEF AnswerMatchesLedger
<1> QED BY <1>3, <1>4, <1>5

(* No step takes a condemned request past the gate.                        *)
LEMMA CondemnedStaysSo ==
  ASSUME Assumptions, DaemonInv, [Next]_vars, NEW r \in Requests, Condemned(r)
  PROVE  Condemned(r)' \/ (job'[r].pc \in Finished /\ ~ job'[r].sent)
<1>1. /\ job \in [Requests -> Jobs] /\ job[r] \in Jobs
      /\ job[r].pc \in {"probing", "gating"}
      /\ ~ job[r].sent
      /\ job[r].claim.agent \in revoked
      /\ revoked \subseteq Agents
  <2>1. TypeOK /\ DaemonParts
    BY DEF DaemonInv
  <2>2. job[r].pc \in {"probing", "gating"} /\ ~ job[r].sent
    BY <2>1, WhereItStands DEF Condemned, WithoutRow, WithRow, Progress
  <2>3. revoked \in SUBSET Agents /\ ClosedUnderChildren(revoked)
    BY <2>1 DEF DaemonParts, TablesOK
  <2>4. job[r].claim.agent \in revoked
    BY <2>3, SubtreeWithin DEF Condemned
  <2> QED BY <2>1, <2>2, <2>3, <2>4 DEF DaemonParts
<1>2. ASSUME job'[r].pc \in {"probing", "gating"}, job'[r].claim = job[r].claim,
             revoked \subseteq revoked'
      PROVE  Condemned(r)'
  BY <1>2 DEF Condemned
<1>3. ASSUME job' = job, revoked \subseteq revoked'
      PROVE  Condemned(r)'
  BY <1>1, <1>2, <1>3
<1>4. ASSUME NEW outcome \in {"paid", "refused", "free", "seller_error"}, Answer(r, outcome)
      PROVE  job'[r].pc \in Finished /\ ~ job'[r].sent
  <2>1. PICK new \in Jobs : job' = [job EXCEPT ![r] = new] /\ Answered(new, job[r], outcome)
    BY <1>1, <1>4, AnswerShape
  <2> QED BY <1>1, <2>1 DEF Answered, Finished
<1>5. ASSUME job'[r] = job[r], revoked' = revoked
      PROVE  Condemned(r)'
  BY <1>1, <1>2, <1>5
<1>6. CASE Probe(r)
  <2>1. ASSUME NEW offer \in Offers,
               job' = [job EXCEPT ![r].quote = QuoteFromRequirements(offer), ![r].pc = "gating"]
        PROVE  job'[r].pc = "gating" /\ job'[r].claim = job[r].claim
    <3> DEFINE quote == QuoteFromRequirements(offer)
               new == [job[r] EXCEPT !.quote = quote, !.pc = "gating"]
    <3>1. job' = [job EXCEPT ![r] = new]
      BY <2>1
    <3> HIDE DEF quote
    <3>2. new.pc = "gating" /\ new.claim = job[r].claim
      BY <1>1 DEF Jobs
    <3> HIDE DEF new
    <3> QED BY <1>1, <3>1, <3>2
  <2>2. revoked' = revoked
    BY <1>6 DEF Probe, pathVars
  <2> QED BY <1>2, <1>4, <1>6, <2>1, <2>2 DEF Probe
<1>7. CASE Decide(r)
  <2>1. ~ Admissible(job[r].claim, job[r].quote)
    BY <1>1 DEF Admissible, Authentic
  <2> QED BY <1>4, <1>7, <2>1 DEF Decide
<1>8. ASSUME NEW q \in Requests, Advance(q)
      PROVE  Condemned(r)' \/ (job'[r].pc \in Finished /\ ~ job'[r].sent)
  <2>1. CASE q = r
    <3>1. Probe(r) \/ Decide(r)
      BY <1>1, <1>8, <2>1 DEF Advance, ReserveBudget, BeginSigning, Signed, SigningFails, SignerGone,
                              ReplayOk, ReplayRefused, ReplayLost, ReadBody, Runs
    <3> QED BY <1>6, <1>7, <3>1
  <2>2. CASE q # r
    <3>1. job'[r] = job[r]
      BY <1>1, <1>8, <2>2
         DEF Advance, Probe, Decide, ReserveBudget, BeginSigning, Signed, SigningFails, SignerGone,
             ReplayOk, ReplayRefused, ReplayLost, ReadBody, Answer, Goto, RefusedAfterAdmission
    <3>2. revoked' = revoked
      BY <1>8 DEF Advance, Probe, Decide, ReserveBudget, BeginSigning, Signed, SigningFails,
                  SignerGone, ReplayOk, ReplayRefused, ReplayLost, ReadBody, pathVars
    <3> QED BY <1>5, <3>1, <3>2
  <2> QED BY <2>1, <2>2
<1>9. ASSUME NEW q \in Requests, NEW claim \in Claims, Receive(q, claim)
      PROVE  Condemned(r)'
  <2>1. q # r /\ revoked' = revoked
    BY <1>1, <1>9 DEF Receive, Runs, pathVars
  <2>2. job'[r] = job[r]
    BY <1>1, <1>9, <2>1 DEF Receive
  <2> QED BY <1>5, <2>1, <2>2
<1>10. CASE Stop
  <2>1. job'[r] = [job[r] EXCEPT !.pc = "dropped", !.plan = None]
    BY <1>1, <1>10 DEF Stop, InFlight
  <2> QED BY <1>1, <2>1 DEF Finished, Jobs
<1>11. CASE Shutdown \/ Start \/ SetAllowance \/ TimePasses \/ UNCHANGED vars
  BY <1>3, <1>11 DEF Shutdown, Start, SetAllowance, TimePasses, pathVars, vars
<1>12. ASSUME NEW agent \in Agents, Revoke(agent)
       PROVE  Condemned(r)'
  BY <1>3, <1>12 DEF Revoke
<1>13. ASSUME NEW q \in Requests, SellerSettles(q)
       PROVE  Condemned(r)'
  BY <1>3, <1>13 DEF SellerSettles
<1> QED BY <1>8, <1>9, <1>10, <1>11, <1>12, <1>13 DEF Next

-----------------------------------------------------------------------------
(* The theorems.                                                           *)

(* Requests, intents, allowance and rows always have their types.          *)
THEOREM DaemonTypeCorrect == Spec => []DaemonTypeOK
<1>1. DaemonInv => DaemonTypeOK
  BY InvTypes
<1> QED BY <1>1, AlwaysDaemonInv, PTL

(***************************************************************************)
(* pay.ts and gate.ts: whatever requests, commands, crashes and clock      *)
(* changes interleave with it, an authorization that left the daemon has a *)
(* reservation of its own, of exactly the price quoted, within what its    *)
(* agent signed and what its envelope allows per payment.                  *)
(***************************************************************************)
THEOREM LimitsBindAuthorizations == Spec => []AuthorizedWithinLimits
<1>1. DaemonInv => AuthorizedWithinLimits
  BY InvLimits
<1> QED BY <1>1, AlwaysDaemonInv, PTL

(* pay.ts: money that moved still consumes the pool unless the seller      *)
(* itself refused the replay.                                              *)
THEOREM MovedMoneyIsCovered == Spec => []MovedIsCoveredOrRefused
<1>1. DaemonInv => MovedIsCoveredOrRefused
  BY InvLimits
<1> QED BY <1>1, AlwaysDaemonInv, PTL

(* server.ts and pay.ts: what an agent is told agrees with the ledger.     *)
THEOREM AnswersTellTheLedger == Spec => []AnswerMatchesLedger
<1>1. DaemonInv => AnswerMatchesLedger
  BY InvLimits
<1> QED BY <1>1, AlwaysDaemonInv, PTL

(* gate.ts and intent.ts: attempts are numbered without a gap or a repeat, *)
(* although the count is read before the transaction that inserts the row. *)
THEOREM AttemptsAreNumbered == Spec => []AttemptsNumbered
<1>1. DaemonInv => AttemptsNumbered
  BY DEF DaemonInv, DaemonParts
<1> QED BY <1>1, AlwaysDaemonInv, PTL

(* gate.ts and store.ts: a revocation anywhere above the agent of a        *)
(* request the gate has not decided keeps it from ever being authorized.   *)
THEOREM RevocationReachesRequests == Spec => RevocationStopsRequests
<1>1. DaemonInv /\ [Next]_vars =>
        [\A r \in Requests :
            Condemned(r) => \/ Condemned(r)'
                            \/ job'[r].pc \in Finished /\ ~ job'[r].sent]_vars
  BY CondemnedStaysSo, LedgerAssumption, DaemonAssumption DEF Assumptions
<1> QED BY <1>1, AlwaysDaemonInv, PTL DEF Spec, RevocationStopsRequests

(***************************************************************************)
(* Whatever the daemon does to agent_ledger is a behaviour of ledger.ts:   *)
(* its calls are in order and of the right types, and its two phases, the  *)
(* decision and the insert, keep the numbering of the columns they fill.   *)
(***************************************************************************)
THEOREM DaemonIsALedger == Spec => LedgerSpec
<1>1. Init => LedgerInit
  BY DEF Init
<1>2. DaemonInv /\ [Next]_vars => [LedgerNext]_ledgerVars
  BY StepDaemonInv, LedgerAssumption, DaemonAssumption DEF Assumptions
<1> QED BY <1>1, <1>2, AlwaysDaemonInv, PTL DEF Spec, LedgerSpec

(***************************************************************************)
(* So the agents of a daemon together stay, in every window, within the    *)
(* allowance that governs it, although the daemon reads the allowance      *)
(* before the transaction of the reservation.                              *)
(***************************************************************************)
THEOREM DaemonStaysWithinAllowance == Spec => []EveryWindowWithinAllowance
  BY DaemonIsALedger, PoolNeverExceeded, PTL

=============================================================================
