-------------------------- MODULE AgentStoreProofs --------------------------
(***************************************************************************)
(* The theorems about the store, for any envelopes, any principals, any    *)
(* number of processes and of agents.  The inductive invariant speaks of   *)
(* each agent and its parent only, as the code does; attenuation carries   *)
(* down a chain because it is transitive, and a statement about an edge    *)
(* becomes one about a subtree because the set of agents it holds of is    *)
(* closed under children.                                                  *)
(***************************************************************************)
EXTENDS AgentStore, TLAPS, FiniteSetTheorems

-----------------------------------------------------------------------------
(* Attenuation is a preorder on envelopes with a positive period.          *)

LEMMA RatesCompose ==
  ASSUME NEW a \in Nat, NEW b \in Nat, NEW c \in Nat,
         NEW p \in Nat \ {0}, NEW q \in Nat \ {0}, NEW r \in Nat \ {0},
         b * p <= a * q, c * q <= b * r
  PROVE  c * p <= a * r
<1>1. (c * q) * p <= (b * r) * p
  <2>1. ASSUME NEW x \in Nat, NEW y \in Nat, NEW z \in Nat, x <= y
        PROVE  x * z <= y * z
    BY <2>1
  <2>2. c * q \in Nat /\ b * r \in Nat
    OBVIOUS
  <2> QED BY <2>1, <2>2
<1>2. (b * p) * r <= (a * q) * r
  <2>1. ASSUME NEW x \in Nat, NEW y \in Nat, NEW z \in Nat, x <= y
        PROVE  x * z <= y * z
    BY <2>1
  <2>2. b * p \in Nat /\ a * q \in Nat
    OBVIOUS
  <2> QED BY <2>1, <2>2
<1>3. (c * p) * q <= (a * r) * q
  <2>1. (c * q) * p = (c * p) * q /\ (b * r) * p = (b * p) * r /\ (a * q) * r = (a * r) * q
    OBVIOUS
  <2>2. (c * p) * q \in Nat /\ (b * p) * r \in Nat /\ (a * r) * q \in Nat
    OBVIOUS
  <2> QED BY <1>1, <1>2, <2>1, <2>2
<1>4. ASSUME NEW x \in Nat, NEW y \in Nat, NEW z \in Nat \ {0}, x * z <= y * z
      PROVE  x <= y
  BY <1>4
<1>5. c * p \in Nat /\ a * r \in Nat
  OBVIOUS
<1> QED BY <1>3, <1>4, <1>5

(* The types the comparisons work on.                                      *)
LEMMA EnvelopeNumbers ==
  ASSUME EnvelopeAssumption, NEW e \in Envelopes, Valid(e)
  PROVE  /\ e.spendCap \in Nat /\ e.maxPerTx \in Nat /\ e.period \in Nat \ {0}
         /\ e.expiresAt # NoExpiry => e.expiresAt \in Int
<1>1. /\ e.spendCap \in Amounts /\ e.maxPerTx \in Amounts /\ e.period \in Periods
      /\ e.expiresAt \in Instants \cup {NoExpiry}
  BY DEF Envelopes
<1>2. e.period \in Int /\ e.period > 0
  BY <1>1 DEF EnvelopeAssumption, Valid
<1>3. e.period \in Nat \ {0}
  BY <1>2
<1>4. e.spendCap \in Nat /\ e.maxPerTx \in Nat
  BY <1>1 DEF EnvelopeAssumption
<1>5. e.expiresAt # NoExpiry => e.expiresAt \in Int
  BY <1>1 DEF EnvelopeAssumption
<1> QED BY <1>3, <1>4, <1>5

LEMMA AttenuatesReflexive ==
  ASSUME EnvelopeAssumption, NEW e \in Envelopes, Valid(e)
  PROVE  Attenuates(e, e)
<1>1. /\ e.spendCap \in Nat /\ e.maxPerTx \in Nat /\ e.period \in Nat \ {0}
      /\ e.expiresAt # NoExpiry => e.expiresAt \in Int
  BY EnvelopeNumbers
<1>2. e.spendCap * e.period \in Nat
  BY <1>1
<1> QED BY <1>1, <1>2 DEF Attenuates, RateWithin, ExpiryWithin

LEMMA AttenuatesTransitive ==
  ASSUME EnvelopeAssumption,
         NEW e \in Envelopes, NEW f \in Envelopes, NEW g \in Envelopes,
         Valid(e), Valid(f), Valid(g), Attenuates(e, f), Attenuates(f, g)
  PROVE  Attenuates(e, g)
<1>1. /\ e.spendCap \in Nat /\ e.maxPerTx \in Nat /\ e.period \in Nat \ {0}
      /\ f.spendCap \in Nat /\ f.maxPerTx \in Nat /\ f.period \in Nat \ {0}
      /\ g.spendCap \in Nat /\ g.maxPerTx \in Nat /\ g.period \in Nat \ {0}
      /\ e.expiresAt # NoExpiry => e.expiresAt \in Int
      /\ f.expiresAt # NoExpiry => f.expiresAt \in Int
      /\ g.expiresAt # NoExpiry => g.expiresAt \in Int
  BY EnvelopeNumbers
<1>2. RateWithin(e, g)
  <2>1. /\ f.spendCap * e.period <= e.spendCap * f.period
        /\ g.spendCap * f.period <= f.spendCap * g.period
    BY DEF Attenuates, RateWithin
  <2>2. g.spendCap * e.period <= e.spendCap * g.period
    BY <1>1, <2>1, RatesCompose
  <2> QED BY <2>2 DEF RateWithin
<1>3. ExpiryWithin(e, g)
  BY <1>1 DEF Attenuates, ExpiryWithin
<1>4. g.spendCap <= e.spendCap /\ g.maxPerTx <= e.maxPerTx
  BY <1>1 DEF Attenuates
<1>5. g.hosts \subseteq e.hosts /\ g.currencies \subseteq e.currencies
  BY DEF Attenuates
<1> QED BY <1>2, <1>3, <1>4, <1>5 DEF Attenuates

-----------------------------------------------------------------------------
(* Subtrees.                                                               *)

(* A subtree lies in every closed set that holds its root.                 *)
LEMMA SubtreeWithin ==
  ASSUME NEW root, NEW S \in SUBSET DOMAIN agents, root \in S, ClosedUnderChildren(S)
  PROVE  Subtree(root) \subseteq S
  BY DEF Subtree

(* A subtree is closed under children.                                     *)
LEMMA SubtreeClosed ==
  ASSUME NEW root
  PROVE  ClosedUnderChildren(Subtree(root))
<1> SUFFICES ASSUME NEW i \in DOMAIN agents, agents[i].parent \in Subtree(root),
                    NEW S \in SUBSET DOMAIN agents, root \in S, ClosedUnderChildren(S)
             PROVE  i \in S
  BY DEF ClosedUnderChildren, Subtree
<1>1. agents[i].parent \in S
  BY DEF Subtree
<1> QED BY <1>1 DEF ClosedUnderChildren

-----------------------------------------------------------------------------
(* The inductive invariant.                                                *)

(* What create found in its first part still holds when it inserts.        *)
Within(principal, envelope) ==
    \E allowance \in onRecord[principal] :
        Attenuates(Ceiling(allowance, envelope), envelope)

RequestsChecked ==
    \A p \in Processes : issuing[p] # Nothing =>
        /\ Valid(issuing[p].envelope)
        /\ Within(issuing[p].principal, issuing[p].envelope)

(* The allowance in force is one of those on record.                       *)
AllowanceOnRecord ==
    \A principal \in Principals :
        allowances[principal] # NoAllowance =>
            allowances[principal] \in onRecord[principal]

AgentsChecked ==
    \A i \in DOMAIN agents :
        /\ Valid(agents[i].envelope)
        /\ Within(agents[i].principal, agents[i].envelope)

(* An agent and its parent.                                                *)
ParentsBound ==
    \A i \in DOMAIN agents : agents[i].parent # 0 =>
        LET parent == agents[agents[i].parent] IN
        /\ agents[i].principal = parent.principal
        /\ parent.revoked => agents[i].revoked
        /\ Attenuates(parent.envelope, agents[i].envelope)

StoreInv ==
    /\ StoreTypeOK
    /\ RequestsChecked
    /\ AllowanceOnRecord
    /\ AgentsChecked
    /\ ParentsBound

(* The shape of the table.                                                 *)
LEMMA AgentShape ==
  ASSUME StoreAssumption, StoreTypeOK
  PROVE  /\ DOMAIN agents = 1..Len(agents) /\ Len(agents) \in Nat
         /\ \A i \in DOMAIN agents :
               /\ agents[i] \in Agent
               /\ agents[i].envelope \in Envelopes
               /\ agents[i].principal \in Principals
               /\ agents[i].revoked \in BOOLEAN
               /\ agents[i].parent # 0 => agents[i].parent \in DOMAIN agents
<1>1. DOMAIN agents = 1..Len(agents) /\ Len(agents) \in Nat
  BY DEF StoreTypeOK
<1>2. ASSUME NEW i \in DOMAIN agents
      PROVE  /\ agents[i] \in Agent
             /\ agents[i].envelope \in Envelopes
             /\ agents[i].principal \in Principals
             /\ agents[i].revoked \in BOOLEAN
             /\ agents[i].parent # 0 => agents[i].parent \in DOMAIN agents
  <2>1. agents[i] \in Agent
    BY DEF StoreTypeOK
  <2>2. /\ agents[i].envelope \in Wanted /\ agents[i].principal \in Principals
        /\ agents[i].revoked \in BOOLEAN /\ agents[i].parent \in Nat
    BY <2>1 DEF Agent
  <2>3. agents[i].parent < i
    BY DEF StoreTypeOK
  <2>4. agents[i].envelope \in Envelopes
    BY <2>2 DEF StoreAssumption
  <2>5. agents[i].parent # 0 => agents[i].parent \in DOMAIN agents
    BY <1>1, <2>2, <2>3
  <2> QED BY <2>1, <2>2, <2>4, <2>5
<1> QED BY <1>1, <1>2

(* From edges to subtrees.                                                 *)
LEMMA SubtreesFromEdges ==
  ASSUME EnvelopeAssumption, StoreAssumption, StoreInv
  PROVE  /\ RevocationCoversSubtree
         /\ NarrowerThanEveryAncestor
         /\ TreesOfOnePrincipal
<1> USE DEF StoreInv
<1>1. ASSUME NEW i \in DOMAIN agents
      PROVE  /\ agents[i].envelope \in Envelopes /\ Valid(agents[i].envelope)
             /\ agents[i].parent # 0 => agents[i].parent \in DOMAIN agents
  BY AgentShape DEF AgentsChecked
<1>2. 0 \notin DOMAIN agents
  BY AgentShape
<1>3. RevocationCoversSubtree
  <2> SUFFICES ASSUME NEW i \in DOMAIN agents, agents[i].revoked
               PROVE  \A j \in Subtree(i) : agents[j].revoked
    BY DEF RevocationCoversSubtree
  <2> DEFINE S == {j \in DOMAIN agents : agents[j].revoked}
  <2>1. ClosedUnderChildren(S)
    BY <1>2 DEF ClosedUnderChildren, ParentsBound
  <2>2. S \in SUBSET DOMAIN agents /\ i \in S
    OBVIOUS
  <2>3. Subtree(i) \subseteq S
    <3> HIDE DEF S
    <3> QED BY <2>1, <2>2, SubtreeWithin
  <2> QED BY <2>3
<1>4. NarrowerThanEveryAncestor
  <2> SUFFICES ASSUME NEW i \in DOMAIN agents
               PROVE  \A j \in Subtree(i) :
                         Attenuates(agents[i].envelope, agents[j].envelope)
    BY DEF NarrowerThanEveryAncestor
  <2> DEFINE S == {j \in DOMAIN agents :
                      Attenuates(agents[i].envelope, agents[j].envelope)}
  <2>1. ClosedUnderChildren(S)
    <3> SUFFICES ASSUME NEW j \in DOMAIN agents, agents[j].parent \in S
                 PROVE  Attenuates(agents[i].envelope, agents[j].envelope)
      BY DEF ClosedUnderChildren
    <3> DEFINE q == agents[j].parent
    <3>1. q \in DOMAIN agents /\ q # 0
      BY <1>2
    <3>2. Attenuates(agents[i].envelope, agents[q].envelope)
      OBVIOUS
    <3>3. Attenuates(agents[q].envelope, agents[j].envelope)
      BY <3>1 DEF ParentsBound
    <3> QED BY <1>1, <3>1, <3>2, <3>3, AttenuatesTransitive
  <2>2. i \in S
    BY <1>1, AttenuatesReflexive
  <2>3. Subtree(i) \subseteq S
    <3>1. S \in SUBSET DOMAIN agents
      OBVIOUS
    <3> HIDE DEF S
    <3> QED BY <2>1, <2>2, <3>1, SubtreeWithin
  <2> QED BY <2>3
<1>5. TreesOfOnePrincipal
  <2> SUFFICES ASSUME NEW i \in DOMAIN agents
               PROVE  \A j \in Subtree(i) : agents[j].principal = agents[i].principal
    BY DEF TreesOfOnePrincipal
  <2> DEFINE S == {j \in DOMAIN agents : agents[j].principal = agents[i].principal}
  <2>1. ClosedUnderChildren(S)
    BY <1>2 DEF ClosedUnderChildren, ParentsBound
  <2>2. S \in SUBSET DOMAIN agents /\ i \in S
    OBVIOUS
  <2>3. Subtree(i) \subseteq S
    <3> HIDE DEF S
    <3> QED BY <2>1, <2>2, SubtreeWithin
  <2> QED BY <2>3
<1> QED BY <1>3, <1>4, <1>5

-----------------------------------------------------------------------------
(* The invariant is inductive: one lemma per action.                       *)

LEMMA InitStoreInv ==
  ASSUME StoreAssumption, StoreInit
  PROVE  StoreInv
<1>1. StoreTypeOK
  BY DEF StoreAssumption, StoreInit, StoreTypeOK
<1>2. RequestsChecked /\ AllowanceOnRecord
  BY DEF StoreInit, RequestsChecked, AllowanceOnRecord
<1>3. AgentsChecked /\ ParentsBound
  BY DEF StoreInit, AgentsChecked, ParentsBound
<1> QED BY <1>1, <1>2, <1>3 DEF StoreInv

LEMMA CheckKeepsInv ==
  ASSUME StoreAssumption, StoreInv,
         NEW p \in Processes, NEW principal \in Principals, NEW envelope \in Wanted,
         NEW parent \in {0} \cup DOMAIN agents,
         CheckAccount(p, principal, envelope, parent)
  PROVE  StoreInv'
<1> USE DEF StoreInv
<1> DEFINE request == [principal |-> principal, envelope |-> envelope, parent |-> parent]
<1>1. /\ issuing' = [issuing EXCEPT ![p] = request]
      /\ AccountAllows(principal, envelope)
      /\ UNCHANGED <<agents, allowances, onRecord>>
  BY DEF CheckAccount
<1>2. request \in Request
  <2>1. parent \in 0..MaxIssued
    BY AgentShape DEF StoreTypeOK, StoreAssumption
  <2> QED BY <2>1 DEF Request
<1>3. StoreTypeOK'
  <2> HIDE DEF request
  <2> QED BY <1>1, <1>2 DEF StoreTypeOK
<1>4. RequestsChecked'
  <2> SUFFICES ASSUME NEW q \in Processes, issuing'[q] # Nothing
               PROVE  /\ Valid(issuing'[q].envelope)
                      /\ Within(issuing'[q].principal, issuing'[q].envelope)
    BY <1>1 DEF RequestsChecked, Within
  <2>1. CASE q = p
    <3>1. issuing'[q] = request
      <4> HIDE DEF request
      <4> QED BY <1>1, <2>1 DEF StoreTypeOK
    <3>2. Valid(envelope) /\ Within(principal, envelope)
      BY <1>1 DEF AccountAllows, AllowanceOnRecord, Within
    <3> QED BY <3>1, <3>2
  <2>2. CASE q # p
    <3>1. issuing'[q] = issuing[q]
      <4> HIDE DEF request
      <4> QED BY <1>1, <2>2 DEF StoreTypeOK
    <3> QED BY <3>1 DEF RequestsChecked
  <2> QED BY <2>1, <2>2
<1>5. AllowanceOnRecord' /\ AgentsChecked' /\ ParentsBound'
  BY <1>1 DEF AllowanceOnRecord, AgentsChecked, ParentsBound, Within
<1> QED BY <1>3, <1>4, <1>5

LEMMA IssueKeepsInv ==
  ASSUME StoreAssumption, StoreInv, NEW p \in Processes, Issue(p)
  PROVE  StoreInv'
<1> USE DEF StoreInv
<1> DEFINE request == issuing[p]
           n == Len(agents) + 1
           new == [principal |-> request.principal, parent |-> request.parent,
                   envelope |-> request.envelope, revoked |-> FALSE]
<1>1. /\ request # Nothing /\ Len(agents) < MaxIssued
      /\ request.parent # 0 =>
            ParentAllows(request.principal, request.parent, request.envelope)
      /\ agents' = Append(agents, new)
      /\ issuing' = [issuing EXCEPT ![p] = Nothing]
      /\ UNCHANGED <<allowances, onRecord>>
  BY DEF Issue, ParentId
<1>2. /\ request \in Request
      /\ Valid(request.envelope)
      /\ Within(request.principal, request.envelope)
  BY <1>1 DEF StoreTypeOK, RequestsChecked
<1>3. /\ new \in Agent
      /\ request.parent \in Nat
      /\ request.parent < n
  <2>1. /\ request.principal \in Principals /\ request.envelope \in Wanted
        /\ request.parent \in 0..MaxIssued
    BY <1>2 DEF Request
  <2>2. request.parent \in Nat
    BY <2>1 DEF StoreAssumption
  <2>3. request.parent # 0 => request.parent \in DOMAIN agents
    BY <1>1 DEF ParentAllows, Found
  <2>4. request.parent < n
    BY <2>2, <2>3, AgentShape
  <2> QED BY <2>1, <2>2, <2>4 DEF Agent
<1>4. /\ agents' \in Seq(Agent) /\ Len(agents') = n /\ DOMAIN agents' = 1..n
      /\ n \in Nat /\ DOMAIN agents = 1..Len(agents)
      /\ agents'[n] = new
      /\ \A i \in DOMAIN agents : agents'[i] = agents[i] /\ i \in DOMAIN agents'
      /\ \A i \in DOMAIN agents' : i = n \/ i \in DOMAIN agents
  <2> HIDE DEF new
  <2>1. agents \in Seq(Agent) /\ Len(agents) \in Nat /\ DOMAIN agents = 1..Len(agents)
    BY AgentShape DEF StoreTypeOK
  <2>2. /\ agents' \in Seq(Agent) /\ Len(agents') = n /\ DOMAIN agents' = 1..n
        /\ agents'[n] = new
        /\ \A i \in DOMAIN agents : agents'[i] = agents[i]
    BY <1>1, <1>3, <2>1
  <2> QED BY <2>1, <2>2
<1>5. StoreTypeOK'
  <2>1. \A i \in DOMAIN agents' : agents'[i].parent < i
    BY <1>3, <1>4 DEF StoreTypeOK
  <2>2. n <= MaxIssued
    BY <1>1, <1>4, AgentShape DEF StoreAssumption
  <2> HIDE DEF new, request
  <2> QED BY <1>1, <1>4, <2>1, <2>2 DEF StoreTypeOK
<1>6. RequestsChecked' /\ AllowanceOnRecord'
  BY <1>1 DEF RequestsChecked, AllowanceOnRecord, Within, StoreTypeOK
<1>7. AgentsChecked'
  <2>1. ASSUME NEW i \in DOMAIN agents'
        PROVE  Valid(agents'[i].envelope) /\ Within(agents'[i].principal, agents'[i].envelope)
    <3>1. CASE i = n
      BY <1>2, <1>4, <3>1
    <3>2. CASE i \in DOMAIN agents
      BY <1>4, <3>2 DEF AgentsChecked
    <3> QED BY <1>4, <3>1, <3>2
  <2> QED BY <1>1, <2>1 DEF AgentsChecked, Within
<1>8. ParentsBound'
  <2> SUFFICES ASSUME NEW i \in DOMAIN agents', agents'[i].parent # 0
               PROVE  LET parent == agents'[agents'[i].parent] IN
                      /\ agents'[i].principal = parent.principal
                      /\ parent.revoked => agents'[i].revoked
                      /\ Attenuates(parent.envelope, agents'[i].envelope)
    BY DEF ParentsBound
  <2>1. CASE i = n
    <3>1. agents'[i] = new
      BY <1>4, <2>1
    <3>2. ParentAllows(request.principal, request.parent, request.envelope)
      BY <1>1, <3>1
    <3>3. agents'[request.parent] = agents[request.parent]
      BY <1>4, <3>2 DEF ParentAllows, Found
    <3> QED BY <3>1, <3>2, <3>3 DEF ParentAllows, Found
  <2>2. CASE i \in DOMAIN agents
    <3>1. agents'[i] = agents[i] /\ agents[i].parent \in DOMAIN agents
      BY <1>4, <2>2, AgentShape
    <3>2. agents'[agents[i].parent] = agents[agents[i].parent]
      BY <1>4, <3>1
    <3> QED BY <2>2, <3>1, <3>2 DEF ParentsBound
  <2> QED BY <1>4, <2>1, <2>2
<1> QED BY <1>5, <1>6, <1>7, <1>8

LEMMA RevokeKeepsInv ==
  ASSUME StoreAssumption, StoreInv, NEW principal \in Principals,
         NEW id \in DOMAIN agents, Revoke(principal, id)
  PROVE  StoreInv'
<1> USE DEF StoreInv
<1>1. /\ DOMAIN agents' = DOMAIN agents
      /\ \A i \in DOMAIN agents :
            agents'[i] = IF i \in Subtree(id) THEN [agents[i] EXCEPT !.revoked = TRUE]
                                              ELSE agents[i]
      /\ UNCHANGED <<allowances, issuing, onRecord>>
  BY DEF Revoke
<1>2. ASSUME NEW i \in DOMAIN agents
      PROVE  /\ agents'[i] \in Agent
             /\ agents'[i].principal = agents[i].principal
             /\ agents'[i].parent = agents[i].parent
             /\ agents'[i].envelope = agents[i].envelope
             /\ agents'[i].revoked <=> agents[i].revoked \/ i \in Subtree(id)
  <2>1. agents[i] \in Agent
    BY AgentShape
  <2>2. CASE i \in Subtree(id)
    <3>1. agents'[i] = [agents[i] EXCEPT !.revoked = TRUE]
      BY <1>1, <2>2
    <3> QED BY <2>1, <2>2, <3>1 DEF Agent
  <2>3. CASE i \notin Subtree(id)
    BY <1>1, <2>1, <2>3
  <2> QED BY <2>2, <2>3
<1>3. StoreTypeOK'
  <2>1. agents' = [i \in 1..Len(agents) |-> agents'[i]] /\ Len(agents) \in Nat
    BY AgentShape DEF Revoke
  <2>2. \A i \in 1..Len(agents) : agents'[i] \in Agent
    BY <1>2, AgentShape
  <2>3. agents' \in Seq(Agent) /\ Len(agents') = Len(agents)
    BY <2>1, <2>2
  <2> QED BY <1>1, <1>2, <2>3 DEF StoreTypeOK
<1>4. RequestsChecked' /\ AllowanceOnRecord'
  BY <1>1 DEF RequestsChecked, AllowanceOnRecord, Within
<1>5. AgentsChecked'
  BY <1>1, <1>2 DEF AgentsChecked, Within
<1>6. ParentsBound'
  <2> SUFFICES ASSUME NEW i \in DOMAIN agents, agents[i].parent # 0
               PROVE  LET parent == agents'[agents[i].parent] IN
                      /\ agents'[i].principal = parent.principal
                      /\ parent.revoked => agents'[i].revoked
                      /\ Attenuates(parent.envelope, agents'[i].envelope)
    BY <1>1, <1>2 DEF ParentsBound
  <2> DEFINE q == agents[i].parent
  <2>1. q \in DOMAIN agents
    BY AgentShape
  <2>2. q \in Subtree(id) => i \in Subtree(id)
    BY SubtreeClosed DEF ClosedUnderChildren
  <2>3. /\ agents[i].principal = agents[q].principal
        /\ agents[q].revoked => agents[i].revoked
        /\ Attenuates(agents[q].envelope, agents[i].envelope)
    BY DEF ParentsBound
  <2> HIDE DEF q
  <2>4. agents'[q].revoked => agents'[i].revoked
    BY <1>2, <2>1, <2>2, <2>3
  <2>5. /\ agents'[i].principal = agents'[q].principal
        /\ Attenuates(agents'[q].envelope, agents'[i].envelope)
    BY <1>2, <2>1, <2>3
  <2> QED BY <2>4, <2>5 DEF q
<1> QED BY <1>3, <1>4, <1>5, <1>6

LEMMA GiveUpKeepsInv ==
  ASSUME StoreInv, NEW p \in Processes, GiveUp(p)
  PROVE  StoreInv'
<1>1. /\ issuing' = [issuing EXCEPT ![p] = Nothing]
      /\ UNCHANGED <<agents, allowances, onRecord>>
  BY DEF GiveUp
<1>2. StoreTypeOK' /\ RequestsChecked'
  BY <1>1 DEF StoreInv, StoreTypeOK, RequestsChecked, Within
<1>3. AllowanceOnRecord' /\ AgentsChecked' /\ ParentsBound'
  BY <1>1 DEF StoreInv, AllowanceOnRecord, AgentsChecked, ParentsBound, Within
<1> QED BY <1>2, <1>3 DEF StoreInv

LEMMA SetAllowanceKeepsInv ==
  ASSUME StoreAssumption, StoreInv, NEW principal \in Principals,
         NEW allowance \in Allowances, SetAllowance(principal, allowance)
  PROVE  StoreInv'
<1> USE DEF StoreInv
<1>1. /\ allowances' = [allowances EXCEPT ![principal] = allowance]
      /\ onRecord' = [onRecord EXCEPT ![principal] = @ \cup {allowance}]
      /\ UNCHANGED <<agents, issuing>>
  BY DEF SetAllowance
<1>2. StoreTypeOK'
  BY <1>1 DEF StoreTypeOK
<1>3. \A other \in Principals :
        /\ onRecord[other] \subseteq onRecord'[other]
        /\ allowances'[other] = IF other = principal THEN allowance ELSE allowances[other]
        /\ other = principal => allowance \in onRecord'[other]
  BY <1>1 DEF StoreTypeOK
<1>4. AllowanceOnRecord'
  BY <1>3 DEF AllowanceOnRecord
<1>5. ASSUME NEW other \in Principals, NEW envelope, Within(other, envelope)
      PROVE  Within(other, envelope)'
  BY <1>3, <1>5 DEF Within
<1>6. RequestsChecked'
  <2>1. ASSUME NEW p \in Processes, issuing[p] # Nothing
        PROVE  issuing[p].principal \in Principals
    BY <2>1 DEF StoreTypeOK, Request
  <2> QED BY <1>1, <1>5, <2>1 DEF RequestsChecked
<1>7. AgentsChecked'
  BY <1>1, <1>5, AgentShape DEF AgentsChecked
<1>8. ParentsBound'
  BY <1>1 DEF ParentsBound
<1> QED BY <1>2, <1>4, <1>6, <1>7, <1>8

LEMMA StepStoreInv ==
  ASSUME StoreAssumption, StoreInv, [StoreNext]_storeVars
  PROVE  StoreInv'
<1>1. CASE SomeCheck
  BY <1>1, CheckKeepsInv DEF SomeCheck
<1>2. CASE \E p \in Processes : Issue(p)
  BY <1>2, IssueKeepsInv
<1>3. CASE \E p \in Processes : GiveUp(p)
  BY <1>3, GiveUpKeepsInv
<1>4. CASE SomeRevoke
  BY <1>4, RevokeKeepsInv DEF SomeRevoke
<1>5. CASE SomeSetAllowance
  BY <1>5, SetAllowanceKeepsInv DEF SomeSetAllowance
<1>6. CASE UNCHANGED storeVars
  BY <1>6 DEF storeVars, StoreInv, StoreTypeOK, RequestsChecked, AllowanceOnRecord,
              AgentsChecked, ParentsBound, Within
<1> QED BY <1>1, <1>2, <1>3, <1>4, <1>5, <1>6 DEF StoreNext

-----------------------------------------------------------------------------
(* The theorems.                                                           *)

LEMMA StoreInvHolds == StoreSpec => []StoreInv
<1>1. StoreInit => StoreInv
  BY InitStoreInv, StoreAssumption
<1>2. StoreInv /\ [StoreNext]_storeVars => StoreInv'
  BY StepStoreInv, StoreAssumption
<1> QED BY <1>1, <1>2, PTL DEF StoreSpec

(* The tables have their types, and parents are older than their children. *)
THEOREM StoreTypeCorrect == StoreSpec => []StoreTypeOK
<1>1. StoreInv => StoreTypeOK
  BY DEF StoreInv
<1> QED BY <1>1, StoreInvHolds, PTL

(* All descendants of a revoked agent are revoked.                         *)
THEOREM RevocationIsComplete == StoreSpec => []RevocationCoversSubtree
<1>1. StoreInv => RevocationCoversSubtree
  BY SubtreesFromEdges, EnvelopeAssumption, StoreAssumption
<1> QED BY <1>1, StoreInvHolds, PTL

(* No agent is wider than any of its ancestors.                            *)
THEOREM AttenuationIsInherited == StoreSpec => []NarrowerThanEveryAncestor
<1>1. StoreInv => NarrowerThanEveryAncestor
  BY SubtreesFromEdges, EnvelopeAssumption, StoreAssumption
<1> QED BY <1>1, StoreInvHolds, PTL

(* A tree of agents belongs to one principal.                              *)
THEOREM TreesBelongToOnePrincipal == StoreSpec => []TreesOfOnePrincipal
<1>1. StoreInv => TreesOfOnePrincipal
  BY SubtreesFromEdges, EnvelopeAssumption, StoreAssumption
<1> QED BY <1>1, StoreInvHolds, PTL

(* Every agent fits an allowance its account once had.                     *)
THEOREM AgentsFitTheirAccount == StoreSpec => []IssuedUnderAnAllowance
<1>1. StoreInv => IssuedUnderAnAllowance
  BY DEF StoreInv, AgentsChecked, Within, IssuedUnderAnAllowance
<1> QED BY <1>1, StoreInvHolds, PTL

-----------------------------------------------------------------------------
(* The limit on live agents.                                               *)

LEMMA LiveFinite ==
  ASSUME StoreAssumption, StoreTypeOK, NEW principal
  PROVE  IsFiniteSet(Live(principal)) /\ Cardinality(Live(principal)) \in Nat
<1>1. DOMAIN agents = 1..Len(agents) /\ Len(agents) \in Nat
  BY AgentShape
<1>2. IsFiniteSet(1..Len(agents))
  BY <1>1, FS_Interval
<1>3. Live(principal) \subseteq 1..Len(agents)
  BY <1>1 DEF Live
<1> QED BY <1>2, <1>3, FS_Subset, FS_CardinalityType

LEMMA StepLiveWithinLimit ==
  ASSUME StoreAssumption, StoreInv, LiveWithinLimit, [StoreNext]_storeVars
  PROVE  LiveWithinLimit'
<1> USE DEF StoreInv
<1> SUFFICES ASSUME NEW principal \in Principals
             PROVE  Cardinality(Live(principal)') <= MaxAgents
  BY DEF LiveWithinLimit
<1>1. /\ IsFiniteSet(Live(principal)) /\ Cardinality(Live(principal)) \in Nat
      /\ Cardinality(Live(principal)) <= MaxAgents /\ MaxAgents \in Nat
  BY LiveFinite DEF LiveWithinLimit, StoreAssumption
<1>2. ASSUME Live(principal)' \subseteq Live(principal)
      PROVE  Cardinality(Live(principal)') <= MaxAgents
  BY <1>1, <1>2, FS_Subset, FS_CardinalityType
<1>3. ASSUME NEW p \in Processes, Issue(p)
      PROVE  Cardinality(Live(principal)') <= MaxAgents
  <2> DEFINE request == issuing[p]
             n == Len(agents) + 1
             new == [principal |-> request.principal, parent |-> request.parent,
                     envelope |-> request.envelope, revoked |-> FALSE]
  <2>1. /\ agents' = Append(agents, new) /\ RoomForOne(request.principal)
        /\ agents \in Seq(Agent) /\ Len(agents) \in Nat /\ request # Nothing
    BY <1>3, AgentShape DEF Issue, ParentId, StoreTypeOK
  <2>2. new \in Agent
    <3>1. request \in Request
      BY <2>1 DEF StoreTypeOK
    <3>2. request.parent \in Nat
      BY <3>1 DEF Request, StoreAssumption
    <3> QED BY <3>1, <3>2 DEF Request, Agent
  <2>3. /\ DOMAIN agents' = 1..n /\ DOMAIN agents = 1..Len(agents)
        /\ agents'[n] = new /\ \A i \in DOMAIN agents : agents'[i] = agents[i]
    <3> HIDE DEF new
    <3> QED BY <2>1, <2>2
  <2>4. CASE principal = request.principal
    <3>1. Live(principal)' \subseteq Live(principal) \cup {n}
      BY <2>1, <2>3 DEF Live
    <3>2. /\ IsFiniteSet(Live(principal) \cup {n})
          /\ Cardinality(Live(principal) \cup {n}) <= Cardinality(Live(principal)) + 1
          /\ Cardinality(Live(principal) \cup {n}) \in Nat
      <4> DEFINE L == Live(principal)
      <4>1. IsFiniteSet(L) /\ Cardinality(L) \in Nat
        BY <1>1
      <4> HIDE DEF L, n
      <4>2. IsFiniteSet(L \cup {n})
            /\ Cardinality(L \cup {n}) = IF n \in L THEN Cardinality(L) ELSE Cardinality(L) + 1
        BY <4>1, FS_AddElement
      <4>3. Cardinality(L \cup {n}) <= Cardinality(L) + 1 /\ Cardinality(L \cup {n}) \in Nat
        BY <4>1, <4>2
      <4> QED BY <4>2, <4>3 DEF L
    <3>3. Cardinality(Live(principal)') <= Cardinality(Live(principal) \cup {n})
          /\ Cardinality(Live(principal)') \in Nat
      BY <3>1, <3>2, FS_Subset, FS_CardinalityType
    <3>4. Cardinality(Live(principal)) < MaxAgents
      BY <2>1, <2>4 DEF RoomForOne
    <3> QED BY <1>1, <3>2, <3>3, <3>4
  <2>5. CASE principal # request.principal
    <3>1. Live(principal)' \subseteq Live(principal)
      BY <2>1, <2>3, <2>5 DEF Live
    <3> QED BY <1>2, <3>1
  <2> QED BY <2>4, <2>5
<1>4. ASSUME NEW other \in Principals, NEW id \in DOMAIN agents, Revoke(other, id)
      PROVE  Cardinality(Live(principal)') <= MaxAgents
  <2>1. \A i \in DOMAIN agents :
          agents'[i] = IF i \in Subtree(id) THEN [agents[i] EXCEPT !.revoked = TRUE]
                                            ELSE agents[i]
    BY <1>4 DEF Revoke
  <2>2. DOMAIN agents' = DOMAIN agents
    BY <1>4 DEF Revoke
  <2>3. ASSUME NEW i \in DOMAIN agents, agents'[i].principal = principal, ~ agents'[i].revoked
        PROVE  agents[i].principal = principal /\ ~ agents[i].revoked
    <3>1. agents[i] \in Agent
      BY AgentShape
    <3>2. i \notin Subtree(id)
      <4> SUFFICES ASSUME i \in Subtree(id) PROVE agents'[i].revoked
        BY <2>3
      <4>1. agents'[i] = [agents[i] EXCEPT !.revoked = TRUE]
        BY <2>1
      <4> QED BY <3>1, <4>1 DEF Agent
    <3> QED BY <2>1, <2>3, <3>2
  <2>4. Live(principal)' \subseteq Live(principal)
    BY <2>2, <2>3 DEF Live
  <2> QED BY <1>2, <2>4
<1>5. ASSUME agents' = agents
      PROVE  Cardinality(Live(principal)') <= MaxAgents
  BY <1>1, <1>5 DEF Live
<1> QED BY <1>3, <1>4, <1>5
        DEF StoreNext, SomeCheck, CheckAccount, GiveUp, SomeRevoke,
            SomeSetAllowance, SetAllowance, storeVars

(* No principal ever has more live agents than the limit.                  *)
THEOREM LimitNeverExceeded == StoreSpec => []LiveWithinLimit
<1>1. StoreInit => LiveWithinLimit
  <2>1. ASSUME StoreInit, NEW principal PROVE Live(principal) = {}
    BY <2>1 DEF StoreInit, Live
  <2> QED BY <2>1, FS_EmptySet, StoreAssumption DEF LiveWithinLimit, StoreAssumption
<1>2. StoreInv /\ LiveWithinLimit /\ [StoreNext]_storeVars => LiveWithinLimit'
  BY StepLiveWithinLimit, StoreAssumption
<1> QED BY <1>1, <1>2, StoreInvHolds, PTL DEF StoreSpec

=============================================================================
