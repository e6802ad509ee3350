----------------------------- MODULE AgentStore -----------------------------
(***************************************************************************)
(* Issuing and revoking agents (src/store.ts) under the account allowance  *)
(* (src/allowance.ts), by processes that share the database file: each     *)
(* purser agent add, agent revoke and init is a process of its own.        *)
(*                                                                         *)
(* create reads the allowance and checks the envelope against it first,    *)
(* and only then enters the transaction that counts the agents, looks the  *)
(* parent up and inserts the row; in between, other processes run.  revoke *)
(* is one transaction.                                                     *)
(*                                                                         *)
(* agents[i] is the row whose id is i.  Labels, references and keys are    *)
(* left out: a reference is the id it resolves to, and 0 is no reference.  *)
(***************************************************************************)
EXTENDS Envelope, Sequences, FiniteSets

CONSTANTS
    Principals,
    Processes,     \* processes that issue agents
    Wanted,        \* the envelopes they are asked for
    Allowances,    \* records [cap, period, currency]
    NoAllowance,   \* no row in principal_allowance
    MaxAgents,     \* maxAgents
    MaxIssued,     \* bound: agents issued in a behaviour
    Nothing        \* no call of create in progress

ASSUME StoreAssumption ==
    /\ Wanted \subseteq Envelopes
    /\ Allowances \subseteq [cap: Nat, period: Nat \ {0}, currency: Currencies]
    /\ NoAllowance \notin Allowances
    /\ MaxAgents \in Nat
    /\ MaxIssued \in Nat
    /\ Nothing \notin [principal: Principals, envelope: Wanted, parent: 0..MaxIssued]

VARIABLES
    agents,       \* the agents table, in the order of the ids
    allowances,   \* the row of principal_allowance of each principal
    issuing,      \* the calls of create between their check and their insert
    onRecord      \* history: the allowances each principal ever had

storeVars == <<agents, allowances, issuing, onRecord>>

Agent == [principal: Principals, parent: Nat, envelope: Wanted, revoked: BOOLEAN]

Request == [principal: Principals, envelope: Wanted, parent: 0..MaxIssued]

(***************************************************************************)
(* Everything is a value of its type, and a parent is older than its       *)
(* children, so that following parents from any agent ends.                *)
(***************************************************************************)
StoreTypeOK ==
    /\ agents \in Seq(Agent)
    /\ Len(agents) <= MaxIssued
    /\ \A i \in DOMAIN agents : agents[i].parent < i
    /\ allowances \in [Principals -> Allowances \cup {NoAllowance}]
    /\ issuing \in [Processes -> Request \cup {Nothing}]
    /\ onRecord \in [Principals -> SUBSET Allowances]

-----------------------------------------------------------------------------
(* The account as an envelope: it mirrors the child's hosts.               *)
Ceiling(allowance, envelope) ==
    [spendCap   |-> allowance.cap,
     period     |-> allowance.period,
     maxPerTx   |-> allowance.cap,
     hosts      |-> envelope.hosts,
     currencies |-> {allowance.currency},
     expiresAt  |-> NoExpiry]

AccountConfigured(principal, envelope) ==    \* mutant
    /\ Valid(envelope)
    /\ allowances[principal] # NoAllowance

(* The checks create makes before its transaction.                         *)
AccountAllows(principal, envelope) ==
    /\ Valid(envelope)
    /\ allowances[principal] # NoAllowance
    /\ Attenuates(Ceiling(allowances[principal], envelope), envelope)

Live(principal) ==
    {i \in DOMAIN agents : agents[i].principal = principal /\ ~ agents[i].revoked}

RoomForOneTooMany(principal) == Cardinality(Live(principal)) <= MaxAgents   \* mutant
RoomForOne(principal) == Cardinality(Live(principal)) < MaxAgents

FoundByAnyone(principal, id) == id \in DOMAIN agents    \* mutant
(* requireRow: a reference resolves only under its own principal.          *)
Found(principal, id) == id \in DOMAIN agents /\ agents[id].principal = principal

ParentMayBeRevoked(principal, parent, envelope) ==    \* mutant
    /\ Found(principal, parent)
    /\ Attenuates(agents[parent].envelope, envelope)
ParentUnchecked(principal, parent, envelope) ==    \* mutant
    /\ Found(principal, parent)
    /\ ~ agents[parent].revoked
ParentAllows(principal, parent, envelope) ==
    /\ Found(principal, parent)
    /\ ~ agents[parent].revoked
    /\ Attenuates(agents[parent].envelope, envelope)

-----------------------------------------------------------------------------
(* create, up to its transaction.  A call whose check throws changes       *)
(* nothing and is not a step.                                              *)
CheckAccount(p, principal, envelope, parent) ==
    /\ issuing[p] = Nothing
    /\ AccountAllows(principal, envelope)
    /\ issuing' = [issuing EXCEPT ![p] = [principal |-> principal,
                                          envelope  |-> envelope,
                                          parent    |-> parent]]
    /\ UNCHANGED <<agents, allowances, onRecord>>

ParentIdAfterInsert(request) == Len(agents) + 1    \* mutant
ParentId(request) == request.parent

(* The transaction of create.                                              *)
Issue(p) ==
    LET request == issuing[p] IN
    /\ request # Nothing
    /\ Len(agents) < MaxIssued
    /\ RoomForOne(request.principal)
    /\ request.parent # 0 =>
           ParentAllows(request.principal, request.parent, request.envelope)
    /\ agents' = Append(agents, [principal |-> request.principal,
                                 parent    |-> ParentId(request),
                                 envelope  |-> request.envelope,
                                 revoked   |-> FALSE])
    /\ issuing' = [issuing EXCEPT ![p] = Nothing]
    /\ UNCHANGED <<allowances, onRecord>>

(* The transaction throws and is rolled back, or the process ends first.   *)
GiveUp(p) ==
    /\ issuing[p] # Nothing
    /\ issuing' = [issuing EXCEPT ![p] = Nothing]
    /\ UNCHANGED <<agents, allowances, onRecord>>

(***************************************************************************)
(* The subtree of an agent, the recursive query of revoke: what is in      *)
(* every set of agents that holds the root and, with an agent, the agent's *)
(* children.                                                               *)
(***************************************************************************)
ClosedUnderChildren(S) ==
    \A i \in DOMAIN agents : agents[i].parent \in S => i \in S

Subtree(root) ==
    {i \in DOMAIN agents :
        \A S \in SUBSET DOMAIN agents :
            root \in S /\ ClosedUnderChildren(S) => i \in S}

Revoke(principal, id) ==
    /\ Found(principal, id)
    /\ agents' = [i \in DOMAIN agents |->
                    IF i \in Subtree(id) THEN [agents[i] EXCEPT !.revoked = TRUE]
                                         ELSE agents[i]]
    /\ UNCHANGED <<allowances, issuing, onRecord>>

(* AllowanceStore.set.                                                     *)
SetAllowance(principal, allowance) ==
    /\ allowances' = [allowances EXCEPT ![principal] = allowance]
    /\ onRecord' = [onRecord EXCEPT ![principal] = @ \cup {allowance}]
    /\ UNCHANGED <<agents, issuing>>

-----------------------------------------------------------------------------
StoreInit ==
    /\ agents = <<>>
    /\ allowances = [principal \in Principals |-> NoAllowance]
    /\ issuing = [p \in Processes |-> Nothing]
    /\ onRecord = [principal \in Principals |-> {}]

SomeCheck ==
    \E p \in Processes, principal \in Principals, envelope \in Wanted,
       parent \in {0} \cup DOMAIN agents :
        CheckAccount(p, principal, envelope, parent)

SomeRevoke == \E principal \in Principals, id \in DOMAIN agents : Revoke(principal, id)

SomeSetAllowance ==
    \E principal \in Principals, allowance \in Allowances :
        SetAllowance(principal, allowance)

StoreNext ==
    \/ SomeCheck
    \/ \E p \in Processes : Issue(p)
    \/ \E p \in Processes : GiveUp(p)
    \/ SomeRevoke
    \/ SomeSetAllowance

StoreSpec == StoreInit /\ [][StoreNext]_storeVars

-----------------------------------------------------------------------------
(***************************************************************************)
(* Whatever the order in which agents are issued and revoked, all          *)
(* descendants of a revoked agent are revoked: none is issued under an     *)
(* agent whose revocation already ran.  The gate relies on it: it looks at *)
(* the agent's own revoked_at only.                                        *)
(***************************************************************************)
RevocationCoversSubtree ==
    \A i \in DOMAIN agents :
        agents[i].revoked => \A j \in Subtree(i) : agents[j].revoked

(***************************************************************************)
(* An agent is no wider than any of its ancestors.  The store checks the   *)
(* parent only, once, at issuance ("so the payment hot path never has to   *)
(* walk the parent chain"): attenuation, rates included, must carry down   *)
(* the chain.                                                              *)
(***************************************************************************)
NarrowerThanEveryAncestor ==
    \A i \in DOMAIN agents : \A j \in Subtree(i) :
        Attenuates(agents[i].envelope, agents[j].envelope)

(***************************************************************************)
(* A tree of agents belongs to one principal: revoke follows parents       *)
(* without looking at the principal, and must not reach another account.   *)
(***************************************************************************)
TreesOfOnePrincipal ==
    \A i \in DOMAIN agents : \A j \in Subtree(i) :
        agents[j].principal = agents[i].principal

(***************************************************************************)
(* No principal ever has more live agents than the limit, however many     *)
(* processes issue at once.                                                *)
(***************************************************************************)
LiveWithinLimit ==
    \A principal \in Principals : Cardinality(Live(principal)) <= MaxAgents

(***************************************************************************)
(* Every agent, roots included, fits an allowance its own account once     *)
(* had.  It may be a lowered one by the time the row is inserted: create   *)
(* reads the allowance outside its transaction.                            *)
(***************************************************************************)
IssuedUnderAnAllowance ==
    \A i \in DOMAIN agents : \E allowance \in onRecord[agents[i].principal] :
        Attenuates(Ceiling(allowance, agents[i].envelope), agents[i].envelope)

=============================================================================
