------------------------------ MODULE Commands ------------------------------
(***************************************************************************)
(* The commands of the operator (src/cli.ts) on the database of the hosts: *)
(* purser init, agent add and agent revoke.  Each is a process that first  *)
(* makes sure of its principal (src/storage.ts, ensurePrincipal), in       *)
(* statements that are transactions of their own, and may fail or be       *)
(* killed between any two statements.  All rows of principals carry the    *)
(* one label of the CLI and none is ever deleted: the ids are 1 to         *)
(* principals.  The agents the CLI issues have no parent.                  *)
(***************************************************************************)
EXTENDS Enforcement

CONSTANTS
    Procs,           \* bound: commands that run at the same time
    ThePrincipal     \* the principal of the daemon: principalId is fixed at 1

ASSUME CommandsAssumption ==
    /\ ThePrincipal = 1
    /\ Principals \subseteq Nat

VARIABLES
    principals,      \* the number of rows in the principals table
    command          \* each process: where it is, and the principal it found

commandVars == <<principals, command>>

PrincipalIds == 1..principals

NoCommand == [pc |-> "idle", principal |-> None]

(* Everything is a value of its type; a command that serves has found a    *)
(* principal.                                                              *)
CommandsTypeOK ==
    /\ principals \in Nat
    /\ command \in [Procs -> [pc: {"idle", "inserting", "inserted", "serving"},
                             principal: Nat \cup {None}]]
    /\ \A p \in Procs :
          command[p].pc = "serving" => command[p].principal \in PrincipalIds

-----------------------------------------------------------------------------
(* ensurePrincipal: a query, an insert if it found nothing, and a query.   *)

NewestRow == principals    \* mutant
(* get takes the first row of the query.  The label has no index, so the   *)
(* table is scanned, in the order of the ids.                              *)
FirstRow == CHOOSE id \in PrincipalIds : \A other \in PrincipalIds : id <= other

At(p, pc) == command[p].pc = pc

Proceeds(p, pc, principal) ==
    command' = [command EXCEPT ![p] = [pc |-> pc, principal |-> principal]]

FindsNothing(p) ==
    /\ At(p, "idle")
    /\ principals = 0
    /\ Proceeds(p, "inserting", None)
    /\ UNCHANGED <<enforcementVars, principals>>

(* The id of a new row is one more than the greatest.                      *)
InsertPrincipal(p) ==
    /\ At(p, "inserting")
    /\ principals' = principals + 1
    /\ Proceeds(p, "inserted", None)
    /\ UNCHANGED enforcementVars

(* The first query when it finds a row, and the one after the insert.      *)
FindsPrincipal(p) ==
    /\ At(p, "idle") \/ At(p, "inserted")
    /\ principals > 0
    /\ Proceeds(p, "serving", FirstRow)
    /\ UNCHANGED <<enforcementVars, principals>>

-----------------------------------------------------------------------------
(* What the commands then do.  create and its races are module AgentStore. *)

Serves(p, principal) ==
    /\ At(p, "serving")
    /\ principal = command[p].principal
    /\ command' = [command EXCEPT ![p] = NoCommand]
    /\ UNCHANGED principals

RunInit(p, principal, limit) ==
    /\ Serves(p, principal)
    /\ allowance' = [allowance EXCEPT ![principal] = limit]
    /\ UNCHANGED <<ledgerVars, call, account, revoked, onChain>>

RunAgentAdd(p, principal, agent) ==
    /\ Serves(p, principal)
    /\ allowance[principal] # None
    /\ account[agent] = None
    /\ account' = [account EXCEPT ![agent] = principal]
    /\ UNCHANGED <<ledgerVars, call, allowance, revoked, onChain>>

RunAgentRevoke(p, principal, agent) ==
    /\ Serves(p, principal)
    /\ account[agent] = principal
    /\ revoked' = revoked \cup {agent}
    /\ UNCHANGED <<ledgerVars, call, allowance, account, onChain>>

(* The command fails (a flag is missing, an agent is not found), is killed *)
(* or only lists, wherever it is.                                          *)
CommandEnds(p) ==
    /\ ~ At(p, "idle")
    /\ command' = [command EXCEPT ![p] = NoCommand]
    /\ UNCHANGED <<enforcementVars, principals>>

-----------------------------------------------------------------------------
CommandsInit ==
    /\ principals = 0
    /\ command = [p \in Procs |-> NoCommand]

CommandStep(p) ==
    \/ FindsNothing(p)
    \/ InsertPrincipal(p)
    \/ FindsPrincipal(p)
    \/ \E principal \in Principals :
          \/ \E limit \in Allowances : RunInit(p, principal, limit)
          \/ \E agent \in Agents :
                \/ RunAgentAdd(p, principal, agent)
                \/ RunAgentRevoke(p, principal, agent)
    \/ CommandEnds(p)

-----------------------------------------------------------------------------
(***************************************************************************)
(* The label is not unique and nothing keeps two first commands from both  *)
(* inserting a row, but all commands, those that inserted a second row     *)
(* included, end up with the principal the gate serves (principalId is 1   *)
(* there): the allowance of init and the agents of agent add are where     *)
(* payments look for them.                                                 *)
(***************************************************************************)
OneAccount ==
    /\ \A principal \in Principals :
          allowance[principal] # None => principal = ThePrincipal
    /\ \A agent \in Agents : account[agent] \in {None, ThePrincipal}

=============================================================================
