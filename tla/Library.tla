------------------------------- MODULE Library -------------------------------
(***************************************************************************)
(* A host program that links the library, whole: it pays through the       *)
(* enforcement API (module Enforcement) with authorizations from the       *)
(* signer process (module Signer), beside the commands of the operator     *)
(* (module Commands).  The wallet lives and ends with the host, a payment  *)
(* is sent once it is signed, and all read the machine's clock.            *)
(***************************************************************************)
EXTENDS Commands, Signer

ASSUME LibraryAssumption == Asks \subseteq Payments

vars == <<enforcementVars, commandVars, signerVars>>

(* Everything is a value of its type.                                      *)
LibraryTypeOK == EnforcementTypeOK /\ CommandsTypeOK /\ SignerTypeOK

(* A host step of the enforcement API.                                     *)
Account(p) ==
    /\ \/ \E request \in PaymentRequests : Check(p, request)
       \/ ReservePool(p)
       \/ Report(p)
       \/ Reconcile(p)
       \/ Mine(p)
    /\ UNCHANGED <<commandVars, signerVars>>

(* The host asks for the signature of what it authorized, in its wallet's  *)
(* name.                                                                   *)
AskSignature(p) ==
    /\ p \in Asks
    /\ Held(p)
    /\ call[p].report = "none"
    /\ \E payload \in Payloads :
          /\ wallet # Nobody => payload.from = wallet
          /\ SignTypedData(p, payload)
    /\ UNCHANGED <<enforcementVars, commandVars>>

SendSigned(p) ==
    /\ p \in Asks => ask[p].state = "signed"
    /\ Send(p)
    /\ UNCHANGED <<commandVars, signerVars>>

HostProcessEnds ==
    /\ HostEnds
    /\ WalletGone
    /\ UNCHANGED commandVars

Sign == SignerStep(clock) /\ UNCHANGED <<enforcementVars, commandVars>>

Operate == (\E p \in Procs : CommandStep(p)) /\ UNCHANGED signerVars

Init == EnforcementInit /\ CommandsInit /\ SignerInit

Next ==
    \/ \E p \in Payments : Account(p) \/ AskSignature(p) \/ SendSigned(p)
    \/ HostProcessEnds
    \/ Sign
    \/ Operate
    \/ TimePasses /\ UNCHANGED <<commandVars, signerVars>>

Spec == Init /\ [][Next]_vars

=============================================================================
