------------------------------ MODULE Envelope ------------------------------
(***************************************************************************)
(* Policy envelopes (src/envelope.ts): what one agent may spend and where, *)
(* and when one envelope is no wider than another.  Amounts are BigInts in *)
(* the code and integers here; hosts, currencies and instants are taken    *)
(* from sets, so the checks that they are well formed strings are left     *)
(* out.                                                                    *)
(***************************************************************************)
EXTENDS Integers

CONSTANTS
    Amounts, Periods, Hosts, Currencies, Instants,
    NoExpiry       \* null in expiresAt

ASSUME EnvelopeAssumption ==
    /\ Amounts \subseteq Nat
    /\ Periods \subseteq Int
    /\ Instants \subseteq Int
    /\ NoExpiry \notin Instants

Envelopes == [spendCap: Amounts, period: Periods, maxPerTx: Amounts,
              hosts: SUBSET Hosts, currencies: SUBSET Currencies,
              expiresAt: Instants \cup {NoExpiry}]

(* validateEnvelope.                                                       *)
Valid(envelope) ==
    /\ envelope.period > 0
    /\ envelope.currencies # {}
    /\ envelope.maxPerTx <= envelope.spendCap

(* A cap over a window is a rate; rates are compared by cross-multiplying. *)
RateWithin(parent, child) ==
    child.spendCap * parent.period <= parent.spendCap * child.period

ExpiryWithin(parent, child) ==
    parent.expiresAt # NoExpiry =>
        /\ child.expiresAt # NoExpiry
        /\ child.expiresAt <= parent.expiresAt

Attenuates(parent, child) ==
    /\ child.spendCap <= parent.spendCap
    /\ child.maxPerTx <= parent.maxPerTx
    /\ RateWithin(parent, child)
    /\ child.hosts \subseteq parent.hosts
    /\ child.currencies \subseteq parent.currencies
    /\ ExpiryWithin(parent, child)

=============================================================================
