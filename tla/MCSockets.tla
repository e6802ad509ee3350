----------------------------- MODULE MCSockets -----------------------------
(* A small instance of the socket: two of three lines, one that pays, one  *)
(* that is no request and one that is null, on two connections in any way, *)
(* cut anywhere.                                                           *)
EXTENDS Sockets

CONSTANTS root, p1, usd, usdc, base, shop, m1, junk, null, r1

MCCallers == {Caller(root)}

MCAllowances == {[cap |-> 1, period |-> 1, currency |-> usd]}

MCEnvelopeOf ==
    [agent \in Agents |-> [maxPerTx |-> 1, spendCap |-> 1, period |-> 1,
                           hosts |-> {shop}, currencies |-> {usd}, expiresAt |-> None]]

MCParentOf == [agent \in Agents |-> root]

Claim(agent, intent) ==
    [agent |-> agent, host |-> shop, ceiling |-> 1, stamp |-> 0,
     genuine |-> TRUE, intent |-> intent]

MCClaims == {Claim(root, None)}

MCKnownAssets == <<[network |-> base, asset |-> usdc, currency |-> usd]>>

MCOffers == {[scheme |-> "exact", network |-> base, asset |-> usdc, amount |-> 1]}

MCClaimIn == [message \in Messages |->
                CASE message = m1 -> Claim(root, None)
                  [] message = junk -> None
                  [] message = null -> JsonNull]
=============================================================================
