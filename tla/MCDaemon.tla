------------------------------ MODULE MCDaemon ------------------------------
(* Small instances of the daemon: a root agent and its child, two requests *)
(* that may be first tries or retries, genuine or not.                     *)
EXTENDS Daemon, TLC

CONSTANTS root, child, p1, usd, usdc, coin, base, other, shop, elsewhere, q1, q2, r1

MCCallers == {Caller(root), Caller(child)}

MCAllowances == {[cap |-> 3, period |-> 2, currency |-> usd],
                 [cap |-> 1, period |-> 1, currency |-> usd]}

MCEnvelopeOf ==
    [agent \in Agents |->
        [maxPerTx   |-> IF agent = root THEN 2 ELSE 1,
         spendCap   |-> IF agent = root THEN 2 ELSE 1,
         period     |-> 2,
         hosts      |-> {shop},
         currencies |-> {usd},
         expiresAt  |-> IF agent = root THEN None ELSE 0]]

MCParentOf == [agent \in Agents |-> root]

Claim(agent, host, ceiling, stamp, genuine, intent) ==
    [agent |-> agent, host |-> host, ceiling |-> ceiling, stamp |-> stamp,
     genuine |-> genuine, intent |-> intent]

MCClaims == {Claim(root, shop, 1, 0, TRUE, None),      \* a first try, ceiling 1
             Claim(root, shop, 2, 1, TRUE, 1),         \* a try of intent 1
             Claim(child, shop, 2, 0, TRUE, None),     \* bound by its envelope
             Claim(child, shop, 2, -2, TRUE, None),    \* stale
             Claim(root, elsewhere, 1, 0, FALSE, None)}

MCKnownAssets == <<[network |-> base, asset |-> usdc, currency |-> usd]>>

Offer(scheme, network, asset, amount) ==
    [scheme |-> scheme, network |-> network, asset |-> asset, amount |-> amount]

MCOffers == {Offer("exact", base, usdc, 1),
             Offer("exact", other, usdc, 2),           \* looked up without its network
             Offer("exact", base, coin, 1),            \* not a known asset
             Offer("upto", base, usdc, 1),
             Offer("exact", base, usdc, Malformed)}

(* For the temporal property: time stands still, one price.                *)
FewClaims == {Claim(root, shop, 1, 0, TRUE, None), Claim(child, shop, 1, 0, TRUE, 1)}

OneOffer == {Offer("exact", base, usdc, 1)}

OneAllowance == {[cap |-> 1, period |-> 1, currency |-> usd]}

MCSymmetry == Permutations(Requests)
=============================================================================
