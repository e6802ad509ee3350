---------------------------- MODULE MCAgentStore ----------------------------
(* Two processes issue agents of two principals, up to a chain of three.   *)
EXTENDS AgentStore, TLC

CONSTANTS p1, p2, usd, eur, shop, cafe, a, b

MCEnvelope(cap, period, maxPerTx, hosts, expiresAt) ==
    [spendCap |-> cap, period |-> period, maxPerTx |-> maxPerTx, hosts |-> hosts,
     currencies |-> {usd}, expiresAt |-> expiresAt]

MCWanted == {MCEnvelope(4, 2, 2, {shop, cafe}, NoExpiry),
             MCEnvelope(2, 1, 1, {shop}, 1),            \* narrower, at the same rate
             MCEnvelope(4, 1, 2, {shop}, 1),            \* a higher rate
             MCEnvelope(1, 2, 2, {cafe}, 2)}            \* not valid

MCAllowances == {[cap |-> 4, period |-> 2, currency |-> usd],
                 [cap |-> 2, period |-> 1, currency |-> usd]}

MCSymmetry == Permutations(Processes) \cup Permutations(Principals)
=============================================================================
