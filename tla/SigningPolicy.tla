--------------------------- MODULE SigningPolicy ---------------------------
(***************************************************************************)
(* What the signer signs (src/signer/validate.ts) and how a payload gets   *)
(* to it (src/signer/protocol.ts).  A payload is an EIP-3009 transfer      *)
(* authorization: its EIP-712 types are reduced to whether they are the    *)
(* expected ones, its uint256 fields to the value and the expiry.          *)
(***************************************************************************)
EXTENDS Integers

CONSTANTS
    Tokens,      \* the token contracts of the policy
    ChainIds,    \* the chains of the policy
    MaxValue,    \* maxValueAtomic
    Horizon,     \* maxValidityWindowSeconds
    Second       \* a second, in units of the clock

ASSUME PolicyAssumption ==
    /\ MaxValue \in Int
    /\ Horizon \in Int
    /\ Second \in Nat \ {0}

(* numbers says what the uint256 fields are: bigints, or what JSON makes   *)
(* of something else.                                                      *)
IsPayload(payload) ==
    /\ DOMAIN payload = {"expectedTypes", "numbers", "chain", "token", "from",
                         "value", "validBefore"}
    /\ payload.numbers \in {"bigint", "tagged", "string"}
    /\ payload.value \in Int
    /\ payload.validBefore \in Int

-----------------------------------------------------------------------------
(* The wire.  JSON has no bigint: encodeJson writes one as a tagged        *)
(* string, and decodeJson turns what is tagged, and nothing else, back.    *)

EncodeAsString(payload) == [payload EXCEPT !.numbers = "string"]    \* mutant
EncodeJson(payload) ==
    [payload EXCEPT !.numbers = IF @ = "bigint" THEN "tagged" ELSE @]

DecodeJson(line) ==
    [line EXCEPT !.numbers = IF @ = "tagged" THEN "bigint" ELSE @]

Received(payload) == DecodeJson(EncodeJson(payload))

-----------------------------------------------------------------------------
(* The clock in whole seconds, rounded down.                               *)
Seconds(now) == now \div Second

NotYetExpiredOrJust(payload, now) == payload.validBefore >= Seconds(now)    \* mutant
NotYetExpired(payload, now) == payload.validBefore > Seconds(now)

WithinHorizon(payload, now) == payload.validBefore - Seconds(now) <= Horizon

(* validateSigningRequest.                                                 *)
Accepts(payload, self, now) ==
    /\ payload.expectedTypes
    /\ payload.chain \in ChainIds
    /\ payload.token \in Tokens
    /\ payload.from = self
    /\ payload.numbers = "bigint"
    /\ payload.value <= MaxValue
    /\ NotYetExpired(payload, now)
    /\ WithinHorizon(payload, now)

-----------------------------------------------------------------------------
(* What the policy means, in the units of the clock and of the payload as  *)
(* it was before it went over the wire: a payment inside the limits, from  *)
(* the payer's own key, that the chain would still take and that it will   *)
(* not take later than the horizon.                                        *)
WithinPolicy(payload, self, now) ==
    /\ payload.expectedTypes
    /\ payload.chain \in ChainIds
    /\ payload.token \in Tokens
    /\ payload.from = self
    /\ payload.numbers # "string"
    /\ payload.value <= MaxValue
    /\ now < payload.validBefore * Second
    /\ payload.validBefore * Second <= now + Horizon * Second

=============================================================================
