---------------------------- MODULE SignerProofs ----------------------------
(***************************************************************************)
(* What a step of the signer and of its wallet preserves, for any asks,    *)
(* keys, payloads and policy and any reading of the clock.  Module         *)
(* LibraryProofs makes theorems of a whole host of it.                     *)
(***************************************************************************)
EXTENDS Signer, TLAPS

-----------------------------------------------------------------------------
(* The policy of the signer, in whole seconds and in units of the clock.   *)

LEMMA ProductsKeepOrder ==
  ASSUME NEW s \in Int, NEW t \in Int, NEW n \in Nat, s <= t
  PROVE  s * n <= t * n
<1>1. PICK d \in Nat : t = s + d
  <2>1. t - s \in Nat /\ t = s + (t - s)
    OBVIOUS
  <2> QED BY <2>1
<1>2. t * n = s * n + d * n
  BY <1>1
<1>3. d * n \in Nat
  BY <1>1
<1> QED BY <1>2, <1>3

(* t seconds have passed on the clock in whole seconds when they have on   *)
(* the clock itself.                                                       *)
LEMMA WholeSeconds ==
  ASSUME PolicyAssumption, NEW t \in Int, NEW now \in Int
  PROVE  t <= Seconds(now) <=> t * Second <= now
<1> DEFINE s == now \div Second
<1>1. s \in Int /\ s * Second <= now /\ now < (s + 1) * Second
  BY DEF PolicyAssumption
<1> HIDE DEF s
<1>2. ASSUME t <= s
      PROVE  t * Second <= now
  BY <1>1, <1>2, ProductsKeepOrder DEF PolicyAssumption
<1>3. ASSUME t > s
      PROVE  t * Second > now
  BY <1>1, <1>3, ProductsKeepOrder DEF PolicyAssumption
<1> QED BY <1>1, <1>2, <1>3 DEF Seconds, s

(* Received is what was sent, unless its numbers were strings before.      *)
LEMMA AcceptsWhatThePolicyAllows ==
  ASSUME PolicyAssumption, NEW payload, IsPayload(payload), NEW self, NEW now \in Int
  PROVE  Accepts(Received(payload), self, now) <=> WithinPolicy(payload, self, now)
<1> DEFINE received == Received(payload)
<1>1. /\ received.expectedTypes = payload.expectedTypes
      /\ received.chain = payload.chain
      /\ received.token = payload.token
      /\ received.from = payload.from
      /\ received.value = payload.value
      /\ received.validBefore = payload.validBefore
      /\ received.numbers = "bigint" <=> payload.numbers # "string"
  BY DEF IsPayload, Received, EncodeJson, DecodeJson
<1> HIDE DEF received
<1> DEFINE t == payload.validBefore
<1>2. t \in Int /\ Seconds(now) \in Int
  BY DEF IsPayload, Seconds, PolicyAssumption
<1>3. t > Seconds(now) <=> now < t * Second
  BY <1>2, WholeSeconds DEF PolicyAssumption
<1>4. t - Seconds(now) <= Horizon <=> t * Second <= now + Horizon * Second
  <2>1. t - Horizon <= Seconds(now) <=> (t - Horizon) * Second <= now
    BY <1>2, WholeSeconds DEF PolicyAssumption
  <2>2. (t - Horizon) * Second = t * Second - Horizon * Second
    BY <1>2 DEF PolicyAssumption
  <2>3. t * Second \in Int /\ Horizon * Second \in Int
    BY <1>2 DEF PolicyAssumption
  <2> QED BY <1>2, <2>1, <2>2, <2>3 DEF PolicyAssumption
<1>5. Accepts(received, self, now) <=> WithinPolicy(payload, self, now)
  BY <1>1, <1>2, <1>3, <1>4 DEF Accepts, NotYetExpired, WithinHorizon, WithinPolicy
<1> QED BY <1>5 DEF received

-----------------------------------------------------------------------------
(* The state of the signer.                                                *)

SignerInv == SignerTypeOK /\ SignedWithinPolicy /\ RefusedForAReason

(* A step of the signer or of the process that holds the wallet.           *)
SignerMoves(now) ==
    \/ SignerStep(now)
    \/ \E i \in Asks, payload \in Payloads : SignTypedData(i, payload)
    \/ WalletGone

LEMMA InitSignerInv ==
  ASSUME SignerAssumption, SignerInit
  PROVE  SignerInv
  BY DEF SignerAssumption, SignerInit, SignerInv, SignerTypeOK, SignedWithinPolicy,
         RefusedForAReason, Ended

(* A verdict is recorded by handle only.                                   *)
LEMMA VerdictsOfHandle ==
  ASSUME NEW now, SignerMoves(now), verdicts' # verdicts
  PROVE  \E i \in Asks : HandleSign(i, now)
  BY DEF SignerMoves, SignerStep, ConnectWallet, SignerShutdown, SignerEnds, SignerStarts,
         SignTypedData, WalletGone

(* handle judges the payload of an ask that waits, with the key it runs    *)
(* with: it signs what the policy allows and refuses what it does not.     *)
LEMMA HandleJudgesByPolicy ==
  ASSUME SignerAssumption, PolicyAssumption, SignerTypeOK, NEW now \in Int,
         NEW i \in Asks, HandleSign(i, now),
         NEW v \in verdicts' \ verdicts
  PROVE  /\ v \in [ask: Asks, payload: Payloads, signed: BOOLEAN, by: Keys, at: Int]
         /\ v.signed <=> WithinPolicy(v.payload, v.by, v.at)
         /\ v.signed => signer = "up"
<1> DEFINE accepts == Accepts(Received(ask[i].payload), key, now)
           signs   == accepts /\ SignerUnlocked
           verdict == [ask |-> i, payload |-> ask[i].payload, signed |-> signs,
                       by |-> key, at |-> now]
<1>1. v = verdict /\ accepts = signs
  BY DEF HandleSign
<1>2. ask[i].payload \in Payloads /\ key \in Keys
  BY DEF HandleSign, SignerTypeOK
<1>3. signs \in BOOLEAN
  BY DEF SignerUnlocked
<1>4. accepts <=> WithinPolicy(ask[i].payload, key, now)
  BY <1>2, AcceptsWhatThePolicyAllows DEF SignerAssumption
<1> HIDE DEF accepts
<1>5. v.payload = ask[i].payload /\ v.by = key /\ v.at = now /\ v.signed = signs /\ v.ask = i
  BY <1>1
<1> QED BY <1>1, <1>2, <1>3, <1>4, <1>5 DEF SignerUnlocked

(* An ask that ends has no payload, and one that is asked has one.         *)
LEMMA AsksKeepTheirType ==
  ASSUME SignerAssumption, SignerTypeOK, NEW i \in Asks,
         NEW state \in {"none", "signed", "failed", "unanswered"},
         AskEnds(i, state)
  PROVE  /\ ask' \in [Asks -> [state: {"none", "sent", "signed", "failed", "orphaned", "unanswered"},
                               payload: Payloads \cup {Nobody}]]
         /\ \A j \in Asks : ask'[j].payload # Nobody <=> ask'[j].state \in {"sent", "orphaned"}
         /\ \A j \in Asks : ask'[j].payload # Nobody => ask[j].payload # Nobody
  BY DEF SignerTypeOK, AskEnds, Ended

LEMMA StepSignerTypeOK ==
  ASSUME SignerAssumption, PolicyAssumption, SignerTypeOK, NEW now \in Int, SignerMoves(now)
  PROVE  SignerTypeOK'
<1>1. CASE ConnectWallet
  BY <1>1 DEF ConnectWallet, SignerTypeOK
<1>2. ASSUME NEW i \in Asks, HandleSign(i, now)
      PROVE  SignerTypeOK'
  <2>1. PICK state \in {"unanswered", "signed", "failed"} : AskEnds(i, state)
    <3>1. CASE ask[i].state = "orphaned"
      BY <1>2, <3>1 DEF HandleSign
    <3>2. CASE ask[i].state # "orphaned"
      BY <1>2, <3>2 DEF HandleSign
    <3> QED BY <3>1, <3>2
  <2>2. \A v \in verdicts' \ verdicts :
            v \in [ask: Asks, payload: Payloads, signed: BOOLEAN, by: Keys, at: Int]
    BY <1>2, HandleJudgesByPolicy
  <2>3. UNCHANGED <<signer, key, wallet>>
    BY <1>2 DEF HandleSign
  <2> QED BY <2>1, <2>2, <2>3, AsksKeepTheirType DEF SignerTypeOK
<1>3. CASE SignerShutdown
  BY <1>3 DEF SignerShutdown, SignerTypeOK
<1>4. CASE SignerEnds
  <2>1. PICK noticed \in SUBSET {i \in Outstanding : ask[i].state = "sent"} :
            ask' = [i \in Asks |->
                      CASE i \in noticed -> Ended("failed")
                        [] i \in Outstanding \ noticed -> Ended("unanswered")
                        [] OTHER -> ask[i]]
    BY <1>4 DEF SignerEnds
  <2>2. \A i \in Asks :
            \/ ask'[i] = Ended("failed") \/ ask'[i] = Ended("unanswered")
            \/ ask'[i] = ask[i] /\ i \notin Outstanding
    BY <2>1
  <2>3. \A i \in Asks : ask'[i].payload = Nobody /\ ask'[i].state \notin {"sent", "orphaned"}
    BY <2>2 DEF Ended, Outstanding, SignerTypeOK
  <2>4. ask' \in [Asks -> [state: {"none", "sent", "signed", "failed", "orphaned", "unanswered"},
                           payload: Payloads \cup {Nobody}]]
    <3>1. \A i \in Asks : ask'[i] \in
              [state: {"none", "sent", "signed", "failed", "orphaned", "unanswered"},
               payload: Payloads \cup {Nobody}]
      BY <2>2 DEF Ended, SignerTypeOK
    <3>2. ask' = [i \in Asks |-> ask'[i]]
      BY <2>1
    <3> QED BY <3>1, <3>2
  <2>5. signer' = "down" /\ key' = Nobody /\ UNCHANGED <<wallet, verdicts>>
    BY <1>4 DEF SignerEnds
  <2> QED BY <2>3, <2>4, <2>5 DEF SignerTypeOK
<1>5. CASE SignerStarts
  BY <1>5 DEF SignerStarts, SignerTypeOK, SignerAssumption
<1>6. ASSUME NEW i \in Asks, NEW payload \in Payloads, SignTypedData(i, payload)
      PROVE  SignerTypeOK'
  <2>1. CASE wallet # Nobody /\ signer = "up"
    <3>1. ask' = [ask EXCEPT ![i] = [state |-> "sent", payload |-> payload]]
      BY <1>6, <2>1 DEF SignTypedData
    <3>2. UNCHANGED <<signer, key, wallet, verdicts>>
      BY <1>6 DEF SignTypedData
    <3> QED BY <2>1, <3>1, <3>2 DEF SignerTypeOK, SignerAssumption
  <2>2. CASE ~ (wallet # Nobody /\ signer = "up")
    <3>1. AskEnds(i, "failed") /\ UNCHANGED <<signer, key, wallet, verdicts>>
      BY <1>6, <2>2 DEF SignTypedData
    <3> QED BY <3>1, AsksKeepTheirType DEF SignerTypeOK
  <2> QED BY <2>1, <2>2
<1>7. CASE WalletGone
  <2>1. \A i \in Asks :
            /\ ask'[i].payload = ask[i].payload
            /\ ask'[i].state = IF ask[i].state = "sent" THEN "orphaned" ELSE ask[i].state
    BY <1>7 DEF WalletGone, SignerTypeOK
  <2>2. ask' \in [Asks -> [state: {"none", "sent", "signed", "failed", "orphaned", "unanswered"},
                           payload: Payloads \cup {Nobody}]]
    BY <1>7 DEF WalletGone, SignerTypeOK
  <2>3. wallet' = Nobody /\ UNCHANGED <<signer, key, verdicts>>
    BY <1>7 DEF WalletGone
  <2> QED BY <2>1, <2>2, <2>3 DEF SignerTypeOK
<1> QED BY <1>1, <1>2, <1>3, <1>4, <1>5, <1>6, <1>7 DEF SignerMoves, SignerStep

LEMMA StepSignerInv ==
  ASSUME SignerAssumption, PolicyAssumption, SignerInv, NEW now \in Int, SignerMoves(now)
  PROVE  SignerInv'
<1>1. SignerTypeOK'
  BY StepSignerTypeOK DEF SignerInv
<1>2. \A v \in verdicts' \ verdicts : v.signed <=> WithinPolicy(v.payload, v.by, v.at)
  BY VerdictsOfHandle, HandleJudgesByPolicy DEF SignerInv
<1>3. SignedWithinPolicy' /\ RefusedForAReason'
  <2>1. ASSUME NEW v \in verdicts'
        PROVE  /\ v.signed => WithinPolicy(v.payload, v.by, v.at)
               /\ ~ v.signed => ~ WithinPolicy(v.payload, v.by, v.at)
    <3>1. CASE v \in verdicts
      BY <3>1 DEF SignerInv, SignedWithinPolicy, RefusedForAReason
    <3>2. CASE v \notin verdicts
      BY <1>2, <2>1, <3>2
    <3> QED BY <3>1, <3>2
  <2> QED BY <2>1 DEF SignedWithinPolicy, RefusedForAReason
<1> QED BY <1>1, <1>3 DEF SignerInv

=============================================================================
