------------------------------- MODULE Signer -------------------------------
(***************************************************************************)
(* The signer process (src/signer/server.ts, src/signer/cli.ts) and the    *)
(* wallet that asks it over its socket (src/socket-wallet.ts).  Every ask  *)
(* is a connection of its own with one line and one reply.  The signer may *)
(* be stopped, crash and be started again with another key; the process    *)
(* that holds the wallet may end.                                          *)
(***************************************************************************)
EXTENDS SigningPolicy

CONSTANTS
    Asks,        \* bound: the signatures that are asked for
    Keys,        \* the keys a signer may be started with, by their addresses
    Payloads,    \* what may be asked for
    Nobody       \* no key, no wallet and no payload

ASSUME SignerAssumption ==
    /\ Nobody \notin Keys
    /\ Nobody \notin Payloads
    /\ \A payload \in Payloads : IsPayload(payload)

VARIABLES
    signer,      \* "up", "closing" (its wallet locked) or "down"
    key,         \* the address of the key of the signer process, if it runs
    wallet,      \* the address the wallet learned, while it is unlocked
    ask,         \* the asks: what became of each, and its payload on the way
    verdicts     \* history: [ask, payload, signed, by, at] of the signer

signerVars == <<signer, key, wallet, ask, verdicts>>

(***************************************************************************)
(* Everything is a value of its type; a payload is on its way exactly      *)
(* while an ask waits, and asks wait only for a process that runs.         *)
(***************************************************************************)
SignerTypeOK ==
    /\ signer \in {"up", "closing", "down"}
    /\ key \in Keys \cup {Nobody}
    /\ wallet \in Keys \cup {Nobody}
    /\ ask \in [Asks -> [state: {"none", "sent", "signed", "failed", "orphaned", "unanswered"},
                         payload: Payloads \cup {Nobody}]]
    /\ \A i \in Asks : ask[i].payload # Nobody <=> ask[i].state \in {"sent", "orphaned"}
    /\ (\E i \in Asks : ask[i].payload # Nobody) => key # Nobody
    /\ key = Nobody <=> signer = "down"
    /\ verdicts \subseteq [ask: Asks, payload: Payloads, signed: BOOLEAN, by: Keys, at: Int]

Ended(state) == [state |-> state, payload |-> Nobody]

AskEnds(i, state) == ask' = [ask EXCEPT ![i] = Ended(state)]

-----------------------------------------------------------------------------
(* The wallet.                                                             *)

(* connectSignerWallet asks for the address; without an answer there is no *)
(* wallet.                                                                 *)
ConnectWallet ==
    /\ wallet = Nobody
    /\ signer = "up"
    /\ wallet' = key
    /\ UNCHANGED <<signer, key, ask, verdicts>>

(* signTypedData: it throws when locked, and when nothing listens on the   *)
(* socket of the signer.                                                   *)
SignTypedData(i, payload) ==
    /\ ask[i].state = "none"
    /\ IF wallet # Nobody /\ signer = "up"
       THEN ask' = [ask EXCEPT ![i] = [state |-> "sent", payload |-> payload]]
       ELSE AskEnds(i, "failed")
    /\ UNCHANGED <<signer, key, wallet, verdicts>>

(* The process of the wallet locks it, and ends; what it sent is on its    *)
(* way.  Between the two, asks fail as they do without a wallet.           *)
WalletGone ==
    /\ wallet' = Nobody
    /\ ask' = [i \in Asks |->
                 IF ask[i].state = "sent" THEN [ask[i] EXCEPT !.state = "orphaned"]
                                          ELSE ask[i]]
    /\ UNCHANGED <<signer, key, verdicts>>

-----------------------------------------------------------------------------
(* The signer.                                                             *)

SignerUnlocked == signer = "up"

(* handle: validate, sign, reply.  Once the wallet is locked what passes   *)
(* validation fails, too.                                                  *)
HandleSign(i, now) ==
    LET accepts == Accepts(Received(ask[i].payload), key, now)
        signs   == accepts /\ SignerUnlocked
        verdict == [ask |-> i, payload |-> ask[i].payload, signed |-> signs,
                    by |-> key, at |-> now]
    IN  /\ signer # "down"
        /\ ask[i].state \in {"sent", "orphaned"}
        /\ verdicts' = IF accepts = signs THEN verdicts \cup {verdict} ELSE verdicts
        /\ AskEnds(i, CASE ask[i].state = "orphaned" -> "unanswered"
                        [] ask[i].state = "sent" /\ signs -> "signed"
                        [] OTHER -> "failed")
        /\ UNCHANGED <<signer, key, wallet>>

(* SIGTERM: the wallet is locked, and the server stops accepting.          *)
SignerShutdown ==
    /\ signer = "up"
    /\ signer' = "closing"
    /\ UNCHANGED <<key, wallet, ask, verdicts>>

Outstanding == {i \in Asks : ask[i].state \in {"sent", "orphaned"}}

(* The process ends, when its connections are closed or by a crash.  A     *)
(* connection that is cut gives the asking side an error, or an end that   *)
(* ask does not notice.                                                    *)
SignerEnds ==
    /\ signer # "down"
    /\ signer' = "down"
    /\ key' = Nobody
    /\ \E noticed \in SUBSET {i \in Outstanding : ask[i].state = "sent"} :
          ask' = [i \in Asks |->
                    CASE i \in noticed -> Ended("failed")
                      [] i \in Outstanding \ noticed -> Ended("unanswered")
                      [] OTHER -> ask[i]]
    /\ UNCHANGED <<wallet, verdicts>>

SignerStarts ==
    /\ signer = "down"
    /\ signer' = "up"
    /\ key' \in Keys
    /\ UNCHANGED <<wallet, ask, verdicts>>

SignerInit ==
    /\ signer = "down"
    /\ key = Nobody
    /\ wallet = Nobody
    /\ ask = [i \in Asks |-> Ended("none")]
    /\ verdicts = {}

SignerStep(now) ==
    \/ ConnectWallet
    \/ \E i \in Asks : HandleSign(i, now)
    \/ SignerShutdown
    \/ SignerEnds
    \/ SignerStarts

-----------------------------------------------------------------------------
(* Properties.                                                             *)

(***************************************************************************)
(* validate.ts: whatever asked for it, a signature is a payment inside the *)
(* policy from the key that signed, and in time the chain understands: it  *)
(* has not expired when it is made and expires within the horizon,         *)
(* although the clock counts finer than seconds and the wallet may have    *)
(* learned the address of an earlier key.                                  *)
(***************************************************************************)
SignedWithinPolicy ==
    \A v \in verdicts : v.signed => WithinPolicy(v.payload, v.by, v.at)

(***************************************************************************)
(* The other way round: a payment inside the policy is not refused.  What  *)
(* the wallet sent is what is judged, its integers through JSON and back   *)
(* included (protocol.ts: "come back as bigints or not at all").           *)
(***************************************************************************)
RefusedForAReason ==
    \A v \in verdicts : ~ v.signed => ~ WithinPolicy(v.payload, v.by, v.at)

=============================================================================
